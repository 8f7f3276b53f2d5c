---------------------------- MODULE DataTransfer ----------------------------
(***************************************************************************)
(* Moving the data of an instance into another database: an export of one  *)
(* snapshot, and an import in one transaction, which keeps the keys.  The  *)
(* two applications may be running, though they should not.                *)
(*                                                                         *)
(* There are two tables, and a row of the second refers to the row of the  *)
(* first with the same key.  The file is not read but compared with its    *)
(* digest, so it is what the export wrote; schemas are equal.              *)
(***************************************************************************)
EXTENDS Naturals, FiniteSets, FiniteSetsExt

CONSTANTS MaxKey,  \* bound: primary keys
          NoRows   \* no file, no snapshot, no transaction

ASSUME TransferAssumption == MaxKey \in Nat

Tables == {1, 2}
Keys == 1..MaxKey

\* A row: exact, or with a value that the database did not keep as it was.
Row == [table : Tables, key : Keys, exact : BOOLEAN]

VARIABLES
    origin,    \* rows of the database that is exported
    snapshot,  \* what the transaction of the export sees of them
    captured,  \* the tables it has read
    bundle,    \* the rows it has read; the file, when all tables are read
    target,    \* committed rows of the other database
    sequence,  \* the last key that each sequence of the target gave
    work,      \* rows as the transaction of the import sees them
    applied    \* IMPORT_VERIFIED was written

exportVars == <<origin, snapshot, captured, bundle>>
importVars == <<target, sequence, work, applied>>
transferVars == <<exportVars, importVars>>

TransferTypeOK ==
    /\ origin \subseteq Row
    /\ snapshot \in SUBSET Row \cup {NoRows}
    /\ captured \subseteq Tables
    /\ bundle \subseteq Row
    /\ target \subseteq Row
    /\ sequence \in [Tables -> 0..MaxKey]
    /\ work \in SUBSET Row \cup {NoRows}
    /\ applied \in BOOLEAN

-----------------------------------------------------------------------------
RowOf(m, k) == [table |-> m, key |-> k, exact |-> TRUE]

Pair(k) == {RowOf(1, k), RowOf(2, k)}

\* Every row of the second table has the row it refers to.
\* (connection.check_constraints)
References(rows) ==
    \A r \in rows : r.table = 2 => \E q \in rows : q.table = 1 /\ q.key = r.key

File == captured = Tables

\* The application at the origin adds or deletes rows, in transactions.
OriginWrites(k) ==
    /\ origin' \in {origin \cup {RowOf(1, k)}, origin \cup Pair(k), origin \ Pair(k)}
    /\ UNCHANGED <<snapshot, captured, bundle, importVars>>

\* snapshot: REPEATABLE READ, READ ONLY.
ExportBegun ==
    /\ snapshot = NoRows /\ ~File
    /\ snapshot' = origin
    /\ captured' = {} /\ bundle' = {}
    /\ UNCHANGED <<origin, importVars>>

Seen(m) == {r \in snapshot : r.table = m}

\* One turn of the loop of capture; with the last table the file is written,
\* once (O_EXCL).
TableCaptured(m) ==
    /\ snapshot # NoRows /\ captured = 1..(m - 1)
    /\ captured' = captured \cup {m}
    /\ bundle' = bundle \cup Seen(m)
    /\ snapshot' = IF m = 2 THEN NoRows ELSE snapshot
    /\ UNCHANGED <<origin, importVars>>

ExportAborted ==
    /\ snapshot # NoRows
    /\ snapshot' = NoRows /\ captured' = {} /\ bundle' = {}
    /\ UNCHANGED <<origin, importVars>>

-----------------------------------------------------------------------------
\* The application at the target adds a row, with the next key of the sequence.
\* A transaction of the import keeps it out (LOCK TABLE ... EXCLUSIVE).
TargetWrites(m) ==
    /\ work = NoRows /\ sequence[m] < MaxKey
    /\ sequence' = [sequence EXCEPT ![m] = @ + 1]
    /\ IF \E r \in target : r.table = m /\ r.key = sequence'[m]
       THEN UNCHANGED target
       ELSE /\ m = 2 => RowOf(1, sequence'[m]) \in target
            /\ target' = target \cup {RowOf(m, sequence'[m])}
    /\ UNCHANGED <<exportVars, work, applied>>

\* require_empty_target, under the lock.
ImportBegun ==
    /\ File /\ work = NoRows /\ target = {}
    /\ work' = {}
    /\ UNCHANGED <<exportVars, target, sequence, applied>>

\* A row is saved, by the application's own model, as it is or not quite.
RowSaved(r) ==
    /\ work # NoRows
    /\ r \in bundle /\ ~ \E q \in work : q.table = r.table /\ q.key = r.key
    /\ work' \in {work \cup {r}, work \cup {[r EXCEPT !.exact = FALSE]}}
    /\ UNCHANGED <<exportVars, target, sequence, applied>>

\* verify_records: numbers and digests of the rows of each table agree.
Verified(rows) == rows = bundle

\* Mutant of Advanced: the sequences stay where they are.
NotAdvanced(rows) == sequence

\* sequence_reset_sql: behind the largest key of each table.
Advanced(rows) ==
    [m \in Tables |->
        LET keys == {r.key : r \in {q \in rows : q.table = m}}
        IN IF keys = {} THEN 0 ELSE Max(keys)]

\* The rest of import_records: constraints, comparison, sequences.
ImportCommitted ==
    /\ work # NoRows
    /\ References(work) /\ Verified(work)
    /\ target' = work
    /\ sequence' = Advanced(work)
    /\ applied' = TRUE
    /\ work' = NoRows
    /\ UNCHANGED exportVars

\* A row is refused, the comparison fails, the connection is lost.  The
\* sequences, which are set last, are not rolled back.
ImportAborted ==
    /\ work # NoRows
    /\ work' = NoRows
    /\ \/ UNCHANGED sequence
       \/ Verified(work) /\ sequence' = Advanced(work)
    /\ UNCHANGED <<exportVars, target, applied>>

-----------------------------------------------------------------------------
TransferInit ==
    /\ origin = {} /\ snapshot = NoRows /\ captured = {} /\ bundle = {}
    /\ target = {} /\ sequence = [m \in Tables |-> 0]
    /\ work = NoRows /\ applied = FALSE

Export ==
    \/ ExportBegun \/ ExportAborted
    \/ \E m \in Tables : TableCaptured(m)

Importing ==
    \/ ImportBegun \/ ImportCommitted \/ ImportAborted
    \/ \E r \in Row : RowSaved(r)

TransferNext ==
    \/ \E k \in Keys : OriginWrites(k)
    \/ Export \/ Importing
    \/ \E m \in Tables : TargetWrites(m)

TransferSpec == TransferInit /\ [][TransferNext]_transferVars

-----------------------------------------------------------------------------
\* The file is a state that the origin was in, whatever was written meanwhile:
\* no row in it refers to one that is not.  After IMPORT_VERIFIED the target
\* holds all of it, unchanged, and nothing that was there before; the next rows
\* of the application get new keys.
\* (data_transfer.py:72-89 and 190-210)
TransferWhole ==
    /\ File => References(bundle)
    /\ applied => bundle \subseteq target /\ References(target)
    /\ applied => \A r \in target : r.key <= sequence[r.table]
    /\ \A r \in target : r.exact
    /\ applied => \A r \in target \ bundle, q \in bundle :
                      r.table = q.table => r.key > q.key

=============================================================================
