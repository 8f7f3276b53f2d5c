----------------------------- MODULE ImportSlot -----------------------------
(***************************************************************************)
(* At most one import runs on the host.  The views that take files enter a *)
(* slot before they do anything; the parser, which they call, enters it    *)
(* again.  The slot is a lock on a file (flock), held by an open           *)
(* descriptor, so that two entries of one process exclude each other as    *)
(* those of two processes do; that a thread is inside is noted in a        *)
(* variable of its context (_admitted), which outlives its requests.  The  *)
(* parser is a process of its own, limited in time.                        *)
(***************************************************************************)
EXTENDS Naturals

CONSTANTS Threads,    \* the threads that handle requests
          Processes,  \* the processes of the web server
          ProcessOf,  \* Threads -> Processes
          NoThread    \* nobody holds the lock

ASSUME SlotAssumption ==
    ProcessOf \in [Threads -> Processes] /\ NoThread \notin Threads

VARIABLES
    stage,     \* where the request of each thread is
    admitted,  \* _admitted of the context of each thread
    flock,     \* the thread whose descriptor holds the lock
    refused,   \* threads whose last import was refused because of another one
    orphans    \* parsers whose web process was killed: how many of each thread

slotVars == <<stage, admitted, flock, refused, orphans>>

\* "view": inside the view, before a file is parsed; "parsing": waiting for the
\* parser; "parsed": after it.
Stages == {"idle", "view", "parsing", "parsed"}

SlotTypeOK ==
    /\ stage \in [Threads -> Stages]
    /\ admitted \in [Threads -> BOOLEAN]
    /\ flock \in Threads \cup {NoThread}
    /\ refused \subseteq Threads
    /\ orphans \in [Threads -> 0..1]

-----------------------------------------------------------------------------
\* import_slot: nested entries are free, others need the lock.
Admission(r) ==
    IF admitted[r] THEN "nested"
    ELSE IF flock = NoThread THEN "first" ELSE "busy"

Entered(r) ==
    /\ admitted' = [admitted EXCEPT ![r] = TRUE]
    /\ flock' = IF Admission(r) = "first" THEN r ELSE flock

\* bounded_import_view: the view runs inside the slot, or the answer is 429.
EnterView(r) ==
    /\ stage[r] = "idle"
    /\ IF Admission(r) = "busy"
       THEN /\ refused' = refused \cup {r}
            /\ UNCHANGED <<stage, admitted, flock>>
       ELSE /\ stage' = [stage EXCEPT ![r] = "view"]
            /\ refused' = refused \ {r}
            /\ Entered(r)
    /\ UNCHANGED orphans

\* parse_import.  When it is refused, so is the form.
StartParser(r) ==
    /\ stage[r] = "view"
    /\ IF Admission(r) = "busy"
       THEN /\ refused' = refused \cup {r}
            /\ stage' = [stage EXCEPT ![r] = "parsed"]
       ELSE /\ stage' = [stage EXCEPT ![r] = "parsing"]
            /\ UNCHANGED refused
    /\ UNCHANGED <<admitted, flock, orphans>>

\* The parser ends: with a result, with a status, or killed for its memory.
ParserEnds(r) ==
    /\ stage[r] = "parsing"
    /\ stage' = [stage EXCEPT ![r] = "parsed"]
    /\ UNCHANGED <<admitted, flock, refused, orphans>>

\* Mutant of ParserTimeout: the parser is waited for.
ParserWaitedFor(r) == FALSE /\ ParserEnds(r)

\* WALL_SECONDS have passed: the parser is killed and its result thrown away.
ParserTimeout(r) == ParserEnds(r)

\* Mutant of LeaveView: _admitted is not reset.
LeaveAdmitted(r) ==
    /\ stage[r] \in {"view", "parsed"}
    /\ stage' = [stage EXCEPT ![r] = "idle"]
    /\ flock' = NoThread
    /\ UNCHANGED <<admitted, refused, orphans>>

\* The view returns or raises: on both ways _admitted is reset and the
\* descriptor closed.
LeaveView(r) ==
    /\ stage[r] \in {"view", "parsed"}
    /\ stage' = [stage EXCEPT ![r] = "idle"]
    /\ admitted' = [admitted EXCEPT ![r] = FALSE]
    /\ flock' = NoThread
    /\ UNCHANGED <<refused, orphans>>

\* A web process is killed, with all its threads.  The kernel closes its
\* descriptors; the parser has none of them (O_CLOEXEC) and runs on until its
\* own limit of processor time.
ProcessKilled(p) ==
    LET killed == {r \in Threads : ProcessOf[r] = p}
    IN /\ stage' = [r \in Threads |-> IF r \in killed THEN "idle" ELSE stage[r]]
       /\ admitted' = [r \in Threads |-> admitted[r] /\ r \notin killed]
       /\ flock' = IF flock \in killed THEN NoThread ELSE flock
       /\ refused' = refused \ killed
       /\ orphans' = [r \in Threads |->
                        IF r \in killed /\ stage[r] = "parsing" THEN 1 ELSE orphans[r]]

OrphanEnds(r) ==
    /\ orphans[r] > 0
    /\ orphans' = [orphans EXCEPT ![r] = 0]
    /\ UNCHANGED <<stage, admitted, flock, refused>>

-----------------------------------------------------------------------------
SlotInit ==
    /\ stage = [r \in Threads |-> "idle"]
    /\ admitted = [r \in Threads |-> FALSE]
    /\ flock = NoThread
    /\ refused = {}
    /\ orphans = [r \in Threads |-> 0]

SlotNext ==
    \/ \E r \in Threads :
          \/ EnterView(r) \/ LeaveView(r)
          \/ StartParser(r) \/ ParserEnds(r) \/ ParserTimeout(r)
          \/ OrphanEnds(r)
    \/ \E p \in Processes : ProcessKilled(p)

\* A view that has begun goes on; a parser need not end, but its time does.
SlotFairness ==
    \A r \in Threads : WF_slotVars(LeaveView(r)) /\ WF_slotVars(ParserTimeout(r))

SlotSpec == SlotInit /\ [][SlotNext]_slotVars /\ SlotFairness

-----------------------------------------------------------------------------
\* One request at a time is inside the slot, it is the one that holds the lock,
\* and it is never turned away by its own lock.  (import_process.py:44-76)
SlotExclusive ==
    /\ \A r \in Threads : admitted[r] <=> stage[r] # "idle"
    /\ \A r \in Threads : admitted[r] <=> flock = r
    /\ \A r \in refused : ~admitted[r]

\* Whatever happens to the view, the parser and the process, the slot is free
\* again: no import blocks all later ones.
SlotReleased == \A r \in Threads : flock = r ~> flock # r

=============================================================================
