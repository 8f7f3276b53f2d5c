--------------------------- MODULE SprintRequests ---------------------------
(***************************************************************************)
(* The handlers of sprints as the workers of the web server run them.  A   *)
(* handler loads the sprint and checks its status without a lock; it       *)
(* writes later, in one statement or in a transaction that holds the lock  *)
(* on the project.  The lock orders the transactions that plan tasks, but  *)
(* the status of a sprint is not read again under it.                      *)
(*                                                                         *)
(* The tasks of the project do not change here.                            *)
(***************************************************************************)
EXTENDS SprintPlanning

CONSTANTS Workers,  \* the threads that handle requests
          Idle      \* a worker without a request

VARIABLE request    \* what the handler in each worker has read

allVars == <<vars, request>>

OpenStatus == {"planning", "active"}

\* What a handler remembers of its reads, by handler.
Requests ==
    [op : {"add"}, s : Sprints, tasks : SUBSET Tasks]
    \cup [op : {"remove"}, s : Sprints, t : Tasks]
    \cup [op : {"set_status"}, s : Sprints, to : SprintStatus]
    \cup [op : {"archive", "restore"}, s : Sprints]
    \cup [op : {"transfer"}, s : Sprints, target : Sprints, tasks : SUBSET Tasks]
    \cup [op : {"capacity"}, s : Sprints, status : OpenStatus, name : Names]

RequestsTypeOK == TypeOK /\ request \in [Workers -> Requests \cup {Idle}]

Begin(w, r) ==
    /\ request[w] = Idle
    /\ request' = [request EXCEPT ![w] = r]
    /\ UNCHANGED vars

-----------------------------------------------------------------------------
(***************************************************************************)
(* Reads: the checks of each handler before it writes.                     *)
(***************************************************************************)

ReadAdd(w, s, T) ==
    Open(s) /\ Begin(w, [op |-> "add", s |-> s, tasks |-> T])

ReadRemove(w, s, t) ==
    CanRemove(s, t) /\ Begin(w, [op |-> "remove", s |-> s, t |-> t])

ReadSetStatus(w, s, to) ==
    /\ Exists(s) /\ s \notin archived
    /\ Begin(w, [op |-> "set_status", s |-> s, to |-> to])

ReadArchive(w, s) ==
    /\ status[s] = "completed" /\ s \notin archived
    /\ Begin(w, [op |-> "archive", s |-> s])

ReadRestore(w, s) ==
    s \in archived /\ Begin(w, [op |-> "restore", s |-> s])

ReadTransfer(w, s, target, T) ==
    /\ CanTransfer(s, target)
    /\ Begin(w, [op |-> "transfer", s |-> s, target |-> target, tasks |-> T])

\* sprint_capacity_update keeps the whole row.
ReadCapacity(w, s) ==
    /\ Open(s)
    /\ Begin(w, [op |-> "capacity", s |-> s, status |-> status[s],
                 name |-> name[s]])

Read(w) ==
    \E s \in Sprints :
        \/ \E T \in SUBSET Tasks :
              \/ ReadAdd(w, s, T)
              \/ \E target \in Sprints : ReadTransfer(w, s, target, T)
        \/ \E t \in Tasks : ReadRemove(w, s, t)
        \/ \E to \in SprintStatus : ReadSetStatus(w, s, to)
        \/ ReadArchive(w, s) \/ ReadRestore(w, s) \/ ReadCapacity(w, s)

-----------------------------------------------------------------------------
(***************************************************************************)
(* Writes.                                                                 *)
(***************************************************************************)

\* sprint_capacity_update saves every field it has read; a row that is gone
\* is inserted again.
SaveSprint(s, st, n) ==
    /\ status' = [status EXCEPT ![s] = st]
    /\ archived' = archived \ {s}
    /\ name' = [name EXCEPT ![s] = n]
    /\ UNCHANGED linkVars

\* The effect of request r, on the rows as they are now.
Effect(r) ==
    \/ r.op = "add" /\ AddTasks(r.s, r.tasks)
    \/ r.op = "remove" /\ RemoveTask(r.s, r.t)
    \/ r.op = "set_status" /\ SetStatus(r.s, r.to)
    \/ r.op = "archive" /\ SetArchived(r.s, TRUE)
    \/ r.op = "restore" /\ SetArchived(r.s, FALSE)
    \/ r.op = "transfer" /\ TransferTasks(r.s, r.target, r.tasks)
    \/ r.op = "capacity" /\ SaveSprint(r.s, r.status, r.name)

\* A row that goes takes the requests to remove it with it: a row that takes
\* its place has another key.
RowGone(r) == r.op = "remove" /\ item'[r.s][r.t] = "none"

Kept(pending) ==
    [w \in Workers |->
        IF pending[w] # Idle /\ RowGone(pending[w]) THEN Idle ELSE pending[w]]

Write(w) ==
    /\ request[w] # Idle
    /\ Effect(request[w])
    /\ request' = Kept([request EXCEPT ![w] = Idle])

\* The request ends without a write: a database error, a worker that stops.
Fail(w) ==
    /\ request[w] # Idle
    /\ request' = [request EXCEPT ![w] = Idle]
    /\ UNCHANGED vars

\* Handlers whose checks and writes do not come apart: creating and copying
\* check nothing, deleting only needs the row, an import reads everything
\* under the lock.
AtOnce ==
    /\ \/ \E n \in Names :
             SprintCreate(n) \/ \E s \in Sprints : SprintCopy(s, n)
       \/ \E s \in Sprints : SprintDelete(s)
       \/ Import
    /\ request' = Kept(request)

RequestsInit == Init /\ request = [w \in Workers |-> Idle]

RequestsNext == AtOnce \/ \E w \in Workers : Read(w) \/ Write(w) \/ Fail(w)

RequestsSpec == RequestsInit /\ [][RequestsNext]_allVars

-----------------------------------------------------------------------------
(***************************************************************************)
(* Properties, beside those of SprintPlanning.                             *)
(***************************************************************************)

\* A deleted sprint is gone: test_organizer_can_delete_sprint_without_
\* deleting_tasks (tests/test_views.py:1470-1476).
DeletedStaysDeleted ==
    [][\A s \in Sprints : status[s] = "deleted" => status'[s] = "deleted"]_allVars

=============================================================================
