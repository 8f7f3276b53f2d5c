--------------------------- MODULE VotingRequests ---------------------------
(***************************************************************************)
(* The handlers of the room as the workers of the web server run them.  A  *)
(* handler loads the session and checks what it needs without a lock, and  *)
(* writes later: a transaction.atomic block, or a single statement.        *)
(* Between the two, other requests commit.  A request is therefore two     *)
(* steps: a read, which keeps what the handler goes by from then on, and a *)
(* write, which applies the effect that VotingRoom defines to the rows as  *)
(* they are by then.  A request may also end without a write (a database   *)
(* error, a worker that is stopped).                                       *)
(*                                                                         *)
(* The tasks of the project do not change here, other rooms leave their    *)
(* estimates alone, and rooms are not deleted.                             *)
(***************************************************************************)
EXTENDS VotingRoom

CONSTANTS Workers,  \* the threads that handle requests
          Idle      \* a worker without a request

VARIABLE request    \* what the handler in each worker has read

allVars == <<vars, request>>

Focus == Tasks \cup {NoTask}

\* What a handler remembers of its reads, by handler.
Requests ==
    [op : {"queue_add"}, tasks : SUBSET Tasks, active : BOOLEAN, cur : Focus]
    \cup [op : {"start"}, cur : Focus]
    \cup [op : {"start_task", "navigate"}, t : Tasks]
    \cup [op : {"reveal", "revote", "accept"}, t : Tasks, n : Numbers]
    \cup [op : {"archive", "restore"}]
    \cup [op : {"join"}, p : Participants, t : Focus]
    \cup [op : {"vote"}, p : Participants, t : Tasks, n : Numbers, v : Cards]
    \cup [op : {"complete"}, p : Participants]

RequestsTypeOK == TypeOK /\ request \in [Workers -> Requests \cup {Idle}]

Begin(w, r) ==
    /\ request[w] = Idle
    /\ request' = [request EXCEPT ![w] = r]

-----------------------------------------------------------------------------
(***************************************************************************)
(* Reads: the checks of each handler before it writes.                     *)
(***************************************************************************)

ReadQueueAdd(w, T) ==
    /\ Unfinished /\ Unestimated(T)
    /\ Begin(w, [op |-> "queue_add", tasks |-> T,
                 active |-> status = "active", cur |-> currentTask])
    /\ UNCHANGED vars

ReadStart(w) ==
    /\ Unfinished
    /\ Begin(w, [op |-> "start", cur |-> currentTask])
    /\ UNCHANGED vars

ReadStartTask(w, t) ==
    /\ CanStartTask(t)
    /\ Begin(w, [op |-> "start_task", t |-> t])
    /\ UNCHANGED vars

ReadNavigate(w, direction) ==
    /\ NavigationTargets(direction) # {}
    /\ Begin(w, [op |-> "navigate", t |-> NavigationTarget(direction)])
    /\ UNCHANGED vars

\* The handlers that act on the round in focus keep the round they found.
BeginOnFocus(w, op, n) ==
    /\ Begin(w, [op |-> op, t |-> currentTask, n |-> n])
    /\ UNCHANGED vars

ReadReveal(w) ==
    LET n == FocusRound(currentTask)
    IN  CanReveal(currentTask, n) /\ BeginOnFocus(w, "reveal", n)

ReadRevote(w) ==
    LET n == FocusRound(currentTask)
    IN  CanRevote(currentTask, n) /\ BeginOnFocus(w, "revote", n)

ReadAccept(w) ==
    LET n == FocusRound(currentTask)
    IN  CanAccept(currentTask, n) /\ BeginOnFocus(w, "accept", n)

ReadArchive(w) ==
    /\ status = "finished" /\ ~archived
    /\ Begin(w, [op |-> "archive"])
    /\ UNCHANGED vars

ReadRestore(w) ==
    /\ archived
    /\ Begin(w, [op |-> "restore"])
    /\ UNCHANGED vars

ReadJoin(w, p) ==
    /\ Unfinished /\ p \notin joined
    /\ Begin(w, [op |-> "join", p |-> p,
                 t |-> FirstOrNone(IF Active # {} THEN Active ELSE Queue)])
    /\ UNCHANGED vars

\* _participant_queue_item saves the cursor while the handler still reads.
SaveCursorOnly(p, t) ==
    /\ SaveCursor(p, t)
    /\ UNCHANGED <<roomVars, queueVars, roundStatus, votes, joined, completed,
                   taskVars>>

ReadVote(w, p, v) ==
    LET t == QueueItem(p)
    IN  /\ CanVote(p, t, currentRound[t])
        /\ Begin(w, [op |-> "vote", p |-> p, t |-> t, n |-> currentRound[t],
                     v |-> v])
        /\ SaveCursorOnly(p, t)

ReadComplete(w, p) ==
    LET t == QueueItem(p)
    IN  /\ CanComplete(p, t)
        /\ Begin(w, [op |-> "complete", p |-> p])
        /\ SaveCursorOnly(p, t)

Read(w) ==
    \/ \E T \in SUBSET Tasks : ReadQueueAdd(w, T)
    \/ ReadStart(w)
    \/ \E t \in Tasks : ReadStartTask(w, t)
    \/ \E d \in Directions : ReadNavigate(w, d)
    \/ ReadReveal(w) \/ ReadRevote(w) \/ ReadAccept(w)
    \/ ReadArchive(w) \/ ReadRestore(w)
    \/ \E p \in Participants :
          \/ ReadJoin(w, p) \/ ReadComplete(w, p)
          \/ \E v \in Cards : ReadVote(w, p, v)

-----------------------------------------------------------------------------
(***************************************************************************)
(* Writes.                                                                 *)
(***************************************************************************)

\* The effect of request r, on the rows as they are now.
Effect(r) ==
    \/ r.op = "queue_add" /\ AddToQueue(r.tasks, r.active, r.cur)
    \/ r.op = "start" /\ OpenQueue(r.cur)
    \/ r.op = "start_task" /\ OpenTask(r.t)
    \/ r.op = "navigate" /\ FocusOn(r.t)
    \/ r.op = "reveal" /\ RevealRound(r.t, r.n)
    \/ r.op = "revote" /\ RevoteRound(r.t, r.n)
    \/ r.op = "accept" /\ AcceptRound(r.t, r.n)
    \/ r.op = "archive" /\ SetArchived(TRUE)
    \/ r.op = "restore" /\ SetArchived(FALSE)
    \/ r.op = "join" /\ Join(r.p, r.t)
    \/ r.op = "vote" /\ CastVote(r.p, r.t, r.n, r.v) /\ UNCHANGED cursor
    \/ r.op = "complete" /\ MarkComplete(r.p) /\ UNCHANGED cursor

Write(w) ==
    /\ request[w] # Idle
    /\ Effect(request[w])
    /\ request' = [request EXCEPT ![w] = Idle]

\* The request ends without a write.
Fail(w) ==
    /\ request[w] # Idle
    /\ request' = [request EXCEPT ![w] = Idle]
    /\ UNCHANGED vars

\* Handlers whose checks and writes do not come apart: session_finish checks
\* nothing; a poll and a participant's move only write that participant's
\* cursor; a room is created before anybody knows it.
AtOnce ==
    /\ \/ \E T \in SUBSET Tasks : SessionCreate(T)
       \/ SessionFinish
       \/ \E p \in Participants :
             \/ RoomState(p)
             \/ \E d \in Directions \cup {"missing"} : RoomNavigate(p, d)
    /\ UNCHANGED request

RequestsInit == Init /\ request = [w \in Workers |-> Idle]

RequestsNext == AtOnce \/ \E w \in Workers : Read(w) \/ Write(w) \/ Fail(w)

RequestsSpec == RequestsInit /\ [][RequestsNext]_allVars

-----------------------------------------------------------------------------
(***************************************************************************)
(* What holds however the requests interleave.                             *)
(***************************************************************************)

\* session_reveal counts the votes before it writes, without a lock; still no
\* result is shown or accepted with fewer votes than the room's minimum, and
\* the room leaves no such result in the backlog (views.py:1244-1323).
QuorumBehindResults ==
    /\ \A t \in Tasks, n \in Numbers :
          roundStatus[t][n] \in {"revealed", "closed"} =>
              VoteCount(votes[t][n]) >= MinVotes
    /\ \A t \in Tasks :
          estimate[t] \in Summaries => estimate[t].count >= MinVotes

\* The rounds of a task are numbered without gaps and its queue item points at
\* the newest one (_create_round_for_item, views.py:238-257).
RoundsNumbered ==
    \A t \in Tasks :
        /\ \A n \in Numbers : roundStatus[t][n] # "none" <=> n <= LastOf(roundStatus[t])
        /\ currentRound[t] = LastOf(roundStatus[t])

\* The cards are final once they are shown: "Можно изменить выбор до раскрытия."
\* (poker/static/js/room.js:196).
VotesFrozenOnceShown ==
    [][\A t \in Tasks, n \in Numbers :
          roundStatus[t][n] \in {"revealed", "closed"} =>
              votes'[t][n] = votes[t][n]]_allVars

\* A finished session is not taken up again: "Завершённую сессию нельзя
\* продолжить." (poker/views.py:1156 and 1218).
FinishedStaysFinished ==
    [][status = "finished" => status' = "finished"]_allVars

=============================================================================
