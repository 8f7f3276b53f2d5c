----------------------------- MODULE VotingRoom -----------------------------
(***************************************************************************)
(* One voting room (VotingSession) with its queue, its rounds, its votes   *)
(* and its participants, and the tasks of the project it draws on.  Every  *)
(* request handler of poker/views.py that changes this state is one action *)
(* and runs alone; VotingRequests lets the handlers interleave.            *)
(*                                                                         *)
(* The room is addressed by its tasks: itemStatus[t], position[t] and      *)
(* currentRound[t] are the VotingSessionTask row of task t (position 0: no *)
(* row), roundStatus[t][n] and votes[t][n] are the VotingRound number n of *)
(* task t and its Vote rows.                                               *)
(***************************************************************************)
EXTENDS Ballot

CONSTANTS Tasks,        \* the tasks the project may hold
          Gated,        \* those whose readiness depends on EVA analysis
          InFile,       \* bound: those that EVA files have rows for
          Managed,      \* bound: those closed, reopened or deleted by hand, or
                        \* accepted in another room
          NoTask,       \* a null foreign key to a task
          NoSummary,    \* a task without an estimate
          Imported,     \* a task whose estimate came from EVA
          MinVotes,     \* VotingSession.minimum_participants
          MaxRounds,    \* bound: rounds of one task in the room
          MaxPosition   \* bound: positions given out in the queue

ASSUME RoomAssumption ==
    /\ IsFiniteSet(Tasks)
    /\ Gated \subseteq InFile /\ InFile \subseteq Tasks
    /\ Managed \subseteq Tasks
    /\ NoTask \notin Tasks
    /\ MinVotes \in Nat \ {0}
    /\ MaxRounds \in Nat \ {0}
    /\ MaxPosition \in Nat \ {0}
    /\ NoSummary \notin Summaries /\ Imported \notin Summaries
    /\ NoSummary # Imported

VARIABLES
    status,        \* VotingSession.status, "none" before it is created
    archived,      \* VotingSession.archived_at is set
    currentTask,   \* VotingSession.current_task: the organiser's focus
    position,      \* VotingSessionTask.position, 0 outside the queue
    itemStatus,    \* VotingSessionTask.status
    currentRound,  \* number of VotingSessionTask.current_round, 0 for null
    roundStatus,   \* VotingRound.status by task and number
    votes,         \* the ballot of each round
    joined,        \* the participants of the room
    cursor,        \* Participant.current_task
    completed,     \* participants whose completed_at is set
    backlog,       \* the tasks that exist in the project
    done,          \* Task.completed_at is set
    ready,         \* EvaReadiness.check allows the task
    estimate       \* Task.estimate and its aggregates

roomVars == <<status, archived, currentTask>>
queueVars == <<position, itemStatus, currentRound>>
peopleVars == <<joined, cursor, completed>>
taskVars == <<backlog, done, ready, estimate>>
vars == <<roomVars, queueVars, roundStatus, votes, peopleVars, taskVars>>

Numbers == 1 .. MaxRounds
SessionStatus == {"none", "draft", "active", "finished"}
ItemStatus == {"none", "pending", "active", "completed", "skipped"}
RoundStatus == {"none", "voting", "revealed", "closed", "cancelled"}
OpenStatus == {"voting", "revealed"}
Estimates == Summaries \cup {NoSummary, Imported}

TypeOK ==
    /\ status \in SessionStatus
    /\ archived \in BOOLEAN
    /\ currentTask \in Tasks \cup {NoTask}
    /\ position \in [Tasks -> 0 .. MaxPosition]
    /\ itemStatus \in [Tasks -> ItemStatus]
    /\ currentRound \in [Tasks -> 0 .. MaxRounds]
    /\ roundStatus \in [Tasks -> [Numbers -> RoundStatus]]
    /\ votes \in [Tasks -> [Numbers -> Ballots]]
    /\ joined \subseteq Participants
    /\ cursor \in [Participants -> Tasks \cup {NoTask}]
    /\ completed \subseteq Participants
    /\ backlog \subseteq Tasks
    /\ done \in [Tasks -> BOOLEAN]
    /\ ready \in [Tasks -> BOOLEAN]
    /\ estimate \in [Tasks -> Estimates]

-----------------------------------------------------------------------------
\* The queue, in the order of its positions.

Queue == {t \in Tasks : position[t] # 0}

Active == {t \in Queue : itemStatus[t] = "active"}

\* .first() and .last() of a set of queue items, by position.
First(S, pos) == CHOOSE t \in S : \A u \in S : pos[t] <= pos[u]
Last(S) == CHOOSE t \in S : \A u \in S : position[u] <= position[t]

\* .first() when there may be no item.
FirstOrNone(S) == IF S = {} THEN NoTask ELSE First(S, position)

After(t) == {u \in Queue : position[u] > position[t]}
Before(t) == {u \in Queue : position[u] < position[t]}

\* A new round, and a place in the queue, need an open task that is ready.
Allowed(t) == ~done[t] /\ ready[t]
AllowedTasks == {t \in Tasks : Allowed(t)}

\* Max("position") of the queue, 0 when it is empty.
LastPosition ==
    CHOOSE k \in 0 .. MaxPosition :
        /\ \A t \in Tasks : position[t] <= k
        /\ k = 0 \/ \E t \in Tasks : position[t] = k

\* Mutant of Numberings: the position is not advanced from item to item.
SamePlace(new) == [new -> {LastPosition + 1}]

\* The ways to number a set of new items from LastPosition + 1 upwards.
Numberings(new) ==
    LET next == (LastPosition + 1) .. (LastPosition + Cardinality(new))
    IN  {f \in [new -> next] : \A t, u \in new : f[t] = f[u] => t = u}

\* _add_tasks_to_queue: those of T that are not queued and are allowed, at the
\* end of the queue.  The order among them is the order in which they came.
Addable(T) == {t \in T : position[t] = 0 /\ Allowed(t)}

Enqueue(new) ==
    /\ LastPosition + Cardinality(new) <= MaxPosition
    /\ \E f \in Numberings(new) :
          position' = [t \in Tasks |-> IF t \in new THEN f[t] ELSE position[t]]

WithPending(new) ==
    [t \in Tasks |-> IF t \in new THEN "pending" ELSE itemStatus[t]]

-----------------------------------------------------------------------------
\* Rounds.

\* Max("number") of the rounds of a task in the room, 0 when it has none.
LastOf(rounds) ==
    CHOOSE n \in 0 .. MaxRounds :
        /\ n = 0 \/ rounds[n] # "none"
        /\ \A m \in Numbers : m > n => rounds[m] = "none"

\* Mutant of LastNumber: cancelled rounds are not counted.
LastLiveNumber(t) ==
    LastOf([n \in Numbers |-> IF roundStatus[t][n] = "cancelled"
                              THEN "none" ELSE roundStatus[t][n]])

LastNumber(t) == LastOf(roundStatus[t])

\* Mutants of CompletedAfter: nobody is called back; everybody always is.
CompletedKept(opened) == completed
CompletedCleared(opened) == {}

\* _reset_participant_completions, once for each new round.
CompletedAfter(opened) == IF opened = {} THEN completed ELSE {}

\* _create_round_for_item, for every item of S: the next round number, the
\* item becomes active, and everybody's completion is withdrawn.  items and
\* rounds are the rows as the request has left them so far.
CreateRounds(items, rounds, S) ==
    /\ \A t \in S : LastNumber(t) < MaxRounds
    /\ itemStatus' = [t \in Tasks |-> IF t \in S THEN "active" ELSE items[t]]
    /\ currentRound' =
          [t \in Tasks |-> IF t \in S THEN LastNumber(t) + 1
                                      ELSE currentRound[t]]
    /\ roundStatus' =
          [t \in Tasks |-> [n \in Numbers |->
              IF t \in S /\ n = LastNumber(t) + 1 THEN "voting"
                                                  ELSE rounds[t][n]]]
    /\ completed' = CompletedAfter(S)

\* _open_pending_queue_items, after position' is known.  cur is the current
\* task of the VotingSession object the handler holds.
OpenPending(items, cur, allowed) ==
    LET opening == {t \in allowed : items[t] \in {"pending", "skipped"}}
        active == {t \in Tasks : t \in opening \/ items[t] = "active"}
    IN  /\ CreateRounds(items, roundStatus, opening)
        /\ IF active = {}
           THEN UNCHANGED <<currentTask, status>>
           ELSE /\ currentTask' = IF cur \in active THEN cur
                                  ELSE First(active, position')
                /\ status' = "active"

\* VotingSession.current_round: the open round of the current item, or else
\* the latest open round of the current task; 0 for None.
FocusRound(t) ==
    LET open == {n \in Numbers : roundStatus[t][n] \in OpenStatus}
    IN  IF t = NoTask THEN 0
        ELSE IF position[t] # 0 /\ currentRound[t] \in open THEN currentRound[t]
        ELSE IF open = {} THEN 0
        ELSE CHOOSE n \in open : \A m \in open : m <= n

SetRound(t, n, s) == [roundStatus EXCEPT ![t][n] = s]

-----------------------------------------------------------------------------
(***************************************************************************)
(* The organiser's handlers.                                               *)
(***************************************************************************)

\* The draft room that session_create or session_copy leaves, with those of
\* the tasks T that can be voted on.
NewRoom(T) ==
    /\ status = "none"
    /\ status' = "draft"
    /\ Enqueue(Addable(T))
    /\ itemStatus' = WithPending(Addable(T))
    /\ UNCHANGED <<archived, currentTask, currentRound, roundStatus, votes,
                   peopleVars, taskVars>>

\* session_create: the form offers the tasks without an estimate.
SessionCreate(T) ==
    /\ \A t \in T : t \in backlog /\ estimate[t] = NoSummary /\ Allowed(t)
    /\ NewRoom(T)

\* session_copy: the copy takes over the queue of another room, of estimated
\* tasks too.
SessionCopy(T) == T \subseteq backlog /\ NewRoom(T)

\* session_queue_add: open tasks without an estimate; an active room starts
\* voting on everything that waits.  active and cur are the status and the
\* current task of the VotingSession object the handler holds.
AddToQueue(T, active, cur) ==
    /\ Enqueue(Addable(T))
    /\ IF active
       THEN OpenPending(WithPending(Addable(T)), cur, AllowedTasks)
       ELSE /\ itemStatus' = WithPending(Addable(T))
            /\ UNCHANGED <<status, currentTask, currentRound, roundStatus,
                           completed>>
    /\ UNCHANGED <<archived, votes, joined, cursor, taskVars>>

Unfinished == status \in {"draft", "active"}

Unestimated(T) ==
    \A t \in T : t \in backlog /\ estimate[t] = NoSummary /\ ~done[t]

SessionQueueAdd(T) ==
    /\ Unfinished /\ Unestimated(T)
    /\ AddToQueue(T, status = "active", currentTask)

\* session_start
OpenQueue(cur) ==
    /\ UNCHANGED position
    /\ OpenPending(itemStatus, cur, AllowedTasks)
    /\ UNCHANGED <<archived, votes, joined, cursor, taskVars>>

SessionStart == Unfinished /\ OpenQueue(currentTask)

\* session_start_task: the organiser jumps to task t, opening a round for it
\* unless one is open.
OpenTask(t) ==
    LET new == IF position[t] = 0 THEN {t} ELSE {}
        open == currentRound[t] # 0
                /\ roundStatus[t][currentRound[t]] \in OpenStatus
    IN  /\ Enqueue(new)
        /\ CreateRounds(WithPending(new), roundStatus,
                        IF open THEN {} ELSE {t})
        /\ currentTask' = t
        /\ status' = "active"
        /\ UNCHANGED <<archived, votes, joined, cursor, taskVars>>

CanStartTask(t) == Unfinished /\ t \in backlog /\ Allowed(t)

SessionStartTask(t) == CanStartTask(t) /\ OpenTask(t)

\* Mutant of NavigationTargets: closed items are not passed over.
QueueTargets(direction) ==
    IF currentTask \notin Queue THEN Queue
    ELSE IF direction = "next" THEN After(currentTask) ELSE Before(currentTask)

\* session_navigate: to the neighbouring open item, or to the first one when
\* the focus is not on an open item.  The target is among these, if any.
NavigationTargets(direction) ==
    IF currentTask \notin Active THEN Active
    ELSE Active \cap (IF direction = "next" THEN After(currentTask)
                                            ELSE Before(currentTask))

NavigationTarget(direction) ==
    LET targets == NavigationTargets(direction)
    IN  IF currentTask \in Active /\ direction = "previous"
        THEN Last(targets) ELSE First(targets, position)

FocusOn(t) ==
    /\ currentTask' = t
    /\ UNCHANGED <<status, archived, queueVars, roundStatus, votes, peopleVars,
                   taskVars>>

SessionNavigate(direction) ==
    /\ NavigationTargets(direction) # {}
    /\ FocusOn(NavigationTarget(direction))

\* Mutant of CanReveal: one vote less is enough.
CanRevealOneShort(t, n) ==
    /\ n # 0
    /\ roundStatus[t][n] = "voting"
    /\ VoteCount(votes[t][n]) + 1 >= MinVotes

\* session_reveal
CanReveal(t, n) ==
    /\ n # 0
    /\ roundStatus[t][n] = "voting"
    /\ VoteCount(votes[t][n]) >= MinVotes

RevealRound(t, n) ==
    /\ roundStatus' = SetRound(t, n, "revealed")
    /\ UNCHANGED <<roomVars, queueVars, votes, peopleVars, taskVars>>

SessionReveal ==
    LET n == FocusRound(currentTask)
    IN  CanReveal(currentTask, n) /\ RevealRound(currentTask, n)

\* session_revote
CanRevote(t, n) == n # 0 /\ roundStatus[t][n] = "revealed" /\ Allowed(t)

\* Mutant of RevoteRound: the round it replaces stays revealed.
RevoteKeepingRound(t, n) ==
    /\ position[t] # 0
    /\ CreateRounds(itemStatus, roundStatus, {t})
    /\ UNCHANGED <<roomVars, position, votes, joined, cursor, taskVars>>

RevoteRound(t, n) ==
    /\ position[t] # 0
    /\ CreateRounds(itemStatus, SetRound(t, n, "cancelled"), {t})
    /\ UNCHANGED <<roomVars, position, votes, joined, cursor, taskVars>>

SessionRevote ==
    LET n == FocusRound(currentTask)
    IN  CanRevote(currentTask, n) /\ RevoteRound(currentTask, n)

\* session_accept, with capture_estimate and _focus_next_open_item: the next
\* open item after this one, or else the first open item, or else none.
CanAccept(t, n) == n # 0 /\ roundStatus[t][n] = "revealed"

AcceptRound(t, n) ==
    LET others == Active \ {t}
        ahead == others \cap After(t)
    IN  /\ position[t] # 0 /\ VoteCount(votes[t][n]) # 0
        /\ estimate' = [estimate EXCEPT ![t] = Summary(votes[t][n])]
        /\ roundStatus' = SetRound(t, n, "closed")
        /\ itemStatus' = [itemStatus EXCEPT ![t] = "completed"]
        /\ currentTask' = FirstOrNone(IF ahead # {} THEN ahead ELSE others)
        /\ UNCHANGED <<status, archived, position, currentRound, votes,
                       peopleVars, backlog, done, ready>>

SessionAccept ==
    LET n == FocusRound(currentTask)
    IN  CanAccept(currentTask, n) /\ AcceptRound(currentTask, n)

\* session_finish: every open round is cancelled, every open item skipped.
SessionFinish ==
    /\ status # "none"
    /\ roundStatus' =
          [t \in Tasks |-> [n \in Numbers |->
              IF roundStatus[t][n] \in OpenStatus THEN "cancelled"
                                                  ELSE roundStatus[t][n]]]
    /\ itemStatus' =
          [t \in Tasks |-> IF itemStatus[t] = "active" THEN "skipped"
                                                       ELSE itemStatus[t]]
    /\ currentTask' = NoTask
    /\ status' = "finished"
    /\ UNCHANGED <<archived, position, currentRound, votes, peopleVars,
                   taskVars>>

\* session_archive and session_restore
SetArchived(value) ==
    /\ archived' = value
    /\ UNCHANGED <<status, currentTask, queueVars, roundStatus, votes,
                   peopleVars, taskVars>>

SessionArchive == status = "finished" /\ ~archived /\ SetArchived(TRUE)

SessionRestore == archived /\ SetArchived(FALSE)

NoRounds == [n \in Numbers |-> "none"]
NoVotes == [n \in Numbers |-> EmptyBallot]

\* session_delete, with the rows that the deletion cascades to.
SessionDelete ==
    /\ status # "none"
    /\ status' = "none" /\ archived' = FALSE /\ currentTask' = NoTask
    /\ position' = [t \in Tasks |-> 0]
    /\ itemStatus' = [t \in Tasks |-> "none"]
    /\ currentRound' = [t \in Tasks |-> 0]
    /\ roundStatus' = [t \in Tasks |-> NoRounds]
    /\ votes' = [t \in Tasks |-> NoVotes]
    /\ joined' = {} /\ completed' = {}
    /\ cursor' = [p \in Participants |-> NoTask]
    /\ UNCHANGED taskVars

-----------------------------------------------------------------------------
(***************************************************************************)
(* The participants' handlers.                                             *)
(***************************************************************************)

HasVoted(p, t) == currentRound[t] # 0 /\ votes[t][currentRound[t]][p] # NoVote

\* The items whose current round has no vote of p (_participant_queue_summary).
Missing(p) == {t \in Queue : ~HasVoted(p, t)}

AllVoted(p) == Queue # {} /\ Missing(p) = {}

\* _participant_queue_item: the item under the cursor, or else the first open
\* item, or else the first item; the choice is saved as the cursor.
QueueItem(p) ==
    IF cursor[p] \in Queue THEN cursor[p]
    ELSE IF Active # {} THEN First(Active, position)
    ELSE FirstOrNone(Queue)

SaveCursor(p, t) ==
    cursor' = IF t = NoTask THEN cursor ELSE [cursor EXCEPT ![p] = t]

\* room_join: a name that is not taken.  The cursor starts on the first open
\* item, or else on the first item.
Join(p, t) ==
    /\ p \notin joined
    /\ joined' = joined \cup {p}
    /\ cursor' = [cursor EXCEPT ![p] = t]
    /\ UNCHANGED <<roomVars, queueVars, roundStatus, votes, completed, taskVars>>

\* Mutant of RoomJoin: a finished room is not closed.
JoinAnyRoom(p) ==
    /\ status # "none"
    /\ Join(p, FirstOrNone(IF Active # {} THEN Active ELSE Queue))

RoomJoin(p) ==
    /\ Unfinished
    /\ Join(p, FirstOrNone(IF Active # {} THEN Active ELSE Queue))

\* room_state, polled by room.js: the cursor is placed if it was not.  A vote,
\* a move or a completion that is refused has the same effect.
RoomState(p) ==
    /\ p \in joined
    /\ SaveCursor(p, QueueItem(p))
    /\ UNCHANGED <<roomVars, queueVars, roundStatus, votes, joined, completed,
                   taskVars>>

\* Mutant of CanVote: a vote may be changed until the round is cancelled.
CanVoteLate(p, t, n) ==
    /\ p \in joined /\ p \notin completed
    /\ t # NoTask /\ n # 0
    /\ roundStatus[t][n] \notin {"none", "cancelled"}

\* room_vote
CanVote(p, t, n) ==
    /\ p \in joined /\ p \notin completed
    /\ t # NoTask /\ n # 0
    /\ roundStatus[t][n] = "voting"

CastVote(p, t, n, v) ==
    /\ votes' = [votes EXCEPT ![t][n][p] = v]
    /\ UNCHANGED <<roomVars, queueVars, roundStatus, joined, completed,
                   taskVars>>

RoomVote(p, v) ==
    LET t == QueueItem(p)
    IN  /\ CanVote(p, t, currentRound[t])
        /\ CastVote(p, t, currentRound[t], v)
        /\ SaveCursor(p, t)

\* room_navigate
MoveTargets(p, direction) ==
    CASE direction = "missing" -> Missing(p)
      [] direction = "next" -> After(QueueItem(p))
      [] direction = "previous" -> Before(QueueItem(p))

CanNavigate(p, direction) ==
    /\ p \in joined /\ p \notin completed
    /\ QueueItem(p) # NoTask /\ MoveTargets(p, direction) # {}

RoomNavigate(p, direction) ==
    LET targets == MoveTargets(p, direction)
    IN  /\ CanNavigate(p, direction)
        /\ cursor' = [cursor EXCEPT ![p] =
                         IF direction = "previous" THEN Last(targets)
                                                   ELSE First(targets, position)]
        /\ UNCHANGED <<roomVars, queueVars, roundStatus, votes, joined,
                       completed, taskVars>>

\* room_complete: on the last item, with a vote in the current round of every
\* item.
CanComplete(p, t) ==
    /\ p \in joined
    /\ t # NoTask
    /\ status = "active" /\ currentRound[t] # 0
    /\ After(t) = {}
    /\ AllVoted(p)

MarkComplete(p) ==
    /\ completed' = completed \cup {p}
    /\ UNCHANGED <<roomVars, queueVars, roundStatus, votes, joined, taskVars>>

RoomComplete(p) ==
    LET t == QueueItem(p)
    IN  CanComplete(p, t) /\ MarkComplete(p) /\ SaveCursor(p, t)

-----------------------------------------------------------------------------
(***************************************************************************)
(* The project around the room.                                            *)
(***************************************************************************)

\* task_complete and task_reopen
TaskComplete(t) ==
    /\ t \in backlog /\ ~done[t]
    /\ done' = [done EXCEPT ![t] = TRUE]
    /\ UNCHANGED <<roomVars, queueVars, roundStatus, votes, peopleVars, backlog,
                   ready, estimate>>

TaskReopen(t) ==
    /\ t \in backlog /\ done[t]
    /\ done' = [done EXCEPT ![t] = FALSE]
    /\ UNCHANGED <<roomVars, queueVars, roundStatus, votes, peopleVars, backlog,
                   ready, estimate>>

\* session_accept in another room of the project that has queued the task too:
\* Task.capture_estimate leaves the summary of the votes there.
AcceptElsewhere(t) ==
    /\ t \in backlog
    /\ \E summary \in Summaries :
          /\ summary.count # 0
          /\ estimate' = [estimate EXCEPT ![t] = summary]
    /\ UNCHANGED <<roomVars, queueVars, roundStatus, votes, peopleVars, backlog,
                   done, ready>>

\* EvaReadiness.check for all tasks: those that wait for analysis are ready as
\* r says, the others always.
Readiness(r) == [u \in Tasks |-> u \in Gated => r[u]]

\* task_competency_update: the type of a task decides whether it waits for
\* analysis and whether other tasks wait for it.
TaskCompetencyUpdate(r) ==
    /\ ready' = Readiness(r)
    /\ UNCHANGED <<roomVars, queueVars, roundStatus, votes, peopleVars, backlog,
                   done, estimate>>

\* task_delete: the queue item and the rounds with their votes go with the
\* task, the foreign keys of the room and of the participants become null.
\* Tasks that waited for it may be ready as r says.
TaskDelete(t, r) ==
    /\ t \in backlog
    /\ backlog' = backlog \ {t}
    /\ done' = [done EXCEPT ![t] = FALSE]
    /\ estimate' = [estimate EXCEPT ![t] = NoSummary]
    /\ position' = [position EXCEPT ![t] = 0]
    /\ itemStatus' = [itemStatus EXCEPT ![t] = "none"]
    /\ currentRound' = [currentRound EXCEPT ![t] = 0]
    /\ roundStatus' = [roundStatus EXCEPT ![t] = NoRounds]
    /\ votes' = [votes EXCEPT ![t] = NoVotes]
    /\ currentTask' = IF currentTask = t THEN NoTask ELSE currentTask
    /\ cursor' = [p \in Participants |->
                     IF cursor[p] = t THEN NoTask ELSE cursor[p]]
    /\ ready' = Readiness(r)
    /\ UNCHANGED <<status, archived, joined, completed>>

\* A voted task is one with an open round; an import leaves it alone.  (One with
\* an open round in another room too: then the import has the effect of
\* TaskCompetencyUpdate, if any.)
Voted(t) == \E n \in Numbers : roundStatus[t][n] \in OpenStatus

\* save_sprint_import as far as the room sees it, for a file with a row for t
\* (a longer file does this row by row): t is created or updated unless it is
\* being voted on.  closed is the row's status, hours what it says of the
\* estimate, r the readiness that results for the tasks waiting for analysis.
ImportRow(t, closed, hours, r) ==
    /\ ready' = Readiness(r)
    /\ IF Voted(t)
       THEN UNCHANGED <<backlog, done, estimate>>
       ELSE /\ backlog' = backlog \cup {t}
            /\ done' = [done EXCEPT ![t] = closed]
            /\ estimate' = [estimate EXCEPT ![t] =
                               CASE hours = "zero" -> NoSummary
                                 [] hours = "positive" -> Imported
                                 [] hours = "blank" -> estimate[t]]

\* task_import_file and sprint_import
TaskImport(t, closed, hours, r) ==
    /\ ImportRow(t, closed, hours, r)
    /\ UNCHANGED <<roomVars, queueVars, roundStatus, votes, peopleVars>>

\* session_import_file: the row is saved; a task that is left without an
\* estimate, open, ready and outside any sprint joins the queue, and if it
\* does an active room starts voting on everything that waits.
SessionImportFile(t, closed, hours, r, planned) ==
    /\ Unfinished
    /\ ImportRow(t, closed, hours, r)
    /\ LET new == IF /\ ~Voted(t) /\ ~planned /\ position[t] = 0
                     /\ estimate'[t] = NoSummary /\ ~done'[t] /\ ready'[t]
                  THEN {t} ELSE {}
       IN  /\ Enqueue(new)
           /\ IF new # {} /\ status = "active"
              THEN OpenPending(WithPending(new), currentTask,
                               {u \in Tasks : ~done'[u] /\ ready'[u]})
              ELSE /\ itemStatus' = WithPending(new)
                   /\ UNCHANGED <<status, currentTask, currentRound,
                                  roundStatus, completed>>
    /\ UNCHANGED <<archived, votes, joined, cursor>>

-----------------------------------------------------------------------------

Init ==
    /\ status = "none" /\ archived = FALSE /\ currentTask = NoTask
    /\ position = [t \in Tasks |-> 0]
    /\ itemStatus = [t \in Tasks |-> "none"]
    /\ currentRound = [t \in Tasks |-> 0]
    /\ roundStatus = [t \in Tasks |-> NoRounds]
    /\ votes = [t \in Tasks |-> NoVotes]
    /\ joined = {} /\ completed = {}
    /\ cursor = [p \in Participants |-> NoTask]
    /\ backlog = Tasks
    /\ done = [t \in Tasks |-> FALSE]
    /\ ready = [t \in Tasks |-> t \notin Gated]
    /\ estimate = [t \in Tasks |-> NoSummary]

Hours == {"zero", "positive", "blank"}
Directions == {"previous", "next"}

Organiser ==
    \/ \E T \in SUBSET Tasks :
          SessionCreate(T) \/ SessionCopy(T) \/ SessionQueueAdd(T)
    \/ SessionStart
    \/ \E t \in Tasks : SessionStartTask(t)
    \/ \E d \in Directions : SessionNavigate(d)
    \/ SessionReveal \/ SessionRevote \/ SessionAccept \/ SessionFinish
    \/ SessionArchive \/ SessionRestore \/ SessionDelete

Participant(p) ==
    \/ RoomJoin(p) \/ RoomState(p) \/ RoomComplete(p)
    \/ \E v \in Cards : RoomVote(p, v)
    \/ \E d \in Directions \cup {"missing"} : RoomNavigate(p, d)

Project ==
    \/ \E t \in Managed : TaskComplete(t) \/ TaskReopen(t) \/ AcceptElsewhere(t)
    \/ \E t \in Managed, r \in [Gated -> BOOLEAN] : TaskDelete(t, r)
    \/ \E r \in [Gated -> BOOLEAN] : TaskCompetencyUpdate(r)
    \/ \E t \in InFile :
          \E closed \in BOOLEAN, hours \in Hours, r \in [Gated -> BOOLEAN] :
              \/ TaskImport(t, closed, hours, r)
              \/ \E planned \in BOOLEAN :
                    SessionImportFile(t, closed, hours, r, planned)

Next == Organiser \/ (\E p \in Participants : Participant(p)) \/ Project

Spec == Init /\ [][Next]_vars

-----------------------------------------------------------------------------
(***************************************************************************)
(* What the handlers keep, when each of them runs alone.                   *)
(***************************************************************************)

\* A queue item with the rounds of its task.
Matches(item, cur, rounds) ==
    /\ cur = LastOf(rounds)
    /\ \A n \in Numbers :
          rounds[n] \in OpenStatus => n = cur /\ item = "active"
    /\ item \in {"none", "pending"} <=> cur = 0
    /\ item = "active" => rounds[cur] \in OpenStatus
    /\ item = "completed" => rounds[cur] = "closed"
    /\ item = "skipped" => rounds[cur] = "cancelled"

\* The queue and the rounds tell one story: the status of an item is that of
\* its latest round, which is its current round, and no older round is open.
\* Two tables are updated by six handlers to keep it (views.py:238-286,
\* 1213-1345); an open round that is not current can be neither voted on,
\* revealed nor accepted, and blocks imports of its task.
ItemsMatchRounds ==
    \A t \in Tasks : Matches(itemStatus[t], currentRound[t], roundStatus[t])

\* Every queue item has a place of its own and every place an item of an
\* existing task; the cursors point into the queue (views.py:208-229, 394-406).
QueueInOrder ==
    /\ \A t \in Tasks : /\ position[t] # 0 <=> itemStatus[t] # "none"
                        /\ position[t] # 0 => t \in backlog
    /\ \A t, u \in Queue : position[t] = position[u] => t = u
    /\ \A p \in Participants : cursor[p] # NoTask => cursor[p] \in Queue

\* Voting happens only in an active room, and the organiser's focus is on an
\* open item or nowhere: reveal, revote and accept act on what is voted on.
\* A finished room has nothing open, and only a finished room is archived.
VotingOnlyWhileActive ==
    /\ \A t \in Tasks : itemStatus[t] = "active" => status = "active"
    /\ currentTask # NoTask => itemStatus[currentTask] = "active"
    /\ archived => status = "finished"

\* A participant who has finished has a vote in the current round of every
\* item: a task added or voted on again takes the completion back
\* (_reset_participant_completions, views.py:232-235, room_complete).
CompletedVotedAll ==
    \A p \in completed : p \in joined /\ Missing(p) = {}

\* A line of the room's export: the item is completed and its current round is
\* closed; the result is computed anew from the votes (views.py:65-91).
Exported(t) ==
    /\ itemStatus[t] = "completed"
    /\ roundStatus[t][currentRound[t]] = "closed"

ExportSummary(t) == Summary(votes[t][currentRound[t]])

\* Every line of the room's export is what session_accept once wrote to the
\* backlog.  It appears with the estimate that is accepted in the same step, and
\* stays as it is, whatever imports or other rooms make of the estimate, until
\* the room votes on the task again: "Выгрузка использует принятый раунд
\* выбранной комнаты независимо от более поздних оценок этой задачи в других
\* комнатах" (docs/user-guide.md:16, models.py:286-298).
ExportStep ==
    \A t \in Tasks :
        /\ Exported(t)' => \/ Exported(t) /\ ExportSummary(t)' = ExportSummary(t)
                           \/ estimate'[t] = ExportSummary(t)'
        /\ Exported(t) /\ ~Exported(t)' =>
              \/ currentRound'[t] > currentRound[t]
              \/ t \notin backlog' \/ status' = "none"

ExportKeepsAccepted == [][ExportStep]_vars

\* A finished room stays finished until it is deleted: nobody joins or votes,
\* nobody's completion changes and no round opens again.  Only deleted tasks
\* take their rounds with them
\* (test_finished_room_rejects_votes_and_new_participants,
\* tests/test_access_boundaries.py:230).
FinishedIsFinal ==
    [][status = "finished" /\ status' # "none" =>
          /\ status' = "finished"
          /\ joined' = joined /\ completed' = completed
          /\ \A t \in backlog' \cap backlog :
                votes'[t] = votes[t] /\ roundStatus'[t] = roundStatus[t]]_vars

\* A participant's completion is taken back only when there is something new
\* to vote on, or with the room.
CompletionKeptUntilNewRound ==
    [][\A p \in completed \ completed' :
          \/ status' = "none"
          \/ \E t \in Queue' : ~HasVoted(p, t)']_vars

\* Each round of the room is a round as module Round specifies it: this is
\* AbstractRound(t, n)!Spec for all t and n, with the steps of all rounds in
\* one action, for one handler may move several rounds.
AbstractRound(t, n) ==
    INSTANCE Round WITH status <- roundStatus[t][n], ballot <- votes[t][n]

ImplementsRounds ==
    /\ \A t \in Tasks, n \in Numbers : AbstractRound(t, n)!Init
    /\ [][\A t \in Tasks, n \in Numbers :
             \/ AbstractRound(t, n)!Next
             \/ UNCHANGED <<roundStatus[t][n], votes[t][n]>>]_vars

\* All estimates accepted in the room can be exported from it: "Из комнаты
\* организатора можно выгрузить все принятые оценки" (docs/user-guide.md:16).
\* While a task is voted on again its result may be open; when the room is
\* finished it is not.  The export takes completed items with a closed current
\* round (_session_estimate_export_rows, views.py:65-91).
AcceptedIsExported ==
    status = "finished" =>
        \A t \in Queue :
            (\E n \in Numbers : roundStatus[t][n] = "closed") => Exported(t)

=============================================================================
