-------------------------- MODULE VotingRoomProofs --------------------------
(***************************************************************************)
(* The types and the safety invariants of VotingRoom, for every number of  *)
(* tasks and participants and all bounds.                                  *)
(*                                                                         *)
(* The invariants hold together or not at all: that nobody votes in a      *)
(* finished room needs VotingOnlyWhileActive and ItemsMatchRounds, which   *)
(* need that the organiser's focus is on an open item, which needs that    *)
(* the queue is kept.  CompletedVotedAll is not inductive without          *)
(* NobodyDoneInDraft: the queue of a draft grows without calling anybody   *)
(* back.                                                                   *)
(***************************************************************************)
EXTENDS VotingRoom, SumsAndEstimates

(***************************************************************************)
(* The queries of the queue and the rounds.                                *)
(***************************************************************************)

\* .first() of a queue that is not empty is one of its items, with the
\* smallest position.
LEMMA FirstIn ==
    ASSUME NEW S \in SUBSET Tasks, S # {}, NEW pos \in [Tasks -> Nat]
    PROVE  /\ First(S, pos) \in S
           /\ \A u \in S : pos[First(S, pos)] <= pos[u]
<1> DEFINE P == {pos[t] : t \in S}
<1>1. P \in SUBSET Nat /\ P # {}
  OBVIOUS
<1>2. PICK m \in P : \A n \in P : m <= n
  BY <1>1, SmallestOf
<1>3. \E t \in S : \A u \in S : pos[t] <= pos[u]
  BY <1>2
<1>. QED
  BY <1>3 DEF First

\* .last() likewise.
LEMMA LastIn ==
    ASSUME RoomAssumption, position \in [Tasks -> 0 .. MaxPosition],
           NEW S \in SUBSET Tasks, S # {}
    PROVE  Last(S) \in S
<1> DEFINE P == {position[t] : t \in S}
<1>1. P \in SUBSET (0 .. MaxPosition) /\ P # {} /\ MaxPosition \in Nat
  BY DEF RoomAssumption
<1>2. PICK m \in P : \A n \in P : n <= m
  BY <1>1, LargestOf
<1>3. \E t \in S : \A u \in S : position[u] <= position[t]
  BY <1>2
<1>. QED
  BY <1>3 DEF Last

\* The last position bounds every position.
LEMMA LastPositionBounds ==
    ASSUME RoomAssumption, position \in [Tasks -> 0 .. MaxPosition]
    PROVE  /\ LastPosition \in 0 .. MaxPosition
           /\ \A t \in Tasks : position[t] <= LastPosition
<1> DEFINE P == {position[t] : t \in Tasks}
           IsLast(k) == /\ \A t \in Tasks : position[t] <= k
                        /\ k = 0 \/ \E t \in Tasks : position[t] = k
<1>1. \E k \in 0 .. MaxPosition : IsLast(k)
  <2>1. CASE Tasks = {}
    BY <2>1 DEF RoomAssumption
  <2>2. CASE Tasks # {}
    <3>1. P \in SUBSET (0 .. MaxPosition) /\ P # {} /\ MaxPosition \in Nat
      BY <2>2 DEF RoomAssumption
    <3>2. PICK k \in P : \A n \in P : n <= k
      BY <3>1, LargestOf
    <3>3. k \in 0 .. MaxPosition /\ IsLast(k)
      BY <3>1, <3>2
    <3>. QED
      BY <3>3
  <2>. QED
    BY <2>1, <2>2
<1>2. LastPosition = CHOOSE k \in 0 .. MaxPosition : IsLast(k)
  BY DEF LastPosition
<1>3. LastPosition \in 0 .. MaxPosition /\ IsLast(LastPosition)
  BY <1>1, <1>2
<1>. QED
  BY <1>3

\* The last number of a task's rounds: it is taken, unless there is no round,
\* and no number after it is.
LEMMA LastOfIs ==
    ASSUME RoomAssumption, NEW rounds \in [Numbers -> RoundStatus]
    PROVE  /\ LastOf(rounds) \in 0 .. MaxRounds
           /\ LastOf(rounds) = 0 \/ rounds[LastOf(rounds)] # "none"
           /\ \A m \in Numbers : m > LastOf(rounds) => rounds[m] = "none"
<1> DEFINE N == {n \in Numbers : rounds[n] # "none"}
           IsLast(n) ==
              /\ n = 0 \/ rounds[n] # "none"
              /\ \A m \in Numbers : m > n => rounds[m] = "none"
<1>1. \E n \in 0 .. MaxRounds : IsLast(n)
  <2>1. CASE N = {}
    BY <2>1 DEF RoomAssumption
  <2>2. CASE N # {}
    <3>1. N \in SUBSET (0 .. MaxRounds) /\ MaxRounds \in Nat
      BY DEF RoomAssumption, Numbers
    <3>2. PICK n \in N : \A m \in N : m <= n
      BY <2>2, <3>1, LargestOf
    <3>3. n \in 0 .. MaxRounds /\ IsLast(n)
      BY <3>1, <3>2 DEF Numbers
    <3>. QED
      BY <3>3
  <2>. QED
    BY <2>1, <2>2
<1>2. LastOf(rounds) = CHOOSE n \in 0 .. MaxRounds : IsLast(n)
  BY DEF LastOf
<1>3. LastOf(rounds) \in 0 .. MaxRounds /\ IsLast(LastOf(rounds))
  BY <1>1, <1>2
<1>. QED
  BY <1>3

\* It is the only number of which that can be said.
LEMMA LastOfUnique ==
    ASSUME RoomAssumption, NEW rounds \in [Numbers -> RoundStatus],
           NEW k \in 0 .. MaxRounds,
           k = 0 \/ rounds[k] # "none",
           \A m \in Numbers : m > k => rounds[m] = "none"
    PROVE  LastOf(rounds) = k
<1>1. /\ LastOf(rounds) \in 0 .. MaxRounds
      /\ LastOf(rounds) = 0 \/ rounds[LastOf(rounds)] # "none"
      /\ \A m \in Numbers : m > LastOf(rounds) => rounds[m] = "none"
  BY LastOfIs
<1>2. MaxRounds \in Nat
  BY DEF RoomAssumption
<1>3. ~(LastOf(rounds) < k) /\ ~(k < LastOf(rounds))
  BY <1>1, <1>2 DEF Numbers
<1>. QED
  BY <1>1, <1>2, <1>3

\* _add_tasks_to_queue gives the new items distinct positions behind all others
\* and leaves the others where they are.
LEMMA EnqueueAppends ==
    ASSUME RoomAssumption, position \in [Tasks -> 0 .. MaxPosition],
           NEW new \in SUBSET Tasks, Enqueue(new)
    PROVE  /\ position' \in [Tasks -> 0 .. MaxPosition]
           /\ \A t \in Tasks \ new : position'[t] = position[t]
           /\ \A t \in new : position'[t] > LastPosition
           /\ \A t, u \in new : position'[t] = position'[u] => t = u
<1>1. LastPosition \in 0 .. MaxPosition
  BY LastPositionBounds
<1>2. Cardinality(new) \in Nat
  BY FS_Subset, FS_CardinalityType DEF RoomAssumption
<1>3. MaxPosition \in Nat
  BY DEF RoomAssumption
<1>4. PICK f \in Numberings(new) :
         position' = [t \in Tasks |-> IF t \in new THEN f[t] ELSE position[t]]
  BY DEF Enqueue
<1>5. LastPosition + Cardinality(new) <= MaxPosition
  BY DEF Enqueue
<1>6. \A t \in new : f[t] \in (LastPosition + 1) .. MaxPosition
  BY <1>1, <1>2, <1>3, <1>4, <1>5 DEF Numberings
<1>7. \A t, u \in new : f[t] = f[u] => t = u
  BY <1>4 DEF Numberings
<1>. QED
  BY <1>1, <1>3, <1>4, <1>6, <1>7

\* The session's current round is an open round of its current task.
LEMMA FocusRoundOpen ==
    ASSUME RoomAssumption, TypeOK, NEW t \in Tasks \cup {NoTask},
           FocusRound(t) # 0
    PROVE  /\ t \in Tasks
           /\ FocusRound(t) \in Numbers
           /\ roundStatus[t][FocusRound(t)] \in OpenStatus
<1> DEFINE open == {n \in Numbers : roundStatus[t][n] \in OpenStatus}
<1>1. t # NoTask /\ t \in Tasks
  BY DEF FocusRound
<1>2. CASE position[t] # 0 /\ currentRound[t] \in open
  BY <1>1, <1>2 DEF FocusRound
<1>3. CASE ~(position[t] # 0 /\ currentRound[t] \in open)
  <2>1. open # {} /\ FocusRound(t) = CHOOSE n \in open : \A m \in open : m <= n
    BY <1>1, <1>3 DEF FocusRound
  <2>2. open \in SUBSET (0 .. MaxRounds) /\ MaxRounds \in Nat
    BY DEF RoomAssumption, Numbers
  <2>3. \E n \in open : \A m \in open : m <= n
    BY <2>1, <2>2, LargestOf
  <2>4. FocusRound(t) \in open
    BY <2>1, <2>3
  <2>. QED
    BY <1>1, <2>4
<1>. QED
  BY <1>2, <1>3

-----------------------------------------------------------------------------
(***************************************************************************)
(* Type correctness.                                                       *)
(***************************************************************************)

\* Creating rounds keeps the types of the rows it writes.
LEMMA CreateRoundsType ==
    ASSUME RoomAssumption, TypeOK,
           NEW items \in [Tasks -> ItemStatus],
           NEW rounds \in [Tasks -> [Numbers -> RoundStatus]],
           NEW S \in SUBSET Tasks,
           CreateRounds(items, rounds, S)
    PROVE  /\ itemStatus' \in [Tasks -> ItemStatus]
           /\ currentRound' \in [Tasks -> 0 .. MaxRounds]
           /\ roundStatus' \in [Tasks -> [Numbers -> RoundStatus]]
           /\ completed' \subseteq Participants
<1>1. \A t \in S : LastNumber(t) \in 0 .. MaxRounds /\ LastNumber(t) < MaxRounds
  BY LastOfIs DEF LastNumber, TypeOK, CreateRounds
<1>2. \A t \in S : LastNumber(t) + 1 \in 0 .. MaxRounds
  BY <1>1 DEF RoomAssumption
<1>3. itemStatus' \in [Tasks -> ItemStatus]
  BY DEF CreateRounds, ItemStatus
<1>4. currentRound' \in [Tasks -> 0 .. MaxRounds]
  BY <1>2 DEF CreateRounds, TypeOK
<1>5. roundStatus' \in [Tasks -> [Numbers -> RoundStatus]]
  BY DEF CreateRounds, RoundStatus
<1>6. completed' \subseteq Participants
  BY DEF CreateRounds, CompletedAfter, TypeOK
<1>. QED
  BY <1>3, <1>4, <1>5, <1>6

\* So does opening everything that waits; the focus stays a task.
LEMMA OpenPendingType ==
    ASSUME RoomAssumption, TypeOK,
           position' \in [Tasks -> 0 .. MaxPosition],
           NEW items \in [Tasks -> ItemStatus],
           NEW cur, NEW allowed \in SUBSET Tasks,
           OpenPending(items, cur, allowed)
    PROVE  /\ itemStatus' \in [Tasks -> ItemStatus]
           /\ currentRound' \in [Tasks -> 0 .. MaxRounds]
           /\ roundStatus' \in [Tasks -> [Numbers -> RoundStatus]]
           /\ completed' \subseteq Participants
           /\ currentTask' \in Tasks \cup {NoTask}
           /\ status' \in SessionStatus
<1> DEFINE opening == {t \in allowed : items[t] \in {"pending", "skipped"}}
           active == {t \in Tasks : t \in opening \/ items[t] = "active"}
<1>1. CreateRounds(items, roundStatus, opening)
  BY DEF OpenPending
<1>2. roundStatus \in [Tasks -> [Numbers -> RoundStatus]]
  BY DEF TypeOK
<1>3. position' \in [Tasks -> Nat]
  BY DEF RoomAssumption
<1>4. active # {} => First(active, position') \in active
  BY <1>3, FirstIn
<1>5. currentTask' \in Tasks \cup {NoTask} /\ status' \in SessionStatus
  <2>1. CASE active = {}
    BY <2>1 DEF OpenPending, TypeOK
  <2>2. CASE active # {}
    BY <1>4, <2>2 DEF OpenPending, SessionStatus
  <2>. QED
    BY <2>1, <2>2
<1>. QED
  BY <1>1, <1>2, <1>5, CreateRoundsType

\* A participant's queue item, where there is one, is in the queue; so are the
\* targets of FirstOrNone.
LEMMA FirstOrNoneIn ==
    ASSUME RoomAssumption, TypeOK, NEW S \in SUBSET Tasks
    PROVE  /\ FirstOrNone(S) \in S \cup {NoTask}
           /\ S # {} => FirstOrNone(S) \in S
<1>1. position \in [Tasks -> Nat]
  BY DEF TypeOK, RoomAssumption
<1>. QED
  BY <1>1, FirstIn DEF FirstOrNone

LEMMA QueueItemIn ==
    ASSUME RoomAssumption, TypeOK, NEW p \in Participants
    PROVE  QueueItem(p) \in Queue \cup {NoTask}
<1>1. Queue \in SUBSET Tasks /\ Active \in SUBSET Queue
  BY DEF Queue, Active
<1>2. Active # {} => First(Active, position) \in Active
  <2>1. position \in [Tasks -> Nat]
    BY DEF TypeOK, RoomAssumption
  <2>. QED
    BY <1>1, <2>1, FirstIn
<1>. QED
  BY <1>1, <1>2, FirstOrNoneIn DEF QueueItem

\* A room without rows, before it is created and after it is deleted.
LEMMA NoRowsType ==
    ASSUME RoomAssumption
    PROVE  /\ [t \in Tasks |-> 0] \in [Tasks -> 0 .. MaxPosition]
           /\ [t \in Tasks |-> "none"] \in [Tasks -> ItemStatus]
           /\ [t \in Tasks |-> 0] \in [Tasks -> 0 .. MaxRounds]
           /\ NoRounds \in [Numbers -> RoundStatus]
           /\ NoVotes \in [Numbers -> Ballots]
<1>1. 0 \in 0 .. MaxPosition /\ 0 \in 0 .. MaxRounds
  BY DEF RoomAssumption
<1>2. NoRounds \in [Numbers -> RoundStatus]
  BY DEF NoRounds, RoundStatus
<1>3. EmptyBallot \in Ballots
  BY DEF EmptyBallot, Ballots
<1>4. NoVotes \in [Numbers -> Ballots]
  BY <1>3 DEF NoVotes
<1>5. [t \in Tasks |-> "none"] \in [Tasks -> ItemStatus]
  BY DEF ItemStatus
<1>. QED
  BY <1>1, <1>2, <1>4, <1>5

\* What the analysis says of the tasks that wait for it.
LEMMA ReadinessType ==
    ASSUME NEW r \in [Gated -> BOOLEAN]
    PROVE  Readiness(r) \in [Tasks -> BOOLEAN]
BY DEF Readiness

\* The empty room.
LEMMA TypeOKInit ==
    ASSUME RoomAssumption, Init
    PROVE  TypeOK
<1>1. /\ position \in [Tasks -> 0 .. MaxPosition]
      /\ itemStatus \in [Tasks -> ItemStatus]
      /\ currentRound \in [Tasks -> 0 .. MaxRounds]
      /\ roundStatus \in [Tasks -> [Numbers -> RoundStatus]]
      /\ votes \in [Tasks -> [Numbers -> Ballots]]
  BY NoRowsType DEF Init
<1>2. status \in SessionStatus /\ estimate \in [Tasks -> Estimates]
  BY DEF Init, SessionStatus, Estimates
<1>. QED
  BY <1>1, <1>2 DEF Init, TypeOK

\* What the handlers compute from the rows.
LEMMA ColumnTypes ==
    ASSUME TypeOK
    PROVE  /\ \A S \in SUBSET Tasks : WithPending(S) \in [Tasks -> ItemStatus]
           /\ \A T : T \subseteq Tasks => Addable(T) \in SUBSET Tasks
           /\ AllowedTasks \in SUBSET Tasks
           /\ position \in [Tasks -> 0 .. MaxPosition]
           /\ itemStatus \in [Tasks -> ItemStatus]
           /\ roundStatus \in [Tasks -> [Numbers -> RoundStatus]]
           /\ Active \in SUBSET Tasks /\ Queue \in SUBSET Tasks
BY DEF WithPending, Addable, AllowedTasks, TypeOK, ItemStatus, Active, Queue

\* The writes of the handlers keep the types.
LEMMA NewRoomType ==
    ASSUME RoomAssumption, TypeOK, NEW T \in SUBSET Tasks, NewRoom(T)
    PROVE  TypeOK'
<1>. USE DEF roomVars, queueVars, peopleVars, taskVars
<1>1. position' \in [Tasks -> 0 .. MaxPosition]
  BY ColumnTypes, EnqueueAppends DEF NewRoom
<1>. QED
  BY ColumnTypes, <1>1 DEF NewRoom, TypeOK, SessionStatus

LEMMA AddToQueueType ==
    ASSUME RoomAssumption, TypeOK, NEW T \in SUBSET Tasks,
           NEW active \in BOOLEAN, NEW cur, AddToQueue(T, active, cur)
    PROVE  TypeOK'
<1>. USE DEF roomVars, queueVars, peopleVars, taskVars
<1>1. position' \in [Tasks -> 0 .. MaxPosition]
  BY ColumnTypes, EnqueueAppends DEF AddToQueue
<1>2. CASE active
  <2>1. OpenPending(WithPending(Addable(T)), cur, AllowedTasks)
    BY <1>2 DEF AddToQueue
  <2>. QED
    BY ColumnTypes, <1>1, <2>1, OpenPendingType DEF AddToQueue, TypeOK
<1>3. CASE ~active
  BY ColumnTypes, <1>1, <1>3 DEF AddToQueue, TypeOK
<1>. QED
  BY <1>2, <1>3

LEMMA OpenQueueType ==
    ASSUME RoomAssumption, TypeOK, NEW cur, OpenQueue(cur)
    PROVE  TypeOK'
<1>. USE DEF roomVars, queueVars, peopleVars, taskVars
<1>1. position' \in [Tasks -> 0 .. MaxPosition]
  BY ColumnTypes DEF OpenQueue
<1>2. OpenPending(itemStatus, cur, AllowedTasks)
  BY DEF OpenQueue
<1>. QED
  BY ColumnTypes, <1>1, <1>2, OpenPendingType DEF OpenQueue, TypeOK

LEMMA OpenTaskType ==
    ASSUME RoomAssumption, TypeOK, NEW t \in Tasks, OpenTask(t)
    PROVE  TypeOK'
<1>. USE DEF roomVars, queueVars, peopleVars, taskVars
<1> DEFINE new == IF position[t] = 0 THEN {t} ELSE {}
           opening == IF /\ currentRound[t] # 0
                         /\ roundStatus[t][currentRound[t]] \in OpenStatus
                      THEN {} ELSE {t}
<1>1. new \in SUBSET Tasks /\ opening \in SUBSET Tasks
  OBVIOUS
<1>2. Enqueue(new) /\ CreateRounds(WithPending(new), roundStatus, opening)
  BY DEF OpenTask
<1>3. position' \in [Tasks -> 0 .. MaxPosition]
  BY ColumnTypes, <1>1, <1>2, EnqueueAppends
<1>4. WithPending(new) \in [Tasks -> ItemStatus]
  BY ColumnTypes, <1>1
<1>5. /\ itemStatus' \in [Tasks -> ItemStatus]
      /\ currentRound' \in [Tasks -> 0 .. MaxRounds]
      /\ roundStatus' \in [Tasks -> [Numbers -> RoundStatus]]
      /\ completed' \subseteq Participants
  BY ColumnTypes, <1>1, <1>2, <1>4, CreateRoundsType
<1>. QED
  BY <1>3, <1>5 DEF OpenTask, TypeOK, SessionStatus

LEMMA RoundWriteType ==
    ASSUME RoomAssumption, TypeOK, NEW t \in Tasks, NEW n \in Numbers,
           RevealRound(t, n) \/ RevoteRound(t, n) \/ AcceptRound(t, n)
    PROVE  TypeOK'
<1>. USE DEF roomVars, queueVars, peopleVars, taskVars
<1>1. \A x \in RoundStatus :
         SetRound(t, n, x) \in [Tasks -> [Numbers -> RoundStatus]]
  BY DEF SetRound, TypeOK
<1>2. CASE RevealRound(t, n)
  BY <1>1, <1>2 DEF RevealRound, TypeOK, RoundStatus
<1>3. CASE RevoteRound(t, n)
  <2>1. CreateRounds(itemStatus, SetRound(t, n, "cancelled"), {t})
    BY <1>3 DEF RevoteRound
  <2>2. SetRound(t, n, "cancelled") \in [Tasks -> [Numbers -> RoundStatus]]
    BY <1>1 DEF RoundStatus
  <2>3. /\ itemStatus' \in [Tasks -> ItemStatus]
        /\ currentRound' \in [Tasks -> 0 .. MaxRounds]
        /\ roundStatus' \in [Tasks -> [Numbers -> RoundStatus]]
        /\ completed' \subseteq Participants
    <3>1. {t} \in SUBSET Tasks /\ itemStatus \in [Tasks -> ItemStatus]
      BY ColumnTypes
    <3>. HIDE DEF SetRound
    <3>. QED
      BY <2>1, <2>2, <3>1, CreateRoundsType
  <2>. QED
    BY <1>3, <2>3 DEF RevoteRound, TypeOK
<1>4. CASE AcceptRound(t, n)
  <2>1. currentTask' \in Tasks \cup {NoTask}
    BY ColumnTypes, <1>4, FirstOrNoneIn DEF AcceptRound
  <2>2. Summary(votes[t][n]) \in Estimates
    BY DEF TypeOK, Estimates, Summaries
  <2>3. /\ estimate' \in [Tasks -> Estimates]
        /\ roundStatus' \in [Tasks -> [Numbers -> RoundStatus]]
        /\ itemStatus' \in [Tasks -> ItemStatus]
    BY <1>1, <1>4, <2>2 DEF AcceptRound, TypeOK, RoundStatus, ItemStatus
  <2>. QED
    BY <1>4, <2>1, <2>3 DEF AcceptRound, TypeOK
<1>. QED
  BY <1>2, <1>3, <1>4

\* Every handler keeps the types of all rows.
LEMMA TypeOKStep ==
    ASSUME RoomAssumption, TypeOK, [Next]_vars
    PROVE  TypeOK'
<1> USE DEF roomVars, queueVars, peopleVars, taskVars
<1>0. /\ position \in [Tasks -> 0 .. MaxPosition]
      /\ \A S \in SUBSET Tasks : WithPending(S) \in [Tasks -> ItemStatus]
      /\ Active \in SUBSET Tasks /\ Queue \in SUBSET Tasks
  BY ColumnTypes
<1>5. ASSUME NEW d \in Directions, SessionNavigate(d)
      PROVE  TypeOK'
  <2>1. NavigationTargets(d) \in SUBSET Tasks /\ NavigationTargets(d) # {}
    BY <1>0, <1>5 DEF SessionNavigate, NavigationTargets
  <2>2. position \in [Tasks -> Nat]
    BY DEF TypeOK, RoomAssumption
  <2>3. NavigationTarget(d) \in Tasks
    BY <1>0, <2>1, <2>2, FirstIn, LastIn DEF NavigationTarget
  <2>. QED
    BY <1>5, <2>3 DEF SessionNavigate, FocusOn, TypeOK
<1>7. CASE SessionReveal \/ SessionRevote \/ SessionAccept
  <2>1. FocusRound(currentTask) # 0
    BY <1>7 DEF SessionReveal, SessionRevote, SessionAccept, CanReveal,
                CanRevote, CanAccept
  <2>2. currentTask \in Tasks /\ FocusRound(currentTask) \in Numbers
    BY <2>1, FocusRoundOpen DEF TypeOK
  <2>. QED
    BY RoundWriteType, <1>7, <2>2 DEF SessionReveal, SessionRevote, SessionAccept
<1>8. CASE SessionFinish
  <2>1. roundStatus' \in [Tasks -> [Numbers -> RoundStatus]]
    BY <1>8 DEF SessionFinish, TypeOK, RoundStatus
  <2>2. itemStatus' \in [Tasks -> ItemStatus]
    BY <1>8 DEF SessionFinish, TypeOK, ItemStatus
  <2>. QED
    BY <1>8, <2>1, <2>2 DEF SessionFinish, TypeOK, SessionStatus
<1>9. CASE SessionArchive \/ SessionRestore
  BY <1>9 DEF SessionArchive, SessionRestore, SetArchived, TypeOK
<1>10. CASE SessionDelete
  BY <1>10, NoRowsType DEF SessionDelete, TypeOK, SessionStatus
<1>11. ASSUME NEW p \in Participants, RoomJoin(p) \/ RoomState(p)
       PROVE  TypeOK'
  <2>1. QueueItem(p) \in Tasks \cup {NoTask}
    BY <1>0, QueueItemIn
  <2>2. FirstOrNone(IF Active # {} THEN Active ELSE Queue) \in Tasks \cup {NoTask}
    BY <1>0, FirstOrNoneIn
  <2>. QED
    BY <1>11, <2>1, <2>2 DEF RoomJoin, Join, RoomState, SaveCursor, TypeOK
<1>12. ASSUME NEW p \in Participants, NEW v \in Cards, RoomVote(p, v)
       PROVE  TypeOK'
  <2> DEFINE t == QueueItem(p)
  <2>1. t \in Tasks /\ currentRound[t] \in Numbers
    BY <1>0, <1>12, QueueItemIn DEF RoomVote, CanVote, TypeOK, Numbers,
       RoomAssumption
  <2>2. votes' \in [Tasks -> [Numbers -> Ballots]]
    BY <1>12, <2>1 DEF RoomVote, CastVote, TypeOK, Ballots
  <2>3. cursor' \in [Participants -> Tasks \cup {NoTask}]
    BY <1>12, <2>1 DEF RoomVote, SaveCursor, TypeOK
  <2>. QED
    BY <1>12, <2>2, <2>3 DEF RoomVote, CastVote, TypeOK
<1>13. ASSUME NEW p \in Participants, NEW d \in Directions \cup {"missing"},
              RoomNavigate(p, d)
       PROVE  TypeOK'
  <2> DEFINE t == QueueItem(p)
             targets == CASE d = "missing" -> Missing(p)
                          [] d = "next" -> After(t)
                          [] d = "previous" -> Before(t)
  <2>1. targets \in SUBSET Tasks /\ targets # {}
    BY <1>0, <1>13 DEF RoomNavigate, CanNavigate,
      MoveTargets, Missing, After, Before, Directions
  <2>2. position \in [Tasks -> Nat]
    BY DEF TypeOK, RoomAssumption
  <2>3. Last(targets) \in Tasks /\ First(targets, position) \in Tasks
    BY <1>0, <2>1, <2>2, FirstIn, LastIn
  <2>4. cursor' = [cursor EXCEPT ![p] =
                      IF d = "previous" THEN Last(targets)
                                        ELSE First(targets, position)]
    BY <1>13 DEF RoomNavigate, CanNavigate,
      MoveTargets
  <2>5. cursor' \in [Participants -> Tasks \cup {NoTask}]
    BY <2>3, <2>4 DEF TypeOK
  <2>. QED
    BY <1>13, <2>5 DEF RoomNavigate, CanNavigate,
      MoveTargets, TypeOK
<1>14. ASSUME NEW p \in Participants, RoomComplete(p)
       PROVE  TypeOK'
  <2>1. QueueItem(p) \in Tasks \cup {NoTask}
    BY <1>0, QueueItemIn
  <2>. QED
    BY <1>14, <2>1 DEF RoomComplete, MarkComplete, SaveCursor, TypeOK
<1>15. ASSUME NEW t \in Tasks, NEW r \in [Gated -> BOOLEAN],
              \/ TaskComplete(t) \/ TaskReopen(t) \/ AcceptElsewhere(t)
              \/ TaskDelete(t, r)
       PROVE  TypeOK'
  <2>1. NoRounds \in [Numbers -> RoundStatus] /\ NoVotes \in [Numbers -> Ballots]
    BY NoRowsType
  <2>2. CASE TaskComplete(t) \/ TaskReopen(t)
    BY <2>2 DEF TaskComplete, TaskReopen, TypeOK
  <2>3. CASE AcceptElsewhere(t)
    BY <2>3 DEF AcceptElsewhere, TypeOK, Estimates
  <2>4. CASE TaskDelete(t, r)
    BY <2>1, <2>4, ReadinessType
    DEF TaskDelete, TypeOK, ItemStatus, Estimates, RoomAssumption
  <2>. QED
    BY <1>15, <2>2, <2>3, <2>4
<1>16. ASSUME NEW t \in InFile, NEW closed \in BOOLEAN, NEW hours \in Hours,
              NEW r \in [Gated -> BOOLEAN], ImportRow(t, closed, hours, r)
       PROVE  /\ backlog' \subseteq Tasks
              /\ done' \in [Tasks -> BOOLEAN]
              /\ ready' \in [Tasks -> BOOLEAN]
              /\ estimate' \in [Tasks -> Estimates]
  <2>1. t \in Tasks
    BY DEF RoomAssumption
  <2>2. ready' \in [Tasks -> BOOLEAN]
    BY <1>16, ReadinessType DEF ImportRow
  <2>3. CASE Voted(t)
    BY <1>16, <2>2, <2>3 DEF ImportRow, TypeOK
  <2>4. CASE ~Voted(t)
    <3> DEFINE e == CASE hours = "zero" -> NoSummary
                      [] hours = "positive" -> Imported
                      [] hours = "blank" -> estimate[t]
    <3>1. e \in Estimates
      BY <2>1 DEF Hours, Estimates, TypeOK
    <3>2. /\ backlog' = backlog \cup {t}
          /\ done' = [done EXCEPT ![t] = closed]
          /\ estimate' = [estimate EXCEPT ![t] = e]
      BY <1>16, <2>4 DEF ImportRow
    <3>. HIDE DEF e
    <3>. QED
      BY <2>1, <2>2, <3>1, <3>2 DEF TypeOK
  <2>. QED
    BY <2>3, <2>4
<1>17. ASSUME NEW t \in InFile, NEW closed \in BOOLEAN, NEW hours \in Hours,
              NEW r \in [Gated -> BOOLEAN], TaskImport(t, closed, hours, r)
       PROVE  TypeOK'
  BY <1>16, <1>17 DEF TaskImport, TypeOK
<1>18. ASSUME NEW t \in InFile, NEW closed \in BOOLEAN, NEW hours \in Hours,
              NEW r \in [Gated -> BOOLEAN], NEW planned \in BOOLEAN,
              SessionImportFile(t, closed, hours, r, planned)
       PROVE  TypeOK'
  <2> DEFINE new == IF /\ ~Voted(t) /\ ~planned /\ position[t] = 0
                       /\ estimate'[t] = NoSummary /\ ~done'[t] /\ ready'[t]
                    THEN {t} ELSE {}
             allowed == {u \in Tasks : ~done'[u] /\ ready'[u]}
  <2>1. new \in SUBSET Tasks /\ allowed \in SUBSET Tasks
    BY DEF RoomAssumption
  <2>2. /\ backlog' \subseteq Tasks
        /\ done' \in [Tasks -> BOOLEAN]
        /\ ready' \in [Tasks -> BOOLEAN]
        /\ estimate' \in [Tasks -> Estimates]
    BY <1>16, <1>18 DEF SessionImportFile
  <2>3. Enqueue(new)
    BY <1>18 DEF SessionImportFile
  <2>4. position' \in [Tasks -> 0 .. MaxPosition]
    BY <1>0, <2>1, <2>3, EnqueueAppends
  <2>5. WithPending(new) \in [Tasks -> ItemStatus]
    BY <1>0, <2>1
  <2>6. CASE new # {} /\ status = "active"
    <3>1. OpenPending(WithPending(new), currentTask, allowed)
      BY <1>18, <2>6 DEF SessionImportFile
    <3>. QED
      BY <1>18, <2>1, <2>2, <2>4, <2>5, <3>1, OpenPendingType
      DEF SessionImportFile, TypeOK
  <2>7. CASE ~(new # {} /\ status = "active")
    BY <1>18, <2>2, <2>4, <2>5, <2>7 DEF SessionImportFile, TypeOK
  <2>. QED
    BY <2>6, <2>7
<1>19. CASE UNCHANGED vars
  BY <1>19 DEF vars, TypeOK
<1>20. CASE Organiser
  BY <1>5, <1>7, <1>8, <1>9, <1>10, <1>20, NewRoomType, AddToQueueType,
     OpenQueueType, OpenTaskType
  DEF Organiser, SessionCreate, SessionCopy, SessionQueueAdd, SessionStart,
      SessionStartTask
<1>21. ASSUME NEW p \in Participants, Participant(p)
       PROVE  TypeOK'
  BY <1>11, <1>12, <1>13, <1>14, <1>21 DEF Participant
<1>22. CASE Project
  <2>1. [Gated -> BOOLEAN] # {}
    <3>1. [g \in Gated |-> TRUE] \in [Gated -> BOOLEAN]
      OBVIOUS
    <3>. QED
      BY <3>1
  <2>2. \A t \in Managed :
           TaskComplete(t) \/ TaskReopen(t) \/ AcceptElsewhere(t) => TypeOK'
    BY <1>15, <2>1 DEF RoomAssumption
  <2>3. \A r \in [Gated -> BOOLEAN] : TaskCompetencyUpdate(r) => TypeOK'
    BY ReadinessType DEF TaskCompetencyUpdate, TypeOK
  <2>4. \A t \in Managed, r \in [Gated -> BOOLEAN] :
           TaskDelete(t, r) => TypeOK'
    BY <1>15 DEF RoomAssumption
  <2>. QED
    BY <1>17, <1>18, <1>22, <2>2, <2>3, <2>4 DEF Project
<1>. QED
  BY <1>19, <1>20, <1>21, <1>22 DEF Next

\* All rows of the room keep their types under every handler.
THEOREM TypeCorrect == Spec => []TypeOK
<1>1. Init => TypeOK
  BY RoomAssumption, TypeOKInit
<1>2. TypeOK /\ [Next]_vars => TypeOK'
  BY RoomAssumption, TypeOKStep
<1>. QED
  BY <1>1, <1>2, PTL DEF Spec

-----------------------------------------------------------------------------
\* Voting has to start before anybody can have finished it.
NobodyDoneInDraft == status \in {"none", "draft"} => completed = {}

RoomSafe ==
    /\ ItemsMatchRounds
    /\ QueueInOrder
    /\ VotingOnlyWhileActive
    /\ CompletedVotedAll
    /\ NobodyDoneInDraft

IInv == TypeOK /\ RoomSafe

-----------------------------------------------------------------------------
(***************************************************************************)
(* One queue item and the rounds of its task.                              *)
(***************************************************************************)

\* A task outside the queue, and one that waits in it, match no rounds.
LEMMA NoRoundsMatch ==
    ASSUME RoomAssumption
    PROVE  Matches("none", 0, NoRounds) /\ Matches("pending", 0, NoRounds)
<1>1. NoRounds \in [Numbers -> RoundStatus]
  BY DEF NoRounds, RoundStatus
<1>2. LastOf(NoRounds) = 0
  BY <1>1, LastOfUnique DEF RoomAssumption, NoRounds
<1>. QED
  BY <1>2 DEF Matches, NoRounds, OpenStatus

\* A task that joins the queue.
LEMMA PendingMatches ==
    ASSUME NEW cur, NEW rounds, Matches("none", cur, rounds)
    PROVE  Matches("pending", cur, rounds)
BY DEF Matches

\* A new round with the next number, when all others are settled.
LEMMA NewRoundMatches ==
    ASSUME RoomAssumption,
           NEW old \in [Numbers -> RoundStatus],
           NEW rounds \in [Numbers -> RoundStatus],
           \A m \in Numbers : rounds[m] = "none" <=> old[m] = "none",
           \A m \in Numbers : rounds[m] \notin OpenStatus,
           LastOf(old) < MaxRounds
    PROVE  Matches("active", LastOf(old) + 1,
                   [n \in Numbers |-> IF n = LastOf(old) + 1 THEN "voting"
                                                             ELSE rounds[n]])
<1> DEFINE k == LastOf(old) + 1
           new == [n \in Numbers |-> IF n = k THEN "voting" ELSE rounds[n]]
<1>1. /\ LastOf(old) \in 0 .. MaxRounds
      /\ \A m \in Numbers : m > LastOf(old) => old[m] = "none"
  BY LastOfIs
<1>2. k \in Numbers /\ k \in 0 .. MaxRounds /\ k # 0
  BY <1>1 DEF Numbers, RoomAssumption
<1>3. new \in [Numbers -> RoundStatus]
  BY DEF RoundStatus
<1>4. new[k] = "voting" /\ \A m \in Numbers : m > k => new[m] = "none"
  BY <1>1, <1>2 DEF Numbers
<1>5. LastOf(new) = k
  BY <1>2, <1>3, <1>4, LastOfUnique
<1>6. \A n \in Numbers : new[n] \in OpenStatus => n = k
  OBVIOUS
<1>. QED
  BY <1>2, <1>4, <1>5, <1>6 DEF Matches, OpenStatus

\* The rounds change without one appearing or disappearing.
LEMMA SettledMatches ==
    ASSUME RoomAssumption,
           NEW cur \in 0 .. MaxRounds, NEW item,
           NEW rounds \in [Numbers -> RoundStatus],
           NEW settled \in [Numbers -> RoundStatus],
           \A m \in Numbers : settled[m] = "none" <=> rounds[m] = "none",
           Matches(item, cur, rounds)
    PROVE  cur = LastOf(settled)
<1>1. /\ cur = 0 \/ rounds[cur] # "none"
      /\ \A m \in Numbers : m > cur => rounds[m] = "none"
  BY LastOfIs DEF Matches
<1>2. cur = 0 \/ cur \in Numbers
  BY DEF Numbers, RoomAssumption
<1>. QED
  BY <1>1, <1>2, LastOfUnique

\* The current round of an open item is revealed, or is accepted and the item
\* completed.
LEMMA CurrentRoundMatches ==
    ASSUME RoomAssumption,
           NEW cur \in Numbers, NEW item,
           NEW rounds \in [Numbers -> RoundStatus],
           Matches(item, cur, rounds), rounds[cur] \in OpenStatus
    PROVE  /\ item = "active"
           /\ Matches("active", cur, [rounds EXCEPT ![cur] = "revealed"])
           /\ Matches("completed", cur, [rounds EXCEPT ![cur] = "closed"])
<1> DEFINE shown == [rounds EXCEPT ![cur] = "revealed"]
           closed == [rounds EXCEPT ![cur] = "closed"]
<1>1. cur \in 0 .. MaxRounds /\ cur # 0
  BY DEF Numbers, RoomAssumption
<1>2. shown \in [Numbers -> RoundStatus] /\ closed \in [Numbers -> RoundStatus]
  BY DEF RoundStatus
<1>3. /\ \A m \in Numbers : shown[m] = "none" <=> rounds[m] = "none"
      /\ \A m \in Numbers : closed[m] = "none" <=> rounds[m] = "none"
  BY DEF OpenStatus
<1>4. cur = LastOf(shown) /\ cur = LastOf(closed)
  <2>. HIDE DEF shown, closed
  <2>. QED
    BY <1>1, <1>2, <1>3, SettledMatches
<1>5. item = "active"
  BY DEF Matches
<1>. QED
  BY <1>1, <1>4, <1>5 DEF Matches, OpenStatus

\* session_finish on one item.
LEMMA FinishedMatches ==
    ASSUME RoomAssumption,
           NEW cur \in 0 .. MaxRounds, NEW item \in ItemStatus,
           NEW rounds \in [Numbers -> RoundStatus],
           Matches(item, cur, rounds)
    PROVE  Matches(IF item = "active" THEN "skipped" ELSE item, cur,
                   [n \in Numbers |-> IF rounds[n] \in OpenStatus
                                      THEN "cancelled" ELSE rounds[n]])
<1> DEFINE settled == [n \in Numbers |-> IF rounds[n] \in OpenStatus
                                         THEN "cancelled" ELSE rounds[n]]
<1>1. settled \in [Numbers -> RoundStatus]
  BY DEF RoundStatus
<1>2. \A m \in Numbers : settled[m] = "none" <=> rounds[m] = "none"
  BY DEF OpenStatus
<1>3. cur = LastOf(settled)
  <2>. HIDE DEF settled
  <2>. QED
    BY <1>1, <1>2, SettledMatches
<1>4. \A n \in Numbers : settled[n] \notin OpenStatus
  BY DEF OpenStatus
<1>5. cur = 0 \/ cur \in Numbers
  BY DEF Numbers, RoomAssumption
<1>6. item = "active" => cur # 0
  BY DEF Matches
<1>. QED
  BY <1>3, <1>4, <1>5, <1>6 DEF Matches, OpenStatus

-----------------------------------------------------------------------------
(***************************************************************************)
(* The effects that several handlers share.                                *)
(***************************************************************************)

\* The rounds of a task, or what a handler has made of them, have no open one.
Replaceable(old, rounds) ==
    \A m \in Numbers : /\ rounds[m] = "none" <=> old[m] = "none"
                       /\ rounds[m] \notin OpenStatus

\* New rounds for the items of S keep every item in step with its rounds, if
\* the others are and the items of S have no open round.
LEMMA CreateRoundsMatch ==
    ASSUME RoomAssumption, TypeOK,
           NEW items \in [Tasks -> ItemStatus],
           NEW rounds \in [Tasks -> [Numbers -> RoundStatus]],
           NEW S \in SUBSET Tasks,
           CreateRounds(items, rounds, S),
           \A t \in Tasks \ S : Matches(items[t], currentRound[t], rounds[t]),
           \A t \in S : Replaceable(roundStatus[t], rounds[t])
    PROVE  /\ ItemsMatchRounds'
           /\ \A t \in Tasks :
                 itemStatus'[t] = IF t \in S THEN "active" ELSE items[t]
           /\ \A t \in Tasks \ S : currentRound'[t] = currentRound[t]
           /\ S # {} => completed' = {}
           /\ S = {} => completed' = completed
<1>1. \A t \in S : LastOf(roundStatus[t]) < MaxRounds
  BY DEF CreateRounds, LastNumber
<1>2. \A t \in Tasks :
         /\ itemStatus'[t] = IF t \in S THEN "active" ELSE items[t]
         /\ currentRound'[t] = IF t \in S THEN LastOf(roundStatus[t]) + 1
                                          ELSE currentRound[t]
         /\ roundStatus'[t] = [n \in Numbers |->
               IF t \in S /\ n = LastOf(roundStatus[t]) + 1 THEN "voting"
                                                            ELSE rounds[t][n]]
  BY DEF CreateRounds, LastNumber
<1>3. ASSUME NEW t \in S
      PROVE  Matches(itemStatus'[t], currentRound'[t], roundStatus'[t])
  <2>1. /\ roundStatus[t] \in [Numbers -> RoundStatus]
        /\ rounds[t] \in [Numbers -> RoundStatus]
    BY DEF TypeOK
  <2>2. Matches("active", LastOf(roundStatus[t]) + 1,
                [n \in Numbers |-> IF n = LastOf(roundStatus[t]) + 1
                                   THEN "voting" ELSE rounds[t][n]])
    BY <1>1, <2>1, NewRoundMatches, SMTT(30) DEF Replaceable
  <2>3. roundStatus'[t] = [n \in Numbers |->
           IF n = LastOf(roundStatus[t]) + 1 THEN "voting" ELSE rounds[t][n]]
    BY <1>2
  <2>. QED
    BY <1>2, <2>2, <2>3
<1>4. ASSUME NEW t \in Tasks \ S
      PROVE  Matches(itemStatus'[t], currentRound'[t], roundStatus'[t])
  <2>1. rounds[t] \in [Numbers -> RoundStatus]
    OBVIOUS
  <2>2. roundStatus'[t] = rounds[t]
    BY <1>2, <2>1
  <2>. QED
    BY <1>2, <2>2
<1>5. ItemsMatchRounds'
  BY <1>3, <1>4 DEF ItemsMatchRounds
<1>. QED
  BY <1>2, <1>5 DEF CreateRounds, CompletedAfter

\* Opening everything that waits keeps the items in step with their rounds and
\* the focus on an open item, and makes the room active if anything is open.
\* Everybody is called back if a round was opened.
LEMMA OpenPendingMatch ==
    ASSUME RoomAssumption, TypeOK,
           position' \in [Tasks -> 0 .. MaxPosition],
           NEW items \in [Tasks -> ItemStatus],
           \A t \in Tasks : Matches(items[t], currentRound[t], roundStatus[t]),
           NEW allowed \in SUBSET Tasks,
           currentTask # NoTask => items[currentTask] = "active",
           OpenPending(items, currentTask, allowed)
    PROVE  /\ ItemsMatchRounds'
           /\ \A t \in Tasks : itemStatus'[t] = "none" <=> items[t] = "none"
           /\ \A t \in Tasks : itemStatus'[t] = "active" => status' = "active"
           /\ currentTask' # NoTask => itemStatus'[currentTask'] = "active"
           /\ status' \in {status, "active"}
           /\ \/ completed' = {} /\ status' = "active"
              \/ /\ completed' = completed /\ currentRound' = currentRound
                 /\ \A t \in allowed : items[t] \notin {"pending", "skipped"}
<1> DEFINE opening == {t \in allowed : items[t] \in {"pending", "skipped"}}
           active == {t \in Tasks : t \in opening \/ items[t] = "active"}
<1>1. CreateRounds(items, roundStatus, opening)
  BY DEF OpenPending
<1>2. /\ roundStatus \in [Tasks -> [Numbers -> RoundStatus]]
      /\ opening \in SUBSET Tasks
  BY DEF TypeOK
<1>3. \A t \in opening : Replaceable(roundStatus[t], roundStatus[t])
  BY DEF Matches, Replaceable
<1>4. /\ ItemsMatchRounds'
      /\ \A t \in Tasks :
            itemStatus'[t] = IF t \in opening THEN "active" ELSE items[t]
      /\ \A t \in Tasks \ opening : currentRound'[t] = currentRound[t]
      /\ opening # {} => completed' = {}
      /\ opening = {} => completed' = completed
  <2>. HIDE DEF opening
  <2>. QED
    BY <1>1, <1>2, <1>3, CreateRoundsMatch
<1>5. \A t \in Tasks : itemStatus'[t] = "active" <=> t \in active
  BY <1>4
<1>6. active # {} => First(active, position') \in active
  <2>1. position' \in [Tasks -> Nat]
    BY DEF RoomAssumption
  <2>. QED
    BY <2>1, FirstIn
<1>7. \A t \in Tasks : itemStatus'[t] = "active" => status' = "active"
  BY <1>5 DEF OpenPending
<1>8. currentTask' # NoTask => itemStatus'[currentTask'] = "active"
  <2>1. CASE active = {}
    <3>1. currentTask = NoTask
      BY <2>1 DEF TypeOK
    <3>. QED
      BY <2>1, <3>1 DEF OpenPending
  <2>2. CASE active # {}
    BY <1>5, <1>6, <2>2 DEF OpenPending
  <2>. QED
    BY <2>1, <2>2
<1>9. opening = {} => currentRound' = currentRound
  <2>1. currentRound \in [Tasks -> 0 .. MaxRounds]
    BY DEF TypeOK
  <2>2. currentRound' \in [Tasks -> 0 .. MaxRounds]
    <3>. HIDE DEF opening
    <3>. QED
      BY <1>1, <1>2, CreateRoundsType
  <2>. QED
    BY <1>4, <2>1, <2>2
<1>10. opening # {} => status' = "active"
  BY DEF OpenPending
<1>. QED
  BY <1>4, <1>7, <1>8, <1>9, <1>10 DEF OpenPending

\* The queue with the new tasks at its end: every item has a position of its
\* own, and the new ones match no rounds.
Grown(new) ==
    /\ new \subseteq Tasks
    /\ position' \in [Tasks -> 0 .. MaxPosition]
    /\ WithPending(new) \in [Tasks -> ItemStatus]
    /\ \A t \in Tasks :
          /\ Matches(WithPending(new)[t], currentRound[t], roundStatus[t])
          /\ position'[t] # 0 <=> WithPending(new)[t] # "none"
          /\ position'[t] # 0 => t \in backlog \/ t \in new
          /\ t \notin new => position'[t] = position[t]
          /\ WithPending(new)[t] = "active" <=> itemStatus[t] = "active"
    /\ \A t, u \in Tasks :
          position'[t] # 0 /\ position'[t] = position'[u] => t = u

LEMMA EnqueueGrows ==
    ASSUME RoomAssumption, IInv,
           NEW new \in SUBSET Tasks, \A t \in new : position[t] = 0,
           Enqueue(new)
    PROVE  Grown(new)
<1>1. position \in [Tasks -> 0 .. MaxPosition]
  BY DEF IInv, TypeOK
<1>2. /\ position' \in [Tasks -> 0 .. MaxPosition]
      /\ \A t \in Tasks \ new : position'[t] = position[t]
      /\ \A t \in new : position'[t] > LastPosition
      /\ \A t, u \in new : position'[t] = position'[u] => t = u
  BY <1>1, EnqueueAppends
<1>3. /\ LastPosition \in 0 .. MaxPosition
      /\ \A t \in Tasks : position[t] <= LastPosition
  BY <1>1, LastPositionBounds
<1>4. \A t \in new : itemStatus[t] = "none"
  BY DEF IInv, RoomSafe, QueueInOrder
<1>5. WithPending(new) \in [Tasks -> ItemStatus]
  BY DEF WithPending, IInv, TypeOK, ItemStatus
<1>6. \A t \in Tasks :
         Matches(WithPending(new)[t], currentRound[t], roundStatus[t])
  BY <1>4, PendingMatches DEF WithPending, IInv, RoomSafe, ItemsMatchRounds
<1>7. \A t \in Tasks : /\ position'[t] # 0 <=> WithPending(new)[t] # "none"
                       /\ position'[t] # 0 => t \in backlog \/ t \in new
  BY <1>1, <1>2, <1>3
  DEF WithPending, IInv, RoomSafe, QueueInOrder, RoomAssumption
<1>8. \A x \in new, y \in Tasks \ new : position'[x] # position'[y]
  <2>1. SUFFICES ASSUME NEW x \in new, NEW y \in Tasks \ new
                 PROVE  position'[x] # position'[y]
    OBVIOUS
  <2>2. position'[x] > LastPosition /\ position'[y] <= LastPosition
    BY <1>2, <1>3
  <2>3. /\ position'[x] \in Int /\ position'[y] \in Int
        /\ LastPosition \in Int
    BY <1>1, <1>2, <1>3 DEF RoomAssumption
  <2>. QED
    BY <2>2, <2>3
<1>9. \A t, u \in Tasks \ new :
         position'[t] # 0 /\ position'[t] = position'[u] => t = u
  BY <1>2 DEF IInv, RoomSafe, QueueInOrder, Queue
<1>10. \A t \in Tasks :
          WithPending(new)[t] = "active" <=> itemStatus[t] = "active"
  BY <1>4 DEF WithPending
<1>. QED
  BY <1>2, <1>5, <1>6, <1>7, <1>8, <1>9, <1>10 DEF Grown

LEMMA NothingGrows ==
    ASSUME RoomAssumption, IInv, UNCHANGED position
    PROVE  Grown({}) /\ WithPending({}) = itemStatus
<1>1. WithPending({}) = itemStatus
  BY DEF WithPending, IInv, TypeOK
<1>. QED
  BY <1>1
  DEF Grown, IInv, TypeOK, RoomSafe, ItemsMatchRounds, QueueInOrder, Queue

\* What the handlers that only move people keep of the queue.
LEMMA CompletionsFrame ==
    ASSUME CompletedVotedAll,
           completed' \subseteq completed, joined \subseteq joined',
           \A t \in Queue' :
              /\ t \in Queue /\ currentRound'[t] = currentRound[t]
              /\ \A p \in completed' : HasVoted(p, t) => HasVoted(p, t)'
    PROVE  CompletedVotedAll'
BY DEF CompletedVotedAll, Missing

-----------------------------------------------------------------------------
(***************************************************************************)
(* The handlers.                                                           *)
(***************************************************************************)

\* The queue stays in order when it grows.
LEMMA GrownInOrder ==
    ASSUME IInv, NEW new \in SUBSET backlog', Grown(new),
           backlog \subseteq backlog', UNCHANGED cursor,
           \A t \in Tasks :
              itemStatus'[t] = "none" <=> WithPending(new)[t] = "none"
    PROVE  QueueInOrder'
<1>1. \A t \in Tasks : /\ position'[t] # 0 <=> itemStatus'[t] # "none"
                       /\ position'[t] # 0 => t \in backlog'
  BY DEF Grown
<1>2. \A t, u \in Queue' : position'[t] = position'[u] => t = u
  BY DEF Grown, Queue
<1>3. Queue \subseteq Queue'
  BY DEF Grown, Queue, WithPending
<1>4. \A p \in Participants : cursor'[p] # NoTask => cursor'[p] \in Queue'
  BY <1>3 DEF IInv, RoomSafe, QueueInOrder
<1>. QED
  BY <1>1, <1>2, <1>4 DEF QueueInOrder

\* Tasks are put into the queue of a room where voting has not begun.
LEMMA DraftGrowsSafe ==
    ASSUME RoomAssumption, IInv, status \in {"none", "draft"},
           NEW new \in SUBSET backlog', Grown(new), backlog \subseteq backlog',
           itemStatus' = WithPending(new), status' = "draft",
           UNCHANGED <<archived, currentTask, currentRound, roundStatus, votes,
                       joined, cursor, completed>>
    PROVE  RoomSafe'
<1>1. ItemsMatchRounds'
  BY DEF Grown, ItemsMatchRounds
<1>2. QueueInOrder'
  BY GrownInOrder
<1>3. VotingOnlyWhileActive'
  BY DEF Grown, VotingOnlyWhileActive, IInv, TypeOK, RoomSafe
<1>4. completed' = {}
  BY DEF IInv, RoomSafe, NobodyDoneInDraft
<1>. QED
  BY <1>1, <1>2, <1>3, <1>4 DEF RoomSafe, CompletedVotedAll, NobodyDoneInDraft

\* Tasks are put into the queue and everything that waits is opened, those
\* tasks too.
LEMMA OpenQueueSafe ==
    ASSUME RoomAssumption, IInv, Unfinished,
           NEW new \in SUBSET backlog', Grown(new), backlog \subseteq backlog',
           NEW allowed \in SUBSET Tasks, new \subseteq allowed,
           OpenPending(WithPending(new), currentTask, allowed),
           UNCHANGED <<archived, votes, joined, cursor>>
    PROVE  RoomSafe'
<1>1. /\ position' \in [Tasks -> 0 .. MaxPosition]
      /\ WithPending(new) \in [Tasks -> ItemStatus]
      /\ \A t \in Tasks :
            Matches(WithPending(new)[t], currentRound[t], roundStatus[t])
      /\ currentTask # NoTask => WithPending(new)[currentTask] = "active"
  BY DEF Grown, IInv, RoomSafe, TypeOK, VotingOnlyWhileActive
<1>2. /\ ItemsMatchRounds'
      /\ \A t \in Tasks :
            itemStatus'[t] = "none" <=> WithPending(new)[t] = "none"
      /\ \A t \in Tasks : itemStatus'[t] = "active" => status' = "active"
      /\ currentTask' # NoTask => itemStatus'[currentTask'] = "active"
      /\ status' \in {status, "active"}
      /\ \/ completed' = {} /\ status' = "active"
         \/ /\ completed' = completed /\ currentRound' = currentRound
            /\ \A t \in allowed :
                  WithPending(new)[t] \notin {"pending", "skipped"}
  BY <1>1, OpenPendingMatch DEF IInv
<1>3. QueueInOrder'
  BY <1>2, GrownInOrder
<1>4. VotingOnlyWhileActive'
  BY <1>2 DEF VotingOnlyWhileActive, IInv, RoomSafe, Unfinished
<1>5. CompletedVotedAll' /\ NobodyDoneInDraft'
  <2>1. CASE completed' = {}
    BY <2>1 DEF CompletedVotedAll, NobodyDoneInDraft
  <2>2. CASE /\ completed' = completed /\ currentRound' = currentRound
             /\ \A t \in allowed :
                   WithPending(new)[t] \notin {"pending", "skipped"}
    <3>1. new = {}
      BY <2>2 DEF Grown, WithPending
    <3>2. Queue' = Queue
      BY <3>1 DEF Grown, Queue
    <3>3. CompletedVotedAll'
      BY <2>2, <3>2
      DEF CompletedVotedAll, Missing, HasVoted, IInv, RoomSafe
    <3>4. NobodyDoneInDraft'
      BY <1>2, <2>2 DEF NobodyDoneInDraft, IInv, RoomSafe
    <3>. QED
      BY <3>3, <3>4
  <2>. QED
    BY <1>2, <2>1, <2>2
<1>. QED
  BY <1>2, <1>3, <1>4, <1>5 DEF RoomSafe

\* session_create, session_copy
LEMMA NewRoomSafe ==
    ASSUME RoomAssumption, IInv, NEW T \in SUBSET backlog, NewRoom(T)
    PROVE  RoomSafe'
<1>1. backlog \subseteq Tasks
  BY DEF IInv, TypeOK
<1>2. /\ Addable(T) \in SUBSET Tasks /\ Addable(T) \in SUBSET backlog'
      /\ \A t \in Addable(T) : position[t] = 0
  BY <1>1 DEF Addable, NewRoom, taskVars
<1>3. Enqueue(Addable(T))
  BY DEF NewRoom
<1>4. Grown(Addable(T))
  BY <1>2, <1>3, EnqueueGrows
<1>. QED
  BY <1>2, <1>4, DraftGrowsSafe DEF NewRoom, peopleVars, taskVars

\* session_queue_add
LEMMA QueueAddSafe ==
    ASSUME RoomAssumption, IInv, NEW T \in SUBSET Tasks, SessionQueueAdd(T)
    PROVE  RoomSafe'
<1>1. /\ Addable(T) \in SUBSET Tasks /\ Addable(T) \in SUBSET backlog'
      /\ \A t \in Addable(T) : position[t] = 0
      /\ backlog \subseteq backlog'
      /\ Addable(T) \subseteq AllowedTasks
  BY DEF Addable, AllowedTasks, SessionQueueAdd, AddToQueue, Unestimated,
         taskVars
<1>2. Enqueue(Addable(T))
  BY DEF SessionQueueAdd, AddToQueue
<1>3. Grown(Addable(T))
  BY <1>1, <1>2, EnqueueGrows
<1>4. CASE status = "active"
  <2>1. /\ OpenPending(WithPending(Addable(T)), currentTask, AllowedTasks)
        /\ UNCHANGED <<archived, votes, joined, cursor>>
    BY <1>4 DEF SessionQueueAdd, AddToQueue
  <2>2. AllowedTasks \in SUBSET Tasks /\ Unfinished
    BY <1>4 DEF AllowedTasks, Unfinished
  <2>. QED
    BY <1>1, <1>3, <2>1, <2>2, OpenQueueSafe
<1>5. CASE status # "active"
  BY <1>1, <1>3, <1>5, DraftGrowsSafe
  DEF SessionQueueAdd, AddToQueue, Unfinished
<1>. QED
  BY <1>4, <1>5

\* session_start
LEMMA StartSafe ==
    ASSUME RoomAssumption, IInv, SessionStart
    PROVE  RoomSafe'
<1>1. Grown({}) /\ WithPending({}) = itemStatus
  BY NothingGrows DEF SessionStart, OpenQueue
<1>2. OpenPending(WithPending({}), currentTask, AllowedTasks)
  BY <1>1 DEF SessionStart, OpenQueue
<1>3. AllowedTasks \in SUBSET Tasks /\ {} \in SUBSET backlog'
  BY DEF AllowedTasks
<1>4. /\ Unfinished /\ backlog \subseteq backlog'
      /\ UNCHANGED <<archived, votes, joined, cursor>>
  BY DEF SessionStart, OpenQueue, taskVars
<1>. QED
  BY <1>1, <1>2, <1>3, <1>4, OpenQueueSafe

\* session_start_task
LEMMA StartTaskSafe ==
    ASSUME RoomAssumption, IInv, NEW t \in Tasks, SessionStartTask(t)
    PROVE  RoomSafe'
<1> DEFINE new == IF position[t] = 0 THEN {t} ELSE {}
           open == currentRound[t] # 0
                   /\ roundStatus[t][currentRound[t]] \in OpenStatus
           opening == IF open THEN {} ELSE {t}
<1>1. /\ Enqueue(new)
      /\ CreateRounds(WithPending(new), roundStatus, opening)
      /\ currentTask' = t /\ status' = "active"
      /\ UNCHANGED <<archived, votes, joined, cursor>>
      /\ backlog' = backlog /\ t \in backlog
      /\ status \in {"draft", "active"}
  BY DEF SessionStartTask, OpenTask, CanStartTask, Unfinished, taskVars
<1>2. new \in SUBSET Tasks /\ opening \in SUBSET Tasks /\ new \subseteq backlog'
  BY <1>1
<1>3. Grown(new)
  <2>. \A u \in new : position[u] = 0
    OBVIOUS
  <2>. HIDE DEF new
  <2>. QED
    BY <1>1, <1>2, EnqueueGrows
<1>4. /\ Matches(itemStatus[t], currentRound[t], roundStatus[t])
      /\ currentRound[t] \in 0 .. MaxRounds
      /\ roundStatus \in [Tasks -> [Numbers -> RoundStatus]]
  BY DEF IInv, TypeOK, RoomSafe, ItemsMatchRounds
<1>5. open <=> itemStatus[t] = "active"
  <2>1. currentRound[t] # 0 => currentRound[t] \in Numbers
    BY <1>4 DEF Numbers, RoomAssumption
  <2>. QED
    BY <1>4, <2>1 DEF Matches
<1>6. ~open => \A m \in Numbers : roundStatus[t][m] \notin OpenStatus
  BY <1>4, <1>5 DEF Matches
<1>7. /\ ItemsMatchRounds'
      /\ \A u \in Tasks : itemStatus'[u] = IF u \in opening THEN "active"
                                           ELSE WithPending(new)[u]
      /\ \A u \in Tasks \ opening : currentRound'[u] = currentRound[u]
      /\ opening # {} => completed' = {}
      /\ opening = {} => completed' = completed
  <2>1. /\ WithPending(new) \in [Tasks -> ItemStatus]
        /\ \A u \in Tasks : Matches(WithPending(new)[u], currentRound[u],
                                    roundStatus[u])
    BY <1>3 DEF Grown
  <2>2. \A u \in opening : Replaceable(roundStatus[u], roundStatus[u])
    BY <1>6 DEF Replaceable
  <2>3. TypeOK /\ CreateRounds(WithPending(new), roundStatus, opening)
    BY <1>1 DEF IInv
  <2>. HIDE DEF new, opening, open
  <2>. QED
    BY <1>2, <1>4, <2>1, <2>2, <2>3, CreateRoundsMatch
<1>8. itemStatus'[t] = "active"
  <2>1. CASE open
    <3>1. WithPending(new)[t] = "active"
      BY <1>3, <1>5, <2>1 DEF Grown
    <3>. QED
      BY <1>7, <2>1, <3>1
  <2>2. CASE ~open
    BY <1>7, <2>2
  <2>. QED
    BY <2>1, <2>2
<1>9. \A u \in Tasks : itemStatus'[u] = "none" <=> WithPending(new)[u] = "none"
  <2>1. WithPending(new)[t] # "none"
    BY DEF WithPending, IInv, TypeOK, RoomSafe, QueueInOrder
  <2>. HIDE DEF new
  <2>. QED
    BY <1>7, <2>1
<1>10. QueueInOrder'
  <2>. HIDE DEF new
  <2>. QED
    BY <1>1, <1>2, <1>3, <1>9, GrownInOrder
<1>11. VotingOnlyWhileActive'
  BY <1>1, <1>8 DEF VotingOnlyWhileActive, IInv, RoomSafe
<1>12. CompletedVotedAll'
  <2>1. CASE open
    <3>1. position[t] # 0
      BY <1>5, <2>1 DEF IInv, RoomSafe, QueueInOrder
    <3>2. Queue' = Queue
      BY <1>3, <3>1 DEF Grown, Queue
    <3>. QED
      BY <1>1, <1>7, <2>1, <3>2
      DEF CompletedVotedAll, Missing, HasVoted, IInv, RoomSafe, Queue
  <2>2. CASE ~open
    BY <1>7, <2>2 DEF CompletedVotedAll
  <2>. QED
    BY <2>1, <2>2
<1>. QED
  BY <1>1, <1>7, <1>10, <1>11, <1>12 DEF RoomSafe, NobodyDoneInDraft

\* session_navigate
LEMMA NavigateSafe ==
    ASSUME RoomAssumption, IInv, NEW d \in Directions, SessionNavigate(d)
    PROVE  RoomSafe'
<1>1. /\ position \in [Tasks -> 0 .. MaxPosition]
      /\ position \in [Tasks -> Nat]
  BY DEF IInv, TypeOK, RoomAssumption
<1>2. /\ NavigationTargets(d) \in SUBSET Tasks
      /\ NavigationTargets(d) \subseteq Active
      /\ NavigationTargets(d) # {}
  BY DEF SessionNavigate, NavigationTargets, Active, Queue
<1>3. NavigationTarget(d) \in Active
  BY <1>1, <1>2, FirstIn, LastIn DEF NavigationTarget
<1>4. itemStatus[NavigationTarget(d)] = "active"
  BY <1>3 DEF Active
<1>. QED
  BY <1>4 DEF SessionNavigate, FocusOn, queueVars, peopleVars, taskVars, IInv,
    RoomSafe, ItemsMatchRounds, QueueInOrder, Queue, VotingOnlyWhileActive,
    CompletedVotedAll, Missing, HasVoted, NobodyDoneInDraft

\* The handlers that act on the round in focus act on the current round of an
\* open item.
LEMMA FocusIsCurrent ==
    ASSUME RoomAssumption, IInv, FocusRound(currentTask) # 0
    PROVE  /\ currentTask \in Tasks
           /\ FocusRound(currentTask) \in Numbers
           /\ FocusRound(currentTask) = currentRound[currentTask]
           /\ itemStatus[currentTask] = "active"
           /\ position[currentTask] # 0
           /\ roundStatus[currentTask][FocusRound(currentTask)] \in OpenStatus
<1>1. /\ currentTask \in Tasks
      /\ FocusRound(currentTask) \in Numbers
      /\ roundStatus[currentTask][FocusRound(currentTask)] \in OpenStatus
  BY FocusRoundOpen DEF IInv, TypeOK
<1>2. /\ Matches(itemStatus[currentTask], currentRound[currentTask],
                 roundStatus[currentTask])
      /\ position[currentTask] # 0 <=> itemStatus[currentTask] # "none"
  BY <1>1 DEF IInv, RoomSafe, ItemsMatchRounds, QueueInOrder
<1>3. /\ FocusRound(currentTask) = currentRound[currentTask]
      /\ itemStatus[currentTask] = "active"
  BY <1>1, <1>2 DEF Matches
<1>. QED
  BY <1>1, <1>2, <1>3

\* session_reveal
LEMMA RevealSafe ==
    ASSUME RoomAssumption, IInv, SessionReveal
    PROVE  RoomSafe'
<1> DEFINE t == currentTask
           n == FocusRound(currentTask)
<1>1. /\ t \in Tasks /\ n \in Numbers /\ n = currentRound[t]
      /\ itemStatus[t] = "active" /\ roundStatus[t][n] \in OpenStatus
  BY FocusIsCurrent DEF SessionReveal, CanReveal
<1>2. /\ roundStatus' = SetRound(t, n, "revealed")
      /\ UNCHANGED <<roomVars, queueVars, votes, peopleVars, taskVars>>
  BY DEF SessionReveal, RevealRound
<1>. HIDE DEF t, n
<1>3. ItemsMatchRounds'
  <2>1. /\ roundStatus[t] \in [Numbers -> RoundStatus]
        /\ Matches(itemStatus[t], n, roundStatus[t])
    BY <1>1 DEF IInv, TypeOK, RoomSafe, ItemsMatchRounds
  <2>2. Matches("active", n, [roundStatus[t] EXCEPT ![n] = "revealed"])
    BY <1>1, <2>1, CurrentRoundMatches
  <2>3. roundStatus'[t] = [roundStatus[t] EXCEPT ![n] = "revealed"]
    BY <1>1, <1>2 DEF SetRound, IInv, TypeOK
  <2>4. \A u \in Tasks \ {t} : roundStatus'[u] = roundStatus[u]
    BY <1>1, <1>2 DEF SetRound, IInv, TypeOK
  <2>. QED
    BY <1>1, <1>2, <2>2, <2>3, <2>4
    DEF queueVars, IInv, RoomSafe, ItemsMatchRounds
<1>. QED
  BY <1>2, <1>3 DEF roomVars, queueVars, peopleVars, taskVars, IInv, RoomSafe,
    QueueInOrder, Queue, VotingOnlyWhileActive, CompletedVotedAll, Missing,
    HasVoted, NobodyDoneInDraft

\* session_revote
LEMMA RevoteSafe ==
    ASSUME RoomAssumption, IInv, SessionRevote
    PROVE  RoomSafe'
<1> DEFINE t == currentTask
           n == FocusRound(currentTask)
<1>1. /\ t \in Tasks /\ n \in Numbers /\ n = currentRound[t]
      /\ itemStatus[t] = "active" /\ roundStatus[t][n] \in OpenStatus
  BY FocusIsCurrent DEF SessionRevote, CanRevote
<1>2. /\ CreateRounds(itemStatus, SetRound(t, n, "cancelled"), {t})
      /\ UNCHANGED <<roomVars, position, votes, joined, cursor, taskVars>>
  BY DEF SessionRevote, RevoteRound
<1>. HIDE DEF t, n
<1>3. /\ roundStatus \in [Tasks -> [Numbers -> RoundStatus]]
      /\ itemStatus \in [Tasks -> ItemStatus]
      /\ TypeOK
      /\ \A u \in Tasks : Matches(itemStatus[u], currentRound[u], roundStatus[u])
  BY DEF IInv, TypeOK, RoomSafe, ItemsMatchRounds
<1> DEFINE rounds == SetRound(t, n, "cancelled")
<1>4. /\ rounds \in [Tasks -> [Numbers -> RoundStatus]]
      /\ \A u \in Tasks \ {t} : rounds[u] = roundStatus[u]
      /\ \A m \in Numbers :
            rounds[t][m] = IF m = n THEN "cancelled" ELSE roundStatus[t][m]
  BY <1>1, <1>3 DEF SetRound, RoundStatus
<1> DEFINE S == {t}
<1>5. \A u \in S : Replaceable(roundStatus[u], rounds[u])
  BY <1>1, <1>3, <1>4 DEF Matches, OpenStatus, Replaceable
<1>6. /\ ItemsMatchRounds'
      /\ \A u \in Tasks :
            itemStatus'[u] = IF u \in S THEN "active" ELSE itemStatus[u]
      /\ completed' = {}
  <2>1. /\ S \in SUBSET Tasks /\ S # {}
        /\ \A u \in Tasks \ S :
              Matches(itemStatus[u], currentRound[u], rounds[u])
    BY <1>1, <1>3, <1>4
  <2>2. CreateRounds(itemStatus, rounds, S)
    BY <1>2
  <2>3. /\ rounds \in [Tasks -> [Numbers -> RoundStatus]]
        /\ itemStatus \in [Tasks -> ItemStatus]
        /\ TypeOK
    BY <1>3, <1>4
  <2>. HIDE DEF rounds, S
  <2>. QED
    BY <1>5, <2>1, <2>2, <2>3, CreateRoundsMatch
<1>7. \A u \in Tasks : itemStatus'[u] = itemStatus[u]
  BY <1>1, <1>6
<1>8. QueueInOrder'
  BY <1>2, <1>7 DEF taskVars, QueueInOrder, Queue, IInv, RoomSafe
<1>9. VotingOnlyWhileActive'
  BY <1>2, <1>7 DEF roomVars, VotingOnlyWhileActive, IInv, TypeOK, RoomSafe
<1>. QED
  BY <1>6, <1>8, <1>9 DEF RoomSafe, CompletedVotedAll, NobodyDoneInDraft

\* session_accept
LEMMA AcceptSafe ==
    ASSUME RoomAssumption, IInv, SessionAccept
    PROVE  RoomSafe'
<1> DEFINE t == currentTask
           n == FocusRound(currentTask)
           others == Active \ {t}
           ahead == others \cap After(t)
           rest == IF ahead # {} THEN ahead ELSE others
<1>1. /\ t \in Tasks /\ n \in Numbers /\ n = currentRound[t]
      /\ itemStatus[t] = "active" /\ roundStatus[t][n] \in OpenStatus
      /\ position[t] # 0
  BY FocusIsCurrent DEF SessionAccept, CanAccept
<1>2. /\ roundStatus' = SetRound(t, n, "closed")
      /\ itemStatus' = [itemStatus EXCEPT ![t] = "completed"]
      /\ currentTask' = FirstOrNone(rest)
      /\ UNCHANGED <<status, archived, position, currentRound, votes,
                     peopleVars, backlog, done, ready>>
  BY DEF SessionAccept, AcceptRound
<1>3. rest \in SUBSET Tasks /\ rest \subseteq Active \ {t}
  BY DEF Active, Queue
<1>. HIDE DEF t, n, rest
<1>4. ItemsMatchRounds'
  <2>1. /\ roundStatus[t] \in [Numbers -> RoundStatus]
        /\ Matches(itemStatus[t], n, roundStatus[t])
    BY <1>1 DEF IInv, TypeOK, RoomSafe, ItemsMatchRounds
  <2>2. Matches("completed", n, [roundStatus[t] EXCEPT ![n] = "closed"])
    BY <1>1, <2>1, CurrentRoundMatches
  <2>3. /\ roundStatus'[t] = [roundStatus[t] EXCEPT ![n] = "closed"]
        /\ itemStatus'[t] = "completed"
    BY <1>1, <1>2 DEF SetRound, IInv, TypeOK
  <2>4. \A u \in Tasks \ {t} : /\ roundStatus'[u] = roundStatus[u]
                               /\ itemStatus'[u] = itemStatus[u]
    BY <1>1, <1>2 DEF SetRound, IInv, TypeOK
  <2>. QED
    BY <1>1, <1>2, <2>2, <2>3, <2>4 DEF IInv, RoomSafe, ItemsMatchRounds
<1>5. \A u \in Tasks : itemStatus'[u] = IF u = t THEN "completed"
                                                ELSE itemStatus[u]
  BY <1>1, <1>2 DEF IInv, TypeOK
<1>6. QueueInOrder'
  BY <1>1, <1>2, <1>5 DEF peopleVars, QueueInOrder, Queue, IInv, RoomSafe
<1>7. VotingOnlyWhileActive'
  <2>1. TypeOK
    BY DEF IInv
  <2>2. currentTask' # NoTask => currentTask' \in Active \ {t}
    BY <1>2, <1>3, <2>1, FirstOrNoneIn
  <2>3. \A u \in Active \ {t} : itemStatus'[u] = "active"
    BY <1>5 DEF Active, Queue
  <2>. QED
    BY <1>2, <1>5, <2>2, <2>3 DEF VotingOnlyWhileActive, IInv, RoomSafe
<1>. QED
  BY <1>2, <1>4, <1>6, <1>7 DEF peopleVars, RoomSafe, IInv, Queue,
    CompletedVotedAll, Missing, HasVoted, NobodyDoneInDraft

\* session_finish
LEMMA FinishSafe ==
    ASSUME RoomAssumption, IInv, SessionFinish
    PROVE  RoomSafe'
<1>1. ItemsMatchRounds'
  <2>1. SUFFICES ASSUME NEW t \in Tasks
                 PROVE  Matches(itemStatus'[t], currentRound'[t], roundStatus'[t])
    BY DEF ItemsMatchRounds
  <2>2. /\ Matches(itemStatus[t], currentRound[t], roundStatus[t])
        /\ currentRound[t] \in 0 .. MaxRounds
        /\ itemStatus[t] \in ItemStatus
        /\ roundStatus[t] \in [Numbers -> RoundStatus]
    BY DEF IInv, TypeOK, RoomSafe, ItemsMatchRounds
  <2>3. /\ itemStatus'[t] = IF itemStatus[t] = "active" THEN "skipped"
                                                        ELSE itemStatus[t]
        /\ currentRound'[t] = currentRound[t]
        /\ roundStatus'[t] = [n \in Numbers |->
              IF roundStatus[t][n] \in OpenStatus THEN "cancelled"
                                                  ELSE roundStatus[t][n]]
    BY DEF SessionFinish
  <2>. QED
    BY <2>2, <2>3, FinishedMatches
<1>2. QueueInOrder'
  BY DEF SessionFinish, peopleVars, taskVars, QueueInOrder, Queue, IInv, RoomSafe
<1>3. VotingOnlyWhileActive'
  BY DEF SessionFinish, VotingOnlyWhileActive
<1>4. CompletedVotedAll' /\ NobodyDoneInDraft'
  BY DEF SessionFinish, peopleVars, CompletedVotedAll, Missing, HasVoted, Queue,
    NobodyDoneInDraft, IInv, RoomSafe
<1>. QED
  BY <1>1, <1>2, <1>3, <1>4 DEF RoomSafe

\* session_archive, session_restore
LEMMA ArchiveSafe ==
    ASSUME IInv, SessionArchive \/ SessionRestore
    PROVE  RoomSafe'
BY DEF SessionArchive, SessionRestore, SetArchived, queueVars, peopleVars,
  taskVars, IInv, RoomSafe, ItemsMatchRounds, QueueInOrder, Queue,
  VotingOnlyWhileActive, CompletedVotedAll, Missing, HasVoted,
  NobodyDoneInDraft

\* A room without rows is safe: the initial state, and after session_delete.
LEMMA NoRowsSafe ==
    ASSUME RoomAssumption, Init \/ SessionDelete
    PROVE  /\ Init => RoomSafe
           /\ SessionDelete => RoomSafe'
<1>1. /\ Matches("none", 0, NoRounds)
      /\ NoTask \notin Tasks
  BY NoRoundsMatch DEF RoomAssumption
<1>2. ASSUME Init
      PROVE  RoomSafe
  BY <1>1, <1>2 DEF Init, RoomSafe, ItemsMatchRounds, QueueInOrder, Queue,
    VotingOnlyWhileActive, CompletedVotedAll, NobodyDoneInDraft
<1>3. ASSUME SessionDelete
      PROVE  RoomSafe'
  BY <1>1, <1>3 DEF SessionDelete, RoomSafe, ItemsMatchRounds, QueueInOrder,
    Queue, VotingOnlyWhileActive, CompletedVotedAll, NobodyDoneInDraft
<1>. QED
  BY <1>2, <1>3

\* A handler that changes no rows of the room but its people's: their cursors
\* stay in the queue, votes are not lost, and who is done has voted on all.
RoomKept == UNCHANGED <<roomVars, queueVars, roundStatus, backlog>>
CursorsKept ==
    \A p \in Participants : cursor'[p] \in {cursor[p], NoTask} \cup Queue
VotesKept ==
    \A p \in Participants, t \in Queue : HasVoted(p, t) => HasVoted(p, t)'
CompletionsEarned ==
    /\ \A p \in completed' :
          p \in completed \/ (p \in joined /\ Missing(p) = {})
    /\ completed' # completed => status = "active"

LEMMA PeopleSafe ==
    ASSUME IInv, RoomKept, CursorsKept, joined \subseteq joined', VotesKept,
           CompletionsEarned
    PROVE  RoomSafe'
<1> USE DEF RoomKept, CursorsKept, VotesKept, CompletionsEarned
<1>1. Queue' = Queue
  BY DEF Queue, queueVars
<1>2. ItemsMatchRounds' /\ VotingOnlyWhileActive'
  BY DEF IInv, RoomSafe, ItemsMatchRounds, VotingOnlyWhileActive, roomVars,
    queueVars
<1>3. QueueInOrder'
  BY <1>1 DEF IInv, RoomSafe, QueueInOrder, queueVars
<1>4. CompletedVotedAll'
  <2>1. \A p \in completed' : p \in joined /\ Missing(p) = {}
    BY DEF IInv, RoomSafe, CompletedVotedAll
  <2>2. completed' \subseteq Participants
    BY <2>1 DEF IInv, TypeOK
  <2>. QED
    BY <1>1, <2>1, <2>2 DEF CompletedVotedAll, Missing
<1>5. NobodyDoneInDraft'
  BY DEF IInv, RoomSafe, NobodyDoneInDraft, roomVars
<1>. QED
  BY <1>2, <1>3, <1>4, <1>5 DEF RoomSafe

\* room_join, room_state, room_vote, room_navigate, room_complete
LEMMA ParticipantSafe ==
    ASSUME RoomAssumption, IInv, NEW p \in Participants, Participant(p)
    PROVE  RoomSafe'
<1>1. /\ QueueItem(p) \in Queue \cup {NoTask}
      /\ Queue \in SUBSET Tasks /\ Active \in SUBSET Queue
      /\ TypeOK
      /\ cursor \in [Participants -> Tasks \cup {NoTask}]
      /\ position \in [Tasks -> 0 .. MaxPosition]
      /\ position \in [Tasks -> Nat]
  <2>1. TypeOK
    BY DEF IInv
  <2>. QED
    BY <2>1, QueueItemIn DEF Queue, Active, TypeOK, RoomAssumption
<1>2. CASE RoomJoin(p)
  <2> DEFINE first == FirstOrNone(IF Active # {} THEN Active ELSE Queue)
  <2>1. first \in Queue \cup {NoTask}
    <3>1. (IF Active # {} THEN Active ELSE Queue) \in SUBSET Tasks
      BY <1>1
    <3>. QED
      BY <1>1, <3>1, FirstOrNoneIn
  <2>. HIDE DEF first
  <2>2. /\ cursor' = [cursor EXCEPT ![p] = first]
        /\ joined' = joined \cup {p}
        /\ UNCHANGED <<roomVars, queueVars, roundStatus, votes, completed,
                       taskVars>>
    BY <1>2 DEF RoomJoin, Join, first
  <2>3. CursorsKept
    BY <1>1, <2>1, <2>2 DEF CursorsKept
  <2>4. RoomKept /\ joined \subseteq joined' /\ VotesKept /\ CompletionsEarned
    BY <2>2 DEF RoomKept, VotesKept, CompletionsEarned, roomVars, queueVars,
      taskVars, HasVoted
  <2>. QED
    BY <2>3, <2>4, PeopleSafe
<1>3. CASE RoomState(p)
  <2>1. CursorsKept
    BY <1>1, <1>3 DEF RoomState, SaveCursor, CursorsKept
  <2>2. RoomKept /\ joined \subseteq joined' /\ VotesKept /\ CompletionsEarned
    BY <1>3 DEF RoomState, RoomKept, VotesKept, CompletionsEarned, roomVars,
      queueVars, taskVars, HasVoted
  <2>. QED
    BY <2>1, <2>2, PeopleSafe
<1>4. ASSUME NEW v \in Cards, RoomVote(p, v)
      PROVE  RoomSafe'
  <2> DEFINE t == QueueItem(p)
             n == currentRound[t]
  <2>1. /\ t \in Queue /\ n \in Numbers
        /\ votes' = [votes EXCEPT ![t][n][p] = v]
        /\ cursor' = [cursor EXCEPT ![p] = t]
        /\ UNCHANGED <<roomVars, queueVars, roundStatus, joined, completed,
                       taskVars>>
    BY <1>1, <1>4
    DEF RoomVote, CanVote, CastVote, SaveCursor, TypeOK, Numbers, RoomAssumption
  <2>2. CursorsKept
    BY <1>1, <2>1 DEF CursorsKept
  <2>3. v # NoVote
    BY CardsAssumption
  <2>. HIDE DEF t, n
  <2>4. ASSUME NEW q \in Participants, NEW u \in Queue, HasVoted(q, u)
        PROVE  HasVoted(q, u)'
    <3>1. /\ votes \in [Tasks -> [Numbers -> Ballots]]
          /\ u \in Tasks /\ currentRound[u] \in Numbers
      BY <1>1, <2>4 DEF TypeOK, HasVoted, Numbers, RoomAssumption
    <3>2. votes'[u][currentRound[u]][q] \in {votes[u][currentRound[u]][q], v}
      BY <1>1, <2>1, <3>1 DEF Ballots
    <3>. QED
      BY <2>1, <2>3, <2>4, <3>2 DEF HasVoted, queueVars
  <2>5. RoomKept /\ joined \subseteq joined' /\ CompletionsEarned
    BY <2>1 DEF RoomKept, CompletionsEarned, roomVars, queueVars, taskVars
  <2>6. VotesKept
    BY <2>4 DEF VotesKept
  <2>. QED
    BY <2>2, <2>5, <2>6, PeopleSafe
<1>5. ASSUME NEW d \in Directions \cup {"missing"}, RoomNavigate(p, d)
      PROVE  RoomSafe'
  <2> DEFINE t == QueueItem(p)
             targets == CASE d = "missing" -> Missing(p)
                          [] d = "next" -> After(t)
                          [] d = "previous" -> Before(t)
             target == IF d = "previous" THEN Last(targets)
                                         ELSE First(targets, position)
  <2>1. targets \in SUBSET Tasks /\ targets \subseteq Queue /\ targets # {}
    BY <1>1, <1>5 DEF RoomNavigate, CanNavigate,
      MoveTargets, Missing, After, Before, Directions
  <2>2. /\ cursor' = [cursor EXCEPT ![p] = target]
        /\ UNCHANGED <<roomVars, queueVars, roundStatus, votes, joined,
                       completed, taskVars>>
    BY <1>5 DEF RoomNavigate, CanNavigate,
      MoveTargets
  <2>. HIDE DEF targets
  <2>3. target \in Queue
    BY <1>1, <2>1, FirstIn, LastIn
  <2>. HIDE DEF target
  <2>4. CursorsKept
    BY <1>1, <2>2, <2>3 DEF CursorsKept
  <2>5. RoomKept /\ joined \subseteq joined' /\ VotesKept /\ CompletionsEarned
    BY <2>2 DEF RoomKept, VotesKept, CompletionsEarned, roomVars, queueVars,
      taskVars, HasVoted
  <2>. QED
    BY <2>4, <2>5, PeopleSafe
<1>6. CASE RoomComplete(p)
  <2>1. CursorsKept
    BY <1>1, <1>6 DEF RoomComplete, SaveCursor, CursorsKept
  <2>2. /\ completed' = completed \cup {p}
        /\ p \in joined /\ Missing(p) = {} /\ status = "active"
        /\ UNCHANGED <<roomVars, queueVars, roundStatus, votes, joined, taskVars>>
    BY <1>6 DEF RoomComplete, MarkComplete, CanComplete, AllVoted
  <2>3. RoomKept /\ joined \subseteq joined' /\ VotesKept /\ CompletionsEarned
    BY <2>2 DEF RoomKept, VotesKept, CompletionsEarned, roomVars, queueVars,
      taskVars, HasVoted
  <2>. QED
    BY <2>1, <2>3, PeopleSafe
<1>. QED
  BY <1>2, <1>3, <1>4, <1>5, <1>6 DEF Participant

\* task_complete, task_reopen, task_competency_update, an import
LEMMA TasksChangeSafe ==
    ASSUME IInv, backlog \subseteq backlog',
           UNCHANGED <<roomVars, queueVars, roundStatus, votes, peopleVars>>
    PROVE  RoomSafe'
BY DEF roomVars, queueVars, peopleVars, IInv, RoomSafe, ItemsMatchRounds,
  QueueInOrder, Queue, VotingOnlyWhileActive, CompletedVotedAll, Missing,
  HasVoted, NobodyDoneInDraft

\* task_delete
LEMMA TaskDeleteSafe ==
    ASSUME RoomAssumption, IInv, NEW t \in Tasks,
           NEW r \in [Gated -> BOOLEAN], TaskDelete(t, r)
    PROVE  RoomSafe'
<1>1. /\ position'[t] = 0 /\ itemStatus'[t] = "none" /\ currentRound'[t] = 0
      /\ roundStatus'[t] = NoRounds
      /\ \A u \in Tasks \ {t} :
            /\ position'[u] = position[u] /\ itemStatus'[u] = itemStatus[u]
            /\ currentRound'[u] = currentRound[u]
            /\ roundStatus'[u] = roundStatus[u] /\ votes'[u] = votes[u]
  BY DEF TaskDelete, IInv, TypeOK
<1>2. ItemsMatchRounds'
  BY <1>1, NoRoundsMatch DEF ItemsMatchRounds, IInv, RoomSafe
<1>3. Queue' = Queue \ {t}
  BY <1>1 DEF Queue
<1>4. QueueInOrder'
  <2>1. \A u \in Tasks : /\ position'[u] # 0 <=> itemStatus'[u] # "none"
                         /\ position'[u] # 0 => u \in backlog'
    BY <1>1 DEF TaskDelete, QueueInOrder, IInv, RoomSafe
  <2>2. \A u, v \in Queue' : position'[u] = position'[v] => u = v
    BY <1>1, <1>3 DEF Queue, QueueInOrder, IInv, RoomSafe
  <2>3. \A p \in Participants : cursor'[p] # NoTask => cursor'[p] \in Queue'
    BY <1>3 DEF TaskDelete, QueueInOrder, IInv, RoomSafe
  <2>. QED
    BY <2>1, <2>2, <2>3 DEF QueueInOrder
<1>5. VotingOnlyWhileActive'
  BY <1>1 DEF TaskDelete, VotingOnlyWhileActive, IInv, TypeOK, RoomSafe
<1>6. CompletedVotedAll' /\ NobodyDoneInDraft'
  <2>1. \A u \in Queue' : u \in Tasks \ {t}
    BY <1>3 DEF Queue
  <2>. QED
    BY <1>1, <1>3, <2>1 DEF TaskDelete, CompletedVotedAll, Missing, HasVoted,
      NobodyDoneInDraft, IInv, RoomSafe
<1>. QED
  BY <1>2, <1>4, <1>5, <1>6 DEF RoomSafe

\* session_import_file
LEMMA ImportFileSafe ==
    ASSUME RoomAssumption, IInv,
           NEW t \in InFile, NEW closed \in BOOLEAN, NEW hours \in Hours,
           NEW r \in [Gated -> BOOLEAN], NEW planned \in BOOLEAN,
           SessionImportFile(t, closed, hours, r, planned)
    PROVE  RoomSafe'
<1> DEFINE new == IF /\ ~Voted(t) /\ ~planned /\ position[t] = 0
                     /\ estimate'[t] = NoSummary /\ ~done'[t] /\ ready'[t]
                  THEN {t} ELSE {}
           allowed == {u \in Tasks : ~done'[u] /\ ready'[u]}
<1>1. /\ Unfinished /\ ImportRow(t, closed, hours, r)
      /\ Enqueue(new)
      /\ UNCHANGED <<archived, votes, joined, cursor>>
  BY DEF SessionImportFile
<1>2. IF new # {} /\ status = "active"
      THEN OpenPending(WithPending(new), currentTask, allowed)
      ELSE /\ itemStatus' = WithPending(new)
           /\ UNCHANGED <<status, currentTask, currentRound, roundStatus,
                          completed>>
  BY DEF SessionImportFile
<1>3. backlog \subseteq backlog' /\ (~Voted(t) => t \in backlog')
  BY <1>1 DEF ImportRow
<1>4. /\ new \in SUBSET Tasks /\ new \in SUBSET backlog'
      /\ \A u \in new : position[u] = 0
      /\ allowed \in SUBSET Tasks /\ new \subseteq allowed
  BY <1>3 DEF RoomAssumption
<1>. HIDE DEF new, allowed
<1>5. Grown(new)
  BY <1>1, <1>4, EnqueueGrows
<1>6. CASE new # {} /\ status = "active"
  BY <1>1, <1>2, <1>3, <1>4, <1>5, <1>6, OpenQueueSafe
<1>7. CASE status # "active"
  BY <1>1, <1>2, <1>3, <1>4, <1>5, <1>7, DraftGrowsSafe DEF Unfinished
<1>8. CASE new = {}
  <2>1. /\ WithPending(new) = itemStatus
        /\ position \in [Tasks -> 0 .. MaxPosition]
        /\ position' \in [Tasks -> 0 .. MaxPosition]
        /\ \A u \in Tasks : position'[u] = position[u]
    BY <1>5, <1>8 DEF WithPending, Grown, IInv, TypeOK
  <2>2. UNCHANGED <<roomVars, queueVars, roundStatus, votes, peopleVars>>
    BY <1>1, <1>2, <1>8, <2>1 DEF roomVars, queueVars, peopleVars
  <2>. QED
    BY <1>3, <2>2, TasksChangeSafe
<1>. QED
  BY <1>6, <1>7, <1>8

-----------------------------------------------------------------------------
(***************************************************************************)
(* The invariant.                                                          *)
(***************************************************************************)

LEMMA SafeStep ==
    ASSUME RoomAssumption, IInv, [Next]_vars
    PROVE  RoomSafe'
<1>1. CASE Organiser
  <2>1. ASSUME NEW T \in SUBSET Tasks, SessionCreate(T) \/ SessionCopy(T)
        PROVE  RoomSafe'
    BY <2>1, NewRoomSafe DEF SessionCreate, SessionCopy
  <2>. QED
    BY <1>1, <2>1, QueueAddSafe, StartSafe, StartTaskSafe, NavigateSafe,
      RevealSafe, RevoteSafe, AcceptSafe, FinishSafe, ArchiveSafe, NoRowsSafe
    DEF Organiser
<1>2. ASSUME NEW p \in Participants, Participant(p)
      PROVE  RoomSafe'
  BY <1>2, ParticipantSafe
<1>3. CASE Project
  <2>1. ASSUME NEW t \in Managed,
               TaskComplete(t) \/ TaskReopen(t) \/ AcceptElsewhere(t)
        PROVE  RoomSafe'
    BY <2>1, TasksChangeSafe DEF TaskComplete, TaskReopen, AcceptElsewhere
  <2>2. ASSUME NEW t \in Managed, NEW r \in [Gated -> BOOLEAN], TaskDelete(t, r)
        PROVE  RoomSafe'
    BY <2>2, TaskDeleteSafe DEF RoomAssumption
  <2>3. ASSUME NEW r \in [Gated -> BOOLEAN], TaskCompetencyUpdate(r)
        PROVE  RoomSafe'
    BY <2>3, TasksChangeSafe DEF TaskCompetencyUpdate
  <2>4. ASSUME NEW t \in InFile, NEW closed \in BOOLEAN, NEW hours \in Hours,
               NEW r \in [Gated -> BOOLEAN], TaskImport(t, closed, hours, r)
        PROVE  RoomSafe'
    <3>1. backlog \subseteq backlog'
      BY <2>4 DEF TaskImport, ImportRow
    <3>. QED
      BY <2>4, <3>1, TasksChangeSafe DEF TaskImport
  <2>. QED
    BY <1>3, <2>1, <2>2, <2>3, <2>4, ImportFileSafe DEF Project
<1>4. CASE UNCHANGED vars
  BY <1>4, TasksChangeSafe DEF vars, taskVars
<1>. QED
  BY <1>1, <1>2, <1>3, <1>4 DEF Next

\* The queue, the rounds, the cursors, the organiser's focus and the
\* completions agree under every handler (session_* and room_* of
\* poker/views.py).
THEOREM RoomInvariant == Spec => []IInv
<1>1. Init => IInv
  BY RoomAssumption, TypeOKInit, NoRowsSafe DEF IInv
<1>2. IInv /\ [Next]_vars => IInv'
  BY RoomAssumption, TypeOKStep, SafeStep DEF IInv
<1>. QED
  BY <1>1, <1>2, PTL DEF Spec

\* The status of an item is that of its latest round, which is its current
\* round, and no older round is open.
THEOREM ItemsAlwaysMatchRounds == Spec => []ItemsMatchRounds
<1>1. IInv => ItemsMatchRounds
  BY DEF IInv, RoomSafe
<1>. QED
  BY <1>1, RoomInvariant, PTL

\* Every item has a place of its own, every place an item of an existing task.
THEOREM QueueAlwaysInOrder == Spec => []QueueInOrder
<1>1. IInv => QueueInOrder
  BY DEF IInv, RoomSafe
<1>. QED
  BY <1>1, RoomInvariant, PTL

\* Nothing is voted on but in an active room, and the organiser's focus is on
\* an open item or nowhere.
THEOREM VotingAlwaysInActiveRoom == Spec => []VotingOnlyWhileActive
<1>1. IInv => VotingOnlyWhileActive
  BY DEF IInv, RoomSafe
<1>. QED
  BY <1>1, RoomInvariant, PTL

\* Whoever has finished has a vote in the current round of every item.
THEOREM CompletedAlwaysVotedAll == Spec => []CompletedVotedAll
<1>1. IInv => CompletedVotedAll
  BY DEF IInv, RoomSafe
<1>. QED
  BY <1>1, RoomInvariant, PTL

=============================================================================
