-------------------------- MODULE VotingRoomSteps --------------------------
(***************************************************************************)
(* What the steps of VotingRoom may do, proved from the invariant IInv:    *)
(* every round moves as module Round allows, a finished room is final, a   *)
(* completion is not lost, the export keeps what was accepted, and the     *)
(* page of a participant asks the room for nothing else.                   *)
(***************************************************************************)
EXTENDS VotingRoomProofs, RoomClient

(***************************************************************************)
(* The moves of a round.                                                   *)
(***************************************************************************)

\* What may happen to round n of task t, spelled out.
RoundMove(t, n) ==
    LET before == roundStatus[t][n]
        after == roundStatus'[t][n]
    IN  \/ /\ votes'[t][n] = votes[t][n]
           /\ \/ before = after
              \/ before = "none" /\ after = "voting"
              \/ /\ before = "voting" /\ after = "revealed"
                 /\ VoteCount(votes[t][n]) >= MinVotes
              \/ before = "revealed" /\ after = "closed"
              \/ before \in OpenStatus /\ after = "cancelled"
        \/ /\ before = "voting" /\ after = "voting"
           /\ \E p \in Participants, v \in Cards :
                 votes'[t][n] = [votes[t][n] EXCEPT ![p] = v]
        \/ after = "none" /\ votes'[t][n] = EmptyBallot

\* There are no votes where there is no round.
BallotsOfRounds ==
    \A t \in Tasks, n \in Numbers :
        roundStatus[t][n] = "none" => votes[t][n] = EmptyBallot

\* The step of every round is one of Round's, or none.
RoundSteps ==
    \A t \in Tasks, n \in Numbers :
       \/ AbstractRound(t, n)!Next
       \/ UNCHANGED <<roundStatus[t][n], votes[t][n]>>

\* A move is an action of Round.
LEMMA MovesAreSteps ==
    ASSUME BallotsOfRounds, NEW t \in Tasks, NEW n \in Numbers, RoundMove(t, n)
    PROVE  \/ AbstractRound(t, n)!Next
           \/ UNCHANGED <<roundStatus[t][n], votes[t][n]>>
<1> USE DEF AbstractRound!Next
<1>1. CASE /\ votes'[t][n] = votes[t][n]
           /\ roundStatus[t][n] = roundStatus'[t][n]
  BY <1>1
<1>2. CASE /\ votes'[t][n] = votes[t][n]
           /\ roundStatus[t][n] = "none" /\ roundStatus'[t][n] = "voting"
  BY <1>2 DEF AbstractRound!Open
<1>3. CASE /\ votes'[t][n] = votes[t][n]
           /\ roundStatus[t][n] = "voting" /\ roundStatus'[t][n] = "revealed"
           /\ VoteCount(votes[t][n]) >= MinVotes
  <2>1. AbstractRound(t, n)!VoteCount(votes[t][n]) = VoteCount(votes[t][n])
    BY DEF AbstractRound!VoteCount, AbstractRound!Voters, VoteCount, Voters,
      AbstractRound!Cardinality, Cardinality
  <2>. QED
    BY <1>3, <2>1 DEF AbstractRound!Reveal
<1>4. CASE /\ votes'[t][n] = votes[t][n]
           /\ roundStatus[t][n] = "revealed" /\ roundStatus'[t][n] = "closed"
  BY <1>4 DEF AbstractRound!Accept
<1>5. CASE /\ votes'[t][n] = votes[t][n]
           /\ roundStatus[t][n] \in OpenStatus
           /\ roundStatus'[t][n] = "cancelled"
  BY <1>5 DEF AbstractRound!Cancel, OpenStatus
<1>6. CASE /\ roundStatus[t][n] = "voting" /\ roundStatus'[t][n] = "voting"
           /\ \E p \in Participants, v \in Cards :
                 votes'[t][n] = [votes[t][n] EXCEPT ![p] = v]
  BY <1>6 DEF AbstractRound!Vote
<1>7. CASE roundStatus'[t][n] = "none" /\ votes'[t][n] = EmptyBallot
  BY <1>7 DEF BallotsOfRounds, AbstractRound!Discard,
    AbstractRound!EmptyBallot, EmptyBallot
<1>. QED
  BY <1>1, <1>2, <1>3, <1>4, <1>5, <1>6, <1>7 DEF RoundMove

-----------------------------------------------------------------------------
(***************************************************************************)
(* The handlers move the rounds so.                                        *)
(***************************************************************************)

\* Most handlers leave the rounds alone.
LEMMA RoundsKept ==
    ASSUME UNCHANGED <<roundStatus, votes>>
    PROVE  \A t \in Tasks, n \in Numbers : RoundMove(t, n)
BY DEF RoundMove

\* _create_round_for_item takes a number that has no round yet.
LEMMA CreateRoundsMoves ==
    ASSUME RoomAssumption, TypeOK, UNCHANGED votes,
           NEW items, NEW rounds, NEW S \in SUBSET Tasks,
           CreateRounds(items, rounds, S),
           \A t \in Tasks, n \in Numbers :
              \/ rounds[t][n] = roundStatus[t][n]
              \/ roundStatus[t][n] \in OpenStatus /\ rounds[t][n] = "cancelled"
    PROVE  \A t \in Tasks, n \in Numbers : RoundMove(t, n)
<1> SUFFICES ASSUME NEW t \in Tasks, NEW n \in Numbers
             PROVE  RoundMove(t, n)
  OBVIOUS
<1>1. roundStatus'[t][n] = IF t \in S /\ n = LastNumber(t) + 1 THEN "voting"
                                                              ELSE rounds[t][n]
  BY DEF CreateRounds
<1>2. CASE t \in S /\ n = LastNumber(t) + 1
  <2>1. /\ roundStatus[t] \in [Numbers -> RoundStatus]
        /\ MaxRounds \in Nat
    BY DEF TypeOK, RoomAssumption
  <2>2. /\ LastOf(roundStatus[t]) \in 0 .. MaxRounds
        /\ \A m \in Numbers :
              m > LastOf(roundStatus[t]) => roundStatus[t][m] = "none"
    BY <2>1, LastOfIs
  <2>3. roundStatus[t][n] = "none"
    BY <1>2, <2>1, <2>2 DEF LastNumber, Numbers
  <2>. QED
    BY <1>1, <1>2, <2>3 DEF RoundMove
<1>3. CASE ~(t \in S /\ n = LastNumber(t) + 1)
  BY <1>1, <1>3 DEF RoundMove
<1>. QED
  BY <1>2, <1>3

\* So does opening everything that waits.
LEMMA OpenPendingMoves ==
    ASSUME RoomAssumption, TypeOK, UNCHANGED votes, NEW items, NEW cur,
           NEW allowed \in SUBSET Tasks, OpenPending(items, cur, allowed)
    PROVE  \A t \in Tasks, n \in Numbers : RoundMove(t, n)
<1> DEFINE opening == {t \in allowed : items[t] \in {"pending", "skipped"}}
<1>1. CreateRounds(items, roundStatus, opening)
  BY DEF OpenPending
<1>2. opening \in SUBSET Tasks
  OBVIOUS
<1> HIDE DEF opening
<1>. QED
  BY <1>1, <1>2, CreateRoundsMoves

\* The organiser reveals a round with a quorum and accepts a revealed one.
LEMMA SetRoundMoves ==
    ASSUME TypeOK, UNCHANGED votes,
           NEW u \in Tasks, NEW k \in Numbers, NEW s,
           roundStatus' = SetRound(u, k, s),
           \/ /\ roundStatus[u][k] = "voting" /\ s = "revealed"
              /\ VoteCount(votes[u][k]) >= MinVotes
           \/ roundStatus[u][k] = "revealed" /\ s = "closed"
    PROVE  \A t \in Tasks, n \in Numbers : RoundMove(t, n)
<1> SUFFICES ASSUME NEW t \in Tasks, NEW n \in Numbers
             PROVE  RoundMove(t, n)
  OBVIOUS
<1>1. roundStatus'[t][n] = IF t = u /\ n = k THEN s ELSE roundStatus[t][n]
  BY DEF SetRound, TypeOK
<1>. QED
  BY <1>1 DEF RoundMove

\* A vote goes into a round that is being voted on.
LEMMA VoteMoves ==
    ASSUME TypeOK, NEW p \in Participants, NEW v \in Cards, RoomVote(p, v)
    PROVE  \A t \in Tasks, n \in Numbers : RoundMove(t, n)
<1> DEFINE u == QueueItem(p)
           k == currentRound[u]
<1>1. /\ roundStatus[u][k] = "voting"
      /\ votes' = [votes EXCEPT ![u][k][p] = v]
      /\ UNCHANGED roundStatus
  BY DEF RoomVote, CanVote, CastVote
<1> HIDE DEF u, k
<1> SUFFICES ASSUME NEW t \in Tasks, NEW n \in Numbers
             PROVE  RoundMove(t, n)
  OBVIOUS
<1>2. votes'[t][n] = IF t = u /\ n = k THEN [votes[t][n] EXCEPT ![p] = v]
                                       ELSE votes[t][n]
  BY <1>1 DEF TypeOK
<1>. QED
  BY <1>1, <1>2 DEF RoundMove

\* Every handler moves every round as a round may move.
LEMMA RoomMovesRounds ==
    ASSUME RoomAssumption, TypeOK, [Next]_vars
    PROVE  \A t \in Tasks, n \in Numbers : RoundMove(t, n)
<1> DEFINE Goal == \A t \in Tasks, n \in Numbers : RoundMove(t, n)
<1> HIDE DEF Goal
<1>0. UNCHANGED <<roundStatus, votes>> => Goal
  BY RoundsKept DEF Goal
<1>1. ASSUME NEW items, NEW cur, NEW allowed \in SUBSET Tasks,
             OpenPending(items, cur, allowed), UNCHANGED votes
      PROVE  Goal
  BY <1>1, OpenPendingMoves DEF Goal
<1>2. AllowedTasks \in SUBSET Tasks
  BY DEF AllowedTasks
<1>3. ASSUME NEW T \in SUBSET Tasks,
             SessionCreate(T) \/ SessionCopy(T) \/ SessionQueueAdd(T)
      PROVE  Goal
  BY <1>0, <1>1, <1>2, <1>3
  DEF SessionCreate, SessionCopy, NewRoom, SessionQueueAdd, AddToQueue
<1>4. SessionStart => Goal
  BY <1>1, <1>2 DEF SessionStart, OpenQueue
<1>5. ASSUME NEW t \in Tasks, SessionStartTask(t)
      PROVE  Goal
  <2> DEFINE new == IF position[t] = 0 THEN {t} ELSE {}
             open == currentRound[t] # 0
                     /\ roundStatus[t][currentRound[t]] \in OpenStatus
             opening == IF open THEN {} ELSE {t}
             items == WithPending(new)
  <2>1. /\ CreateRounds(items, roundStatus, opening)
        /\ opening \in SUBSET Tasks
        /\ UNCHANGED votes
    BY <1>5 DEF SessionStartTask, OpenTask
  <2> HIDE DEF opening, items
  <2>. QED
    BY <2>1, CreateRoundsMoves DEF Goal
<1>6. SessionReveal \/ SessionAccept => Goal
  <2> DEFINE t == currentTask
             n == FocusRound(currentTask)
  <2>1. TypeOK => t \in Tasks \cup {NoTask}
    BY DEF TypeOK
  <2>2. n # 0 => t \in Tasks /\ n \in Numbers
    BY <2>1, FocusRoundOpen
  <2> HIDE DEF t, n
  <2>3. SessionReveal => /\ roundStatus' = SetRound(t, n, "revealed")
                         /\ n # 0 /\ roundStatus[t][n] = "voting"
                         /\ VoteCount(votes[t][n]) >= MinVotes
                         /\ UNCHANGED votes
    BY DEF SessionReveal, CanReveal, RevealRound, t, n
  <2>4. SessionAccept => /\ roundStatus' = SetRound(t, n, "closed")
                         /\ n # 0 /\ roundStatus[t][n] = "revealed"
                         /\ UNCHANGED votes
    BY DEF SessionAccept, CanAccept, AcceptRound, t, n
  <2>. QED
    BY <2>2, <2>3, <2>4, SetRoundMoves DEF Goal
<1>7. SessionRevote => Goal
  <2> DEFINE t == currentTask
             n == FocusRound(currentTask)
             rounds == SetRound(t, n, "cancelled")
  <2>1. SessionRevote =>
           /\ n # 0 /\ roundStatus[t][n] = "revealed"
           /\ CreateRounds(itemStatus, rounds, {t})
           /\ UNCHANGED votes
    BY DEF SessionRevote, CanRevote, RevoteRound
  <2>2. t \in Tasks \cup {NoTask}
    BY DEF TypeOK
  <2>3. n # 0 => t \in Tasks /\ n \in Numbers
    BY <2>2, FocusRoundOpen
  <2> HIDE DEF t, n
  <2>4. ASSUME t \in Tasks, n \in Numbers, roundStatus[t][n] = "revealed",
               NEW u \in Tasks, NEW m \in Numbers
        PROVE  \/ rounds[u][m] = roundStatus[u][m]
               \/ roundStatus[u][m] \in OpenStatus /\ rounds[u][m] = "cancelled"
    BY <2>4 DEF SetRound, TypeOK, OpenStatus
  <2> HIDE DEF rounds
  <2>. QED
    BY <2>1, <2>3, <2>4, CreateRoundsMoves DEF Goal
<1>8. SessionFinish => Goal
  BY DEF SessionFinish, Goal, RoundMove
<1>9. SessionDelete => Goal
  BY DEF SessionDelete, Goal, RoundMove, NoRounds, NoVotes
<1>10. ASSUME NEW d \in Directions, SessionNavigate(d)
       PROVE  Goal
  BY <1>0, <1>10 DEF SessionNavigate, FocusOn
<1>11. SessionArchive \/ SessionRestore => Goal
  BY <1>0 DEF SessionArchive, SessionRestore, SetArchived
<1>12. Organiser => Goal
  BY <1>3, <1>4, <1>5, <1>6, <1>7, <1>8, <1>9, <1>10, <1>11 DEF Organiser
<1>13. ASSUME NEW p \in Participants, Participant(p)
       PROVE  Goal
  <2>1. ASSUME NEW v \in Cards, RoomVote(p, v)
        PROVE  Goal
    BY <2>1, VoteMoves DEF Goal
  <2>2. ASSUME NEW d \in Directions \cup {"missing"}, RoomNavigate(p, d)
        PROVE  Goal
    BY <1>0, <2>2 DEF RoomNavigate, CanNavigate,
      MoveTargets
  <2>3. RoomJoin(p) \/ RoomState(p) \/ RoomComplete(p) => Goal
    BY <1>0 DEF RoomJoin, Join, RoomState, RoomComplete, MarkComplete
  <2>. QED
    BY <1>13, <2>1, <2>2, <2>3 DEF Participant
<1>14. Project => Goal
  <2>1. ASSUME NEW t \in Tasks,
               TaskComplete(t) \/ TaskReopen(t) \/ AcceptElsewhere(t)
        PROVE  Goal
    BY <1>0, <2>1 DEF TaskComplete, TaskReopen, AcceptElsewhere
  <2>2. ASSUME NEW t \in Tasks, NEW r, TaskDelete(t, r)
        PROVE  Goal
    BY <2>2 DEF TaskDelete, Goal, RoundMove, NoRounds, NoVotes, TypeOK
  <2>3. ASSUME NEW r, TaskCompetencyUpdate(r)
        PROVE  Goal
    BY <1>0, <2>3 DEF TaskCompetencyUpdate
  <2>4. ASSUME NEW t, NEW closed, NEW hours, NEW r,
               TaskImport(t, closed, hours, r)
        PROVE  Goal
    BY <1>0, <2>4 DEF TaskImport
  <2>5. ASSUME NEW t, NEW closed, NEW hours, NEW r, NEW planned,
               SessionImportFile(t, closed, hours, r, planned)
        PROVE  Goal
    <3> DEFINE allowed == {u \in Tasks : ~done'[u] /\ ready'[u]}
               new == IF /\ ~Voted(t) /\ ~planned /\ position[t] = 0
                         /\ estimate'[t] = NoSummary /\ ~done'[t] /\ ready'[t]
                      THEN {t} ELSE {}
    <3>1. /\ UNCHANGED votes
          /\ OpenPending(WithPending(new), currentTask, allowed)
             \/ UNCHANGED roundStatus
      BY <2>5 DEF SessionImportFile
    <3>2. allowed \in SUBSET Tasks
      OBVIOUS
    <3> HIDE DEF allowed, new
    <3>. QED
      BY <1>0, <1>1, <3>1, <3>2
  <2>6. Managed \subseteq Tasks
    BY DEF RoomAssumption
  <2>. QED
    BY <2>1, <2>2, <2>3, <2>4, <2>5, <2>6 DEF Project
<1>15. UNCHANGED vars => Goal
  BY <1>0 DEF vars
<1>. QED
  BY <1>12, <1>13, <1>14, <1>15 DEF Next, Goal

-----------------------------------------------------------------------------
(***************************************************************************)
(* The room implements its rounds.                                         *)
(***************************************************************************)

\* Votes go only where there is a round.
LEMMA BallotsStep ==
    ASSUME RoomAssumption, TypeOK, BallotsOfRounds, [Next]_vars
    PROVE  BallotsOfRounds'
BY RoomMovesRounds DEF RoundMove, BallotsOfRounds, OpenStatus

\* The room's invariant, and no votes without a round.
StepInv == IInv /\ BallotsOfRounds

LEMMA StepInvariant == Spec => []StepInv
<1>1. Init => BallotsOfRounds
  BY DEF Init, BallotsOfRounds, NoRounds, NoVotes
<1>2. IInv /\ BallotsOfRounds /\ [Next]_vars => BallotsOfRounds'
  BY RoomAssumption, BallotsStep DEF IInv
<1>. QED
  BY <1>1, <1>2, RoomInvariant, PTL DEF Spec, StepInv

\* The initial states of all rounds.
RoundsStart == \A t \in Tasks, n \in Numbers : AbstractRound(t, n)!Init

\* Each round of the room is a round as module Round specifies it, whatever
\* handler runs: reveal, revote, accept, finish, a vote, the deletion of its
\* task or of the room.
THEOREM RoomImplementsRounds == Spec => ImplementsRounds
<1>1. Init => RoundsStart
  BY DEF Init, RoundsStart, AbstractRound!Init, NoRounds, NoVotes,
    AbstractRound!EmptyBallot, EmptyBallot
<1>2. StepInv /\ [Next]_vars => RoundSteps
  BY RoomAssumption, RoomMovesRounds, MovesAreSteps
  DEF StepInv, IInv, RoundSteps
<1>3. StepInv /\ [Next]_vars => [RoundSteps]_vars
  BY <1>2
<1>. QED
  BY <1>1, <1>3, StepInvariant, PTL
  DEF Spec, ImplementsRounds, RoundsStart, RoundSteps

-----------------------------------------------------------------------------
(***************************************************************************)
(* A finished room.                                                        *)
(***************************************************************************)

\* What a step of a finished room keeps.
FinishedStep ==
    status = "finished" /\ status' # "none" =>
          /\ status' = "finished"
          /\ joined' = joined /\ completed' = completed
          /\ \A t \in backlog' \cap backlog :
                votes'[t] = votes[t] /\ roundStatus'[t] = roundStatus[t]

\* The invariant leaves nothing open in a finished room for a handler to act on.
LEMMA FinishedKept ==
    ASSUME RoomAssumption, IInv, status = "finished", [Next]_vars
    PROVE  FinishedStep
<1> USE DEF FinishedStep, roomVars, peopleVars
<1>1. /\ ~Unfinished
      /\ \A t \in Tasks : itemStatus[t] # "active"
  BY DEF Unfinished, IInv, RoomSafe, VotingOnlyWhileActive
<1>2. \A t \in Tasks, n \in Numbers : roundStatus[t][n] \notin OpenStatus
  BY <1>1 DEF IInv, RoomSafe, ItemsMatchRounds, Matches
<1>3. FocusRound(currentTask) = 0
  BY <1>1, FocusIsCurrent
<1>4. CASE Organiser
  <2>1. SessionFinish => FinishedStep
    <3>1. SessionFinish => \A t \in Tasks, n \in Numbers :
             roundStatus'[t][n] = roundStatus[t][n]
      BY <1>2 DEF SessionFinish
    <3>2. SessionFinish => roundStatus' \in [Tasks -> [Numbers -> RoundStatus]]
      BY <1>2 DEF SessionFinish, IInv, TypeOK, RoundStatus
    <3>3. SessionFinish => roundStatus' = roundStatus
      BY <3>1, <3>2 DEF IInv, TypeOK
    <3>. QED
      BY <3>3 DEF SessionFinish
  <2>2. ASSUME NEW T \in SUBSET Tasks,
               SessionCreate(T) \/ SessionCopy(T) \/ SessionQueueAdd(T)
        PROVE  FALSE
    BY <1>1, <2>2 DEF SessionCreate, SessionCopy, NewRoom, SessionQueueAdd
  <2>3. ASSUME NEW d \in Directions, SessionNavigate(d)
        PROVE  FinishedStep
    BY <2>3 DEF SessionNavigate, FocusOn
  <2>4. ~SessionStart /\ \A t \in Tasks : ~SessionStartTask(t)
    BY <1>1 DEF SessionStart, SessionStartTask, CanStartTask
  <2>5. ~SessionReveal /\ ~SessionRevote /\ ~SessionAccept
    BY <1>3 DEF SessionReveal, CanReveal, SessionRevote, CanRevote,
      SessionAccept, CanAccept
  <2>6. SessionArchive \/ SessionRestore \/ SessionDelete => FinishedStep
    BY DEF SessionArchive, SessionRestore, SetArchived, SessionDelete
  <2>. QED
    BY <1>4, <2>1, <2>2, <2>3, <2>4, <2>5, <2>6 DEF Organiser
<1>5. ASSUME NEW p \in Participants, Participant(p)
      PROVE  FinishedStep
  <2>1. ASSUME NEW v \in Cards, RoomVote(p, v)
        PROVE  FALSE
    <3>1. /\ QueueItem(p) \in Tasks /\ currentRound[QueueItem(p)] \in Numbers
          /\ roundStatus[QueueItem(p)][currentRound[QueueItem(p)]] = "voting"
      <4>1. QueueItem(p) \in Queue \cup {NoTask}
        BY QueueItemIn DEF IInv
      <4>. QED
        BY <2>1, <4>1
        DEF RoomVote, CanVote, IInv, TypeOK, Queue, Numbers, RoomAssumption
    <3>. QED
      BY <1>2, <3>1 DEF OpenStatus
  <2>2. ASSUME NEW d \in Directions \cup {"missing"}, RoomNavigate(p, d)
        PROVE  FinishedStep
    BY <2>2 DEF RoomNavigate, CanNavigate,
      MoveTargets
  <2>3. RoomState(p) => FinishedStep
    BY DEF RoomState
  <2>4. ~RoomJoin(p) /\ ~RoomComplete(p)
    BY <1>1 DEF RoomJoin, RoomComplete, CanComplete
  <2>. QED
    BY <1>5, <2>1, <2>2, <2>3, <2>4 DEF Participant
<1>6. CASE Project
  <2>1. ASSUME NEW t, TaskComplete(t) \/ TaskReopen(t) \/ AcceptElsewhere(t)
        PROVE  FinishedStep
    BY <2>1 DEF TaskComplete, TaskReopen, AcceptElsewhere
  <2>2. ASSUME NEW t, NEW r, TaskDelete(t, r)
        PROVE  FinishedStep
    <3>1. \A u \in backlog' \cap backlog :
             votes'[u] = votes[u] /\ roundStatus'[u] = roundStatus[u]
      BY <2>2 DEF TaskDelete, IInv, TypeOK
    <3>. QED
      BY <2>2, <3>1 DEF TaskDelete
  <2>3. ASSUME NEW r, TaskCompetencyUpdate(r)
        PROVE  FinishedStep
    BY <2>3 DEF TaskCompetencyUpdate
  <2>4. ASSUME NEW t, NEW closed, NEW hours, NEW r,
               TaskImport(t, closed, hours, r)
        PROVE  FinishedStep
    BY <2>4 DEF TaskImport
  <2>5. ASSUME NEW t, NEW closed, NEW hours, NEW r, NEW planned
        PROVE  ~SessionImportFile(t, closed, hours, r, planned)
    BY <1>1 DEF SessionImportFile
  <2>. QED
    BY <1>6, <2>1, <2>2, <2>3, <2>4, <2>5 DEF Project
<1>7. CASE UNCHANGED vars
  BY <1>7 DEF vars
<1>. QED
  BY <1>4, <1>5, <1>6, <1>7 DEF Next

\* A finished room stays finished until it is deleted: nobody joins or votes,
\* nobody's completion changes and no round opens again.
THEOREM FinishedStaysFinal == Spec => FinishedIsFinal
<1>1. IInv /\ [Next]_vars => [FinishedStep]_vars
  BY RoomAssumption, FinishedKept DEF FinishedStep
<1>. QED
  BY <1>1, RoomInvariant, PTL DEF Spec, FinishedIsFinal, FinishedStep

-----------------------------------------------------------------------------
(***************************************************************************)
(* Completions.                                                            *)
(***************************************************************************)

\* Whoever is called back has something to vote on.
CompletionStep ==
    \A p \in completed \ completed' :
        \/ status' = "none"
        \/ \E t \in Queue' : ~HasVoted(p, t)'

\* A new round has no votes, and its item is in the queue.
LEMMA NewRoundCallsBack ==
    ASSUME RoomAssumption, StepInv, IInv', UNCHANGED votes,
           NEW items, NEW rounds, NEW S \in SUBSET Tasks,
           CreateRounds(items, rounds, S)
    PROVE  CompletionStep
<1>1. CASE S = {}
  BY <1>1 DEF CreateRounds, CompletedAfter, CompletionStep
<1>2. CASE S # {}
  <2>1. PICK t \in Tasks : t \in S
    BY <1>2
  <2> DEFINE k == LastOf(roundStatus[t]) + 1
  <2>2. /\ itemStatus'[t] = "active"
        /\ currentRound'[t] = k
        /\ LastOf(roundStatus[t]) < MaxRounds
    BY <2>1 DEF CreateRounds, LastNumber
  <2>3. t \in Queue'
    BY <2>2 DEF IInv, RoomSafe, QueueInOrder, Queue
  <2>4. /\ roundStatus[t] \in [Numbers -> RoundStatus]
        /\ MaxRounds \in Nat
    BY DEF StepInv, IInv, TypeOK, RoomAssumption
  <2>5. /\ LastOf(roundStatus[t]) \in 0 .. MaxRounds
        /\ \A m \in Numbers :
              m > LastOf(roundStatus[t]) => roundStatus[t][m] = "none"
    BY <2>4, LastOfIs
  <2>6. k \in Numbers /\ k # 0 /\ roundStatus[t][k] = "none"
    BY <2>2, <2>4, <2>5 DEF Numbers
  <2>7. votes'[t][k] = EmptyBallot
    BY <2>6 DEF StepInv, BallotsOfRounds
  <2> HIDE DEF k
  <2>8. ASSUME NEW p \in completed
        PROVE  ~HasVoted(p, t)'
    <3>1. p \in Participants
      BY DEF StepInv, IInv, TypeOK
    <3>. QED
      BY <2>2, <2>7, <3>1 DEF HasVoted, EmptyBallot
  <2>. QED
    BY <2>3, <2>8 DEF CompletionStep
<1>. QED
  BY <1>1, <1>2

\* Only new rounds and the room's deletion take completions back.
LEMMA CompletionKept ==
    ASSUME RoomAssumption, StepInv, IInv', [Next]_vars
    PROVE  CompletionStep
<1> USE DEF peopleVars
<1>0. completed \subseteq completed' => CompletionStep
  BY DEF CompletionStep
<1>1. ASSUME NEW items, NEW cur, NEW allowed \in SUBSET Tasks,
             OpenPending(items, cur, allowed), UNCHANGED votes
      PROVE  CompletionStep
  <2> DEFINE opening == {t \in allowed : items[t] \in {"pending", "skipped"}}
  <2>1. CreateRounds(items, roundStatus, opening)
    BY <1>1 DEF OpenPending
  <2>2. opening \in SUBSET Tasks
    OBVIOUS
  <2> HIDE DEF opening
  <2>. QED
    BY <1>1, <2>1, <2>2, NewRoundCallsBack
<1>2. AllowedTasks \in SUBSET Tasks
  BY DEF AllowedTasks
<1>3. CASE Organiser
  <2>1. ASSUME NEW T \in SUBSET Tasks,
               SessionCreate(T) \/ SessionCopy(T) \/ SessionQueueAdd(T)
        PROVE  CompletionStep
    BY <1>0, <1>1, <1>2, <2>1
    DEF SessionCreate, SessionCopy, NewRoom, SessionQueueAdd, AddToQueue
  <2>2. SessionStart => CompletionStep
    BY <1>1, <1>2 DEF SessionStart, OpenQueue
  <2>3. ASSUME NEW t \in Tasks, SessionStartTask(t)
        PROVE  CompletionStep
    <3> DEFINE new == IF position[t] = 0 THEN {t} ELSE {}
               open == currentRound[t] # 0
                       /\ roundStatus[t][currentRound[t]] \in OpenStatus
               opening == IF open THEN {} ELSE {t}
               items == WithPending(new)
    <3>1. /\ CreateRounds(items, roundStatus, opening)
          /\ opening \in SUBSET Tasks
          /\ UNCHANGED votes
      BY <2>3 DEF SessionStartTask, OpenTask
    <3> HIDE DEF opening, items
    <3>. QED
      BY <3>1, NewRoundCallsBack
  <2>4. SessionRevote => CompletionStep
    <3> DEFINE t == currentTask
               n == FocusRound(currentTask)
               rounds == SetRound(t, n, "cancelled")
    <3>1. SessionRevote => /\ n # 0
                           /\ CreateRounds(itemStatus, rounds, {t})
                           /\ UNCHANGED votes
      BY DEF SessionRevote, CanRevote, RevoteRound
    <3>2. n # 0 => {t} \in SUBSET Tasks
      BY FocusIsCurrent DEF StepInv
    <3> HIDE DEF t, n, rounds
    <3>. QED
      BY <3>1, <3>2, NewRoundCallsBack
  <2>5. ASSUME NEW d \in Directions, SessionNavigate(d)
        PROVE  CompletionStep
    BY <1>0, <2>5 DEF SessionNavigate, FocusOn
  <2>6. SessionReveal \/ SessionAccept \/ SessionFinish => CompletionStep
    BY <1>0 DEF SessionReveal, RevealRound, SessionAccept, AcceptRound,
      SessionFinish
  <2>7. SessionArchive \/ SessionRestore \/ SessionDelete => CompletionStep
    BY <1>0 DEF SessionArchive, SessionRestore, SetArchived, SessionDelete,
      CompletionStep
  <2>. QED
    BY <1>3, <2>1, <2>2, <2>3, <2>4, <2>5, <2>6, <2>7 DEF Organiser
<1>4. ASSUME NEW p \in Participants, Participant(p)
      PROVE  CompletionStep
  BY <1>0, <1>4 DEF Participant, RoomJoin, Join, RoomState, RoomComplete,
    MarkComplete, RoomVote, CastVote, RoomNavigate, CanNavigate,
      MoveTargets
<1>5. CASE Project
  <2>1. ASSUME NEW t, TaskComplete(t) \/ TaskReopen(t) \/ AcceptElsewhere(t)
        PROVE  CompletionStep
    BY <1>0, <2>1 DEF TaskComplete, TaskReopen, AcceptElsewhere
  <2>2. ASSUME NEW t, NEW r, TaskDelete(t, r)
        PROVE  CompletionStep
    BY <1>0, <2>2 DEF TaskDelete
  <2>3. ASSUME NEW r, TaskCompetencyUpdate(r)
        PROVE  CompletionStep
    BY <1>0, <2>3 DEF TaskCompetencyUpdate
  <2>4. ASSUME NEW t, NEW closed, NEW hours, NEW r,
               TaskImport(t, closed, hours, r)
        PROVE  CompletionStep
    BY <1>0, <2>4 DEF TaskImport
  <2>5. ASSUME NEW t, NEW closed, NEW hours, NEW r, NEW planned,
               SessionImportFile(t, closed, hours, r, planned)
        PROVE  CompletionStep
    <3> DEFINE allowed == {u \in Tasks : ~done'[u] /\ ready'[u]}
               new == IF /\ ~Voted(t) /\ ~planned /\ position[t] = 0
                         /\ estimate'[t] = NoSummary /\ ~done'[t] /\ ready'[t]
                      THEN {t} ELSE {}
    <3>1. /\ UNCHANGED votes
          /\ OpenPending(WithPending(new), currentTask, allowed)
             \/ UNCHANGED completed
      BY <2>5 DEF SessionImportFile
    <3>2. allowed \in SUBSET Tasks
      OBVIOUS
    <3> HIDE DEF allowed, new
    <3>. QED
      BY <1>0, <1>1, <3>1, <3>2
  <2>. QED
    BY <1>5, <2>1, <2>2, <2>3, <2>4, <2>5 DEF Project
<1>6. CASE UNCHANGED vars
  BY <1>0, <1>6 DEF vars
<1>. QED
  BY <1>3, <1>4, <1>5, <1>6 DEF Next

\* A participant's completion is taken back only when there is something new to
\* vote on, or with the room (_reset_participant_completions).
THEOREM CompletionsKept == Spec => CompletionKeptUntilNewRound
<1>1. IInv' /\ StepInv /\ [Next]_vars => [CompletionStep]_vars
  BY RoomAssumption, CompletionKept
<1>. QED
  BY <1>1, RoomInvariant, StepInvariant, PTL
  DEF Spec, CompletionKeptUntilNewRound, CompletionStep

-----------------------------------------------------------------------------
(***************************************************************************)
(* The export.                                                             *)
(***************************************************************************)

\* What every handler but session_accept and the deletions keep: no round is
\* closed, and none disappears.
ResultsKept ==
    \A t \in Tasks, n \in Numbers :
        /\ roundStatus'[t][n] = "closed" => roundStatus[t][n] = "closed"
        /\ roundStatus'[t][n] = "none" => roundStatus[t][n] = "none"

\* New rounds close none, nor does opening everything that waits.
LEMMA CreateRoundsKeepResults ==
    ASSUME NEW items, NEW rounds, NEW S, CreateRounds(items, rounds, S),
           \A t \in Tasks, n \in Numbers :
              rounds[t][n] \in {roundStatus[t][n], "cancelled"}
    PROVE  ResultsKept
BY DEF CreateRounds, ResultsKept

LEMMA OpenPendingKeepsResults ==
    ASSUME NEW items, NEW cur, NEW allowed, OpenPending(items, cur, allowed)
    PROVE  ResultsKept
<1>1. PICK S : CreateRounds(items, roundStatus, S)
  BY DEF OpenPending
<1>. QED
  BY <1>1, CreateRoundsKeepResults

LEMMA ResultsStep ==
    ASSUME RoomAssumption, IInv, [Next]_vars, ~SessionAccept, ~SessionDelete,
           \A t \in Managed, r \in [Gated -> BOOLEAN] : ~TaskDelete(t, r)
    PROVE  ResultsKept
<1>1. UNCHANGED roundStatus => ResultsKept
  BY DEF ResultsKept
<1>2. CASE Organiser
  <2>1. ASSUME NEW T \in SUBSET Tasks,
               SessionCreate(T) \/ SessionCopy(T) \/ SessionQueueAdd(T)
        PROVE  ResultsKept
    BY <1>1, <2>1, OpenPendingKeepsResults
    DEF SessionCreate, SessionCopy, NewRoom, SessionQueueAdd, AddToQueue
  <2>2. SessionStart => ResultsKept
    BY OpenPendingKeepsResults DEF SessionStart, OpenQueue
  <2>3. ASSUME NEW t \in Tasks, SessionStartTask(t)
        PROVE  ResultsKept
    <3>1. PICK items, S : CreateRounds(items, roundStatus, S)
      BY <2>3 DEF SessionStartTask, OpenTask
    <3>. QED
      BY <3>1, CreateRoundsKeepResults
  <2>4. SessionRevote => ResultsKept
    <3> DEFINE rounds == SetRound(currentTask, FocusRound(currentTask), "cancelled")
    <3>1. SessionRevote => \E S : CreateRounds(itemStatus, rounds, S)
      BY DEF SessionRevote, RevoteRound
    <3>2. \A t \in Tasks, n \in Numbers :
             rounds[t][n] \in {roundStatus[t][n], "cancelled"}
      BY DEF SetRound, IInv, TypeOK
    <3> HIDE DEF rounds
    <3>. QED
      BY <3>1, <3>2, CreateRoundsKeepResults
  <2>5. ASSUME NEW d \in Directions, SessionNavigate(d)
        PROVE  ResultsKept
    BY <1>1, <2>5 DEF SessionNavigate, FocusOn
  <2>6. ASSUME SessionReveal
        PROVE  ResultsKept
    <3>1. PICK u, k : roundStatus' = SetRound(u, k, "revealed")
      BY <2>6 DEF SessionReveal, RevealRound
    <3>2. SUFFICES ASSUME NEW t \in Tasks, NEW n \in Numbers
                   PROVE  roundStatus'[t][n] \in {roundStatus[t][n], "revealed"}
      BY DEF ResultsKept
    <3>3. roundStatus \in [Tasks -> [Numbers -> RoundStatus]]
      BY DEF IInv, TypeOK
    <3>. QED
      BY <3>1, <3>3 DEF SetRound
  <2>7. SessionFinish => ResultsKept
    BY DEF SessionFinish, ResultsKept
  <2>8. SessionArchive \/ SessionRestore => ResultsKept
    BY <1>1 DEF SessionArchive, SessionRestore, SetArchived
  <2>. QED
    BY <1>2, <2>1, <2>2, <2>3, <2>4, <2>5, <2>6, <2>7, <2>8 DEF Organiser
<1>3. ASSUME NEW p \in Participants, Participant(p)
      PROVE  ResultsKept
  BY <1>1, <1>3 DEF Participant, RoomJoin, Join, RoomState, RoomComplete,
    MarkComplete, RoomVote, CastVote, RoomNavigate, CanNavigate, MoveTargets
<1>4. CASE Project
  <2>1. ASSUME NEW t, TaskComplete(t) \/ TaskReopen(t) \/ AcceptElsewhere(t)
        PROVE  ResultsKept
    BY <1>1, <2>1 DEF TaskComplete, TaskReopen, AcceptElsewhere
  <2>2. ASSUME NEW r, TaskCompetencyUpdate(r)
        PROVE  ResultsKept
    BY <1>1, <2>2 DEF TaskCompetencyUpdate
  <2>3. ASSUME NEW t, NEW closed, NEW hours, NEW r,
               TaskImport(t, closed, hours, r)
        PROVE  ResultsKept
    BY <1>1, <2>3 DEF TaskImport
  <2>4. ASSUME NEW t, NEW closed, NEW hours, NEW r, NEW planned,
               SessionImportFile(t, closed, hours, r, planned)
        PROVE  ResultsKept
    <3>1. \/ \E items, cur, allowed : OpenPending(items, cur, allowed)
          \/ UNCHANGED roundStatus
      BY <2>4 DEF SessionImportFile
    <3>. QED
      BY <1>1, <3>1, OpenPendingKeepsResults
  <2>. QED
    BY <1>4, <2>1, <2>2, <2>3, <2>4 DEF Project
<1>5. CASE UNCHANGED vars
  BY <1>1, <1>5 DEF vars
<1>. QED
  BY <1>2, <1>3, <1>4, <1>5 DEF Next

\* The invariant: an item whose latest round is closed is completed, and an item
\* is completed only then.  So a line that stays has the same closed round, whose
\* votes stay too, and a line that goes has made room for a newer round.
LEMMA ResultsKeptExported ==
    ASSUME RoomAssumption, IInv, IInv', [Next]_vars, ResultsKept
    PROVE  ExportStep
<1> SUFFICES ASSUME NEW t \in Tasks
             PROVE  /\ Exported(t)' => /\ Exported(t)
                                       /\ ExportSummary(t)' = ExportSummary(t)
                    /\ Exported(t) /\ ~Exported(t)' =>
                          currentRound'[t] > currentRound[t]
  BY DEF ExportStep
<1> DEFINE n == currentRound[t]
           k == currentRound'[t]
<1>1. /\ roundStatus[t] \in [Numbers -> RoundStatus]
      /\ roundStatus'[t] \in [Numbers -> RoundStatus]
      /\ MaxRounds \in Nat
      /\ itemStatus[t] \in ItemStatus /\ itemStatus'[t] \in ItemStatus
  BY DEF IInv, TypeOK, RoomAssumption
<1>2. /\ Matches(itemStatus[t], n, roundStatus[t])
      /\ Matches(itemStatus'[t], k, roundStatus'[t])
  BY DEF IInv, RoomSafe, ItemsMatchRounds
<1>3. /\ n \in 0 .. MaxRounds /\ (n = 0 \/ roundStatus[t][n] # "none")
      /\ \A m \in Numbers : m > n => roundStatus[t][m] = "none"
      /\ k \in 0 .. MaxRounds /\ (k = 0 \/ roundStatus'[t][k] # "none")
      /\ \A m \in Numbers : m > k => roundStatus'[t][m] = "none"
  BY <1>1, <1>2, LastOfIs DEF Matches
<1>4. n <= k
  BY <1>1, <1>3 DEF ResultsKept, Numbers
<1>5. ASSUME Exported(t)'
      PROVE  Exported(t) /\ ExportSummary(t)' = ExportSummary(t)
  <2>1. k # 0 /\ roundStatus'[t][k] = "closed"
    BY <1>2, <1>5 DEF Exported, Matches
  <2>2. roundStatus[t][k] = "closed" /\ k \in Numbers
    BY <1>1, <1>3, <2>1 DEF ResultsKept, Numbers
  <2>3. n = k
    BY <1>1, <1>3, <1>4, <2>2 DEF Numbers
  <2>4. itemStatus[t] = "completed"
    BY <1>1, <1>2, <2>1, <2>2, <2>3 DEF Matches, ItemStatus, OpenStatus
  <2>5. votes'[t][k] = votes[t][k]
    BY <2>1, <2>2, RoomMovesRounds DEF IInv, RoundMove
  <2>. QED
    BY <2>2, <2>3, <2>4, <2>5 DEF Exported, ExportSummary
<1>6. ASSUME Exported(t), ~Exported(t)', n = k
      PROVE  FALSE
  <2>1. n # 0 /\ roundStatus[t][n] = "closed"
    BY <1>2, <1>6 DEF Exported, Matches
  <2>2. n \in Numbers
    BY <1>1, <1>3, <2>1 DEF Numbers
  <2>3. roundStatus'[t][n] = "closed"
    BY <2>1, <2>2, RoomMovesRounds DEF IInv, RoundMove, ResultsKept, OpenStatus
  <2>4. itemStatus'[t] = "completed"
    BY <1>1, <1>2, <1>6, <2>1, <2>3 DEF Matches, ItemStatus, OpenStatus
  <2>. QED
    BY <1>6, <2>3, <2>4 DEF Exported
<1>. QED
  BY <1>1, <1>3, <1>4, <1>5, <1>6

\* The accepted item gets its line and, with it, the estimate; no other changes.
LEMMA AcceptExports ==
    ASSUME RoomAssumption, IInv, SessionAccept
    PROVE  ExportStep
<1>1. PICK u, n : /\ u = currentTask /\ n = FocusRound(currentTask)
                   /\ n # 0 /\ roundStatus[u][n] = "revealed"
                   /\ AcceptRound(u, n)
  BY DEF SessionAccept, CanAccept
<1>2. u \in Tasks /\ n = currentRound[u]
  BY <1>1, FocusIsCurrent
<1>3. /\ UNCHANGED <<currentRound, votes>>
      /\ \A t \in Tasks \ {u} : /\ itemStatus'[t] = itemStatus[t]
                                /\ roundStatus'[t] = roundStatus[t]
      /\ estimate'[u] = Summary(votes[u][n])
  BY <1>1, <1>2 DEF AcceptRound, SetRound, IInv, TypeOK
<1>4. ~Exported(u) /\ estimate'[u] = ExportSummary(u)'
  BY <1>1, <1>2, <1>3 DEF Exported, ExportSummary
<1>5. \A t \in Tasks \ {u} : /\ Exported(t)' <=> Exported(t)
                             /\ ExportSummary(t)' = ExportSummary(t)
  BY <1>3 DEF Exported, ExportSummary
<1>. QED
  BY <1>4, <1>5 DEF ExportStep

\* Lines go with their task, and all of them with the room.
LEMMA DeletionExports ==
    ASSUME RoomAssumption, IInv,
           \/ SessionDelete
           \/ \E t \in Managed, r \in [Gated -> BOOLEAN] : TaskDelete(t, r)
    PROVE  ExportStep
<1>1. CASE SessionDelete
  <2>1. status' = "none" /\ \A t \in Tasks : itemStatus'[t] = "none"
    BY <1>1 DEF SessionDelete
  <2>. QED
    BY <2>1 DEF Exported, ExportStep
<1>2. ASSUME NEW u \in Managed, NEW r \in [Gated -> BOOLEAN], TaskDelete(u, r)
      PROVE  ExportStep
  <2>1. /\ u \in Tasks /\ u \notin backlog' /\ itemStatus'[u] = "none"
        /\ \A t \in Tasks \ {u} :
              /\ itemStatus'[t] = itemStatus[t]
              /\ currentRound'[t] = currentRound[t]
              /\ roundStatus'[t] = roundStatus[t] /\ votes'[t] = votes[t]
    BY <1>2 DEF TaskDelete, IInv, TypeOK, RoomAssumption
  <2>2. ~Exported(u)'
    BY <2>1 DEF Exported
  <2>3. \A t \in Tasks \ {u} : /\ Exported(t)' <=> Exported(t)
                               /\ ExportSummary(t)' = ExportSummary(t)
    BY <2>1 DEF Exported, ExportSummary
  <2>. QED
    BY <2>1, <2>2, <2>3 DEF ExportStep
<1>. QED
  BY <1>1, <1>2

\* A line of the room's export appears with the estimate that is accepted in the
\* same step and stays as it is until the room votes on the task again, whatever
\* imports and other rooms of the project do to the estimate
\* (session_accept, capture_estimate, _session_estimate_export_rows).
THEOREM ExportAlwaysAccepted == Spec => ExportKeepsAccepted
<1>1. IInv /\ IInv' /\ [Next]_vars => [ExportStep]_vars
  BY RoomAssumption, ResultsStep, ResultsKeptExported, AcceptExports,
    DeletionExports
<1>. QED
  BY <1>1, RoomInvariant, PTL DEF Spec, ExportKeepsAccepted

(***************************************************************************)
(* The page of a participant.  Whatever is delayed, lost or overtaken,     *)
(* what reaches the server are steps of the room.                          *)
(***************************************************************************)

\* The types of the page; a card that was clicked is a card, and a move that
\* was clicked is a move.
PageTyped ==
    /\ page \in Page
    /\ enabled \in BOOLEAN
    /\ casting \in [step : {"idle", "sent", "saved", "refreshing"},
                    value : Cards \cup {NoVote}]
    /\ casting.step # "idle" => casting.value \in Cards
    /\ moving \in [step : {"idle", "sent", "moved", "completed", "failed"},
                   to : Moves \cup {"complete", "none"}]
    /\ moving.step = "sent" => moving.to \in Moves \cup {"complete"}
    /\ poll \in [Chains -> Page \cup {Nothing, Sent}]
    /\ moving.step # "idle" => ~enabled

\* Answers without a task.
LEMMA MessagesArePages ==
  ASSUME NEW view \in Views
  PROVE  Message(view) \in Page
BY DEF Message, Page

\* A new page has its types.
LEMMA LoadedTyped ==
  ASSUME NEW view \in Views, Load(Message(view))
  PROVE  PageTyped'
<1>1. Message(view) \in Page
  BY MessagesArePages
<1> HIDE DEF Page
<1> QED
  BY <1>1 DEF Load, PageTyped, NotCasting, NotMoving, AllIdle, Moves

\* What the server answers can be shown.
LEMMA AnswersArePages ==
  ASSUME RoomAssumption, ClientAssumption, TypeOK
  PROVE  Answer \in Page
<1> DEFINE t == QueueItem(Me)
<1>1. t \in Tasks \cup {NoTask}
  BY ClientAssumption, QueueItemIn DEF Queue
<1>2. ASSUME t # NoTask, currentRound[t] # 0
      PROVE  Item(t) \in Page
  <2>1. t \in Tasks /\ currentRound[t] \in Numbers
    BY <1>1, <1>2, RoomAssumption DEF TypeOK, RoomAssumption, Numbers
  <2>2. votes[t][currentRound[t]][Me] \in Cards \cup {NoVote}
    BY <2>1, ClientAssumption DEF TypeOK, Ballots, ClientAssumption
  <2>3. NextAction(t) \in Moves \cup {"complete", "none"}
    BY DEF NextAction, Moves, Directions
  <2>4. (Before(t) # {}) \in BOOLEAN
    OBVIOUS
  <2> HIDE DEF t
  <2> QED
    BY <2>1, <2>2, <2>3, <2>4 DEF Item, Page, Views
<1>3. /\ Message("completed") \in Page /\ Message("finished") \in Page
      /\ Message("waiting") \in Page
  BY MessagesArePages DEF Views
<1> QED
  BY <1>2, <1>3 DEF Answer

LEMMA ParticipantStep ==
  ASSUME ClientAssumption, Participant(Me)
  PROVE  Next
BY DEF ClientAssumption, Next

LEMMA PollingStep ==
  ASSUME RoomAssumption, ClientAssumption, TypeOK, PageTyped, Polling
  PROVE  PageTyped' /\ [Next]_vars
<1>1. ASSUME NEW c \in Ticks, PollSent(c)
      PROVE  PageTyped' /\ [Next]_vars
  BY <1>1 DEF PollSent, PageTyped
<1>2. ASSUME NEW c \in Chains, PollHandled(c)
      PROVE  PageTyped' /\ [Next]_vars
  <2>1. RoomState(Me) /\ poll' = [poll EXCEPT ![c] = Answer]
        /\ UNCHANGED <<page, enabled, casting, moving>>
    BY <1>2 DEF PollHandled
  <2>2. Answer \in Page
    BY AnswersArePages
  <2>3. PageTyped'
    BY <2>1, <2>2 DEF PageTyped
  <2>4. Next
    BY <2>1, ParticipantStep DEF Participant
  <2> QED
    BY <2>3, <2>4
<1>3. ASSUME NEW c \in Chains, Rendered(c)
      PROVE  PageTyped' /\ [Next]_vars
  <2>1. UNCHANGED vars /\ poll[c] \in Page
    BY <1>3 DEF Rendered, PageTyped
  <2>2. CASE Load(Loaded)
    BY <2>1, <2>2, LoadedTyped DEF Loaded, Views
  <2>3. CASE /\ page' = poll[c] /\ enabled' = EnabledBy(poll[c])
             /\ casting' = CastingAfter(c)
             /\ poll' = [poll EXCEPT ![c] = Nothing] /\ UNCHANGED moving
    <3>1. casting' \in {casting, NotCasting}
      BY <2>3 DEF CastingAfter
    <3>2. enabled' \in BOOLEAN /\ (moving.step # "idle" => ~enabled')
      BY <2>3 DEF EnabledBy, PageTyped
    <3> QED
      BY <2>1, <2>3, <3>1, <3>2 DEF PageTyped, NotCasting
  <2> QED
    BY <1>3, <2>2, <2>3 DEF Rendered
<1>4. ASSUME NEW c \in Chains, PollLost(c)
      PROVE  PageTyped' /\ [Next]_vars
  <2>1. /\ casting' \in {casting, NotCasting} /\ poll' = [poll EXCEPT ![c] = Nothing]
        /\ UNCHANGED <<vars, page, enabled, moving>>
    BY <1>4 DEF PollLost, CastingAfter
  <2> QED
    BY <2>1 DEF PageTyped, NotCasting
<1> QED
  BY <1>1, <1>2, <1>3, <1>4 DEF Polling

LEMMA VotingStep ==
  ASSUME ClientAssumption, PageTyped, Voting
  PROVE  PageTyped' /\ [Next]_vars
<1>1. ASSUME NEW v \in Cards, ClickCard(v)
      PROVE  PageTyped' /\ [Next]_vars
  BY <1>1 DEF ClickCard, PageTyped
<1>2. CASE VoteHandled
  <2>1. /\ casting.step = "sent" /\ RoomVote(Me, casting.value)
        /\ casting' = [casting EXCEPT !.step = "saved"]
        /\ UNCHANGED <<page, enabled, moving, poll>>
    BY <1>2 DEF VoteHandled
  <2>2. casting.value \in Cards
    BY <2>1 DEF PageTyped
  <2>3. Next
    BY <2>1, <2>2, ParticipantStep DEF Participant
  <2> QED
    BY <2>1, <2>2, <2>3 DEF PageTyped
<1>3. CASE VoteRefused
  <2>1. /\ RoomState(Me) /\ casting' = NotCasting
        /\ UNCHANGED <<page, enabled, moving, poll>>
    BY <1>3 DEF VoteRefused
  <2>2. Next
    BY <2>1, ParticipantStep DEF Participant
  <2> QED
    BY <2>1, <2>2 DEF PageTyped, NotCasting
<1>4. CASE VoteLost
  BY <1>4 DEF VoteLost, PageTyped, NotCasting
<1>5. CASE VoteConfirmed
  <2>1. /\ casting.step = "saved" /\ page' = [page EXCEPT !.vote = casting.value]
        /\ casting' = [casting EXCEPT !.step = "refreshing"]
        /\ poll' = [poll EXCEPT !["vote"] = Sent]
        /\ UNCHANGED <<vars, enabled, moving>>
    BY <1>5 DEF VoteConfirmed
  <2>2. page' \in Page
    BY <2>1 DEF PageTyped, Page
  <2> QED
    BY <2>1, <2>2 DEF PageTyped
<1> QED
  BY <1>1, <1>2, <1>3, <1>4, <1>5 DEF Voting

LEMMA MovingStep ==
  ASSUME ClientAssumption, PageTyped, Moving
  PROVE  PageTyped' /\ [Next]_vars
<1>1. ASSUME NEW to \in Moves \cup {"complete"}, ClickMove(to)
      PROVE  PageTyped' /\ [Next]_vars
  BY <1>1 DEF ClickMove, PageTyped
<1>2. CASE MoveHandled
  <2>1. /\ moving.step = "sent" /\ moving.to # "complete"
        /\ UNCHANGED <<page, enabled, casting, poll>>
        /\ \/ RoomNavigate(Me, moving.to) /\ Moved("moved")
           \/ RoomState(Me) /\ Moved("failed")
    BY <1>2 DEF MoveHandled
  <2>2. moving.to \in Directions \cup {"missing"}
    BY <2>1 DEF PageTyped, Moves
  <2>3. Next
    BY <2>1, <2>2, ParticipantStep DEF Participant
  <2>4. PageTyped'
    BY <2>1 DEF PageTyped, Moved
  <2> QED
    BY <2>3, <2>4
<1>3. CASE CompleteHandled
  <2>1. /\ moving.step = "sent"
        /\ UNCHANGED <<page, enabled, casting, poll>>
        /\ RoomComplete(Me) \/ RoomState(Me)
        /\ Moved("completed") \/ Moved("failed")
    BY <1>3 DEF CompleteHandled
  <2>2. Next
    BY <2>1, ParticipantStep DEF Participant
  <2>3. PageTyped'
    BY <2>1 DEF PageTyped, Moved
  <2> QED
    BY <2>2, <2>3
<1>4. CASE MoveLost
  BY <1>4 DEF MoveLost, Moved, PageTyped
<1>5. CASE MoveAnswered
  <2>1. /\ page' \in {page, [page EXCEPT !.vote = NoVote]}
        /\ moving' = NotMoving /\ poll' = [poll EXCEPT !["move"] = Sent]
        /\ UNCHANGED <<vars, enabled, casting>>
    BY <1>5 DEF MoveAnswered
  <2>2. page' \in Page
    BY <2>1 DEF PageTyped, Page
  <2> QED
    BY <2>1, <2>2 DEF PageTyped, NotMoving
<1>6. CASE CompletionAnswered
  BY <1>6, LoadedTyped DEF CompletionAnswered, Loaded, Views
<1> QED
  BY <1>1, <1>2, <1>3, <1>4, <1>5, <1>6 DEF Moving

\* Every step, of the page and of those who conduct the room.
LEMMA ClientStep ==
  ASSUME RoomAssumption, ClientAssumption, TypeOK, PageTyped, [ClientNext]_allVars
  PROVE  PageTyped' /\ [Next]_vars
<1>1. CASE Conducting /\ UNCHANGED clientVars
  <2>1. Next
    BY <1>1 DEF Conducting, Organiser, Next
  <2>2. PageTyped'
    BY <1>1 DEF clientVars, PageTyped
  <2> QED
    BY <2>1, <2>2
<1>2. CASE Enter
  <2>1. PageTyped'
    BY <1>2, LoadedTyped DEF Enter, Views
  <2>2. Next
    BY <1>2, ParticipantStep DEF Enter, Participant
  <2> QED
    BY <2>1, <2>2
<1>3. CASE Reload
  BY <1>3, LoadedTyped DEF Reload, Loaded, Views
<1>4. CASE UNCHANGED allVars
  BY <1>4 DEF allVars, clientVars, PageTyped
<1> QED
  BY <1>1, <1>2, <1>3, <1>4, PollingStep, VotingStep, MovingStep DEF ClientNext

LEMMA ClientInvariant == ClientSpec => [](TypeOK /\ PageTyped)
<1>1. ClientInit => TypeOK /\ PageTyped
  <2>1. ClientInit => TypeOK
    BY RoomAssumption, TypeOKInit DEF ClientInit
  <2>2. Message("waiting") \in Page
    BY MessagesArePages DEF Views
  <2>3. ClientInit => PageTyped
    BY <2>2 DEF ClientInit, PageTyped, NotCasting, NotMoving, AllIdle, Moves
  <2> QED
    BY <2>1, <2>3
<1>2. TypeOK /\ PageTyped /\ [ClientNext]_allVars => (TypeOK /\ PageTyped)'
  BY RoomAssumption, ClientAssumption, ClientStep, TypeOKStep
<1> QED
  BY <1>1, <1>2, PTL DEF ClientSpec

\* The page does to the room only what the room allows, whatever is delayed or
\* lost: a participant's page implements the participant of VotingRoom, so that
\* all that holds of the room holds with pages in front of it (room.js).
THEOREM PageKeepsRoom == ClientSpec => Spec
<1>1. ClientInit => Init
  BY DEF ClientInit
<1>2. TypeOK /\ PageTyped /\ [ClientNext]_allVars => [Next]_vars
  BY RoomAssumption, ClientAssumption, ClientStep
<1> QED
  BY <1>1, <1>2, ClientInvariant, PTL DEF ClientSpec, Spec

\* Polls never enable the buttons while a move is under way, and what the page
\* shows has its type, for any number of polls (refresh, navigate).
THEOREM PageTypeCorrect == ClientSpec => []ClientTypeOK
<1>1. TypeOK /\ PageTyped => ClientTypeOK
  BY DEF PageTyped, ClientTypeOK
<1> QED
  BY <1>1, ClientInvariant, PTL

=============================================================================
