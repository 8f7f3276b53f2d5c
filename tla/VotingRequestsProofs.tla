------------------------ MODULE VotingRequestsProofs ------------------------
(***************************************************************************)
(* What holds of a room however its requests interleave, for any number of *)
(* workers: results have a quorum behind them, rounds are numbered without *)
(* gaps, the queue is in order.                                            *)
(*                                                                         *)
(* A handler writes on the strength of what it read.  The invariant says   *)
(* what of that is still true at the write: the round it found exists, the *)
(* votes it counted are still there, the item it chose is in the queue.    *)
(* Nothing else is, which is why these three properties survive where      *)
(* those of VotingRoom do not.                                             *)
(***************************************************************************)
EXTENDS VotingRequests, VotingRoomProofs

\* What no request takes away: rounds, votes and places in the queue.
RowsKept ==
    /\ \A t \in Tasks, n \in Numbers :
          /\ roundStatus[t][n] # "none" => roundStatus'[t][n] # "none"
          /\ VoteCount(votes'[t][n]) >= VoteCount(votes[t][n])
    /\ \A t \in Tasks : position[t] # 0 => position'[t] # 0

\* What is still true of the reads of request r.
Sound(r) ==
    /\ r.op \in {"reveal", "revote", "accept", "vote"} =>
          roundStatus[r.t][r.n] # "none"
    /\ r.op \in {"reveal", "accept"} => VoteCount(votes[r.t][r.n]) >= MinVotes
    /\ r.op = "join" => r.t = NoTask \/ r.t \in Queue

\* What holds of the rows.
RowsSafe ==
    TypeOK /\ backlog = Tasks /\ QueueInOrder /\ RoundsNumbered
    /\ QuorumBehindResults

\* The inductive invariant: the rows, and every read against them.
RequestsInv ==
    /\ RowsSafe
    /\ request \in [Workers -> Requests \cup {Idle}]
    /\ \A w \in Workers : request[w] # Idle => Sound(request[w])

-----------------------------------------------------------------------------
(***************************************************************************)
(* Votes and numbers.                                                      *)
(***************************************************************************)

\* A vote is counted, and votes for others stay.
LEMMA VoteCountGrows ==
    ASSUME RoomAssumption, NEW b \in Ballots, NEW p \in Participants,
           NEW v \in Cards
    PROVE  /\ VoteCount(b) \in Nat
           /\ VoteCount([b EXCEPT ![p] = v]) >= VoteCount(b)
<1> DEFINE c == [b EXCEPT ![p] = v]
<1>1. Voters(b) \subseteq Voters(c) /\ Voters(c) \subseteq Participants
  BY CardsAssumption DEF Voters, Ballots
<1>2. IsFiniteSet(Voters(c))
  BY <1>1, ParticipantsAssumption, FS_Subset
<1>3. IsFiniteSet(Voters(b)) /\ Cardinality(Voters(b)) <= Cardinality(Voters(c))
  BY <1>1, <1>2, FS_Subset
<1>4. Cardinality(Voters(b)) \in Nat /\ Cardinality(Voters(c)) \in Nat
  BY <1>2, <1>3, FS_CardinalityType
<1>. QED
  BY <1>3, <1>4 DEF VoteCount

\* The votes of a round can be counted.
LEMMA VoteCountType ==
    ASSUME NEW b \in Ballots
    PROVE  VoteCount(b) \in Nat
<1>1. Voters(b) \subseteq Participants
  BY DEF Voters
<1>. QED
  BY <1>1, ParticipantsAssumption, FS_Subset, FS_CardinalityType DEF VoteCount

\* The rounds of a task exist up to the last one.
Numbered(rounds) ==
    \A n \in Numbers : rounds[n] # "none" <=> n <= LastOf(rounds)

\* The last number stays where rounds only change their status.
LEMMA SameLast ==
    ASSUME RoomAssumption,
           NEW old \in [Numbers -> RoundStatus],
           NEW rounds \in [Numbers -> RoundStatus],
           \A n \in Numbers : rounds[n] = "none" <=> old[n] = "none"
    PROVE  /\ LastOf(rounds) = LastOf(old)
           /\ Numbered(old) => Numbered(rounds)
<1>1. /\ LastOf(old) \in 0 .. MaxRounds /\ MaxRounds \in Nat
      /\ LastOf(old) = 0 \/ old[LastOf(old)] # "none"
      /\ \A m \in Numbers : m > LastOf(old) => old[m] = "none"
  BY LastOfIs DEF RoomAssumption
<1>2. LastOf(old) = 0 \/ rounds[LastOf(old)] # "none"
  BY <1>1 DEF Numbers
<1>3. \A m \in Numbers : m > LastOf(old) => rounds[m] = "none"
  BY <1>1
<1>4. LastOf(rounds) = LastOf(old)
  BY <1>1, <1>2, <1>3, LastOfUnique
<1>. QED
  BY <1>4 DEF Numbered

\* A new round moves it by one.
LEMMA NextLast ==
    ASSUME RoomAssumption,
           NEW old \in [Numbers -> RoundStatus], Numbered(old),
           NEW rounds \in [Numbers -> RoundStatus],
           LastOf(old) < MaxRounds,
           \A n \in Numbers : rounds[n] = "none" <=>
              old[n] = "none" /\ n # LastOf(old) + 1
    PROVE  LastOf(rounds) = LastOf(old) + 1 /\ Numbered(rounds)
<1>1. /\ LastOf(old) \in 0 .. MaxRounds /\ MaxRounds \in Nat
      /\ \A m \in Numbers : m > LastOf(old) => old[m] = "none"
  BY LastOfIs DEF RoomAssumption
<1> DEFINE k == LastOf(old) + 1
<1>2. k \in 0 .. MaxRounds /\ k \in Numbers
  BY <1>1 DEF Numbers
<1>3. rounds[k] # "none"
  BY <1>2
<1>4. \A m \in Numbers : m > k => rounds[m] = "none"
  BY <1>1 DEF Numbers
<1>5. LastOf(rounds) = k
  <2>. HIDE DEF k
  <2>. QED
    BY <1>2, <1>3, <1>4, LastOfUnique
<1>. QED
  BY <1>1, <1>5 DEF Numbered, Numbers

-----------------------------------------------------------------------------
(***************************************************************************)
(* The writes.                                                             *)
(***************************************************************************)

\* New rounds get the next number of their task and no result.
LEMMA CreateRoundsRows ==
    ASSUME RoomAssumption, TypeOK, TypeOK', RoundsNumbered, QuorumBehindResults,
           NEW items, NEW rounds, NEW S \in SUBSET Tasks,
           CreateRounds(items, rounds, S), UNCHANGED <<votes, estimate>>,
           \A t \in Tasks, n \in Numbers :
              \/ rounds[t][n] = roundStatus[t][n]
              \/ roundStatus[t][n] # "none" /\ rounds[t][n] = "cancelled"
    PROVE  /\ RoundsNumbered' /\ QuorumBehindResults'
           /\ \A t \in Tasks, n \in Numbers :
                 roundStatus[t][n] # "none" => roundStatus'[t][n] # "none"
<1>1. \A t \in Tasks, n \in Numbers :
         roundStatus'[t][n] = IF t \in S /\ n = LastOf(roundStatus[t]) + 1
                              THEN "voting" ELSE rounds[t][n]
  BY DEF CreateRounds, LastNumber
<1>2. \A t \in Tasks, n \in Numbers :
         roundStatus[t][n] # "none" => roundStatus'[t][n] # "none"
  BY <1>1
<1>3. QuorumBehindResults'
  BY <1>1 DEF QuorumBehindResults
<1>4. ASSUME NEW t \in Tasks
      PROVE  /\ Numbered(roundStatus'[t])
             /\ currentRound'[t] = LastOf(roundStatus'[t])
  <2>1. /\ roundStatus[t] \in [Numbers -> RoundStatus]
        /\ roundStatus'[t] \in [Numbers -> RoundStatus]
        /\ Numbered(roundStatus[t])
        /\ currentRound[t] = LastOf(roundStatus[t])
    BY DEF TypeOK, RoundsNumbered, Numbered
  <2>2. CASE t \in S
    <3>1. /\ LastOf(roundStatus[t]) < MaxRounds
          /\ currentRound'[t] = LastOf(roundStatus[t]) + 1
      BY <2>2 DEF CreateRounds, LastNumber
    <3>2. \A n \in Numbers : roundStatus'[t][n] = "none" <=>
             roundStatus[t][n] = "none" /\ n # LastOf(roundStatus[t]) + 1
      BY <1>1, <2>2
    <3>. QED
      BY <2>1, <3>1, <3>2, NextLast
  <2>3. CASE t \notin S
    <3>1. currentRound'[t] = currentRound[t]
      BY <2>3 DEF CreateRounds
    <3>2. \A n \in Numbers :
             roundStatus'[t][n] = "none" <=> roundStatus[t][n] = "none"
      BY <1>1, <2>3
    <3>. QED
      BY <2>1, <3>1, <3>2, SameLast
  <2>. QED
    BY <2>2, <2>3
<1>5. RoundsNumbered'
  BY <1>4 DEF RoundsNumbered, Numbered
<1>. QED
  BY <1>2, <1>3, <1>5

\* A new status for a round that exists.
LEMMA SetRoundRows ==
    ASSUME RoomAssumption, TypeOK, TypeOK', RoundsNumbered, QuorumBehindResults,
           NEW u \in Tasks, NEW k \in Numbers, NEW s \in {"revealed", "closed"},
           roundStatus[u][k] # "none", VoteCount(votes[u][k]) >= MinVotes,
           roundStatus' = SetRound(u, k, s), UNCHANGED <<votes, currentRound>>,
           \A t \in Tasks : \/ estimate'[t] = estimate[t]
                            \/ estimate'[t] = Summary(votes[u][k])
    PROVE  /\ RoundsNumbered' /\ QuorumBehindResults'
           /\ \A t \in Tasks, n \in Numbers :
                 roundStatus[t][n] # "none" => roundStatus'[t][n] # "none"
<1>1. \A t \in Tasks, n \in Numbers :
         roundStatus'[t][n] = IF t = u /\ n = k THEN s ELSE roundStatus[t][n]
  BY DEF SetRound, TypeOK
<1>2. \A t \in Tasks, n \in Numbers :
         roundStatus'[t][n] = "none" <=> roundStatus[t][n] = "none"
  BY <1>1
<1>3. Summary(votes[u][k]).count >= MinVotes
  BY DEF Summary
<1>4. QuorumBehindResults'
  BY <1>1, <1>3 DEF QuorumBehindResults
<1>5. ASSUME NEW t \in Tasks
      PROVE  /\ Numbered(roundStatus'[t])
             /\ currentRound'[t] = LastOf(roundStatus'[t])
  <2>1. /\ roundStatus[t] \in [Numbers -> RoundStatus]
        /\ roundStatus'[t] \in [Numbers -> RoundStatus]
        /\ Numbered(roundStatus[t])
        /\ currentRound[t] = LastOf(roundStatus[t])
    BY DEF TypeOK, RoundsNumbered, Numbered
  <2>. QED
    BY <1>2, <2>1, SameLast
<1>6. RoundsNumbered'
  BY <1>5 DEF RoundsNumbered, Numbered
<1>. QED
  BY <1>2, <1>4, <1>6

\* The queue grows at its end by the tasks of new.
GrowsBy(new) ==
    \/ Enqueue(new) /\ \A t \in new : position[t] = 0
    \/ new = {} /\ UNCHANGED position

\* Places stay, new places are free and behind the others.
LEMMA QueueGrows ==
    ASSUME RoomAssumption, RowsSafe, NEW new \in SUBSET Tasks, GrowsBy(new)
    PROVE  /\ \A t \in Tasks :
                 position'[t] # 0 <=> WithPending(new)[t] # "none"
           /\ \A t \in Tasks : position[t] # 0 => position'[t] # 0
           /\ \A t, u \in Tasks :
                 position'[t] # 0 /\ position'[t] = position'[u] => t = u
<1>0. /\ position \in [Tasks -> 0 .. MaxPosition]
      /\ MaxPosition \in Nat
      /\ \A t \in Tasks : position[t] # 0 <=> itemStatus[t] # "none"
      /\ \A t, u \in Tasks :
            position[t] # 0 /\ position[t] = position[u] => t = u
  BY DEF RowsSafe, TypeOK, RoomAssumption, QueueInOrder, Queue
<1>1. CASE new = {} /\ UNCHANGED position
  BY <1>0, <1>1 DEF WithPending
<1>2. CASE Enqueue(new) /\ \A t \in new : position[t] = 0
  <2>1. /\ position' \in [Tasks -> 0 .. MaxPosition]
        /\ \A t \in Tasks \ new : position'[t] = position[t]
        /\ \A t \in new : position'[t] > LastPosition
        /\ \A t, u \in new : position'[t] = position'[u] => t = u
    BY <1>0, <1>2, EnqueueAppends
  <2>2. /\ LastPosition \in 0 .. MaxPosition
        /\ \A t \in Tasks : position[t] <= LastPosition
    BY <1>0, LastPositionBounds
  <2>3. \A t \in new : position'[t] # 0
    BY <1>0, <2>1, <2>2
  <2>4. \A t \in new, u \in Tasks \ new : position'[t] # position'[u]
    BY <1>0, <2>1, <2>2
  <2>5. \A t, u \in Tasks :
           position'[t] # 0 /\ position'[t] = position'[u] => t = u
    BY <1>0, <2>1, <2>4
  <2>6. \A t \in Tasks : position'[t] # 0 <=> WithPending(new)[t] # "none"
    BY <1>0, <2>1, <2>3 DEF WithPending
  <2>. QED
    BY <1>0, <1>2, <2>3, <2>5, <2>6, <2>1
<1>. QED
  BY <1>1, <1>2 DEF GrowsBy

\* Votes that stay are counted as before.
LEMMA SameVotes ==
    ASSUME TypeOK, UNCHANGED votes
    PROVE  \A t \in Tasks, n \in Numbers :
              VoteCount(votes'[t][n]) >= VoteCount(votes[t][n])
BY VoteCountType DEF TypeOK

\* The queue after tasks were added and rounds opened for queued tasks.
LEMMA QueueStaysInOrder ==
    ASSUME RoomAssumption, RowsSafe, TypeOK', NEW new \in SUBSET Tasks,
           GrowsBy(new), UNCHANGED <<cursor, backlog>>,
           \A t \in Tasks :
              itemStatus'[t] # "none" <=> WithPending(new)[t] # "none"
    PROVE  /\ QueueInOrder'
           /\ \A t \in Tasks : position[t] # 0 => position'[t] # 0
<1>1. /\ \A t \in Tasks : position'[t] # 0 <=> WithPending(new)[t] # "none"
      /\ \A t \in Tasks : position[t] # 0 => position'[t] # 0
      /\ \A t, u \in Tasks :
            position'[t] # 0 /\ position'[t] = position'[u] => t = u
  BY QueueGrows
<1>. QED
  BY <1>1 DEF RowsSafe, QueueInOrder, Queue

\* Tasks are queued; the rounds stay.
LEMMA QueueingSafe ==
    ASSUME RoomAssumption, RowsSafe, TypeOK', NEW new \in SUBSET Tasks,
           GrowsBy(new), itemStatus' = WithPending(new),
           UNCHANGED <<currentRound, roundStatus, votes, cursor, backlog,
                       estimate>>
    PROVE  RowsSafe' /\ RowsKept
<1>1. /\ QueueInOrder'
      /\ \A t \in Tasks : position[t] # 0 => position'[t] # 0
  BY QueueStaysInOrder
<1>2. RoundsNumbered' /\ QuorumBehindResults'
  BY DEF RowsSafe, RoundsNumbered, QuorumBehindResults
<1>. QED
  BY <1>1, <1>2, SameVotes DEF RowsSafe, RowsKept

\* Tasks are queued, and rounds opened for queued tasks.
LEMMA OpeningSafe ==
    ASSUME RoomAssumption, RowsSafe, TypeOK', NEW new \in SUBSET Tasks,
           GrowsBy(new), NEW rounds, NEW S \in SUBSET Tasks,
           CreateRounds(WithPending(new), rounds, S),
           \A t \in S : WithPending(new)[t] # "none",
           \A t \in Tasks, n \in Numbers :
              \/ rounds[t][n] = roundStatus[t][n]
              \/ roundStatus[t][n] # "none" /\ rounds[t][n] = "cancelled",
           UNCHANGED <<votes, cursor, backlog, estimate>>
    PROVE  RowsSafe' /\ RowsKept
<1>1. \A t \in Tasks :
         itemStatus'[t] # "none" <=> WithPending(new)[t] # "none"
  BY DEF CreateRounds
<1>2. /\ QueueInOrder'
      /\ \A t \in Tasks : position[t] # 0 => position'[t] # 0
  BY <1>1, QueueStaysInOrder
<1>3. /\ RoundsNumbered' /\ QuorumBehindResults'
      /\ \A t \in Tasks, n \in Numbers :
            roundStatus[t][n] # "none" => roundStatus'[t][n] # "none"
  <2>1. TypeOK /\ RoundsNumbered /\ QuorumBehindResults
    BY DEF RowsSafe
  <2>. HIDE DEF RowsSafe
  <2>. QED
    BY <2>1, CreateRoundsRows
<1>. QED
  BY <1>2, <1>3, SameVotes DEF RowsSafe, RowsKept

\* Everything that waits is opened.
LEMMA PendingSafe ==
    ASSUME RoomAssumption, RowsSafe, TypeOK', NEW new \in SUBSET Tasks,
           GrowsBy(new), NEW cur, NEW allowed \in SUBSET Tasks,
           OpenPending(WithPending(new), cur, allowed),
           UNCHANGED <<votes, cursor, backlog, estimate>>
    PROVE  RowsSafe' /\ RowsKept
<1> DEFINE opening == {t \in allowed :
                          WithPending(new)[t] \in {"pending", "skipped"}}
<1>1. /\ CreateRounds(WithPending(new), roundStatus, opening)
      /\ opening \in SUBSET Tasks
      /\ \A t \in opening : WithPending(new)[t] # "none"
  BY DEF OpenPending
<1> HIDE DEF opening
<1>. QED
  BY <1>1, OpeningSafe

\* Nothing but cursors and what the invariant does not mention is written.
RowsUntouched ==
    /\ UNCHANGED <<queueVars, roundStatus, backlog, estimate>>
    /\ \A p \in Participants : cursor'[p] \in {cursor[p], NoTask} \cup Queue

\* Then only the votes matter, which may not get fewer.
LEMMA UntouchedSafe ==
    ASSUME RowsSafe, TypeOK', RowsUntouched,
           \A t \in Tasks, n \in Numbers :
              VoteCount(votes'[t][n]) >= VoteCount(votes[t][n])
    PROVE  RowsSafe' /\ RowsKept
<1> USE DEF RowsUntouched, queueVars
<1>1. QueueInOrder' /\ RoundsNumbered'
  BY DEF RowsSafe, QueueInOrder, Queue, RoundsNumbered
<1>2. \A t \in Tasks, n \in Numbers :
         VoteCount(votes[t][n]) \in Nat /\ VoteCount(votes'[t][n]) \in Nat
  BY VoteCountType DEF RowsSafe, TypeOK
<1>3. QuorumBehindResults'
  BY <1>2, RoomAssumption DEF RowsSafe, QuorumBehindResults, RoomAssumption
<1>. QED
  BY <1>1, <1>3 DEF RowsSafe, RowsKept

-----------------------------------------------------------------------------
(***************************************************************************)
(* The effects of the requests.                                            *)
(***************************************************************************)

\* What a request of each kind holds.
LEMMA RequestFields ==
    ASSUME NEW r \in Requests
    PROVE  /\ r.op = "queue_add" =>
                 r.tasks \in SUBSET Tasks /\ r.active \in BOOLEAN
           /\ r.op \in {"start_task", "navigate"} => r.t \in Tasks
           /\ r.op \in {"reveal", "revote", "accept"} =>
                 r.t \in Tasks /\ r.n \in Numbers
           /\ r.op = "join" => r.p \in Participants /\ r.t \in Focus
           /\ r.op = "vote" => /\ r.p \in Participants /\ r.t \in Tasks
                               /\ r.n \in Numbers /\ r.v \in Cards
           /\ r.op = "complete" => r.p \in Participants
BY DEF Requests

\* session_queue_add
LEMMA AddToQueueSafe ==
    ASSUME RoomAssumption, RowsSafe, NEW T \in SUBSET Tasks,
           NEW active \in BOOLEAN, NEW cur, AddToQueue(T, active, cur)
    PROVE  RowsSafe' /\ RowsKept
<1> DEFINE new == Addable(T)
<1>1. TypeOK'
  BY AddToQueueType DEF RowsSafe
<1>2. new \in SUBSET Tasks /\ GrowsBy(new) /\ AllowedTasks \in SUBSET Tasks
  BY DEF Addable, AllowedTasks, GrowsBy, AddToQueue
<1>3. /\ UNCHANGED <<votes, cursor, backlog, estimate>>
      /\ \/ OpenPending(WithPending(new), cur, AllowedTasks)
         \/ /\ itemStatus' = WithPending(new)
            /\ UNCHANGED <<currentRound, roundStatus>>
  BY DEF AddToQueue, taskVars
<1> HIDE DEF new
<1>. QED
  BY <1>1, <1>2, <1>3, PendingSafe, QueueingSafe

\* session_start
LEMMA OpenQueueIsSafe ==
    ASSUME RoomAssumption, RowsSafe, NEW cur, OpenQueue(cur)
    PROVE  RowsSafe' /\ RowsKept
<1>1. TypeOK'
  BY OpenQueueType DEF RowsSafe
<1>2. WithPending({}) = itemStatus
  BY DEF WithPending, RowsSafe, TypeOK
<1>3. /\ GrowsBy({}) /\ AllowedTasks \in SUBSET Tasks
      /\ OpenPending(WithPending({}), cur, AllowedTasks)
      /\ UNCHANGED <<votes, cursor, backlog, estimate>>
  BY <1>2 DEF GrowsBy, AllowedTasks, OpenQueue, taskVars
<1>. QED
  BY <1>1, <1>3, PendingSafe

\* session_start_task
LEMMA OpenTaskSafe ==
    ASSUME RoomAssumption, RowsSafe, NEW t \in Tasks, OpenTask(t)
    PROVE  RowsSafe' /\ RowsKept
<1> DEFINE new == IF position[t] = 0 THEN {t} ELSE {}
           opening == IF /\ currentRound[t] # 0
                         /\ roundStatus[t][currentRound[t]] \in OpenStatus
                      THEN {} ELSE {t}
<1>1. TypeOK'
  BY OpenTaskType DEF RowsSafe
<1>2. /\ new \in SUBSET Tasks /\ opening \in SUBSET Tasks
      /\ GrowsBy(new)
      /\ CreateRounds(WithPending(new), roundStatus, opening)
      /\ UNCHANGED <<votes, cursor, backlog, estimate>>
  BY DEF OpenTask, GrowsBy, taskVars
<1>3. \A u \in opening : WithPending(new)[u] # "none"
  BY DEF WithPending, RowsSafe, QueueInOrder
<1> HIDE DEF new, opening
<1>. QED
  BY <1>1, <1>2, <1>3, OpeningSafe

\* session_revote
LEMMA RevoteRoundSafe ==
    ASSUME RoomAssumption, RowsSafe, NEW t \in Tasks, NEW n \in Numbers,
           RevoteRound(t, n), roundStatus[t][n] # "none"
    PROVE  RowsSafe' /\ RowsKept
<1> DEFINE rounds == SetRound(t, n, "cancelled")
<1>1. TypeOK'
  BY RoundWriteType DEF RowsSafe
<1>2. WithPending({}) = itemStatus
  BY DEF WithPending, RowsSafe, TypeOK
<1>3. /\ GrowsBy({}) /\ CreateRounds(WithPending({}), rounds, {t})
      /\ WithPending({})[t] # "none"
      /\ UNCHANGED <<votes, cursor, backlog, estimate>>
  BY <1>2 DEF GrowsBy, RevoteRound, taskVars, RowsSafe, QueueInOrder
<1>4. \A u \in Tasks, m \in Numbers :
         \/ rounds[u][m] = roundStatus[u][m]
         \/ roundStatus[u][m] # "none" /\ rounds[u][m] = "cancelled"
  BY DEF SetRound, RowsSafe, TypeOK
<1> HIDE DEF rounds
<1>5. {} \in SUBSET Tasks /\ {t} \in SUBSET Tasks
  OBVIOUS
<1>. QED
  BY <1>1, <1>3, <1>4, <1>5, OpeningSafe

\* session_reveal and session_accept
LEMMA ResultSafe ==
    ASSUME RoomAssumption, RowsSafe, NEW t \in Tasks, NEW n \in Numbers,
           RevealRound(t, n) \/ AcceptRound(t, n),
           roundStatus[t][n] # "none", VoteCount(votes[t][n]) >= MinVotes
    PROVE  RowsSafe' /\ RowsKept
<1> USE DEF queueVars, peopleVars, taskVars
<1>1. TypeOK /\ TypeOK' /\ RoundsNumbered /\ QuorumBehindResults
  BY RoundWriteType DEF RowsSafe
<1>2. PICK s \in {"revealed", "closed"} : roundStatus' = SetRound(t, n, s)
  BY DEF RevealRound, AcceptRound
<1>3. /\ UNCHANGED <<position, currentRound, votes, cursor, backlog>>
      /\ \A u \in Tasks : \/ estimate'[u] = estimate[u]
                          \/ estimate'[u] = Summary(votes[t][n])
      /\ \A u \in Tasks : itemStatus'[u] # "none" <=> itemStatus[u] # "none"
  BY <1>1 DEF RevealRound, AcceptRound, TypeOK, RowsSafe, QueueInOrder
<1>4. /\ RoundsNumbered' /\ QuorumBehindResults'
      /\ \A u \in Tasks, m \in Numbers :
            roundStatus[u][m] # "none" => roundStatus'[u][m] # "none"
  BY <1>1, <1>2, <1>3, SetRoundRows
<1>5. QueueInOrder'
  BY <1>3 DEF RowsSafe, QueueInOrder, Queue
<1>. QED
  BY <1>1, <1>3, <1>4, <1>5, SameVotes DEF RowsSafe, RowsKept

\* The writes that leave the queue and the rounds alone.
LEMMA PeopleWriteSafe ==
    ASSUME RoomAssumption, RowsSafe, NEW r \in Requests, Sound(r),
           \/ r.op = "navigate" /\ FocusOn(r.t)
           \/ r.op \in {"archive", "restore"}
              /\ \E value \in BOOLEAN : SetArchived(value)
           \/ r.op = "join" /\ Join(r.p, r.t)
           \/ r.op = "vote" /\ CastVote(r.p, r.t, r.n, r.v) /\ UNCHANGED cursor
           \/ r.op = "complete" /\ MarkComplete(r.p) /\ UNCHANGED cursor
    PROVE  RowsSafe' /\ RowsKept
<1> USE DEF roomVars, queueVars, peopleVars, taskVars
<1>0. TypeOK
  BY DEF RowsSafe
<1>1. CASE r.op = "vote" /\ CastVote(r.p, r.t, r.n, r.v) /\ UNCHANGED cursor
  <2> DEFINE b == votes[r.t][r.n]
  <2>1. /\ r.p \in Participants /\ r.t \in Tasks /\ r.n \in Numbers
        /\ r.v \in Cards
    BY <1>1, RequestFields
  <2>2. \A t \in Tasks, n \in Numbers :
           votes'[t][n] = IF t = r.t /\ n = r.n THEN [b EXCEPT ![r.p] = r.v]
                                                ELSE votes[t][n]
    BY <1>0, <1>1 DEF CastVote, TypeOK
  <2>3. /\ b \in Ballots
        /\ VoteCount([b EXCEPT ![r.p] = r.v]) >= VoteCount(b)
    BY <1>0, <2>1, VoteCountGrows DEF TypeOK
  <2>4. \A t \in Tasks, n \in Numbers :
           VoteCount(votes'[t][n]) >= VoteCount(votes[t][n])
    <3>1. ASSUME NEW t \in Tasks, NEW n \in Numbers
          PROVE  VoteCount(votes'[t][n]) >= VoteCount(votes[t][n])
      <4>1. votes[t][n] \in Ballots /\ VoteCount(votes[t][n]) \in Nat
        BY <1>0, VoteCountType DEF TypeOK
      <4>2. CASE t = r.t /\ n = r.n
        BY <2>2, <2>3, <4>2
      <4>3. CASE ~(t = r.t /\ n = r.n)
        <5>1. votes'[t][n] = votes[t][n]
          BY <2>2, <4>3
        <5>. QED
          BY <4>1, <5>1
      <4>. QED
        BY <4>2, <4>3
    <3>. QED
      BY <3>1
  <2>5. TypeOK'
    <3>1. votes' \in [Tasks -> [Numbers -> Ballots]]
      BY <1>0, <1>1, <2>1 DEF CastVote, TypeOK, Ballots
    <3>. QED
      BY <1>0, <1>1, <3>1 DEF CastVote, TypeOK
  <2>6. RowsUntouched
    BY <1>1 DEF CastVote, RowsUntouched
  <2>. QED
    BY <2>4, <2>5, <2>6, UntouchedSafe
<1>2. CASE r.op = "join" /\ Join(r.p, r.t)
  <2>1. /\ r.p \in Participants /\ r.t \in Focus
        /\ r.t = NoTask \/ r.t \in Queue
    BY <1>2, RequestFields DEF Sound
  <2>2. TypeOK'
    BY <1>0, <1>2, <2>1 DEF Join, TypeOK, Focus
  <2>3. RowsUntouched /\ UNCHANGED votes
    BY <1>0, <1>2, <2>1 DEF Join, RowsUntouched, TypeOK
  <2>. QED
    BY <1>0, <2>2, <2>3, SameVotes, UntouchedSafe
<1>3. CASE \/ r.op = "navigate" /\ FocusOn(r.t)
           \/ r.op \in {"archive", "restore"}
              /\ \E value \in BOOLEAN : SetArchived(value)
           \/ r.op = "complete" /\ MarkComplete(r.p) /\ UNCHANGED cursor
  <2>1. TypeOK'
    BY <1>0, <1>3, RequestFields DEF FocusOn, SetArchived, MarkComplete, TypeOK
  <2>2. RowsUntouched /\ UNCHANGED votes
    BY <1>3 DEF FocusOn, SetArchived, MarkComplete, RowsUntouched
  <2>. QED
    BY <1>0, <2>1, <2>2, SameVotes, UntouchedSafe
<1>. QED
  BY <1>1, <1>2, <1>3

\* Whatever was read, and whatever was written since: a write keeps the rows.
LEMMA EffectSafe ==
    ASSUME RoomAssumption, RowsSafe, NEW r \in Requests, Sound(r), Effect(r)
    PROVE  RowsSafe' /\ RowsKept
<1>1. CASE r.op = "queue_add" /\ AddToQueue(r.tasks, r.active, r.cur)
  BY <1>1, RequestFields, AddToQueueSafe
<1>2. CASE r.op = "start" /\ OpenQueue(r.cur)
  BY <1>2, OpenQueueIsSafe
<1>3. CASE r.op = "start_task" /\ OpenTask(r.t)
  BY <1>3, RequestFields, OpenTaskSafe
<1>4. CASE \/ r.op = "reveal" /\ RevealRound(r.t, r.n)
           \/ r.op = "accept" /\ AcceptRound(r.t, r.n)
  BY <1>4, RequestFields, ResultSafe DEF Sound
<1>5. CASE r.op = "revote" /\ RevoteRound(r.t, r.n)
  BY <1>5, RequestFields, RevoteRoundSafe DEF Sound
<1>6. CASE \/ r.op = "navigate" /\ FocusOn(r.t)
           \/ r.op = "archive" /\ SetArchived(TRUE)
           \/ r.op = "restore" /\ SetArchived(FALSE)
           \/ r.op = "join" /\ Join(r.p, r.t)
           \/ r.op = "vote" /\ CastVote(r.p, r.t, r.n, r.v) /\ UNCHANGED cursor
           \/ r.op = "complete" /\ MarkComplete(r.p) /\ UNCHANGED cursor
  BY <1>6, PeopleWriteSafe
<1>. QED
  BY <1>1, <1>2, <1>3, <1>4, <1>5, <1>6 DEF Effect

\* session_create, session_finish, room_state and room_navigate
LEMMA AtOnceSafe ==
    ASSUME RoomAssumption, RowsSafe, AtOnce
    PROVE  RowsSafe' /\ RowsKept
<1> USE DEF roomVars, queueVars, peopleVars, taskVars
<1>0. TypeOK /\ RoundsNumbered /\ QuorumBehindResults
  BY DEF RowsSafe
<1>1. TypeOK'
  <2>1. Next
    BY DEF AtOnce, Next, Organiser, Participant
  <2>. QED
    BY <1>0, <2>1, TypeOKStep
<1>2. ASSUME NEW T \in SUBSET Tasks, SessionCreate(T)
      PROVE  RowsSafe' /\ RowsKept
  <2> DEFINE new == Addable(T)
  <2>1. /\ new \in SUBSET Tasks /\ GrowsBy(new)
        /\ itemStatus' = WithPending(new)
        /\ UNCHANGED <<currentRound, roundStatus, votes, cursor, backlog,
                       estimate>>
    BY <1>2 DEF SessionCreate, NewRoom, Addable, GrowsBy
  <2> HIDE DEF new
  <2>. QED
    BY <1>1, <2>1, QueueingSafe
<1>3. CASE SessionFinish
  <2>1. \A t \in Tasks, n \in Numbers :
           roundStatus'[t][n] = IF roundStatus[t][n] \in OpenStatus
                                THEN "cancelled" ELSE roundStatus[t][n]
    BY <1>3 DEF SessionFinish
  <2>2. \A t \in Tasks, n \in Numbers :
           roundStatus'[t][n] = "none" <=> roundStatus[t][n] = "none"
    BY <2>1 DEF OpenStatus
  <2>3. UNCHANGED <<position, currentRound, votes, cursor, backlog, estimate>>
    BY <1>3 DEF SessionFinish
  <2>4. QuorumBehindResults'
    BY <1>0, <2>1, <2>3 DEF QuorumBehindResults
  <2>5. ASSUME NEW t \in Tasks
        PROVE  /\ Numbered(roundStatus'[t])
               /\ currentRound'[t] = LastOf(roundStatus'[t])
    <3>1. /\ roundStatus[t] \in [Numbers -> RoundStatus]
          /\ roundStatus'[t] \in [Numbers -> RoundStatus]
          /\ Numbered(roundStatus[t])
          /\ currentRound[t] = LastOf(roundStatus[t])
      BY <1>0, <1>1 DEF TypeOK, RoundsNumbered, Numbered
    <3>. QED
      BY <2>2, <2>3, <3>1, SameLast
  <2>6. RoundsNumbered'
    BY <2>5 DEF RoundsNumbered, Numbered
  <2>7. QueueInOrder'
    BY <1>3, <2>3 DEF SessionFinish, RowsSafe, QueueInOrder, Queue
  <2>. QED
    BY <1>0, <1>1, <2>2, <2>3, <2>4, <2>6, <2>7, SameVotes
    DEF RowsSafe, RowsKept
<1>4. ASSUME NEW p \in Participants, RoomState(p)
      PROVE  RowsSafe' /\ RowsKept
  <2>1. QueueItem(p) \in Queue \cup {NoTask}
    BY <1>0, QueueItemIn
  <2>2. RowsUntouched /\ UNCHANGED votes
    BY <1>0, <1>4, <2>1 DEF RoomState, SaveCursor, RowsUntouched, TypeOK
  <2>. QED
    BY <1>0, <1>1, <2>2, SameVotes, UntouchedSafe
<1>5. ASSUME NEW p \in Participants, NEW d \in Directions \cup {"missing"},
             RoomNavigate(p, d)
      PROVE  RowsSafe' /\ RowsKept
  <2> DEFINE targets == CASE d = "missing" -> Missing(p)
                          [] d = "next" -> After(QueueItem(p))
                          [] d = "previous" -> Before(QueueItem(p))
             target == IF d = "previous" THEN Last(targets)
                                         ELSE First(targets, position)
  <2>1. targets \in SUBSET Tasks /\ targets \subseteq Queue /\ targets # {}
    BY <1>5 DEF RoomNavigate, CanNavigate,
      MoveTargets, Missing, After, Before, Directions, Queue
  <2>2. /\ cursor' = [cursor EXCEPT ![p] = target]
        /\ UNCHANGED <<queueVars, roundStatus, votes, backlog, estimate>>
    BY <1>5 DEF RoomNavigate, CanNavigate,
      MoveTargets
  <2>3. /\ position \in [Tasks -> Nat]
        /\ position \in [Tasks -> 0 .. MaxPosition]
    BY <1>0 DEF TypeOK, RoomAssumption
  <2> HIDE DEF targets
  <2>4. target \in Queue
    BY <2>1, <2>3, FirstIn, LastIn
  <2> HIDE DEF target
  <2>5. RowsUntouched
    BY <1>0, <2>2, <2>4 DEF RowsUntouched, TypeOK
  <2>. QED
    BY <1>0, <1>1, <2>2, <2>5, SameVotes, UntouchedSafe
<1>. QED
  BY <1>2, <1>3, <1>4, <1>5 DEF AtOnce

-----------------------------------------------------------------------------
(***************************************************************************)
(* The reads.                                                              *)
(***************************************************************************)

\* A handler that has read goes by what is so at that moment.
LEMMA ReadSafe ==
    ASSUME RoomAssumption, RowsSafe, NEW w \in Workers, Read(w)
    PROVE  /\ RowsSafe' /\ RowsKept
           /\ \E r \in Requests : Begin(w, r) /\ Sound(r)
<1> USE DEF queueVars, roomVars, peopleVars, taskVars
<1>0. TypeOK /\ currentTask \in Tasks \cup {NoTask}
  BY DEF RowsSafe, TypeOK
<1> DEFINE Fine == /\ RowsSafe' /\ RowsKept
                   /\ \E r \in Requests : Begin(w, r) /\ Sound(r)
<1>1. ASSUME UNCHANGED vars
      PROVE  RowsSafe' /\ RowsKept
  <2>1. TypeOK' /\ RowsUntouched /\ UNCHANGED votes
    BY <1>0, <1>1 DEF vars, TypeOK, RowsUntouched
  <2>. QED
    BY <1>0, <2>1, SameVotes, UntouchedSafe
<1>2. ASSUME NEW p \in Participants, SaveCursorOnly(p, QueueItem(p))
      PROVE  RowsSafe' /\ RowsKept
  <2>1. QueueItem(p) \in Queue \cup {NoTask}
    BY <1>0, QueueItemIn
  <2>2. /\ TypeOK'
        /\ RowsUntouched /\ UNCHANGED votes
    BY <1>0, <1>2, <2>1
    DEF SaveCursorOnly, SaveCursor, TypeOK, RowsUntouched, Queue
  <2>. QED
    BY <1>0, <2>2, SameVotes, UntouchedSafe
<1> HIDE DEF Fine
<1>3. ASSUME NEW T \in SUBSET Tasks, ReadQueueAdd(w, T)
      PROVE  Fine
  <2> DEFINE r == [op |-> "queue_add", tasks |-> T,
                   active |-> status = "active", cur |-> currentTask]
  <2>1. r \in Requests /\ Sound(r)
    BY <1>0 DEF Requests, Focus, Sound
  <2>. QED
    BY <1>1, <1>3, <2>1 DEF ReadQueueAdd, Fine
<1>4. CASE ReadStart(w)
  <2> DEFINE r == [op |-> "start", cur |-> currentTask]
  <2>1. r \in Requests /\ Sound(r)
    BY <1>0 DEF Requests, Focus, Sound
  <2>. QED
    BY <1>1, <1>4, <2>1 DEF ReadStart, Fine
<1>5. ASSUME NEW t \in Tasks, ReadStartTask(w, t)
      PROVE  Fine
  <2> DEFINE r == [op |-> "start_task", t |-> t]
  <2>1. r \in Requests /\ Sound(r)
    BY DEF Requests, Sound
  <2>. QED
    BY <1>1, <1>5, <2>1 DEF ReadStartTask, Fine
<1>6. ASSUME NEW d \in Directions, ReadNavigate(w, d)
      PROVE  Fine
  <2> DEFINE r == [op |-> "navigate", t |-> NavigationTarget(d)]
  <2>1. NavigationTarget(d) \in Tasks
    <3>1. NavigationTargets(d) \in SUBSET Tasks /\ NavigationTargets(d) # {}
      BY <1>6 DEF ReadNavigate, NavigationTargets, Active, Queue
    <3>2. /\ position \in [Tasks -> Nat]
          /\ position \in [Tasks -> 0 .. MaxPosition]
      BY <1>0 DEF TypeOK, RoomAssumption
    <3>. QED
      BY <3>1, <3>2, FirstIn, LastIn DEF NavigationTarget
  <2>2. r \in Requests /\ Sound(r)
    BY <2>1 DEF Requests, Sound
  <2>. QED
    BY <1>1, <1>6, <2>2 DEF ReadNavigate, Fine
<1>7. ASSUME NEW op \in {"reveal", "revote", "accept"},
             BeginOnFocus(w, op, FocusRound(currentTask)),
             FocusRound(currentTask) # 0,
             op \in {"reveal", "accept"} =>
                VoteCount(votes[currentTask][FocusRound(currentTask)]) >= MinVotes
      PROVE  Fine
  <2> DEFINE n == FocusRound(currentTask)
             r == [op |-> op, t |-> currentTask, n |-> n]
  <2>1. /\ currentTask \in Tasks /\ n \in Numbers
        /\ roundStatus[currentTask][n] # "none"
    BY <1>0, <1>7, FocusRoundOpen DEF OpenStatus
  <2>2. Begin(w, r) /\ UNCHANGED vars
    BY <1>7 DEF BeginOnFocus
  <2> HIDE DEF n
  <2>3. r \in Requests
    BY <1>7, <2>1 DEF Requests
  <2>4. Sound(r)
    BY <1>7, <2>1 DEF Sound, n
  <2>. QED
    BY <1>1, <2>2, <2>3, <2>4 DEF Fine
<1>8. CASE ReadReveal(w) \/ ReadRevote(w) \/ ReadAccept(w)
  <2>1. ReadReveal(w) => Fine
    BY <1>7 DEF ReadReveal, CanReveal
  <2>2. ReadRevote(w) => Fine
    BY <1>7 DEF ReadRevote, CanRevote
  <2>3. ReadAccept(w) => Fine
    <3> DEFINE n == FocusRound(currentTask)
    <3>1. ReadAccept(w) => /\ n # 0 /\ roundStatus[currentTask][n] = "revealed"
                           /\ BeginOnFocus(w, "accept", n)
      BY DEF ReadAccept, CanAccept
    <3>2. n # 0 => currentTask \in Tasks /\ n \in Numbers
      BY <1>0, FocusRoundOpen
    <3>3. ReadAccept(w) => VoteCount(votes[currentTask][n]) >= MinVotes
      BY <3>1, <3>2 DEF RowsSafe, QuorumBehindResults
    <3>. QED
      BY <1>7, <3>1, <3>3
  <2>. QED
    BY <1>8, <2>1, <2>2, <2>3 DEF Fine
<1>9. CASE ReadArchive(w) \/ ReadRestore(w)
  <2>1. /\ [op |-> "archive"] \in Requests /\ Sound([op |-> "archive"])
        /\ [op |-> "restore"] \in Requests /\ Sound([op |-> "restore"])
    BY DEF Requests, Sound
  <2>. QED
    BY <1>1, <1>9, <2>1 DEF ReadArchive, ReadRestore, Fine
<1>10. ASSUME NEW p \in Participants, ReadJoin(w, p)
       PROVE  Fine
  <2> DEFINE t == FirstOrNone(IF Active # {} THEN Active ELSE Queue)
             r == [op |-> "join", p |-> p, t |-> t]
  <2>1. t \in Queue \cup {NoTask}
    <3>1. Active \in SUBSET Queue /\ Queue \in SUBSET Tasks
      BY DEF Active, Queue
    <3>. QED
      BY <1>0, <3>1, FirstOrNoneIn
  <2>2. Begin(w, r) /\ UNCHANGED vars
    BY <1>10 DEF ReadJoin
  <2> HIDE DEF t
  <2>3. r \in Requests /\ Sound(r)
    BY <2>1 DEF Requests, Sound, Focus, Queue
  <2>. QED
    BY <1>1, <2>2, <2>3 DEF Fine
<1>11. ASSUME NEW p \in Participants, NEW v \in Cards, ReadVote(w, p, v)
       PROVE  Fine
  <2> DEFINE t == QueueItem(p)
             n == currentRound[t]
             r == [op |-> "vote", p |-> p, t |-> t, n |-> n, v |-> v]
  <2>1. t \in Queue \cup {NoTask}
    BY <1>0, QueueItemIn
  <2>2. /\ t # NoTask /\ n # 0 /\ roundStatus[t][n] = "voting"
        /\ Begin(w, r) /\ SaveCursorOnly(p, QueueItem(p))
    BY <1>11 DEF ReadVote, CanVote
  <2>3. t \in Tasks /\ n \in Numbers
    BY <1>0, <2>1, <2>2 DEF Queue, TypeOK, Numbers, RoomAssumption
  <2> HIDE DEF t, n
  <2>4. r \in Requests /\ Sound(r)
    BY <2>2, <2>3 DEF Requests, Sound
  <2>. QED
    BY <1>2, <2>2, <2>4 DEF Fine
<1>12. ASSUME NEW p \in Participants, ReadComplete(w, p)
       PROVE  Fine
  <2> DEFINE r == [op |-> "complete", p |-> p]
  <2>1. r \in Requests /\ Sound(r)
    BY DEF Requests, Sound
  <2>. QED
    BY <1>2, <1>12, <2>1 DEF ReadComplete, Fine
<1>. QED
  BY <1>3, <1>4, <1>5, <1>6, <1>8, <1>9, <1>10, <1>11, <1>12 DEF Read, Fine

-----------------------------------------------------------------------------
(***************************************************************************)
(* The invariant.                                                          *)
(***************************************************************************)

\* What no request takes away stays true of the others' reads.
LEMMA SoundKept ==
    ASSUME RoomAssumption, RowsSafe, RowsSafe', RowsKept,
           NEW r \in Requests, Sound(r)
    PROVE  Sound(r)'
<1>1. \A t \in Tasks, n \in Numbers :
         VoteCount(votes[t][n]) \in Nat /\ VoteCount(votes'[t][n]) \in Nat
  BY VoteCountType DEF RowsSafe, TypeOK
<1>2. MinVotes \in Nat
  BY DEF RoomAssumption
<1>. QED
  BY <1>1, <1>2, RequestFields DEF Sound, RowsKept, Queue, Focus

\* A step of any worker keeps the invariant.
LEMMA RequestsStep ==
    ASSUME RoomAssumption, RequestsInv, [RequestsNext]_allVars
    PROVE  RequestsInv'
<1>0. /\ RowsSafe /\ request \in [Workers -> Requests \cup {Idle}]
      /\ \A w \in Workers : request[w] # Idle =>
            request[w] \in Requests /\ Sound(request[w])
  BY DEF RequestsInv
<1> DEFINE Kept(w) == request'[w] \in {request[w], Idle}
           Fresh(w) == \E r \in Requests : request'[w] = r /\ Sound(r)
<1>1. ASSUME RowsSafe', RowsKept,
             request' \in [Workers -> Requests \cup {Idle}],
             \A w \in Workers : Kept(w) \/ Fresh(w)
      PROVE  RequestsInv'
  <2>1. ASSUME NEW w \in Workers, request'[w] # Idle
        PROVE  Sound(request[w])'
    <3>1. PICK r \in Requests : request'[w] = r /\ Sound(r)
      BY <1>0, <1>1, <2>1
    <3>2. Sound(r)'
      BY <1>0, <1>1, <3>1, SoundKept
    <3>. QED
      BY <3>1, <3>2 DEF Sound
  <2>. QED
    BY <1>1, <2>1 DEF RequestsInv
<1>2. CASE AtOnce
  <2>1. RowsSafe' /\ RowsKept
    BY <1>0, <1>2, AtOnceSafe
  <2>2. UNCHANGED request
    BY <1>2 DEF AtOnce
  <2>. QED
    BY <1>0, <1>1, <2>1, <2>2
<1>3. ASSUME NEW w \in Workers, Read(w)
      PROVE  RequestsInv'
  <2>1. PICK r \in Requests : Begin(w, r) /\ Sound(r)
    BY <1>0, <1>3, ReadSafe
  <2>2. RowsSafe' /\ RowsKept
    BY <1>0, <1>3, ReadSafe
  <2>3. /\ request' \in [Workers -> Requests \cup {Idle}]
        /\ \A v \in Workers : Kept(v) \/ Fresh(v)
    BY <1>0, <2>1 DEF Begin
  <2>. QED
    BY <1>1, <2>2, <2>3
<1>4. ASSUME NEW w \in Workers, Write(w)
      PROVE  RequestsInv'
  <2>1. RowsSafe' /\ RowsKept
    BY <1>0, <1>4, EffectSafe DEF Write
  <2>2. /\ request' \in [Workers -> Requests \cup {Idle}]
        /\ \A v \in Workers : Kept(v)
    BY <1>0, <1>4 DEF Write
  <2>. QED
    BY <1>1, <2>1, <2>2
<1>5. UNCHANGED vars => RowsSafe' /\ RowsKept
  <2>1. TypeOK
    BY <1>0 DEF RowsSafe
  <2>2. UNCHANGED vars => TypeOK' /\ RowsUntouched /\ UNCHANGED votes
    BY <2>1 DEF vars, roomVars, queueVars, peopleVars, taskVars, TypeOK,
      RowsUntouched
  <2>. QED
    BY <1>0, <2>1, <2>2, SameVotes, UntouchedSafe
<1>6. ASSUME NEW w \in Workers, Fail(w)
      PROVE  RequestsInv'
  <2>1. /\ request' \in [Workers -> Requests \cup {Idle}]
        /\ \A v \in Workers : Kept(v)
        /\ UNCHANGED vars
    BY <1>0, <1>6 DEF Fail
  <2>. QED
    BY <1>1, <1>5, <2>1
<1>7. CASE UNCHANGED allVars
  BY <1>0, <1>1, <1>5, <1>7 DEF allVars
<1>. QED
  BY <1>2, <1>3, <1>4, <1>6, <1>7 DEF RequestsNext

\* It holds of the empty room and idle workers.
LEMMA RequestsStart ==
    ASSUME RoomAssumption, RequestsInit
    PROVE  RequestsInv
<1>1. TypeOK
  BY TypeOKInit DEF RequestsInit
<1>2. NoRounds \in [Numbers -> RoundStatus] /\ LastOf(NoRounds) = 0
  <2>1. NoRounds \in [Numbers -> RoundStatus] /\ 0 \in 0 .. MaxRounds
    BY DEF NoRounds, RoundStatus, RoomAssumption
  <2>. QED
    BY <2>1, LastOfUnique DEF NoRounds
<1>3. RoundsNumbered
  BY <1>2 DEF RequestsInit, Init, RoundsNumbered, NoRounds, Numbers
<1>4. QueueInOrder /\ QuorumBehindResults /\ backlog = Tasks
  BY RoomAssumption DEF RequestsInit, Init, QueueInOrder, Queue,
    QuorumBehindResults, NoRounds, RoomAssumption
<1>. QED
  BY <1>1, <1>3, <1>4 DEF RequestsInv, RowsSafe, RequestsInit

\* Rows and reads agree, as the invariant says, under any interleaving.
THEOREM RequestsInvariant == RequestsSpec => []RequestsInv
<1>1. RequestsInit => RequestsInv
  BY RoomAssumption, RequestsStart
<1>2. RequestsInv /\ [RequestsNext]_allVars => RequestsInv'
  BY RoomAssumption, RequestsStep
<1>. QED
  BY <1>1, <1>2, PTL DEF RequestsSpec

\* The rows and what the handlers remember keep their types.
THEOREM RequestsTypeCorrect == RequestsSpec => []RequestsTypeOK
<1>1. RequestsInv => RequestsTypeOK
  BY DEF RequestsInv, RowsSafe, RequestsTypeOK
<1>. QED
  BY <1>1, RequestsInvariant, PTL

\* However the requests interleave, no result is shown, accepted or left in
\* the backlog with fewer votes than the room's minimum (session_reveal,
\* session_accept).
THEOREM QuorumAlwaysBehindResults == RequestsSpec => []QuorumBehindResults
<1>1. RequestsInv => QuorumBehindResults
  BY DEF RequestsInv, RowsSafe
<1>. QED
  BY <1>1, RequestsInvariant, PTL

\* However the requests interleave, the rounds of a task are numbered without
\* gaps and its item points at the newest one (_create_round_for_item).
THEOREM RoundsAlwaysNumbered == RequestsSpec => []RoundsNumbered
<1>1. RequestsInv => RoundsNumbered
  BY DEF RequestsInv, RowsSafe
<1>. QED
  BY <1>1, RequestsInvariant, PTL

\* However the requests interleave, every item of the queue has a place of its
\* own and the cursors point into the queue (_add_tasks_to_queue, room_join).
THEOREM QueueStaysOrdered == RequestsSpec => []QueueInOrder
<1>1. RequestsInv => QueueInOrder
  BY DEF RequestsInv, RowsSafe
<1>. QED
  BY <1>1, RequestsInvariant, PTL

=============================================================================
