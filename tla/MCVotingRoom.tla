---------------------------- MODULE MCVotingRoom ----------------------------
(***************************************************************************)
(* One room in two settings: tasks that are voted on twice while nobody    *)
(* touches the project, and tasks that are voted on once while the project *)
(* changes under the room.                                                 *)
(***************************************************************************)
EXTENDS VotingRoom, TLC

VARIABLE part  \* the setting of this behaviour

MCInit == Init /\ part \in {"rounds", "project"}

\* Nothing waits for analysis any more when the room is made.
AllReady == [t \in Gated |-> TRUE]

RoundsNext ==
    IF \A t \in Tasks : ready[t]
    THEN Organiser \/ \E p \in Participants : Participant(p)
    ELSE TaskCompetencyUpdate(AllReady)

\* Bound: one round per task while the project changes.
FirstRounds == \A t \in Tasks : currentRound'[t] <= 1

MCNext ==
    /\ UNCHANGED part
    /\ \/ part = "rounds" /\ RoundsNext
       \/ part = "project" /\ Next /\ FirstRounds

MCSpec == MCInit /\ [][MCNext]_<<vars, part>>

Symmetry == Permutations(Participants)

=============================================================================
