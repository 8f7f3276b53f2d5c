------------------------------ MODULE MCOffice ------------------------------
(***************************************************************************)
(* What organisers do beside the rooms: the requests that plan sprints,    *)
(* the team of a sprint, and the result of a single round.  They share no  *)
(* state; each behaviour moves one of them and leaves the others as they   *)
(* are in the beginning.                                                   *)
(*                                                                         *)
(* The team are two people of different competencies: half of the odd      *)
(* hours of the one end in half a hundredth.  The days are two Fridays and *)
(* a Wednesday between them.  A round has every card of the scale:         *)
(* averages of thirds fall on both sides of, and exactly on, the midpoints *)
(* between them.                                                           *)
(***************************************************************************)
EXTENDS SprintRequests, SprintTeam, TLC

CONSTANTS analysis, testing, Participants, Cards, NoVote, MinVotes

MCProfiles == {[competency |-> analysis, allocation |-> 75, hours |-> 15],
               [competency |-> testing, allocation |-> 33, hours |-> 13]}

Hours(a, t) == analysis :> a @@ testing :> t

MCManuals == {Hours(Unset, Unset), Hours(500, Unset), Hours(0, 700)}

MCPlans == {Hours(a, t) @@ (Unset :> n) : a \in {0, 1300}, t \in {0, 699}, n \in {0, 100}}

VARIABLES roundStatus, ballot

roundVars == <<roundStatus, ballot>>

OneRound == INSTANCE Round WITH status <- roundStatus

\* The assumptions of Ballot, for this instance of it.
ASSUME BallotAssumption ==
    /\ IsFiniteSet(Participants)
    /\ Cards \subseteq OneRound!Scale /\ NoVote \notin OneRound!Scale

VARIABLE part  \* what moves in this behaviour

MCInit == /\ RequestsInit /\ TeamInit /\ OneRound!Init
          /\ part \in {"plans", "team", "round"}

MCNext ==
    /\ UNCHANGED part
    /\ \/ part = "plans" /\ RequestsNext /\ UNCHANGED <<teamVars, roundVars>>
       \/ part = "team" /\ TeamNext /\ UNCHANGED <<allVars, roundVars>>
       \/ part = "round" /\ OneRound!Next /\ UNCHANGED <<allVars, teamVars>>

MCSpec == MCInit /\ [][MCNext]_<<allVars, teamVars, roundVars, part>>

\* The average of a round lies between the midpoints around its card (Round).
EstimateByMidpoints == OneRound!EstimateByMidpoints

\* A card that is raised does not lower the average (Round).
RaisedVoteKeepsOrder == OneRound!RaisedVoteKeepsOrder

Symmetry == Permutations(Workers) \cup Permutations(Participants)

=============================================================================
