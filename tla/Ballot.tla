------------------------------- MODULE Ballot -------------------------------
(***************************************************************************)
(* The votes of one round and their summary (VotingRound.summary): the sum *)
(* and the number of the votes, from which estimate_on_scale chooses the   *)
(* estimate.  A ballot maps every participant to a card or to NoVote.      *)
(***************************************************************************)
EXTENDS Estimation, FiniteSets, FiniteSetsExt

CONSTANTS Participants,  \* those who may hold a place in the room
          Cards,         \* the cards that are dealt: a part of the scale
          NoVote         \* the participant has no vote in the round

ASSUME ParticipantsAssumption == IsFiniteSet(Participants)
ASSUME CardsAssumption == Cards \subseteq Scale /\ NoVote \notin Scale

Ballots == [Participants -> Cards \cup {NoVote}]

EmptyBallot == [p \in Participants |-> NoVote]

Voters(ballot) == {p \in Participants : ballot[p] # NoVote}

VoteCount(ballot) == Cardinality(Voters(ballot))

\* Mutant of Summary: a vote for "no work" is not counted.
SummaryOfWork(ballot) ==
    [sum |-> SumFunctionOnSet(ballot, Voters(ballot)),
     count |-> Cardinality({p \in Voters(ballot) : ballot[p] # 0})]

Summary(ballot) ==
    [sum |-> SumFunctionOnSet(ballot, Voters(ballot)),
     count |-> VoteCount(ballot)]

Summaries == {Summary(ballot) : ballot \in Ballots}

FinalEstimate(ballot) ==
    EstimateOnScale(Summary(ballot).sum, Summary(ballot).count)

=============================================================================
