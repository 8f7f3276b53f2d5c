-------------------------- MODULE MCVotingRequests --------------------------
EXTENDS VotingRequests, TLC

Symmetry == Permutations(Participants) \cup Permutations(Workers)

=============================================================================
