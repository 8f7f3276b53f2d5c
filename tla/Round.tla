-------------------------------- MODULE Round -------------------------------
(***************************************************************************)
(* What one voting round promises, whatever the room around it does: cards *)
(* are placed and changed while voting is open, are shown when enough of   *)
(* them are placed, stay as they are from then on, and are accepted only   *)
(* after they were shown.  VotingRoom implements this for each of its      *)
(* rounds.                                                                 *)
(***************************************************************************)
EXTENDS Ballot

CONSTANT MinVotes  \* VotingSession.minimum_participants

VARIABLES status,  \* VotingRound.status, "none" while the round does not exist
          ballot   \* the Vote rows of the round

vars == <<status, ballot>>

TypeOK ==
    /\ status \in {"none", "voting", "revealed", "closed", "cancelled"}
    /\ ballot \in Ballots

Init == status = "none" /\ ballot = EmptyBallot

Open == status = "none" /\ status' = "voting" /\ UNCHANGED ballot

\* A card is placed, or changed (Vote.objects.update_or_create).
Vote(p, v) ==
    /\ status = "voting"
    /\ ballot' = [ballot EXCEPT ![p] = v]
    /\ UNCHANGED status

Reveal ==
    /\ status = "voting" /\ VoteCount(ballot) >= MinVotes
    /\ status' = "revealed"
    /\ UNCHANGED ballot

Accept == status = "revealed" /\ status' = "closed" /\ UNCHANGED ballot

\* By another vote on the task, or by the end of the session.
Cancel ==
    /\ status \in {"voting", "revealed"}
    /\ status' = "cancelled"
    /\ UNCHANGED ballot

\* The round is deleted with its task or its room.
Discard == status # "none" /\ status' = "none" /\ ballot' = EmptyBallot

Next ==
    \/ Open \/ Reveal \/ Accept \/ Cancel \/ Discard
    \/ \E p \in Participants, v \in Cards : Vote(p, v)

Spec == Init /\ [][Next]_vars

-----------------------------------------------------------------------------

\* The card nearest to the average, found by distance, is the one that the
\* midpoints between the cards give: 25 -> 20, 26 -> 32 (user-guide.md:18).
EstimateByMidpoints ==
    Voters(ballot) # {} =>
        LET s == Summary(ballot)
        IN  FinalEstimate(ballot) = ReferenceEstimate(s.sum, s.count)

\* A participant who changes a vote to a higher card never lowers the result
\* and one who changes it to a lower card never raises it.
RaisedVoteKeepsOrder ==
    [][\A p \in Voters(ballot) :
          ballot' = [ballot EXCEPT ![p] = ballot'[p]] /\ ballot'[p] # NoVote =>
              /\ ballot[p] <= ballot'[p]
                    => FinalEstimate(ballot) <= FinalEstimate(ballot')
              /\ ballot'[p] <= ballot[p]
                    => FinalEstimate(ballot') <= FinalEstimate(ballot)]_vars

=============================================================================
