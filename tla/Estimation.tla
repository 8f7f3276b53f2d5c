----------------------------- MODULE Estimation -----------------------------
(***************************************************************************)
(* The estimation scale and the choice of the accepted estimate: the cards *)
(* of poker/models.py and the pure function estimate_on_scale, which the   *)
(* backlog, the sprints, the rooms and every export share.                 *)
(*                                                                         *)
(* Estimates and vote totals are whole hours, as in the code: the average  *)
(* is never formed, distances are compared after multiplying by the count. *)
(***************************************************************************)
EXTENDS Integers

\* ESTIMATION_VALUES: the cards, in hours.
Scale == {0, 1, 2, 4, 8, 12, 20, 32, 52}

\* A positive total never becomes the "no work" card.
PositiveCards == Scale \ {0}

\* Python's None: there is nothing to estimate from.
NoEstimate == -1

\* |v * count - total|: the distance of card v from the average, times count.
Distance(v, total, count) ==
    IF v * count >= total THEN v * count - total ELSE total - v * count

\* Mutant of Preferred: ties go to the smaller card.
PreferredDown(v, w, total, count) ==
    \/ Distance(v, total, count) < Distance(w, total, count)
    \/ Distance(v, total, count) = Distance(w, total, count) /\ v <= w

\* Card v is chosen over card w: it is nearer, or as near and larger.  This is
\* the order of the key (distance, -v) that min() compares.
Preferred(v, w, total, count) ==
    \/ Distance(v, total, count) < Distance(w, total, count)
    \/ Distance(v, total, count) = Distance(w, total, count) /\ v >= w

EstimateOnScale(total, count) ==
    IF count = 0 THEN NoEstimate
    ELSE IF total = 0 THEN 0
    ELSE CHOOSE v \in PositiveCards :
            \A w \in PositiveCards : Preferred(v, w, total, count)

-----------------------------------------------------------------------------
(***************************************************************************)
(* A reference definition by thresholds, as a person would apply the rule  *)
(* to the average: move on to the next card from the midpoint between two  *)
(* cards upwards.                                                          *)
(***************************************************************************)

\* The average total/count has reached the midpoint between cards v and w.
ReachesMidpoint(v, w, total, count) == 2 * total >= (v + w) * count

ReferenceEstimate(total, count) ==
    IF total = 0 THEN 0
    ELSE IF ReachesMidpoint(32, 52, total, count) THEN 52
    ELSE IF ReachesMidpoint(20, 32, total, count) THEN 32
    ELSE IF ReachesMidpoint(12, 20, total, count) THEN 20
    ELSE IF ReachesMidpoint(8, 12, total, count) THEN 12
    ELSE IF ReachesMidpoint(4, 8, total, count) THEN 8
    ELSE IF ReachesMidpoint(2, 4, total, count) THEN 4
    ELSE IF ReachesMidpoint(1, 2, total, count) THEN 2
    ELSE 1

=============================================================================
