-------------------------------- MODULE MCWeb -------------------------------
(***************************************************************************)
(* What must go on: the page of a participant and the slot of imports.     *)
(* They share no state; each behaviour moves one of them and leaves the    *)
(* other as it is in the beginning.                                        *)
(***************************************************************************)
EXTENDS RoomClient, ImportSlot

CONSTANTS r1, r2, r3, web1, web2

\* Two threads of one process and one of another.
MCProcessOf == [r \in {r1, r2, r3} |-> IF r = r3 THEN web2 ELSE web1]

VARIABLE part  \* what moves in this behaviour

MCInit == ClientInit /\ SlotInit /\ part \in {"page", "slot"}

MCNext ==
    /\ UNCHANGED part
    /\ \/ part = "page" /\ ClientNext /\ UNCHANGED slotVars
       \/ part = "slot" /\ SlotNext /\ UNCHANGED allVars

\* What does not move has nothing that is enabled, so fairness to it asks for
\* nothing.
MCSpec ==
    MCInit /\ [][MCNext]_<<allVars, slotVars, part>> /\ ClientFairness /\ SlotFairness

=============================================================================
