------------------------------ MODULE MCAccess ------------------------------
(***************************************************************************)
(* The plans of sprints under handlers that run alone, access to a room,   *)
(* invitations, and the transfer of the data.  They share no state; each   *)
(* behaviour moves one of them and leaves the others as they are in the    *)
(* beginning.                                                              *)
(***************************************************************************)
EXTENDS SprintPlanning, ParticipantAccess, OrganizerInvitations, DataTransfer,
        TLC

CONSTANTS ann, Ann, bob

\* Two names that differ in case, and another one.
MCFolded == [n \in {ann, Ann, bob} |-> IF n = Ann THEN ann ELSE n]

VARIABLE part  \* what moves in this behaviour

MCInit == /\ Init /\ AccessInit /\ InviteInit /\ TransferInit
          /\ part \in {"plans", "access", "invitations", "transfer"}

MCNext ==
    /\ UNCHANGED part
    /\ \/ /\ part = "plans" /\ Next
          /\ UNCHANGED <<accessVars, inviteVars, transferVars>>
       \/ /\ part = "access" /\ AccessNext
          /\ UNCHANGED <<vars, inviteVars, transferVars>>
       \/ /\ part = "invitations" /\ InviteNext
          /\ UNCHANGED <<vars, accessVars, transferVars>>
       \/ /\ part = "transfer" /\ TransferNext
          /\ UNCHANGED <<vars, accessVars, inviteVars>>

MCSpec == MCInit /\ [][MCNext]_<<vars, accessVars, inviteVars, transferVars, part>>

Symmetry == Permutations(Names) \cup Permutations(Tasks)

=============================================================================
