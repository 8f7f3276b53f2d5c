------------------------ MODULE OrganizerInvitations ------------------------
(***************************************************************************)
(* An invitation makes one organiser.  It is looked at when the form is    *)
(* posted, and again under a lock on its row, in the transaction that      *)
(* creates the account.  An administrator makes invitations, deletes them  *)
(* and edits their labels; the admin site reads the row without a lock and *)
(* saves all of it.                                                        *)
(*                                                                         *)
(* Forms that are not valid, passwords and pages are left out.             *)
(***************************************************************************)
EXTENDS Naturals, Sequences

CONSTANTS Invitations,   \* rows OrganizerInvitation, by key
          Logins,        \* user names
          Visitors,      \* browsers that post the form
          MaxAccounts,   \* bound: accounts that are ever made
          Absent,       \* a row or a request that is not there
          EditsOverlap   \* a label may be edited while others use its invitation

ASSUME InvitationAssumption ==
    /\ MaxAccounts \in Nat /\ EditsOverlap \in BOOLEAN
    /\ Absent \notin [expired : BOOLEAN, used : BOOLEAN]

VARIABLES
    invitation,  \* the rows: expires_at has passed, used_at is set
    everMade,    \* keys that were given out
    account,     \* the users that invitations made, oldest first
    form,        \* what the request of each visitor is about
    edit         \* the row that an administrator has read, and is going to save

inviteVars == <<invitation, everMade, account, form, edit>>

\* used_by is left out: it only repeats, as long as the account is there, which
\* account has the invitation.
Invitation == [expired : BOOLEAN, used : BOOLEAN]
Account == [login : Logins, by : Invitations, exists : BOOLEAN]
Form == [step : {"valid", "locked"}, of : Invitations, login : Logins]

InviteTypeOK ==
    /\ invitation \in [Invitations -> Invitation \cup {Absent}]
    /\ everMade \subseteq Invitations
    /\ account \in Seq(Account) /\ Len(account) <= MaxAccounts
    /\ form \in [Visitors -> Form \cup {Absent}]
    /\ edit \in [of : Invitations, row : Invitation] \cup {Absent}

-----------------------------------------------------------------------------
\* OrganizerInvitation.is_available
Available(i) ==
    invitation[i] # Absent /\ ~invitation[i].used /\ ~invitation[i].expired

LoginTaken(login) ==
    \E n \in DOMAIN account : account[n].exists /\ account[n].login = login

Posted(v, step) == form[v] # Absent /\ form[v].step = step

Locked(i) == \E v \in Visitors : Posted(v, "locked") /\ form[v].of = i

\* organizer_invitation_accept, before the transaction.  Otherwise the answer
\* is that the invitation is not available, or the form again.
InvitationOpened(v, i, login) ==
    /\ form[v] = Absent
    /\ form' = IF Available(i) /\ ~LoginTaken(login)
               THEN [form EXCEPT ![v] = [step |-> "valid", of |-> i, login |-> login]]
               ELSE form
    /\ UNCHANGED <<invitation, everMade, account, edit>>

\* Mutant of InvitationLocked: the row is not looked at again.
LockedUnchecked(v) ==
    /\ Posted(v, "valid") /\ ~Locked(form[v].of)
    /\ invitation[form[v].of] # Absent
    /\ form' = [form EXCEPT ![v].step = "locked"]
    /\ UNCHANGED <<invitation, everMade, account, edit>>

\* select_for_update waits for the lock and reads the row again.
InvitationLocked(v) ==
    /\ Posted(v, "valid") /\ ~Locked(form[v].of)
    /\ form' = IF Available(form[v].of)
               THEN [form EXCEPT ![v].step = "locked"]
               ELSE [form EXCEPT ![v] = Absent]
    /\ UNCHANGED <<invitation, everMade, account, edit>>

\* The account and the mark on the invitation are committed together, or, if
\* the name was taken since the form was checked, neither.
OrganizerRegistered(v) ==
    /\ Posted(v, "locked")
    /\ IF LoginTaken(form[v].login)
       THEN UNCHANGED <<invitation, account>>
       ELSE /\ Len(account) < MaxAccounts
            /\ account' = Append(account, [login |-> form[v].login,
                                           by |-> form[v].of, exists |-> TRUE])
            /\ invitation' = [invitation EXCEPT ![form[v].of].used = TRUE]
    /\ form' = [form EXCEPT ![v] = Absent]
    /\ UNCHANGED <<everMade, edit>>

\* A request that ends early leaves nothing behind.
RegistrationAborted(v) ==
    /\ form[v] # Absent
    /\ form' = [form EXCEPT ![v] = Absent]
    /\ UNCHANGED <<invitation, everMade, account, edit>>

-----------------------------------------------------------------------------
InvitationMade(i) ==
    /\ i \notin everMade
    /\ everMade' = everMade \cup {i}
    /\ invitation' = [invitation EXCEPT ![i] = [expired |-> FALSE, used |-> FALSE]]
    /\ UNCHANGED <<account, form, edit>>

InvitationDeleted(i) ==
    /\ invitation[i] # Absent /\ ~Locked(i)
    /\ invitation' = [invitation EXCEPT ![i] = Absent]
    /\ UNCHANGED <<everMade, account, form, edit>>

\* Seven days have passed.
InvitationExpired(i) ==
    /\ invitation[i] # Absent
    /\ invitation' = [invitation EXCEPT ![i].expired = TRUE]
    /\ UNCHANGED <<everMade, account, form, edit>>

\* The admin site reads the row to change its label ...
LabelRead(i) ==
    /\ edit = Absent /\ invitation[i] # Absent
    /\ edit' = [of |-> i, row |-> invitation[i]]
    /\ UNCHANGED <<invitation, everMade, account, form>>

\* ... and saves every field of it, as they were read; a row that is gone is
\* inserted again.  expires_at is a date and keeps passing.
LabelSaved ==
    /\ edit # Absent /\ ~Locked(edit.of)
    /\ invitation' = [invitation EXCEPT
            ![edit.of] = [used |-> edit.row.used,
                          expired |-> edit.row.expired \/ (@ # Absent /\ @.expired)]]
    /\ edit' = Absent
    /\ UNCHANGED <<everMade, account, form>>

\* The user is deleted (used_by becomes null, used_at stays).
OrganizerDeleted(n) ==
    /\ n \in DOMAIN account /\ account[n].exists
    /\ account' = [account EXCEPT ![n].exists = FALSE]
    /\ UNCHANGED <<invitation, everMade, form, edit>>

-----------------------------------------------------------------------------
InviteInit ==
    /\ invitation = [i \in Invitations |-> Absent]
    /\ everMade = {}
    /\ account = << >>
    /\ form = [v \in Visitors |-> Absent]
    /\ edit = Absent

Registration ==
    \E v \in Visitors :
        \/ \E i \in Invitations, login \in Logins : InvitationOpened(v, i, login)
        \/ InvitationLocked(v) \/ OrganizerRegistered(v) \/ RegistrationAborted(v)

Administration ==
    \/ \E i \in Invitations :
          InvitationMade(i) \/ InvitationDeleted(i) \/ InvitationExpired(i)
    \/ EditsOverlap /\ (LabelSaved \/ \E i \in Invitations : LabelRead(i))
    \/ \E n \in 1..MaxAccounts : OrganizerDeleted(n)

InviteNext == Registration \/ Administration

InviteSpec == InviteInit /\ [][InviteNext]_inviteVars

-----------------------------------------------------------------------------
\* An invitation makes one account, whoever opens it at the same time and even
\* if that account is deleted later: "Приглашение одноразовое" (an invitation
\* is good for one use, user-guide.md:225; views.py:717-729).
InvitationUsedOnce ==
    \A m, n \in DOMAIN account : account[m].by = account[n].by => m = n

=============================================================================
