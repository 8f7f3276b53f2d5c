\* An administrator edits the label of an invitation while it is used.
CONSTANTS
  Invitations = {i1}
  Logins = {l1, l2}
  Visitors = {v1}
  MaxAccounts = 2
  Absent = Absent
  EditsOverlap = TRUE
SPECIFICATION InviteSpec
INVARIANT InvitationUsedOnce
