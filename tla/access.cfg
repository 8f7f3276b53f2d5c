\* Two tasks and two names among two sprints; two participants in two
\* browsers; two visitors with two invitations; two rows in each table.
CONSTANTS
  Tasks = {t1, t2}
  MaxSprint = 2
  Names = {n1, n2}
  Blank = Blank
  InFile = {t1, t2}
  ann = ann
  Ann = Ann
  bob = bob
  People = {ann, Ann, bob}
  Folded <- MCFolded
  Browsers = {b1, b2}
  MaxPeople = 2
  MaxTokens = 3
  Ready = Ready
  Invitations = {i1, i2}
  Logins = {l1, l2}
  Visitors = {v1, v2}
  MaxAccounts = 3
  Absent = Absent
  EditsOverlap = FALSE
  MaxKey = 2
  NoRows = NoRows
SYMMETRY Symmetry
SPECIFICATION MCSpec
INVARIANTS ArchivedIsCompleted NamesApart InvitationUsedOnce TransferWhole
PROPERTIES ClosedPlanKept TransfersKept ImportsConverge RevokedForGood
