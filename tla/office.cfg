\* Two requests in flight over one task and two sprints; one member of the
\* project and one guest of the sprint; three voters and all nine cards.
\* A project whose sprints are all used up may stop.
CONSTANTS
  Tasks = {t1}
  MaxSprint = 2
  Names = {n1}
  Blank = Blank
  InFile = {t1}
  Workers = {w1, w2}
  Idle = Idle
  analysis = analysis
  testing = testing
  Competencies = {analysis, testing}
  Unset = Unset
  Members = {m1}
  Guests = {g1}
  Profiles <- MCProfiles
  Absences = {0, 3}
  Dates = {4, 9, 18}
  Overrides = {1}
  Reserves = {0, 15}
  Manuals <- MCManuals
  OldCapacity = 600
  NoRow = NoRow
  Overlapping = FALSE
  Plans <- MCPlans
  Participants = {p1, p2, p3}
  Cards = {0, 1, 2, 4, 8, 12, 20, 32, 52}
  NoVote = NoVote
  MinVotes = 2
SYMMETRY Symmetry
SPECIFICATION MCSpec
CHECK_DEADLOCK FALSE
INVARIANTS OnePlannedSprint TransfersLeadOn TeamTypeOK AbsenceFits CapacityBalanced HoursCounted EstimateByMidpoints
PROPERTIES TasksStayPlanned ClosedTeamKept RaisedVoteKeepsOrder
