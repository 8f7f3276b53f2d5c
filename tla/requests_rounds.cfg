\* Three requests in flight over one task with two rounds.
\* A room that has used up its rounds may stop with every worker idle.
CONSTANTS
  Participants = {p1, p2}
  Cards = {1}
  NoVote = NoVote
  Tasks = {t1}
  Gated = {}
  InFile = {}
  Managed = {}
  NoTask = NoTask
  NoSummary = NoSummary
  Imported = Imported
  MinVotes = 2
  MaxRounds = 2
  MaxPosition = 1
  Workers = {w1, w2, w3}
  Idle = Idle
SYMMETRY Symmetry
SPECIFICATION RequestsSpec
CHECK_DEADLOCK FALSE
INVARIANTS QuorumBehindResults RoundsNumbered
