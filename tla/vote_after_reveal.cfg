\* A vote that was checked before the cards are shown is saved afterwards.
CONSTANTS
  Participants = {p1}
  Cards = {1, 4}
  NoVote = NoVote
  Tasks = {t1}
  Gated = {}
  InFile = {}
  Managed = {}
  NoTask = NoTask
  NoSummary = NoSummary
  Imported = Imported
  MinVotes = 1
  MaxRounds = 1
  MaxPosition = 1
  Workers = {w1, w2}
  Idle = Idle
SYMMETRY Symmetry
SPECIFICATION RequestsSpec
CHECK_DEADLOCK FALSE
PROPERTY VotesFrozenOnceShown
