\* The page moves between two tasks, with the polls of the timer, of a vote and
\* of a move on their way two at a time.
CONSTANTS
  t1 = t1
  t2 = t2
  Participants = {p1}
  Me = p1
  Ticks = {"tick"}
  MaxPolls = 2
  Cards = {1}
  NoVote = NoVote
  Tasks = {t1, t2}
  Gated = {}
  InFile = {}
  Managed = {}
  NoTask = NoTask
  NoSummary = NoSummary
  Imported = Imported
  MinVotes = 1
  MaxRounds = 1
  MaxPosition = 2
SPECIFICATION MCSpec
PROPERTIES PageCatchesUp
