\* Two parts.  Rounds: two tasks, each voted on twice, while two participants
\* are at different items of the queue.  Project: t1 is closed, reopened, deleted
\* and accepted in another room, t2 waits for EVA analysis and is imported.
CONSTANTS
  Participants = {p1, p2}
  Cards = {1}
  NoVote = NoVote
  Tasks = {t1, t2}
  Gated = {t2}
  InFile = {t2}
  Managed = {t1}
  NoTask = NoTask
  NoSummary = NoSummary
  Imported = Imported
  MinVotes = 1
  MaxRounds = 2
  MaxPosition = 2
SYMMETRY Symmetry
SPECIFICATION MCSpec
INVARIANTS ItemsMatchRounds CompletedVotedAll QueueInOrder VotingOnlyWhileActive
PROPERTIES CompletionKeptUntilNewRound ImplementsRounds FinishedIsFinal ExportKeepsAccepted
