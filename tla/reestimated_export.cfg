\* One task that is voted on again after its estimate was accepted.
CONSTANTS
  Participants = {p1}
  Cards = {1}
  NoVote = NoVote
  Tasks = {t1}
  Gated = {}
  InFile = {}
  Managed = {}
  NoTask = NoTask
  NoSummary = NoSummary
  Imported = Imported
  MinVotes = 1
  MaxRounds = 2
  MaxPosition = 1
SPECIFICATION Spec
INVARIANT AcceptedIsExported
