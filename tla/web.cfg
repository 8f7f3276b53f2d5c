\* One participant's page in front of a room with two tasks; three threads of
\* two processes.
CONSTANTS
  Participants = {p1}
  Me = p1
  Ticks = {"tick"}
  MaxPolls = 1
  Cards = {1}
  NoVote = NoVote
  Tasks = {t1, t2}
  Gated = {}
  InFile = {}
  Managed = {}
  NoTask = NoTask
  NoSummary = NoSummary
  Imported = Imported
  MinVotes = 1
  MaxRounds = 1
  MaxPosition = 2
  r1 = r1
  r2 = r2
  r3 = r3
  web1 = web1
  web2 = web2
  Threads = {r1, r2, r3}
  Processes = {web1, web2}
  ProcessOf <- MCProcessOf
  NoThread = NoThread
SPECIFICATION MCSpec
INVARIANTS ClientTypeOK SlotExclusive
PROPERTIES ControlsReturn SlotReleased
