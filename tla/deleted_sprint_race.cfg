\* A sprint is deleted while a request that changes its capacity is in flight.
CONSTANTS
  Tasks = {t1}
  MaxSprint = 1
  Names = {n1}
  Blank = Blank
  InFile = {}
  Workers = {w1, w2}
  Idle = Idle
SPECIFICATION RequestsSpec
CHECK_DEADLOCK FALSE
PROPERTY DeletedStaysDeleted
