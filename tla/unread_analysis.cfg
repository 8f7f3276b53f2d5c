\* A row of a type nobody knows may say anything of a task.
CONSTANTS
  a = a
  b = b
  d = d
  x = x
  y = y
  z = z
  n1 = n1
  n2 = n2
  Numbers = {a, b, d}
  Identifiers = {x, y, z}
  NoIdentifier = NoIdentifier
  Titles = {n1}
  NoTitle = NoTitle
  NoRow = NoRow
  ByHand = {d}
  Rows <- MCRows
  Columns <- MCColumns
  UnknownTypes = {a, b, d}
SPECIFICATION ImportSpec
INVARIANT UnreadBlocksReadiness
