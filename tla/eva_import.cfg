\* Three tasks; only the name n1 is typed in.
CONSTANTS
  a = a
  b = b
  d = d
  x = x
  y = y
  z = z
  n1 = n1
  n2 = n2
  Numbers = {a, b, d}
  Identifiers = {x, y, z}
  NoIdentifier = NoIdentifier
  Titles = {n1}
  NoTitle = NoTitle
  NoRow = NoRow
  ByHand = {d}
  Rows <- MCRows
  Columns <- MCColumns
  UnknownTypes = {b}
SPECIFICATION ImportSpec
INVARIANTS ImportTypeOK IdentifiersUnique StatusMatchesEstimate ReadyIsAnalysed SkippedBlocksReadiness FilesSettle
PROPERTIES EstimateKept
