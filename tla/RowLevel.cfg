SPECIFICATION RowSpec
CONSTANTS
  a = a
  b = b
  c = c
  Label = {a, b, c}
  NoLabel = NoLabel
  InitialLabels <- MCInitial
  MaxId = 2
  MaxDepth = 2
  Faults = {}
  SconId = 1
  ClassPerm <- MCClassPerm
  Allowed <- MCAllowed
  Row = {1}
  TupleLabel = a
INVARIANTS RowTypeOK RowMeaning SavedMeaning FilterExact
