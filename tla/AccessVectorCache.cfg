SPECIFICATION CacheSpec
CONSTANTS
  a = a
  b = b
  c = c
  d = d
  Label = {a, b, c, d}
  NoLabel = NoLabel
  InitialLabels <- MCInitial
  MaxId = 4
  MaxDepth = 2
  Faults = {}
  SconId = 1
  ClassPerm <- MCClassPerm
  Allowed <- MCAllowed
INVARIANTS CacheTypeOK SoundAtRest SoundForDurable StaleOnlyInFlight
