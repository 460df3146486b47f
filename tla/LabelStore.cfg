SPECIFICATION Spec
CONSTANTS
  a = a
  b = b
  c = c
  d = d
  Label = {a, b, c, d}
  NoLabel = NoLabel
  InitialLabels <- MCInitial
  MaxId = 4
  MaxDepth = 2
  Faults = {"insert", "read", "process"}
INVARIANTS TypeOK LabelsAgree MirrorInv
PROPERTIES DurableMeaning Implements
