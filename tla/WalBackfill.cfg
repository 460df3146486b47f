SPECIFICATION Spec
CONSTANTS
  p1 = p1
  p2 = p2
  Proc = {p1, p2}
  Page = {1, 2}
  NReader = 3
  MaxFrame = 2
  MaxTxn = 2
  FullSync = TRUE
  CkptModes = {"PASSIVE"}
  Faults = {}
INVARIANT BackfillBound
