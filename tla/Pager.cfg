SPECIFICATION Spec
CONSTANTS
  p1 = p1
  p2 = p2
  Proc = {p1, p2}
  Data = {2}
  MaxTxn = 2
  MaxSlot = 4
  Modes = {"DELETE"}
  FullSync = {TRUE, FALSE}
  MayFail = TRUE
INVARIANTS TypeOK Recoverable Snapshot
PROPERTY NotStarved
