SPECIFICATION SafeSpec
CONSTANTS
  p1 = p1
  p2 = p2
  Proc = {p1}
  Data = {2, 3}
  MaxTxn = 2
  MaxSlot = 6
  Modes = {"DELETE", "TRUNCATE", "PERSIST"}
  FullSync = {TRUE}
  MayFail = TRUE
INVARIANT Recoverable
