SPECIFICATION Spec
CONSTANTS
  k1 = k1
  k2 = k2
  k3 = k3
  k4 = k4
  v1 = v1
  v2 = v2
  Key = {k1, k2, k3, k4}
  Value = {v1, v2}
  Null = Null
  HashOf <- MCHash
  InitSize = 1
  NewMayFail = TRUE
INVARIANTS TypeOK Runs
PROPERTIES IsMap
CHECK_DEADLOCK FALSE
