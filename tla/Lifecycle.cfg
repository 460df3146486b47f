SPECIFICATION Spec
CONSTANTS
  p1 = p1
  p2 = p2
  t1 = t1
  t2 = t2
  o1 = o1
  s1 = s1
  s2 = s2
  Proc = {p1, p2}
  Label = {t1, t2, o1, s1, s2}
  TupleLabels <- MCTuple
  IdLabel = t2
  ObjectLabels <- MCObject
  Subject = {s1, s2}
  MaxId = 5
  WriteMayFail = TRUE
  ReadMayFail = TRUE
INVARIANTS TypeOK OpenMirrors OpenComplete KnownSubjectSafe
PROPERTIES KnownSubjectOpens
