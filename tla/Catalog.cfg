SPECIFICATION Spec
CONSTANTS
  t = t
  u = u
  x = x
  y = y
  Table = {t, u}
  Label = {x, y}
  Version = {1, 2}
  Default <- MCDefault
  Granted <- MCGranted
  NoLabel = NoLabel
  MaxOps = 4
INVARIANTS TypeOK CatalogMatchesSchema MemoryAgrees
 
