CONSTANTS
  Ops <- MCOps
  o1 = o1
  o2 = o2
  o3 = o3
  MaxChild = 2
  MaxRows = 2
  UNSET = UNSET
SPECIFICATION Spec
INVARIANTS
  TypeOK
  NoRowLost
PROPERTIES
  PassEnds
