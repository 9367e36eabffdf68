CONSTANTS
  BlockCap = 6
  MaxBlocks = 2
  MaxReserved = 1
  Cols <- MCCols
  Vals <- MCVals
  WideVals <- MCWideVals
  InputRows <- MCAllRows
  c1 = c1
  c2 = c2
  v1 = v1
  w = w
  NOP = NOP
  BADEXT = BADEXT
  NULLOBJ = NULLOBJ
  UNDEF = UNDEF
  GARBAGE = GARBAGE
  NONE = NONE
SPECIFICATION Spec
PROPERTIES
  FailedAddKeepsRows
