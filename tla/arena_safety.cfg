CONSTANTS
  PageSize = 6
  Hdr = 2
  Align = 2
  MaxPages = 2
  Sizes = {1, 3, 5}
  DownSizes = {1}
  RemainSizes = {0, 6}
  AllowOOM = FALSE
SPECIFICATION Spec
CONSTRAINT MCConstraint
INVARIANTS
  TypeOK
  PageListWellFormed
  AlignedAllocations
