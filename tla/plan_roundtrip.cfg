CONSTANTS
  MaxChild = 2
  MaxDepth = 3
  Queries <- MCQueries
  q1 = q1
  NULLQ = NULLQ
SPECIFICATION Spec
INVARIANTS
  TypeOK
  ShippedPlanDecodes
