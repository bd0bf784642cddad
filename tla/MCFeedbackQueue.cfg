SPECIFICATION Spec
CONSTANTS
  i1 = i1
  i2 = i2
  b1 = b1
  r1 = r1
  r2 = r2
  Item <- MCItem
  Batch <- MCBatch
  ItemsOf <- MCItemsOf
  Spoken <- MCSpoken
  Request <- MCRequest
  MaxRequests = 3
SYMMETRY MCSymmetry
CHECK_DEADLOCK FALSE
INVARIANTS
  TypeOK
  FileTruthful
  Kept
  Illustrated
  BatchWhole
