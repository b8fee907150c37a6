SPECIFICATION FairSpec
CONSTANTS
  Capacity = 2
  Values = {v0, v1}
  NoOp = NoOp
  MaxSectors = 2
  IdxModulus = 3
  QueueSizes = {0, 256}
  MaxOps = 4
INVARIANTS
  ServedReadIsRight
  ServedWriteIsRight
PROPERTIES
  RequestReturns
