SPECIFICATION FairSpec
CONSTANTS
  Concurrent = 3
  MaxRetries = 2
INVARIANTS ChainInv AuditIsLinear
PROPERTY OperationsEnd
CHECK_DEADLOCK FALSE
