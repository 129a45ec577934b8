SPECIFICATION FairSpec
CONSTANTS
  Reviewer = {r1}
  Raw = {"success"}
  RequiredApprovals = 1
  MaxAttempts = 3
  MaxDeliveries = 3
  MaxFaults = 1
INVARIANTS ClosureInv ChangesAreEvaluated ReviewsConverge
PROPERTY DeliveriesSettle
CHECK_DEADLOCK FALSE
