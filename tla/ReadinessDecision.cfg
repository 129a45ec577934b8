SPECIFICATION Spec
CONSTANTS
  Reviewer = {r1}
  Raw = {"success", "failure"}
  RequiredApprovals = 0
  MaxAttempts = 3
  MaxDeliveries = 3
  MaxFaults = 0
INVARIANT LatestDecisionIsCurrent
CHECK_DEADLOCK FALSE
