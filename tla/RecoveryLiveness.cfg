\* Two processes, one possible patch, every kind of failure of a step.
SPECIFICATION FairSpec
CONSTANTS
  Slot = {s1, s2}
  WorkerOf <- OwnProcess
  Actor = {alice}
  PlanApprover = {}
  Diff = {d1}
  Threshold = 1
  Elevated = FALSE
  Fault = {"TOOL_FAILED", "PATCH_REJECTED", "BUDGET_EXCEEDED", "VERIFICATION_FAILED"}
  MaxFaults = 1
  MaxRequests = 1
PROPERTIES ActiveSettles CancelTakesEffect
CHECK_DEADLOCK FALSE
