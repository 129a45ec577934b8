\* Two processes, two possible patches: revisions, decisions, one lapsed lease or crash.
SPECIFICATION Spec
CONSTANTS
  Slot = {s1, s2}
  WorkerOf <- OwnProcess
  Actor = {alice, bob}
  PlanApprover = {bob}
  Diff = {d1, d2}
  Threshold = 1
  Elevated = TRUE
  Fault = {"MODEL_FAILED"}
  MaxFaults = 1
  MaxRequests = 2
SYMMETRY Symmetry
INVARIANTS RecoveryInv  ReadyIsApproved
 
CHECK_DEADLOCK FALSE
