SPECIFICATION FairSpec
CONSTANTS
  Slot = {s1, s2}
  WorkerOf <- OwnProcess
  Actor = {a1, a2}
  RequiredApprovals = 2
  Failure = {"budget", "critic"}
  MaxFaults = 2
  MaxRequests = 2
INVARIANT InvestigationInv
PROPERTIES  ActiveSettles
CHECK_DEADLOCK FALSE
