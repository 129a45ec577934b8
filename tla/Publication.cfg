SPECIFICATION FairSpec
CONSTANTS
  Slot = {s1, s2}
  WorkerOf <- OwnProcess
  Branch = {b1, b2}
  MaxPatch = 2
  MaxStamp = 2
  MaxAttempts = 2
  GithubFails = TRUE
  MaxFaults = 1
  MaxRequests = 1
INVARIANTS PublicationInv BranchIsApproved
PROPERTIES CancellationIsFinal InFlightSettles
CHECK_DEADLOCK FALSE
