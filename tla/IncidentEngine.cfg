SPECIFICATION FairSpec
CONSTANTS
  Client = {c1}
  Signals = {s1}
  NoSignals = none
  Override = override
  MaxAttempts = 2
  MaxStalls = 1
  MaxVersion = 6
  MaxRequests = 2
  MaxFaults = 2
INVARIANT TypeOK
INVARIANT VersionNamesContent
INVARIANT RequestsAreQueued
INVARIANT Milestones
INVARIANT OverrideIsKept
PROPERTY ClosedIsFinal
PROPERTY RequestIsServed
