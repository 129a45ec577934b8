SPECIFICATION FairSpec
CONSTANTS
  Worker = {w1, w2}
  Messages = 3
  Poison = {1}
  BatchSize = 2
  MaxAttempts = 2
  MaxFaults = 2
INVARIANT TypeOK
INVARIANT PublishedIsQueued
INVARIANT DeadLetterIsExhausted
INVARIANT ClaimsAreDistinct
PROPERTY EventuallySettled
PROPERTY EventuallyQueued
CHECK_DEADLOCK FALSE
