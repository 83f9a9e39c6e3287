SPECIFICATION FairSpec
CONSTANTS
  Requests <- SmallRequests
  BatchSize = 2
  MaxAttempts = 3
  InitialDelay = 1
  MaxDelay = 3
  MaxInputTokens = 9
  Timeout = 6
  MaxReported = 5

INVARIANTS
  ResultMatchesRequest
  CallsAreJustified
  FailureIsJustified
PROPERTIES
  EveryRequestEnds
