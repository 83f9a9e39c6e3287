SPECIFICATION FairSpec
CONSTANTS
  Timeout = 4
  Overrun = 1
  MaxPause = 2
  MaxEvents = 4

INVARIANTS
  ProviderTimeIsBounded
  TimeoutIsTheProviders
PROPERTIES
  ImplementsContract
  EveryPullEnds
