SPECIFICATION FairSpec
CONSTANTS
  Tasks = {r1, r2}
  KeyIds = {k1, oct}
  SigningKeys = {k1}
  TTL = 2
  Cooldown = 2
  MaxFetch = 3
  NoTask = NoTask
  NoKey = NoKey

PROPERTIES
  FreshKeysOnly
  RejectionIsInformed
  UnavailableIsJustified
  EveryCallReturns
  KeyEventuallyAccepted
