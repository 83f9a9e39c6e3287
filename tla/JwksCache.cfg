SPECIFICATION Spec
CONSTANTS
  Tasks = {r1, r2, r3}
  KeyIds = {k1, k2}
  SigningKeys = {k1, k2}
  TTL = 3
  Cooldown = 2
  MaxFetch = 1
  NoTask = NoTask
  NoKey = NoKey

SYMMETRY Symmetry
PROPERTIES
  WithdrawnKeyExpires
  PublishedKeyNotRejected
  FetchesSpaced
  FetchesCoalesced
