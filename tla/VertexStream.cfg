SPECIFICATION FairSpec
CONSTANTS
  Timeout = 3
  Overrun = 1
  MaxPause = 1
  MaxEvents = 3

INVARIANTS
  VertexKeepsProtocol
  TruncationIsMarked
PROPERTIES
  BodyReleasesAdapter
