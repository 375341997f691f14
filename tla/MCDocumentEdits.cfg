CONSTANTS
  Addresses = {1, 2, 3, 4, 5, 6, 7, 8}
  MaxDepth = 2
  MaxElements = 4
  IdMax = 6
  Callers <- Editors
  Streams <- BuildStreams
  BuilderFuels = {0, 1, 2, 3, 4, 5, 30}

SPECIFICATION MCSpec

INVARIANTS
  TreeOK
  LocationHonest
  BuilderParses
PROPERTY KeepsPromise
