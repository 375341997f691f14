CONSTANTS
  Addresses = {1, 2, 3, 4, 5, 6, 7, 8}
  MaxDepth = 1
  MaxElements = 5
  IdMax = 7
  Callers <- Queriers
  Streams <- NoStreams
  BuilderFuels = {}

SPECIFICATION MCSpec

INVARIANTS
  SelectionSafe
  EditPreflight
  CallbacksSafe
PROPERTY KeepsPromise
