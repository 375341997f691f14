SPECIFICATION Spec
CONSTANTS
  Configurations <- AllFormats
  UintOctets = 2
  BerMaxDepth = 2
  BerTagMax = 3
  MaxArcs = 4
  Track2PanMax = 3
  Track2DiscretionaryMax = 2
  NumberMax = 3
  NumberListMax = 4
  AflMax = 2
  CerMaxSegment = 4
  CanonicalMaxDepth = 2
  Offered <- TypedInputs
INVARIANTS
  RoundTrips
  WalksMatchGrammar
  CanonicalForms
  CodecsInvert
PROPERTY VerdictsAreFinal
CHECK_DEADLOCK FALSE
