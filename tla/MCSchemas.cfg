SPECIFICATION SuiteSpec
CONSTANTS
  NULL = NULL
  NoType = NoType
  Configurations = {}
  Offered = {}
  UintOctets = 2
  BerMaxDepth = 2
  BerTagMax = 3
  MaxArcs = 4
  Track2PanMax = 3
  Track2DiscretionaryMax = 2
  NumberMax = 3
  NumberListMax = 4
  AflMax = 2
  CerMaxSegment = 4
  CanonicalMaxDepth = 2
  DerMaxTypes = 6
  DerMaxTypeDepth = 2
  DerMaxComponents = 3
  DerDefinitions <- MCDefinitions
  DerReads <- MCReads
  DerWrites <- MCWrites
INVARIANTS
  DefinitionsSound
  ValidatesTree
  ChecksDefinition
  ReadsSchema
  WritesSchema
CHECK_DEADLOCK FALSE
