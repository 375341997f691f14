SPECIFICATION FairSpec
CONSTANTS
  Streams <- AllStreams
  UintOctets = 2
  BerMaxDepth = 2
  BerTagMax = 3
  SizeMax = 8
  Callback <- EitherCallback
INVARIANTS ReaderSafe DeliveredTile
PROPERTIES FinalSticks VerdictSticks ChunkInvariant EventuallyDecided
