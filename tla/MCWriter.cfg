SPECIFICATION MCSpec
CONSTANTS
  Formats <- MCFormatNames
  Tags <- MCTags
  Values <- MCValues
  Storages <- MCStorages
  Limits <- MCLimits
  Encoded <- MCEncoded
  IsParent <- MCParent
  Faults <- MCFaults
  Leftovers <- MCLeftovers
  Jobs <- MCJobs
  GrowMin = 2
  Rounds = 6
  UintOctets = 2
  BerMaxDepth = 3
  BerTagMax = 3
INVARIANTS WriterSafe WritesTree
PROPERTIES Builds ReplaysGrow EventuallyEncoded
CHECK_DEADLOCK FALSE
