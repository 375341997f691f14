SPECIFICATION FairSpec
CONSTANTS
  Streams <- TreeStreams
  Callback <- TreeCallback
  Limits <- TreeLimits
  UintOctets = 2
  BerMaxDepth = 3
  BerTagMax = 3
  SizeMax = 8
INVARIANTS TreeInv Balanced MoreOnlyAtRoot
PROPERTIES FollowsWalk EventuallyWalked
