CONSTANTS
  Threads <- ThreeThreads
  Rounds = 1
  Pairs <- FourPairs
  KeyOf <- TwoKeys
  InputSize = 3
  PairsOf <- ThreeInputs
  Addresses <- SomeHeaps

CHECK_DEADLOCK FALSE
SPECIFICATION FairSpec
INVARIANTS
  TypeOK
  MapBeforeShuffle
  ReduceNeverNull
  OneKeyPerReduce
  EveryPairReducedOnce
  CleanReturn
  NoDeadlock
  OneReducePerOrderedKey
PROPERTIES
  FrameworkReturns
