CONSTANTS
  Threads <- ThreeThreads
  Rounds = 1
  Pairs <- FourPairs
  KeyOf <- TwoKeys
  InputSize = 3
  PairsOf <- ThreeInputs
  Addresses <- AnyHeap

SPECIFICATION Spec
INVARIANTS
  OneReducePerKey
