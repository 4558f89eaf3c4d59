CONSTANTS
  Threads <- FourThreads
  Rounds = 3

CHECK_DEADLOCK FALSE
SPECIFICATION FairBarrierSpec
INVARIANTS
  CountIsExact
  CallsAreCounted
  SleepsForSomebody
PROPERTIES
  ImplementsPromise
  EverybodyPasses
