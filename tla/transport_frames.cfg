CONSTANTS
  WA_MAX_INPUT = 4
  Length <- ThreeLengths
  Capacity = 6

CHECK_DEADLOCK FALSE
SPECIFICATION FairSpec
INVARIANTS
  TypeOK
  WholeFrameIsItsMessage
PROPERTIES
  ImplementsFrameQueue
  SentIsRead
  AllGetThrough
