CONSTANTS
  MaxThreadNum = 3
  PreemptPoints <- Anywhere
  KillsWaiting = TRUE
  AsksUnmasked = TRUE
  ClientIds <- AnyId
  QuantumCap = 2

SPECIFICATION Spec
CONSTRAINTS FewDependants ShortQueue
VIEW EndsAlike
INVARIANTS
  TypeOK
  MainNeverLost
  IdsAgree
  QuantumsAccounted
