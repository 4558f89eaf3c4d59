CONSTANTS
  MaxThreadNum = 3
  PreemptPoints <- InUser
  KillsWaiting = TRUE
  AsksUnmasked = FALSE
  ClientIds <- InRange
  QuantumCap = 1

SPECIFICATION Spec
INVARIANTS
  DependantsExist
