CONSTANTS
  MaxThreadNum = 3
  PreemptPoints <- Anywhere
  KillsWaiting = FALSE
  AsksUnmasked = FALSE
  ClientIds <- InRange
  QuantumCap = 1

SPECIFICATION Spec
INVARIANTS
  UnblockedIsScheduled
