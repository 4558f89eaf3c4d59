CONSTANTS
  MaxThreadNum = 4
  PreemptPoints <- InUser
  KillsWaiting = FALSE
  AsksUnmasked = FALSE
  ClientIds <- InRange
  QuantumCap = 1

SPECIFICATION FairSpec
INVARIANTS
  NoUndefinedBehaviour
  ReadyIffRunnable
  SyncExact
PROPERTIES
  NobodyOvertakes
  SyncHoldsUntilTermination
  ImplementsScheduler
  ReadyEventuallyRuns
