CONSTANTS
  Services = {s1, s2}
  MaxStart = 1
  MaxEdits = 2
  MaxFaults = 1
  CosmosStates = {"up"}
  MaxAttempts = 3
  WarmupTicks = 1
  MaxChanges = 0
  MaxOutages = 0
  MaxHubs = 1
  MaxRetries = 0
SPECIFICATION FairSpec
INVARIANTS SupervisedIsDesired StaleChildIsQueued ChildIsSupervised FilesPrecedeStart LiveChildIsRecorded
PROPERTIES Converges ShutdownStopsEverything KeepsPromise
