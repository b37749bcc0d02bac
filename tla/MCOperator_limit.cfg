CONSTANTS
  Services = {s1, s2}
  MaxStart = 1
  MaxEdits = 2
  MaxFaults = 0
  CosmosStates = {"up"}
  MaxAttempts = 3
  WarmupTicks = 1
  MaxChanges = 0
  MaxOutages = 0
  MaxHubs = 1
  MaxRetries = 0
SPECIFICATION Spec
INVARIANT StartsOnlyStopped
