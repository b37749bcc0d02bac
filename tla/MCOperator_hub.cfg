CONSTANTS
  Services = {s1}
  MaxStart = 5
  MaxEdits = 3
  MaxFaults = 0
  CosmosStates = {"up"}
  MaxAttempts = 3
  WarmupTicks = 1
  MaxChanges = 0
  MaxOutages = 1
  MaxHubs = 2
  MaxRetries = 1
SPECIFICATION Spec
INVARIANT Inductive
PROPERTY StopsOnlyWithCause
