CONSTANTS
  CosmosStates = {"docker_unavailable", "no_containers", "not_running", "up"}
  Own = {"hub", "api"}
  Others = {"other"}
  Ages <- MCAges
  Interval = 15
  MaxAttempts = 2
  WarmupTicks = 2
  MaxChanges = 2
  MaxOutages = 1
  MaxHubs = 2
  MaxRetries = 1
  ConnectTicks = 1
SPECIFICATION Spec
PROPERTIES ReadsAsTheGateExpects ConnectsWarm NeverCyclesForever RetryReachesConnector RetryRepairs RestartRearms
