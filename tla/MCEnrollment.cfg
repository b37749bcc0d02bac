CONSTANTS
  Sites = {"release", "dev"}
  MaxRecreations = 1
  MaxInputs = 2
  MaxTroubles = 1
SPECIFICATION MCSpec
INVARIANTS HubsKnowTheSavedKey
PROPERTIES ManualIsKept AutoPairs
CHECK_DEADLOCK FALSE
