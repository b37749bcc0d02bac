CONSTANTS
  Sites = {"release", "dev"}
  MaxRecreations = 1
  MaxInputs = 2
  MaxTroubles = 0
SPECIFICATION MCSpec
PROPERTY ManualIsUntouched
CHECK_DEADLOCK FALSE
