CONSTANTS
  Editions = {"core", "enterprise"}
  Newest <- CoreAhead
  MaxFaults = 0
  MaxTasks = 1
  MaxEnds = 1
  MaxEdits = 1
SPECIFICATION Spec
CHECK_DEADLOCK FALSE
INVARIANT LocalConfigSurvives
