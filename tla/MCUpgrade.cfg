CONSTANTS
  Editions = {"core", "enterprise"}
  Newest <- CoreAhead
  MaxFaults = 2
  MaxTasks = 3
  MaxEnds = 1
  MaxEdits = 2
SPECIFICATION FairSpec
CHECK_DEADLOCK FALSE
PROPERTIES UpgradeDelivers
