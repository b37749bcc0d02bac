CONSTANTS
  Editions = {"core", "enterprise"}
  Newest <- MostlyCore
  Defaults <- CoreByDefault
  Files <- InDevelopment
  Nothing = Nothing
  MaxInputs = 1
  MaxFaults = 0
  MaxEnds = 0
SPECIFICATION Spec
PROPERTIES SkippedStaysSkipped
