CONSTANTS
  Editions = {"core", "enterprise"}
  Newest <- MostlyCore
  Defaults <- CoreByDefault
  Files <- InDevelopment
  Nothing = Nothing
  MaxInputs = 1
  MaxFaults = 1
  MaxEnds = 1
SPECIFICATION FairSpec
INVARIANTS FlushedIsStored
PROPERTIES LastSkippedStaysSkipped NewReleaseOffered
