CONSTANTS
  g1 = g1
  g2 = g2
  c1 = c1
  Guis <- TwoGuis
  Consoles <- OneConsole
  Starts <- FewStarts
  Ties = {FALSE}
  MaxFaults = 1
  None = None
SPECIFICATION FairSpec
INVARIANTS RecordedIsSpared StraysAreSwept
PROPERTIES LaunchSurfaces
CHECK_DEADLOCK FALSE
