CONSTANTS
  Builders = {"operator"}
  Files <- MCFiles
  Requirements <- MCRequirements
  Plugin = "plugin"
  Partial = Partial
  NoMark = NoMark
  MaxFaults = 2
  MaxRevision = 2
  MaxEdits = 1
SPECIFICATION FairSpec
INVARIANTS MarkedIsComplete WorkingVenvKept MarkTellsContent
PROPERTIES Recovers
