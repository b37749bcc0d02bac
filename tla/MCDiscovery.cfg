CONSTANTS
  Builders = {1, 2}
  Requests = {r1}
  None = None
  Requirements = {1}
  Partial = Partial
  NoMark = NoMark
  MaxFaults = 0
SPECIFICATION Spec
INVARIANTS ReadyIsComplete
CHECK_DEADLOCK FALSE
