CONSTANTS
  Threads = {t1, t2}
  DevContexts = {"release", "source"}
  Leaving = {"close", "cleanup", "setup", "pair"}
  MaxInputs = 3
SPECIFICATION FairLifecycle
INVARIANTS OneOperator OperatorIsHeld ExitStopsOperator
PROPERTIES QuitEnds OperatorFollows ReenrollHappens
