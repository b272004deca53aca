\* Liveness: no symmetry.
SPECIFICATION FairSpec
CONSTANTS
  tabA = tabA
  tabB = tabB
  Calls = {tabA, tabB}
  Ops = {"classify", "injectFailure", "injectLoop", "requestInput", "submitResponse",
         "reopen", "hold", "specialist", "qa", "calendarHold",
         "ingest"}
  MaxCalls = 3
  MaxFaults = 0
CHECK_DEADLOCK FALSE
PROPERTY CallsReturn
