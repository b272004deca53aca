\* One tab at a time, no fault.
SPECIFICATION PageSpec
CONSTANTS
  tabA = tabA
  tabB = tabB
  Calls = {tabA}
  Ops = {"classify", "injectFailure", "reopen"}
  MaxCalls = 3
  MaxFaults = 0
INVARIANT ReopenedRuns
