SPECIFICATION Spec
CONSTANTS
  tabA = tabA
  tabB = tabB
  Calls = {tabA, tabB}
  Ops = {"classify", "specialist", "qa"}
  MaxCalls = 4
  MaxFaults = 1
SYMMETRY Tabs
CHECK_DEADLOCK FALSE
INVARIANT VerdictFollowsQa
