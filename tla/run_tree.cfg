\* Three layers of the chart, three turns per loop, two tool calls per answer.
SPECIFICATION FairSpec
CONSTANTS
  Root = "central-orchestrator"
  Summoned = {"central-orchestrator", "operate-coordinator", "devops"}
  Asked = {"spawn", "write_file", "calendar_write", "unknown"}
  MaxIterations = 3
  MaxSpawnDepth = 3
  HardStop = 4
  Costs = {0, 1, 2}
  MaxBlocks = 2
INVARIANTS
  TypeOK
  
  ExecutedInGrant
  ExecutedIsTraced
PROPERTIES
  BudgetWindsDown
  LoopsAdvance
  RunEnds
