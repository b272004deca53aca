\* Liveness: one run, no symmetry.
SPECIFICATION FairSpec
CONSTANTS
  runA = runA
  runB = runB
  Runs = {runA}
  MaxWrites = 3
  MaxWeb = 1
  MaxFaults = 1
CHECK_DEADLOCK FALSE
PROPERTIES
  RunReplies
