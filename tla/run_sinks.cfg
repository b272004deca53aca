\* Two runs on one ticket and a server action beside them; one fault.
SPECIFICATION Spec
CONSTANTS
  runA = runA
  runB = runB
  Runs = {runA, runB}
  MaxWrites = 3
  MaxWeb = 1
  MaxFaults = 1
SYMMETRY Either
CHECK_DEADLOCK FALSE
INVARIANTS
  TypeOK
  OnlyWebCollides
  OkIsDurable
  PathHasBytes
PROPERTIES
  TraceIsLedger
