\* Every operation, two in flight, four in a behaviour, one fault.
SPECIFICATION Spec
CONSTANTS
  tabA = tabA
  tabB = tabB
  Calls = {tabA, tabB}
  Ops = {"classify", "injectFailure", "injectLoop", "requestInput", "submitResponse",
         "reopen", "hold", "specialist", "qa", "calendarHold",
         "ingest"}
  MaxCalls = 4
  MaxFaults = 1
SYMMETRY Tabs
CHECK_DEADLOCK FALSE
INVARIANTS
  TypeOK
  GapFree
  EvidenceLinked
  StatusHasEvidence
  SignatureShowsLoop
  ChainInOrder
  AcceptedHasArtifact
PROPERTIES
  TraceIsLedger
