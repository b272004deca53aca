\* Liveness: no symmetry.  The calendar writes change nothing the
\* page shows; a classification that fails stands for the injected failure.
SPECIFICATION PageFairSpec
CONSTANTS
  tabA = tabA
  tabB = tabB
  Calls = {tabA, tabB}
  Ops = {"classify", "injectLoop", "requestInput", "submitResponse",
         "reopen", "hold", "specialist", "qa"}
  MaxCalls = 3
  MaxFaults = 0

  
  
PROPERTIES
  OfferedIsAccepted
  PageSettles
