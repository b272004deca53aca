\* Every operation, two requests in flight, four begun, one fault.
SPECIFICATION Spec
CONSTANTS
  reqA = reqA
  reqB = reqB
  ann = ann
  bob = bob
  Requests = {reqA, reqB}
  Ops = {"connect", "disconnect", "view", "hold", "tool", "rule", "ingest"}
  Accounts = {ann, bob}
  Consents = {{"calendar.readonly", "calendar.events", "gmail.send"}}
  EmailKnown = {TRUE}
  Expiries = {TRUE, FALSE}
  MaxRequests = 4
  MaxFaults = 1
  Events = {"standup"}
  MaxTickets = 2
SYMMETRY Either
CHECK_DEADLOCK FALSE
INVARIANTS
  TypeOK
  ConnectedHasToken
  UsedWasLinked
  
  MarkersTell
