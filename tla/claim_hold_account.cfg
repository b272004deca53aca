\* Two requests: a consent with another account while a hold is being written.
SPECIFICATION Spec
CONSTANTS
  reqA = reqA
  reqB = reqB
  ann = ann
  bob = bob
  Requests = {reqA, reqB}
  Ops = {"connect", "view", "hold"}
  Accounts = {ann, bob}
  Consents = {{"calendar.readonly", "calendar.events"}}
  EmailKnown = {TRUE}
  Expiries = {TRUE, FALSE}
  MaxRequests = 4
  MaxFaults = 0
  Events = {}
  MaxTickets = 0
SYMMETRY Either
CHECK_DEADLOCK FALSE
INVARIANT HoldOnConfirmedAccount
