\* Two requests in flight, five begun, one fault, with fairness.
SPECIFICATION FairSpec
CONSTANTS
  Users = {"ann", "bob"}
  Workspaces = {1, 2}
  Invites = {1, 2}
  Slugs = {"team", "team-x"}
  Names <- MCNames
  WithSuffix <- MCWithSuffix
  Requests = {"r1", "r2"}
  MaxRequests = 5
  MaxFaults = 1
CHECK_DEADLOCK FALSE
INVARIANTS
  TypeOK
  SingleUse
  RolesAreGranted
  OnboardedLands
PROPERTY
  InvitesAreAtomic
  RequestsReturn
