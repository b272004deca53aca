------------------------------ MODULE Connectors ------------------------------
(***************************************************************************)
(* The Google connectors of one workspace: the connectors row and the      *)
(* connector_tokens row of each provider, and the requests that write and  *)
(* use them.  A row of either table is written by a call of its own, so a  *)
(* consent, a disconnect and a refresh of one token interleave between any *)
(* two calls.  Nothing but the unique keys serialises them.                *)
(*                                                                         *)
(* A token is known by the Google account it opens; "fresh" is an          *)
(* expires_at more than a minute ahead.  Sign-in and membership are reads  *)
(* that no other request changes: a refusal is an early return.            *)
(***************************************************************************)
EXTENDS Integers, FiniteSets

CONSTANTS
    Requests,    \* requests that may be in flight at once
    Ops,         \* what the members do, a subset of Operations
    Accounts,    \* Google accounts a member may consent with
    Consents,    \* the sets of scopes a consent may grant
    EmailKnown,  \* outcomes of the best-effort userinfo call
    Expiries,    \* whether a token Google returns is fresh (no expires_in: not)
    Events,      \* events of the calendars that match the automation rule
    MaxRequests, \* bound: requests begun in one behaviour
    MaxFaults    \* bound: database errors and server deaths in one behaviour

Operations == {"connect", "disconnect", "view", "hold", "tool", "rule", "ingest"}

Providers == {"google_calendar", "gmail", "google_drive", "google_sheets"}
Scopes == {"calendar.readonly", "calendar.events", "gmail.send",
           "drive.readonly", "spreadsheets.readonly"}

ASSUME ConnectorsAssumption ==
    /\ Ops \subseteq Operations
    /\ Consents \subseteq SUBSET Scopes
    /\ EmailKnown \subseteq BOOLEAN /\ Expiries \subseteq BOOLEAN
    /\ "none" \notin Accounts \union Events
    /\ MaxRequests \in Nat /\ MaxFaults \in Nat

VARIABLES
    connectors,  \* status ("none": no row) and scopes of each provider
    tokens,      \* the token row of each provider, NoToken if there is none
    cookie,      \* the request whose nonce the browser's cookie holds
    request,     \* what each request has read so far, and where it stands
    holds,       \* calendar holds written: the account confirmed and the one used
    begun,       \* requests begun, up to MaxRequests
    faults,      \* faults spent, up to MaxFaults
    raced,       \* history: a consent and a disconnect were half-way at once
    crossed,     \* history: a consent replaced a row another request was using
    linked       \* history: accounts that were connected, per provider

stores == <<connectors, tokens, cookie, holds>>
history == <<raced, crossed>>
connectorVars == <<stores, request, begun, faults, history, linked>>

None == "none"
MaybeAccount == Accounts \union {None}
Statuses == {"none", "connected", "disconnected"}

TokenRow == [access : MaybeAccount, refresh : MaybeAccount,
             email : MaybeAccount, fresh : BOOLEAN]
NoToken == [access |-> None, refresh |-> None, email |-> None, fresh |-> FALSE]

Steps == {"idle", "consent", "connector", "token", "wipe", "submit", "email",
          "lookup", "row", "refresh", "persist", "call",
          "known", "open", "marker", "record"}

Outcomes == {"error", "no match", "duplicate", "created"}

\* row is the token row to store or the one read, left the providers still to
\* be stored, confirmed the account the member was shown on the hold form.  The
\* last four are CalendarIngest's: the event picked, the ticket opened for it,
\* what the rule will report, and as history the tickets whose marker was in
\* when the request began.
Idle == [op |-> None, at |-> "idle", row |-> NoToken, left |-> {},
         scopes |-> {}, confirmed |-> None, for |-> "google_calendar",
         event |-> None, ticket |-> 0, outcome |-> "error", known |-> {}]

Request == [op : Operations \union {None}, at : Steps, row : TokenRow,
            left : SUBSET Providers, scopes : SUBSET Scopes,
            confirmed : MaybeAccount, for : Providers,
            event : Events \union {None}, ticket : Nat, outcome : Outcomes,
            known : SUBSET Nat]

InitConnectors ==
    /\ connectors = [p \in Providers |-> [status |-> "none", scopes |-> {}]]
    /\ tokens = [p \in Providers |-> NoToken]
    /\ cookie = None
    /\ request = [r \in Requests |-> Idle]
    /\ holds = {}
    /\ begun = 0
    /\ faults = 0
    /\ raced = FALSE
    /\ crossed = FALSE
    /\ linked = {}

At(r, op, at) == request[r].op = op /\ request[r].at = at
Go(r, at) == request' = [request EXCEPT ![r].at = at]
Return(r) == request' = [request EXCEPT ![r] = Idle]
\* A request that cannot go on; a rule run records why before it returns.
GiveUp(r) == IF request[r].op = "rule" THEN Go(r, "record") ELSE Return(r)

CanBegin(r, op) == op \in Ops /\ request[r] = Idle /\ begun < MaxRequests
BeginAt(r, op, at) ==
    /\ CanBegin(r, op)
    /\ request' = [request EXCEPT ![r] = [Idle EXCEPT !.op = op, !.at = at]]
    /\ begun' = begun + 1

Connected(p) == connectors[p].status = "connected"

----------------------------------------------------------------------------
(* The consent: start/route.ts and callback/route.ts *)

\* The nonce goes into the signed state and into the browser's one cookie.
Start(r) ==
    /\ BeginAt(r, "connect", "consent")
    /\ cookie' = r
    /\ UNCHANGED <<connectors, tokens, holds, faults, history>>

\* The order in which the callback stores the granted providers.
Rank == [p \in Providers |-> CASE p = "google_calendar" -> 1
                               [] p = "gmail" -> 2
                               [] p = "google_drive" -> 3
                               [] p = "google_sheets" -> 4]
IsFirst(p, S) == p \in S /\ \A q \in S : Rank[p] <= Rank[q]

ScopesOf == [p \in Providers |->
    CASE p = "google_calendar" -> {"calendar.readonly", "calendar.events"}
      [] p = "gmail" -> {"gmail.send"}
      [] p = "google_drive" -> {"drive.readonly"}
      [] p = "google_sheets" -> {"spreadsheets.readonly"}]

\* One consent grants several providers; with none of them, the calendar.
Granted(scopes) ==
    LET known == {p \in Providers : ScopesOf[p] \intersect scopes # {}}
    IN  IF known = {} THEN {"google_calendar"} ELSE known

\* Refused: no consent, a nonce that is no longer the cookie's, no token.
CallbackFails(r) ==
    /\ At(r, "connect", "consent")
    /\ Return(r)
    /\ UNCHANGED <<stores, begun, faults, history>>

\* State verified, code exchanged, userinfo tried.
Exchange(r) ==
    /\ At(r, "connect", "consent")
    /\ cookie = r
    /\ \E a \in Accounts, s \in Consents, known \in EmailKnown,
          fresh \in Expiries, offline \in BOOLEAN :
          request' = [request EXCEPT
              ![r].at = "connector", ![r].left = Granted(s), ![r].scopes = s,
              ![r].row = [access |-> a,
                          refresh |-> IF offline THEN a ELSE None,
                          email |-> IF known THEN a ELSE None,
                          fresh |-> fresh]]
    /\ UNCHANGED <<stores, begun, faults, history>>

Storing(r, p) == At(r, "connect", "token") /\ IsFirst(p, request[r].left)
Wiping(r) == At(r, "disconnect", "wipe")

\* Upsert on (workspace_id, provider).
StoreConnector(r) ==
    /\ At(r, "connect", "connector")
    /\ \E p \in request[r].left :
          /\ IsFirst(p, request[r].left)
          /\ connectors' = [connectors EXCEPT ![p] =
                [status |-> "connected", scopes |-> request[r].scopes]]
          /\ raced' = (raced \/ (p = "google_calendar" /\ \E s \in Requests : Wiping(s)))
    /\ Go(r, "token")
    /\ UNCHANGED <<tokens, cookie, holds, begun, faults, crossed>>

\* A request that relies on the row of p as it read it a while ago.
Using(r, p) ==
    \/ /\ p = "google_calendar"
       /\ request[r].at \in {"refresh", "persist"}
       /\ request[r].op # "tool"
    \/ p = "google_calendar" /\ request[r].op = "hold" /\ request[r].at \in {"lookup", "row"}

\* Upsert on connector_id; the last one deletes the cookie, whoever's it is.
StoreToken(r) ==
    /\ At(r, "connect", "token")
    /\ \E p \in request[r].left :
          /\ IsFirst(p, request[r].left)
          /\ tokens' = [tokens EXCEPT ![p] = request[r].row]
          /\ crossed' = (crossed \/ \E s \in Requests : Using(s, p))
          /\ IF request[r].left = {p}
             THEN Return(r) /\ cookie' = None
             ELSE /\ request' = [request EXCEPT ![r].left = @ \ {p},
                                                ![r].at = "connector"]
                  /\ UNCHANGED cookie
    /\ UNCHANGED <<connectors, holds, begun, faults, raced>>

----------------------------------------------------------------------------
(* disconnectGoogleCalendar *)

\* Mutation: the row gets a status of another table.
DisconnectRevokes_Mut(r) ==
    /\ BeginAt(r, "disconnect", "wipe")
    /\ connectors["google_calendar"].status # "none"
    /\ connectors' = [connectors EXCEPT !["google_calendar"].status = "revoked"]
    /\ UNCHANGED <<tokens, cookie, holds, faults, history>>

\* The update must find the row; the token row is deleted by the next call.
Disconnect(r) ==
    /\ BeginAt(r, "disconnect", "wipe")
    /\ connectors["google_calendar"].status # "none"
    /\ connectors' = [connectors EXCEPT !["google_calendar"].status = "disconnected"]
    /\ raced' = (raced \/ \E s \in Requests : Storing(s, "google_calendar"))
    /\ UNCHANGED <<tokens, cookie, holds, faults, crossed>>

WipeToken(r) ==
    /\ Wiping(r)
    /\ tokens' = [tokens EXCEPT !["google_calendar"] = NoToken]
    /\ Return(r)
    /\ UNCHANGED <<connectors, cookie, holds, begun, faults, history>>

----------------------------------------------------------------------------
(* getConnectorAccessToken, for every use the web app makes of the calendar *)

LookupConnector(r) ==
    /\ request[r].at = "lookup"
    /\ IF Connected("google_calendar") THEN Go(r, "row") ELSE GiveUp(r)
    /\ UNCHANGED <<stores, begun, faults, history>>

ReadRow(r) ==
    LET row == tokens["google_calendar"]
    IN  /\ request[r].at = "row"
        /\ IF row = NoToken \/ (~row.fresh /\ row.refresh = None)
           THEN GiveUp(r)
           ELSE request' = [request EXCEPT
                    ![r].row = row,
                    ![r].at = IF row.fresh THEN "call" ELSE "refresh"]
        /\ UNCHANGED <<stores, begun, faults, history>>

\* Google answers with a token of the account the refresh token is of.
Refresh(r) ==
    /\ request[r].at = "refresh"
    /\ \/ GiveUp(r)
       \/ \E fresh \in Expiries :
             request' = [request EXCEPT
                 ![r].row.access = request[r].row.refresh, ![r].row.fresh = fresh,
                 ![r].at = IF request[r].op = "tool" THEN "call" ELSE "persist"]
    /\ UNCHANGED <<stores, begun, faults, history>>

\* Mutation: the refreshed row is upserted.
PersistUpserts_Mut(r) ==
    /\ request[r].at = "persist"
    /\ tokens' = [tokens EXCEPT !["google_calendar"] = request[r].row]
    /\ Go(r, "call")
    /\ UNCHANGED <<connectors, cookie, holds, begun, faults, history>>

\* .update(...).eq('connector_id', ...): no row is no error, and the row may
\* be another consent's by now.
Persist(r) ==
    /\ request[r].at = "persist"
    /\ tokens' = [tokens EXCEPT !["google_calendar"] =
          IF @ = NoToken THEN @
          ELSE [@ EXCEPT !.access = request[r].row.access,
                         !.fresh = request[r].row.fresh]]
    /\ Go(r, "call")
    /\ UNCHANGED <<connectors, cookie, holds, begun, faults, history>>

GetConnectorAccessToken(r) ==
    LookupConnector(r) \/ ReadRow(r) \/ Refresh(r) \/ Persist(r)

----------------------------------------------------------------------------
(* What the token is for *)

\* The calendar page: the connector is read once more by the page itself.
ViewEvents(r) ==
    \/ /\ BeginAt(r, "view", "lookup")
       /\ Connected("google_calendar")
       /\ UNCHANGED <<stores, faults, history>>
    \/ /\ At(r, "view", "call")
       /\ Return(r)
       /\ UNCHANGED <<stores, begun, faults, history>>

CanWrite == "calendar.events" \in connectors["google_calendar"].scopes

\* CalendarHoldPanel: the form shows the account of the row.
HoldPanel(r) ==
    /\ CanBegin(r, "hold")
    /\ Connected("google_calendar") /\ CanWrite
    /\ tokens["google_calendar"].email # None
    /\ request' = [request EXCEPT ![r] =
          [Idle EXCEPT !.op = "hold", !.at = "submit",
                       !.confirmed = tokens["google_calendar"].email]]
    /\ begun' = begun + 1
    /\ UNCHANGED <<stores, faults, history>>

\* createCalendarHoldForTicket, (4): status and write scope.
HoldChecksConnector(r) ==
    /\ At(r, "hold", "submit")
    /\ IF Connected("google_calendar") /\ CanWrite THEN Go(r, "email") ELSE Return(r)
    /\ UNCHANGED <<stores, begun, faults, history>>

\* Mutation: the confirmed account is not compared.
HoldChecksAccount_Mut(r) ==
    /\ At(r, "hold", "email")
    /\ IF tokens["google_calendar"].email # None THEN Go(r, "lookup") ELSE Return(r)
    /\ UNCHANGED <<stores, begun, faults, history>>

\* (5): the account on the row is the one the member confirmed.
HoldChecksAccount(r) ==
    /\ At(r, "hold", "email")
    /\ IF /\ tokens["google_calendar"].email # None
          /\ tokens["google_calendar"].email = request[r].confirmed
       THEN Go(r, "lookup") ELSE Return(r)
    /\ UNCHANGED <<stores, begun, faults, history>>

\* (6): one POST to the calendar of whichever account the token opens.
WriteHold(r) ==
    /\ At(r, "hold", "call")
    /\ \/ holds' = holds
       \/ holds' = holds \union {[confirmed |-> request[r].confirmed,
                                  used |-> request[r].row.access]}
    /\ Return(r)
    /\ UNCHANGED <<connectors, tokens, cookie, begun, faults, history>>

CreateHold(r) ==
    HoldPanel(r) \/ HoldChecksConnector(r) \/ HoldChecksAccount(r) \/ WriteHold(r)

\* Mutation: the status is not looked at, only the token.
ResolveAnyStatus_Mut(r) ==
    /\ CanBegin(r, "tool")
    /\ \E p \in Providers :
          /\ tokens[p] # NoToken
          /\ request' = [request EXCEPT ![r] =
                [Idle EXCEPT !.op = "tool", !.for = p, !.row = tokens[p],
                             !.at = "call"]]
    /\ begun' = begun + 1
    /\ UNCHANGED <<stores, faults, history>>

\* resolveGoogleToken of the runtime: status and token of a provider in one
\* statement (get_connector_token).  Without refresh token one that is about
\* to expire is still used, one that has expired is an error.
ResolveGoogleToken(r) ==
    /\ CanBegin(r, "tool")
    /\ \E p \in Providers :
          /\ Connected(p) /\ tokens[p] # NoToken
          /\ request' = [request EXCEPT ![r] =
                [Idle EXCEPT !.op = "tool", !.for = p, !.row = tokens[p],
                             !.at = IF tokens[p].fresh \/ tokens[p].refresh = None
                                    THEN "call" ELSE "refresh"]]
    /\ begun' = begun + 1
    /\ UNCHANGED <<stores, faults, history>>

\* The tool's request to Google; nothing is written back to the database.
ToolCalls(r) ==
    /\ At(r, "tool", "call")
    /\ Return(r)
    /\ UNCHANGED <<stores, begun, faults, history>>

\* A call returns an error, which a rule run records if it was reading events
\* then, or the server dies before the next step.
Fault(r) ==
    /\ faults < MaxFaults
    /\ request[r] # Idle
    /\ faults' = faults + 1
    /\ \/ Return(r)
       \/ request[r].at \in {"lookup", "row", "refresh", "persist", "call"} /\ GiveUp(r)
    /\ UNCHANGED <<stores, begun, history>>

ConnectorStep(r) ==
    \/ Start(r) \/ CallbackFails(r) \/ Exchange(r)
    \/ StoreConnector(r) \/ StoreToken(r)
    \/ Disconnect(r) \/ WipeToken(r)
    \/ GetConnectorAccessToken(r)
    \/ ViewEvents(r) \/ CreateHold(r)
    \/ ResolveGoogleToken(r) \/ ToolCalls(r)
    \/ Fault(r)

\* The accounts whose tokens the row of a connected provider holds right now.
LinkedNow ==
    {link \in Providers \X Accounts :
        /\ Connected(link[1])
        /\ link[2] \in {tokens[link[1]].access, tokens[link[1]].refresh}}
Remember == linked' = linked \union LinkedNow'

=============================================================================
