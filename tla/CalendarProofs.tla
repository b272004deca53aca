---------------------------- MODULE CalendarProofs ----------------------------
(***************************************************************************)
(* Proofs of what CalendarProperties states, for any accounts, consents,   *)
(* events, requests and bounds.                                            *)
(*                                                                         *)
(* A request relies on rows it read some calls ago, so the invariant says  *)
(* of each request in flight what is still true of what it has in hand     *)
(* (RequestSound), and of the rows what a later reader may assume          *)
(* (RowsSound, TicketsSound).                                              *)
(***************************************************************************)
EXTENDS CalendarProperties, SequenceTheorems, TLAPS

\* The steps at which a request has a token in hand.
TokenSteps == {"refresh", "persist", "call"}

\* A token row is of one account.
OneAccount(row) == row.email \in {row.access, None} /\ row.refresh \in {row.access, None}

\* The accounts of a row of p have been linked to it.
Linked(p, row) ==
    /\ <<p, row.access>> \in linked
    /\ row.refresh # None => <<p, row.refresh>> \in linked

\* What a consent has in hand, and its position among the providers.
ConsentSound(r) ==
    LET q == request[r]
    IN  /\ q.at \in {"connector", "token"} =>
              q.op = "connect" /\ q.row.access # None /\ OneAccount(q.row)
        /\ ~raced =>
              /\ \A p \in Providers : Storing(r, p) => Connected(p)
              /\ Wiping(r) => ~Connected("google_calendar")

\* What a request that uses a token has in hand.
UseSound(r) ==
    LET q == request[r]
    IN  /\ q.op # "tool" => q.for = "google_calendar"
        /\ q.at \in {"lookup", "row", "persist"} => q.op # "tool"
        /\ q.at \in TokenSteps =>
              /\ q.row.access # None
              /\ (q.op # "tool" /\ raced) \/ Linked(q.for, q.row)
              /\ ~crossed => OneAccount(q.row)
              /\ ~crossed /\ q.op = "hold" => q.row.access = q.confirmed
        /\ q.at = "refresh" => q.row.refresh # None
        /\ q.op = "hold" => q.confirmed # None

\* The token row is still what the request has read, or gone.
RowStands(r) ==
    LET q == request[r]
        row == tokens["google_calendar"]
    IN  ~crossed =>
          /\ q.at \in {"refresh", "persist"} /\ q.op # "tool" =>
                row = NoToken \/ row.access = q.row.access
          /\ q.at \in {"lookup", "row"} /\ q.op = "hold" =>
                row = NoToken \/ row.email = q.confirmed

\* What a request knows of the tickets.
KnownSound(r) ==
    LET q == request[r]
    IN  /\ q.known \subseteq Marked
        /\ q.at = "known" => q.op = "rule"
        /\ q.at \in {"known", "open"} => q.event \in Events /\ q.op \in {"rule", "ingest"}
        /\ q.at = "marker" => q.ticket \in DOMAIN tickets
        /\ q.at = "open" /\ q.op = "rule" /\ faults = 0 =>
              \A k \in q.known : tickets[k].event # q.event

RequestSound(r) == ConsentSound(r) /\ UseSound(r) /\ RowStands(r) /\ KnownSound(r)

RowsSound ==
    /\ \A p \in Providers :
          tokens[p] # NoToken =>
              /\ tokens[p].access # None
              /\ raced \/ Linked(p, tokens[p])
    /\ ConfirmedAccountIsUsed
    /\ ConnectedHasToken

TicketsSound ==
    /\ \A t \in DOMAIN tickets : tickets[t].known \subseteq Marked
    /\ MarkersTell

IInv == TypeOK /\ RowsSound /\ TicketsSound /\ \A r \in Requests : RequestSound(r)

----------------------------------------------------------------------------
(* What every step leaves behind *)

\* Links, history, faults and the tickets' origins only grow.
Onward ==
    /\ linked \subseteq linked' /\ linked' \subseteq Providers \X MaybeAccount
    /\ raced => raced'
    /\ crossed => crossed'
    /\ faults' \in 0..MaxFaults /\ faults <= faults'
    /\ DOMAIN tickets \subseteq DOMAIN tickets'
    /\ \A t \in DOMAIN tickets : tickets'[t].event = tickets[t].event
    /\ Marked \subseteq Marked'

LEMMA FaultsGrow ==
    ASSUME TypeOK, faults' \in 0..MaxFaults, faults <= faults'
    PROVE  /\ faults' = 0 => faults = 0
           /\ faults > 0 => faults' > 0
           /\ faults' > 0 <=> faults' # 0
           /\ faults > 0 <=> faults # 0
<1>1. faults \in 0..MaxFaults
  BY DEF TypeOK
<1> QED
  BY <1>1, ConnectorsAssumption

\* A request that takes no step.
LEMMA OtherUse ==
    ASSUME IInv, Onward, NEW s \in Requests, request'[s] = request[s]
    PROVE  UseSound(s)' /\ KnownSound(s)'
<1>1. UseSound(s) /\ KnownSound(s)
  BY DEF IInv, RequestSound
<1>2. UseSound(s)'
  BY <1>1 DEF UseSound, Linked, Onward
<1>3. faults' = 0 => faults = 0
  BY FaultsGrow DEF IInv, Onward
<1>4. KnownSound(s)'
  <2>1. \A k \in request[s].known : k \in DOMAIN tickets
    BY <1>1 DEF KnownSound, Marked
  <2> QED
    BY <1>1, <1>3, <2>1 DEF KnownSound, Onward
<1> QED
  BY <1>2, <1>4

\* What a step that touches none of the rows leaves alone.
Quiet ==
    /\ UNCHANGED <<connectors, tokens, raced, crossed, tickets>>
    /\ linked \subseteq linked' /\ linked' \subseteq Providers \X MaybeAccount
    /\ cookie' \in Requests \union {None}
    /\ holds' \subseteq [confirmed : MaybeAccount, used : MaybeAccount]
    /\ ~crossed => \A h \in holds' : h.used = h.confirmed
    /\ begun' \in 0..MaxRequests
    /\ faults' \in 0..MaxFaults /\ faults <= faults'
    /\ rule' \in Outcomes \union {"none", "never run"}

\* The steps that a quiet step may not leave.
Owed(r) == request[r].at \in {"token", "wipe", "marker"}

LEMMA QuietStep ==
    ASSUME IInv, NEW r \in Requests, NEW q \in Request, Quiet,
           request' = [request EXCEPT ![r] = q],
           RequestSound(r)',
           Owed(r) => faults' > 0
    PROVE  IInv'
<1>1. /\ \A s \in Requests \ {r} : request'[s] = request[s]
      /\ request'[r] = q
  BY DEF IInv, TypeOK
<1>2. TypeOK'
  BY DEF IInv, TypeOK, Quiet
<1>3. Onward
  BY DEF Quiet, Onward, Marked
<1>4. /\ faults' = 0 => faults = 0
      /\ faults > 0 => faults' > 0
      /\ faults' > 0 <=> faults' # 0
  BY <1>3, FaultsGrow DEF IInv, Onward
<1>5. ASSUME NEW s \in Requests \ {r}
      PROVE  RequestSound(s)'
  <2>1. UseSound(s)' /\ KnownSound(s)'
    BY <1>1, <1>3, OtherUse
  <2>2. ConsentSound(s) /\ RowStands(s)
    BY DEF IInv, RequestSound
  <2>3. ConsentSound(s)'
    BY <1>1, <2>2 DEF ConsentSound, Storing, Wiping, At, Connected, Quiet
  <2>4. RowStands(s)'
    BY <1>1, <2>2 DEF RowStands, Quiet
  <2> QED
    BY <2>1, <2>3, <2>4 DEF RequestSound
<1>6. RowsSound'
  <2>1. \A p \in Providers :
          tokens'[p] # NoToken =>
              tokens'[p].access # None /\ (raced' \/ Linked(p, tokens[p])')
    BY DEF IInv, RowsSound, Linked, Quiet
  <2>2. ConfirmedAccountIsUsed'
    BY DEF IInv, RowsSound, ConfirmedAccountIsUsed, Quiet
  <2>3. ConnectedHasToken'
    <3> SUFFICES ASSUME NEW p \in Providers, ~raced, ~(faults' > 0),
                        \A s \in Requests :
                            ~(Storing(s, p)' \/ (p = "google_calendar" /\ Wiping(s)'))
                 PROVE  Connected(p) <=> tokens[p] # NoToken
      BY DEF ConnectedHasToken, Connected, Quiet
    <3>1. ~(faults > 0)
      BY <1>4
    <3>2. \A s \in Requests : ~(Storing(s, p) \/ (p = "google_calendar" /\ Wiping(s)))
      BY <1>1 DEF Storing, Wiping, At, Owed
    <3> QED
      BY <3>1, <3>2 DEF IInv, RowsSound, ConnectedHasToken
  <2> QED
    BY <2>1, <2>2, <2>3 DEF RowsSound
<1>7. TicketsSound'
  <2>1. \A t \in DOMAIN tickets' : tickets'[t].known \subseteq Marked'
    BY DEF IInv, TicketsSound, Quiet, Marked
  <2>2. MarkersTell'
    <3> SUFFICES ASSUME faults' = 0, NEW t \in DOMAIN tickets
                 PROVE  /\ tickets[t].by = "rule" =>
                              \A k \in tickets[t].known : tickets[k].event # tickets[t].event
                        /\ tickets[t].first = "nothing" =>
                              \E s \in Requests : /\ request'[s].at = "marker"
                                                  /\ request'[s].ticket = t
      BY DEF MarkersTell, Quiet
    <3>1. faults = 0 /\ ~Owed(r)
      BY <1>4
    <3> QED
      BY <1>1, <3>1 DEF IInv, TicketsSound, MarkersTell, Owed
  <2> QED
    BY <2>1, <2>2 DEF TicketsSound
<1> QED
  BY <1>1, <1>2, <1>5, <1>6, <1>7 DEF IInv

----------------------------------------------------------------------------
(* Steps that write no row *)

LEMMA RememberLinks ==
    ASSUME TypeOK, Remember
    PROVE  /\ linked \subseteq linked' /\ linked' \subseteq Providers \X MaybeAccount
           /\ LinkedNow' \subseteq linked'
BY DEF TypeOK, Remember, LinkedNow, MaybeAccount

\* Where all rows, tickets and histories stay as they are.
LEMMA StillQuiet ==
    ASSUME IInv, UNCHANGED <<stores, history, ingestVars>>, Remember \/ UNCHANGED linked,
           begun' \in 0..MaxRequests, faults' \in 0..MaxFaults, faults <= faults'
    PROVE  Quiet
<1>1. linked \subseteq linked' /\ linked' \subseteq Providers \X MaybeAccount
  BY RememberLinks DEF IInv, TypeOK
<1>2. /\ UNCHANGED <<connectors, tokens, raced, crossed, tickets>>
      /\ cookie' = cookie /\ holds' = holds /\ rule' = rule
  BY DEF stores, history, ingestVars
<1>3. ~crossed => \A h \in holds : h.used = h.confirmed
  BY DEF IInv, RowsSound, ConfirmedAccountIsUsed
<1> QED
  BY <1>1, <1>2, <1>3 DEF Quiet, IInv, TypeOK

\* begun and faults as most steps leave them.
LEMMA SameCounts ==
    ASSUME IInv, UNCHANGED <<begun, faults>>
    PROVE  begun' \in 0..MaxRequests /\ faults' \in 0..MaxFaults /\ faults <= faults'
<1>1. begun \in 0..MaxRequests /\ faults \in 0..MaxFaults
  BY DEF IInv, TypeOK
<1> QED
  BY <1>1, ConnectorsAssumption

LEMMA OneMoreBegun ==
    ASSUME IInv, begun < MaxRequests, begun' = begun + 1, UNCHANGED faults
    PROVE  begun' \in 0..MaxRequests /\ faults' \in 0..MaxFaults /\ faults <= faults'
<1>1. begun \in 0..MaxRequests /\ faults \in 0..MaxFaults
  BY DEF IInv, TypeOK
<1> QED
  BY <1>1, ConnectorsAssumption

LEMMA OneMoreFault ==
    ASSUME IInv, faults < MaxFaults, faults' = faults + 1, UNCHANGED begun
    PROVE  /\ begun' \in 0..MaxRequests /\ faults' \in 0..MaxFaults /\ faults <= faults'
           /\ faults' > 0
<1>1. begun \in 0..MaxRequests /\ faults \in 0..MaxFaults
  BY DEF IInv, TypeOK
<1> QED
  BY <1>1, ConnectorsAssumption

\* Steps at which a request has nothing in hand that anybody could change.
Free == {"idle", "consent", "submit", "email", "record"}

LEMMA FreeStep ==
    ASSUME IInv, NEW r \in Requests, NEW q \in Request, Quiet,
           request' = [request EXCEPT ![r] = q],
           q.at \in Free, q.op = "hold" => q.confirmed # None,
           q.op # "tool" => q.for = "google_calendar",
           q.known \subseteq Marked,
           Owed(r) => faults' > 0
    PROVE  IInv'
<1>1. request'[r] = q
  BY DEF IInv, TypeOK
<1>2. ConsentSound(r)'
  BY <1>1 DEF ConsentSound, Storing, Wiping, At, Free
<1>3. UseSound(r)'
  BY <1>1 DEF UseSound, TokenSteps, Free
<1>4. RowStands(r)' /\ KnownSound(r)'
  BY <1>1 DEF RowStands, KnownSound, Free, Quiet, Marked
<1> QED
  BY <1>2, <1>3, <1>4, QuietStep DEF RequestSound

LEMMA IdleTyped == Idle \in Request
BY DEF Idle, Request, Operations, Steps, TokenRow, NoToken, MaybeAccount, Providers,
       Outcomes

LEMMA Returns ==
    ASSUME IInv, NEW r \in Requests, Quiet, Return(r), Owed(r) => faults' > 0
    PROVE  IInv'
<1>1. /\ Idle.at \in Free /\ Idle.op # "hold" /\ Idle.for = "google_calendar"
      /\ Idle.known \subseteq Marked
      /\ request' = [request EXCEPT ![r] = Idle]
  BY DEF Return, Idle, Free, None
<1> QED
  BY <1>1, IdleTyped, FreeStep

\* A step of r to where it has nothing in hand.
LEMMA GoesFree ==
    ASSUME IInv, NEW r \in Requests, NEW at \in Free, Quiet, Go(r, at),
           Owed(r) => faults' > 0
    PROVE  IInv'
<1> DEFINE q == [request[r] EXCEPT !.at = at]
<1>1. request[r] \in Request
  BY DEF IInv, TypeOK
<1>2. /\ q \in Request /\ q.at = at /\ q.op = request[r].op
      /\ q.confirmed = request[r].confirmed /\ q.known = request[r].known
      /\ q.for = request[r].for
  BY <1>1 DEF Request, Steps, Free
<1>3. request' = [request EXCEPT ![r] = q]
  BY DEF Go
<1> HIDE DEF q
<1>4. UseSound(r) /\ KnownSound(r)
  BY DEF IInv, RequestSound
<1> QED
  BY <1>2, <1>3, <1>4, FreeStep DEF UseSound, KnownSound

LEMMA GivesUp ==
    ASSUME IInv, NEW r \in Requests, Quiet, GiveUp(r), Owed(r) => faults' > 0
    PROVE  IInv'
<1>1. "record" \in Free
  BY DEF Free
<1> QED
  BY <1>1, Returns, GoesFree DEF GiveUp

----------------------------------------------------------------------------
(* The consent and the hold, up to the rows *)

LEMMA StartStep ==
    ASSUME IInv, NEW r \in Requests, Start(r), Remember, UNCHANGED ingestVars
    PROVE  IInv'
<1> DEFINE q == [Idle EXCEPT !.op = "connect", !.at = "consent"]
<1>1. /\ request' = [request EXCEPT ![r] = q] /\ request[r] = Idle
      /\ begun < MaxRequests /\ begun' = begun + 1 /\ cookie' = r
      /\ UNCHANGED <<connectors, tokens, holds, faults, raced, crossed, tickets, rule>>
  BY DEF Start, BeginAt, CanBegin, history, ingestVars
<1>2. /\ q \in Request /\ q.at \in Free /\ q.op # "hold" /\ q.known \subseteq Marked
      /\ q.for = "google_calendar"
  BY IdleTyped DEF Request, Idle, Operations, Steps, Free
<1>3. Quiet
  <2>1. /\ begun' \in 0..MaxRequests /\ faults' \in 0..MaxFaults /\ faults <= faults'
        /\ linked \subseteq linked' /\ linked' \subseteq Providers \X MaybeAccount
    BY <1>1, OneMoreBegun, RememberLinks DEF IInv
  <2>2. ~crossed => \A h \in holds : h.used = h.confirmed
    BY DEF IInv, RowsSound, ConfirmedAccountIsUsed
  <2> QED
    BY <1>1, <2>1, <2>2 DEF Quiet, IInv, TypeOK
<1>4. ~Owed(r)
  BY <1>1 DEF Owed, Idle
<1> HIDE DEF q
<1> QED
  BY <1>1, <1>2, <1>3, <1>4, FreeStep

LEMMA CallbackFailsStep ==
    ASSUME IInv, NEW r \in Requests, CallbackFails(r), Remember, UNCHANGED ingestVars
    PROVE  IInv'
<1>1. Quiet
  BY SameCounts, StillQuiet DEF CallbackFails
<1>2. ~Owed(r) /\ Return(r)
  BY DEF CallbackFails, At, Owed
<1> QED
  BY <1>1, <1>2, Returns

LEMMA ExchangeStep ==
    ASSUME IInv, NEW r \in Requests, Exchange(r), Remember, UNCHANGED ingestVars
    PROVE  IInv'
<1>1. PICK a \in Accounts, s \in Consents, known \in EmailKnown,
          fresh \in Expiries, offline \in BOOLEAN :
          request' = [request EXCEPT
              ![r].at = "connector", ![r].left = Granted(s), ![r].scopes = s,
              ![r].row = [access |-> a,
                          refresh |-> IF offline THEN a ELSE None,
                          email |-> IF known THEN a ELSE None,
                          fresh |-> fresh]]
  BY DEF Exchange
<1>2. Quiet
  BY SameCounts, StillQuiet DEF Exchange
<1>3. request[r] \in Request /\ request[r].op = "connect" /\ request[r].at = "consent"
  BY DEF Exchange, At, IInv, TypeOK
<1> DEFINE row == [access |-> a, refresh |-> IF offline THEN a ELSE None,
                   email |-> IF known THEN a ELSE None, fresh |-> fresh]
           q == [request[r] EXCEPT !.at = "connector", !.left = Granted(s),
                                   !.scopes = s, !.row = row]
<1>4. /\ row \in TokenRow /\ OneAccount(row) /\ row.access # None
      /\ s \subseteq Scopes /\ Granted(s) \subseteq Providers
  <2>1. a # None /\ s \subseteq Scopes /\ fresh \in BOOLEAN
    BY ConnectorsAssumption DEF None
  <2> QED
    BY <2>1 DEF TokenRow, MaybeAccount, OneAccount, Granted, Providers
<1> HIDE DEF row
<1>5. /\ q \in Request /\ q.at = "connector" /\ q.op = "connect" /\ q.row = row
      /\ q.known = request[r].known /\ q.for = request[r].for
  BY <1>3, <1>4 DEF Request, Steps
<1>6. request' = [request EXCEPT ![r] = q] /\ request'[r] = q
  BY <1>1, <1>3 DEF row, IInv, TypeOK
<1> HIDE DEF q
<1>7. ConsentSound(r)'
  BY <1>4, <1>5, <1>6 DEF ConsentSound, Storing, Wiping, At
<1>8. UseSound(r) /\ KnownSound(r)
  BY DEF IInv, RequestSound
<1>9. UseSound(r)'
  BY <1>3, <1>5, <1>6, <1>8 DEF UseSound, TokenSteps
<1>10. RowStands(r)' /\ KnownSound(r)'
  BY <1>2, <1>5, <1>6, <1>8 DEF RowStands, KnownSound, Quiet, Marked
<1>11. ~Owed(r)
  BY <1>3 DEF Owed
<1> QED
  BY <1>2, <1>5, <1>6, <1>7, <1>9, <1>10, <1>11, QuietStep DEF RequestSound

LEMMA HoldPanelStep ==
    ASSUME IInv, NEW r \in Requests, HoldPanel(r), Remember, UNCHANGED ingestVars
    PROVE  IInv'
<1> DEFINE email == tokens["google_calendar"].email
           q == [Idle EXCEPT !.op = "hold", !.at = "submit", !.confirmed = email]
<1>1. /\ request' = [request EXCEPT ![r] = q] /\ request[r] = Idle
      /\ begun < MaxRequests /\ begun' = begun + 1 /\ email # None
      /\ UNCHANGED <<stores, faults, history>>
  BY DEF HoldPanel, CanBegin
<1>2. email \in MaybeAccount
  <2>1. tokens["google_calendar"] \in TokenRow
    BY DEF IInv, TypeOK, Providers
  <2> QED
    BY <2>1 DEF TokenRow
<1> HIDE DEF email
<1>3. /\ q \in Request /\ q.at \in Free /\ q.confirmed # None
      /\ q.known \subseteq Marked /\ q.for = "google_calendar"
  BY <1>1, <1>2, IdleTyped DEF Request, Idle, Operations, Steps, Free
<1>4. Quiet
  BY <1>1, OneMoreBegun, StillQuiet
<1>5. ~Owed(r)
  BY <1>1 DEF Owed, Idle
<1> HIDE DEF q
<1> QED
  BY <1>1, <1>3, <1>4, <1>5, FreeStep

LEMMA HoldChecksConnectorStep ==
    ASSUME IInv, NEW r \in Requests, HoldChecksConnector(r), Remember, UNCHANGED ingestVars
    PROVE  IInv'
<1>1. Quiet
  BY SameCounts, StillQuiet DEF HoldChecksConnector
<1>2. ~Owed(r) /\ (Return(r) \/ Go(r, "email")) /\ "email" \in Free
  BY DEF HoldChecksConnector, At, Owed, Free
<1> QED
  BY <1>1, <1>2, Returns, GoesFree

\* The account on the row is the one confirmed when the hold goes on.
LEMMA HoldChecksAccountStep ==
    ASSUME IInv, NEW r \in Requests, HoldChecksAccount(r), Remember, UNCHANGED ingestVars
    PROVE  IInv'
<1>1. Quiet
  BY SameCounts, StillQuiet DEF HoldChecksAccount
<1>2. request[r] \in Request /\ request[r].op = "hold" /\ request[r].at = "email"
  BY DEF HoldChecksAccount, At, IInv, TypeOK
<1>3. ~Owed(r)
  BY <1>2 DEF Owed
<1>4. CASE Return(r)
  BY <1>1, <1>3, <1>4, Returns
<1>5. CASE tokens["google_calendar"].email = request[r].confirmed /\ Go(r, "lookup")
  <2> DEFINE q == [request[r] EXCEPT !.at = "lookup"]
  <2>1. /\ q \in Request /\ q.at = "lookup" /\ q.op = "hold"
        /\ q.confirmed = request[r].confirmed /\ q.known = request[r].known
        /\ q.for = request[r].for
    BY <1>2 DEF Request, Steps
  <2>2. request' = [request EXCEPT ![r] = q] /\ request'[r] = q
    BY <1>5 DEF Go, IInv, TypeOK
  <2> HIDE DEF q
  <2>3. UseSound(r) /\ KnownSound(r)
    BY DEF IInv, RequestSound
  <2>4. ConsentSound(r)' /\ RowStands(r)' /\ KnownSound(r)'
    BY <1>1, <1>5, <2>1, <2>2, <2>3
       DEF ConsentSound, Storing, Wiping, At, RowStands, KnownSound, Quiet, Marked
  <2>5. UseSound(r)'
    BY <1>2, <2>1, <2>2, <2>3 DEF UseSound, TokenSteps
  <2> QED
    BY <1>1, <1>3, <2>1, <2>2, <2>4, <2>5, QuietStep DEF RequestSound
<1> QED
  BY <1>4, <1>5 DEF HoldChecksAccount

----------------------------------------------------------------------------
(* getConnectorAccessToken and the uses of a token *)

\* A step of r that changes only where it is, and keeps what it relies on.
LEMMA GoesOn ==
    ASSUME IInv, NEW r \in Requests, NEW at \in Steps, Quiet, Go(r, at), ~Owed(r)
    PROVE  /\ request'[r] \in Request
           /\ request' = [request EXCEPT ![r] = request'[r]]
           /\ request'[r].at = at
           /\ request'[r].op = request[r].op /\ request'[r].row = request[r].row
           /\ request'[r].for = request[r].for /\ request'[r].left = request[r].left
           /\ request'[r].confirmed = request[r].confirmed
           /\ request'[r].known = request[r].known
           /\ request'[r].event = request[r].event
           /\ request'[r].ticket = request[r].ticket
<1> DEFINE q == [request[r] EXCEPT !.at = at]
<1>1. request[r] \in Request
  BY DEF IInv, TypeOK
<1>2. /\ q \in Request /\ q.at = at
      /\ q.op = request[r].op /\ q.row = request[r].row
      /\ q.for = request[r].for /\ q.left = request[r].left
      /\ q.confirmed = request[r].confirmed /\ q.known = request[r].known
      /\ q.event = request[r].event /\ q.ticket = request[r].ticket
  BY <1>1 DEF Request
<1>3. request' = [request EXCEPT ![r] = q]
  BY DEF Go
<1> HIDE DEF q
<1>4. request'[r] = q
  BY <1>3 DEF IInv, TypeOK
<1> QED
  BY <1>2, <1>3, <1>4

LEMMA LookupConnectorStep ==
    ASSUME IInv, NEW r \in Requests, LookupConnector(r), Remember, UNCHANGED ingestVars
    PROVE  IInv'
<1>1. Quiet
  BY SameCounts, StillQuiet DEF LookupConnector
<1>2. ~Owed(r) /\ request[r].at = "lookup"
  BY DEF LookupConnector, Owed
<1>3. CASE GiveUp(r)
  BY <1>1, <1>2, <1>3, GivesUp
<1>4. CASE Go(r, "row")
  <2>1. /\ request'[r] \in Request
        /\ request' = [request EXCEPT ![r] = request'[r]]
        /\ request'[r].at = "row" /\ request'[r].op = request[r].op
        /\ request'[r].for = request[r].for
        /\ request'[r].confirmed = request[r].confirmed
        /\ request'[r].known = request[r].known
    BY <1>1, <1>2, <1>4, GoesOn DEF Steps
  <2>2. UseSound(r) /\ RowStands(r) /\ KnownSound(r)
    BY DEF IInv, RequestSound
  <2>3. ConsentSound(r)' /\ RowStands(r)' /\ KnownSound(r)'
    BY <1>1, <1>2, <2>1, <2>2
       DEF ConsentSound, Storing, Wiping, At, RowStands, KnownSound, Quiet, Marked
  <2>4. UseSound(r)'
    BY <1>2, <2>1, <2>2 DEF UseSound, TokenSteps
  <2> QED
    BY <1>1, <1>2, <2>1, <2>3, <2>4, QuietStep DEF RequestSound
<1> QED
  BY <1>3, <1>4 DEF LookupConnector

\* A token row of a provider, once read.
LEMMA RowTyped ==
    ASSUME IInv, NEW p \in Providers
    PROVE  /\ tokens[p] \in TokenRow
           /\ tokens[p] # NoToken =>
                 tokens[p].access # None /\ (raced \/ Linked(p, tokens[p]))
           /\ ~crossed => OneAccount(tokens[p])
BY DEF IInv, TypeOK, RowsSound, ConfirmedAccountIsUsed, OneAccount

LEMMA ReadRowStep ==
    ASSUME IInv, NEW r \in Requests, ReadRow(r), Remember, UNCHANGED ingestVars
    PROVE  IInv'
<1> DEFINE row == tokens["google_calendar"]
           at == IF row.fresh THEN "call" ELSE "refresh"
<1>1. Quiet
  BY SameCounts, StillQuiet DEF ReadRow
<1>2. ~Owed(r) /\ request[r].at = "row" /\ request[r] \in Request
  BY DEF ReadRow, Owed, IInv, TypeOK
<1>3. CASE GiveUp(r)
  BY <1>1, <1>2, <1>3, GivesUp
<1>4. CASE /\ row # NoToken /\ (row.fresh \/ row.refresh # None)
           /\ request' = [request EXCEPT ![r].row = row, ![r].at = at]
  <2> DEFINE q == [request[r] EXCEPT !.row = row, !.at = at]
  <2>1. /\ row \in TokenRow /\ row.access # None
        /\ raced \/ Linked("google_calendar", row)
        /\ ~crossed => OneAccount(row)
    BY <1>4, RowTyped DEF Providers
  <2>2. at \in {"call", "refresh"} /\ (at = "refresh" => row.refresh # None)
    BY <1>4
  <2>3. request' = [request EXCEPT ![r] = q]
    BY <1>4
  <2> HIDE DEF at
  <2>4. UseSound(r) /\ RowStands(r) /\ KnownSound(r)
    BY DEF IInv, RequestSound
  <2>5. ~crossed /\ request[r].op = "hold" =>
          row.email = request[r].confirmed /\ request[r].confirmed # None
    BY <1>2, <1>4, <2>4 DEF RowStands, UseSound
  <2>6. row.access = tokens["google_calendar"].access
    OBVIOUS
  <2> HIDE DEF row
  <2>7. /\ q \in Request /\ q.at = at /\ q.row = row /\ q.op = request[r].op
        /\ q.for = request[r].for /\ q.known = request[r].known
        /\ q.confirmed = request[r].confirmed
    BY <1>2, <2>1, <2>2 DEF Request, Steps
  <2> HIDE DEF q
  <2>8. request'[r] = q
    BY <2>3 DEF IInv, TypeOK
  <2>9. ConsentSound(r)' /\ KnownSound(r)'
    BY <1>1, <2>2, <2>4, <2>7, <2>8
       DEF ConsentSound, Storing, Wiping, At, KnownSound, Quiet, Marked
  <2>10. RowStands(r)'
    BY <1>1, <2>2, <2>6, <2>7, <2>8 DEF RowStands, Quiet
  <2>11. Linked("google_calendar", row) => Linked("google_calendar", row)'
    BY <1>1 DEF Linked, Quiet, row
  <2>12. UseSound(r)'
    BY <1>1, <1>2, <2>1, <2>2, <2>4, <2>5, <2>7, <2>8, <2>11
       DEF UseSound, TokenSteps, OneAccount, Quiet, Linked
  <2> QED
    BY <1>1, <1>2, <2>3, <2>7, <2>9, <2>10, <2>12, QuietStep DEF RequestSound
<1> QED
  BY <1>3, <1>4 DEF ReadRow

LEMMA RefreshStep ==
    ASSUME IInv, NEW r \in Requests, Refresh(r), Remember, UNCHANGED ingestVars
    PROVE  IInv'
<1>1. Quiet
  BY SameCounts, StillQuiet DEF Refresh
<1>2. ~Owed(r) /\ request[r].at = "refresh" /\ request[r] \in Request
  BY DEF Refresh, Owed, IInv, TypeOK
<1>3. CASE GiveUp(r)
  BY <1>1, <1>2, <1>3, GivesUp
<1>4. ASSUME NEW fresh \in Expiries,
             request' = [request EXCEPT
                 ![r].row.access = request[r].row.refresh, ![r].row.fresh = fresh,
                 ![r].at = IF request[r].op = "tool" THEN "call" ELSE "persist"]
      PROVE  IInv'
  <2> DEFINE old == request[r].row
             row == [old EXCEPT !.access = old.refresh, !.fresh = fresh]
             at == IF request[r].op = "tool" THEN "call" ELSE "persist"
             q == [request[r] EXCEPT !.row = row, !.at = at]
  <2>1. old \in TokenRow /\ fresh \in BOOLEAN
    BY <1>2, ConnectorsAssumption DEF Request
  <2>2. /\ row \in TokenRow /\ row.access = old.refresh
        /\ row.refresh = old.refresh /\ row.email = old.email
    BY <2>1 DEF TokenRow
  <2>3. /\ at \in {"call", "persist"}
        /\ at = "persist" <=> request[r].op # "tool"
    OBVIOUS
  <2>4. request' = [request EXCEPT ![r] = q]
    BY <1>2, <1>4, <2>1 DEF Request, TokenRow
  <2> HIDE DEF at, row
  <2>5. /\ q \in Request /\ q.at = at /\ q.row = row /\ q.op = request[r].op
        /\ q.for = request[r].for /\ q.known = request[r].known
        /\ q.confirmed = request[r].confirmed
    BY <1>2, <2>2, <2>3 DEF Request, Steps
  <2> HIDE DEF q
  <2>6. request'[r] = q
    BY <2>4 DEF IInv, TypeOK
  <2>7. UseSound(r) /\ RowStands(r) /\ KnownSound(r)
    BY DEF IInv, RequestSound
  <2>8. old.refresh # None /\ (~crossed => old.refresh = old.access)
    BY <1>2, <2>7 DEF UseSound, TokenSteps, OneAccount
  <2>9. ConsentSound(r)' /\ KnownSound(r)'
    BY <1>1, <2>3, <2>5, <2>6, <2>7
       DEF ConsentSound, Storing, Wiping, At, KnownSound, Quiet, Marked
  <2>10. RowStands(r)'
    BY <1>1, <1>2, <2>2, <2>3, <2>5, <2>6, <2>7, <2>8 DEF RowStands, Quiet
  <2>11. UseSound(r)'
    <3>1. \/ q.op # "tool" /\ raced'
          \/ /\ <<q.for, q.row.access>> \in linked'
             /\ q.row.refresh # None => <<q.for, q.row.refresh>> \in linked'
      BY <1>1, <1>2, <2>2, <2>5, <2>7, <2>8 DEF UseSound, TokenSteps, Linked, Quiet
    <3>2. ~crossed' => /\ OneAccount(q.row)
                       /\ q.op = "hold" => q.row.access = q.confirmed
      BY <1>1, <1>2, <2>2, <2>5, <2>7, <2>8 DEF UseSound, TokenSteps, OneAccount, Quiet
    <3> QED
      BY <2>2, <2>3, <2>5, <2>6, <2>7, <2>8, <3>1, <3>2 DEF UseSound, TokenSteps, Linked
  <2> QED
    BY <1>1, <1>2, <2>4, <2>5, <2>9, <2>10, <2>11, QuietStep DEF RequestSound
<1> QED
  BY <1>3, <1>4 DEF Refresh

LEMMA ViewEventsStep ==
    ASSUME IInv, NEW r \in Requests, ViewEvents(r), Remember, UNCHANGED ingestVars
    PROVE  IInv'
<1>1. CASE BeginAt(r, "view", "lookup") /\ UNCHANGED <<stores, faults, history>>
  <2> DEFINE q == [Idle EXCEPT !.op = "view", !.at = "lookup"]
  <2>1. /\ request' = [request EXCEPT ![r] = q] /\ request[r] = Idle
        /\ begun < MaxRequests /\ begun' = begun + 1
    BY <1>1 DEF BeginAt, CanBegin
  <2>2. Quiet
    BY <1>1, <2>1, OneMoreBegun, StillQuiet
  <2>3. /\ q \in Request /\ q.at = "lookup" /\ q.op = "view" /\ q.known = {}
        /\ q.for = "google_calendar"
    BY IdleTyped DEF Request, Idle, Operations, Steps
  <2> HIDE DEF q
  <2>4. request'[r] = q
    BY <2>1 DEF IInv, TypeOK
  <2>5. ConsentSound(r)' /\ UseSound(r)' /\ RowStands(r)' /\ KnownSound(r)'
    BY <2>3, <2>4 DEF ConsentSound, Storing, Wiping, At, UseSound, TokenSteps,
                      RowStands, KnownSound
  <2>6. ~Owed(r)
    BY <2>1 DEF Owed, Idle
  <2> QED
    BY <2>1, <2>2, <2>3, <2>5, <2>6, QuietStep DEF RequestSound
<1>2. CASE At(r, "view", "call") /\ Return(r) /\ UNCHANGED <<stores, begun, faults, history>>
  BY <1>2, SameCounts, StillQuiet, Returns DEF At, Owed
<1> QED
  BY <1>1, <1>2 DEF ViewEvents

\* The hold goes to the account that was confirmed.
LEMMA WriteHoldStep ==
    ASSUME IInv, NEW r \in Requests, WriteHold(r), Remember, UNCHANGED ingestVars
    PROVE  IInv'
<1> DEFINE hold == [confirmed |-> request[r].confirmed, used |-> request[r].row.access]
<1>1. /\ UNCHANGED <<connectors, tokens, cookie, begun, faults, raced, crossed,
                     tickets, rule>>
      /\ holds' = holds \/ holds' = holds \union {hold}
      /\ Return(r) /\ request[r].op = "hold" /\ request[r].at = "call"
  BY DEF WriteHold, At, history, ingestVars
<1>2. hold \in [confirmed : MaybeAccount, used : MaybeAccount]
  <2>1. request[r] \in Request
    BY DEF IInv, TypeOK
  <2> QED
    BY <2>1 DEF Request, TokenRow
<1>3. ~crossed => hold.used = hold.confirmed
  BY <1>1 DEF IInv, RequestSound, UseSound, TokenSteps
<1>4. ~crossed => \A h \in holds : h.used = h.confirmed
  BY DEF IInv, RowsSound, ConfirmedAccountIsUsed
<1> HIDE DEF hold
<1>5. /\ begun' \in 0..MaxRequests /\ faults' \in 0..MaxFaults /\ faults <= faults'
      /\ linked \subseteq linked' /\ linked' \subseteq Providers \X MaybeAccount
  BY <1>1, SameCounts, RememberLinks DEF IInv
<1>6. Quiet
  BY <1>1, <1>2, <1>3, <1>4, <1>5 DEF Quiet, IInv, TypeOK
<1> QED
  BY <1>1, <1>6, Returns DEF Owed

\* The runtime reads status and token at once, so what it reads is linked.
LEMMA ResolveGoogleTokenStep ==
    ASSUME IInv, NEW r \in Requests, ResolveGoogleToken(r), Remember, UNCHANGED ingestVars
    PROVE  IInv'
<1>1. PICK p \in Providers :
          /\ Connected(p) /\ tokens[p] # NoToken
          /\ request' = [request EXCEPT ![r] =
                [Idle EXCEPT !.op = "tool", !.for = p, !.row = tokens[p],
                             !.at = IF tokens[p].fresh \/ tokens[p].refresh = None
                                    THEN "call" ELSE "refresh"]]
  BY DEF ResolveGoogleToken
<1> DEFINE row == tokens[p]
           at == IF row.fresh \/ row.refresh = None THEN "call" ELSE "refresh"
           q == [Idle EXCEPT !.op = "tool", !.for = p, !.row = row, !.at = at]
<1>2. /\ request[r] = Idle /\ begun < MaxRequests /\ begun' = begun + 1
      /\ UNCHANGED <<stores, faults, history>>
  BY DEF ResolveGoogleToken, CanBegin
<1>3. Quiet
  BY <1>2, OneMoreBegun, StillQuiet
<1>4. row \in TokenRow /\ row.access # None /\ (~crossed => OneAccount(row))
  BY <1>1, RowTyped
<1>5. /\ <<p, row.access>> \in linked'
      /\ row.refresh # None => <<p, row.refresh>> \in linked'
  <2>1. /\ row.access \in Accounts
        /\ row.refresh # None => row.refresh \in Accounts
    BY <1>4 DEF TokenRow, MaybeAccount
  <2>2. LinkedNow' = LinkedNow
    BY <1>3 DEF LinkedNow, Connected, Quiet
  <2>3. /\ <<p, row.access>> \in LinkedNow
        /\ row.refresh # None => <<p, row.refresh>> \in LinkedNow
    BY <1>1, <2>1 DEF LinkedNow
  <2>4. LinkedNow' \subseteq linked'
    BY RememberLinks DEF IInv
  <2> QED
    BY <2>2, <2>3, <2>4
<1>6. at \in {"call", "refresh"} /\ (at = "refresh" => row.refresh # None)
  OBVIOUS
<1>7. request' = [request EXCEPT ![r] = q]
  BY <1>1
<1> HIDE DEF row, at
<1>8. /\ q \in Request /\ q.at = at /\ q.op = "tool" /\ q.for = p /\ q.row = row
      /\ q.known = {}
  BY <1>4, <1>6, IdleTyped DEF Request, Idle, Operations, Steps
<1> HIDE DEF q
<1>9. request'[r] = q
  BY <1>7 DEF IInv, TypeOK
<1>10. ConsentSound(r)' /\ RowStands(r)' /\ KnownSound(r)'
  BY <1>6, <1>8, <1>9 DEF ConsentSound, Storing, Wiping, At, RowStands, KnownSound
<1>11. UseSound(r)'
  BY <1>3, <1>4, <1>5, <1>6, <1>8, <1>9 DEF UseSound, TokenSteps, Linked, Quiet
<1>12. ~Owed(r)
  BY <1>2 DEF Owed, Idle
<1> QED
  BY <1>3, <1>7, <1>8, <1>10, <1>11, <1>12, QuietStep DEF RequestSound

LEMMA ToolCallsStep ==
    ASSUME IInv, NEW r \in Requests, ToolCalls(r), Remember, UNCHANGED ingestVars
    PROVE  IInv'
<1>1. Quiet
  BY SameCounts, StillQuiet DEF ToolCalls
<1>2. ~Owed(r) /\ Return(r)
  BY DEF ToolCalls, At, Owed
<1> QED
  BY <1>1, <1>2, Returns

LEMMA FaultStep ==
    ASSUME IInv, NEW r \in Requests, Fault(r), Remember, UNCHANGED ingestVars
    PROVE  IInv'
<1>1. Quiet /\ faults' > 0
  BY OneMoreFault, StillQuiet DEF Fault
<1> QED
  BY <1>1, Returns, GivesUp DEF Fault

----------------------------------------------------------------------------
(* Steps that write a connector row or a token row *)

\* What such a step leaves alone, and the types it keeps.
RowsChange ==
    /\ connectors' \in [Providers -> [status : Statuses, scopes : SUBSET Scopes]]
    /\ tokens' \in [Providers -> TokenRow]
    /\ cookie' \in Requests \union {None}
    /\ raced' \in BOOLEAN /\ crossed' \in BOOLEAN
    /\ raced => raced'
    /\ crossed => crossed'
    /\ begun' \in 0..MaxRequests
    /\ UNCHANGED <<holds, faults, tickets, rule>>

LEMMA StoreStep ==
    ASSUME IInv, NEW r \in Requests, NEW q \in Request, RowsChange, Remember,
           request' = [request EXCEPT ![r] = q],
           request[r].at # "marker",
           \A p \in Providers :
              tokens'[p] # NoToken =>
                 tokens'[p].access # None /\ (raced' \/ Linked(p, tokens[p])'),
           ~crossed' => \A p \in Providers : OneAccount(tokens'[p]),
           ConnectedHasToken',
           RequestSound(r)',
           \A s \in Requests \ {r} : ConsentSound(s)' /\ RowStands(s)'
    PROVE  IInv'
<1>1. /\ \A s \in Requests \ {r} : request'[s] = request[s]
      /\ request'[r] = q
  BY DEF IInv, TypeOK
<1>2. linked \subseteq linked' /\ linked' \subseteq Providers \X MaybeAccount
  BY RememberLinks DEF IInv
<1>3. TypeOK'
  BY <1>2 DEF IInv, TypeOK, RowsChange
<1>4. Onward
  <2>1. faults \in 0..MaxFaults /\ faults' = faults
    BY DEF IInv, TypeOK, RowsChange
  <2>2. faults' \in 0..MaxFaults /\ faults <= faults'
    BY <2>1, ConnectorsAssumption
  <2> QED
    BY <1>2, <2>2 DEF Onward, RowsChange, Marked
<1>5. ASSUME NEW s \in Requests \ {r}
      PROVE  RequestSound(s)'
  BY <1>1, <1>4, <1>5, OtherUse DEF RequestSound
<1>6. ConfirmedAccountIsUsed'
  BY DEF IInv, RowsSound, ConfirmedAccountIsUsed, OneAccount, RowsChange
<1>7. RowsSound'
  BY <1>6 DEF RowsSound
<1>8. TicketsSound'
  <2>1. \A t \in DOMAIN tickets' : tickets'[t].known \subseteq Marked'
    BY DEF IInv, TicketsSound, RowsChange, Marked
  <2>2. MarkersTell'
    BY <1>1 DEF IInv, TicketsSound, MarkersTell, RowsChange
  <2> QED
    BY <2>1, <2>2 DEF TicketsSound
<1> QED
  BY <1>1, <1>3, <1>5, <1>7, <1>8 DEF IInv

\* What r has in hand says nothing of the rows unless it is half-way.
LEMMA NothingInHand ==
    ASSUME IInv, NEW r \in Requests, request'[r].at \in Free,
           request'[r].op = "hold" => request'[r].confirmed # None,
           request'[r].op # "tool" => request'[r].for = "google_calendar",
           request'[r].known \subseteq Marked'
    PROVE  RequestSound(r)'
<1>1. ConsentSound(r)'
  BY DEF ConsentSound, Storing, Wiping, At, Free
<1>2. UseSound(r)'
  BY DEF UseSound, TokenSteps, Free
<1>3. RowStands(r)' /\ KnownSound(r)'
  BY DEF RowStands, KnownSound, Free
<1> QED
  BY <1>1, <1>2, <1>3 DEF RequestSound

LEMMA IdleSound ==
    ASSUME IInv, NEW r \in Requests, Return(r)
    PROVE  RequestSound(r)'
<1>1. request'[r] = Idle
  BY DEF Return, IInv, TypeOK
<1> QED
  BY <1>1, NothingInHand DEF Idle, Free, None

LEMMA DisconnectStep ==
    ASSUME IInv, NEW r \in Requests, Disconnect(r), Remember, UNCHANGED ingestVars
    PROVE  IInv'
<1> DEFINE q == [Idle EXCEPT !.op = "disconnect", !.at = "wipe"]
           old == connectors["google_calendar"]
           new == [old EXCEPT !.status = "disconnected"]
<1>1. /\ request' = [request EXCEPT ![r] = q] /\ request[r] = Idle
      /\ begun < MaxRequests /\ begun' = begun + 1
      /\ connectors' = [connectors EXCEPT !["google_calendar"] = new]
      /\ raced' = (raced \/ \E s \in Requests : Storing(s, "google_calendar"))
      /\ UNCHANGED <<tokens, cookie, holds, faults, crossed, tickets, rule>>
  BY DEF Disconnect, BeginAt, CanBegin, ingestVars
<1>2. /\ q \in Request /\ q.at = "wipe" /\ q.op = "disconnect" /\ q.known = {}
      /\ q.for = "google_calendar"
  BY IdleTyped DEF Request, Idle, Operations, Steps
<1> HIDE DEF q
<1>3. /\ request'[r] = q
      /\ \A s \in Requests \ {r} : request'[s] = request[s]
  BY <1>1 DEF IInv, TypeOK
<1>4. /\ new \in [status : Statuses, scopes : SUBSET Scopes]
      /\ new.status = "disconnected"
  <2>1. old \in [status : Statuses, scopes : SUBSET Scopes]
    BY DEF IInv, TypeOK, Providers
  <2> QED
    BY <2>1 DEF Statuses
<1> HIDE DEF new
<1>5. /\ connectors' \in [Providers -> [status : Statuses, scopes : SUBSET Scopes]]
      /\ ~Connected("google_calendar")'
      /\ \A p \in Providers \ {"google_calendar"} : Connected(p)' = Connected(p)
  BY <1>1, <1>4 DEF IInv, TypeOK, Connected, Providers
<1>6. ~raced' => ~raced /\ \A s \in Requests : ~Storing(s, "google_calendar")
  BY <1>1
<1>7. RowsChange
  <2>1. begun' \in 0..MaxRequests
    BY <1>1, OneMoreBegun
  <2> QED
    BY <1>1, <1>5, <2>1 DEF RowsChange, IInv, TypeOK
<1>8. \A s \in Requests \ {r}, p \in Providers : Storing(s, p)' = Storing(s, p)
  BY <1>3 DEF Storing, At
<1>9. \A p \in Providers : ~Storing(r, p) /\ ~Storing(r, p)'
  BY <1>1, <1>2, <1>3 DEF Storing, At, Idle
<1>10. ASSUME NEW s \in Requests \ {r}
       PROVE  ConsentSound(s)' /\ RowStands(s)'
  <2>1. ConsentSound(s) /\ RowStands(s)
    BY DEF IInv, RequestSound
  <2>2. ConsentSound(s)'
    BY <1>3, <1>5, <1>6, <1>8, <2>1 DEF ConsentSound
  <2>3. RowStands(s)'
    BY <1>1, <1>3, <2>1 DEF RowStands
  <2> QED
    BY <2>2, <2>3
<1>11. RequestSound(r)'
  <2>1. ConsentSound(r)'
    BY <1>2, <1>3, <1>5, <1>9 DEF ConsentSound
  <2>2. UseSound(r)' /\ RowStands(r)' /\ KnownSound(r)'
    BY <1>2, <1>3 DEF UseSound, TokenSteps, RowStands, KnownSound
  <2> QED
    BY <2>1, <2>2 DEF RequestSound
<1>12. \A p \in Providers :
          tokens'[p] # NoToken =>
             tokens'[p].access # None /\ (raced' \/ Linked(p, tokens[p])')
  BY <1>1, RowTyped, RememberLinks DEF Linked, IInv
<1>13. ~crossed' => \A p \in Providers : OneAccount(tokens'[p])
  BY <1>1, RowTyped
<1>14. ConnectedHasToken'
  <2> SUFFICES ASSUME NEW p \in Providers, ~raced', ~(faults > 0),
                      \A s \in Requests :
                          ~(Storing(s, p)' \/ (p = "google_calendar" /\ Wiping(s)'))
               PROVE  Connected(p)' <=> tokens[p] # NoToken
    BY <1>1 DEF ConnectedHasToken
  <2>1. p # "google_calendar"
    BY <1>2, <1>3 DEF Wiping, At
  <2>2. \A s \in Requests : ~Storing(s, p)
    BY <1>8, <1>9
  <2> QED
    BY <1>5, <1>6, <2>1, <2>2 DEF IInv, RowsSound, ConnectedHasToken
<1>15. request[r].at # "marker"
  BY <1>1 DEF Idle
<1> QED
  BY <1>1, <1>2, <1>7, <1>10, <1>11, <1>12, <1>13, <1>14, <1>15, StoreStep

LEMMA WipeTokenStep ==
    ASSUME IInv, NEW r \in Requests, WipeToken(r), Remember, UNCHANGED ingestVars
    PROVE  IInv'
<1>1. /\ request' = [request EXCEPT ![r] = Idle]
      /\ request[r].op = "disconnect" /\ request[r].at = "wipe"
      /\ tokens' = [tokens EXCEPT !["google_calendar"] = NoToken]
      /\ UNCHANGED <<connectors, cookie, holds, begun, faults, raced, crossed,
                     tickets, rule>>
  BY DEF WipeToken, Wiping, At, Return, history, ingestVars
<1>2. /\ request'[r] = Idle
      /\ \A s \in Requests \ {r} : request'[s] = request[s]
  BY <1>1 DEF IInv, TypeOK
<1>3. /\ NoToken \in TokenRow /\ OneAccount(NoToken)
      /\ tokens'["google_calendar"] = NoToken
      /\ \A p \in Providers \ {"google_calendar"} : tokens'[p] = tokens[p]
  BY <1>1 DEF NoToken, TokenRow, MaybeAccount, OneAccount, IInv, TypeOK, Providers
<1>4. tokens' \in [Providers -> TokenRow]
  BY <1>1, <1>3 DEF IInv, TypeOK
<1>5. RowsChange
  BY <1>1, <1>4 DEF RowsChange, IInv, TypeOK
<1>6. ASSUME NEW s \in Requests \ {r}
      PROVE  ConsentSound(s)' /\ RowStands(s)'
  <2>1. ConsentSound(s)
    BY DEF IInv, RequestSound
  <2>2. ConsentSound(s)'
    BY <1>1, <1>2, <2>1 DEF ConsentSound, Storing, Wiping, At, Connected
  <2>3. RowStands(s)'
    BY <1>3 DEF RowStands
  <2> QED
    BY <2>2, <2>3
<1>7. RequestSound(r)'
  BY <1>1, IdleSound DEF Return
<1>8. \A p \in Providers :
          tokens'[p] # NoToken =>
             tokens'[p].access # None /\ (raced' \/ Linked(p, tokens[p])')
  BY <1>1, <1>3, RowTyped, RememberLinks DEF Linked, IInv
<1>9. ~crossed' => \A p \in Providers : OneAccount(tokens'[p])
  BY <1>1, <1>3, RowTyped
<1>10. ConnectedHasToken'
  <2> SUFFICES ASSUME NEW p \in Providers, ~raced, ~(faults > 0),
                      \A s \in Requests :
                          ~(Storing(s, p)' \/ (p = "google_calendar" /\ Wiping(s)'))
               PROVE  Connected(p) <=> tokens'[p] # NoToken
    BY <1>1 DEF ConnectedHasToken, Connected
  <2>1. CASE p = "google_calendar"
    <3>1. ConsentSound(r) /\ Wiping(r)
      BY <1>1 DEF IInv, RequestSound, Wiping, At
    <3> QED
      BY <1>3, <2>1, <3>1 DEF ConsentSound
  <2>2. CASE p # "google_calendar"
    <3>1. \A s \in Requests : ~Storing(s, p)
      BY <1>1, <1>2 DEF Storing, At
    <3> QED
      BY <1>3, <2>2, <3>1 DEF IInv, RowsSound, ConnectedHasToken
  <2> QED
    BY <2>1, <2>2
<1> QED
  BY <1>1, <1>5, <1>6, <1>7, <1>8, <1>9, <1>10, IdleTyped, StoreStep

LEMMA FirstIsOne ==
    ASSUME NEW S \in SUBSET Providers, NEW p, NEW q, IsFirst(p, S), IsFirst(q, S)
    PROVE  p = q
<1>1. p \in Providers /\ q \in Providers /\ Rank[p] <= Rank[q] /\ Rank[q] <= Rank[p]
  BY DEF IsFirst
<1> QED
  BY <1>1 DEF Rank, Providers

LEMMA StoreConnectorStep ==
    ASSUME IInv, NEW r \in Requests, StoreConnector(r), Remember, UNCHANGED ingestVars
    PROVE  IInv'
<1> DEFINE q == [request[r] EXCEPT !.at = "token"]
<1>1. PICK p \in request[r].left :
          /\ IsFirst(p, request[r].left)
          /\ connectors' = [connectors EXCEPT ![p] =
                [status |-> "connected", scopes |-> request[r].scopes]]
          /\ raced' = (raced \/ (p = "google_calendar" /\ \E s \in Requests : Wiping(s)))
  BY DEF StoreConnector
<1>2. /\ request' = [request EXCEPT ![r] = q]
      /\ request[r].op = "connect" /\ request[r].at = "connector"
      /\ UNCHANGED <<tokens, cookie, holds, begun, faults, crossed, tickets, rule>>
  BY DEF StoreConnector, Go, At, ingestVars
<1>3. /\ request[r] \in Request /\ p \in Providers
      /\ request[r].left \in SUBSET Providers /\ request[r].scopes \in SUBSET Scopes
  BY DEF IInv, TypeOK, Request
<1>4. /\ q \in Request /\ q.at = "token" /\ q.op = "connect" /\ q.row = request[r].row
      /\ q.left = request[r].left /\ q.known = request[r].known
      /\ q.for = request[r].for
  BY <1>2, <1>3 DEF Request, Steps
<1> HIDE DEF q
<1>5. /\ request'[r] = q
      /\ \A s \in Requests \ {r} : request'[s] = request[s]
  BY <1>2 DEF IInv, TypeOK
<1>6. /\ connectors' \in [Providers -> [status : Statuses, scopes : SUBSET Scopes]]
      /\ Connected(p)'
      /\ \A pp \in Providers \ {p} : Connected(pp)' = Connected(pp)
  BY <1>1, <1>3 DEF IInv, TypeOK, Connected, Statuses
<1>7. RowsChange
  BY <1>1, <1>2, <1>6 DEF RowsChange, IInv, TypeOK
<1>8. /\ \A s \in Requests \ {r}, pp \in Providers : Storing(s, pp)' = Storing(s, pp)
      /\ \A s \in Requests : Wiping(s)' = Wiping(s)
  BY <1>2, <1>4, <1>5 DEF Storing, Wiping, At
<1>9. /\ \A pp \in Providers : Storing(r, pp)' <=> pp = p
      /\ \A pp \in Providers : ~Storing(r, pp)
      /\ ~Wiping(r)
  BY <1>1, <1>2, <1>3, <1>4, <1>5, FirstIsOne DEF Storing, Wiping, At
<1>10. ~raced' => ~raced /\ (p = "google_calendar" => \A s \in Requests : ~Wiping(s))
  BY <1>1
<1>11. ASSUME NEW s \in Requests \ {r}
       PROVE  ConsentSound(s)' /\ RowStands(s)'
  <2>1. ConsentSound(s) /\ RowStands(s)
    BY DEF IInv, RequestSound
  <2>2. ConsentSound(s)'
    <3>1. ASSUME ~raced'
          PROVE  /\ \A pp \in Providers : Storing(s, pp) => Connected(pp)'
                 /\ Wiping(s) => ~Connected("google_calendar")'
      BY <1>6, <1>10, <2>1, <3>1 DEF ConsentSound, Providers
    <3> QED
      BY <1>5, <1>8, <2>1, <3>1 DEF ConsentSound
  <2>3. RowStands(s)'
    BY <1>2, <1>5, <2>1 DEF RowStands
  <2> QED
    BY <2>2, <2>3
<1>12. RequestSound(r)'
  <2>1. ConsentSound(r) /\ UseSound(r) /\ KnownSound(r)
    BY DEF IInv, RequestSound
  <2>2. ConsentSound(r)'
    BY <1>2, <1>4, <1>5, <1>6, <1>8, <1>9, <2>1 DEF ConsentSound
  <2>3. UseSound(r)' /\ RowStands(r)'
    BY <1>2, <1>4, <1>5, <2>1 DEF UseSound, TokenSteps, RowStands
  <2>4. KnownSound(r)'
    BY <1>2, <1>4, <1>5, <2>1 DEF KnownSound, Marked
  <2> QED
    BY <2>2, <2>3, <2>4 DEF RequestSound
<1>13. \A pp \in Providers :
          tokens'[pp] # NoToken =>
             tokens'[pp].access # None /\ (raced' \/ Linked(pp, tokens[pp])')
  BY <1>2, <1>10, RowTyped, RememberLinks DEF Linked, IInv
<1>14. ~crossed' => \A pp \in Providers : OneAccount(tokens'[pp])
  BY <1>2, RowTyped
<1>15. ConnectedHasToken'
  <2> SUFFICES ASSUME NEW pp \in Providers, ~raced', ~(faults > 0),
                      \A s \in Requests :
                          ~(Storing(s, pp)' \/ (pp = "google_calendar" /\ Wiping(s)'))
               PROVE  Connected(pp)' <=> tokens[pp] # NoToken
    BY <1>2 DEF ConnectedHasToken
  <2>1. pp # p
    BY <1>9
  <2>2. \A s \in Requests : ~Storing(s, pp) /\ ~(pp = "google_calendar" /\ Wiping(s))
    BY <1>8, <1>9
  <2> QED
    BY <1>6, <1>10, <2>1, <2>2 DEF IInv, RowsSound, ConnectedHasToken
<1> QED
  BY <1>2, <1>4, <1>7, <1>11, <1>12, <1>13, <1>14, <1>15, StoreStep

LEMMA StoreTokenStep ==
    ASSUME IInv, NEW r \in Requests, StoreToken(r), Remember, UNCHANGED ingestVars
    PROVE  IInv'
<1> DEFINE row == request[r].row
           left == request[r].left
<1>1. PICK p \in left :
          /\ IsFirst(p, left)
          /\ tokens' = [tokens EXCEPT ![p] = row]
          /\ crossed' = (crossed \/ \E s \in Requests : Using(s, p))
          /\ IF left = {p}
             THEN Return(r) /\ cookie' = None
             ELSE /\ request' = [request EXCEPT ![r].left = @ \ {p},
                                                ![r].at = "connector"]
                  /\ UNCHANGED cookie
  BY DEF StoreToken
<1>2. /\ request[r].op = "connect" /\ request[r].at = "token"
      /\ UNCHANGED <<connectors, holds, begun, faults, raced, tickets, rule>>
  BY DEF StoreToken, At, ingestVars
<1>3. /\ request[r] \in Request /\ p \in Providers /\ row \in TokenRow
      /\ left \in SUBSET Providers
  BY DEF IInv, TypeOK, Request
<1>4. ConsentSound(r) /\ UseSound(r) /\ KnownSound(r)
  BY DEF IInv, RequestSound
<1>5. /\ row.access # None /\ OneAccount(row)
      /\ Storing(r, p)
      /\ ~raced => Connected(p)
  BY <1>1, <1>2, <1>3, <1>4 DEF ConsentSound, Storing, At
<1> DEFINE more == [request[r] EXCEPT !.left = left \ {p}, !.at = "connector"]
<1>6. /\ more \in Request /\ more.at = "connector" /\ more.op = "connect"
      /\ more.row = row /\ more.known = request[r].known /\ more.for = request[r].for
  BY <1>2, <1>3 DEF Request, Steps
<1> HIDE DEF more
<1>7. PICK q \in Request : /\ request' = [request EXCEPT ![r] = q]
                           /\ q = Idle \/ q = more
  <2>1. Return(r) \/ request' = [request EXCEPT ![r] = more]
    BY <1>1, <1>3 DEF more
  <2> QED
    BY <1>6, <2>1, IdleTyped DEF Return
<1>8. /\ request'[r] = q
      /\ \A s \in Requests \ {r} : request'[s] = request[s]
  BY <1>7 DEF IInv, TypeOK
<1> HIDE DEF row
<1>9. /\ tokens' \in [Providers -> TokenRow]
      /\ tokens'[p] = row
      /\ \A pp \in Providers \ {p} : tokens'[pp] = tokens[pp]
  BY <1>1, <1>3 DEF IInv, TypeOK
<1>10. RowsChange
  <2>1. cookie' \in Requests \union {None}
    BY <1>1 DEF IInv, TypeOK
  <2> QED
    BY <1>1, <1>2, <1>9, <2>1 DEF RowsChange, IInv, TypeOK
<1>11. ~crossed' => ~crossed /\ \A s \in Requests : ~Using(s, p)
  BY <1>1
<1>12. ASSUME NEW s \in Requests \ {r}
       PROVE  ConsentSound(s)' /\ RowStands(s)'
  <2>1. ConsentSound(s) /\ RowStands(s)
    BY DEF IInv, RequestSound
  <2>2. ConsentSound(s)'
    BY <1>2, <1>8, <2>1 DEF ConsentSound, Storing, Wiping, At, Connected
  <2>3. RowStands(s)'
    BY <1>8, <1>9, <1>11, <2>1 DEF RowStands, Using, Providers
  <2> QED
    BY <2>2, <2>3
<1>13. RequestSound(r)'
  <2>1. CASE q = Idle
    BY <1>2, <1>7, <2>1, IdleSound DEF Return
  <2>2. CASE q = more
    <3>1. ConsentSound(r)'
      BY <1>5, <1>6, <1>8, <2>2 DEF ConsentSound, Storing, Wiping, At
    <3>2. UseSound(r)' /\ RowStands(r)'
      BY <1>2, <1>4, <1>6, <1>8, <2>2 DEF UseSound, TokenSteps, RowStands
    <3>3. KnownSound(r)'
      BY <1>2, <1>4, <1>6, <1>8, <2>2 DEF KnownSound, Marked
    <3> QED
      BY <3>1, <3>2, <3>3 DEF RequestSound
  <2> QED
    BY <1>7, <2>1, <2>2
<1>14. ASSUME NEW pp \in Providers, tokens'[pp] # NoToken
       PROVE  tokens'[pp].access # None /\ (raced' \/ Linked(pp, tokens[pp])')
  <2>1. linked \subseteq linked' /\ LinkedNow' \subseteq linked'
    BY RememberLinks DEF IInv
  <2>2. CASE pp # p
    BY <1>2, <1>9, <1>14, <2>1, <2>2, RowTyped DEF Linked
  <2>3. CASE pp = p
    <3>1. raced \/ Connected(p)'
      BY <1>2, <1>5 DEF Connected
    <3>2. /\ row.access \in Accounts
          /\ row.refresh # None => row.refresh \in Accounts
      BY <1>3, <1>5 DEF TokenRow, MaybeAccount
    <3>3. ASSUME Connected(p)'
          PROVE  /\ <<p, row.access>> \in LinkedNow'
                 /\ row.refresh # None => <<p, row.refresh>> \in LinkedNow'
      BY <1>3, <1>9, <3>2, <3>3 DEF LinkedNow
    <3> QED
      BY <1>2, <1>5, <1>9, <2>1, <2>3, <3>1, <3>3 DEF Linked
  <2> QED
    BY <2>2, <2>3
<1>15. ~crossed' => \A pp \in Providers : OneAccount(tokens'[pp])
  BY <1>5, <1>9, <1>11, RowTyped
<1>16. ConnectedHasToken'
  <2> SUFFICES ASSUME NEW pp \in Providers, ~raced, ~(faults > 0),
                      \A s \in Requests :
                          ~(Storing(s, pp)' \/ (pp = "google_calendar" /\ Wiping(s)'))
               PROVE  Connected(pp) <=> tokens'[pp] # NoToken
    BY <1>2 DEF ConnectedHasToken, Connected
  <2>1. CASE pp = p
    <3>1. row # NoToken
      BY <1>5 DEF NoToken
    <3> QED
      BY <1>5, <1>9, <2>1, <3>1
  <2>2. CASE pp # p
    <3>1. ~Storing(r, pp)
      BY <1>1, <1>3, <2>2, FirstIsOne DEF Storing
    <3>2. ~Wiping(r)
      BY <1>2 DEF Wiping, At
    <3>3. \A s \in Requests \ {r} : /\ ~Storing(s, pp)
                                    /\ ~(pp = "google_calendar" /\ Wiping(s))
      BY <1>8 DEF Storing, Wiping, At
    <3> QED
      BY <1>9, <2>2, <3>1, <3>2, <3>3 DEF IInv, RowsSound, ConnectedHasToken
  <2> QED
    BY <2>1, <2>2
<1> QED
  BY <1>2, <1>7, <1>10, <1>12, <1>13, <1>14, <1>15, <1>16, StoreStep

\* A refresh never turns a row into none or none into a row, and while no
\* consent has crossed it leaves the row of the account it was of.
LEMMA PersistStep ==
    ASSUME IInv, NEW r \in Requests, Persist(r), Remember, UNCHANGED ingestVars
    PROVE  IInv'
<1> DEFINE row == request[r].row
           old == tokens["google_calendar"]
           new == [old EXCEPT !.access = row.access, !.fresh = row.fresh]
           q == [request[r] EXCEPT !.at = "call"]
<1>1. /\ request' = [request EXCEPT ![r] = q] /\ request[r].at = "persist"
      /\ tokens' = [tokens EXCEPT !["google_calendar"] = IF old = NoToken THEN old ELSE new]
      /\ UNCHANGED <<connectors, cookie, holds, begun, faults, raced, crossed,
                     tickets, rule>>
  BY DEF Persist, Go, history, ingestVars
<1>2. request[r] \in Request /\ row \in TokenRow
  BY DEF IInv, TypeOK, Request
<1>3. UseSound(r) /\ RowStands(r) /\ KnownSound(r)
  BY DEF IInv, RequestSound
<1>4. /\ request[r].op # "tool" /\ request[r].for = "google_calendar"
      /\ row.access # None
      /\ raced \/ Linked("google_calendar", row)
      /\ ~crossed => old = NoToken \/ old.access = row.access
  BY <1>1, <1>3 DEF UseSound, TokenSteps, RowStands
<1>5. /\ old \in TokenRow
      /\ old # NoToken => raced \/ Linked("google_calendar", old)
      /\ ~crossed => OneAccount(old)
  BY RowTyped DEF Providers
<1>6. /\ new \in TokenRow /\ new.access = row.access
      /\ new.refresh = old.refresh /\ new.email = old.email
      /\ new # NoToken
  BY <1>2, <1>4, <1>5 DEF TokenRow, NoToken
<1>7. /\ q \in Request /\ q.at = "call" /\ q.op = request[r].op /\ q.row = row
      /\ q.for = request[r].for /\ q.known = request[r].known
      /\ q.confirmed = request[r].confirmed
  BY <1>2 DEF Request, Steps
<1> HIDE DEF q, row, new
<1>8. /\ request'[r] = q
      /\ \A s \in Requests \ {r} : request'[s] = request[s]
  BY <1>1 DEF IInv, TypeOK
<1>9. /\ tokens' \in [Providers -> TokenRow]
      /\ tokens'["google_calendar"] = IF old = NoToken THEN old ELSE new
      /\ \A p \in Providers \ {"google_calendar"} : tokens'[p] = tokens[p]
      /\ \A p \in Providers : tokens'[p] = NoToken <=> tokens[p] = NoToken
  <2>1. tokens \in [Providers -> TokenRow] /\ "google_calendar" \in Providers
    BY DEF IInv, TypeOK, Providers
  <2> QED
    BY <1>1, <1>5, <1>6, <2>1
<1>10. RowsChange
  BY <1>1, <1>9 DEF RowsChange, IInv, TypeOK
<1>11. ~crossed => \/ tokens'["google_calendar"] = NoToken
                   \/ /\ tokens'["google_calendar"].access = old.access
                      /\ tokens'["google_calendar"].email = old.email
  BY <1>4, <1>6, <1>9
<1>12. ASSUME NEW s \in Requests \ {r}
       PROVE  ConsentSound(s)' /\ RowStands(s)'
  <2>1. ConsentSound(s) /\ RowStands(s)
    BY DEF IInv, RequestSound
  <2>2. ConsentSound(s)'
    BY <1>1, <1>8, <2>1 DEF ConsentSound, Storing, Wiping, At, Connected
  <2>3. RowStands(s)'
    BY <1>1, <1>8, <1>9, <1>11, <2>1 DEF RowStands
  <2> QED
    BY <2>2, <2>3
<1>13. linked \subseteq linked'
  BY RememberLinks DEF IInv
<1>14. RequestSound(r)'
  <2>1. ConsentSound(r)' /\ RowStands(r)'
    BY <1>1, <1>7, <1>8 DEF ConsentSound, Storing, Wiping, At, RowStands
  <2>2. KnownSound(r)'
    BY <1>1, <1>3, <1>7, <1>8 DEF KnownSound, Marked
  <2>3. UseSound(r)'
    BY <1>1, <1>3, <1>4, <1>7, <1>8, <1>13
       DEF UseSound, TokenSteps, Linked, OneAccount, row
  <2> QED
    BY <2>1, <2>2, <2>3 DEF RequestSound
<1>15. ASSUME NEW p \in Providers, tokens'[p] # NoToken
       PROVE  tokens'[p].access # None /\ (raced' \/ Linked(p, tokens[p])')
  <2>1. CASE p # "google_calendar"
    BY <1>1, <1>9, <1>13, <1>15, <2>1, RowTyped DEF Linked
  <2>2. CASE p = "google_calendar"
    <3>1. tokens'[p] = new /\ old # NoToken
      BY <1>9, <1>15, <2>2
    <3> QED
      BY <1>1, <1>4, <1>5, <1>6, <1>13, <2>2, <3>1 DEF Linked
  <2> QED
    BY <2>1, <2>2
<1>16. ~crossed' => \A p \in Providers : OneAccount(tokens'[p])
  <2> SUFFICES ASSUME ~crossed, NEW p \in Providers
               PROVE  OneAccount(tokens'[p])
    BY <1>1
  <2>1. CASE p # "google_calendar"
    BY <1>9, <2>1, RowTyped
  <2>2. CASE p = "google_calendar" /\ old # NoToken
    BY <1>4, <1>5, <1>6, <1>9, <2>2 DEF OneAccount
  <2>3. CASE p = "google_calendar" /\ old = NoToken
    BY <1>5, <1>9, <2>3
  <2> QED
    BY <2>1, <2>2, <2>3
<1>17. ConnectedHasToken'
  <2> SUFFICES ASSUME NEW p \in Providers, ~raced, ~(faults > 0),
                      \A s \in Requests :
                          ~(Storing(s, p)' \/ (p = "google_calendar" /\ Wiping(s)'))
               PROVE  Connected(p) <=> tokens'[p] # NoToken
    BY <1>1 DEF ConnectedHasToken, Connected
  <2>1. \A s \in Requests : ~(Storing(s, p) \/ (p = "google_calendar" /\ Wiping(s)))
    BY <1>1, <1>8 DEF Storing, Wiping, At
  <2> QED
    BY <1>9, <2>1 DEF IInv, RowsSound, ConnectedHasToken
<1> QED
  BY <1>1, <1>7, <1>10, <1>12, <1>14, <1>15, <1>16, <1>17, StoreStep

----------------------------------------------------------------------------
(* Tickets from events: steps that open and mark none *)

LEMMA MarkedAreNumbers ==
    ASSUME IInv
    PROVE  Marked \in SUBSET Nat /\ Marked \subseteq DOMAIN tickets
<1>1. Marked \subseteq DOMAIN tickets
  BY DEF Marked
<1>2. tickets \in Seq(Ticket)
  BY DEF IInv, TypeOK
<1>3. DOMAIN tickets \subseteq Nat
  BY <1>2
<1> QED
  BY <1>1, <1>3

LEMMA BeginIngestStep ==
    ASSUME IInv, NEW r \in Requests, NEW op \in {"rule", "ingest"}, BeginIngest(r, op),
           UNCHANGED linked
    PROVE  IInv'
<1> DEFINE q == [Idle EXCEPT !.op = op, !.at = "lookup", !.known = Marked]
<1>1. /\ request' = [request EXCEPT ![r] = q] /\ request[r] = Idle
      /\ begun < MaxRequests /\ begun' = begun + 1
      /\ UNCHANGED <<stores, faults, history, ingestVars>>
  BY DEF BeginIngest, CanBegin
<1>2. Quiet
  BY <1>1, OneMoreBegun, StillQuiet
<1>3. /\ q \in Request /\ q.at = "lookup" /\ q.op = op /\ q.known = Marked
      /\ q.for = "google_calendar"
  BY IdleTyped, MarkedAreNumbers DEF Request, Idle, Operations, Steps
<1> HIDE DEF q
<1>4. request'[r] = q
  BY <1>1 DEF IInv, TypeOK
<1>5. ConsentSound(r)' /\ UseSound(r)' /\ RowStands(r)'
  BY <1>3, <1>4 DEF ConsentSound, Storing, Wiping, At, UseSound, TokenSteps, RowStands
<1>6. KnownSound(r)'
  BY <1>2, <1>3, <1>4 DEF KnownSound, Quiet, Marked
<1>7. ~Owed(r)
  BY <1>1 DEF Owed, Idle
<1> QED
  BY <1>1, <1>2, <1>3, <1>5, <1>6, <1>7, QuietStep DEF RequestSound

\* A rule run that has something to report.
LEMMA Reports ==
    ASSUME IInv, NEW r \in Requests, NEW outcome \in Outcomes, Quiet,
           request' = [request EXCEPT ![r].at = "record", ![r].outcome = outcome],
           ~Owed(r)
    PROVE  IInv'
<1> DEFINE q == [request[r] EXCEPT !.at = "record", !.outcome = outcome]
<1>1. request[r] \in Request
  BY DEF IInv, TypeOK
<1>2. /\ q \in Request /\ q.at \in Free /\ q.op = request[r].op
      /\ q.confirmed = request[r].confirmed /\ q.known = request[r].known
      /\ q.for = request[r].for
  BY <1>1 DEF Request, Steps, Free
<1>3. request' = [request EXCEPT ![r] = q]
  BY <1>1
<1> HIDE DEF q
<1>4. UseSound(r) /\ KnownSound(r)
  BY DEF IInv, RequestSound
<1> QED
  BY <1>2, <1>3, <1>4, FreeStep DEF UseSound, KnownSound

LEMMA PickEventStep ==
    ASSUME IInv, NEW r \in Requests, PickEvent(r), UNCHANGED linked
    PROVE  IInv'
<1>1. Quiet
  BY SameCounts, StillQuiet DEF PickEvent
<1>2. request[r] \in Request /\ request[r].at = "call" /\ ~Owed(r)
  BY DEF PickEvent, Owed, IInv, TypeOK
<1>3. CASE Return(r)
  BY <1>1, <1>2, <1>3, Returns
<1>4. CASE request' = [request EXCEPT ![r].at = "record", ![r].outcome = "no match"]
  BY <1>1, <1>2, <1>4, Reports DEF Outcomes
<1>5. ASSUME NEW e \in Events, request[r].op \in {"rule", "ingest"},
             request' = [request EXCEPT
                 ![r].event = e,
                 ![r].at = IF request[r].op = "rule" THEN "known" ELSE "open"]
      PROVE  IInv'
  <2> DEFINE at == IF request[r].op = "rule" THEN "known" ELSE "open"
             q == [request[r] EXCEPT !.event = e, !.at = at]
  <2>1. /\ at \in {"known", "open"}
        /\ at = "known" <=> request[r].op = "rule"
    OBVIOUS
  <2>2. request' = [request EXCEPT ![r] = q]
    BY <1>2, <1>5
  <2> HIDE DEF at
  <2>3. /\ q \in Request /\ q.at = at /\ q.op = request[r].op /\ q.event = e
        /\ q.known = request[r].known /\ q.for = request[r].for
    BY <1>2, <2>1 DEF Request, Steps
  <2> HIDE DEF q
  <2>4. request'[r] = q
    BY <2>2 DEF IInv, TypeOK
  <2>5. UseSound(r) /\ KnownSound(r)
    BY DEF IInv, RequestSound
  <2>6. ConsentSound(r)' /\ UseSound(r)' /\ RowStands(r)'
    BY <1>5, <2>1, <2>3, <2>4, <2>5
       DEF ConsentSound, Storing, Wiping, At, UseSound, TokenSteps, RowStands
  <2>7. KnownSound(r)'
    BY <1>1, <1>5, <2>1, <2>3, <2>4, <2>5 DEF KnownSound, Quiet, Marked
  <2> QED
    BY <1>1, <1>2, <2>2, <2>3, <2>6, <2>7, QuietStep DEF RequestSound
<1> QED
  BY <1>3, <1>4, <1>5 DEF PickEvent

\* A run that goes on knows no marker of the event it picked.
LEMMA SkipKnownStep ==
    ASSUME IInv, NEW r \in Requests, SkipKnown(r), UNCHANGED linked
    PROVE  IInv'
<1>1. Quiet
  BY SameCounts, StillQuiet DEF SkipKnown
<1>2. request[r].op = "rule" /\ request[r].at = "known" /\ ~Owed(r)
  BY DEF SkipKnown, At, Owed
<1>3. CASE Report(r, "duplicate")
  BY <1>1, <1>2, <1>3, Reports DEF Report, Outcomes
<1>4. CASE Go(r, "open") /\ ~\E t \in Marked : tickets[t].event = request[r].event
  <2>1. /\ request'[r] \in Request
        /\ request' = [request EXCEPT ![r] = request'[r]]
        /\ request'[r].at = "open" /\ request'[r].op = request[r].op
        /\ request'[r].for = request[r].for
        /\ request'[r].known = request[r].known
        /\ request'[r].event = request[r].event
    BY <1>1, <1>2, <1>4, GoesOn DEF Steps
  <2>2. UseSound(r) /\ KnownSound(r)
    BY DEF IInv, RequestSound
  <2>3. ConsentSound(r)' /\ UseSound(r)' /\ RowStands(r)'
    BY <1>2, <2>1, <2>2
       DEF ConsentSound, Storing, Wiping, At, UseSound, TokenSteps, RowStands
  <2>4. KnownSound(r)'
    BY <1>1, <1>2, <1>4, <2>1, <2>2 DEF KnownSound, Quiet, Marked
  <2> QED
    BY <1>1, <1>2, <2>1, <2>3, <2>4, QuietStep DEF RequestSound
<1> QED
  BY <1>3, <1>4 DEF SkipKnown

LEMMA RecordRuleResultStep ==
    ASSUME IInv, NEW r \in Requests, RecordRuleResult(r), UNCHANGED linked
    PROVE  IInv'
<1>1. /\ UNCHANGED <<connectors, tokens, cookie, holds, begun, faults, raced, crossed,
                     tickets>>
      /\ rule' = request[r].outcome /\ request[r].at = "record" /\ Return(r)
  BY DEF RecordRuleResult, At, stores, history
<1>2. rule' \in Outcomes
  BY <1>1 DEF IInv, TypeOK, Request
<1>3. ~crossed => \A h \in holds : h.used = h.confirmed
  BY DEF IInv, RowsSound, ConfirmedAccountIsUsed
<1>4. begun' \in 0..MaxRequests /\ faults' \in 0..MaxFaults /\ faults <= faults'
  BY <1>1, SameCounts
<1>5. Quiet
  BY <1>1, <1>2, <1>3, <1>4 DEF Quiet, IInv, TypeOK
<1> QED
  BY <1>1, <1>5, Returns DEF Owed

LEMMA IngestFaultStep ==
    ASSUME IInv, NEW r \in Requests, IngestFault(r), UNCHANGED linked
    PROVE  IInv'
<1>1. Quiet /\ faults' > 0
  BY OneMoreFault, StillQuiet DEF IngestFault
<1>2. CASE request[r].op = "rule" /\ request[r].at = "known" /\ Go(r, "open")
  <2>1. /\ request'[r] \in Request
        /\ request' = [request EXCEPT ![r] = request'[r]]
        /\ request'[r].at = "open" /\ request'[r].op = request[r].op
        /\ request'[r].for = request[r].for
        /\ request'[r].known = request[r].known
        /\ request'[r].event = request[r].event
    BY <1>1, <1>2, GoesOn DEF Steps, Owed
  <2>2. UseSound(r) /\ KnownSound(r)
    BY DEF IInv, RequestSound
  <2>3. ConsentSound(r)' /\ UseSound(r)' /\ RowStands(r)'
    BY <1>2, <2>1, <2>2
       DEF ConsentSound, Storing, Wiping, At, UseSound, TokenSteps, RowStands
  <2>4. faults' # 0
    BY <1>1, FaultsGrow DEF IInv, Quiet
  <2>5. KnownSound(r)'
    BY <1>1, <1>2, <2>1, <2>2, <2>4 DEF KnownSound, Quiet, Marked
  <2> QED
    BY <1>1, <2>1, <2>3, <2>5, QuietStep DEF RequestSound
<1>3. CASE AfterMarker(r)
  <2>1. "record" \in Free
    BY DEF Free
  <2> QED
    BY <1>1, <1>3, <2>1, Returns, GoesFree DEF AfterMarker
<1>4. CASE GiveUp(r)
  BY <1>1, <1>4, GivesUp
<1> QED
  BY <1>2, <1>3, <1>4 DEF IngestFault, At

----------------------------------------------------------------------------
(* Steps that open a ticket or write its number 1 *)

\* Who has moved, if anybody, wrote no row.
LEMMA TicketStep ==
    ASSUME IInv, UNCHANGED <<stores, begun, faults, history, linked, rule>>,
           NEW moved \in SUBSET Requests,
           request' \in [Requests -> Request],
           \A s \in Requests \ moved : request'[s] = request[s],
           \A s \in moved : RequestSound(s)' /\ request[s].at \in {"open", "marker"},
           tickets' \in Seq(Ticket),
           DOMAIN tickets \subseteq DOMAIN tickets',
           \A t \in DOMAIN tickets : tickets'[t].event = tickets[t].event,
           Marked \subseteq Marked',
           TicketsSound'
    PROVE  IInv'
<1>1. UNCHANGED <<connectors, tokens, cookie, holds, raced, crossed>>
  BY DEF stores, history
<1>2. TypeOK'
  BY <1>1 DEF IInv, TypeOK
<1>3. Onward
  <2>1. linked' \subseteq Providers \X MaybeAccount
    BY DEF IInv, TypeOK
  <2>2. faults' \in 0..MaxFaults /\ faults <= faults'
    BY SameCounts
  <2> QED
    BY <1>1, <2>1, <2>2 DEF Onward
<1>4. ASSUME NEW s \in Requests \ moved
      PROVE  RequestSound(s)'
  <2>1. UseSound(s)' /\ KnownSound(s)'
    BY <1>3, OtherUse
  <2>2. ConsentSound(s) /\ RowStands(s)
    BY DEF IInv, RequestSound
  <2>3. ConsentSound(s)'
    BY <1>1, <2>2 DEF ConsentSound, Storing, Wiping, At, Connected
  <2>4. RowStands(s)'
    BY <1>1, <2>2 DEF RowStands
  <2> QED
    BY <2>1, <2>3, <2>4 DEF RequestSound
<1>5. RowsSound'
  <2>1. \A p \in Providers :
          tokens'[p] # NoToken =>
              tokens'[p].access # None /\ (raced' \/ Linked(p, tokens[p])')
    BY <1>1 DEF IInv, RowsSound, Linked
  <2>2. ConfirmedAccountIsUsed'
    BY <1>1 DEF IInv, RowsSound, ConfirmedAccountIsUsed
  <2>3. ConnectedHasToken'
    <3> SUFFICES ASSUME NEW p \in Providers, ~raced, ~(faults > 0),
                        \A s \in Requests :
                            ~(Storing(s, p)' \/ (p = "google_calendar" /\ Wiping(s)'))
                 PROVE  Connected(p) <=> tokens[p] # NoToken
      BY <1>1 DEF ConnectedHasToken, Connected
    <3>1. \A s \in Requests : ~(Storing(s, p) \/ (p = "google_calendar" /\ Wiping(s)))
      BY DEF Storing, Wiping, At
    <3> QED
      BY <3>1 DEF IInv, RowsSound, ConnectedHasToken
  <2> QED
    BY <2>1, <2>2, <2>3 DEF RowsSound
<1> QED
  BY <1>2, <1>4, <1>5 DEF IInv

LEMMA OpenTicketStep ==
    ASSUME IInv, NEW r \in Requests, OpenTicket(r), UNCHANGED linked
    PROVE  IInv'
<1> DEFINE n == Len(tickets) + 1
           new == [event |-> request[r].event, by |-> request[r].op,
                   first |-> "nothing", known |-> request[r].known]
           q == [request[r] EXCEPT !.at = "marker", !.outcome = "created",
                                   !.ticket = n]
<1>1. /\ request' = [request EXCEPT ![r] = q] /\ request[r].at = "open"
      /\ tickets' = Append(tickets, new)
      /\ UNCHANGED <<stores, begun, faults, history, rule>>
  BY DEF OpenTicket
<1>2. /\ request[r] \in Request /\ tickets \in Seq(Ticket)
      /\ RequestSound(r) /\ TicketsSound
  BY DEF IInv, TypeOK
<1>3. /\ request[r].event \in Events /\ request[r].op \in {"rule", "ingest"}
      /\ request[r].known \in SUBSET Nat /\ request[r].known \subseteq Marked
      /\ request[r].for = "google_calendar"
  BY <1>1, <1>2 DEF RequestSound, UseSound, KnownSound, Request
<1>4. new \in Ticket
  BY <1>3 DEF Ticket
<1>5. /\ n \in Nat
      /\ q \in Request /\ q.at = "marker" /\ q.op = request[r].op /\ q.ticket = n
      /\ q.known = request[r].known /\ q.for = request[r].for
  <2>1. n \in Nat
    BY <1>2
  <2> HIDE DEF n
  <2> QED
    BY <1>2, <2>1 DEF Request, Steps, Outcomes
<1>6. /\ new.event = request[r].event /\ new.by = request[r].op
      /\ new.first = "nothing" /\ new.known = request[r].known
  OBVIOUS
<1> HIDE DEF new, q
<1>7. /\ tickets' \in Seq(Ticket)
      /\ DOMAIN tickets' = DOMAIN tickets \union {n} /\ n \notin DOMAIN tickets
      /\ \A t \in DOMAIN tickets : tickets'[t] = tickets[t]
      /\ tickets'[n] = new
  <2>1. /\ tickets' \in Seq(Ticket) /\ Len(tickets') = n /\ tickets'[n] = new
        /\ \A t \in 1..Len(tickets) : tickets'[t] = tickets[t]
    BY <1>1, <1>2, <1>4, AppendProperties
  <2>2. DOMAIN tickets = 1..Len(tickets) /\ DOMAIN tickets' = 1..n /\ Len(tickets) \in Nat
    BY <1>2, <2>1
  <2> QED
    BY <2>1, <2>2
<1> HIDE DEF n
<1>8. Marked' = Marked
  BY <1>6, <1>7 DEF Marked
<1>9. /\ request'[r] = q /\ request' \in [Requests -> Request]
      /\ \A s \in Requests \ {r} : request'[s] = request[s]
  BY <1>1, <1>5 DEF IInv, TypeOK
<1>10. RequestSound(r)'
  <2>1. ConsentSound(r)' /\ UseSound(r)' /\ RowStands(r)'
    BY <1>3, <1>5, <1>9
       DEF ConsentSound, Storing, Wiping, At, UseSound, TokenSteps, RowStands
  <2>2. KnownSound(r)'
    BY <1>3, <1>5, <1>7, <1>8, <1>9 DEF KnownSound
  <2> QED
    BY <2>1, <2>2 DEF RequestSound
<1>11. TicketsSound'
  <2>1. \A t \in DOMAIN tickets' : tickets'[t].known \subseteq Marked'
    BY <1>2, <1>3, <1>6, <1>7, <1>8 DEF TicketsSound
  <2>2. ASSUME faults = 0, NEW t \in DOMAIN tickets
        PROVE  /\ tickets'[t].by = "rule" =>
                     \A k \in tickets'[t].known : tickets'[k].event # tickets'[t].event
               /\ tickets'[t].first = "nothing" =>
                     \E s \in Requests : /\ request'[s].at = "marker"
                                         /\ request'[s].ticket = t
    <3>1. tickets[t].known \subseteq DOMAIN tickets
      BY <1>2 DEF TicketsSound, Marked
    <3> QED
      BY <1>1, <1>2, <1>7, <1>9, <2>2, <3>1 DEF TicketsSound, MarkersTell
  <2>3. ASSUME faults = 0
        PROVE  /\ tickets'[n].by = "rule" =>
                     \A k \in tickets'[n].known : tickets'[k].event # tickets'[n].event
               /\ \E s \in Requests : request'[s].at = "marker" /\ request'[s].ticket = n
    <3>1. request[r].known \subseteq DOMAIN tickets
      BY <1>3 DEF Marked
    <3>2. request[r].op = "rule" =>
             \A k \in request[r].known : tickets[k].event # request[r].event
      BY <1>1, <1>2, <2>3 DEF RequestSound, KnownSound
    <3> QED
      BY <1>5, <1>6, <1>7, <1>9, <3>1, <3>2
  <2>4. faults' = faults
    BY <1>1
  <2>5. MarkersTell'
    <3> SUFFICES ASSUME faults = 0, NEW t \in DOMAIN tickets'
                 PROVE  /\ tickets'[t].by = "rule" =>
                              \A k \in tickets'[t].known : tickets'[k].event # tickets'[t].event
                        /\ tickets'[t].first = "nothing" =>
                              \E s \in Requests : /\ request'[s].at = "marker"
                                                  /\ request'[s].ticket = t
      BY <2>4 DEF MarkersTell
    <3>1. CASE t \in DOMAIN tickets
      BY <2>2, <3>1
    <3>2. CASE t = n
      BY <2>3, <3>2
    <3> QED
      BY <1>7, <3>1, <3>2
  <2> QED
    BY <2>1, <2>5 DEF TicketsSound
<1> DEFINE moved == {r}
<1>12. /\ moved \in SUBSET Requests
       /\ \A s \in moved : RequestSound(s)' /\ request[s].at \in {"open", "marker"}
       /\ \A s \in Requests \ moved : request'[s] = request[s]
  BY <1>1, <1>9, <1>10
<1>13. /\ DOMAIN tickets \subseteq DOMAIN tickets' /\ Marked \subseteq Marked'
       /\ \A t \in DOMAIN tickets : tickets'[t].event = tickets[t].event
  BY <1>7, <1>8
<1> HIDE DEF moved
<1> QED
  BY <1>1, <1>7, <1>9, <1>11, <1>12, <1>13, TicketStep

\* What a write at number 1 of ticket n leaves alone.
LEMMA WriteFirst ==
    ASSUME IInv, NEW n \in DOMAIN tickets, NEW first \in {"nothing", "marker", "other"},
           first = "marker" \/ tickets[n].first # "marker",
           tickets' = [tickets EXCEPT ![n].first = first]
    PROVE  /\ tickets' \in Seq(Ticket) /\ DOMAIN tickets' = DOMAIN tickets
           /\ \A t \in DOMAIN tickets : /\ tickets'[t].event = tickets[t].event
                                        /\ tickets'[t].by = tickets[t].by
                                        /\ tickets'[t].known = tickets[t].known
           /\ \A t \in DOMAIN tickets \ {n} : tickets'[t].first = tickets[t].first
           /\ tickets'[n].first = first
           /\ Marked \subseteq Marked'
<1> DEFINE new == [tickets[n] EXCEPT !.first = first]
<1>1. tickets \in Seq(Ticket) /\ tickets[n] \in Ticket
  <2>1. tickets \in Seq(Ticket)
    BY DEF IInv, TypeOK
  <2> QED
    BY <2>1
<1>2. /\ new \in Ticket /\ new.first = first
      /\ new.event = tickets[n].event /\ new.by = tickets[n].by
      /\ new.known = tickets[n].known
  BY <1>1 DEF Ticket
<1>3. tickets' = [tickets EXCEPT ![n] = new]
  OBVIOUS
<1> HIDE DEF new
<1>4. tickets' \in Seq(Ticket)
  BY <1>1, <1>2, <1>3, ExceptSeq
<1>5. DOMAIN tickets' = DOMAIN tickets /\ tickets'[n] = new
  BY <1>1, <1>3
<1>6. \A t \in DOMAIN tickets \ {n} : tickets'[t] = tickets[t]
  BY <1>1, <1>3
<1>7. Marked \subseteq Marked'
  BY <1>2, <1>5, <1>6 DEF Marked
<1> QED
  BY <1>2, <1>4, <1>5, <1>6, <1>7

\* Nobody loses sight of a marker it knew, and a ticket without one keeps the
\* request that is about to write it.
LEMMA WrittenSound ==
    ASSUME IInv, NEW n \in DOMAIN tickets, NEW first \in {"nothing", "marker", "other"},
           first # "nothing",
           first = "marker" \/ tickets[n].first # "marker",
           tickets' = [tickets EXCEPT ![n].first = first],
           UNCHANGED faults,
           \A s \in Requests : \/ request'[s] = request[s]
                               \/ request[s].at = "marker" /\ request[s].ticket = n
    PROVE  TicketsSound'
<1>1. TicketsSound
  BY DEF IInv
<1>2. \A t \in DOMAIN tickets' : tickets'[t].known \subseteq Marked'
  BY <1>1, WriteFirst DEF TicketsSound
<1>3. ASSUME faults = 0, NEW t \in DOMAIN tickets
      PROVE  /\ tickets'[t].by = "rule" =>
                   \A k \in tickets'[t].known : tickets'[k].event # tickets'[t].event
             /\ tickets'[t].first = "nothing" =>
                   \E s \in Requests : request'[s].at = "marker" /\ request'[s].ticket = t
  <2>1. tickets[t].known \subseteq DOMAIN tickets
    BY <1>1 DEF TicketsSound, Marked
  <2>2. ASSUME tickets'[t].first = "nothing"
        PROVE  \E s \in Requests : request'[s].at = "marker" /\ request'[s].ticket = t
    <3>1. t # n /\ tickets[t].first = "nothing"
      BY <2>2, WriteFirst
    <3>2. PICK s \in Requests : request[s].at = "marker" /\ request[s].ticket = t
      BY <1>1, <1>3, <3>1 DEF TicketsSound, MarkersTell
    <3>3. request'[s] = request[s]
      BY <3>1, <3>2
    <3> QED
      BY <3>2, <3>3
  <2>3. tickets[t].by = "rule" =>
           \A k \in tickets[t].known : tickets[k].event # tickets[t].event
    BY <1>1, <1>3 DEF TicketsSound, MarkersTell
  <2> QED
    BY <2>1, <2>2, <2>3, WriteFirst
<1>4. MarkersTell'
  BY <1>3, WriteFirst DEF MarkersTell
<1> QED
  BY <1>2, <1>4 DEF TicketsSound

LEMMA InsertMarkerStep ==
    ASSUME IInv, NEW r \in Requests, InsertMarker(r), UNCHANGED linked
    PROVE  IInv'
<1> DEFINE n == request[r].ticket
           first == IF tickets[n].first = "nothing" THEN "marker" ELSE tickets[n].first
           moved == {r}
<1>1. /\ request[r].at = "marker" /\ AfterMarker(r)
      /\ tickets' = [tickets EXCEPT ![n].first = first]
      /\ UNCHANGED <<stores, begun, faults, history, rule>>
  BY DEF InsertMarker
<1>2. /\ request[r] \in Request /\ RequestSound(r) /\ n \in DOMAIN tickets
  BY <1>1 DEF IInv, TypeOK, RequestSound, KnownSound
<1>3. tickets[n] \in Ticket
  <2>1. tickets \in Seq(Ticket)
    BY DEF IInv, TypeOK
  <2> QED
    BY <1>2, <2>1
<1>4. /\ first \in {"nothing", "marker", "other"} /\ first # "nothing"
      /\ first = "marker" \/ tickets[n].first # "marker"
  BY <1>3 DEF Ticket
<1> HIDE DEF first
<1> DEFINE q == [request[r] EXCEPT !.at = "record"]
<1>5. /\ q \in Request /\ q.at = "record" /\ q.op = request[r].op
      /\ q.confirmed = request[r].confirmed /\ q.known = request[r].known
      /\ q.for = request[r].for
  BY <1>2 DEF Request, Steps
<1> HIDE DEF q
<1>6. /\ request' \in [Requests -> Request]
      /\ \A s \in Requests \ {r} : request'[s] = request[s]
      /\ request'[r] = Idle \/ request'[r] = q
  <2>1. Return(r) \/ request' = [request EXCEPT ![r] = q]
    BY <1>1 DEF AfterMarker, Go, q
  <2> QED
    BY <1>5, <2>1, IdleTyped DEF Return, IInv, TypeOK
<1>7. Marked \subseteq Marked'
  BY <1>1, <1>2, <1>4, WriteFirst
<1>8. RequestSound(r)'
  <2>1. CASE request'[r] = Idle
    BY <2>1, NothingInHand DEF Idle, Free, None
  <2>2. CASE request'[r] = q
    BY <1>2, <1>5, <1>7, <2>2, NothingInHand
       DEF RequestSound, UseSound, KnownSound, Free
  <2> QED
    BY <1>6, <2>1, <2>2
<1>9. TicketsSound'
  <2>1. faults' = faults
    BY <1>1
  <2>2. \A s \in Requests : \/ request'[s] = request[s]
                            \/ request[s].at = "marker" /\ request[s].ticket = n
    BY <1>1, <1>6
  <2> HIDE DEF n
  <2> QED
    BY <1>1, <1>2, <1>4, <2>1, <2>2, WrittenSound
<1>10. /\ moved \in SUBSET Requests
       /\ \A s \in moved : RequestSound(s)' /\ request[s].at \in {"open", "marker"}
       /\ \A s \in Requests \ moved : request'[s] = request[s]
  BY <1>1, <1>6, <1>8
<1>11. /\ tickets' \in Seq(Ticket) /\ DOMAIN tickets' = DOMAIN tickets
       /\ \A t \in DOMAIN tickets : tickets'[t].event = tickets[t].event
  BY <1>1, <1>2, <1>4, WriteFirst
<1> HIDE DEF moved, n
<1> QED
  BY <1>1, <1>6, <1>7, <1>9, <1>10, <1>11, TicketStep

LEMMA WorkOnStep ==
    ASSUME IInv, NEW t \in DOMAIN tickets, WorkOn(t)
    PROVE  IInv'
<1>1. /\ tickets[t].first = "nothing"
      /\ tickets' = [tickets EXCEPT ![t].first = "other"]
      /\ UNCHANGED <<stores, begun, faults, history, linked, rule, request>>
  BY DEF WorkOn, connectorVars
<1>2. TicketsSound'
  <2>1. faults' = faults /\ \A s \in Requests : request'[s] = request[s]
    BY <1>1
  <2> QED
    BY <1>1, <2>1, WrittenSound
<1>3. /\ tickets' \in Seq(Ticket) /\ DOMAIN tickets' = DOMAIN tickets
      /\ \A k \in DOMAIN tickets : tickets'[k].event = tickets[k].event
      /\ Marked \subseteq Marked'
  BY <1>1, WriteFirst
<1> DEFINE moved == {}
<1>4. /\ moved \in SUBSET Requests
      /\ \A s \in moved : RequestSound(s)' /\ request[s].at \in {"open", "marker"}
      /\ \A s \in Requests \ moved : request'[s] = request[s]
      /\ request' \in [Requests -> Request]
  BY <1>1 DEF IInv, TypeOK
<1> HIDE DEF moved
<1> QED
  BY <1>1, <1>2, <1>3, <1>4, TicketStep

\* A step that writes at most the rule's row.
LEMMA RuleStep ==
    ASSUME IInv,
           UNCHANGED <<connectors, tokens, cookie, request, holds, begun, faults, raced,
                       crossed, linked, tickets>>,
           rule' \in Outcomes \union {"none", "never run"}
    PROVE  IInv'
<1>1. TypeOK'
  BY DEF IInv, TypeOK
<1>2. RowsSound'
  BY DEF IInv, RowsSound, Linked, ConfirmedAccountIsUsed, ConnectedHasToken,
         Connected, Storing, Wiping, At
<1>3. TicketsSound'
  <2>1. \A t \in DOMAIN tickets' : tickets'[t].known \subseteq Marked'
    BY DEF IInv, TicketsSound, Marked
  <2>2. MarkersTell'
    BY DEF IInv, TicketsSound, MarkersTell
  <2> QED
    BY <2>1, <2>2 DEF TicketsSound
<1>4. ASSUME NEW r \in Requests
      PROVE  RequestSound(r)'
  <2>1. ConsentSound(r)'
    BY DEF IInv, RequestSound, ConsentSound, Connected, Storing, Wiping, At
  <2>2. UseSound(r)' /\ RowStands(r)' /\ KnownSound(r)'
    BY DEF IInv, RequestSound, UseSound, Linked, RowStands, KnownSound, Marked
  <2> QED
    BY <2>1, <2>2 DEF RequestSound
<1> QED
  BY <1>1, <1>2, <1>3, <1>4 DEF IInv

----------------------------------------------------------------------------
(* The invariant *)

LEMMA Initially == Init => IInv
<1> SUFFICES ASSUME Init PROVE IInv
  OBVIOUS
<1>1. /\ connectors = [p \in Providers |-> [status |-> "none", scopes |-> {}]]
      /\ tokens = [p \in Providers |-> NoToken] /\ cookie = None
      /\ request = [r \in Requests |-> Idle] /\ holds = {}
      /\ begun = 0 /\ faults = 0 /\ raced = FALSE /\ crossed = FALSE /\ linked = {}
      /\ tickets = <<>> /\ rule = "none"
  BY DEF Init, InitConnectors
<1>2. TypeOK
  <2>1. 0 \in 0..MaxRequests /\ 0 \in 0..MaxFaults
    BY ConnectorsAssumption
  <2>2. <<>> \in Seq(Ticket)
    OBVIOUS
  <2>3. NoToken \in TokenRow
    BY DEF NoToken, TokenRow, MaybeAccount
  <2> QED
    BY <1>1, <2>1, <2>2, <2>3, IdleTyped DEF TypeOK, Statuses
<1>3. RowsSound
  BY <1>1 DEF RowsSound, ConfirmedAccountIsUsed, ConnectedHasToken, Connected, NoToken
<1>4. TicketsSound
  BY <1>1 DEF TicketsSound, MarkersTell
<1>5. ASSUME NEW r \in Requests
      PROVE  RequestSound(r)
  <2>1. /\ request[r].at = "idle" /\ request[r].op = None /\ request[r].known = {}
        /\ request[r].for = "google_calendar"
    BY <1>1 DEF Idle
  <2>2. ConsentSound(r) /\ UseSound(r) /\ RowStands(r) /\ KnownSound(r)
    BY <2>1 DEF ConsentSound, Storing, Wiping, At, UseSound, TokenSteps, RowStands,
                KnownSound, None
  <2> QED
    BY <2>2 DEF RequestSound
<1> QED
  BY <1>2, <1>3, <1>4, <1>5 DEF IInv

LEMMA Inductive == IInv /\ [Next]_vars => IInv'
<1> SUFFICES ASSUME IInv, [Next]_vars PROVE IInv'
  OBVIOUS
<1>1. ASSUME NEW r \in Requests, ConnectorStep(r), Remember, UNCHANGED ingestVars
      PROVE  IInv'
  <2>1. CASE Start(r) \/ CallbackFails(r) \/ Exchange(r)
    BY <1>1, <2>1, StartStep, CallbackFailsStep, ExchangeStep
  <2>2. CASE StoreConnector(r) \/ StoreToken(r)
    BY <1>1, <2>2, StoreConnectorStep, StoreTokenStep
  <2>3. CASE Disconnect(r) \/ WipeToken(r)
    BY <1>1, <2>3, DisconnectStep, WipeTokenStep
  <2>4. CASE GetConnectorAccessToken(r)
    BY <1>1, <2>4, LookupConnectorStep, ReadRowStep, RefreshStep, PersistStep
       DEF GetConnectorAccessToken
  <2>5. CASE ViewEvents(r)
    BY <1>1, <2>5, ViewEventsStep
  <2>6. CASE CreateHold(r)
    BY <1>1, <2>6, HoldPanelStep, HoldChecksConnectorStep, HoldChecksAccountStep,
       WriteHoldStep DEF CreateHold
  <2>7. CASE ResolveGoogleToken(r) \/ ToolCalls(r) \/ Fault(r)
    BY <1>1, <2>7, ResolveGoogleTokenStep, ToolCallsStep, FaultStep
  <2> QED
    BY <1>1, <2>1, <2>2, <2>3, <2>4, <2>5, <2>6, <2>7 DEF ConnectorStep
<1>2. ASSUME NEW r \in Requests, IngestStep(r), UNCHANGED linked
      PROVE  IInv'
  <2>1. CASE BeginIngest(r, "rule") \/ BeginIngest(r, "ingest")
    BY <1>2, <2>1, BeginIngestStep
  <2>2. CASE PickEvent(r) \/ SkipKnown(r)
    BY <1>2, <2>2, PickEventStep, SkipKnownStep
  <2>3. CASE OpenTicket(r) \/ InsertMarker(r)
    BY <1>2, <2>3, OpenTicketStep, InsertMarkerStep
  <2>4. CASE RecordRuleResult(r) \/ IngestFault(r)
    BY <1>2, <2>4, RecordRuleResultStep, IngestFaultStep
  <2> QED
    BY <1>2, <2>1, <2>2, <2>3, <2>4 DEF IngestStep
<1>3. CASE CreateAutomationRule
  BY <1>3, RuleStep DEF CreateAutomationRule, connectorVars, stores, history
<1>4. ASSUME NEW t \in DOMAIN tickets, WorkOn(t)
      PROVE  IInv'
  BY <1>4, WorkOnStep
<1>5. CASE UNCHANGED vars
  <2>1. rule \in Outcomes \union {"none", "never run"}
    BY DEF IInv, TypeOK
  <2> QED
    BY <1>5, <2>1, RuleStep DEF vars, ingestVars, connectorVars, stores, history
<1> QED
  BY <1>1, <1>2, <1>3, <1>4, <1>5 DEF Next

LEMMA Invariant == Spec => []IInv
BY Initially, Inductive, PTL DEF Spec

\* Every row, request and ticket keeps its type, whatever the requests do.
THEOREM CalendarTypeCorrect == Spec => []TypeOK
<1>1. IInv => TypeOK
  BY DEF IInv
<1> QED
  BY <1>1, Invariant, PTL

\* Connector row and token row of a provider come and go together, but for the
\* two calls of a consent and of disconnectGoogleCalendar.
THEOREM ConnectedRowsHaveTokens == Spec => []ConnectedHasToken
<1>1. IInv => ConnectedHasToken
  BY DEF IInv, RowsSound
<1> QED
  BY <1>1, Invariant, PTL

\* getConnectorAccessToken and resolveGoogleToken hand out no token of an
\* account that the provider has never been connected to.
THEOREM UsedTokensWereLinked == Spec => []UsedWasLinked
<1>1. IInv => UsedWasLinked
  BY DEF IInv, RequestSound, UseSound, TokenSteps, Linked, UsedWasLinked
<1> QED
  BY <1>1, Invariant, PTL

\* createCalendarHoldForTicket writes to the account the member confirmed
\* unless a consent replaced the row meanwhile.
THEOREM HoldsGoWhereConfirmed == Spec => []ConfirmedAccountIsUsed
<1>1. IInv => ConfirmedAccountIsUsed
  BY DEF IInv, RowsSound
<1> QED
  BY <1>1, Invariant, PTL

\* runAutomationRuleNow opens no ticket for an event whose marker it could
\* see, and no ticket stays unmarked with nobody about to mark it.
THEOREM MarkersTellOrigins == Spec => []MarkersTell
<1>1. IInv => MarkersTell
  BY DEF IInv, TicketsSound
<1> QED
  BY <1>1, Invariant, PTL

=============================================================================
