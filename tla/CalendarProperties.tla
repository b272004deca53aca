-------------------------- MODULE CalendarProperties --------------------------
(***************************************************************************)
(* What the connector rows and the tickets made from calendar events       *)
(* promise, whatever the requests interleave with.                         *)
(***************************************************************************)
EXTENDS CalendarIngest

\* Types of the rows, the requests and the history.
TypeOK ==
    /\ connectors \in [Providers -> [status : Statuses, scopes : SUBSET Scopes]]
    /\ tokens \in [Providers -> TokenRow]
    /\ cookie \in Requests \union {None}
    /\ request \in [Requests -> Request]
    /\ holds \subseteq [confirmed : MaybeAccount, used : MaybeAccount]
    /\ begun \in 0..MaxRequests /\ faults \in 0..MaxFaults
    /\ raced \in BOOLEAN /\ crossed \in BOOLEAN
    /\ linked \subseteq Providers \X MaybeAccount
    /\ tickets \in Seq(Ticket)
    /\ rule \in Outcomes \union {"none", "never run"}

\* A provider is marked connected exactly when it has a token row, but for a
\* request between its two calls on the two tables.  Refreshes, which write
\* the token row knowing nothing of the connector row, do not disturb that; a
\* consent and a disconnect half-way at the same time, or a fault, may.
ConnectedHasToken ==
    \A p \in Providers :
        \/ Connected(p) <=> tokens[p] # NoToken
        \/ raced \/ faults > 0
        \/ \E r \in Requests : Storing(r, p) \/ (p = "google_calendar" /\ Wiping(r))

\* A request calls Google only with the token of an account the provider was
\* connected to at some moment, by its access or its refresh token.  For the
\* runtime, which reads status and token in one statement, that is so whatever
\* it interleaves with.
UsedWasLinked ==
    \A r \in Requests :
        request[r].at = "call" =>
            \/ <<request[r].for, request[r].row.access>> \in linked
            \/ request[r].op # "tool" /\ raced

\* The account a member is shown, the one the access token opens and the one
\* that is refreshed are the same, and a hold is written to the account the
\* member confirmed, although three reads of two requests lie between, unless a
\* new consent replaced the row under a request that was using it.
ConfirmedAccountIsUsed ==
    \/ crossed
    \/ /\ \A p \in Providers :
             /\ tokens[p].email \in {tokens[p].access, None}
             /\ tokens[p].refresh \in {tokens[p].access, None}
       /\ \A h \in holds : h.used = h.confirmed

\* connectors.ts:298, "verify the user confirmed against the correct account
\* before issuing the write": a hold is on the calendar the member confirmed.
HoldOnConfirmedAccount == \A h \in holds : h.used = h.confirmed

\* A marker tells where a ticket came from.  A rule run opens no second ticket
\* for an event whose marker was on record when the run began, whoever put it
\* there; and a ticket without a marker is about to get it, or somebody who
\* worked on it first has taken the number.  Only a call that fails, the read
\* of the markers for one, whose error is not looked at, can make it otherwise.
MarkersTell ==
    faults = 0 =>
        \A t \in DOMAIN tickets :
            /\ tickets[t].by = "rule" =>
                  \A k \in tickets[t].known : tickets[k].event # tickets[t].event
            /\ tickets[t].first = "nothing" =>
                  \E r \in Requests : request[r].at = "marker" /\ request[r].ticket = t

=============================================================================
