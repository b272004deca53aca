---------------------------- MODULE CalendarIngest ----------------------------
(***************************************************************************)
(* Tickets out of calendar events: the confirmed ingest of                 *)
(* createBriefFromCalendarEvent and the automation rule of                 *)
(* runAutomationRuleNow, on top of the connector they read events with.    *)
(* Neither holds a lock: a rule decides whether an event is a duplicate by *)
(* the marker rows it can see, and opens its own ticket two calls later.   *)
(***************************************************************************)
EXTENDS Connectors, Sequences

CONSTANT MaxTickets   \* bound: tickets opened in one behaviour
ASSUME TicketsAssumption == MaxTickets \in Nat

VARIABLES
    tickets,   \* tickets opened from events, with what stands at their number 1
    rule       \* the rule's last_result; "none" while there is no rule

ingestVars == <<tickets, rule>>
vars == <<connectorVars, ingestVars>>

Ticket == [event : Events, by : {"rule", "ingest"},
           first : {"nothing", "marker", "other"}, known : SUBSET Nat]

Init ==
    /\ InitConnectors
    /\ tickets = <<>>
    /\ rule = "none"

\* Tickets with a brief_ingested row on their trace.
Marked == {t \in DOMAIN tickets : tickets[t].first = "marker"}

\* createAutomationRule: any connector row will do, connected or not.
CreateAutomationRule ==
    /\ rule = "none"
    /\ connectors["google_calendar"].status # "none"
    /\ rule' = "never run"
    /\ UNCHANGED <<connectorVars, tickets>>

\* Rule, workspace and connector status are read, and nothing begins without.
BeginIngest(r, op) ==
    /\ CanBegin(r, op)
    /\ Connected("google_calendar")
    /\ op = "rule" => rule # "none"
    /\ request' = [request EXCEPT ![r] = [Idle EXCEPT !.op = op, !.at = "lookup",
                                                      !.known = Marked]]
    /\ begun' = begun + 1
    /\ UNCHANGED <<stores, faults, history, ingestVars>>

\* The rule's first match among the upcoming events, if there is one; or the
\* event the member has previewed, if Google still has it.
PickEvent(r) ==
    /\ request[r].at = "call"
    /\ \/ At(r, "ingest", "call") /\ Return(r)
       \/ /\ At(r, "rule", "call")
          /\ request' = [request EXCEPT ![r].at = "record", ![r].outcome = "no match"]
       \/ \E e \in Events :
             /\ request[r].op \in {"rule", "ingest"}
             /\ request' = [request EXCEPT
                   ![r].event = e,
                   ![r].at = IF request[r].op = "rule" THEN "known" ELSE "open"]
    /\ UNCHANGED <<stores, begun, faults, history, ingestVars>>

Report(r, outcome) ==
    request' = [request EXCEPT ![r].at = "record", ![r].outcome = outcome]

\* Mutation: only the markers of the rule's own tickets are looked for.
SkipKnownOwn_Mut(r) ==
    /\ At(r, "rule", "known")
    /\ IF \E t \in Marked : tickets[t].event = request[r].event /\ tickets[t].by = "rule"
       THEN Report(r, "duplicate") ELSE Go(r, "open")
    /\ UNCHANGED <<stores, begun, faults, history, ingestVars>>

\* A marker row of the event anywhere in the workspace ends the run.
SkipKnown(r) ==
    /\ At(r, "rule", "known")
    /\ IF \E t \in Marked : tickets[t].event = request[r].event
       THEN Report(r, "duplicate") ELSE Go(r, "open")
    /\ UNCHANGED <<stores, begun, faults, history, ingestVars>>

\* Brief and ticket; an error of either insert is what the rule records.
OpenTicket(r) ==
    /\ request[r].at = "open"
    /\ Len(tickets) < MaxTickets
    /\ tickets' = Append(tickets, [event |-> request[r].event, by |-> request[r].op,
                                   first |-> "nothing", known |-> request[r].known])
    /\ request' = [request EXCEPT ![r].at = "marker", ![r].outcome = "created",
                                  ![r].ticket = Len(tickets) + 1]
    /\ UNCHANGED <<stores, begun, faults, history, rule>>

\* What follows the marker: the rule's result, or the redirect.
AfterMarker(r) == IF request[r].op = "rule" THEN Go(r, "record") ELSE Return(r)

\* The marker at number 1: if somebody has worked on the ticket meanwhile the
\* number is taken, and the error is not looked at.
InsertMarker(r) ==
    /\ request[r].at = "marker"
    /\ tickets' = [tickets EXCEPT ![request[r].ticket].first =
                      IF @ = "nothing" THEN "marker" ELSE @]
    /\ AfterMarker(r)
    /\ UNCHANGED <<stores, begun, faults, history, rule>>

\* Another action on a new ticket: its first event takes number 1.
WorkOn(t) ==
    /\ tickets[t].first = "nothing"
    /\ tickets' = [tickets EXCEPT ![t].first = "other"]
    /\ UNCHANGED <<connectorVars, rule>>

\* recordRuleResult
RecordRuleResult(r) ==
    /\ At(r, "rule", "record")
    /\ rule' = request[r].outcome
    /\ Return(r)
    /\ UNCHANGED <<stores, begun, faults, history, tickets>>

\* Errors that are not looked at: an unreadable marker counts as none, a failed
\* insert of one changes nothing; and an insert of brief or ticket that fails.
IngestFault(r) ==
    /\ faults < MaxFaults
    /\ faults' = faults + 1
    /\ \/ At(r, "rule", "known") /\ Go(r, "open")
       \/ request[r].at = "marker" /\ AfterMarker(r)
       \/ request[r].at = "open" /\ GiveUp(r)
    /\ UNCHANGED <<stores, begun, history, ingestVars>>

IngestStep(r) ==
    \/ BeginIngest(r, "rule") \/ BeginIngest(r, "ingest")
    \/ PickEvent(r) \/ SkipKnown(r) \/ OpenTicket(r) \/ InsertMarker(r)
    \/ RecordRuleResult(r) \/ IngestFault(r)

Next ==
    \/ \E r \in Requests : ConnectorStep(r) /\ Remember /\ UNCHANGED ingestVars
    \/ \E r \in Requests : IngestStep(r) /\ UNCHANGED linked
    \/ CreateAutomationRule
    \/ \E t \in DOMAIN tickets : WorkOn(t)

Spec == Init /\ [][Next]_vars

=============================================================================
