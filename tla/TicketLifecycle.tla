-------------------------- MODULE TicketLifecycle --------------------------
(***************************************************************************)
(* One ticket of the web app and the server actions that work on it        *)
(* (app/src/app/actions/orchestration.ts, and the calendar hold and the    *)
(* calendar ingest of actions/connectors.ts).                              *)
(*                                                                         *)
(* A server action is a sequence of separate Supabase calls: no            *)
(* transaction spans two of them, so several browser tabs or members       *)
(* interleave between any two calls, and a call that errors or a server    *)
(* that dies leaves what was already written.  Each step below is one      *)
(* such call, or an adjacent group of calls that commutes with every other *)
(* action's steps: two reads of rows that are only ever inserted, a read   *)
(* next to the insert of a workflow_runs row that no action reads.  The    *)
(* only serialisation in the schema is unique (ticket_id, seq) on          *)
(* trace_events.                                                           *)
(***************************************************************************)
EXTENDS Integers, Sequences, FiniteSets

CONSTANTS
    Calls,      \* server-action invocations that may be in flight at once
    Ops,        \* the operations the users run, a subset of Operations
    MaxCalls,   \* bound: invocations begun in one behaviour
    MaxFaults   \* bound: database errors and server deaths in one behaviour

Operations == {"classify", "injectFailure", "injectLoop", "requestInput",
               "submitResponse", "reopen", "hold", "specialist", "qa",
               "calendarHold", "ingest"}

ASSUME OpsAssumption == Ops \subseteq Operations
ASSUME BoundsAssumption == MaxCalls \in Nat /\ MaxFaults \in Nat

VARIABLES
    ticket,     \* the tickets row: status, failure_type, loop_signature
    trace,      \* trace_events rows of the ticket
    packets,    \* packets rows in created_at order; the index is the id
    artifacts,  \* number of artifacts rows
    holds,      \* calendar events created at the provider
    openRuns,   \* orchestrator workflow_runs rows left in 'running'
    call,       \* what each invocation has read so far, and where it stands
    started,    \* invocations begun, up to MaxCalls
    faults      \* faults spent, up to MaxFaults

db == <<ticket, trace, packets, artifacts, holds, openRuns>>
bounds == <<started, faults>>
vars == <<db, call, bounds>>

Statuses == {"open", "in_progress", "done", "failed", "looped", "needs_input"}

\* "model_error" stands for whichever kind the model provider's error has; the
\* injector writes "execution_error", the loop simulator "timeout".
FailureTypes == {"model_error", "execution_error", "timeout"}
Notes == FailureTypes \union {"none", "pass", "fail"}

EventTypes == {"orchestrator.classified", "orchestrator.failed",
               "failure.injected", "input.requested", "input.responded",
               "recovery.requested", "recovery.hold_requested",
               "loop.iteration.detected", "loop.terminated",
               "coordinator.routed", "specialist.artifact.created",
               "qa.validated", "truth.verdict.recorded",
               "tool.calendar_hold.created", "brief_ingested"}

\* Which event a packet of each kind is linked to by trace_event_id.
EventsOf == [handoff  |-> {"orchestrator.classified"},
             failure  |-> {"orchestrator.failed", "failure.injected",
                           "loop.terminated"},
             question |-> {"input.requested"},
             response |-> {"input.responded"},
             recovery |-> {"recovery.requested", "recovery.hold_requested"},
             artifact |-> {"specialist.artifact.created"},
             qa       |-> {"qa.validated"},
             truth    |-> {"truth.verdict.recorded"},
             tool     |-> {"tool.calendar_hold.created"}]

Kinds == DOMAIN EventsOf

Event == [seq : Nat \ {0}, type : EventTypes, note : Notes]
Packet == [kind : Kinds, event : Nat, ref : Nat, note : Notes]

Steps == {"idle", "check", "run", "model", "event", "event2", "event3",
          "artifact", "packet", "ticket", "failEvent", "failPacket",
          "failTicket", "write", "events", "evidence", "qaCheck",
          "truthCheck", "qaEvent", "qaPacket", "verdict", "truthEvent",
          "truthPacket"}

\* The locals of an invocation: status is the ticket row it read, seq the
\* sequence number it will insert next, link the event its packet will name,
\* ref a packet id, note the QA result, skip "the truth event exists".
Call == [op : Operations \union {"none"}, at : Steps, status : Statuses,
         seq : Nat, link : Nat, ref : Nat, note : Notes, skip : BOOLEAN]

Idle == [op |-> "none", at |-> "idle", status |-> "open", seq |-> 0,
         link |-> 0, ref |-> 0, note |-> "none", skip |-> FALSE]

Init ==
    /\ ticket = [status |-> "open", failureType |-> "none", sig |-> FALSE]
    /\ trace = {}
    /\ packets = <<>>
    /\ artifacts = 0
    /\ holds = 0
    /\ openRuns = 0
    /\ call = [c \in Calls |-> Idle]
    /\ started = 0
    /\ faults = 0

----------------------------------------------------------------------------
(* What the actions read. *)

Seqs == {e.seq : e \in trace}

\* .order('seq', desc).limit(1), or 0 on an empty trace.
MaxSeq == IF trace = {} THEN 0
          ELSE CHOOSE n \in Seqs : \A m \in Seqs : m <= n

HasEvent(type) == \E e \in trace : e.type = type
HasPacket(kind) == \E i \in DOMAIN packets : packets[i].kind = kind

\* findUnresolvedNeedsInputQuestion: questions no response packet names.
Unresolved ==
    {q \in DOMAIN packets :
        /\ packets[q].kind = "question"
        /\ \A r \in DOMAIN packets :
              ~(packets[r].kind = "response" /\ packets[r].ref = q)}

IsLatest(i, S) == i \in S /\ \A j \in S : j <= i

----------------------------------------------------------------------------
(* The database calls the actions are made of.                             *)
(*                                                                         *)
(* An operator named ..._Mut is a mutation of the one after it: a bug that *)
(* one of the properties exists to catch.  Nothing uses it.                *)

At(c, op, at) == call[c].op = op /\ call[c].at = at
Go(c, at) == call' = [call EXCEPT ![c].at = at]
Return(c) == call' = [call EXCEPT ![c] = Idle]

\* Session client: read the ticket row, return unless it is eligible.
Begin(c, op, eligible, next) ==
    /\ op \in Ops
    /\ call[c] = Idle
    /\ started < MaxCalls
    /\ eligible
    /\ call' = [call EXCEPT ![c] = [Idle EXCEPT !.op = op, !.at = next,
                                                !.status = ticket.status]]
    /\ started' = started + 1
    /\ UNCHANGED <<db, faults>>

\* An idempotence or precondition read: go on, or return having done nothing.
Guard(c, op, at, ok, next) ==
    /\ At(c, op, at)
    /\ IF ok THEN Go(c, next) ELSE Return(c)
    /\ UNCHANGED <<db, bounds>>

\* Read max(seq), next to the insert of a workflow_runs row already closed.
ReadSeq(c, op, at, next) ==
    /\ At(c, op, at)
    /\ call' = [call EXCEPT ![c].at = next, ![c].seq = MaxSeq + 1]
    /\ UNCHANGED <<db, bounds>>

\* Mutation: the table has no unique (ticket_id, seq).
InsertEventNoUnique_Mut(c, op, at, type, note, next) ==
    /\ At(c, op, at)
    /\ trace' = trace \union {[seq |-> call[c].seq, type |-> type, note |-> note]}
    /\ call' = [call EXCEPT ![c].at = next, ![c].link = call[c].seq,
                            ![c].seq = @ + 1]
    /\ UNCHANGED <<ticket, packets, artifacts, holds, openRuns, bounds>>

\* Mutation: the insert's error is not looked at.
InsertEventIgnoreError_Mut(c, op, at, type, note, next) ==
    /\ At(c, op, at)
    /\ \/ call[c].seq \in Seqs /\ Go(c, next) /\ UNCHANGED trace
       \/ /\ call[c].seq \notin Seqs
          /\ trace' = trace \union {[seq |-> call[c].seq, type |-> type,
                                     note |-> note]}
          /\ call' = [call EXCEPT ![c].at = next, ![c].link = call[c].seq,
                                  ![c].seq = @ + 1]
    /\ UNCHANGED <<ticket, packets, artifacts, holds, openRuns, bounds>>

\* Mutation: an upsert on (ticket_id, seq), which replaces the other's row.
InsertEventUpsert_Mut(c, op, at, type, note, next) ==
    /\ At(c, op, at)
    /\ trace' = {e \in trace : e.seq # call[c].seq}
                 \union {[seq |-> call[c].seq, type |-> type, note |-> note]}
    /\ call' = [call EXCEPT ![c].at = next, ![c].link = call[c].seq,
                            ![c].seq = @ + 1]
    /\ UNCHANGED <<ticket, packets, artifacts, holds, openRuns, bounds>>

\* Mutation: the insert waits for its number instead of failing.
InsertEventBlocks_Mut(c, op, at, type, note, next) ==
    /\ call[c].seq \notin Seqs
    /\ InsertEventNoUnique_Mut(c, op, at, type, note, next)

\* Insert at the number read earlier; a unique violation ends the action.
InsertEvent(c, op, at, type, note, next) ==
    /\ At(c, op, at)
    /\ \/ /\ call[c].seq \in Seqs
          /\ Return(c)
          /\ UNCHANGED trace
       \/ /\ call[c].seq \notin Seqs
          /\ trace' = trace \union {[seq |-> call[c].seq, type |-> type,
                                     note |-> note]}
          /\ call' = [call EXCEPT ![c].at = next, ![c].link = call[c].seq,
                                  ![c].seq = @ + 1]
    /\ UNCHANGED <<ticket, packets, artifacts, holds, openRuns, bounds>>

InsertPacket(c, op, at, kind, note, next) ==
    /\ At(c, op, at)
    /\ packets' = Append(packets, [kind |-> kind, event |-> call[c].link,
                                   ref |-> call[c].ref, note |-> note])
    /\ IF next = "idle" THEN Return(c) ELSE Go(c, next)
    /\ UNCHANGED <<ticket, trace, artifacts, holds, openRuns, bounds>>

\* .update(...).eq('id', ticket.id): whatever the row holds by now.
UpdateTicket(c, op, at, row) ==
    /\ At(c, op, at)
    /\ ticket' = row
    /\ Return(c)
    /\ UNCHANGED <<trace, packets, artifacts, holds, openRuns, bounds>>

SetStatus(s) == [ticket EXCEPT !.status = s]
\* Mutation: the two columns swapped.
FailSwapped_Mut(s, type) == [ticket EXCEPT !.status = type, !.failureType = s]

Fail(s, type) == [ticket EXCEPT !.status = s, !.failureType = type]

----------------------------------------------------------------------------
(* runOrchestratorClassification *)

\* Insert the 'running' row, then read max(seq); the model is called next.
OpenClassifyRun(c) ==
    /\ At(c, "classify", "run")
    /\ openRuns' = openRuns + 1
    /\ call' = [call EXCEPT ![c].at = "model", ![c].seq = MaxSeq + 1]
    /\ UNCHANGED <<ticket, trace, packets, artifacts, holds, bounds>>

\* classifyBrief answers or throws (it aborts after 30 s); the run row closes.
CloseClassifyRun(c) ==
    /\ At(c, "classify", "model")
    /\ openRuns' = openRuns - 1
    /\ \/ Go(c, "event")
       \/ Go(c, "failEvent")
    /\ UNCHANGED <<ticket, trace, packets, artifacts, holds, bounds>>

\* The catch block ignores a failed insert: the packet then names no event.
InsertFailEvent(c) ==
    \/ /\ call[c].seq \notin Seqs
       /\ InsertEvent(c, "classify", "failEvent", "orchestrator.failed",
                      "model_error", "failPacket")
    \/ /\ At(c, "classify", "failEvent")
       /\ call[c].seq \in Seqs
       /\ Go(c, "failPacket")
       /\ UNCHANGED <<db, bounds>>

\* A database error in the catch block is not looked at: it carries on.
IgnoreFailWriteError(c) ==
    /\ faults < MaxFaults
    /\ faults' = faults + 1
    /\ \/ At(c, "classify", "model") /\ Go(c, "failEvent")
       \/ At(c, "classify", "failEvent") /\ Go(c, "failPacket")
       \/ At(c, "classify", "failPacket") /\ Go(c, "failTicket")
    /\ UNCHANGED <<db, started>>

RunOrchestratorClassification(c) ==
    \/ Begin(c, "classify", ticket.status = "open", "check")
    \/ Guard(c, "classify", "check", ~HasEvent("orchestrator.classified"), "run")
    \/ OpenClassifyRun(c)
    \/ CloseClassifyRun(c)
    \/ InsertEvent(c, "classify", "event", "orchestrator.classified", "none", "packet")
    \/ InsertPacket(c, "classify", "packet", "handoff", "none", "ticket")
    \/ UpdateTicket(c, "classify", "ticket", SetStatus("in_progress"))
    \/ InsertFailEvent(c)
    \/ InsertPacket(c, "classify", "failPacket", "failure", "model_error", "failTicket")
    \/ UpdateTicket(c, "classify", "failTicket", Fail("failed", "model_error"))
    \/ IgnoreFailWriteError(c)

----------------------------------------------------------------------------
(* The Phase 4 operator controls *)

InjectControlledFailure(c) ==
    \/ Begin(c, "injectFailure", ticket.status \in {"open", "in_progress"}, "check")
    \/ Guard(c, "injectFailure", "check", ~HasPacket("failure"), "run")
    \/ ReadSeq(c, "injectFailure", "run", "event")
    \/ InsertEvent(c, "injectFailure", "event", "failure.injected", "none", "packet")
    \/ InsertPacket(c, "injectFailure", "packet", "failure", "execution_error", "ticket")
    \/ UpdateTicket(c, "injectFailure", "ticket", Fail("failed", "execution_error"))

\* Mutation: max(seq) is read again between the two iterations.
LoopRereadsSeq_Mut(c) ==
    \/ Begin(c, "injectLoop", ticket.status \in {"open", "in_progress"}, "run")
    \/ ReadSeq(c, "injectLoop", "run", "event")
    \/ InsertEvent(c, "injectLoop", "event", "loop.iteration.detected", "none", "check")
    \/ ReadSeq(c, "injectLoop", "check", "event2")
    \/ InsertEvent(c, "injectLoop", "event2", "loop.iteration.detected", "none", "event3")
    \/ InsertEvent(c, "injectLoop", "event3", "loop.terminated", "none", "packet")
    \/ InsertPacket(c, "injectLoop", "packet", "failure", "timeout", "ticket")
    \/ UpdateTicket(c, "injectLoop", "ticket",
                    [Fail("looped", "timeout") EXCEPT !.sig = TRUE])

InjectControlledLoop(c) ==
    \/ Begin(c, "injectLoop", /\ ticket.status \in {"open", "in_progress"}
                              /\ ~ticket.sig, "check")
    \/ Guard(c, "injectLoop", "check", ~HasPacket("failure") /\ ~ticket.sig, "run")
    \/ ReadSeq(c, "injectLoop", "run", "event")
    \/ InsertEvent(c, "injectLoop", "event", "loop.iteration.detected", "none", "event2")
    \/ InsertEvent(c, "injectLoop", "event2", "loop.iteration.detected", "none", "event3")
    \/ InsertEvent(c, "injectLoop", "event3", "loop.terminated", "none", "packet")
    \/ InsertPacket(c, "injectLoop", "packet", "failure", "timeout", "ticket")
    \/ UpdateTicket(c, "injectLoop", "ticket",
                    [Fail("looped", "timeout") EXCEPT !.sig = TRUE])

\* Mutation: the ticket is parked before the question is written.
RequestStatusFirst_Mut(c) ==
    \/ Begin(c, "requestInput", ticket.status \in {"open", "in_progress"}, "check")
    \/ Guard(c, "requestInput", "check", Unresolved = {}, "run")
    \/ ReadSeq(c, "requestInput", "run", "event")
    \/ InsertEvent(c, "requestInput", "event", "input.requested", "none", "ticket")
    \/ UpdateTicket(c, "requestInput", "ticket", SetStatus("needs_input"))

RequestNeedsInput(c) ==
    \/ Begin(c, "requestInput", ticket.status \in {"open", "in_progress"}, "check")
    \/ Guard(c, "requestInput", "check", Unresolved = {}, "run")
    \/ ReadSeq(c, "requestInput", "run", "event")
    \/ InsertEvent(c, "requestInput", "event", "input.requested", "none", "packet")
    \/ InsertPacket(c, "requestInput", "packet", "question", "none", "ticket")
    \/ UpdateTicket(c, "requestInput", "ticket", SetStatus("needs_input"))

\* The latest unresolved question is the one the response will name.
FindQuestion(c) ==
    /\ At(c, "submitResponse", "check")
    /\ \/ Unresolved = {} /\ Return(c)
       \/ \E q \in Unresolved :
             /\ IsLatest(q, Unresolved)
             /\ call' = [call EXCEPT ![c].at = "run", ![c].ref = q]
    /\ UNCHANGED <<db, bounds>>

SubmitNeedsInputResponse(c) ==
    \/ Begin(c, "submitResponse", ticket.status = "needs_input", "check")
    \/ FindQuestion(c)
    \/ ReadSeq(c, "submitResponse", "run", "event")
    \/ InsertEvent(c, "submitResponse", "event", "input.responded", "none", "packet")
    \/ InsertPacket(c, "submitResponse", "packet", "response", "none", "ticket")
    \/ UpdateTicket(c, "submitResponse", "ticket", SetStatus("in_progress"))

WriteRecoveryEvidence(c, op, type) ==
    \/ ReadSeq(c, op, "run", "event")
    \/ InsertEvent(c, op, "event", type, "none", "packet")
    \/ InsertPacket(c, op, "packet", "recovery", "none", "ticket")

ReopenFailedTicket(c) ==
    \/ Begin(c, "reopen", ticket.status = "failed", "check")
    \/ Guard(c, "reopen", "check", HasPacket("failure"), "run")
    \/ WriteRecoveryEvidence(c, "reopen", "recovery.requested")
    \/ UpdateTicket(c, "reopen", "ticket", SetStatus("open"))

HoldLoopedTicket(c) ==
    \/ Begin(c, "hold", ticket.status = "looped" /\ ticket.sig, "run")
    \/ WriteRecoveryEvidence(c, "hold", "recovery.hold_requested")
    \/ UpdateTicket(c, "hold", "ticket", SetStatus("needs_input"))

----------------------------------------------------------------------------
(* runCoordinatorSpecialistPass *)

InsertArtifact(c) ==
    /\ At(c, "specialist", "artifact")
    /\ artifacts' = artifacts + 1
    /\ Go(c, "event2")
    /\ UNCHANGED <<ticket, trace, packets, holds, openRuns, bounds>>

\* Mutation: the pass does not ask for a classified event.
SpecialistUnclassified_Mut(c) ==
    \/ Begin(c, "specialist", ticket.status = "in_progress", "check")
    \/ Guard(c, "specialist", "check", artifacts = 0, "run")
    \/ ReadSeq(c, "specialist", "run", "event")
    \/ InsertEvent(c, "specialist", "event", "coordinator.routed", "none", "artifact")
    \/ InsertArtifact(c)

RunCoordinatorSpecialistPass(c) ==
    \/ Begin(c, "specialist", ticket.status = "in_progress", "check")
    \/ Guard(c, "specialist", "check",
             HasEvent("orchestrator.classified") /\ artifacts = 0, "run")
    \/ ReadSeq(c, "specialist", "run", "event")
    \/ InsertEvent(c, "specialist", "event", "coordinator.routed", "none", "artifact")
    \/ InsertArtifact(c)
    \/ InsertEvent(c, "specialist", "event2", "specialist.artifact.created", "none", "packet")
    \/ InsertPacket(c, "specialist", "packet", "artifact", "none", "ticket")
    \/ UpdateTicket(c, "specialist", "ticket", SetStatus("done"))

----------------------------------------------------------------------------
(* runQaTruthReview: it looks at the ticket's status only at the end *)

\* One select of all events (the checks are computed from it), then of the
\* artifacts rows.  link is the first specialist event.
QaReadEvents(c) ==
    /\ At(c, "qa", "events")
    /\ \/ /\ \/ ~HasEvent("specialist.artifact.created")
             \/ HasEvent("qa.validated") /\ HasEvent("truth.verdict.recorded")
             \/ artifacts = 0
          /\ Return(c)
       \/ /\ ~(HasEvent("qa.validated") /\ HasEvent("truth.verdict.recorded"))
          /\ artifacts > 0
          /\ \E e \in trace :
                /\ e.type = "specialist.artifact.created"
                /\ \A f \in trace : f.type = e.type => e.seq <= f.seq
                /\ call' = [call EXCEPT
                      ![c].at = "evidence", ![c].link = e.seq,
                      ![c].note = IF /\ HasEvent("coordinator.routed")
                                     /\ HasEvent("orchestrator.classified")
                                     /\ ~HasEvent("tool.calendar_hold.created")
                                  THEN "pass" ELSE "fail"]
    /\ UNCHANGED <<db, bounds>>

\* Mutation: the artifact packet is not one of the checks.
QaSkipsPacket_Mut(c) ==
    /\ At(c, "qa", "evidence")
    /\ call' = [call EXCEPT ![c].at = "qaCheck", ![c].link = 0]
    /\ UNCHANGED <<db, bounds>>

\* artifact_packet_present: the artifact packet linked to that event.
QaReadPacket(c) ==
    /\ At(c, "qa", "evidence")
    /\ call' = [call EXCEPT
          ![c].at = "qaCheck", ![c].link = 0,
          ![c].note = IF \E i \in DOMAIN packets :
                            /\ packets[i].kind = "artifact"
                            /\ packets[i].event = call[c].link
                      THEN @ ELSE "fail"]
    /\ UNCHANGED <<db, bounds>>

\* existingQaTrace, any one of them; from here on link is qaTraceId.
QaCheckExisting(c) ==
    /\ At(c, "qa", "qaCheck")
    /\ \/ /\ ~HasEvent("qa.validated")
          /\ Go(c, "truthCheck")
       \/ \E e \in trace :
             /\ e.type = "qa.validated"
             /\ call' = [call EXCEPT ![c].at = "truthCheck", ![c].link = e.seq]
    /\ UNCHANGED <<db, bounds>>

TruthCheckExisting(c) ==
    /\ At(c, "qa", "truthCheck")
    /\ IF HasEvent("truth.verdict.recorded") /\ call[c].link # 0
       THEN Return(c)
       ELSE call' = [call EXCEPT ![c].at = "run",
                                 ![c].skip = HasEvent("truth.verdict.recorded")]
    /\ UNCHANGED <<db, bounds>>

\* The QA half is written only if no qa.validated event was seen.
QaReadSeq(c) ==
    ReadSeq(c, "qa", "run", IF call[c].link = 0 THEN "qaEvent" ELSE "verdict")

\* The verdict names the latest packet linked to the QA event, if any.
QaFindPacket(c) ==
    LET qaPackets == {i \in DOMAIN packets : /\ packets[i].kind = "qa"
                                             /\ packets[i].event = call[c].link}
    IN  /\ At(c, "qa", "verdict")
        /\ \E q \in qaPackets \union {0} :
              /\ IsLatest(q, qaPackets \union {0})
              /\ call' = [call EXCEPT ![c].at = "truthEvent", ![c].ref = q]
        /\ UNCHANGED <<db, bounds>>

\* Four reads of the review do not look at their error: the row then counts
\* as missing.
IgnoreQaReadError(c) ==
    /\ faults < MaxFaults
    /\ faults' = faults + 1
    /\ \/ /\ At(c, "qa", "evidence")
          /\ call' = [call EXCEPT ![c].at = "qaCheck", ![c].link = 0,
                                  ![c].note = "fail"]
       \/ At(c, "qa", "qaCheck") /\ Go(c, "truthCheck")
       \/ /\ At(c, "qa", "truthCheck")
          /\ call' = [call EXCEPT ![c].at = "run", ![c].skip = FALSE]
       \/ At(c, "qa", "verdict") /\ Go(c, "truthEvent")
    /\ UNCHANGED <<db, started>>

RunQaTruthReview(c) ==
    \/ Begin(c, "qa", TRUE, "events")
    \/ QaReadEvents(c)
    \/ QaReadPacket(c)
    \/ QaCheckExisting(c)
    \/ TruthCheckExisting(c)
    \/ QaReadSeq(c)
    \/ InsertEvent(c, "qa", "qaEvent", "qa.validated", call[c].note, "qaPacket")
    \/ InsertPacket(c, "qa", "qaPacket", "qa", call[c].note,
                    IF call[c].skip THEN "idle" ELSE "verdict")
    \/ QaFindPacket(c)
    \/ InsertEvent(c, "qa", "truthEvent", "truth.verdict.recorded", call[c].note, "truthPacket")
    \/ InsertPacket(c, "qa", "truthPacket", "truth", call[c].note, "ticket")
    \/ UpdateTicket(c, "qa", "ticket",
                    IF call[c].note = "pass" /\ call[c].status # "done"
                    THEN SetStatus("done") ELSE ticket)
    \/ IgnoreQaReadError(c)

----------------------------------------------------------------------------
(* createCalendarHoldForTicket: the write comes first, the audit after it *)

CreateCalendarEvent(c) ==
    /\ At(c, "calendarHold", "write")
    /\ \/ holds' = holds + 1 /\ Go(c, "run")
       \/ holds' = holds /\ Return(c)          \* the provider refused
    /\ UNCHANGED <<ticket, trace, packets, artifacts, openRuns, bounds>>

\* The error of the max(seq) read is not looked at: nextSeq is then 1.
IgnoreSeqReadError(c) ==
    /\ faults < MaxFaults
    /\ faults' = faults + 1
    /\ At(c, "calendarHold", "run")
    /\ call' = [call EXCEPT ![c].at = "event", ![c].seq = 1]
    /\ UNCHANGED <<db, started>>

CreateCalendarHoldForTicket(c) ==
    \/ Begin(c, "calendarHold", TRUE, "write")
    \/ CreateCalendarEvent(c)
    \/ ReadSeq(c, "calendarHold", "run", "event")
    \/ IgnoreSeqReadError(c)
    \/ InsertEvent(c, "calendarHold", "event", "tool.calendar_hold.created", "none", "packet")
    \/ InsertPacket(c, "calendarHold", "packet", "tool", "none", "idle")

----------------------------------------------------------------------------
(* createBriefFromCalendarEvent, which also ends runAutomationRuleNow: the  *)
(* ticket it has just opened is there for everybody, the marker of where it *)
(* came from is not on its trace yet.                                       *)

\* The marker is inserted at number 1 as it stands; an error is not looked at.
InsertMarker(c) ==
    /\ At(c, "ingest", "run")
    /\ trace' = IF 1 \in Seqs THEN trace
                ELSE trace \union {[seq |-> 1, type |-> "brief_ingested",
                                    note |-> "none"]}
    /\ Return(c)
    /\ UNCHANGED <<ticket, packets, artifacts, holds, openRuns, bounds>>

\* started = 0: the call that opens the ticket is the first there is on it.
CreateBriefFromCalendarEvent(c) ==
    \/ Begin(c, "ingest", started = 0, "run")
    \/ InsertMarker(c)

----------------------------------------------------------------------------

\* A call returns an error, or the server dies, before the next step.
Fault(c) ==
    /\ faults < MaxFaults
    /\ call[c] # Idle
    /\ faults' = faults + 1
    /\ Return(c)
    /\ UNCHANGED <<db, started>>

\* A step of an invocation in flight, or the start of one.
Step(c) ==
    \/ RunOrchestratorClassification(c)
    \/ InjectControlledFailure(c)
    \/ InjectControlledLoop(c)
    \/ RequestNeedsInput(c)
    \/ SubmitNeedsInputResponse(c)
    \/ ReopenFailedTicket(c)
    \/ HoldLoopedTicket(c)
    \/ RunCoordinatorSpecialistPass(c)
    \/ RunQaTruthReview(c)
    \/ CreateCalendarHoldForTicket(c)
    \/ CreateBriefFromCalendarEvent(c)

Next == \E c \in Calls : Step(c) \/ Fault(c)

Spec == Init /\ [][Next]_vars

\* The server runs a handler it has begun to its end: the database answers
\* every call, with a row or an error, and the model call aborts after 30 s.
\* Nobody is obliged to begin one.
FairSpec == Spec /\ \A c \in Calls : WF_vars(call[c] # Idle /\ Step(c))

=============================================================================
