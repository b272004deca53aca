-------------------------- MODULE TicketProperties --------------------------
(***************************************************************************)
(* What a ticket's evidence promises, whatever the server actions' calls   *)
(* interleave with and wherever they stop.                                 *)
(***************************************************************************)
EXTENDS TicketLifecycle

\* Types of the rows and of the invocations' locals.
TypeOK ==
    /\ ticket \in [status : Statuses, failureType : FailureTypes \union {"none"},
                   sig : BOOLEAN]
    /\ trace \subseteq Event
    /\ packets \in Seq(Packet)
    /\ artifacts \in Nat
    /\ holds \in Nat
    /\ openRuns \in Int
    /\ call \in [Calls -> Call]
    /\ started \in 0..MaxCalls
    /\ faults \in 0..MaxFaults

\* The trace of a ticket is numbered 1, 2, 3, ... with no gap and no number
\* used twice, although every action computes its numbers from a read that may
\* be stale when it inserts and some reserve two or three numbers at once
\* (contracts/trace-emitter-contract.md: a monotonic counter, replayable).
GapFree ==
    /\ \A e, f \in trace : e.seq = f.seq => e = f
    /\ \E n \in Seqs \union {0} : Seqs = 1..n

\* To its readers the trace is an append-only ledger: no step of any action
\* changes or removes a row, or adds one anywhere but at the end
\* (contracts/trace-emitter-contract.md:49).
AppendOnly == INSTANCE TraceLedger WITH rows <- trace

TraceIsLedger == AppendOnly!Spec

\* A packet names an event of the ticket that its kind belongs to.  Only the
\* failure packet of the classification's catch block may name none.
EvidenceLinked ==
    \A i \in DOMAIN packets :
        \/ packets[i].event = 0 /\ packets[i].kind = "failure"
        \/ \E e \in trace : /\ e.seq = packets[i].event
                            /\ e.type \in EventsOf[packets[i].kind]

\* The loop simulator's failure packet tells its kind from all others.
Loops == {"timeout"}
Crashes == {"model_error", "execution_error"}

HasFailure(types) ==
    \E i \in DOMAIN packets : /\ packets[i].kind = "failure"
                              /\ packets[i].note \in types

\* What must be on record for a ticket to stand at a status.
Justified(s) ==
    CASE s = "open"        -> TRUE
      [] s = "in_progress" -> HasPacket("handoff") \/ HasPacket("response")
      [] s = "done"        -> HasPacket("artifact")
      [] s = "looped"      -> ticket.sig /\ HasFailure(Loops)
      [] s = "needs_input" -> HasPacket("question") \/ HasPacket("recovery")
      [] s = "failed"      -> faults = 0 => HasFailure(Crashes)

\* The status never runs ahead of the evidence: whichever invocation wrote it
\* last, the packet that explains it is on record.  A failed ticket may lack
\* its packet only after a database error that the catch block ignores.
StatusHasEvidence == Justified(ticket.status)

\* A row of that type at that number, or anywhere before it.
EventAt(type, n) == \E e \in trace : e.type = type /\ e.seq = n
EventBefore(type, n) == \E e \in trace : e.type = type /\ e.seq < n

\* The loop the termination contract describes: two iterations and the
\* termination at consecutive numbers, nothing of another action between them.
LoopShown ==
    \E e \in trace : /\ e.type = "loop.terminated"
                     /\ EventAt("loop.iteration.detected", e.seq - 1)
                     /\ EventAt("loop.iteration.detected", e.seq - 2)

\* A loop_signature is set only when the trace shows the loop it stands for.
SignatureShowsLoop == ticket.sig => LoopShown

\* What must be on the trace before a row of the chain.
Follows(e) ==
    /\ e.type = "coordinator.routed" =>
          EventBefore("orchestrator.classified", e.seq)
    /\ e.type = "specialist.artifact.created" =>
          EventAt("coordinator.routed", e.seq - 1)
    /\ e.type = "qa.validated" =>
          EventBefore("specialist.artifact.created", e.seq)
    /\ e.type = "truth.verdict.recorded" => EventBefore("qa.validated", e.seq)

\* The chain of a completed ticket reads in order: no routing before the
\* classification, the specialist event directly after its routing, no QA
\* before the specialist, no verdict before a QA result.
ChainInOrder == \A e \in trace : Follows(e)

\* An accepted verdict rests on an artifact packet filed before it, although
\* the review reads the packet long before it writes the verdict and a
\* specialist pass may have stopped between its event and its packet.
AcceptedHasArtifact ==
    \A i \in DOMAIN packets :
        packets[i].kind = "truth" /\ packets[i].note = "pass" =>
            \E j \in 1..(i - 1) : packets[j].kind = "artifact"

\* Every invocation returns to its user.
CallsReturn == \A c \in Calls : call[c] # Idle ~> call[c] = Idle

----------------------------------------------------------------------------
(* The inductive strengthening used in TicketProofs.                       *)

\* Steps between the read of max(seq) and the last insert that relies on it.
Inserting == {"model", "event", "event2", "event3", "artifact", "failEvent",
              "qaEvent", "qaPacket", "verdict", "truthEvent"}

\* A number in hand is at most one past the trace: every smaller number was on
\* it when max(seq) was read, and no row is ever deleted.
Reserved ==
    \A c \in Calls :
        /\ 1..(call[c].seq - 1) \subseteq Seqs
        /\ call[c].at \in Inserting => call[c].seq > 0

Ledger == TypeOK /\ GapFree /\ Reserved

\* The type of the event an invocation has in hand when it is about to write
\* a packet, by its operation and its step.
LinkTypes == {
    <<"classify",       "packet",      "orchestrator.classified">>,
    <<"classify",       "failPacket",  "orchestrator.failed">>,
    <<"injectFailure",  "packet",      "failure.injected">>,
    <<"injectLoop",     "packet",      "loop.terminated">>,
    <<"requestInput",   "packet",      "input.requested">>,
    <<"submitResponse", "packet",      "input.responded">>,
    <<"reopen",         "packet",      "recovery.requested">>,
    <<"hold",           "packet",      "recovery.hold_requested">>,
    <<"specialist",     "packet",      "specialist.artifact.created">>,
    <<"qa",             "qaPacket",    "qa.validated">>,
    <<"qa",             "truthPacket", "truth.verdict.recorded">>,
    <<"calendarHold",   "packet",      "tool.calendar_hold.created">>}

PacketSteps == {"packet", "failPacket", "qaPacket", "truthPacket"}

\* That event is on the trace; the catch block alone may have none.
LinkOk(c) ==
    /\ call[c].at \in PacketSteps =>
          \/ call[c].at = "failPacket" /\ call[c].link = 0
          \/ \E e \in trace : /\ e.seq = call[c].link
                              /\ <<call[c].op, call[c].at, e.type>> \in LinkTypes
    /\ call[c].op = "classify" /\ call[c].at \notin PacketSteps =>
          call[c].link = 0 \/ call[c].at \in {"ticket", "failTicket"}

LinkKnown == \A c \in Calls : LinkOk(c)

\* The packet that will justify the status is on record before the update, and
\* a review that will accept has seen the artifact's packet.
UpdateOk(c) ==
    /\ call[c].at = "ticket" =>
          /\ call[c].op = "classify" => HasPacket("handoff")
          /\ call[c].op = "injectFailure" => HasFailure(Crashes)
          /\ call[c].op = "injectLoop" => HasFailure(Loops)
          /\ call[c].op = "requestInput" => HasPacket("question")
          /\ call[c].op = "submitResponse" => HasPacket("response")
          /\ call[c].op = "hold" => HasPacket("recovery")
          /\ call[c].op = "specialist" => HasPacket("artifact")
    /\ call[c].at = "failTicket" /\ faults = 0 => HasFailure(Crashes)
    /\ call[c].op = "qa" /\ call[c].note = "pass" =>
          call[c].at = "evidence" \/ HasPacket("artifact")

UpdateJustified == \A c \in Calls : UpdateOk(c)

\* What an invocation that writes several rows in order has read or written of
\* the rows that must come before its next one.
InHand(c) ==
    LET k == call[c]
    IN  /\ k.op = "injectLoop" =>
              /\ k.at \in {"event2", "event3"} =>
                    EventAt("loop.iteration.detected", k.seq - 1)
              /\ k.at = "event3" => EventAt("loop.iteration.detected", k.seq - 2)
              /\ k.at \in {"packet", "ticket"} => LoopShown
        /\ k.op = "specialist" =>
              /\ k.at = "run" => HasEvent("orchestrator.classified")
              /\ k.at = "event" => EventBefore("orchestrator.classified", k.seq)
              /\ k.at \in {"artifact", "event2"} =>
                    EventAt("coordinator.routed", k.seq - 1)
              /\ k.at = "event2" => artifacts > 0
        /\ k.op = "qa" =>
              /\ k.at \in {"evidence", "qaCheck", "truthCheck", "run"} =>
                    HasEvent("specialist.artifact.created")
              /\ k.at = "qaCheck" => k.link = 0
              /\ k.at \in {"truthCheck", "run"} /\ k.link # 0 =>
                    HasEvent("qa.validated")
              /\ k.at = "qaEvent" =>
                    EventBefore("specialist.artifact.created", k.seq)
              /\ k.at \in {"qaPacket", "verdict", "truthEvent"} =>
                    EventBefore("qa.validated", k.seq)

\* The specialist's event is written after the artifacts row.
ArtifactOnRecord == HasEvent("specialist.artifact.created") => artifacts > 0

Chain == /\ SignatureShowsLoop
         /\ ChainInOrder
         /\ ArtifactOnRecord
         /\ \A c \in Calls : InHand(c)

=============================================================================
