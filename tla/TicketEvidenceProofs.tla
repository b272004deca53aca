------------------------ MODULE TicketEvidenceProofs ------------------------
(***************************************************************************)
(* For every value of the constants: a packet names an event of its kind,  *)
(* the ticket's status never runs ahead of the packet that explains it,    *)
(* the chain of a ticket reads in order, a loop signature stands for a     *)
(* loop on the trace, and a verdict that accepts has an artifact packet    *)
(* before it.  All rest on the ledger of TicketProofs and on the same      *)
(* argument: rows are only ever added, so what an invocation has seen or   *)
(* written stays true while the others run.                                *)
(***************************************************************************)
EXTENDS TicketProofs

----------------------------------------------------------------------------
(* EvidenceLinked *)

Linked == EvidenceLinked /\ LinkKnown

\* A step of c that only adds rows keeps every link but, perhaps, c's own.
LEMMA LinkStep ==
    ASSUME Linked, NEW c \in Calls, trace \subseteq trace',
           \A d \in Calls \ {c} : call'[d] = call[d],
           UNCHANGED packets, LinkOk(c)'
    PROVE  Linked'
<1>1. EvidenceLinked'
  BY DEF Linked, EvidenceLinked
<1>2. ASSUME NEW d \in Calls, d # c
      PROVE  LinkOk(d)'
  BY <1>2 DEF Linked, LinkKnown, LinkOk
<1> QED
  BY <1>1, <1>2 DEF Linked, LinkKnown

\* A step after which c names no event, and owes none.
LEMMA UnlinkedStep ==
    ASSUME Linked, NEW c \in Calls, trace \subseteq trace',
           \A d \in Calls \ {c} : call'[d] = call[d],
           UNCHANGED packets,
           call'[c].at \notin PacketSteps,
           call'[c].op = "classify" =>
               call'[c].link = 0 \/ call'[c].at \in {"ticket", "failTicket"}
    PROVE  Linked'
BY LinkStep DEF LinkOk

LEMMA ReturnLinks ==
    ASSUME TypeOK, Linked, NEW c \in Calls, Return(c), trace \subseteq trace',
           UNCHANGED packets
    PROVE  Linked'
<1>1. /\ \A d \in Calls \ {c} : call'[d] = call[d]
      /\ call'[c] = Idle
  BY LocalReturn
<1> QED
  BY <1>1, UnlinkedStep DEF Idle, PacketSteps

LEMMA GoFields ==
    ASSUME TypeOK, NEW c \in Calls, NEW next \in Steps, Go(c, next)
    PROVE  /\ call'[c].at = next /\ call'[c].op = call[c].op
           /\ call'[c].link = call[c].link /\ call'[c].note = call[c].note
BY DEF TypeOK, Go, Call

\* Moving on to a step that writes no packet.
LEMMA GoLinks ==
    ASSUME TypeOK, Linked, NEW c \in Calls, NEW next \in Steps \ PacketSteps,
           Go(c, next), call[c].at \notin PacketSteps \union {"ticket", "failTicket"},
           UNCHANGED <<trace, packets>>
    PROVE  Linked'
<1>1. /\ \A d \in Calls \ {c} : call'[d] = call[d]
      /\ call'[c].at = next /\ call'[c].op = call[c].op
      /\ call'[c].link = call[c].link
  BY LocalGo, GoFields
<1> QED
  BY <1>1, UnlinkedStep DEF Linked, LinkKnown, LinkOk

LEMMA BeginLinks ==
    ASSUME TypeOK, Linked, NEW c \in Calls, NEW op \in Operations, NEW eligible,
           NEW next \in Steps \ PacketSteps, Begin(c, op, eligible, next)
    PROVE  Linked'
<1>1. /\ \A d \in Calls \ {c} : call'[d] = call[d]
      /\ call'[c].at = next /\ call'[c].link = 0
  BY DEF TypeOK, Begin, Idle
<1> QED
  BY <1>1, UnlinkedStep DEF Begin, db

LEMMA GuardLinks ==
    ASSUME TypeOK, Linked, NEW c \in Calls, NEW op,
           NEW at \in Steps \ (PacketSteps \union {"ticket", "failTicket"}),
           NEW ok, NEW next \in Steps \ PacketSteps, Guard(c, op, at, ok, next)
    PROVE  Linked'
<1>1. Go(c, next) \/ Return(c)
  BY DEF Guard
<1> QED
  BY <1>1, GoLinks, ReturnLinks DEF Guard, At, db

\* A read of max(seq), or its ignored error.
LEMMA SeqLinks ==
    ASSUME TypeOK, Linked, NEW c \in Calls, NEW next \in Steps \ PacketSteps,
           NEW n \in Nat, call' = [call EXCEPT ![c].at = next, ![c].seq = n],
           call[c].at \notin PacketSteps \union {"ticket", "failTicket"},
           UNCHANGED <<trace, packets>>
    PROVE  Linked'
<1>1. /\ \A d \in Calls \ {c} : call'[d] = call[d]
      /\ call'[c].at = next /\ call'[c].op = call[c].op
      /\ call'[c].link = call[c].link
  BY DEF TypeOK, Call
<1> QED
  BY <1>1, UnlinkedStep DEF Linked, LinkKnown, LinkOk

LEMMA ReadSeqLinks ==
    ASSUME Ledger, Linked, NEW c \in Calls, NEW op, 
           NEW at \in Steps \ (PacketSteps \union {"ticket", "failTicket"}),
           NEW next \in Steps \ PacketSteps, ReadSeq(c, op, at, next)
    PROVE  Linked'
<1>1. MaxSeq + 1 \in Nat
  BY MaxSeqValue DEF Ledger, TypeOK
<1> QED
  BY <1>1, SeqLinks DEF ReadSeq, At, db, Ledger

\* The event just inserted is the one the next packet will name.
LEMMA InsertEventLinks ==
    ASSUME TypeOK, Linked, NEW c \in Calls, NEW op, NEW at, NEW type, NEW note,
           NEW next \in Steps, InsertEvent(c, op, at, type, note, next),
           \/ next \in PacketSteps /\ <<op, next, type>> \in LinkTypes
           \/ next \notin PacketSteps /\ op # "classify"
    PROVE  Linked'
<1>1. CASE Return(c) /\ UNCHANGED trace
  BY <1>1, ReturnLinks DEF InsertEvent
<1>2. CASE ~(Return(c) /\ UNCHANGED trace)
  <2>1. /\ \A d \in Calls \ {c} : call'[d] = call[d]
        /\ call'[c].link = call[c].seq /\ call'[c].at = next
        /\ call'[c].op = op
    BY <1>2, AfterInsert DEF InsertEvent, At
  <2>2. trace' = trace \union {[seq |-> call[c].seq, type |-> type, note |-> note]}
    BY <1>2 DEF InsertEvent
  <2>3. \E e \in trace' : e.seq = call[c].seq /\ e.type = type
    <3> DEFINE new == [seq |-> call[c].seq, type |-> type, note |-> note]
    <3>1. new \in trace' /\ new.seq = call[c].seq /\ new.type = type
      BY <2>2
    <3> QED
      BY <3>1
  <2>4. LinkOk(c)'
    BY <2>1, <2>3 DEF LinkOk
  <2> QED
    BY <2>1, <2>2, <2>4, LinkStep DEF InsertEvent
<1> QED
  BY <1>1, <1>2

\* A packet's link is good because its invocation's link was.
LEMMA InsertPacketLinks ==
    ASSUME TypeOK, Linked, NEW c \in Calls, NEW op, NEW at \in PacketSteps,
           NEW kind \in Kinds, NEW note, NEW next \in Steps \ PacketSteps,
           InsertPacket(c, op, at, kind, note, next),
           \A type : <<op, at, type>> \in LinkTypes => type \in EventsOf[kind],
           at = "failPacket" => kind = "failure",
           op = "classify" => next \in {"ticket", "failTicket"}
    PROVE  Linked'
<1> DEFINE p == [kind |-> kind, event |-> call[c].link, ref |-> call[c].ref,
                 note |-> note]
<1>1. /\ packets' = Append(packets, p) /\ trace' = trace
      /\ call[c].op = op /\ call[c].at = at
  BY DEF InsertPacket, At
<1>2. \/ call[c].link = 0 /\ kind = "failure"
      \/ \E e \in trace : e.seq = call[c].link /\ e.type \in EventsOf[kind]
  BY <1>1 DEF Linked, LinkKnown, LinkOk
<1>3. EvidenceLinked'
  <2> SUFFICES ASSUME NEW i \in DOMAIN packets'
               PROVE  \/ packets'[i].event = 0 /\ packets'[i].kind = "failure"
                      \/ \E e \in trace : /\ e.seq = packets'[i].event
                                          /\ e.type \in EventsOf[packets'[i].kind]
    BY <1>1 DEF EvidenceLinked
  <2>1. packets \in Seq(Packet)
    BY DEF TypeOK
  <2>2. CASE i \in DOMAIN packets
    <3>1. packets'[i] = packets[i]
      BY <1>1, <2>1, <2>2
    <3> QED
      BY <2>2, <3>1 DEF Linked, EvidenceLinked
  <2>3. CASE i \notin DOMAIN packets
    <3>1. packets'[i] = p
      BY <1>1, <2>1, <2>3
    <3> QED
      BY <1>2, <3>1
  <2> QED
    BY <2>2, <2>3
<1>4. /\ \A d \in Calls \ {c} : call'[d] = call[d]
      /\ \/ call'[c] = Idle
         \/ call'[c].at = next /\ call'[c].op = op
  <2>1. Go(c, next) \/ Return(c)
    BY DEF InsertPacket
  <2>2. CASE Go(c, next)
    BY <1>1, <2>2, LocalGo, GoFields
  <2>3. CASE Return(c)
    BY <2>3, LocalReturn
  <2> QED
    BY <2>1, <2>2, <2>3
<1>5. LinkOk(c)'
  BY <1>4 DEF LinkOk, Idle, PacketSteps
<1>6. ASSUME NEW d \in Calls, d # c
      PROVE  LinkOk(d)'
  BY <1>1, <1>4, <1>6 DEF Linked, LinkKnown, LinkOk
<1> QED
  BY <1>3, <1>5, <1>6 DEF Linked, LinkKnown

LEMMA UpdateTicketLinks ==
    ASSUME TypeOK, Linked, NEW c \in Calls, NEW op, NEW at, NEW row,
           UpdateTicket(c, op, at, row)
    PROVE  Linked'
BY ReturnLinks DEF UpdateTicket

----------------------------------------------------------------------------
(* Every operation keeps the links. *)

\* The catch block goes on to its packet without an event.
LEMMA FailEventLinks ==
    ASSUME TypeOK, Linked, NEW c \in Calls, Go(c, "failPacket"),
           At(c, "classify", "failEvent"), UNCHANGED <<trace, packets>>
    PROVE  Linked'
<1>1. call[c].link = 0
  BY DEF At, Linked, LinkKnown, LinkOk, PacketSteps
<1>2. /\ \A d \in Calls \ {c} : call'[d] = call[d]
      /\ call'[c].at = "failPacket" /\ call'[c].op = "classify"
      /\ call'[c].link = 0
  BY <1>1, LocalGo, GoFields DEF Steps, At
<1>3. LinkOk(c)'
  BY <1>2 DEF LinkOk, PacketSteps
<1> QED
  BY <1>2, <1>3, LinkStep

\* The catch block goes on to the ticket without its packet.
LEMMA DropFailPacketLinks ==
    ASSUME TypeOK, Linked, NEW c \in Calls, Go(c, "failTicket"),
           UNCHANGED <<trace, packets>>
    PROVE  Linked'
<1>1. /\ \A d \in Calls \ {c} : call'[d] = call[d]
      /\ call'[c].at = "failTicket"
  BY LocalGo, GoFields DEF Steps
<1> QED
  BY <1>1, UnlinkedStep DEF PacketSteps

LEMMA FindQuestionLinks ==
    ASSUME TypeOK, Linked, NEW c \in Calls, FindQuestion(c)
    PROVE  Linked'
<1>1. CASE Return(c)
  BY <1>1, ReturnLinks DEF FindQuestion, db
<1>2. CASE ~Return(c)
  <2>1. PICK q \in Unresolved :
              call' = [call EXCEPT ![c].at = "run", ![c].ref = q]
    BY <1>2 DEF FindQuestion
  <2>2. /\ \A d \in Calls \ {c} : call'[d] = call[d]
        /\ call'[c].at = "run" /\ call'[c].op = "submitResponse"
    BY <2>1 DEF TypeOK, Call, FindQuestion, At
  <2> QED
    BY <2>2, UnlinkedStep DEF FindQuestion, db, PacketSteps
<1> QED
  BY <1>1, <1>2

\* The reads of the review lead to no packet step.
LEMMA QaReadsLinks ==
    ASSUME TypeOK, Linked, NEW c \in Calls,
           \/ QaReadEvents(c) \/ QaReadPacket(c)
           \/ QaCheckExisting(c) \/ TruthCheckExisting(c)
    PROVE  Linked'
<1>1. call[c].op = "qa" /\ UNCHANGED <<db, bounds>>
  BY DEF QaReadEvents, QaReadPacket, QaCheckExisting, TruthCheckExisting, At
<1>2. CASE Return(c)
  BY <1>1, <1>2, ReturnLinks DEF db
<1>3. CASE ~Return(c)
  <2>1. /\ \A d \in Calls \ {c} : call'[d] = call[d]
        /\ call'[c].op = "qa"
        /\ call'[c].at \in {"evidence", "qaCheck", "truthCheck", "run"}
    <3>1. CASE QaReadEvents(c)
      <4>1. PICK n, v : call' = [call EXCEPT ![c].at = "evidence",
                                             ![c].link = n, ![c].note = v]
        BY <1>3, <3>1 DEF QaReadEvents
      <4> QED
        BY <1>1, <4>1 DEF TypeOK, Call
    <3>2. CASE QaReadPacket(c)
      BY <1>1, <1>3, <3>2 DEF TypeOK, Call, QaReadPacket
    <3>3. CASE QaCheckExisting(c)
      BY <1>1, <1>3, <3>3 DEF TypeOK, Call, QaCheckExisting, Go
    <3>4. CASE TruthCheckExisting(c)
      BY <1>1, <1>3, <3>4 DEF TypeOK, Call, TruthCheckExisting
    <3> QED
      BY <3>1, <3>2, <3>3, <3>4
  <2> QED
    BY <1>1, <2>1, UnlinkedStep DEF db, PacketSteps
<1> QED
  BY <1>2, <1>3

\* Nor does the search for the QA packet, nor an ignored read error.
LEMMA QaMovesLinks ==
    ASSUME TypeOK, Linked, NEW c \in Calls,
           QaFindPacket(c) \/ IgnoreQaReadError(c)
    PROVE  Linked'
<1>1. call[c].op = "qa" /\ UNCHANGED <<trace, packets>>
  BY DEF QaFindPacket, IgnoreQaReadError, At, db
<1>2. /\ \A d \in Calls \ {c} : call'[d] = call[d]
      /\ call'[c].op = "qa"
      /\ call'[c].at \in {"qaCheck", "truthCheck", "run", "truthEvent"}
  <2>1. CASE QaFindPacket(c)
    <3>1. PICK q : call' = [call EXCEPT ![c].at = "truthEvent", ![c].ref = q]
      BY <2>1 DEF QaFindPacket
    <3> QED
      BY <1>1, <3>1 DEF TypeOK, Call
  <2>2. CASE IgnoreQaReadError(c)
    BY <1>1, <2>2 DEF IgnoreQaReadError, Go, TypeOK, Call
  <2> QED
    BY <2>1, <2>2
<1> QED
  BY <1>1, <1>2, UnlinkedStep DEF PacketSteps

LEMMA ClassifyLinks ==
    ASSUME Ledger, Linked, NEW c \in Calls, RunOrchestratorClassification(c)
    PROVE  Linked'
<1> USE DEF Ledger, Steps, PacketSteps, LinkTypes, Operations, Kinds, EventsOf
<1>1. CASE Begin(c, "classify", ticket.status = "open", "check")
  BY <1>1, BeginLinks
<1>2. CASE Guard(c, "classify", "check", ~HasEvent("orchestrator.classified"), "run")
  BY <1>2, GuardLinks
<1>3. CASE OpenClassifyRun(c)
  <2>1. MaxSeq + 1 \in Nat
    BY MaxSeqValue DEF TypeOK
  <2> QED
    BY <1>3, <2>1, SeqLinks DEF OpenClassifyRun, At
<1>4. CASE CloseClassifyRun(c)
  BY <1>4, GoLinks DEF CloseClassifyRun, At
<1>5. CASE InsertEvent(c, "classify", "event", "orchestrator.classified", "none", "packet")
  BY <1>5, InsertEventLinks
<1>6. CASE InsertPacket(c, "classify", "packet", "handoff", "none", "ticket")
  BY <1>6, InsertPacketLinks
<1>7. CASE UpdateTicket(c, "classify", "ticket", SetStatus("in_progress"))
  BY <1>7, UpdateTicketLinks
<1>8. CASE InsertFailEvent(c)
  BY <1>8, InsertEventLinks, FailEventLinks DEF InsertFailEvent, db
<1>9. CASE InsertPacket(c, "classify", "failPacket", "failure", "model_error", "failTicket")
  BY <1>9, InsertPacketLinks
<1>10. CASE UpdateTicket(c, "classify", "failTicket", Fail("failed", "model_error"))
  BY <1>10, UpdateTicketLinks
<1>11. CASE IgnoreFailWriteError(c)
  <2>1. CASE At(c, "classify", "model") /\ Go(c, "failEvent")
    BY <1>11, <2>1, GoLinks DEF IgnoreFailWriteError, At, db
  <2>2. CASE At(c, "classify", "failEvent") /\ Go(c, "failPacket")
    BY <1>11, <2>2, FailEventLinks DEF IgnoreFailWriteError, db
  <2>3. CASE At(c, "classify", "failPacket") /\ Go(c, "failTicket")
    BY <1>11, <2>3, DropFailPacketLinks DEF IgnoreFailWriteError, db
  <2> QED
    BY <1>11, <2>1, <2>2, <2>3 DEF IgnoreFailWriteError
<1> QED
  BY <1>1, <1>2, <1>3, <1>4, <1>5, <1>6, <1>7, <1>8, <1>9, <1>10, <1>11
     DEF RunOrchestratorClassification

LEMMA InjectFailureLinks ==
    ASSUME Ledger, Linked, NEW c \in Calls, InjectControlledFailure(c)
    PROVE  Linked'
<1> USE DEF Ledger, Steps, PacketSteps, LinkTypes, Operations, Kinds, EventsOf
<1>1. CASE Begin(c, "injectFailure", ticket.status \in {"open", "in_progress"}, "check")
  BY <1>1, BeginLinks
<1>2. CASE Guard(c, "injectFailure", "check", ~HasPacket("failure"), "run")
  BY <1>2, GuardLinks
<1>3. CASE ReadSeq(c, "injectFailure", "run", "event")
  BY <1>3, ReadSeqLinks
<1>4. CASE InsertEvent(c, "injectFailure", "event", "failure.injected", "none", "packet")
  BY <1>4, InsertEventLinks
<1>5. CASE InsertPacket(c, "injectFailure", "packet", "failure", "execution_error", "ticket")
  BY <1>5, InsertPacketLinks
<1>6. CASE UpdateTicket(c, "injectFailure", "ticket", Fail("failed", "execution_error"))
  BY <1>6, UpdateTicketLinks
<1> QED
  BY <1>1, <1>2, <1>3, <1>4, <1>5, <1>6
     DEF InjectControlledFailure

LEMMA InjectLoopLinks ==
    ASSUME Ledger, Linked, NEW c \in Calls, InjectControlledLoop(c)
    PROVE  Linked'
<1> USE DEF Ledger, Steps, PacketSteps, LinkTypes, Operations, Kinds, EventsOf
<1>1. CASE Begin(c, "injectLoop", /\ ticket.status \in {"open", "in_progress"}
                                  /\ ~ticket.sig, "check")
  BY <1>1, BeginLinks
<1>2. CASE Guard(c, "injectLoop", "check", ~HasPacket("failure") /\ ~ticket.sig, "run")
  BY <1>2, GuardLinks
<1>3. CASE ReadSeq(c, "injectLoop", "run", "event")
  BY <1>3, ReadSeqLinks
<1>4. CASE InsertEvent(c, "injectLoop", "event", "loop.iteration.detected", "none", "event2")
  BY <1>4, InsertEventLinks
<1>5. CASE InsertEvent(c, "injectLoop", "event2", "loop.iteration.detected", "none", "event3")
  BY <1>5, InsertEventLinks
<1>6. CASE InsertEvent(c, "injectLoop", "event3", "loop.terminated", "none", "packet")
  BY <1>6, InsertEventLinks
<1>7. CASE InsertPacket(c, "injectLoop", "packet", "failure", "timeout", "ticket")
  BY <1>7, InsertPacketLinks
<1>8. CASE UpdateTicket(c, "injectLoop", "ticket",
                        [Fail("looped", "timeout") EXCEPT !.sig = TRUE])
  BY <1>8, UpdateTicketLinks
<1> QED
  BY <1>1, <1>2, <1>3, <1>4, <1>5, <1>6, <1>7, <1>8
     DEF InjectControlledLoop

LEMMA RequestLinks ==
    ASSUME Ledger, Linked, NEW c \in Calls, RequestNeedsInput(c)
    PROVE  Linked'
<1> USE DEF Ledger, Steps, PacketSteps, LinkTypes, Operations, Kinds, EventsOf
<1>1. CASE Begin(c, "requestInput", ticket.status \in {"open", "in_progress"}, "check")
  BY <1>1, BeginLinks
<1>2. CASE Guard(c, "requestInput", "check", Unresolved = {}, "run")
  BY <1>2, GuardLinks
<1>3. CASE ReadSeq(c, "requestInput", "run", "event")
  BY <1>3, ReadSeqLinks
<1>4. CASE InsertEvent(c, "requestInput", "event", "input.requested", "none", "packet")
  BY <1>4, InsertEventLinks
<1>5. CASE InsertPacket(c, "requestInput", "packet", "question", "none", "ticket")
  BY <1>5, InsertPacketLinks
<1>6. CASE UpdateTicket(c, "requestInput", "ticket", SetStatus("needs_input"))
  BY <1>6, UpdateTicketLinks
<1> QED
  BY <1>1, <1>2, <1>3, <1>4, <1>5, <1>6
     DEF RequestNeedsInput

LEMMA SubmitLinks ==
    ASSUME Ledger, Linked, NEW c \in Calls, SubmitNeedsInputResponse(c)
    PROVE  Linked'
<1> USE DEF Ledger, Steps, PacketSteps, LinkTypes, Operations, Kinds, EventsOf
<1>1. CASE Begin(c, "submitResponse", ticket.status = "needs_input", "check")
  BY <1>1, BeginLinks
<1>2. CASE FindQuestion(c)
  BY <1>2, FindQuestionLinks
<1>3. CASE ReadSeq(c, "submitResponse", "run", "event")
  BY <1>3, ReadSeqLinks
<1>4. CASE InsertEvent(c, "submitResponse", "event", "input.responded", "none", "packet")
  BY <1>4, InsertEventLinks
<1>5. CASE InsertPacket(c, "submitResponse", "packet", "response", "none", "ticket")
  BY <1>5, InsertPacketLinks
<1>6. CASE UpdateTicket(c, "submitResponse", "ticket", SetStatus("in_progress"))
  BY <1>6, UpdateTicketLinks
<1> QED
  BY <1>1, <1>2, <1>3, <1>4, <1>5, <1>6
     DEF SubmitNeedsInputResponse

LEMMA ReopenLinks ==
    ASSUME Ledger, Linked, NEW c \in Calls, ReopenFailedTicket(c)
    PROVE  Linked'
<1> USE DEF Ledger, Steps, PacketSteps, LinkTypes, Operations, Kinds, EventsOf
<1>1. CASE Begin(c, "reopen", ticket.status = "failed", "check")
  BY <1>1, BeginLinks
<1>2. CASE Guard(c, "reopen", "check", HasPacket("failure"), "run")
  BY <1>2, GuardLinks
<1>3. CASE ReadSeq(c, "reopen", "run", "event")
  BY <1>3, ReadSeqLinks
<1>4. CASE InsertEvent(c, "reopen", "event", "recovery.requested", "none", "packet")
  BY <1>4, InsertEventLinks
<1>5. CASE InsertPacket(c, "reopen", "packet", "recovery", "none", "ticket")
  BY <1>5, InsertPacketLinks
<1>6. CASE UpdateTicket(c, "reopen", "ticket", SetStatus("open"))
  BY <1>6, UpdateTicketLinks
<1> QED
  BY <1>1, <1>2, <1>3, <1>4, <1>5, <1>6
     DEF ReopenFailedTicket, WriteRecoveryEvidence

LEMMA HoldLinks ==
    ASSUME Ledger, Linked, NEW c \in Calls, HoldLoopedTicket(c)
    PROVE  Linked'
<1> USE DEF Ledger, Steps, PacketSteps, LinkTypes, Operations, Kinds, EventsOf
<1>1. CASE Begin(c, "hold", ticket.status = "looped" /\ ticket.sig, "run")
  BY <1>1, BeginLinks
<1>2. CASE ReadSeq(c, "hold", "run", "event")
  BY <1>2, ReadSeqLinks
<1>3. CASE InsertEvent(c, "hold", "event", "recovery.hold_requested", "none", "packet")
  BY <1>3, InsertEventLinks
<1>4. CASE InsertPacket(c, "hold", "packet", "recovery", "none", "ticket")
  BY <1>4, InsertPacketLinks
<1>5. CASE UpdateTicket(c, "hold", "ticket", SetStatus("needs_input"))
  BY <1>5, UpdateTicketLinks
<1> QED
  BY <1>1, <1>2, <1>3, <1>4, <1>5
     DEF HoldLoopedTicket, WriteRecoveryEvidence

LEMMA SpecialistLinks ==
    ASSUME Ledger, Linked, NEW c \in Calls, RunCoordinatorSpecialistPass(c)
    PROVE  Linked'
<1> USE DEF Ledger, Steps, PacketSteps, LinkTypes, Operations, Kinds, EventsOf
<1>1. CASE Begin(c, "specialist", ticket.status = "in_progress", "check")
  BY <1>1, BeginLinks
<1>2. CASE Guard(c, "specialist", "check",
                 HasEvent("orchestrator.classified") /\ artifacts = 0, "run")
  BY <1>2, GuardLinks
<1>3. CASE ReadSeq(c, "specialist", "run", "event")
  BY <1>3, ReadSeqLinks
<1>4. CASE InsertEvent(c, "specialist", "event", "coordinator.routed", "none", "artifact")
  BY <1>4, InsertEventLinks
<1>5. CASE InsertArtifact(c)
  BY <1>5, GoLinks DEF InsertArtifact, At
<1>6. CASE InsertEvent(c, "specialist", "event2", "specialist.artifact.created", "none", "packet")
  BY <1>6, InsertEventLinks
<1>7. CASE InsertPacket(c, "specialist", "packet", "artifact", "none", "ticket")
  BY <1>7, InsertPacketLinks
<1>8. CASE UpdateTicket(c, "specialist", "ticket", SetStatus("done"))
  BY <1>8, UpdateTicketLinks
<1> QED
  BY <1>1, <1>2, <1>3, <1>4, <1>5, <1>6, <1>7, <1>8
     DEF RunCoordinatorSpecialistPass

LEMMA ReviewLinks ==
    ASSUME Ledger, Linked, NEW c \in Calls, RunQaTruthReview(c)
    PROVE  Linked'
<1> USE DEF Ledger, Steps, PacketSteps, LinkTypes, Operations, Kinds, EventsOf
<1>1. CASE Begin(c, "qa", TRUE, "events")
  BY <1>1, BeginLinks
<1>2. CASE \/ QaReadEvents(c) \/ QaReadPacket(c)
           \/ QaCheckExisting(c) \/ TruthCheckExisting(c)
  BY <1>2, QaReadsLinks
<1>3. CASE QaReadSeq(c)
  BY <1>3, ReadSeqLinks DEF QaReadSeq
<1>4. CASE InsertEvent(c, "qa", "qaEvent", "qa.validated", call[c].note, "qaPacket")
  BY <1>4, InsertEventLinks
<1>5. CASE InsertPacket(c, "qa", "qaPacket", "qa", call[c].note,
                        IF call[c].skip THEN "idle" ELSE "verdict")
  BY <1>5, InsertPacketLinks
<1>6. CASE QaFindPacket(c) \/ IgnoreQaReadError(c)
  BY <1>6, QaMovesLinks
<1>7. CASE InsertPacket(c, "qa", "truthPacket", "truth", call[c].note, "ticket")
  BY <1>7, InsertPacketLinks
<1>8. CASE UpdateTicket(c, "qa", "ticket",
                        IF call[c].note = "pass" /\ call[c].status # "done"
                        THEN SetStatus("done") ELSE ticket)
  BY <1>8, UpdateTicketLinks
<1>9. CASE InsertEvent(c, "qa", "truthEvent", "truth.verdict.recorded",
                       call[c].note, "truthPacket")
  BY <1>9, InsertEventLinks
<1> QED
  BY <1>1, <1>2, <1>3, <1>4, <1>5, <1>6, <1>7, <1>8, <1>9
     DEF RunQaTruthReview

LEMMA CalendarHoldLinks ==
    ASSUME Ledger, Linked, NEW c \in Calls, CreateCalendarHoldForTicket(c)
    PROVE  Linked'
<1> USE DEF Ledger, Steps, PacketSteps, LinkTypes, Operations, Kinds, EventsOf
<1>1. CASE Begin(c, "calendarHold", TRUE, "write")
  BY <1>1, BeginLinks
<1>2. CASE CreateCalendarEvent(c)
  BY <1>2, GoLinks, ReturnLinks DEF CreateCalendarEvent, At
<1>3. CASE ReadSeq(c, "calendarHold", "run", "event")
  BY <1>3, ReadSeqLinks
<1>4. CASE IgnoreSeqReadError(c)
  <2>1. /\ call' = [call EXCEPT ![c].at = "event", ![c].seq = 1]
        /\ call[c].at = "run" /\ UNCHANGED <<trace, packets>>
    BY <1>4 DEF IgnoreSeqReadError, At, db
  <2> QED
    BY <2>1, SeqLinks
<1>5. CASE InsertEvent(c, "calendarHold", "event", "tool.calendar_hold.created", "none", "packet")
  BY <1>5, InsertEventLinks
<1>6. CASE InsertPacket(c, "calendarHold", "packet", "tool", "none", "idle")
  BY <1>6, InsertPacketLinks
<1> QED
  BY <1>1, <1>2, <1>3, <1>4, <1>5, <1>6
     DEF CreateCalendarHoldForTicket

LEMMA IngestLinks ==
    ASSUME Ledger, Linked, NEW c \in Calls, CreateBriefFromCalendarEvent(c)
    PROVE  Linked'
<1>1. CASE Begin(c, "ingest", started = 0, "run")
  BY <1>1, BeginLinks DEF Ledger, Steps, PacketSteps, Operations
<1>2. CASE InsertMarker(c)
  <2>1. trace \subseteq trace'
    BY <1>2 DEF InsertMarker
  <2> QED
    BY <1>2, <2>1, ReturnLinks DEF InsertMarker, Ledger
<1> QED
  BY <1>1, <1>2 DEF CreateBriefFromCalendarEvent

LEMMA InitLinked ==
    ASSUME Init
    PROVE  Linked
BY DEF Init, Linked, EvidenceLinked, LinkKnown, LinkOk, Idle, PacketSteps

LEMMA NextLinked ==
    ASSUME Ledger, Linked, [Next]_vars
    PROVE  Linked'
<1>1. CASE UNCHANGED vars
  BY <1>1 DEF vars, db, bounds, Linked, EvidenceLinked, LinkKnown, LinkOk
<1>2. ASSUME NEW c \in Calls, Step(c)
      PROVE  Linked'
  BY <1>2, ClassifyLinks, InjectFailureLinks, InjectLoopLinks, RequestLinks,
     SubmitLinks, ReopenLinks, HoldLinks, SpecialistLinks, ReviewLinks,
     CalendarHoldLinks, IngestLinks DEF Step
<1>3. ASSUME NEW c \in Calls, Fault(c)
      PROVE  Linked'
  BY <1>3, ReturnLinks DEF Fault, db, Ledger
<1> QED
  BY <1>1, <1>2, <1>3 DEF Next

\* Every packet names an event of the ticket that its kind belongs to, however
\* many server actions run and wherever they fail.
THEOREM EvidenceIsLinked == Spec => []EvidenceLinked
<1>1. Init => Linked
  BY InitLinked
<1>2. Ledger /\ Linked /\ [Next]_vars => Linked'
  BY NextLinked
<1>3. Linked => EvidenceLinked
  BY DEF Linked
<1> QED
  BY <1>1, <1>2, <1>3, LedgerInvariant, PTL DEF Spec

----------------------------------------------------------------------------
(* StatusHasEvidence *)

Standing == StatusHasEvidence /\ UpdateJustified

\* No packet is lost.
PacketsStay ==
    /\ \A k : HasPacket(k) => HasPacket(k)'
    /\ \A types : HasFailure(types) => HasFailure(types)'

\* A step that leaves the ticket row alone keeps its standing.
LEMMA StandingStep ==
    ASSUME TypeOK, Standing, NEW c \in Calls, UNCHANGED ticket,
           \A d \in Calls \ {c} : call'[d] = call[d],
           PacketsStay,
           faults' = 0 => faults = 0, UpdateOk(c)'
    PROVE  Standing'
<1> USE DEF PacketsStay
<1>1. StatusHasEvidence'
  <2>1. ticket.status \in Statuses /\ ticket' = ticket
    BY DEF TypeOK
  <2>2. Justified(ticket.status)
    BY DEF Standing, StatusHasEvidence
  <2> QED
    BY <2>1, <2>2 DEF StatusHasEvidence, Justified, Statuses
<1>2. ASSUME NEW d \in Calls, d # c
      PROVE  UpdateOk(d)'
  BY <1>2 DEF Standing, UpdateJustified, UpdateOk
<1> QED
  BY <1>1, <1>2 DEF Standing, UpdateJustified

\* Neither does a step of c that leads to no update of the ticket.
LEMMA KeptStep ==
    ASSUME TypeOK, Standing, NEW c \in Calls, UNCHANGED <<ticket, packets>>,
           \A d \in Calls \ {c} : call'[d] = call[d],
           faults' = 0 => faults = 0,
           call'[c].at \notin {"ticket", "failTicket"},
           \/ call'[c].note # "pass"
           \/ /\ call'[c].op = call[c].op /\ call'[c].note = call[c].note
              /\ call[c].at # "evidence"
    PROVE  Standing'
<1>1. PacketsStay
  BY DEF PacketsStay, HasPacket, HasFailure
<1>2. UpdateOk(c)'
  BY DEF Standing, UpdateJustified, UpdateOk, HasPacket
<1> QED
  BY <1>1, <1>2, StandingStep

LEMMA ReturnStands ==
    ASSUME TypeOK, Standing, NEW c \in Calls, Return(c),
           UNCHANGED <<ticket, packets>>, faults' = 0 => faults = 0
    PROVE  Standing'
<1>1. /\ \A d \in Calls \ {c} : call'[d] = call[d]
      /\ call'[c] = Idle
  BY LocalReturn
<1> QED
  BY <1>1, KeptStep DEF Idle

LEMMA GoStands ==
    ASSUME TypeOK, Standing, NEW c \in Calls,
           NEW next \in Steps \ {"ticket", "failTicket"}, Go(c, next),
           call[c].at # "evidence", UNCHANGED <<ticket, packets>>,
           faults' = 0 => faults = 0
    PROVE  Standing'
<1>1. /\ \A d \in Calls \ {c} : call'[d] = call[d]
      /\ call'[c].at = next /\ call'[c].op = call[c].op
      /\ call'[c].note = call[c].note
  BY LocalGo, GoFields
<1> QED
  BY <1>1, KeptStep

LEMMA BeginStands ==
    ASSUME TypeOK, Standing, NEW c \in Calls, NEW op, NEW eligible,
           NEW next \in Steps \ {"ticket", "failTicket"},
           Begin(c, op, eligible, next)
    PROVE  Standing'
<1>1. /\ \A d \in Calls \ {c} : call'[d] = call[d]
      /\ call'[c].at = next /\ call'[c].note = "none"
  BY DEF TypeOK, Begin, Idle
<1> QED
  BY <1>1, KeptStep DEF Begin, db

LEMMA GuardStands ==
    ASSUME TypeOK, Standing, NEW c \in Calls, NEW op, NEW at, at # "evidence",
           NEW ok, NEW next \in Steps \ {"ticket", "failTicket"},
           Guard(c, op, at, ok, next)
    PROVE  Standing'
<1>1. Go(c, next) \/ Return(c)
  BY DEF Guard
<1> QED
  BY <1>1, GoStands, ReturnStands DEF Guard, At, db, bounds

LEMMA SeqStands ==
    ASSUME TypeOK, Standing, NEW c \in Calls,
           NEW next \in Steps \ {"ticket", "failTicket"},
           NEW n, call' = [call EXCEPT ![c].at = next, ![c].seq = n],
           call[c].at # "evidence", UNCHANGED <<ticket, packets>>,
           faults' = 0 => faults = 0
    PROVE  Standing'
<1>1. /\ \A d \in Calls \ {c} : call'[d] = call[d]
      /\ call'[c].at = next /\ call'[c].op = call[c].op
      /\ call'[c].note = call[c].note
  BY DEF TypeOK, Call
<1> QED
  BY <1>1, KeptStep

LEMMA ReadSeqStands ==
    ASSUME TypeOK, Standing, NEW c \in Calls, NEW op, NEW at, at # "evidence",
           NEW next \in Steps \ {"ticket", "failTicket"},
           ReadSeq(c, op, at, next)
    PROVE  Standing'
BY SeqStands DEF ReadSeq, At, db, bounds

LEMMA InsertEventStands ==
    ASSUME TypeOK, Standing, NEW c \in Calls, NEW op, NEW at, at # "evidence",
           NEW type, NEW note,
           NEW next \in Steps \ {"ticket", "failTicket"},
           InsertEvent(c, op, at, type, note, next)
    PROVE  Standing'
<1>1. CASE Return(c)
  BY <1>1, ReturnStands DEF InsertEvent, bounds
<1>2. CASE ~Return(c)
  <2>1. /\ \A d \in Calls \ {c} : call'[d] = call[d]
        /\ call'[c].at = next /\ call'[c].op = call[c].op
        /\ call'[c].note = call[c].note
    BY <1>2, AfterInsert DEF InsertEvent
  <2> QED
    BY <2>1, KeptStep DEF InsertEvent, At, bounds
<1> QED
  BY <1>1, <1>2

\* A packet written before the update is what the update rests on.
LEMMA InsertPacketStands ==
    ASSUME TypeOK, Standing, NEW c \in Calls, NEW op, NEW at, at # "evidence",
           NEW kind \in Kinds, NEW note,
           NEW next \in Steps, InsertPacket(c, op, at, kind, note, next),
           next = "ticket" =>
               /\ op = "classify" => kind = "handoff"
               /\ op = "injectFailure" => kind = "failure" /\ note \in Crashes
               /\ op = "injectLoop" => kind = "failure" /\ note \in Loops
               /\ op = "requestInput" => kind = "question"
               /\ op = "submitResponse" => kind = "response"
               /\ op = "hold" => kind = "recovery"
               /\ op = "specialist" => kind = "artifact",
           next = "failTicket" => kind = "failure" /\ note \in Crashes
    PROVE  Standing'
<1> DEFINE p == [kind |-> kind, event |-> call[c].link, ref |-> call[c].ref,
                 note |-> note]
<1>1. packets' = Append(packets, p) /\ packets \in Seq(Packet)
  BY DEF InsertPacket, TypeOK
<1>2. /\ HasPacket(kind)'
      /\ kind = "failure" => \A types : note \in types => HasFailure(types)'
  <2>1. /\ Len(packets) + 1 \in DOMAIN packets'
        /\ packets'[Len(packets) + 1] = p
    BY <1>1
  <2>2. p.kind = kind /\ p.note = note
    OBVIOUS
  <2> HIDE DEF p
  <2> QED
    BY <2>1, <2>2 DEF HasPacket, HasFailure
<1>3. PacketsStay
  <2>1. ASSUME NEW i \in DOMAIN packets
        PROVE  i \in DOMAIN packets' /\ packets'[i] = packets[i]
    BY <1>1
  <2> HIDE DEF p
  <2> QED
    BY <2>1 DEF PacketsStay, HasPacket, HasFailure
<1>4. /\ \A d \in Calls \ {c} : call'[d] = call[d]
      /\ \/ call'[c] = Idle
         \/ /\ call'[c].at = next /\ call'[c].op = op
            /\ call'[c].note = call[c].note
  <2>1. Go(c, next) \/ Return(c)
    BY DEF InsertPacket
  <2>2. CASE Go(c, next)
    BY <2>2, LocalGo, GoFields DEF InsertPacket, At
  <2>3. CASE Return(c)
    BY <2>3, LocalReturn
  <2> QED
    BY <2>1, <2>2, <2>3
<1>5. UpdateOk(c)'
  <2>1. CASE call'[c] = Idle
    BY <2>1 DEF UpdateOk, Idle
  <2>2. CASE /\ call'[c].at = next /\ call'[c].op = op
             /\ call'[c].note = call[c].note
    <3>1. call[c].op = op /\ call[c].at = at
      BY DEF InsertPacket, At
    <3>2. op = "qa" /\ call[c].note = "pass" => HasPacket("artifact")'
      BY <1>3, <3>1 DEF Standing, UpdateJustified, UpdateOk, PacketsStay
    <3> QED
      BY <1>2, <2>2, <3>2 DEF UpdateOk
  <2> QED
    BY <1>4, <2>1, <2>2
<1> QED
  BY <1>3, <1>4, <1>5, StandingStep DEF InsertPacket, bounds

\* The update itself: the row it leaves must have its packet.
LEMMA UpdateTicketStands ==
    ASSUME TypeOK, Standing, NEW c \in Calls, NEW op, NEW at, NEW row,
           UpdateTicket(c, op, at, row), Justified(ticket.status)'
    PROVE  Standing'
<1>1. /\ \A d \in Calls \ {c} : call'[d] = call[d]
      /\ call'[c] = Idle /\ UNCHANGED <<packets, faults>>
  BY LocalReturn DEF UpdateTicket, bounds
<1>2. UpdateOk(c)'
  BY <1>1 DEF UpdateOk, Idle
<1>3. ASSUME NEW d \in Calls, d # c
      PROVE  UpdateOk(d)'
  BY <1>1, <1>3 DEF Standing, UpdateJustified, UpdateOk, HasPacket, HasFailure
<1> QED
  BY <1>2, <1>3 DEF Standing, StatusHasEvidence, UpdateJustified

----------------------------------------------------------------------------
(* Every operation keeps the standing. *)

\* An update may give the ticket a status whose packet is on record.
LEMMA UpdateStatus ==
    ASSUME TypeOK, Standing, NEW c \in Calls, NEW op, NEW at, NEW row \in Row,
           UpdateTicket(c, op, at, row),
           row.status = "in_progress" =>
               HasPacket("handoff") \/ HasPacket("response"),
           row.status = "done" => HasPacket("artifact"),
           row.status = "looped" => row.sig /\ HasFailure(Loops),
           row.status = "needs_input" =>
               HasPacket("question") \/ HasPacket("recovery"),
           row.status = "failed" /\ faults = 0 => HasFailure(Crashes)
    PROVE  Standing'
<1>1. /\ ticket' = row /\ faults' = faults
      /\ \A k : HasPacket(k)' <=> HasPacket(k)
      /\ \A types : HasFailure(types)' <=> HasFailure(types)
  BY DEF UpdateTicket, bounds, HasPacket, HasFailure
<1>2. row.status \in Statuses
  BY DEF Row
<1>3. (ticket.status)' = row.status /\ (ticket.sig)' = row.sig
  BY <1>1
<1>4. Justified(ticket.status)'
  <2>1. CASE row.status = "open"
    BY <1>3, <2>1 DEF Justified
  <2>2. CASE row.status = "in_progress"
    BY <1>1, <1>3, <2>2 DEF Justified
  <2>3. CASE row.status = "done"
    BY <1>1, <1>3, <2>3 DEF Justified
  <2>4. CASE row.status = "failed"
    BY <1>1, <1>3, <2>4 DEF Justified
  <2>5. CASE row.status = "looped"
    BY <1>1, <1>3, <2>5 DEF Justified
  <2>6. CASE row.status = "needs_input"
    BY <1>1, <1>3, <2>6 DEF Justified
  <2> QED
    BY <1>2, <2>1, <2>2, <2>3, <2>4, <2>5, <2>6 DEF Statuses
<1> QED
  BY <1>4, UpdateTicketStands

\* A write the catch block skips costs a fault, which excuses the packet.
LEMMA IgnoreFailStands ==
    ASSUME TypeOK, Standing, NEW c \in Calls, IgnoreFailWriteError(c)
    PROVE  Standing'
<1>1. /\ faults \in Nat /\ faults' = faults + 1 /\ UNCHANGED <<ticket, packets>>
      /\ call[c].op = "classify"
  BY BoundsAssumption DEF IgnoreFailWriteError, At, db, TypeOK
<1>2. PICK next \in {"failEvent", "failPacket", "failTicket"} : Go(c, next)
  BY DEF IgnoreFailWriteError
<1>3. /\ \A d \in Calls \ {c} : call'[d] = call[d]
      /\ call'[c].at = next /\ call'[c].op = "classify"
  BY <1>1, <1>2, LocalGo, GoFields DEF Steps
<1>4. UpdateOk(c)'
  BY <1>1, <1>3 DEF UpdateOk
<1> QED
  BY <1>1, <1>3, <1>4, StandingStep DEF PacketsStay, HasPacket, HasFailure

LEMMA FindQuestionStands ==
    ASSUME TypeOK, Standing, NEW c \in Calls, FindQuestion(c)
    PROVE  Standing'
<1>1. CASE Return(c)
  BY <1>1, ReturnStands DEF FindQuestion, db, bounds
<1>2. CASE ~Return(c)
  <2>1. PICK q \in Unresolved :
              call' = [call EXCEPT ![c].at = "run", ![c].ref = q]
    BY <1>2 DEF FindQuestion
  <2>2. /\ \A d \in Calls \ {c} : call'[d] = call[d]
        /\ call'[c].at = "run" /\ call'[c].op = call[c].op
        /\ call'[c].note = call[c].note
    BY <2>1 DEF TypeOK, Call
  <2> QED
    BY <2>2, KeptStep DEF FindQuestion, At, db, bounds
<1> QED
  BY <1>1, <1>2

\* The review takes its result from the events, and lowers it to a failure
\* unless the artifact's packet is on record when it looks.
LEMMA QaReadsStand ==
    ASSUME TypeOK, Standing, NEW c \in Calls,
           \/ QaReadEvents(c) \/ QaReadPacket(c)
           \/ QaCheckExisting(c) \/ TruthCheckExisting(c)
    PROVE  Standing'
<1>1. call[c].op = "qa" /\ UNCHANGED <<ticket, packets, faults>>
  BY DEF QaReadEvents, QaReadPacket, QaCheckExisting, TruthCheckExisting, At,
         db, bounds
<1>2. CASE Return(c)
  BY <1>1, <1>2, ReturnStands
<1>3. CASE QaReadEvents(c) /\ ~Return(c)
  <2>1. PICK n, v : call' = [call EXCEPT ![c].at = "evidence",
                                         ![c].link = n, ![c].note = v]
    BY <1>3 DEF QaReadEvents
  <2>2. /\ \A d \in Calls \ {c} : call'[d] = call[d]
        /\ call'[c].at = "evidence"
    BY <2>1 DEF TypeOK, Call
  <2> QED
    BY <1>1, <2>2, StandingStep DEF UpdateOk, PacketsStay, HasPacket, HasFailure
<1>4. CASE QaReadPacket(c)
  <2> DEFINE seen == \E i \in DOMAIN packets :
                        /\ packets[i].kind = "artifact"
                        /\ packets[i].event = call[c].link
             v == IF seen THEN call[c].note ELSE "fail"
  <2>1. call' = [call EXCEPT ![c].at = "qaCheck", ![c].link = 0, ![c].note = v]
    BY <1>4 DEF QaReadPacket, TypeOK
  <2>2. v = "pass" => HasPacket("artifact")
    BY DEF HasPacket
  <2> HIDE DEF v
  <2>3. /\ \A d \in Calls \ {c} : call'[d] = call[d]
        /\ call'[c].at = "qaCheck" /\ call'[c].note = v
    BY <2>1 DEF TypeOK, Call
  <2>4. UpdateOk(c)'
    BY <1>1, <2>2, <2>3 DEF UpdateOk, HasPacket
  <2> QED
    BY <1>1, <2>3, <2>4, StandingStep DEF PacketsStay, HasPacket, HasFailure
<1>5. CASE QaCheckExisting(c)
  <2>1. /\ \A d \in Calls \ {c} : call'[d] = call[d]
        /\ call[c].at = "qaCheck"
        /\ call'[c].at = "truthCheck" /\ call'[c].op = call[c].op
        /\ call'[c].note = call[c].note
    BY <1>5 DEF TypeOK, Call, QaCheckExisting, Go, At
  <2> QED
    BY <1>1, <2>1, KeptStep
<1>6. CASE TruthCheckExisting(c) /\ ~Return(c)
  <2>1. /\ \A d \in Calls \ {c} : call'[d] = call[d]
        /\ call[c].at = "truthCheck"
        /\ call'[c].at = "run" /\ call'[c].op = call[c].op
        /\ call'[c].note = call[c].note
    BY <1>6 DEF TypeOK, Call, TruthCheckExisting, At
  <2> QED
    BY <1>1, <2>1, KeptStep
<1> QED
  BY <1>2, <1>3, <1>4, <1>5, <1>6

LEMMA FindPacketStands ==
    ASSUME TypeOK, Standing, NEW c \in Calls, QaFindPacket(c)
    PROVE  Standing'
<1>1. PICK q : call' = [call EXCEPT ![c].at = "truthEvent", ![c].ref = q]
  BY DEF QaFindPacket
<1>2. /\ \A d \in Calls \ {c} : call'[d] = call[d]
      /\ call[c].at = "verdict"
      /\ call'[c].at = "truthEvent" /\ call'[c].op = call[c].op
      /\ call'[c].note = call[c].note
  BY <1>1 DEF TypeOK, Call, QaFindPacket, At
<1> QED
  BY <1>2, KeptStep DEF QaFindPacket, db, bounds

\* An ignored read error can only lower the result of the review.
LEMMA IgnoreReadStands ==
    ASSUME TypeOK, Standing, NEW c \in Calls, IgnoreQaReadError(c)
    PROVE  Standing'
<1>1. faults \in Nat /\ faults' = faults + 1 /\ UNCHANGED <<ticket, packets>>
  BY BoundsAssumption DEF IgnoreQaReadError, db, TypeOK
<1>2. /\ \A d \in Calls \ {c} : call'[d] = call[d]
      /\ call'[c].at \in {"qaCheck", "truthCheck", "run", "truthEvent"}
      /\ \/ call'[c].note = "fail"
         \/ /\ call'[c].op = call[c].op /\ call'[c].note = call[c].note
            /\ call[c].at # "evidence"
  BY DEF IgnoreQaReadError, At, Go, TypeOK, Call
<1> QED
  BY <1>1, <1>2, KeptStep

\* What the updates write, and what is on record when they do.
LEMMA StatusOf ==
    ASSUME TypeOK
    PROVE  /\ \A s \in Statuses : SetStatus(s) \in Row /\ SetStatus(s).status = s
           /\ \A s \in Statuses, t \in FailureTypes :
                 Fail(s, t) \in Row /\ Fail(s, t).status = s
           /\ \A r \in Row : LET l == [r EXCEPT !.sig = TRUE]
                             IN  l \in Row /\ l.sig /\ l.status = r.status
BY DEF TypeOK, SetStatus, Fail, Row

LEMMA UpdateFacts ==
    ASSUME Standing, NEW c \in Calls, NEW op, NEW at, NEW row,
           UpdateTicket(c, op, at, row)
    PROVE  /\ ticket' = row /\ faults' = faults
           /\ \A k : HasPacket(k)' <=> HasPacket(k)
           /\ call[c].op = op /\ call[c].at = at /\ UpdateOk(c)
BY DEF UpdateTicket, At, bounds, HasPacket, Standing, UpdateJustified

LEMMA ClassifyStands ==
    ASSUME Ledger, Standing, NEW c \in Calls, RunOrchestratorClassification(c)
    PROVE  Standing'
<1> USE DEF Ledger, Steps, Kinds, EventsOf
<1>1. CASE Begin(c, "classify", ticket.status = "open", "check")
  BY <1>1, BeginStands
<1>2. CASE Guard(c, "classify", "check", ~HasEvent("orchestrator.classified"), "run")
  BY <1>2, GuardStands
<1>3. CASE OpenClassifyRun(c)
  BY <1>3, SeqStands DEF OpenClassifyRun, At, bounds
<1>4. CASE CloseClassifyRun(c)
  BY <1>4, GoStands DEF CloseClassifyRun, At, bounds
<1>5. CASE InsertEvent(c, "classify", "event", "orchestrator.classified", "none", "packet")
  BY <1>5, InsertEventStands
<1>6. CASE InsertPacket(c, "classify", "packet", "handoff", "none", "ticket")
  BY <1>6, InsertPacketStands
<1>7. CASE UpdateTicket(c, "classify", "ticket", SetStatus("in_progress"))
  BY <1>7, StatusOf, UpdateFacts, UpdateStatus
     DEF UpdateOk, Statuses, FailureTypes
<1>8. CASE InsertFailEvent(c)
  BY <1>8, InsertEventStands, GoStands DEF InsertFailEvent, At, db, bounds
<1>9. CASE InsertPacket(c, "classify", "failPacket", "failure", "model_error", "failTicket")
  BY <1>9, InsertPacketStands DEF Crashes
<1>10. CASE UpdateTicket(c, "classify", "failTicket", Fail("failed", "model_error"))
  BY <1>10, StatusOf, UpdateFacts, UpdateStatus
     DEF UpdateOk, Statuses, FailureTypes
<1>11. CASE IgnoreFailWriteError(c)
  BY <1>11, IgnoreFailStands
<1> QED
  BY <1>1, <1>2, <1>3, <1>4, <1>5, <1>6, <1>7, <1>8, <1>9, <1>10, <1>11
     DEF RunOrchestratorClassification

LEMMA InjectFailureStands ==
    ASSUME Ledger, Standing, NEW c \in Calls, InjectControlledFailure(c)
    PROVE  Standing'
<1> USE DEF Ledger, Steps, Kinds, EventsOf
<1>1. CASE Begin(c, "injectFailure", ticket.status \in {"open", "in_progress"}, "check")
  BY <1>1, BeginStands
<1>2. CASE Guard(c, "injectFailure", "check", ~HasPacket("failure"), "run")
  BY <1>2, GuardStands
<1>3. CASE ReadSeq(c, "injectFailure", "run", "event")
  BY <1>3, ReadSeqStands
<1>4. CASE InsertEvent(c, "injectFailure", "event", "failure.injected", "none", "packet")
  BY <1>4, InsertEventStands
<1>5. CASE InsertPacket(c, "injectFailure", "packet", "failure", "execution_error", "ticket")
  BY <1>5, InsertPacketStands DEF Crashes
<1>6. CASE UpdateTicket(c, "injectFailure", "ticket", Fail("failed", "execution_error"))
  BY <1>6, StatusOf, UpdateFacts, UpdateStatus
     DEF UpdateOk, Statuses, FailureTypes
<1> QED
  BY <1>1, <1>2, <1>3, <1>4, <1>5, <1>6
     DEF InjectControlledFailure

LEMMA InjectLoopStands ==
    ASSUME Ledger, Standing, NEW c \in Calls, InjectControlledLoop(c)
    PROVE  Standing'
<1> USE DEF Ledger, Steps, Kinds, EventsOf
<1>1. CASE Begin(c, "injectLoop", /\ ticket.status \in {"open", "in_progress"}
                                  /\ ~ticket.sig, "check")
  BY <1>1, BeginStands
<1>2. CASE Guard(c, "injectLoop", "check", ~HasPacket("failure") /\ ~ticket.sig, "run")
  BY <1>2, GuardStands
<1>3. CASE ReadSeq(c, "injectLoop", "run", "event")
  BY <1>3, ReadSeqStands
<1>4. CASE InsertEvent(c, "injectLoop", "event", "loop.iteration.detected", "none", "event2")
  BY <1>4, InsertEventStands
<1>5. CASE InsertEvent(c, "injectLoop", "event2", "loop.iteration.detected", "none", "event3")
  BY <1>5, InsertEventStands
<1>6. CASE InsertEvent(c, "injectLoop", "event3", "loop.terminated", "none", "packet")
  BY <1>6, InsertEventStands
<1>7. CASE InsertPacket(c, "injectLoop", "packet", "failure", "timeout", "ticket")
  BY <1>7, InsertPacketStands DEF Loops
<1>8. CASE UpdateTicket(c, "injectLoop", "ticket", 
                        [Fail("looped", "timeout") EXCEPT !.sig = TRUE])
  <2> DEFINE r == Fail("looped", "timeout")
             row == [r EXCEPT !.sig = TRUE]
  <2>1. r \in Row /\ r.status = "looped"
    BY StatusOf DEF Statuses, FailureTypes
  <2>2. row \in Row /\ row.sig /\ row.status = "looped"
    BY <2>1, StatusOf
  <2>3. UpdateTicket(c, "injectLoop", "ticket", row)
    BY <1>8
  <2> HIDE DEF row
  <2>4. HasFailure(Loops)
    BY <2>3, UpdateFacts DEF UpdateOk
  <2> QED
    BY <2>2, <2>3, <2>4, UpdateStatus
<1> QED
  BY <1>1, <1>2, <1>3, <1>4, <1>5, <1>6, <1>7, <1>8
     DEF InjectControlledLoop

LEMMA RequestStands ==
    ASSUME Ledger, Standing, NEW c \in Calls, RequestNeedsInput(c)
    PROVE  Standing'
<1> USE DEF Ledger, Steps, Kinds, EventsOf
<1>1. CASE Begin(c, "requestInput", ticket.status \in {"open", "in_progress"}, "check")
  BY <1>1, BeginStands
<1>2. CASE Guard(c, "requestInput", "check", Unresolved = {}, "run")
  BY <1>2, GuardStands
<1>3. CASE ReadSeq(c, "requestInput", "run", "event")
  BY <1>3, ReadSeqStands
<1>4. CASE InsertEvent(c, "requestInput", "event", "input.requested", "none", "packet")
  BY <1>4, InsertEventStands
<1>5. CASE InsertPacket(c, "requestInput", "packet", "question", "none", "ticket")
  BY <1>5, InsertPacketStands
<1>6. CASE UpdateTicket(c, "requestInput", "ticket", SetStatus("needs_input"))
  BY <1>6, StatusOf, UpdateFacts, UpdateStatus
     DEF UpdateOk, Statuses, FailureTypes
<1> QED
  BY <1>1, <1>2, <1>3, <1>4, <1>5, <1>6
     DEF RequestNeedsInput

LEMMA SubmitStands ==
    ASSUME Ledger, Standing, NEW c \in Calls, SubmitNeedsInputResponse(c)
    PROVE  Standing'
<1> USE DEF Ledger, Steps, Kinds, EventsOf
<1>1. CASE Begin(c, "submitResponse", ticket.status = "needs_input", "check")
  BY <1>1, BeginStands
<1>2. CASE FindQuestion(c)
  BY <1>2, FindQuestionStands
<1>3. CASE ReadSeq(c, "submitResponse", "run", "event")
  BY <1>3, ReadSeqStands
<1>4. CASE InsertEvent(c, "submitResponse", "event", "input.responded", "none", "packet")
  BY <1>4, InsertEventStands
<1>5. CASE InsertPacket(c, "submitResponse", "packet", "response", "none", "ticket")
  BY <1>5, InsertPacketStands
<1>6. CASE UpdateTicket(c, "submitResponse", "ticket", SetStatus("in_progress"))
  BY <1>6, StatusOf, UpdateFacts, UpdateStatus
     DEF UpdateOk, Statuses, FailureTypes
<1> QED
  BY <1>1, <1>2, <1>3, <1>4, <1>5, <1>6
     DEF SubmitNeedsInputResponse

LEMMA ReopenStands ==
    ASSUME Ledger, Standing, NEW c \in Calls, ReopenFailedTicket(c)
    PROVE  Standing'
<1> USE DEF Ledger, Steps, Kinds, EventsOf
<1>1. CASE Begin(c, "reopen", ticket.status = "failed", "check")
  BY <1>1, BeginStands
<1>2. CASE Guard(c, "reopen", "check", HasPacket("failure"), "run")
  BY <1>2, GuardStands
<1>3. CASE ReadSeq(c, "reopen", "run", "event")
  BY <1>3, ReadSeqStands
<1>4. CASE InsertEvent(c, "reopen", "event", "recovery.requested", "none", "packet")
  BY <1>4, InsertEventStands
<1>5. CASE InsertPacket(c, "reopen", "packet", "recovery", "none", "ticket")
  BY <1>5, InsertPacketStands
<1>6. CASE UpdateTicket(c, "reopen", "ticket", SetStatus("open"))
  BY <1>6, StatusOf, UpdateFacts, UpdateStatus
     DEF UpdateOk, Statuses, FailureTypes
<1> QED
  BY <1>1, <1>2, <1>3, <1>4, <1>5, <1>6
     DEF ReopenFailedTicket, WriteRecoveryEvidence

LEMMA HoldStands ==
    ASSUME Ledger, Standing, NEW c \in Calls, HoldLoopedTicket(c)
    PROVE  Standing'
<1> USE DEF Ledger, Steps, Kinds, EventsOf
<1>1. CASE Begin(c, "hold", ticket.status = "looped" /\ ticket.sig, "run")
  BY <1>1, BeginStands
<1>2. CASE ReadSeq(c, "hold", "run", "event")
  BY <1>2, ReadSeqStands
<1>3. CASE InsertEvent(c, "hold", "event", "recovery.hold_requested", "none", "packet")
  BY <1>3, InsertEventStands
<1>4. CASE InsertPacket(c, "hold", "packet", "recovery", "none", "ticket")
  BY <1>4, InsertPacketStands
<1>5. CASE UpdateTicket(c, "hold", "ticket", SetStatus("needs_input"))
  BY <1>5, StatusOf, UpdateFacts, UpdateStatus
     DEF UpdateOk, Statuses, FailureTypes
<1> QED
  BY <1>1, <1>2, <1>3, <1>4, <1>5
     DEF HoldLoopedTicket, WriteRecoveryEvidence

LEMMA SpecialistStands ==
    ASSUME Ledger, Standing, NEW c \in Calls, RunCoordinatorSpecialistPass(c)
    PROVE  Standing'
<1> USE DEF Ledger, Steps, Kinds, EventsOf
<1>1. CASE Begin(c, "specialist", ticket.status = "in_progress", "check")
  BY <1>1, BeginStands
<1>2. CASE Guard(c, "specialist", "check",
                 HasEvent("orchestrator.classified") /\ artifacts = 0, "run")
  BY <1>2, GuardStands
<1>3. CASE ReadSeq(c, "specialist", "run", "event")
  BY <1>3, ReadSeqStands
<1>4. CASE InsertEvent(c, "specialist", "event", "coordinator.routed", "none", "artifact")
  BY <1>4, InsertEventStands
<1>5. CASE InsertArtifact(c)
  BY <1>5, GoStands DEF InsertArtifact, At, bounds
<1>6. CASE InsertEvent(c, "specialist", "event2", "specialist.artifact.created", "none", "packet")
  BY <1>6, InsertEventStands
<1>7. CASE InsertPacket(c, "specialist", "packet", "artifact", "none", "ticket")
  BY <1>7, InsertPacketStands
<1>8. CASE UpdateTicket(c, "specialist", "ticket", SetStatus("done"))
  BY <1>8, StatusOf, UpdateFacts, UpdateStatus
     DEF UpdateOk, Statuses, FailureTypes
<1> QED
  BY <1>1, <1>2, <1>3, <1>4, <1>5, <1>6, <1>7, <1>8
     DEF RunCoordinatorSpecialistPass

LEMMA ReviewStands ==
    ASSUME Ledger, Standing, NEW c \in Calls, RunQaTruthReview(c)
    PROVE  Standing'
<1> USE DEF Ledger, Steps, Kinds, EventsOf
<1>1. CASE Begin(c, "qa", TRUE, "events")
  BY <1>1, BeginStands
<1>2. CASE \/ QaReadEvents(c) \/ QaReadPacket(c)
           \/ QaCheckExisting(c) \/ TruthCheckExisting(c)
  BY <1>2, QaReadsStand
<1>3. CASE QaReadSeq(c)
  BY <1>3, ReadSeqStands DEF QaReadSeq
<1>4. CASE InsertEvent(c, "qa", "qaEvent", "qa.validated", call[c].note, "qaPacket")
  BY <1>4, InsertEventStands
<1>5. CASE InsertPacket(c, "qa", "qaPacket", "qa", call[c].note,
                        IF call[c].skip THEN "idle" ELSE "verdict")
  BY <1>5, InsertPacketStands
<1>6. CASE QaFindPacket(c) \/ IgnoreQaReadError(c)
  BY <1>6, FindPacketStands, IgnoreReadStands
<1>7. CASE InsertPacket(c, "qa", "truthPacket", "truth", call[c].note, "ticket")
  BY <1>7, InsertPacketStands
<1>8. CASE UpdateTicket(c, "qa", "ticket",
                        IF call[c].note = "pass" /\ call[c].status # "done"
                        THEN SetStatus("done") ELSE ticket)
  <2>1. CASE call[c].note = "pass" /\ call[c].status # "done"
    <3>1. UpdateTicket(c, "qa", "ticket", SetStatus("done"))
      BY <1>8, <2>1
    <3> QED
      BY <2>1, <3>1, StatusOf, UpdateFacts, UpdateStatus DEF UpdateOk, Statuses
  <2>2. CASE ~(call[c].note = "pass" /\ call[c].status # "done")
    BY <1>8, <2>2, ReturnStands DEF UpdateTicket, bounds
  <2> QED
    BY <2>1, <2>2
<1>9. CASE InsertEvent(c, "qa", "truthEvent", "truth.verdict.recorded",
                       call[c].note, "truthPacket")
  BY <1>9, InsertEventStands
<1> QED
  BY <1>1, <1>2, <1>3, <1>4, <1>5, <1>6, <1>7, <1>8, <1>9
     DEF RunQaTruthReview

LEMMA CalendarHoldStands ==
    ASSUME Ledger, Standing, NEW c \in Calls, CreateCalendarHoldForTicket(c)
    PROVE  Standing'
<1> USE DEF Ledger, Steps, Kinds, EventsOf
<1>1. CASE Begin(c, "calendarHold", TRUE, "write")
  BY <1>1, BeginStands
<1>2. CASE CreateCalendarEvent(c)
  BY <1>2, GoStands, ReturnStands DEF CreateCalendarEvent, At, bounds
<1>3. CASE ReadSeq(c, "calendarHold", "run", "event")
  BY <1>3, ReadSeqStands
<1>4. CASE IgnoreSeqReadError(c)
  <2>1. /\ call' = [call EXCEPT ![c].at = "event", ![c].seq = 1]
        /\ call[c].at = "run" /\ UNCHANGED <<ticket, packets>>
        /\ faults \in Nat /\ faults' = faults + 1
    BY <1>4, BoundsAssumption DEF IgnoreSeqReadError, At, db, TypeOK
  <2>2. faults' = 0 => faults = 0
    BY <2>1
  <2>3. "event" \in Steps \ {"ticket", "failTicket"}
    OBVIOUS
  <2> HIDE DEF Steps
  <2> QED
    BY <2>1, <2>2, <2>3, SeqStands
<1>5. CASE InsertEvent(c, "calendarHold", "event", "tool.calendar_hold.created", "none", "packet")
  BY <1>5, InsertEventStands
<1>6. CASE InsertPacket(c, "calendarHold", "packet", "tool", "none", "idle")
  BY <1>6, InsertPacketStands
<1> QED
  BY <1>1, <1>2, <1>3, <1>4, <1>5, <1>6
     DEF CreateCalendarHoldForTicket

LEMMA IngestStands ==
    ASSUME Ledger, Standing, NEW c \in Calls, CreateBriefFromCalendarEvent(c)
    PROVE  Standing'
<1>1. CASE Begin(c, "ingest", started = 0, "run")
  BY <1>1, BeginStands DEF Ledger, Steps
<1>2. CASE InsertMarker(c)
  BY <1>2, ReturnStands DEF InsertMarker, bounds, Ledger
<1> QED
  BY <1>1, <1>2 DEF CreateBriefFromCalendarEvent

LEMMA InitStanding ==
    ASSUME Init
    PROVE  Standing
BY DEF Init, Standing, StatusHasEvidence, Justified, UpdateJustified, UpdateOk,
       Idle

LEMMA NextStanding ==
    ASSUME Ledger, Standing, [Next]_vars
    PROVE  Standing'
<1>1. CASE UNCHANGED vars
  BY <1>1 DEF vars, db, bounds, Standing, StatusHasEvidence, Justified,
              UpdateJustified, UpdateOk, HasPacket, HasFailure
<1>2. ASSUME NEW c \in Calls, Step(c)
      PROVE  Standing'
  BY <1>2, ClassifyStands, InjectFailureStands, InjectLoopStands,
     RequestStands, SubmitStands, ReopenStands, HoldStands, SpecialistStands,
     ReviewStands, CalendarHoldStands, IngestStands DEF Step
<1>3. ASSUME NEW c \in Calls, Fault(c)
      PROVE  Standing'
  <2>1. faults \in Nat
    BY BoundsAssumption DEF Ledger, TypeOK
  <2> QED
    BY <1>3, <2>1, ReturnStands DEF Fault, db, Ledger
<1> QED
  BY <1>1, <1>2, <1>3 DEF Next

\* The status of a ticket never runs ahead of the packet that explains it.
THEOREM StatusIsJustified == Spec => []StatusHasEvidence
<1>1. Init => Standing
  BY InitStanding
<1>2. Ledger /\ Standing /\ [Next]_vars => Standing'
  BY NextStanding
<1>3. Standing => StatusHasEvidence
  BY DEF Standing
<1> QED
  BY <1>1, <1>2, <1>3, LedgerInvariant, PTL DEF Spec

----------------------------------------------------------------------------
(* SignatureShowsLoop and ChainInOrder *)

\* The operations that write several rows in order.
Chained == {"injectLoop", "specialist", "qa"}

\* Whatever is on the trace, or before a number on it, stays there.
LEMMA Stays ==
    ASSUME trace \subseteq trace'
    PROVE  /\ \A type, n : EventAt(type, n) => EventAt(type, n)'
           /\ \A type, n : EventBefore(type, n) => EventBefore(type, n)'
           /\ \A type : HasEvent(type) => HasEvent(type)'
           /\ LoopShown => LoopShown'
           /\ \A e : Follows(e) => Follows(e)'
<1>1. \A type, n : EventAt(type, n) => EventAt(type, n)'
  BY DEF EventAt
<1>2. \A type, n : EventBefore(type, n) => EventBefore(type, n)'
  BY DEF EventBefore
<1>3. \A type : HasEvent(type) => HasEvent(type)'
  BY DEF HasEvent
<1>4. LoopShown => LoopShown'
  BY <1>1 DEF LoopShown
<1>5. \A e : Follows(e) => Follows(e)'
  BY <1>1, <1>2 DEF Follows
<1> QED
  BY <1>1, <1>2, <1>3, <1>4, <1>5

\* A step of c that adds nothing out of order keeps the chain if what c now
\* has in hand is on the trace: the others' rows are still there.
LEMMA ChainStep ==
    ASSUME Chain, NEW c \in Calls, trace \subseteq trace',
           \A e \in trace' \ trace : Follows(e)',
           \A d \in Calls \ {c} : call'[d] = call[d],
           (ticket.sig)' => ticket.sig \/ LoopShown',
           artifacts > 0 => artifacts' > 0,
           HasEvent("specialist.artifact.created")' =>
               HasEvent("specialist.artifact.created") \/ artifacts' > 0,
           InHand(c)'
    PROVE  Chain'
<1>1. SignatureShowsLoop'
  BY Stays DEF Chain, SignatureShowsLoop
<1>2. ChainInOrder'
  BY Stays DEF Chain, ChainInOrder
<1>3. ArtifactOnRecord'
  BY DEF Chain, ArtifactOnRecord
<1>4. ASSUME NEW d \in Calls, d # c
      PROVE  InHand(d)'
  <2>1. InHand(d) /\ call'[d] = call[d]
    BY <1>4 DEF Chain
  <2>2. CASE call[d].op = "injectLoop"
    BY <2>1, <2>2, Stays DEF InHand
  <2>3. CASE call[d].op = "specialist"
    BY <2>1, <2>3, Stays DEF InHand
  <2>4. CASE call[d].op = "qa"
    BY <2>1, <2>4, Stays DEF InHand
  <2> QED
    BY <2>1, <2>2, <2>3, <2>4 DEF InHand
<1> QED
  BY <1>1, <1>2, <1>3, <1>4 DEF Chain

\* A step on the same rows.
LEMMA SameRows ==
    ASSUME Chain, NEW c \in Calls, UNCHANGED trace,
           \A d \in Calls \ {c} : call'[d] = call[d],
           (ticket.sig)' => ticket.sig \/ LoopShown,
           artifacts > 0 => artifacts' > 0, InHand(c)'
    PROVE  Chain'
BY Stays, ChainStep DEF HasEvent

\* An invocation that owes nothing to the chain.
Free(k) == k.op \notin Chained \/ k.at \in {"idle", "check", "events"}

LEMMA FreeHand ==
    ASSUME NEW c, Free(call[c])
    PROVE  InHand(c)
BY DEF Free, Chained, InHand

\* A step on the same rows after which c owes nothing.
LEMMA FreeStep ==
    ASSUME Chain, NEW c \in Calls, UNCHANGED trace,
           \A d \in Calls \ {c} : call'[d] = call[d],
           (ticket.sig)' => ticket.sig \/ LoopShown,
           artifacts > 0 => artifacts' > 0, Free(call'[c])
    PROVE  Chain'
<1>1. InHand(c)'
  BY DEF Free, Chained, InHand
<1> QED
  BY <1>1, SameRows

LEMMA ReturnChains ==
    ASSUME TypeOK, Chain, NEW c \in Calls, Return(c), UNCHANGED trace,
           (ticket.sig)' => ticket.sig \/ LoopShown,
           artifacts > 0 => artifacts' > 0
    PROVE  Chain'
<1>1. /\ \A d \in Calls \ {c} : call'[d] = call[d]
      /\ call'[c] = Idle
  BY LocalReturn
<1> QED
  BY <1>1, FreeStep DEF Free, Idle, Chained

LEMMA BeginChains ==
    ASSUME TypeOK, Chain, NEW c \in Calls, NEW op, NEW eligible, NEW next \in Steps,
           Begin(c, op, eligible, next),
           op \notin Chained \/ next \in {"check", "events"}
    PROVE  Chain'
<1>1. /\ \A d \in Calls \ {c} : call'[d] = call[d]
      /\ call'[c].at = next /\ call'[c].op = op
  BY DEF TypeOK, Begin, Idle
<1> QED
  BY <1>1, FreeStep DEF Begin, db, Free

LEMMA GoChains ==
    ASSUME TypeOK, Chain, NEW c \in Calls, NEW next \in Steps, Go(c, next),
           call[c].op \notin Chained, UNCHANGED <<trace, ticket, artifacts>>
    PROVE  Chain'
<1>1. /\ \A d \in Calls \ {c} : call'[d] = call[d]
      /\ call'[c].op = call[c].op
  BY LocalGo, GoFields
<1> QED
  BY <1>1, FreeStep DEF Free

LEMMA GuardChains ==
    ASSUME TypeOK, Chain, NEW c \in Calls, NEW op, op \notin Chained, NEW at,
           NEW ok, NEW next \in Steps, Guard(c, op, at, ok, next)
    PROVE  Chain'
<1>1. Go(c, next) \/ Return(c)
  BY DEF Guard
<1> QED
  BY <1>1, GoChains, ReturnChains DEF Guard, At, db

LEMMA SeqChains ==
    ASSUME TypeOK, Chain, NEW c \in Calls, NEW next, NEW n,
           call' = [call EXCEPT ![c].at = next, ![c].seq = n],
           call[c].op \notin Chained, UNCHANGED <<trace, ticket, artifacts>>
    PROVE  Chain'
<1>1. /\ \A d \in Calls \ {c} : call'[d] = call[d]
      /\ call'[c].op = call[c].op
  BY DEF TypeOK, Call
<1> QED
  BY <1>1, FreeStep DEF Free

LEMMA ReadSeqChains ==
    ASSUME TypeOK, Chain, NEW c \in Calls, NEW op, op \notin Chained, NEW at,
           NEW next, ReadSeq(c, op, at, next)
    PROVE  Chain'
BY SeqChains DEF ReadSeq, At, db

\* The types of the rows that something must come before.
ChainTypes == {"coordinator.routed", "specialist.artifact.created",
               "qa.validated", "truth.verdict.recorded"}

\* The row an insert that does not fail adds, and what c remembers of it.
LEMMA InsertFacts ==
    ASSUME TypeOK, NEW c \in Calls, NEW op, NEW at, NEW type, NEW note,
           NEW next \in Steps, InsertEvent(c, op, at, type, note, next),
           ~(Return(c) /\ UNCHANGED trace)
    PROVE  /\ call[c].op = op /\ call[c].at = at /\ UNCHANGED <<ticket, artifacts>>
           /\ trace \subseteq trace'
           /\ \E e \in trace' : /\ e.seq = call[c].seq /\ e.type = type
                                /\ \A f \in trace' : f \in trace \/ f = e
           /\ \A d \in Calls \ {c} : call'[d] = call[d]
           /\ call'[c].op = op /\ call'[c].at = next
           /\ call'[c].seq = call[c].seq + 1
<1> DEFINE new == [seq |-> call[c].seq, type |-> type, note |-> note]
<1>1. trace' = trace \union {new} /\ new.seq = call[c].seq /\ new.type = type
  BY DEF InsertEvent
<1>2. /\ \A d \in Calls \ {c} : call'[d] = call[d]
      /\ call'[c].op = call[c].op /\ call'[c].at = next
      /\ call'[c].seq = call[c].seq + 1
  BY AfterInsert DEF InsertEvent
<1>3. call[c].op = op /\ call[c].at = at /\ UNCHANGED <<ticket, artifacts>>
  BY DEF InsertEvent, At
<1> HIDE DEF new
<1> QED
  BY <1>1, <1>2, <1>3

\* An event that is none of the chain's, by an operation that is not either.
LEMMA InsertEventChains ==
    ASSUME TypeOK, Chain, NEW c \in Calls, NEW op, op \notin Chained, NEW at,
           NEW type, type \notin ChainTypes, NEW note, NEW next \in Steps,
           InsertEvent(c, op, at, type, note, next)
    PROVE  Chain'
<1>1. CASE Return(c) /\ UNCHANGED trace
  BY <1>1, ReturnChains DEF InsertEvent
<1>2. CASE ~(Return(c) /\ UNCHANGED trace)
  <2>1. /\ trace \subseteq trace' /\ UNCHANGED <<ticket, artifacts>>
        /\ \A d \in Calls \ {c} : call'[d] = call[d]
        /\ call'[c].op = op
    BY <1>2, InsertFacts
  <2>2. PICK e \in trace' : e.type = type /\ \A f \in trace' : f \in trace \/ f = e
    BY <1>2, InsertFacts
  <2>3. \A f \in trace' \ trace : Follows(f)'
    BY <2>2 DEF Follows, ChainTypes
  <2>4. HasEvent("specialist.artifact.created")' =>
           HasEvent("specialist.artifact.created")
    BY <2>2 DEF HasEvent, ChainTypes
  <2>5. InHand(c)'
    BY <2>1 DEF InHand, Chained
  <2> QED
    BY <2>1, <2>3, <2>4, <2>5, ChainStep
<1> QED
  BY <1>1, <1>2

LEMMA InsertPacketChains ==
    ASSUME TypeOK, Chain, NEW c \in Calls, NEW op, op \notin Chained, NEW at,
           NEW kind, NEW note, NEW next \in Steps,
           InsertPacket(c, op, at, kind, note, next)
    PROVE  Chain'
<1>1. Go(c, next) \/ Return(c)
  BY DEF InsertPacket
<1> QED
  BY <1>1, GoChains, ReturnChains DEF InsertPacket, At

LEMMA UpdateTicketChains ==
    ASSUME TypeOK, Chain, NEW c \in Calls, NEW op, NEW at, NEW row,
           UpdateTicket(c, op, at, row), row.sig => ticket.sig \/ LoopShown
    PROVE  Chain'
BY ReturnChains DEF UpdateTicket

----------------------------------------------------------------------------
(* Every operation keeps the chain. *)

\* The rows the updates of the other operations leave keep the signature.
LEMMA SignatureOf ==
    ASSUME TypeOK
    PROVE  /\ \A s : SetStatus(s).sig = ticket.sig
           /\ \A s, t : Fail(s, t).sig = ticket.sig
BY DEF TypeOK, SetStatus, Fail

LEMMA ClassifyChains ==
    ASSUME Ledger, Chain, NEW c \in Calls, RunOrchestratorClassification(c)
    PROVE  Chain'
<1> USE DEF Ledger, Steps, Chained, ChainTypes
<1>1. CASE Begin(c, "classify", ticket.status = "open", "check")
  BY <1>1, BeginChains
<1>2. CASE Guard(c, "classify", "check", ~HasEvent("orchestrator.classified"), "run")
  BY <1>2, GuardChains
<1>3. CASE OpenClassifyRun(c)
  BY <1>3, SeqChains DEF OpenClassifyRun, At
<1>4. CASE CloseClassifyRun(c)
  BY <1>4, GoChains DEF CloseClassifyRun, At
<1>5. CASE InsertEvent(c, "classify", "event", "orchestrator.classified", "none", "packet")
  BY <1>5, InsertEventChains
<1>6. CASE InsertPacket(c, "classify", "packet", "handoff", "none", "ticket")
  BY <1>6, InsertPacketChains
<1>7. CASE UpdateTicket(c, "classify", "ticket", SetStatus("in_progress"))
  BY <1>7, UpdateTicketChains, SignatureOf
<1>8. CASE InsertFailEvent(c)
  BY <1>8, InsertEventChains, GoChains DEF InsertFailEvent, At, db
<1>9. CASE InsertPacket(c, "classify", "failPacket", "failure", "model_error", "failTicket")
  BY <1>9, InsertPacketChains
<1>10. CASE UpdateTicket(c, "classify", "failTicket", Fail("failed", "model_error"))
  BY <1>10, UpdateTicketChains, SignatureOf
<1>11. CASE IgnoreFailWriteError(c)
  BY <1>11, GoChains DEF IgnoreFailWriteError, At, db
<1> QED
  BY <1>1, <1>2, <1>3, <1>4, <1>5, <1>6, <1>7, <1>8, <1>9, <1>10, <1>11
     DEF RunOrchestratorClassification

LEMMA ControlsChain ==
    ASSUME Ledger, Chain, NEW c \in Calls,
           \/ InjectControlledFailure(c)
           \/ RequestNeedsInput(c)
           \/ SubmitNeedsInputResponse(c)
           \/ ReopenFailedTicket(c)
           \/ HoldLoopedTicket(c)
    PROVE  Chain'
<1> USE DEF Ledger, Steps, Chained, ChainTypes
<1>1. CASE InjectControlledFailure(c)
  BY <1>1, BeginChains, GuardChains, ReadSeqChains, InsertEventChains,
     InsertPacketChains, UpdateTicketChains, SignatureOf
     DEF InjectControlledFailure
<1>2. CASE RequestNeedsInput(c)
  BY <1>2, BeginChains, GuardChains, ReadSeqChains, InsertEventChains,
     InsertPacketChains, UpdateTicketChains, SignatureOf
     DEF RequestNeedsInput
<1>3. CASE SubmitNeedsInputResponse(c)
  <2>1. CASE FindQuestion(c)
    <3>1. CASE Return(c)
      BY <2>1, <3>1, ReturnChains DEF FindQuestion, db
    <3>2. CASE ~Return(c)
      <4>1. PICK q \in Unresolved :
               call' = [call EXCEPT ![c].at = "run", ![c].ref = q]
        BY <2>1, <3>2 DEF FindQuestion
      <4>2. /\ \A d \in Calls \ {c} : call'[d] = call[d]
            /\ call'[c].op = "submitResponse"
        BY <2>1, <4>1 DEF FindQuestion, At, TypeOK, Call
      <4> QED
        BY <2>1, <4>2, FreeStep DEF FindQuestion, db, Free
    <3> QED
      BY <3>1, <3>2
  <2> QED
    BY <1>3, <2>1, BeginChains, ReadSeqChains, InsertEventChains,
       InsertPacketChains, UpdateTicketChains, SignatureOf
       DEF SubmitNeedsInputResponse
<1>4. CASE ReopenFailedTicket(c)
  BY <1>4, BeginChains, GuardChains, ReadSeqChains, InsertEventChains,
     InsertPacketChains, UpdateTicketChains, SignatureOf
     DEF ReopenFailedTicket, WriteRecoveryEvidence
<1>5. CASE HoldLoopedTicket(c)
  BY <1>5, BeginChains, ReadSeqChains, InsertEventChains,
     InsertPacketChains, UpdateTicketChains, SignatureOf
     DEF HoldLoopedTicket, WriteRecoveryEvidence
<1> QED
  BY <1>1, <1>2, <1>3, <1>4, <1>5

LEMMA CalendarChains ==
    ASSUME Ledger, Chain, NEW c \in Calls, CreateCalendarHoldForTicket(c)
    PROVE  Chain'
<1> USE DEF Ledger, Steps, Chained, ChainTypes
<1>1. CASE CreateCalendarEvent(c)
  BY <1>1, GoChains, ReturnChains DEF CreateCalendarEvent, At
<1>2. CASE IgnoreSeqReadError(c)
  BY <1>2, SeqChains DEF IgnoreSeqReadError, At, db
<1> QED
  BY <1>1, <1>2, BeginChains, ReadSeqChains, InsertEventChains,
     InsertPacketChains DEF CreateCalendarHoldForTicket

\* The marker is no row of the chain.
LEMMA IngestChains ==
    ASSUME Ledger, Chain, NEW c \in Calls, CreateBriefFromCalendarEvent(c)
    PROVE  Chain'
<1>1. CASE Begin(c, "ingest", started = 0, "run")
  BY <1>1, BeginChains DEF Ledger, Steps, Chained
<1>2. CASE InsertMarker(c)
  <2> DEFINE new == [seq |-> 1, type |-> "brief_ingested", note |-> "none"]
  <2>1. /\ trace \subseteq trace' /\ UNCHANGED <<ticket, artifacts>>
        /\ \A e \in trace' \ trace : e = new
    BY <1>2 DEF InsertMarker
  <2>2. new.type = "brief_ingested"
    OBVIOUS
  <2> HIDE DEF new
  <2>3. \A e \in trace' \ trace : Follows(e)'
    BY <2>1, <2>2 DEF Follows
  <2>4. HasEvent("specialist.artifact.created")' =>
           HasEvent("specialist.artifact.created")
    BY <2>1, <2>2 DEF HasEvent
  <2>5. /\ \A d \in Calls \ {c} : call'[d] = call[d]
        /\ call'[c] = Idle
    BY <1>2, LocalReturn DEF InsertMarker, Ledger
  <2>6. InHand(c)'
    BY <2>5 DEF InHand, Idle
  <2> QED
    BY <2>1, <2>3, <2>4, <2>5, <2>6, ChainStep
<1> QED
  BY <1>1, <1>2 DEF CreateBriefFromCalendarEvent

\* An event of the chain: it must follow what it needs, and what c then has in
\* hand is on the trace because the new row is.
LEMMA InsertChains ==
    ASSUME TypeOK, Chain, NEW c \in Calls, NEW op, NEW at, NEW type, NEW note,
           NEW next \in Steps, InsertEvent(c, op, at, type, note, next),
           \A e : e.type = type /\ e.seq = call[c].seq => Follows(e),
           type = "specialist.artifact.created" => artifacts > 0,
           /\ trace \subseteq trace' /\ UNCHANGED artifacts
           /\ call'[c].op = op /\ call'[c].at = next
           /\ call'[c].seq = call[c].seq + 1
           /\ EventAt(type, call[c].seq - 1)'
           => InHand(c)'
    PROVE  Chain'
<1>1. CASE Return(c) /\ UNCHANGED trace
  BY <1>1, ReturnChains DEF InsertEvent
<1>2. CASE ~(Return(c) /\ UNCHANGED trace)
  <2>1. /\ trace \subseteq trace' /\ UNCHANGED <<ticket, artifacts>>
        /\ \A d \in Calls \ {c} : call'[d] = call[d]
        /\ call'[c].op = op /\ call'[c].at = next
        /\ call'[c].seq = call[c].seq + 1
    BY <1>2, InsertFacts
  <2>2. PICK e \in trace' : /\ e.seq = call[c].seq /\ e.type = type
                            /\ \A f \in trace' : f \in trace \/ f = e
    BY <1>2, InsertFacts
  <2>3. call[c].seq \in Nat
    BY DEF TypeOK, Call
  <2>4. EventAt(type, call[c].seq - 1)'
    BY <2>1, <2>2, <2>3 DEF EventAt
  <2>5. \A f \in trace' \ trace : Follows(f)'
    BY <2>1, <2>2, Stays
  <2>6. HasEvent("specialist.artifact.created")' =>
           HasEvent("specialist.artifact.created") \/ artifacts' > 0
    BY <2>1, <2>2 DEF HasEvent
  <2> QED
    BY <2>1, <2>4, <2>5, <2>6, ChainStep
<1> QED
  BY <1>1, <1>2

\* After a read of max(seq) every row on the trace comes before the number.
LEMMA ReadSeqFacts ==
    ASSUME Ledger, NEW c \in Calls, NEW op, NEW at, NEW next \in Steps,
           ReadSeq(c, op, at, next)
    PROVE  /\ call[c].op = op /\ call[c].at = at
           /\ \A d \in Calls \ {c} : call'[d] = call[d]
           /\ call'[c].op = op /\ call'[c].at = next
           /\ UNCHANGED <<trace, ticket, artifacts>>
           /\ \A type : HasEvent(type) => EventBefore(type, call[c].seq)'
<1>1. MaxSeq \in Nat /\ Seqs = 1..MaxSeq /\ trace \subseteq Event
  BY MaxSeqValue DEF Ledger, TypeOK
<1>2. call' = [call EXCEPT ![c].at = next, ![c].seq = MaxSeq + 1]
  BY DEF ReadSeq
<1>3. UNCHANGED <<trace, ticket, artifacts>>
  BY DEF ReadSeq, db
<1>4. /\ call[c].op = op /\ call[c].at = at
      /\ \A d \in Calls \ {c} : call'[d] = call[d]
      /\ call'[c].op = op /\ call'[c].at = next /\ call'[c].seq = MaxSeq + 1
  BY <1>1, <1>2 DEF Ledger, TypeOK, Call, ReadSeq, At
<1>5. \A e \in trace : e.seq \in Nat /\ e.seq < MaxSeq + 1
  <2> TAKE e \in trace
  <2>1. e.seq \in Seqs
    BY DEF Seqs
  <2> QED
    BY <1>1, <2>1
<1>6. \A type : HasEvent(type) => EventBefore(type, call[c].seq)'
  BY <1>3, <1>4, <1>5 DEF HasEvent, EventBefore
<1> QED
  BY <1>3, <1>4, <1>6

\* Two iterations and the termination take consecutive numbers, or the call
\* returns without the signature.
LEMMA InjectLoopChains ==
    ASSUME Ledger, Chain, NEW c \in Calls, InjectControlledLoop(c)
    PROVE  Chain'
<1> USE DEF Ledger, Steps
<1>1. InHand(c) /\ call[c].seq \in Nat
  BY DEF Chain, TypeOK, Call
<1>2. CASE Begin(c, "injectLoop", /\ ticket.status \in {"open", "in_progress"}
                                  /\ ~ticket.sig, "check")
  BY <1>2, BeginChains
<1>3. CASE Guard(c, "injectLoop", "check", ~HasPacket("failure") /\ ~ticket.sig, "run")
  <2>1. CASE Return(c)
    BY <1>3, <2>1, ReturnChains DEF Guard, db
  <2>2. CASE Go(c, "run")
    <3>1. /\ \A d \in Calls \ {c} : call'[d] = call[d]
          /\ call'[c].op = "injectLoop" /\ call'[c].at = "run"
      BY <1>3, <2>2, LocalGo, GoFields DEF Guard, At
    <3>2. InHand(c)'
      BY <3>1 DEF InHand
    <3> QED
      BY <1>3, <3>1, <3>2, SameRows DEF Guard, db
  <2> QED
    BY <1>3, <2>1, <2>2 DEF Guard
<1>4. CASE ReadSeq(c, "injectLoop", "run", "event")
  <2>1. InHand(c)'
    BY <1>4, ReadSeqFacts DEF InHand
  <2> QED
    BY <1>4, <2>1, ReadSeqFacts, SameRows
<1>5. CASE InsertEvent(c, "injectLoop", "event", "loop.iteration.detected", "none", "event2")
  BY <1>5, InsertChains DEF Follows, InHand
<1>6. CASE InsertEvent(c, "injectLoop", "event2", "loop.iteration.detected", "none", "event3")
  <2>1. EventAt("loop.iteration.detected", call[c].seq - 1)
    BY <1>1, <1>6 DEF InHand, InsertEvent, At
  <2>2. ASSUME trace \subseteq trace', call'[c].seq = call[c].seq + 1
        PROVE  EventAt("loop.iteration.detected", call[c].seq - 2)'
    BY <1>1, <2>1, <2>2, Stays DEF EventAt
  <2> QED
    BY <1>6, <2>2, InsertChains DEF Follows, InHand
<1>7. CASE InsertEvent(c, "injectLoop", "event3", "loop.terminated", "none", "packet")
  <2>1. /\ EventAt("loop.iteration.detected", call[c].seq - 1)
        /\ EventAt("loop.iteration.detected", call[c].seq - 2)
    BY <1>1, <1>7 DEF InHand, InsertEvent, At
  <2>2. ASSUME trace \subseteq trace', call'[c].seq = call[c].seq + 1,
               EventAt("loop.terminated", call[c].seq - 1)'
        PROVE  LoopShown'
    <3>1. PICK e \in trace' : e.type = "loop.terminated" /\ e.seq = call[c].seq
      BY <1>1, <2>2 DEF EventAt
    <3>2. /\ EventAt("loop.iteration.detected", e.seq - 1)'
          /\ EventAt("loop.iteration.detected", e.seq - 2)'
      BY <2>1, <2>2, <3>1, Stays DEF EventAt
    <3> QED
      BY <3>1, <3>2 DEF LoopShown
  <2> QED
    BY <1>7, <2>2, InsertChains DEF Follows, InHand
<1>8. CASE InsertPacket(c, "injectLoop", "packet", "failure", "timeout", "ticket")
  <2>1. LoopShown /\ UNCHANGED <<trace, ticket, artifacts>>
    BY <1>1, <1>8 DEF InHand, InsertPacket, At
  <2>2. /\ \A d \in Calls \ {c} : call'[d] = call[d]
        /\ call'[c].op = "injectLoop" /\ call'[c].at = "ticket"
    BY <1>8, LocalGo, GoFields DEF InsertPacket, At
  <2>3. InHand(c)'
    BY <2>1, <2>2, Stays DEF InHand
  <2> QED
    BY <2>1, <2>2, <2>3, SameRows
<1>9. CASE UpdateTicket(c, "injectLoop", "ticket",
                        [Fail("looped", "timeout") EXCEPT !.sig = TRUE])
  <2>1. LoopShown
    BY <1>1, <1>9 DEF InHand, UpdateTicket, At
  <2> QED
    BY <1>9, <2>1, UpdateTicketChains
<1> QED
  BY <1>2, <1>3, <1>4, <1>5, <1>6, <1>7, <1>8, <1>9 DEF InjectControlledLoop

\* The routing follows the classification it was let in by, the specialist's
\* event the routing it wrote itself.
LEMMA SpecialistChains ==
    ASSUME Ledger, Chain, NEW c \in Calls, RunCoordinatorSpecialistPass(c)
    PROVE  Chain'
<1> USE DEF Ledger, Steps
<1>1. InHand(c) /\ call[c].seq \in Nat /\ artifacts \in Nat
  BY DEF Chain, TypeOK, Call
<1>2. CASE Begin(c, "specialist", ticket.status = "in_progress", "check")
  BY <1>2, BeginChains
<1>3. CASE Guard(c, "specialist", "check",
                 HasEvent("orchestrator.classified") /\ artifacts = 0, "run")
  <2>1. CASE Return(c)
    BY <1>3, <2>1, ReturnChains DEF Guard, db
  <2>2. CASE ~Return(c)
    <3>1. Go(c, "run") /\ HasEvent("orchestrator.classified") /\ UNCHANGED db
      BY <1>3, <2>2 DEF Guard
    <3>2. /\ \A d \in Calls \ {c} : call'[d] = call[d]
          /\ call'[c].op = "specialist" /\ call'[c].at = "run"
      BY <1>3, <3>1, LocalGo, GoFields DEF Guard, At
    <3>3. InHand(c)'
      BY <3>1, <3>2, Stays DEF InHand, db
    <3> QED
      BY <3>1, <3>2, <3>3, SameRows DEF db
  <2> QED
    BY <2>1, <2>2
<1>4. CASE ReadSeq(c, "specialist", "run", "event")
  <2>1. HasEvent("orchestrator.classified")
    BY <1>1, <1>4, ReadSeqFacts DEF InHand
  <2>2. InHand(c)'
    BY <1>4, <2>1, ReadSeqFacts DEF InHand
  <2> QED
    BY <1>4, <2>2, ReadSeqFacts, SameRows
<1>5. CASE InsertEvent(c, "specialist", "event", "coordinator.routed", "none", "artifact")
  <2>1. EventBefore("orchestrator.classified", call[c].seq)
    BY <1>1, <1>5 DEF InHand, InsertEvent, At
  <2> QED
    BY <1>5, <2>1, InsertChains DEF Follows, InHand
<1>6. CASE InsertArtifact(c)
  <2>1. /\ EventAt("coordinator.routed", call[c].seq - 1)
        /\ UNCHANGED <<trace, ticket>> /\ artifacts' = artifacts + 1
        /\ Go(c, "event2") /\ call[c].op = "specialist"
    BY <1>1, <1>6 DEF InHand, InsertArtifact, At
  <2>2. /\ \A d \in Calls \ {c} : call'[d] = call[d]
        /\ call'[c] = [call[c] EXCEPT !.at = "event2"]
    BY <2>1, LocalGo
  <2>3. /\ call'[c].op = "specialist" /\ call'[c].at = "event2"
        /\ call'[c].seq = call[c].seq
    BY <2>1, <2>2 DEF TypeOK, Call
  <2>4. EventAt("coordinator.routed", call[c].seq - 1)'
    BY <2>1, <2>3 DEF EventAt
  <2>5. InHand(c)'
    BY <1>1, <2>1, <2>3, <2>4 DEF InHand
  <2> QED
    BY <1>1, <2>1, <2>2, <2>5, SameRows
<1>7. CASE InsertEvent(c, "specialist", "event2", "specialist.artifact.created", "none", "packet")
  <2>1. EventAt("coordinator.routed", call[c].seq - 1) /\ artifacts > 0
    BY <1>1, <1>7 DEF InHand, InsertEvent, At
  <2> QED
    BY <1>7, <2>1, InsertChains DEF Follows, InHand
<1>8. CASE InsertPacket(c, "specialist", "packet", "artifact", "none", "ticket")
  <2>1. /\ \A d \in Calls \ {c} : call'[d] = call[d]
        /\ call'[c].op = "specialist" /\ call'[c].at = "ticket"
    BY <1>8, LocalGo, GoFields DEF InsertPacket, At
  <2>2. InHand(c)'
    BY <2>1 DEF InHand
  <2> QED
    BY <1>8, <2>1, <2>2, SameRows DEF InsertPacket
<1>9. CASE UpdateTicket(c, "specialist", "ticket", SetStatus("done"))
  BY <1>9, UpdateTicketChains, SignatureOf
<1> QED
  BY <1>2, <1>3, <1>4, <1>5, <1>6, <1>7, <1>8, <1>9
     DEF RunCoordinatorSpecialistPass

\* The reads of the review remember what they saw, which stays on the trace.
LEMMA QaReadsChain ==
    ASSUME TypeOK, Chain, NEW c \in Calls,
           \/ QaReadEvents(c) \/ QaReadPacket(c)
           \/ QaCheckExisting(c) \/ TruthCheckExisting(c)
    PROVE  Chain'
<1>1. /\ call[c].op = "qa" /\ UNCHANGED <<trace, ticket, artifacts>>
      /\ InHand(c)
  BY DEF QaReadEvents, QaReadPacket, QaCheckExisting, TruthCheckExisting, At,
         db, Chain
<1>2. CASE Return(c)
  BY <1>1, <1>2, ReturnChains
<1>3. CASE QaReadEvents(c) /\ ~Return(c)
  <2>1. HasEvent("specialist.artifact.created")
    BY <1>3 DEF QaReadEvents, HasEvent
  <2>2. PICK n, v : call' = [call EXCEPT ![c].at = "evidence",
                                         ![c].link = n, ![c].note = v]
    BY <1>3 DEF QaReadEvents
  <2>3. /\ \A d \in Calls \ {c} : call'[d] = call[d]
        /\ call'[c].op = "qa" /\ call'[c].at = "evidence"
    BY <1>1, <2>2 DEF TypeOK, Call
  <2>4. InHand(c)'
    BY <1>1, <2>1, <2>3, Stays DEF InHand
  <2> QED
    BY <1>1, <2>3, <2>4, SameRows
<1>4. CASE QaReadPacket(c)
  <2>1. HasEvent("specialist.artifact.created")
    BY <1>1, <1>4 DEF QaReadPacket, At, InHand
  <2>2. PICK v : call' = [call EXCEPT ![c].at = "qaCheck", ![c].link = 0,
                                      ![c].note = v]
    BY <1>4 DEF QaReadPacket, TypeOK
  <2>3. /\ \A d \in Calls \ {c} : call'[d] = call[d]
        /\ call'[c].op = "qa" /\ call'[c].at = "qaCheck" /\ call'[c].link = 0
    BY <1>1, <2>2 DEF TypeOK, Call
  <2>4. InHand(c)'
    BY <1>1, <2>1, <2>3, Stays DEF InHand
  <2> QED
    BY <1>1, <2>3, <2>4, SameRows
<1>5. CASE QaCheckExisting(c)
  <2>1. HasEvent("specialist.artifact.created") /\ call[c].link = 0
    BY <1>1, <1>5 DEF QaCheckExisting, At, InHand
  <2>2. /\ \A d \in Calls \ {c} : call'[d] = call[d]
        /\ call'[c].op = "qa" /\ call'[c].at = "truthCheck"
        /\ call'[c].link # 0 => HasEvent("qa.validated")
    <3>1. CASE Go(c, "truthCheck")
      BY <1>1, <2>1, <3>1, LocalGo, GoFields DEF Steps
    <3>2. CASE ~Go(c, "truthCheck")
      <4>1. PICK e \in trace :
               /\ e.type = "qa.validated"
               /\ call' = [call EXCEPT ![c].at = "truthCheck", ![c].link = e.seq]
        BY <1>5, <3>2 DEF QaCheckExisting
      <4> QED
        BY <1>1, <4>1 DEF TypeOK, Call, HasEvent
    <3> QED
      BY <3>1, <3>2
  <2>3. InHand(c)'
    BY <1>1, <2>1, <2>2, Stays DEF InHand
  <2> QED
    BY <1>1, <2>2, <2>3, SameRows
<1>6. CASE TruthCheckExisting(c) /\ ~Return(c)
  <2>1. /\ HasEvent("specialist.artifact.created")
        /\ call[c].link # 0 => HasEvent("qa.validated")
    BY <1>1, <1>6 DEF TruthCheckExisting, At, InHand
  <2>2. /\ \A d \in Calls \ {c} : call'[d] = call[d]
        /\ call'[c].op = "qa" /\ call'[c].at = "run"
        /\ call'[c].link = call[c].link
    BY <1>1, <1>6 DEF TypeOK, Call, TruthCheckExisting
  <2>3. InHand(c)'
    BY <1>1, <2>1, <2>2, Stays DEF InHand
  <2> QED
    BY <1>1, <2>2, <2>3, SameRows
<1> QED
  BY <1>2, <1>3, <1>4, <1>5, <1>6

\* A read error makes the review forget a row, never see one.
LEMMA IgnoreReadChains ==
    ASSUME TypeOK, Chain, NEW c \in Calls, IgnoreQaReadError(c)
    PROVE  Chain'
<1>1. UNCHANGED <<trace, ticket, artifacts>> /\ InHand(c)
  BY DEF IgnoreQaReadError, db, Chain
<1>2. CASE /\ At(c, "qa", "evidence")
           /\ call' = [call EXCEPT ![c].at = "qaCheck", ![c].link = 0,
                                   ![c].note = "fail"]
  <2>1. HasEvent("specialist.artifact.created")
    BY <1>1, <1>2 DEF At, InHand
  <2>2. /\ \A d \in Calls \ {c} : call'[d] = call[d]
        /\ call'[c].op = "qa" /\ call'[c].at = "qaCheck" /\ call'[c].link = 0
    BY <1>2 DEF TypeOK, Call, At
  <2>3. InHand(c)'
    BY <1>1, <2>1, <2>2, Stays DEF InHand
  <2> QED
    BY <1>1, <2>2, <2>3, SameRows
<1>3. CASE At(c, "qa", "qaCheck") /\ Go(c, "truthCheck")
  <2>1. HasEvent("specialist.artifact.created") /\ call[c].link = 0
    BY <1>1, <1>3 DEF At, InHand
  <2>2. /\ \A d \in Calls \ {c} : call'[d] = call[d]
        /\ call'[c].op = "qa" /\ call'[c].at = "truthCheck" /\ call'[c].link = 0
    BY <1>3, <2>1, LocalGo, GoFields DEF Steps, At
  <2>3. InHand(c)'
    BY <1>1, <2>1, <2>2, Stays DEF InHand
  <2> QED
    BY <1>1, <2>2, <2>3, SameRows
<1>4. CASE /\ At(c, "qa", "truthCheck")
           /\ call' = [call EXCEPT ![c].at = "run", ![c].skip = FALSE]
  <2>1. /\ HasEvent("specialist.artifact.created")
        /\ call[c].link # 0 => HasEvent("qa.validated")
    BY <1>1, <1>4 DEF At, InHand
  <2>2. /\ \A d \in Calls \ {c} : call'[d] = call[d]
        /\ call'[c].op = "qa" /\ call'[c].at = "run"
        /\ call'[c].link = call[c].link
    BY <1>4 DEF TypeOK, Call, At
  <2>3. InHand(c)'
    BY <1>1, <2>1, <2>2, Stays DEF InHand
  <2> QED
    BY <1>1, <2>2, <2>3, SameRows
<1>5. CASE At(c, "qa", "verdict") /\ Go(c, "truthEvent")
  <2>1. EventBefore("qa.validated", call[c].seq)
    BY <1>1, <1>5 DEF At, InHand
  <2>2. /\ \A d \in Calls \ {c} : call'[d] = call[d]
        /\ call'[c] = [call[c] EXCEPT !.at = "truthEvent"]
    BY <1>5, LocalGo DEF Steps
  <2>3. /\ call'[c].op = "qa" /\ call'[c].at = "truthEvent"
        /\ call'[c].seq = call[c].seq
    BY <1>5, <2>2 DEF TypeOK, Call, At
  <2>4. EventBefore("qa.validated", call[c].seq)'
    BY <1>1, <2>1, <2>3 DEF EventBefore
  <2>5. InHand(c)'
    BY <2>3, <2>4 DEF InHand
  <2> QED
    BY <1>1, <2>2, <2>5, SameRows
<1> QED
  BY <1>2, <1>3, <1>4, <1>5 DEF IgnoreQaReadError

\* The review's own writes: the QA result after the specialist's event it was
\* let in by, the verdict after a QA result it wrote or saw.
LEMMA ReviewChains ==
    ASSUME Ledger, Chain, NEW c \in Calls, RunQaTruthReview(c)
    PROVE  Chain'
<1> USE DEF Ledger, Steps
<1>1. InHand(c) /\ call[c] \in Call /\ call \in [Calls -> Call]
  BY DEF Chain, TypeOK
<1>2. CASE Begin(c, "qa", TRUE, "events")
  BY <1>2, BeginChains
<1>3. CASE \/ QaReadEvents(c) \/ QaReadPacket(c)
           \/ QaCheckExisting(c) \/ TruthCheckExisting(c)
  BY <1>3, QaReadsChain
<1>4. CASE QaReadSeq(c)
  <2> DEFINE next == IF call[c].link = 0 THEN "qaEvent" ELSE "verdict"
  <2>1. ReadSeq(c, "qa", "run", next) /\ next \in Steps
    BY <1>4 DEF QaReadSeq
  <2>2. /\ HasEvent("specialist.artifact.created")
        /\ call[c].link # 0 => HasEvent("qa.validated")
    BY <1>1, <2>1, ReadSeqFacts DEF InHand
  <2>3. InHand(c)'
    BY <2>1, <2>2, ReadSeqFacts DEF InHand
  <2> QED
    BY <2>1, <2>3, ReadSeqFacts, SameRows
<1>5. CASE InsertEvent(c, "qa", "qaEvent", "qa.validated", call[c].note, "qaPacket")
  <2>1. EventBefore("specialist.artifact.created", call[c].seq)
    BY <1>1, <1>5 DEF InHand, InsertEvent, At
  <2>2. ASSUME call'[c].seq = call[c].seq + 1,
               EventAt("qa.validated", call[c].seq - 1)'
        PROVE  EventBefore("qa.validated", call[c].seq)'
    <3>1. call[c].seq \in Nat
      BY <1>1 DEF Call
    <3> QED
      BY <2>2, <3>1 DEF EventAt, EventBefore
  <2> QED
    BY <1>5, <2>1, <2>2, InsertChains DEF Follows, InHand
<1>6. CASE InsertPacket(c, "qa", "qaPacket", "qa", call[c].note,
                        IF call[c].skip THEN "idle" ELSE "verdict")
  <2>1. EventBefore("qa.validated", call[c].seq) /\ UNCHANGED <<trace, ticket, artifacts>>
    BY <1>1, <1>6 DEF InHand, InsertPacket, At
  <2>2. CASE Return(c)
    BY <2>1, <2>2, ReturnChains
  <2>3. CASE ~Return(c)
    <3>1. Go(c, "verdict")
      BY <1>6, <2>3 DEF InsertPacket
    <3>2. /\ \A d \in Calls \ {c} : call'[d] = call[d]
          /\ call'[c] = [call[c] EXCEPT !.at = "verdict"]
      BY <3>1, LocalGo
    <3>3. /\ call'[c].op = "qa" /\ call'[c].at = "verdict"
          /\ call'[c].seq = call[c].seq
      BY <1>1, <1>6, <3>2 DEF Call, InsertPacket, At
    <3>4. EventBefore("qa.validated", call[c].seq)'
      BY <2>1, <3>3 DEF EventBefore
    <3>5. InHand(c)'
      BY <3>3, <3>4 DEF InHand
    <3> QED
      BY <2>1, <3>2, <3>5, SameRows
  <2> QED
    BY <2>2, <2>3
<1>7. CASE QaFindPacket(c)
  <2>1. EventBefore("qa.validated", call[c].seq) /\ UNCHANGED <<trace, ticket, artifacts>>
    BY <1>1, <1>7 DEF InHand, QaFindPacket, At, db
  <2>2. PICK q : call' = [call EXCEPT ![c].at = "truthEvent", ![c].ref = q]
    BY <1>7 DEF QaFindPacket
  <2>3. /\ \A d \in Calls \ {c} : call'[d] = call[d]
        /\ call'[c].op = "qa" /\ call'[c].at = "truthEvent"
        /\ call'[c].seq = call[c].seq
    BY <1>1, <1>7, <2>2 DEF Call, QaFindPacket, At
  <2>4. EventBefore("qa.validated", call[c].seq)'
    BY <2>1, <2>3 DEF EventBefore
  <2>5. InHand(c)'
    BY <2>3, <2>4 DEF InHand
  <2> QED
    BY <2>1, <2>3, <2>5, SameRows
<1>8. CASE InsertEvent(c, "qa", "truthEvent", "truth.verdict.recorded",
                       call[c].note, "truthPacket")
  <2>1. EventBefore("qa.validated", call[c].seq)
    BY <1>1, <1>8 DEF InHand, InsertEvent, At
  <2> QED
    BY <1>8, <2>1, InsertChains DEF Follows, InHand
<1>9. CASE InsertPacket(c, "qa", "truthPacket", "truth", call[c].note, "ticket")
  <2>1. /\ \A d \in Calls \ {c} : call'[d] = call[d]
        /\ call'[c].op = "qa" /\ call'[c].at = "ticket"
    BY <1>9, LocalGo, GoFields DEF InsertPacket, At
  <2>2. InHand(c)'
    BY <2>1 DEF InHand
  <2> QED
    BY <1>9, <2>1, <2>2, SameRows DEF InsertPacket
<1>10. CASE UpdateTicket(c, "qa", "ticket",
                         IF call[c].note = "pass" /\ call[c].status # "done"
                         THEN SetStatus("done") ELSE ticket)
  BY <1>10, UpdateTicketChains, SignatureOf
<1>11. CASE IgnoreQaReadError(c)
  BY <1>11, IgnoreReadChains
<1> QED
  BY <1>2, <1>3, <1>4, <1>5, <1>6, <1>7, <1>8, <1>9, <1>10, <1>11
     DEF RunQaTruthReview

LEMMA InitChain ==
    ASSUME Init
    PROVE  Chain
BY DEF Init, Chain, SignatureShowsLoop, ChainInOrder, ArtifactOnRecord,
       HasEvent, InHand, Idle

LEMMA NextChain ==
    ASSUME Ledger, Chain, [Next]_vars
    PROVE  Chain'
<1>1. CASE UNCHANGED vars
  <2>1. UNCHANGED <<trace, ticket, artifacts, call>>
    BY <1>1 DEF vars, db
  <2>2. SignatureShowsLoop' /\ ChainInOrder'
    BY <2>1 DEF Chain, SignatureShowsLoop, ChainInOrder, Follows, LoopShown,
                EventAt, EventBefore
  <2>3. ArtifactOnRecord' /\ \A c \in Calls : InHand(c)'
    BY <2>1 DEF Chain, ArtifactOnRecord, InHand, HasEvent, LoopShown, EventAt,
                EventBefore
  <2> QED
    BY <2>2, <2>3 DEF Chain
<1>2. ASSUME NEW c \in Calls, Step(c)
      PROVE  Chain'
  BY <1>2, ClassifyChains, ControlsChain, InjectLoopChains, SpecialistChains,
     ReviewChains, CalendarChains, IngestChains DEF Step
<1>3. ASSUME NEW c \in Calls, Fault(c)
      PROVE  Chain'
  BY <1>3, ReturnChains DEF Fault, db, Ledger
<1> QED
  BY <1>1, <1>2, <1>3 DEF Next

\* In every behaviour the chain invariant holds: the two properties below and
\* what each invocation that writes a part of the chain has in hand.
THEOREM ChainInvariant == Spec => []Chain
<1>1. Init => Chain
  BY InitChain
<1>2. Ledger /\ Chain /\ [Next]_vars => Chain'
  BY NextChain
<1> QED
  BY <1>1, <1>2, LedgerInvariant, PTL DEF Spec

\* A loop_signature stands for two iterations and a termination at consecutive
\* numbers of the trace, whatever inserts between the simulator's calls.
THEOREM SignatureIsEarned == Spec => []SignatureShowsLoop
<1>1. Chain => SignatureShowsLoop
  BY DEF Chain
<1> QED
  BY <1>1, ChainInvariant, PTL

\* The chain of a ticket reads in order although each operation checks for its
\* predecessor calls before it inserts, at a number read earlier still.
THEOREM ChainReadsInOrder == Spec => []ChainInOrder
<1>1. Chain => ChainInOrder
  BY DEF Chain
<1> QED
  BY <1>1, ChainInvariant, PTL

----------------------------------------------------------------------------
(* AcceptedHasArtifact *)

\* A packet is filed after all others; an accepted verdict with the artifact's
\* packet among them.
Files(p) ==
    /\ packets' = Append(packets, p)
    /\ p.kind = "truth" /\ p.note = "pass" => HasPacket("artifact")

Filed == UNCHANGED packets \/ \E p : Files(p)

LEMMA InsertPacketFiles ==
    ASSUME NEW c \in Calls, NEW op, NEW at, NEW kind, NEW note, NEW next,
           InsertPacket(c, op, at, kind, note, next),
           kind = "truth" /\ note = "pass" => HasPacket("artifact")
    PROVE  Filed
<1> DEFINE p == [kind |-> kind, event |-> call[c].link, ref |-> call[c].ref,
                 note |-> note]
<1>1. packets' = Append(packets, p)
  BY DEF InsertPacket
<1>2. p.kind = kind /\ p.note = note
  OBVIOUS
<1> HIDE DEF p
<1>3. Files(p)
  BY <1>1, <1>2 DEF Files
<1> QED
  BY <1>3 DEF Filed

LEMMA OthersKeepPackets ==
    ASSUME NEW c \in Calls, NEW op, NEW at, NEW ok, NEW type, NEW note,
           NEW row, NEW next,
           \/ Begin(c, op, ok, next)
           \/ Guard(c, op, at, ok, next)
           \/ ReadSeq(c, op, at, next)
           \/ InsertEvent(c, op, at, type, note, next)
           \/ UpdateTicket(c, op, at, row)
    PROVE  UNCHANGED packets
BY DEF Begin, Guard, ReadSeq, InsertEvent, UpdateTicket, db

\* Every operation but the review files no verdict.
LEMMA OperationsFile ==
    ASSUME NEW c \in Calls, Step(c), ~RunQaTruthReview(c)
    PROVE  Filed
<1>1. CASE RunOrchestratorClassification(c)
  <2>1. CASE \/ OpenClassifyRun(c) \/ CloseClassifyRun(c)
             \/ InsertFailEvent(c) \/ IgnoreFailWriteError(c)
    BY <2>1, OthersKeepPackets DEF OpenClassifyRun, CloseClassifyRun,
       InsertFailEvent, IgnoreFailWriteError, db, Filed
  <2> QED
    BY <1>1, <2>1, OthersKeepPackets, InsertPacketFiles
       DEF RunOrchestratorClassification, Filed
<1>2. CASE InjectControlledFailure(c)
  BY <1>2, OthersKeepPackets, InsertPacketFiles DEF InjectControlledFailure, Filed
<1>3. CASE InjectControlledLoop(c)
  BY <1>3, OthersKeepPackets, InsertPacketFiles DEF InjectControlledLoop, Filed
<1>4. CASE RequestNeedsInput(c)
  BY <1>4, OthersKeepPackets, InsertPacketFiles DEF RequestNeedsInput, Filed
<1>5. CASE SubmitNeedsInputResponse(c)
  <2>1. CASE FindQuestion(c)
    BY <2>1 DEF FindQuestion, db, Filed
  <2> QED
    BY <1>5, <2>1, OthersKeepPackets, InsertPacketFiles
       DEF SubmitNeedsInputResponse, Filed
<1>6. CASE ReopenFailedTicket(c)
  BY <1>6, OthersKeepPackets, InsertPacketFiles
     DEF ReopenFailedTicket, WriteRecoveryEvidence, Filed
<1>7. CASE HoldLoopedTicket(c)
  BY <1>7, OthersKeepPackets, InsertPacketFiles
     DEF HoldLoopedTicket, WriteRecoveryEvidence, Filed
<1>8. CASE RunCoordinatorSpecialistPass(c)
  <2>1. CASE InsertArtifact(c)
    BY <2>1 DEF InsertArtifact, Filed
  <2> QED
    BY <1>8, <2>1, OthersKeepPackets, InsertPacketFiles
       DEF RunCoordinatorSpecialistPass, Filed
<1>9. CASE CreateCalendarHoldForTicket(c)
  <2>1. CASE CreateCalendarEvent(c) \/ IgnoreSeqReadError(c)
    BY <2>1 DEF CreateCalendarEvent, IgnoreSeqReadError, db, Filed
  <2> QED
    BY <1>9, <2>1, OthersKeepPackets, InsertPacketFiles
       DEF CreateCalendarHoldForTicket, Filed
<1>10. CASE CreateBriefFromCalendarEvent(c)
  BY <1>10, OthersKeepPackets DEF CreateBriefFromCalendarEvent, InsertMarker, Filed
<1> QED
  BY <1>1, <1>2, <1>3, <1>4, <1>5, <1>6, <1>7, <1>8, <1>9, <1>10 DEF Step

\* A review that writes an accepted verdict has seen the artifact's packet.
LEMMA ReviewFiles ==
    ASSUME Standing, NEW c \in Calls, RunQaTruthReview(c)
    PROVE  Filed
<1>1. CASE \/ QaReadEvents(c) \/ QaReadPacket(c) \/ QaCheckExisting(c)
           \/ TruthCheckExisting(c) \/ QaReadSeq(c) \/ QaFindPacket(c)
           \/ IgnoreQaReadError(c)
  BY <1>1 DEF QaReadEvents, QaReadPacket, QaCheckExisting, TruthCheckExisting,
              QaReadSeq, ReadSeq, QaFindPacket, IgnoreQaReadError, db, Filed
<1>2. CASE InsertPacket(c, "qa", "truthPacket", "truth", call[c].note, "ticket")
  <2>1. call[c].note = "pass" => HasPacket("artifact")
    BY <1>2 DEF InsertPacket, At, Standing, UpdateJustified, UpdateOk
  <2> QED
    BY <1>2, <2>1, InsertPacketFiles
<1> QED
  BY <1>1, <1>2, OthersKeepPackets, InsertPacketFiles DEF RunQaTruthReview, Filed

LEMMA NextFiles ==
    ASSUME Standing, [Next]_vars
    PROVE  Filed
<1>1. CASE UNCHANGED vars
  BY <1>1 DEF vars, db, Filed
<1>2. ASSUME NEW c \in Calls, Step(c)
      PROVE  Filed
  BY <1>2, OperationsFile, ReviewFiles
<1>3. ASSUME NEW c \in Calls, Fault(c)
      PROVE  Filed
  BY <1>3 DEF Fault, db, Filed
<1> QED
  BY <1>1, <1>2, <1>3 DEF Next

LEMMA FiledKeeps ==
    ASSUME TypeOK, AcceptedHasArtifact, Filed
    PROVE  AcceptedHasArtifact'
<1>1. CASE UNCHANGED packets
  BY <1>1 DEF AcceptedHasArtifact
<1>2. ASSUME NEW p, Files(p)
      PROVE  AcceptedHasArtifact'
  <2>1. packets \in Seq(Packet) /\ packets' = Append(packets, p)
    BY <1>2 DEF TypeOK, Files
  <2>2. /\ DOMAIN packets = 1..Len(packets) /\ Len(packets) \in Nat
        /\ DOMAIN packets' = 1..(Len(packets) + 1)
        /\ \A i \in 1..Len(packets) : packets'[i] = packets[i]
        /\ packets'[Len(packets) + 1] = p
    BY <2>1
  <2> SUFFICES ASSUME NEW i \in DOMAIN packets', packets'[i].kind = "truth",
                      packets'[i].note = "pass"
               PROVE  \E j \in 1..(i - 1) : packets'[j].kind = "artifact"
    BY DEF AcceptedHasArtifact
  <2>3. CASE i \in DOMAIN packets
    <3>1. PICK j \in 1..(i - 1) : packets[j].kind = "artifact"
      BY <2>2, <2>3 DEF AcceptedHasArtifact
    <3>2. j \in 1..Len(packets)
      BY <2>2, <2>3
    <3> QED
      BY <2>2, <3>1, <3>2
  <2>4. CASE i = Len(packets) + 1
    <3>1. PICK j \in DOMAIN packets : packets[j].kind = "artifact"
      BY <1>2, <2>2, <2>4 DEF Files, HasPacket
    <3> QED
      BY <2>2, <2>4, <3>1
  <2> QED
    BY <2>2, <2>3, <2>4
<1> QED
  BY <1>1, <1>2 DEF Filed

\* A verdict that accepts rests on an artifact packet filed before it.
THEOREM AcceptedIsBacked == Spec => []AcceptedHasArtifact
<1>1. Init => Standing /\ AcceptedHasArtifact
  BY InitStanding DEF Init, AcceptedHasArtifact
<1>2. /\ Ledger /\ Standing /\ AcceptedHasArtifact /\ [Next]_vars
      => Standing' /\ AcceptedHasArtifact'
  BY NextStanding, NextFiles, FiledKeeps DEF Ledger
<1> QED
  BY <1>1, <1>2, LedgerInvariant, PTL DEF Spec

=============================================================================
