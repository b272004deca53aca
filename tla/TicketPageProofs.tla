--------------------------- MODULE TicketPageProofs ---------------------------
(***************************************************************************)
(* For every value of the constants: a render that shows a status shows    *)
(* the evidence for it, the progress strip has no hole, and an action the  *)
(* page would offer is not refused by the action's own precondition.  The  *)
(* page mixes rows of four selects, so the argument is that a database row *)
(* the page relies on is never lost, and that the selects come in an order *)
(* in which what explains a row is read after it.                          *)
(***************************************************************************)
EXTENDS TicketPageProperties, TicketEvidenceProofs

----------------------------------------------------------------------------
(* What the server actions never take back. *)

\* The counters a step may only raise.
CountersGrow ==
    /\ artifacts > 0 => artifacts' > 0
    /\ faults' = 0 => faults = 0

LEMMA CallsGrow ==
    ASSUME NEW c \in Calls, NEW op, NEW at, NEW ok, NEW type, NEW kind,
           NEW note, NEW row, NEW next,
           \/ Begin(c, op, ok, next)
           \/ Guard(c, op, at, ok, next)
           \/ ReadSeq(c, op, at, next)
           \/ InsertEvent(c, op, at, type, note, next)
           \/ InsertPacket(c, op, at, kind, note, next)
           \/ UpdateTicket(c, op, at, row)
    PROVE  CountersGrow
BY DEF Begin, Guard, ReadSeq, InsertEvent, InsertPacket, UpdateTicket, db,
       bounds, CountersGrow

LEMMA StepGrows ==
    ASSUME TypeOK, NEW c \in Calls, Step(c)
    PROVE  CountersGrow
<1>1. artifacts \in Nat /\ faults \in Nat
  BY BoundsAssumption DEF TypeOK
<1>2. CASE \/ OpenClassifyRun(c) \/ CloseClassifyRun(c)
           \/ InsertFailEvent(c) \/ IgnoreFailWriteError(c)
  <2>1. CASE InsertFailEvent(c)
    BY <2>1, CallsGrow DEF InsertFailEvent, db, bounds, CountersGrow
  <2> QED
    BY <1>1, <1>2, <2>1 DEF OpenClassifyRun, CloseClassifyRun,
       IgnoreFailWriteError, db, bounds, CountersGrow
<1>3. CASE \/ FindQuestion(c) \/ InsertArtifact(c) \/ CreateCalendarEvent(c)
           \/ IgnoreSeqReadError(c) \/ InsertMarker(c)
  BY <1>1, <1>3 DEF FindQuestion, InsertArtifact, CreateCalendarEvent,
     IgnoreSeqReadError, InsertMarker, db, bounds, CountersGrow
<1>4. CASE \/ QaReadEvents(c) \/ QaReadPacket(c) \/ QaCheckExisting(c)
           \/ TruthCheckExisting(c) \/ QaReadSeq(c) \/ QaFindPacket(c)
           \/ IgnoreQaReadError(c)
  <2>1. CASE IgnoreQaReadError(c)
    BY <1>1, <2>1 DEF IgnoreQaReadError, db, CountersGrow
  <2>2. CASE QaReadSeq(c)
    BY <2>2, CallsGrow DEF QaReadSeq
  <2>3. CASE \/ QaReadEvents(c) \/ QaReadPacket(c) \/ QaCheckExisting(c)
             \/ TruthCheckExisting(c) \/ QaFindPacket(c)
    <3>1. UNCHANGED <<db, bounds>>
      BY <2>3 DEF QaReadEvents, QaReadPacket, QaCheckExisting,
         TruthCheckExisting, QaFindPacket
    <3> QED
      BY <3>1 DEF db, bounds, CountersGrow
  <2> QED
    BY <1>4, <2>1, <2>2, <2>3
<1>5. CASE RunOrchestratorClassification(c)
  BY <1>2, <1>5, CallsGrow DEF RunOrchestratorClassification
<1>6. CASE InjectControlledFailure(c)
  BY <1>6, CallsGrow DEF InjectControlledFailure
<1>7. CASE InjectControlledLoop(c)
  BY <1>7, CallsGrow DEF InjectControlledLoop
<1>8. CASE RequestNeedsInput(c)
  BY <1>8, CallsGrow DEF RequestNeedsInput
<1>9. CASE SubmitNeedsInputResponse(c)
  BY <1>3, <1>9, CallsGrow DEF SubmitNeedsInputResponse
<1>10. CASE ReopenFailedTicket(c) \/ HoldLoopedTicket(c)
  BY <1>10, CallsGrow DEF ReopenFailedTicket, HoldLoopedTicket,
     WriteRecoveryEvidence
<1>11. CASE RunCoordinatorSpecialistPass(c)
  BY <1>3, <1>11, CallsGrow DEF RunCoordinatorSpecialistPass
<1>12. CASE RunQaTruthReview(c)
  BY <1>4, <1>12, CallsGrow DEF RunQaTruthReview
<1>13. CASE CreateCalendarHoldForTicket(c) \/ CreateBriefFromCalendarEvent(c)
  BY <1>3, <1>13, CallsGrow DEF CreateCalendarHoldForTicket,
     CreateBriefFromCalendarEvent
<1> QED
  BY <1>5, <1>6, <1>7, <1>8, <1>9, <1>10, <1>11, <1>12, <1>13 DEF Step

\* No step of a server action loses a trace row, a packet or an artifact.
LEMMA DatabaseGrows ==
    ASSUME Ledger, Standing, [Next]_vars
    PROVE  trace \subseteq trace' /\ PacketsStay /\ CountersGrow
<1>1. trace \subseteq trace'
  <2>1. CASE AppendOnly!Append
    BY <2>1 DEF AppendOnly!Append
  <2> QED
    BY <2>1, NextAppends
<1>2. PacketsStay
  <2>1. CASE UNCHANGED packets
    BY <2>1 DEF PacketsStay, HasPacket, HasFailure
  <2>2. ASSUME NEW p, packets' = Append(packets, p)
        PROVE  PacketsStay
    <3>1. packets \in Seq(Packet)
      BY DEF Ledger, TypeOK
    <3>2. ASSUME NEW i \in DOMAIN packets
          PROVE  i \in DOMAIN packets' /\ packets'[i] = packets[i]
      BY <2>2, <3>1
    <3> QED
      BY <3>2 DEF PacketsStay, HasPacket, HasFailure
  <2> QED
    BY <2>1, <2>2, NextFiles DEF Filed, Files
<1>3. CountersGrow
  <2>1. CASE UNCHANGED vars
    BY <2>1 DEF vars, db, bounds, CountersGrow
  <2>2. ASSUME NEW c \in Calls, Step(c)
        PROVE  CountersGrow
    BY <2>2, StepGrows DEF Ledger
  <2>3. ASSUME NEW c \in Calls, Fault(c)
        PROVE  CountersGrow
    <3>1. faults \in Nat
      BY BoundsAssumption DEF Ledger, TypeOK
    <3> QED
      BY <2>3, <3>1 DEF Fault, db, CountersGrow
  <2> QED
    BY <2>1, <2>2, <2>3 DEF Next
<1> QED
  BY <1>1, <1>2, <1>3

----------------------------------------------------------------------------
(* StatusExplained and StripIsPrefix *)

\* What the ticket's invariants say of a row read now.
LEMMA TicketExplained ==
    ASSUME TypeOK, Standing, Chain
    PROVE  LET s == ticket.status
           IN  /\ s = "in_progress" => HasPacket("handoff") \/ HasPacket("response")
               /\ s = "done" => HasPacket("artifact")
               /\ s = "failed" /\ faults = 0 => HasFailure(Crashes)
               /\ s = "looped" => HasFailure(Loops) /\ HasEvent("loop.terminated")
               /\ s = "needs_input" => HasPacket("question") \/ HasPacket("recovery")
<1>1. Justified(ticket.status)
  BY DEF Standing, StatusHasEvidence
<1>2. ticket.sig => HasEvent("loop.terminated")
  BY DEF Chain, SignatureShowsLoop, LoopShown, HasEvent
<1> QED
  BY <1>1, <1>2 DEF Justified

\* What they say of a trace read now.
LEMMA TraceExplained ==
    ASSUME Chain
    PROVE  /\ HasEvent("truth.verdict.recorded") => HasEvent("qa.validated")
           /\ HasEvent("qa.validated") => HasEvent("specialist.artifact.created")
           /\ HasEvent("specialist.artifact.created") =>
                 HasEvent("coordinator.routed")
           /\ HasEvent("coordinator.routed") => HasEvent("orchestrator.classified")
           /\ HasEvent("specialist.artifact.created") => artifacts > 0
<1>1. \A e \in trace : Follows(e)
  BY DEF Chain, ChainInOrder
<1>2. \A type, n : EventAt(type, n) \/ EventBefore(type, n) => HasEvent(type)
  BY DEF EventAt, EventBefore, HasEvent
<1>3. HasEvent("truth.verdict.recorded") => HasEvent("qa.validated")
  BY <1>1, <1>2 DEF HasEvent, Follows
<1>4. HasEvent("qa.validated") => HasEvent("specialist.artifact.created")
  BY <1>1, <1>2 DEF HasEvent, Follows
<1>5. HasEvent("specialist.artifact.created") => HasEvent("coordinator.routed")
  BY <1>1, <1>2 DEF HasEvent, Follows
<1>6. HasEvent("coordinator.routed") => HasEvent("orchestrator.classified")
  BY <1>1, <1>2 DEF HasEvent, Follows
<1>7. HasEvent("specialist.artifact.created") => artifacts > 0
  BY DEF Chain, ArtifactOnRecord
<1> QED
  BY <1>3, <1>4, <1>5, <1>6, <1>7

\* The server actions' steps leave what a render has read explained.
LEMMA NextKeepsPage ==
    ASSUME Ledger, Standing, PageInv, [Next]_vars, UNCHANGED page
    PROVE  PageInv'
<1>1. trace \subseteq trace' /\ PacketsStay /\ CountersGrow
  BY DatabaseGrows
<1>2. PageTypeOK'
  BY DEF PageInv, PageTypeOK
<1>3. RowExplained => RowExplained'
  BY <1>1, Stays DEF RowExplained, PacketsStay, CountersGrow
<1>4. TraceRead => TraceRead'
  BY <1>1 DEF TraceRead, CountersGrow, Has
<1>5. PacketsRead => PacketsRead'
  BY <1>1 DEF PacketsRead, CountersGrow, PacketsOf, NonLoopPackets, LoopPackets
<1>6. PageRead'
  <2>1. PageRead
    BY DEF PageInv
  <2> QED
    BY <1>3, <1>4, <1>5, <2>1 DEF PageRead, Has
<1> QED
  BY <1>2, <1>6 DEF PageInv

\* A select: the rest of the page stays as it is, and so does the database.
LEMMA SameDatabase ==
    ASSUME UNCHANGED vars, page'.row = page.row
    PROVE  /\ RowExplained <=> RowExplained'
           /\ page'.trace = page.trace => (TraceRead <=> TraceRead')
           /\ page'.packets = page.packets => (PacketsRead <=> PacketsRead')
<1>1. UNCHANGED <<trace, packets, artifacts, faults>>
  BY DEF vars, db, bounds
<1>2. RowExplained <=> RowExplained'
  BY <1>1 DEF RowExplained, HasPacket, HasFailure, HasEvent
<1>3. page'.trace = page.trace => (TraceRead <=> TraceRead')
  BY <1>1 DEF TraceRead, Has
<1>4. page'.packets = page.packets => (PacketsRead <=> PacketsRead')
  BY <1>1 DEF PacketsRead, PacketsOf, NonLoopPackets, LoopPackets
<1> QED
  BY <1>2, <1>3, <1>4

LEMMA ReadKeepsPage ==
    ASSUME TypeOK, Standing, Chain, PageInv, Read
    PROVE  PageInv'
<1> USE DEF PageInv
<1>1. /\ UNCHANGED vars /\ UNCHANGED <<ticket, trace, packets, artifacts, faults>>
      /\ ticket \in [status : Statuses, failureType : FailureTypes \union {"none"},
                     sig : BOOLEAN]
      /\ trace \in SUBSET Event /\ packets \in Seq(Packet) /\ artifacts \in Nat
  BY DEF Read, ReadTicket, ReadTrace, ReadPackets, ReadArtifacts, ReadRows,
         TypeOK, vars, db, bounds
<1>2. CASE ReadTicket
  <2>1. page.at = "ticket" /\ page' = [page EXCEPT !.at = "trace", !.row = ticket]
    BY <1>2 DEF ReadTicket, ReadRows
  <2>2. PageTypeOK' /\ page'.at = "trace" /\ page'.row = ticket
    BY <1>1, <2>1 DEF PageTypeOK, Reads
  <2>3. RowExplained'
    <3>1. UNCHANGED <<trace, packets, faults>> /\ (page.row.status)' = ticket.status
      BY <1>1, <2>2
    <3> QED
      BY <3>1, TicketExplained DEF RowExplained, HasPacket, HasFailure, HasEvent
  <2> QED
    BY <2>2, <2>3 DEF PageRead
<1>3. CASE ReadTrace
  <2>1. page.at = "trace" /\ page' = [page EXCEPT !.at = "packets", !.trace = trace]
    BY <1>3 DEF ReadTrace, ReadRows
  <2>2. /\ PageTypeOK' /\ page'.at = "packets" /\ page'.row = page.row
        /\ page'.trace = trace
    BY <1>1, <2>1 DEF PageTypeOK, Reads
  <2>3. RowExplained'
    BY <1>1, <2>1, <2>2, SameDatabase DEF PageRead
  <2>4. \A type : Has(page, type)' <=> HasEvent(type)
    BY <2>2 DEF Has, HasEvent
  <2>5. page.row.status = "looped" => HasEvent("loop.terminated")
    BY <2>1 DEF PageRead, RowExplained
  <2>6. TraceRead'
    BY <1>1, <2>2, <2>4, <2>5, TraceExplained DEF TraceRead
  <2> QED
    BY <2>2, <2>3, <2>6 DEF PageRead
<1>4. CASE ReadPackets
  <2>1. page.at = "packets" /\ page' = [page EXCEPT !.at = "artifacts", !.packets = packets]
    BY <1>4 DEF ReadPackets, ReadRows
  <2>2. /\ PageTypeOK' /\ page'.at = "artifacts" /\ page'.row = page.row
        /\ page'.trace = page.trace /\ page'.packets = packets
    BY <1>1, <2>1 DEF PageTypeOK, Reads
  <2>3. RowExplained /\ RowExplained' /\ TraceRead'
    BY <1>1, <2>1, <2>2, SameDatabase DEF PageRead
  <2>4. /\ \A k : HasPacket(k) => PacketsOf(page, k)' # {}
        /\ HasFailure(Crashes) => NonLoopPackets(page)' # {}
        /\ HasFailure(Loops) => LoopPackets(page)' # {}
    <3>1. \A k : PacketsOf(page, k)' = {i \in DOMAIN packets : packets[i].kind = k}
      BY <2>2 DEF PacketsOf
    <3>2. \A k : HasPacket(k) => PacketsOf(page, k)' # {}
      BY <3>1 DEF HasPacket
    <3>3. ASSUME HasFailure(Crashes)
          PROVE  NonLoopPackets(page)' # {}
      <4>1. PICK i \in DOMAIN packets : /\ packets[i].kind = "failure"
                                        /\ packets[i].note \in Crashes
        BY <3>3 DEF HasFailure
      <4>2. i \in NonLoopPackets(page)'
        BY <2>2, <4>1 DEF NonLoopPackets, LoopPackets, PacketsOf, Crashes
      <4> QED
        BY <4>2
    <3>4. HasFailure(Loops) => LoopPackets(page)' # {}
      BY <2>2 DEF HasFailure, LoopPackets, PacketsOf, Loops
    <3> QED
      BY <3>2, <3>3, <3>4
  <2>5. PacketsRead'
    <3>1. faults' = faults
      BY <1>1
    <3> QED
      BY <2>2, <2>3, <2>4, <3>1 DEF PacketsRead, RowExplained
  <2> QED
    BY <2>2, <2>3, <2>5 DEF PageRead
<1>5. CASE ReadArtifacts
  <2>1. page.at = "artifacts" /\ page' = [page EXCEPT !.at = "shown", !.artifacts = artifacts]
    BY <1>5 DEF ReadArtifacts, ReadRows
  <2>2. /\ PageTypeOK' /\ page'.at = "shown" /\ page'.row = page.row
        /\ page'.trace = page.trace /\ page'.packets = page.packets
        /\ page'.artifacts = artifacts
    BY <1>1, <2>1 DEF PageTypeOK, Reads
  <2>3. RowExplained' /\ TraceRead /\ TraceRead' /\ PacketsRead'
    BY <1>1, <2>1, <2>2, SameDatabase DEF PageRead
  <2>4. Has(page, "specialist.artifact.created")' => page'.artifacts > 0
    BY <2>2, <2>3 DEF TraceRead, Has
  <2> QED
    BY <2>2, <2>3, <2>4 DEF PageRead
<1> QED
  BY <1>2, <1>3, <1>4, <1>5 DEF Read

\* A new render starts with nothing read.
LEMMA BlankPage ==
    ASSUME page = Blank
    PROVE  PageInv
<1>1. page.at = "ticket"
  BY DEF Blank
<1>2. PageTypeOK
  BY DEF Blank, PageTypeOK, Reads, Statuses
<1> QED
  BY <1>1, <1>2 DEF PageInv, PageRead

LEMMA InitPage ==
    ASSUME PageInit
    PROVE  Init /\ PageInv
BY BlankPage DEF PageInit

LEMMA PageNextIsNext ==
    ASSUME [PageNext]_pageVars
    PROVE  [Next]_vars
BY DEF PageNext, pageVars, Read, ReadTicket, ReadTrace, ReadPackets,
       ReadArtifacts, ReadRows, Poll, Refresh

LEMMA NextPage ==
    ASSUME Ledger, Standing, Chain, PageInv, [PageNext]_pageVars
    PROVE  PageInv'
<1>1. CASE UNCHANGED pageVars \/ (Next /\ UNCHANGED page)
  BY <1>1, NextKeepsPage DEF pageVars
<1>2. CASE Read
  BY <1>2, ReadKeepsPage DEF Ledger
<1>3. CASE Poll \/ Refresh
  <2>1. page' = Blank
    BY <1>3 DEF Poll, Refresh
  <2>2. page'.at = "ticket"
    BY <2>1 DEF Blank
  <2>3. PageTypeOK'
    BY <2>1 DEF Blank, PageTypeOK, Reads, Statuses
  <2> QED
    BY <2>2, <2>3 DEF PageInv, PageRead
<1> QED
  BY <1>1, <1>2, <1>3 DEF PageNext

\* In every behaviour of page and actions the rows a render has read are
\* explained by rows it has read or will read.
THEOREM PageInvariant == PageSpec => [](Ledger /\ Standing /\ Chain /\ PageInv)
<1> DEFINE I == Ledger /\ Standing /\ Chain /\ PageInv
<1>1. PageInit => I
  BY InitPage, InitLedger, InitStanding, InitChain
<1>2. I /\ [PageNext]_pageVars => I'
  BY NextPage, PageNextIsNext, NextLedger, NextStanding, NextChain
<1> HIDE DEF I
<1>3. PageSpec => []I
  BY <1>1, <1>2, PTL DEF PageSpec
<1> QED
  BY <1>3 DEF I

\* A status on the page comes with its evidence on the page, although the page
\* is put together from four selects with the actions' writes between them.
THEOREM PageExplainsStatus == PageSpec => []StatusExplained
<1>1. PageInv => StatusExplained
  <2> SUFFICES ASSUME PageInv, page.at = "shown"
               PROVE  StatusExplained
    BY DEF StatusExplained
  <2>1. TraceRead /\ PacketsRead
    BY DEF PageInv, PageRead
  <2>2. page.row.status \in Statuses
    BY DEF PageInv, PageTypeOK
  <2> QED
    BY <2>1, <2>2 DEF TraceRead, PacketsRead, StatusExplained, Statuses,
       FailureEvidencePanel, LoopEvidencePanel, NeedsInputPanel
<1> QED
  BY <1>1, PageInvariant, PTL

\* The strip's steps are done in their order, on whatever mix of rows.
THEOREM StripHasNoHole == PageSpec => []StripIsPrefix
<1>1. PageInv => StripIsPrefix
  <2> SUFFICES ASSUME PageInv, page.at = "shown"
               PROVE  StripIsPrefix
    BY DEF StripIsPrefix
  <2> DEFINE C == Completion(page)
  <2>1. /\ C.truth => C.qa
        /\ C.qa => C.specialist
        /\ C.specialist => C.coordinator
        /\ C.coordinator => C.orchestrator
    BY DEF PageInv, PageRead, TraceRead, Completion
  <2>2. /\ StepOrder[1] = "orchestrator" /\ StepOrder[2] = "coordinator"
        /\ StepOrder[3] = "specialist" /\ StepOrder[4] = "qa"
        /\ StepOrder[5] = "truth" /\ DOMAIN StepOrder = 1..5
    BY DEF StepOrder
  <2> HIDE DEF C
  <2>3. ASSUME NEW i \in 1..5, NEW j \in 1..5, i < j, C[StepOrder[j]]
        PROVE  C[StepOrder[i]]
    BY <2>1, <2>2, <2>3
  <2> QED
    BY <2>2, <2>3 DEF StripIsPrefix, C
<1> QED
  BY <1>1, PageInvariant, PTL

----------------------------------------------------------------------------
(* OfferedIsAccepted *)

\* Where an invocation stands when it begins, and when it makes a call.
LEMMA BeginsIdle ==
    ASSUME NEW c, NEW op, NEW ok, NEW next, Begin(c, op, ok, next)
    PROVE  call[c].at = "idle"
BY DEF Begin, Idle

LEMMA ReadsAt ==
    ASSUME NEW c, NEW op, NEW at, NEW next, ReadSeq(c, op, at, next)
    PROVE  call[c].at = at
BY DEF ReadSeq, At

LEMMA InsertsAt ==
    ASSUME NEW c, NEW op, NEW at, NEW type, NEW note, NEW next,
           InsertEvent(c, op, at, type, note, next)
    PROVE  call[c].at = at
BY DEF InsertEvent, At

LEMMA FilesAt ==
    ASSUME NEW c, NEW op, NEW at, NEW kind, NEW note, NEW next,
           InsertPacket(c, op, at, kind, note, next)
    PROVE  call[c].at = at
BY DEF InsertPacket, At

LEMMA UpdatesAt ==
    ASSUME NEW c, NEW op, NEW at, NEW row, UpdateTicket(c, op, at, row)
    PROVE  call[c].at = at
BY DEF UpdateTicket, At

\* At its precondition read an operation can do nothing but that read.
LEMMA PreconditionReads ==
    ASSUME NEW c \in Calls, Step(c), call[c].at \in {"check", "events"},
           call[c].op # "classify"
    PROVE  \/ Guard(c, "injectFailure", "check", ~HasPacket("failure"), "run")
           \/ Guard(c, "injectLoop", "check",
                    ~HasPacket("failure") /\ ~ticket.sig, "run")
           \/ Guard(c, "requestInput", "check", Unresolved = {}, "run")
           \/ FindQuestion(c)
           \/ Guard(c, "reopen", "check", HasPacket("failure"), "run")
           \/ Guard(c, "specialist", "check",
                    HasEvent("orchestrator.classified") /\ artifacts = 0, "run")
           \/ QaReadEvents(c)
<1>1. CASE RunOrchestratorClassification(c)
  <2>1. ~Begin(c, "classify", ticket.status = "open", "check")
    BY BeginsIdle
  <2> QED
    BY <1>1, <2>1 DEF RunOrchestratorClassification, Guard, OpenClassifyRun,
       CloseClassifyRun, InsertEvent, InsertPacket, UpdateTicket,
       InsertFailEvent, IgnoreFailWriteError, At
<1>2. CASE InjectControlledFailure(c)
  BY <1>2, BeginsIdle, ReadsAt, InsertsAt, FilesAt, UpdatesAt
     DEF InjectControlledFailure
<1>3. CASE InjectControlledLoop(c)
  BY <1>3, BeginsIdle, ReadsAt, InsertsAt, FilesAt, UpdatesAt
     DEF InjectControlledLoop
<1>4. CASE RequestNeedsInput(c)
  BY <1>4, BeginsIdle, ReadsAt, InsertsAt, FilesAt, UpdatesAt
     DEF RequestNeedsInput
<1>5. CASE SubmitNeedsInputResponse(c)
  BY <1>5, BeginsIdle, ReadsAt, InsertsAt, FilesAt, UpdatesAt
     DEF SubmitNeedsInputResponse
<1>6. CASE ReopenFailedTicket(c)
  BY <1>6, BeginsIdle, ReadsAt, InsertsAt, FilesAt, UpdatesAt
     DEF ReopenFailedTicket, WriteRecoveryEvidence
<1>7. ~HoldLoopedTicket(c)
  BY BeginsIdle, ReadsAt, InsertsAt, FilesAt, UpdatesAt
     DEF HoldLoopedTicket, WriteRecoveryEvidence
<1>8. CASE RunCoordinatorSpecialistPass(c)
  <2>1. ~InsertArtifact(c)
    BY DEF InsertArtifact, At
  <2> QED
    BY <1>8, <2>1, BeginsIdle, ReadsAt, InsertsAt, FilesAt, UpdatesAt
       DEF RunCoordinatorSpecialistPass
<1>9. CASE RunQaTruthReview(c)
  <2>1. ~(\/ QaReadPacket(c) \/ QaCheckExisting(c) \/ TruthCheckExisting(c)
          \/ QaFindPacket(c) \/ IgnoreQaReadError(c))
    BY DEF QaReadPacket, QaCheckExisting, TruthCheckExisting, QaFindPacket,
       IgnoreQaReadError, At
  <2>2. ~QaReadSeq(c)
    BY ReadsAt DEF QaReadSeq
  <2> QED
    BY <1>9, <2>1, <2>2, BeginsIdle, InsertsAt, FilesAt, UpdatesAt
       DEF RunQaTruthReview
<1>10. ~CreateCalendarHoldForTicket(c)
  <2>1. ~CreateCalendarEvent(c) /\ ~IgnoreSeqReadError(c)
    BY DEF CreateCalendarEvent, IgnoreSeqReadError, At
  <2> QED
    BY <2>1, BeginsIdle, ReadsAt, InsertsAt, FilesAt
       DEF CreateCalendarHoldForTicket
<1>11. ~CreateBriefFromCalendarEvent(c)
  <2>1. ~InsertMarker(c)
    BY DEF InsertMarker, At
  <2> QED
    BY <2>1, BeginsIdle DEF CreateBriefFromCalendarEvent
<1> QED
  BY <1>1, <1>2, <1>3, <1>4, <1>5, <1>6, <1>7, <1>8, <1>9, <1>10, <1>11 DEF Step

\* The page's rules ask of the database's own rows what the actions ask.
LEMMA SameQuestions ==
    /\ \A kind : PacketsOf(Now, kind) = {} <=> ~HasPacket(kind)
    /\ \A type : Has(Now, type) <=> HasEvent(type)
    /\ Unanswered(Now) = Unresolved
    /\ Now.row = ticket /\ Now.artifacts = artifacts
<1>1. Now.packets = packets /\ Now.trace = trace
  BY DEF Now
<1>2. Unanswered(Now) = Unresolved
  BY <1>1 DEF Unanswered, Unresolved, PacketsOf
<1> QED
  BY <1>1, <1>2 DEF PacketsOf, HasPacket, Has, HasEvent, Now

\* A precondition read of an operation on offer goes on.
LEMMA OfferedGoesOn ==
    ASSUME TypeOK, NEW c \in Calls, Step(c),
           call[c].op \in Offered(Now) \ {"classify"},
           call[c].at \in {"check", "events"}
    PROVE  call'[c] # Idle
<1>1. ASSUME Go(c, "run")
      PROVE  call'[c] # Idle
  BY <1>1, GoFields DEF Steps, Idle
<1>2. CASE Guard(c, "injectFailure", "check", ~HasPacket("failure"), "run")
  BY <1>1, <1>2, SameQuestions DEF Guard, At, Offered, CanInjectFailure
<1>3. CASE Guard(c, "injectLoop", "check",
                 ~HasPacket("failure") /\ ~ticket.sig, "run")
  BY <1>1, <1>3, SameQuestions DEF Guard, At, Offered, CanInjectLoop,
     CanInjectFailure
<1>4. CASE Guard(c, "requestInput", "check", Unresolved = {}, "run")
  BY <1>1, <1>4, SameQuestions DEF Guard, At, Offered, CanRequestNeedsInput
<1>5. CASE FindQuestion(c)
  <2>1. Unresolved # {}
    BY <1>5, SameQuestions DEF FindQuestion, At, Offered, CanRespond
  <2>2. PICK q : call' = [call EXCEPT ![c].at = "run", ![c].ref = q]
    BY <1>5, <2>1 DEF FindQuestion
  <2>3. call'[c].at = "run"
    BY <2>2 DEF TypeOK, Call
  <2> QED
    BY <2>3 DEF Idle
<1>6. CASE Guard(c, "reopen", "check", HasPacket("failure"), "run")
  BY <1>1, <1>6, SameQuestions DEF Guard, At, Offered, CanReopenFailed
<1>7. CASE Guard(c, "specialist", "check",
                 HasEvent("orchestrator.classified") /\ artifacts = 0, "run")
  BY <1>1, <1>7, SameQuestions DEF Guard, At, Offered, CanRunSpecialistPass
<1>8. CASE QaReadEvents(c)
  <2>1. /\ HasEvent("specialist.artifact.created") /\ artifacts > 0
        /\ ~(HasEvent("qa.validated") /\ HasEvent("truth.verdict.recorded"))
    BY <1>8, SameQuestions DEF QaReadEvents, At, Offered, CanRunQaTruth
  <2>2. artifacts # 0
    BY <2>1
  <2>3. call'[c].at = "evidence"
    <3>1. PICK e \in trace :
             call' = [call EXCEPT
                ![c].at = "evidence", ![c].link = e.seq,
                ![c].note = IF /\ HasEvent("coordinator.routed")
                               /\ HasEvent("orchestrator.classified")
                               /\ ~HasEvent("tool.calendar_hold.created")
                            THEN "pass" ELSE "fail"]
      BY <1>8, <2>1, <2>2 DEF QaReadEvents
    <3>2. call \in [Calls -> Call]
      BY DEF TypeOK
    <3> QED
      BY <3>1, <3>2 DEF Call
  <2> QED
    BY <2>3 DEF Idle
<1> QED
  BY <1>2, <1>3, <1>4, <1>5, <1>6, <1>7, <1>8, PreconditionReads

\* A step of one invocation is no step of another.
Apart(c) == \A d \in Calls \ {c} : call'[d] = call[d]

LEMMA CallsApart ==
    ASSUME TypeOK, NEW c \in Calls, NEW op, NEW at, NEW ok, NEW type, NEW kind,
           NEW note, NEW row, NEW next,
           \/ Begin(c, op, ok, next)
           \/ Guard(c, op, at, ok, next)
           \/ ReadSeq(c, op, at, next)
           \/ InsertEvent(c, op, at, type, note, next)
           \/ InsertPacket(c, op, at, kind, note, next)
           \/ UpdateTicket(c, op, at, row)
    PROVE  Apart(c)
<1>1. call \in [Calls -> Call]
  BY DEF TypeOK
<1> QED
  BY <1>1 DEF Begin, Guard, ReadSeq, InsertEvent, InsertPacket, UpdateTicket,
     Go, Return, Apart

LEMMA OnlyOwnSteps ==
    ASSUME TypeOK, NEW c \in Calls, Step(c) \/ Fault(c)
    PROVE  Apart(c)
<1>1. call \in [Calls -> Call]
  BY DEF TypeOK
<1>2. CASE \/ OpenClassifyRun(c) \/ CloseClassifyRun(c)
           \/ InsertFailEvent(c) \/ IgnoreFailWriteError(c)
  <2>1. CASE InsertFailEvent(c)
    BY <1>1, <2>1, CallsApart DEF InsertFailEvent, Go, Apart
  <2> QED
    BY <1>1, <1>2, <2>1 DEF OpenClassifyRun, CloseClassifyRun,
       IgnoreFailWriteError, Go, Apart
<1>3. CASE \/ FindQuestion(c) \/ InsertArtifact(c) \/ CreateCalendarEvent(c)
           \/ IgnoreSeqReadError(c) \/ InsertMarker(c)
  BY <1>1, <1>3 DEF FindQuestion, InsertArtifact, CreateCalendarEvent,
     IgnoreSeqReadError, InsertMarker, Go, Return, Apart
<1>4. CASE \/ QaReadEvents(c) \/ QaReadPacket(c) \/ QaCheckExisting(c)
           \/ TruthCheckExisting(c) \/ QaReadSeq(c) \/ QaFindPacket(c)
           \/ IgnoreQaReadError(c)
  <2>1. CASE QaReadEvents(c)
    BY <1>1, <2>1 DEF QaReadEvents, Return, Apart
  <2>2. CASE QaReadSeq(c)
    BY <2>2, CallsApart DEF QaReadSeq
  <2>3. CASE QaReadPacket(c) \/ QaCheckExisting(c)
    BY <1>1, <2>3 DEF QaReadPacket, QaCheckExisting, Go, Apart
  <2>4. CASE TruthCheckExisting(c) \/ QaFindPacket(c) \/ IgnoreQaReadError(c)
    BY <1>1, <2>4 DEF TruthCheckExisting, QaFindPacket, IgnoreQaReadError,
       Go, Return, Apart
  <2> QED
    BY <1>4, <2>1, <2>2, <2>3, <2>4
<1>5. CASE RunOrchestratorClassification(c)
  BY <1>2, <1>5, CallsApart DEF RunOrchestratorClassification
<1>6. CASE InjectControlledFailure(c)
  BY <1>6, CallsApart DEF InjectControlledFailure
<1>7. CASE InjectControlledLoop(c)
  BY <1>7, CallsApart DEF InjectControlledLoop
<1>8. CASE RequestNeedsInput(c)
  BY <1>8, CallsApart DEF RequestNeedsInput
<1>9. CASE SubmitNeedsInputResponse(c)
  BY <1>3, <1>9, CallsApart DEF SubmitNeedsInputResponse
<1>10. CASE ReopenFailedTicket(c) \/ HoldLoopedTicket(c)
  BY <1>10, CallsApart DEF ReopenFailedTicket, HoldLoopedTicket,
     WriteRecoveryEvidence
<1>11. CASE RunCoordinatorSpecialistPass(c)
  BY <1>3, <1>11, CallsApart DEF RunCoordinatorSpecialistPass
<1>12. CASE RunQaTruthReview(c)
  BY <1>4, <1>12, CallsApart DEF RunQaTruthReview
<1>13. CASE CreateCalendarHoldForTicket(c) \/ CreateBriefFromCalendarEvent(c)
  BY <1>3, <1>13, CallsApart DEF CreateCalendarHoldForTicket,
     CreateBriefFromCalendarEvent
<1>14. CASE Fault(c)
  BY <1>1, <1>14 DEF Fault, Return, Apart
<1> QED
  BY <1>5, <1>6, <1>7, <1>8, <1>9, <1>10, <1>11, <1>12, <1>13, <1>14 DEF Step

\* The step OfferedIsAccepted is about.
Accepted ==
    \A c \in Calls :
        /\ call[c].op \in Offered(Now) \ {"classify"}
        /\ call[c].at \in {"check", "events"}
        /\ faults' = faults
        => call'[c] # Idle

LEMMA PageStepAccepts ==
    ASSUME TypeOK, [PageNext]_pageVars
    PROVE  Accepted
<1> SUFFICES ASSUME NEW c \in Calls,
                    call[c].op \in Offered(Now) \ {"classify"},
                    call[c].at \in {"check", "events"},
                    faults' = faults
             PROVE  call'[c] # Idle
  BY DEF Accepted
<1>1. call[c] # Idle
  BY DEF Idle
<1>2. CASE UNCHANGED vars
  BY <1>1, <1>2 DEF vars
<1>3. ASSUME NEW d \in Calls, Step(d)
      PROVE  call'[c] # Idle
  <2>1. CASE d = c
    BY <1>3, <2>1, OfferedGoesOn
  <2>2. CASE d # c
    BY <1>1, <1>3, <2>2, OnlyOwnSteps DEF Apart
  <2> QED
    BY <2>1, <2>2
<1>4. ASSUME NEW d \in Calls, Fault(d)
      PROVE  FALSE
  <2>1. faults \in Nat /\ faults' = faults + 1
    BY <1>4, BoundsAssumption DEF Fault, TypeOK
  <2> QED
    BY <2>1
<1> QED
  BY <1>2, <1>3, <1>4, PageNextIsNext DEF Next

\* What the page of the moment would offer, the operation's own precondition
\* read does not turn away: the two sets of rules, written apart, agree on
\* every database the actions can leave behind.
THEOREM OfferedNotRefused == PageSpec => OfferedIsAccepted
<1>1. Ledger /\ [PageNext]_pageVars => [Accepted]_pageVars
  BY PageStepAccepts DEF Ledger
<1>2. OfferedIsAccepted <=> [][Accepted]_pageVars
  BY DEF OfferedIsAccepted, Accepted
<1> QED
  BY <1>1, <1>2, PageInvariant, PTL DEF PageSpec

=============================================================================
