---------------------------- MODULE TicketProofs ----------------------------
(***************************************************************************)
(* For every set of invocations, every set of operations and every bound:  *)
(* the types are right, the trace of a ticket has no gap and no collision, *)
(* packets are linked to the events of their kind, and the ticket's status *)
(* never runs ahead of its evidence.                                       *)
(***************************************************************************)
EXTENDS TicketProperties, TLAPS

----------------------------------------------------------------------------
(* Facts about the database calls. *)

\* What the select of the highest number returns on a trace without gaps.
LEMMA MaxSeqValue ==
    ASSUME trace \subseteq Event, GapFree
    PROVE  MaxSeq \in Nat /\ Seqs = 1..MaxSeq
<1>1. PICK n \in Seqs \union {0} : Seqs = 1..n
  BY DEF GapFree
<1>2. n \in Nat
  BY DEF Seqs, Event
<1>3. CASE trace = {}
  <2>1. Seqs = {}
    BY <1>3 DEF Seqs
  <2> QED
    BY <1>3, <2>1 DEF MaxSeq
<1>4. CASE trace # {}
  <2>1. Seqs # {}
    BY <1>4 DEF Seqs
  <2>2. n \in Seqs /\ \A m \in Seqs : m <= n
    BY <1>1, <1>2, <2>1
  <2>3. MaxSeq \in Seqs /\ \A m \in Seqs : m <= MaxSeq
    BY <1>4, <2>2 DEF MaxSeq
  <2>4. MaxSeq = n
    BY <1>1, <1>2, <2>2, <2>3
  <2> QED
    BY <1>1, <1>2, <2>4
<1> QED
  BY <1>3, <1>4

\* A step of c that leaves the trace alone and gives c typed locals whose
\* number is still reserved keeps the ledger.
LEMMA LocalStep ==
    ASSUME Ledger, NEW c \in Calls,
           call' \in [Calls -> Call],
           \A d \in Calls \ {c} : call'[d] = call[d],
           1..(call'[c].seq - 1) \subseteq Seqs,
           call'[c].at \in Inserting => call'[c].seq > 0,
           ticket' \in [status : Statuses,
                        failureType : FailureTypes \union {"none"},
                        sig : BOOLEAN],
           packets' \in Seq(Packet), artifacts' \in Nat, holds' \in Nat,
           openRuns' \in Int, started' \in 0..MaxCalls, faults' \in 0..MaxFaults,
           UNCHANGED trace
    PROVE  Ledger'
<1>1. TypeOK'
  BY DEF Ledger, TypeOK
<1>2. GapFree' /\ Seqs' = Seqs
  BY DEF Ledger, GapFree, Seqs
<1>3. Reserved'
  BY <1>2 DEF Ledger, Reserved
<1> QED
  BY <1>1, <1>2, <1>3 DEF Ledger

\* An invocation that moves on without touching its number.
LEMMA LocalGo ==
    ASSUME TypeOK, NEW c \in Calls, NEW at \in Steps, Go(c, at)
    PROVE  /\ call' \in [Calls -> Call]
           /\ \A d \in Calls \ {c} : call'[d] = call[d]
           /\ call'[c] = [call[c] EXCEPT !.at = at]
BY DEF TypeOK, Go, Call

\* An invocation that returns.
LEMMA LocalReturn ==
    ASSUME TypeOK, NEW c \in Calls, Return(c)
    PROVE  /\ call' \in [Calls -> Call]
           /\ \A d \in Calls \ {c} : call'[d] = call[d]
           /\ call'[c] = Idle
<1>1. Idle \in Call
  BY DEF Idle, Call, Steps, Statuses, Notes, FailureTypes
<1> QED
  BY <1>1 DEF TypeOK, Return

\* Inserting at a reserved number that is free extends the trace by exactly
\* the next number: this is where the stale read does no harm.
LEMMA InsertAtEnd ==
    ASSUME Ledger, NEW c \in Calls, NEW type \in EventTypes, NEW note \in Notes,
           call[c].seq > 0, call[c].seq \notin Seqs,
           trace' = trace \union {[seq |-> call[c].seq, type |-> type,
                                   note |-> note]}
    PROVE  /\ trace' \subseteq Event
           /\ GapFree'
           /\ Seqs' = 1..call[c].seq
           /\ Seqs \subseteq Seqs'
<1> DEFINE s == call[c].seq
           new == [seq |-> s, type |-> type, note |-> note]
<1>1. s \in Nat \ {0} /\ trace \subseteq Event /\ GapFree
  BY DEF Ledger, TypeOK, Call
<1>2. MaxSeq \in Nat /\ Seqs = 1..MaxSeq
  BY <1>1, MaxSeqValue
<1>3. 1..(s - 1) \subseteq Seqs
  BY DEF Ledger, Reserved
<1>4. s = MaxSeq + 1
  <2>1. s > MaxSeq
    BY <1>1, <1>2
  <2>2. s - 1 <= MaxSeq
    <3>1. CASE s = 1
      BY <1>1, <1>2, <3>1
    <3>2. CASE s # 1
      <4>1. s - 1 \in 1..(s - 1)
        BY <1>1, <3>2
      <4> QED
        BY <1>2, <1>3, <4>1
    <3> QED
      BY <3>1, <3>2
  <2> QED
    BY <1>1, <1>2, <2>1, <2>2
<1>5. trace' \subseteq Event
  BY <1>1 DEF Event
<1>6. Seqs' = Seqs \union {s}
  <2>1. new.seq = s
    OBVIOUS
  <2>2. trace' = trace \union {new}
    OBVIOUS
  <2> HIDE DEF new
  <2>3. \A n : n \in Seqs' <=> n \in Seqs \/ n = s
    BY <2>1, <2>2 DEF Seqs
  <2> QED
    BY <2>3
<1>7. Seqs' = 1..s
  BY <1>1, <1>2, <1>4, <1>6
<1>8. \A e, f \in trace' : e.seq = f.seq => e = f
  BY <1>1 DEF GapFree, Seqs
<1>9. GapFree'
  <2>1. s \in Seqs'
    BY <1>6
  <2> QED
    BY <1>7, <1>8, <2>1 DEF GapFree
<1> QED
  BY <1>5, <1>6, <1>7, <1>9

----------------------------------------------------------------------------
(* Each database call keeps the ledger, whoever makes it. *)

\* The rows an update may leave in the tickets table.
Row == [status : Statuses, failureType : FailureTypes \union {"none"},
        sig : BOOLEAN]

LEMMA BeginKeeps ==
    ASSUME Ledger, NEW c \in Calls, NEW op \in Operations, NEW eligible,
           NEW next \in Steps \ Inserting, Begin(c, op, eligible, next)
    PROVE  Ledger'
<1> DEFINE r == [Idle EXCEPT !.op = op, !.at = next, !.status = ticket.status]
<1>1. r \in Call /\ r.seq = 0 /\ r.at = next
  BY DEF Idle, Call, Steps, Statuses, Notes, FailureTypes, Ledger, TypeOK
<1>2. call' = [call EXCEPT ![c] = r]
  BY DEF Begin
<1> HIDE DEF r
<1>3. /\ call' \in [Calls -> Call]
      /\ \A d \in Calls \ {c} : call'[d] = call[d]
      /\ call'[c] = r
  BY <1>1, <1>2 DEF Ledger, TypeOK
<1>4. started' \in 0..MaxCalls
  BY BoundsAssumption DEF Begin, Ledger, TypeOK
<1>5. 1..(call'[c].seq - 1) \subseteq Seqs
  BY <1>1, <1>3
<1> QED
  BY <1>1, <1>3, <1>4, <1>5, LocalStep DEF Begin, Ledger, TypeOK, db

LEMMA GoKeeps ==
    ASSUME Ledger, NEW c \in Calls, NEW next \in Steps, Go(c, next),
           next \in Inserting => call[c].seq > 0,
           UNCHANGED <<trace, packets, started>>,
           ticket' \in Row, artifacts' \in Nat, holds' \in Nat,
           openRuns' \in Int, faults' \in 0..MaxFaults
    PROVE  Ledger'
<1>1. /\ call' \in [Calls -> Call]
      /\ \A d \in Calls \ {c} : call'[d] = call[d]
      /\ call'[c] = [call[c] EXCEPT !.at = next]
  BY LocalGo DEF Ledger
<1>2. call'[c].seq = call[c].seq /\ call'[c].at = next
  BY <1>1 DEF Ledger, TypeOK, Call
<1> QED
  BY <1>1, <1>2, LocalStep DEF Ledger, TypeOK, Reserved, Row

\* An invocation that reads and moves on, remembering what it read.
LEMMA LocalKeeps ==
    ASSUME Ledger, NEW c \in Calls, call' \in [Calls -> Call],
           \A d \in Calls \ {c} : call'[d] = call[d],
           call'[c].seq = call[c].seq,
           call'[c].at \in Inserting => call[c].seq > 0,
           UNCHANGED <<db, bounds>>
    PROVE  Ledger'
BY LocalStep DEF db, bounds, Ledger, TypeOK, Reserved

LEMMA ReturnKeeps ==
    ASSUME Ledger, NEW c \in Calls, Return(c),
           UNCHANGED <<trace, packets, started>>,
           ticket' \in Row, artifacts' \in Nat, holds' \in Nat,
           openRuns' \in Int, faults' \in 0..MaxFaults
    PROVE  Ledger'
<1>1. /\ call' \in [Calls -> Call]
      /\ \A d \in Calls \ {c} : call'[d] = call[d]
      /\ call'[c] = Idle
  BY LocalReturn DEF Ledger
<1>2. 1..(call'[c].seq - 1) \subseteq Seqs /\ call'[c].at \notin Inserting
  BY <1>1 DEF Idle, Inserting
<1> QED
  BY <1>1, <1>2, LocalStep DEF Ledger, TypeOK, Row

LEMMA GuardKeeps ==
    ASSUME Ledger, NEW c \in Calls, NEW op, NEW at, NEW ok,
           NEW next \in Steps \ Inserting, Guard(c, op, at, ok, next)
    PROVE  Ledger'
<1>1. /\ ticket' \in Row /\ artifacts' \in Nat /\ holds' \in Nat
      /\ openRuns' \in Int /\ faults' \in 0..MaxFaults
      /\ UNCHANGED <<trace, packets, started>>
  BY DEF Guard, db, bounds, Ledger, TypeOK, Row
<1>2. Go(c, next) \/ Return(c)
  BY DEF Guard
<1> QED
  BY <1>1, <1>2, GoKeeps, ReturnKeeps

\* A read of max(seq) reserves the number after it.
LEMMA SeqStep ==
    ASSUME Ledger, NEW c \in Calls, NEW next \in Steps, NEW n \in Nat \ {0},
           n = 1 \/ n = MaxSeq + 1,
           call' = [call EXCEPT ![c].at = next, ![c].seq = n],
           UNCHANGED <<trace, ticket, packets, artifacts, holds, started>>,
           openRuns' \in Int, faults' \in 0..MaxFaults
    PROVE  Ledger'
<1>1. MaxSeq \in Nat /\ Seqs = 1..MaxSeq
  BY MaxSeqValue DEF Ledger, TypeOK
<1>2. /\ call' \in [Calls -> Call]
      /\ \A d \in Calls \ {c} : call'[d] = call[d]
      /\ call'[c] = [call[c] EXCEPT !.at = next, !.seq = n]
  BY DEF Ledger, TypeOK, Call
<1>3. call'[c].seq = n
  BY <1>2 DEF Ledger, TypeOK, Call
<1>4. 1..(n - 1) \subseteq Seqs
  BY <1>1
<1> QED
  BY <1>2, <1>3, <1>4, LocalStep DEF Ledger, TypeOK

LEMMA ReadSeqKeeps ==
    ASSUME Ledger, NEW c \in Calls, NEW op, NEW at, NEW next \in Steps,
           ReadSeq(c, op, at, next)
    PROVE  Ledger'
<1>1. MaxSeq + 1 \in Nat \ {0}
  BY MaxSeqValue DEF Ledger, TypeOK
<1> QED
  BY <1>1, SeqStep DEF ReadSeq, db, bounds, Ledger, TypeOK

\* The insert itself, whatever the action remembers of it.
LEMMA InsertStep ==
    ASSUME Ledger, NEW c \in Calls, NEW type \in EventTypes, NEW note \in Notes,
           call[c].seq > 0, call[c].seq \notin Seqs,
           trace' = trace \union {[seq |-> call[c].seq, type |-> type,
                                   note |-> note]},
           call' \in [Calls -> Call],
           \A d \in Calls \ {c} : call'[d] = call[d],
           call'[c].seq = call[c].seq + 1,
           UNCHANGED <<ticket, packets, artifacts, holds, openRuns, bounds>>
    PROVE  Ledger'
<1>1. /\ trace' \subseteq Event /\ GapFree'
      /\ Seqs' = 1..call[c].seq /\ Seqs \subseteq Seqs'
  BY InsertAtEnd
<1>3. TypeOK'
  BY <1>1 DEF Ledger, TypeOK, bounds
<1>4. call[c].seq \in Nat
  BY DEF Ledger, TypeOK, Call
<1>5. Reserved'
  <2> SUFFICES ASSUME NEW d \in Calls
               PROVE  /\ 1..(call'[d].seq - 1) \subseteq Seqs'
                      /\ call'[d].at \in Inserting => call'[d].seq > 0
    BY DEF Reserved
  <2>1. CASE d = c
    BY <1>1, <1>4, <2>1
  <2>2. CASE d # c
    BY <1>1, <2>2 DEF Ledger, Reserved
  <2> QED
    BY <2>1, <2>2
<1> QED
  BY <1>1, <1>3, <1>5 DEF Ledger

\* What an invocation remembers of its insert.
LEMMA AfterInsert ==
    ASSUME TypeOK, NEW c \in Calls, NEW next \in Steps,
           call' = [call EXCEPT ![c].at = next, ![c].link = call[c].seq,
                                ![c].seq = @ + 1]
    PROVE  /\ call' \in [Calls -> Call]
           /\ \A d \in Calls \ {c} : call'[d] = call[d]
           /\ call'[c].seq = call[c].seq + 1 /\ call'[c].link = call[c].seq
           /\ call'[c].at = next /\ call'[c].op = call[c].op
           /\ call'[c].note = call[c].note
<1> DEFINE k == call[c]
           r == [op |-> k.op, at |-> next, status |-> k.status,
                 seq |-> k.seq + 1, link |-> k.seq, ref |-> k.ref,
                 note |-> k.note, skip |-> k.skip]
<1>1. k \in Call /\ call \in [Calls -> Call]
  BY DEF TypeOK
<1>2. r \in Call
  BY <1>1 DEF Call
<1>3. call' = [call EXCEPT ![c] = r]
  BY <1>1 DEF Call
<1> HIDE DEF r
<1>4. call' \in [Calls -> Call] /\ call'[c] = r
  BY <1>1, <1>2, <1>3
<1>5. \A d \in Calls \ {c} : call'[d] = call[d]
  BY <1>1, <1>3
<1> USE DEF r
<1> QED
  BY <1>4, <1>5

LEMMA InsertEventKeeps ==
    ASSUME Ledger, NEW c \in Calls, NEW op, NEW at \in Inserting,
           NEW type \in EventTypes, NEW note \in Notes, NEW next \in Steps,
           InsertEvent(c, op, at, type, note, next)
    PROVE  Ledger'
<1>1. call[c].seq > 0
  BY DEF InsertEvent, At, Ledger, Reserved
<1>2. CASE call[c].seq \in Seqs /\ Return(c) /\ UNCHANGED trace
  BY <1>2, ReturnKeeps DEF InsertEvent, bounds, Ledger, TypeOK, Row
<1>3. CASE call[c].seq \notin Seqs
  <2>1. /\ call' \in [Calls -> Call]
        /\ \A d \in Calls \ {c} : call'[d] = call[d]
        /\ call'[c].seq = call[c].seq + 1
    BY <1>3, AfterInsert DEF InsertEvent, Ledger
  <2> QED
    BY <1>1, <1>3, <2>1, InsertStep DEF InsertEvent
<1> QED
  BY <1>2, <1>3 DEF InsertEvent

LEMMA InsertPacketKeeps ==
    ASSUME Ledger, NEW c \in Calls, NEW op, NEW at, NEW kind \in Kinds,
           NEW note \in Notes, NEW next \in Steps,
           InsertPacket(c, op, at, kind, note, next),
           next \in Inserting => call[c].seq > 0
    PROVE  Ledger'
<1> DEFINE p == [kind |-> kind, event |-> call[c].link, ref |-> call[c].ref,
                 note |-> note]
<1>1. p \in Packet
  BY DEF Packet, Ledger, TypeOK, Call
<1>2. packets' \in Seq(Packet)
  BY <1>1 DEF InsertPacket, Ledger, TypeOK
<1>3. /\ call' \in [Calls -> Call]
      /\ \A d \in Calls \ {c} : call'[d] = call[d]
      /\ \/ call'[c] = [call[c] EXCEPT !.at = next]
         \/ call'[c] = Idle
  BY LocalGo, LocalReturn DEF InsertPacket, Ledger
<1>4. /\ 1..(call'[c].seq - 1) \subseteq Seqs
      /\ call'[c].at \in Inserting => call'[c].seq > 0
  <2>1. CASE call'[c] = Idle
    BY <2>1 DEF Idle, Inserting
  <2>2. CASE call'[c] = [call[c] EXCEPT !.at = next]
    <3>1. call'[c].seq = call[c].seq /\ call'[c].at = next
      BY <2>2 DEF Ledger, TypeOK, Call
    <3> QED
      BY <3>1 DEF Ledger, Reserved
  <2> QED
    BY <1>3, <2>1, <2>2
<1> QED
  BY <1>2, <1>3, <1>4, LocalStep DEF InsertPacket, bounds, Ledger, TypeOK

LEMMA UpdateTicketKeeps ==
    ASSUME Ledger, NEW c \in Calls, NEW op, NEW at, NEW row \in Row,
           UpdateTicket(c, op, at, row)
    PROVE  Ledger'
BY ReturnKeeps DEF UpdateTicket, bounds, Ledger, TypeOK, Row

----------------------------------------------------------------------------
(* Every operation keeps the ledger. *)

\* What the ledger says of the rows and locals.
LEMMA Typed ==
    ASSUME Ledger
    PROVE  /\ ticket \in Row /\ artifacts \in Nat /\ holds \in Nat
           /\ openRuns \in Int /\ faults \in 0..MaxFaults
           /\ \A s \in Statuses : SetStatus(s) \in Row
           /\ \A s \in Statuses, t \in FailureTypes : Fail(s, t) \in Row
           /\ \A c \in Calls : call[c] \in Call
BY DEF Ledger, TypeOK, Row, SetStatus, Fail

LEMMA ClassifyKeeps ==
    ASSUME Ledger, NEW c \in Calls, RunOrchestratorClassification(c)
    PROVE  Ledger'
<1> USE DEF Steps, Inserting, EventTypes, Notes, FailureTypes, Kinds, EventsOf
<1>1. CASE Begin(c, "classify", ticket.status = "open", "check")
  BY <1>1, BeginKeeps DEF Operations
<1>2. CASE Guard(c, "classify", "check", ~HasEvent("orchestrator.classified"), "run")
  BY <1>2, GuardKeeps
<1>3. CASE OpenClassifyRun(c)
  <2>1. MaxSeq + 1 \in Nat \ {0}
    BY MaxSeqValue DEF Ledger, TypeOK
  <2>2. openRuns' \in Int /\ faults' \in 0..MaxFaults
    BY <1>3, Typed DEF OpenClassifyRun, bounds
  <2> QED
    BY <1>3, <2>1, <2>2, SeqStep DEF OpenClassifyRun, bounds
<1>4. CASE CloseClassifyRun(c)
  <2>1. call[c].seq > 0
    BY <1>4 DEF CloseClassifyRun, At, Ledger, Reserved
  <2>2. openRuns' \in Int
    BY <1>4, Typed DEF CloseClassifyRun
  <2> QED
    BY <1>4, <2>1, <2>2, GoKeeps, Typed DEF CloseClassifyRun, bounds
<1>5. CASE InsertEvent(c, "classify", "event", "orchestrator.classified", "none", "packet")
  BY <1>5, InsertEventKeeps
<1>6. CASE InsertPacket(c, "classify", "packet", "handoff", "none", "ticket")
  BY <1>6, InsertPacketKeeps
<1>7. CASE UpdateTicket(c, "classify", "ticket", SetStatus("in_progress"))
  BY <1>7, UpdateTicketKeeps, Typed DEF Statuses
<1>8. CASE InsertFailEvent(c)
  BY <1>8, InsertEventKeeps, GoKeeps, Typed DEF InsertFailEvent, db, bounds
<1>9. CASE InsertPacket(c, "classify", "failPacket", "failure", "model_error", "failTicket")
  BY <1>9, InsertPacketKeeps
<1>10. CASE UpdateTicket(c, "classify", "failTicket", Fail("failed", "model_error"))
  BY <1>10, UpdateTicketKeeps, Typed DEF Statuses
<1>11. CASE IgnoreFailWriteError(c)
  <2>1. faults' \in 0..MaxFaults
    BY <1>11, BoundsAssumption, Typed DEF IgnoreFailWriteError
  <2>2. PICK next \in {"failEvent", "failPacket", "failTicket"} : Go(c, next)
    BY <1>11 DEF IgnoreFailWriteError
  <2>3. next \in Inserting => call[c].seq > 0
    BY <1>11, <2>2 DEF IgnoreFailWriteError, At, Go, Ledger, TypeOK, Call, Reserved
  <2> QED
    BY <1>11, <2>1, <2>2, <2>3, GoKeeps, Typed DEF IgnoreFailWriteError, db
<1> QED
  BY <1>1, <1>2, <1>3, <1>4, <1>5, <1>6, <1>7, <1>8, <1>9, <1>10, <1>11
     DEF RunOrchestratorClassification

LEMMA InjectFailureKeeps ==
    ASSUME Ledger, NEW c \in Calls, InjectControlledFailure(c)
    PROVE  Ledger'
<1> USE DEF Steps, Inserting, EventTypes, Notes, FailureTypes, Kinds, EventsOf
<1>1. CASE Begin(c, "injectFailure", ticket.status \in {"open", "in_progress"}, "check")
  BY <1>1, BeginKeeps DEF Operations
<1>2. CASE Guard(c, "injectFailure", "check", ~HasPacket("failure"), "run")
  BY <1>2, GuardKeeps
<1>3. CASE ReadSeq(c, "injectFailure", "run", "event")
  BY <1>3, ReadSeqKeeps
<1>4. CASE InsertEvent(c, "injectFailure", "event", "failure.injected", "none", "packet")
  BY <1>4, InsertEventKeeps
<1>5. CASE InsertPacket(c, "injectFailure", "packet", "failure", "execution_error", "ticket")
  BY <1>5, InsertPacketKeeps
<1>6. CASE UpdateTicket(c, "injectFailure", "ticket", Fail("failed", "execution_error"))
  BY <1>6, UpdateTicketKeeps, Typed DEF Statuses
<1> QED
  BY <1>1, <1>2, <1>3, <1>4, <1>5, <1>6 DEF InjectControlledFailure

LEMMA InjectLoopKeeps ==
    ASSUME Ledger, NEW c \in Calls, InjectControlledLoop(c)
    PROVE  Ledger'
<1> USE DEF Steps, Inserting, EventTypes, Notes, FailureTypes, Kinds, EventsOf
<1> DEFINE row == [Fail("looped", "timeout") EXCEPT !.sig = TRUE]
<1>1. CASE Begin(c, "injectLoop", /\ ticket.status \in {"open", "in_progress"}
                                  /\ ~ticket.sig, "check")
  BY <1>1, BeginKeeps DEF Operations
<1>2. CASE Guard(c, "injectLoop", "check", ~HasPacket("failure") /\ ~ticket.sig, "run")
  BY <1>2, GuardKeeps
<1>3. CASE ReadSeq(c, "injectLoop", "run", "event")
  BY <1>3, ReadSeqKeeps
<1>4. CASE InsertEvent(c, "injectLoop", "event", "loop.iteration.detected", "none", "event2")
  BY <1>4, InsertEventKeeps
<1>5. CASE InsertEvent(c, "injectLoop", "event2", "loop.iteration.detected", "none", "event3")
  BY <1>5, InsertEventKeeps
<1>6. CASE InsertEvent(c, "injectLoop", "event3", "loop.terminated", "none", "packet")
  BY <1>6, InsertEventKeeps
<1>7. CASE InsertPacket(c, "injectLoop", "packet", "failure", "timeout", "ticket")
  BY <1>7, InsertPacketKeeps
<1>8. CASE UpdateTicket(c, "injectLoop", "ticket", row)
  <2>1. Fail("looped", "timeout") \in Row
    BY Typed DEF Statuses
  <2>2. \A r \in Row : [r EXCEPT !.sig = TRUE] \in Row
    BY DEF Row
  <2>3. row \in Row
    BY <2>1, <2>2
  <2> QED
    BY <1>8, <2>3, UpdateTicketKeeps
<1> QED
  BY <1>1, <1>2, <1>3, <1>4, <1>5, <1>6, <1>7, <1>8 DEF InjectControlledLoop

LEMMA RequestKeeps ==
    ASSUME Ledger, NEW c \in Calls, RequestNeedsInput(c)
    PROVE  Ledger'
<1> USE DEF Steps, Inserting, EventTypes, Notes, FailureTypes, Kinds, EventsOf
<1>1. CASE Begin(c, "requestInput", ticket.status \in {"open", "in_progress"}, "check")
  BY <1>1, BeginKeeps DEF Operations
<1>2. CASE Guard(c, "requestInput", "check", Unresolved = {}, "run")
  BY <1>2, GuardKeeps
<1>3. CASE ReadSeq(c, "requestInput", "run", "event")
  BY <1>3, ReadSeqKeeps
<1>4. CASE InsertEvent(c, "requestInput", "event", "input.requested", "none", "packet")
  BY <1>4, InsertEventKeeps
<1>5. CASE InsertPacket(c, "requestInput", "packet", "question", "none", "ticket")
  BY <1>5, InsertPacketKeeps
<1>6. CASE UpdateTicket(c, "requestInput", "ticket", SetStatus("needs_input"))
  BY <1>6, UpdateTicketKeeps, Typed DEF Statuses
<1> QED
  BY <1>1, <1>2, <1>3, <1>4, <1>5, <1>6 DEF RequestNeedsInput

LEMMA FindQuestionKeeps ==
    ASSUME Ledger, NEW c \in Calls, FindQuestion(c)
    PROVE  Ledger'
<1> DEFINE k == call[c]
<1>1. call \in [Calls -> Call] /\ k \in Call
  BY Typed DEF Ledger, TypeOK
<1>2. CASE Return(c)
  BY <1>2, ReturnKeeps, Typed DEF FindQuestion, db, bounds
<1>3. CASE \E q \in Unresolved :
              call' = [call EXCEPT ![c].at = "run", ![c].ref = q]
  <2>1. PICK q \in Unresolved :
              call' = [call EXCEPT ![c].at = "run", ![c].ref = q]
    BY <1>3
  <2>2. q \in Nat
    BY DEF Unresolved, Ledger, TypeOK
  <2>3. /\ call' \in [Calls -> Call]
        /\ \A d \in Calls \ {c} : call'[d] = call[d]
        /\ call'[c].seq = call[c].seq /\ call'[c].at = "run"
    BY <1>1, <2>1, <2>2 DEF Call, Steps
  <2> QED
    BY <2>3, LocalKeeps DEF FindQuestion, Inserting
<1> QED
  BY <1>2, <1>3 DEF FindQuestion

LEMMA SubmitKeeps ==
    ASSUME Ledger, NEW c \in Calls, SubmitNeedsInputResponse(c)
    PROVE  Ledger'
<1> USE DEF Steps, Inserting, EventTypes, Notes, FailureTypes, Kinds, EventsOf
<1>1. CASE Begin(c, "submitResponse", ticket.status = "needs_input", "check")
  BY <1>1, BeginKeeps DEF Operations
<1>2. CASE FindQuestion(c)
  BY <1>2, FindQuestionKeeps
<1>3. CASE ReadSeq(c, "submitResponse", "run", "event")
  BY <1>3, ReadSeqKeeps
<1>4. CASE InsertEvent(c, "submitResponse", "event", "input.responded", "none", "packet")
  BY <1>4, InsertEventKeeps
<1>5. CASE InsertPacket(c, "submitResponse", "packet", "response", "none", "ticket")
  BY <1>5, InsertPacketKeeps
<1>6. CASE UpdateTicket(c, "submitResponse", "ticket", SetStatus("in_progress"))
  BY <1>6, UpdateTicketKeeps, Typed DEF Statuses
<1> QED
  BY <1>1, <1>2, <1>3, <1>4, <1>5, <1>6 DEF SubmitNeedsInputResponse

LEMMA RecoveryEvidenceKeeps ==
    ASSUME Ledger, NEW c \in Calls, NEW op \in Operations,
           NEW type \in EventTypes, WriteRecoveryEvidence(c, op, type)
    PROVE  Ledger'
<1> USE DEF Steps, Inserting, Notes, Kinds, EventsOf
<1>1. CASE ReadSeq(c, op, "run", "event")
  BY <1>1, ReadSeqKeeps
<1>2. CASE InsertEvent(c, op, "event", type, "none", "packet")
  BY <1>2, InsertEventKeeps
<1>3. CASE InsertPacket(c, op, "packet", "recovery", "none", "ticket")
  BY <1>3, InsertPacketKeeps
<1> QED
  BY <1>1, <1>2, <1>3 DEF WriteRecoveryEvidence

LEMMA ReopenKeeps ==
    ASSUME Ledger, NEW c \in Calls, ReopenFailedTicket(c)
    PROVE  Ledger'
<1> USE DEF Steps, Inserting, Operations
<1>1. CASE Begin(c, "reopen", ticket.status = "failed", "check")
  BY <1>1, BeginKeeps
<1>2. CASE Guard(c, "reopen", "check", HasPacket("failure"), "run")
  BY <1>2, GuardKeeps
<1>3. CASE WriteRecoveryEvidence(c, "reopen", "recovery.requested")
  BY <1>3, RecoveryEvidenceKeeps DEF EventTypes
<1>4. CASE UpdateTicket(c, "reopen", "ticket", SetStatus("open"))
  BY <1>4, UpdateTicketKeeps, Typed DEF Statuses
<1> QED
  BY <1>1, <1>2, <1>3, <1>4 DEF ReopenFailedTicket

LEMMA HoldKeeps ==
    ASSUME Ledger, NEW c \in Calls, HoldLoopedTicket(c)
    PROVE  Ledger'
<1> USE DEF Steps, Inserting, Operations
<1>1. CASE Begin(c, "hold", ticket.status = "looped" /\ ticket.sig, "run")
  BY <1>1, BeginKeeps
<1>2. CASE WriteRecoveryEvidence(c, "hold", "recovery.hold_requested")
  BY <1>2, RecoveryEvidenceKeeps DEF EventTypes
<1>3. CASE UpdateTicket(c, "hold", "ticket", SetStatus("needs_input"))
  BY <1>3, UpdateTicketKeeps, Typed DEF Statuses
<1> QED
  BY <1>1, <1>2, <1>3 DEF HoldLoopedTicket

LEMMA SpecialistKeeps ==
    ASSUME Ledger, NEW c \in Calls, RunCoordinatorSpecialistPass(c)
    PROVE  Ledger'
<1> USE DEF Steps, Inserting, EventTypes, Notes, Kinds, EventsOf
<1>1. CASE Begin(c, "specialist", ticket.status = "in_progress", "check")
  BY <1>1, BeginKeeps DEF Operations
<1>2. CASE Guard(c, "specialist", "check",
                 HasEvent("orchestrator.classified") /\ artifacts = 0, "run")
  BY <1>2, GuardKeeps
<1>3. CASE ReadSeq(c, "specialist", "run", "event")
  BY <1>3, ReadSeqKeeps
<1>4. CASE InsertEvent(c, "specialist", "event", "coordinator.routed", "none", "artifact")
  BY <1>4, InsertEventKeeps
<1>5. CASE InsertArtifact(c)
  <2>1. call[c].seq > 0
    BY <1>5 DEF InsertArtifact, At, Ledger, Reserved
  <2>2. artifacts' \in Nat
    BY <1>5, Typed DEF InsertArtifact
  <2> QED
    BY <1>5, <2>1, <2>2, GoKeeps, Typed DEF InsertArtifact, bounds
<1>6. CASE InsertEvent(c, "specialist", "event2", "specialist.artifact.created", "none", "packet")
  BY <1>6, InsertEventKeeps
<1>7. CASE InsertPacket(c, "specialist", "packet", "artifact", "none", "ticket")
  BY <1>7, InsertPacketKeeps
<1>8. CASE UpdateTicket(c, "specialist", "ticket", SetStatus("done"))
  BY <1>8, UpdateTicketKeeps, Typed DEF Statuses
<1> QED
  BY <1>1, <1>2, <1>3, <1>4, <1>5, <1>6, <1>7, <1>8
     DEF RunCoordinatorSpecialistPass

\* The reads of the review remember an event, a result and a flag.
LEMMA QaReadsKeep ==
    ASSUME Ledger, NEW c \in Calls,
           \/ QaReadEvents(c) \/ QaReadPacket(c)
           \/ QaCheckExisting(c) \/ TruthCheckExisting(c)
    PROVE  Ledger'
<1> USE DEF Steps, Inserting, Notes
<1>1. call \in [Calls -> Call] /\ call[c] \in Call /\ UNCHANGED <<db, bounds>>
  BY Typed DEF Ledger, TypeOK, QaReadEvents, QaReadPacket, QaCheckExisting,
               TruthCheckExisting
<1>2. CASE Return(c)
  BY <1>1, <1>2, ReturnKeeps, Typed DEF db, bounds
<1>3. CASE \E n \in Nat, v \in {"pass", "fail"} :
              call' = [call EXCEPT ![c].at = "evidence", ![c].link = n,
                                   ![c].note = v]
  <2>1. PICK n \in Nat, v \in {"pass", "fail"} :
              call' = [call EXCEPT ![c].at = "evidence", ![c].link = n,
                                   ![c].note = v]
    BY <1>3
  <2>2. /\ call' \in [Calls -> Call]
        /\ \A d \in Calls \ {c} : call'[d] = call[d]
        /\ call'[c].seq = call[c].seq /\ call'[c].at = "evidence"
    BY <1>1, <2>1 DEF Call
  <2> QED
    BY <1>1, <2>2, LocalKeeps
<1>4. CASE QaReadPacket(c)
  <2>1. PICK v \in Notes : call' = [call EXCEPT ![c].at = "qaCheck",
                                                ![c].link = 0, ![c].note = v]
    BY <1>1, <1>4 DEF QaReadPacket, Call
  <2>2. /\ call' \in [Calls -> Call]
        /\ \A d \in Calls \ {c} : call'[d] = call[d]
        /\ call'[c].seq = call[c].seq /\ call'[c].at = "qaCheck"
    BY <1>1, <2>1 DEF Call
  <2> QED
    BY <1>1, <2>2, LocalKeeps
<1>5. CASE QaCheckExisting(c)
  <2>1. CASE Go(c, "truthCheck")
    BY <1>1, <2>1, GoKeeps, Typed DEF db, bounds
  <2>2. CASE \E e \in trace : call' = [call EXCEPT ![c].at = "truthCheck",
                                                   ![c].link = e.seq]
    <3>1. PICK n \in Nat : call' = [call EXCEPT ![c].at = "truthCheck",
                                                ![c].link = n]
      BY <2>2 DEF Ledger, TypeOK, Event
    <3>2. /\ call' \in [Calls -> Call]
          /\ \A d \in Calls \ {c} : call'[d] = call[d]
          /\ call'[c].seq = call[c].seq /\ call'[c].at = "truthCheck"
      BY <1>1, <3>1 DEF Call
    <3> QED
      BY <1>1, <3>2, LocalKeeps
  <2> QED
    BY <1>5, <2>1, <2>2 DEF QaCheckExisting
<1>6. CASE TruthCheckExisting(c) /\ ~Return(c)
  <2>1. PICK b \in BOOLEAN : call' = [call EXCEPT ![c].at = "run", ![c].skip = b]
    BY <1>6 DEF TruthCheckExisting, HasEvent
  <2>2. /\ call' \in [Calls -> Call]
        /\ \A d \in Calls \ {c} : call'[d] = call[d]
        /\ call'[c].seq = call[c].seq /\ call'[c].at = "run"
    BY <1>1, <2>1 DEF Call
  <2> QED
    BY <1>1, <2>2, LocalKeeps
<1>7. CASE QaReadEvents(c) /\ ~Return(c)
  <2>1. PICK e \in trace : \E v \in {"pass", "fail"} :
              call' = [call EXCEPT ![c].at = "evidence", ![c].link = e.seq,
                                   ![c].note = v]
    BY <1>7 DEF QaReadEvents
  <2>2. e.seq \in Nat
    BY DEF Ledger, TypeOK, Event
  <2> QED
    BY <1>3, <2>1, <2>2
<1> QED
  BY <1>2, <1>4, <1>5, <1>6, <1>7

LEMMA FindPacketKeeps ==
    ASSUME Ledger, NEW c \in Calls, QaFindPacket(c)
    PROVE  Ledger'
<1>1. PICK q \in DOMAIN packets \union {0} :
         call' = [call EXCEPT ![c].at = "truthEvent", ![c].ref = q]
  BY DEF QaFindPacket
<1>2. q \in Nat /\ call \in [Calls -> Call] /\ call[c] \in Call
  BY Typed DEF Ledger, TypeOK
<1>3. call[c].seq > 0
  BY DEF QaFindPacket, At, Ledger, Reserved, Inserting
<1>4. /\ call' \in [Calls -> Call]
      /\ \A d \in Calls \ {c} : call'[d] = call[d]
      /\ call'[c].seq = call[c].seq
  BY <1>1, <1>2 DEF Call, Steps
<1> QED
  BY <1>3, <1>4, LocalKeeps DEF QaFindPacket

\* A read error is taken for a missing row: the review goes on.
LEMMA IgnoreReadKeeps ==
    ASSUME Ledger, NEW c \in Calls, IgnoreQaReadError(c)
    PROVE  Ledger'
<1>1. faults' \in 0..MaxFaults
  BY BoundsAssumption, Typed DEF IgnoreQaReadError
<1>2. call \in [Calls -> Call] /\ call[c] \in Call
  BY Typed DEF Ledger, TypeOK
<1>3. /\ call' \in [Calls -> Call]
      /\ \A d \in Calls \ {c} : call'[d] = call[d]
      /\ call'[c].seq = call[c].seq
      /\ call'[c].at \in Inserting => call[c].seq > 0
  <2>1. CASE /\ At(c, "qa", "evidence")
             /\ call' = [call EXCEPT ![c].at = "qaCheck", ![c].link = 0,
                                     ![c].note = "fail"]
    <3>1. "qaCheck" \in Steps \ Inserting /\ "fail" \in Notes
      BY DEF Steps, Inserting, Notes
    <3>2. call' \in [Calls -> Call] /\ call'[c].seq = call[c].seq
      BY <1>2, <2>1, <3>1 DEF Call
    <3>3. call'[c].at = "qaCheck" /\ \A d \in Calls \ {c} : call'[d] = call[d]
      BY <1>2, <2>1 DEF Call
    <3> QED
      BY <3>1, <3>2, <3>3
  <2>2. CASE At(c, "qa", "qaCheck") /\ Go(c, "truthCheck")
    BY <1>2, <2>2 DEF Go, Call, Steps, Inserting
  <2>3. CASE /\ At(c, "qa", "truthCheck")
             /\ call' = [call EXCEPT ![c].at = "run", ![c].skip = FALSE]
    BY <1>2, <2>3 DEF Call, Steps, Inserting
  <2>4. CASE At(c, "qa", "verdict") /\ Go(c, "truthEvent")
    <3>1. call[c].seq > 0
      BY <2>4 DEF At, Ledger, Reserved, Inserting
    <3> QED
      BY <1>2, <2>4, <3>1 DEF Go, Call, Steps
  <2> QED
    BY <2>1, <2>2, <2>3, <2>4 DEF IgnoreQaReadError
<1> QED
  BY <1>1, <1>3, LocalStep DEF IgnoreQaReadError, db, Ledger, TypeOK, Reserved

LEMMA ReviewKeeps ==
    ASSUME Ledger, NEW c \in Calls, RunQaTruthReview(c)
    PROVE  Ledger'
<1> USE DEF Steps, Inserting, Kinds, EventsOf
<1>1. call[c].note \in Notes
  BY Typed DEF Call
<1>2. CASE Begin(c, "qa", TRUE, "events")
  BY <1>2, BeginKeeps DEF Operations
<1>3. CASE \/ QaReadEvents(c) \/ QaReadPacket(c)
           \/ QaCheckExisting(c) \/ TruthCheckExisting(c)
  BY <1>3, QaReadsKeep
<1>4. CASE QaReadSeq(c)
  BY <1>4, ReadSeqKeeps DEF QaReadSeq
<1>5. CASE InsertEvent(c, "qa", "qaEvent", "qa.validated", call[c].note, "qaPacket")
  BY <1>1, <1>5, InsertEventKeeps DEF EventTypes
<1>6. CASE InsertPacket(c, "qa", "qaPacket", "qa", call[c].note,
                        IF call[c].skip THEN "idle" ELSE "verdict")
  <2>1. call[c].seq > 0
    BY <1>6 DEF InsertPacket, At, Ledger, Reserved
  <2> QED
    BY <1>1, <1>6, <2>1, InsertPacketKeeps
<1>7. CASE QaFindPacket(c)
  BY <1>7, FindPacketKeeps
<1>10. CASE InsertEvent(c, "qa", "truthEvent", "truth.verdict.recorded",
                        call[c].note, "truthPacket")
  BY <1>1, <1>10, InsertEventKeeps DEF EventTypes
<1>11. CASE IgnoreQaReadError(c)
  BY <1>11, IgnoreReadKeeps
<1>8. CASE InsertPacket(c, "qa", "truthPacket", "truth", call[c].note, "ticket")
  BY <1>1, <1>8, InsertPacketKeeps
<1>9. CASE UpdateTicket(c, "qa", "ticket",
                        IF call[c].note = "pass" /\ call[c].status # "done"
                        THEN SetStatus("done") ELSE ticket)
  BY <1>9, UpdateTicketKeeps, Typed DEF Statuses
<1> QED
  BY <1>2, <1>3, <1>4, <1>5, <1>6, <1>7, <1>8, <1>9, <1>10, <1>11
     DEF RunQaTruthReview

LEMMA CalendarHoldKeeps ==
    ASSUME Ledger, NEW c \in Calls, CreateCalendarHoldForTicket(c)
    PROVE  Ledger'
<1> USE DEF Steps, Inserting, EventTypes, Notes, Kinds, EventsOf
<1>1. CASE Begin(c, "calendarHold", TRUE, "write")
  BY <1>1, BeginKeeps DEF Operations
<1>2. CASE CreateCalendarEvent(c)
  <2>1. holds' \in Nat
    BY <1>2, Typed DEF CreateCalendarEvent
  <2> QED
    BY <1>2, <2>1, GoKeeps, ReturnKeeps, Typed DEF CreateCalendarEvent, bounds
<1>3. CASE ReadSeq(c, "calendarHold", "run", "event")
  BY <1>3, ReadSeqKeeps
<1>4. CASE IgnoreSeqReadError(c)
  <2>1. faults' \in 0..MaxFaults /\ openRuns' \in Int
    BY <1>4, BoundsAssumption, Typed DEF IgnoreSeqReadError, db
  <2>2. /\ call' = [call EXCEPT ![c].at = "event", ![c].seq = 1]
        /\ UNCHANGED <<trace, ticket, packets, artifacts, holds, started>>
    BY <1>4 DEF IgnoreSeqReadError, db
  <2>3. "event" \in Steps /\ 1 \in Nat \ {0}
    OBVIOUS
  <2> HIDE DEF Steps, Inserting
  <2> QED
    BY <2>1, <2>2, <2>3, SeqStep
<1>5. CASE InsertEvent(c, "calendarHold", "event", "tool.calendar_hold.created", "none", "packet")
  BY <1>5, InsertEventKeeps
<1>6. CASE InsertPacket(c, "calendarHold", "packet", "tool", "none", "idle")
  BY <1>6, InsertPacketKeeps
<1> QED
  BY <1>1, <1>2, <1>3, <1>4, <1>5, <1>6 DEF CreateCalendarHoldForTicket

\* The marker takes number 1 on an empty trace, or changes nothing.
LEMMA IngestKeeps ==
    ASSUME Ledger, NEW c \in Calls, CreateBriefFromCalendarEvent(c)
    PROVE  Ledger'
<1>1. CASE Begin(c, "ingest", started = 0, "run")
  BY <1>1, BeginKeeps DEF Operations, Steps, Inserting
<1>2. CASE InsertMarker(c) /\ 1 \in Seqs
  BY <1>2, ReturnKeeps, Typed DEF InsertMarker, bounds
<1>3. CASE InsertMarker(c) /\ 1 \notin Seqs
  <2> DEFINE new == [seq |-> 1, type |-> "brief_ingested", note |-> "none"]
  <2>1. Seqs = {}
    <3>1. MaxSeq \in Nat /\ Seqs = 1..MaxSeq
      BY MaxSeqValue DEF Ledger, TypeOK
    <3>2. ~(MaxSeq >= 1)
      BY <1>3, <3>1
    <3> QED
      BY <3>1, <3>2
  <2>2. trace' = {new}
    BY <1>3, <2>1 DEF InsertMarker, Seqs
  <2>3. new \in Event /\ new.seq = 1
    BY DEF Event, EventTypes, Notes
  <2> HIDE DEF new
  <2>4. Seqs' = {1}
    BY <2>2, <2>3 DEF Seqs
  <2>5. GapFree'
    BY <2>2, <2>4 DEF GapFree
  <2>6. /\ call' \in [Calls -> Call]
        /\ \A d \in Calls \ {c} : call'[d] = call[d]
        /\ call'[c] = Idle
    BY <1>3, LocalReturn DEF InsertMarker, Ledger
  <2>7. TypeOK'
    BY <1>3, <2>2, <2>3, <2>6 DEF InsertMarker, bounds, Ledger, TypeOK
  <2>8. Reserved'
    <3> SUFFICES ASSUME NEW d \in Calls
                 PROVE  /\ 1..(call'[d].seq - 1) \subseteq Seqs'
                        /\ call'[d].at \in Inserting => call'[d].seq > 0
      BY DEF Reserved
    <3>1. CASE d = c
      BY <2>6, <3>1 DEF Idle, Inserting
    <3>2. CASE d # c
      BY <2>1, <2>6, <3>2 DEF Ledger, Reserved
    <3> QED
      BY <3>1, <3>2
  <2> QED
    BY <2>5, <2>7, <2>8 DEF Ledger
<1> QED
  BY <1>1, <1>2, <1>3 DEF CreateBriefFromCalendarEvent

LEMMA FaultKeeps ==
    ASSUME Ledger, NEW c \in Calls, Fault(c)
    PROVE  Ledger'
<1>1. faults' \in 0..MaxFaults
  BY BoundsAssumption, Typed DEF Fault
<1> QED
  BY <1>1, ReturnKeeps, Typed DEF Fault, db

LEMMA InitLedger ==
    ASSUME Init
    PROVE  Ledger
<1>1. TypeOK
  BY BoundsAssumption
     DEF Init, TypeOK, Statuses, FailureTypes, Idle, Call, Steps, Notes
<1>2. GapFree
  BY DEF Init, GapFree, Seqs
<1>3. Reserved
  BY DEF Init, Reserved, Idle, Inserting
<1> QED
  BY <1>1, <1>2, <1>3 DEF Ledger

\* The inductive step: every step of every invocation, and stuttering.
LEMMA NextLedger ==
    ASSUME Ledger, [Next]_vars
    PROVE  Ledger'
<1>1. CASE UNCHANGED vars
  BY <1>1 DEF vars, db, bounds, Ledger, TypeOK, GapFree, Reserved, Seqs
<1>2. ASSUME NEW c \in Calls, Step(c)
      PROVE  Ledger'
  BY <1>2, ClassifyKeeps, InjectFailureKeeps, InjectLoopKeeps, RequestKeeps,
     SubmitKeeps, ReopenKeeps, HoldKeeps, SpecialistKeeps, ReviewKeeps,
     CalendarHoldKeeps, IngestKeeps DEF Step
<1>3. ASSUME NEW c \in Calls, Fault(c)
      PROVE  Ledger'
  BY <1>3, FaultKeeps
<1> QED
  BY <1>1, <1>2, <1>3 DEF Next

----------------------------------------------------------------------------
(* The theorems of the ledger. *)

\* In every behaviour the ledger invariant holds: types, gap-free numbering
\* and reserved numbers together, since none of the three is inductive alone.
THEOREM LedgerInvariant == Spec => []Ledger
<1>1. Init => Ledger
  BY InitLedger
<1>2. Ledger /\ [Next]_vars => Ledger'
  BY NextLedger
<1> QED
  BY <1>1, <1>2, PTL DEF Spec

\* Rows and locals always have their types.
THEOREM TypeCorrect == Spec => []TypeOK
<1>1. Ledger => TypeOK
  BY DEF Ledger
<1> QED
  BY <1>1, LedgerInvariant, PTL

\* The trace of a ticket is numbered 1, 2, 3, ... without a gap or a number
\* used twice, for any number of server actions running on the ticket.
THEOREM TraceIsGapFree == Spec => []GapFree
<1>1. Ledger => GapFree
  BY DEF Ledger
<1> QED
  BY <1>1, LedgerInvariant, PTL

----------------------------------------------------------------------------
(* The server actions' trace implements TraceLedger: whatever they         *)
(* interleave with, no step changes or removes a row, and the only row a   *)
(* step adds is the next one.                                              *)

\* A row inserted at a reserved number that is free is the ledger's next row.
LEMMA InsertAppends ==
    ASSUME Ledger, NEW c \in Calls, NEW type \in EventTypes, NEW note \in Notes,
           call[c].seq > 0, call[c].seq \notin Seqs,
           trace' = trace \union {[seq |-> call[c].seq, type |-> type,
                                   note |-> note]}
    PROVE  AppendOnly!Append
<1> DEFINE s == call[c].seq
           new == [seq |-> s, type |-> type, note |-> note]
<1>1. s \in Nat \ {0} /\ trace \subseteq Event /\ GapFree
  BY DEF Ledger, TypeOK, Call
<1>2. MaxSeq \in Nat /\ Seqs = 1..MaxSeq
  BY <1>1, MaxSeqValue
<1>3. Seqs' = 1..s
  BY InsertAtEnd
<1>4. s = MaxSeq + 1
  <2>1. 1..(s - 1) \subseteq Seqs
    BY DEF Ledger, Reserved
  <2>2. s > MaxSeq
    BY <1>1, <1>2
  <2>3. s - 1 <= MaxSeq
    <3>1. CASE s = 1
      BY <1>2, <3>1
    <3>2. CASE s # 1
      <4>1. s - 1 \in 1..(s - 1)
        BY <1>1, <3>2
      <4> QED
        BY <1>2, <2>1, <4>1
    <3> QED
      BY <3>1, <3>2
  <2> QED
    BY <1>1, <1>2, <2>2, <2>3
<1>5. AppendOnly!Highest = MaxSeq
  BY DEF AppendOnly!Highest, AppendOnly!Numbers, MaxSeq, Seqs
<1>6. new.seq = s /\ trace' = trace \union {new}
  OBVIOUS
<1>7. new \in trace' \ trace
  BY <1>6 DEF Seqs
<1> QED
  BY <1>4, <1>5, <1>6, <1>7 DEF AppendOnly!Append

\* An insert of an event appends its row, or fails.
LEMMA InsertEventAppends ==
    ASSUME Ledger, NEW c \in Calls, NEW op, NEW at \in Inserting,
           NEW type \in EventTypes, NEW note \in Notes, NEW next,
           InsertEvent(c, op, at, type, note, next)
    PROVE  AppendOnly!Append \/ UNCHANGED trace
<1>1. call[c].seq > 0
  BY DEF InsertEvent, At, Ledger, Reserved
<1>2. CASE call[c].seq \in Seqs
  BY <1>2 DEF InsertEvent
<1>3. CASE call[c].seq \notin Seqs
  BY <1>1, <1>3, InsertAppends DEF InsertEvent
<1> QED
  BY <1>2, <1>3

\* Every other database call leaves the trace alone.
LEMMA OthersKeepTrace ==
    ASSUME NEW c \in Calls, NEW op, NEW at, NEW ok, NEW kind, NEW note,
           NEW row, NEW next,
           \/ Begin(c, op, ok, next)
           \/ Guard(c, op, at, ok, next)
           \/ ReadSeq(c, op, at, next)
           \/ InsertPacket(c, op, at, kind, note, next)
           \/ UpdateTicket(c, op, at, row)
    PROVE  UNCHANGED trace
BY DEF Begin, Guard, ReadSeq, InsertPacket, UpdateTicket, db

\* The types and notes of the events, for the inserts below.
LEMMA Vocabulary ==
    /\ \A type \in {"orchestrator.classified", "orchestrator.failed",
                    "failure.injected", "input.requested", "input.responded",
                    "recovery.requested", "recovery.hold_requested",
                    "loop.iteration.detected", "loop.terminated",
                    "coordinator.routed", "specialist.artifact.created",
                    "qa.validated", "truth.verdict.recorded",
                    "tool.calendar_hold.created"} : type \in EventTypes
    /\ "none" \in Notes /\ "model_error" \in Notes
    /\ \A at \in {"event", "event2", "event3", "failEvent", "qaEvent",
                  "truthEvent"} : at \in Inserting
BY DEF EventTypes, Notes, FailureTypes, Inserting

\* The operations whose events are one, two or three inserts.
LEMMA ControlsAppend ==
    ASSUME Ledger, NEW c \in Calls,
           \/ InjectControlledFailure(c)
           \/ InjectControlledLoop(c)
           \/ RequestNeedsInput(c)
           \/ SubmitNeedsInputResponse(c)
           \/ ReopenFailedTicket(c)
           \/ HoldLoopedTicket(c)
    PROVE  AppendOnly!Append \/ UNCHANGED trace
<1>1. CASE InjectControlledFailure(c)
  BY <1>1, Vocabulary, OthersKeepTrace, InsertEventAppends
     DEF InjectControlledFailure
<1>2. CASE InjectControlledLoop(c)
  BY <1>2, Vocabulary, OthersKeepTrace, InsertEventAppends
     DEF InjectControlledLoop
<1>3. CASE RequestNeedsInput(c)
  BY <1>3, Vocabulary, OthersKeepTrace, InsertEventAppends
     DEF RequestNeedsInput
<1>4. CASE SubmitNeedsInputResponse(c)
  <2>1. CASE FindQuestion(c)
    BY <2>1 DEF FindQuestion, db
  <2> QED
    BY <1>4, <2>1, Vocabulary, OthersKeepTrace, InsertEventAppends
       DEF SubmitNeedsInputResponse
<1>5. CASE ReopenFailedTicket(c)
  BY <1>5, Vocabulary, OthersKeepTrace, InsertEventAppends
     DEF ReopenFailedTicket, WriteRecoveryEvidence
<1>6. CASE HoldLoopedTicket(c)
  BY <1>6, Vocabulary, OthersKeepTrace, InsertEventAppends
     DEF HoldLoopedTicket, WriteRecoveryEvidence
<1> QED
  BY <1>1, <1>2, <1>3, <1>4, <1>5, <1>6

LEMMA ClassifyAppends ==
    ASSUME Ledger, NEW c \in Calls, RunOrchestratorClassification(c)
    PROVE  AppendOnly!Append \/ UNCHANGED trace
<1>1. CASE OpenClassifyRun(c) \/ CloseClassifyRun(c) \/ IgnoreFailWriteError(c)
  BY <1>1 DEF OpenClassifyRun, CloseClassifyRun, IgnoreFailWriteError, db
<1>2. CASE InsertFailEvent(c)
  BY <1>2, Vocabulary, InsertEventAppends DEF InsertFailEvent, db
<1> QED
  BY <1>1, <1>2, Vocabulary, OthersKeepTrace, InsertEventAppends
     DEF RunOrchestratorClassification

LEMMA SpecialistAppends ==
    ASSUME Ledger, NEW c \in Calls, RunCoordinatorSpecialistPass(c)
    PROVE  AppendOnly!Append \/ UNCHANGED trace
<1>1. CASE InsertArtifact(c)
  BY <1>1 DEF InsertArtifact
<1> QED
  BY <1>1, Vocabulary, OthersKeepTrace, InsertEventAppends
     DEF RunCoordinatorSpecialistPass

LEMMA ReviewAppends ==
    ASSUME Ledger, NEW c \in Calls, RunQaTruthReview(c)
    PROVE  AppendOnly!Append \/ UNCHANGED trace
<1>1. CASE \/ QaReadEvents(c) \/ QaReadPacket(c) \/ QaCheckExisting(c)
           \/ TruthCheckExisting(c) \/ QaReadSeq(c) \/ QaFindPacket(c)
           \/ IgnoreQaReadError(c)
  BY <1>1 DEF QaReadEvents, QaReadPacket, QaCheckExisting, TruthCheckExisting,
              QaReadSeq, ReadSeq, QaFindPacket, IgnoreQaReadError, db
<1>2. call[c].note \in Notes
  BY DEF Ledger, TypeOK, Call
<1> QED
  BY <1>1, <1>2, Vocabulary, OthersKeepTrace, InsertEventAppends
     DEF RunQaTruthReview

LEMMA CalendarHoldAppends ==
    ASSUME Ledger, NEW c \in Calls, CreateCalendarHoldForTicket(c)
    PROVE  AppendOnly!Append \/ UNCHANGED trace
<1>1. CASE CreateCalendarEvent(c) \/ IgnoreSeqReadError(c)
  BY <1>1 DEF CreateCalendarEvent, IgnoreSeqReadError, db
<1> QED
  BY <1>1, Vocabulary, OthersKeepTrace, InsertEventAppends
     DEF CreateCalendarHoldForTicket

\* The marker is the ledger's first row, or no row.
LEMMA IngestAppends ==
    ASSUME Ledger, NEW c \in Calls, CreateBriefFromCalendarEvent(c)
    PROVE  AppendOnly!Append \/ UNCHANGED trace
<1>1. CASE Begin(c, "ingest", started = 0, "run")
  BY <1>1 DEF Begin, db
<1>2. CASE InsertMarker(c) /\ 1 \in Seqs
  BY <1>2 DEF InsertMarker
<1>3. CASE InsertMarker(c) /\ 1 \notin Seqs
  <2> DEFINE new == [seq |-> 1, type |-> "brief_ingested", note |-> "none"]
  <2>1. Seqs = {}
    <3>1. MaxSeq \in Nat /\ Seqs = 1..MaxSeq
      BY MaxSeqValue DEF Ledger, TypeOK
    <3>2. ~(MaxSeq >= 1)
      BY <1>3, <3>1
    <3> QED
      BY <3>1, <3>2
  <2>2. trace = {} /\ trace' = {new}
    BY <1>3, <2>1 DEF InsertMarker, Seqs
  <2>3. new.seq = 1
    OBVIOUS
  <2> HIDE DEF new
  <2>4. AppendOnly!Highest = 0
    BY <2>2 DEF AppendOnly!Highest
  <2> QED
    BY <2>2, <2>3, <2>4 DEF AppendOnly!Append
<1> QED
  BY <1>1, <1>2, <1>3 DEF CreateBriefFromCalendarEvent

\* Every step of the server actions is a step of the ledger or leaves it alone.
LEMMA NextAppends ==
    ASSUME Ledger, [Next]_vars
    PROVE  [AppendOnly!Append]_trace
<1>1. CASE UNCHANGED vars
  BY <1>1 DEF vars, db
<1>2. ASSUME NEW c \in Calls, Step(c)
      PROVE  AppendOnly!Append \/ UNCHANGED trace
  BY <1>2, ControlsAppend, ClassifyAppends, SpecialistAppends, ReviewAppends,
     CalendarHoldAppends, IngestAppends DEF Step
<1>3. ASSUME NEW c \in Calls, Fault(c)
      PROVE  UNCHANGED trace
  BY <1>3 DEF Fault, db
<1> QED
  BY <1>1, <1>2, <1>3 DEF Next

\* The trace that the server actions write through stale reads and a unique
\* constraint is an append-only ledger numbered 1, 2, 3, ...
THEOREM ImplementsLedger == Spec => TraceIsLedger
<1>1. Init => AppendOnly!Init
  BY DEF Init, AppendOnly!Init
<1>2. Ledger /\ [Next]_vars => [AppendOnly!Append]_trace
  BY NextAppends
<1> QED
  BY <1>1, <1>2, LedgerInvariant, PTL DEF Spec, TraceIsLedger, AppendOnly!Spec

=============================================================================
