------------------------------ MODULE RunSinks ------------------------------
(***************************************************************************)
(* How the evidence of a run reaches the database, and what the host       *)
(* answers (runtime/src/index.ts startRun, trace/rpc-sink.ts,              *)
(* packets/rpc-sink.ts, artifacts/*.ts, host/electron-adapter.ts, and the  *)
(* append RPCs of app/supabase/migrations).                                *)
(*                                                                         *)
(* The loop hands a write to a sink and goes on: writes of one run are in  *)
(* flight together, beside those of other runs and beside server actions   *)
(* of the web app that work on the same ticket (module TicketLifecycle).   *)
(* What a loop does is module RunTree; here it is any sequence of the      *)
(* hand-overs a loop can make.  The sinks' retry-free failure is a fault.  *)
(***************************************************************************)
EXTENDS Integers, Sequences, FiniteSets

CONSTANTS
    Runs,       \* run:start requests on one ticket
    MaxWrites,  \* bound: writes handed over, by all runs
    MaxWeb,     \* bound: inserts a server action of the web app tries
    MaxFaults   \* bound: calls that reject

ASSUME BoundsAssumption ==
    MaxWrites \in Nat /\ MaxWeb \in Nat /\ MaxFaults \in Nat

\* A row of a run is told from a row of the web app.
ASSUME RunsAssumption == "web" \notin Runs

VARIABLES
    phase,      \* how far startRun is, for each run
    reply,      \* what run:start resolved to
    writes,     \* the writes handed to the run's sinks, in order
    trace,      \* trace_events rows of the ticket: [seq, body]
    packets,    \* ids of the writes with a packets row
    artifacts,  \* ids of the writes with an artifacts row
    objects,    \* ids of the artifacts whose bytes are in Storage
    linked,     \* ids of the artifacts rows with a storage_path
    web,        \* the number a server action is about to insert, or 0
    webTries,   \* inserts of server actions begun, up to MaxWeb
    faults      \* faults spent, up to MaxFaults

db == <<trace, packets, artifacts, objects, linked>>
env == <<web, webTries>>
vars == <<phase, reply, writes, db, env, faults>>

Phases == {"gate", "loop", "record", "traceFlush", "artifactFlush",
           "packetFlush", "replied"}

\* verdict: a "break" is an event with verdict block or error.
\* at: "sent" until the server answers; an event is "numbered" while its
\* transaction holds the ticket's lock, an artifact has its "row", then its
\* bytes "stored"; the call ends "done" or "failed".
Write == [kind : {"event", "packet", "artifact"},
          verdict : {"pass", "break", "none"},
          at : {"sent", "numbered", "row", "stored", "done", "failed"},
          seq : Nat]

Ids == Runs \X (1..MaxWrites)
WebRows == {"web"} \X (1..MaxWeb)

Init ==
    /\ phase = [r \in Runs |-> "gate"]
    /\ reply = [r \in Runs |-> "none"]
    /\ writes = [r \in Runs |-> <<>>]
    /\ trace = {}
    /\ packets = {}
    /\ artifacts = {}
    /\ objects = {}
    /\ linked = {}
    /\ web = 0
    /\ webTries = 0
    /\ faults = 0

----------------------------------------------------------------------------

Seqs == {row.seq : row \in trace}

\* Mutation: coalesce(max(seq), -1).
MaxSeqFromZero_Mut == IF trace = {} THEN -1
                      ELSE CHOOSE n \in Seqs : \A m \in Seqs : m <= n

MaxSeq == IF trace = {} THEN 0
          ELSE CHOOSE n \in Seqs : \A m \in Seqs : m <= n

Handed == UNION {{r} \X DOMAIN writes[r] : r \in Runs}

Of(id) == writes[id[1]][id[2]]

Settled(write) == write.at \in {"done", "failed"}

Event(verdict) == [kind |-> "event", verdict |-> verdict, at |-> "sent", seq |-> 0]
Other(kind) == [kind |-> kind, verdict |-> "none", at |-> "sent", seq |-> 0]

\* sink.append: the call starts, nobody awaits it.
Hand(r, new) ==
    /\ Cardinality(Handed) + Len(new) <= MaxWrites
    /\ writes' = [writes EXCEPT ![r] = @ \o new]

Count(r, kind, verdict) ==
    Cardinality({i \in DOMAIN writes[r] : /\ writes[r][i].kind = kind
                                          /\ writes[r][i].verdict = verdict})

----------------------------------------------------------------------------
(* startRun *)

GoTo(r, next) == phase' = [phase EXCEPT ![r] = next] /\ UNCHANGED reply

Reply(r, answer) ==
    /\ phase' = [phase EXCEPT ![r] = "replied"]
    /\ reply' = [reply EXCEPT ![r] = answer]

\* The membership gate comes before any write.  Secret storage, the session,
\* the gate's own call and realpath may fail.
Gate(r) ==
    /\ phase[r] = "gate"
    /\ \/ GoTo(r, "loop")
       \/ \E answer \in {"forbidden", "run_failed"} : Reply(r, answer)
    /\ UNCHANGED <<writes, db, env, faults>>

\* A tool.executed event.
EmitTool(r) ==
    /\ phase[r] = "loop"
    /\ \E verdict \in {"pass", "break"} : Hand(r, <<Event(verdict)>>)
    /\ UNCHANGED <<phase, reply, db, env, faults>>

\* halt(): the run.halted event, then the failure packet.  A child's halt lets
\* its parent go on; the top loop's ends the loop and records no artifact.
LoopHalts(r) ==
    /\ phase[r] = "loop"
    /\ Hand(r, <<Event("break"), Other("packet")>>)
    /\ \/ GoTo(r, "traceFlush")
       \/ UNCHANGED <<phase, reply>>
    /\ UNCHANGED <<db, env, faults>>

LoopReturns(r) ==
    /\ phase[r] = "loop"
    /\ GoTo(r, "record")
    /\ UNCHANGED <<writes, db, env, faults>>

\* The exception leaves startRun: nothing is flushed.
LoopThrows(r) ==
    /\ phase[r] = "loop"
    /\ Reply(r, "run_failed")
    /\ UNCHANGED <<writes, db, env, faults>>

\* recordArtifactIfLive, for a permitted write of a child that is done, or of
\* the top loop after it is; a file that is not live is passed over.
RecordWrite(r) ==
    /\ phase[r] \in {"loop", "record"}
    /\ Count(r, "artifact", "none") < Count(r, "event", "pass")
    /\ Hand(r, <<Other("artifact")>>)
    /\ UNCHANGED <<phase, reply, db, env, faults>>

RecordEnds(r) ==
    /\ phase[r] = "record"
    /\ GoTo(r, "traceFlush")
    /\ UNCHANGED <<writes, db, env, faults>>

\* Mutation: a failure is only looked for among what is still pending.
FlushForgets_Mut(r, here, kind, next) ==
    LET mine == {i \in DOMAIN writes[r] : writes[r][i].kind = kind}
    IN  /\ phase[r] = here
        /\ \A i \in mine : Settled(writes[r][i])
        /\ IF next = "replied" THEN Reply(r, "ok") ELSE GoTo(r, next)
        /\ UNCHANGED <<writes, db, env, faults>>

\* Mutation: only a call that succeeds leaves the pending set.
FlushHangs_Mut(r, here, kind, next) ==
    /\ phase[r] = here
    /\ \A i \in DOMAIN writes[r] :
          writes[r][i].kind = kind => writes[r][i].at = "done"
    /\ IF next = "replied" THEN Reply(r, "ok") ELSE GoTo(r, next)
    /\ UNCHANGED <<writes, db, env, faults>>

\* flush(): wait until nothing of the sink is pending, throw if any failed.
Flush(r, here, kind, next) ==
    LET mine == {i \in DOMAIN writes[r] : writes[r][i].kind = kind}
    IN  /\ phase[r] = here
        /\ \A i \in mine : Settled(writes[r][i])
        /\ IF \E i \in mine : writes[r][i].at = "failed" THEN Reply(r, "run_failed")
           ELSE IF next = "replied" THEN Reply(r, "ok")
           ELSE GoTo(r, next)
        /\ UNCHANGED <<writes, db, env, faults>>

FlushAll(r) ==
    \/ Flush(r, "traceFlush", "event", "artifactFlush")
    \/ Flush(r, "artifactFlush", "artifact", "packetFlush")
    \/ Flush(r, "packetFlush", "packet", "replied")

----------------------------------------------------------------------------
(* The calls in flight *)

Ready(id, kind, at) == Of(id).kind = kind /\ Of(id).at = at

Progress(id, at) == writes' = [writes EXCEPT ![id[1]][id[2]].at = at]

\* The server has done its part; the answer arrives or is lost.
Answered(id, at) ==
    \/ Progress(id, at) /\ UNCHANGED faults
    \/ faults < MaxFaults /\ Progress(id, "failed") /\ faults' = faults + 1

\* Mutation: the lock is not taken.
TakeNumberUnlocked_Mut(id) ==
    /\ Ready(id, "event", "sent")
    /\ writes' = [writes EXCEPT ![id[1]][id[2]].at = "numbered",
                                ![id[1]][id[2]].seq = MaxSeq + 1]
    /\ UNCHANGED <<phase, reply, db, env, faults>>

\* append_trace_event: take the ticket's advisory lock, compute max(seq) + 1.
TakeNumber(id) ==
    /\ Ready(id, "event", "sent")
    /\ \A other \in Handed : Of(other).at # "numbered"
    /\ writes' = [writes EXCEPT ![id[1]][id[2]].at = "numbered",
                                ![id[1]][id[2]].seq = MaxSeq + 1]
    /\ UNCHANGED <<phase, reply, db, env, faults>>

\* Mutation: no unique (ticket_id, seq) behind the lock.
InsertRowNoUnique_Mut(id) ==
    /\ Ready(id, "event", "numbered")
    /\ trace' = trace \union {[seq |-> Of(id).seq, body |-> id]}
    /\ Answered(id, "done")
    /\ UNCHANGED <<phase, reply, packets, artifacts, objects, linked, env>>

\* The insert, and the lock released with the transaction.
InsertRow(id) ==
    /\ Ready(id, "event", "numbered")
    /\ \/ /\ Of(id).seq \in Seqs
          /\ Progress(id, "failed")
          /\ UNCHANGED <<trace, faults>>
       \/ /\ Of(id).seq \notin Seqs
          /\ trace' = trace \union {[seq |-> Of(id).seq, body |-> id]}
          /\ Answered(id, "done")
    /\ UNCHANGED <<phase, reply, packets, artifacts, objects, linked, env>>

\* append_packet.
InsertPacket(id) ==
    /\ Ready(id, "packet", "sent")
    /\ packets' = packets \union {id}
    /\ Answered(id, "done")
    /\ UNCHANGED <<phase, reply, trace, artifacts, objects, linked, env>>

\* append_artifact, the upload, set_artifact_storage_path.
InsertArtifact(id) ==
    /\ Ready(id, "artifact", "sent")
    /\ artifacts' = artifacts \union {id}
    /\ Answered(id, "row")
    /\ UNCHANGED <<phase, reply, trace, packets, objects, linked, env>>

Upload(id) ==
    /\ Ready(id, "artifact", "row")
    /\ objects' = objects \union {id}
    /\ Answered(id, "stored")
    /\ UNCHANGED <<phase, reply, trace, packets, artifacts, linked, env>>

\* Mutation: the path is stamped as soon as the row has an id.
LinkFirst_Mut(id) ==
    /\ Ready(id, "artifact", "row")
    /\ linked' = linked \union {id}
    /\ Answered(id, "done")
    /\ UNCHANGED <<phase, reply, trace, packets, artifacts, objects, env>>

Link(id) ==
    /\ Ready(id, "artifact", "stored")
    /\ linked' = linked \union {id}
    /\ Answered(id, "done")
    /\ UNCHANGED <<phase, reply, trace, packets, artifacts, objects, env>>

\* The call rejects with nothing done: the network, the server's own checks,
\* the file gone or too large.  A transaction that held the lock rolls back.
Reject(id) ==
    /\ faults < MaxFaults
    /\ ~Settled(Of(id))
    /\ Progress(id, "failed")
    /\ faults' = faults + 1
    /\ UNCHANGED <<phase, reply, db, env>>

Serve(id) ==
    \/ TakeNumber(id)
    \/ InsertRow(id)
    \/ InsertPacket(id)
    \/ InsertArtifact(id)
    \/ Upload(id)
    \/ Link(id)

----------------------------------------------------------------------------
(* A server action of the web app on the same ticket: it takes no lock *)

WebReads ==
    /\ web = 0
    /\ webTries < MaxWeb
    /\ web' = MaxSeq + 1
    /\ webTries' = webTries + 1
    /\ UNCHANGED <<phase, reply, writes, db, faults>>

WebInserts ==
    /\ web > 0
    /\ web' = 0
    /\ trace' = IF web \in Seqs THEN trace
                ELSE trace \union {[seq |-> web, body |-> <<"web", webTries>>]}
    /\ UNCHANGED <<phase, reply, writes, packets, artifacts, objects, linked,
                   webTries, faults>>

----------------------------------------------------------------------------

Start(r) ==
    \/ Gate(r)
    \/ EmitTool(r)
    \/ LoopHalts(r)
    \/ LoopReturns(r)
    \/ LoopThrows(r)
    \/ RecordWrite(r)
    \/ RecordEnds(r)
    \/ FlushAll(r)

Next ==
    \/ \E r \in Runs : Start(r)
    \/ \E id \in Handed : Serve(id) \/ Reject(id)
    \/ WebReads
    \/ WebInserts

Spec == Init /\ [][Next]_vars

\* The loop ends (RunTree!RunEnds), the host runs, every call settles.
FairSpec ==
    /\ Spec
    /\ \A r \in Runs : WF_vars(Start(r))
    /\ \A id \in Ids : WF_vars(id \in Handed /\ Serve(id))

=============================================================================
