-------------------------- MODULE RunSinksProperties --------------------------
(* What the persistence of a run's evidence promises. *)
EXTENDS RunSinks

\* Types of the runs, their writes and the rows.
TypeOK ==
    /\ phase \in [Runs -> Phases]
    /\ reply \in [Runs -> {"none", "ok", "forbidden", "run_failed"}]
    /\ writes \in [Runs -> Seq(Write)]
    /\ trace \subseteq [seq : Nat \ {0}, body : Ids \union WebRows]
    /\ packets \subseteq Ids
    /\ artifacts \subseteq Ids
    /\ objects \subseteq Ids
    /\ linked \subseteq Ids
    /\ web \in Nat
    /\ webTries \in 0..MaxWeb
    /\ faults \in 0..MaxFaults

\* The trace stays the append-only ledger its readers are promised, whatever
\* the RPCs of several runs and the unlocked inserts of the web app do.
AppendOnly == INSTANCE TraceLedger WITH rows <- trace
TraceIsLedger == AppendOnly!Spec

\* The RPC's lock keeps the numbers of all runs apart: an event is lost only
\* to a fault, or to a server action of the web app that took its number.
OnlyWebCollides ==
    \A id \in Handed :
        Of(id).kind = "event" /\ Of(id).at = "failed" =>
            \/ faults > 0
            \/ \E row \in trace : row.body \in WebRows /\ row.seq = Of(id).seq

\* A run that answers ok has everything on record, once: every event a row of
\* its own, every packet a row, every artifact a row that points at its bytes.
Durable(id) ==
    CASE Of(id).kind = "event"    -> Cardinality({row \in trace : row.body = id}) = 1
      [] Of(id).kind = "packet"   -> id \in packets
      [] Of(id).kind = "artifact" -> id \in artifacts \intersect linked

OkIsDurable == \A id \in Handed : reply[id[1]] = "ok" => Durable(id)

\* A storage_path names bytes that are in Storage, wherever a chain stops.
PathHasBytes == linked \subseteq objects \intersect artifacts

\* run:start always resolves.
RunReplies == \A r \in Runs : <>(phase[r] = "replied")

----------------------------------------------------------------------------
(* The inductive strengthening used in RunSinksProofs.                     *)

\* The writes of a run fit in the names there are for them.
Fits == IsFiniteSet(Handed) /\ \A r \in Runs : Len(writes[r]) <= MaxWrites

\* No gap and no collision; a row comes from a write handed over or from an
\* insert the web app has begun, and none comes twice.
Numbered ==
    /\ \E n \in Seqs \union {0} : Seqs = 1..n
    /\ \A a, b \in trace : a.seq = b.seq \/ a.body = b.body => a = b
    /\ \A row \in trace : row.body \in Handed \union ({"web"} \X (1..webTries))

\* One transaction at a time holds the ticket's lock.
Locked ==
    \A a, b \in Handed :
        Of(a).at = "numbered" /\ Of(b).at = "numbered" => a = b

\* A number worked out earlier leaves no gap when it is used.
Reserved(seq) == seq > 0 /\ 1..(seq - 1) \subseteq Seqs

RowsOf(body) == {row \in trace : row.body = body}

TakenByWeb(seq) == \A row \in trace : row.seq = seq => row.body \in WebRows

WebReserved ==
    web > 0 => webTries > 0 /\ Reserved(web) /\ RowsOf(<<"web", webTries>>) = {}

\* How far a write has come, and what it has on record by then.
EventOnRecord(id) ==
    /\ Of(id).at \in {"sent", "numbered", "done", "failed"}
    /\ Of(id).at \in {"sent", "numbered"} => RowsOf(id) = {}
    /\ Of(id).at = "numbered" => Reserved(Of(id).seq) /\ TakenByWeb(Of(id).seq)
    /\ Of(id).at = "done" => RowsOf(id) # {}
    /\ Of(id).at = "failed" /\ faults = 0 =>
          \E row \in trace : row.body \in WebRows /\ row.seq = Of(id).seq

PacketOnRecord(id) ==
    /\ Of(id).at \in {"sent", "done", "failed"}
    /\ Of(id).at = "done" => id \in packets

ArtifactOnRecord(id) ==
    /\ Of(id).at \in {"sent", "row", "stored", "done", "failed"}
    /\ Of(id).at \in {"row", "stored", "done"} => id \in artifacts
    /\ Of(id).at \in {"stored", "done"} => id \in objects
    /\ Of(id).at = "done" => id \in linked

OnRecord(id) ==
    /\ Of(id).kind = "event" => EventOnRecord(id)
    /\ Of(id).kind = "packet" => PacketOnRecord(id)
    /\ Of(id).kind = "artifact" => ArtifactOnRecord(id)

AllDone(r, kind) ==
    \A i \in DOMAIN writes[r] :
        writes[r][i].kind = kind => writes[r][i].at = "done"

\* What the flushes passed so far have waited for.
Flushed(r) ==
    /\ phase[r] \in {"artifactFlush", "packetFlush"} => AllDone(r, "event")
    /\ phase[r] = "packetFlush" => AllDone(r, "artifact")
    /\ reply[r] = "ok" =>
          /\ phase[r] = "replied"
          /\ \A kind \in {"event", "packet", "artifact"} : AllDone(r, kind)

Evidence == Numbered /\ Locked /\ WebReserved /\ \A id \in Handed : OnRecord(id)

SinksInv ==
    /\ TypeOK
    /\ Fits
    /\ Evidence
    /\ PathHasBytes
    /\ \A r \in Runs : Flushed(r)

=============================================================================
