---------------------------- MODULE RunSinksProofs ----------------------------
(***************************************************************************)
(* For every set of runs on a ticket and every bound: the rows the append  *)
(* RPCs of the runs and the unlocked inserts of the web app leave behind   *)
(* are an append-only ledger, an event is lost to nothing but a fault or   *)
(* the web app, a storage path names stored bytes, and a run that answers  *)
(* ok has all of its evidence on record.                                   *)
(*                                                                         *)
(* The argument goes write by write: OnRecord says what a write that has   *)
(* come so far has in the database.  A call that makes progress moves one  *)
(* write on and adds what that write's new stage asks for; every other     *)
(* write stays where it is, and the database only grows around it.         *)
(***************************************************************************)
EXTENDS RunSinksProperties, FiniteSetTheorems, FunctionTheorems, TLAPS

----------------------------------------------------------------------------
(* The writes *)

\* A write handed over is a write, and has a name of its own.
LEMMA HandedWrites ==
    ASSUME TypeOK
    PROVE  /\ \A id \in Handed : /\ id[1] \in Runs /\ id[2] \in DOMAIN writes[id[1]]
                                 /\ id = <<id[1], id[2]>>
                                 /\ Of(id) \in Write
           /\ \A r \in Runs : \A i \in DOMAIN writes[r] : <<r, i>> \in Handed
<1>1. \A r \in Runs : writes[r] \in Seq(Write)
  BY DEF TypeOK
<1>2. ASSUME NEW id \in Handed
      PROVE  /\ id[1] \in Runs /\ id[2] \in DOMAIN writes[id[1]]
             /\ id = <<id[1], id[2]>>
             /\ Of(id) \in Write
  <2>1. PICK r \in Runs : id \in {r} \X DOMAIN writes[r]
    BY DEF Handed
  <2>2. id = <<r, id[2]>> /\ id[1] = r /\ id[2] \in DOMAIN writes[r]
    BY <2>1
  <2>3. writes[r][id[2]] \in Write
    BY <1>1, <2>2
  <2> QED
    BY <2>2, <2>3 DEF Of
<1>3. ASSUME NEW r \in Runs, NEW i \in DOMAIN writes[r]
      PROVE  <<r, i>> \in Handed
  BY DEF Handed
<1> QED
  BY <1>2, <1>3

LEMMA HandedNames ==
    ASSUME TypeOK, Fits
    PROVE  Handed \subseteq Ids
<1> SUFFICES ASSUME NEW id \in Handed
             PROVE  id \in Ids
  OBVIOUS
<1>1. id[1] \in Runs /\ id[2] \in DOMAIN writes[id[1]] /\ id = <<id[1], id[2]>>
  BY HandedWrites
<1>2. writes[id[1]] \in Seq(Write) /\ Len(writes[id[1]]) <= MaxWrites
  BY <1>1 DEF TypeOK, Fits
<1>3. id[2] \in 1..MaxWrites
  BY <1>1, <1>2, BoundsAssumption
<1> QED
  BY <1>1, <1>3 DEF Ids

\* The rows of the runs and those of the web app are apart.
LEMMA WebIsApart ==
    ASSUME TypeOK, Fits
    PROVE  /\ Handed \intersect WebRows = {}
           /\ \A k : <<"web", k>> \notin Handed
<1>1. ASSUME NEW id \in Handed
      PROVE  id[1] # "web"
  BY <1>1, HandedWrites, RunsAssumption
<1> QED
  BY <1>1 DEF WebRows

\* One write becomes w, the others stay as they are.
Becomes(id, w) ==
    /\ Handed' = Handed
    /\ Of(id)' = w
    /\ \A other \in Handed \ {id} : Of(other)' = Of(other)

LEMMA OneWrite ==
    ASSUME TypeOK, NEW id \in Handed, NEW w \in Write,
           writes' = [writes EXCEPT ![id[1]][id[2]] = w]
    PROVE  /\ writes' \in [Runs -> Seq(Write)]
           /\ \A r \in Runs : Len(writes'[r]) = Len(writes[r])
           /\ Becomes(id, w)
<1> DEFINE r == id[1]
           i == id[2]
<1>1. r \in Runs /\ i \in DOMAIN writes[r] /\ id = <<r, i>>
  BY HandedWrites
<1>2. writes \in [Runs -> Seq(Write)]
  BY DEF TypeOK
<1>3. /\ \A s \in Runs \ {r} : writes'[s] = writes[s]
      /\ writes'[r] = [writes[r] EXCEPT ![i] = w]
  BY <1>1, <1>2
<1> HIDE DEF r, i
<1>4. writes[r] \in Seq(Write)
  BY <1>1, <1>2
<1>5. /\ writes'[r] \in Seq(Write) /\ Len(writes'[r]) = Len(writes[r])
      /\ DOMAIN writes'[r] = DOMAIN writes[r]
      /\ writes'[r][i] = w
      /\ \A j \in DOMAIN writes[r] \ {i} : writes'[r][j] = writes[r][j]
  BY <1>1, <1>3, <1>4
<1>6. writes' = [writes EXCEPT ![r] = writes'[r]]
  BY <1>2, <1>3 DEF r, i
<1>7. writes' \in [Runs -> Seq(Write)]
  BY <1>1, <1>2, <1>5, <1>6
<1>8. \A s \in Runs : /\ Len(writes'[s]) = Len(writes[s])
                      /\ DOMAIN writes'[s] = DOMAIN writes[s]
  BY <1>3, <1>5
<1>9. Handed' = Handed
  BY <1>8 DEF Handed
<1>10. Of(id)' = w
  BY <1>1, <1>5 DEF Of
<1>11. ASSUME NEW other \in Handed \ {id}
       PROVE  Of(other)' = Of(other)
  <2>1. /\ other[1] \in Runs /\ other[2] \in DOMAIN writes[other[1]]
        /\ other = <<other[1], other[2]>>
    BY HandedWrites
  <2>2. CASE other[1] # r
    BY <1>3, <2>1, <2>2 DEF Of
  <2>3. CASE other[1] = r
    <3>1. other[2] # i
      BY <1>1, <2>1, <2>3, <1>11
    <3> QED
      BY <1>5, <2>1, <2>3, <3>1 DEF Of
  <2> QED
    BY <2>2, <2>3
<1> QED
  BY <1>7, <1>8, <1>9, <1>10, <1>11 DEF Becomes

LEMMA ProgressBecomes ==
    ASSUME TypeOK, NEW id \in Handed,
           NEW at \in {"sent", "numbered", "row", "stored", "done", "failed"},
           Progress(id, at)
    PROVE  /\ writes' \in [Runs -> Seq(Write)]
           /\ \A r \in Runs : Len(writes'[r]) = Len(writes[r])
           /\ Becomes(id, [Of(id) EXCEPT !.at = at])
<1>1. /\ id[1] \in Runs /\ id[2] \in DOMAIN writes[id[1]] /\ Of(id) \in Write
      /\ writes \in [Runs -> Seq(Write)]
  BY HandedWrites DEF TypeOK
<1>2. [Of(id) EXCEPT !.at = at] \in Write
  BY <1>1 DEF Write
<1>3. writes' = [writes EXCEPT ![id[1]][id[2]] = [Of(id) EXCEPT !.at = at]]
  BY <1>1 DEF Progress, Of
<1> QED
  BY <1>2, <1>3, OneWrite

\* The writes of one run are no more than the writes of all.
LEMMA RunCount ==
    ASSUME TypeOK, IsFiniteSet(Handed), NEW r \in Runs
    PROVE  Cardinality(Handed) \in Nat /\ Len(writes[r]) <= Cardinality(Handed)
<1> DEFINE n == Len(writes[r])
           f == [i \in 1..n |-> <<r, i>>]
<1>1. n \in Nat /\ DOMAIN writes[r] = 1..n
  BY DEF TypeOK
<1>2. \A i \in 1..n : <<r, i>> \in Handed
  BY <1>1, HandedWrites
<1> HIDE DEF n
<1>3. f \in Injection(1..n, Handed)
  <2>1. f \in [1..n -> Handed]
    BY <1>2
  <2>2. \A i, j \in 1..n : f[i] = f[j] => i = j
    OBVIOUS
  <2> QED
    BY <2>1, <2>2 DEF Injection, IsInjective
<1>4. Cardinality(1..n) <= Cardinality(Handed)
  BY <1>3, FS_Injection
<1>5. Cardinality(1..n) = n
  BY <1>1, FS_Interval
<1>6. Cardinality(Handed) \in Nat
  BY FS_CardinalityType
<1> QED
  BY <1>4, <1>5, <1>6 DEF n

\* A write just handed over.
Sent == {w \in Write : w.at = "sent"}

\* Handing over one write or two.
LEMMA HandAdds ==
    ASSUME TypeOK, Fits, NEW r \in Runs, NEW new \in Seq(Sent),
           Len(new) \in {1, 2}, Hand(r, new)
    PROVE  /\ writes' \in [Runs -> Seq(Write)]
           /\ Fits'
           /\ Handed \subseteq Handed'
           /\ \A id \in Handed : Of(id)' = Of(id)
           /\ \A id \in Handed' \ Handed : Of(id)' \in Sent
           /\ \A s \in Runs \ {r} : writes'[s] = writes[s]
<1> DEFINE n == Len(writes[r])
<1>1. writes \in [Runs -> Seq(Write)] /\ writes[r] \in Seq(Write) /\ n \in Nat
  BY DEF TypeOK
<1>2. new \in Seq(Write)
  BY DEF Sent
<1>3. /\ writes' \in [Runs -> Seq(Write)]
      /\ writes'[r] = writes[r] \o new
      /\ \A s \in Runs \ {r} : writes'[s] = writes[s]
  BY <1>1, <1>2 DEF Hand
<1>4. /\ Len(writes'[r]) = n + Len(new)
      /\ \A i \in 1..n : writes'[r][i] = writes[r][i]
      /\ \A i \in 1..(n + Len(new)) : i > n => writes'[r][i] = new[i - n]
      /\ DOMAIN writes[r] = 1..n /\ DOMAIN writes'[r] = 1..(n + Len(new))
  BY <1>1, <1>2, <1>3
<1> HIDE DEF n
<1>5. /\ \A id \in Handed' : /\ id[1] \in Runs /\ id[2] \in DOMAIN writes'[id[1]]
                             /\ id = <<id[1], id[2]>>
      /\ \A s \in Runs : \A i \in DOMAIN writes'[s] : <<s, i>> \in Handed'
  BY DEF Handed
<1>6. /\ Handed \subseteq Handed'
      /\ \A id \in Handed : Of(id)' = Of(id)
  <2> SUFFICES ASSUME NEW id \in Handed
               PROVE  id \in Handed' /\ Of(id)' = Of(id)
    OBVIOUS
  <2>1. /\ id[1] \in Runs /\ id[2] \in DOMAIN writes[id[1]]
        /\ id = <<id[1], id[2]>>
    BY HandedWrites
  <2>2. id[2] \in DOMAIN writes'[id[1]] /\ writes'[id[1]][id[2]] = writes[id[1]][id[2]]
    BY <1>1, <1>3, <1>4, <2>1
  <2>3. id \in Handed'
    BY <1>5, <2>1, <2>2
  <2> QED
    BY <2>2, <2>3 DEF Of
<1>7. \A id \in Handed' \ Handed : /\ id[1] = r /\ id = <<id[1], id[2]>>
                                   /\ id[2] \in (n + 1)..(n + Len(new))
  <2> SUFFICES ASSUME NEW id \in Handed' \ Handed
               PROVE  id[1] = r /\ id[2] \in (n + 1)..(n + Len(new))
    BY <1>5
  <2>1. /\ id[1] \in Runs /\ id[2] \in DOMAIN writes'[id[1]]
        /\ id = <<id[1], id[2]>>
    BY <1>5
  <2>2. id[2] \notin DOMAIN writes[id[1]]
    BY <2>1, HandedWrites
  <2>3. id[1] = r
    BY <1>3, <2>1, <2>2
  <2> QED
    BY <1>1, <1>4, <2>1, <2>2, <2>3 DEF n
<1>8. ASSUME NEW id \in Handed' \ Handed
      PROVE  Of(id)' \in Sent
  <2>1. id[2] - n \in 1..Len(new)
    BY <1>1, <1>7 DEF n
  <2>2. Of(id)' = new[id[2] - n]
    BY <1>1, <1>4, <1>7 DEF Of, n
  <2> QED
    BY <2>1, <2>2
<1>9. Fits'
  <2>1. IsFiniteSet(Handed \union {<<r, n + 1>>})
    BY FS_AddElement DEF Fits
  <2>2. IsFiniteSet((Handed \union {<<r, n + 1>>}) \union {<<r, n + 2>>})
    BY <2>1, FS_AddElement
  <2>3. Handed' \subseteq (Handed \union {<<r, n + 1>>}) \union {<<r, n + 2>>}
    <3> SUFFICES ASSUME NEW id \in Handed' \ Handed
                 PROVE  id = <<r, n + 1>> \/ id = <<r, n + 2>>
      OBVIOUS
    <3>1. id = <<r, id[2]>> /\ id[2] \in (n + 1)..(n + Len(new))
      BY <1>7
    <3>2. id[2] = n + 1 \/ id[2] = n + 2
      <4>1. n \in Nat
        BY <1>1
      <4>2. CASE Len(new) = 1
        BY <3>1, <4>1, <4>2
      <4>3. CASE Len(new) = 2
        BY <3>1, <4>1, <4>3
      <4> QED
        BY <4>2, <4>3
    <3> QED
      BY <3>1, <3>2
  <2>4. IsFiniteSet(Handed')
    BY <2>2, <2>3, FS_Subset
  <2>5. Cardinality(Handed) \in Nat /\ n <= Cardinality(Handed)
    BY RunCount DEF Fits, n
  <2>6. n + Len(new) <= MaxWrites
    BY <1>1, <2>5, BoundsAssumption DEF Hand, n
  <2>7. \A s \in Runs : Len(writes'[s]) <= MaxWrites
    BY <1>3, <1>4, <2>6 DEF Fits
  <2> QED
    BY <2>4, <2>7 DEF Fits
<1> QED
  BY <1>3, <1>6, <1>8, <1>9

----------------------------------------------------------------------------
(* The trace *)

\* What coalesce(max(seq), 0) returns on a trace without gaps.
LEMMA MaxSeqValue ==
    ASSUME TypeOK, Numbered
    PROVE  MaxSeq \in Nat /\ Seqs = 1..MaxSeq
<1>1. PICK n \in Seqs \union {0} : Seqs = 1..n
  BY DEF Numbered
<1>2. n \in Nat
  BY DEF Seqs, TypeOK
<1>3. CASE trace = {}
  <2>1. Seqs = {}
    BY <1>3 DEF Seqs
  <2> QED
    BY <1>3, <2>1 DEF MaxSeq
<1>4. CASE trace # {}
  <2>1. Seqs # {}
    BY <1>4 DEF Seqs
  <2>2. n \in Seqs /\ \A m \in Seqs : m <= n
    BY <1>1, <1>2, <2>1
  <2>3. MaxSeq \in Seqs /\ \A m \in Seqs : m <= MaxSeq
    BY <1>4, <2>2 DEF MaxSeq
  <2>4. MaxSeq = n
    BY <1>1, <1>2, <2>2, <2>3
  <2> QED
    BY <1>1, <1>2, <2>4
<1> QED
  BY <1>3, <1>4

\* The number read is free and leaves no gap.
LEMMA NextIsReserved ==
    ASSUME TypeOK, Numbered
    PROVE  MaxSeq + 1 \in Nat /\ Reserved(MaxSeq + 1) /\ MaxSeq + 1 \notin Seqs
BY MaxSeqValue DEF Reserved

\* The tables' own highest number is the abstract one.
LEMMA SameHighest ==
    AppendOnly!Highest = MaxSeq
BY DEF AppendOnly!Highest, AppendOnly!Numbers, MaxSeq, Seqs

\* Inserting at a reserved number that is still free appends a row.
LEMMA InsertAppends ==
    ASSUME TypeOK, Numbered, NEW seq \in Nat, Reserved(seq), seq \notin Seqs,
           NEW body, RowsOf(body) = {},
           trace' = trace \union {[seq |-> seq, body |-> body]}
    PROVE  /\ AppendOnly!Append
           /\ Seqs' = Seqs \union {seq}
           /\ \E n \in Seqs' \union {0} : Seqs' = 1..n
           /\ \A a, b \in trace' : a.seq = b.seq \/ a.body = b.body => a = b
<1> DEFINE new == [seq |-> seq, body |-> body]
<1>1. new.seq = seq /\ new.body = body /\ trace' = trace \union {new}
  OBVIOUS
<1> HIDE DEF new
<1>2. MaxSeq \in Nat /\ Seqs = 1..MaxSeq
  BY MaxSeqValue
<1>3. seq = MaxSeq + 1
  <2>1. seq > MaxSeq
    BY <1>2 DEF Reserved
  <2>2. CASE seq = 1
    BY <1>2, <2>1, <2>2
  <2>3. CASE seq # 1
    <3>1. seq - 1 \in 1..(seq - 1)
      BY <2>3 DEF Reserved
    <3> QED
      BY <1>2, <2>1, <3>1 DEF Reserved
  <2> QED
    BY <2>2, <2>3
<1>4. Seqs' = Seqs \union {seq}
  BY <1>1 DEF Seqs
<1>5. Seqs' = 1..seq /\ seq \in Seqs'
  BY <1>2, <1>3, <1>4
<1>6. \A row \in trace : row.seq # seq /\ row.body # body
  BY DEF Seqs, RowsOf
<1>7. \A a, b \in trace' : a.seq = b.seq \/ a.body = b.body => a = b
  BY <1>1, <1>6 DEF Numbered
<1>8. AppendOnly!Append
  <2>1. new \notin trace
    BY <1>1, <1>6
  <2> QED
    BY <1>1, <1>3, <2>1, SameHighest DEF AppendOnly!Append
<1> QED
  BY <1>4, <1>5, <1>7, <1>8

----------------------------------------------------------------------------
(* The evidence of the writes *)

\* What the database keeps while one write or the web app is served.
Kept ==
    /\ trace \subseteq trace'
    /\ packets \subseteq packets'
    /\ artifacts \subseteq artifacts'
    /\ objects \subseteq objects'
    /\ linked \subseteq linked'
    /\ faults' = 0 => faults = 0

LEMMA SeqsKept ==
    ASSUME trace \subseteq trace'
    PROVE  /\ Seqs \subseteq Seqs'
           /\ \A seq : Reserved(seq) => Reserved(seq)'
<1>1. Seqs \subseteq Seqs'
  BY DEF Seqs
<1> QED
  BY <1>1 DEF Reserved

\* A write nobody touches keeps its evidence, when the rows that come in are
\* not its own and leave the number it holds to it or to the web app.
LEMMA OthersOnRecord ==
    ASSUME NEW id, OnRecord(id), Kept, Of(id)' = Of(id),
           \A row \in trace' \ trace :
               /\ row.body # id
               /\ Of(id).at = "numbered" => row.body \in WebRows
    PROVE  OnRecord(id)'
<1>1. /\ RowsOf(id)' = RowsOf(id)
      /\ Of(id).at = "numbered" /\ TakenByWeb(Of(id).seq) =>
            \A row \in trace' : row.seq = Of(id).seq => row.body \in WebRows
  BY DEF Kept, RowsOf, TakenByWeb
<1>2. Of(id).kind = "event" /\ EventOnRecord(id) => EventOnRecord(id)'
  <2> SUFFICES ASSUME EventOnRecord(id)
               PROVE  EventOnRecord(id)'
    OBVIOUS
  <2>1. Of(id).at = "numbered" => Reserved(Of(id).seq)' /\ TakenByWeb(Of(id).seq)'
    <3> SUFFICES ASSUME Of(id).at = "numbered"
                 PROVE  Reserved(Of(id).seq)' /\ TakenByWeb(Of(id).seq)'
      OBVIOUS
    <3>1. Reserved(Of(id).seq) /\ TakenByWeb(Of(id).seq)
      BY DEF EventOnRecord
    <3>2. Reserved(Of(id).seq)'
      BY <3>1, SeqsKept DEF Kept, Reserved
    <3> QED
      BY <1>1, <3>1, <3>2 DEF TakenByWeb
  <2>2. Of(id).at = "failed" /\ faults' = 0 =>
           \E row \in trace' : row.body \in WebRows /\ row.seq = Of(id).seq
    BY DEF Kept, EventOnRecord
  <2> QED
    BY <1>1, <2>1, <2>2 DEF EventOnRecord
<1>3. PacketOnRecord(id) => PacketOnRecord(id)'
  BY DEF Kept, PacketOnRecord
<1>4. ArtifactOnRecord(id) => ArtifactOnRecord(id)'
  BY DEF Kept, ArtifactOnRecord
<1> QED
  BY <1>2, <1>3, <1>4 DEF OnRecord

\* A call that moves one write on and records no more than that write.
LEMMA MoveOn ==
    ASSUME TypeOK, Fits, Evidence, NEW id \in Handed, NEW w, Becomes(id, w),
           w.at = "numbered" => \A other \in Handed : Of(other).at # "numbered",
           Kept, UNCHANGED <<web, webTries>>, Numbered', OnRecord(id)',
           \A row \in trace' \ trace : row.body = id /\ Of(id).at = "numbered"
    PROVE  Evidence'
<1>1. Locked'
  BY DEF Evidence, Locked, Becomes
<1>2. WebReserved'
  <2> SUFFICES ASSUME web > 0
               PROVE  /\ webTries > 0 /\ Reserved(web)'
                      /\ RowsOf(<<"web", webTries>>)' = {}
    BY DEF WebReserved
  <2>1. webTries > 0 /\ Reserved(web) /\ RowsOf(<<"web", webTries>>) = {}
    BY DEF Evidence, WebReserved
  <2>2. <<"web", webTries>> # id
    BY WebIsApart
  <2>3. RowsOf(<<"web", webTries>>)' = {}
    BY <2>1, <2>2 DEF RowsOf
  <2>4. Reserved(web)'
    BY <2>1, SeqsKept DEF Kept, Reserved
  <2> QED
    BY <2>1, <2>3, <2>4
<1>3. ASSUME NEW other \in Handed'
      PROVE  OnRecord(other)'
  <2>1. CASE other = id
    BY <2>1
  <2>2. CASE other # id
    <3>1. other \in Handed /\ Of(other)' = Of(other) /\ OnRecord(other)
      BY <2>2 DEF Becomes, Evidence
    <3>2. \A row \in trace' \ trace :
             row.body # other /\ Of(other).at # "numbered"
      BY <2>2, <3>1 DEF Evidence, Locked
    <3> QED
      BY <3>1, <3>2, OthersOnRecord
  <2> QED
    BY <2>1, <2>2
<1> QED
  BY <1>1, <1>2, <1>3 DEF Evidence

\* The trace as it was, seen by the same writes and the same web app.
LEMMA SameTrace ==
    ASSUME Numbered, Handed \subseteq Handed', UNCHANGED <<trace, webTries>>
    PROVE  Numbered'
<1>1. Seqs' = Seqs
  BY DEF Seqs
<1> QED
  BY <1>1 DEF Numbered

----------------------------------------------------------------------------
(* A call in flight makes progress *)

\* What a step on one write leaves in its place.
Moves(id, at) ==
    /\ writes' \in [Runs -> Seq(Write)]
    /\ \A r \in Runs : Len(writes'[r]) = Len(writes[r])
    /\ Becomes(id, [Of(id) EXCEPT !.at = at])

\* A write that was not done is moved on: no run's flush has counted it.
LEMMA FlushedKept ==
    ASSUME TypeOK, NEW id \in Handed, NEW w, Becomes(id, w),
           writes' \in [Runs -> Seq(Write)],
           \A r \in Runs : Len(writes'[r]) = Len(writes[r]),
           Of(id).at # "done", w.kind = Of(id).kind,
           UNCHANGED <<phase, reply>>, NEW r \in Runs, Flushed(r)
    PROVE  Flushed(r)'
<1>1. ASSUME NEW kind, AllDone(r, kind)
      PROVE  AllDone(r, kind)'
  <2> SUFFICES ASSUME NEW i \in DOMAIN writes'[r], writes'[r][i].kind = kind
               PROVE  writes'[r][i].at = "done"
    BY DEF AllDone
  <2>1. i \in DOMAIN writes[r]
    BY DEF TypeOK
  <2>2. <<r, i>> \in Handed
    BY <2>1, HandedWrites
  <2>3. Of(<<r, i>>)' = writes'[r][i] /\ Of(<<r, i>>) = writes[r][i]
    BY DEF Of
  <2>4. CASE <<r, i>> = id
    BY <1>1, <2>1, <2>3, <2>4 DEF Becomes, AllDone
  <2>5. CASE <<r, i>> # id
    BY <1>1, <2>1, <2>2, <2>3, <2>5 DEF Becomes, AllDone
  <2> QED
    BY <2>4, <2>5
<1> QED
  BY <1>1 DEF Flushed

\* What the steps on one write have in common: given what they change, the
\* types, the bounds and the flushes are kept.
LEMMA ServeTypes ==
    ASSUME SinksInv, NEW id \in Handed, NEW w, Becomes(id, w),
           writes' \in [Runs -> Seq(Write)],
           \A r \in Runs : Len(writes'[r]) = Len(writes[r]),
           Of(id).at # "done", w.kind = Of(id).kind,
           UNCHANGED <<phase, reply, web, webTries>>,
           trace' \subseteq [seq : Nat \ {0}, body : Ids \union WebRows],
           packets' \subseteq packets \union {id},
           artifacts' \subseteq artifacts \union {id},
           objects' \subseteq objects \union {id},
           linked' \subseteq linked \union {id},
           faults' \in 0..MaxFaults
    PROVE  TypeOK' /\ Fits' /\ \A r \in Runs : Flushed(r)'
<1>1. id \in Ids
  BY HandedNames DEF SinksInv
<1>2. TypeOK'
  BY <1>1 DEF SinksInv, TypeOK
<1>3. Fits'
  BY DEF SinksInv, Fits, Becomes
<1>4. ASSUME NEW r \in Runs
      PROVE  Flushed(r)'
  BY FlushedKept DEF SinksInv
<1> QED
  BY <1>2, <1>3, <1>4

\* An answer that arrives or is lost.
LEMMA AnsweredMoves ==
    ASSUME TypeOK, NEW id \in Handed, NEW at \in {"row", "stored", "done"},
           Answered(id, at)
    PROVE  /\ \/ Moves(id, at) /\ faults' = faults
              \/ Moves(id, "failed") /\ faults' > 0
           /\ faults' \in 0..MaxFaults
           /\ faults' = 0 => faults = 0
<1>1. faults \in 0..MaxFaults
  BY DEF TypeOK
<1>2. CASE Progress(id, at) /\ UNCHANGED faults
  BY <1>1, <1>2, ProgressBecomes DEF Moves
<1>3. CASE faults < MaxFaults /\ Progress(id, "failed") /\ faults' = faults + 1
  <2>1. faults' > 0 /\ faults' \in 0..MaxFaults
    BY <1>1, <1>3, BoundsAssumption
  <2>2. Moves(id, "failed")
    BY <1>3, ProgressBecomes DEF Moves
  <2> QED
    BY <2>1, <2>2
<1> QED
  BY <1>2, <1>3 DEF Answered

\* A write that moves on while the trace stays as it is.
LEMMA MoveKeeps ==
    ASSUME SinksInv, NEW id \in Handed, NEW at, Moves(id, at),
           at \notin {"sent", "numbered"}, Of(id).at # "done",
           UNCHANGED <<phase, reply, trace, web, webTries>>,
           packets \subseteq packets' /\ packets' \subseteq packets \union {id},
           artifacts \subseteq artifacts' /\ artifacts' \subseteq artifacts \union {id},
           objects \subseteq objects' /\ objects' \subseteq objects \union {id},
           linked \subseteq linked' /\ linked' \subseteq linked \union {id},
           faults' \in 0..MaxFaults, faults' = 0 => faults = 0,
           OnRecord(id)', PathHasBytes'
    PROVE  SinksInv'
<1> DEFINE w == [Of(id) EXCEPT !.at = at]
<1>1. Of(id) \in Write /\ w.at = at /\ w.kind = Of(id).kind
  BY HandedWrites DEF SinksInv, Write
<1>2. Becomes(id, w)
  BY DEF Moves
<1> HIDE DEF w
<1>3. trace' \subseteq [seq : Nat \ {0}, body : Ids \union WebRows]
  BY DEF SinksInv, TypeOK
<1>4. TypeOK' /\ Fits' /\ \A r \in Runs : Flushed(r)'
  BY <1>1, <1>2, <1>3, ServeTypes DEF Moves
<1>5. Numbered'
  BY <1>2, SameTrace DEF SinksInv, Evidence, Becomes
<1>6. Evidence'
  BY <1>1, <1>2, <1>5, MoveOn DEF SinksInv, Kept
<1> QED
  BY <1>4, <1>6 DEF SinksInv

LEMMA TakeNumberKeeps ==
    ASSUME SinksInv, NEW id \in Handed, TakeNumber(id)
    PROVE  SinksInv'
<1> DEFINE w == [Of(id) EXCEPT !.at = "numbered", !.seq = MaxSeq + 1]
<1>1. TypeOK /\ Numbered /\ Of(id) \in Write
  BY HandedWrites DEF SinksInv, Evidence
<1>2. MaxSeq + 1 \in Nat /\ Reserved(MaxSeq + 1) /\ MaxSeq + 1 \notin Seqs
  BY <1>1, NextIsReserved
<1>3. /\ w \in Write /\ w.kind = "event" /\ w.at = "numbered"
      /\ w.seq = MaxSeq + 1
  BY <1>1, <1>2 DEF Write, TakeNumber, Ready
<1>4. writes' = [writes EXCEPT ![id[1]][id[2]] = w]
  <2>1. /\ id[1] \in Runs /\ id[2] \in DOMAIN writes[id[1]]
        /\ writes \in [Runs -> Seq(Write)]
    BY <1>1, HandedWrites DEF TypeOK
  <2>2. writes[id[1]][id[2]] \in Write
    BY <1>1 DEF Of
  <2> QED
    BY <2>1, <2>2 DEF TakeNumber, Of, Write
<1> HIDE DEF w
<1>5. /\ writes' \in [Runs -> Seq(Write)]
      /\ \A r \in Runs : Len(writes'[r]) = Len(writes[r])
      /\ Becomes(id, w)
  BY <1>1, <1>3, <1>4, OneWrite
<1>6. /\ UNCHANGED <<phase, reply, trace, packets, artifacts, objects, linked,
                     web, webTries, faults>>
      /\ Of(id).kind = "event" /\ Of(id).at = "sent"
      /\ \A other \in Handed : Of(other).at # "numbered"
  BY DEF TakeNumber, Ready, db, env
<1>7. TypeOK' /\ Fits' /\ \A r \in Runs : Flushed(r)'
  <2>1. /\ trace' \subseteq [seq : Nat \ {0}, body : Ids \union WebRows]
        /\ faults' \in 0..MaxFaults
    BY <1>1, <1>6 DEF TypeOK
  <2> QED
    BY <1>3, <1>5, <1>6, <2>1, ServeTypes
<1>8. Numbered'
  BY <1>1, <1>5, <1>6, SameTrace DEF Becomes
<1>9. OnRecord(id)'
  <2>1. Of(id)' = w /\ trace' = trace
    BY <1>5, <1>6 DEF Becomes
  <2>2. RowsOf(id) = {}
    BY <1>6 DEF SinksInv, Evidence, OnRecord, EventOnRecord
  <2>3. RowsOf(id)' = {}
    BY <2>1, <2>2 DEF RowsOf
  <2>4. \A row \in trace' : row.seq # MaxSeq + 1
    BY <1>2, <2>1 DEF Seqs
  <2>5. EventOnRecord(id)'
    <3>1. (Of(id).seq)' = MaxSeq + 1
      BY <1>3, <2>1
    <3>2. Reserved(Of(id).seq)'
      <4>1. Seqs' = Seqs
        BY <2>1 DEF Seqs
      <4> QED
        BY <1>2, <3>1, <4>1 DEF Reserved
    <3>3. TakenByWeb(Of(id).seq)'
      BY <2>4, <3>1 DEF TakenByWeb
    <3> QED
      BY <1>3, <2>1, <2>3, <3>2, <3>3 DEF EventOnRecord
  <2> QED
    BY <1>3, <2>1, <2>5 DEF OnRecord
<1>10. Evidence'
  BY <1>1, <1>5, <1>6, <1>8, <1>9, MoveOn DEF SinksInv, Kept
<1> QED
  BY <1>6, <1>7, <1>10 DEF SinksInv, PathHasBytes

LEMMA InsertPacketKeeps ==
    ASSUME SinksInv, NEW id \in Handed, InsertPacket(id)
    PROVE  SinksInv'
<1>1. /\ Of(id) \in Write /\ Of(id).kind = "packet" /\ Of(id).at = "sent"
      /\ packets' = packets \union {id}
      /\ UNCHANGED <<phase, reply, trace, artifacts, objects, linked, web, webTries>>
  BY HandedWrites DEF SinksInv, InsertPacket, Ready, env
<1>2. PICK at \in {"done", "failed"} :
          /\ Moves(id, at) /\ faults' \in 0..MaxFaults
          /\ faults' = 0 => faults = 0
  BY AnsweredMoves DEF InsertPacket, SinksInv
<1>3. Of(id)' = [Of(id) EXCEPT !.at = at]
  BY <1>2 DEF Moves, Becomes
<1>4. OnRecord(id)'
  <2>1. (Of(id).kind)' = "packet" /\ (Of(id).at)' = at
    BY <1>1, <1>3 DEF Write
  <2> QED
    BY <1>1, <1>2, <2>1 DEF OnRecord, PacketOnRecord
<1>5. PathHasBytes'
  BY <1>1 DEF SinksInv, PathHasBytes
<1> QED
  BY <1>1, <1>2, <1>4, <1>5, MoveKeeps

\* The three calls of the artifact sink, one after the other.
LEMMA ArtifactKeeps ==
    ASSUME SinksInv, NEW id \in Handed,
           InsertArtifact(id) \/ Upload(id) \/ Link(id)
    PROVE  SinksInv'
<1>1. /\ Of(id) \in Write /\ Of(id).kind = "artifact"
      /\ UNCHANGED <<phase, reply, trace, packets, web, webTries>>
  BY HandedWrites DEF SinksInv, InsertArtifact, Upload, Link, Ready, env
<1>2. ArtifactOnRecord(id) /\ PathHasBytes
  BY <1>1 DEF SinksInv, Evidence, OnRecord
<1>3. CASE InsertArtifact(id)
  <2>1. /\ Of(id).at = "sent" /\ artifacts' = artifacts \union {id}
        /\ UNCHANGED <<objects, linked>>
    BY <1>3 DEF InsertArtifact, Ready
  <2>2. PICK at \in {"row", "failed"} :
            /\ Moves(id, at) /\ faults' \in 0..MaxFaults
            /\ faults' = 0 => faults = 0
    BY <1>3, AnsweredMoves DEF InsertArtifact, SinksInv
  <2>3. (Of(id).kind)' = "artifact" /\ (Of(id).at)' = at
    BY <1>1, <2>2 DEF Moves, Becomes, Write
  <2>4. OnRecord(id)' /\ PathHasBytes'
    BY <1>2, <2>1, <2>2, <2>3 DEF OnRecord, ArtifactOnRecord, PathHasBytes
  <2> QED
    BY <1>1, <2>1, <2>2, <2>4, MoveKeeps
<1>4. CASE Upload(id)
  <2>1. /\ Of(id).at = "row" /\ objects' = objects \union {id}
        /\ UNCHANGED <<artifacts, linked>>
    BY <1>4 DEF Upload, Ready
  <2>2. PICK at \in {"stored", "failed"} :
            /\ Moves(id, at) /\ faults' \in 0..MaxFaults
            /\ faults' = 0 => faults = 0
    BY <1>4, AnsweredMoves DEF Upload, SinksInv
  <2>3. (Of(id).kind)' = "artifact" /\ (Of(id).at)' = at
    BY <1>1, <2>2 DEF Moves, Becomes, Write
  <2>4. OnRecord(id)' /\ PathHasBytes'
    BY <1>2, <2>1, <2>2, <2>3 DEF OnRecord, ArtifactOnRecord, PathHasBytes
  <2> QED
    BY <1>1, <2>1, <2>2, <2>4, MoveKeeps
<1>5. CASE Link(id)
  <2>1. /\ Of(id).at = "stored" /\ linked' = linked \union {id}
        /\ UNCHANGED <<artifacts, objects>>
    BY <1>5 DEF Link, Ready
  <2>2. PICK at \in {"done", "failed"} :
            /\ Moves(id, at) /\ faults' \in 0..MaxFaults
            /\ faults' = 0 => faults = 0
    BY <1>5, AnsweredMoves DEF Link, SinksInv
  <2>3. (Of(id).kind)' = "artifact" /\ (Of(id).at)' = at
    BY <1>1, <2>2 DEF Moves, Becomes, Write
  <2>4. OnRecord(id)' /\ PathHasBytes'
    BY <1>2, <2>1, <2>2, <2>3 DEF OnRecord, ArtifactOnRecord, PathHasBytes
  <2> QED
    BY <1>1, <2>1, <2>2, <2>4, MoveKeeps
<1> QED
  BY <1>3, <1>4, <1>5

LEMMA InsertRowKeeps ==
    ASSUME SinksInv, NEW id \in Handed, InsertRow(id)
    PROVE  SinksInv' /\ (UNCHANGED trace \/ AppendOnly!Append)
<1> DEFINE seq == Of(id).seq
<1>1. /\ Of(id) \in Write /\ Of(id).kind = "event" /\ Of(id).at = "numbered"
      /\ UNCHANGED <<phase, reply, packets, artifacts, objects, linked, web, webTries>>
  BY HandedWrites DEF SinksInv, InsertRow, Ready, env
<1>2. TypeOK /\ Fits /\ Evidence /\ Numbered /\ PathHasBytes /\ seq \in Nat
  BY <1>1 DEF SinksInv, Evidence, Write
<1>3. /\ RowsOf(id) = {} /\ Reserved(seq) /\ TakenByWeb(seq)
  BY <1>1 DEF SinksInv, Evidence, OnRecord, EventOnRecord
<1>4. PathHasBytes'
  BY <1>1, <1>2 DEF PathHasBytes
<1>5. CASE seq \in Seqs
  <2>1. Progress(id, "failed") /\ UNCHANGED <<trace, faults>>
    BY <1>5 DEF InsertRow
  <2>2. Moves(id, "failed")
    BY <1>2, <2>1, ProgressBecomes DEF Moves
  <2>3. /\ (Of(id).kind)' = "event" /\ (Of(id).at)' = "failed"
        /\ (Of(id).seq)' = seq
    BY <1>1, <2>2 DEF Moves, Becomes, Write
  <2>4. \E row \in trace : row.body \in WebRows /\ row.seq = seq
    BY <1>3, <1>5 DEF Seqs, TakenByWeb
  <2>5. OnRecord(id)'
    BY <2>1, <2>3, <2>4 DEF OnRecord, EventOnRecord
  <2>6. faults' \in 0..MaxFaults /\ (faults' = 0 => faults = 0)
    BY <1>2, <2>1 DEF TypeOK
  <2>7. SinksInv'
    BY <1>1, <1>4, <2>1, <2>2, <2>5, <2>6, MoveKeeps
  <2> QED
    BY <2>1, <2>7
<1>6. CASE seq \notin Seqs
  <2>1. /\ trace' = trace \union {[seq |-> seq, body |-> id]}
        /\ Answered(id, "done")
    BY <1>6 DEF InsertRow
  <2>2. PICK at \in {"done", "failed"} :
            /\ Moves(id, at) /\ faults' \in 0..MaxFaults
            /\ faults' = 0 => faults = 0
            /\ at = "failed" => faults' > 0
    BY <1>2, <2>1, AnsweredMoves
  <2>3. /\ (Of(id).kind)' = "event" /\ (Of(id).at)' = at
    BY <1>1, <2>2 DEF Moves, Becomes, Write
  <2> HIDE DEF seq
  <2>4. /\ AppendOnly!Append
        /\ \E n \in Seqs' \union {0} : Seqs' = 1..n
        /\ \A a, b \in trace' : a.seq = b.seq \/ a.body = b.body => a = b
    BY <1>2, <1>3, <1>6, <2>1, InsertAppends
  <2>5. Numbered'
    <3>1. \A row \in trace' : row.body \in Handed \union ({"web"} \X (1..webTries))
      BY <1>2, <2>1 DEF Numbered
    <3> QED
      BY <1>1, <2>2, <2>4, <3>1 DEF Numbered, Moves, Becomes
  <2>6. OnRecord(id)'
    <3>1. RowsOf(id)' # {}
      <4>1. [seq |-> seq, body |-> id] \in RowsOf(id)'
        BY <2>1 DEF RowsOf
      <4> QED
        BY <4>1
    <3>2. EventOnRecord(id)'
      BY <2>2, <2>3, <3>1 DEF EventOnRecord
    <3> QED
      BY <2>3, <3>2 DEF OnRecord
  <2> DEFINE w == [Of(id) EXCEPT !.at = at]
  <2>7. Becomes(id, w) /\ w.at = at /\ w.kind = Of(id).kind
    BY <1>1, <2>2 DEF Moves, Write
  <2> HIDE DEF w
  <2>8. Evidence'
    <3>1. Kept
      BY <1>1, <2>1, <2>2 DEF Kept
    <3>2. \A row \in trace' \ trace : row.body = id /\ Of(id).at = "numbered"
      BY <1>1, <2>1
    <3> QED
      BY <1>1, <1>2, <2>2, <2>5, <2>6, <2>7, <3>1, <3>2, MoveOn
  <2>9. TypeOK' /\ Fits' /\ \A r \in Runs : Flushed(r)'
    <3>1. trace' \subseteq [seq : Nat \ {0}, body : Ids \union WebRows]
      <4>1. seq \in Nat \ {0} /\ id \in Ids
        BY <1>2, <1>3, HandedNames DEF Reserved
      <4> QED
        BY <1>2, <2>1, <4>1 DEF TypeOK
    <3> QED
      BY <1>1, <2>2, <2>7, <3>1, ServeTypes DEF Moves
  <2> QED
    BY <1>4, <2>4, <2>8, <2>9 DEF SinksInv
<1> QED
  BY <1>5, <1>6

LEMMA RejectKeeps ==
    ASSUME SinksInv, NEW id \in Handed, Reject(id)
    PROVE  SinksInv'
<1>1. /\ Of(id) \in Write /\ ~Settled(Of(id)) /\ Progress(id, "failed")
      /\ faults' = faults + 1 /\ faults < MaxFaults
      /\ UNCHANGED <<phase, reply, trace, packets, artifacts, objects, linked,
                     web, webTries>>
  BY HandedWrites DEF SinksInv, Reject, db, env
<1>2. TypeOK /\ PathHasBytes /\ faults \in 0..MaxFaults
  BY DEF SinksInv, TypeOK
<1>3. faults' \in 0..MaxFaults /\ faults' > 0
  BY <1>1, <1>2, BoundsAssumption
<1>4. Moves(id, "failed") /\ Of(id).at # "done"
  BY <1>1, <1>2, ProgressBecomes DEF Moves, Settled
<1>5. (Of(id).kind)' = Of(id).kind /\ (Of(id).at)' = "failed"
  BY <1>1, <1>4 DEF Moves, Becomes, Write
<1>6. OnRecord(id)' /\ PathHasBytes'
  BY <1>1, <1>2, <1>3, <1>5 DEF OnRecord, EventOnRecord, PacketOnRecord,
     ArtifactOnRecord, PathHasBytes
<1> QED
  BY <1>1, <1>3, <1>4, <1>6, MoveKeeps

----------------------------------------------------------------------------
(* The web app *)

LEMMA WebReadsKeep ==
    ASSUME SinksInv, WebReads
    PROVE  SinksInv'
<1>1. /\ TypeOK /\ Fits /\ Evidence /\ Numbered /\ PathHasBytes
      /\ UNCHANGED <<phase, reply, writes, trace, packets, artifacts, objects,
                     linked, faults>>
  BY DEF SinksInv, Evidence, WebReads, db
<1>2. MaxSeq + 1 \in Nat /\ Reserved(MaxSeq + 1)
  BY <1>1, NextIsReserved
<1>3. /\ web' = MaxSeq + 1 /\ webTries' = webTries + 1 /\ webTries < MaxWeb
      /\ webTries \in 0..MaxWeb
  BY <1>1 DEF WebReads, TypeOK
<1>4. webTries' \in 0..MaxWeb /\ webTries' > 0
      /\ 1..webTries \subseteq 1..webTries' /\ webTries' \notin 1..webTries
  BY <1>3, BoundsAssumption
<1>5. Handed' = Handed /\ Seqs' = Seqs /\ \A id : Of(id)' = Of(id)
  BY <1>1 DEF Handed, Seqs, Of
<1>6. TypeOK' /\ Fits' /\ PathHasBytes' /\ \A r \in Runs : Flushed(r)'
  <2>1. TypeOK'
    BY <1>1, <1>2, <1>3, <1>4 DEF TypeOK
  <2>2. Fits' /\ PathHasBytes'
    BY <1>1, <1>5 DEF Fits, PathHasBytes
  <2>3. \A r \in Runs : Flushed(r)'
    BY <1>1 DEF SinksInv, Flushed, AllDone
  <2> QED
    BY <2>1, <2>2, <2>3
<1>7. Numbered'
  <2>1. \A row \in trace : row.body \in Handed \union ({"web"} \X (1..webTries'))
    BY <1>1, <1>4 DEF Numbered
  <2> QED
    BY <1>1, <1>5, <2>1 DEF Numbered
<1>8. WebReserved'
  <2>1. \A row \in trace : row.body # <<"web", webTries'>>
    <3> SUFFICES ASSUME NEW row \in trace, row.body = <<"web", webTries'>>
                 PROVE  FALSE
      OBVIOUS
    <3>1. row.body \notin Handed
      BY <1>1, WebIsApart
    <3>2. row.body \in {"web"} \X (1..webTries)
      BY <1>1, <3>1 DEF Numbered
    <3> QED
      BY <1>4, <3>2
  <2>2. RowsOf(<<"web", webTries>>)' = {}
    BY <1>1, <2>1 DEF RowsOf
  <2>3. Reserved(web)'
    BY <1>2, <1>3, <1>5 DEF Reserved
  <2> QED
    BY <1>4, <2>2, <2>3 DEF WebReserved
<1>9. ASSUME NEW id \in Handed
      PROVE  OnRecord(id)'
  <2>1. OnRecord(id) /\ Kept
    BY <1>1 DEF Evidence, Kept
  <2> QED
    BY <1>1, <1>5, <2>1, OthersOnRecord
<1>10. Locked'
  BY <1>1, <1>5 DEF Evidence, Locked
<1> QED
  BY <1>5, <1>6, <1>7, <1>8, <1>9, <1>10 DEF SinksInv, Evidence

LEMMA WebInsertsKeep ==
    ASSUME SinksInv, WebInserts
    PROVE  SinksInv' /\ (UNCHANGED trace \/ AppendOnly!Append)
<1> DEFINE body == <<"web", webTries>>
<1>1. /\ TypeOK /\ Fits /\ Evidence /\ Numbered /\ PathHasBytes
      /\ UNCHANGED <<phase, reply, writes, packets, artifacts, objects, linked,
                     webTries, faults>>
      /\ web \in Nat /\ web > 0 /\ web' = 0
  BY DEF SinksInv, Evidence, WebInserts, TypeOK
<1>2. /\ webTries > 0 /\ Reserved(web) /\ RowsOf(body) = {}
  BY <1>1 DEF Evidence, WebReserved
<1>3. body \in WebRows /\ body \in {"web"} \X (1..webTries) /\ body \notin Handed
  <2>1. webTries \in 1..MaxWeb /\ webTries \in 1..webTries
    BY <1>1, <1>2, BoundsAssumption DEF TypeOK
  <2> QED
    BY <1>1, <2>1, WebIsApart DEF WebRows
<1> HIDE DEF body
<1>4. Handed' = Handed /\ \A id : Of(id)' = Of(id)
  BY <1>1 DEF Handed, Of
<1>5. \/ trace' = trace
      \/ /\ trace' = trace \union {[seq |-> web, body |-> body]}
         /\ web \notin Seqs
  BY DEF WebInserts, body
<1>6. Numbered' /\ (UNCHANGED trace \/ AppendOnly!Append)
  <2>1. CASE trace' = trace
    BY <1>1, <1>4, <2>1, SameTrace
  <2>2. CASE /\ trace' = trace \union {[seq |-> web, body |-> body]}
             /\ web \notin Seqs
    <3>1. /\ AppendOnly!Append
          /\ \E n \in Seqs' \union {0} : Seqs' = 1..n
          /\ \A a, b \in trace' : a.seq = b.seq \/ a.body = b.body => a = b
      BY <1>1, <1>2, <2>2, InsertAppends
    <3>2. \A row \in trace' : row.body \in Handed \union ({"web"} \X (1..webTries))
      BY <1>1, <1>3, <2>2 DEF Numbered
    <3> QED
      BY <1>1, <1>4, <3>1, <3>2 DEF Numbered
  <2> QED
    BY <1>5, <2>1, <2>2
<1>7. TypeOK' /\ Fits' /\ PathHasBytes' /\ \A r \in Runs : Flushed(r)'
  <2>1. trace' \subseteq [seq : Nat \ {0}, body : Ids \union WebRows]
    BY <1>1, <1>3, <1>5 DEF TypeOK
  <2>2. TypeOK'
    BY <1>1, <2>1 DEF TypeOK
  <2>3. Fits' /\ PathHasBytes'
    BY <1>1, <1>4 DEF Fits, PathHasBytes
  <2>4. \A r \in Runs : Flushed(r)'
    BY <1>1 DEF SinksInv, Flushed, AllDone
  <2> QED
    BY <2>2, <2>3, <2>4
<1>8. ASSUME NEW id \in Handed
      PROVE  OnRecord(id)'
  <2>1. OnRecord(id) /\ Kept
    BY <1>1, <1>5 DEF Evidence, Kept
  <2>2. \A row \in trace' \ trace : row.body # id /\ row.body \in WebRows
    BY <1>3, <1>5
  <2> QED
    BY <1>4, <2>1, <2>2, OthersOnRecord
<1>9. Locked' /\ WebReserved'
  BY <1>1, <1>4 DEF Evidence, Locked, WebReserved
<1> QED
  BY <1>4, <1>6, <1>7, <1>8, <1>9 DEF SinksInv, Evidence

----------------------------------------------------------------------------
(* The runs *)

\* Handing over: the new writes are sent and have nothing on record yet.
LEMMA HandKeeps ==
    ASSUME SinksInv, NEW r \in Runs, NEW new \in Seq(Sent),
           Len(new) \in {1, 2}, Hand(r, new), UNCHANGED <<db, env, faults>>
    PROVE  /\ writes' \in [Runs -> Seq(Write)]
           /\ Fits' /\ Evidence' /\ PathHasBytes'
           /\ \A s \in Runs \ {r} : writes'[s] = writes[s]
<1>1. /\ TypeOK /\ Fits /\ Evidence /\ Numbered /\ PathHasBytes
      /\ UNCHANGED <<trace, packets, artifacts, objects, linked, web, webTries, faults>>
  BY DEF SinksInv, Evidence, db, env
<1>2. /\ writes' \in [Runs -> Seq(Write)]
      /\ Fits'
      /\ Handed \subseteq Handed'
      /\ \A id \in Handed : Of(id)' = Of(id)
      /\ \A id \in Handed' \ Handed : Of(id)' \in Sent
      /\ \A s \in Runs \ {r} : writes'[s] = writes[s]
  BY <1>1, HandAdds
<1>3. Numbered'
  BY <1>1, <1>2, SameTrace
<1>4. \A id \in Handed' \ Handed : (Of(id).at)' = "sent"
  BY <1>2 DEF Sent
<1>5. Locked'
  BY <1>1, <1>2, <1>4 DEF Evidence, Locked
<1>6. WebReserved'
  <2>1. Seqs' = Seqs
    BY <1>1 DEF Seqs
  <2> QED
    BY <1>1, <2>1 DEF Evidence, WebReserved, Reserved, RowsOf
<1>7. ASSUME NEW id \in Handed'
      PROVE  OnRecord(id)'
  <2>1. CASE id \in Handed
    <3>1. OnRecord(id) /\ Kept
      BY <1>1, <2>1 DEF Evidence, Kept
    <3> QED
      BY <1>1, <1>2, <2>1, <3>1, OthersOnRecord
  <2>2. CASE id \notin Handed
    <3>1. id \notin WebRows
      <4>1. /\ \A other \in Handed' : other[1] \in Runs
        BY DEF Handed
      <4>2. id[1] # "web"
        BY <4>1, RunsAssumption
      <4> QED
        BY <4>2 DEF WebRows
    <3>2. id \notin {"web"} \X (1..webTries)
      <4>1. 1..webTries \subseteq 1..MaxWeb
        BY <1>1, BoundsAssumption DEF TypeOK
      <4> QED
        BY <3>1, <4>1 DEF WebRows
    <3>3. RowsOf(id)' = {}
      BY <1>1, <2>2, <3>2 DEF RowsOf, Numbered
    <3> QED
      BY <1>4, <2>2, <3>3 DEF OnRecord, EventOnRecord, PacketOnRecord,
         ArtifactOnRecord
  <2> QED
    BY <2>1, <2>2
<1>8. PathHasBytes'
  BY <1>1 DEF PathHasBytes
<1> QED
  BY <1>2, <1>3, <1>5, <1>6, <1>7, <1>8 DEF Evidence

\* A run that only moves on leaves the evidence as it is.
LEMMA PhaseKeeps ==
    ASSUME SinksInv, UNCHANGED <<writes, db, env, faults>>
    PROVE  Fits' /\ Evidence' /\ PathHasBytes'
<1>1. /\ TypeOK /\ Fits /\ Evidence /\ Numbered /\ PathHasBytes
      /\ UNCHANGED <<trace, packets, artifacts, objects, linked, web, webTries, faults>>
  BY DEF SinksInv, Evidence, db, env
<1>2. Handed' = Handed /\ Seqs' = Seqs /\ \A id : Of(id)' = Of(id)
  BY <1>1 DEF Handed, Seqs, Of
<1>3. Numbered' /\ Locked'
  BY <1>1, <1>2, SameTrace DEF Evidence, Locked
<1>4. WebReserved'
  BY <1>1, <1>2 DEF Evidence, WebReserved, Reserved, RowsOf
<1>5. ASSUME NEW id \in Handed
      PROVE  OnRecord(id)'
  <2>1. OnRecord(id) /\ Kept
    BY <1>1 DEF Evidence, Kept
  <2> QED
    BY <1>1, <1>2, <2>1, OthersOnRecord
<1> QED
  BY <1>1, <1>2, <1>3, <1>4, <1>5 DEF Evidence, Fits, PathHasBytes

\* A run still at work has passed no flush.
LEMMA AtWork ==
    ASSUME SinksInv, NEW r \in Runs, phase[r] \in {"gate", "loop", "record"},
           phase' \in [Runs -> Phases],
           reply' \in [Runs -> {"none", "ok", "forbidden", "run_failed"}],
           writes' \in [Runs -> Seq(Write)],
           \A s \in Runs \ {r} : /\ phase'[s] = phase[s] /\ reply'[s] = reply[s]
                                 /\ writes'[s] = writes[s],
           phase'[r] \notin {"artifactFlush", "packetFlush"},
           reply'[r] \in {reply[r], "forbidden", "run_failed"},
           UNCHANGED <<db, env, faults>>
    PROVE  TypeOK' /\ \A s \in Runs : Flushed(s)'
<1>1. TypeOK'
  BY DEF SinksInv, TypeOK, db, env
<1>2. reply[r] # "ok"
  BY DEF SinksInv, Flushed
<1>3. ASSUME NEW s \in Runs
      PROVE  Flushed(s)'
  <2>1. CASE s = r
    BY <1>2, <2>1 DEF Flushed
  <2>2. CASE s # r
    <3>1. phase'[s] = phase[s] /\ reply'[s] = reply[s] /\ writes'[s] = writes[s]
      BY <2>2
    <3>2. Flushed(s) /\ \A kind : AllDone(s, kind)' <=> AllDone(s, kind)
      BY <3>1 DEF SinksInv, AllDone
    <3> QED
      BY <3>1, <3>2 DEF Flushed
  <2> QED
    BY <2>1, <2>2
<1> QED
  BY <1>1, <1>3

LEMMA GateKeeps ==
    ASSUME SinksInv, NEW r \in Runs,
           Gate(r) \/ LoopReturns(r) \/ LoopThrows(r) \/ RecordEnds(r)
    PROVE  SinksInv'
<1>1. /\ phase \in [Runs -> Phases] /\ writes \in [Runs -> Seq(Write)]
      /\ reply \in [Runs -> {"none", "ok", "forbidden", "run_failed"}]
  BY DEF SinksInv, TypeOK
<1>2. /\ phase[r] \in {"gate", "loop", "record"}
      /\ UNCHANGED <<writes, db, env, faults>>
      /\ \/ \E next \in {"loop", "record", "traceFlush"} : GoTo(r, next)
         \/ \E answer \in {"forbidden", "run_failed"} : Reply(r, answer)
  BY DEF Gate, LoopReturns, LoopThrows, RecordEnds
<1>3. /\ phase' \in [Runs -> Phases]
      /\ reply' \in [Runs -> {"none", "ok", "forbidden", "run_failed"}]
      /\ \A s \in Runs \ {r} : phase'[s] = phase[s] /\ reply'[s] = reply[s]
      /\ phase'[r] \in {"loop", "record", "traceFlush", "replied"}
      /\ reply'[r] \in {reply[r], "forbidden", "run_failed"}
  BY <1>1, <1>2 DEF GoTo, Reply, Phases
<1>4. TypeOK' /\ \A s \in Runs : Flushed(s)'
  BY <1>1, <1>2, <1>3, AtWork
<1> QED
  BY <1>2, <1>4, PhaseKeeps DEF SinksInv

LEMMA LoopKeeps ==
    ASSUME SinksInv, NEW r \in Runs,
           EmitTool(r) \/ LoopHalts(r) \/ RecordWrite(r)
    PROVE  SinksInv'
<1>1. /\ phase \in [Runs -> Phases]
      /\ reply \in [Runs -> {"none", "ok", "forbidden", "run_failed"}]
  BY DEF SinksInv, TypeOK
<1>2. /\ phase[r] \in {"loop", "record"}
      /\ UNCHANGED <<db, env, faults>>
      /\ UNCHANGED <<phase, reply>> \/ GoTo(r, "traceFlush")
  BY DEF EmitTool, LoopHalts, RecordWrite
<1>3. \E new \in Seq(Sent) : Len(new) \in {1, 2} /\ Hand(r, new)
  <2>1. /\ \A verdict \in {"pass", "break"} : Event(verdict) \in Sent
        /\ \A kind \in {"packet", "artifact"} : Other(kind) \in Sent
    BY DEF Event, Other, Sent, Write
  <2>2. CASE EmitTool(r)
    <3>1. PICK verdict \in {"pass", "break"} : Hand(r, <<Event(verdict)>>)
      BY <2>2 DEF EmitTool
    <3>2. <<Event(verdict)>> \in Seq(Sent) /\ Len(<<Event(verdict)>>) = 1
      BY <2>1
    <3> QED
      BY <3>1, <3>2
  <2>3. CASE LoopHalts(r)
    <3>1. Hand(r, <<Event("break"), Other("packet")>>)
      BY <2>3 DEF LoopHalts
    <3>2. /\ <<Event("break"), Other("packet")>> \in Seq(Sent)
          /\ Len(<<Event("break"), Other("packet")>>) = 2
      BY <2>1
    <3> QED
      BY <3>1, <3>2
  <2>4. CASE RecordWrite(r)
    <3>1. Hand(r, <<Other("artifact")>>)
      BY <2>4 DEF RecordWrite
    <3>2. <<Other("artifact")>> \in Seq(Sent) /\ Len(<<Other("artifact")>>) = 1
      BY <2>1
    <3> QED
      BY <3>1, <3>2
  <2> QED
    BY <2>2, <2>3, <2>4
<1>4. /\ writes' \in [Runs -> Seq(Write)]
      /\ Fits' /\ Evidence' /\ PathHasBytes'
      /\ \A s \in Runs \ {r} : writes'[s] = writes[s]
  BY <1>2, <1>3, HandKeeps
<1>5. /\ phase' \in [Runs -> Phases] /\ reply' = reply
      /\ \A s \in Runs \ {r} : phase'[s] = phase[s]
      /\ phase'[r] \in {"loop", "record", "traceFlush"}
  BY <1>1, <1>2 DEF GoTo, Phases
<1>6. TypeOK' /\ \A s \in Runs : Flushed(s)'
  BY <1>1, <1>2, <1>4, <1>5, AtWork
<1> QED
  BY <1>4, <1>6 DEF SinksInv

\* A flush that goes on has found every write of its kind settled, and none
\* of them failed.
LEMMA FlushKeeps ==
    ASSUME SinksInv, NEW r \in Runs, FlushAll(r)
    PROVE  SinksInv'
<1>1. /\ phase \in [Runs -> Phases] /\ writes \in [Runs -> Seq(Write)]
      /\ reply \in [Runs -> {"none", "ok", "forbidden", "run_failed"}]
      /\ UNCHANGED <<writes, db, env, faults>>
  BY DEF SinksInv, TypeOK, FlushAll, Flush
<1>2. /\ \A s \in Runs : \A kind : AllDone(s, kind)' <=> AllDone(s, kind)
      /\ Flushed(r)
  BY <1>1 DEF SinksInv, AllDone
<1>3. ASSUME NEW here, NEW kind, NEW next, Flush(r, here, kind, next),
             next \in Phases
      PROVE  /\ phase[r] = here
             /\ phase' \in [Runs -> Phases]
             /\ reply' \in [Runs -> {"none", "ok", "forbidden", "run_failed"}]
             /\ \A s \in Runs \ {r} : phase'[s] = phase[s] /\ reply'[s] = reply[s]
             /\ \/ phase'[r] = "replied" /\ reply'[r] = "run_failed"
                \/ /\ AllDone(r, kind) /\ phase'[r] = next
                   /\ reply'[r] = IF next = "replied" THEN "ok" ELSE reply[r]
  <2>1. CASE \E i \in DOMAIN writes[r] : /\ writes[r][i].kind = kind
                                         /\ writes[r][i].at = "failed"
    <3>1. Reply(r, "run_failed")
      BY <1>3, <2>1 DEF Flush
    <3> QED
      BY <1>1, <1>3, <3>1 DEF Flush, Reply, Phases
  <2>2. CASE ~\E i \in DOMAIN writes[r] : /\ writes[r][i].kind = kind
                                          /\ writes[r][i].at = "failed"
    <3>1. AllDone(r, kind)
      BY <1>3, <2>2 DEF Flush, AllDone, Settled
    <3>2. IF next = "replied" THEN Reply(r, "ok") ELSE GoTo(r, next)
      BY <1>3, <2>2 DEF Flush
    <3>3. phase[r] = here
      BY <1>3 DEF Flush
    <3> QED
      BY <1>1, <1>3, <3>1, <3>2, <3>3 DEF Reply, GoTo, Phases
  <2> QED
    BY <2>1, <2>2
<1>4. /\ phase' \in [Runs -> Phases]
      /\ reply' \in [Runs -> {"none", "ok", "forbidden", "run_failed"}]
      /\ \A s \in Runs \ {r} : phase'[s] = phase[s] /\ reply'[s] = reply[s]
      /\ Flushed(r)'
  <2>1. "artifactFlush" \in Phases /\ "packetFlush" \in Phases /\ "replied" \in Phases
    BY DEF Phases
  <2>2. phase[r] # "replied" => reply[r] # "ok"
    BY <1>2 DEF Flushed
  <2>3. CASE Flush(r, "traceFlush", "event", "artifactFlush")
    BY <1>2, <1>3, <2>1, <2>2, <2>3 DEF Flushed
  <2>4. CASE Flush(r, "artifactFlush", "artifact", "packetFlush")
    BY <1>2, <1>3, <2>1, <2>2, <2>4 DEF Flushed
  <2>5. CASE Flush(r, "packetFlush", "packet", "replied")
    BY <1>2, <1>3, <2>1, <2>2, <2>5 DEF Flushed
  <2> QED
    BY <2>3, <2>4, <2>5 DEF FlushAll
<1>5. ASSUME NEW s \in Runs
      PROVE  Flushed(s)'
  <2>1. CASE s = r
    BY <1>4, <2>1
  <2>2. CASE s # r
    <3>1. phase'[s] = phase[s] /\ reply'[s] = reply[s] /\ Flushed(s)
      BY <1>4, <2>2 DEF SinksInv
    <3> QED
      BY <1>2, <3>1 DEF Flushed
  <2> QED
    BY <2>1, <2>2
<1>6. TypeOK'
  BY <1>1, <1>4 DEF SinksInv, TypeOK, db, env
<1> QED
  BY <1>1, <1>5, <1>6, PhaseKeeps DEF SinksInv

----------------------------------------------------------------------------

LEMMA InitSinks ==
    ASSUME Init
    PROVE  SinksInv
<1>1. TypeOK
  <2>1. <<>> \in Seq(Write)
    OBVIOUS
  <2> QED
    BY <2>1, BoundsAssumption DEF Init, TypeOK, Phases
<1>2. Handed = {}
  BY DEF Init, Handed
<1>3. Fits
  <2>1. \A r \in Runs : Len(writes[r]) = 0
    BY DEF Init
  <2> QED
    BY <1>2, <2>1, FS_EmptySet, BoundsAssumption DEF Fits
<1>4. Numbered
  <2>1. Seqs = {}
    BY DEF Init, Seqs
  <2>2. Seqs = 1..0
    BY <2>1
  <2> QED
    BY <2>1, <2>2 DEF Init, Numbered
<1>5. Locked /\ WebReserved /\ PathHasBytes
  BY <1>2 DEF Locked, WebReserved, PathHasBytes, Init
<1>6. \A r \in Runs : Flushed(r)
  BY DEF Init, Flushed
<1> QED
  BY <1>1, <1>2, <1>3, <1>4, <1>5, <1>6 DEF SinksInv, Evidence

\* No step breaks the invariant, and none does to the trace but append to it.
LEMMA NextSinks ==
    ASSUME SinksInv, [Next]_vars
    PROVE  SinksInv' /\ [AppendOnly!Append]_trace
<1>1. CASE UNCHANGED vars
  <2>1. UNCHANGED <<writes, db, env, faults>> /\ UNCHANGED <<phase, reply>>
    BY <1>1 DEF vars
  <2>2. TypeOK'
    BY <2>1 DEF SinksInv, TypeOK, db, env
  <2>3. \A r \in Runs : Flushed(r)'
    BY <2>1 DEF SinksInv, Flushed, AllDone
  <2> QED
    BY <2>1, <2>2, <2>3, PhaseKeeps DEF SinksInv, db
<1>2. ASSUME NEW r \in Runs, Start(r)
      PROVE  SinksInv' /\ UNCHANGED trace
  <2>1. UNCHANGED trace
    BY <1>2 DEF Start, Gate, EmitTool, LoopHalts, LoopReturns, LoopThrows,
       RecordWrite, RecordEnds, FlushAll, Flush, db
  <2> QED
    BY <1>2, <2>1, GateKeeps, LoopKeeps, FlushKeeps DEF Start
<1>3. ASSUME NEW id \in Handed, Serve(id)
      PROVE  SinksInv' /\ (UNCHANGED trace \/ AppendOnly!Append)
  <2>1. CASE TakeNumber(id)
    BY <2>1, TakeNumberKeeps DEF TakeNumber, db
  <2>2. CASE InsertRow(id)
    BY <2>2, InsertRowKeeps
  <2>3. CASE InsertPacket(id)
    BY <2>3, InsertPacketKeeps DEF InsertPacket
  <2>4. CASE InsertArtifact(id) \/ Upload(id) \/ Link(id)
    BY <2>4, ArtifactKeeps DEF InsertArtifact, Upload, Link
  <2> QED
    BY <1>3, <2>1, <2>2, <2>3, <2>4 DEF Serve
<1>4. ASSUME NEW id \in Handed, Reject(id)
      PROVE  SinksInv' /\ UNCHANGED trace
  BY <1>4, RejectKeeps DEF Reject, db
<1>5. CASE WebReads
  BY <1>5, WebReadsKeep DEF WebReads, db
<1>6. CASE WebInserts
  BY <1>6, WebInsertsKeep
<1> QED
  BY <1>1, <1>2, <1>3, <1>4, <1>5, <1>6 DEF Next

\* Every write has on record what its stage asks for, in every state.
THEOREM SinksInvariant == Spec => []SinksInv
<1>1. Init => SinksInv
  BY InitSinks
<1>2. SinksInv /\ [Next]_vars => SinksInv'
  BY NextSinks
<1> QED
  BY <1>1, <1>2, PTL DEF Spec

\* The types of the runs, their writes and the rows.
THEOREM TypeCorrect == Spec => []TypeOK
<1>1. SinksInv => TypeOK
  BY DEF SinksInv
<1> QED
  BY <1>1, SinksInvariant, PTL

\* The RPCs' lock, the unique constraint behind it and the web app's stale
\* numbers together never leave a gap in the trace, nor take a row back.
THEOREM SinksImplementLedger == Spec => TraceIsLedger
<1>1. Init => AppendOnly!Init
  BY DEF Init, AppendOnly!Init
<1>2. SinksInv /\ [Next]_vars => [AppendOnly!Append]_trace
  BY NextSinks
<1> QED
  BY <1>1, <1>2, SinksInvariant, PTL DEF Spec, TraceIsLedger, AppendOnly!Spec

\* Among runs the lock decides: without a fault only an insert of the web app
\* can have taken a number an event was given.
THEOREM LockKeepsRunsApart == Spec => []OnlyWebCollides
<1>1. SinksInv => OnlyWebCollides
  BY DEF SinksInv, Evidence, OnRecord, EventOnRecord, OnlyWebCollides, TypeOK
<1> QED
  BY <1>1, SinksInvariant, PTL

\* A storage path names bytes that are there, whichever call of the artifact
\* sink was the last to arrive.
THEOREM PathsHaveBytes == Spec => []PathHasBytes
<1>1. SinksInv => PathHasBytes
  BY DEF SinksInv
<1> QED
  BY <1>1, SinksInvariant, PTL

\* What run:start answers ok to is on record: the three flushes have between
\* them waited for every write, and a write that is done has its row.
THEOREM OkMeansDurable == Spec => []OkIsDurable
<1>1. SinksInv => OkIsDurable
  <2> SUFFICES ASSUME SinksInv, NEW id \in Handed, reply[id[1]] = "ok"
               PROVE  Durable(id)
    BY DEF OkIsDurable
  <2>1. /\ id[1] \in Runs /\ id[2] \in DOMAIN writes[id[1]]
        /\ Of(id) \in Write /\ OnRecord(id) /\ PathHasBytes
    BY HandedWrites DEF SinksInv, Evidence
  <2>2. Of(id).kind \in {"event", "packet", "artifact"}
    BY <2>1 DEF Write
  <2>3. Of(id).at = "done"
    BY <2>1, <2>2 DEF SinksInv, Flushed, AllDone, Of
  <2>4. CASE Of(id).kind = "event"
    <3>1. RowsOf(id) # {}
      BY <2>1, <2>3, <2>4 DEF OnRecord, EventOnRecord
    <3>2. PICK row \in trace : row.body = id
      BY <3>1 DEF RowsOf
    <3>3. {other \in trace : other.body = id} = {row}
      BY <3>2 DEF SinksInv, Evidence, Numbered
    <3>4. Cardinality({row}) = 1
      BY FS_Singleton
    <3> QED
      BY <2>4, <3>3, <3>4 DEF Durable
  <2>5. CASE Of(id).kind = "packet"
    BY <2>1, <2>3, <2>5 DEF OnRecord, PacketOnRecord, Durable
  <2>6. CASE Of(id).kind = "artifact"
    BY <2>1, <2>3, <2>6 DEF OnRecord, ArtifactOnRecord, Durable
  <2> QED
    BY <2>2, <2>4, <2>5, <2>6
<1> QED
  BY <1>1, SinksInvariant, PTL

=============================================================================
