---------------------------- MODULE RunFilesProofs ----------------------------
(***************************************************************************)
(* Proofs of what RunFilesProperties states, for any loops, files, sizes,  *)
(* cap and number of writes and edits.                                     *)
(*                                                                         *)
(* The version of a file only grows, so a version seen twice is one and    *)
(* the same content: that is what relates the row, the object and the      *)
(* write that happen at different moments (Sound).  Which of them can      *)
(* still change is a matter of how far the loop has come (Placed).         *)
(***************************************************************************)
EXTENDS RunFilesProperties, SequenceTheorems, TLAPS

\* A write the recorder has looked at.
Looked == Emitted \union {"stat", "dead"}

\* A loop in a call has that call as its last write, and only a loop that is
\* done moves through its writes.
LoopSound(l) ==
    /\ loop[l].at = "calling" =>
          writes[l] # <<>> /\ Last(l).at \in {"resolved", "open"}
    /\ loop[l].at \notin {"done", "recorded"} => loop[l].next = 1
    /\ loop[l].at = "recorded" => loop[l].next > Len(writes[l])

\* How far a write is, next to how far its loop is.
Placed(l, k) ==
    LET w == writes[l][k]
    IN  /\ w.at \in {"resolved", "open"} =>
              k = Len(writes[l]) /\ loop[l].at \in {"calling", "threw"}
        /\ w.at = "made" => w.verdict # "none"
        /\ w.at \in Looked => w.verdict = "pass" /\ loop[l].at \in {"done", "recorded"}
        /\ w.at = "stat" => loop[l].next = k
        /\ w.at = "made" /\ k < loop[l].next => w.verdict = "fail"

\* What a write knows of its file.
Sound(l, k) ==
    LET w == writes[l][k]
        f == file[w.path]
    IN  /\ w.wrote <= f.version
        /\ w.verdict = "pass" /\ w.wrote = f.version => f.there /\ w.size <= f.size
        /\ w.at \in Looked => w.wrote <= w.seen /\ w.seen <= f.version
        /\ w.at = "dead" /\ w.seen = w.wrote => w.size = 0
        /\ w.at \in Emitted \union {"stat"} => w.bytes > 0
        /\ w.at \in {"stat", "append", "read"} /\ w.seen = f.version => w.bytes = f.size
        /\ w.at \in {"read", "upload", "stored"} => w.bytes <= MaxBytes
        /\ w.at \in {"upload", "stored"} =>
              /\ w.seen <= w.read /\ w.read <= f.version
              /\ w.read = w.seen => w.body = w.bytes

IInv ==
    /\ TypeOK
    /\ \A l \in Loops :
          LoopSound(l) /\ \A k \in DOMAIN writes[l] : Placed(l, k) /\ Sound(l, k)

----------------------------------------------------------------------------
(* Facts about files and writes *)

\* Files only get newer.
Grows ==
    /\ file' \in [Paths -> File]
    /\ \A p \in Paths :
          file'[p] = file[p] \/ file[p].version < file'[p].version

LEMMA PutGrows ==
    ASSUME TypeOK, NEW p \in Paths, NEW size \in Nat, Put(p, size)
    PROVE  /\ Grows
           /\ file'[p] = [there |-> TRUE, size |-> size, version |-> file[p].version + 1]
<1> DEFINE f == [there |-> TRUE, size |-> size, version |-> file[p].version + 1]
<1>1. file[p] \in File /\ f \in File
  BY DEF TypeOK, File
<1>2. file' = [file EXCEPT ![p] = f]
  BY DEF Put
<1>3. file[p].version < f.version
  BY <1>1 DEF File
<1> HIDE DEF f
<1> QED
  BY <1>1, <1>2, <1>3 DEF TypeOK, Grows, f

LEMMA SameFilesGrow == ASSUME TypeOK, UNCHANGED file PROVE Grows
BY DEF TypeOK, Grows

\* A write that does not change stays sound while its file gets newer.
LEMMA SoundStays ==
    ASSUME TypeOK, Grows, NEW l \in Loops, NEW k \in DOMAIN writes[l], Sound(l, k),
           writes'[l][k] = writes[l][k]
    PROVE  Sound(l, k)'
<1> DEFINE w == writes[l][k]
<1>1. w \in Write
  BY ElementOfSeq, LenProperties DEF TypeOK
<1>2. /\ file[w.path] \in File /\ file'[w.path] \in File
      /\ file'[w.path] = file[w.path] \/ file[w.path].version < file'[w.path].version
  BY <1>1 DEF TypeOK, Grows, Write
<1>3. CASE file'[w.path] = file[w.path]
  BY <1>3 DEF Sound
<1>4. CASE file[w.path].version < file'[w.path].version
  BY <1>1, <1>2, <1>4 DEF Sound, File, Write, Looked, Emitted
<1> QED
  BY <1>2, <1>3, <1>4

\* The list of a loop with one write changed.
LEMMA OneWrite ==
    ASSUME TypeOK, NEW l \in Loops, NEW k \in DOMAIN writes[l], NEW w \in Write,
           writes' = [writes EXCEPT ![l][k] = w]
    PROVE  /\ writes' \in [Loops -> Seq(Write)]
           /\ \A n \in Loops : /\ DOMAIN writes'[n] = DOMAIN writes[n]
                               /\ Len(writes'[n]) = Len(writes[n])
           /\ \A n \in Loops \ {l} : writes'[n] = writes[n]
           /\ \A j \in DOMAIN writes[l] \ {k} : writes'[l][j] = writes[l][j]
           /\ writes'[l][k] = w
<1> DEFINE s == [writes[l] EXCEPT ![k] = w]
<1>1. writes[l] \in Seq(Write) /\ k \in 1..Len(writes[l])
  BY LenProperties DEF TypeOK
<1>2. /\ s \in Seq(Write) /\ Len(s) = Len(writes[l])
      /\ \A j \in 1..Len(writes[l]) : s[j] = IF j = k THEN w ELSE writes[l][j]
  BY <1>1, ExceptSeq
<1>3. /\ DOMAIN s = 1..Len(s) /\ DOMAIN writes[l] = 1..Len(writes[l])
  BY <1>1, <1>2, LenProperties
<1>4. writes' = [writes EXCEPT ![l] = s]
  OBVIOUS
<1> HIDE DEF s
<1>5. writes'[l] = s /\ \A n \in Loops \ {l} : writes'[n] = writes[n]
  BY <1>4 DEF TypeOK
<1>6. writes' \in [Loops -> Seq(Write)]
  BY <1>2, <1>4 DEF TypeOK
<1> QED
  BY <1>1, <1>2, <1>3, <1>5, <1>6

\* A step of l that changes one of its writes, and perhaps files and where l is.
LEMMA WriteStep ==
    ASSUME IInv, NEW l \in Loops, NEW k \in DOMAIN writes[l], NEW w \in Write,
           writes' = [writes EXCEPT ![l][k] = w],
           Grows, edits' \in Nat,
           loop' \in [Loops -> [at : LoopStates, next : Nat \ {0}]],
           \A n \in Loops \ {l} : loop'[n] = loop[n],
           LoopSound(l)', Placed(l, k)', Sound(l, k)',
           \A j \in DOMAIN writes[l] \ {k} :
              writes'[l][j] = writes[l][j] => Placed(l, j)'
    PROVE  IInv'
<1>1. TypeOK
  BY DEF IInv
<1>2. /\ writes' \in [Loops -> Seq(Write)]
      /\ \A n \in Loops : /\ DOMAIN writes'[n] = DOMAIN writes[n]
                          /\ Len(writes'[n]) = Len(writes[n])
      /\ \A n \in Loops \ {l} : writes'[n] = writes[n]
      /\ \A j \in DOMAIN writes[l] \ {k} : writes'[l][j] = writes[l][j]
  BY <1>1, OneWrite
<1>3. TypeOK'
  BY <1>2 DEF TypeOK, Grows
<1>4. ASSUME NEW n \in Loops \ {l}
      PROVE  LoopSound(n)' /\ \A j \in DOMAIN writes'[n] : Placed(n, j)' /\ Sound(n, j)'
  <2>1. LoopSound(n) /\ \A j \in DOMAIN writes[n] : Placed(n, j) /\ Sound(n, j)
    BY DEF IInv
  <2>2. writes'[n] = writes[n] /\ loop'[n] = loop[n]
    BY <1>2
  <2>3. LoopSound(n)' /\ \A j \in DOMAIN writes'[n] : Placed(n, j)'
    BY <2>1, <2>2 DEF LoopSound, Placed, Last
  <2>4. ASSUME NEW j \in DOMAIN writes'[n]
        PROVE  Sound(n, j)'
    BY <1>1, <2>1, <2>2, SoundStays
  <2> QED
    BY <2>3, <2>4
<1>5. ASSUME NEW j \in DOMAIN writes'[l]
      PROVE  Placed(l, j)' /\ Sound(l, j)'
  <2>1. CASE j = k
    BY <2>1
  <2>2. CASE j # k
    <3>1. j \in DOMAIN writes[l] \ {k} /\ Sound(l, j)
      BY <1>2, <2>2 DEF IInv
    <3> QED
      BY <1>1, <1>2, <3>1, SoundStays
  <2> QED
    BY <2>1, <2>2
<1> QED
  BY <1>3, <1>4, <1>5 DEF IInv

\* A step that changes no write.
LEMMA OtherStep ==
    ASSUME IInv, NEW l \in Loops, UNCHANGED writes, Grows, edits' \in Nat,
           loop' \in [Loops -> [at : LoopStates, next : Nat \ {0}]],
           \A n \in Loops \ {l} : loop'[n] = loop[n],
           LoopSound(l)', \A k \in DOMAIN writes[l] : Placed(l, k)'
    PROVE  IInv'
<1>1. TypeOK /\ TypeOK'
  BY DEF IInv, TypeOK, Grows
<1>2. ASSUME NEW n \in Loops, NEW k \in DOMAIN writes'[n]
      PROVE  Sound(n, k)'
  BY <1>1, SoundStays DEF IInv
<1>3. ASSUME NEW n \in Loops \ {l}
      PROVE  LoopSound(n)' /\ \A k \in DOMAIN writes'[n] : Placed(n, k)'
  BY DEF IInv, LoopSound, Placed, Last
<1> QED
  BY <1>1, <1>2, <1>3 DEF IInv

\* The list of a loop that calls write_file once more.
LEMMA OneMoreWrite ==
    ASSUME TypeOK, NEW l \in Loops, NEW w \in Write,
           writes' = [writes EXCEPT ![l] = Append(@, w)]
    PROVE  /\ writes' \in [Loops -> Seq(Write)]
           /\ \A n \in Loops \ {l} : writes'[n] = writes[n]
           /\ writes[l] \in Seq(Write) /\ writes'[l] # <<>>
           /\ Len(writes'[l]) = Len(writes[l]) + 1
           /\ DOMAIN writes'[l] = DOMAIN writes[l] \union {Len(writes'[l])}
           /\ \A j \in DOMAIN writes[l] : writes'[l][j] = writes[l][j]
           /\ writes'[l][Len(writes'[l])] = w
<1> DEFINE s == Append(writes[l], w)
<1>1. writes[l] \in Seq(Write)
  BY DEF TypeOK
<1>2. /\ s \in Seq(Write) /\ s # <<>> /\ Len(s) = Len(writes[l]) + 1
      /\ \A j \in 1..Len(writes[l]) : s[j] = writes[l][j]
      /\ s[Len(writes[l]) + 1] = w
  BY <1>1, AppendProperties
<1>3. /\ DOMAIN s = 1..Len(s) /\ DOMAIN writes[l] = 1..Len(writes[l])
      /\ Len(writes[l]) \in Nat
  BY <1>1, <1>2, LenProperties
<1>4. writes' = [writes EXCEPT ![l] = s]
  OBVIOUS
<1> HIDE DEF s
<1>5. writes'[l] = s /\ \A n \in Loops \ {l} : writes'[n] = writes[n]
  BY <1>4 DEF TypeOK
<1>6. writes' \in [Loops -> Seq(Write)]
  BY <1>2, <1>4 DEF TypeOK
<1>7. 1..(Len(writes[l]) + 1) = 1..Len(writes[l]) \union {Len(writes[l]) + 1}
  BY <1>3
<1> QED
  BY <1>1, <1>2, <1>3, <1>5, <1>6, <1>7

\* The call a loop is in, and the one the recorder is at.
LEMMA CallingLast ==
    ASSUME IInv, NEW l \in Loops, loop[l].at = "calling"
    PROVE  /\ Len(writes[l]) \in DOMAIN writes[l]
           /\ Last(l) = writes[l][Len(writes[l])]
           /\ Last(l) \in Write /\ Last(l).path \in Paths
           /\ \A j \in DOMAIN writes[l] : writes[l][j] \in Write
<1>1. writes[l] \in Seq(Write) /\ writes[l] # <<>>
  BY DEF IInv, TypeOK, LoopSound
<1>2. /\ DOMAIN writes[l] = 1..Len(writes[l]) /\ Len(writes[l]) \in Nat \ {0}
      /\ \A j \in 1..Len(writes[l]) : writes[l][j] \in Write
  BY <1>1, LenProperties, EmptySeq, ElementOfSeq
<1> QED
  BY <1>2 DEF Last, Write

LEMMA RecordingCurrent ==
    ASSUME IInv, NEW l \in Loops, Recording(l)
    PROVE  /\ loop[l].next \in DOMAIN writes[l]
           /\ Current(l) = writes[l][loop[l].next]
           /\ Current(l) \in Write /\ Current(l).path \in Paths
           /\ DOMAIN writes[l] \subseteq Nat
<1>1. /\ DOMAIN writes[l] = 1..Len(writes[l])
      /\ \A j \in 1..Len(writes[l]) : writes[l][j] \in Write
  BY LenProperties, ElementOfSeq DEF IInv, TypeOK
<1>2. loop[l].next \in 1..Len(writes[l])
  BY LenProperties DEF IInv, TypeOK, Recording
<1>3. Current(l) = writes[l][loop[l].next]
  BY DEF Current
<1>4. Current(l) \in Write
  BY <1>1, <1>2, <1>3
<1> QED
  BY <1>1, <1>2, <1>3, <1>4 DEF Write

----------------------------------------------------------------------------
(* write_file *)

LEMMA CallWriteFileStep ==
    ASSUME IInv, NEW l \in Loops, NEW p \in Paths, NEW size \in Sizes,
           CallWriteFile(l, p, size)
    PROVE  IInv'
<1> DEFINE w == [path |-> p, size |-> size, verdict |-> "none", at |-> "resolved",
                 wrote |-> 0, seen |-> 0, read |-> 0, bytes |-> 0, body |-> 0]
<1>1. /\ writes' = [writes EXCEPT ![l] = Append(@, w)]
      /\ loop' = [loop EXCEPT ![l].at = "calling"] /\ loop[l].at = "working"
      /\ UNCHANGED <<file, edits>>
  BY DEF CallWriteFile, Goto
<1>2. w \in Write /\ w.at = "resolved" /\ w.verdict = "none" /\ w.wrote = 0 /\ w.path = p
  BY RunFilesAssumption DEF Write, Progress
<1> HIDE DEF w
<1>3. TypeOK /\ Grows
  BY <1>1, SameFilesGrow DEF IInv
<1>4. /\ writes' \in [Loops -> Seq(Write)]
      /\ \A n \in Loops \ {l} : writes'[n] = writes[n]
      /\ writes[l] \in Seq(Write) /\ writes'[l] # <<>>
      /\ Len(writes'[l]) = Len(writes[l]) + 1
      /\ DOMAIN writes'[l] = DOMAIN writes[l] \union {Len(writes'[l])}
      /\ \A j \in DOMAIN writes[l] : writes'[l][j] = writes[l][j]
      /\ writes'[l][Len(writes'[l])] = w
  BY <1>1, <1>2, <1>3, OneMoreWrite
<1>5. /\ loop' \in [Loops -> [at : LoopStates, next : Nat \ {0}]]
      /\ \A n \in Loops \ {l} : loop'[n] = loop[n]
      /\ loop'[l].at = "calling" /\ loop'[l].next = loop[l].next
  BY <1>1 DEF IInv, TypeOK, LoopStates
<1>6. TypeOK'
  BY <1>1, <1>3, <1>4, <1>5 DEF TypeOK
<1>7. LoopSound(l)'
  BY <1>1, <1>2, <1>4, <1>5 DEF IInv, LoopSound, Last
<1>8. ASSUME NEW n \in Loops \ {l}
      PROVE  LoopSound(n)' /\ \A j \in DOMAIN writes'[n] : Placed(n, j)'
  BY <1>4, <1>5 DEF IInv, LoopSound, Placed, Last
<1>9. ASSUME NEW n \in Loops, NEW j \in DOMAIN writes[n]
      PROVE  Sound(n, j)'
  <2>1. writes'[n][j] = writes[n][j]
    BY <1>4
  <2> QED
    BY <1>3, <2>1, SoundStays DEF IInv
<1>10. ASSUME NEW j \in DOMAIN writes[l]
       PROVE  Placed(l, j)'
  BY <1>1, <1>4, <1>5 DEF IInv, Placed, LoopSound, Looked, Emitted
<1>11. PICK k : k = Len(writes[l]) + 1
  OBVIOUS
<1>12. Placed(l, k)' /\ Sound(l, k)'
  <2>1. writes'[l][k] = w /\ k = Len(writes'[l])
    BY <1>4, <1>11
  <2>2. Placed(l, k)'
    BY <1>2, <1>5, <2>1 DEF Placed, Looked, Emitted
  <2>3. file[p] \in File
    BY DEF IInv, TypeOK
  <2>4. Sound(l, k)'
    BY <1>1, <1>2, <2>1, <2>3 DEF Sound, Looked, Emitted, File
  <2> QED
    BY <2>2, <2>4
<1>13. DOMAIN writes'[l] = DOMAIN writes[l] \union {k}
  BY <1>4, <1>11
<1>14. \A j \in DOMAIN writes'[l] : Placed(l, j)' /\ Sound(l, j)'
  BY <1>9, <1>10, <1>12, <1>13
<1>15. \A n \in Loops \ {l} : \A j \in DOMAIN writes'[n] : Sound(n, j)'
  BY <1>4, <1>9
<1> QED
  BY <1>6, <1>7, <1>8, <1>14, <1>15 DEF IInv

LEMMA FailCallStep ==
    ASSUME IInv, NEW l \in Loops, NEW at \in {"resolved", "open"}, FailCall(l, at)
    PROVE  IInv'
<1>1. PICK k : k = Len(writes[l])
  OBVIOUS
<1> DEFINE w == [Last(l) EXCEPT !.at = "made", !.verdict = "fail"]
<1>2. /\ writes' = [writes EXCEPT ![l][k] = w]
      /\ loop' = [loop EXCEPT ![l].at = "working"] /\ loop[l].at = "calling"
      /\ UNCHANGED <<file, edits>>
  BY <1>1 DEF FailCall, SetLast, Goto
<1>3. /\ k \in DOMAIN writes[l] /\ Last(l) = writes[l][k] /\ Last(l) \in Write
  BY <1>2, <1>1, CallingLast
<1>4. /\ w \in Write /\ w.at = "made" /\ w.verdict = "fail"
      /\ w.wrote = Last(l).wrote /\ w.path = Last(l).path
  BY <1>3 DEF Write, Progress
<1> HIDE DEF w
<1>5. Grows
  BY <1>2, SameFilesGrow DEF IInv
<1>6. /\ loop' \in [Loops -> [at : LoopStates, next : Nat \ {0}]]
      /\ \A n \in Loops \ {l} : loop'[n] = loop[n]
      /\ loop'[l].at = "working" /\ loop'[l].next = loop[l].next
  BY <1>2 DEF IInv, TypeOK, LoopStates
<1>7. writes'[l][k] = w /\ Len(writes'[l]) = Len(writes[l])
  BY <1>2, <1>3, <1>4, OneWrite DEF IInv
<1>8. LoopSound(l)'
  BY <1>2, <1>6 DEF IInv, LoopSound
<1>9. Placed(l, k)'
  BY <1>4, <1>6, <1>7 DEF Placed, Looked, Emitted
<1>10. Sound(l, k)'
  BY <1>2, <1>3, <1>4, <1>7 DEF IInv, Sound, Looked, Emitted
<1>11. ASSUME NEW j \in DOMAIN writes[l] \ {k}, writes'[l][j] = writes[l][j]
       PROVE  Placed(l, j)'
  BY <1>2, <1>1, <1>6, <1>7, <1>11 DEF IInv, Placed, Looked, Emitted
<1>12. edits' \in Nat
  BY <1>2 DEF IInv, TypeOK
<1> QED
  BY <1>2, <1>3, <1>4, <1>5, <1>6, <1>8, <1>9, <1>10, <1>11, <1>12, WriteStep

LEMMA MkdirThrowsStep ==
    ASSUME IInv, NEW l \in Loops, MkdirThrows(l)
    PROVE  IInv'
<1>1. /\ loop' = [loop EXCEPT ![l].at = "threw"] /\ loop[l].at = "calling"
      /\ UNCHANGED <<file, writes, edits>>
  BY DEF MkdirThrows, Goto
<1>2. /\ loop' \in [Loops -> [at : LoopStates, next : Nat \ {0}]]
      /\ \A n \in Loops \ {l} : loop'[n] = loop[n]
      /\ loop'[l].at = "threw" /\ loop'[l].next = loop[l].next
  BY <1>1 DEF IInv, TypeOK, LoopStates
<1>3. LoopSound(l)'
  BY <1>1, <1>2 DEF IInv, LoopSound
<1>4. ASSUME NEW k \in DOMAIN writes[l]
      PROVE  Placed(l, k)'
  BY <1>1, <1>2 DEF IInv, Placed
<1>5. Grows /\ edits' \in Nat
  BY <1>1, SameFilesGrow DEF IInv, TypeOK
<1> QED
  BY <1>1, <1>2, <1>3, <1>4, <1>5, OtherStep

LEMMA OpenOnceStep ==
    ASSUME IInv, NEW l \in Loops, OpenOnce(l)
    PROVE  IInv'
<1>1. PICK k : k = Len(writes[l])
  OBVIOUS
<1> DEFINE w == [Last(l) EXCEPT !.at = "open"]
<1>2. /\ writes' = [writes EXCEPT ![l][k] = w]
      /\ loop[l].at = "calling" /\ Put(Last(l).path, 0) /\ Last(l).at = "resolved"
      /\ UNCHANGED <<loop, edits>>
  BY <1>1 DEF OpenOnce, SetLast
<1>3. /\ k \in DOMAIN writes[l] /\ Last(l) = writes[l][k] /\ Last(l) \in Write
      /\ Last(l).path \in Paths
  BY <1>1, <1>2, CallingLast
<1>4. /\ w \in Write /\ w.at = "open" /\ w.wrote = Last(l).wrote
      /\ w.path = Last(l).path
  BY <1>3 DEF Write, Progress
<1> HIDE DEF w
<1>5. /\ Grows /\ file[w.path] \in File
      /\ file'[w.path] = [there |-> TRUE, size |-> 0,
                          version |-> file[w.path].version + 1]
  BY <1>2, <1>3, <1>4, PutGrows DEF IInv, TypeOK
<1>6. writes'[l][k] = w /\ Len(writes'[l]) = Len(writes[l]) /\ writes'[l] # <<>>
  <2>1. writes'[l] \in Seq(Write) /\ k \in DOMAIN writes'[l]
        /\ writes'[l][k] = w /\ Len(writes'[l]) = Len(writes[l])
    BY <1>2, <1>3, <1>4, OneWrite DEF IInv
  <2> QED
    BY <2>1
<1>7. LoopSound(l)'
  BY <1>1, <1>2, <1>4, <1>6 DEF IInv, LoopSound, Last
<1>8. Placed(l, k)'
  BY <1>1, <1>2, <1>4, <1>6 DEF Placed, Looked, Emitted
<1>9. Sound(l, k)'
  <2>1. w.wrote <= file[w.path].version
    BY <1>3, <1>4 DEF IInv, Sound
  <2>2. w.wrote \in Nat /\ file[w.path].version \in Nat
    BY <1>4, <1>5 DEF Write, File
  <2>3. w.wrote < file'[w.path].version
    BY <1>5, <2>1, <2>2
  <2> QED
    BY <1>4, <1>5, <1>6, <2>2, <2>3 DEF Sound, Looked, Emitted
<1>10. ASSUME NEW j \in DOMAIN writes[l] \ {k}, writes'[l][j] = writes[l][j]
       PROVE  Placed(l, j)'
  BY <1>2, <1>6, <1>10 DEF IInv, Placed
<1>11. /\ edits' \in Nat /\ loop' \in [Loops -> [at : LoopStates, next : Nat \ {0}]]
       /\ \A n \in Loops \ {l} : loop'[n] = loop[n]
  BY <1>2 DEF IInv, TypeOK
<1> QED
  BY <1>2, <1>3, <1>4, <1>5, <1>7, <1>8, <1>9, <1>10, <1>11, WriteStep

\* The file is as long as the content, or longer, and no other version is.
LEMMA WriteThroughHandleStep ==
    ASSUME IInv, NEW l \in Loops, WriteThroughHandle(l)
    PROVE  IInv'
<1>1. PICK k : k = Len(writes[l])
  OBVIOUS
<1> DEFINE f == file[Last(l).path]
           w == [Last(l) EXCEPT !.at = "made", !.verdict = "pass",
                                !.wrote = f.version + 1]
           size == Larger(f.size, Last(l).size)
<1>2. /\ writes' = [writes EXCEPT ![l][k] = w]
      /\ loop' = [loop EXCEPT ![l].at = "working"]
      /\ loop[l].at = "calling" /\ Put(Last(l).path, size)
      /\ UNCHANGED edits
  BY <1>1 DEF WriteThroughHandle, SetLast, Goto
<1>3. /\ k \in DOMAIN writes[l] /\ Last(l) = writes[l][k] /\ Last(l) \in Write
      /\ Last(l).path \in Paths
  BY <1>1, <1>2, CallingLast
<1>4. f \in File /\ size \in Nat /\ Last(l).size <= size
  <2>1. f \in File
    BY <1>3 DEF IInv, TypeOK
  <2> QED
    BY <1>3, <2>1 DEF File, Write, Larger
<1>5. /\ w \in Write /\ w.at = "made" /\ w.verdict = "pass"
      /\ w.path = Last(l).path /\ w.size = Last(l).size /\ w.wrote = f.version + 1
  <2>1. f.version + 1 \in Nat
    BY <1>4 DEF File
  <2> QED
    BY <1>3, <2>1 DEF Write, Progress
<1> HIDE DEF w, size
<1>6. /\ Grows
      /\ file'[w.path] = [there |-> TRUE, size |-> size, version |-> f.version + 1]
  BY <1>2, <1>3, <1>4, <1>5, PutGrows DEF IInv
<1> HIDE DEF f
<1>7. /\ loop' \in [Loops -> [at : LoopStates, next : Nat \ {0}]]
      /\ \A n \in Loops \ {l} : loop'[n] = loop[n]
      /\ loop'[l].at = "working" /\ loop'[l].next = loop[l].next
  BY <1>2 DEF IInv, TypeOK, LoopStates
<1>8. writes'[l][k] = w /\ Len(writes'[l]) = Len(writes[l])
  BY <1>2, <1>3, <1>5, OneWrite DEF IInv
<1>9. LoopSound(l)'
  BY <1>2, <1>7 DEF IInv, LoopSound
<1>10. Placed(l, k)'
  <2>1. loop'[l].next = 1 /\ ~(k < 1)
    <3>1. k \in 1..Len(writes[l])
      BY <1>3, LenProperties DEF IInv, TypeOK
    <3>2. loop[l].next = 1
      BY <1>2 DEF IInv, LoopSound
    <3> QED
      BY <1>7, <3>1, <3>2
  <2> QED
    BY <1>5, <1>8, <2>1 DEF Placed, Looked, Emitted
<1>11. Sound(l, k)'
  <2>1. w.wrote = file'[w.path].version /\ w.wrote \in Nat
    BY <1>5, <1>6 DEF Write
  <2>2. file'[w.path].there /\ w.size <= file'[w.path].size
    BY <1>4, <1>5, <1>6
  <2> QED
    BY <1>5, <1>8, <2>1, <2>2 DEF Sound, Looked, Emitted
<1>12. ASSUME NEW j \in DOMAIN writes[l] \ {k}, writes'[l][j] = writes[l][j]
       PROVE  Placed(l, j)'
  BY <1>1, <1>2, <1>7, <1>8, <1>12 DEF IInv, Placed, Looked, Emitted
<1>13. edits' \in Nat
  BY <1>2 DEF IInv, TypeOK
<1> QED
  BY <1>2, <1>3, <1>5, <1>6, <1>7, <1>9, <1>10, <1>11, <1>12, <1>13, WriteStep

LEMMA EndLoopStep ==
    ASSUME IInv, NEW l \in Loops, EndLoop(l)
    PROVE  IInv'
<1>1. PICK at \in {"done", "halted"} :
          /\ loop' = [loop EXCEPT ![l].at = at] /\ loop[l].at = "working"
          /\ UNCHANGED <<file, writes, edits>>
  BY DEF EndLoop, Goto
<1>2. /\ loop' \in [Loops -> [at : LoopStates, next : Nat \ {0}]]
      /\ \A n \in Loops \ {l} : loop'[n] = loop[n]
      /\ loop'[l].at = at /\ loop'[l].next = loop[l].next
  BY <1>1 DEF IInv, TypeOK, LoopStates
<1>3. LoopSound(l)'
  BY <1>1, <1>2 DEF IInv, LoopSound
<1>4. ASSUME NEW k \in DOMAIN writes[l]
      PROVE  Placed(l, k)'
  BY <1>1, <1>2 DEF IInv, LoopSound, Placed
<1>5. Grows /\ edits' \in Nat
  BY <1>1, SameFilesGrow DEF IInv, TypeOK
<1> QED
  BY <1>1, <1>2, <1>3, <1>4, <1>5, OtherStep

----------------------------------------------------------------------------
(* recordWrites *)

\* The recorder goes on to the next write.
LEMMA MoveOnLoop ==
    ASSUME IInv, NEW l \in Loops, MoveOn(l), loop[l].at = "done"
    PROVE  /\ loop' \in [Loops -> [at : LoopStates, next : Nat \ {0}]]
           /\ \A n \in Loops \ {l} : loop'[n] = loop[n]
           /\ loop'[l].at = "done" /\ loop'[l].next = loop[l].next + 1
           /\ LoopSound(l)'
<1>1. loop' = [loop EXCEPT ![l].next = loop[l].next + 1]
  BY DEF MoveOn
<1>2. loop[l].next + 1 \in Nat \ {0}
  BY DEF IInv, TypeOK
<1>3. /\ loop' \in [Loops -> [at : LoopStates, next : Nat \ {0}]]
      /\ \A n \in Loops \ {l} : loop'[n] = loop[n]
      /\ loop'[l].at = "done" /\ loop'[l].next = loop[l].next + 1
  BY <1>1, <1>2 DEF IInv, TypeOK
<1> QED
  BY <1>3 DEF LoopSound

LEMMA SkipWriteStep ==
    ASSUME IInv, NEW l \in Loops, SkipWrite(l)
    PROVE  IInv'
<1>1. /\ Recording(l) /\ MoveOn(l) /\ loop[l].at = "done"
      /\ Current(l).at = "made" /\ Current(l).verdict # "pass"
      /\ UNCHANGED <<file, writes, edits>>
  BY DEF SkipWrite, Recording, Counts
<1>2. /\ loop' \in [Loops -> [at : LoopStates, next : Nat \ {0}]]
      /\ \A n \in Loops \ {l} : loop'[n] = loop[n]
      /\ loop'[l].at = "done" /\ loop'[l].next = loop[l].next + 1
      /\ LoopSound(l)'
  BY <1>1, MoveOnLoop
<1>3. /\ Current(l) = writes[l][loop[l].next] /\ loop[l].next \in DOMAIN writes[l]
      /\ DOMAIN writes[l] \subseteq Nat /\ Current(l) \in Write
  BY <1>1, RecordingCurrent
<1>4. Current(l).verdict = "fail"
  BY <1>1, <1>3 DEF IInv, Placed, Write
<1>5. ASSUME NEW k \in DOMAIN writes[l]
      PROVE  Placed(l, k)'
  <2>1. Placed(l, k) /\ k \in Nat /\ loop[l].next \in Nat
    BY <1>3 DEF IInv
  <2>2. CASE k = loop[l].next
    BY <1>1, <1>2, <1>3, <1>4, <2>1, <2>2 DEF Placed, Looked, Emitted
  <2>3. CASE k # loop[l].next
    BY <1>1, <1>2, <2>1, <2>3 DEF Placed
  <2> QED
    BY <2>2, <2>3
<1>6. Grows /\ edits' \in Nat
  BY <1>1, SameFilesGrow DEF IInv, TypeOK
<1> QED
  BY <1>1, <1>2, <1>5, <1>6, OtherStep

\* The writes next to the one the recorder has looked at, when it moves on.
LEMMA OthersPlaced ==
    ASSUME IInv, NEW l \in Loops, Recording(l), MoveOn(l),
           NEW j \in DOMAIN writes[l], j # loop[l].next,
           writes'[l][j] = writes[l][j], Len(writes'[l]) = Len(writes[l])
    PROVE  Placed(l, j)'
<1>1. /\ loop'[l].at = "done" /\ loop[l].at = "done"
      /\ loop'[l].next = loop[l].next + 1
  BY MoveOnLoop DEF Recording
<1>2. j \in Nat /\ loop[l].next \in Nat /\ Placed(l, j)
  BY RecordingCurrent DEF IInv
<1> QED
  BY <1>1, <1>2 DEF Placed

\* The stat: what it finds is the content of that version.
LEMMA StatWriteStep ==
    ASSUME IInv, NEW l \in Loops, StatWrite(l)
    PROVE  IInv'
<1>1. PICK k : k = loop[l].next
  OBVIOUS
<1> DEFINE old == writes[l][k]
           f == file[old.path]
<1>2. /\ Recording(l) /\ loop[l].at = "done" /\ old.at = "made" /\ old.verdict = "pass"
      /\ k \in DOMAIN writes[l] /\ DOMAIN writes[l] \subseteq Nat
      /\ Current(l) = old /\ old \in Write /\ f \in File
      /\ UNCHANGED <<file, edits>>
  BY <1>1, RecordingCurrent DEF StatWrite, Recording, Counts, IInv, TypeOK
<1>3. Placed(l, k) /\ Sound(l, k) /\ Grows /\ edits' \in Nat
  BY <1>2, SameFilesGrow DEF IInv, TypeOK
<1>4. CASE f.there /\ f.size > 0
  <2> DEFINE w == [[old EXCEPT !.seen = f.version] EXCEPT !.at = "stat",
                                                          !.bytes = f.size]
  <2>1. writes' = [writes EXCEPT ![l][k] = w] /\ UNCHANGED loop
    BY <1>1, <1>2, <1>4 DEF StatWrite, SetCurrent, SizeOnDisk
  <2>2. /\ w \in Write /\ w.at = "stat" /\ w.verdict = "pass" /\ w.path = old.path
        /\ w.wrote = old.wrote /\ w.size = old.size
        /\ w.seen = f.version /\ w.bytes = f.size
    BY <1>2 DEF Write, Progress, File
  <2> HIDE DEF w
  <2>3. writes'[l][k] = w /\ Len(writes'[l]) = Len(writes[l])
    BY <1>2, <2>1, <2>2, OneWrite DEF IInv
  <2>4. LoopSound(l)'
    BY <1>2, <2>1 DEF LoopSound
  <2>5. Placed(l, k)'
    BY <1>1, <1>2, <2>1, <2>2, <2>3 DEF Placed, Looked, Emitted
  <2>6. Sound(l, k)'
    BY <1>2, <1>3, <1>4, <2>2, <2>3 DEF Sound, Looked, Emitted, File
  <2>7. ASSUME NEW j \in DOMAIN writes[l] \ {k}, writes'[l][j] = writes[l][j]
        PROVE  Placed(l, j)'
    BY <2>1, <2>3, <2>7 DEF IInv, Placed
  <2>8. /\ loop' \in [Loops -> [at : LoopStates, next : Nat \ {0}]]
        /\ \A n \in Loops \ {l} : loop'[n] = loop[n]
    BY <2>1 DEF IInv, TypeOK
  <2> QED
    BY <1>2, <1>3, <2>1, <2>2, <2>4, <2>5, <2>6, <2>7, <2>8, WriteStep
<1>5. CASE ~(f.there /\ f.size > 0)
  <2> DEFINE w == [[old EXCEPT !.seen = f.version] EXCEPT !.at = "dead"]
  <2>1. writes' = [writes EXCEPT ![l][k] = w] /\ MoveOn(l)
    BY <1>1, <1>2, <1>5 DEF StatWrite, SetCurrent
  <2>2. /\ w \in Write /\ w.at = "dead" /\ w.verdict = "pass" /\ w.path = old.path
        /\ w.wrote = old.wrote /\ w.size = old.size /\ w.seen = f.version
    BY <1>2 DEF Write, Progress, File
  <2> HIDE DEF w
  <2>3. writes'[l][k] = w /\ Len(writes'[l]) = Len(writes[l])
    BY <1>2, <2>1, <2>2, OneWrite DEF IInv
  <2>4. /\ loop' \in [Loops -> [at : LoopStates, next : Nat \ {0}]]
        /\ \A n \in Loops \ {l} : loop'[n] = loop[n]
        /\ loop'[l].at = "done" /\ LoopSound(l)'
    BY <1>2, <2>1, MoveOnLoop
  <2>5. Placed(l, k)'
    BY <2>2, <2>3, <2>4 DEF Placed, Looked, Emitted
  <2>6. Sound(l, k)'
    <3>1. w.wrote <= f.version /\ (w.wrote = f.version => f.there /\ w.size <= f.size)
      BY <1>2, <1>3, <2>2 DEF Sound
    <3>2. w.seen = w.wrote => w.size = 0
      BY <1>2, <1>5, <2>2, <3>1 DEF File, Write
    <3> QED
      BY <1>2, <2>2, <2>3, <3>1, <3>2 DEF Sound, Looked, Emitted, File
  <2>7. ASSUME NEW j \in DOMAIN writes[l] \ {k}, writes'[l][j] = writes[l][j]
        PROVE  Placed(l, j)'
    BY <1>1, <1>2, <2>1, <2>3, <2>7, OthersPlaced
  <2> QED
    BY <1>2, <1>3, <2>1, <2>2, <2>4, <2>5, <2>6, <2>7, WriteStep
<1> QED
  BY <1>4, <1>5

LEMMA EmitArtifactStep ==
    ASSUME IInv, NEW l \in Loops, EmitArtifact(l)
    PROVE  IInv'
<1>1. PICK k : k = loop[l].next
  OBVIOUS
<1> DEFINE old == writes[l][k]
           f == file[old.path]
           w == IF f.there THEN [old EXCEPT !.at = "append"]
                ELSE [old EXCEPT !.at = "dead", !.seen = f.version]
<1>2. /\ Recording(l) /\ MoveOn(l) /\ loop[l].at = "done" /\ old.at = "stat"
      /\ k \in DOMAIN writes[l] /\ Current(l) = old /\ old \in Write /\ f \in File
      /\ UNCHANGED <<file, edits>>
  BY <1>1, RecordingCurrent DEF EmitArtifact, Recording, IInv, TypeOK
<1>3. Placed(l, k) /\ Sound(l, k) /\ Grows /\ edits' \in Nat
  BY <1>2, SameFilesGrow DEF IInv, TypeOK
<1>4. old.verdict = "pass"
  BY <1>2, <1>3 DEF Placed, Looked
<1>5. writes' = [writes EXCEPT ![l][k] = w]
  BY <1>1, <1>2 DEF EmitArtifact, SetCurrent
<1>6. /\ w \in Write /\ w.verdict = "pass" /\ w.path = old.path
      /\ w.wrote = old.wrote /\ w.size = old.size /\ w.bytes = old.bytes
      /\ \/ f.there /\ w.at = "append" /\ w.seen = old.seen
         \/ ~f.there /\ w.at = "dead" /\ w.seen = f.version
  BY <1>2, <1>4 DEF Write, Progress, File
<1> HIDE DEF w
<1>7. writes'[l][k] = w /\ Len(writes'[l]) = Len(writes[l])
  BY <1>2, <1>5, <1>6, OneWrite DEF IInv
<1>8. /\ loop' \in [Loops -> [at : LoopStates, next : Nat \ {0}]]
      /\ \A n \in Loops \ {l} : loop'[n] = loop[n]
      /\ loop'[l].at = "done" /\ LoopSound(l)'
  BY <1>2, MoveOnLoop
<1>9. Placed(l, k)'
  BY <1>6, <1>7, <1>8 DEF Placed, Looked, Emitted
<1>10. Sound(l, k)'
  BY <1>2, <1>3, <1>4, <1>6, <1>7 DEF Sound, Looked, Emitted, File
<1>11. ASSUME NEW j \in DOMAIN writes[l] \ {k}, writes'[l][j] = writes[l][j]
       PROVE  Placed(l, j)'
  BY <1>1, <1>2, <1>7, <1>11, OthersPlaced
<1> QED
  BY <1>2, <1>3, <1>5, <1>6, <1>8, <1>9, <1>10, <1>11, WriteStep

LEMMA AllRecordedStep ==
    ASSUME IInv, NEW l \in Loops, AllRecorded(l)
    PROVE  IInv'
<1>1. /\ loop' = [loop EXCEPT ![l].at = "recorded"] /\ loop[l].at = "done"
      /\ loop[l].next > Len(writes[l]) /\ UNCHANGED <<file, writes, edits>>
  BY DEF AllRecorded, Goto
<1>2. /\ loop' \in [Loops -> [at : LoopStates, next : Nat \ {0}]]
      /\ \A n \in Loops \ {l} : loop'[n] = loop[n]
      /\ loop'[l].at = "recorded" /\ loop'[l].next = loop[l].next
  BY <1>1 DEF IInv, TypeOK, LoopStates
<1>3. LoopSound(l)'
  BY <1>1, <1>2 DEF LoopSound
<1>4. ASSUME NEW k \in DOMAIN writes[l]
      PROVE  Placed(l, k)'
  BY <1>1, <1>2 DEF IInv, Placed
<1>5. Grows /\ edits' \in Nat
  BY <1>1, SameFilesGrow DEF IInv, TypeOK
<1> QED
  BY <1>1, <1>2, <1>3, <1>4, <1>5, OtherStep

----------------------------------------------------------------------------
(* The sink *)

\* A step of the sink on one record: neither files nor loops move.
LEMMA AdvanceStep ==
    ASSUME IInv, NEW l \in Loops, NEW k \in DOMAIN writes[l], NEW w \in Write,
           Advance(l, k, w), writes[l][k].at \in Emitted, w.at \in Emitted,
           w.verdict = writes[l][k].verdict, Sound(l, k)'
    PROVE  IInv'
<1>1. writes' = [writes EXCEPT ![l][k] = w] /\ UNCHANGED <<file, loop, edits>>
  BY DEF Advance
<1>2. writes'[l][k] = w /\ Len(writes'[l]) = Len(writes[l])
  BY <1>1, OneWrite DEF IInv
<1>3. Placed(l, k) /\ loop[l].at \in {"done", "recorded"} /\ w.verdict = "pass"
  BY DEF IInv, Placed, Looked
<1>4. LoopSound(l)'
  BY <1>1, <1>2, <1>3 DEF IInv, LoopSound
<1>5. Placed(l, k)'
  BY <1>1, <1>2, <1>3 DEF Placed, Looked, Emitted
<1>6. ASSUME NEW j \in DOMAIN writes[l] \ {k}, writes'[l][j] = writes[l][j]
      PROVE  Placed(l, j)'
  BY <1>1, <1>2, <1>6 DEF IInv, Placed
<1>7. Grows /\ edits' \in Nat
  BY <1>1, SameFilesGrow DEF IInv, TypeOK
<1>8. /\ loop' \in [Loops -> [at : LoopStates, next : Nat \ {0}]]
      /\ \A n \in Loops \ {l} : loop'[n] = loop[n]
  BY <1>1 DEF IInv, TypeOK
<1> QED
  BY <1>1, <1>4, <1>5, <1>6, <1>7, <1>8, WriteStep

\* A record and its file.
LEMMA RecordTyped ==
    ASSUME IInv, NEW l \in Loops, NEW k \in DOMAIN writes[l]
    PROVE  /\ writes[l][k] \in Write /\ file[writes[l][k].path] \in File
           /\ Sound(l, k)
<1>1. writes[l][k] \in Write
  BY ElementOfSeq, LenProperties DEF IInv, TypeOK
<1> QED
  BY <1>1 DEF IInv, TypeOK, Write

LEMMA AppendArtifactStep ==
    ASSUME IInv, NEW l \in Loops, NEW k \in DOMAIN writes[l], AppendArtifact(l, k)
    PROVE  IInv'
<1> DEFINE old == writes[l][k]
<1>1. old \in Write /\ Sound(l, k) /\ old.at = "append"
  BY RecordTyped DEF AppendArtifact
<1>2. PICK at \in {"read", "failed"} :
          /\ Advance(l, k, [old EXCEPT !.at = at])
          /\ at = "read" => old.bytes <= MaxBytes
  BY DEF AppendArtifact
<1> DEFINE w == [old EXCEPT !.at = at]
<1>3. /\ w \in Write /\ w.at = at /\ w.verdict = old.verdict /\ w.path = old.path
      /\ w.size = old.size /\ w.wrote = old.wrote /\ w.seen = old.seen
      /\ w.bytes = old.bytes
  BY <1>1 DEF Write, Progress
<1>4. Advance(l, k, w)
  BY <1>2
<1> HIDE DEF w
<1>5. writes'[l][k] = w /\ UNCHANGED file
  BY <1>3, <1>4, OneWrite DEF IInv, Advance
<1>6. Sound(l, k)'
  BY <1>1, <1>2, <1>3, <1>5 DEF Sound, Looked, Emitted
<1> QED
  BY <1>1, <1>3, <1>4, <1>6, AdvanceStep DEF Emitted

\* The uploader's read: if nothing has changed since the stat, it is as long.
LEMMA ReadBytesStep ==
    ASSUME IInv, NEW l \in Loops, NEW k \in DOMAIN writes[l], ReadBytes(l, k)
    PROVE  IInv'
<1> DEFINE old == writes[l][k]
           f == file[old.path]
           w == IF f.there
                THEN [old EXCEPT !.at = "upload", !.read = f.version, !.body = f.size]
                ELSE [old EXCEPT !.at = "failed"]
<1>1. old \in Write /\ f \in File /\ Sound(l, k) /\ old.at = "read"
  BY RecordTyped DEF ReadBytes
<1>2. Advance(l, k, w)
  BY DEF ReadBytes
<1>3. /\ w \in Write /\ w.verdict = old.verdict /\ w.path = old.path
      /\ w.size = old.size /\ w.wrote = old.wrote /\ w.seen = old.seen
      /\ w.bytes = old.bytes
      /\ \/ w.at = "upload" /\ w.read = f.version /\ w.body = f.size
         \/ w.at = "failed"
  BY <1>1 DEF Write, Progress, File
<1> HIDE DEF w
<1>4. writes'[l][k] = w /\ UNCHANGED file
  BY <1>2, <1>3, OneWrite DEF IInv, Advance
<1>5. Sound(l, k)'
  BY <1>1, <1>3, <1>4 DEF Sound, Looked, Emitted, File
<1> QED
  BY <1>1, <1>2, <1>3, <1>5, AdvanceStep DEF Emitted

LEMMA UploadObjectStep ==
    ASSUME IInv, NEW l \in Loops, NEW k \in DOMAIN writes[l], UploadObject(l, k)
    PROVE  IInv'
<1> DEFINE old == writes[l][k]
<1>1. old \in Write /\ Sound(l, k) /\ old.at = "upload"
  BY RecordTyped DEF UploadObject
<1>2. PICK at \in {"stored", "failed"} : Advance(l, k, [old EXCEPT !.at = at])
  BY DEF UploadObject
<1> DEFINE w == [old EXCEPT !.at = at]
<1>3. /\ w \in Write /\ w.at = at /\ w.verdict = old.verdict /\ w.path = old.path
      /\ w.size = old.size /\ w.wrote = old.wrote /\ w.seen = old.seen
      /\ w.read = old.read /\ w.bytes = old.bytes /\ w.body = old.body
  BY <1>1 DEF Write, Progress
<1>4. Advance(l, k, w)
  BY <1>2
<1> HIDE DEF w
<1>5. writes'[l][k] = w /\ UNCHANGED file
  BY <1>3, <1>4, OneWrite DEF IInv, Advance
<1>6. Sound(l, k)'
  BY <1>1, <1>3, <1>5 DEF Sound, Looked, Emitted
<1> QED
  BY <1>1, <1>3, <1>4, <1>6, AdvanceStep DEF Emitted

----------------------------------------------------------------------------
(* The theorems *)

LEMMA EditFileStep ==
    ASSUME IInv, NEW p \in Paths, EditFile(p)
    PROVE  IInv'
<1>1. UNCHANGED <<loop, writes>> /\ edits' \in Nat
  BY DEF EditFile, IInv, TypeOK
<1>2. Grows
  <2>1. CASE \E size \in Sizes : Put(p, size)
    BY <2>1, PutGrows, RunFilesAssumption DEF IInv
  <2>2. CASE file' = [file EXCEPT ![p] = [there |-> FALSE, size |-> 0,
                                          version |-> @.version + 1]]
    <3> DEFINE f == [there |-> FALSE, size |-> 0, version |-> file[p].version + 1]
    <3>1. file[p] \in File /\ f \in File /\ file[p].version < f.version
      BY DEF IInv, TypeOK, File
    <3>2. file' = [file EXCEPT ![p] = f]
      BY <2>2
    <3> HIDE DEF f
    <3> QED
      BY <3>1, <3>2 DEF IInv, TypeOK, Grows
  <2> QED
    BY <2>1, <2>2 DEF EditFile
<1>3. TypeOK'
  BY <1>1, <1>2 DEF IInv, TypeOK, Grows
<1>4. ASSUME NEW l \in Loops, NEW k \in DOMAIN writes'[l]
      PROVE  Sound(l, k)'
  BY <1>1, <1>2, SoundStays DEF IInv
<1>5. ASSUME NEW l \in Loops
      PROVE  LoopSound(l)' /\ \A k \in DOMAIN writes'[l] : Placed(l, k)'
  BY <1>1 DEF IInv, LoopSound, Placed, Last
<1> QED
  BY <1>3, <1>4, <1>5 DEF IInv

LEMMA Initially == Init => IInv
<1> SUFFICES ASSUME Init PROVE IInv
  OBVIOUS
<1>1. \A l \in Loops : writes[l] = <<>> /\ DOMAIN writes[l] = {}
  BY DEF Init
<1>2. writes \in [Loops -> Seq(Write)]
  BY EmptySeq DEF Init
<1>3. TypeOK
  BY <1>2 DEF Init, TypeOK, File, LoopStates
<1>4. \A l \in Loops : LoopSound(l)
  BY DEF Init, LoopSound
<1> QED
  BY <1>1, <1>3, <1>4 DEF IInv

LEMMA Inductive == IInv /\ [Next]_vars => IInv'
<1> SUFFICES ASSUME IInv, [Next]_vars PROVE IInv'
  OBVIOUS
<1>1. CASE UNCHANGED vars
  BY <1>1 DEF vars, IInv, TypeOK, LoopSound, Placed, Sound, Last
<1>2. ASSUME NEW l \in Loops, NEW p \in Paths, NEW size \in Sizes,
             CallWriteFile(l, p, size)
      PROVE  IInv'
  BY <1>2, CallWriteFileStep
<1>3. ASSUME NEW l \in Loops,
             RefuseBeforeOpen(l) \/ FailAfterOpen(l) \/ MkdirThrows(l)
                \/ OpenOnce(l) \/ WriteThroughHandle(l) \/ EndLoop(l)
      PROVE  IInv'
  BY <1>3, FailCallStep, MkdirThrowsStep, OpenOnceStep, WriteThroughHandleStep,
     EndLoopStep DEF RefuseBeforeOpen, FailAfterOpen
<1>4. ASSUME NEW l \in Loops,
             SkipWrite(l) \/ StatWrite(l) \/ EmitArtifact(l) \/ AllRecorded(l)
      PROVE  IInv'
  BY <1>4, SkipWriteStep, StatWriteStep, EmitArtifactStep, AllRecordedStep
<1>5. ASSUME NEW l \in Loops, NEW k \in DOMAIN writes[l],
             AppendArtifact(l, k) \/ ReadBytes(l, k) \/ UploadObject(l, k)
      PROVE  IInv'
  BY <1>5, AppendArtifactStep, ReadBytesStep, UploadObjectStep
<1>6. ASSUME NEW p \in Paths, EditFile(p)
      PROVE  IInv'
  BY <1>6, EditFileStep
<1> QED
  BY <1>1, <1>2, <1>3, <1>4, <1>5, <1>6 DEF Next

LEMMA Invariant == Spec => []IInv
BY Initially, Inductive, PTL DEF Spec

\* Files, loops and writes keep their types.
THEOREM RunFilesTypeCorrect == Spec => []TypeOK
<1>1. IInv => TypeOK
  BY DEF IInv
<1> QED
  BY <1>1, Invariant, PTL

\* artifacts/record.ts and artifacts/upload.ts: the row and the object agree
\* unless the file has changed between the two.
THEOREM ObjectsAgreeWithRows == Spec => []StoredAsRecorded
<1>1. IInv => StoredAsRecorded
  <2> SUFFICES ASSUME IInv, NEW l \in Loops, NEW k \in DOMAIN writes[l],
                      writes[l][k].at = "stored"
               PROVE  /\ writes[l][k].bytes \in 1..MaxBytes
                      /\ writes[l][k].read = writes[l][k].seen =>
                            writes[l][k].body = writes[l][k].bytes
                      /\ writes[l][k].wrote <= writes[l][k].seen
                      /\ writes[l][k].seen <= writes[l][k].read
    BY DEF StoredAsRecorded
  <2>1. writes[l][k] \in Write /\ Sound(l, k)
    BY RecordTyped
  <2>2. writes[l][k].bytes \in 1..MaxBytes
    BY <2>1, RunFilesAssumption DEF Sound, Write, Emitted
  <2> QED
    BY <2>1, <2>2 DEF Sound, Looked, Emitted
<1> QED
  BY <1>1, Invariant, PTL

\* recordWrites in index.ts: exactly the successful writes of a loop that is
\* done are recorded, but for empty and overwritten files.
THEOREM RecordsMatchWrites == Spec => []RecordsAreTheWrites
<1>1. IInv => RecordsAreTheWrites
  <2> SUFFICES ASSUME IInv, NEW l \in Loops, NEW k \in DOMAIN writes[l]
               PROVE  /\ writes[l][k].at \in Emitted =>
                            /\ writes[l][k].verdict = "pass"
                            /\ loop[l].at \in {"done", "recorded"}
                      /\ /\ loop[l].at = "recorded"
                         /\ writes[l][k].verdict = "pass"
                         /\ writes[l][k].seen = writes[l][k].wrote
                         /\ writes[l][k].size > 0
                         => writes[l][k].at \in Emitted
    BY DEF RecordsAreTheWrites
  <2>1. writes[l][k] \in Write /\ Sound(l, k) /\ Placed(l, k) /\ LoopSound(l)
    BY RecordTyped DEF IInv
  <2>2. loop[l].at = "recorded" => k < loop[l].next
    BY <2>1, LenProperties DEF IInv, TypeOK, LoopSound
  <2>3. ASSUME loop[l].at = "recorded", writes[l][k].verdict = "pass",
               writes[l][k].seen = writes[l][k].wrote, writes[l][k].size > 0
        PROVE  writes[l][k].at \in Emitted
    <3>1. writes[l][k].at \in Progress
      BY <2>1 DEF Write
    <3>2. writes[l][k].at \notin {"resolved", "open", "made"}
      BY <2>1, <2>2, <2>3 DEF Placed
    <3>3. writes[l][k].at # "stat"
      <4>1. loop[l].next \in Nat /\ k \in Nat
        BY LenProperties DEF IInv, TypeOK
      <4> QED
        BY <2>1, <2>2, <2>3, <4>1 DEF Placed
    <3>4. writes[l][k].at # "dead"
      BY <2>1, <2>3 DEF Sound, Write
    <3> QED
      BY <3>1, <3>2, <3>3, <3>4 DEF Progress, Emitted
  <2> QED
    BY <2>1, <2>3 DEF Placed, Looked
<1> QED
  BY <1>1, Invariant, PTL

=============================================================================
