------------------------- MODULE RunFilesProperties -------------------------
(* What an artifact of a run is worth, whoever else works in its folder. *)
EXTENDS RunFiles

\* Types of the files, the loops and their calls.
TypeOK ==
    /\ file \in [Paths -> File]
    /\ loop \in [Loops -> [at : LoopStates, next : Nat \ {0}]]
    /\ writes \in [Loops -> Seq(Write)]
    /\ edits \in Nat

\* An object in Storage is as long as its row says, not empty and within the
\* cap, unless the file was changed after the recorder looked at it: then the
\* row and the object are of two versions (record.ts:224, "the REAL on-disk
\* size").
StoredAsRecorded ==
    \A l \in Loops : \A k \in DOMAIN writes[l] :
        LET w == writes[l][k]
        IN  w.at = "stored" =>
                /\ w.bytes \in 1..MaxBytes
                /\ w.read = w.seen => w.body = w.bytes
                /\ w.wrote <= w.seen /\ w.seen <= w.read

\* What the sink was handed.
Emitted == {"append", "read", "upload", "stored", "failed"}

\* The artifacts of a run are the successful writes of its loops that ended
\* well, each as it lies on disk when the loop is over: nothing is recorded of
\* a call that failed or a loop that halted, and a write is missing only if it
\* was of nothing, or the file was changed by somebody else since.
RecordsAreTheWrites ==
    \A l \in Loops : \A k \in DOMAIN writes[l] :
        LET w == writes[l][k]
        IN  /\ w.at \in Emitted =>
                  w.verdict = "pass" /\ loop[l].at \in {"done", "recorded"}
            /\ /\ loop[l].at = "recorded"
               /\ w.verdict = "pass"
               /\ w.seen = w.wrote
               /\ w.size > 0
               => w.at \in Emitted

=============================================================================
