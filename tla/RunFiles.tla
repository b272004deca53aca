------------------------------ MODULE RunFiles ------------------------------
(***************************************************************************)
(* What the write_file calls of a run leave in the workspace, and what of  *)
(* it is recorded and stored as an artifact (runtime/src/tools/            *)
(* write-file.ts, artifacts/record.ts, artifacts/upload.ts, runArtifacts   *)
(* in index.ts).                                                           *)
(*                                                                         *)
(* A file is looked at four times: write_file opens it, which empties it,  *)
(* and writes; once the loop is done the recorder stats it and reads it;   *)
(* when the row has an id the uploader reads it again.  Nothing keeps the  *)
(* file still in between: the loops of one run alternate, two runs in one  *)
(* folder interleave, and the folder is the user's own.                    *)
(*                                                                         *)
(* Where a path leads (links, containment) is not modelled; a refusal on   *)
(* that ground is one of the outcomes of a step.                           *)
(***************************************************************************)
EXTENDS Integers, Sequences, FiniteSets

CONSTANTS
    Loops,      \* agent loops that work in one folder
    Paths,      \* resolved paths in it
    Sizes,      \* lengths of a content
    MaxBytes,   \* MAX_ARTIFACT_BYTES
    MaxWrites,  \* bound: write_file calls in one behaviour
    MaxEdits    \* bound: changes made by the user or another program

ASSUME RunFilesAssumption ==
    /\ Sizes \subseteq Nat
    /\ MaxBytes \in Nat
    /\ MaxWrites \in Nat
    /\ MaxEdits \in Nat

VARIABLES
    file,   \* the file at each path; version counts its changes
    loop,   \* state of each loop, and how many writes it has recorded
    writes, \* the write_file calls of each loop, in order
    edits   \* edits made, up to MaxEdits

vars == <<file, loop, writes, edits>>

File == [there : BOOLEAN, size : Nat, version : Nat]

\* A call, what its tool.executed event says, and what became of the artifact:
\* wrote, seen and read are the versions left by the call, found by the
\* recorder and read by the uploader, bytes the artifacts row, body the object.
Progress == {"resolved", "open", "made", "stat", "append", "read", "upload",
             "stored", "dead", "failed"}
Write == [path : Paths, size : Nat, verdict : {"none", "pass", "fail"},
          at : Progress, wrote : Nat, seen : Nat, read : Nat,
          bytes : Nat, body : Nat]

LoopStates == {"working", "calling", "done", "recorded", "halted", "threw"}

Init ==
    /\ file = [p \in Paths |-> [there |-> FALSE, size |-> 0, version |-> 0]]
    /\ loop = [l \in Loops |-> [at |-> "working", next |-> 1]]
    /\ writes = [l \in Loops |-> <<>>]
    /\ edits = 0

Larger(m, n) == IF m > n THEN m ELSE n

CallsMade == UNION {{l} \X DOMAIN writes[l] : l \in Loops}

\* The call a loop is making, or made last.
Last(l) == writes[l][Len(writes[l])]
SetLast(l, w) == writes' = [writes EXCEPT ![l][Len(writes[l])] = w]
Goto(l, at) == loop' = [loop EXCEPT ![l].at = at]

Put(p, size) ==
    file' = [file EXCEPT ![p] = [there |-> TRUE, size |-> size,
                                 version |-> @.version + 1]]

----------------------------------------------------------------------------
(* write_file *)

\* The call is permitted and execute is entered.
CallWriteFile(l, p, size) ==
    /\ loop[l].at = "working"
    /\ Cardinality(CallsMade) < MaxWrites
    /\ writes' = [writes EXCEPT ![l] = Append(@,
          [path |-> p, size |-> size, verdict |-> "none", at |-> "resolved",
           wrote |-> 0, seen |-> 0, read |-> 0, bytes |-> 0, body |-> 0])]
    /\ Goto(l, "calling")
    /\ UNCHANGED <<file, edits>>

\* Back in the loop with an execution_error: buildTraceEvent's verdict is fail.
FailCall(l, at) ==
    /\ loop[l].at = "calling"
    /\ Last(l).at = at
    /\ SetLast(l, [Last(l) EXCEPT !.at = "made", !.verdict = "fail"])
    /\ Goto(l, "working")
    /\ UNCHANGED <<file, edits>>

\* The path, its parent or the open is refused: the file is as it was.
RefuseBeforeOpen(l) == FailCall(l, "resolved")

\* The re-check of the opened file or the write fails: the open has emptied it.
FailAfterOpen(l) == FailCall(l, "open")

\* mkdir is outside the try: its error ends the loop, and the run.
MkdirThrows(l) ==
    /\ loop[l].at = "calling"
    /\ Last(l).at = "resolved"
    /\ Goto(l, "threw")
    /\ UNCHANGED <<file, writes, edits>>

\* O_CREAT | O_TRUNC.
OpenOnce(l) ==
    /\ loop[l].at = "calling"
    /\ Last(l).at = "resolved"
    /\ Put(Last(l).path, 0)
    /\ SetLast(l, [Last(l) EXCEPT !.at = "open"])
    /\ UNCHANGED <<loop, edits>>

\* Through the held handle, from its start: a longer content that another
\* handle has written meanwhile keeps its tail.
WriteThroughHandle(l) ==
    LET p == Last(l).path
    IN  /\ loop[l].at = "calling"
        /\ Last(l).at = "open"
        /\ Put(p, Larger(file[p].size, Last(l).size))
        /\ SetLast(l, [Last(l) EXCEPT !.at = "made", !.verdict = "pass",
                                      !.wrote = file[p].version + 1])
        /\ Goto(l, "working")
        /\ UNCHANGED edits

\* The loop ends, well or at one of its limits.
EndLoop(l) ==
    /\ loop[l].at = "working"
    /\ Goto(l, "done") \/ Goto(l, "halted")
    /\ UNCHANGED <<file, writes, edits>>

----------------------------------------------------------------------------
(* recordWrites: the calls of a loop that is done, one after the other *)

Current(l) == writes[l][loop[l].next]
SetCurrent(l, w) == writes' = [writes EXCEPT ![l][loop[l].next] = w]
MoveOn(l) == loop' = [loop EXCEPT ![l].next = @ + 1]

Recording(l) == loop[l].at = "done" /\ loop[l].next <= Len(writes[l])

\* Mutation: an event counts whatever its verdict.
Counts_Mut(w) == w.at = "made"

\* A tool.executed event with verdict pass.
Counts(w) == w.at = "made" /\ w.verdict = "pass"

SkipWrite(l) ==
    /\ Recording(l)
    /\ Current(l).at = "made"
    /\ ~Counts(Current(l))
    /\ MoveOn(l)
    /\ UNCHANGED <<file, writes, edits>>

\* Mutation: the row takes the length the tool reported.
SizeOnDisk_Mut(w) == w.size

SizeOnDisk(w) == file[w.path].size

\* checkLiveness: there and not empty, or it is dropped without a word.
StatWrite(l) ==
    /\ Recording(l)
    /\ Counts(Current(l))
    /\ LET f == file[Current(l).path]
           found == [Current(l) EXCEPT !.seen = f.version]
       IN  IF f.there /\ f.size > 0
           THEN /\ SetCurrent(l, [found EXCEPT !.at = "stat",
                                               !.bytes = SizeOnDisk(found)])
                /\ UNCHANGED loop
           ELSE /\ SetCurrent(l, [found EXCEPT !.at = "dead"])
                /\ MoveOn(l)
    /\ UNCHANGED <<file, edits>>

\* The content is read for a predicate that is always true, then the record is
\* handed to the sink; a file that is gone by now is not live.
EmitArtifact(l) ==
    /\ Recording(l)
    /\ Current(l).at = "stat"
    /\ LET f == file[Current(l).path]
       IN  IF f.there
           THEN SetCurrent(l, [Current(l) EXCEPT !.at = "append"])
           ELSE SetCurrent(l, [Current(l) EXCEPT !.at = "dead",
                                                 !.seen = f.version])
    /\ MoveOn(l)
    /\ UNCHANGED <<file, edits>>

AllRecorded(l) ==
    /\ loop[l].at = "done"
    /\ loop[l].next > Len(writes[l])
    /\ Goto(l, "recorded")
    /\ UNCHANGED <<file, writes, edits>>

----------------------------------------------------------------------------
(* The sink: append_artifact, then the upload step, each record on its own *)

Advance(l, k, w) ==
    /\ writes' = [writes EXCEPT ![l][k] = w]
    /\ UNCHANGED <<file, loop, edits>>

\* The row is inserted, or the call fails; over the cap nothing is uploaded.
AppendArtifact(l, k) ==
    /\ writes[l][k].at = "append"
    /\ \/ /\ writes[l][k].bytes <= MaxBytes
          /\ Advance(l, k, [writes[l][k] EXCEPT !.at = "read"])
       \/ Advance(l, k, [writes[l][k] EXCEPT !.at = "failed"])

\* The uploader's own read, whatever the file is by now.
ReadBytes(l, k) ==
    /\ writes[l][k].at = "read"
    /\ LET f == file[writes[l][k].path]
       IN  IF f.there
           THEN Advance(l, k, [writes[l][k] EXCEPT !.at = "upload",
                                  !.read = f.version, !.body = f.size])
           ELSE Advance(l, k, [writes[l][k] EXCEPT !.at = "failed"])

\* Storage takes the object and the row its storage_path, or one of the two
\* calls fails.
UploadObject(l, k) ==
    /\ writes[l][k].at = "upload"
    /\ \E at \in {"stored", "failed"} :
          Advance(l, k, [writes[l][k] EXCEPT !.at = at])

----------------------------------------------------------------------------

\* The user, or another program, saves over or deletes a file of the folder
\* that no call holds open.
EditFile(p) ==
    /\ edits < MaxEdits
    /\ \A l \in Loops : loop[l].at = "calling" => Last(l).path # p
    /\ \/ \E size \in Sizes : Put(p, size)
       \/ file' = [file EXCEPT ![p] = [there |-> FALSE, size |-> 0,
                                       version |-> @.version + 1]]
    /\ edits' = edits + 1
    /\ UNCHANGED <<loop, writes>>

Next ==
    \/ \E l \in Loops :
          \/ \E p \in Paths, size \in Sizes : CallWriteFile(l, p, size)
          \/ RefuseBeforeOpen(l)
          \/ FailAfterOpen(l)
          \/ MkdirThrows(l)
          \/ OpenOnce(l)
          \/ WriteThroughHandle(l)
          \/ EndLoop(l)
          \/ SkipWrite(l)
          \/ StatWrite(l)
          \/ EmitArtifact(l)
          \/ AllRecorded(l)
          \/ \E k \in DOMAIN writes[l] :
                \/ AppendArtifact(l, k)
                \/ ReadBytes(l, k)
                \/ UploadObject(l, k)
    \/ \E p \in Paths : EditFile(p)

Spec == Init /\ [][Next]_vars

=============================================================================
