----------------------------- MODULE TicketPage -----------------------------
(***************************************************************************)
(* The ticket page (app/src/app/w/[slug]/tickets/[ticketId]/page.tsx) next *)
(* to the server actions it is the front of.  A render is four selects one *)
(* after the other, the tickets row first; the actions write between any   *)
(* two of them.  What the browser shows is the last render that reached    *)
(* its end, so nothing is said of a render still reading.                  *)
(***************************************************************************)
EXTENDS TicketLifecycle

VARIABLE page   \* the rows the render has read, and how far it has come

pageVars == <<vars, page>>

Reads == {"ticket", "trace", "packets", "artifacts", "shown"}

\* What a render is computed from: a page's rows, or the database itself.
Now == [row |-> ticket, trace |-> trace, packets |-> packets,
        artifacts |-> artifacts]

\* A render that has read nothing yet.
Blank == [at |-> "ticket",
          row |-> [status |-> "open", failureType |-> "none", sig |-> FALSE],
          trace |-> {}, packets |-> <<>>, artifacts |-> 0]

----------------------------------------------------------------------------
(* What a render derives from its rows.                                    *)

Has(p, type) == \E e \in p.trace : e.type = type
PacketsOf(p, kind) == {i \in DOMAIN p.packets : p.packets[i].kind = kind}

\* The loop simulator's failure packet carries the loop signature.
LoopPackets(p) ==
    {i \in PacketsOf(p, "failure") : p.packets[i].note = "timeout"}
NonLoopPackets(p) == PacketsOf(p, "failure") \ LoopPackets(p)

Unanswered(p) ==
    {q \in PacketsOf(p, "question") :
        \A r \in PacketsOf(p, "response") : p.packets[r].ref # q}

\* computeProgress, by step; the brief is there from the start.
StepOrder == <<"orchestrator", "coordinator", "specialist", "qa", "truth">>

Completion(p) ==
    [orchestrator |-> Has(p, "orchestrator.classified"),
     coordinator  |-> Has(p, "coordinator.routed"),
     specialist   |-> Has(p, "specialist.artifact.created") /\ p.artifacts > 0,
     qa           |-> Has(p, "qa.validated"),
     truth        |-> Has(p, "truth.verdict.recorded")]

ChainComplete(p) == /\ Has(p, "truth.verdict.recorded")
                    /\ Has(p, "qa.validated")
                    /\ Has(p, "specialist.artifact.created")

\* Mutation: it polls "while ticket is in progress".
ShouldPollActive_Mut(p) == p.row.status \in {"open", "in_progress"}

ShouldPoll(p) == ~ChainComplete(p)

Active(p) == p.row.status \in {"open", "in_progress"}

CanRunStub(p) == p.row.status = "open"

CanRunSpecialistPass(p) ==
    /\ p.row.status = "in_progress"
    /\ Has(p, "orchestrator.classified")
    /\ p.artifacts = 0

CanRunQaTruth(p) ==
    /\ p.row.status \in {"in_progress", "done"}
    /\ Has(p, "specialist.artifact.created")
    /\ p.artifacts > 0
    /\ ~(Has(p, "qa.validated") /\ Has(p, "truth.verdict.recorded"))

\* Mutation: an earlier failure is not looked for.
CanInjectFailureAgain_Mut(p) == Active(p)

CanInjectFailure(p) == Active(p) /\ PacketsOf(p, "failure") = {}

CanInjectLoop(p) == CanInjectFailure(p) /\ ~p.row.sig

CanRequestNeedsInput(p) == Active(p) /\ Unanswered(p) = {}

\* The form of NeedsInputPanel.
CanRespond(p) == p.row.status = "needs_input" /\ Unanswered(p) # {}

CanReopenFailed(p) == p.row.status = "failed" /\ PacketsOf(p, "failure") # {}

CanHoldLooped(p) == p.row.status = "looped" /\ p.row.sig

Offered(p) ==
    {op \in Operations :
        \/ op = "classify" /\ CanRunStub(p)
        \/ op = "specialist" /\ CanRunSpecialistPass(p)
        \/ op = "qa" /\ CanRunQaTruth(p)
        \/ op = "injectFailure" /\ CanInjectFailure(p)
        \/ op = "injectLoop" /\ CanInjectLoop(p)
        \/ op = "requestInput" /\ CanRequestNeedsInput(p)
        \/ op = "submitResponse" /\ CanRespond(p)
        \/ op = "reopen" /\ CanReopenFailed(p)
        \/ op = "hold" /\ CanHoldLooped(p)}

\* The evidence panels on the page, NeedsInputPanel, LoopEvidencePanel and
\* FailureEvidencePanel, with the packets each one lists.
NeedsInputPanel(p) ==
    PacketsOf(p, "question") \union PacketsOf(p, "response")

LoopEvidencePanel(p) == LoopPackets(p)

FailureEvidencePanel(p) ==
    NonLoopPackets(p)
        \union {i \in PacketsOf(p, "truth") : p.packets[i].note = "fail"}

----------------------------------------------------------------------------
(* A render *)

PageInit == Init /\ page = Blank

\* From one select to the next.
ReadRows(at, p) ==
    /\ page.at = at
    /\ page' = p
    /\ UNCHANGED vars

ReadTicket ==
    ReadRows("ticket", [page EXCEPT !.at = "trace", !.row = ticket])
ReadTrace ==
    ReadRows("trace", [page EXCEPT !.at = "packets", !.trace = trace])
ReadPackets ==
    ReadRows("packets", [page EXCEPT !.at = "artifacts", !.packets = packets])
ReadArtifacts ==
    ReadRows("artifacts", [page EXCEPT !.at = "shown", !.artifacts = artifacts])

\* Mutation: the tickets row is read with the artifacts, at the end.
ReadTicketLast_Mut ==
    \/ ReadRows("ticket", [page EXCEPT !.at = "trace"])
    \/ ReadTrace
    \/ ReadPackets
    \/ ReadRows("artifacts", [page EXCEPT !.at = "shown", !.row = ticket,
                                          !.artifacts = artifacts])

\* Mutation: the artifacts are read before the trace.
ReadArtifactsFirst_Mut ==
    \/ ReadRows("ticket", [page EXCEPT !.at = "trace", !.row = ticket,
                                       !.artifacts = artifacts])
    \/ ReadTrace
    \/ ReadPackets
    \/ ReadRows("artifacts", [page EXCEPT !.at = "shown"])

Read == ReadTicket \/ ReadTrace \/ ReadPackets \/ ReadArtifacts

\* The interval of TicketAutoRefresh, in a tab that is visible.
Poll ==
    /\ page.at = "shown"
    /\ ShouldPoll(page)
    /\ page' = Blank
    /\ UNCHANGED vars

\* "Refresh status", a navigation, or the revalidatePath of an action.
Refresh ==
    /\ page.at = "shown"
    /\ page' = Blank
    /\ UNCHANGED vars

PageNext == \/ Next /\ UNCHANGED page
            \/ Read
            \/ Poll
            \/ Refresh

PageSpec == PageInit /\ [][PageNext]_pageVars

\* Handlers run to their end, a render too, and the interval of a visible tab
\* keeps firing; nobody has to press a button.
PageFairSpec ==
    /\ PageSpec
    /\ \A c \in Calls : WF_pageVars(call[c] # Idle /\ Step(c) /\ UNCHANGED page)
    /\ WF_pageVars(Read)
    /\ WF_pageVars(Poll)

=============================================================================
