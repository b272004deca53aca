------------------------ MODULE TicketPageProperties ------------------------
(***************************************************************************)
(* What the ticket page promises its reader, with the actions at work.     *)
(***************************************************************************)
EXTENDS TicketPage, TicketProperties

\* Whatever was written between its four selects, a render that shows a status
\* shows the evidence for it: the page reads the tickets row before the rows
\* the actions write before they touch that row.
StatusExplained ==
    page.at = "shown" =>
        CASE page.row.status = "open"        -> TRUE
          [] page.row.status = "in_progress" ->
                PacketsOf(page, "handoff") # {} \/ PacketsOf(page, "response") # {}
          [] page.row.status = "done"        -> PacketsOf(page, "artifact") # {}
          [] page.row.status = "failed"      ->
                faults = 0 => FailureEvidencePanel(page) # {}
          [] page.row.status = "looped"      ->
                /\ LoopEvidencePanel(page) # {}
                /\ Has(page, "loop.terminated")
          [] page.row.status = "needs_input" ->
                NeedsInputPanel(page) # {} \/ PacketsOf(page, "recovery") # {}

\* The progress strip never shows a step done with an earlier one undone,
\* although it mixes rows of two selects (TicketProgressStrip: "next is the
\* first non-complete step").
StripIsPrefix ==
    page.at = "shown" =>
        \A i, j \in DOMAIN StepOrder :
            i < j /\ Completion(page)[StepOrder[j]] => Completion(page)[StepOrder[i]]

\* page.tsx: "Only eligible actions appear."  An action that reaches its
\* precondition read while the page of that moment would offer it is not
\* turned away by it: the page's rules and the action's, written twice, agree.
\* Run Orchestrator is the exception, see ReopenedRuns.
OfferedIsAccepted ==
    [][\A c \in Calls :
          /\ call[c].op \in Offered(Now) \ {"classify"}
          /\ call[c].at \in {"check", "events"}
          /\ faults' = faults
          => call'[c] # Idle]_pageVars

\* A page left open in a visible tab ends up showing the ticket as it is,
\* unless a verdict is on it already: then it has stopped polling.
PageSettles ==
    <>[](page.at = "shown" =>
            \/ page.row = ticket /\ page.trace = trace /\ page.packets = packets
            \/ Has(page, "truth.verdict.recorded"))

\* RecoveryActions.tsx:59, reopening a failed ticket "hands back to
\* orchestrator": while the page offers Run Orchestrator, running it is not
\* refused because of an earlier classification.
ReopenedRuns ==
    faults = 0 /\ (\A c \in Calls : call[c] = Idle) /\ CanRunStub(Now)
        => ~HasEvent("orchestrator.classified")

----------------------------------------------------------------------------
(* The inductive strengthening used in TicketPageProofs.                   *)

PageTypeOK ==
    page \in [at : Reads,
              row : [status : Statuses, failureType : FailureTypes \union {"none"},
                     sig : BOOLEAN],
              trace : SUBSET Event, packets : Seq(Packet), artifacts : Nat]

\* The database explains the status the render has read, whatever has been
\* written since.
RowExplained ==
    LET s == page.row.status
    IN  /\ s = "in_progress" => HasPacket("handoff") \/ HasPacket("response")
        /\ s = "done" => HasPacket("artifact")
        /\ s = "failed" /\ faults = 0 => HasFailure(Crashes)
        /\ s = "looped" => HasFailure(Loops) /\ HasEvent("loop.terminated")
        /\ s = "needs_input" => HasPacket("question") \/ HasPacket("recovery")

\* The rows of the trace select hold the loop of a looped ticket, and a chain
\* without a hole whose artifact is in the database.
TraceRead ==
    /\ page.row.status = "looped" => Has(page, "loop.terminated")
    /\ Has(page, "truth.verdict.recorded") => Has(page, "qa.validated")
    /\ Has(page, "qa.validated") => Has(page, "specialist.artifact.created")
    /\ Has(page, "specialist.artifact.created") => Has(page, "coordinator.routed")
    /\ Has(page, "coordinator.routed") => Has(page, "orchestrator.classified")
    /\ Has(page, "specialist.artifact.created") => artifacts > 0

\* The rows of the packets select explain the status.
PacketsRead ==
    LET s == page.row.status
    IN  /\ s = "in_progress" =>
              PacketsOf(page, "handoff") # {} \/ PacketsOf(page, "response") # {}
        /\ s = "done" => PacketsOf(page, "artifact") # {}
        /\ s = "failed" /\ faults = 0 => NonLoopPackets(page) # {}
        /\ s = "looped" => LoopPackets(page) # {}
        /\ s = "needs_input" =>
              PacketsOf(page, "question") # {} \/ PacketsOf(page, "recovery") # {}

PageRead ==
    /\ page.at # "ticket" => RowExplained
    /\ page.at \in {"packets", "artifacts", "shown"} => TraceRead
    /\ page.at \in {"artifacts", "shown"} => PacketsRead
    /\ page.at = "shown" /\ Has(page, "specialist.artifact.created") =>
          page.artifacts > 0

PageInv == PageTypeOK /\ PageRead

=============================================================================
