---------------------------- MODULE TicketClaims ----------------------------
(***************************************************************************)
(* A statement a report of the repository makes about the review, which    *)
(* its interleavings do not keep: TLC is expected to find it violated.     *)
(***************************************************************************)
EXTENDS TicketProperties

\* phase2_t4 report:109, the verdict is accepted_internal exactly when
\* qa.result is 'pass', for the QA packet the verdict names.
VerdictFollowsQa ==
    \A i \in DOMAIN packets :
        packets[i].kind = "truth" /\ packets[i].ref # 0 =>
            packets[i].note = packets[packets[i].ref].note

=============================================================================
