------------------------------ MODULE MCTicket ------------------------------
(* TicketLifecycle for TLC: two browser tabs on one ticket. *)
EXTENDS TicketClaims, TLC

CONSTANTS tabA, tabB

\* The invocations differ in nothing but their name.
Tabs == Permutations({tabA, tabB})
=============================================================================
