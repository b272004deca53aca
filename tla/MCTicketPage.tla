---------------------------- MODULE MCTicketPage ----------------------------
(* TicketPage for TLC: two tabs that act, and a page that is read. *)
EXTENDS TicketPageProperties

CONSTANTS tabA, tabB
=============================================================================
