----------------------------- MODULE MCCalendar -----------------------------
(* CalendarIngest for TLC: two requests of one browser, two Google accounts. *)
EXTENDS CalendarProperties, TLC

CONSTANTS reqA, reqB, ann, bob

Either == Permutations({reqA, reqB}) \union Permutations({ann, bob})
=============================================================================
