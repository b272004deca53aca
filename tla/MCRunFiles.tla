----------------------------- MODULE MCRunFiles -----------------------------
(* RunFiles for TLC: two loops and their user in one folder. *)
EXTENDS RunFilesProperties, TLC

CONSTANTS loopA, loopB, notes

\* The loops differ in nothing but their name.
Either == Permutations({loopA, loopB})
=============================================================================
