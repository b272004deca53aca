------------------------------ MODULE MCRunSinks ------------------------------
(* RunSinks for TLC: two runs on one ticket. *)
EXTENDS RunSinksProperties, TLC

CONSTANTS runA, runB

\* The runs differ in nothing but their name.
Either == Permutations({runA, runB})
=============================================================================
