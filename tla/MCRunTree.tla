------------------------------ MODULE MCRunTree ------------------------------
(* RunTree for TLC: three layers of the chart. *)
EXTENDS RunTreeProperties
=============================================================================
