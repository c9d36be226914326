------------------------------ MODULE MCRptTele ------------------------------
(* Instances of RptTele for TLC. *)
EXTENDS RptTele

\* Blocks are only compared with each other.
Blocks == Permutations(Tele)
=============================================================================
