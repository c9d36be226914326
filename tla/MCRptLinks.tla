----------------------------- MODULE MCRptLinks -----------------------------
(* Instances of RptLinks for TLC. *)
EXTENDS RptLinks, TLC

\* Link addresses are only compared with each other.
Addresses == Permutations(LinkIds)
=============================================================================
