---------------------------- MODULE MCAutoService ----------------------------
(* Instances of AutoService for TLC. *)
EXTENDS AutoService

\* Every thread may have every channel serviced.
Shared == [x \in Users |-> Chans]
=============================================================================
