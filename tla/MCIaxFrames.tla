----------------------------- MODULE MCIaxFrames -----------------------------
(* Instances of IaxFrames for TLC. *)
EXTENDS IaxFrames, TLC

CONSTANTS a, b

\* The numbers are about to wrap.
Exchanged == a :> 3 @@ b :> 2

\* Both speak and answer, and a leaves; or only a speaks, and both leave.
Scenes == {[frames |-> a :> 1 @@ b :> 1, leaves |-> {a}],
           [frames |-> a :> 1 @@ b :> 0, leaves |-> {a, b}]}

\* Two packets to the host that hears more.
OnTheirWay == a :> 1 @@ b :> 2
=============================================================================
