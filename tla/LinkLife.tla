------------------------------- MODULE LinkLife -------------------------------
(***************************************************************************)
(* What the link table promises for each link, seen from outside.          *)
(*                                                                         *)
(*   absent   there is no such link                                        *)
(*   calling  the node dials the peer                                      *)
(*   up       the channel to the peer is up                                *)
(*   waiting  the channel is lost; the link waits for its peer or a redial *)
(*   leaving  the link was disconnected or replaced                        *)
(*                                                                         *)
(* Several links may move in one step: a command can address all of them,  *)
(* and the end of the node's thread frees all of them.                     *)
(***************************************************************************)
CONSTANT Ids
VARIABLE life

States == {"absent", "calling", "up", "waiting", "leaving"}

\* Where a link may go.  Only a dialled link is ever waiting to be redialled,
\* a lost link never comes up without a call, and nothing but the end
\* follows leaving.
Follows ==
    [absent  |-> {"calling", "up"},
     calling |-> {"up", "waiting", "leaving", "absent"},
     up      |-> {"waiting", "leaving", "absent"},
     waiting |-> {"calling", "leaving", "absent"},
     leaving |-> {"absent"}]

Init == life = [l \in Ids |-> "absent"]

Moves(l) == life'[l] \in Follows[life[l]]

Next ==
    /\ life' \in [Ids -> States]
    /\ \A l \in Ids : life'[l] = life[l] \/ Moves(l)

\* One link moves on from where it may not stay for ever.
Goes(l) == life[l] \in {"waiting", "leaving"} /\ Next /\ Moves(l)

Spec ==
    /\ Init
    /\ [][Next]_life
    /\ \A l \in Ids : WF_life(Goes(l))
=============================================================================
