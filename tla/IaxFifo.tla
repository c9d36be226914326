------------------------------- MODULE IaxFifo -------------------------------
(***************************************************************************)
(* What the full frames of an IAX2 call promise to the two hosts: each     *)
(* host takes what the other said, in the order it was said, nothing       *)
(* twice, nothing left out, and nothing after the other has said goodbye.  *)
(* Nothing obliges a host to take it: either may leave at any time.        *)
(***************************************************************************)
EXTENDS Naturals, Sequences

CONSTANTS
    Hosts,    \* the two hosts
    Start     \* how much each has said, and the other heard, before

VARIABLES
    said,     \* what each host has said: words, and one goodbye
    heard     \* the places in the other's speech of what it has taken

Peer(p) == CHOOSE q \in Hosts : q # p

Init ==
    /\ said = [p \in Hosts |-> [n \in 1 .. Start[p] |-> "word"]]
    /\ heard = [p \in Hosts |-> [n \in 1 .. Start[Peer(p)] |-> n]]

Says(p) ==
    \E x \in {"word", "bye"} : said' = [said EXCEPT ![p] = Append(@, x)]

Takes(p) ==
    LET next == Len(heard[p]) + 1 IN
    /\ next <= Len(said[Peer(p)])
    /\ \A i \in 1 .. next - 1 : said[Peer(p)][i] # "bye"
    /\ heard' = [heard EXCEPT ![p] = Append(@, next)]

\* A host may answer what it takes in the same step.
Next == \E p \in Hosts : \/ Says(p) /\ UNCHANGED heard
                         \/ Takes(p) /\ (Says(p) \/ UNCHANGED said)

Spec == Init /\ [][Next]_<<said, heard>>
=============================================================================
