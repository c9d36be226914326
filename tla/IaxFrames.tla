------------------------------ MODULE IaxFrames ------------------------------
(***************************************************************************)
(* channels/chan_iax2.c: the full frames of a call between two hosts, over *)
(* a network that loses, repeats and reorders packets.                     *)
(*                                                                         *)
(* The call is set up; each handler runs under the lock of its call number *)
(* and is one action.  oseqno and iseqno are kept in full, as are the      *)
(* numbers in a frame, and every test of the code reads their low byte     *)
(* (Byte); rseqno and aseqno are bytes.  The order of iaxq, the queue of   *)
(* frames that wait for the network or for a retry, is left out.           *)
(***************************************************************************)
EXTENDS Integers, FiniteSets, Sequences

CONSTANTS
    Hosts,        \* the two ends of the call
    Wrap,         \* number of values of a sequence number, 256
    MaxRetries,   \* max_retries
    Window,       \* bound: frames of a host that are not acknowledged
    Plans,        \* bounds: what the hosts may do, one of them in a run
    Start,        \* frames each host numbered before, all acknowledged
    InFlight      \* bound: packets on their way to a host

ASSUME IaxFramesAssumption ==
    /\ \E x, y \in Hosts : x # y /\ Hosts = {x, y}
    /\ Wrap \in Nat /\ Wrap % 2 = 0
    /\ MaxRetries \in Nat \ {0}
    /\ Window \in 1 .. Wrap - 2     \* the goodbye may be one more
    /\ Plans \subseteq [frames : [Hosts -> Nat], leaves : SUBSET Hosts]
    /\ Start \in [Hosts -> Nat]
    /\ InFlight \in [Hosts -> Nat]

VARIABLES
    host,     \* the end of the call at each host
    wire,     \* the packets on their way to each host
    said,     \* for the properties: what each host has numbered,
    heard,    \* and the frames of the other that it has acted on
    plan      \* bounds: how many frames each host numbers of its own accord,
              \* and the hosts whose owner hangs up unasked

vars == <<host, wire, said, heard, plan>>

Peer(p) == CHOOSE q \in Hosts : q # p

Byte(x) == x % Wrap
Behind(x, y) == Byte(x - y)          \* (unsigned char) (x - y)

\* n and a are oseqno and iseqno.
Frame == [n : Nat, a : Nat, final : BOOLEAN, retries : -1 .. MaxRetries,
          sentyet : BOOLEAN]
Packet == [kind : {"frame"}, n : Nat, a : Nat, final : BOOLEAN]
          \cup [kind : {"ack", "vnak"}, a : Nat]

\* here: iaxs[callno].  known: in iax_peercallno_pvts.  gone: IAX_ALREADYGONE.
\* hung: a hangup is queued for the owner.  doomed: scheduled_destroy is due.
Host == [here : BOOLEAN, known : BOOLEAN, owner : BOOLEAN, gone : BOOLEAN,
         error : BOOLEAN, hung : BOOLEAN, doomed : BOOLEAN,
         oseqno : Nat, rseqno : 0 .. Wrap - 1, iseqno : Nat,
         aseqno : 0 .. Wrap - 1, iaxq : SUBSET Frame]

(***************************************************************************)
(* The call.                                                               *)
(***************************************************************************)
Spared(f) == [f EXCEPT !.retries = -1]

\* iax2_destroy: an owner is only told; the last reference runs
\* pvt_destructor.
Destroyed(h) ==
    IF h.owner
    THEN [h EXCEPT !.hung = TRUE, !.known = FALSE]
    ELSE [h EXCEPT !.here = FALSE, !.known = FALSE, !.gone = TRUE,
                   !.error = FALSE, !.doomed = FALSE, !.rseqno = 0,
                   !.aseqno = 0, !.iaxq = {Spared(f) : f \in @}]

Predestroyed(h) == [h EXCEPT !.gone = TRUE, !.owner = FALSE, !.hung = FALSE]

\* iax2_send of a frame with a number of its own, which waits in iaxq.
Numbered(h, last) ==
    [h EXCEPT !.oseqno = @ + 1,
              !.aseqno = Byte(h.iseqno),
              !.iaxq = @ \cup {[n |-> h.oseqno, a |-> h.iseqno,
                                final |-> last, retries |-> 0,
                                sentyet |-> FALSE]}]

ReportsWide(h) == [h EXCEPT !.aseqno = h.iseqno] \* wrong variant

Reports(h) == [h EXCEPT !.aseqno = Byte(h.iseqno)]   \* an ACK or VNAK of it

Ack(h) == [kind |-> "ack", a |-> h.iseqno]
Vnak(h) == [kind |-> "vnak", a |-> h.iseqno]
Copy(f) == [kind |-> "frame", n |-> f.n, a |-> f.a, final |-> f.final]

\* The implicit acknowledgement of the frames before a, if a is in the window.
InWindow(h, a) == Behind(a, h.rseqno) <= Behind(h.oseqno, h.rseqno)

\* Wrong variant: the frame that is expected next, too.
CoversNext(h, a, f) == Behind(f.n, h.rseqno) <= Behind(a, h.rseqno)

Covers(h, a, f) == Behind(f.n, h.rseqno) < Behind(a, h.rseqno)

Acked(h, a) ==
    LET done == {f \in h.iaxq : Covers(h, a, f)}
        acked == [h EXCEPT !.iaxq = (@ \ done) \cup {Spared(f) : f \in done},
                           !.rseqno = Byte(a)]
    IN  IF ~InWindow(h, a) THEN h
        ELSE IF \E f \in done : f.final THEN Destroyed(acked) ELSE acked

\* vnak_retransmit
Missing(h, a) ==
    {f \in h.iaxq : f.retries >= 0 /\ Behind(f.n, a) < Wrap \div 2}

(***************************************************************************)
(* The network.                                                            *)
(***************************************************************************)
\* send_packet refuses after an error; what is sent may be lost at once.
\* left are the packets to p that stay on their way.
Transmit(p, h, packets, left) ==
    LET q == Peer(p) IN
    \E some \in SUBSET (IF h.here /\ ~h.error THEN packets ELSE {}) :
        /\ Cardinality(wire[q] \cup some) <= InFlight[q]
        /\ wire' = [wire EXCEPT ![p] = left, ![q] = @ \cup some]

Silent(p, left) == wire' = [wire EXCEPT ![p] = left]

\* Assumed: no packet outlives the numbers it carries.
Fresh(p, m) ==
    /\ m.a + Wrap > host[p].oseqno
    /\ m.kind = "frame" => m.n + Wrap > host[Peer(p)].oseqno

Says(p, x) == said' = [said EXCEPT ![p] = Append(@, x)]

\* Bound: a host has room for another frame of its own, and for a ping
\* when the other has left.
Room(h) == Behind(h.oseqno, h.rseqno) < Window
Allowed(p) == Room(host[p]) /\ host[p].oseqno < Start[p] + plan.frames[p]
AllowedPing(p) ==
    /\ Room(host[p])
    /\ \/ host[p].oseqno < Start[p] + plan.frames[p]
       \/ ~host[Peer(p)].here /\ host[p].oseqno <= Start[p] + plan.frames[p]

(***************************************************************************)
(* The owner's thread, and the scheduler's.                                *)
(***************************************************************************)
\* iax2_write of a full frame
Write(p) ==
    LET h == host[p] IN
    /\ h.here /\ h.owner /\ ~h.error /\ ~h.gone
    /\ Allowed(p)
    /\ host' = [host EXCEPT ![p] = Numbered(h, FALSE)]
    /\ Says(p, "word")
    /\ UNCHANGED <<wire, heard, plan>>

\* __send_ping and __send_lagrq, scheduled until iax2_predestroy
Ping(p) ==
    LET h == host[p] IN
    /\ h.here /\ h.owner
    /\ AllowedPing(p)
    /\ host' = [host EXCEPT ![p] = Numbered(h, FALSE)]
    /\ Says(p, "word")
    /\ UNCHANGED <<wire, heard, plan>>

\* iax2_hangup
Hangup(p) ==
    LET h == host[p]
        pre == Predestroyed(h)
    IN
    /\ h.here /\ h.owner
    /\ h.hung \/ p \in plan.leaves
    /\ \/ /\ h.gone
          /\ host' = [host EXCEPT ![p] = Destroyed(pre)]
          /\ UNCHANGED said
       \/ /\ ~h.gone /\ h.error
          /\ host' = [host EXCEPT ![p] = [pre EXCEPT !.doomed = TRUE]]
          /\ UNCHANGED said
       \/ /\ ~h.gone /\ ~h.error
          /\ host' = [host EXCEPT ![p] =
                         [Numbered(pre, TRUE) EXCEPT !.doomed = TRUE]]
          /\ Says(p, "bye")
    /\ UNCHANGED <<wire, heard, plan>>

ScheduledDestroy(p) ==
    /\ host[p].doomed
    /\ host' = [host EXCEPT ![p] = Destroyed(@)]
    /\ UNCHANGED <<wire, said, heard, plan>>

\* What becomes of frame f of iaxq: it is taken out, or replaced by g.
Without(h, f) == [h EXCEPT !.iaxq = @ \ {f}]
With(h, f, g) == [h EXCEPT !.iaxq = (@ \ {f}) \cup {g}]

Retry(f) == [f EXCEPT !.retries = @ + 1, !.sentyet = TRUE]

\* network_thread with one frame that has not been sent.  It may be any of
\* them: one whose call number is locked by another thread is left for later.
NetworkThread(p) ==
    LET h == host[p] IN
    \E f \in h.iaxq :
        /\ ~f.sentyet
        /\ host' = [host EXCEPT ![p] = IF f.retries < 0 THEN Without(h, f)
                                       ELSE With(h, f, Retry(f))]
        /\ Transmit(p, h, {Copy(f)}, wire[p])
        /\ UNCHANGED <<said, heard, plan>>

Updated(f, h) == [f EXCEPT !.a = h.iseqno]     \* update_packet

\* __attempt_transmit when the last retry has passed
GivenUpQuietly(h, f) == \* wrong variant
    IF f.final \/ ~h.owner THEN Destroyed(h) ELSE [h EXCEPT !.error = TRUE]
GivenUp(h, f) ==
    IF f.final THEN Destroyed(h)
    ELSE IF h.owner THEN [h EXCEPT !.error = TRUE, !.hung = TRUE]
    ELSE Destroyed([h EXCEPT !.error = TRUE])

Settled(f, h) == ~h.here \/ f.retries < 0

AttemptTransmit(p) ==
    LET h == host[p] IN
    \E f \in h.iaxq :
        /\ f.sentyet
        /\ UNCHANGED <<said, heard, plan>>
        /\ \/ /\ Settled(f, h)
              /\ host' = [host EXCEPT ![p] = Without(h, f)]
              /\ UNCHANGED wire
           \/ /\ ~Settled(f, h) /\ f.retries >= MaxRetries
              /\ host' = [host EXCEPT ![p] = GivenUp(Without(h, f), f)]
              /\ UNCHANGED wire
           \/ /\ ~Settled(f, h) /\ f.retries < MaxRetries
              /\ host' = [host EXCEPT ![p] = With(h, f, Retry(Updated(f, h)))]
              /\ Transmit(p, h, {Copy(Updated(f, h))}, wire[p])

(***************************************************************************)
(* socket_process: a packet arrives.                                       *)
(***************************************************************************)
\* No call: find_callno returns 0, and a full frame is dropped unanswered.
Unknown(p, m, left) ==
    /\ ~host[p].known
    /\ Silent(p, left)
    /\ UNCHANGED <<host, said, heard, plan>>

ExpectedOrLater(h, m) == Behind(m.n, h.iseqno) < Wrap \div 2 \* wrong variant
Expected(h, m) == Byte(m.n) = Byte(h.iseqno)

\* A frame out of order is acknowledged again or asked for, and dropped.
OutOfOrder(p, m, left) ==
    LET h == host[p]
        seen == Behind(h.iseqno, m.n) < Wrap \div 2
    IN
    /\ h.known /\ m.kind = "frame" /\ ~Expected(h, m)
    /\ host' = [host EXCEPT ![p] = Reports(h)]
    /\ Transmit(p, h, {IF seen THEN Ack(h) ELSE Vnak(h)}, left)
    /\ UNCHANGED <<said, heard, plan>>

Accepted(h, m) == Acked([h EXCEPT !.iseqno = @ + 1], m.a)

\* The frame acknowledged our last: the call is destroyed, the frame dropped.
Farewell(p, m, left) ==
    LET h == Accepted(host[p], m) IN
    /\ host[p].known /\ m.kind = "frame" /\ Expected(host[p], m)
    /\ ~h.here
    /\ host' = [host EXCEPT ![p] = h]
    /\ Silent(p, left)
    /\ UNCHANGED <<said, heard, plan>>

Hears(p, m) == heard' = [heard EXCEPT ![p] = Append(@, m.n + 1)]

Goodbye(p, m, left) ==
    LET h == Accepted(host[p], m) IN
    /\ host[p].known /\ m.kind = "frame" /\ Expected(host[p], m)
    /\ h.here /\ m.final
    /\ host' = [host EXCEPT ![p] =
                   Destroyed([Reports(h) EXCEPT !.gone = TRUE])]
    /\ Transmit(p, h, {Ack(h)}, left)
    /\ Hears(p, m)
    /\ UNCHANGED <<said, plan>>

\* Any other frame.  It may call for an answer, which carries the
\* acknowledgement; else an ACK is sent if there is something to acknowledge.
Word(p, m, left) ==
    LET h == Accepted(host[p], m) IN
    /\ host[p].known /\ m.kind = "frame" /\ Expected(host[p], m)
    /\ h.here /\ ~m.final
    /\ Hears(p, m)
    /\ UNCHANGED plan
    /\ \/ /\ Allowed(p)
          /\ host' = [host EXCEPT ![p] = Numbered(h, FALSE)]
          /\ Says(p, "word")
          /\ Silent(p, left)
       \/ /\ host' = [host EXCEPT ![p] = Reports(h)]
          /\ Transmit(p, h, IF h.aseqno = Byte(h.iseqno) THEN {}
                            ELSE {Ack(h)}, left)
          /\ UNCHANGED said

Acknowledged(p, m, left) ==
    /\ host[p].known /\ m.kind = "ack"
    /\ host' = [host EXCEPT ![p] = Acked(@, m.a)]
    /\ Silent(p, left)
    /\ UNCHANGED <<said, heard, plan>>

AskedAgain(p, m, left) ==
    LET h == Acked(host[p], m.a) IN
    /\ host[p].known /\ m.kind = "vnak"
    /\ host' = [host EXCEPT ![p] = h]
    /\ Transmit(p, h, {Copy(f) : f \in Missing(h, m.a)}, left)
    /\ UNCHANGED <<said, heard, plan>>

Receive(p) ==
    \E m \in wire[p] : \E left \in {wire[p], wire[p] \ {m}} :
        /\ Fresh(p, m)
        /\ \/ Unknown(p, m, left)
           \/ OutOfOrder(p, m, left)
           \/ Farewell(p, m, left)
           \/ Goodbye(p, m, left)
           \/ Word(p, m, left)
           \/ Acknowledged(p, m, left)
           \/ AskedAgain(p, m, left)

Lose(p) ==
    /\ \E m \in wire[p] : Silent(p, wire[p] \ {m})
    /\ UNCHANGED <<host, said, heard, plan>>

(***************************************************************************)
(* The specification.                                                      *)
(***************************************************************************)
\* A call on which some frames have already been exchanged.
Init ==
    /\ host = [p \in Hosts |->
           [here |-> TRUE, known |-> TRUE, owner |-> TRUE, gone |-> FALSE,
            error |-> FALSE, hung |-> FALSE, doomed |-> FALSE,
            oseqno |-> Start[p], rseqno |-> Byte(Start[p]),
            iseqno |-> Start[Peer(p)], aseqno |-> Byte(Start[Peer(p)]),
            iaxq |-> {}]]
    /\ wire = [p \in Hosts |-> {}]
    /\ plan \in Plans
    /\ said = [p \in Hosts |-> [n \in 1 .. Start[p] |-> "word"]]
    /\ heard = [p \in Hosts |-> [n \in 1 .. Start[Peer(p)] |-> n]]

Next ==
    \E p \in Hosts :
        \/ Write(p) \/ Ping(p) \/ Hangup(p) \/ ScheduledDestroy(p)
        \/ NetworkThread(p) \/ AttemptTransmit(p)
        \/ Receive(p) \/ Lose(p)

Spec == Init /\ [][Next]_vars

\* The network thread and the scheduler run on; the owner's thread hangs up
\* a channel that it is told to.  Nothing is assumed of the network.
Fairness ==
    \A p \in Hosts :
        /\ WF_vars(NetworkThread(p))
        /\ WF_vars(AttemptTransmit(p))
        /\ WF_vars(ScheduledDestroy(p))
        /\ WF_vars(Ping(p))
        /\ WF_vars(host[p].hung /\ Hangup(p))

FairSpec == Spec /\ Fairness

(***************************************************************************)
(* Properties.                                                             *)
(***************************************************************************)
\* The type of the state.
TypeOK ==
    /\ host \in [Hosts -> Host]
    /\ wire \in [Hosts -> SUBSET Packet]
    /\ said \in [Hosts -> Seq({"word", "bye"})]
    /\ heard \in [Hosts -> Seq(Nat)]
    /\ plan \in Plans

\* A frame is taken off the retry list as acknowledged only if the other host
\* has acted on it: what a call in being no longer retries was either heard,
\* or its retries are spent and the call is in error.
Unheard(p) ==
    {n \in 1 .. Len(said[p]) : \A i \in DOMAIN heard[Peer(p)] :
                                   heard[Peer(p)][i] # n}
Retried(p) ==
    {f.n + 1 : f \in {g \in host[p].iaxq : g.retries >= 0}}
NothingForgotten ==
    \A p \in Hosts :
        host[p].here /\ ~host[p].error => Unheard(p) \subseteq Retried(p)

\* The full frames of a call are a reliable queue in each direction,
\* whatever the network does.
Fifo == INSTANCE IaxFifo
Reliable == Fifo!Spec

\* When one host has left the call the other leaves it too, although the
\* network may lose every packet from then on.
EndsTogether == \A p \in Hosts : ~host[p].here ~> ~host[Peer(p)].here

\* What a host says is heard, or its call ends.
HeardOrEnded ==
    \A p \in Hosts :
        Unheard(p) # {} ~> Unheard(p) = {} \/ ~host[p].here
=============================================================================
