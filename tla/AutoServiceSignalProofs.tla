----------------------- MODULE AutoServiceSignalProofs -----------------------
(***************************************************************************)
(* Proofs about the frames of AutoService: no signal of a channel is lost  *)
(* or doubled on its way from the channel's queue, through the thread's    *)
(* hand and the entries, and back, and a hangup always leaves something in *)
(* the way of an owner who has not been told.                              *)
(*                                                                         *)
(* Every step that moves a frame takes the first one of a queue, or the    *)
(* one in the thread's hand, and puts it in one new place.                 *)
(***************************************************************************)
EXTENDS AutoServiceFlagProofs

One(S) == \E p : S = {p}

Kept(c, n) == n <= chan[c].came => Hung(c) \/ One(Places(c, n))

\* What has not come yet is nowhere.
NotYet(c, n) == n > chan[c].came => Places(c, n) = {}

\* An entry that is not in the list yet has no frames.
NewInv ==
    \A u \in Users :
        user[u].pc = "insert" => asent[user[u].ent].deferred_frames = <<>>

\* What an owner of channel c who has not been told of its hangup finds.
Finding(c) ==
    \/ chan[c].readq # <<>>
    \/ tpc = "defer" /\ mons[at].chan = c
    \/ \E e \in heap : asent[e].chan = c /\ asent[e].deferred_frames # <<>>

\* An owner who has not been told of a hangup finds something.
Wakes(c) == chan[c].soft /\ ~chan[c].told => Finding(c)

Good(c) == Wakes(c) /\ \A n \in Signals : Kept(c, n) /\ NotYet(c, n)

FrameInv == NewInv /\ \A c \in Chans : Good(c)

-----------------------------------------------------------------------------
(* Places *)

LEMMA HoldingAppend ==
    ASSUME NEW q \in Seq(Frames), NEW f, NEW n
    PROVE  /\ Holding(q, n) \subseteq 1 .. Len(q)
           /\ f # n => Holding(Append(q, f), n) = Holding(q, n)
           /\ f = n => Holding(Append(q, f), n) = Holding(q, n) \cup {Len(q) + 1}
<1>1. /\ Len(q) \in Nat /\ DOMAIN q = 1 .. Len(q)
      /\ DOMAIN Append(q, f) = 1 .. Len(q) + 1
      /\ \A i \in 1 .. Len(q) : Append(q, f)[i] = q[i]
      /\ Append(q, f)[Len(q) + 1] = f
    OBVIOUS
<1>2. 1 .. Len(q) + 1 = (1 .. Len(q)) \cup {Len(q) + 1}
      /\ Len(q) + 1 \notin 1 .. Len(q)
    BY <1>1
<1> QED BY <1>1, <1>2 DEF Holding

LEMMA HoldingTail ==
    ASSUME NEW q \in Seq(Frames), q # <<>>, NEW n
    PROVE  /\ Holding(q, n) \subseteq Nat /\ Holding(Tail(q), n) \subseteq Nat
           /\ \A i \in Holding(q, n) : i >= 1 /\ (i = 1 => Head(q) = n)
           /\ \A i \in Holding(Tail(q), n) : i >= 1
           /\ \A i \in Nat :
                 i >= 1 => (i \in Holding(Tail(q), n) <=> i + 1 \in Holding(q, n))
           /\ Head(q) = n => 1 \in Holding(q, n)
<1>1. /\ Len(q) \in Nat /\ Len(q) >= 1 /\ DOMAIN q = 1 .. Len(q)
      /\ Head(q) = q[1]
      /\ DOMAIN Tail(q) = 1 .. Len(q) - 1
      /\ \A i \in 1 .. Len(q) - 1 : Tail(q)[i] = q[i + 1]
    OBVIOUS
<1> QED BY <1>1 DEF Holding

\* The places in a set of entries.
LEMMA DeferredAre ==
    ASSUME NEW S, NEW a, NEW n
    PROVE  /\ \A e, i : <<"deferred", e, i>> \in Deferred(S, a, n) <=>
                 e \in S /\ i \in Holding(a[e].deferred_frames, n)
           /\ \A p \in Deferred(S, a, n) : p = <<"deferred", p[2], p[3]>>
<1> DEFINE T(e) == {<<"deferred", e, i>> :
                        i \in Holding(a[e].deferred_frames, n)}
<1>1. Deferred(S, a, n) = UNION {T(e) : e \in S}
    BY DEF Deferred
<1>2. ASSUME NEW p
      PROVE  p \in UNION {T(e) : e \in S} <=> \E e \in S : p \in T(e)
    OBVIOUS
<1>3. ASSUME NEW e
      PROVE  /\ \A p \in T(e) : p = <<"deferred", p[2], p[3]>> /\ p[2] = e
             /\ \A i : <<"deferred", e, i>> \in T(e)
                         <=> i \in Holding(a[e].deferred_frames, n)
    <2> DEFINE H == Holding(a[e].deferred_frames, n)
    <2>1. T(e) = {<<"deferred", e, i>> : i \in H}
        OBVIOUS
    <2> HIDE DEF H, T
    <2>2. \A p \in T(e) : p = <<"deferred", p[2], p[3]>> /\ p[2] = e
        BY <2>1
    <2>3. \A i : <<"deferred", e, i>> \in T(e) <=> i \in H
        BY <2>1
    <2> QED BY <2>2, <2>3 DEF H
<1> HIDE DEF T
<1>4. \A p \in Deferred(S, a, n) : p = <<"deferred", p[2], p[3]>>
    BY <1>1, <1>2, <1>3
<1>5. ASSUME NEW e, NEW i
      PROVE  <<"deferred", e, i>> \in Deferred(S, a, n) <=>
                e \in S /\ i \in Holding(a[e].deferred_frames, n)
    <2> DEFINE p == <<"deferred", e, i>>
    <2>1. \A f : p \in T(f) => f = e
        <3>1. p[2] = e
            OBVIOUS
        <3> HIDE DEF p
        <3> QED BY <1>3, <3>1
    <2>2. p \in T(e) <=> i \in Holding(a[e].deferred_frames, n)
        BY <1>3
    <2> HIDE DEF p
    <2>3. p \in Deferred(S, a, n) <=> \E f \in S : p \in T(f)
        BY <1>1, <1>2
    <2>4. p \in Deferred(S, a, n) <=> e \in S /\ p \in T(e)
        BY <2>1, <2>3
    <2> QED BY <2>2, <2>4 DEF p
<1> QED BY <1>4, <1>5

LEMMA HoldingNothing == \A n : Holding(<<>>, n) = {}
  BY DEF Holding

\* Only the entries with frames count.
LEMMA DeferredSame ==
    ASSUME NEW S, NEW a, NEW T, NEW b, NEW n,
           \A e \in S : a[e].deferred_frames = <<>> \/
               (e \in T /\ b[e].deferred_frames = a[e].deferred_frames),
           \A e \in T : b[e].deferred_frames = <<>> \/
               (e \in S /\ b[e].deferred_frames = a[e].deferred_frames)
    PROVE  Deferred(S, a, n) = Deferred(T, b, n)
<1> DEFINE D == Deferred(S, a, n)
           E == Deferred(T, b, n)
<1>1. \A e, i : <<"deferred", e, i>> \in D
                  => e \in S /\ i \in Holding(a[e].deferred_frames, n)
    BY DeferredAre
<1>2. \A e, i : <<"deferred", e, i>> \in E
                  => e \in T /\ i \in Holding(b[e].deferred_frames, n)
    BY DeferredAre
<1>3. ASSUME NEW e, NEW i, <<"deferred", e, i>> \in D
      PROVE  <<"deferred", e, i>> \in E
    <2>1. e \in S /\ i \in Holding(a[e].deferred_frames, n)
        BY <1>1, <1>3
    <2>2. a[e].deferred_frames # <<>>
        BY <2>1, HoldingNothing
    <2>3. e \in T /\ i \in Holding(b[e].deferred_frames, n)
        BY <2>1, <2>2
    <2> QED BY <2>3, DeferredAre
<1>4. ASSUME NEW e, NEW i, <<"deferred", e, i>> \in E
      PROVE  <<"deferred", e, i>> \in D
    <2>1. e \in T /\ i \in Holding(b[e].deferred_frames, n)
        BY <1>2, <1>4
    <2>2. b[e].deferred_frames # <<>>
        BY <2>1, HoldingNothing
    <2>3. e \in S /\ i \in Holding(a[e].deferred_frames, n)
        BY <2>1, <2>2
    <2> QED BY <2>3, DeferredAre
<1>5. /\ \A p \in D : p = <<"deferred", p[2], p[3]>>
      /\ \A p \in E : p = <<"deferred", p[2], p[3]>>
    BY DeferredAre
<1> HIDE DEF D, E
<1>6. D = E
    BY <1>3, <1>4, <1>5
<1> QED BY <1>6 DEF D, E

\* The places in one of the entries and those in the others.
LEMMA DeferredSplit ==
    ASSUME NEW S, NEW a, NEW n, NEW e \in S
    PROVE  /\ Deferred(S, a, n) = Deferred(S \ {e}, a, n) \cup
                 {<<"deferred", e, i>> : i \in Holding(a[e].deferred_frames, n)}
           /\ \A i : <<"deferred", e, i>> \notin Deferred(S \ {e}, a, n)
<1> DEFINE D == Deferred(S, a, n)
           E == Deferred(S \ {e}, a, n)
           H == Holding(a[e].deferred_frames, n)
<1>1. ASSUME NEW f, NEW i
      PROVE  <<"deferred", f, i>> \in D <=>
                \/ <<"deferred", f, i>> \in E
                \/ f = e /\ i \in H
    BY DeferredAre
<1>2. /\ \A p \in D : p = <<"deferred", p[2], p[3]>>
      /\ \A p \in E : p = <<"deferred", p[2], p[3]>>
    BY DeferredAre
<1>3. \A i : <<"deferred", e, i>> \notin E
    BY DeferredAre
<1> HIDE DEF D, E, H
<1>4. D = E \cup {<<"deferred", e, i>> : i \in H}
    <2>1. ASSUME NEW p \in D PROVE p \in E \cup {<<"deferred", e, i>> : i \in H}
        BY <1>1, <1>2
    <2>2. ASSUME NEW p \in E PROVE p \in D
        BY <1>1, <1>2
    <2>3. ASSUME NEW i \in H PROVE <<"deferred", e, i>> \in D
        BY <1>1
    <2> QED BY <2>1, <2>2, <2>3
<1> QED BY <1>3, <1>4 DEF D, E, H

\* The first frame of a queue, whose places are k, o and the numbers in Q,
\* moves to place x; the others of it move up, and those in D stay.
FirstMoves(P, P2, D, k, o, x, Q, Q2) ==
    /\ Q \in SUBSET Nat /\ Q2 \in SUBSET Nat
    /\ P = D \cup {<<k, o, i>> : i \in Q}
    /\ P2 = D \cup {<<k, o, i>> : i \in Q2} \cup (IF 1 \in Q THEN {x} ELSE {})
    /\ \A i \in Nat : <<k, o, i>> \notin D
    /\ \A i \in Q : i >= 1
    /\ \A i \in Q2 : i >= 1
    /\ \A i \in Nat : i >= 1 => (i \in Q2 <=> i + 1 \in Q)

LEMMA Shifted ==
    ASSUME NEW P, NEW P2, NEW D, NEW k, NEW o, NEW x, NEW Q, NEW Q2,
           FirstMoves(P, P2, D, k, o, x, Q, Q2)
    PROVE  (One(P) => One(P2)) /\ (P = {} => P2 = {})
<1> USE DEF FirstMoves
<1>1. ASSUME Q = {} PROVE Q2 = {}
    BY <1>1
<1>2. ASSUME P = {} PROVE P2 = {}
    BY <1>1, <1>2
<1>3. ASSUME NEW p, P = {p} PROVE One(P2)
    <2>1. CASE p \in D
        <3>1. Q = {}
            BY <1>3, <2>1
        <3>2. P2 = P
            BY <1>1, <3>1
        <3> QED BY <1>3, <3>2 DEF One
    <2>2. CASE p \notin D
        <3>1. D = {} /\ \E j \in Q : p = <<k, o, j>>
            BY <1>3, <2>2
        <3>2. PICK j \in Q : p = <<k, o, j>>
            BY <3>1
        <3>3. ASSUME NEW i \in Q PROVE i = j
            <4>1. <<k, o, i>> \in P
                OBVIOUS
            <4>2. <<k, o, i>> = <<k, o, j>>
                BY <1>3, <3>2, <4>1
            <4> QED BY <4>2
        <3>4. Q = {j} /\ j \in Nat /\ j >= 1
            BY <3>3
        <3>5. CASE j = 1
            <4>1. Q2 = {}
                BY <3>4, <3>5
            <4>2. P2 = {x}
                BY <3>1, <3>4, <3>5, <4>1
            <4> QED BY <4>2 DEF One
        <3>6. CASE j # 1
            <4>1. j - 1 \in Nat /\ j - 1 >= 1 /\ (j - 1) + 1 = j
                BY <3>4, <3>6
            <4>2. j - 1 \in Q2 /\ 1 \notin Q
                BY <3>4, <3>6, <4>1
            <4>3. ASSUME NEW i \in Q2 PROVE i = j - 1
                <5>1. i \in Nat /\ i + 1 = j
                    BY <3>4
                <5> QED BY <4>1, <5>1
            <4>4. Q2 = {j - 1}
                BY <4>2, <4>3
            <4>5. P2 = {<<k, o, j - 1>>}
                BY <3>1, <4>2, <4>4
            <4> QED BY <4>5 DEF One
        <3> QED BY <3>5, <3>6
    <2> QED BY <2>1, <2>2
<1> QED BY <1>2, <1>3 DEF One

\* A frame, if there is one, moves from place t to place x.
Moves(P, P2, D, t, x, some) ==
    /\ t \notin D /\ some \in BOOLEAN
    /\ P = D \cup (IF some THEN {t} ELSE {})
    /\ P2 = D \cup (IF some THEN {x} ELSE {})

LEMMA HandedOn ==
    ASSUME NEW P, NEW P2, NEW D, NEW t, NEW x, NEW B,
           Moves(P, P2, D, t, x, B)
    PROVE  (One(P) => One(P2)) /\ (P = {} => P2 = {})
<1> USE DEF Moves
<1>1. CASE B
    <2>1. P # {} /\ P = D \cup {t} /\ P2 = D \cup {x}
        BY <1>1
    <2>2. ASSUME NEW p, P = {p} PROVE P2 = {x}
        BY <2>1, <2>2
    <2> QED BY <2>1, <2>2 DEF One
<1>2. CASE ~B
    <2>1. P2 = P
        BY <1>2
    <2> QED BY <2>1
<1> QED BY <1>1, <1>2

-----------------------------------------------------------------------------
(* Steps that move no frame of a channel *)

\* The entries of channel c that have frames.
Full(c) == {e \in EntriesOf(c) : asent[e].deferred_frames # <<>>}

\* The thread holds a frame of channel c.
InHandOf(c) == tpc = "defer" /\ mons[at].chan = c

SameFrames(c) ==
    /\ chan'[c].readq = chan[c].readq /\ chan'[c].got = chan[c].got
    /\ Full(c)' = Full(c)
    /\ \A e \in Full(c) : asent'[e].deferred_frames = asent[e].deferred_frames
    /\ InHandOf(c)' <=> InHandOf(c)
    /\ InHandOf(c) => hand' = hand

LEMMA SamePlaces ==
    ASSUME NEW c, NEW n, SameFrames(c)
    PROVE  Places(c, n)' = Places(c, n)
<1>1. InQueue(c, n)' = InQueue(c, n)
    BY DEF SameFrames, InQueue
<1>2. InEntries(c, n)' = InEntries(c, n)
    <2>1. \A e \in EntriesOf(c) :
              asent[e].deferred_frames = <<>> \/
                  (/\ e \in EntriesOf(c)'
                   /\ asent'[e].deferred_frames = asent[e].deferred_frames)
        BY DEF SameFrames, Full
    <2>2. \A e \in EntriesOf(c)' :
              asent'[e].deferred_frames = <<>> \/
                  (/\ e \in EntriesOf(c)
                   /\ asent'[e].deferred_frames = asent[e].deferred_frames)
        BY DEF SameFrames, Full
    <2>3. Deferred(EntriesOf(c), asent, n) = Deferred(EntriesOf(c)', asent', n)
        BY <2>1, <2>2, DeferredSame
    <2> QED BY <2>3 DEF InEntries
<1>3. InHand(c, n)' = InHand(c, n)
    BY DEF SameFrames, InHand, InHandOf
<1>4. WithOwner(c, n)' = WithOwner(c, n)
    BY DEF SameFrames, WithOwner
<1> QED BY <1>1, <1>2, <1>3, <1>4 DEF Places

LEMMA SameGood ==
    ASSUME NEW c, Good(c), SameFrames(c),
           chan'[c].came = chan[c].came, chan'[c].soft = chan[c].soft,
           chan[c].told => chan'[c].told
    PROVE  Good(c)'
<1>1. \A n \in Signals : Places(c, n)' = Places(c, n)
    BY SamePlaces
<1>2. Hung(c)' <=> Hung(c)
    BY DEF Hung, SameFrames
<1>3. \A n \in Signals : Kept(c, n)' /\ NotYet(c, n)'
    BY <1>1, <1>2 DEF Good, Kept, NotYet
<1>4. Finding(c) => Finding(c)'
    <2>1. Finding(c) <=> chan[c].readq # <<>> \/ InHandOf(c) \/ Full(c) # {}
        BY DEF Finding, InHandOf, Full, EntriesOf
    <2>2. Finding(c)' <=>
              chan'[c].readq # <<>> \/ InHandOf(c)' \/ Full(c)' # {}
        BY DEF Finding, InHandOf, Full, EntriesOf
    <2> QED BY <2>1, <2>2 DEF SameFrames
<1> QED BY <1>3, <1>4 DEF Good, Wakes

LEMMA SameInv ==
    ASSUME FrameInv, NewInv',
           \A c \in Chans :
              /\ SameFrames(c)
              /\ chan'[c].came = chan[c].came /\ chan'[c].soft = chan[c].soft
              /\ chan[c].told => chan'[c].told
    PROVE  FrameInv'
  BY SameGood DEF FrameInv

LEMMA ThreadFrames ==
    ASSUME Inv, FrameInv,
           \/ Rebuild \/ Wake \/ LockOne \/ PollNone \/ PollWins \/ ReadBusy
           \/ UNCHANGED vars
    PROVE  FrameInv'
<1>1. UNCHANGED <<heap, asent, chan, user>>
    BY DEF Rebuild, Wake, LockOne, PollNone, PollWins, ReadBusy, vars, list,
           users
<1>2. \/ UNCHANGED <<tpc, mons, at, hand>>
      \/ tpc # "defer" /\ tpc' # "defer"
    BY DEF Rebuild, Wake, LockOne, PollNone, PollWins, ReadBusy, vars, svc,
           Gather, Loops
<1>3. \A c \in Chans : SameFrames(c)
    BY <1>1, <1>2 DEF SameFrames, Full, EntriesOf, InHandOf
<1>4. NewInv'
    BY <1>1 DEF FrameInv, NewInv
<1> QED BY <1>1, <1>3, <1>4, SameInv

-----------------------------------------------------------------------------
(* Steps of the users that move no frame *)

\* The list's entries keep their frames, as do the channels.
LEMMA ListFrames ==
    ASSUME Inv, FrameInv, heap' = heap, NewInv',
           \A e \in Entries :
              /\ asent'[e].chan = asent[e].chan
              /\ asent'[e].deferred_frames = asent[e].deferred_frames,
           \A c \in Chans :
              /\ chan'[c].readq = chan[c].readq /\ chan'[c].got = chan[c].got
              /\ chan'[c].came = chan[c].came /\ chan'[c].soft = chan[c].soft
              /\ chan[c].told => chan'[c].told,
           \/ UNCHANGED <<tpc, mons, at, hand>>
           \/ tpc # "defer" /\ tpc' # "defer"
    PROVE  FrameInv'
<1>1. heap \subseteq Entries
    BY DEF Inv, TypeOK
<1>2. \A c \in Chans : SameFrames(c)
    BY <1>1 DEF SameFrames, Full, EntriesOf, InHandOf
<1> QED BY <1>2, SameInv

LEMMA StartFrames ==
    ASSUME Inv, FrameInv, NEW u \in Users,
           \/ \E c \in Chans : StartAgain(u, c) \/ StartNew(u, c)
           \/ InsertEntry(u)
    PROVE  FrameInv'
<1>1. /\ heap' = heap /\ chan' = chan
      /\ \/ UNCHANGED <<tpc, mons, at, hand>>
         \/ tpc # "defer" /\ tpc' # "defer"
    BY DEF StartAgain, StartNew, InsertEntry, list, svc, Inv, WakeInv
<1>2. \A e \in Entries :
          /\ asent'[e].chan = asent[e].chan
          /\ asent'[e].deferred_frames = asent[e].deferred_frames
    <2>1. ASSUME NEW c \in Chans, StartAgain(u, c)
          PROVE  \A e \in Entries :
                    /\ asent'[e].chan = asent[e].chan
                    /\ asent'[e].deferred_frames = asent[e].deferred_frames
        <3>1. PICK i \in DOMAIN aslist :
                  asent' = [asent EXCEPT ![aslist[i]].use_count = @ + 1]
            BY <2>1 DEF StartAgain
        <3>2. aslist[i] \in Entries
            BY DEF Inv, TypeOK
        <3> QED BY <3>1, <3>2 DEF Inv, TypeOK, Asent
    <2>2. CASE InsertEntry(u) \/ \E c \in Chans : StartNew(u, c)
        BY <2>2 DEF InsertEntry, StartNew, list
    <2> QED BY <2>1, <2>2
<1>3. NewInv'
    <2>1. ASSUME NEW v \in Users, user'[v].pc = "insert"
          PROVE  user'[v] = user[v]
        <3>1. ASSUME NEW r, r.pc # "insert", user' = [user EXCEPT ![u] = r]
              PROVE  user'[v] = user[v]
            BY <2>1, <3>1 DEF Inv, TypeOK
        <3>2. Idle.pc # "insert"
              /\ \A c \in Chans :
                    [Idle EXCEPT !.pc = "flag", !.on = c].pc # "insert"
            BY DEF Idle
        <3>3. CASE user' = user
            BY <3>3
        <3>4. \/ user' = user \/ user' = [user EXCEPT ![u] = Idle]
              \/ \E c \in Chans : user' = [user EXCEPT ![u] =
                                        [Idle EXCEPT !.pc = "flag", !.on = c]]
            BY DEF StartAgain, StartNew, InsertEntry
        <3> QED BY <3>1, <3>2, <3>3, <3>4
    <2>2. ASSUME NEW v \in Users, user[v].pc = "insert"
          PROVE  user[v].ent \in Entries
        BY <2>2, UserFacts
    <2> QED BY <1>2, <2>1, <2>2 DEF FrameInv, NewInv
<1> QED BY <1>1, <1>2, <1>3, ListFrames

LEMMA StopFrames ==
    ASSUME Inv, FrameInv, NEW u \in Users,
           \/ \E c \in Chans : Stop(u, c) \/ HangUp(u, c)
           \/ StopSeen(u)
    PROVE  FrameInv'
<1>1. heap' = heap /\ UNCHANGED <<tpc, mons, at, hand>>
    BY DEF Stop, HangUp, StopSeen, list, svc
<1>2. \A c \in Chans :
          /\ chan'[c].readq = chan[c].readq /\ chan'[c].got = chan[c].got
          /\ chan'[c].came = chan[c].came /\ chan'[c].soft = chan[c].soft
          /\ chan[c].told => chan'[c].told
    <2> DEFINE Same(c) ==
              /\ chan'[c].readq = chan[c].readq /\ chan'[c].got = chan[c].got
              /\ chan'[c].came = chan[c].came /\ chan'[c].soft = chan[c].soft
              /\ chan[c].told => chan'[c].told
    <2>0. chan \in [Chans -> Channel]
        BY DEF Inv, TypeOK
    <2>1. ASSUME NEW c \in Chans, Stop(u, c) PROVE \A d \in Chans : Same(d)
        BY <2>1 DEF Stop
    <2>2. ASSUME NEW c \in Chans, HangUp(u, c) PROVE \A d \in Chans : Same(d)
        <3>1. chan' = [chan EXCEPT ![c] = [chan[c] EXCEPT !.lock = u]]
            BY <2>2 DEF HangUp
        <3> QED BY <2>0, <3>1 DEF Channel
    <2>3. ASSUME StopSeen(u) PROVE \A d \in Chans : Same(d)
        <3> DEFINE c == user[u].on
                   t == chan[c].told \/ chan[c].soft
                   f == Restored(chan[c].end_dtmf, user[u].ent)
                   r == [chan[c] EXCEPT !.told = t, !.end_dtmf = f]
        <3>1. chan' = [chan EXCEPT ![c] = r]
            BY <2>3 DEF StopSeen
        <3>2. c \in Chans
            BY <2>3, UserFacts DEF StopSeen
        <3>3. chan[c].told => t
            OBVIOUS
        <3> HIDE DEF c, t, f
        <3>4. /\ r.readq = chan[c].readq /\ r.got = chan[c].got
              /\ r.came = chan[c].came /\ r.soft = chan[c].soft
              /\ chan[c].told => r.told
            BY <2>0, <3>2, <3>3 DEF Channel
        <3> HIDE DEF r
        <3> QED BY <2>0, <3>1, <3>2, <3>4
    <2> HIDE DEF Same
    <2>4. \A d \in Chans : Same(d)
        BY <2>1, <2>2, <2>3
    <2> QED BY <2>4 DEF Same
<1>3. \A e \in Entries :
          /\ asent'[e].chan = asent[e].chan
          /\ asent'[e].deferred_frames = asent[e].deferred_frames
    BY ReleaseMoves DEF Stop, HangUp, StopSeen, list
<1>4. NewInv'
    <2>1. ASSUME NEW v \in Users, user'[v].pc = "insert"
          PROVE  user'[v] = user[v]
        <3>1. ASSUME NEW c \in Chans, NEW next, next.pc # "insert",
                     Release(u, c, next)
              PROVE  user'[v] = user[v]
            BY <2>1, <3>1, ReleaseMoves DEF Inv, TypeOK
        <3>2. CASE StopSeen(u)
            BY <2>1, <3>2 DEF StopSeen, Inv, TypeOK, User
        <3>3. Idle.pc # "insert"
              /\ \A c \in Chans :
                    [Idle EXCEPT !.pc = "free", !.on = c].pc # "insert"
            BY DEF Idle
        <3>4. ASSUME NEW c \in Chans, Stop(u, c) PROVE user'[v] = user[v]
            BY <3>1, <3>3, <3>4 DEF Stop
        <3>5. ASSUME NEW c \in Chans, HangUp(u, c) PROVE user'[v] = user[v]
            BY <3>1, <3>3, <3>5 DEF HangUp
        <3> QED BY <3>2, <3>4, <3>5
    <2>2. ASSUME NEW v \in Users, user[v].pc = "insert"
          PROVE  user[v].ent \in Entries
        BY <2>2, UserFacts
    <2> QED BY <1>3, <2>1, <2>2 DEF FrameInv, NewInv
<1> QED BY <1>1, <1>2, <1>3, <1>4, ListFrames

\* An entry without frames comes or goes.
LEMMA EntryFrames ==
    ASSUME Inv, FrameInv, NewInv', NEW e \in Entries,
           e \in heap => asent[e].deferred_frames = <<>>,
           asent'[e].deferred_frames = <<>>,
           \A f : f # e => (f \in heap' <=> f \in heap),
           \A f \in Entries : f # e => asent'[f] = asent[f],
           UNCHANGED svc,
           \A c \in Chans :
              /\ chan'[c].readq = chan[c].readq /\ chan'[c].got = chan[c].got
              /\ chan'[c].came = chan[c].came /\ chan'[c].soft = chan[c].soft
              /\ chan'[c].told = chan[c].told
    PROVE  FrameInv'
<1>1. heap \subseteq Entries
    BY DEF Inv, TypeOK
<1>2. ASSUME NEW c \in Chans
      PROVE  /\ Full(c)' = Full(c)
             /\ \A f \in Full(c) :
                    asent'[f].deferred_frames = asent[f].deferred_frames
    <2>1. \A f \in Full(c) : f \in heap /\ f # e /\ f \in Entries
        BY <1>1 DEF Full, EntriesOf
    <2>2. \A f \in Full(c)' : f \in heap' /\ f # e
        BY DEF Full, EntriesOf
    <2>3. ASSUME NEW f, f # e, f \in heap
          PROVE  f \in Full(c)' <=> f \in Full(c)
        BY <1>1, <2>3 DEF Full, EntriesOf
    <2> QED BY <2>1, <2>2, <2>3
<1>3. \A c \in Chans : SameFrames(c)
    BY <1>2 DEF SameFrames, InHandOf, svc
<1> QED BY <1>3, SameInv

LEMMA SetFlagFrames ==
    ASSUME Inv, FrameInv, NEW u \in Users, SetFlag(u)
    PROVE  FrameInv'
<1>1. user[u].on \in Chans /\ user[u] \in User
    BY UserFacts DEF SetFlag
<1> PICK c \in Chans : c = user[u].on
    BY <1>1
<1>2. PICK e \in Entries \ heap :
        /\ heap' = heap \cup {e}
        /\ asent' = [asent EXCEPT ![e] =
                    [chan |-> c, use_count |-> 1,
                     orig_end_dtmf_flag |-> chan[c].end_dtmf,
                     deferred_frames |-> <<>>]]
        /\ chan' = [chan EXCEPT ![c].end_dtmf = TRUE]
        /\ user' = [user EXCEPT ![u] = [user[u] EXCEPT !.pc = "insert", !.ent = e]]
        /\ UNCHANGED svc
    BY DEF SetFlag
<1>3. /\ asent'[e].deferred_frames = <<>>
      /\ \A f \in Entries : f # e => asent'[f] = asent[f]
    BY <1>2 DEF Inv, TypeOK
<1>4. \A d \in Chans :
         /\ chan'[d].readq = chan[d].readq /\ chan'[d].got = chan[d].got
         /\ chan'[d].came = chan[d].came /\ chan'[d].soft = chan[d].soft
         /\ chan'[d].told = chan[d].told
    BY <1>2 DEF Inv, TypeOK, Channel
<1>5. NewInv'
    <2>1. user'[u].ent = e /\ \A v \in Users : v # u => user'[v] = user[v]
        BY <1>1, <1>2 DEF Inv, TypeOK, User
    <2>2. ASSUME NEW v \in Users, v # u, user[v].pc = "insert"
          PROVE  asent'[user[v].ent].deferred_frames = <<>>
        <3>1. user[v].ent \in Entries /\ user[v].ent \in heap
            BY <2>2, UserFacts
        <3> QED BY <1>2, <1>3, <2>2, <3>1 DEF FrameInv, NewInv
    <2> QED BY <1>3, <2>1, <2>2 DEF NewInv
<1> QED BY <1>2, <1>3, <1>4, <1>5, EntryFrames

LEMMA FreeFrames ==
    ASSUME Inv, FrameInv, NEW u \in Users, InsertFails(u) \/ FreeEntry(u)
    PROVE  FrameInv'
<1>1. /\ user[u].pc \in {"insert", "flush"}
      /\ user[u].ent \in Entries /\ user[u].ent \in heap
      /\ user[u].on \in Chans
    BY UserFacts DEF InsertFails, FreeEntry
<1> PICK e \in Entries, c \in Chans : e = user[u].ent /\ c = user[u].on
    BY <1>1
<1>2. /\ asent[e].deferred_frames = <<>>
      /\ heap' = heap \ {e} /\ asent' = [asent EXCEPT ![e] = Freed]
      /\ UNCHANGED svc
    BY DEF InsertFails, FreeEntry, FrameInv, NewInv
<1>3. /\ asent'[e].deferred_frames = <<>>
      /\ \A f \in Entries : f # e => asent'[f] = asent[f]
    BY <1>2 DEF Inv, TypeOK, Freed
<1>4. \A d \in Chans :
         /\ chan'[d].readq = chan[d].readq /\ chan'[d].got = chan[d].got
         /\ chan'[d].came = chan[d].came /\ chan'[d].soft = chan[d].soft
         /\ chan'[d].told = chan[d].told
    <2>1. CASE chan' = [chan EXCEPT ![c].spoilt = TRUE]
        BY <2>1 DEF Inv, TypeOK, Channel
    <2> QED BY <2>1 DEF InsertFails, FreeEntry
<1>5. NewInv'
    <2> DEFINE r == IF HangsUp(u)
                    THEN [Idle EXCEPT !.pc = "free", !.on = c]
                    ELSE Idle
    <2>1. user' = [user EXCEPT ![u] = Idle] \/ user' = [user EXCEPT ![u] = r]
        BY DEF InsertFails, FreeEntry
    <2>2. Idle.pc # "insert" /\ r.pc # "insert"
        BY DEF Idle
    <2> HIDE DEF r
    <2>3. /\ user'[u].pc # "insert"
          /\ \A v \in Users : v # u => user'[v] = user[v]
        BY <2>1, <2>2 DEF Inv, TypeOK
    <2>4. ASSUME NEW v \in Users, user[v].pc = "insert"
          PROVE  asent'[user[v].ent].deferred_frames = <<>>
        <3>1. user[v].ent \in Entries
            BY <2>4, UserFacts
        <3> QED BY <1>3, <2>4, <3>1 DEF FrameInv, NewInv
    <2> QED BY <2>3, <2>4 DEF NewInv
<1> QED BY <1>2, <1>3, <1>4, <1>5, EntryFrames

-----------------------------------------------------------------------------
(* Steps that move a frame of one channel *)

LEMMA OneGood ==
    ASSUME FrameInv, NewInv', NEW c \in Chans, Good(c)',
           \A d \in Chans : d # c => SameFrames(d) /\ chan'[d] = chan[d]
    PROVE  FrameInv'
  BY SameGood DEF FrameInv

LEMMA KeptStep ==
    ASSUME NEW c \in Chans, Good(c), chan'[c].came = chan[c].came,
           Hung(c) => Hung(c)',
           \A n \in Signals :
              /\ Places(c, n) = {} => Places(c, n)' = {}
              /\ Hung(c)' \/ (One(Places(c, n)) => One(Places(c, n)'))
    PROVE  \A n \in Signals : Kept(c, n)' /\ NotYet(c, n)'
<1> TAKE n \in Signals
<1>1. NotYet(c, n)'
    BY DEF Good, NotYet
<1>2. Kept(c, n)'
    BY DEF Good, Kept
<1> QED BY <1>1, <1>2

\* The kinds of places are disjoint.
LEMMA Kinds ==
    ASSUME NEW c, NEW n, NEW S, NEW a
    PROVE  /\ \A i : <<"readq", Nobody, i>> \notin
                 Deferred(S, a, n) \cup InHand(c, n) \cup WithOwner(c, n)
           /\ \A e, i : <<"deferred", e, i>> \notin
                 InQueue(c, n) \cup InHand(c, n) \cup WithOwner(c, n)
           /\ <<"thread", Nobody, 1>> \notin
                 InQueue(c, n) \cup Deferred(S, a, n) \cup WithOwner(c, n)
<1>1. \A p \in Deferred(S, a, n) : p[1] = "deferred"
    BY DeferredAre
<1>2. \A p \in InQueue(c, n) : p[1] = "readq"
    BY DEF InQueue
<1>3. \A p \in InHand(c, n) : p[1] = "thread"
    BY DEF InHand
<1>4. \A p \in WithOwner(c, n) : p[1] = "owner"
    BY DEF WithOwner
<1>5. /\ \A i : <<"readq", Nobody, i>>[1] = "readq"
      /\ \A e, i : <<"deferred", e, i>>[1] = "deferred"
      /\ <<"thread", Nobody, 1>>[1] = "thread"
    OBVIOUS
<1> QED BY <1>1, <1>2, <1>3, <1>4, <1>5

LEMMA LastOfTail ==
    ASSUME NEW q \in Seq(Frames), q # <<>>
    PROVE  IF Tail(q) = <<>> THEN Last(q) = Head(q) ELSE Last(Tail(q)) = Last(q)
<1>1. /\ Len(q) \in Nat /\ Len(q) >= 1 /\ Head(q) = q[1]
      /\ Len(Tail(q)) = Len(q) - 1 /\ Tail(q) \in Seq(Frames)
      /\ \A i \in 1 .. Len(q) - 1 : Tail(q)[i] = q[i + 1]
    OBVIOUS
<1>2. CASE Tail(q) = <<>>
    BY <1>1, <1>2 DEF Last
<1>3. CASE Tail(q) # <<>>
    <2>1. Len(q) - 1 \in 1 .. Len(q) - 1
        BY <1>1, <1>3
    <2> QED BY <1>1, <1>3, <2>1 DEF Last
<1> QED BY <1>2, <1>3

\* What ast_read does to a channel that is not marked as hung up.
LEMMA ReadFromIs ==
    ASSUME NEW ch \in Channel, ~ch.soft
    PROVE  /\ FrameOf(ch) = Head(ch.readq)
           /\ ReadFrom(ch).readq = Tail(ch.readq)
           /\ ReadFrom(ch).soft <=> Head(ch.readq) = Hangup
           /\ ReadFrom(ch).came = ch.came /\ ReadFrom(ch).got = ch.got
           /\ ReadFrom(ch).told = ch.told
<1> PICK b \in BOOLEAN : b <=> Head(ch.readq) = Hangup
    OBVIOUS
<1>1. ReadFrom(ch) = [ch EXCEPT !.readq = Tail(ch.readq), !.soft = b]
    BY DEF ReadFrom
<1>2. FrameOf(ch) = Head(ch.readq)
    BY DEF FrameOf
<1> QED BY <1>1, <1>2 DEF Channel

LEMMA HungTail ==
    ASSUME NEW c \in Chans, chan[c].readq \in Seq(Frames),
           chan[c].readq # <<>>, ~chan[c].soft,
           chan'[c].readq = Tail(chan[c].readq),
           chan'[c].soft <=> Head(chan[c].readq) = Hangup
    PROVE  Hung(c) => Hung(c)'
  BY LastOfTail DEF Hung

LEMMA SignalFacts == Null \notin Signals /\ Hangup \notin Signals /\ Null # Hangup
  BY AutoServiceAssumption DEF Signals, Null, Hangup

\* The thread reads a frame into its hand, or throws it away.
LEMMA ReadFrames == ASSUME Inv, FrameInv, Read PROVE FrameInv'
<1>1. /\ tpc = "read" /\ mons[at].chan \in Chans
      /\ UNCHANGED <<heap, asent, user>>
    BY DEF Read, list, users, Inv, TypeOK
<1> PICK c \in Chans : c = mons[at].chan
    BY <1>1
<1>2. /\ chan[c].soft \/ chan[c].readq # <<>>
      /\ chan' = [chan EXCEPT ![c] = ReadFrom(chan[c])]
      /\ IF Keeps(FrameOf(chan[c]))
         THEN /\ tpc' = "defer" /\ hand' = FrameOf(chan[c])
              /\ UNCHANGED <<mons, at>>
         ELSE tpc' = "top"
    BY DEF Read, Loops, Inv, TypeOK
<1>3. /\ chan[c] \in Channel /\ chan[c].readq \in Seq(Frames)
      /\ chan'[c] = ReadFrom(chan[c])
      /\ \A d \in Chans : d # c => chan'[d] = chan[d]
    BY <1>2 DEF Inv, TypeOK, Channel
<1>4. NewInv'
    BY <1>1 DEF FrameInv, NewInv
<1>5. \A d \in Chans : d # c => SameFrames(d) /\ chan'[d] = chan[d]
    BY <1>1, <1>2, <1>3 DEF SameFrames, Full, EntriesOf, InHandOf
<1>6. Good(c)
    BY DEF FrameInv
<1>7. \A n : /\ InHand(c, n) = {} /\ InEntries(c, n)' = InEntries(c, n)
    BY <1>1 DEF InHand, InEntries, EntriesOf
<1>8. CASE chan[c].soft
    <2>1. chan'[c] = chan[c] /\ FrameOf(chan[c]) = Hangup
        BY <1>3, <1>8 DEF ReadFrom, FrameOf
    <2>2. tpc' = "defer" /\ hand' = Hangup /\ UNCHANGED <<mons, at>>
        BY <1>2, <2>1, SignalFacts DEF Keeps
    <2>3. \A n \in Signals : Places(c, n)' = Places(c, n)
        <3> TAKE n \in Signals
        <3>1. InHand(c, n)' = {}
            BY <2>2, SignalFacts DEF InHand
        <3>2. InQueue(c, n)' = InQueue(c, n) /\ WithOwner(c, n)' = WithOwner(c, n)
            BY <2>1 DEF InQueue, WithOwner
        <3> QED BY <1>7, <3>1, <3>2 DEF Places
    <2>4. Hung(c)'
        BY <1>8, <2>1 DEF Hung
    <2>5. \A n \in Signals : Kept(c, n)' /\ NotYet(c, n)'
        BY <1>6, <2>1, <2>3, <2>4, KeptStep
    <2>6. Wakes(c)'
        BY <2>2 DEF Wakes, Finding
    <2> QED BY <1>4, <1>5, <2>5, <2>6, OneGood DEF Good
<1>9. CASE ~chan[c].soft
    <2> DEFINE q == chan[c].readq
    <2>1. /\ q # <<>> /\ FrameOf(chan[c]) = Head(q)
          /\ chan'[c].readq = Tail(q)
          /\ chan'[c].soft <=> Head(q) = Hangup
          /\ chan'[c].came = chan[c].came /\ chan'[c].got = chan[c].got
        BY <1>2, <1>3, <1>9, ReadFromIs
    <2>2. Hung(c) => Hung(c)'
        BY <1>3, <1>9, <2>1, HungTail
    <2>3. ASSUME NEW n \in Signals
          PROVE  /\ Places(c, n) = {} => Places(c, n)' = {}
                 /\ One(Places(c, n)) => One(Places(c, n)')
        <3> DEFINE Q == Holding(q, n)
                   Q2 == Holding(Tail(q), n)
                   D == InEntries(c, n) \cup WithOwner(c, n)
                   P == Places(c, n)
                   P2 == Places(c, n)'
                   x == <<"thread", Nobody, 1>>
        <3>1. P = D \cup {<<"readq", Nobody, i>> : i \in Q}
            BY <1>7 DEF Places, InQueue
        <3>2. InHand(c, n)' = IF 1 \in Q THEN {x} ELSE {}
            <4>1. 1 \in Q <=> Head(q) = n
                BY <1>3, <2>1, HoldingTail
            <4>2. InHand(c, n)' =
                     IF tpc' = "defer" /\ hand' = n /\ mons'[at'].chan = c
                     THEN {x} ELSE {}
                BY DEF InHand
            <4>3. CASE Head(q) = Null
                BY <1>2, <2>1, <4>1, <4>2, <4>3, SignalFacts DEF Keeps
            <4>4. CASE Head(q) # Null
                BY <1>2, <2>1, <4>1, <4>2, <4>4 DEF Keeps
            <4> QED BY <4>3, <4>4
        <3>3. P2 = D \cup {<<"readq", Nobody, i>> : i \in Q2} \cup
                      (IF 1 \in Q THEN {x} ELSE {})
            <4>1. InQueue(c, n)' = {<<"readq", Nobody, i>> : i \in Q2}
                BY <2>1 DEF InQueue
            <4>2. WithOwner(c, n)' = WithOwner(c, n)
                BY <2>1 DEF WithOwner
            <4> QED BY <1>7, <3>2, <4>1, <4>2 DEF Places
        <3>4. \A i \in Nat : <<"readq", Nobody, i>> \notin D
            BY Kinds DEF InEntries
        <3>5. /\ Q \in SUBSET Nat /\ Q2 \in SUBSET Nat
              /\ \A i \in Q : i >= 1
              /\ \A i \in Q2 : i >= 1
              /\ \A i \in Nat : i >= 1 => (i \in Q2 <=> i + 1 \in Q)
            BY <1>3, <2>1, HoldingTail
        <3> HIDE DEF Q, Q2, D, P, P2, x
        <3>6. FirstMoves(P, P2, D, "readq", Nobody, x, Q, Q2)
            BY <3>1, <3>3, <3>4, <3>5 DEF FirstMoves
        <3>7. (One(P) => One(P2)) /\ (P = {} => P2 = {})
            BY <3>6, Shifted
        <3> QED BY <3>7 DEF P, P2
    <2>4. \A n \in Signals : Kept(c, n)' /\ NotYet(c, n)'
        BY <1>6, <2>1, <2>2, <2>3, KeptStep
    <2>5. Wakes(c)'
        <3>1. CASE Head(q) = Hangup
            BY <1>2, <2>1, <3>1, SignalFacts DEF Wakes, Finding, Keeps
        <3>2. CASE Head(q) # Hangup
            BY <2>1, <3>2 DEF Wakes
        <3> QED BY <3>1, <3>2
    <2> QED BY <1>4, <1>5, <2>4, <2>5, OneGood DEF Good
<1> QED BY <1>8, <1>9

\* The owner reads a frame, or is told of the hangup.
LEMMA OwnerReadsFrames ==
    ASSUME Inv, FrameInv, NEW u \in Users, NEW c \in Chans, OwnerReads(u, c)
    PROVE  FrameInv'
<1>1. /\ chan[c].soft \/ chan[c].readq # <<>>
      /\ UNCHANGED <<heap, asent, tpc, mons, at, hand, user>>
      /\ chan[c] \in Channel /\ chan[c].readq \in Seq(Frames)
    BY DEF OwnerReads, list, svc, users, Inv, TypeOK, Channel
<1> DEFINE f == FrameOf(chan[c])
           rd == ReadFrom(chan[c])
           g == chan[c].got \cup ({f} \cap Signals)
<1>2. PICK t \in BOOLEAN : t <=> chan[c].told \/ f = Hangup
    OBVIOUS
<1>3. chan' = [chan EXCEPT ![c] = [rd EXCEPT !.told = t, !.got = g]]
    BY <1>2 DEF OwnerReads
<1>4. rd \in Channel
    BY <1>1, ReadFromType
<1> HIDE DEF rd, g
<1>5. /\ chan'[c].readq = rd.readq /\ chan'[c].soft = rd.soft
      /\ chan'[c].came = rd.came /\ chan'[c].got = g /\ chan'[c].told = t
      /\ \A d \in Chans : d # c => chan'[d] = chan[d]
    BY <1>3, <1>4 DEF Inv, TypeOK, Channel
<1>6. NewInv'
    BY <1>1 DEF FrameInv, NewInv
<1>7. \A d \in Chans : d # c => SameFrames(d) /\ chan'[d] = chan[d]
    BY <1>1, <1>5 DEF SameFrames, Full, EntriesOf, InHandOf
<1>8. Good(c)
    BY DEF FrameInv
<1>9. \A n : /\ InHand(c, n)' = InHand(c, n)
             /\ InEntries(c, n)' = InEntries(c, n)
    BY <1>1 DEF InHand, InEntries, EntriesOf
<1>10. CASE chan[c].soft
    <2>1. f = Hangup /\ rd = chan[c] /\ g = chan[c].got /\ t
        BY <1>2, <1>10, SignalFacts DEF FrameOf, ReadFrom, rd, g
    <2>2. \A n \in Signals : Places(c, n)' = Places(c, n)
        BY <1>5, <1>9, <2>1 DEF Places, InQueue, WithOwner
    <2>3. Hung(c)'
        BY <1>5, <1>10, <2>1 DEF Hung
    <2>4. \A n \in Signals : Kept(c, n)' /\ NotYet(c, n)'
        BY <1>5, <1>8, <2>1, <2>2, <2>3, KeptStep
    <2>5. Wakes(c)'
        BY <1>5, <2>1 DEF Wakes
    <2> QED BY <1>6, <1>7, <2>4, <2>5, OneGood DEF Good
<1>11. CASE ~chan[c].soft
    <2> DEFINE q == chan[c].readq
    <2>1. /\ q # <<>> /\ f = Head(q) /\ rd.readq = Tail(q)
          /\ rd.soft <=> Head(q) = Hangup
          /\ rd.came = chan[c].came
        BY <1>1, <1>11, ReadFromIs DEF rd
    <2>2. Hung(c) => Hung(c)'
        BY <1>1, <1>5, <1>11, <2>1, HungTail
    <2>3. ASSUME NEW n \in Signals
          PROVE  /\ Places(c, n) = {} => Places(c, n)' = {}
                 /\ One(Places(c, n)) => One(Places(c, n)')
        <3> DEFINE Q == Holding(q, n)
                   Q2 == Holding(Tail(q), n)
                   D == InEntries(c, n) \cup InHand(c, n) \cup WithOwner(c, n)
                   P == Places(c, n)
                   P2 == Places(c, n)'
                   x == <<"owner", Nobody, n>>
        <3>1. P = D \cup {<<"readq", Nobody, i>> : i \in Q}
            BY DEF Places, InQueue
        <3>2. WithOwner(c, n)' =
                  WithOwner(c, n) \cup (IF 1 \in Q THEN {x} ELSE {})
            <4>1. 1 \in Q <=> f = n
                BY <1>1, <2>1, HoldingTail
            <4>2. g \cap {n} =
                     (chan[c].got \cap {n}) \cup (IF 1 \in Q THEN {n} ELSE {})
                BY <4>1 DEF g
            <4>3. WithOwner(c, n)' = {<<"owner", Nobody, i>> : i \in g \cap {n}}
                BY <1>5 DEF WithOwner
            <4>4. CASE 1 \in Q
                BY <4>2, <4>3, <4>4 DEF WithOwner
            <4>5. CASE 1 \notin Q
                BY <4>2, <4>3, <4>5 DEF WithOwner
            <4> QED BY <4>4, <4>5
        <3>3. P2 = D \cup {<<"readq", Nobody, i>> : i \in Q2} \cup
                      (IF 1 \in Q THEN {x} ELSE {})
            <4>1. InQueue(c, n)' = {<<"readq", Nobody, i>> : i \in Q2}
                BY <1>5, <2>1 DEF InQueue
            <4> QED BY <1>9, <3>2, <4>1 DEF Places
        <3>4. \A i \in Nat : <<"readq", Nobody, i>> \notin D
            BY Kinds DEF InEntries
        <3>5. /\ Q \in SUBSET Nat /\ Q2 \in SUBSET Nat
              /\ \A i \in Q : i >= 1
              /\ \A i \in Q2 : i >= 1
              /\ \A i \in Nat : i >= 1 => (i \in Q2 <=> i + 1 \in Q)
            BY <1>1, <2>1, HoldingTail
        <3> HIDE DEF Q, Q2, D, P, P2, x
        <3>6. FirstMoves(P, P2, D, "readq", Nobody, x, Q, Q2)
            BY <3>1, <3>3, <3>4, <3>5 DEF FirstMoves
        <3>7. (One(P) => One(P2)) /\ (P = {} => P2 = {})
            BY <3>6, Shifted
        <3> QED BY <3>7 DEF P, P2
    <2>4. \A n \in Signals : Kept(c, n)' /\ NotYet(c, n)'
        BY <1>5, <1>8, <2>1, <2>2, <2>3, KeptStep
    <2>5. Wakes(c)'
        BY <1>2, <1>5, <2>1 DEF Wakes
    <2> QED BY <1>6, <1>7, <2>4, <2>5, OneGood DEF Good
<1> QED BY <1>10, <1>11

\* The places X are those in D and those in queue q of entry e.
With(X, D, e, q, n) == X = D \cup {<<"deferred", e, i>> : i \in Holding(q, n)}

\* The frames of one entry become q; those of the others stay.
LEMMA EntryChanged ==
    ASSUME Inv, NEW c, NEW e \in EntriesOf(c), NEW q, NEW n, heap' = heap,
           asent' = [asent EXCEPT ![e] = [asent[e] EXCEPT !.deferred_frames = q]],
           NEW D, D = Deferred(EntriesOf(c) \ {e}, asent, n)
    PROVE  /\ With(InEntries(c, n), D, e, asent[e].deferred_frames, n)
           /\ With(InEntries(c, n)', D, e, q, n)
           /\ \A i : <<"deferred", e, i>> \notin D
<1> DEFINE S == EntriesOf(c)
           R == S \ {e}
           b == asent'
<1>1. /\ \A f \in Entries : b[f].chan = asent[f].chan
      /\ \A f \in Entries : f # e => b[f] = asent[f]
      /\ e \in Entries /\ heap \subseteq Entries
      /\ b[e].deferred_frames = q
    BY DEF Inv, TypeOK, Asent, EntriesOf
<1>2. EntriesOf(c)' = S
    BY <1>1 DEF EntriesOf
<1>3. \A f \in R : b[f].deferred_frames = asent[f].deferred_frames
    BY <1>1 DEF EntriesOf
<1>4. e \in S /\ D = Deferred(R, asent, n)
    OBVIOUS
<1>5. /\ InEntries(c, n) = Deferred(S, asent, n)
      /\ InEntries(c, n)' = Deferred(S, b, n)
    BY <1>2 DEF InEntries
<1> HIDE DEF S, b
<1>6. ASSUME NEW a
      PROVE  /\ Deferred(S, a, n) = Deferred(R, a, n) \cup
                    {<<"deferred", e, i>> : i \in Holding(a[e].deferred_frames, n)}
             /\ \A i : <<"deferred", e, i>> \notin Deferred(R, a, n)
    BY <1>4, DeferredSplit, Zenon
<1> HIDE DEF R
<1>7. Deferred(R, asent, n) = Deferred(R, b, n)
    BY <1>3, DeferredSame
<1>8. Deferred(S, b, n) = Deferred(R, b, n) \cup
          {<<"deferred", e, i>> : i \in Holding(b[e].deferred_frames, n)}
    BY <1>6, Zenon
<1>9. Deferred(S, b, n) = D \cup {<<"deferred", e, i>> : i \in Holding(q, n)}
    BY <1>1, <1>4, <1>7, <1>8
<1>10. /\ Deferred(S, asent, n) = D \cup {<<"deferred", e, i>> :
                  i \in Holding(asent[e].deferred_frames, n)}
       /\ \A i : <<"deferred", e, i>> \notin D
    BY <1>4, <1>6, Zenon
<1> QED BY <1>5, <1>9, <1>10, Zenon DEF With

LEMMA OtherEntries ==
    ASSUME Inv, NEW c, NEW e \in heap, asent[e].chan = c, asent'[e].chan = c,
           \A f \in Entries : f # e => asent'[f] = asent[f], heap' = heap
    PROVE  \A d \in Chans : d # c =>
              /\ Full(d)' = Full(d)
              /\ \A f \in Full(d) :
                    asent'[f].deferred_frames = asent[f].deferred_frames
<1>1. heap \subseteq Entries
    BY DEF Inv, TypeOK
<1>2. ASSUME NEW d \in Chans, d # c PROVE EntriesOf(d)' = EntriesOf(d)
    BY <1>1, <1>2 DEF EntriesOf
<1>3. ASSUME NEW d \in Chans, d # c, NEW f \in EntriesOf(d)
      PROVE  asent'[f] = asent[f]
    BY <1>1, <1>3 DEF EntriesOf
<1>4. ASSUME NEW d \in Chans, d # c
      PROVE  /\ Full(d)' = Full(d)
             /\ \A f \in Full(d) :
                    asent'[f].deferred_frames = asent[f].deferred_frames
    <2>1. \A f \in EntriesOf(d) : asent'[f] = asent[f]
        BY <1>3, <1>4
    <2> QED BY <1>2, <1>4, <2>1 DEF Full
<1> QED BY <1>4

LEMMA DeferFrames == ASSUME Inv, FrameInv, Defer PROVE FrameInv'
<1>1. PICK i \in DOMAIN mons :
        /\ tpc = "defer" /\ mons[i].chan = mons[at].chan
        /\ asent' = [asent EXCEPT ![mons[i].ent].deferred_frames =
                         Append(asent[mons[i].ent].deferred_frames, hand)]
        /\ tpc' = "top"
        /\ UNCHANGED <<heap, chan, user>>
    BY DEF Defer, Takes, Loops, users
<1>2. /\ mons[i].ent \in heap /\ mons[i].ent \in Entries
      /\ mons[i].chan \in Chans /\ asent[mons[i].ent].chan = mons[i].chan
    BY <1>1, HeldAlive DEF Busy
<1> PICK e \in Entries, c \in Chans : e = mons[i].ent /\ c = mons[i].chan
    BY <1>2
<1> DEFINE q == asent[e].deferred_frames
           q2 == Append(q, hand)
<1>3. /\ e \in heap /\ asent[e].chan = c /\ e \in EntriesOf(c)
      /\ mons[at].chan = c /\ q \in Seq(Frames) /\ hand \in Frames
      /\ asent' = [asent EXCEPT ![e].deferred_frames = q2]
    BY <1>1, <1>2 DEF EntriesOf, Inv, TypeOK, Asent
<1>4. /\ \A f \in Entries : f # e => asent'[f] = asent[f]
      /\ asent'[e].chan = c /\ asent'[e].deferred_frames = q2
    BY <1>3 DEF Inv, TypeOK, Asent
<1>5. NewInv'
    <2>1. Held(e)
        BY <1>1, <1>2 DEF Held, Inv, HoldInv, Busy
    <2>2. ASSUME NEW u \in Users, user[u].pc = "insert"
          PROVE  asent'[user[u].ent].deferred_frames = <<>>
        <3>1. user[u].ent # e /\ user[u].ent \in Entries
            BY <2>1, <2>2, OwnNotHeld, UserFacts DEF Own
        <3> QED BY <1>4, <2>2, <3>1 DEF FrameInv, NewInv
    <2> QED BY <1>1, <2>2 DEF NewInv
<1>6. \A d \in Chans : d # c => SameFrames(d) /\ chan'[d] = chan[d]
    <2>1. \A d \in Chans : d # c =>
             /\ Full(d)' = Full(d)
             /\ \A f \in Full(d) :
                    asent'[f].deferred_frames = asent[f].deferred_frames
        BY <1>1, <1>3, <1>4, OtherEntries
    <2> QED BY <1>1, <1>3, <2>1 DEF SameFrames, InHandOf
<1>7. Good(c)
    BY DEF FrameInv
<1>8. Hung(c)' <=> Hung(c)
    BY <1>1 DEF Hung
<1>9. ASSUME NEW n \in Signals
      PROVE  /\ Places(c, n) = {} => Places(c, n)' = {}
             /\ One(Places(c, n)) => One(Places(c, n)')
    <2> PICK B \in BOOLEAN : B <=> hand = n
        OBVIOUS
    <2> DEFINE E == Deferred(EntriesOf(c) \ {e}, asent, n)
               D == InQueue(c, n) \cup InEntries(c, n) \cup WithOwner(c, n)
               P == Places(c, n)
               P2 == Places(c, n)'
               t == <<"thread", Nobody, 1>>
               x == <<"deferred", e, Len(q) + 1>>
               new == IF B THEN {x} ELSE {}
    <2>1. P = D \cup (IF B THEN {t} ELSE {})
        BY <1>1, <1>3 DEF Places, InHand
    <2>2. /\ InEntries(c, n) =
                E \cup {<<"deferred", e, k>> : k \in Holding(q, n)}
          /\ InEntries(c, n)' =
                E \cup {<<"deferred", e, k>> : k \in Holding(q2, n)}
        <3>1. heap' = heap
            BY <1>1
        <3>2. E = Deferred(EntriesOf(c) \ {e}, asent, n)
            OBVIOUS
        <3>3. e \in EntriesOf(c)
              /\ asent' = [asent EXCEPT ![e] =
                              [asent[e] EXCEPT !.deferred_frames = q2]]
            BY <1>3
        <3> HIDE DEF q2, E
        <3>4. /\ With(InEntries(c, n), E, e, asent[e].deferred_frames, n)
              /\ With(InEntries(c, n)', E, e, q2, n)
            BY <3>1, <3>2, <3>3, EntryChanged
        <3> QED BY <3>4, Zenon DEF With
    <2>3. Holding(q2, n) = Holding(q, n) \cup (IF B THEN {Len(q) + 1} ELSE {})
        BY <1>3, HoldingAppend
    <2>4. InEntries(c, n)' = InEntries(c, n) \cup new
        <3> HIDE DEF E, q2
        <3>1. CASE B
            BY <2>2, <2>3, <3>1
        <3>2. CASE ~B
            BY <2>2, <2>3, <3>2
        <3> QED BY <3>1, <3>2
    <2>5. InHand(c, n)' = {}
        BY <1>1 DEF InHand
    <2>6. InQueue(c, n)' = InQueue(c, n) /\ WithOwner(c, n)' = WithOwner(c, n)
        BY <1>1 DEF InQueue, WithOwner
    <2>7. P2 = D \cup new
        <3> HIDE DEF new
        <3> QED BY <2>4, <2>5, <2>6 DEF Places
    <2>8. t \notin D
        BY Kinds DEF InEntries
    <2> HIDE DEF P, P2, D, t, x
    <2>9. Moves(P, P2, D, t, x, B)
        BY <2>1, <2>7, <2>8 DEF Moves
    <2>10. (One(P) => One(P2)) /\ (P = {} => P2 = {})
        BY <2>9, HandedOn
    <2> QED BY <2>10 DEF P, P2
<1>10. \A n \in Signals : Kept(c, n)' /\ NotYet(c, n)'
    BY <1>1, <1>7, <1>8, <1>9, KeptStep
<1>11. Wakes(c)'
    <2>1. q2 # <<>>
        BY <1>3
    <2> QED BY <1>1, <1>3, <1>4, <2>1 DEF Wakes, Finding
<1> QED BY <1>5, <1>6, <1>10, <1>11, OneGood DEF Good

\* A frame f is queued behind the others.
LEMMA QueuePlaces ==
    ASSUME NEW c \in Chans, NEW f, NEW n, chan[c].readq \in Seq(Frames),
           chan'[c].readq = Append(chan[c].readq, f)
    PROVE  /\ f # n => InQueue(c, n)' = InQueue(c, n)
           /\ f = n => InQueue(c, n)' = InQueue(c, n) \cup
                           {<<"readq", Nobody, Len(chan[c].readq) + 1>>}
<1> DEFINE q == chan[c].readq
<1>1. Holding(Append(q, f), n) =
          Holding(q, n) \cup (IF f = n THEN {Len(q) + 1} ELSE {})
    BY HoldingAppend
<1>2. /\ InQueue(c, n) = {<<"readq", Nobody, i>> : i \in Holding(q, n)}
      /\ InQueue(c, n)' =
             {<<"readq", Nobody, i>> : i \in Holding(Append(q, f), n)}
    BY DEF InQueue
<1> HIDE DEF q
<1>3. CASE f = n
    BY <1>1, <1>2, <1>3 DEF q
<1>4. CASE f # n
    BY <1>1, <1>2, <1>4 DEF q
<1> QED BY <1>3, <1>4

\* A stop gives a frame back, unless a hangup waits in the queue already.
LEMMA FlushFrames ==
    ASSUME Inv, FrameInv, NEW u \in Users, Flush(u)
    PROVE  FrameInv'
<1>1. /\ user[u].pc = "flush" /\ user[u].on \in Chans /\ user[u].ent \in Entries
      /\ user[u].ent \in heap /\ asent[user[u].ent].chan = user[u].on
      /\ \A v \in Users \ {u} : user[v].ent # user[u].ent
    BY UserFacts, OwnEntry DEF Flush, Own
<1> PICK e \in Entries, c \in Chans : e = user[u].ent /\ c = user[u].on
    BY <1>1
<1> DEFINE d == asent[e].deferred_frames
           d2 == Tail(d)
           q == chan[c].readq
           f == Head(d)
           q2 == Queue(q, f)
<1>2. /\ d # <<>>
      /\ chan' = [chan EXCEPT ![c] = [chan[c] EXCEPT !.readq = q2]]
      /\ asent' = [asent EXCEPT ![e] = [asent[e] EXCEPT !.deferred_frames = d2]]
      /\ UNCHANGED <<heap, tpc, mons, at, hand, user>>
    BY DEF Flush, Queued, svc, users
<1>3. /\ d \in Seq(Frames) /\ q \in Seq(Frames) /\ f \in Frames
      /\ e \in EntriesOf(c) /\ q2 # <<>>
    <2>1. d \in Seq(Frames) /\ q \in Seq(Frames)
        BY DEF Inv, TypeOK, Asent, Channel
    <2>2. f \in Frames
        BY <1>2, <2>1, HeadTailType
    <2> QED BY <1>1, <2>1, <2>2, QueueType DEF EntriesOf
<1> HIDE DEF d2, q2
<1>4. /\ chan'[c].readq = q2 /\ chan'[c].soft = chan[c].soft
      /\ chan'[c].came = chan[c].came /\ chan'[c].got = chan[c].got
      /\ \A x \in Chans : x # c => chan'[x] = chan[x]
    BY <1>2 DEF Inv, TypeOK, Channel
<1>5. /\ asent'[e].deferred_frames = d2 /\ asent'[e].chan = c
      /\ \A x \in Entries : x # e => asent'[x] = asent[x]
    BY <1>1, <1>2 DEF Inv, TypeOK, Asent
<1>6. NewInv'
    <2>1. ASSUME NEW v \in Users, user[v].pc = "insert"
          PROVE  asent'[user[v].ent].deferred_frames = <<>>
        <3>1. user[v].ent # e /\ user[v].ent \in Entries
            BY <1>1, <2>1, UserFacts
        <3> QED BY <1>5, <2>1, <3>1 DEF FrameInv, NewInv
    <2> QED BY <1>2, <2>1 DEF NewInv
<1>7. \A x \in Chans : x # c => SameFrames(x) /\ chan'[x] = chan[x]
    <2>1. \A x \in Chans : x # c =>
             /\ Full(x)' = Full(x)
             /\ \A g \in Full(x) :
                    asent'[g].deferred_frames = asent[g].deferred_frames
        BY <1>1, <1>2, <1>5, OtherEntries
    <2> QED BY <1>2, <1>4, <2>1 DEF SameFrames, InHandOf
<1>8. Good(c)
    BY DEF FrameInv
<1>9. ASSUME NEW n \in Signals
      PROVE  /\ InHand(c, n)' = InHand(c, n) /\ WithOwner(c, n)' = WithOwner(c, n)
             /\ With(InEntries(c, n),
                     Deferred(EntriesOf(c) \ {e}, asent, n), e, d, n)
             /\ With(InEntries(c, n)',
                     Deferred(EntriesOf(c) \ {e}, asent, n), e, d2, n)
             /\ \A i : <<"deferred", e, i>> \notin
                           Deferred(EntriesOf(c) \ {e}, asent, n)
    <2>1. /\ InHand(c, n)' = InHand(c, n) /\ WithOwner(c, n)' = WithOwner(c, n)
        BY <1>2, <1>4 DEF InHand, WithOwner
    <2> PICK E : E = Deferred(EntriesOf(c) \ {e}, asent, n)
        OBVIOUS
    <2>2. /\ With(InEntries(c, n), E, e, asent[e].deferred_frames, n)
          /\ With(InEntries(c, n)', E, e, d2, n)
          /\ \A i : <<"deferred", e, i>> \notin E
        BY <1>2, <1>3, EntryChanged
    <2> QED BY <2>1, <2>2
<1>10. ASSUME NEW n \in Signals, NEW P2,
              P2 = InQueue(c, n) \cup InEntries(c, n)' \cup InHand(c, n)
                     \cup WithOwner(c, n) \cup
                     (IF f = n THEN {<<"readq", Nobody, Len(q) + 1>>} ELSE {})
       PROVE  (One(Places(c, n)) => One(P2)) /\ (Places(c, n) = {} => P2 = {})
    <2> PICK E : E = Deferred(EntriesOf(c) \ {e}, asent, n)
        OBVIOUS
    <2> DEFINE Q == Holding(d, n)
               Q2 == Holding(d2, n)
               D == E \cup InQueue(c, n) \cup InHand(c, n) \cup WithOwner(c, n)
               P == Places(c, n)
               x == <<"readq", Nobody, Len(q) + 1>>
    <2>1. /\ InEntries(c, n) = E \cup {<<"deferred", e, i>> : i \in Q}
          /\ InEntries(c, n)' = E \cup {<<"deferred", e, i>> : i \in Q2}
        BY <1>9, Zenon DEF With
    <2>2. P = D \cup {<<"deferred", e, i>> : i \in Q}
        BY <2>1 DEF Places
    <2>3. 1 \in Q <=> f = n
        BY <1>2, <1>3, HoldingTail
    <2>4. P2 = D \cup {<<"deferred", e, i>> : i \in Q2} \cup
                  (IF 1 \in Q THEN {x} ELSE {})
        <3>1. P2 = D \cup {<<"deferred", e, i>> : i \in Q2} \cup
                      (IF f = n THEN {x} ELSE {})
            <4> HIDE DEF Q2, x, f
            <4> QED BY <1>10, <2>1 DEF x
        <3> QED BY <2>3, <3>1
    <2>5. \A i \in Nat : <<"deferred", e, i>> \notin D
        BY <1>9, Kinds
    <2>6. /\ Q \in SUBSET Nat /\ Q2 \in SUBSET Nat
          /\ \A i \in Q : i >= 1
          /\ \A i \in Q2 : i >= 1
          /\ \A i \in Nat : i >= 1 => (i \in Q2 <=> i + 1 \in Q)
        BY <1>2, <1>3, HoldingTail DEF d2
    <2> HIDE DEF Q, Q2, D, P, x
    <2>7. FirstMoves(P, P2, D, "deferred", e, x, Q, Q2)
        BY <2>2, <2>4, <2>5, <2>6 DEF FirstMoves
    <2>8. (One(P) => One(P2)) /\ (P = {} => P2 = {})
        BY <2>7, Shifted
    <2> QED BY <2>8 DEF P
<1>11. \A n \in Signals : Kept(c, n)' /\ NotYet(c, n)'
    <2>1. CASE q # <<>> /\ Last(q) = Hangup
        <3>1. q2 = q
            BY <2>1 DEF q2, Queue
        <3>2. Hung(c) /\ Hung(c)'
            BY <1>4, <2>1, <3>1 DEF Hung
        <3>3. ASSUME NEW n \in Signals, Places(c, n) = {}
              PROVE  Places(c, n)' = {}
            <4> PICK P2 :
                  P2 = InQueue(c, n) \cup InEntries(c, n)' \cup InHand(c, n)
                     \cup WithOwner(c, n) \cup
                     (IF f = n THEN {<<"readq", Nobody, Len(q) + 1>>} ELSE {})
                OBVIOUS
            <4>1. P2 = {}
                BY <1>10, <3>3
            <4>2. InQueue(c, n)' = InQueue(c, n)
                BY <1>4, <3>1 DEF InQueue
            <4>3. Places(c, n)' \subseteq P2
                BY <1>9, <4>2 DEF Places
            <4> QED BY <4>1, <4>3
        <3> QED BY <1>4, <1>8, <3>2, <3>3, KeptStep
    <2>2. CASE ~(q # <<>> /\ Last(q) = Hangup)
        <3>1. q2 = Append(q, f)
            BY <2>2 DEF q2, Queue
        <3>2. Hung(c) => Hung(c)'
            BY <1>4, <2>2 DEF Hung
        <3>3. ASSUME NEW n \in Signals
              PROVE  /\ Places(c, n) = {} => Places(c, n)' = {}
                     /\ One(Places(c, n)) => One(Places(c, n)')
            <4>1. InQueue(c, n)' = InQueue(c, n) \cup
                     (IF f = n THEN {<<"readq", Nobody, Len(q) + 1>>} ELSE {})
                <5>1. /\ chan[c].readq \in Seq(Frames)
                      /\ chan'[c].readq = Append(chan[c].readq, f)
                    BY <1>3, <1>4, <3>1
                <5> HIDE DEF f
                <5>2. /\ f # n => InQueue(c, n)' = InQueue(c, n)
                      /\ f = n => InQueue(c, n)' = InQueue(c, n) \cup
                                      {<<"readq", Nobody, Len(q) + 1>>}
                    BY <5>1, QueuePlaces
                <5>3. CASE f = n
                    BY <5>2, <5>3
                <5>4. CASE f # n
                    BY <5>2, <5>4
                <5> QED BY <5>3, <5>4
            <4>2. Places(c, n)' = InQueue(c, n) \cup InEntries(c, n)'
                     \cup InHand(c, n) \cup WithOwner(c, n) \cup
                     (IF f = n THEN {<<"readq", Nobody, Len(q) + 1>>} ELSE {})
                BY <1>9, <4>1 DEF Places
            <4> QED BY <1>10, <4>2
        <3> QED BY <1>4, <1>8, <3>2, <3>3, KeptStep
    <2> QED BY <2>1, <2>2
<1>12. Wakes(c)'
    BY <1>3, <1>4 DEF Wakes, Finding
<1> QED BY <1>6, <1>7, <1>11, <1>12, OneGood DEF Good

-----------------------------------------------------------------------------
(* Frames and hangups that come from outside *)

LEMMA QueueFrames ==
    ASSUME Inv, FrameInv, NEW c \in Chans, NEW f \in Frames,
           UNCHANGED <<heap, asent, tpc, mons, at, hand, user>>,
           chan'[c].readq = Queue(chan[c].readq, f),
           chan'[c].got = chan[c].got,
           \A d \in Chans : d # c => chan'[d] = chan[d]
    PROVE  /\ NewInv' /\ Wakes(c)'
           /\ \A d \in Chans : d # c => SameFrames(d) /\ chan'[d] = chan[d]
           /\ \A n : f # n => Places(c, n)' = Places(c, n)
<1>1. chan[c].readq \in Seq(Frames)
    BY DEF Inv, TypeOK, Channel
<1>2. NewInv'
    BY DEF FrameInv, NewInv
<1>3. Wakes(c)'
    BY <1>1, QueueType DEF Wakes, Finding
<1>4. \A d \in Chans : d # c => SameFrames(d) /\ chan'[d] = chan[d]
    BY DEF SameFrames, Full, EntriesOf, InHandOf
<1>5. ASSUME NEW n, f # n PROVE Places(c, n)' = Places(c, n)
    <2>1. InQueue(c, n)' = InQueue(c, n)
        <3>1. CASE chan'[c].readq = chan[c].readq
            BY <3>1 DEF InQueue
        <3>2. CASE chan'[c].readq = Append(chan[c].readq, f)
            BY <1>1, <1>5, <3>2, QueuePlaces
        <3> QED BY <3>1, <3>2 DEF Queue
    <2>2. /\ InEntries(c, n)' = InEntries(c, n)
          /\ InHand(c, n)' = InHand(c, n)
          /\ WithOwner(c, n)' = WithOwner(c, n)
        BY DEF InEntries, EntriesOf, InHand, WithOwner
    <2> QED BY <2>1, <2>2 DEF Places
<1> QED BY <1>2, <1>3, <1>4, <1>5

LEMMA SignalFrames ==
    ASSUME Inv, FrameInv, NEW c \in Chans, Signal(c)
    PROVE  FrameInv'
<1> DEFINE m == chan[c].came + 1
           q == chan[c].readq
<1>1. /\ chan[c] \in Channel /\ q \in Seq(Frames) /\ chan[c].came \in Nat
      /\ m \in Signals /\ m \in Frames /\ m \in Nat
    BY AutoServiceAssumption
       DEF Signal, Inv, TypeOK, Channel, Signals, Frames
<1>2. /\ chan' = [chan EXCEPT ![c] = [Queued(chan[c], m) EXCEPT !.came = m]]
      /\ UNCHANGED <<heap, asent, tpc, mons, at, hand, user>>
    BY DEF Signal, list, svc, users
<1>3. /\ chan'[c].readq = Queue(q, m) /\ chan'[c].came = m
      /\ chan'[c].soft = chan[c].soft /\ chan'[c].got = chan[c].got
      /\ \A d \in Chans : d # c => chan'[d] = chan[d]
    BY <1>1, <1>2 DEF Queued, Inv, TypeOK, Channel
<1>4. /\ NewInv' /\ Wakes(c)'
      /\ \A d \in Chans : d # c => SameFrames(d) /\ chan'[d] = chan[d]
      /\ \A n : m # n => Places(c, n)' = Places(c, n)
    <2> HIDE DEF m
    <2> QED BY <1>1, <1>2, <1>3, QueueFrames
<1>5. Good(c)
    BY DEF FrameInv
<1>6. Hung(c) => Hung(c)'
    BY <1>3 DEF Hung, Queue
<1>7. ASSUME NEW n \in Signals PROVE Kept(c, n)' /\ NotYet(c, n)'
    <2>1. n \in Nat
        BY DEF Signals
    <2>2. CASE n # m
        <3>1. n <= m => n <= chan[c].came
            BY <1>1, <2>1, <2>2
        <3>2. n > m => n > chan[c].came
            BY <1>1, <2>1, <2>2
        <3>3. Kept(c, n) /\ NotYet(c, n)
            BY <1>5 DEF Good
        <3>4. Places(c, n)' = Places(c, n)
            BY <1>4, <2>2
        <3> HIDE DEF m
        <3> QED BY <1>3, <1>6, <3>1, <3>2, <3>3, <3>4 DEF Kept, NotYet
    <2>3. CASE n = m
        <3>1. n > chan[c].came /\ ~(n > m)
            BY <1>1, <2>3
        <3>2. Places(c, n) = {}
            BY <1>5, <3>1 DEF Good, NotYet
        <3>3. CASE q # <<>> /\ Last(q) = Hangup
            <4>1. Hung(c)'
                BY <1>6, <3>3 DEF Hung
            <4> QED BY <1>3, <3>1, <4>1 DEF Kept, NotYet
        <3>4. CASE ~(q # <<>> /\ Last(q) = Hangup)
            <4>1. chan'[c].readq = Append(q, m)
                BY <1>3, <3>4 DEF Queue
            <4>2. InQueue(c, n)' =
                      InQueue(c, n) \cup {<<"readq", Nobody, Len(q) + 1>>}
                <5> HIDE DEF m
                <5> QED BY <1>1, <2>3, <4>1, QueuePlaces
            <4>3. /\ InEntries(c, n)' = InEntries(c, n)
                  /\ InHand(c, n)' = InHand(c, n)
                  /\ WithOwner(c, n)' = WithOwner(c, n)
                BY <1>2, <1>3 DEF InEntries, EntriesOf, InHand, WithOwner
            <4>4. Places(c, n)' = {<<"readq", Nobody, Len(q) + 1>>}
                BY <3>2, <4>2, <4>3 DEF Places
            <4>5. One(Places(c, n)')
                BY <4>4 DEF One
            <4> QED BY <1>3, <3>1, <4>5 DEF Kept, NotYet
        <3> QED BY <3>3, <3>4
    <2> QED BY <2>2, <2>3
<1> QED BY <1>4, <1>7, OneGood DEF Good

\* After a hangup has been queued nothing is promised of the signals, but
\* that none appears that has not come.
LEMMA HangupFrames ==
    ASSUME Inv, FrameInv, NEW c \in Chans, DeviceHangup(c) \/ SoftHangup(c)
    PROVE  FrameInv'
<1> DEFINE q == chan[c].readq
<1>1. chan[c] \in Channel /\ q \in Seq(Frames)
    BY DEF Inv, TypeOK, Channel
<1>2. PICK f \in {Hangup, Null}, b \in BOOLEAN :
         /\ chan' = [chan EXCEPT ![c] =
                        [chan[c] EXCEPT !.readq = Queue(q, f), !.soft = b]]
         /\ f = Hangup \/ b
    BY DEF DeviceHangup, SoftHangup, Queued
<1>3. f \in Frames /\ \A n \in Signals : f # n
    BY FrameTypes, SignalFacts
<1>4. /\ chan'[c].readq = Queue(q, f) /\ chan'[c].soft = b
      /\ chan'[c].came = chan[c].came /\ chan'[c].got = chan[c].got
      /\ \A d \in Chans : d # c => chan'[d] = chan[d]
    BY <1>1, <1>2 DEF Inv, TypeOK, Channel
<1>5. UNCHANGED <<heap, asent, tpc, mons, at, hand, user>>
    BY DEF DeviceHangup, SoftHangup, list, svc, users
<1>6. /\ NewInv' /\ Wakes(c)'
      /\ \A d \in Chans : d # c => SameFrames(d) /\ chan'[d] = chan[d]
      /\ \A n : f # n => Places(c, n)' = Places(c, n)
    BY <1>3, <1>4, <1>5, QueueFrames
<1>7. Good(c)
    BY DEF FrameInv
<1>8. Hung(c)'
    <2>1. CASE b
        BY <1>4, <2>1 DEF Hung
    <2>2. CASE f = Hangup
        <3>1. Last(Queue(q, Hangup)) = Hangup /\ Queue(q, Hangup) # <<>>
            <4>1. /\ Last(Append(q, Hangup)) = Hangup
                  /\ Append(q, Hangup) # <<>>
                BY <1>1 DEF Last
            <4> QED BY <4>1 DEF Queue
        <3> QED BY <1>4, <2>2, <3>1 DEF Hung
    <2> QED BY <1>2, <2>1, <2>2
<1>9. \A n \in Signals : Kept(c, n)' /\ NotYet(c, n)'
    BY <1>3, <1>4, <1>6, <1>7, <1>8, KeptStep
<1> QED BY <1>6, <1>9, OneGood DEF Good

-----------------------------------------------------------------------------
(* Channels that come and go *)

\* No entry is of a channel that is not in the list and on which nobody
\* works but one who is about to free it.
LEMMA NoEntries ==
    ASSUME Inv, EntryInv, NEW c \in Chans, Listed(c) = {},
           \A u \in Users : user[u].on = c => user[u].pc = "free"
    PROVE  EntriesOf(c) = {}
<1>1. ASSUME NEW e \in heap PROVE asent[e].chan # c
    <2>1. CASE e \in L
        BY <2>1 DEF L, Listed
    <2>2. ASSUME NEW u \in Users, user[u].pc \in Own, user[u].ent = e
          PROVE  asent[e].chan # c
        BY <2>2, UserFacts DEF Own
    <2> QED BY <2>1, <2>2 DEF EntryInv, Owned
<1> QED BY <1>1 DEF EntriesOf

LEMMA ChannelFrames ==
    ASSUME Inv, EntryInv, FrameInv,
           \/ \E u \in Users : FreeChannel(u)
           \/ \E c \in Chans : NewChannel(c)
    PROVE  FrameInv'
<1>1. ASSUME NEW c \in Chans, EntriesOf(c) = {}, NEW r,
             r.readq = <<>>, r.came = 0, r.got = {}, r.soft = FALSE,
             chan' = [chan EXCEPT ![c] = r],
             UNCHANGED <<heap, asent, tpc, mons, at, hand>>, NewInv'
      PROVE  FrameInv'
    <2>1. /\ chan'[c].readq = <<>> /\ chan'[c].came = 0 /\ chan'[c].got = {}
          /\ chan'[c].soft = FALSE
          /\ \A d \in Chans : d # c => chan'[d] = chan[d]
        BY <1>1 DEF Inv, TypeOK
    <2>2. ~InHandOf(c)
        <3>1. ASSUME InHandOf(c) PROVE FALSE
            <4>1. at \in DOMAIN mons /\ tpc \in Busy
                BY <3>1 DEF InHandOf, Busy, Inv, TypeOK
            <4>2. mons[at].ent \in EntriesOf(c)
                BY <3>1, <4>1, HeldAlive DEF EntriesOf, InHandOf
            <4> QED BY <1>1, <4>2
        <3> QED BY <3>1
    <2>3. \A d \in Chans : d # c => SameFrames(d) /\ chan'[d] = chan[d]
        BY <1>1, <2>1 DEF SameFrames, Full, EntriesOf, InHandOf
    <2>4. ASSUME NEW n PROVE Places(c, n)' = {}
        <3>1. InQueue(c, n)' = {} /\ WithOwner(c, n)' = {}
            BY <2>1 DEF InQueue, WithOwner, Holding
        <3>2. InHand(c, n)' = {}
            BY <1>1, <2>2 DEF InHand, InHandOf
        <3>3. InEntries(c, n)' = {}
            BY <1>1 DEF InEntries, EntriesOf, Deferred
        <3> QED BY <3>1, <3>2, <3>3 DEF Places
    <2>5. ASSUME NEW n \in Signals PROVE Kept(c, n)' /\ NotYet(c, n)'
        <3>1. ~(n <= 0)
            BY AutoServiceAssumption DEF Signals
        <3> QED BY <2>1, <2>4, <3>1 DEF Kept, NotYet
    <2>6. Wakes(c)'
        BY <2>1 DEF Wakes
    <2> QED BY <1>1, <2>3, <2>5, <2>6, OneGood DEF Good
<1>2. ASSUME NEW u \in Users, FreeChannel(u) PROVE FrameInv'
    <2>1. user[u].pc = "free" /\ user[u].on \in Chans
        BY <1>2, UserFacts DEF FreeChannel
    <2> PICK c \in Chans : c = user[u].on
        BY <2>1
    <2> DEFINE r == [Fresh EXCEPT !.alive = FALSE]
    <2>2. /\ chan' = [chan EXCEPT ![c] = r]
          /\ user' = [user EXCEPT ![u] = Idle]
          /\ UNCHANGED <<heap, asent, tpc, mons, at, hand>>
        BY <1>2 DEF FreeChannel, list, svc
    <2>3. chan[c].lock = u /\ u # Nobody
        BY <2>1, UserFacts, AutoServiceAssumption
    <2>4. EntriesOf(c) = {}
        BY <2>1, <2>3, NoEntries DEF Inv, HangInv
    <2>5. NewInv'
        BY <2>2 DEF FrameInv, NewInv, Inv, TypeOK, Idle
    <2>6. r.readq = <<>> /\ r.came = 0 /\ r.got = {} /\ r.soft = FALSE
        BY DEF Fresh
    <2> HIDE DEF r
    <2> QED BY <1>1, <2>2, <2>4, <2>5, <2>6
<1>3. ASSUME NEW c \in Chans, NewChannel(c) PROVE FrameInv'
    <2>1. /\ ~chan[c].alive /\ chan' = [chan EXCEPT ![c] = Fresh]
          /\ UNCHANGED <<heap, asent, tpc, mons, at, hand, user>>
        BY <1>3 DEF NewChannel, list, svc, users
    <2>2. /\ Fresh.readq = <<>> /\ Fresh.came = 0 /\ Fresh.got = {}
          /\ Fresh.soft = FALSE
        BY DEF Fresh
    <2>3. EntriesOf(c) = {}
        BY <2>1, NoEntries DEF Inv, HangInv
    <2>4. NewInv'
        BY <2>1 DEF FrameInv, NewInv
    <2> QED BY <1>1, <2>1, <2>2, <2>3, <2>4
<1> QED BY <1>2, <1>3

-----------------------------------------------------------------------------
(* The theorems *)

LEMMA InitFrames == ASSUME Init PROVE FrameInv
<1>1. ASSUME NEW c \in Chans PROVE Good(c)
    <2>1. /\ chan[c].readq = <<>> /\ chan[c].came = 0 /\ chan[c].got = {}
          /\ chan[c].soft = FALSE /\ heap = {} /\ tpc = "none"
        BY <1>1 DEF Init, Fresh
    <2>2. \A n : Places(c, n) = {}
        <3>1. EntriesOf(c) = {}
            BY <2>1 DEF EntriesOf
        <3>2. \A n : InQueue(c, n) = {} /\ WithOwner(c, n) = {}
            BY <2>1 DEF InQueue, WithOwner, Holding
        <3>3. \A n : InHand(c, n) = {} /\ InEntries(c, n) = {}
            BY <2>1, <3>1 DEF InHand, InEntries, Deferred
        <3> QED BY <3>2, <3>3 DEF Places
    <2>3. \A n \in Signals : ~(n <= 0)
        BY AutoServiceAssumption DEF Signals
    <2> QED BY <2>1, <2>2, <2>3 DEF Good, Wakes, Kept, NotYet
<1>2. NewInv
    BY DEF Init, NewInv, Idle
<1> QED BY <1>1, <1>2 DEF FrameInv

LEMMA StepFrames ==
    ASSUME Inv, EntryInv, FrameInv, [Next]_vars
    PROVE  FrameInv'
<1>1. CASE Works \/ Wake \/ UNCHANGED vars
    BY <1>1, ThreadFrames, ReadFrames, DeferFrames DEF Works
<1>2. ASSUME NEW u \in Users, Finishes(u) \/ StopSeen(u)
      PROVE  FrameInv'
    BY <1>2, SetFlagFrames, StartFrames, FreeFrames, FlushFrames, StopFrames,
       ChannelFrames DEF Finishes
<1>3. ASSUME NEW u \in Users, NEW c \in Chans, Calls(u, c)
      PROVE  FrameInv'
    BY <1>3, StartFrames, StopFrames, OwnerReadsFrames DEF Calls
<1>4. ASSUME NEW c \in Chans, Outside(c)
      PROVE  FrameInv'
    BY <1>4, ChannelFrames, SignalFrames, HangupFrames DEF Outside
<1> QED BY <1>1, <1>2, <1>3, <1>4 DEF Next

LEMMA AlwaysFrames == Spec => []FrameInv
<1>1. Init => FrameInv
    BY InitFrames
<1>2. Inv /\ (EntryInv /\ FlagInv) /\ FrameInv /\ [Next]_vars => FrameInv'
    BY StepFrames
<1> QED BY <1>1, <1>2, AlwaysInv, AlwaysFlag, PTL DEF Spec

\* A frame worth keeping is never lost and never doubled on its way from the
\* channel's queue through the thread's hand and the entry of a start, and
\* back into the queue or to the owner, whoever starts and stops autoservice
\* meanwhile; only a hangup ends the promise, as ast_queue_frame drops what
\* is queued behind one.
THEOREM SignalsAreKept == Spec => []SignalsKept
<1>1. ASSUME Inv, FrameInv PROVE SignalsKept
    <2>1. ASSUME NEW c \in Chans, NEW n \in 1 .. chan[c].came
          PROVE  Hung(c) \/ \E p \in Places(c, n) : Places(c, n) = {p}
        <3>1. chan[c].came \in 0 .. MaxSignals
            BY <1>1 DEF Inv, TypeOK, Channel
        <3>2. n \in Signals /\ n <= chan[c].came
            BY <3>1, AutoServiceAssumption DEF Signals
        <3>3. Hung(c) \/ One(Places(c, n))
            BY <1>1, <3>2 DEF FrameInv, Good, Kept
        <3> QED BY <3>3 DEF One
    <2> QED BY <2>1 DEF SignalsKept
<1> QED BY <1>1, AlwaysInv, AlwaysFrames, PTL

\* An owner who has not been told that its channel is hung up always finds
\* something: in the channel's queue, in an entry whose frames the stop will
\* give back, or, for a moment, in the thread's hand.  The thread, which
\* reads the hangup, keeps a frame for it ("We'll leave a HANGUP queued up so
\* the thread in charge of this channel will know").
THEOREM HangupIsHeard == Spec => []HangupWakes
<1>1. FrameInv => HangupWakes
    BY DEF FrameInv, Good, Wakes, Finding, HangupWakes
<1> QED BY <1>1, AlwaysFrames, PTL
=============================================================================
