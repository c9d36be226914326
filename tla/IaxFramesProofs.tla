--------------------------- MODULE IaxFramesProofs ---------------------------
(***************************************************************************)
(* Proofs about IaxFrames, for every wrap, window, number of retries and   *)
(* plan: the type of the state, that no frame is forgotten before it was   *)
(* heard, and that the full frames implement IaxFifo.                      *)
(***************************************************************************)
EXTENDS IaxFrames, TLAPS

(***************************************************************************)
(* Arithmetic of the low byte.                                             *)
(***************************************************************************)
LEMMA WrapFacts == Wrap \in Nat /\ Wrap > 0 /\ Window \in Nat
                   /\ 0 < Window /\ Window + 1 < Wrap
BY IaxFramesAssumption

LEMMA Division ==
    ASSUME NEW x \in Int
    PROVE  /\ x \div Wrap \in Int
           /\ x = Wrap * (x \div Wrap) + (x % Wrap)
           /\ (x % Wrap) \in Int /\ 0 <= (x % Wrap) /\ (x % Wrap) < Wrap
BY WrapFacts

LEMMA Multiples ==
    ASSUME NEW x \in Int, NEW y \in Int, x < y
    PROVE  Wrap * x \in Int /\ Wrap * y \in Int
           /\ Wrap * y >= Wrap * x + Wrap
<1>1. Wrap * (y - x) >= Wrap
  <2>1. PICK d \in Nat : d = y - x /\ d >= 1
    OBVIOUS
  <2>2. Wrap * d >= Wrap
    BY <2>1, WrapFacts
  <2> QED BY <2>1, <2>2
<1>2. Wrap * (y - x) = Wrap * y - Wrap * x
  BY WrapFacts
<1> QED BY <1>1, <1>2, WrapFacts

LEMMA Unique ==
    ASSUME NEW x \in Int, NEW y \in Int, NEW r \in 0 .. Wrap - 1,
           NEW s \in 0 .. Wrap - 1, Wrap * x + r = Wrap * y + s
    PROVE  r = s
<1> DEFINE u == Wrap * x
           v == Wrap * y
<1>1. u \in Int /\ v \in Int /\ u + r = v + s
  BY WrapFacts
<1>2. x < y => v >= u + Wrap
  BY Multiples
<1>3. y < x => u >= v + Wrap
  BY Multiples
<1>4. x = y => u = v
  OBVIOUS
<1> HIDE DEF u, v
<1> QED BY <1>1, <1>2, <1>3, <1>4, WrapFacts

LEMMA ByteType ==
    ASSUME NEW x \in Int
    PROVE  Byte(x) \in 0 .. Wrap - 1 /\ Byte(x) \in Nat
BY Division, WrapFacts DEF Byte

\* The difference to a byte is the difference to the number in full.
LEMMA BehindByte ==
    ASSUME NEW x \in Int, NEW y \in Int
    PROVE  Behind(x, Byte(y)) = Behind(x, y)
<1> DEFINE z == x - y
           w == x - Byte(y)
           i == z \div Wrap
           j == y \div Wrap
           k == w \div Wrap
<1>1. /\ i \in Int /\ j \in Int /\ k \in Int /\ z \in Int /\ w \in Int
      /\ z = Wrap * i + (z % Wrap) /\ y = Wrap * j + Byte(y)
      /\ w = Wrap * k + (w % Wrap)
  BY Division, ByteType DEF Byte
<1>2. (z % Wrap) \in 0 .. Wrap - 1 /\ (w % Wrap) \in 0 .. Wrap - 1
      /\ Byte(y) \in Int
  BY <1>1, ByteType DEF Byte
<1>3. Wrap * (i + j) = Wrap * i + Wrap * j
  BY <1>1, WrapFacts
<1>4. w = z + y - Byte(y)
  BY <1>2
<1>5. Wrap * k + (w % Wrap) = Wrap * (i + j) + (z % Wrap)
  <2> DEFINE a == Wrap * i
             b == Wrap * j
             c == Wrap * k
  <2>1. /\ a \in Int /\ b \in Int /\ c \in Int
        /\ z = a + (z % Wrap) /\ y = b + Byte(y) /\ w = c + (w % Wrap)
        /\ Wrap * (i + j) = a + b
    BY <1>1, <1>3, WrapFacts
  <2> HIDE DEF a, b, z, i, j, k, w
  <2>2. w = a + b + (z % Wrap)
    BY <2>1, <1>2, <1>4, <1>1
  <2>3. c + (w % Wrap) = (a + b) + (z % Wrap)
    BY <2>1, <2>2, <1>2
  <2> QED BY <2>1, <2>3 DEF c
<1>6. i + j \in Int
  BY <1>1
<1> HIDE DEF z, w, i, j, k
<1>7. (w % Wrap) = (z % Wrap)
  BY <1>1, <1>2, <1>5, <1>6, Unique
<1> QED BY <1>7 DEF Behind, Byte, z, w

\* Behind is the true difference between numbers less than a wrap apart.
LEMMA BehindExact ==
    ASSUME NEW x \in Int, NEW y \in Int, y <= x, x < y + Wrap
    PROVE  Behind(x, y) = x - y
BY WrapFacts DEF Behind, Byte

LEMMA BehindWrapped ==
    ASSUME NEW x \in Int, NEW y \in Int, x < y, y <= x + Wrap
    PROVE  Behind(x, y) = x - y + Wrap
BY WrapFacts DEF Behind, Byte

LEMMA SameByte ==
    ASSUME NEW x \in Int, NEW y \in Int, Byte(x) = Byte(y),
           x < y + Wrap, y < x + Wrap
    PROVE  x = y
<1>1. Behind(x, y) = 0
  <2>1. Behind(x, y) = Behind(x, x)
    <3>1. Behind(x, Byte(x)) = Behind(x, Byte(y))
      OBVIOUS
    <3> QED BY <3>1, BehindByte
  <2>2. Behind(x, x) = 0
    BY BehindExact, WrapFacts
  <2> QED BY <2>1, <2>2
<1>2. x < y => Behind(x, y) = x - y + Wrap
  BY BehindWrapped, WrapFacts
<1>3. x > y => Behind(x, y) = x - y
  BY BehindExact
<1> QED BY <1>1, <1>2, <1>3, WrapFacts

LEMMA TwoHosts ==
    ASSUME NEW p \in Hosts
    PROVE  /\ Peer(p) \in Hosts /\ Peer(p) # p /\ Peer(Peer(p)) = p
           /\ \A q \in Hosts : q = p \/ q = Peer(p)
<1>1. PICK x \in Hosts, y \in Hosts : x # y /\ Hosts = {x, y}
  BY IaxFramesAssumption
<1>2. \A q \in Hosts : \E r \in Hosts : r # q
  BY <1>1
<1>3. \A q \in Hosts : Peer(q) \in Hosts /\ Peer(q) # q
  BY <1>2 DEF Peer
<1> QED BY <1>1, <1>3

Speech == Seq({"word", "bye"})

(***************************************************************************)
(* The inductive invariant.  s is what a host has said, k how many frames  *)
(* it has heard, l how many of its own the other has heard.                *)
(***************************************************************************)
\* Frames and packets carry what was said, and report what was heard.
FrameInv(f, s, k) ==
    /\ f.n < Len(s) /\ f.a <= k
    /\ f.final <=> s[f.n + 1] = "bye"
    /\ ~f.sentyet => f.retries <= 0

PacketInv(m, s, k) ==
    /\ m.a <= k
    /\ m.kind = "frame" => /\ m.n < Len(s)
                           /\ m.final <=> s[m.n + 1] = "bye"

\* Out: the frames that are not yet acknowledged, which begin at Base.
Out(h) == Behind(h.oseqno, h.rseqno)
Base(h) == h.oseqno - Out(h)

CountInv(h, s, k, l) ==
    /\ h.oseqno = Len(s)
    /\ h.here => h.iseqno = k
    /\ l <= h.oseqno /\ h.oseqno <= l + Window + 1

WindowInv(h, l) ==
    h.here => /\ Base(h) <= l
              /\ Out(h) <= Window + 1
              /\ h.owner => Out(h) <= Window

\* While the call has its owner, no goodbye was said.
OwnerInv(h, s) == h.owner => \A i \in 1 .. Len(s) : s[i] # "bye"

RetryInv(h) ==
    h.here /\ ~h.error =>
        \A n \in Nat : Base(h) <= n /\ n < h.oseqno =>
            \E f \in h.iaxq : f.n = n /\ f.retries >= 0

HostInv(h, s, k, l) ==
    /\ h \in Host
    /\ CountInv(h, s, k, l)
    /\ WindowInv(h, l)
    /\ OwnerInv(h, s)
    /\ RetryInv(h)
    /\ \A f \in h.iaxq : FrameInv(f, s, k)

HeardInv(h, e, t) ==
    /\ \A i \in 1 .. Len(e) : e[i] = i
    /\ h.known => h.here /\ \A i \in 1 .. Len(e) : t[i] # "bye"

Inv ==
    /\ TypeOK
    /\ \A p \in Hosts :
          LET q == Peer(p) IN
          /\ HostInv(host[p], said[p], Len(heard[p]), Len(heard[q]))
          /\ HeardInv(host[p], heard[p], said[q])
          /\ \A m \in wire[q] : PacketInv(m, said[p], Len(heard[p]))

(***************************************************************************)
(* The operators on a host keep its type and its invariant.                *)
(***************************************************************************)
LEMMA OutFacts ==
    ASSUME NEW h \in Host
    PROVE  /\ Out(h) \in Nat /\ Out(h) < Wrap
           /\ Base(h) \in Int
           /\ \A n \in Int : Base(h) <= n /\ n < Base(h) + Wrap =>
                 Behind(n, h.rseqno) = n - Base(h)
           /\ \A n \in Int : n < Base(h) /\ Base(h) <= n + Wrap =>
                 Behind(n, h.rseqno) = n - Base(h) + Wrap
<1> DEFINE o == h.oseqno
           r == h.rseqno
<1>1. o \in Int /\ r \in Int /\ o - r \in Int
  BY WrapFacts DEF Host
<1>2. Out(h) = Byte(o - r) /\ Out(h) \in Nat /\ Out(h) < Wrap
  BY <1>1, ByteType, WrapFacts DEF Out, Behind
<1>3. Base(h) \in Int
  BY <1>1, <1>2 DEF Base
<1>4. Byte(Base(h)) = r
  <2>1. Behind(o, Byte(o - r)) = Behind(o, o - r)
    BY <1>1, BehindByte
  <2>2. Behind(o, o - r) = Byte(r)
    BY <1>1 DEF Behind
  <2>3. Byte(r) = r
    BY WrapFacts DEF Host, Byte
  <2>4. Behind(o, Byte(o - r)) = Byte(Base(h))
    BY <1>2 DEF Behind, Base
  <2> QED BY <2>1, <2>2, <2>3, <2>4
<1>5. \A n \in Int : Behind(n, r) = Behind(n, Base(h))
  BY <1>3, <1>4, BehindByte
<1> QED BY <1>2, <1>3, <1>5, BehindExact, BehindWrapped

LEMMA FrameTypes ==
    ASSUME NEW f \in Frame
    PROVE  /\ f.n \in Nat /\ f.a \in Nat /\ f.final \in BOOLEAN
           /\ f.retries \in Int /\ f.sentyet \in BOOLEAN
           /\ -1 <= f.retries /\ f.retries <= MaxRetries
           /\ Spared(f) \in Frame
           /\ Copy(f) \in Packet
           /\ f.retries < MaxRetries => Retry(f) \in Frame
           /\ \A h \in Host : Updated(f, h) \in Frame
<1>1. MaxRetries \in Nat \ {0}
  BY IaxFramesAssumption
<1>2. /\ f.n \in Nat /\ f.a \in Nat /\ f.final \in BOOLEAN
      /\ f.retries \in -1 .. MaxRetries /\ f.sentyet \in BOOLEAN
  BY DEF Frame
<1>3. f.retries \in Int /\ -1 <= f.retries /\ f.retries <= MaxRetries
  BY <1>1, <1>2
<1>4. Spared(f) \in Frame
  BY <1>1 DEF Spared, Frame
<1>5. Copy(f) \in Packet
  BY <1>2 DEF Copy, Packet
<1>6. ASSUME f.retries < MaxRetries
      PROVE  Retry(f) \in Frame
  <2>1. f.retries + 1 \in -1 .. MaxRetries
    BY <1>1, <1>2, <1>3, <1>6
  <2>2. Retry(f) = [f EXCEPT !.retries = f.retries + 1, !.sentyet = TRUE]
    BY DEF Retry
  <2> QED BY <2>1, <2>2 DEF Frame
<1>7. ASSUME NEW h \in Host
      PROVE  Updated(f, h) \in Frame
  BY DEF Updated, Frame, Host
<1> QED BY <1>2, <1>3, <1>4, <1>5, <1>6, <1>7

LEMMA DestroyedType ==
    ASSUME NEW h \in Host
    PROVE  Destroyed(h) \in Host
<1> DEFINE spared == {Spared(f) : f \in h.iaxq}
<1>1. spared \in SUBSET Frame
  BY FrameTypes DEF Host
<1>2. CASE h.owner
  BY <1>2 DEF Destroyed, Host
<1>3. CASE ~h.owner
  <2>1. Destroyed(h) = [h EXCEPT !.here = FALSE, !.known = FALSE,
                                 !.gone = TRUE, !.error = FALSE,
                                 !.doomed = FALSE, !.rseqno = 0,
                                 !.aseqno = 0, !.iaxq = spared]
    BY <1>3 DEF Destroyed
  <2>2. 0 \in 0 .. Wrap - 1
    BY WrapFacts
  <2> HIDE DEF spared
  <2> QED BY <1>1, <2>1, <2>2 DEF Host
<1> QED BY <1>2, <1>3

LEMMA DestroyedFields ==
    ASSUME NEW h \in Host
    PROVE  /\ ~Destroyed(h).known
           /\ Destroyed(h).iseqno = h.iseqno
           /\ Destroyed(h).oseqno = h.oseqno
           /\ Destroyed(h).here =>
                 h.here /\ Destroyed(h).rseqno = h.rseqno
BY DEF Destroyed, Host

\* The parts of the invariant that read the numbers of a host only.
LEMMA SameNumbers ==
    ASSUME NEW h, NEW g, g.oseqno = h.oseqno, g.rseqno = h.rseqno
    PROVE  Out(g) = Out(h) /\ Base(g) = Base(h)
BY DEF Out, Base

\* What h and g may differ in without a word of the invariant.
LEMMA SameCall ==
    ASSUME NEW h, NEW g \in Host, NEW s, NEW k, NEW l, HostInv(h, s, k, l),
           g.oseqno = h.oseqno, g.rseqno = h.rseqno, g.iseqno = h.iseqno,
           g.iaxq = h.iaxq, g.here => h.here, h.error => g.error,
           g.owner => h.owner
    PROVE  HostInv(g, s, k, l)
<1>1. Out(g) = Out(h) /\ Base(g) = Base(h)
  BY SameNumbers
<1>2. CountInv(g, s, k, l)
  BY DEF HostInv, CountInv
<1>3. WindowInv(g, l)
  BY <1>1 DEF HostInv, WindowInv
<1>4. OwnerInv(g, s)
  BY DEF HostInv, OwnerInv
<1>5. RetryInv(g)
  BY <1>1, Zenon DEF HostInv, RetryInv
<1>6. \A f \in g.iaxq : FrameInv(f, s, k)
  BY DEF HostInv
<1> QED BY <1>2, <1>3, <1>4, <1>5, <1>6 DEF HostInv

LEMMA DestroyedInv ==
    ASSUME NEW h, NEW s \in Speech, NEW k \in Nat, NEW l \in Nat,
           HostInv(h, s, k, l)
    PROVE  HostInv(Destroyed(h), s, k, l)
<1> DEFINE g == Destroyed(h)
<1>0. h \in Host
  BY DEF HostInv
<1>1. g \in Host
  BY <1>0, DestroyedType
<1>2. CASE h.owner
  <2>1. g = [h EXCEPT !.hung = TRUE, !.known = FALSE]
    BY <1>2 DEF Destroyed
  <2>2. /\ g.oseqno = h.oseqno /\ g.rseqno = h.rseqno
        /\ g.iseqno = h.iseqno /\ g.iaxq = h.iaxq /\ g.here = h.here
        /\ g.error = h.error /\ g.owner = h.owner
    BY <1>0, <2>1 DEF Host
  <2> HIDE DEF g
  <2>3. HostInv(g, s, k, l)
    BY <1>1, <2>2, SameCall
  <2> QED BY <2>3 DEF g
<1>3. CASE ~h.owner
  <2>1. /\ g.oseqno = h.oseqno /\ ~g.here /\ ~g.owner
        /\ g.iaxq = {Spared(f) : f \in h.iaxq}
    BY <1>0, <1>3 DEF Destroyed, Host
  <2>2. ASSUME NEW f \in h.iaxq
        PROVE  FrameInv(Spared(f), s, k)
    <3>1. f \in Frame /\ FrameInv(f, s, k)
      BY <1>0 DEF HostInv, Host
    <3>2. /\ Spared(f).n = f.n /\ Spared(f).a = f.a
          /\ Spared(f).final = f.final /\ Spared(f).retries = -1
          /\ Spared(f).sentyet = f.sentyet
      BY <3>1 DEF Spared, Frame
    <3> QED BY <3>1, <3>2 DEF FrameInv
  <2> HIDE DEF g
  <2>3. \A f \in g.iaxq : FrameInv(f, s, k)
    BY <2>1, <2>2
  <2>4. CountInv(g, s, k, l)
    BY <2>1 DEF HostInv, CountInv
  <2>5. HostInv(g, s, k, l)
    BY <1>1, <2>1, <2>3, <2>4
       DEF HostInv, WindowInv, OwnerInv, RetryInv
  <2> QED BY <2>5 DEF g
<1> QED BY <1>2, <1>3

LEMMA PredestroyedInv ==
    ASSUME NEW h, NEW s \in Speech, NEW k \in Nat, NEW l \in Nat,
           HostInv(h, s, k, l)
    PROVE  HostInv(Predestroyed(h), s, k, l) /\ ~Predestroyed(h).owner
<1> DEFINE g == Predestroyed(h)
<1>0. h \in Host
  BY DEF HostInv
<1>1. /\ g \in Host /\ ~g.owner
      /\ g.oseqno = h.oseqno /\ g.rseqno = h.rseqno
      /\ g.iseqno = h.iseqno /\ g.iaxq = h.iaxq /\ g.here = h.here
      /\ g.error = h.error
  BY <1>0 DEF Predestroyed, Host
<1> HIDE DEF g
<1>2. HostInv(g, s, k, l)
  BY <1>1, SameCall
<1> QED BY <1>1, <1>2 DEF g

LEMMA ReportsInv ==
    ASSUME NEW h, NEW s \in Speech, NEW k \in Nat, NEW l \in Nat,
           HostInv(h, s, k, l)
    PROVE  HostInv(Reports(h), s, k, l)
<1> DEFINE b == Byte(h.iseqno)
           g == [h EXCEPT !.aseqno = b]
<1>0. h \in Host
  BY DEF HostInv
<1>1. b \in 0 .. Wrap - 1
  BY <1>0, ByteType DEF Host
<1> HIDE DEF b
<1>2. /\ g \in Host /\ g.owner = h.owner
      /\ g.oseqno = h.oseqno /\ g.rseqno = h.rseqno
      /\ g.iseqno = h.iseqno /\ g.iaxq = h.iaxq /\ g.here = h.here
      /\ g.error = h.error
  BY <1>0, <1>1 DEF Host
<1>3. Reports(h) = g
  BY DEF Reports, b
<1> HIDE DEF g
<1>4. HostInv(g, s, k, l)
  BY <1>2, SameCall
<1> QED BY <1>3, <1>4

\* The frame that was expected is counted.
LEMMA CountedInv ==
    ASSUME NEW h, NEW s \in Speech, NEW k \in Nat, NEW l \in Nat,
           HostInv(h, s, k, l), h.here
    PROVE  HostInv([h EXCEPT !.iseqno = @ + 1], s, k + 1, l)
<1> DEFINE g == [h EXCEPT !.iseqno = @ + 1]
<1>1. h \in Host
  BY DEF HostInv
<1> DEFINE i == h.iseqno + 1
<1>2. i \in Nat /\ g = [h EXCEPT !.iseqno = i]
  BY <1>1 DEF Host
<1> HIDE DEF g, i
<1>3. /\ g \in Host /\ g.owner = h.owner
      /\ g.oseqno = h.oseqno /\ g.rseqno = h.rseqno
      /\ g.iseqno = i /\ g.iaxq = h.iaxq /\ g.here = h.here
      /\ g.error = h.error
  BY <1>1, <1>2 DEF Host
<1>4. Out(g) = Out(h) /\ Base(g) = Base(h)
  BY <1>3, SameNumbers
<1>5. ASSUME NEW f \in g.iaxq
      PROVE  FrameInv(f, s, k + 1)
  <2>1. f.a \in Nat /\ FrameInv(f, s, k)
    BY <1>1, <1>3, FrameTypes DEF HostInv, Host
  <2> QED BY <2>1 DEF FrameInv
<1>6. CountInv(g, s, k + 1, l)
  BY <1>3 DEF HostInv, CountInv, i
<1>7. WindowInv(g, l)
  BY <1>3, <1>4 DEF HostInv, WindowInv
<1>8. OwnerInv(g, s)
  BY <1>3 DEF HostInv, OwnerInv
<1>9. RetryInv(g)
  BY <1>3, <1>4, Zenon DEF HostInv, RetryInv
<1>10. HostInv(g, s, k + 1, l)
  BY <1>3, <1>5, <1>6, <1>7, <1>8, <1>9 DEF HostInv
<1> QED BY <1>10 DEF g

\* A frame of iaxq is spared its retries: it says what it said.
LEMMA SparedInv ==
    ASSUME NEW f \in Frame, NEW s, NEW k, FrameInv(f, s, k)
    PROVE  Spared(f) \in Frame /\ FrameInv(Spared(f), s, k)
<1>1. /\ Spared(f).n = f.n /\ Spared(f).a = f.a
      /\ Spared(f).final = f.final /\ Spared(f).retries = -1
      /\ Spared(f).sentyet = f.sentyet
  BY DEF Spared, Frame
<1> QED BY <1>1, FrameTypes DEF FrameInv

\* An acknowledgement in the window moves the base to the number it carries,
\* and spares only the frames before it.
LEMMA AckedBase ==
    ASSUME NEW h, NEW s \in Speech, NEW k \in Nat, NEW l \in Nat,
           HostInv(h, s, k, l), h.here,
           NEW a \in Nat, a <= l, a + Wrap > h.oseqno, InWindow(h, a),
           NEW g, g.oseqno = h.oseqno, g.rseqno = Byte(a)
    PROVE  /\ Base(h) <= a /\ Base(g) = a /\ Out(g) <= Out(h)
           /\ \A f \in Frame : a <= f.n /\ f.n < h.oseqno => ~Covers(h, a, f)
<1>1. /\ h \in Host /\ h.oseqno \in Nat /\ l <= h.oseqno
      /\ Base(h) <= l
  BY DEF HostInv, CountInv, WindowInv, Host
<1>2. /\ Out(h) \in Nat /\ Out(h) < Wrap /\ Base(h) \in Int
      /\ Base(h) = h.oseqno - Out(h)
  BY <1>1, OutFacts DEF Base
<1>3. Behind(a, h.rseqno) <= Out(h)
  BY DEF InWindow, Out
<1>4. Base(h) <= a
  <2>1. SUFFICES ASSUME a < Base(h)
                 PROVE  FALSE
    BY <1>2
  <2>2. Behind(a, h.rseqno) = a - Base(h) + Wrap
    BY <1>1, <1>2, <2>1, OutFacts, WrapFacts
  <2> QED BY <1>1, <1>2, <1>3, <2>1, <2>2, WrapFacts
<1>5. Out(g) = h.oseqno - a
  <2>1. Out(g) = Behind(h.oseqno, a)
    BY <1>1, BehindByte DEF Out
  <2> QED BY <1>1, <2>1, BehindExact
<1>6. Base(g) = a /\ Out(g) <= Out(h)
  BY <1>1, <1>2, <1>4, <1>5 DEF Base
<1>7. ASSUME NEW f \in Frame, a <= f.n, f.n < h.oseqno
      PROVE  ~Covers(h, a, f)
  <2>1. f.n \in Nat
    BY FrameTypes
  <2>2. Behind(f.n, h.rseqno) = f.n - Base(h)
    BY <1>1, <1>2, <1>4, <1>7, <2>1, OutFacts, WrapFacts
  <2>3. Behind(a, h.rseqno) = a - Base(h)
    BY <1>1, <1>2, <1>4, OutFacts, WrapFacts
  <2> QED BY <1>2, <1>7, <2>1, <2>2, <2>3 DEF Covers
<1> QED BY <1>4, <1>6, <1>7

LEMMA AckedInv ==
    ASSUME NEW h, NEW s \in Speech, NEW k \in Nat, NEW l \in Nat,
           HostInv(h, s, k, l), h.here,
           NEW a \in Nat, a <= l, a + Wrap > h.oseqno
    PROVE  /\ HostInv(Acked(h, a), s, k, l)
           /\ Acked(h, a).known => h.known /\ Acked(h, a).here
           /\ Acked(h, a).iseqno = h.iseqno
           /\ Acked(h, a).here => Out(Acked(h, a)) <= Out(h)
<1> DEFINE done == {f \in h.iaxq : Covers(h, a, f)}
           left == (h.iaxq \ done) \cup {Spared(f) : f \in done}
           b == Byte(a)
           g == [h EXCEPT !.iaxq = left, !.rseqno = b]
<1>0. h \in Host /\ h.iaxq \subseteq Frame
  BY DEF HostInv, Host
<1>1. CASE ~InWindow(h, a)
  <2>1. Acked(h, a) = h
    BY <1>1 DEF Acked
  <2> QED BY <1>0, <2>1, OutFacts
<1>2. CASE InWindow(h, a)
  <2>1. b \in 0 .. Wrap - 1
    BY ByteType
  <2>2. \A f \in left : f \in Frame /\ FrameInv(f, s, k)
    BY <1>0, SparedInv DEF HostInv
  <2>3. \A f \in h.iaxq : ~Covers(h, a, f) => f \in left
    OBVIOUS
  <2>4. Acked(h, a) = IF \E f \in done : f.final THEN Destroyed(g) ELSE g
    BY <1>2 DEF Acked
  <2> HIDE DEF done, left, b
  <2>5. /\ g \in Host /\ g.owner = h.owner
        /\ g.oseqno = h.oseqno /\ g.rseqno = b
        /\ g.iseqno = h.iseqno /\ g.iaxq = left /\ g.here = h.here
        /\ g.error = h.error /\ g.known = h.known
    BY <1>0, <2>1, <2>2 DEF Host
  <2> HIDE DEF g
  <2>6. /\ Base(h) <= a /\ Base(g) = a /\ Out(g) <= Out(h)
        /\ \A f \in Frame : a <= f.n /\ f.n < h.oseqno => ~Covers(h, a, f)
    BY <1>2, <2>5, AckedBase DEF b
  <2>7. /\ Out(h) \in Nat /\ Out(g) \in Nat /\ Base(h) \in Int
    BY <1>0, <2>5, OutFacts
  <2>8. CountInv(g, s, k, l) /\ OwnerInv(g, s)
    BY <2>5 DEF HostInv, CountInv, OwnerInv
  <2>9. WindowInv(g, l)
    BY <2>5, <2>6, <2>7, WrapFacts DEF HostInv, WindowInv
  <2>10. RetryInv(g)
    <3>1. SUFFICES ASSUME g.here, ~g.error, NEW n \in Nat,
                          Base(g) <= n, n < g.oseqno
                   PROVE  \E f \in g.iaxq : f.n = n /\ f.retries >= 0
      BY DEF RetryInv
    <3>2. Base(h) <= n /\ n < h.oseqno
      BY <2>5, <2>6, <2>7, <3>1
    <3>3. PICK f \in h.iaxq : f.n = n /\ f.retries >= 0
      BY <2>5, <3>1, <3>2 DEF HostInv, RetryInv
    <3>4. ~Covers(h, a, f)
      BY <1>0, <2>5, <2>6, <3>1, <3>3
    <3> QED BY <2>3, <2>5, <3>3, <3>4
  <2>11. HostInv(g, s, k, l)
    BY <2>2, <2>5, <2>8, <2>9, <2>10 DEF HostInv
  <2>12. HostInv(Destroyed(g), s, k, l)
    BY <2>11, DestroyedInv
  <2>13. ~Destroyed(g).known /\ Destroyed(g).iseqno = g.iseqno
    BY <2>5, DestroyedFields
  <2>14. Destroyed(g).here => Out(Destroyed(g)) = Out(g)
    BY <2>5, DestroyedFields DEF Out
  <2> QED BY <2>4, <2>5, <2>6, <2>11, <2>12, <2>13, <2>14
<1> QED BY <1>1, <1>2

LEMMA AppendFacts ==
    ASSUME NEW S, NEW s \in Seq(S), NEW x \in S
    PROVE  /\ Append(s, x) \in Seq(S) /\ Len(s) \in Nat
           /\ Len(Append(s, x)) = Len(s) + 1
           /\ Append(s, x)[Len(s) + 1] = x
           /\ \A i \in 1 .. Len(s) : Append(s, x)[i] = s[i]
OBVIOUS

\* What a host says with a frame of its own.
Spoken(last) == IF last THEN "bye" ELSE "word"

LEMMA NumberedInv ==
    ASSUME NEW h, NEW s \in Speech, NEW k \in Nat, NEW l \in Nat,
           HostInv(h, s, k, l), h.here, NEW last \in BOOLEAN,
           Out(h) <= Window, h.owner => Out(h) < Window /\ ~last
    PROVE  /\ HostInv(Numbered(h, last), Append(s, Spoken(last)), k, l)
           /\ Numbered(h, last).known = h.known
           /\ Numbered(h, last).here
<1> DEFINE new == [n |-> h.oseqno, a |-> h.iseqno, final |-> last,
                   retries |-> 0, sentyet |-> FALSE]
           queue == h.iaxq \cup {new}
           b == Byte(h.iseqno)
           o == h.oseqno + 1
           g == [h EXCEPT !.oseqno = o, !.aseqno = b, !.iaxq = queue]
           t == Append(s, Spoken(last))
<1>0. /\ h \in Host /\ h.iaxq \subseteq Frame
      /\ h.oseqno \in Nat /\ h.iseqno \in Nat
  BY DEF HostInv, Host
<1>1. b \in 0 .. Wrap - 1 /\ o \in Nat
  BY <1>0, ByteType
<1>2. new \in Frame
  BY <1>0, IaxFramesAssumption DEF Frame
<1>3. Numbered(h, last) = g
  BY DEF Numbered
<1>4. /\ t \in Speech /\ Len(s) \in Nat /\ Len(t) = Len(s) + 1
      /\ t[Len(s) + 1] = Spoken(last)
      /\ \A i \in 1 .. Len(s) : t[i] = s[i]
  BY AppendFacts DEF Speech, Spoken
<1> HIDE DEF t
<1>5. /\ h.oseqno = Len(s) /\ h.iseqno = k
      /\ Base(h) <= l /\ l <= h.oseqno
  BY DEF HostInv, CountInv, WindowInv
<1>6. FrameInv(new, t, k)
  BY <1>0, <1>4, <1>5 DEF FrameInv, Spoken
<1>7. ASSUME NEW f \in h.iaxq
      PROVE  FrameInv(f, t, k)
  <2>1. FrameInv(f, s, k) /\ f.n \in Nat
    BY <1>0, FrameTypes DEF HostInv
  <2>2. f.n + 1 \in 1 .. Len(s)
    BY <1>4, <2>1 DEF FrameInv
  <2> QED BY <1>4, <2>1, <2>2 DEF FrameInv
<1>8. \A f \in queue : f \in Frame /\ FrameInv(f, t, k)
  BY <1>0, <1>2, <1>6, <1>7
<1>9. new.n = h.oseqno /\ new.retries = 0 /\ new \in queue
      /\ \A f \in h.iaxq : f \in queue
  OBVIOUS
<1> HIDE DEF new, queue, b, o
<1>10. /\ g \in Host /\ g.owner = h.owner
       /\ g.oseqno = o /\ g.rseqno = h.rseqno
       /\ g.iseqno = h.iseqno /\ g.iaxq = queue /\ g.here = h.here
       /\ g.error = h.error /\ g.known = h.known
  BY <1>0, <1>1, <1>8 DEF Host
<1> HIDE DEF g
<1>11. Out(g) = Out(h) + 1 /\ Base(g) = Base(h)
       /\ Out(h) \in Nat /\ Base(h) \in Int /\ h.oseqno = Base(h) + Out(h)
  <2>1. /\ Out(h) \in Nat /\ Base(h) \in Int
        /\ h.oseqno = Base(h) + Out(h)
    BY <1>0, OutFacts DEF Base
  <2>2. Behind(o, h.rseqno) = o - Base(h)
    BY <1>0, <2>1, OutFacts, WrapFacts DEF o
  <2>3. Out(g) = Out(h) + 1
    BY <1>10, <2>1, <2>2 DEF Out, o
  <2> QED BY <1>0, <1>10, <2>1, <2>3 DEF Base, o
<1>12. CountInv(g, t, k, l)
  BY <1>0, <1>4, <1>5, <1>10, <1>11, WrapFacts DEF CountInv, o
<1>13. WindowInv(g, l)
  BY <1>5, <1>10, <1>11, WrapFacts DEF WindowInv
<1>14. OwnerInv(g, t)
  <2>1. SUFFICES ASSUME g.owner, NEW i \in 1 .. Len(t)
                 PROVE  t[i] # "bye"
    BY DEF OwnerInv
  <2>2. CASE i = Len(s) + 1
    BY <1>4, <1>10, <2>1, <2>2 DEF Spoken
  <2>3. CASE i # Len(s) + 1
    BY <1>4, <1>10, <2>1, <2>3 DEF HostInv, OwnerInv
  <2> QED BY <2>2, <2>3
<1>15. RetryInv(g)
  <2>1. SUFFICES ASSUME g.here, ~g.error, NEW n \in Nat,
                        Base(g) <= n, n < g.oseqno
                 PROVE  \E f \in g.iaxq : f.n = n /\ f.retries >= 0
    BY DEF RetryInv
  <2>2. CASE n = h.oseqno
    BY <1>9, <1>10, <2>2
  <2>3. CASE n # h.oseqno
    <3>1. Base(h) <= n /\ n < h.oseqno
      BY <1>0, <1>10, <1>11, <2>1, <2>3 DEF o
    <3>2. PICK f \in h.iaxq : f.n = n /\ f.retries >= 0
      BY <1>10, <2>1, <3>1 DEF HostInv, RetryInv
    <3> QED BY <1>9, <1>10, <3>2
  <2> QED BY <2>2, <2>3
<1>16. HostInv(g, t, k, l)
  BY <1>8, <1>10, <1>12, <1>13, <1>14, <1>15 DEF HostInv
<1> QED BY <1>3, <1>10, <1>16 DEF t

\* Frame f of iaxq goes: it needs no more retries, or the call fails.
LEMMA WithoutInv ==
    ASSUME NEW h, NEW s \in Speech, NEW k \in Nat, NEW l \in Nat,
           HostInv(h, s, k, l), NEW f \in h.iaxq
    PROVE  /\ Without(h, f) \in Host
           /\ f.retries < 0 \/ ~h.here => HostInv(Without(h, f), s, k, l)
           /\ Without(h, f).known = h.known /\ Without(h, f).here = h.here
           /\ Without(h, f).owner = h.owner
           /\ Without(h, f).oseqno = h.oseqno
           /\ Without(h, f).rseqno = h.rseqno
           /\ Without(h, f).iseqno = h.iseqno
           /\ Without(h, f).iaxq = h.iaxq \ {f}
<1> DEFINE queue == h.iaxq \ {f}
           g == [h EXCEPT !.iaxq = queue]
<1>0. h \in Host /\ h.iaxq \subseteq Frame
  BY DEF HostInv, Host
<1>1. Without(h, f) = g
  BY DEF Without
<1>2. queue \subseteq h.iaxq /\ \A e \in h.iaxq : e # f => e \in queue
  OBVIOUS
<1>3. /\ g \in Host /\ g.owner = h.owner
      /\ g.oseqno = h.oseqno /\ g.rseqno = h.rseqno
      /\ g.iseqno = h.iseqno /\ g.iaxq = queue /\ g.here = h.here
      /\ g.error = h.error /\ g.known = h.known
  <2> HIDE DEF queue
  <2> QED BY <1>0, <1>2 DEF Host
<1>4. ASSUME f.retries < 0 \/ ~h.here
      PROVE  HostInv(g, s, k, l)
  <2> HIDE DEF queue, g
  <2>1. Out(g) = Out(h) /\ Base(g) = Base(h)
    BY <1>3, SameNumbers
  <2>2. CountInv(g, s, k, l)
    BY <1>3 DEF HostInv, CountInv
  <2>3. WindowInv(g, l)
    BY <1>3, <2>1 DEF HostInv, WindowInv
  <2>4. OwnerInv(g, s)
    BY <1>3 DEF HostInv, OwnerInv
  <2>5. RetryInv(g)
    <3>1. SUFFICES ASSUME g.here, ~g.error, NEW n \in Nat,
                          Base(g) <= n, n < g.oseqno
                   PROVE  \E e \in g.iaxq : e.n = n /\ e.retries >= 0
      BY DEF RetryInv
    <3>2. PICK e \in h.iaxq : e.n = n /\ e.retries >= 0
      BY <1>3, <2>1, <3>1 DEF HostInv, RetryInv
    <3>3. f.retries < 0 /\ f \in Frame
      BY <1>0, <1>3, <1>4, <3>1
    <3>4. e # f
      BY <3>2, <3>3, FrameTypes
    <3> QED BY <1>2, <1>3, <3>2, <3>4
  <2> QED
    BY <1>2, <1>3, <2>2, <2>3, <2>4, <2>5 DEF HostInv
<1> QED BY <1>1, <1>3, <1>4

\* Frame f is sent, once more.
LEMMA WithInv ==
    ASSUME NEW h, NEW s \in Speech, NEW k \in Nat, NEW l \in Nat,
           HostInv(h, s, k, l), NEW f \in h.iaxq,
           NEW g \in Frame, g.n = f.n, g.retries >= 0, FrameInv(g, s, k)
    PROVE  /\ HostInv(With(h, f, g), s, k, l)
           /\ With(h, f, g).known = h.known /\ With(h, f, g).here = h.here
<1> DEFINE queue == (h.iaxq \ {f}) \cup {g}
           r == [h EXCEPT !.iaxq = queue]
<1>0. h \in Host /\ h.iaxq \subseteq Frame
  BY DEF HostInv, Host
<1>1. With(h, f, g) = r
  BY DEF With
<1>2. /\ g \in queue /\ \A e \in h.iaxq : e # f => e \in queue
      /\ queue \subseteq Frame /\ \A e \in queue : FrameInv(e, s, k)
  BY <1>0 DEF HostInv
<1> HIDE DEF queue
<1>3. /\ r \in Host /\ r.owner = h.owner
      /\ r.oseqno = h.oseqno /\ r.rseqno = h.rseqno
      /\ r.iseqno = h.iseqno /\ r.iaxq = queue /\ r.here = h.here
      /\ r.error = h.error /\ r.known = h.known
  BY <1>0, <1>2 DEF Host
<1> HIDE DEF r
<1>4. Out(r) = Out(h) /\ Base(r) = Base(h)
  BY <1>3, SameNumbers
<1>5. CountInv(r, s, k, l)
  BY <1>3 DEF HostInv, CountInv
<1>6. WindowInv(r, l)
  BY <1>3, <1>4 DEF HostInv, WindowInv
<1>7. OwnerInv(r, s)
  BY <1>3 DEF HostInv, OwnerInv
<1>8. RetryInv(r)
  <2>1. SUFFICES ASSUME r.here, ~r.error, NEW n \in Nat,
                        Base(r) <= n, n < r.oseqno
                 PROVE  \E e \in r.iaxq : e.n = n /\ e.retries >= 0
    BY DEF RetryInv
  <2>2. PICK e \in h.iaxq : e.n = n /\ e.retries >= 0
    BY <1>3, <1>4, <2>1 DEF HostInv, RetryInv
  <2> QED BY <1>2, <1>3, <2>2
<1> QED BY <1>1, <1>2, <1>3, <1>5, <1>6, <1>7, <1>8 DEF HostInv

LEMMA GivenUpInv ==
    ASSUME NEW h, NEW s \in Speech, NEW k \in Nat, NEW l \in Nat,
           HostInv(h, s, k, l), h.here, NEW f \in h.iaxq
    PROVE  LET g == GivenUp(Without(h, f), f)
           IN  HostInv(g, s, k, l) /\ (g.known => h.known /\ g.here)
<1> DEFINE w == Without(h, f)
           e == [w EXCEPT !.error = TRUE]
           u == [w EXCEPT !.error = TRUE, !.hung = TRUE]
<1>1. h \in Host /\ h.iaxq \subseteq Frame
  BY DEF HostInv, Host
<1>2. /\ w \in Host /\ w.owner = h.owner
      /\ w.oseqno = h.oseqno /\ w.rseqno = h.rseqno
      /\ w.iseqno = h.iseqno /\ w.iaxq = h.iaxq \ {f} /\ w.here
      /\ w.known = h.known
  BY WithoutInv
<1>3. GivenUp(w, f) = IF f.final THEN Destroyed(w)
                      ELSE IF w.owner THEN u ELSE Destroyed(e)
  BY DEF GivenUp
<1> HIDE DEF w
<1>4. /\ e \in Host /\ e.owner = h.owner /\ e.error
      /\ e.oseqno = h.oseqno /\ e.rseqno = h.rseqno
      /\ e.iseqno = h.iseqno /\ e.iaxq = w.iaxq /\ e.here
  BY <1>2 DEF Host
<1>5. /\ u \in Host /\ u.owner = e.owner /\ u.error
      /\ u.oseqno = e.oseqno /\ u.rseqno = e.rseqno
      /\ u.iseqno = e.iseqno /\ u.iaxq = e.iaxq /\ u.here
      /\ u.known = h.known
  BY <1>2 DEF Host
<1>6. HostInv(e, s, k, l)
  <2> HIDE DEF e
  <2>1. Out(e) = Out(h) /\ Base(e) = Base(h)
    BY <1>4, SameNumbers
  <2>2. CountInv(e, s, k, l)
    BY <1>4 DEF HostInv, CountInv
  <2>3. WindowInv(e, l)
    BY <1>4, <2>1 DEF HostInv, WindowInv
  <2>4. OwnerInv(e, s)
    BY <1>4 DEF HostInv, OwnerInv
  <2>5. RetryInv(e)
    BY <1>4 DEF RetryInv
  <2>6. \A g \in e.iaxq : FrameInv(g, s, k)
    BY <1>2, <1>4 DEF HostInv
  <2> QED BY <1>4, <2>2, <2>3, <2>4, <2>5, <2>6 DEF HostInv
<1>7. HostInv(Destroyed(e), s, k, l) /\ ~Destroyed(e).known
  <2> HIDE DEF e
  <2>1. HostInv(Destroyed(e), s, k, l)
    BY <1>6, DestroyedInv
  <2>2. ~Destroyed(e).known
    BY <1>4, DestroyedFields
  <2> QED BY <2>1, <2>2
<1>8. CASE f.final
  <2>1. s[f.n + 1] = "bye" /\ f.n + 1 \in 1 .. Len(s)
    <3>1. FrameInv(f, s, k) /\ f.n \in Nat /\ Len(s) \in Nat
      BY <1>1, FrameTypes DEF HostInv, Speech
    <3> QED BY <1>8, <3>1 DEF FrameInv
  <2>2. ~w.owner
    BY <1>2, <2>1 DEF HostInv, OwnerInv
  <2>3. Destroyed(w) = Destroyed(e)
    BY <1>2, <2>2 DEF Destroyed, Host
  <2> QED BY <1>3, <1>7, <1>8, <2>3 DEF w
<1>9. CASE ~f.final
  <2> HIDE DEF e, u
  <2>1. HostInv(u, s, k, l)
    BY <1>4, <1>5, <1>6, SameCall
  <2> QED BY <1>3, <1>5, <1>7, <1>9, <2>1 DEF w
<1> QED BY <1>8, <1>9

(***************************************************************************)
(* A step of one host.  h, s and e are its state, its speech and what it   *)
(* has heard after the step; it sends packets.                             *)
(***************************************************************************)
Moves(p, h, s, e) ==
    LET q == Peer(p) IN
    /\ host' = [host EXCEPT ![p] = h] /\ said' = [said EXCEPT ![p] = s]
    /\ heard' = [heard EXCEPT ![p] = e] /\ plan' = plan
    /\ s \in Speech /\ Len(said[p]) <= Len(s)
    /\ \A i \in 1 .. Len(said[p]) : s[i] = said[p][i]
    /\ e \in Seq(Nat) /\ Len(heard[p]) <= Len(e) /\ Len(e) <= Len(said[q])
    /\ HostInv(h, s, Len(e), Len(heard[q]))
    /\ HeardInv(h, e, said[q])
    /\ wire' \in [Hosts -> SUBSET Packet] /\ wire'[p] \subseteq wire[p]
    /\ \A m \in wire'[q] : m \in wire[q] \/ PacketInv(m, s, Len(e))

LEMMA OneMoves ==
    ASSUME Inv, NEW p \in Hosts, NEW h, NEW s, NEW e, Moves(p, h, s, e)
    PROVE  Inv'
<1> DEFINE q == Peer(p)
<1>0. /\ host' = [host EXCEPT ![p] = h] /\ said' = [said EXCEPT ![p] = s]
      /\ heard' = [heard EXCEPT ![p] = e] /\ plan' = plan
      /\ s \in Speech /\ Len(said[p]) <= Len(s)
      /\ \A i \in 1 .. Len(said[p]) : s[i] = said[p][i]
      /\ e \in Seq(Nat) /\ Len(heard[p]) <= Len(e) /\ Len(e) <= Len(said[q])
      /\ HostInv(h, s, Len(e), Len(heard[q]))
      /\ HeardInv(h, e, said[q])
      /\ wire' \in [Hosts -> SUBSET Packet] /\ wire'[p] \subseteq wire[p]
      /\ \A m \in wire'[q] : m \in wire[q] \/ PacketInv(m, s, Len(e))
  BY DEF Moves
<1>1. /\ q \in Hosts /\ q # p /\ Peer(q) = p
      /\ \A r \in Hosts : r = p \/ r = q
  BY TwoHosts
<1>2. TypeOK
  BY DEF Inv
<1>3. /\ host'[p] = h /\ said'[p] = s /\ heard'[p] = e
      /\ host'[q] = host[q] /\ said'[q] = said[q] /\ heard'[q] = heard[q]
      /\ host[q] \in Host
      /\ said[p] \in Speech /\ said[q] \in Speech
      /\ heard[p] \in Seq(Nat) /\ heard[q] \in Seq(Nat)
      /\ wire[p] \subseteq Packet /\ wire[q] \subseteq Packet
  BY <1>0, <1>1, <1>2 DEF TypeOK, Speech
<1>4. TypeOK'
  BY <1>0, <1>1, <1>2 DEF TypeOK, HostInv, Speech
<1>5. /\ Len(said[p]) \in Nat /\ Len(s) \in Nat /\ Len(e) \in Nat
      /\ Len(said[q]) \in Nat /\ Len(heard[p]) \in Nat
      /\ Len(heard[q]) \in Nat
  BY <1>0, <1>3 DEF Speech
<1>6. /\ HostInv(host[p], said[p], Len(heard[p]), Len(heard[q]))
      /\ HostInv(host[q], said[q], Len(heard[q]), Len(heard[p]))
      /\ HeardInv(host[q], heard[q], said[p])
      /\ \A m \in wire[q] : PacketInv(m, said[p], Len(heard[p]))
      /\ \A m \in wire[p] : PacketInv(m, said[q], Len(heard[q]))
  BY <1>1 DEF Inv
<1>7. HostInv(host[q], said[q], Len(heard[q]), Len(e))
  <2>1. CountInv(host[q], said[q], Len(heard[q]), Len(e))
    BY <1>0, <1>3, <1>5, <1>6, WrapFacts DEF HostInv, CountInv
  <2>2. WindowInv(host[q], Len(e))
    BY <1>0, <1>3, <1>5, <1>6, OutFacts DEF HostInv, WindowInv
  <2> QED BY <1>0, <1>6, <2>1, <2>2 DEF HostInv
<1>8. HeardInv(host[q], heard[q], s)
  <2>1. Len(heard[q]) <= Len(said[p])
    BY <1>0, <1>6 DEF HostInv, CountInv
  <2> QED BY <1>0, <1>5, <1>6, <2>1 DEF HeardInv
<1>9. \A m \in wire'[q] : PacketInv(m, s, Len(e))
  <2>1. SUFFICES ASSUME NEW m \in wire[q]
                 PROVE  PacketInv(m, s, Len(e))
    BY <1>0
  <2>2. m.a \in Nat /\ (m.kind = "frame" => m.n \in Nat)
    BY <1>0, <1>3 DEF Packet
  <2>3. m.a <= Len(e)
    BY <1>0, <1>5, <1>6, <2>2 DEF PacketInv
  <2>4. ASSUME m.kind = "frame"
        PROVE  m.n < Len(s) /\ (m.final <=> s[m.n + 1] = "bye")
    <3>1. m.n < Len(said[p]) /\ (m.final <=> said[p][m.n + 1] = "bye")
      BY <1>0, <1>6, <2>4 DEF PacketInv
    <3>2. m.n + 1 \in 1 .. Len(said[p])
      BY <1>0, <1>5, <2>2, <2>4, <3>1
    <3> QED BY <1>0, <1>5, <2>2, <2>4, <3>1, <3>2
  <2> QED BY <2>3, <2>4 DEF PacketInv
<1>10. \A m \in wire'[p] : PacketInv(m, said[q], Len(heard[q]))
  BY <1>0, <1>6
<1>11. ASSUME NEW r \in Hosts
       PROVE  /\ HostInv(host'[r], said'[r], Len(heard'[r]),
                         Len(heard'[Peer(r)]))
              /\ HeardInv(host'[r], heard'[r], said'[Peer(r)])
              /\ \A m \in wire'[Peer(r)] :
                     PacketInv(m, said'[r], Len(heard'[r]))
  <2>1. CASE r = p
    BY <1>0, <1>3, <1>9, <2>1
  <2>2. CASE r = q
    BY <1>0, <1>1, <1>3, <1>7, <1>8, <1>10, <2>2
  <2> QED BY <1>0, <1>1, <2>1, <2>2
<1> QED BY <1>4, <1>11 DEF Inv

\* What a host knows of itself.
LEMMA Own ==
    ASSUME Inv, NEW p \in Hosts
    PROVE  /\ Peer(p) \in Hosts /\ Peer(p) # p
           /\ host[p] \in Host /\ host[p].iaxq \subseteq Frame
           /\ said[p] \in Speech /\ heard[p] \in Seq(Nat)
           /\ said \in [Hosts -> Speech] /\ heard \in [Hosts -> Seq(Nat)]
           /\ wire \in [Hosts -> SUBSET Packet] /\ wire[p] \subseteq Packet
           /\ Len(said[p]) \in Nat /\ Len(heard[p]) \in Nat
           /\ Len(heard[Peer(p)]) \in Nat /\ said[Peer(p)] \in Speech
           /\ Len(heard[p]) <= Len(said[Peer(p)])
           /\ Len(said[Peer(p)]) <= Len(heard[p]) + Window + 1
           /\ HostInv(host[p], said[p], Len(heard[p]), Len(heard[Peer(p)]))
           /\ HeardInv(host[p], heard[p], said[Peer(p)])
           /\ \A m \in wire[p] :
                 PacketInv(m, said[Peer(p)], Len(heard[Peer(p)]))
<1> DEFINE q == Peer(p)
<1>1. q \in Hosts /\ q # p /\ Peer(q) = p
  BY TwoHosts
<1>2. TypeOK
  BY DEF Inv
<1>3. /\ host[p] \in Host /\ said[p] \in Speech /\ heard[p] \in Seq(Nat)
      /\ said[q] \in Speech /\ heard[q] \in Seq(Nat)
      /\ wire[p] \subseteq Packet
      /\ said \in [Hosts -> Speech] /\ heard \in [Hosts -> Seq(Nat)]
      /\ wire \in [Hosts -> SUBSET Packet]
  BY <1>1, <1>2 DEF TypeOK, Speech
<1>4. host[p].iaxq \subseteq Frame
  BY <1>3 DEF Host
<1>5. Len(said[p]) \in Nat /\ Len(heard[p]) \in Nat /\ Len(heard[q]) \in Nat
  BY <1>3 DEF Speech
<1>6. /\ HostInv(host[p], said[p], Len(heard[p]), Len(heard[q]))
      /\ HeardInv(host[p], heard[p], said[q])
      /\ HostInv(host[q], said[q], Len(heard[q]), Len(heard[p]))
      /\ \A m \in wire[p] : PacketInv(m, said[q], Len(heard[q]))
  BY <1>1 DEF Inv
<1>7. /\ Len(heard[p]) <= Len(said[q])
      /\ Len(said[q]) <= Len(heard[p]) + Window + 1
  BY <1>6 DEF HostInv, CountInv
<1> QED BY <1>1, <1>3, <1>4, <1>5, <1>6, <1>7

\* A step in which a host says nothing and hears nothing new.
LEMMA HostMoves ==
    ASSUME Inv, NEW p \in Hosts, NEW h,
           host' = [host EXCEPT ![p] = h], UNCHANGED <<said, heard, plan>>,
           HostInv(h, said[p], Len(heard[p]), Len(heard[Peer(p)])),
           h.known => h.here /\ host[p].known,
           wire' \in [Hosts -> SUBSET Packet], wire'[p] \subseteq wire[p],
           \A m \in wire'[Peer(p)] :
               m \in wire[Peer(p)] \/ PacketInv(m, said[p], Len(heard[p]))
    PROVE  Inv'
<1>1. /\ said[p] \in Speech /\ heard[p] \in Seq(Nat)
      /\ said \in [Hosts -> Speech] /\ heard \in [Hosts -> Seq(Nat)]
      /\ Len(said[p]) \in Nat /\ Len(heard[p]) \in Nat
      /\ Len(heard[p]) <= Len(said[Peer(p)])
      /\ HeardInv(host[p], heard[p], said[Peer(p)])
  BY Own
<1>2. said' = [said EXCEPT ![p] = said[p]]
      /\ heard' = [heard EXCEPT ![p] = heard[p]]
  BY <1>1
<1>3. HeardInv(h, heard[p], said[Peer(p)])
  BY <1>1 DEF HeardInv
<1>4. Len(said[p]) <= Len(said[p]) /\ Len(heard[p]) <= Len(heard[p])
      /\ plan' = plan
  BY <1>1
<1>5. Moves(p, h, said[p], heard[p])
  BY <1>1, <1>2, <1>3, <1>4, Zenon DEF Moves
<1> QED BY <1>5, OneMoves

\* A host says a word or a goodbye, and hears nothing new.
LEMMA HostSpeaks ==
    ASSUME Inv, NEW p \in Hosts, NEW h, NEW x \in {"word", "bye"},
           host' = [host EXCEPT ![p] = h], Says(p, x),
           UNCHANGED <<wire, heard, plan>>,
           HostInv(h, Append(said[p], x), Len(heard[p]), Len(heard[Peer(p)])),
           h.known => h.here /\ host[p].known
    PROVE  Inv'
<1>1. /\ said[p] \in Speech /\ heard[p] \in Seq(Nat)
      /\ said \in [Hosts -> Speech] /\ heard \in [Hosts -> Seq(Nat)]
      /\ wire \in [Hosts -> SUBSET Packet]
      /\ Len(said[p]) \in Nat /\ Len(heard[p]) \in Nat
      /\ Len(heard[p]) <= Len(said[Peer(p)])
      /\ HeardInv(host[p], heard[p], said[Peer(p)])
  BY Own
<1> DEFINE s == Append(said[p], x)
<1>2. /\ s \in Speech /\ Len(said[p]) <= Len(s)
      /\ \A i \in 1 .. Len(said[p]) : s[i] = said[p][i]
  BY <1>1, AppendFacts DEF Speech
<1>3. said' = [said EXCEPT ![p] = s]
      /\ heard' = [heard EXCEPT ![p] = heard[p]]
  BY <1>1 DEF Says
<1>4. HeardInv(h, heard[p], said[Peer(p)])
  BY <1>1 DEF HeardInv
<1>5. /\ wire' \in [Hosts -> SUBSET Packet] /\ wire'[p] \subseteq wire[p]
      /\ wire'[Peer(p)] = wire[Peer(p)] /\ plan' = plan
      /\ Len(heard[p]) <= Len(heard[p])
  BY <1>1
<1> HIDE DEF s
<1>6. HostInv(h, s, Len(heard[p]), Len(heard[Peer(p)]))
  BY DEF s
<1>7. Moves(p, h, s, heard[p])
  BY <1>1, <1>2, <1>3, <1>4, <1>5, <1>6, Zenon DEF Moves
<1> QED BY <1>7, OneMoves

\* What a host sends, and what stays on its way to it.
LEMMA Sends ==
    ASSUME Inv, NEW p \in Hosts, NEW h, NEW left, left \subseteq wire[p],
           NEW packets, packets \subseteq Packet,
           Transmit(p, h, packets, left)
    PROVE  /\ wire' \in [Hosts -> SUBSET Packet] /\ wire'[p] = left
           /\ \A m \in wire'[Peer(p)] :
                 m \in wire[Peer(p)] \/ (h.here /\ m \in packets)
<1>1. /\ wire \in [Hosts -> SUBSET Packet] /\ wire[p] \subseteq Packet
      /\ Peer(p) \in Hosts /\ Peer(p) # p
  BY Own
<1>2. PICK some \in SUBSET (IF h.here /\ ~h.error THEN packets ELSE {}) :
          wire' = [wire EXCEPT ![p] = left, ![Peer(p)] = @ \cup some]
  BY DEF Transmit
<1>3. /\ some \subseteq packets /\ \A m \in some : h.here
      /\ wire[Peer(p)] \subseteq Packet
  BY <1>1, <1>2
<1>4. wire'[p] = left /\ wire'[Peer(p)] = wire[Peer(p)] \cup some
  BY <1>1, <1>2
<1> QED BY <1>1, <1>2, <1>3, <1>4

LEMMA Hushes ==
    ASSUME Inv, NEW p \in Hosts, NEW left, left \subseteq wire[p],
           Silent(p, left)
    PROVE  /\ wire' \in [Hosts -> SUBSET Packet] /\ wire'[p] = left
           /\ wire'[Peer(p)] = wire[Peer(p)]
<1>1. /\ wire \in [Hosts -> SUBSET Packet] /\ wire[p] \subseteq Packet
      /\ Peer(p) \in Hosts /\ Peer(p) # p
  BY Own
<1> QED BY <1>1 DEF Silent

\* A copy of a frame of iaxq, and a report, may go on the wire.
LEMMA Sendable ==
    ASSUME NEW h, NEW s \in Speech, NEW k \in Nat, NEW l \in Nat,
           HostInv(h, s, k, l)
    PROVE  /\ \A f \in h.iaxq : Copy(f) \in Packet
                                /\ PacketInv(Copy(f), s, k)
           /\ Ack(h) \in Packet /\ Vnak(h) \in Packet
           /\ h.here => PacketInv(Ack(h), s, k) /\ PacketInv(Vnak(h), s, k)
<1>1. h \in Host /\ h.iaxq \subseteq Frame /\ h.iseqno \in Nat
  BY DEF HostInv, Host
<1>2. ASSUME NEW f \in h.iaxq
      PROVE  Copy(f) \in Packet /\ PacketInv(Copy(f), s, k)
  <2>1. FrameInv(f, s, k) /\ f \in Frame
    BY <1>1 DEF HostInv
  <2>2. Copy(f) \in Packet
    BY <2>1, FrameTypes
  <2>3. /\ Copy(f).kind = "frame" /\ Copy(f).n = f.n /\ Copy(f).a = f.a
        /\ Copy(f).final = f.final
    BY DEF Copy
  <2> QED BY <2>1, <2>2, <2>3 DEF FrameInv, PacketInv
<1>3. Ack(h) \in Packet /\ Vnak(h) \in Packet
  BY <1>1 DEF Ack, Vnak, Packet
<1>4. h.here => h.iseqno = k
  BY DEF HostInv, CountInv
<1>5. h.here => PacketInv(Ack(h), s, k) /\ PacketInv(Vnak(h), s, k)
  BY <1>1, <1>4 DEF Ack, Vnak, PacketInv
<1> QED BY <1>2, <1>3, <1>5

(***************************************************************************)
(* The invariant holds at first, and every step keeps it.                  *)
(***************************************************************************)
LEMMA InitInv == Init => Inv
<1> SUFFICES ASSUME Init
             PROVE  Inv
  OBVIOUS
<1>1. /\ Start \in [Hosts -> Nat]
      /\ \A p \in Hosts : Peer(p) \in Hosts /\ Peer(Peer(p)) = p
  BY IaxFramesAssumption, TwoHosts
<1>2. ASSUME NEW p \in Hosts
      PROVE  /\ said[p] \in Speech /\ Len(said[p]) = Start[p]
             /\ \A i \in 1 .. Start[p] : said[p][i] = "word"
             /\ heard[p] \in Seq(Nat) /\ Len(heard[p]) = Start[Peer(p)]
             /\ \A i \in 1 .. Start[Peer(p)] : heard[p][i] = i
             /\ wire[p] = {} /\ Start[p] \in Nat /\ Start[Peer(p)] \in Nat
  BY <1>1 DEF Init, Speech
<1>3. ASSUME NEW p \in Hosts
      PROVE  /\ host[p] \in Host /\ host[p].here
             /\ host[p].oseqno = Start[p] /\ host[p].iaxq = {}
             /\ host[p].rseqno = Byte(Start[p])
             /\ host[p].iseqno = Start[Peer(p)]
  <2>1. /\ Start[p] \in Nat /\ Byte(Start[p]) \in 0 .. Wrap - 1
        /\ Start[Peer(p)] \in Nat /\ Byte(Start[Peer(p)]) \in 0 .. Wrap - 1
    BY <1>1, ByteType
  <2> QED BY <2>1 DEF Init, Host
<1>4. ASSUME NEW p \in Hosts
      PROVE  Out(host[p]) = 0 /\ Base(host[p]) = Start[p]
  <2>1. Out(host[p]) = Behind(Start[p], Start[p])
    BY <1>1, <1>3, BehindByte DEF Out
  <2>2. Out(host[p]) = 0
    BY <1>1, <2>1, BehindExact, WrapFacts
  <2> QED BY <1>1, <1>3, <2>2 DEF Base
<1>5. TypeOK
  <2>1. host \in [Hosts -> Host] /\ wire \in [Hosts -> SUBSET Packet]
    BY <1>3 DEF Init
  <2>2. said \in [Hosts -> Speech] /\ heard \in [Hosts -> Seq(Nat)]
    BY <1>2 DEF Init
  <2> QED BY <2>1, <2>2 DEF TypeOK, Init, Speech
<1>6. ASSUME NEW p \in Hosts
      PROVE  HostInv(host[p], said[p], Len(heard[p]), Len(heard[Peer(p)]))
  <2>1. Len(heard[p]) = Start[Peer(p)] /\ Len(heard[Peer(p)]) = Start[p]
    BY <1>1, <1>2
  <2>2. CountInv(host[p], said[p], Start[Peer(p)], Start[p])
    BY <1>2, <1>3, WrapFacts DEF CountInv
  <2>3. WindowInv(host[p], Start[p])
    BY <1>2, <1>4, WrapFacts DEF WindowInv
  <2>4. OwnerInv(host[p], said[p])
    BY <1>2 DEF OwnerInv
  <2>5. RetryInv(host[p])
    BY <1>2, <1>3, <1>4 DEF RetryInv
  <2> QED BY <1>3, <2>1, <2>2, <2>3, <2>4, <2>5 DEF HostInv
<1>7. ASSUME NEW p \in Hosts
      PROVE  HeardInv(host[p], heard[p], said[Peer(p)])
  BY <1>1, <1>2, <1>3 DEF HeardInv
<1> QED BY <1>1, <1>2, <1>5, <1>6, <1>7 DEF Inv

LEMMA WriteInv ==
    ASSUME Inv, NEW p \in Hosts, Write(p) \/ Ping(p)
    PROVE  Inv'
<1> DEFINE h == host[p]
           g == Numbered(h, FALSE)
<1>1. /\ h \in Host /\ said[p] \in Speech /\ Len(heard[p]) \in Nat
      /\ Len(heard[Peer(p)]) \in Nat
      /\ HostInv(h, said[p], Len(heard[p]), Len(heard[Peer(p)]))
  BY Own
<1>2. /\ h.here /\ Room(h) /\ host' = [host EXCEPT ![p] = g]
      /\ Says(p, "word") /\ UNCHANGED <<wire, heard, plan>>
  BY DEF Write, Ping, Allowed, AllowedPing
<1>3. Out(h) < Window /\ Out(h) <= Window
  BY <1>1, <1>2, OutFacts, WrapFacts DEF Room, Out
<1> HIDE DEF h
<1>4. /\ HostInv(g, Append(said[p], Spoken(FALSE)), Len(heard[p]),
                 Len(heard[Peer(p)]))
      /\ g.known = h.known /\ g.here
  BY <1>1, <1>2, <1>3, NumberedInv
<1>5. Spoken(FALSE) = "word"
  BY DEF Spoken
<1> HIDE DEF g
<1> QED BY <1>2, <1>4, <1>5, HostSpeaks DEF h

LEMMA DoomedInv ==
    ASSUME NEW h, NEW s \in Speech, NEW k \in Nat, NEW l \in Nat,
           HostInv(h, s, k, l)
    PROVE  LET g == [h EXCEPT !.doomed = TRUE]
           IN  /\ HostInv(g, s, k, l)
               /\ g.known = h.known /\ g.here = h.here
<1> DEFINE g == [h EXCEPT !.doomed = TRUE]
<1>1. h \in Host
  BY DEF HostInv
<1>2. /\ g \in Host /\ g.owner = h.owner /\ g.known = h.known
      /\ g.oseqno = h.oseqno /\ g.rseqno = h.rseqno
      /\ g.iseqno = h.iseqno /\ g.iaxq = h.iaxq /\ g.here = h.here
      /\ g.error = h.error
  BY <1>1 DEF Host
<1> HIDE DEF g
<1>3. HostInv(g, s, k, l)
  BY <1>2, SameCall
<1> QED BY <1>2, <1>3 DEF g

LEMMA HangupInv ==
    ASSUME Inv, NEW p \in Hosts, Hangup(p)
    PROVE  Inv'
<1> DEFINE h == host[p]
           k == Len(heard[p])
           l == Len(heard[Peer(p)])
           pre == Predestroyed(h)
<1>1. /\ h \in Host /\ said[p] \in Speech /\ k \in Nat /\ l \in Nat
      /\ HostInv(h, said[p], k, l)
      /\ wire \in [Hosts -> SUBSET Packet]
      /\ HeardInv(h, heard[p], said[Peer(p)])
  BY Own
<1>2. h.here /\ h.owner /\ UNCHANGED <<wire, heard, plan>>
  BY DEF Hangup
<1>3. /\ HostInv(pre, said[p], k, l) /\ ~pre.owner
  BY <1>1, PredestroyedInv
<1>4. /\ pre.here /\ pre.known = h.known /\ pre.oseqno = h.oseqno
      /\ pre.rseqno = h.rseqno
  BY <1>1, <1>2 DEF Predestroyed, Host
<1> HIDE DEF k, l
<1>5. CASE h.gone
  <2>1. host' = [host EXCEPT ![p] = Destroyed(pre)] /\ UNCHANGED said
    BY <1>5 DEF Hangup
  <2> DEFINE g == Destroyed(pre)
  <2>2. HostInv(g, said[p], k, l)
    BY <1>1, <1>3, DestroyedInv
  <2>3. pre \in Host
    BY <1>3 DEF HostInv
  <2>4. ~g.known
    BY <2>3, DestroyedFields
  <2> HIDE DEF g, h
  <2> QED BY <1>1, <1>2, <2>1, <2>2, <2>4, HostMoves DEF g, k, l
<1>6. CASE ~h.gone /\ h.error
  <2> DEFINE g == [pre EXCEPT !.doomed = TRUE]
  <2>1. host' = [host EXCEPT ![p] = g] /\ UNCHANGED said
    BY <1>6 DEF Hangup
  <2>2. /\ HostInv(g, said[p], k, l)
        /\ g.known = pre.known /\ g.here = pre.here
    BY <1>1, <1>3, DoomedInv
  <2> HIDE DEF g, pre
  <2> QED BY <1>1, <1>2, <1>4, <2>1, <2>2, HostMoves DEF k, l
<1>7. CASE ~h.gone /\ ~h.error
  <2> DEFINE n == Numbered(pre, TRUE)
             g == [n EXCEPT !.doomed = TRUE]
             t == Append(said[p], Spoken(TRUE))
  <2>1. host' = [host EXCEPT ![p] = g] /\ Says(p, "bye")
    BY <1>7 DEF Hangup
  <2>2. Out(pre) <= Window
    <3>1. Out(pre) = Out(h)
      BY <1>4, SameNumbers
    <3> QED BY <1>1, <1>2, <3>1 DEF HostInv, WindowInv
  <2>3. Spoken(TRUE) = "bye"
    BY DEF Spoken
  <2>4. t \in Speech
    BY <1>1, <2>3, AppendFacts DEF Speech
  <2> HIDE DEF pre
  <2>5. HostInv(n, t, k, l) /\ n.known = pre.known /\ n.here
    BY <1>1, <1>3, <1>4, <2>2, NumberedInv
  <2> HIDE DEF n
  <2>6. HostInv(g, t, k, l) /\ g.known = n.known /\ g.here = n.here
    <3> HIDE DEF t
    <3> QED BY <1>1, <2>4, <2>5, DoomedInv
  <2> HIDE DEF g
  <2> QED BY <1>2, <1>4, <2>1, <2>3, <2>5, <2>6, HostSpeaks DEF k, l, t
<1> QED BY <1>5, <1>6, <1>7

LEMMA ScheduledDestroyInv ==
    ASSUME Inv, NEW p \in Hosts, ScheduledDestroy(p)
    PROVE  Inv'
<1> DEFINE g == Destroyed(host[p])
<1>1. /\ host[p] \in Host /\ said[p] \in Speech /\ Len(heard[p]) \in Nat
      /\ Len(heard[Peer(p)]) \in Nat
      /\ HostInv(host[p], said[p], Len(heard[p]), Len(heard[Peer(p)]))
      /\ wire \in [Hosts -> SUBSET Packet] /\ host \in [Hosts -> Host]
  BY Own DEF Inv, TypeOK
<1>2. /\ host' = [host EXCEPT ![p] = g]
      /\ UNCHANGED <<said, heard, plan>> /\ UNCHANGED wire
  BY <1>1 DEF ScheduledDestroy
<1>3. HostInv(g, said[p], Len(heard[p]), Len(heard[Peer(p)]))
  BY <1>1, DestroyedInv
<1>4. ~g.known
  BY <1>1, DestroyedFields
<1> HIDE DEF g
<1> QED BY <1>1, <1>2, <1>3, <1>4, HostMoves

LEMMA LoseInv ==
    ASSUME Inv, NEW p \in Hosts, Lose(p)
    PROVE  Inv'
<1>1. PICK m \in wire[p] : Silent(p, wire[p] \ {m})
  BY DEF Lose
<1>2. /\ host[p] \in Host
      /\ HostInv(host[p], said[p], Len(heard[p]), Len(heard[Peer(p)]))
      /\ HeardInv(host[p], heard[p], said[Peer(p)])
      /\ host \in [Hosts -> Host]
  BY Own DEF Inv, TypeOK
<1>3. host' = [host EXCEPT ![p] = host[p]]
      /\ UNCHANGED <<said, heard, plan>>
  BY <1>2 DEF Lose
<1> DEFINE left == wire[p] \ {m}
<1>4. left \subseteq wire[p] /\ Silent(p, left)
  BY <1>1
<1> HIDE DEF left
<1>5. /\ wire' \in [Hosts -> SUBSET Packet] /\ wire'[p] = left
      /\ wire'[Peer(p)] = wire[Peer(p)]
  BY <1>4, Hushes
<1>6. host[p].known => host[p].here
  BY <1>2 DEF HeardInv
<1> QED BY <1>2, <1>3, <1>4, <1>5, <1>6, HostMoves

\* A frame that has retries left, with the number of retries counted.
LEMMA RetryInvariant ==
    ASSUME NEW f \in Frame, NEW s, NEW k, FrameInv(f, s, k),
           0 <= f.retries, f.retries < MaxRetries
    PROVE  /\ Retry(f) \in Frame /\ Retry(f).n = f.n
           /\ Retry(f).retries >= 0 /\ FrameInv(Retry(f), s, k)
<1>1. Retry(f) \in Frame /\ f.retries \in Int
  BY FrameTypes
<1>2. /\ Retry(f).n = f.n /\ Retry(f).a = f.a
      /\ Retry(f).final = f.final /\ Retry(f).retries = f.retries + 1
      /\ Retry(f).sentyet
  BY DEF Retry, Frame
<1> QED BY <1>1, <1>2 DEF FrameInv

LEMMA UpdatedInv ==
    ASSUME NEW h \in Host, NEW f \in Frame, NEW s, NEW k \in Nat,
           FrameInv(f, s, k), f.sentyet, h.iseqno = k
    PROVE  LET g == Updated(f, h)
           IN  /\ g \in Frame /\ FrameInv(g, s, k)
               /\ g.n = f.n /\ g.retries = f.retries
<1> DEFINE g == Updated(f, h)
<1>1. g \in Frame
  BY FrameTypes
<1>2. /\ g.n = f.n /\ g.a = k /\ g.final = f.final
      /\ g.retries = f.retries /\ g.sentyet
  BY DEF Updated, Frame
<1> HIDE DEF g
<1>3. FrameInv(g, s, k)
  BY <1>2 DEF FrameInv
<1> QED BY <1>1, <1>2, <1>3 DEF g

LEMMA NetworkThreadInv ==
    ASSUME Inv, NEW p \in Hosts, NetworkThread(p)
    PROVE  Inv'
<1> DEFINE h == host[p]
           k == Len(heard[p])
           l == Len(heard[Peer(p)])
<1>1. /\ h \in Host /\ said[p] \in Speech /\ k \in Nat /\ l \in Nat
      /\ h.iaxq \subseteq Frame /\ HostInv(h, said[p], k, l)
      /\ HeardInv(h, heard[p], said[Peer(p)])
  BY Own
<1>2. PICK f \in h.iaxq :
          /\ ~f.sentyet
          /\ host' = [host EXCEPT ![p] = IF f.retries < 0 THEN Without(h, f)
                                         ELSE With(h, f, Retry(f))]
          /\ Transmit(p, h, {Copy(f)}, wire[p])
          /\ UNCHANGED <<said, heard, plan>>
  BY DEF NetworkThread
<1>3. f \in Frame /\ FrameInv(f, said[p], k)
  BY <1>1 DEF HostInv
<1>4. /\ Copy(f) \in Packet /\ PacketInv(Copy(f), said[p], k)
  BY <1>1, Sendable
<1>5. /\ wire' \in [Hosts -> SUBSET Packet] /\ wire'[p] = wire[p]
      /\ \A m \in wire'[Peer(p)] :
            m \in wire[Peer(p)] \/ PacketInv(m, said[p], k)
  <2> DEFINE packets == {Copy(f)}
  <2>1. /\ packets \subseteq Packet
        /\ \A m \in packets : PacketInv(m, said[p], k)
        /\ Transmit(p, h, packets, wire[p])
    BY <1>2, <1>4
  <2> HIDE DEF packets, h
  <2> QED BY <2>1, Sends
<1>6. h.known => h.here
  BY <1>1 DEF HeardInv
<1> HIDE DEF h, k, l
<1>7. CASE f.retries < 0
  <2> DEFINE g == Without(h, f)
  <2>1. HostInv(g, said[p], k, l) /\ g.known = h.known /\ g.here = h.here
    BY <1>1, <1>7, WithoutInv, ZenonT(30)
  <2>2. host' = [host EXCEPT ![p] = g]
    BY <1>2, <1>7
  <2> HIDE DEF g
  <2> QED BY <1>2, <1>5, <1>6, <2>1, <2>2, HostMoves DEF h, k, l
<1>8. CASE ~(f.retries < 0)
  <2> DEFINE g == With(h, f, Retry(f))
  <2>1. 0 <= f.retries /\ f.retries < MaxRetries
    BY <1>2, <1>3, <1>8, FrameTypes, IaxFramesAssumption DEF FrameInv
  <2>2. /\ Retry(f) \in Frame /\ Retry(f).n = f.n
        /\ Retry(f).retries >= 0 /\ FrameInv(Retry(f), said[p], k)
    BY <1>3, <2>1, RetryInvariant
  <2>3. HostInv(g, said[p], k, l) /\ g.known = h.known /\ g.here = h.here
    BY <1>1, <2>2, WithInv
  <2>4. host' = [host EXCEPT ![p] = g]
    BY <1>2, <1>8
  <2> HIDE DEF g
  <2> QED BY <1>2, <1>5, <1>6, <2>3, <2>4, HostMoves DEF h, k, l
<1> QED BY <1>7, <1>8

LEMMA AttemptTransmitInv ==
    ASSUME Inv, NEW p \in Hosts, AttemptTransmit(p)
    PROVE  Inv'
<1> DEFINE h == host[p]
           k == Len(heard[p])
           l == Len(heard[Peer(p)])
<1>1. /\ h \in Host /\ said[p] \in Speech /\ k \in Nat /\ l \in Nat
      /\ h.iaxq \subseteq Frame /\ HostInv(h, said[p], k, l)
      /\ HeardInv(h, heard[p], said[Peer(p)])
      /\ wire \in [Hosts -> SUBSET Packet]
  BY Own
<1>2. PICK f \in h.iaxq :
          /\ f.sentyet
          /\ UNCHANGED <<said, heard, plan>>
          /\ \/ /\ Settled(f, h)
                /\ host' = [host EXCEPT ![p] = Without(h, f)]
                /\ UNCHANGED wire
             \/ /\ ~Settled(f, h) /\ f.retries >= MaxRetries
                /\ host' = [host EXCEPT ![p] = GivenUp(Without(h, f), f)]
                /\ UNCHANGED wire
             \/ /\ ~Settled(f, h) /\ f.retries < MaxRetries
                /\ host' = [host EXCEPT ![p] =
                                With(h, f, Retry(Updated(f, h)))]
                /\ Transmit(p, h, {Copy(Updated(f, h))}, wire[p])
  BY DEF AttemptTransmit
<1>3. f \in Frame /\ FrameInv(f, said[p], k)
  BY <1>1 DEF HostInv
<1>4. h.known => h.here
  BY <1>1 DEF HeardInv
<1> HIDE DEF h, k, l
<1>5. CASE Settled(f, h) /\ host' = [host EXCEPT ![p] = Without(h, f)]
           /\ UNCHANGED wire
  <2> DEFINE g == Without(h, f)
  <2>1. HostInv(g, said[p], k, l) /\ g.known = h.known /\ g.here = h.here
    BY <1>1, <1>5, WithoutInv, ZenonT(30) DEF Settled
  <2>2. host' = [host EXCEPT ![p] = g] /\ UNCHANGED wire
    BY <1>5
  <2> HIDE DEF g
  <2> QED BY <1>1, <1>2, <1>4, <2>1, <2>2, HostMoves DEF h, k, l
<1>6. CASE ~Settled(f, h) /\ UNCHANGED wire
           /\ host' = [host EXCEPT ![p] = GivenUp(Without(h, f), f)]
  <2> DEFINE g == GivenUp(Without(h, f), f)
  <2>1. HostInv(g, said[p], k, l) /\ (g.known => h.known /\ g.here)
    BY <1>1, <1>6, GivenUpInv DEF Settled
  <2>2. host' = [host EXCEPT ![p] = g] /\ UNCHANGED wire
    BY <1>6
  <2> HIDE DEF g
  <2> QED BY <1>1, <1>2, <2>1, <2>2, HostMoves DEF h, k, l
<1>7. CASE /\ ~Settled(f, h) /\ f.retries < MaxRetries
           /\ host' = [host EXCEPT ![p] = With(h, f, Retry(Updated(f, h)))]
           /\ Transmit(p, h, {Copy(Updated(f, h))}, wire[p])
  <2> DEFINE u == Updated(f, h)
             g == With(h, f, Retry(u))
             packets == {Copy(u)}
  <2>1. h.here /\ 0 <= f.retries /\ h.iseqno = k
    BY <1>1, <1>3, <1>7, FrameTypes DEF Settled, HostInv, CountInv
  <2>2. /\ u \in Frame /\ FrameInv(u, said[p], k)
        /\ u.n = f.n /\ u.retries = f.retries
    BY <1>1, <1>2, <1>3, <2>1, UpdatedInv
  <2> HIDE DEF u
  <2>3. /\ Retry(u) \in Frame /\ Retry(u).n = f.n
        /\ Retry(u).retries >= 0 /\ FrameInv(Retry(u), said[p], k)
    BY <1>7, <2>1, <2>2, RetryInvariant
  <2>4. HostInv(g, said[p], k, l) /\ g.known = h.known /\ g.here = h.here
    BY <1>1, <2>3, WithInv
  <2>5. host' = [host EXCEPT ![p] = g] /\ Transmit(p, h, packets, wire[p])
    BY <1>7 DEF u
  <2>6. packets \subseteq Packet /\ \A m \in packets : PacketInv(m, said[p], k)
    <3>1. Copy(u) \in Packet
      BY <2>2, FrameTypes
    <3>2. PacketInv(Copy(u), said[p], k)
      BY <2>2 DEF Copy, PacketInv, FrameInv
    <3> QED BY <3>1, <3>2
  <2> HIDE DEF g, packets
  <2>7. /\ wire' \in [Hosts -> SUBSET Packet] /\ wire'[p] = wire[p]
        /\ \A m \in wire'[Peer(p)] :
              m \in wire[Peer(p)] \/ PacketInv(m, said[p], k)
    BY <2>5, <2>6, Sends
  <2> QED BY <1>2, <1>4, <2>4, <2>5, <2>7, HostMoves DEF h, k, l
<1> QED BY <1>2, <1>5, <1>6, <1>7

(***************************************************************************)
(* A packet arrives.                                                       *)
(***************************************************************************)
\* A packet that is fresh reports no more than the other host has heard; a
\* frame whose number has the byte that is expected has that very number.
LEMMA Arrives ==
    ASSUME Inv, NEW p \in Hosts, NEW m \in wire[p], Fresh(p, m), host[p].known
    PROVE  LET k == Len(heard[p])
               t == said[Peer(p)]
           IN  /\ host[p].here /\ host[p].iseqno = k
               /\ m.a \in Nat /\ m.a <= Len(heard[Peer(p)])
               /\ m.a + Wrap > host[p].oseqno
               /\ m.kind = "frame" /\ Expected(host[p], m) =>
                     /\ m.n = k /\ k < Len(t)
                     /\ m.final <=> t[k + 1] = "bye"
<1> DEFINE k == Len(heard[p])
           t == said[Peer(p)]
<1>1. /\ host[p] \in Host /\ k \in Nat /\ Len(t) \in Nat
      /\ k <= Len(t) /\ Len(t) <= k + Window + 1
      /\ HostInv(host[p], said[p], k, Len(heard[Peer(p)]))
      /\ HeardInv(host[p], heard[p], t)
      /\ m \in Packet /\ PacketInv(m, t, Len(heard[Peer(p)]))
      /\ Peer(p) \in Hosts
  BY Own DEF Speech
<1>2. host[p].here /\ host[p].iseqno = k
  BY <1>1 DEF HostInv, HeardInv, CountInv
<1>3. /\ m.a \in Nat /\ m.a <= Len(heard[Peer(p)])
      /\ m.a + Wrap > host[p].oseqno
  BY <1>1 DEF Packet, PacketInv, Fresh
<1>4. ASSUME m.kind = "frame", Expected(host[p], m)
      PROVE  /\ m.n = k /\ k < Len(t)
             /\ m.final <=> t[k + 1] = "bye"
  <2>1. /\ m.n \in Nat /\ m.n < Len(t)
        /\ m.final <=> t[m.n + 1] = "bye"
    BY <1>1, <1>4 DEF Packet, PacketInv
  <2>2. host[Peer(p)].oseqno = Len(t)
    <3>1. HostInv(host[Peer(p)], t, Len(heard[Peer(p)]), k)
      BY <1>1, TwoHosts DEF Inv
    <3> QED BY <3>1 DEF HostInv, CountInv
  <2>3. m.n + Wrap > Len(t)
    BY <1>4, <2>2 DEF Fresh
  <2>4. Byte(m.n) = Byte(k)
    BY <1>2, <1>4 DEF Expected
  <2>5. m.n < k + Wrap /\ k < m.n + Wrap
    BY <1>1, <2>1, <2>3, WrapFacts
  <2>6. m.n = k
    <3> HIDE DEF k
    <3> QED BY <1>1, <2>1, <2>4, <2>5, SameByte
  <2> QED BY <2>1, <2>6
<1> QED BY <1>2, <1>3, <1>4

LEMMA AckedReports ==
    ASSUME NEW h \in Host, NEW a \in Nat, NEW k \in Nat,
           \A f \in h.iaxq : f.a <= k
    PROVE  \A f \in Acked(h, a).iaxq : f.a <= k
<1> DEFINE done == {f \in h.iaxq : Covers(h, a, f)}
           left == (h.iaxq \ done) \cup {Spared(f) : f \in done}
           b == Byte(a)
           g == [h EXCEPT !.iaxq = left, !.rseqno = b]
           bare == {Spared(f) : f \in left}
<1>1. h.iaxq \subseteq Frame
  BY DEF Host
<1>2. \A f \in Frame : Spared(f) \in Frame /\ Spared(f).a = f.a
  BY FrameTypes DEF Spared, Frame
<1>3. \A f \in left : f \in Frame /\ f.a <= k
  BY <1>1, <1>2
<1> HIDE DEF left
<1>4. \A f \in bare : f.a <= k
  BY <1>2, <1>3
<1>5. /\ Acked(h, a) = h \/ Acked(h, a) = g \/ Acked(h, a) = Destroyed(g)
  BY DEF Acked, left
<1> HIDE DEF b, bare
<1>6. g.iaxq = left
  BY DEF Host
<1>7. Destroyed(g).iaxq = left \/ Destroyed(g).iaxq = bare
  <2>1. CASE g.owner
    BY <1>6, <2>1 DEF Destroyed, Host
  <2>2. CASE ~g.owner
    BY <1>6, <2>2 DEF Destroyed, Host, bare
  <2> QED BY <2>1, <2>2
<1> QED BY <1>3, <1>4, <1>5, <1>6, <1>7

\* The frame that was expected, with its acknowledgement.
LEMMA AcceptedInv ==
    ASSUME Inv, NEW p \in Hosts, NEW m \in wire[p], Fresh(p, m),
           host[p].known, m.kind = "frame", Expected(host[p], m)
    PROVE  LET h == Accepted(host[p], m)
               k == Len(heard[p])
               l == Len(heard[Peer(p)])
           IN  /\ HostInv(h, said[p], k + 1, l)
               /\ \A f \in h.iaxq : f.a <= k
               /\ h.known => h.here
               /\ h.here => Out(h) <= Out(host[p])
<1> DEFINE h == Accepted(host[p], m)
           k == Len(heard[p])
           l == Len(heard[Peer(p)])
           c == [host[p] EXCEPT !.iseqno = @ + 1]
<1>1. /\ host[p] \in Host /\ said[p] \in Speech /\ k \in Nat /\ l \in Nat
      /\ k + 1 \in Nat /\ HostInv(host[p], said[p], k, l)
  BY Own
<1>2. /\ host[p].here /\ m.a \in Nat /\ m.a <= l
      /\ m.a + Wrap > host[p].oseqno
  BY Arrives
<1> HIDE DEF k, l
<1>3. HostInv(c, said[p], k + 1, l)
  BY <1>1, <1>2, CountedInv
<1>4. /\ c.here /\ c.oseqno = host[p].oseqno /\ c.rseqno = host[p].rseqno
      /\ c.iaxq = host[p].iaxq /\ c \in Host /\ c.known = host[p].known
  BY <1>1, <1>2, <1>3 DEF Host, HostInv
<1>5. h = Acked(c, m.a)
  BY DEF Accepted
<1> HIDE DEF c, h
<1>6. /\ HostInv(h, said[p], k + 1, l)
      /\ h.known => c.known /\ h.here
      /\ h.here => Out(h) <= Out(c)
  BY <1>1, <1>2, <1>3, <1>4, <1>5, AckedInv
<1>7. Out(c) = Out(host[p])
  BY <1>4, SameNumbers
<1>8. \A f \in c.iaxq : f.a <= k
  BY <1>1, <1>4 DEF HostInv, FrameInv
<1>9. \A f \in h.iaxq : f.a <= k
  BY <1>1, <1>2, <1>4, <1>5, <1>8, AckedReports
<1> QED BY <1>6, <1>7, <1>9 DEF h, k, l

LEMMA UnknownInv ==
    ASSUME Inv, NEW p \in Hosts, NEW m \in wire[p], NEW left,
           left \subseteq wire[p], Unknown(p, m, left)
    PROVE  Inv'
<1>1. /\ HostInv(host[p], said[p], Len(heard[p]), Len(heard[Peer(p)]))
      /\ host \in [Hosts -> Host]
  BY Own DEF Inv, TypeOK
<1>2. /\ wire' \in [Hosts -> SUBSET Packet] /\ wire'[p] = left
      /\ wire'[Peer(p)] = wire[Peer(p)]
  BY Hushes DEF Unknown
<1>3. /\ host' = [host EXCEPT ![p] = host[p]] /\ ~host[p].known
      /\ UNCHANGED <<said, heard, plan>>
  BY <1>1 DEF Unknown
<1> QED BY <1>1, <1>2, <1>3, HostMoves

LEMMA OutOfOrderInv ==
    ASSUME Inv, NEW p \in Hosts, NEW m \in wire[p], NEW left,
           left \subseteq wire[p], OutOfOrder(p, m, left)
    PROVE  Inv'
<1> DEFINE h == host[p]
           g == Reports(h)
           x == IF Behind(h.iseqno, m.n) < Wrap \div 2 THEN Ack(h)
                ELSE Vnak(h)
           packets == {x}
<1>1. /\ HostInv(h, said[p], Len(heard[p]), Len(heard[Peer(p)]))
      /\ HeardInv(h, heard[p], said[Peer(p)])
      /\ h \in Host /\ said[p] \in Speech /\ Len(heard[p]) \in Nat
      /\ Len(heard[Peer(p)]) \in Nat
  BY Own
<1>2. /\ h.known /\ host' = [host EXCEPT ![p] = g]
      /\ Transmit(p, h, packets, left)
      /\ UNCHANGED <<said, heard, plan>>
  BY DEF OutOfOrder
<1>3. h.here
  BY <1>1, <1>2 DEF HeardInv
<1>4. /\ Ack(h) \in Packet /\ PacketInv(Ack(h), said[p], Len(heard[p]))
      /\ Vnak(h) \in Packet /\ PacketInv(Vnak(h), said[p], Len(heard[p]))
  BY <1>1, <1>3, Sendable
<1> HIDE DEF h
<1>5. /\ packets \subseteq Packet
      /\ \A y \in packets : PacketInv(y, said[p], Len(heard[p]))
  BY <1>4
<1> HIDE DEF packets
<1>6. /\ wire' \in [Hosts -> SUBSET Packet] /\ wire'[p] = left
      /\ \A y \in wire'[Peer(p)] :
            y \in wire[Peer(p)] \/ PacketInv(y, said[p], Len(heard[p]))
  BY <1>2, <1>5, Sends
<1>7. HostInv(g, said[p], Len(heard[p]), Len(heard[Peer(p)]))
  BY <1>1, ReportsInv
<1>8. g.here
  BY <1>1, <1>3 DEF Reports, Host
<1> HIDE DEF g
<1> QED BY <1>2, <1>6, <1>7, <1>8, HostMoves DEF h

LEMMA FarewellInv ==
    ASSUME Inv, NEW p \in Hosts, NEW m \in wire[p], NEW left, Fresh(p, m),
           left \subseteq wire[p], Farewell(p, m, left)
    PROVE  Inv'
<1> DEFINE h == Accepted(host[p], m)
           k == Len(heard[p])
           l == Len(heard[Peer(p)])
<1>1. /\ host[p].known /\ m.kind = "frame" /\ Expected(host[p], m)
      /\ ~h.here /\ host' = [host EXCEPT ![p] = h] /\ Silent(p, left)
      /\ UNCHANGED <<said, heard, plan>>
  BY DEF Farewell
<1>2. k \in Nat /\ said[p] \in Speech
  BY Own
<1>3. /\ HostInv(h, said[p], k + 1, l)
      /\ \A f \in h.iaxq : f.a <= k
      /\ h.known => h.here
  BY <1>1, AcceptedInv
<1>4. /\ wire' \in [Hosts -> SUBSET Packet] /\ wire'[p] = left
      /\ wire'[Peer(p)] = wire[Peer(p)]
  BY <1>1, Hushes
<1> HIDE DEF h, k, l
<1>5. HostInv(h, said[p], k, l)
  <2>1. CountInv(h, said[p], k, l)
    BY <1>1, <1>3 DEF HostInv, CountInv
  <2>2. \A f \in h.iaxq : FrameInv(f, said[p], k)
    BY <1>3 DEF HostInv, FrameInv
  <2> QED BY <1>3, <2>1, <2>2 DEF HostInv
<1> QED BY <1>1, <1>3, <1>4, <1>5, HostMoves DEF k, l

\* What has been heard, with the frame that was expected.
LEMMA HearsNext ==
    ASSUME Inv, NEW p \in Hosts, NEW m \in wire[p], Fresh(p, m),
           host[p].known, m.kind = "frame", Expected(host[p], m), Hears(p, m)
    PROVE  LET k == Len(heard[p])
               e == Append(heard[p], k + 1)
               t == said[Peer(p)]
           IN  /\ heard' = [heard EXCEPT ![p] = e]
               /\ e \in Seq(Nat) /\ k \in Nat /\ Len(e) = k + 1
               /\ Len(e) <= Len(t) /\ \A i \in 1 .. Len(e) : e[i] = i
               /\ m.final <=> t[k + 1] = "bye"
               /\ \A i \in 1 .. k : t[i] # "bye"
<1> DEFINE k == Len(heard[p])
           e == Append(heard[p], k + 1)
           t == said[Peer(p)]
<1>1. /\ heard[p] \in Seq(Nat) /\ k \in Nat /\ HeardInv(host[p], heard[p], t)
      /\ Len(t) \in Nat
  BY Own DEF Speech
<1>2. m.n = k /\ k < Len(t) /\ (m.final <=> t[k + 1] = "bye")
  BY Arrives
<1>3. /\ e \in Seq(Nat) /\ Len(e) = k + 1 /\ e[k + 1] = k + 1
      /\ \A i \in 1 .. k : e[i] = heard[p][i]
  BY <1>1, AppendFacts
<1>4. heard' = [heard EXCEPT ![p] = e]
  BY <1>2 DEF Hears
<1> HIDE DEF e
<1>5. ASSUME NEW i \in 1 .. Len(e)
      PROVE  e[i] = i
  <2>1. CASE i = k + 1
    BY <1>3, <2>1
  <2>2. CASE i # k + 1
    <3>1. i \in 1 .. k
      BY <1>1, <1>3, <2>2
    <3> QED BY <1>1, <1>3, <3>1 DEF HeardInv
  <2> QED BY <2>1, <2>2
<1>6. Len(e) <= Len(t) /\ \A i \in 1 .. k : t[i] # "bye"
  BY <1>1, <1>2, <1>3 DEF HeardInv
<1> QED BY <1>1, <1>2, <1>3, <1>4, <1>5, <1>6 DEF e

LEMMA GoodbyeInv ==
    ASSUME Inv, NEW p \in Hosts, NEW m \in wire[p], NEW left, Fresh(p, m),
           left \subseteq wire[p], Goodbye(p, m, left)
    PROVE  Inv'
<1> DEFINE h == Accepted(host[p], m)
           k == Len(heard[p])
           l == Len(heard[Peer(p)])
           e == Append(heard[p], k + 1)
           t == said[Peer(p)]
           r == Reports(h)
           y == [r EXCEPT !.gone = TRUE]
           g == Destroyed(y)
           packets == {Ack(h)}
<1>1. /\ host[p].known /\ m.kind = "frame" /\ Expected(host[p], m)
      /\ h.here /\ host' = [host EXCEPT ![p] = g]
      /\ Transmit(p, h, packets, left) /\ Hears(p, m)
      /\ UNCHANGED <<said, plan>>
  BY DEF Goodbye
<1>2. /\ k \in Nat /\ l \in Nat /\ said[p] \in Speech /\ k + 1 \in Nat
      /\ Len(said[p]) \in Nat /\ said \in [Hosts -> Speech]
  <2>1. /\ k \in Nat /\ l \in Nat /\ said[p] \in Speech
        /\ Len(said[p]) \in Nat /\ said \in [Hosts -> Speech]
    BY Own, ZenonT(30)
  <2> HIDE DEF k
  <2> QED BY <2>1
<1>3. HostInv(h, said[p], k + 1, l)
  BY <1>1, AcceptedInv
<1>4. /\ heard' = [heard EXCEPT ![p] = e]
      /\ e \in Seq(Nat) /\ Len(e) = k + 1 /\ Len(heard[p]) <= Len(e)
      /\ Len(e) <= Len(t) /\ \A i \in 1 .. Len(e) : e[i] = i
  BY <1>1, <1>2, HearsNext
<1> HIDE DEF h, k, l, e, t
<1>5. HostInv(r, said[p], k + 1, l)
  BY <1>2, <1>3, ReportsInv
<1> HIDE DEF r
<1>6. HostInv(y, said[p], k + 1, l)
  <2>1. r \in Host
    BY <1>5 DEF HostInv
  <2>2. /\ y \in Host /\ y.owner = r.owner
        /\ y.oseqno = r.oseqno /\ y.rseqno = r.rseqno
        /\ y.iseqno = r.iseqno /\ y.iaxq = r.iaxq /\ y.here = r.here
        /\ y.error = r.error
    BY <2>1 DEF Host
  <2> HIDE DEF y
  <2> QED BY <1>5, <2>2, SameCall
<1> HIDE DEF y
<1>7. HostInv(g, said[p], Len(e), l)
  BY <1>2, <1>4, <1>6, DestroyedInv
<1>8. ~g.known
  <2>1. y \in Host
    BY <1>6 DEF HostInv
  <2> QED BY <2>1, DestroyedFields
<1>9. HeardInv(g, e, t)
  BY <1>4, <1>8 DEF HeardInv
<1>10. /\ packets \subseteq Packet
       /\ \A x \in packets : PacketInv(x, said[p], Len(e))
  BY <1>1, <1>2, <1>3, <1>4, Sendable
<1> HIDE DEF packets, g
<1>11. /\ wire' \in [Hosts -> SUBSET Packet] /\ wire'[p] \subseteq wire[p]
       /\ \A x \in wire'[Peer(p)] :
             x \in wire[Peer(p)] \/ PacketInv(x, said[p], Len(e))
  <2>1. Transmit(p, h, packets, left) /\ packets \subseteq Packet
    BY <1>1, <1>10
  <2>2. /\ wire' \in [Hosts -> SUBSET Packet] /\ wire'[p] = left
        /\ \A x \in wire'[Peer(p)] :
              x \in wire[Peer(p)] \/ (h.here /\ x \in packets)
    BY <2>1, Sends
  <2> QED BY <1>10, <2>2
<1>12. /\ said' = [said EXCEPT ![p] = said[p]] /\ plan' = plan
       /\ Len(said[p]) <= Len(said[p])
  BY <1>1, <1>2
<1>13. Moves(p, g, said[p], e)
  BY <1>1, <1>2, <1>4, <1>7, <1>9, <1>11, <1>12, Zenon DEF Moves, l, t
<1> QED BY <1>13, OneMoves

LEMMA WordInv ==
    ASSUME Inv, NEW p \in Hosts, NEW m \in wire[p], NEW left, Fresh(p, m),
           left \subseteq wire[p], Word(p, m, left)
    PROVE  Inv'
<1> DEFINE h == Accepted(host[p], m)
           k == Len(heard[p])
           l == Len(heard[Peer(p)])
           e == Append(heard[p], k + 1)
           t == said[Peer(p)]
<1>1. /\ host[p].known /\ m.kind = "frame" /\ Expected(host[p], m)
      /\ h.here /\ ~m.final /\ Hears(p, m) /\ UNCHANGED plan
      /\ \/ /\ Allowed(p)
            /\ host' = [host EXCEPT ![p] = Numbered(h, FALSE)]
            /\ Says(p, "word")
            /\ Silent(p, left)
         \/ /\ host' = [host EXCEPT ![p] = Reports(h)]
            /\ Transmit(p, h, IF h.aseqno = Byte(h.iseqno) THEN {}
                              ELSE {Ack(h)}, left)
            /\ UNCHANGED said
  BY DEF Word
<1>2. /\ k \in Nat /\ l \in Nat /\ said[p] \in Speech /\ k + 1 \in Nat
      /\ Len(said[p]) \in Nat /\ said \in [Hosts -> Speech]
      /\ host[p] \in Host
  <2>1. /\ k \in Nat /\ l \in Nat /\ said[p] \in Speech
        /\ Len(said[p]) \in Nat /\ said \in [Hosts -> Speech]
        /\ host[p] \in Host
    BY Own, ZenonT(30)
  <2> HIDE DEF k
  <2> QED BY <2>1
<1>3. HostInv(h, said[p], k + 1, l) /\ Out(h) <= Out(host[p])
  BY <1>1, AcceptedInv
<1>4. /\ heard' = [heard EXCEPT ![p] = e]
      /\ e \in Seq(Nat) /\ Len(e) = k + 1 /\ Len(heard[p]) <= Len(e)
      /\ Len(e) <= Len(t) /\ \A i \in 1 .. Len(e) : e[i] = i
      /\ \A i \in 1 .. Len(e) : t[i] # "bye"
  BY <1>1, <1>2, HearsNext
<1>5. h \in Host
  BY <1>3 DEF HostInv
<1> HIDE DEF h, k, l, e, t
<1>6. CASE /\ Allowed(p)
           /\ host' = [host EXCEPT ![p] = Numbered(h, FALSE)]
           /\ Says(p, "word")
           /\ Silent(p, left)
  <2> DEFINE g == Numbered(h, FALSE)
             s == Append(said[p], Spoken(FALSE))
  <2>1. Out(h) < Window /\ Out(h) <= Window
    <3>1. Out(host[p]) < Window
      BY <1>6 DEF Allowed, Room, Out
    <3> QED BY <1>2, <1>3, <1>5, <3>1, OutFacts, WrapFacts
  <2>2. HostInv(g, s, k + 1, l) /\ g.here
    BY <1>1, <1>2, <1>3, <2>1, NumberedInv
  <2>3. Spoken(FALSE) = "word"
    BY DEF Spoken
  <2>4. /\ s \in Speech /\ Len(said[p]) <= Len(s)
        /\ \A i \in 1 .. Len(said[p]) : s[i] = said[p][i]
    <3> DEFINE w == Append(said[p], "word")
    <3>1. /\ w \in Speech /\ Len(w) = Len(said[p]) + 1
          /\ \A i \in 1 .. Len(said[p]) : w[i] = said[p][i]
      BY <1>2, AppendFacts DEF Speech
    <3>2. s = w
      BY <2>3
    <3> HIDE DEF w, s
    <3> QED BY <1>2, <3>1, <3>2
  <2>5. said' = [said EXCEPT ![p] = s] /\ plan' = plan
    BY <1>1, <1>6, <2>3 DEF Says
  <2>6. host' = [host EXCEPT ![p] = g]
    BY <1>6
  <2> HIDE DEF g, s
  <2>7. HeardInv(g, e, t) /\ HostInv(g, s, Len(e), l)
    BY <1>4, <2>2 DEF HeardInv
  <2>8. /\ wire' \in [Hosts -> SUBSET Packet] /\ wire'[p] \subseteq wire[p]
        /\ wire'[Peer(p)] = wire[Peer(p)]
    BY <1>6, Hushes
  <2>9. Moves(p, g, s, e)
    BY <1>4, <2>4, <2>5, <2>6, <2>7, <2>8, Zenon DEF Moves, l, t
  <2> QED BY <2>9, OneMoves
<1>7. CASE /\ host' = [host EXCEPT ![p] = Reports(h)]
           /\ Transmit(p, h, IF h.aseqno = Byte(h.iseqno) THEN {}
                             ELSE {Ack(h)}, left)
           /\ UNCHANGED said
  <2> DEFINE g == Reports(h)
             packets == IF h.aseqno = Byte(h.iseqno) THEN {} ELSE {Ack(h)}
  <2>1. HostInv(g, said[p], k + 1, l)
    BY <1>2, <1>3, ReportsInv
  <2>2. g.here
    BY <1>1, <1>5 DEF Reports, Host
  <2>3. /\ packets \subseteq Packet
        /\ \A x \in packets : PacketInv(x, said[p], Len(e))
    <3>1. Ack(h) \in Packet /\ PacketInv(Ack(h), said[p], k + 1)
      BY <1>1, <1>2, <1>3, Sendable
    <3> QED BY <1>4, <3>1
  <2>4. host' = [host EXCEPT ![p] = g] /\ Transmit(p, h, packets, left)
    BY <1>7
  <2> HIDE DEF g, packets
  <2>5. HeardInv(g, e, t) /\ HostInv(g, said[p], Len(e), l)
    BY <1>4, <2>1, <2>2 DEF HeardInv
  <2>6. /\ wire' \in [Hosts -> SUBSET Packet] /\ wire'[p] \subseteq wire[p]
        /\ \A x \in wire'[Peer(p)] :
              x \in wire[Peer(p)] \/ PacketInv(x, said[p], Len(e))
    BY <2>3, <2>4, Sends
  <2>7. /\ said' = [said EXCEPT ![p] = said[p]] /\ plan' = plan
        /\ Len(said[p]) <= Len(said[p])
    BY <1>1, <1>2, <1>7
  <2>8. Moves(p, g, said[p], e)
    BY <1>2, <1>4, <2>4, <2>5, <2>6, <2>7, Zenon DEF Moves, l, t
  <2> QED BY <2>8, OneMoves
<1> QED BY <1>1, <1>6, <1>7

LEMMA AcknowledgedInv ==
    ASSUME Inv, NEW p \in Hosts, NEW m \in wire[p], NEW left, Fresh(p, m),
           left \subseteq wire[p],
           Acknowledged(p, m, left) \/ AskedAgain(p, m, left)
    PROVE  Inv'
<1> DEFINE h == Acked(host[p], m.a)
           k == Len(heard[p])
           l == Len(heard[Peer(p)])
           packets == {Copy(f) : f \in Missing(h, m.a)}
<1>1. /\ host[p].known /\ host' = [host EXCEPT ![p] = h]
      /\ UNCHANGED <<said, heard, plan>>
      /\ Silent(p, left) \/ Transmit(p, h, packets, left)
  BY DEF Acknowledged, AskedAgain
<1>2. /\ k \in Nat /\ l \in Nat /\ said[p] \in Speech
      /\ HostInv(host[p], said[p], k, l)
  BY Own
<1>3. /\ host[p].here /\ m.a \in Nat /\ m.a <= l
      /\ m.a + Wrap > host[p].oseqno
  BY <1>1, Arrives
<1> HIDE DEF k, l
<1>4. HostInv(h, said[p], k, l) /\ (h.known => host[p].known /\ h.here)
  BY <1>2, <1>3, AckedInv
<1> HIDE DEF h
<1>5. /\ packets \subseteq Packet
      /\ \A x \in packets : PacketInv(x, said[p], k)
  BY <1>2, <1>4, Sendable DEF Missing
<1> HIDE DEF packets
<1>6. /\ wire' \in [Hosts -> SUBSET Packet] /\ wire'[p] \subseteq wire[p]
      /\ \A x \in wire'[Peer(p)] :
            x \in wire[Peer(p)] \/ PacketInv(x, said[p], k)
  <2>1. CASE Silent(p, left)
    BY <2>1, Hushes
  <2>2. CASE Transmit(p, h, packets, left)
    BY <1>5, <2>2, Sends
  <2> QED BY <1>1, <2>1, <2>2
<1> QED BY <1>1, <1>4, <1>6, HostMoves DEF k, l

LEMMA ReceiveInv ==
    ASSUME Inv, NEW p \in Hosts, Receive(p)
    PROVE  Inv'
<1>1. PICK m \in wire[p] : \E left \in {wire[p], wire[p] \ {m}} :
          /\ Fresh(p, m)
          /\ \/ Unknown(p, m, left)
             \/ OutOfOrder(p, m, left)
             \/ Farewell(p, m, left)
             \/ Goodbye(p, m, left)
             \/ Word(p, m, left)
             \/ Acknowledged(p, m, left)
             \/ AskedAgain(p, m, left)
  BY DEF Receive
<1>2. PICK left \in {wire[p], wire[p] \ {m}} :
          /\ Fresh(p, m)
          /\ \/ Unknown(p, m, left)
             \/ OutOfOrder(p, m, left)
             \/ Farewell(p, m, left)
             \/ Goodbye(p, m, left)
             \/ Word(p, m, left)
             \/ Acknowledged(p, m, left)
             \/ AskedAgain(p, m, left)
  BY <1>1
<1>3. left \subseteq wire[p]
  BY <1>2
<1>4. CASE Unknown(p, m, left)
  BY <1>3, <1>4, UnknownInv
<1>5. CASE OutOfOrder(p, m, left)
  BY <1>3, <1>5, OutOfOrderInv
<1>6. CASE Farewell(p, m, left)
  BY <1>2, <1>3, <1>6, FarewellInv
<1>7. CASE Goodbye(p, m, left)
  BY <1>2, <1>3, <1>7, GoodbyeInv
<1>8. CASE Word(p, m, left)
  BY <1>2, <1>3, <1>8, WordInv
<1>9. CASE Acknowledged(p, m, left) \/ AskedAgain(p, m, left)
  BY <1>2, <1>3, <1>9, AcknowledgedInv
<1> QED BY <1>2, <1>4, <1>5, <1>6, <1>7, <1>8, <1>9

LEMMA NextInv == Inv /\ [Next]_vars => Inv'
<1> SUFFICES ASSUME Inv, [Next]_vars
             PROVE  Inv'
  OBVIOUS
<1>1. CASE Next
  <2>1. PICK p \in Hosts :
            \/ Write(p) \/ Ping(p) \/ Hangup(p) \/ ScheduledDestroy(p)
            \/ NetworkThread(p) \/ AttemptTransmit(p)
            \/ Receive(p) \/ Lose(p)
    BY <1>1 DEF Next
  <2> QED BY <2>1, WriteInv, HangupInv, ScheduledDestroyInv,
             NetworkThreadInv, AttemptTransmitInv, ReceiveInv, LoseInv
<1>2. CASE UNCHANGED vars
  BY <1>2 DEF vars, Inv, TypeOK
<1> QED BY <1>1, <1>2

\* The invariant holds of every behaviour.
THEOREM Invariance == Spec => []Inv
<1>1. Init => Inv
  BY InitInv
<1>2. Inv /\ [Next]_vars => Inv'
  BY NextInv
<1> QED BY <1>1, <1>2, PTL DEF Spec

(***************************************************************************)
(* The theorems.                                                           *)
(***************************************************************************)
\* The state is always of its type, for every size of the sequence numbers
\* and every window that fits in it.
THEOREM TypeCorrect == Spec => []TypeOK
<1>1. Inv => TypeOK
  BY DEF Inv
<1> QED BY <1>1, Invariance, PTL

\* No full frame is taken off the list of retries of a call in being before
\* the other host has acted on it (the implicit acknowledgement of
\* socket_process, read in the low byte of the numbers, covers nothing else).
THEOREM NeverForgotten == Spec => []NothingForgotten
<1>1. Inv => NothingForgotten
  <2>1. SUFFICES ASSUME Inv, NEW p \in Hosts, host[p].here, ~host[p].error,
                        NEW n \in Unheard(p)
                 PROVE  n \in Retried(p)
    BY DEF NothingForgotten
  <2> DEFINE q == Peer(p)
             l == Len(heard[q])
             h == host[p]
  <2>2. /\ HostInv(h, said[p], Len(heard[p]), l) /\ l \in Nat
        /\ h \in Host /\ Len(said[p]) \in Nat /\ q \in Hosts
    BY <2>1, Own
  <2>3. \A i \in 1 .. l : heard[q][i] = i
    BY <2>1, <2>2, TwoHosts DEF Inv, HeardInv
  <2>4. n \in 1 .. Len(said[p]) /\ \A i \in 1 .. l : heard[q][i] # n
    <3>1. heard[q] \in Seq(Nat)
      BY <2>1, <2>2, Own
    <3> QED BY <2>1, <3>1 DEF Unheard
  <2>5. n > l /\ n - 1 \in Nat
    BY <2>2, <2>3, <2>4
  <2>6. /\ Base(h) <= l /\ h.oseqno = Len(said[p]) /\ Base(h) \in Int
    BY <2>1, <2>2, OutFacts DEF HostInv, WindowInv, CountInv
  <2>7. Base(h) <= n - 1 /\ n - 1 < h.oseqno
    BY <2>2, <2>4, <2>5, <2>6
  <2>8. PICK f \in h.iaxq : f.n = n - 1 /\ f.retries >= 0
    BY <2>1, <2>2, <2>5, <2>7 DEF HostInv, RetryInv
  <2>9. n = f.n + 1
    BY <2>4, <2>8
  <2> QED BY <2>8, <2>9 DEF Retried
<1> QED BY <1>1, Invariance, PTL

\* The full frames of a call are a reliable queue in each direction: what a
\* host acts on is what the other numbered, in order, once, with no gap, and
\* nothing after a hangup, whatever the network loses, repeats or reorders.
THEOREM FramesAreReliable == Spec => Reliable
<1>1. Init => Fifo!Init
  BY DEF Init, Fifo!Init, Peer, Fifo!Peer
<1>2. Inv /\ [Next]_vars => [Fifo!Next]_<<said, heard>>
  <2> SUFFICES ASSUME Inv, [Next]_vars
               PROVE  Fifo!Next \/ UNCHANGED <<said, heard>>
    OBVIOUS
  <2>1. ASSUME NEW p \in Hosts, NEW x \in {"word", "bye"}, Says(p, x)
        PROVE  Fifo!Says(p)
    BY <2>1 DEF Says, Fifo!Says
  <2>2. ASSUME NEW p \in Hosts, Write(p) \/ Ping(p) \/ Hangup(p)
        PROVE  Fifo!Next \/ UNCHANGED <<said, heard>>
    <3>1. UNCHANGED heard
      BY <2>2 DEF Write, Ping, Hangup
    <3>2. Says(p, "word") \/ Says(p, "bye") \/ UNCHANGED said
      BY <2>2 DEF Write, Ping, Hangup
    <3> QED BY <2>1, <3>1, <3>2 DEF Fifo!Next
  <2>3. ASSUME NEW p \in Hosts, Receive(p)
        PROVE  Fifo!Next \/ UNCHANGED <<said, heard>>
    <3>1. PICK m \in wire[p] : \E left \in {wire[p], wire[p] \ {m}} :
              /\ Fresh(p, m)
              /\ \/ Unknown(p, m, left)
                 \/ OutOfOrder(p, m, left)
                 \/ Farewell(p, m, left)
                 \/ Goodbye(p, m, left)
                 \/ Word(p, m, left)
                 \/ Acknowledged(p, m, left)
                 \/ AskedAgain(p, m, left)
      BY <2>3 DEF Receive
    <3>2. PICK left : Goodbye(p, m, left) \/ Word(p, m, left)
                      \/ UNCHANGED <<said, heard>>
      BY <3>1 DEF Unknown, OutOfOrder, Farewell, Acknowledged, AskedAgain
    <3>3. CASE Goodbye(p, m, left) \/ Word(p, m, left)
      <4>1. /\ host[p].known /\ m.kind = "frame" /\ Expected(host[p], m)
            /\ Hears(p, m) /\ (Says(p, "word") \/ UNCHANGED said)
        BY <3>3 DEF Goodbye, Word
      <4> DEFINE k == Len(heard[p])
                 t == said[Peer(p)]
      <4>2. /\ heard' = [heard EXCEPT ![p] = Append(heard[p], k + 1)]
            /\ k \in Nat /\ k + 1 <= Len(t)
            /\ \A i \in 1 .. k : t[i] # "bye"
        BY <3>1, <4>1, HearsNext
      <4>3. Fifo!Peer(p) = Peer(p)
        BY DEF Peer, Fifo!Peer
      <4>4. Fifo!Takes(p)
        BY <4>2, <4>3 DEF Fifo!Takes
      <4> QED BY <2>1, <4>1, <4>4 DEF Fifo!Next
    <3> QED BY <3>2, <3>3
  <2>4. ASSUME NEW p \in Hosts,
               \/ ScheduledDestroy(p) \/ NetworkThread(p)
               \/ AttemptTransmit(p) \/ Lose(p)
        PROVE  UNCHANGED <<said, heard>>
    BY <2>4 DEF ScheduledDestroy, NetworkThread, AttemptTransmit, Lose
  <2> QED BY <2>2, <2>3, <2>4 DEF Next, vars
<1> QED BY <1>1, <1>2, Invariance, PTL DEF Spec, Reliable, Fifo!Spec
=============================================================================
