-------------------------- MODULE AutoServiceProofs --------------------------
(***************************************************************************)
(* Proofs about AutoService, for any number of threads and channels, and   *)
(* whichever threads share a channel.                                      *)
(*                                                                         *)
(* An entry is in the list, in the hands of the one user that creates or   *)
(* stops it, or free.  The thread's arrays hold entries of the list, and   *)
(* entries whose stop still waits for a rebuild: so nothing they hold is   *)
(* freed.                                                                  *)
(***************************************************************************)
EXTENDS AutoService, SequenceTheorems, TLAPS

L == ToSet(aslist)

\* No entry is in the list twice, and every entry of it is in use.
ListInv ==
    /\ \A i, j \in DOMAIN aslist : aslist[i] = aslist[j] => i = j
    /\ \A e \in L : /\ e \in heap /\ asent[e].use_count > 0
                    /\ asent[e].chan \in Chans /\ chan[asent[e].chan].alive

\* A user in the middle of a call has an entry of its own, out of the list.
Own == {"insert", "wait", "flush"}   \* the user has an entry of its own

CallInv(u) ==
    /\ user[u].pc = "idle" => user[u] = Idle
    /\ user[u].pc # "idle" => user[u].on \in Chans /\ chan[user[u].on].alive
    /\ user[u].pc \in {"flag", "free"} => user[u].ent = Nobody
    /\ user[u].pc \in Own =>
          /\ user[u].ent \in heap /\ user[u].ent \notin L
          /\ asent[user[u].ent].chan = user[u].on
    /\ user[u].pc = "insert" => asent[user[u].ent].use_count > 0
    /\ user[u].pc = "free" => chan[user[u].on].lock = u

UserInv ==
    /\ \A u \in Users : CallInv(u)
    /\ \A u, v \in Users :
          user[u].ent = user[v].ent => u = v \/ user[u].ent = Nobody

\* A channel that is hung up, or freed, is used by no one else.
HangInv ==
    \A c \in Chans :
        /\ chan[c].lock # Nobody =>
              /\ chan[c].alive /\ Listed(c) = {}
              /\ user[chan[c].lock].on = c
              /\ user[chan[c].lock].pc \in {"wait", "flush", "free"}
              /\ \A v \in Users : depth[v][c] = 0
              /\ \A v \in Users \ {chan[c].lock} : user[v].on # c
        /\ ~chan[c].alive =>
              /\ chan[c].lock = Nobody /\ ~chan[c].end_dtmf /\ ~chan[c].soft
              /\ Listed(c) = {}
              /\ \A v \in Users : user[v].on # c

\* What the thread holds is in the list or waits for a rebuild.
HoldInv ==
    tpc \in Busy => \A i \in DOMAIN mons :
        /\ mons[i].ent \in heap /\ asent[mons[i].ent].chan = mons[i].chan
        /\ \/ mons[i].ent \in L
           \/ \E u \in Users : /\ user[u].pc = "wait" /\ user[u].ent = mons[i].ent
                               /\ user[u].saved = as_chan_list_state

WakeInv == (created <=> tpc # "none") /\ NotAsleepOnWork

Inv == TypeOK /\ ListInv /\ UserInv /\ HangInv /\ HoldInv /\ WakeInv

-----------------------------------------------------------------------------
(* Sequences *)

\* What Queue returns.
LEMMA QueueType ==
    ASSUME NEW q \in Seq(Frames), NEW f \in Frames
    PROVE  Queue(q, f) \in Seq(Frames) /\ Queue(q, f) # <<>>
  BY DEF Queue

LEMMA HeadTailType ==
    ASSUME NEW S, NEW s \in Seq(S), s # <<>>
    PROVE  Head(s) \in S /\ Tail(s) \in Seq(S)
  OBVIOUS

LEMMA AppendType ==
    ASSUME NEW S, NEW s \in Seq(S), NEW e \in S
    PROVE  Append(s, e) \in Seq(S)
  OBVIOUS

\* The list with an entry e in front of it.
LEMMA InsertProps ==
    ASSUME NEW S, NEW s \in Seq(S), NEW e \in S
    PROVE  /\ <<e>> \o s \in Seq(S)
           /\ ToSet(<<e>> \o s) = {e} \cup ToSet(s)
           /\ /\ \A i, j \in DOMAIN s : s[i] = s[j] => i = j
              /\ e \notin ToSet(s)
              => \A i, j \in DOMAIN (<<e>> \o s) :
                    (<<e>> \o s)[i] = (<<e>> \o s)[j] => i = j
<1> DEFINE t == <<e>> \o s
<1>1. /\ t \in Seq(S) /\ Len(t) = 1 + Len(s)
      /\ \A i \in 1 .. Len(t) : t[i] = IF i = 1 THEN e ELSE s[i - 1]
    <2>1. /\ <<e>> \in Seq(S) /\ Len(<<e>>) = 1 /\ <<e>>[1] = e
        OBVIOUS
    <2>2. /\ t \in Seq(S)
          /\ Len(t) = Len(<<e>>) + Len(s)
          /\ \A i \in 1 .. Len(<<e>>) + Len(s) : t[i] =
                IF i <= Len(<<e>>) THEN <<e>>[i] ELSE s[i - Len(<<e>>)]
        BY <2>1, ConcatProperties
    <2> QED BY <2>1, <2>2
<1> HIDE DEF t
<1>2. ToSet(t) = {e} \cup ToSet(s)
    <2>1. ASSUME NEW x \in ToSet(t) PROVE x \in {e} \cup ToSet(s)
        BY <1>1 DEF ToSet
    <2>2. ASSUME NEW x \in ToSet(s) PROVE x \in ToSet(t)
        <3>1. PICK i \in 1 .. Len(s) : x = s[i]
            BY DEF ToSet
        <3>2. i + 1 \in 1 .. Len(t) /\ t[i + 1] = x
            BY <1>1, <3>1
        <3> QED BY <1>1, <3>2 DEF ToSet
    <2>3. e \in ToSet(t)
        BY <1>1 DEF ToSet
    <2> QED BY <2>1, <2>2, <2>3
<1>3. ASSUME \A i, j \in DOMAIN s : s[i] = s[j] => i = j, e \notin ToSet(s),
             NEW i \in DOMAIN t, NEW j \in DOMAIN t, t[i] = t[j]
      PROVE  i = j
    BY <1>1, <1>3, SMTT(30) DEF ToSet
<1> QED BY <1>1, <1>2, <1>3 DEF t

\* The list without its i-th entry.
LEMMA RemoveProps ==
    ASSUME NEW S, NEW s \in Seq(S), NEW i \in DOMAIN s,
           \A k, j \in DOMAIN s : s[k] = s[j] => k = j
    PROVE  /\ RemoveAt(s, i) \in Seq(S)
           /\ ToSet(RemoveAt(s, i)) = ToSet(s) \ {s[i]}
           /\ \A k, j \in DOMAIN RemoveAt(s, i) :
                 RemoveAt(s, i)[k] = RemoveAt(s, i)[j] => k = j
<1> DEFINE a == SubSeq(s, 1, i - 1)
           b == SubSeq(s, i + 1, Len(s))
           t == RemoveAt(s, i)
<1>0. Len(s) \in Nat /\ i \in 1 .. Len(s) /\ \A j \in 1 .. Len(s) : s[j] \in S
    OBVIOUS
<1>1. a \in Seq(S) /\ Len(a) = i - 1 /\ \A j \in 1 .. (i - 1) : a[j] = s[j]
    BY <1>0, SubSeqProperties
<1>2. /\ b \in Seq(S) /\ Len(b) = Len(s) - i
      /\ \A j \in 1 .. (Len(s) - i) : b[j] = s[i + j]
    BY <1>0, SubSeqProperties
<1>3. t = a \o b
    BY DEF RemoveAt
<1> HIDE DEF a, b, t
<1>4. /\ t \in Seq(S) /\ Len(t) = Len(s) - 1
      /\ \A j \in 1 .. (Len(s) - 1) : t[j] = IF j < i THEN s[j] ELSE s[j + 1]
    <2>1. /\ a \o b \in Seq(S)
          /\ Len(a \o b) = Len(a) + Len(b)
          /\ \A j \in 1 .. (Len(a) + Len(b)) : (a \o b)[j] =
                IF j <= Len(a) THEN a[j] ELSE b[j - Len(a)]
        BY <1>1, <1>2, ConcatProperties, SMTT(30)
    <2>2. (i - 1) + (Len(s) - i) = Len(s) - 1
        BY <1>0
    <2>3. t \in Seq(S) /\ Len(t) = Len(s) - 1
        BY <1>0, <1>1, <1>2, <1>3, <2>1, <2>2
    <2>4. ASSUME NEW j \in 1 .. (Len(s) - 1)
          PROVE  t[j] = IF j < i THEN s[j] ELSE s[j + 1]
        <3>1. t[j] = IF j <= i - 1 THEN a[j] ELSE b[j - (i - 1)]
            BY <1>0, <1>1, <1>2, <1>3, <2>1, <2>2
        <3>2. CASE j < i
            <4>1. j \in 1 .. (i - 1)
                BY <1>0, <3>2
            <4> QED BY <1>0, <1>1, <3>1, <3>2, <4>1
        <3>3. CASE ~(j < i)
            <4>1. j - (i - 1) \in 1 .. (Len(s) - i)
                  /\ i + (j - (i - 1)) = j + 1
                BY <1>0, <3>3
            <4>2. b[j - (i - 1)] = s[j + 1]
                BY <1>2, <4>1
            <4> QED BY <1>0, <3>1, <3>3, <4>2
        <3> QED BY <3>2, <3>3
    <2> QED BY <2>3, <2>4
<1>5. ToSet(t) = ToSet(s) \ {s[i]}
    <2>1. ASSUME NEW x \in ToSet(t) PROVE x \in ToSet(s) \ {s[i]}
        <3>1. PICK j \in 1 .. (Len(s) - 1) : x = t[j]
            BY <1>0, <1>4 DEF ToSet
        <3>2. PICK k \in 1 .. Len(s) : k # i /\ x = s[k]
            BY <1>0, <1>4, <3>1
        <3> QED BY <1>0, <3>2 DEF ToSet
    <2>2. ASSUME NEW x \in ToSet(s) \ {s[i]} PROVE x \in ToSet(t)
        <3>1. PICK k \in 1 .. Len(s) : k # i /\ x = s[k]
            BY <1>0 DEF ToSet
        <3>2. PICK j \in 1 .. (Len(s) - 1) : x = t[j]
            <4>1. CASE k < i
                BY <1>0, <1>4, <3>1, <4>1
            <4>2. CASE k > i
                <5>1. /\ k - 1 \in 1 .. (Len(s) - 1) /\ ~(k - 1 < i)
                      /\ (k - 1) + 1 = k
                    BY <1>0, <4>2
                <5>2. t[k - 1] = s[(k - 1) + 1]
                    BY <1>4, <5>1
                <5> QED BY <3>1, <5>1, <5>2
            <4> QED BY <1>0, <3>1, <4>1, <4>2
        <3> QED BY <1>0, <1>4, <3>2 DEF ToSet
    <2> QED BY <2>1, <2>2
<1>6. ASSUME NEW k \in DOMAIN t, NEW j \in DOMAIN t, t[k] = t[j]
      PROVE  k = j
    BY <1>0, <1>4, <1>6, SMTT(30)
<1> QED BY <1>4, <1>5, <1>6 DEF t

-----------------------------------------------------------------------------
(* The initial states *)

LEMMA FrameTypes ==
    Null \in Frames /\ Hangup \in Frames /\ Signals \subseteq Frames
  BY AutoServiceAssumption DEF Frames, Null, Hangup, Signals

LEMMA RecordTypes ==
    Freed \in Asent /\ Fresh \in Channel /\ Idle \in User
<1>1. Freed \in Asent
    BY DEF Freed, Asent
<1>2. Fresh \in Channel
    BY AutoServiceAssumption DEF Fresh, Channel
<1>3. Idle \in User
    BY AutoServiceAssumption DEF Idle, User
<1> QED BY <1>1, <1>2, <1>3

LEMMA InitInv == ASSUME Init PROVE Inv
<1>1. TypeOK
    <2>1. asent \in [Entries -> Asent] /\ chan \in [Chans -> Channel]
          /\ user \in [Users -> User]
        BY RecordTypes DEF Init
    <2>2. DOMAIN mons = {} /\ aslist \in Seq(Entries)
        BY DEF Init
    <2>3. depth \in [Users -> [Chans -> Nat]]
          /\ as_chan_list_state \in 0 .. StateWrap - 1
        BY AutoServiceAssumption DEF Init
    <2>4. hand \in Frames /\ tpc \in {"none", "top", "asleep"}
          /\ tpc \notin {"read", "defer"}
        BY FrameTypes DEF Init
    <2> QED
        BY <2>1, <2>2, <2>3, <2>4 DEF Init, TypeOK
<1>2. L = {}
    BY DEF Init, L, ToSet
<1>3. ListInv /\ WakeInv /\ HoldInv
    BY <1>2 DEF Init, ListInv, WakeInv, NotAsleepOnWork, HoldInv, Busy
<1>4. UserInv /\ HangInv
    BY <1>2, AutoServiceAssumption
       DEF Init, UserInv, CallInv, Own, HangInv, Idle, Fresh, Listed
<1> QED BY <1>1, <1>3, <1>4 DEF Inv

-----------------------------------------------------------------------------
(* The thread *)

\* What a rebuild of the arrays finds.
LEMMA GatherProps ==
    ASSUME Inv, Gather, UNCHANGED <<aslist, heap, asent, chan, users>>
    PROVE  /\ tpc' \in {"top", "lock"}
           /\ DOMAIN mons' \subseteq Nat
           /\ \A i \in DOMAIN mons' :
                 mons'[i] \in [ent : Entries, chan : Chans]
           /\ todo' \subseteq DOMAIN mons'
           /\ \A i \in DOMAIN mons' :
                 /\ mons'[i].ent \in heap /\ mons'[i].ent \in L
                 /\ asent[mons'[i].ent].chan = mons'[i].chan
<1>1. \A i \in DOMAIN aslist : aslist[i] \in Entries /\ aslist[i] \in L
    BY DEF Inv, TypeOK, L, ToSet
<1>2. Watched \subseteq DOMAIN aslist /\ DOMAIN aslist \subseteq Nat
    <2>1. Len(aslist) \in Nat /\ DOMAIN aslist = 1 .. Len(aslist)
        BY DEF Inv, TypeOK
    <2>2. Watched \subseteq Open
        BY DEF Watched
    <2>3. Open \subseteq DOMAIN aslist
        BY DEF Open
    <2> QED BY <2>1, <2>2, <2>3
<1>3. DOMAIN mons' = Watched /\ todo' = Watched
    BY DEF Gather
<1>4. \A i \in Watched :
          mons'[i] = [ent |-> aslist[i], chan |-> asent[aslist[i]].chan]
    BY DEF Gather
<1>5. \A i \in Watched : aslist[i] \in heap /\ asent[aslist[i]].chan \in Chans
    BY <1>1, <1>2 DEF Inv, ListInv
<1> QED BY <1>1, <1>2, <1>3, <1>4, <1>5 DEF Gather

\* The parts of Inv that the thread's own variables do not touch.
LEMMA ThreadFrame ==
    ASSUME Inv, UNCHANGED <<aslist, heap, users>>,
           \A e \in Entries :
              /\ asent'[e] \in Asent /\ asent'[e].chan = asent[e].chan
              /\ asent'[e].use_count = asent[e].use_count,
           \A c \in Chans :
              /\ chan'[c] \in Channel /\ chan'[c].alive = chan[c].alive
              /\ chan'[c].lock = chan[c].lock
              /\ chan'[c].end_dtmf = chan[c].end_dtmf
              /\ chan[c].alive \/ chan'[c].soft = chan[c].soft,
           DOMAIN asent' = Entries, DOMAIN chan' = Chans
    PROVE  ListInv' /\ UserInv' /\ HangInv'
<1>1. L' = L /\ L \subseteq Entries
    BY DEF L, Inv, TypeOK, ToSet
<1>2. ListInv'
    BY <1>1 DEF Inv, ListInv, TypeOK
<1>3. UserInv'
    BY <1>1, ZenonT(30) DEF Inv, UserInv, CallInv, Own, TypeOK, users
<1>4. \A c \in Chans : Listed(c)' = Listed(c)
    BY <1>1 DEF Listed, L
<1>5. HangInv'
    BY <1>4, AutoServiceAssumption DEF Inv, HangInv, users
<1> QED BY <1>2, <1>3, <1>5

\* The thread's arrays when it begins its loop again.
LEMMA LoopsType ==
    ASSUME Loops
    PROVE  /\ DOMAIN mons' \subseteq Nat
           /\ \A i \in DOMAIN mons' :
                 mons'[i] \in [ent : Entries, chan : Chans]
           /\ todo' \subseteq DOMAIN mons'
           /\ at' \in Nat /\ hand' \in Frames
           /\ tpc' = "top" /\ tpc' \notin Busy
<1>1. DOMAIN mons' = {}
    BY DEF Loops
<1> QED BY <1>1, FrameTypes DEF Loops, Busy

LEMMA RebuildInv == ASSUME Inv, Rebuild PROVE Inv'
<1>1. as_chan_list_state' \in 0 .. StateWrap - 1
      /\ as_chan_list_state' # as_chan_list_state
    <2>1. /\ as_chan_list_state \in 0 .. StateWrap - 1
          /\ as_chan_list_state' = Count
        BY DEF Rebuild, Inv, TypeOK
    <2> QED BY <2>1, AutoServiceAssumption DEF Count
<1>2. ListInv' /\ UserInv' /\ HangInv'
    BY ThreadFrame DEF Rebuild, Inv, TypeOK
<1>3. WakeInv'
    BY DEF Rebuild, Gather, Inv, WakeInv, NotAsleepOnWork
<1>4. CASE aslist = <<>>
    <2>1. tpc' = "asleep" /\ mons' = mons /\ todo' = todo
        BY <1>4 DEF Rebuild
    <2>2. TypeOK'
        BY <1>1, <2>1 DEF Rebuild, Inv, TypeOK, users
    <2>3. HoldInv'
        BY <2>1 DEF HoldInv, Busy
    <2> QED BY <1>2, <1>3, <2>2, <2>3 DEF Inv
<1>5. CASE aslist # <<>>
    <2>1. Gather
        BY <1>5 DEF Rebuild
    <2>2. /\ tpc' \in {"top", "lock"}
          /\ DOMAIN mons' \subseteq Nat
          /\ \A i \in DOMAIN mons' : mons'[i] \in [ent : Entries, chan : Chans]
          /\ todo' \subseteq DOMAIN mons'
          /\ \A i \in DOMAIN mons' :
                /\ mons'[i].ent \in heap /\ mons'[i].ent \in L
                /\ asent[mons'[i].ent].chan = mons'[i].chan
        BY <2>1, GatherProps DEF Rebuild
    <2>3. TypeOK'
        BY <1>1, <2>2 DEF Rebuild, Inv, TypeOK, users, Busy
    <2>4. HoldInv'
        BY <2>2 DEF HoldInv, Rebuild, L
    <2> QED BY <1>2, <1>3, <2>3, <2>4 DEF Inv
<1> QED BY <1>4, <1>5

LEMMA WakeInvariant == ASSUME Inv, Wake PROVE Inv'
<1>1. ListInv' /\ UserInv' /\ HangInv'
    BY ThreadFrame DEF Wake, Inv, TypeOK, list
<1>2. /\ tpc' \in {"top", "lock"}
      /\ DOMAIN mons' \subseteq Nat
      /\ \A i \in DOMAIN mons' : mons'[i] \in [ent : Entries, chan : Chans]
      /\ todo' \subseteq DOMAIN mons'
      /\ \A i \in DOMAIN mons' :
            /\ mons'[i].ent \in heap /\ mons'[i].ent \in L
            /\ asent[mons'[i].ent].chan = mons'[i].chan
    BY GatherProps DEF Wake, list
<1>3. TypeOK'
    BY <1>2 DEF Wake, Inv, TypeOK, users, Busy, list
<1>4. HoldInv'
    BY <1>2 DEF HoldInv, Wake, L, list
<1>5. WakeInv'
    BY <1>2 DEF Wake, Inv, WakeInv, NotAsleepOnWork
<1> QED BY <1>1, <1>3, <1>4, <1>5 DEF Inv

\* Steps that change neither the list nor the channels.
LEMMA WaitForInv ==
    ASSUME Inv, LockOne \/ PollNone \/ PollWins \/ ReadBusy
    PROVE  Inv'
<1>1. UNCHANGED <<list, chan, users, created, signalled>>
    BY DEF LockOne, PollNone, PollWins, ReadBusy
<1>2. ListInv' /\ UserInv' /\ HangInv'
    BY <1>1, ThreadFrame DEF Inv, TypeOK, list
<1>3. tpc \in Busy /\ tpc' # "none" /\ tpc' # "asleep"
    BY DEF LockOne, PollNone, PollWins, ReadBusy, Loops, Busy
<1>4. WakeInv'
    BY <1>1, <1>3 DEF Inv, WakeInv, NotAsleepOnWork, Busy
<1>5. HoldInv'
    <2>1. CASE PollNone \/ ReadBusy
        BY <2>1, LoopsType DEF PollNone, ReadBusy, HoldInv
    <2>2. CASE LockOne \/ PollWins
        <3>1. mons' = mons
            BY <2>2 DEF LockOne, PollWins
        <3> QED BY <1>1, <1>3, <3>1 DEF Inv, HoldInv, L, list, users
    <2> QED BY <2>1, <2>2
<1>6. TypeOK'
    <2>1. CASE LockOne
        BY <1>1, <2>1 DEF LockOne, Inv, TypeOK, list, users, Busy
    <2>2. CASE PollNone \/ ReadBusy
        BY <1>1, <2>2, LoopsType
           DEF PollNone, ReadBusy, Inv, TypeOK, list, users, Busy
    <2>3. CASE PollWins
        BY <1>1, <2>3 DEF PollWins, Ready, Inv, TypeOK, list, users, Busy
    <2> QED BY <2>1, <2>2, <2>3
<1> QED BY <1>2, <1>4, <1>5, <1>6 DEF Inv

\* What ast_read does to a channel that has something to read.
LEMMA ReadFromType ==
    ASSUME NEW ch \in Channel, ch.soft \/ ch.readq # <<>>
    PROVE  /\ ReadFrom(ch) \in Channel /\ FrameOf(ch) \in Frames
           /\ ReadFrom(ch).alive = ch.alive /\ ReadFrom(ch).lock = ch.lock
           /\ ReadFrom(ch).end_dtmf = ch.end_dtmf
           /\ ReadFrom(ch).spoilt = ch.spoilt
<1>1. ch.readq \in Seq(Frames)
    BY DEF Channel
<1>2. CASE ch.soft
    BY <1>2, FrameTypes DEF ReadFrom, FrameOf, Channel
<1>3. CASE ~ch.soft
    <2>1. Head(ch.readq) \in Frames /\ Tail(ch.readq) \in Seq(Frames)
        BY <1>1, <1>3
    <2> QED BY <1>3, <2>1 DEF ReadFrom, FrameOf, Channel
<1> QED BY <1>2, <1>3

\* The channels in the thread's arrays are alive.
LEMMA HeldAlive ==
    ASSUME Inv, tpc \in Busy, NEW i \in DOMAIN mons
    PROVE  /\ mons[i].ent \in heap /\ asent[mons[i].ent].chan = mons[i].chan
           /\ mons[i].ent \in Entries /\ mons[i].chan \in Chans
           /\ chan[mons[i].chan].alive
<1>1. /\ mons[i].ent \in heap /\ asent[mons[i].ent].chan = mons[i].chan
      /\ mons[i].ent \in Entries /\ mons[i].chan \in Chans
    BY DEF Inv, TypeOK, HoldInv
<1>2. CASE mons[i].ent \in L
    BY <1>1, <1>2 DEF Inv, ListInv
<1>3. ASSUME NEW u \in Users, user[u].pc = "wait", user[u].ent = mons[i].ent
      PROVE  chan[mons[i].chan].alive
    <2>1. user[u].on \in Chans /\ chan[user[u].on].alive
        BY <1>3 DEF Inv, UserInv, CallInv, Own
    <2>2. asent[user[u].ent].chan = user[u].on
        BY <1>3 DEF Inv, UserInv, CallInv, Own
    <2> QED BY <1>1, <1>3, <2>1, <2>2
<1> QED BY <1>1, <1>2, <1>3 DEF Inv, HoldInv

LEMMA ReadInv == ASSUME Inv, Read PROVE Inv'
<1> DEFINE c == mons[at].chan
<1>1. /\ tpc = "read" /\ at \in DOMAIN mons /\ c \in Chans /\ chan[c].alive
      /\ chan[c].soft \/ chan[c].readq # <<>>
      /\ chan' = [chan EXCEPT ![c] = ReadFrom(chan[c])]
    BY HeldAlive DEF Read, Inv, TypeOK, Busy
<1> HIDE DEF c
<1>2. /\ chan' \in [Chans -> Channel]
      /\ \A d \in Chans : d # c => chan'[d] = chan[d]
      /\ chan'[c] = ReadFrom(chan[c]) /\ FrameOf(chan[c]) \in Frames
    BY <1>1, ReadFromType DEF Inv, TypeOK
<1>3. UNCHANGED <<list, users, created, signalled>>
    BY DEF Read
<1>4. ListInv' /\ UserInv' /\ HangInv'
    <2>1. \A d \in Chans :
              /\ chan'[d].alive = chan[d].alive
              /\ chan'[d].lock = chan[d].lock
              /\ chan'[d].end_dtmf = chan[d].end_dtmf
              /\ chan[d].alive \/ chan'[d].soft = chan[d].soft
        BY <1>1, <1>2, ReadFromType DEF Inv, TypeOK
    <2> QED BY <1>2, <1>3, <2>1, ThreadFrame DEF Inv, TypeOK, list
<1>5. CASE Keeps(FrameOf(chan[c]))
    <2>1. /\ tpc' = "defer" /\ mons' = mons /\ todo' = todo /\ at' = at
          /\ hand' = FrameOf(chan[c])
        BY <1>5 DEF Read, c
    <2>2. TypeOK'
        BY <1>1, <1>2, <1>3, <2>1 DEF Inv, TypeOK, list, users, Busy
    <2>3. HoldInv'
        BY <1>1, <1>3, <2>1 DEF Inv, HoldInv, L, list, users, Busy
    <2>4. WakeInv'
        BY <1>1, <1>3, <2>1 DEF Inv, WakeInv, NotAsleepOnWork
    <2> QED BY <1>4, <2>2, <2>3, <2>4 DEF Inv
<1>6. CASE ~Keeps(FrameOf(chan[c]))
    <2>1. Loops
        BY <1>6 DEF Read, c
    <2>2. TypeOK'
        BY <1>2, <1>3, <2>1, LoopsType DEF Inv, TypeOK, list, users, Busy
    <2>3. HoldInv' /\ WakeInv'
        BY <1>1, <1>3, <2>1, LoopsType
           DEF Inv, HoldInv, WakeInv, NotAsleepOnWork
    <2> QED BY <1>4, <2>2, <2>3 DEF Inv
<1> QED BY <1>5, <1>6

LEMMA DeferInv == ASSUME Inv, Defer PROVE Inv'
<1>1. PICK i \in DOMAIN mons :
        /\ tpc = "defer"
        /\ asent' = [asent EXCEPT ![mons[i].ent].deferred_frames = Append(@, hand)]
        /\ Loops
        /\ UNCHANGED <<aslist, heap, as_chan_list_state, created, signalled,
                       chan,
                       users>>
    BY DEF Defer
<1> DEFINE e == mons[i].ent
<1>2. e \in Entries
    BY <1>1 DEF Inv, TypeOK
<1> HIDE DEF e
<1>3. /\ asent' \in [Entries -> Asent]
      /\ \A f \in Entries : /\ asent'[f].chan = asent[f].chan
                            /\ asent'[f].use_count = asent[f].use_count
    <2>1. asent[e].deferred_frames \in Seq(Frames) /\ hand \in Frames
        BY <1>2 DEF Inv, TypeOK, Asent
    <2>2. Append(asent[e].deferred_frames, hand) \in Seq(Frames)
        BY <2>1, AppendType
    <2>3. asent' = [asent EXCEPT ![e].deferred_frames =
                     Append(asent[e].deferred_frames, hand)]
        BY <1>1 DEF e
    <2> QED BY <1>2, <2>2, <2>3, ZenonT(30) DEF Inv, TypeOK, Asent
<1>4. ListInv' /\ UserInv' /\ HangInv'
    BY <1>1, <1>3, ThreadFrame DEF Inv, TypeOK
<1>5. TypeOK'
    BY <1>1, <1>3, LoopsType DEF Inv, TypeOK, users, Busy
<1>6. HoldInv' /\ WakeInv'
    BY <1>1, LoopsType DEF Inv, HoldInv, WakeInv, NotAsleepOnWork
<1> QED BY <1>4, <1>5, <1>6 DEF Inv

-----------------------------------------------------------------------------
(* The users *)

\* Entry e may be in the thread's arrays.
Held(e) ==
    /\ e \in heap
    /\ \/ e \in L
       \/ \E u \in Users : /\ user[u].pc = "wait" /\ user[u].ent = e
                           /\ user[u].saved = as_chan_list_state

\* A step of a user keeps what the thread holds.
LEMMA HoldFrame ==
    ASSUME Inv, mons' = mons, tpc' \in Busy => tpc \in Busy,
           \A e \in Entries : Held(e) => Held(e)' /\ asent'[e].chan = asent[e].chan
    PROVE  HoldInv'
<1>1. ASSUME tpc' \in Busy, NEW i \in DOMAIN mons
      PROVE  Held(mons[i].ent)' /\ asent'[mons[i].ent].chan = mons[i].chan
    <2>1. mons[i].ent \in Entries /\ Held(mons[i].ent)
          /\ asent[mons[i].ent].chan = mons[i].chan
        BY <1>1 DEF Inv, TypeOK, HoldInv, Held
    <2> QED BY <2>1
<1> QED BY <1>1 DEF HoldInv, Held

\* Steps that only put frames into queues or take them out.
LEMMA FramesInv ==
    ASSUME Inv,
           \/ \E u \in Users : Flush(u)
           \/ \E u \in Users, c \in Chans : OwnerReads(u, c)
           \/ \E c \in Chans : Signal(c) \/ DeviceHangup(c) \/ SoftHangup(c)
    PROVE  Inv'
<1> DEFINE Moved ==
      /\ UNCHANGED <<aslist, heap, as_chan_list_state, svc, users>>
      /\ asent' \in [Entries -> Asent] /\ chan' \in [Chans -> Channel]
      /\ \A e \in Entries : /\ asent'[e].chan = asent[e].chan
                            /\ asent'[e].use_count = asent[e].use_count
      /\ \A c \in Chans :
            /\ chan'[c].alive = chan[c].alive
            /\ chan'[c].lock = chan[c].lock
            /\ chan'[c].end_dtmf = chan[c].end_dtmf
            /\ chan[c].alive \/ chan'[c].soft = chan[c].soft
<1>0. /\ chan \in [Chans -> Channel] /\ asent \in [Entries -> Asent]
      /\ user \in [Users -> User]
    BY DEF Inv, TypeOK
<1>1. Moved
    <2>1. ASSUME NEW u \in Users, Flush(u) PROVE Moved
        <3> DEFINE c == user[u].on
                   e == user[u].ent
                   d == asent[e].deferred_frames
        <3>1. c \in Chans /\ e \in Entries /\ chan[c].alive
            BY <2>1 DEF Flush, Inv, UserInv, CallInv, Own, TypeOK
        <3>2. /\ chan' = [chan EXCEPT ![c] =
                  [chan[c] EXCEPT !.readq = Queue(chan[c].readq, Head(d))]]
              /\ asent' = [asent EXCEPT ![e] =
                  [asent[e] EXCEPT !.deferred_frames = Tail(d)]]
              /\ d # <<>>
              /\ UNCHANGED <<aslist, heap, as_chan_list_state, svc, users>>
            BY <2>1 DEF Flush, Queued
        <3>3. /\ d \in Seq(Frames) /\ chan[c].readq \in Seq(Frames)
              /\ chan[c] \in Channel /\ asent[e] \in Asent
            BY <1>0, <3>1 DEF Asent, Channel
        <3> HIDE DEF c, e, d
        <3>4. Head(d) \in Frames /\ Tail(d) \in Seq(Frames)
            BY <3>2, <3>3, HeadTailType
        <3>5. Queue(chan[c].readq, Head(d)) \in Seq(Frames)
            BY <3>3, <3>4, QueueType
        <3>6. PICK q \in Seq(Frames) :
                  chan' = [chan EXCEPT ![c] = [chan[c] EXCEPT !.readq = q]]
            BY <3>2, <3>5
        <3>7. PICK t \in Seq(Frames) :
                  asent' = [asent EXCEPT
                              ![e] = [asent[e] EXCEPT !.deferred_frames = t]]
            BY <3>2, <3>4
        <3>8. [asent[e] EXCEPT !.deferred_frames = t] \in Asent
            BY <3>3 DEF Asent
        <3>9. [chan[c] EXCEPT !.readq = q] \in Channel
            BY <3>3 DEF Channel
        <3>10. /\ asent' \in [Entries -> Asent]
               /\ \A f \in Entries : /\ asent'[f].chan = asent[f].chan
                                     /\ asent'[f].use_count = asent[f].use_count
            BY <1>0, <3>1, <3>3, <3>7, <3>8 DEF Asent
        <3>11. /\ chan' \in [Chans -> Channel]
               /\ \A x \in Chans :
                    /\ chan'[x].alive = chan[x].alive
                    /\ chan'[x].lock = chan[x].lock
                    /\ chan'[x].end_dtmf = chan[x].end_dtmf
                    /\ chan'[x].soft = chan[x].soft
            BY <1>0, <3>1, <3>3, <3>6, <3>9 DEF Channel
        <3> QED BY <3>2, <3>10, <3>11
    <2>2. ASSUME UNCHANGED <<list, svc, users>>, NEW c \in Chans, chan[c].alive,
                 NEW r \in Channel, chan' = [chan EXCEPT ![c] = r],
                 r.alive = chan[c].alive, r.lock = chan[c].lock,
                 r.end_dtmf = chan[c].end_dtmf
          PROVE  Moved
        BY <1>0, <2>2 DEF list
    <2>3. ASSUME NEW u \in Users, NEW c \in Chans, OwnerReads(u, c) PROVE Moved
        <3> DEFINE rd == ReadFrom(chan[c])
                   t == chan[c].told \/ FrameOf(chan[c]) = Hangup
                   got == chan[c].got \cup ({FrameOf(chan[c])} \cap Signals)
                   r == [rd EXCEPT !.told = t, !.got = got]
        <3>1. /\ UNCHANGED <<list, svc, users>> /\ chan[c].alive
              /\ chan[c].soft \/ chan[c].readq # <<>>
              /\ chan' = [chan EXCEPT ![c] = r]
            BY <2>3 DEF OwnerReads, Usable
        <3>2. /\ rd \in Channel /\ rd.alive = chan[c].alive
              /\ rd.lock = chan[c].lock /\ rd.end_dtmf = chan[c].end_dtmf
            BY <1>0, <3>1, ReadFromType
        <3> HIDE DEF rd
        <3>3. got \in SUBSET Signals
            BY <1>0 DEF Channel
        <3>4. t \in BOOLEAN
            OBVIOUS
        <3> HIDE DEF got, t
        <3>5. r \in Channel /\ r.alive = rd.alive /\ r.lock = rd.lock
              /\ r.end_dtmf = rd.end_dtmf
            BY <3>2, <3>3, <3>4 DEF Channel
        <3> HIDE DEF r
        <3> QED BY <2>2, <3>1, <3>2, <3>5
    <2>4. ASSUME NEW c \in Chans, NEW f \in Frames
          PROVE  /\ Queued(chan[c], f) \in Channel
                 /\ Queued(chan[c], f).alive = chan[c].alive
                 /\ Queued(chan[c], f).lock = chan[c].lock
                 /\ Queued(chan[c], f).end_dtmf = chan[c].end_dtmf
        <3>1. chan[c] \in Channel /\ chan[c].readq \in Seq(Frames)
            BY <1>0 DEF Channel
        <3>2. Queue(chan[c].readq, f) \in Seq(Frames)
            BY <3>1, QueueType
        <3> QED BY <3>1, <3>2 DEF Queued, Channel
    <2>5. ASSUME NEW c \in Chans, Signal(c) PROVE Moved
        <3> DEFINE q == Queued(chan[c], chan[c].came + 1)
                   r == [q EXCEPT !.came = chan[c].came + 1]
        <3>1. chan[c].came \in 0 .. MaxSignals
            BY <1>0 DEF Channel
        <3>2. /\ chan' = [chan EXCEPT ![c] = r] /\ chan[c].alive
              /\ chan[c].came < MaxSignals /\ UNCHANGED <<list, svc, users>>
            BY <2>5 DEF Signal, Usable
        <3>3. chan[c].came + 1 \in Signals
              /\ chan[c].came + 1 \in 0 .. MaxSignals
            BY <3>1, <3>2, AutoServiceAssumption DEF Signals
        <3>4. q \in Channel /\ q.alive = chan[c].alive /\ q.lock = chan[c].lock
              /\ q.end_dtmf = chan[c].end_dtmf
            BY <2>4, <3>3, FrameTypes
        <3> HIDE DEF q
        <3>5. r \in Channel /\ r.alive = q.alive /\ r.lock = q.lock
              /\ r.end_dtmf = q.end_dtmf
            BY <3>3, <3>4 DEF Channel
        <3> HIDE DEF r
        <3> QED BY <2>2, <3>2, <3>4, <3>5
    <2>6. ASSUME NEW c \in Chans, DeviceHangup(c) \/ SoftHangup(c) PROVE Moved
        <3>1. PICK f \in Frames, g \in BOOLEAN :
                chan' = [chan EXCEPT ![c] = [Queued(chan[c], f) EXCEPT !.soft = g]]
            <4>1. CASE DeviceHangup(c)
                BY <4>1, FrameTypes DEF DeviceHangup
            <4>2. CASE SoftHangup(c)
                BY <4>2, FrameTypes DEF SoftHangup
            <4> QED BY <2>6, <4>1, <4>2
        <3> DEFINE q == Queued(chan[c], f)
                   r == [q EXCEPT !.soft = g]
        <3>2. chan[c].alive /\ UNCHANGED <<list, svc, users>>
            BY <2>6 DEF DeviceHangup, SoftHangup, Usable
        <3>3. q \in Channel /\ q.alive = chan[c].alive /\ q.lock = chan[c].lock
              /\ q.end_dtmf = chan[c].end_dtmf
            BY <2>4
        <3>4. chan' = [chan EXCEPT ![c] = r]
            BY <3>1
        <3> HIDE DEF q
        <3>5. r \in Channel /\ r.alive = q.alive /\ r.lock = q.lock
              /\ r.end_dtmf = q.end_dtmf
            BY <3>3 DEF Channel
        <3> HIDE DEF r
        <3> QED BY <2>2, <3>2, <3>3, <3>4, <3>5
    <2> QED BY <2>1, <2>3, <2>5, <2>6
<1>2. ListInv' /\ UserInv' /\ HangInv'
    BY <1>1, ThreadFrame DEF Inv, TypeOK
<1>3. TypeOK'
    BY <1>1 DEF Inv, TypeOK, svc, users
<1>4. HoldInv'
    BY <1>1, HoldFrame DEF Held, L, svc, users
<1>5. WakeInv'
    BY <1>1 DEF Inv, WakeInv, NotAsleepOnWork, svc
<1> QED BY <1>2, <1>3, <1>4, <1>5 DEF Inv

\* The state of a call, and where the entry of a call is.
LEMMA UserFacts ==
    ASSUME Inv, NEW u \in Users
    PROVE  /\ user[u] \in User /\ DOMAIN user = Users
           /\ user[u].pc = "idle" => user[u] = Idle
           /\ user[u].pc # "idle" =>
                 user[u].on \in Chans /\ chan[user[u].on].alive
           /\ user[u].pc \in {"insert", "wait", "flush"} =>
                 /\ user[u].ent \in Entries /\ user[u].ent \in heap
                 /\ user[u].ent \notin L /\ asent[user[u].ent].chan = user[u].on
           /\ user[u].pc = "insert" => asent[user[u].ent].use_count > 0
           /\ user[u].pc = "free" => chan[user[u].on].lock = u
  BY DEF Inv, TypeOK, UserInv, CallInv, Own

LEMMA StartAgainInv ==
    ASSUME Inv, NEW u \in Users, NEW c \in Chans, StartAgain(u, c)
    PROVE  Inv'
<1>1. PICK i \in DOMAIN aslist :
          asent' = [asent EXCEPT ![aslist[i]].use_count = @ + 1]
    BY DEF StartAgain
<1> DEFINE e == aslist[i]
<1> DEFINE n == [asent[e] EXCEPT !.use_count = asent[e].use_count + 1]
<1>2. e \in Entries
    BY DEF Inv, TypeOK
<1>3. asent' = [asent EXCEPT ![e] = n]
    BY <1>1
<1> HIDE DEF e
<1>4. asent[e] \in Asent
    BY <1>2 DEF Inv, TypeOK
<1> HIDE DEF n
<1>5. n \in Asent /\ n.chan = asent[e].chan /\ n.use_count > 0
    <2>1. asent[e].use_count \in Nat
        BY <1>4 DEF Asent
    <2>2. \A k \in Nat : k + 1 \in Nat /\ k + 1 > 0
        OBVIOUS
    <2> QED BY <1>4, <2>1, <2>2 DEF Asent, n
<1>6. /\ asent' \in [Entries -> Asent]
      /\ \A f \in Entries : /\ asent'[f].chan = asent[f].chan
                            /\ asent[f].use_count > 0 => asent'[f].use_count > 0
    BY <1>2, <1>3, <1>5 DEF Inv, TypeOK
<1>7. /\ UNCHANGED <<aslist, heap, as_chan_list_state, svc, chan, user>>
      /\ chan[c].lock = Nobody /\ chan[c].alive
      /\ depth' = [depth EXCEPT ![u][c] = @ + 1]
    BY DEF StartAgain, Usable
<1>8. depth' \in [Users -> [Chans -> Nat]] /\ \A v \in Users, d \in Chans :
          d # c => depth'[v][d] = depth[v][d]
    BY <1>7 DEF Inv, TypeOK
<1>9. L' = L /\ L \subseteq Entries
    BY <1>7 DEF L, Inv, TypeOK, ToSet
<1>10. L' = L /\ L \subseteq Entries /\ \A d \in Chans : Listed(d)' = Listed(d)
    BY <1>6, <1>9 DEF L, Listed
<1>11. TypeOK'
    BY <1>6, <1>7, <1>8 DEF Inv, TypeOK, svc
<1>12. ListInv'
    BY <1>6, <1>7, <1>10 DEF Inv, ListInv
<1>13. UserInv'
    BY <1>6, <1>7, <1>10 DEF Inv, UserInv, CallInv, Own, TypeOK
<1>14. HangInv'
    BY <1>7, <1>8, <1>10, AutoServiceAssumption DEF Inv, HangInv
<1>15. HoldInv'
    BY <1>6, <1>7, <1>10, HoldFrame DEF Held, svc
<1>16. WakeInv'
    BY <1>7 DEF Inv, WakeInv, NotAsleepOnWork, svc
<1> QED BY <1>11, <1>12, <1>13, <1>14, <1>15, <1>16 DEF Inv

LEMMA StartNewInv ==
    ASSUME Inv, NEW u \in Users, NEW c \in Chans, StartNew(u, c)
    PROVE  Inv'
<1> DEFINE r == [Idle EXCEPT !.pc = "flag", !.on = c]
<1>1. /\ UNCHANGED <<list, svc, chan, depth>>
      /\ chan[c].lock = Nobody /\ chan[c].alive
      /\ user[u].pc = "idle" /\ user' = [user EXCEPT ![u] = r]
    BY DEF StartNew, Usable
<1>2. r \in User /\ r.pc = "flag" /\ r.on = c /\ r.ent = Nobody
    BY RecordTypes, AutoServiceAssumption DEF Idle, User
<1> HIDE DEF r
<1>3. /\ user' \in [Users -> User] /\ user'[u] = r
      /\ \A v \in Users : v # u => user'[v] = user[v]
    BY <1>1, <1>2 DEF Inv, TypeOK
<1>4. L' = L /\ \A d \in Chans : Listed(d)' = Listed(d)
    BY <1>1 DEF L, Listed, list
<1>5. user[u].ent = Nobody
    <2>1. user[u] = Idle
        BY <1>1, UserFacts
    <2> QED BY <2>1 DEF Idle
<1>6. TypeOK'
    BY <1>1, <1>3 DEF Inv, TypeOK, list, svc
<1>7. ListInv' /\ WakeInv'
    BY <1>1, <1>4 DEF Inv, ListInv, WakeInv, NotAsleepOnWork, list, svc
<1>8. UserInv'
    BY <1>1, <1>2, <1>3, <1>4, <1>5 DEF Inv, UserInv, CallInv, Own, list
<1>9. HangInv'
    BY <1>1, <1>2, <1>3, <1>4, AutoServiceAssumption
       DEF Inv, HangInv, TypeOK, Channel
<1>10. HoldInv'
    BY <1>1, <1>3, <1>4, HoldFrame DEF Held, list, svc
<1> QED BY <1>6, <1>7, <1>8, <1>9, <1>10 DEF Inv

LEMMA SetFlagInv ==
    ASSUME Inv, NEW u \in Users, SetFlag(u)
    PROVE  Inv'
<1> DEFINE c == user[u].on
<1>1. PICK e \in Entries \ heap :
        /\ user[u].pc = "flag"
        /\ chan[c].lock = Nobody
        /\ heap' = heap \cup {e}
        /\ asent' = [asent EXCEPT ![e] =
                    [chan |-> c, use_count |-> 1,
                     orig_end_dtmf_flag |-> chan[c].end_dtmf,
                     deferred_frames |-> <<>>]]
        /\ chan' = [chan EXCEPT ![c].end_dtmf = TRUE]
        /\ user' = [user EXCEPT ![u] =
                        [user[u] EXCEPT !.pc = "insert", !.ent = e]]
        /\ UNCHANGED <<aslist, as_chan_list_state, svc, depth>>
    BY DEF SetFlag
<1> DEFINE r == [user[u] EXCEPT !.pc = "insert", !.ent = e]
           n == [chan |-> c, use_count |-> 1,
                 orig_end_dtmf_flag |-> chan[c].end_dtmf,
                 deferred_frames |-> <<>>]
<1>2. c \in Chans /\ chan[c].alive /\ user[u] \in User /\ user[u].ent = Nobody
    BY <1>1 DEF Inv, UserInv, CallInv, Own, TypeOK
<1>3. /\ r \in User /\ r.pc = "insert" /\ r.on = c /\ r.ent = e
      /\ user'[u] = r /\ user' \in [Users -> User]
      /\ \A v \in Users : v # u => user'[v] = user[v]
    BY <1>1, <1>2 DEF User, Inv, TypeOK
<1>4. /\ chan' \in [Chans -> Channel]
      /\ \A d \in Chans : /\ chan'[d].alive = chan[d].alive
                          /\ chan'[d].lock = chan[d].lock
                          /\ chan'[d].soft = chan[d].soft
                          /\ d # c => chan'[d] = chan[d]
    <2> DEFINE x == [chan[c] EXCEPT !.end_dtmf = TRUE]
    <2>1. chan[c] \in Channel /\ chan' = [chan EXCEPT ![c] = x]
        BY <1>1, <1>2 DEF Inv, TypeOK
    <2>2. /\ x \in Channel /\ x.alive = chan[c].alive /\ x.lock = chan[c].lock
          /\ x.soft = chan[c].soft
        BY <2>1 DEF Channel
    <2> HIDE DEF x
    <2> QED BY <1>2, <2>1, <2>2 DEF Inv, TypeOK
<1>5. n \in Asent /\ n.chan = c /\ n.use_count > 0
    BY <1>2 DEF Asent, Inv, TypeOK, Channel
<1> HIDE DEF r, c
<1>6. /\ asent' \in [Entries -> Asent] /\ asent'[e] = n
      /\ \A f \in Entries : f # e => asent'[f] = asent[f]
    BY <1>1, <1>5 DEF Inv, TypeOK
<1> HIDE DEF n
<1>7. L' = L /\ L \subseteq heap /\ e \notin L /\ heap \subseteq Entries
    BY <1>1 DEF Inv, ListInv, L, TypeOK
<1>8. \A d \in Chans : Listed(d)' = Listed(d)
    BY <1>1, <1>6, <1>7 DEF L, Listed
<1>9. \A v \in Users : user[v].ent # e
    <2>1. \A v \in Users : user[v].ent = Nobody \/ user[v].ent \in heap
        <3>1. ASSUME NEW v \in Users
              PROVE  user[v].ent = Nobody \/ user[v].ent \in heap
            <4>1. CASE user[v].pc = "idle"
                <5>1. user[v] = Idle
                    BY <4>1, UserFacts
                <5> QED BY <5>1 DEF Idle
            <4>2. CASE user[v].pc \in {"flag", "free"}
                BY <4>2 DEF Inv, UserInv, CallInv, Own
            <4>3. CASE user[v].pc \in {"insert", "wait", "flush"}
                BY <4>3, UserFacts
            <4> QED BY <4>1, <4>2, <4>3, UserFacts DEF User
        <3> QED BY <3>1
    <2> QED BY <1>1, <2>1, AutoServiceAssumption
<1>10. TypeOK'
    BY <1>1, <1>3, <1>4, <1>6 DEF Inv, TypeOK, svc
<1>11. ListInv'
    <2>1. \A f \in L : f \in heap' /\ asent'[f] = asent[f]
        BY <1>1, <1>6, <1>7
    <2>2. ASSUME NEW f \in L
          PROVE  /\ f \in heap' /\ asent'[f].use_count > 0
                 /\ asent'[f].chan \in Chans /\ chan'[asent'[f].chan].alive
        <3>1. /\ asent[f].use_count > 0 /\ asent[f].chan \in Chans
              /\ chan[asent[f].chan].alive
            BY DEF Inv, ListInv
        <3>2. chan'[asent[f].chan].alive
            BY <1>4, <3>1
        <3> QED BY <2>1, <3>1, <3>2
    <2> QED BY <1>1, <1>7, <2>2 DEF Inv, ListInv
<1>12. WakeInv'
    BY <1>1 DEF Inv, WakeInv, NotAsleepOnWork, svc
<1>13. UserInv'
    <2>1. ASSUME NEW v \in Users PROVE CallInv(v)'
        <3>1. CASE v = u
            <4>1. /\ user'[v].pc = "insert" /\ user'[v].on = c
                  /\ user'[v].ent = e
                BY <1>3, <3>1
            <4>2. chan'[c].alive /\ asent'[e].chan = c /\ asent'[e].use_count > 0
                BY <1>2, <1>4, <1>5, <1>6
            <4>3. e \in heap' /\ e \notin L' /\ c \in Chans
                BY <1>1, <1>2, <1>7
            <4> QED BY <4>1, <4>2, <4>3 DEF CallInv, Own
        <3>2. CASE v # u
            <4>1. user'[v] = user[v]
                BY <1>3, <3>2
            <4>2. user[v].ent \in heap => asent'[user[v].ent] = asent[user[v].ent]
                BY <1>6, <1>7, <1>9
            <4>3. user[v].on \in Chans =>
                      /\ chan'[user[v].on].alive = chan[user[v].on].alive
                      /\ chan'[user[v].on].lock = chan[user[v].on].lock
                BY <1>4
            <4>4. heap \subseteq heap' /\ L' = L /\ CallInv(v)
                BY <1>1, <1>7 DEF Inv, UserInv
            <4> QED BY <4>1, <4>2, <4>3, <4>4 DEF CallInv, Own, CallInv, Own
        <3> QED BY <3>1, <3>2
    <2>2. ASSUME NEW v \in Users, NEW w \in Users, user'[v].ent = user'[w].ent
          PROVE  v = w \/ user'[v].ent = Nobody
        BY <1>3, <1>9, <2>2 DEF Inv, UserInv, CallInv, Own
    <2> QED BY <2>1, <2>2 DEF UserInv
<1>14. HangInv'
    BY <1>1, <1>2, <1>3, <1>4, <1>8, AutoServiceAssumption DEF Inv, HangInv
<1>15. HoldInv'
    <2>1. ASSUME NEW f \in Entries, Held(f)
          PROVE  Held(f)' /\ asent'[f].chan = asent[f].chan
        <3>1. f # e /\ f \in heap'
            BY <1>1, <2>1 DEF Held
        <3>2. \A v \in Users : user[v].pc = "wait" => user'[v] = user[v]
            BY <1>1, <1>3
        <3> QED BY <1>1, <1>6, <1>7, <2>1, <3>1, <3>2 DEF Held
    <2> QED BY <1>1, <2>1, HoldFrame DEF svc
<1> QED BY <1>10, <1>11, <1>12, <1>13, <1>14, <1>15 DEF Inv

\* The entries of two users' calls are different.
LEMMA OwnEntry ==
    ASSUME Inv, NEW u \in Users, user[u].pc \in Own
    PROVE  /\ user[u].ent # Nobody
           /\ \A v \in Users \ {u} : user[v].ent # user[u].ent
<1>1. user[u].ent \in Entries
    BY UserFacts DEF Own
<1> QED BY <1>1, AutoServiceAssumption DEF Inv, UserInv

\* Entry e of user u is neither in the list nor with the thread, unless u
\* waits for a rebuild.
LEMMA OwnNotHeld ==
    ASSUME Inv, NEW u \in Users, user[u].pc \in Own,
           user[u].pc = "wait" => user[u].saved # as_chan_list_state
    PROVE  ~Held(user[u].ent)
  BY OwnEntry, UserFacts DEF Held, Own

\* A channel on which a user works that has not begun to hang it up.
LEMMA NotHungUp ==
    ASSUME Inv, NEW u \in Users, user[u].pc \in {"flag", "insert"}
    PROVE  chan[user[u].on].lock = Nobody
<1>1. user[u].on \in Chans
    BY UserFacts
<1>2. ASSUME chan[user[u].on].lock # Nobody PROVE FALSE
    <2>1. /\ user[chan[user[u].on].lock].pc \in {"wait", "flush", "free"}
          /\ \A v \in Users \ {chan[user[u].on].lock} : user[v].on # user[u].on
        BY <1>1, <1>2 DEF Inv, HangInv
    <2> QED BY <2>1
<1> QED BY <1>2

LEMMA InsertEntryInv ==
    ASSUME Inv, NEW u \in Users, InsertEntry(u)
    PROVE  Inv'
<1> DEFINE c == user[u].on
           e == user[u].ent
<1>1. /\ user[u].pc = "insert"
      /\ aslist' = <<e>> \o aslist
      /\ created' = TRUE
      /\ tpc' = IF created THEN tpc ELSE "top"
      /\ signalled' = (signalled \/ (Rouses /\ tpc = "asleep"))
      /\ depth' = [depth EXCEPT ![u][c] = @ + 1]
      /\ user' = [user EXCEPT ![u] = Idle]
      /\ UNCHANGED <<heap, asent, as_chan_list_state, mons, todo, at, hand, chan>>
    BY DEF InsertEntry
<1>2. /\ c \in Chans /\ chan[c].alive /\ e \in Entries /\ e \in heap
      /\ e \notin L /\ asent[e].chan = c /\ asent[e].use_count > 0
    BY <1>1, UserFacts
<1>3. chan[c].lock = Nobody
    BY <1>1, NotHungUp
<1> HIDE DEF c, e
<1>4. /\ user' \in [Users -> User] /\ user'[u] = Idle
      /\ \A v \in Users : v # u => user'[v] = user[v]
    BY <1>1, RecordTypes DEF Inv, TypeOK
<1>5. /\ depth' \in [Users -> [Chans -> Nat]]
      /\ \A v \in Users, d \in Chans : d # c => depth'[v][d] = depth[v][d]
    BY <1>1, <1>2 DEF Inv, TypeOK
<1>6. aslist' \in Seq(Entries) /\ L' = {e} \cup L
    BY <1>1, <1>2, InsertProps DEF L, Inv, TypeOK
<1>7. \A i, j \in DOMAIN aslist' : aslist'[i] = aslist'[j] => i = j
    <2>1. /\ aslist \in Seq(Entries) /\ e \notin ToSet(aslist)
          /\ \A i, j \in DOMAIN aslist : aslist[i] = aslist[j] => i = j
        BY <1>2 DEF L, Inv, TypeOK, ListInv
    <2> DEFINE t == <<e>> \o aslist
    <2>2. \A i, j \in DOMAIN t : t[i] = t[j] => i = j
        BY <1>2, <2>1, InsertProps
    <2>3. aslist' = t
        BY <1>1
    <2> HIDE DEF t
    <2> QED BY <2>2, <2>3
<1>8. \A v \in Users : v # u => user[v].ent # e
    BY <1>1, OwnEntry DEF e, Own
<1>9. TypeOK'
    <2>1. tpc' \in {"none", "top", "asleep"} \cup Busy
          /\ signalled' \in BOOLEAN
        BY <1>1 DEF Inv, TypeOK
    <2>2. tpc' \in {"read", "defer"} => tpc \in {"read", "defer"}
        BY <1>1
    <2> QED BY <1>1, <1>4, <1>5, <1>6, <2>1, <2>2 DEF Inv, TypeOK
<1>10. ListInv'
    BY <1>1, <1>2, <1>6, <1>7 DEF Inv, ListInv
<1>11. UserInv'
    <2>1. ASSUME NEW v \in Users, v # u PROVE CallInv(v)'
        <3>1. user'[v] = user[v] /\ user[v].ent # e /\ CallInv(v)
            BY <1>4, <1>8, <2>1 DEF Inv, UserInv
        <3>2. heap' = heap /\ asent' = asent /\ chan' = chan /\ L' = {e} \cup L
            BY <1>1, <1>6
        <3> HIDE DEF CallInv
        <3>3. user[v].pc \in Own => user[v].ent \notin L'
            BY <3>1, <3>2 DEF CallInv
        <3> QED BY <3>1, <3>2, <3>3 DEF CallInv
    <2>2. CallInv(u)'
        BY <1>4 DEF CallInv, Own, Idle
    <2> QED BY <1>4, <2>1, <2>2 DEF Inv, UserInv, Idle
<1>12. HangInv'
    <2>1. \A d \in Chans : d # c => Listed(d)' = Listed(d)
        BY <1>1, <1>2, <1>6 DEF Listed, L
    <2>2. ASSUME NEW d \in Chans, chan[d].lock # Nobody
          PROVE  chan[d].lock # u /\ d # c
        BY <1>1, <1>3, <2>2 DEF Inv, HangInv
    <2>3. \A v \in Users, d \in Chans : user[v].on # d => user'[v].on # d
        BY <1>4, AutoServiceAssumption DEF Idle
    <2>4. ASSUME NEW d \in Chans, chan[d].lock # Nobody
          PROVE  user'[chan[d].lock] = user[chan[d].lock]
        BY <1>4, <2>2, <2>4 DEF Inv, TypeOK, Channel
    <2> QED BY <1>1, <1>2, <1>5, <2>1, <2>2, <2>3, <2>4 DEF Inv, HangInv
<1>13. HoldInv'
    <2>1. ASSUME NEW f \in Entries, Held(f)
          PROVE  Held(f)' /\ asent'[f].chan = asent[f].chan
        <3>1. \A v \in Users : user[v].pc = "wait" => user'[v] = user[v]
            BY <1>1, <1>4
        <3> QED BY <1>1, <1>6, <2>1, <3>1 DEF Held
    <2>2. tpc' \in Busy => tpc \in Busy
        BY <1>1 DEF Busy
    <2> QED BY <1>1, <2>1, <2>2, HoldFrame
<1>14. WakeInv'
    <2>1. (created' <=> tpc' # "none")
        BY <1>1 DEF Inv, WakeInv
    <2>2. ASSUME tpc' = "asleep" PROVE signalled'
        <3>1. created /\ tpc = "asleep"
            BY <1>1, <2>2
        <3> QED BY <1>1, <3>1 DEF Inv, WakeInv, NotAsleepOnWork, Rouses
    <2> QED BY <2>1, <2>2 DEF WakeInv, NotAsleepOnWork
<1> QED BY <1>9, <1>10, <1>11, <1>12, <1>13, <1>14 DEF Inv

LEMMA InsertFailsInv ==
    ASSUME Inv, NEW u \in Users, InsertFails(u)
    PROVE  Inv'
<1> DEFINE c == user[u].on
           e == user[u].ent
           x == [chan[c] EXCEPT !.spoilt = TRUE]
<1>1. /\ user[u].pc = "insert"
      /\ heap' = heap \ {e}
      /\ asent' = [asent EXCEPT ![e] = Freed]
      /\ chan' = [chan EXCEPT ![c] = x]
      /\ user' = [user EXCEPT ![u] = Idle]
      /\ UNCHANGED <<aslist, as_chan_list_state, svc, depth>>
    BY DEF InsertFails
<1>2. /\ c \in Chans /\ chan[c].alive /\ e \in Entries /\ e \in heap
      /\ e \notin L /\ chan[c] \in Channel
    BY <1>1, UserFacts DEF Inv, TypeOK
<1>3. chan[c].lock = Nobody /\ ~Held(e)
    BY <1>1, NotHungUp, OwnNotHeld DEF Own
<1> HIDE DEF c, e
<1>4. /\ user' \in [Users -> User] /\ user'[u] = Idle
      /\ \A v \in Users : v # u => user'[v] = user[v]
    BY <1>1, RecordTypes DEF Inv, TypeOK
<1>5. x \in Channel /\ x.alive = chan[c].alive /\ x.lock = chan[c].lock
    BY <1>2 DEF Channel
<1> HIDE DEF x
<1>6. /\ chan' \in [Chans -> Channel]
      /\ \A d \in Chans : /\ chan'[d].alive = chan[d].alive
                          /\ chan'[d].lock = chan[d].lock
                          /\ d # c => chan'[d] = chan[d]
    BY <1>1, <1>2, <1>5 DEF Inv, TypeOK
<1>7. /\ asent' \in [Entries -> Asent]
      /\ \A f \in Entries : f # e => asent'[f] = asent[f]
    BY <1>1, <1>2, RecordTypes DEF Inv, TypeOK
<1>8. /\ L' = L /\ L \subseteq heap /\ heap \subseteq Entries
      /\ \A d \in Chans : Listed(d)' = Listed(d)
    <2>1. L' = L /\ L \subseteq heap /\ heap \subseteq Entries
        BY <1>1 DEF L, Inv, TypeOK, ListInv
    <2> QED BY <1>2, <1>7, <2>1 DEF L, Listed
<1>9. \A v \in Users : v # u => user[v].ent # e
    BY <1>1, OwnEntry DEF e, Own
<1>10. TypeOK'
    BY <1>1, <1>4, <1>6, <1>7 DEF Inv, TypeOK, svc
<1>11. ListInv'
    <2>1. \A f \in L : f \in heap' /\ asent'[f] = asent[f]
        BY <1>1, <1>2, <1>7, <1>8
    <2>2. ASSUME NEW f \in L
          PROVE  /\ f \in heap' /\ asent'[f].use_count > 0
                 /\ asent'[f].chan \in Chans /\ chan'[asent'[f].chan].alive
        BY <1>6, <2>1 DEF Inv, ListInv
    <2> QED BY <1>1, <1>8, <2>2 DEF Inv, ListInv
<1>12. UserInv'
    <2>1. ASSUME NEW v \in Users, v # u PROVE CallInv(v)'
        <3>1. user'[v] = user[v] /\ user[v].ent # e /\ CallInv(v)
            BY <1>4, <1>9, <2>1 DEF Inv, UserInv
        <3>2. user[v].ent \in heap =>
                  user[v].ent \in heap' /\ asent'[user[v].ent] = asent[user[v].ent]
            BY <1>1, <1>7, <1>8, <3>1
        <3>3. user[v].on \in Chans =>
                  /\ chan'[user[v].on].alive = chan[user[v].on].alive
                  /\ chan'[user[v].on].lock = chan[user[v].on].lock
            BY <1>6
        <3> QED BY <1>8, <3>1, <3>2, <3>3 DEF CallInv, Own
    <2>2. CallInv(u)'
        BY <1>4 DEF CallInv, Own, Idle
    <2> QED BY <1>4, <2>1, <2>2 DEF Inv, UserInv, Idle
<1>13. HangInv'
    <2>1. ASSUME NEW d \in Chans, chan[d].lock # Nobody
          PROVE  chan[d].lock # u /\ d # c
        BY <1>1, <1>3, <2>1 DEF Inv, HangInv
    <2>2. \A v \in Users, d \in Chans : user[v].on # d => user'[v].on # d
        BY <1>4, AutoServiceAssumption DEF Idle
    <2>3. ASSUME NEW d \in Chans, chan[d].lock # Nobody
          PROVE  user'[chan[d].lock] = user[chan[d].lock]
        BY <1>4, <2>1, <2>3 DEF Inv, TypeOK, Channel
    <2> QED BY <1>1, <1>2, <1>6, <1>8, <2>1, <2>2, <2>3 DEF Inv, HangInv
<1>14. HoldInv'
    <2>1. ASSUME NEW f \in Entries, Held(f)
          PROVE  Held(f)' /\ asent'[f].chan = asent[f].chan
        <3>1. \A v \in Users : user[v].pc = "wait" => user'[v] = user[v]
            BY <1>1, <1>4
        <3>2. f # e
            BY <1>3, <2>1
        <3> QED BY <1>1, <1>7, <1>8, <2>1, <3>1, <3>2 DEF Held
    <2> QED BY <1>1, <2>1, HoldFrame DEF svc
<1>15. WakeInv'
    BY <1>1 DEF Inv, WakeInv, NotAsleepOnWork, svc
<1> QED BY <1>10, <1>11, <1>12, <1>13, <1>14, <1>15 DEF Inv

\* The end of a call: its entry is freed.
LEMMA FreeEntryInv ==
    ASSUME Inv, NEW u \in Users, FreeEntry(u)
    PROVE  Inv'
<1> DEFINE c == user[u].on
           e == user[u].ent
           x == [Idle EXCEPT !.pc = "free", !.on = c]
           r == IF chan[c].lock = u THEN x ELSE Idle
<1>1. /\ user[u].pc = "flush"
      /\ heap' = heap \ {e}
      /\ asent' = [asent EXCEPT ![e] = Freed]
      /\ user' = [user EXCEPT ![u] = r]
      /\ UNCHANGED <<aslist, as_chan_list_state, svc, chan, depth>>
    BY DEF FreeEntry, HangsUp
<1>2. /\ c \in Chans /\ chan[c].alive /\ e \in Entries /\ e \in heap
      /\ e \notin L
    BY <1>1, UserFacts DEF Inv, TypeOK
<1>3. ~Held(e)
    BY <1>1, OwnNotHeld DEF Own
<1>4. r = Idle \/ (r.pc = "free" /\ r.on = c /\ chan[c].lock = u)
    BY <1>2, RecordTypes, AutoServiceAssumption DEF User, Idle
<1>5. r \in User /\ r.ent = Nobody
    BY <1>2, RecordTypes, AutoServiceAssumption DEF User, Idle
<1>6. chan[c].lock = u => r.pc = "free" /\ r.on = c
    BY <1>2, RecordTypes, AutoServiceAssumption DEF User, Idle
<1>7. Idle.on = Nobody /\ Idle.ent = Nobody /\ Idle.pc = "idle"
    BY DEF Idle
<1> HIDE DEF r, x, c, e
<1>8. /\ user' \in [Users -> User] /\ user'[u] = r
      /\ \A v \in Users : v # u => user'[v] = user[v]
    BY <1>1, <1>5 DEF Inv, TypeOK
<1>9. /\ asent' \in [Entries -> Asent]
      /\ \A f \in Entries : f # e => asent'[f] = asent[f]
    BY <1>1, <1>2, RecordTypes DEF Inv, TypeOK
<1>10. /\ L' = L /\ L \subseteq heap /\ heap \subseteq Entries
       /\ \A d \in Chans : Listed(d)' = Listed(d)
    <2>1. L' = L /\ L \subseteq heap /\ heap \subseteq Entries
        BY <1>1 DEF L, Inv, TypeOK, ListInv
    <2> QED BY <1>2, <1>9, <2>1 DEF L, Listed
<1>11. \A v \in Users : v # u => user[v].ent # e
    BY <1>1, OwnEntry DEF e, Own
<1>12. TypeOK'
    BY <1>1, <1>8, <1>9 DEF Inv, TypeOK, svc
<1>13. ListInv'
    <2>1. \A f \in L : f \in heap' /\ asent'[f] = asent[f]
        BY <1>1, <1>2, <1>9, <1>10
    <2> QED BY <1>1, <1>10, <2>1 DEF Inv, ListInv
<1>14. UserInv'
    <2>1. ASSUME NEW v \in Users, v # u PROVE CallInv(v)'
        <3>1. user'[v] = user[v] /\ user[v].ent # e /\ CallInv(v)
            BY <1>8, <1>11, <2>1 DEF Inv, UserInv
        <3>2. user[v].ent \in heap =>
                  user[v].ent \in heap' /\ asent'[user[v].ent] = asent[user[v].ent]
            BY <1>1, <1>9, <1>10, <3>1
        <3>3. chan' = chan
            BY <1>1
        <3> QED BY <1>10, <3>1, <3>2, <3>3 DEF CallInv, Own
    <2>2. CallInv(u)'
        BY <1>1, <1>2, <1>4, <1>5, <1>7, <1>8 DEF CallInv, Own
    <2> QED BY <1>5, <1>8, <2>1, <2>2 DEF Inv, UserInv
<1>15. HangInv'
    <2>1. \A v \in Users, d \in Chans : user[v].on # d => user'[v].on # d
        BY <1>4, <1>7, <1>8, AutoServiceAssumption DEF c
    <2>2. ASSUME NEW d \in Chans, chan[d].lock # Nobody
          PROVE  /\ user'[chan[d].lock].on = d
                 /\ user'[chan[d].lock].pc \in {"wait", "flush", "free"}
        <3>1. /\ user[chan[d].lock].on = d
              /\ user[chan[d].lock].pc \in {"wait", "flush", "free"}
              /\ chan[d].lock \in Users
            BY <2>2 DEF Inv, HangInv, TypeOK, Channel
        <3>2. CASE chan[d].lock = u
            <4>1. d = c
                BY <3>1, <3>2 DEF c
            <4> QED BY <1>6, <1>8, <3>2, <4>1
        <3>3. CASE chan[d].lock # u
            BY <1>8, <3>1, <3>3
        <3> QED BY <3>2, <3>3
    <2> QED BY <1>1, <1>10, <2>1, <2>2 DEF Inv, HangInv
<1>16. HoldInv'
    <2>1. ASSUME NEW f \in Entries, Held(f)
          PROVE  Held(f)' /\ asent'[f].chan = asent[f].chan
        <3>1. \A v \in Users : user[v].pc = "wait" => user'[v] = user[v]
            BY <1>1, <1>8
        <3>2. f # e
            BY <1>3, <2>1
        <3> QED BY <1>1, <1>9, <1>10, <2>1, <3>1, <3>2 DEF Held
    <2> QED BY <1>1, <2>1, HoldFrame DEF svc
<1>17. WakeInv'
    BY <1>1 DEF Inv, WakeInv, NotAsleepOnWork, svc
<1> QED BY <1>12, <1>13, <1>14, <1>15, <1>16, <1>17 DEF Inv

LEMMA StopSeenInv ==
    ASSUME Inv, NEW u \in Users, StopSeen(u)
    PROVE  Inv'
<1> DEFINE c == user[u].on
           e == user[u].ent
           f == Restored(chan[c].end_dtmf, e)
           t == chan[c].told \/ chan[c].soft
           x == [chan[c] EXCEPT !.told = t, !.end_dtmf = f]
           r == [user[u] EXCEPT !.pc = "flush", !.saved = 0]
<1>1. /\ user[u].pc = "wait" /\ Rebuilt(u)
      /\ chan' = [chan EXCEPT ![c] = x]
      /\ user' = [user EXCEPT ![u] = r]
      /\ UNCHANGED <<list, svc, depth>>
    BY DEF StopSeen
<1>2. /\ c \in Chans /\ chan[c].alive /\ e \in Entries /\ e \in heap
      /\ e \notin L /\ asent[e].chan = c /\ chan[c] \in Channel
    BY <1>1, UserFacts DEF Inv, TypeOK
<1>3. ~Held(e)
    BY <1>1, OwnNotHeld DEF Own, Rebuilt
<1>4. /\ r \in User /\ r.ent = e /\ r.pc = "flush" /\ r.on = c
    <2> HIDE DEF r
    <2>1. user[u] \in User
        BY UserFacts
    <2>2. 0 \in 0 .. StateWrap - 1
        BY AutoServiceAssumption
    <2> QED BY <1>1, <2>1, <2>2 DEF User, r
<1> HIDE DEF r, c, e
<1>5. /\ user' \in [Users -> User] /\ user'[u] = r
      /\ user[u].ent = e /\ user[u].on = c
      /\ \A v \in Users : v # u => user'[v] = user[v]
    BY <1>1, <1>4 DEF Inv, TypeOK, c, e
<1>6. x \in Channel /\ x.alive = chan[c].alive /\ x.lock = chan[c].lock
    <2>1. f \in BOOLEAN /\ t \in BOOLEAN
        BY DEF Restored
    <2> HIDE DEF f, t
    <2> QED BY <1>2, <2>1 DEF Channel
<1> HIDE DEF x, f, t
<1>7. /\ chan' \in [Chans -> Channel]
      /\ \A d \in Chans : /\ chan'[d].alive = chan[d].alive
                          /\ chan'[d].lock = chan[d].lock
                          /\ d # c => chan'[d] = chan[d]
    BY <1>1, <1>2, <1>6 DEF Inv, TypeOK
<1>8. /\ UNCHANGED <<aslist, heap, asent, as_chan_list_state>> /\ L' = L
      /\ \A d \in Chans : Listed(d)' = Listed(d)
    BY <1>1 DEF list, L, Listed
<1>9. TypeOK'
    BY <1>1, <1>5, <1>7, <1>8 DEF Inv, TypeOK, svc
<1>10. ListInv'
    BY <1>7, <1>8 DEF Inv, ListInv
<1>11. UserInv'
    <2>1. ASSUME NEW v \in Users, v # u PROVE CallInv(v)'
        <3>1. user'[v] = user[v] /\ CallInv(v)
            BY <1>5, <2>1 DEF Inv, UserInv
        <3> QED BY <1>7, <1>8, <3>1, ZenonT(30) DEF CallInv
    <2>2. CallInv(u)'
        BY <1>2, <1>4, <1>5, <1>7, <1>8 DEF CallInv, Own
    <2>3. \A v \in Users : user'[v].ent = user[v].ent
        BY <1>4, <1>5
    <2> QED BY <2>1, <2>2, <2>3 DEF Inv, UserInv
<1>12. HangInv'
    <2>1. \A v \in Users : /\ user'[v].on = user[v].on
                           /\ user[v].pc \in {"wait", "flush", "free"}
                              => user'[v].pc \in {"wait", "flush", "free"}
        BY <1>4, <1>5
    <2>2. \A d \in Chans : chan[d].lock # Nobody => chan[d].lock \in Users
        BY DEF Inv, TypeOK, Channel
    <2>3. \A d \in Chans : ~chan[d].alive => chan'[d] = chan[d]
        BY <1>2, <1>7
    <2>4. depth' = depth
        BY <1>1
    <2>5. ASSUME NEW d \in Chans, chan'[d].lock # Nobody
          PROVE  /\ chan'[d].alive /\ Listed(d)' = {}
                 /\ user'[chan'[d].lock].on = d
                 /\ user'[chan'[d].lock].pc \in {"wait", "flush", "free"}
                 /\ \A v \in Users : depth'[v][d] = 0
                 /\ \A v \in Users \ {chan'[d].lock} : user'[v].on # d
        <3>1. /\ chan'[d].lock = chan[d].lock /\ chan[d].lock \in Users
              /\ chan'[d].alive = chan[d].alive
            BY <1>7, <2>2, <2>5
        <3>2. /\ chan[d].alive /\ Listed(d) = {}
              /\ user[chan[d].lock].on = d
              /\ user[chan[d].lock].pc \in {"wait", "flush", "free"}
              /\ \A v \in Users : depth[v][d] = 0
              /\ \A v \in Users \ {chan[d].lock} : user[v].on # d
            BY <2>5, <3>1 DEF Inv, HangInv
        <3>3. Listed(d)' = {}
            BY <1>8, <3>2
        <3>4. PICK w \in Users : w = chan[d].lock
            BY <3>1
        <3>5. /\ user'[w].on = d
              /\ user'[w].pc \in {"wait", "flush", "free"}
              /\ \A v \in Users : depth'[v][d] = 0
              /\ \A v \in Users \ {w} : user'[v].on # d
            BY <2>1, <2>4, <3>2, <3>4
        <3> QED BY <3>1, <3>2, <3>3, <3>4, <3>5
    <2>6. ASSUME NEW d \in Chans, ~chan'[d].alive
          PROVE  /\ chan'[d].lock = Nobody /\ ~chan'[d].end_dtmf
                 /\ ~chan'[d].soft /\ Listed(d)' = {}
                 /\ \A v \in Users : user'[v].on # d
        <3>1. ~chan[d].alive /\ chan'[d] = chan[d]
            BY <1>7, <2>3, <2>6
        <3>2. /\ chan[d].lock = Nobody /\ ~chan[d].end_dtmf
              /\ ~chan[d].soft /\ Listed(d) = {}
              /\ \A v \in Users : user[v].on # d
            BY <3>1 DEF Inv, HangInv
        <3>3. Listed(d)' = {}
            BY <1>8, <3>2
        <3>4. \A v \in Users : user'[v].on # d
            BY <2>1, <3>2
        <3> QED BY <3>1, <3>2, <3>3, <3>4
    <2> QED BY <2>5, <2>6 DEF HangInv
<1>13. HoldInv'
    <2>1. ASSUME NEW g \in Entries, Held(g)
          PROVE  Held(g)' /\ asent'[g].chan = asent[g].chan
        <3>1. \A v \in Users : user[v].ent = g => user'[v] = user[v]
            BY <1>3, <1>5, <2>1
        <3> QED BY <1>8, <2>1, <3>1 DEF Held
    <2> QED BY <1>1, <2>1, HoldFrame DEF svc
<1>14. WakeInv'
    BY <1>1, <1>8 DEF Inv, WakeInv, NotAsleepOnWork, svc
<1> QED BY <1>9, <1>10, <1>11, <1>12, <1>13, <1>14 DEF Inv

\* Steps that replace a channel nobody uses but its owner.
LEMMA ReplaceInv ==
    ASSUME Inv, NEW c \in Chans, NEW x \in Channel,
           chan' = [chan EXCEPT ![c] = x],
           x.lock = Nobody, ~x.end_dtmf, ~x.soft,
           user' \in [Users -> User],
           Listed(c) = {},
           \A v \in Users : user[v].on # c => user'[v] = user[v],
           \A v \in Users : user[v].on = c =>
              user[v].pc # "wait" /\ user'[v] = Idle,
           UNCHANGED <<list, svc, depth>>
    PROVE  Inv'
<1>1. /\ chan' \in [Chans -> Channel] /\ chan'[c] = x
      /\ \A d \in Chans : d # c => chan'[d] = chan[d]
    BY DEF Inv, TypeOK
<1>2. /\ UNCHANGED <<aslist, heap, asent, as_chan_list_state>> /\ L' = L
      /\ \A d \in Chans : Listed(d)' = Listed(d)
    BY DEF list, L, Listed
<1>3. Idle.on = Nobody /\ Idle.ent = Nobody /\ Idle.pc = "idle"
    BY DEF Idle
<1>4. TypeOK'
    BY <1>1, <1>2 DEF Inv, TypeOK, svc
<1>5. ListInv'
    <2>1. \A f \in L : asent[f].chan # c
        BY DEF Listed, L
    <2> QED BY <1>1, <1>2, <2>1 DEF Inv, ListInv
<1>6. UserInv'
    <2>1. ASSUME NEW v \in Users PROVE CallInv(v)'
        <3>1. CASE user[v].on = c
            BY <1>3, <3>1 DEF CallInv, Own
        <3>2. CASE user[v].on # c
            <4>1. user'[v] = user[v] /\ CallInv(v)
                BY <3>2 DEF Inv, UserInv
            <4>2. user[v].on \in Chans => chan'[user[v].on] = chan[user[v].on]
                BY <1>1, <3>2
            <4> QED BY <1>2, <4>1, <4>2 DEF CallInv
        <3> QED BY <3>1, <3>2
    <2>2. \A v \in Users : user'[v].ent \in {Nobody, user[v].ent}
        BY <1>3
    <2> QED BY <2>1, <2>2 DEF Inv, UserInv
<1>7. HangInv'
    <2>1. ASSUME NEW v \in Users, NEW d \in Chans, user[v].on # d
          PROVE  user'[v].on # d
        BY <1>3, <2>1, AutoServiceAssumption
    <2>2. ASSUME NEW v \in Users PROVE user'[v].on # c
        BY <1>3, AutoServiceAssumption
    <2>3. ASSUME NEW d \in Chans, d # c, chan[d].lock # Nobody
          PROVE  user'[chan[d].lock] = user[chan[d].lock]
        BY <2>3 DEF Inv, HangInv, TypeOK, Channel
    <2> QED BY <1>1, <1>2, <2>1, <2>2, <2>3 DEF Inv, HangInv
<1>8. HoldInv'
    <2>1. ASSUME NEW g \in Entries, Held(g)
          PROVE  Held(g)' /\ asent'[g].chan = asent[g].chan
        <3>1. \A v \in Users : user[v].pc = "wait" => user'[v] = user[v]
            OBVIOUS
        <3> QED BY <1>2, <2>1, <3>1 DEF Held
    <2> QED BY <2>1, HoldFrame DEF svc
<1>9. WakeInv'
    BY <1>2 DEF Inv, WakeInv, NotAsleepOnWork, svc
<1> QED BY <1>4, <1>5, <1>6, <1>7, <1>8, <1>9 DEF Inv

LEMMA ChannelInv ==
    ASSUME Inv,
           \/ \E u \in Users : FreeChannel(u)
           \/ \E c \in Chans : NewChannel(c)
    PROVE  Inv'
<1> DEFINE dead == [Fresh EXCEPT !.alive = FALSE]
<1>1. /\ Fresh \in Channel /\ Fresh.lock = Nobody
      /\ ~Fresh.end_dtmf /\ ~Fresh.soft
    BY RecordTypes DEF Fresh
<1>2. dead \in Channel /\ dead.lock = Nobody /\ ~dead.end_dtmf /\ ~dead.soft
    BY <1>1 DEF Fresh, Channel
<1> HIDE DEF dead
<1>3. ASSUME NEW u \in Users, FreeChannel(u) PROVE Inv'
    <2>1. /\ user[u].pc = "free" /\ user[u].on \in Chans
          /\ chan[user[u].on].lock = u
          /\ chan' = [chan EXCEPT ![user[u].on] = dead]
          /\ user' = [user EXCEPT ![u] = Idle]
          /\ UNCHANGED <<list, svc, depth>>
        BY <1>3, UserFacts DEF FreeChannel, dead
    <2>2. /\ Listed(user[u].on) = {}
          /\ \A v \in Users \ {u} : user[v].on # user[u].on
        BY <2>1, AutoServiceAssumption DEF Inv, HangInv
    <2>3. user' \in [Users -> User] /\ user'[u] = Idle
          /\ \A v \in Users \ {u} : user'[v] = user[v]
        BY <2>1, RecordTypes DEF Inv, TypeOK
    <2> QED BY <1>2, <2>1, <2>2, <2>3, ReplaceInv
<1>4. ASSUME NEW c \in Chans, NewChannel(c) PROVE Inv'
    <2>1. /\ ~chan[c].alive /\ chan' = [chan EXCEPT ![c] = Fresh]
          /\ UNCHANGED <<list, svc, users>>
        BY <1>4 DEF NewChannel
    <2>2. Listed(c) = {} /\ \A v \in Users : user[v].on # c
        BY <2>1 DEF Inv, HangInv
    <2>3. user' = user /\ user \in [Users -> User] /\ depth' = depth
        BY <2>1 DEF Inv, TypeOK, users
    <2> QED BY <1>1, <2>1, <2>2, <2>3, ReplaceInv
<1> QED BY <1>3, <1>4

\* What a stop under the list's lock does to the list and to its user.
Released(u, c, next) ==
    /\ aslist' \in Seq(Entries) /\ asent' \in [Entries -> Asent]
    /\ \A i, j \in DOMAIN aslist' : aslist'[i] = aslist'[j] => i = j
    /\ L' \subseteq L /\ L \subseteq Entries
    /\ \A e \in L' : asent'[e].use_count > 0
    /\ \A e \in Entries : /\ asent'[e].chan = asent[e].chan
                          /\ e \notin L => asent'[e] = asent[e]
                          /\ Held(e) => Held(e)'
    /\ aslist = <<>> => aslist' = <<>>
    /\ \A d \in Chans : Listed(d)' \subseteq Listed(d)
    /\ OneUse(c) => Listed(c)' = {}
    /\ user' \in [Users -> User]
    /\ \A v \in Users : v # u => user'[v] = user[v]
    /\ \/ user'[u] = next
       \/ /\ user'[u].pc = "wait" /\ user'[u].on = c
          /\ user'[u].ent \in L /\ user'[u].ent \notin L'
          /\ asent[user'[u].ent].chan = c

LEMMA ReleaseProps ==
    ASSUME Inv, NEW u \in Users, NEW c \in Chans, user[u].pc = "idle",
           NEW next \in User, next.ent = Nobody, next.pc # "wait",
           Release(u, c, next), UNCHANGED <<heap, as_chan_list_state>>
    PROVE  Released(u, c, next)
<1>1. /\ aslist \in Seq(Entries) /\ asent \in [Entries -> Asent]
      /\ user \in [Users -> User] /\ L \subseteq Entries
      /\ \A i \in DOMAIN aslist : aslist[i] \in L
      /\ \A i, j \in DOMAIN aslist : aslist[i] = aslist[j] => i = j
      /\ \A e \in L : asent[e].use_count > 0 /\ e \in heap
    <2>1. L \subseteq Entries /\ \A i \in DOMAIN aslist : aslist[i] \in L
        BY DEF Inv, TypeOK, L, ToSet
    <2> QED BY <2>1 DEF Inv, TypeOK, ListInv
<1>2. \A v \in Users : user[v].pc = "wait" => v # u
    OBVIOUS
<1>3. ASSUME Listed(c) = {}, user' = [user EXCEPT ![u] = next],
             aslist' = aslist, asent' = asent
      PROVE  /\ user' \in [Users -> User] /\ user'[u] = next
             /\ \A v \in Users : v # u => user'[v] = user[v]
             /\ L' = L /\ Listed(c)' = {}
             /\ \A d \in Chans : Listed(d)' = Listed(d)
             /\ \A e \in Entries : Held(e) => Held(e)'
    <2>1. /\ user' \in [Users -> User] /\ user'[u] = next
          /\ \A v \in Users : v # u => user'[v] = user[v]
        BY <1>1, <1>3
    <2>2. L' = L /\ \A d \in Chans : Listed(d)' = Listed(d)
        BY <1>3 DEF L, Listed
    <2> QED BY <1>2, <1>3, <2>1, <2>2 DEF Held
<1>4. ASSUME NEW i \in DOMAIN aslist, asent[aslist[i]].chan = c,
             asent' = [asent EXCEPT ![aslist[i]].use_count = @ - 1]
      PROVE  /\ asent' \in [Entries -> Asent]
             /\ \A e \in Entries : /\ asent'[e].chan = asent[e].chan
                                   /\ e # aslist[i] => asent'[e] = asent[e]
             /\ asent[aslist[i]].use_count > 1 => asent'[aslist[i]].use_count > 0
             /\ asent[aslist[i]].use_count \in Nat
    <2> DEFINE e == aslist[i]
               n == [asent[e] EXCEPT !.use_count = asent[e].use_count - 1]
    <2>1. e \in Entries /\ asent[e] \in Asent /\ asent[e].use_count > 0
        BY <1>1
    <2>2. asent' = [asent EXCEPT ![e] = n]
        BY <1>4
    <2> HIDE DEF e, n
    <2>3. asent[e].use_count \in Nat
        BY <2>1 DEF Asent
    <2>4. \A k \in Nat : k > 0 => k - 1 \in Nat /\ (k > 1 => k - 1 > 0)
        OBVIOUS
    <2>5. /\ n \in Asent /\ n.chan = asent[e].chan
          /\ asent[e].use_count > 1 => n.use_count > 0
        BY <2>1, <2>3, <2>4 DEF Asent, n
    <2>6. /\ asent' \in [Entries -> Asent] /\ asent'[e] = n
          /\ \A f \in Entries : f # e => asent'[f] = asent[f]
        BY <1>1, <2>1, <2>2, <2>5
    <2> QED BY <2>3, <2>5, <2>6 DEF e
<1>5. CASE Listed(c) = {} /\ user' = [user EXCEPT ![u] = next]
           /\ UNCHANGED <<aslist, asent>>
    BY <1>1, <1>3, <1>5 DEF Released
<1>6. ASSUME NEW i \in DOMAIN aslist, Finds(i, c),
             asent' = [asent EXCEPT ![aslist[i]].use_count = @ - 1],
             ~LastUse(aslist[i]), user' = [user EXCEPT ![u] = next],
             aslist' = aslist
      PROVE  /\ user' \in [Users -> User] /\ user'[u] = next
             /\ \A v \in Users : v # u => user'[v] = user[v]
             /\ L' = L /\ ~OneUse(c)
             /\ \A d \in Chans : Listed(d)' = Listed(d)
             /\ \A e \in L : asent'[e].use_count > 0
             /\ \A e \in Entries : Held(e) => Held(e)'
    <2>1. /\ user' \in [Users -> User] /\ user'[u] = next
          /\ \A v \in Users : v # u => user'[v] = user[v]
        BY <1>1, <1>6
    <2>2. L' = L
        BY <1>6 DEF L
    <2>3. asent[aslist[i]].chan = c
        BY <1>6 DEF Finds
    <2>4. \A d \in Chans : Listed(d)' = Listed(d)
        <3>1. \A e \in Entries : asent'[e].chan = asent[e].chan
            BY <1>4, <1>6, <2>3
        <3>2. ToSet(aslist)' = ToSet(aslist) /\ ToSet(aslist) \subseteq Entries
            BY <1>1, <2>2 DEF L
        <3> QED BY <3>1, <3>2 DEF Listed
    <2>5. \A e \in Entries : Held(e) => Held(e)'
        BY <1>2, <1>6, <2>1, <2>2 DEF Held
    <2>6. aslist[i] \in Listed(c)
        BY <1>1, <2>3 DEF Listed, L
    <2>7. ~OneUse(c)
        BY <1>6, <2>6 DEF OneUse
    <2>8. asent'[aslist[i]].use_count > 0
        <3>1. asent[aslist[i]].use_count \in Nat
            BY <1>4, <1>6, <2>3
        <3>2. asent[aslist[i]].use_count > 1
            <4>1. ~(asent[aslist[i]].use_count <= 1)
                BY <1>6 DEF LastUse
            <4>2. \A k \in Nat : ~(k <= 1) => k > 1
                OBVIOUS
            <4> QED BY <3>1, <4>1, <4>2
        <3> QED BY <1>4, <1>6, <2>3, <3>2
    <2>9. \A e \in L : asent'[e].use_count > 0
        BY <1>1, <1>4, <1>6, <2>3, <2>8
    <2> QED BY <2>1, <2>2, <2>4, <2>5, <2>7, <2>9
<1>7. ASSUME NEW i \in DOMAIN aslist, Finds(i, c),
             asent' = [asent EXCEPT ![aslist[i]].use_count = @ - 1],
             user' = [user EXCEPT ![u] =
                        [pc |-> "wait", on |-> c, ent |-> aslist[i],
                         saved |-> as_chan_list_state]],
             aslist' = RemoveAt(aslist, i)
      PROVE  /\ user' \in [Users -> User]
             /\ user'[u].pc = "wait" /\ user'[u].on = c
             /\ user'[u].ent \in L /\ user'[u].ent \notin L'
             /\ asent[user'[u].ent].chan = c
             /\ \A v \in Users : v # u => user'[v] = user[v]
             /\ aslist' \in Seq(Entries)
             /\ \A k, j \in DOMAIN aslist' : aslist'[k] = aslist'[j] => k = j
             /\ L' \subseteq L /\ (OneUse(c) => Listed(c)' = {})
             /\ \A d \in Chans : Listed(d)' \subseteq Listed(d)
             /\ \A e \in L' : asent'[e].use_count > 0
             /\ \A e \in Entries : Held(e) => Held(e)'
    <2> DEFINE e == aslist[i]
               r == [pc |-> "wait", on |-> c, ent |-> e,
                     saved |-> as_chan_list_state]
    <2>1. e \in L /\ e \in Entries /\ asent[e].chan = c
        BY <1>1, <1>7 DEF Finds
    <2>2. /\ r \in User /\ r.pc = "wait" /\ r.on = c /\ r.ent = e
          /\ r.saved = as_chan_list_state
        <3>1. as_chan_list_state \in 0 .. StateWrap - 1
            BY DEF Inv, TypeOK
        <3> QED BY <2>1, <3>1 DEF User
    <2>3. user' = [user EXCEPT ![u] = r]
        BY <1>7
    <2>4. /\ aslist' \in Seq(Entries) /\ L' = L \ {e}
          /\ \A k, j \in DOMAIN aslist' : aslist'[k] = aslist'[j] => k = j
        BY <1>1, <1>7, RemoveProps DEF L
    <2>5. /\ \A f \in Entries : /\ asent'[f].chan = asent[f].chan
                                /\ f # e => asent'[f] = asent[f]
        BY <1>4, <1>7, <2>1
    <2> HIDE DEF e, r
    <2>6. /\ user' \in [Users -> User] /\ user'[u] = r
          /\ \A v \in Users : v # u => user'[v] = user[v]
        BY <1>1, <2>2, <2>3
    <2>7. \A d \in Chans : Listed(d)' = Listed(d) \ {e}
        BY <1>1, <2>4, <2>5 DEF Listed, L
    <2>8. OneUse(c) => Listed(c)' = {}
        <3>1. e \in Listed(c)
            BY <2>1 DEF Listed, L
        <3> QED BY <2>7, <3>1 DEF OneUse
    <2>9. \A f \in L' : asent'[f].use_count > 0
        BY <1>1, <2>4, <2>5
    <2>10. ASSUME NEW f \in Entries, Held(f) PROVE Held(f)'
        <3>1. CASE f = e
            BY <1>1, <2>1, <2>2, <2>6, <3>1 DEF Held
        <3>2. CASE f # e
            BY <1>2, <2>4, <2>6, <2>10, <3>2 DEF Held
        <3> QED BY <3>1, <3>2
    <2> QED BY <2>1, <2>2, <2>4, <2>6, <2>7, <2>8, <2>9, <2>10
<1>8. ASSUME NEW i \in DOMAIN aslist, Finds(i, c)
      PROVE  aslist # <<>> /\ asent[aslist[i]].chan = c
    BY <1>1, <1>8 DEF Finds
<1>9. ASSUME NEW i \in DOMAIN aslist, Finds(i, c),
             asent' = [asent EXCEPT ![aslist[i]].use_count = @ - 1],
             IF LastUse(aslist[i])
             THEN /\ aslist' = RemoveAt(aslist, i)
                  /\ user' = [user EXCEPT ![u] =
                                [pc |-> "wait", on |-> c, ent |-> aslist[i],
                                 saved |-> as_chan_list_state]]
             ELSE /\ user' = [user EXCEPT ![u] = next]
                  /\ UNCHANGED aslist
      PROVE  Released(u, c, next)
    <2>1. /\ asent' \in [Entries -> Asent]
          /\ \A e \in Entries : /\ asent'[e].chan = asent[e].chan
                                /\ e # aslist[i] => asent'[e] = asent[e]
        BY <1>4, <1>8, <1>9
    <2>2. \A e \in Entries : /\ asent'[e].chan = asent[e].chan
                             /\ e \notin L => asent'[e] = asent[e]
        BY <1>1, <2>1
    <2>3. CASE LastUse(aslist[i])
        BY <1>1, <1>7, <1>8, <1>9, <2>1, <2>2, <2>3 DEF Released
    <2>4. CASE ~LastUse(aslist[i])
        <3>1. aslist' = aslist
            BY <1>9, <2>4
        <3> QED BY <1>1, <1>6, <1>8, <1>9, <2>1, <2>2, <2>4, <3>1 DEF Released
    <2> QED BY <2>3, <2>4
<1> QED BY <1>5, <1>9 DEF Release

\* A user who waits in a stop has an entry that no other call has.
LEMMA ReleaseUserInv ==
    ASSUME Inv, NEW u \in Users, NEW c \in Chans,
           user[u].pc = "idle", chan[c].alive,
           L' \subseteq L, heap' = heap,
           \A e \in Entries : /\ asent'[e].chan = asent[e].chan
                              /\ e \notin L => asent'[e] = asent[e],
           \A d \in Chans : chan'[d].alive = chan[d].alive,
           \A v \in Users : v # u => user'[v] = user[v],
           \A v \in Users :
              user[v].pc = "free" => chan'[user[v].on].lock = v,
           \/ user'[u] = Idle
           \/ /\ user'[u].pc = "free" /\ user'[u].on = c
              /\ user'[u].ent = Nobody /\ chan'[c].lock = u
           \/ /\ user'[u].pc = "wait" /\ user'[u].on = c
              /\ user'[u].ent \in L /\ user'[u].ent \notin L'
              /\ asent[user'[u].ent].chan = c
    PROVE  UserInv'
<1>1. L \subseteq heap /\ L \subseteq Entries /\ heap \subseteq Entries
    BY DEF Inv, TypeOK, ListInv, L, ToSet
<1>2. Idle.pc = "idle" /\ Idle.ent = Nobody
    BY DEF Idle
<1>3. \A v \in Users : user[v].ent \notin L
    <2>1. ASSUME NEW v \in Users PROVE user[v].ent \notin L
        <3>1. CASE user[v].pc = "idle"
            <4>1. user[v] = Idle
                BY <3>1, UserFacts
            <4> QED BY <1>1, <1>2, <4>1, AutoServiceAssumption
        <3>2. CASE user[v].pc \in {"flag", "free"}
            <4>1. user[v].ent = Nobody
                BY <3>2 DEF Inv, UserInv, CallInv
            <4> QED BY <1>1, <4>1, AutoServiceAssumption
        <3>3. CASE user[v].pc \in Own
            BY <3>3, UserFacts DEF Own
        <3> QED BY <3>1, <3>2, <3>3, UserFacts DEF User, Own
    <2> QED BY <2>1
<1>4. ASSUME NEW v \in Users, v # u PROVE CallInv(v)'
    <2>1. user'[v] = user[v] /\ CallInv(v)
        BY <1>4 DEF Inv, UserInv
    <2>2. user[v].pc \in Own =>
              /\ user[v].ent \in heap' /\ user[v].ent \notin L'
              /\ asent'[user[v].ent] = asent[user[v].ent]
        BY <1>1, <1>3, <2>1 DEF CallInv
    <2>3. user[v].pc # "idle" => chan'[user[v].on].alive
        BY <2>1 DEF CallInv
    <2> QED BY <2>1, <2>2, <2>3, ZenonT(60) DEF CallInv, Own
<1>5. CallInv(u)'
    <2>1. CASE user'[u] = Idle
        BY <1>2, <2>1 DEF CallInv, Own
    <2>2. CASE /\ user'[u].pc = "free" /\ user'[u].on = c
               /\ user'[u].ent = Nobody /\ chan'[c].lock = u
        BY <2>2 DEF CallInv, Own
    <2>3. CASE /\ user'[u].pc = "wait" /\ user'[u].on = c
               /\ user'[u].ent \in L /\ user'[u].ent \notin L'
               /\ asent[user'[u].ent].chan = c
        <3>1. user'[u].ent \in heap' /\ asent'[user'[u].ent].chan = c
            BY <1>1, <2>3
        <3> QED BY <2>3, <3>1 DEF CallInv, Own
    <2> QED BY <2>1, <2>2, <2>3
<1>6. user'[u].ent = Nobody \/ user'[u].ent \in L
    BY <1>2
<1>7. ASSUME NEW v \in Users, NEW w \in Users, user'[v].ent = user'[w].ent
      PROVE  v = w \/ user'[v].ent = Nobody
    BY <1>3, <1>6, <1>7 DEF Inv, UserInv
<1> QED BY <1>4, <1>5, <1>7 DEF UserInv

LEMMA StopInv ==
    ASSUME Inv, NEW u \in Users, NEW c \in Chans, Stop(u, c)
    PROVE  Inv'
<1>1. /\ user[u].pc = "idle" /\ depth[u][c] > 0
      /\ Release(u, c, Idle)
      /\ depth' = [depth EXCEPT ![u][c] = @ - 1]
      /\ UNCHANGED <<heap, as_chan_list_state, svc, chan>>
    BY DEF Stop
<1>2. Idle \in User /\ Idle.ent = Nobody /\ Idle.pc = "idle"
      /\ Idle.on = Nobody
    BY RecordTypes DEF Idle
<1>3. /\ aslist' \in Seq(Entries) /\ asent' \in [Entries -> Asent]
      /\ \A i, j \in DOMAIN aslist' : aslist'[i] = aslist'[j] => i = j
      /\ L' \subseteq L /\ L \subseteq Entries
      /\ \A e \in L' : asent'[e].use_count > 0
      /\ \A e \in Entries : /\ asent'[e].chan = asent[e].chan
                            /\ e \notin L => asent'[e] = asent[e]
                            /\ Held(e) => Held(e)'
      /\ aslist = <<>> => aslist' = <<>>
      /\ \A d \in Chans : Listed(d)' \subseteq Listed(d)
      /\ user' \in [Users -> User]
      /\ \A v \in Users : v # u => user'[v] = user[v]
      /\ \/ user'[u] = Idle
         \/ /\ user'[u].pc = "wait" /\ user'[u].on = c
            /\ user'[u].ent \in L /\ user'[u].ent \notin L'
            /\ asent[user'[u].ent].chan = c
    <2>1. /\ Idle \in User /\ Idle.ent = Nobody /\ Idle.pc # "wait"
          /\ user[u].pc = "idle" /\ Release(u, c, Idle)
          /\ UNCHANGED <<heap, as_chan_list_state>>
        BY <1>1, <1>2
    <2>2. Released(u, c, Idle)
        BY <2>1, ReleaseProps
    <2> QED BY <2>2 DEF Released
<1>4. /\ depth' \in [Users -> [Chans -> Nat]]
      /\ \A v \in Users, d \in Chans : d # c => depth'[v][d] = depth[v][d]
    <2>1. depth \in [Users -> [Chans -> Nat]]
        BY DEF Inv, TypeOK
    <2>2. depth[u][c] - 1 \in Nat
        BY <1>1, <2>1
    <2> QED BY <1>1, <2>1, <2>2
<1>5. chan[c].lock = Nobody
    BY <1>1 DEF Inv, HangInv
<1>6. user'[u] # Idle => chan[c].alive
    <2>1. ASSUME NEW e \in L, asent[e].chan = c PROVE chan[c].alive
        BY <2>1 DEF Inv, ListInv
    <2> QED BY <1>3, <2>1
<1>7. TypeOK'
    BY <1>1, <1>3, <1>4 DEF Inv, TypeOK, svc
<1>8. ListInv'
    <2>1. \A e \in L' : /\ e \in heap /\ asent'[e].use_count > 0
                        /\ asent'[e].chan = asent[e].chan
                        /\ asent[e].chan \in Chans /\ chan[asent[e].chan].alive
        BY <1>3 DEF Inv, ListInv
    <2> QED BY <1>1, <1>3, <2>1 DEF ListInv
<1>9. UserInv'
    <2>1. CASE user'[u] = Idle /\ ~chan[c].alive
        <3>1. \A v \in Users : user'[v] = user[v]
            BY <1>1, <1>3, <2>1, UserFacts
        <3>2. \A v \in Users : user[v].pc \in Own =>
                  user[v].ent \in Entries /\ user[v].ent \notin L
            BY UserFacts DEF Own
        <3>3. ASSUME NEW v \in Users PROVE CallInv(v)'
            <4>1. CallInv(v) /\ user'[v] = user[v] /\ heap' = heap
                  /\ chan' = chan
                BY <1>1, <3>1 DEF Inv, UserInv
            <4>2. user[v].pc \in Own =>
                      /\ user[v].ent \notin L'
                      /\ asent'[user[v].ent] = asent[user[v].ent]
                BY <1>3, <3>2
            <4> QED BY <4>1, <4>2 DEF CallInv, Own
        <3> QED BY <3>1, <3>3 DEF Inv, UserInv
    <2>2. CASE chan[c].alive
        <3>1. \A v \in Users : user[v].pc = "free" => chan'[user[v].on].lock = v
            BY <1>1, UserFacts
        <3>2. \A d \in Chans : chan'[d].alive = chan[d].alive
            BY <1>1
        <3> QED BY <1>1, <1>3, <2>2, <3>1, <3>2, ReleaseUserInv
    <2> QED BY <1>6, <2>1, <2>2
<1>10. HangInv'
    <2>1. ASSUME NEW d \in Chans, chan[d].lock # Nobody
          PROVE  /\ d # c /\ chan[d].lock \in Users
                 /\ user'[chan[d].lock] = user[chan[d].lock]
        BY <1>1, <1>3, <1>5, <2>1, ZenonT(30) DEF Inv, HangInv, TypeOK, Channel
    <2>2. ASSUME NEW v \in Users, NEW d \in Chans, user[v].on # d,
                 ~chan[d].alive \/ d # c
          PROVE  user'[v].on # d
        BY <1>2, <1>3, <1>6, <2>2, AutoServiceAssumption, ZenonT(30)
    <2>3. ASSUME NEW d \in Chans, chan'[d].lock # Nobody
          PROVE  /\ chan'[d].alive /\ Listed(d)' = {}
                 /\ user'[chan'[d].lock].on = d
                 /\ user'[chan'[d].lock].pc \in {"wait", "flush", "free"}
                 /\ \A v \in Users : depth'[v][d] = 0
                 /\ \A v \in Users \ {chan'[d].lock} : user'[v].on # d
        BY <1>1, <1>3, <1>4, <2>1, <2>2, <2>3 DEF Inv, HangInv
    <2>4. ASSUME NEW d \in Chans, ~chan'[d].alive
          PROVE  /\ chan'[d].lock = Nobody /\ ~chan'[d].end_dtmf
                 /\ ~chan'[d].soft /\ Listed(d)' = {}
                 /\ \A v \in Users : user'[v].on # d
        BY <1>1, <1>3, <2>2, <2>4 DEF Inv, HangInv
    <2> QED BY <2>3, <2>4 DEF HangInv
<1>11. HoldInv'
    BY <1>1, <1>3, HoldFrame DEF svc
<1>12. WakeInv'
    BY <1>1, <1>3 DEF Inv, WakeInv, NotAsleepOnWork, svc
<1> QED BY <1>7, <1>8, <1>9, <1>10, <1>11, <1>12 DEF Inv

LEMMA HangUpInv ==
    ASSUME Inv, NEW u \in Users, NEW c \in Chans, HangUp(u, c)
    PROVE  Inv'
<1> DEFINE r == [Idle EXCEPT !.pc = "free", !.on = c]
           x == [chan[c] EXCEPT !.lock = u]
<1>1. /\ user[u].pc = "idle" /\ chan[c].alive /\ chan[c].lock = Nobody
      /\ Alone(u, c) /\ OneUse(c)
      /\ chan' = [chan EXCEPT ![c] = x]
      /\ depth' = [depth EXCEPT ![u][c] = 0]
      /\ Release(u, c, r)
      /\ UNCHANGED <<heap, as_chan_list_state, svc>>
    BY DEF HangUp, Usable
<1>2. r \in User /\ r.ent = Nobody /\ r.pc = "free" /\ r.on = c
    BY RecordTypes, AutoServiceAssumption DEF Idle, User
<1>3. chan[c] \in Channel
    BY DEF Inv, TypeOK
<1>4. x \in Channel /\ x.alive = chan[c].alive /\ x.lock = u
    BY <1>3 DEF Channel
<1> HIDE DEF r, x
<1>5. /\ chan' \in [Chans -> Channel] /\ chan'[c].lock = u
      /\ \A d \in Chans : /\ chan'[d].alive = chan[d].alive
                          /\ d # c => chan'[d] = chan[d]
    BY <1>1, <1>4 DEF Inv, TypeOK
<1>6. /\ aslist' \in Seq(Entries) /\ asent' \in [Entries -> Asent]
      /\ \A i, j \in DOMAIN aslist' : aslist'[i] = aslist'[j] => i = j
      /\ L' \subseteq L /\ L \subseteq Entries
      /\ \A e \in L' : asent'[e].use_count > 0
      /\ \A e \in Entries : /\ asent'[e].chan = asent[e].chan
                            /\ e \notin L => asent'[e] = asent[e]
                            /\ Held(e) => Held(e)'
      /\ aslist = <<>> => aslist' = <<>>
      /\ \A d \in Chans : Listed(d)' \subseteq Listed(d)
      /\ Listed(c)' = {}
      /\ user' \in [Users -> User]
      /\ \A v \in Users : v # u => user'[v] = user[v]
      /\ \/ user'[u] = r
         \/ /\ user'[u].pc = "wait" /\ user'[u].on = c
            /\ user'[u].ent \in L /\ user'[u].ent \notin L'
            /\ asent[user'[u].ent].chan = c
    <2>1. /\ r.pc # "wait" /\ OneUse(c) /\ user[u].pc = "idle"
          /\ Release(u, c, r)
          /\ UNCHANGED <<heap, as_chan_list_state>>
        BY <1>1, <1>2
    <2>2. Released(u, c, r)
        BY <1>2, <2>1, ReleaseProps
    <2> QED BY <1>1, <2>2 DEF Released
<1>7. /\ depth' \in [Users -> [Chans -> Nat]] /\ depth'[u][c] = 0
      /\ \A v \in Users, d \in Chans :
            d # c \/ v # u => depth'[v][d] = depth[v][d]
    BY <1>1 DEF Inv, TypeOK
<1>8. \A v \in Users \ {u} : depth[v][c] = 0 /\ user[v].on # c
    BY <1>1 DEF Alone
<1>9. TypeOK'
    BY <1>1, <1>5, <1>6, <1>7 DEF Inv, TypeOK, svc
<1>10. ListInv'
    <2>1. \A e \in L' : /\ e \in heap /\ asent'[e].use_count > 0
                        /\ asent'[e].chan = asent[e].chan
                        /\ asent[e].chan \in Chans /\ chan[asent[e].chan].alive
        BY <1>6 DEF Inv, ListInv
    <2> QED BY <1>1, <1>5, <1>6, <2>1 DEF ListInv
<1>11. UserInv'
    <2>1. ASSUME NEW v \in Users, user[v].pc = "free"
          PROVE  chan'[user[v].on].lock = v
        <3>1. user[v].on \in Chans /\ chan[user[v].on].lock = v
            BY <2>1, UserFacts
        <3> QED BY <1>1, <1>5, <3>1, AutoServiceAssumption
    <2>2. \/ /\ user'[u].pc = "free" /\ user'[u].on = c
             /\ user'[u].ent = Nobody /\ chan'[c].lock = u
          \/ /\ user'[u].pc = "wait" /\ user'[u].on = c
             /\ user'[u].ent \in L /\ user'[u].ent \notin L'
             /\ asent[user'[u].ent].chan = c
        BY <1>2, <1>5, <1>6
    <2>3. /\ L' \subseteq L /\ heap' = heap
          /\ \A e \in Entries : /\ asent'[e].chan = asent[e].chan
                                /\ e \notin L => asent'[e] = asent[e]
          /\ \A d \in Chans : chan'[d].alive = chan[d].alive
          /\ \A v \in Users : v # u => user'[v] = user[v]
        BY <1>1, <1>5, <1>6
    <2> QED BY <1>1, <2>1, <2>2, <2>3, ReleaseUserInv
<1>12. HangInv'
    <2>1. user'[u].on = c /\ user'[u].pc \in {"wait", "free"}
        BY <1>2, <1>6
    <2>2. ASSUME NEW d \in Chans, d # c, chan[d].lock # Nobody
          PROVE  /\ chan[d].lock \in Users /\ chan[d].lock # u
                 /\ user'[chan[d].lock] = user[chan[d].lock]
        BY <1>1, <1>6, <2>2, ZenonT(30) DEF Inv, HangInv, TypeOK, Channel
    <2>3. \A v \in Users, d \in Chans : d # c /\ user[v].on # d => user'[v].on # d
        BY <1>6, <2>1
    <2>4. ASSUME NEW d \in Chans, d # c, chan'[d].lock # Nobody
          PROVE  /\ chan'[d].alive /\ Listed(d)' = {}
                 /\ user'[chan'[d].lock].on = d
                 /\ user'[chan'[d].lock].pc \in {"wait", "flush", "free"}
                 /\ \A v \in Users : depth'[v][d] = 0
                 /\ \A v \in Users \ {chan'[d].lock} : user'[v].on # d
        <3>1. /\ chan'[d] = chan[d]
              /\ \A v \in Users : depth'[v][d] = depth[v][d]
              /\ Listed(d)' \subseteq Listed(d)
            BY <1>5, <1>6, <1>7, <2>4
        <3>2. PICK w \in Users : w = chan[d].lock /\ user'[w] = user[w]
            BY <2>2, <2>4, <3>1
        <3>3. /\ chan[d].alive /\ Listed(d) = {} /\ user[w].on = d
              /\ user[w].pc \in {"wait", "flush", "free"}
              /\ \A v \in Users : depth[v][d] = 0
              /\ \A v \in Users \ {w} : user[v].on # d
            BY <2>4, <3>1, <3>2 DEF Inv, HangInv
        <3> QED BY <2>3, <2>4, <3>1, <3>2, <3>3
    <2>5. /\ chan'[c].alive /\ chan'[c].lock = u /\ Listed(c)' = {}
          /\ \A v \in Users : depth'[v][c] = 0
          /\ \A v \in Users \ {u} : user'[v].on # c
        BY <1>1, <1>5, <1>6, <1>7, <1>8
    <2>6. ASSUME NEW d \in Chans, ~chan'[d].alive
          PROVE  /\ chan'[d].lock = Nobody /\ ~chan'[d].end_dtmf
                 /\ ~chan'[d].soft /\ Listed(d)' = {}
                 /\ \A v \in Users : user'[v].on # d
        BY <1>1, <1>5, <1>6, <2>3, <2>6 DEF Inv, HangInv
    <2> QED BY <2>1, <2>4, <2>5, <2>6 DEF HangInv
<1>13. HoldInv'
    BY <1>1, <1>6, HoldFrame DEF svc
<1>14. WakeInv'
    BY <1>1, <1>6 DEF Inv, WakeInv, NotAsleepOnWork, svc
<1> QED BY <1>9, <1>10, <1>11, <1>12, <1>13, <1>14 DEF Inv

-----------------------------------------------------------------------------
(* The theorems *)

\* Every step of the program preserves the invariant.
LEMMA StepInv == ASSUME Inv, [Next]_vars PROVE Inv'
<1>1. ASSUME NEW u \in Users, Finishes(u) PROVE Inv'
    <2>1. CASE \E v \in Users : Flush(v)
        BY <2>1, FramesInv
    <2>2. CASE \E v \in Users : FreeChannel(v)
        BY <2>2, ChannelInv
    <2> QED BY <1>1, <2>1, <2>2, SetFlagInv, InsertEntryInv, InsertFailsInv,
               FreeEntryInv DEF Finishes
<1>2. ASSUME NEW u \in Users, NEW c \in Chans, Calls(u, c) PROVE Inv'
    <2>1. CASE \E v \in Users, d \in Chans : OwnerReads(v, d)
        BY <2>1, FramesInv
    <2> QED BY <1>2, <2>1, StartAgainInv, StartNewInv, StopInv, HangUpInv
            DEF Calls
<1>3. ASSUME NEW c \in Chans, Outside(c) PROVE Inv'
    <2>1. CASE \E d \in Chans : Signal(d) \/ DeviceHangup(d) \/ SoftHangup(d)
        BY <2>1, FramesInv
    <2>2. CASE \E d \in Chans : NewChannel(d)
        BY <2>2, ChannelInv
    <2> QED BY <1>3, <2>1, <2>2 DEF Outside
<1>4. CASE Works \/ Wake
    BY <1>4, RebuildInv, WakeInvariant, WaitForInv, ReadInv, DeferInv DEF Works
<1>5. CASE UNCHANGED vars
    <2>1. UNCHANGED <<list, svc, chan, users>>
        BY <1>5 DEF vars
    <2>2. /\ UNCHANGED <<aslist, heap, asent, as_chan_list_state>>
          /\ UNCHANGED <<created, signalled, tpc, mons, todo, at, hand>>
          /\ UNCHANGED <<chan, user, depth>>
        BY <2>1 DEF list, svc, users
    <2>3. TypeOK'
        BY <2>2 DEF Inv, TypeOK
    <2>4. ListInv' /\ UserInv' /\ HangInv'
        BY <2>1, <2>2, ThreadFrame DEF Inv, TypeOK
    <2>5. HoldInv'
        BY <2>2, HoldFrame DEF Held, L
    <2>6. WakeInv'
        BY <2>2 DEF Inv, WakeInv, NotAsleepOnWork
    <2> QED BY <2>3, <2>4, <2>5, <2>6 DEF Inv
<1> QED BY <1>1, <1>2, <1>3, <1>4, <1>5, StopSeenInv DEF Next

LEMMA AlwaysInv == Spec => []Inv
<1>1. Init => Inv
    BY InitInv
<1>2. Inv /\ [Next]_vars => Inv'
    BY StepInv
<1> QED BY <1>1, <1>2, PTL DEF Spec

\* The state of the list, the thread, the channels and the calls of
\* autoservice is of the right type in every reachable state.
THEOREM TypeCorrect == Spec => []TypeOK
<1>1. Inv => TypeOK
    BY DEF Inv
<1> QED BY <1>1, AlwaysInv, PTL

\* Whatever threads start, stop and hang up, what the autoservice thread
\* reads without a lock has not been freed: ast_autoservice_stop frees an
\* entry only when the list has been rebuilt without it.
THEOREM NothingFreedInUse == Spec => []NoUseAfterFree
<1>1. Inv => NoUseAfterFree
    <2>1. ASSUME Inv, tpc \in Busy, NEW i \in DOMAIN mons
          PROVE  /\ mons[i].ent \in heap /\ asent[mons[i].ent].chan = mons[i].chan
                 /\ chan[mons[i].chan].alive
        BY <2>1, HeldAlive
    <2>2. ASSUME Inv, NEW e \in ToSet(aslist)
          PROVE  e \in heap /\ chan[asent[e].chan].alive
        BY <2>2 DEF Inv, ListInv, L
    <2> QED BY <2>1, <2>2 DEF NoUseAfterFree, Holds
<1> QED BY <1>1, AlwaysInv, PTL

\* The signal of ast_autoservice_start is not lost: the thread never sleeps
\* with a channel in its list and no signal on the way.
THEOREM NoLostWakeup == Spec => []NotAsleepOnWork
<1>1. Inv => NotAsleepOnWork
    BY DEF Inv, WakeInv
<1> QED BY <1>1, AlwaysInv, PTL

\* Once ast_hangup waits for the thread with a channel's lock held, and the
\* thread has that channel still to lock, no step of anyone ends it.
LEMMA DeadlockStep == ASSUME Inv, [Next]_vars, Deadlocked PROVE Deadlocked'
<1>1. PICK i \in todo :
         /\ tpc = "lock" /\ chan[mons[i].chan].lock # Nobody
         /\ user[chan[mons[i].chan].lock].pc = "wait"
         /\ ~Rebuilt(chan[mons[i].chan].lock)
    BY DEF Deadlocked
<1>2. mons[i].chan \in Chans /\ chan[mons[i].chan] \in Channel
    BY DEF Inv, TypeOK
<1> PICK c \in Chans : c = mons[i].chan
    BY <1>2
<1>3. chan[c].lock \in Users /\ chan[c].alive
    BY <1>1, <1>2 DEF Channel, Inv, HangInv
<1> PICK u \in Users : u = chan[c].lock
    BY <1>3
<1>4. u # Nobody /\ user[u].pc = "wait" /\ ~Rebuilt(u)
    BY <1>1
<1>5. created
    BY <1>1 DEF Inv, WakeInv
<1>6. /\ tpc' = "lock" /\ mons' = mons /\ i \in todo'
      /\ as_chan_list_state' = as_chan_list_state
    <2>1. CASE LockOne
        <3>1. PICK j \in todo :
                 /\ chan[mons[j].chan].lock = Nobody
                 /\ todo' = todo \ {j}
                 /\ tpc' = IF todo = {j} THEN "poll" ELSE "lock"
                 /\ UNCHANGED <<mons, as_chan_list_state>>
            BY <2>1 DEF LockOne, Locks, list
        <3>2. i # j
            BY <1>1, <3>1
        <3> QED BY <1>1, <3>1, <3>2
    <2>2. CASE Works /\ ~LockOne
        BY <1>1, <2>2
           DEF Works, Rebuild, PollNone, PollWins, ReadBusy, Read, Defer
    <2>3. CASE Wake
        BY <1>1, <2>3 DEF Wake
    <2>4. CASE \E v \in Users : Finishes(v) \/ StopSeen(v)
        BY <1>1, <1>5, <2>4
           DEF Finishes, StopSeen, SetFlag, InsertEntry, InsertFails, Flush,
               FreeEntry, FreeChannel, svc, list
    <2>5. CASE \E v \in Users, d \in Chans : Calls(v, d)
        BY <1>1, <2>5
           DEF Calls, StartAgain, StartNew, Stop, HangUp, OwnerReads, svc, list
    <2>6. CASE \E d \in Chans : Outside(d)
        BY <1>1, <2>6
           DEF Outside, NewChannel, Signal, DeviceHangup, SoftHangup, svc, list
    <2>7. CASE UNCHANGED vars
        BY <1>1, <2>7 DEF vars, svc, list
    <2> QED BY <2>1, <2>2, <2>3, <2>4, <2>5, <2>6, <2>7 DEF Next
<1>7. user'[u] = user[u]
    <2>1. ASSUME NEW v \in Users, v # u, NEW r, user' = [user EXCEPT ![v] = r]
          PROVE  user'[u] = user[u]
        BY <2>1 DEF Inv, TypeOK
    <2>2. CASE user' = user
        BY <2>2
    <2>3. ASSUME NEW v \in Users, Finishes(v) \/ StopSeen(v)
          PROVE  \/ user' = user
                 \/ v # u /\ \E r : user' = [user EXCEPT ![v] = r]
        <3>1. Rebuilt(v) => v # u
            BY <1>4
        <3>2. user[v].pc # "wait" => v # u
            BY <1>4
        <3>3. CASE SetFlag(v)
            BY <3>2, <3>3 DEF SetFlag
        <3>4. CASE InsertEntry(v) \/ InsertFails(v) \/ FreeChannel(v)
            BY <3>2, <3>4 DEF InsertEntry, InsertFails, FreeChannel
        <3>5. CASE FreeEntry(v)
            BY <3>2, <3>5 DEF FreeEntry
        <3>6. CASE StopSeen(v)
            BY <3>1, <3>6 DEF StopSeen
        <3>7. CASE Flush(v)
            <4>1. user' = user
                BY <3>7 DEF Flush, users
            <4> QED BY <4>1
        <3> QED BY <2>3, <3>3, <3>4, <3>5, <3>6, <3>7 DEF Finishes
    <2>4. ASSUME NEW v \in Users, NEW d \in Chans, Calls(v, d)
          PROVE  \/ user' = user
                 \/ v # u /\ \E r : user' = [user EXCEPT ![v] = r]
        <3>1. ASSUME NEW next, Release(v, d, next)
              PROVE  \E r : user' = [user EXCEPT ![v] = r]
            BY <3>1 DEF Release
        <3>2. CASE Stop(v, d) \/ HangUp(v, d)
            BY <1>4, <3>1, <3>2 DEF Stop, HangUp
        <3>3. CASE StartNew(v, d)
            BY <1>4, <3>3 DEF StartNew
        <3>4. CASE StartAgain(v, d) \/ OwnerReads(v, d)
            <4>1. user' = user
                BY <3>4 DEF StartAgain, OwnerReads, users
            <4> QED BY <4>1
        <3> QED BY <2>4, <3>2, <3>3, <3>4 DEF Calls
    <2>5. CASE Works \/ Wake \/ UNCHANGED vars \/ \E d \in Chans : Outside(d)
        <3>1. CASE Works \/ Wake \/ UNCHANGED vars
            BY <3>1 DEF Works, Rebuild, LockOne, PollNone, PollWins, ReadBusy,
                        Read, Defer, Wake, vars, users
        <3>2. CASE \E d \in Chans : Outside(d)
            BY <3>2 DEF Outside, NewChannel, Signal, DeviceHangup, SoftHangup,
                        users
        <3> QED BY <2>5, <3>1, <3>2
    <2> QED BY <2>1, <2>2, <2>3, <2>4, <2>5 DEF Next
<1>8. chan'[c].lock = u
    <2>0. chan \in [Chans -> Channel]
        BY DEF Inv, TypeOK
    <2>1. ASSUME NEW d \in Chans, d # c, NEW r, chan' = [chan EXCEPT ![d] = r]
          PROVE  chan'[c] = chan[c]
        BY <2>0, <2>1
    <2>2. CASE chan' = chan
        BY <2>2
    <2>3. ASSUME NEW v \in Users, Finishes(v) \/ StopSeen(v)
          PROVE  chan'[c].lock = u
        <3>1. CASE SetFlag(v) \/ InsertFails(v)
            <4>1. user[v].on \in Chans
                BY <3>1, UserFacts DEF SetFlag, InsertFails
            <4> PICK d \in Chans : d = user[v].on
                BY <4>1
            <4>2. \/ chan' = [chan EXCEPT ![d].end_dtmf = TRUE]
                  \/ chan' = [chan EXCEPT ![d].spoilt = TRUE]
                BY <3>1 DEF SetFlag, InsertFails
            <4>3. CASE chan' = [chan EXCEPT ![d].end_dtmf = TRUE]
                BY <2>0, <4>3 DEF Channel
            <4>4. CASE chan' = [chan EXCEPT ![d].spoilt = TRUE]
                BY <2>0, <4>4 DEF Channel
            <4> QED BY <4>2, <4>3, <4>4
        <3>2. CASE StopSeen(v)
            <4>1. user[v].on \in Chans
                BY <3>2, UserFacts DEF StopSeen
            <4> PICK d \in Chans : d = user[v].on
                BY <4>1
            <4>2. PICK t, f : chan' = [chan EXCEPT ![d] =
                                [chan[d] EXCEPT !.told = t, !.end_dtmf = f]]
                BY <3>2 DEF StopSeen
            <4> QED BY <2>0, <4>2 DEF Channel
        <3>3. CASE Flush(v)
            <4>1. user[v].on \in Chans
                BY <3>3, UserFacts DEF Flush
            <4> QED BY <2>0, <3>3, <4>1 DEF Flush, Queued, Channel
        <3>4. CASE FreeChannel(v)
            <4>1. user[v].on \in Chans /\ chan[user[v].on].lock = v /\ v # u
                BY <1>4, <3>4, UserFacts DEF FreeChannel
            <4>2. user[v].on # c
                BY <4>1
            <4> QED BY <2>1, <3>4, <4>1, <4>2 DEF FreeChannel
        <3>5. CASE InsertEntry(v) \/ FreeEntry(v)
            BY <3>5 DEF InsertEntry, FreeEntry
        <3> QED BY <2>3, <3>1, <3>2, <3>3, <3>4, <3>5 DEF Finishes
    <2>4. ASSUME NEW v \in Users, NEW d \in Chans, Calls(v, d)
          PROVE  chan'[c].lock = u
        <3>1. CASE HangUp(v, d) \/ OwnerReads(v, d)
            <4>1. d # c
                BY <1>4, <3>1 DEF HangUp, OwnerReads, Usable
            <4>2. \E r : chan' = [chan EXCEPT ![d] = r]
                BY <3>1 DEF HangUp, OwnerReads
            <4> QED BY <2>1, <4>1, <4>2
        <3>2. CASE StartAgain(v, d) \/ StartNew(v, d) \/ Stop(v, d)
            BY <3>2 DEF StartAgain, StartNew, Stop
        <3> QED BY <2>4, <3>1, <3>2 DEF Calls
    <2>5. ASSUME NEW d \in Chans, Outside(d) PROVE chan'[c].lock = u
        <3>1. d # c
            BY <1>3, <1>4, <2>5
               DEF Outside, NewChannel, Signal, DeviceHangup, SoftHangup, Usable
        <3>2. \E r : chan' = [chan EXCEPT ![d] = r]
            BY <2>5 DEF Outside, NewChannel, Signal, DeviceHangup, SoftHangup
        <3> QED BY <2>1, <3>1, <3>2
    <2>6. CASE Works \/ Wake \/ UNCHANGED vars
        BY <1>1, <2>6 DEF Works, Rebuild, LockOne, PollNone, PollWins, ReadBusy,
                          Read, Defer, Wake, vars
    <2> QED BY <2>3, <2>4, <2>5, <2>6 DEF Next
<1>9. ~Rebuilt(u)'
    BY <1>4, <1>6, <1>7 DEF Rebuilt
<1> QED BY <1>4, <1>6, <1>7, <1>8, <1>9 DEF Deadlocked

\* ast_hangup stops autoservice with the channel's lock held.  When the
\* thread has that channel still to lock, neither goes on for ever: whatever
\* the other threads, the drivers and the owners do, the deadlock stays.
THEOREM DeadlockStays == Spec => DeadlockLasts
<1>1. Inv /\ [Next]_vars => (Deadlocked => Deadlocked')
    BY DeadlockStep
<1> QED BY <1>1, AlwaysInv, PTL DEF Spec, DeadlockLasts
=============================================================================
