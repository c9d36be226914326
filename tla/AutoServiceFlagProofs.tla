------------------------ MODULE AutoServiceFlagProofs ------------------------
(***************************************************************************)
(* More proofs about AutoService: no entry is leaked, and the flag         *)
(* AST_FLAG_END_DTMF_ONLY of a channel is kept and given back.             *)
(*                                                                         *)
(* Several entries of one channel can exist at once, as a start and a stop *)
(* each release the list's lock half way.  What makes the flag come out    *)
(* right is that at most one of them found it clear: the flag is set       *)
(* exactly while that one is about.                                        *)
(***************************************************************************)
EXTENDS AutoServiceProofs

\* Entry e belongs to a call of start or stop.
Owned(e) == \E u \in Users : user[u].pc \in Own /\ user[u].ent = e

EntryInv == \A e \in heap : e \in L \/ Owned(e)

\* Entry e has set the flag and has not given it back yet.
Live(e) ==
    \/ e \in L
    \/ \E u \in Users : user[u].pc \in {"insert", "wait"} /\ user[u].ent = e

\* The live entries of channel c that found its flag clear.
Setters(c) ==
    {e \in Entries : /\ Live(e) /\ asent[e].chan = c
                     /\ ~asent[e].orig_end_dtmf_flag}

SetOnce(c) ==
    /\ \A e, f \in Setters(c) : e = f
    /\ Setters(c) # {} => chan[c].end_dtmf
    /\ chan[c].end_dtmf => chan[c].spoilt \/ Setters(c) # {}

FlagInv == \A c \in Chans : SetOnce(c)

-----------------------------------------------------------------------------
(* Steps that leave the list, the entries' places and the flags alone *)

Quiet ==
    /\ UNCHANGED <<aslist, heap, user>>
    /\ \A e \in Entries :
          /\ asent'[e].chan = asent[e].chan
          /\ asent'[e].orig_end_dtmf_flag = asent[e].orig_end_dtmf_flag
    /\ \A c \in Chans : /\ chan'[c].end_dtmf = chan[c].end_dtmf
                        /\ chan'[c].spoilt = chan[c].spoilt

LEMMA QuietSteps ==
    ASSUME Inv,
           \/ Works \/ Wake
           \/ \E u \in Users : Flush(u)
           \/ \E u \in Users, c \in Chans : StartAgain(u, c) \/ OwnerReads(u, c)
           \/ \E c \in Chans : Signal(c) \/ DeviceHangup(c) \/ SoftHangup(c)
           \/ UNCHANGED vars
    PROVE  Quiet
<1>0. chan \in [Chans -> Channel] /\ asent \in [Entries -> Asent]
    BY DEF Inv, TypeOK
<1>1. ASSUME UNCHANGED <<aslist, heap, user, chan>>,
             NEW e \in Entries, NEW r, asent' = [asent EXCEPT ![e] = r],
             r.chan = asent[e].chan,
             r.orig_end_dtmf_flag = asent[e].orig_end_dtmf_flag
      PROVE  Quiet
    BY <1>0, <1>1 DEF Quiet
<1>2. ASSUME UNCHANGED <<aslist, heap, user, asent>>,
             NEW c \in Chans, NEW r,
             chan' = [chan EXCEPT ![c] = r],
             r.end_dtmf = chan[c].end_dtmf, r.spoilt = chan[c].spoilt
      PROVE  Quiet
    BY <1>0, <1>2 DEF Quiet
<1>3. CASE Rebuild \/ Wake \/ LockOne \/ PollNone \/ PollWins \/ ReadBusy
           \/ UNCHANGED vars
    <2>1. UNCHANGED <<aslist, heap, user, chan, asent>>
        BY <1>3 DEF Rebuild, Wake, LockOne, PollNone, PollWins, ReadBusy,
                    vars, list, users
    <2> QED BY <2>1 DEF Quiet
<1>4. CASE Read
    <2> DEFINE c == mons[at].chan
    <2>1. /\ chan' = [chan EXCEPT ![c] = ReadFrom(chan[c])]
          /\ UNCHANGED <<aslist, heap, user, asent>>
        BY <1>4 DEF Read, Inv, TypeOK, list, users
    <2>2. c \in Chans
        BY <1>4 DEF Read, Inv, TypeOK
    <2> HIDE DEF c
    <2>3. /\ ReadFrom(chan[c]).end_dtmf = chan[c].end_dtmf
          /\ ReadFrom(chan[c]).spoilt = chan[c].spoilt
        BY <1>0, <2>1, <2>2 DEF ReadFrom, Channel
    <2> QED BY <1>2, <2>1, <2>2, <2>3
<1>5. CASE Defer
    <2>1. PICK e \in Entries :
            /\ asent' = [asent EXCEPT ![e] = [asent[e] EXCEPT !.deferred_frames =
                                          Append(asent[e].deferred_frames, hand)]]
            /\ UNCHANGED <<aslist, heap, user, chan>>
        BY <1>5 DEF Defer, users, Inv, TypeOK
    <2> DEFINE r == [asent[e] EXCEPT !.deferred_frames =
                         Append(asent[e].deferred_frames, hand)]
    <2>2. /\ r.chan = asent[e].chan
          /\ r.orig_end_dtmf_flag = asent[e].orig_end_dtmf_flag
        BY <1>0 DEF Asent
    <2>3. asent' = [asent EXCEPT ![e] = r]
        BY <2>1
    <2> HIDE DEF r
    <2> QED BY <1>1, <2>1, <2>2, <2>3
<1>6. ASSUME NEW u \in Users, Flush(u) PROVE Quiet
    <2> DEFINE c == user[u].on
               e == user[u].ent
               x == [chan[c] EXCEPT !.readq =
                         Queue(chan[c].readq, Head(asent[e].deferred_frames))]
               y == [asent[e] EXCEPT !.deferred_frames =
                         Tail(asent[e].deferred_frames)]
    <2>1. c \in Chans /\ e \in Entries
        BY <1>6, UserFacts DEF Flush
    <2>2. /\ chan' = [chan EXCEPT ![c] = x]
          /\ asent' = [asent EXCEPT ![e] = y]
          /\ UNCHANGED <<aslist, heap, user>>
        BY <1>6 DEF Flush, users, Queued
    <2> HIDE DEF c, e
    <2>3. /\ y.chan = asent[e].chan
          /\ y.orig_end_dtmf_flag = asent[e].orig_end_dtmf_flag
        BY <1>0, <2>1 DEF Asent
    <2>4. x.end_dtmf = chan[c].end_dtmf /\ x.spoilt = chan[c].spoilt
        BY <1>0, <2>1 DEF Channel
    <2> HIDE DEF x, y
    <2> QED BY <1>0, <2>1, <2>2, <2>3, <2>4 DEF Quiet
<1>7. ASSUME NEW u \in Users, NEW c \in Chans, StartAgain(u, c) PROVE Quiet
    <2>1. PICK i \in DOMAIN aslist :
            asent' = [asent EXCEPT ![aslist[i]].use_count = @ + 1]
        BY <1>7 DEF StartAgain
    <2> DEFINE e == aslist[i]
               r == [asent[e] EXCEPT !.use_count = asent[e].use_count + 1]
    <2>2. /\ r.chan = asent[e].chan
          /\ r.orig_end_dtmf_flag = asent[e].orig_end_dtmf_flag
        BY <1>0, <2>1 DEF Asent, Inv, TypeOK
    <2>3. UNCHANGED <<aslist, heap, user, chan>> /\ e \in Entries
        BY <1>7 DEF StartAgain, Inv, TypeOK
    <2>4. asent' = [asent EXCEPT ![e] = r]
        BY <2>1
    <2> HIDE DEF e, r
    <2> QED BY <1>1, <2>2, <2>3, <2>4
<1>8. ASSUME NEW u \in Users, NEW c \in Chans, OwnerReads(u, c) PROVE Quiet
    <2> DEFINE rd == ReadFrom(chan[c])
               t == chan[c].told \/ FrameOf(chan[c]) = Hangup
               g == chan[c].got \cup ({FrameOf(chan[c])} \cap Signals)
               r == [rd EXCEPT !.told = t, !.got = g]
    <2>1. /\ chan' = [chan EXCEPT ![c] = r]
          /\ UNCHANGED <<aslist, heap, user, asent>>
          /\ chan[c].soft \/ chan[c].readq # <<>>
        BY <1>8 DEF OwnerReads, list, users
    <2>2. /\ rd \in Channel
          /\ rd.end_dtmf = chan[c].end_dtmf /\ rd.spoilt = chan[c].spoilt
        BY <1>0, <2>1, ReadFromType
    <2> HIDE DEF rd, t, g
    <2>3. r.end_dtmf = rd.end_dtmf /\ r.spoilt = rd.spoilt
        BY <2>2 DEF Channel
    <2> HIDE DEF r
    <2> QED BY <1>2, <2>1, <2>2, <2>3
<1>9. ASSUME NEW c \in Chans, Signal(c) \/ DeviceHangup(c) \/ SoftHangup(c)
      PROVE  Quiet
    <2>1. UNCHANGED <<aslist, heap, user, asent>>
        BY <1>9 DEF Signal, DeviceHangup, SoftHangup, list, users
    <2>2. PICK f : chan' = [chan EXCEPT ![c] = chan'[c]] /\
            \/ chan'[c] = [Queued(chan[c], f) EXCEPT !.came = chan[c].came + 1]
            \/ \E s \in BOOLEAN : chan'[c] = [Queued(chan[c], f) EXCEPT !.soft = s]
        BY <1>0, <1>9, ZenonT(30) DEF Signal, DeviceHangup, SoftHangup
    <2>3. chan'[c].end_dtmf = chan[c].end_dtmf /\ chan'[c].spoilt = chan[c].spoilt
        BY <1>0, <2>2 DEF Queued, Channel
    <2> QED BY <1>2, <2>1, <2>2, <2>3
<1> QED BY <1>3, <1>4, <1>5, <1>6, <1>7, <1>8, <1>9 DEF Works

\* Live entries that stay live, with the same contents, on channels whose
\* flags stay as they are.
LEMMA FlagFrame ==
    ASSUME FlagInv,
           \A e \in Entries :
              /\ Live(e)' <=> Live(e)
              /\ Live(e) =>
                    /\ asent'[e].chan = asent[e].chan
                    /\ asent'[e].orig_end_dtmf_flag = asent[e].orig_end_dtmf_flag,
           \A c \in Chans : /\ chan'[c].end_dtmf = chan[c].end_dtmf
                            /\ chan'[c].spoilt = chan[c].spoilt
    PROVE  FlagInv'
<1>1. \A c \in Chans : Setters(c)' = Setters(c)
    BY DEF Setters
<1> QED BY <1>1 DEF FlagInv, SetOnce

LEMMA QuietInv ==
    ASSUME EntryInv, FlagInv, Quiet
    PROVE  EntryInv' /\ FlagInv'
<1>1. L' = L /\ \A e \in Entries : Live(e)' <=> Live(e)
    BY DEF Quiet, L, Live
<1>2. \A e : Owned(e)' <=> Owned(e)
    BY DEF Quiet, Owned
<1>3. EntryInv'
    BY <1>1, <1>2 DEF Quiet, EntryInv
<1>4. FlagInv'
    BY <1>1, FlagFrame DEF Quiet
<1> QED BY <1>3, <1>4

-----------------------------------------------------------------------------
(* The users' steps *)

\* A user's step between two places where it has no live entry, and no entry
\* of its own unless it had it before.
LEMMA PlainStep ==
    ASSUME Inv, EntryInv, NEW u \in Users,
           user[u].pc \notin {"insert", "wait"},
           NEW r, user' = [user EXCEPT ![u] = r],
           r.pc \notin {"insert", "wait"},
           user[u].pc = "flush" => user[u].ent \notin heap',
           aslist' = aslist, heap' \subseteq heap
    PROVE  /\ EntryInv' /\ L' = L
           /\ \A e \in Entries : Live(e)' <=> Live(e)
<1>1. /\ user'[u] = r /\ \A v \in Users : v # u => user'[v] = user[v]
      /\ L' = L
    BY DEF Inv, TypeOK, L
<1>2. \A e \in Entries : Live(e)' <=> Live(e)
    BY <1>1 DEF Live
<1>3. ASSUME NEW e \in heap', Owned(e) PROVE Owned(e)'
    BY <1>1, <1>3 DEF Owned, Own
<1> QED BY <1>1, <1>2, <1>3 DEF EntryInv

LEMMA StartNewFlag ==
    ASSUME Inv, EntryInv, FlagInv, NEW u \in Users, NEW c \in Chans,
           StartNew(u, c)
    PROVE  EntryInv' /\ FlagInv'
<1>1. /\ user[u].pc = "idle" /\ UNCHANGED <<aslist, heap, asent, chan>>
      /\ user' = [user EXCEPT ![u] = [Idle EXCEPT !.pc = "flag", !.on = c]]
    BY DEF StartNew, list
<1>2. [Idle EXCEPT !.pc = "flag", !.on = c].pc = "flag"
    BY DEF Idle
<1>3. EntryInv' /\ \A e \in Entries : Live(e)' <=> Live(e)
    BY <1>1, <1>2, PlainStep
<1> QED BY <1>1, <1>3, FlagFrame

\* The entry that sets the flag is the only one that found it clear.
LEMMA SetFlagFlag ==
    ASSUME Inv, EntryInv, FlagInv, NEW u \in Users, SetFlag(u)
    PROVE  EntryInv' /\ FlagInv'
<1>0. user[u].on \in Chans /\ user[u] \in User
    BY UserFacts DEF SetFlag
<1> PICK c \in Chans : c = user[u].on
    BY <1>0
<1>1. PICK e \in Entries \ heap :
        /\ user[u].pc = "flag"
        /\ heap' = heap \cup {e} /\ aslist' = aslist
        /\ asent' = [asent EXCEPT ![e] =
                    [chan |-> c, use_count |-> 1,
                     orig_end_dtmf_flag |-> chan[c].end_dtmf,
                     deferred_frames |-> <<>>]]
        /\ chan' = [chan EXCEPT ![c] = [chan[c] EXCEPT !.end_dtmf = TRUE]]
        /\ user' = [user EXCEPT ![u] =
                       [user[u] EXCEPT !.pc = "insert", !.ent = e]]
    BY DEF SetFlag
<1>2. c \in Chans /\ user[u] \in User
    BY <1>0
<1>3. /\ user'[u].pc = "insert" /\ user'[u].ent = e
      /\ \A v \in Users : v # u => user'[v] = user[v]
      /\ L' = L /\ L \subseteq heap
    BY <1>1, <1>2 DEF Inv, TypeOK, User, L, ListInv
<1>4. EntryInv'
    <2>1. ASSUME NEW f \in heap, Owned(f) PROVE Owned(f)'
        BY <1>1, <1>3, <2>1 DEF Owned, Own
    <2>2. Owned(e)'
        BY <1>3 DEF Owned, Own
    <2> QED BY <1>1, <1>3, <2>1, <2>2 DEF EntryInv
<1>5. /\ asent'[e].chan = c /\ asent'[e].orig_end_dtmf_flag = chan[c].end_dtmf
      /\ \A f \in Entries : f # e => asent'[f] = asent[f]
    BY <1>1 DEF Inv, TypeOK
<1>6. /\ chan'[c].end_dtmf = TRUE /\ chan'[c].spoilt = chan[c].spoilt
      /\ \A d \in Chans : d # c => chan'[d] = chan[d]
    BY <1>1, <1>2 DEF Inv, TypeOK, Channel
<1>7. \A f \in Entries : Live(f)' <=> Live(f) \/ f = e
    BY <1>1, <1>3 DEF Live
<1>8. ~Live(e)
    <2>1. \A v \in Users : user[v].pc \in {"insert", "wait"}
                           => user[v].ent \in heap
        BY UserFacts
    <2> QED BY <1>1, <1>3, <2>1 DEF Live
<1>9. \A d \in Chans : d # c => Setters(d)' = Setters(d)
    BY <1>5, <1>7, <1>8 DEF Setters
<1>10. CASE chan[c].end_dtmf
    <2>1. \A f : f \in Setters(c)' <=> f \in Setters(c)
        BY <1>5, <1>7, <1>8, <1>10 DEF Setters
    <2>2. Setters(c)' = Setters(c)
        BY <2>1
    <2> QED BY <1>2, <1>4, <1>6, <1>9, <1>10, <2>2 DEF FlagInv, SetOnce
<1>11. CASE ~chan[c].end_dtmf
    <2>1. Setters(c) = {}
        BY <1>2, <1>11 DEF FlagInv, SetOnce
    <2>2. \A f : f \in Setters(c)' <=> f \in Setters(c) \/ f = e
        BY <1>1, <1>5, <1>7, <1>8, <1>11 DEF Setters
    <2>3. Setters(c)' = {e}
        BY <2>1, <2>2
    <2> QED BY <1>2, <1>4, <1>6, <1>9, <2>3 DEF FlagInv, SetOnce
<1> QED BY <1>10, <1>11

LEMMA InsertEntryFlag ==
    ASSUME Inv, EntryInv, FlagInv, NEW u \in Users, InsertEntry(u)
    PROVE  EntryInv' /\ FlagInv'
<1> DEFINE e == user[u].ent
<1>1. /\ user[u].pc = "insert" /\ aslist' = <<e>> \o aslist
      /\ user' = [user EXCEPT ![u] = Idle]
      /\ UNCHANGED <<heap, asent, chan>>
    BY DEF InsertEntry
<1>2. e \in Entries
    BY <1>1, UserFacts
<1> HIDE DEF e
<1>3. L' = {e} \cup L
    BY <1>1, <1>2, InsertProps DEF L, Inv, TypeOK
<1>4. /\ user'[u].pc = "idle"
      /\ \A v \in Users : v # u => user'[v] = user[v]
    BY <1>1 DEF Inv, TypeOK, Idle
<1>5. \A f \in Entries : Live(f)' <=> Live(f)
    BY <1>1, <1>3, <1>4 DEF Live, e
<1>6. EntryInv'
    <2>1. ASSUME NEW f \in heap, Owned(f) PROVE Owned(f)' \/ f = e
        BY <1>4, <2>1 DEF Owned, e
    <2> QED BY <1>1, <1>3, <2>1 DEF EntryInv
<1> QED BY <1>1, <1>5, <1>6, FlagFrame

\* The entry goes, and the flag that it set stays behind.
LEMMA InsertFailsFlag ==
    ASSUME Inv, EntryInv, FlagInv, NEW u \in Users, InsertFails(u)
    PROVE  EntryInv' /\ FlagInv'
<1> DEFINE c == user[u].on
           e == user[u].ent
<1>1. /\ user[u].pc = "insert" /\ heap' = heap \ {e} /\ aslist' = aslist
      /\ asent' = [asent EXCEPT ![e] = Freed]
      /\ chan' = [chan EXCEPT ![c] = [chan[c] EXCEPT !.spoilt = TRUE]]
      /\ user' = [user EXCEPT ![u] = Idle]
    BY DEF InsertFails
<1>2. c \in Chans /\ e \in Entries /\ e \notin L
      /\ \A v \in Users \ {u} : user[v].ent # e
    BY <1>1, UserFacts, OwnEntry DEF Own
<1>3. /\ user'[u].pc = "idle" /\ L' = L
      /\ \A v \in Users : v # u => user'[v] = user[v]
    BY <1>1 DEF Inv, TypeOK, Idle, L
<1>4. EntryInv'
    <2>1. ASSUME NEW f \in heap, Owned(f) PROVE Owned(f)' \/ f = e
        BY <1>3, <2>1 DEF Owned
    <2> QED BY <1>1, <1>3, <2>1 DEF EntryInv
<1>5. \A f \in Entries : Live(f)' <=> Live(f) /\ f # e
    BY <1>1, <1>2, <1>3 DEF Live
<1> HIDE DEF c, e
<1>6. /\ chan'[c].end_dtmf = chan[c].end_dtmf /\ chan'[c].spoilt = TRUE
      /\ \A d \in Chans : /\ d # c => chan'[d].spoilt = chan[d].spoilt
                           /\ chan'[d].end_dtmf = chan[d].end_dtmf
    BY <1>1, <1>2 DEF Inv, TypeOK, Channel
<1>7. \A f \in Entries : f # e => asent'[f] = asent[f]
    BY <1>1 DEF Inv, TypeOK
<1>8. asent[e].chan = c
    BY <1>1, UserFacts DEF c, e
<1>9. \A d \in Chans : /\ Setters(d)' \subseteq Setters(d)
                       /\ d # c => Setters(d)' = Setters(d)
    BY <1>5, <1>7, <1>8 DEF Setters
<1> QED BY <1>4, <1>6, <1>9 DEF FlagInv, SetOnce

\* A stop gives the flag back: only the entry that set it clears it.
LEMMA StopSeenFlag ==
    ASSUME Inv, EntryInv, FlagInv, NEW u \in Users, StopSeen(u)
    PROVE  EntryInv' /\ FlagInv'
<1>0. user[u].on \in Chans /\ user[u].ent \in Entries
    BY UserFacts DEF StopSeen
<1> PICK c \in Chans, e \in Entries : c = user[u].on /\ e = user[u].ent
    BY <1>0
<1> DEFINE r == [chan[c] EXCEPT
                         !.told = chan[c].told \/ chan[c].soft,
                         !.end_dtmf = Restored(chan[c].end_dtmf, e)]
<1>1. /\ user[u].pc = "wait" /\ UNCHANGED <<aslist, heap, asent>>
      /\ chan' = [chan EXCEPT ![c] = r]
      /\ user' = [user EXCEPT ![u] =
                     [user[u] EXCEPT !.pc = "flush", !.saved = 0]]
    BY DEF StopSeen, list
<1>2. c \in Chans /\ e \in Entries /\ e \notin L /\ asent[e].chan = c
      /\ user[u] \in User /\ \A v \in Users \ {u} : user[v].ent # e
    BY <1>1, UserFacts, OwnEntry DEF Own
<1>3. /\ user'[u].pc = "flush" /\ user'[u].ent = e /\ L' = L
      /\ \A v \in Users : v # u => user'[v] = user[v]
    BY <1>1, <1>2 DEF Inv, TypeOK, User, L
<1>4. EntryInv'
    <2>1. ASSUME NEW f \in heap, Owned(f) PROVE Owned(f)'
        BY <1>3, <2>1 DEF Owned, Own
    <2> QED BY <1>1, <1>3, <2>1 DEF EntryInv
<1>5. \A f \in Entries : Live(f)' <=> Live(f) /\ f # e
    BY <1>1, <1>2, <1>3 DEF Live
<1>6. Live(e)
    BY <1>1 DEF Live
<1> HIDE DEF r
<1>7. /\ chan'[c].end_dtmf =
            (chan[c].end_dtmf /\ asent[e].orig_end_dtmf_flag)
      /\ chan'[c].spoilt = chan[c].spoilt
      /\ \A d \in Chans : d # c => chan'[d] = chan[d]
    <2>1. /\ r.end_dtmf = Restored(chan[c].end_dtmf, e)
          /\ r.spoilt = chan[c].spoilt
        BY <1>2 DEF r, Inv, TypeOK, Channel
    <2> QED BY <1>1, <1>2, <2>1 DEF Inv, TypeOK, Restored
<1>8. asent' = asent /\ asent[e] \in Asent
    BY <1>1, <1>2 DEF Inv, TypeOK
<1>9. \A d \in Chans : d # c => Setters(d)' = Setters(d)
    BY <1>2, <1>5, <1>8 DEF Setters
<1>10. \A f : f \in Setters(c)' <=> f \in Setters(c) /\ f # e
    BY <1>5, <1>8 DEF Setters
<1>11. \A d \in Chans : d # c => SetOnce(d)'
    BY <1>7, <1>9 DEF FlagInv, SetOnce
<1>12. CASE asent[e].orig_end_dtmf_flag
    <2>1. e \notin Setters(c)
        BY <1>12 DEF Setters
    <2>2. Setters(c)' = Setters(c)
        BY <1>10, <2>1
    <2>3. chan'[c].end_dtmf <=> chan[c].end_dtmf
        BY <1>7, <1>12, Zenon
    <2>4. SetOnce(c)'
        BY <1>7, <2>2, <2>3, Zenon DEF FlagInv, SetOnce
    <2> QED BY <1>4, <1>11, <2>4 DEF FlagInv
<1>13. CASE ~asent[e].orig_end_dtmf_flag
    <2>1. e \in Setters(c)
        BY <1>2, <1>6, <1>13 DEF Setters
    <2>2. Setters(c)' = {}
        BY <1>10, <2>1 DEF FlagInv, SetOnce
    <2>3. ~chan'[c].end_dtmf
        BY <1>7, <1>13, Zenon
    <2>4. SetOnce(c)'
        BY <2>2, <2>3, Zenon DEF SetOnce
    <2> QED BY <1>4, <1>11, <2>4 DEF FlagInv
<1> QED BY <1>12, <1>13

LEMMA FreeEntryFlag ==
    ASSUME Inv, EntryInv, FlagInv, NEW u \in Users, FreeEntry(u)
    PROVE  EntryInv' /\ FlagInv'
<1> DEFINE e == user[u].ent
           r == IF HangsUp(u)
                THEN [Idle EXCEPT !.pc = "free", !.on = user[u].on]
                ELSE Idle
<1>1. /\ user[u].pc = "flush" /\ heap' = heap \ {e}
      /\ asent' = [asent EXCEPT ![e] = Freed]
      /\ user' = [user EXCEPT ![u] = r]
      /\ UNCHANGED <<aslist, chan>>
    BY DEF FreeEntry
<1>2. e \in Entries /\ e \notin L /\ \A v \in Users \ {u} : user[v].ent # e
    BY <1>1, UserFacts, OwnEntry DEF Own
<1>3. r.pc \notin {"insert", "wait"}
    BY DEF Idle
<1> HIDE DEF e, r
<1>4. EntryInv' /\ \A f \in Entries : Live(f)' <=> Live(f)
    BY <1>1, <1>3, PlainStep DEF e
<1>5. ~Live(e)
    BY <1>1, <1>2 DEF Live
<1>6. \A f \in Entries : f # e => asent'[f] = asent[f]
    BY <1>1 DEF Inv, TypeOK
<1> QED BY <1>1, <1>4, <1>5, <1>6, FlagFrame

-----------------------------------------------------------------------------
(* A stop takes an entry from the list, or none *)

LEMMA ReleaseMoves ==
    ASSUME Inv, NEW u \in Users, NEW c \in Chans, NEW next,
           Release(u, c, next)
    PROVE  /\ \A e \in Entries :
                 /\ asent'[e].chan = asent[e].chan
                 /\ asent'[e].orig_end_dtmf_flag = asent[e].orig_end_dtmf_flag
                 /\ asent'[e].deferred_frames = asent[e].deferred_frames
           /\ \/ L' = L /\ user' = [user EXCEPT ![u] = next]
              \/ \E e \in L :
                    /\ L' = L \ {e} /\ asent[e].chan = c
                    /\ user' = [user EXCEPT ![u] =
                                   [pc |-> "wait", on |-> c, ent |-> e,
                                    saved |-> as_chan_list_state]]
<1>1. /\ aslist \in Seq(Entries) /\ asent \in [Entries -> Asent]
      /\ \A i \in DOMAIN aslist : aslist[i] \in L /\ aslist[i] \in Entries
      /\ \A i, j \in DOMAIN aslist : aslist[i] = aslist[j] => i = j
    BY DEF Inv, TypeOK, ListInv, L, ToSet
<1>2. CASE UNCHANGED <<aslist, asent>> /\ user' = [user EXCEPT ![u] = next]
    BY <1>2 DEF L
<1>3. ASSUME NEW i \in DOMAIN aslist, Finds(i, c),
             asent' = [asent EXCEPT ![aslist[i]].use_count = @ - 1],
             IF LastUse(aslist[i])
             THEN /\ aslist' = RemoveAt(aslist, i)
                  /\ user' = [user EXCEPT ![u] =
                                 [pc |-> "wait", on |-> c, ent |-> aslist[i],
                                  saved |-> as_chan_list_state]]
             ELSE user' = [user EXCEPT ![u] = next] /\ UNCHANGED aslist
      PROVE  /\ \A e \in Entries :
                   /\ asent'[e].chan = asent[e].chan
                   /\ asent'[e].orig_end_dtmf_flag = asent[e].orig_end_dtmf_flag
                   /\ asent'[e].deferred_frames = asent[e].deferred_frames
             /\ \/ L' = L /\ user' = [user EXCEPT ![u] = next]
                \/ \E e \in L :
                      /\ L' = L \ {e} /\ asent[e].chan = c
                      /\ user' = [user EXCEPT ![u] =
                                     [pc |-> "wait", on |-> c, ent |-> e,
                                      saved |-> as_chan_list_state]]
    <2> PICK e \in L : e \in Entries /\ e = aslist[i]
        BY <1>1
    <2> DEFINE r == [asent[e] EXCEPT !.use_count = asent[e].use_count - 1]
    <2>1. asent' = [asent EXCEPT ![e] = r]
        BY <1>3
    <2>2. /\ r.chan = asent[e].chan /\ r.deferred_frames = asent[e].deferred_frames
          /\ r.orig_end_dtmf_flag = asent[e].orig_end_dtmf_flag
        BY <1>1 DEF Asent
    <2> HIDE DEF r
    <2>3. \A f \in Entries :
              /\ asent'[f].chan = asent[f].chan
              /\ asent'[f].orig_end_dtmf_flag = asent[f].orig_end_dtmf_flag
              /\ asent'[f].deferred_frames = asent[f].deferred_frames
        BY <1>1, <2>1, <2>2
    <2>4. ASSUME aslist' = RemoveAt(aslist, i) PROVE L' = L \ {e}
        BY <1>1, <2>4, RemoveProps DEF L
    <2>5. ASSUME aslist' = aslist PROVE L' = L
        BY <2>5 DEF L
    <2>6. asent[e].chan = c
        BY <1>3 DEF Finds
    <2> QED BY <1>3, <2>3, <2>4, <2>5, <2>6
<1> QED BY <1>2, <1>3 DEF Release

LEMMA ReleaseFlag ==
    ASSUME Inv, EntryInv, FlagInv, NEW u \in Users, NEW c \in Chans,
           user[u].pc = "idle", NEW next, next.pc \notin {"insert", "wait"},
           Release(u, c, next), heap' = heap,
           \A d \in Chans : /\ chan'[d].end_dtmf = chan[d].end_dtmf
                            /\ chan'[d].spoilt = chan[d].spoilt
    PROVE  EntryInv' /\ FlagInv'
<1>0. \A e \in Entries :
          /\ asent'[e].chan = asent[e].chan
          /\ asent'[e].orig_end_dtmf_flag = asent[e].orig_end_dtmf_flag
    BY ReleaseMoves
<1>1. CASE L' = L /\ user' = [user EXCEPT ![u] = next]
    <2>1. /\ user'[u] = next
          /\ \A v \in Users : v # u => user'[v] = user[v]
        BY <1>1 DEF Inv, TypeOK
    <2>2. \A e \in Entries : Live(e)' <=> Live(e)
        BY <1>1, <2>1 DEF Live
    <2>3. ASSUME NEW e, Owned(e) PROVE Owned(e)'
        BY <2>1, <2>3 DEF Owned, Own
    <2>4. EntryInv'
        BY <1>1, <2>3 DEF EntryInv
    <2> QED BY <1>0, <2>2, <2>4, FlagFrame
<1>2. ASSUME NEW e \in L, L' = L \ {e},
             user' = [user EXCEPT ![u] =
                        [pc |-> "wait", on |-> c, ent |-> e,
                         saved |-> as_chan_list_state]]
      PROVE  EntryInv' /\ FlagInv'
    <2>1. /\ user'[u].pc = "wait" /\ user'[u].ent = e
          /\ \A v \in Users : v # u => user'[v] = user[v]
        BY <1>2 DEF Inv, TypeOK
    <2>2. \A f \in Entries : Live(f)' <=> Live(f)
        BY <1>2, <2>1 DEF Live
    <2>3. ASSUME NEW f, Owned(f) PROVE Owned(f)'
        BY <2>1, <2>3 DEF Owned, Own
    <2>4. Owned(e)'
        BY <2>1 DEF Owned, Own
    <2>5. EntryInv'
        BY <1>2, <2>3, <2>4 DEF EntryInv
    <2> QED BY <1>0, <2>2, <2>5, FlagFrame
<1> QED BY <1>1, <1>2, ReleaseMoves

LEMMA StopFlag ==
    ASSUME Inv, EntryInv, FlagInv, NEW u \in Users, NEW c \in Chans,
           Stop(u, c) \/ HangUp(u, c)
    PROVE  EntryInv' /\ FlagInv'
<1>1. CASE Stop(u, c)
    <2>1. /\ user[u].pc = "idle" /\ Release(u, c, Idle)
          /\ heap' = heap /\ chan' = chan
        BY <1>1 DEF Stop
    <2>2. Idle.pc \notin {"insert", "wait"}
        BY DEF Idle
    <2> QED BY <2>1, <2>2, ReleaseFlag
<1>2. CASE HangUp(u, c)
    <2> DEFINE next == [Idle EXCEPT !.pc = "free", !.on = c]
    <2>1. /\ user[u].pc = "idle" /\ Release(u, c, next)
          /\ heap' = heap /\ chan' = [chan EXCEPT ![c].lock = u]
        BY <1>2 DEF HangUp
    <2>2. next.pc \notin {"insert", "wait"}
        BY DEF Idle
    <2>3. \A d \in Chans : /\ chan'[d].end_dtmf = chan[d].end_dtmf
                           /\ chan'[d].spoilt = chan[d].spoilt
        BY <2>1 DEF Inv, TypeOK, Channel
    <2> HIDE DEF next
    <2> QED BY <2>1, <2>2, <2>3, ReleaseFlag
<1> QED BY <1>1, <1>2

-----------------------------------------------------------------------------
(* Channels come and go *)

\* No live entry is of a channel that is not in the list and on which nobody
\* works but one who is about to free it.
LEMMA NoSetters ==
    ASSUME Inv, NEW c \in Chans, Listed(c) = {},
           \A u \in Users : user[u].on = c => user[u].pc = "free"
    PROVE  Setters(c) = {}
<1>1. ASSUME NEW e \in Entries, Live(e) PROVE asent[e].chan # c
    <2>1. CASE e \in L
        BY <2>1 DEF L, Listed
    <2>2. ASSUME NEW u \in Users, user[u].pc \in {"insert", "wait"},
                 user[u].ent = e
          PROVE  asent[e].chan # c
        BY <2>2, UserFacts
    <2> QED BY <1>1, <2>1, <2>2 DEF Live
<1> QED BY <1>1 DEF Setters

LEMMA ChannelFlag ==
    ASSUME Inv, EntryInv, FlagInv,
           \/ \E u \in Users : FreeChannel(u)
           \/ \E c \in Chans : NewChannel(c)
    PROVE  EntryInv' /\ FlagInv'
<1>1. ASSUME NEW c \in Chans, Setters(c)' = {},
             NEW r, r.end_dtmf = FALSE, chan' = [chan EXCEPT ![c] = r],
             UNCHANGED <<aslist, asent>>,
             \A e \in Entries : Live(e)' <=> Live(e)
      PROVE  FlagInv'
    <2>1. /\ chan'[c].end_dtmf = FALSE
          /\ \A d \in Chans : d # c => chan'[d] = chan[d]
        BY <1>1 DEF Inv, TypeOK
    <2>2. \A d \in Chans : Setters(d)' = Setters(d)
        BY <1>1 DEF Setters
    <2>3. SetOnce(c)'
        BY <1>1, <2>1 DEF SetOnce
    <2>4. ASSUME NEW d \in Chans, d # c PROVE SetOnce(d)'
        BY <2>1, <2>2, <2>4 DEF SetOnce, FlagInv
    <2> QED BY <2>3, <2>4 DEF FlagInv
<1>2. ASSUME NEW u \in Users, FreeChannel(u) PROVE EntryInv' /\ FlagInv'
    <2>1. user[u].pc = "free" /\ user[u].on \in Chans
        BY <1>2, UserFacts DEF FreeChannel
    <2> PICK c \in Chans : c = user[u].on
        BY <2>1
    <2> DEFINE r == [Fresh EXCEPT !.alive = FALSE]
    <2>2. /\ chan' = [chan EXCEPT ![c] = r]
          /\ user' = [user EXCEPT ![u] = Idle]
          /\ UNCHANGED <<aslist, asent, heap>>
        BY <1>2 DEF FreeChannel, list
    <2>3. r.end_dtmf = FALSE
        BY DEF Fresh
    <2> HIDE DEF r
    <2>4. chan[c].lock = u /\ u # Nobody
        BY <2>1, UserFacts, AutoServiceAssumption
    <2>5. Setters(c) = {}
        BY <2>1, <2>4, NoSetters DEF Inv, HangInv
    <2>6. Idle.pc = "idle"
        BY DEF Idle
    <2>7. EntryInv' /\ \A e \in Entries : Live(e)' <=> Live(e)
        BY <2>1, <2>2, <2>6, PlainStep
    <2>8. Setters(c)' = {}
        BY <2>2, <2>5, <2>7 DEF Setters
    <2> QED BY <1>1, <2>2, <2>3, <2>7, <2>8
<1>3. ASSUME NEW c \in Chans, NewChannel(c) PROVE EntryInv' /\ FlagInv'
    <2>1. /\ ~chan[c].alive /\ chan' = [chan EXCEPT ![c] = Fresh]
          /\ UNCHANGED <<aslist, asent, heap, user>>
        BY <1>3 DEF NewChannel, list, users
    <2>2. Fresh.end_dtmf = FALSE
        BY DEF Fresh
    <2>3. Setters(c) = {}
        BY <2>1, NoSetters DEF Inv, HangInv
    <2>4. L' = L /\ \A e \in Entries : Live(e)' <=> Live(e)
        BY <2>1 DEF L, Live
    <2>5. EntryInv'
        BY <2>1, <2>4 DEF EntryInv, Owned
    <2>6. Setters(c)' = {}
        BY <2>1, <2>3, <2>4 DEF Setters
    <2> QED BY <1>1, <2>1, <2>2, <2>4, <2>5, <2>6
<1> QED BY <1>2, <1>3

-----------------------------------------------------------------------------
(* The theorems *)

LEMMA InitFlag == ASSUME Init PROVE EntryInv /\ FlagInv
<1>1. L = {} /\ \A e : ~Live(e)
    BY DEF Init, L, Live, ToSet, Idle
<1>2. \A c \in Chans : Setters(c) = {} /\ chan[c].end_dtmf = FALSE
    BY <1>1 DEF Init, Setters, Fresh
<1> QED BY <1>1, <1>2 DEF Init, EntryInv, FlagInv, SetOnce

LEMMA StepFlag ==
    ASSUME Inv, EntryInv, FlagInv, [Next]_vars
    PROVE  EntryInv' /\ FlagInv'
<1>1. CASE \/ Works \/ Wake
           \/ \E u \in Users : Flush(u)
           \/ \E u \in Users, c \in Chans : StartAgain(u, c) \/ OwnerReads(u, c)
           \/ \E c \in Chans : Signal(c) \/ DeviceHangup(c) \/ SoftHangup(c)
           \/ UNCHANGED vars
    BY <1>1, QuietSteps, QuietInv
<1>2. ASSUME NEW u \in Users,
             \/ SetFlag(u) \/ InsertEntry(u) \/ InsertFails(u)
             \/ FreeEntry(u) \/ StopSeen(u)
      PROVE  EntryInv' /\ FlagInv'
    BY <1>2, SetFlagFlag, InsertEntryFlag, InsertFailsFlag, FreeEntryFlag,
       StopSeenFlag
<1>3. ASSUME NEW u \in Users, NEW c \in Chans,
             StartNew(u, c) \/ Stop(u, c) \/ HangUp(u, c)
      PROVE  EntryInv' /\ FlagInv'
    BY <1>3, StartNewFlag, StopFlag
<1>4. CASE \/ \E u \in Users : FreeChannel(u)
           \/ \E c \in Chans : NewChannel(c)
    BY <1>4, ChannelFlag
<1> QED BY <1>1, <1>2, <1>3, <1>4 DEF Next, Finishes, Calls, Outside

LEMMA AlwaysFlag == Spec => [](EntryInv /\ FlagInv)
<1>1. Init => EntryInv /\ FlagInv
    BY InitFlag
<1>2. Inv /\ (EntryInv /\ FlagInv) /\ [Next]_vars => (EntryInv /\ FlagInv)'
    BY StepFlag
<1> QED BY <1>1, <1>2, AlwaysInv, PTL DEF Spec

\* No entry is leaked: what ast_autoservice_start allocates is in the list,
\* or in the hands of the call that will insert it or free it.
THEOREM NothingLeaked ==
    Spec => [](heap \subseteq L \cup {e \in Entries : Owned(e)})
<1>1. Inv /\ EntryInv => heap \subseteq L \cup {e \in Entries : Owned(e)}
    BY DEF Inv, TypeOK, EntryInv
<1> QED BY <1>1, AlwaysInv, AlwaysFlag, PTL

\* However many threads start and stop autoservice on a channel at once,
\* AST_FLAG_END_DTMF_ONLY stays set while an entry that set it is in the
\* list, and is given back in the end: ast_autoservice_stop clears it without
\* a lock, but only for the one entry that found it clear.
THEOREM FlagIsKept == Spec => []FlagKept
<1>1. ASSUME Inv, FlagInv PROVE FlagKept
    <2>1. ASSUME NEW e \in ToSet(aslist)
          PROVE  asent[e].orig_end_dtmf_flag \/ chan[asent[e].chan].end_dtmf
        <3>1. e \in L /\ e \in Entries /\ asent[e].chan \in Chans
            BY <1>1, <2>1 DEF L, Inv, TypeOK, ListInv
        <3>2. CASE ~asent[e].orig_end_dtmf_flag
            <4>1. e \in Setters(asent[e].chan)
                BY <3>1, <3>2 DEF Setters, Live
            <4> QED BY <1>1, <3>1, <4>1 DEF FlagInv, SetOnce
        <3> QED BY <3>2
    <2>2. ASSUME NEW c \in Chans, Listed(c) = {},
                 \A u \in Users : user[u].on # c
          PROVE  ~chan[c].end_dtmf \/ chan[c].spoilt
        <3>1. Setters(c) = {}
            BY <1>1, <2>2, NoSetters
        <3> QED BY <1>1, <3>1 DEF FlagInv, SetOnce
    <2> QED BY <2>1, <2>2 DEF FlagKept
<1> QED BY <1>1, AlwaysInv, AlwaysFlag, PTL
=============================================================================
