--------------------------- MODULE RptLinksProofs ---------------------------
(***************************************************************************)
(* Proofs of the safety properties of RptLinks.                            *)
(*                                                                         *)
(* Everything rests on one inductive invariant, Inv.  Its core, LinkInv,   *)
(* speaks of a single record: first a lemma for each transformation of a   *)
(* record shows that it keeps LinkInv, then each action is reduced to the  *)
(* transformations it applies to the table.                                *)
(***************************************************************************)
EXTENDS RptLinks, TLAPS

LinkInv(r) ==
    /\ r.elaptime < 0 /\ ~LongWraps => r.outbound /\ r.chan # "none"
    /\ r.outbound => r.disctime = 0
    /\ r.chan = "dial" => r.outbound
    /\ r.outbound /\ r.chan = "none" => r.hasconnected
    /\ r.chan # "none" => r.disctime = 0 /\ r.retrytimer = 0
    /\ IsRemote(r) => r.retries > Budget(r)
    /\ r.disced # 0 /\ ~r.killme =>
          r.retries > Budget(r) /\ (r.chan # "none" => r.soft)

Sound(r) == r \in Link /\ LinkInv(r)

\* The link attempt_reconnect works on may be dialled.
Dialable(r) ==
    /\ r.chan = "none"
    /\ r.retrytimer = 0
    /\ r.outbound
    /\ ~IsRemote(r)
    /\ r.disced = 0 \/ r.killme

Inv ==
    /\ TypeOK
    /\ \A l \in LinkIds : LinkInv(link[l])
    /\ pc \in {"lookup", "redial"} => inhand \in heap /\ Dialable(link[inhand])

-----------------------------------------------------------------------------
(* The transformations of a record.                                        *)

LEMMA BudgetType == \A r \in Link : Budget(r) \in Nat /\ Spent(r) \in Nat
  BY BudgetAssumption DEF Budget, Spent, Link

LEMMA BlankSound == Sound(Blank)
<1>1. (CHOOSE n \in Names : TRUE) \in Names
  BY NameAssumption DEF Names
<1> QED
  BY <1>1 DEF Sound, Blank, Link, LinkInv, IsRemote

LEMMA AgedSound ==
  ASSUME NEW r, Sound(r), NEW e \in {0, 1}, NEW w \in BOOLEAN,
         w => MayWrap(r, e)
  PROVE  Sound(Aged(r, e, w))
<1> DEFINE t == IF r.elaptime < 0 THEN r.elaptime
                ELSE IF w THEN -1
                ELSE IF r.elaptime + e > MaxConnect THEN MaxConnect + 1
                ELSE r.elaptime + e
<1> DEFINE a == Aged(r, e, w)
<1>1. /\ Less(r.disctime, e) \in Nat /\ Less(r.retrytimer, e) \in Nat
      /\ r.disctime = 0 => Less(r.disctime, e) = 0
      /\ r.retrytimer = 0 => Less(r.retrytimer, e) = 0
  BY DEF Sound, Link, Less
<1>2. t \in Int /\ (t < 0 => r.elaptime < 0 \/ LongWraps)
  BY TimeAssumption, SwitchAssumption DEF Sound, Link, MayWrap
<1>3. a = [r EXCEPT !.disctime = Less(r.disctime, e),
                    !.retrytimer = Less(r.retrytimer, e), !.elaptime = t]
  BY DEF Aged
<1> HIDE DEF t, a
<1>4. a \in Link
  BY <1>1, <1>2, <1>3 DEF Sound, Link
<1>5. LinkInv(a)
  BY <1>1, <1>2, <1>3 DEF Sound, Link, LinkInv, IsRemote, Budget
<1> QED
  BY <1>4, <1>5 DEF Sound, a

LEMMA CountedSound ==
  ASSUME NEW r, Sound(r)
  PROVE  Sound(Counted(r))
  BY BudgetType DEF Sound, Counted, Link, LinkInv, IsRemote, Budget

LEMMA SpentSound ==
  ASSUME NEW r, Sound(r)
  PROVE  Sound([r EXCEPT !.retries = Spent(r)])
  BY BudgetType DEF Sound, Link, LinkInv, IsRemote, Budget, Spent

\* The provers type an update more easily with a variable than a literal.
LEMMA ElaptimeUpdate ==
  ASSUME NEW r \in Link, NEW t \in Int, NEW b \in BOOLEAN, NEW n \in Nat,
         NEW k \in Nat, NEW c \in {"none", "dial", "up"}
  PROVE  /\ [r EXCEPT !.soft = b, !.elaptime = t] \in Link
         /\ [r EXCEPT !.chan = "none", !.soft = FALSE, !.retries = n,
                      !.retrytimer = k, !.elaptime = t] \in Link
         /\ [r EXCEPT !.chan = "up", !.hasconnected = TRUE, !.elaptime = t,
                      !.retries = n] \in Link
         /\ [r EXCEPT !.elaptime = t, !.chan = "dial"] \in Link
         /\ [r EXCEPT !.elaptime = t, !.retrytimer = k] \in Link
<1>1. [r EXCEPT !.soft = b, !.elaptime = t] \in Link
  BY DEF Link
<1>2. [r EXCEPT !.chan = "none", !.soft = FALSE, !.retries = n,
                !.retrytimer = k, !.elaptime = t] \in Link
  BY DEF Link
<1>3. [r EXCEPT !.chan = "up", !.hasconnected = TRUE, !.elaptime = t,
                !.retries = n] \in Link
  BY DEF Link
<1>4. [r EXCEPT !.elaptime = t, !.chan = "dial"] \in Link
  BY DEF Link
<1>5. [r EXCEPT !.elaptime = t, !.retrytimer = k] \in Link
  BY DEF Link
<1> QED
  BY <1>1, <1>2, <1>3, <1>4, <1>5

LEMMA TooLongSound ==
  ASSUME NEW r, Sound(r)
  PROVE  Sound([r EXCEPT !.soft = SoftHangup(r), !.elaptime = 0])
<1> DEFINE a == [r EXCEPT !.soft = SoftHangup(r), !.elaptime = 0]
<1>1. 0 \in Int /\ SoftHangup(r) \in BOOLEAN
  BY DEF SoftHangup
<1>2. a \in Link
  BY <1>1, ElaptimeUpdate DEF Sound
<1>3. LinkInv(a)
  BY DEF Sound, SoftHangup, Link, LinkInv, IsRemote, Budget
<1> QED
  BY <1>2, <1>3 DEF Sound

LEMMA DroppedSound ==
  ASSUME NEW r, Sound(r), NEW how \in {1, 2}
  PROVE  /\ Sound(Dropped(r, how))
         /\ Sound([Dropped(r, how) EXCEPT !.hasconnected = TRUE])
<1> DEFINE n == Spent(r)
<1> DEFINE a == [r EXCEPT !.soft = (r.chan # "none"), !.retries = n,
                          !.disced = how]
<1> DEFINE b == [a EXCEPT !.hasconnected = TRUE]
<1>1. n \in Nat /\ n > Budget(r)
  BY BudgetType DEF Sound, Spent
<1>2. a = Dropped(r, how)
  BY DEF Dropped, SoftHangup
<1> HIDE DEF n
<1>3. a \in Link /\ b \in Link
  BY <1>1 DEF Sound, Link
<1>4. LinkInv(a) /\ LinkInv(b)
  BY <1>1 DEF Sound, Link, LinkInv, IsRemote, Budget
<1> QED
  BY <1>2, <1>3, <1>4 DEF Sound

LEMMA OutboundSound ==
  ASSUME NEW n \in Nodes, NEW p \in BOOLEAN
  PROVE  Sound(OutboundLink(n, p))
<1> DEFINE q == [Blank EXCEPT !.name = n, !.outbound = TRUE, !.perma = p,
                              !.hasconnected = p, !.chan = "dial"]
<1> DEFINE k == IF IsRemote(q) THEN Spent(q) ELSE 0
<1> DEFINE r == [q EXCEPT !.retries = k]
<1>1. /\ q \in Link
      /\ q.elaptime = 0 /\ q.disctime = 0 /\ q.retrytimer = 0
      /\ q.disced = 0 /\ q.chan = "dial" /\ q.outbound
  BY BlankSound DEF Sound, Link, Names, Blank
<1>2. k \in Nat /\ (IsRemote(q) => k > Budget(q))
  BY <1>1, BudgetType DEF Spent
<1> HIDE DEF q, k
<1>3. r \in Link
  BY <1>1, <1>2 DEF Link
<1>4. LinkInv(r)
  BY <1>1, <1>2 DEF Link, LinkInv, IsRemote, Budget
<1>5. OutboundLink(n, p) = r
  BY DEF OutboundLink, q, k
<1> QED
  BY <1>3, <1>4, <1>5 DEF Sound

LEMMA InboundSound ==
  ASSUME NEW n \in Names
  PROVE  Sound(InboundLink(n))
  BY BlankSound DEF Sound, InboundLink, Blank, Link, LinkInv, IsRemote

LEMMA AnswerSound ==
  ASSUME NEW r, Sound(r), r.chan = "dial", ~r.soft
  PROVE  Sound(Answered(r))
<1> DEFINE n == IF IsRemote(r) THEN r.retries ELSE 0
<1> DEFINE a == [r EXCEPT !.chan = "up", !.hasconnected = TRUE,
                          !.elaptime = -1, !.retries = n]
<1>1. n \in Nat /\ (IsRemote(r) => n = r.retries)
  BY DEF Sound, Link
<1>2. r.disced = 0 \/ r.killme
  BY DEF Sound, LinkInv
<1> HIDE DEF n
<1>3. a \in Link
  BY <1>1, -1 \in Int, ElaptimeUpdate DEF Sound
<1>4. LinkInv(a)
  BY <1>1, <1>2 DEF Sound, Link, LinkInv, IsRemote, Budget
<1> QED
  BY <1>3, <1>4 DEF Sound, n, Answered

LEMMA HangupSound ==
  ASSUME NEW r, Sound(r)
  PROVE  /\ Lingers(r) => Sound(Lingering(r))
         /\ r.retrytimer # 0 => Sound(HungUp(r))
         /\ Retries(r) => Sound(Retrying(r))
<1>1. Lingers(r) => Sound(Lingering(r))
  BY TimeAssumption
     DEF Sound, Lingers, Lingering, Link, LinkInv, IsRemote, Budget
<1>2. r.retrytimer # 0 => Sound(HungUp(r))
  BY DEF Sound, HungUp, Link, LinkInv, IsRemote, Budget
<1>3. ASSUME Retries(r)
      PROVE  Sound(Retrying(r))
  <2>1. Retrying(r) \in Link
    <3>1. r.retries + 1 \in Nat /\ RetryTime \in Nat /\ 0 \in Int
      BY TimeAssumption DEF Sound, Link
    <3> QED
      BY <3>1, ElaptimeUpdate DEF Sound, Retrying
  <2>2. r.retries + 1 > Budget(r) <=> r.retries >= Budget(r)
    BY BudgetType DEF Sound, Link
  <2>3. LinkInv(Retrying(r))
    BY <1>3, TimeAssumption, BudgetType
       DEF Sound, Retries, Retrying, Link, LinkInv, IsRemote, Budget
  <2> QED
    BY <2>1, <2>3 DEF Sound
<1> QED
  BY <1>1, <1>2, <1>3

LEMMA KilledSound ==
  ASSUME NEW r, Sound(r)
  PROVE  Sound([r EXCEPT !.killme = TRUE, !.disced = 2, !.retries = Spent(r)])
<1> DEFINE n == Spent(r)
<1> DEFINE a == [r EXCEPT !.killme = TRUE, !.disced = 2, !.retries = n]
<1>1. n \in Nat /\ n > Budget(r)
  BY BudgetType DEF Sound, Spent
<1> HIDE DEF n
<1>2. a \in Link
  BY <1>1 DEF Sound, Link
<1>3. LinkInv(a)
  BY <1>1 DEF Sound, Link, LinkInv, IsRemote, Budget
<1> QED
  BY <1>2, <1>3 DEF Sound, n

-----------------------------------------------------------------------------
(* The table.                                                              *)

SoundTable(f) == f \in [LinkIds -> Link] /\ \A l \in LinkIds : LinkInv(f[l])

\* What Inv says of everything but the table.
RptTypes ==
    /\ heap \subseteq LinkIds
    /\ linked \subseteq heap
    /\ ready \in BOOLEAN
    /\ pc \in RptPc
    /\ who \in LinkIds \cup {Other, NoLink}
    /\ inhand \in LinkIds \cup {NoLink}
    /\ order \in Order
    /\ call \in [Calls -> CallState]

InHand ==
    pc \in {"lookup", "redial"} => inhand \in heap /\ Dialable(link[inhand])

LEMMA InvParts == Inv <=> RptTypes /\ SoundTable(link) /\ InHand
  BY DEF Inv, TypeOK, RptTypes, SoundTable, InHand

LEMMA InvPartsNext == Inv' <=> RptTypes' /\ SoundTable(link)' /\ InHand'
  BY DEF Inv, TypeOK, RptTypes, SoundTable, InHand

LEMMA SetSound ==
  ASSUME NEW f, SoundTable(f), NEW l \in LinkIds, NEW r, Sound(r)
  PROVE  SoundTable([f EXCEPT ![l] = r])
  BY DEF SoundTable, Sound

LEMMA AtSound ==
  ASSUME NEW f, SoundTable(f), NEW l \in LinkIds
  PROVE  Sound(f[l])
  BY DEF SoundTable, Sound

LEMMA PassedSound ==
  ASSUME RptTypes, SoundTable(link), NEW S, NEW e \in {0, 1}, NEW w,
         Walks(S, e, w), NEW l \in S
  PROVE  Sound(Aged(link[l], e, l \in w))
<1>1. l \in LinkIds /\ (l \in w) \in BOOLEAN /\ (l \in w => MayWrap(link[l], e))
  BY DEF RptTypes, Walks
<1>2. Sound(link[l])
  BY <1>1, AtSound
<1> DEFINE x == l \in w
<1>3. x \in BOOLEAN /\ (x => MayWrap(link[l], e))
  BY <1>1
<1> HIDE DEF x
<1>4. Sound(Aged(link[l], e, x))
  BY <1>2, <1>3, AgedSound
<1> QED
  BY <1>4 DEF x

LEMMA CountDownSound ==
  ASSUME RptTypes, SoundTable(link), NEW e \in {0, 1}, NEW w,
         CountDown(e, w)
  PROVE  SoundTable(link')
<1> DEFINE aged == Passed(linked, e, w)
<1> DEFINE g == [l \in LinkIds |-> IF l \in linked THEN Counted(aged[l])
                                                  ELSE link[l]]
<1>1. link' = g
  BY DEF CountDown
<1>2. ASSUME NEW l \in LinkIds
      PROVE  Sound(g[l])
  <2>1. CASE l \in linked
    <3>1. Sound(Aged(link[l], e, l \in w))
      BY <2>1, PassedSound DEF CountDown
    <3>2. aged[l] = Aged(link[l], e, l \in w)
      BY <2>1 DEF Passed
    <3> QED
      BY <2>1, <3>1, <3>2, CountedSound
  <2>2. CASE l \notin linked
    BY <2>2, AtSound
  <2> QED
    BY <2>1, <2>2
<1> QED
  BY <1>1, <1>2 DEF SoundTable, Sound

LEMMA CutOffSound ==
  ASSUME RptTypes, SoundTable(link), NEW e \in {0, 1}, NEW w, NEW S, NEW b,
         EndsAt(b, S, e, w), NEW r, Sound(r)
  PROVE  SoundTable(CutOff(b, S, e, w, r))
<1> DEFINE g == CutOff(b, S, e, w, r)
<1>1. ASSUME NEW l \in LinkIds
      PROVE  Sound(g[l])
  <2>1. CASE l = b
    BY <2>1 DEF CutOff
  <2>2. CASE l # b /\ l \in S
    <3>1. Sound(Aged(link[l], e, l \in w))
      BY <2>2, PassedSound DEF EndsAt
    <3>2. Passed(S, e, w)[l] = Aged(link[l], e, l \in w)
      BY <2>2 DEF Passed
    <3>3. g[l] = Counted(Passed(S, e, w)[l])
      BY <2>2 DEF CutOff
    <3> QED
      BY <3>1, <3>2, <3>3, CountedSound
  <2>3. CASE l # b /\ l \notin S
    <3>1. g[l] = link[l]
      BY <2>3 DEF CutOff
    <3> QED
      BY <3>1, AtSound
  <2> QED
    BY <2>1, <2>2, <2>3
<1>2. g = [l \in LinkIds |-> g[l]]
  BY DEF CutOff
<1> HIDE DEF g
<1>3. SoundTable(g)
  BY <1>1, <1>2 DEF SoundTable, Sound
<1> QED
  BY <1>3 DEF g

LEMMA BreakSound ==
  ASSUME RptTypes, SoundTable(link), NEW e \in {0, 1}, NEW w, NEW S, NEW b,
         EndsAt(b, S, e, w)
  PROVE  b \in LinkIds /\ Sound(Aged(link[b], e, b \in w))
  BY PassedSound DEF EndsAt, RptTypes

-----------------------------------------------------------------------------
(* The invariant.                                                          *)

LEMMA InvInit == Init => Inv
<1> SUFFICES ASSUME Init PROVE Inv
  OBVIOUS
<1>1. (CHOOSE n \in Nodes : TRUE) \in Nodes
      /\ (CHOOSE n \in Names : TRUE) \in Names
  BY NameAssumption DEF Names
<1>2. RptTypes
  BY <1>1 DEF Init, RptTypes, RptPc, Order, NoOrder, CallState
<1>3. SoundTable(link)
  BY BlankSound DEF Init, SoundTable, Sound
<1>4. InHand
  BY DEF Init, InHand
<1> QED
  BY <1>2, <1>3, <1>4, InvParts

LEMMA TurnSteps ==
  ASSUME Inv,
         \/ \E l \in linked : ReapKilled(l)
         \/ \E w \in LinkIds \cup {Other, NoLink} : Wait(w)
         \/ TimersStep
  PROVE  Inv'
<1>1. RptTypes /\ SoundTable(link) /\ InHand
  BY InvParts
<1>2. ASSUME NEW l \in linked, ReapKilled(l)
      PROVE  Inv'
  <2>1. SoundTable([link EXCEPT ![l] = Blank])
    BY <1>1, BlankSound, SetSound DEF RptTypes
  <2> QED
    BY <1>1, <1>2, <2>1, InvPartsNext
       DEF ReapKilled, Remove, rptVars, RptTypes, InHand
<1>3. ASSUME NEW w \in LinkIds \cup {Other, NoLink}, Wait(w)
      PROVE  Inv'
  BY <1>1, <1>3, InvPartsNext
     DEF Wait, tableVars, RptTypes, RptPc, InHand, SoundTable
<1>4. ASSUME TimersStep
      PROVE  Inv'
  <2>1. PICK e \in {0, 1}, w \in SUBSET linked :
           \/ CountDown(e, w)
           \/ \E b \in linked, S \in SUBSET linked :
                 \/ ConnectTooLong(b, S, e, w)
                 \/ StartReconnect(b, S, e, w)
                 \/ GiveUp(b, S, e, w)
    BY <1>4 DEF TimersStep
  <2>2. AfterTimers \in {"kill", "cmd"}
    BY DEF AfterTimers
  <2>3. CASE CountDown(e, w)
    BY <1>1, <2>2, <2>3, CountDownSound, InvPartsNext
       DEF CountDown, RptTypes, RptPc, InHand, SoundTable
  <2>4. ASSUME NEW b \in linked, NEW S \in SUBSET linked,
               ConnectTooLong(b, S, e, w)
        PROVE  Inv'
    <3>1. EndsAt(b, S, e, w)
      BY <2>4 DEF ConnectTooLong
    <3>2. SoundTable(link')
      BY <1>1, <2>4, <3>1, BreakSound, TooLongSound, CutOffSound
         DEF ConnectTooLong
    <3> QED
      BY <1>1, <2>2, <2>4, <3>2, InvPartsNext
         DEF ConnectTooLong, RptTypes, RptPc, InHand, SoundTable
  <2>5. ASSUME NEW b \in linked, NEW S \in SUBSET linked,
               StartReconnect(b, S, e, w)
        PROVE  Inv'
    <3> DEFINE r == Aged(link[b], e, b \in w)
    <3>1. EndsAt(b, S, e, w) /\ Redials(r)
      BY <2>5 DEF StartReconnect
    <3>2. b \in LinkIds /\ Sound(r)
      BY <1>1, <3>1, BreakSound
    <3>3. CASE IsRemote(r)
      <4>1. SoundTable(link')
        BY <1>1, <2>5, <3>1, <3>2, <3>3, SpentSound, CutOffSound
           DEF StartReconnect
      <4> QED
        BY <1>1, <2>2, <2>5, <3>1, <3>3, <4>1, InvPartsNext
           DEF StartReconnect, EndsAt, Walks, RptTypes, RptPc, InHand,
               SoundTable
    <3>4. CASE ~IsRemote(r)
      <4>1. SoundTable(link')
        BY <1>1, <2>5, <3>1, <3>2, <3>4, CountedSound, CutOffSound
           DEF StartReconnect
      <4>2. link'[b] = Counted(r) /\ inhand' = b /\ pc' = "lookup"
        BY <2>5, <3>2, <3>4 DEF StartReconnect, CutOff
      <4> HIDE DEF r
      <4>3. Dialable(Counted(r))
        BY <3>1, <3>2, <3>4, BudgetType
           DEF Dialable, Counted, Redials, MayRedial, Sound, Link, LinkInv,
               IsRemote
      <4> QED
        BY <1>1, <2>2, <2>5, <3>2, <4>1, <4>2, <4>3, InvPartsNext
           DEF StartReconnect, RptTypes, RptPc, InHand, SoundTable
    <3> QED
      BY <3>3, <3>4
  <2>6. ASSUME NEW b \in linked, NEW S \in SUBSET linked, GiveUp(b, S, e, w)
        PROVE  Inv'
    <3>1. EndsAt(b, S, e, w)
      BY <2>6 DEF GiveUp
    <3>2. SoundTable(link')
      BY <1>1, <2>6, <3>1, BlankSound, CutOffSound DEF GiveUp
    <3> QED
      BY <1>1, <2>2, <2>6, <3>1, <3>2, InvPartsNext
         DEF GiveUp, EndsAt, Walks, RptTypes, RptPc, InHand, SoundTable
  <2> QED
    BY <2>1, <2>3, <2>4, <2>5, <2>6
<1> QED
  BY <1>2, <1>3, <1>4

LEMMA ReconnectSteps ==
  ASSUME Inv, ReconnectStep
  PROVE  Inv'
<1>1. RptTypes /\ SoundTable(link) /\ InHand
  BY InvParts
<1>2. pc \in {"lookup", "redial"} /\ inhand \in heap /\ inhand \in LinkIds
  BY <1>1
     DEF ReconnectStep, LookupFails, LookupDone, RedialFails, Redial, InHand,
         RptTypes
<1> DEFINE r == link[inhand]
<1>3. Sound(r) /\ Dialable(r)
  BY <1>1, <1>2, AtSound DEF InHand
<1>4. AfterTimers \in {"kill", "cmd"}
  BY DEF AfterTimers
<1>5. r \in Link /\ RetryTime \in Nat /\ 0 \in Int
  BY <1>3, TimeAssumption DEF Sound
<1>6. CASE LookupFails
  <2> DEFINE q == [r EXCEPT !.retrytimer = RetryTime]
  <2>1. q \in Link
    BY <1>5 DEF Link
  <2>2. LinkInv(q)
    BY <1>3, <1>5
       DEF Sound, Link, LinkInv, Dialable, IsRemote, Budget
  <2>3. link' = [link EXCEPT ![inhand] = q]
    BY <1>6 DEF LookupFails
  <2> HIDE DEF q, r
  <2>4. SoundTable(link')
    BY <1>1, <1>2, <2>1, <2>2, <2>3, SetSound DEF Sound
  <2> QED
    BY <1>1, <1>4, <1>6, <2>4, InvPartsNext
       DEF LookupFails, Reconnected, RptTypes, RptPc, InHand, SoundTable
<1>7. CASE LookupDone
  BY <1>1, <1>2, <1>7, InvPartsNext
     DEF LookupDone, RptTypes, RptPc, InHand, SoundTable
<1>8. CASE RedialFails
  <2> DEFINE q == [r EXCEPT !.elaptime = 0, !.retrytimer = RetryTime]
  <2>1. q \in Link
    BY <1>5, ElaptimeUpdate
  <2>2. LinkInv(q)
    BY <1>3, <1>5
       DEF Sound, Link, LinkInv, Dialable, IsRemote, Budget
  <2>3. link' = [link EXCEPT ![inhand] = q]
    BY <1>1, <1>2, <1>8 DEF RedialFails, SoundTable, Link
  <2> HIDE DEF q, r
  <2>4. SoundTable(link')
    BY <1>1, <1>2, <2>1, <2>2, <2>3, SetSound DEF Sound
  <2> QED
    BY <1>1, <1>4, <1>8, <2>4, InvPartsNext
       DEF RedialFails, Reconnected, RptTypes, RptPc, InHand, SoundTable
<1>9. CASE Redial
  <2> DEFINE q == [r EXCEPT !.elaptime = 0, !.chan = "dial"]
  <2>1. q \in Link
    BY <1>5, ElaptimeUpdate
  <2>2. LinkInv(q)
    BY <1>3, <1>5
       DEF Sound, Link, LinkInv, Dialable, IsRemote, Budget
  <2>3. link' = [link EXCEPT ![inhand] = q]
    BY <1>1, <1>2, <1>9 DEF Redial, SoundTable, Link
  <2> HIDE DEF q, r
  <2>4. SoundTable(link')
    BY <1>1, <1>2, <2>1, <2>2, <2>3, SetSound DEF Sound
  <2> QED
    BY <1>1, <1>2, <1>4, <1>9, <2>4, InvPartsNext
       DEF Redial, Reconnected, RptTypes, RptPc, InHand, SoundTable
<1> QED
  BY <1>6, <1>7, <1>8, <1>9 DEF ReconnectStep

LEMMA CommandSteps ==
  ASSUME Inv, CommandStep
  PROVE  Inv'
<1>1. RptTypes /\ SoundTable(link) /\ InHand
  BY InvParts
<1>2. NoOrder \in Order
  BY NameAssumption DEF NoOrder, Order
<1>3. CASE NoCommand
  BY <1>1, <1>3, InvPartsNext
     DEF NoCommand, tableVars, RptTypes, RptPc, InHand, SoundTable
<1>4. CASE DisconnectAll
  <2>1. ASSUME NEW l \in LinkIds
        PROVE  Sound(link'[l])
    <3>1. Sound(link[l]) /\ Sound(Dropped(link[l], 2))
      BY <1>1, AtSound, DroppedSound
    <3> QED
      BY <1>4, <3>1 DEF DisconnectAll
  <2>2. SoundTable(link')
    BY <1>4, <2>1 DEF DisconnectAll, SoundTable, Sound
  <2> QED
    BY <1>1, <1>4, <2>2, InvPartsNext
       DEF DisconnectAll, RptTypes, RptPc, InHand, SoundTable
<1>5. ASSUME NEW l \in linked, NEW perma \in BOOLEAN, Disconnect(l, perma)
      PROVE  Inv'
  <2> DEFINE q == [Dropped(link[l], 1) EXCEPT !.hasconnected = TRUE]
  <2>1. l \in LinkIds /\ Sound(q)
    BY <1>1, AtSound, DroppedSound DEF RptTypes
  <2>2. link' = [link EXCEPT ![l] = q]
    BY <1>5 DEF Disconnect
  <2> HIDE DEF q
  <2>3. SoundTable(link')
    BY <1>1, <2>1, <2>2, SetSound
  <2> QED
    BY <1>1, <1>5, <2>3, InvPartsNext
       DEF Disconnect, RptTypes, RptPc, InHand, SoundTable
<1>6. ASSUME NEW l \in linked, NEW perma \in BOOLEAN,
             ConnectOtherMode(l, perma)
      PROVE  Inv'
  <2>1. l \in LinkIds /\ Sound(Dropped(link[l], 2))
    BY <1>1, AtSound, DroppedSound DEF RptTypes
  <2>2. SoundTable(link')
    BY <1>1, <1>6, <2>1, SetSound DEF ConnectOtherMode
  <2> QED
    BY <1>1, <1>6, <2>2, InvPartsNext
       DEF ConnectOtherMode, RptTypes, RptPc, InHand, Order, SoundTable
<1>7. ASSUME NEW n \in Nodes, NEW perma \in BOOLEAN, ConnectNew(n, perma)
      PROVE  Inv'
  BY <1>1, <1>7, InvPartsNext
     DEF ConnectNew, tableVars, RptTypes, RptPc, InHand, Order, SoundTable
<1>8. CASE DialFails
  BY <1>1, <1>2, <1>8, InvPartsNext
     DEF DialFails, tableVars, RptTypes, RptPc, InHand, SoundTable
<1>9. ASSUME NEW l \in LinkIds, DialOut(l)
      PROVE  Inv'
  <2>1. Sound(OutboundLink(order.name, order.perma))
    BY <1>1, OutboundSound DEF RptTypes, Order
  <2>2. SoundTable(link')
    BY <1>1, <1>9, <2>1, SetSound DEF DialOut, Insert
  <2> QED
    BY <1>1, <1>2, <1>9, <2>2, InvPartsNext
       DEF DialOut, Insert, RptTypes, RptPc, InHand, SoundTable
<1> QED
  BY <1>3, <1>4, <1>5, <1>6, <1>7, <1>8, <1>9 DEF CommandStep

LEMMA ReadSteps ==
  ASSUME Inv, ReadStep
  PROVE  Inv'
<1>1. RptTypes /\ SoundTable(link) /\ InHand
  BY InvParts
<1>2. who \in linked => who \in LinkIds /\ Sound(link[who])
  BY <1>1, AtSound DEF RptTypes
<1>3. CASE ReadOther
  BY <1>1, <1>3, InvPartsNext
     DEF ReadOther, tableVars, RptTypes, RptPc, InHand, SoundTable
<1>4. CASE ReadAnswer
  <2>1. SoundTable(link')
    BY <1>1, <1>2, <1>4, AnswerSound, SetSound DEF ReadAnswer, Reads
  <2> QED
    BY <1>1, <1>4, <2>1, InvPartsNext
       DEF ReadAnswer, RptTypes, RptPc, InHand, SoundTable
<1>5. CASE ReadDisconnect
  <2>1. SoundTable(link')
    BY <1>1, <1>2, <1>5, DroppedSound, SetSound DEF ReadDisconnect, Reads
  <2> QED
    BY <1>1, <1>5, <2>1, InvPartsNext
       DEF ReadDisconnect, RptTypes, RptPc, InHand, SoundTable
<1>6. CASE ReadHangup
  <2> DEFINE r == link[who]
  <2> DEFINE stays == Lingers(r) \/ r.retrytimer # 0 \/ Retries(r)
  <2>1. who \in linked /\ who \in LinkIds /\ Sound(r)
    BY <1>2, <1>6 DEF ReadHangup, Reads
  <2>2. CASE stays
    <3> DEFINE q == IF Lingers(r) THEN Lingering(r)
                    ELSE IF r.retrytimer # 0 THEN HungUp(r)
                    ELSE Retrying(r)
    <3>1. Sound(q)
      BY <2>1, <2>2, HangupSound
    <3>2. link' = [link EXCEPT ![who] = q] /\ UNCHANGED <<heap, linked>>
      BY <1>6, <2>2 DEF ReadHangup
    <3> HIDE DEF q
    <3>3. SoundTable(link')
      BY <1>1, <2>1, <3>1, <3>2, SetSound
    <3> QED
      BY <1>1, <1>6, <3>2, <3>3, InvPartsNext
         DEF ReadHangup, RptTypes, RptPc, InHand, SoundTable
  <2>3. CASE ~stays
    <3>1. Remove(who)
      BY <1>6, <2>3 DEF ReadHangup
    <3>2. SoundTable(link')
      BY <1>1, <2>1, <3>1, BlankSound, SetSound DEF Remove
    <3> QED
      BY <1>1, <1>6, <3>1, <3>2, InvPartsNext
         DEF ReadHangup, Remove, RptTypes, RptPc, InHand, SoundTable
  <2> QED
    BY <2>2, <2>3
<1> QED
  BY <1>3, <1>4, <1>5, <1>6 DEF ReadStep

LEMMA LifeSteps ==
  ASSUME Inv, LifeStep
  PROVE  Inv'
<1>1. RptTypes /\ SoundTable(link) /\ InHand
  BY InvParts
<1>2. CASE Leave
  BY <1>1, <1>2, InvPartsNext
     DEF Leave, tableVars, RptTypes, RptPc, InHand, SoundTable
<1>3. CASE FreeAll
  <2>1. SoundTable(link')
    BY <1>1, <1>3, BlankSound DEF FreeAll, SoundTable, Sound
  <2> QED
    BY <1>1, <1>3, <2>1, InvPartsNext
       DEF FreeAll, RptTypes, RptPc, InHand, SoundTable
<1>4. CASE Restart
  BY <1>1, <1>4, InvPartsNext
     DEF Restart, RptTypes, RptPc, InHand, SoundTable
<1> QED
  BY <1>2, <1>3, <1>4 DEF LifeStep

LEMMA CallSteps ==
  ASSUME Inv, NEW c \in Calls, CallStep(c)
  PROVE  Inv'
<1>1. RptTypes /\ SoundTable(link) /\ InHand
  BY InvParts
<1>2. ASSUME NEW l \in linked, CallKillsOld(c, l)
      PROVE  Inv'
  <2> DEFINE r == link[l]
  <2> DEFINE q == [r EXCEPT !.killme = TRUE, !.disced = 2,
                            !.retries = Spent(r)]
  <2>1. l \in LinkIds /\ Sound(r) /\ Sound(q)
    BY <1>1, AtSound, KilledSound DEF RptTypes
  <2>2. link' = [link EXCEPT ![l] = q]
    BY <1>1, <1>2 DEF CallKillsOld, SoundTable, Link
  <2>3. Dialable(r) => Dialable(q)
    BY <2>1, BudgetType DEF Dialable, Sound, Link, IsRemote
  <2> HIDE DEF q, r
  <2>4. SoundTable(link')
    BY <1>1, <2>1, <2>2, SetSound
  <2>5. link'[l] = q /\ \A m \in LinkIds \ {l} : link'[m] = link[m]
    BY <1>1, <2>1, <2>2 DEF SoundTable
  <2>6. InHand'
    BY <1>1, <1>2, <2>3, <2>5
       DEF r, CallKillsOld, rptVars, InHand, RptTypes
  <2>7. call' \in [Calls -> CallState]
    BY <1>1, <1>2 DEF CallKillsOld, RptTypes, CallState
  <2> QED
    BY <1>1, <1>2, <2>4, <2>6, <2>7, InvPartsNext
       DEF CallKillsOld, rptVars, RptTypes, SoundTable
<1>3. ASSUME NEW l \in LinkIds, CallInserts(c, l)
      PROVE  Inv'
  <2>1. Sound(InboundLink(call[c].name))
    BY <1>1, InboundSound DEF RptTypes, CallState
  <2>2. SoundTable(link')
    BY <1>1, <1>3, <2>1, SetSound DEF CallInserts, Insert
  <2>3. call' \in [Calls -> CallState]
    BY <1>1, <1>3 DEF CallInserts, RptTypes, CallState
  <2>4. InHand'
    BY <1>1, <1>3 DEF CallInserts, Insert, rptVars, InHand, RptTypes, SoundTable
  <2> QED
    BY <1>1, <1>3, <2>2, <2>3, <2>4, InvPartsNext
       DEF CallInserts, Insert, rptVars, RptTypes, SoundTable
<1>4. ASSUME \/ \E n \in Names : CallArrives(c, n)
             \/ CallFindsNone(c) \/ CallSleeps(c) \/ CallEnds(c)
      PROVE  Inv'
  <2>1. UNCHANGED <<tableVars, rptVars>>
    BY <1>4 DEF CallArrives, CallFindsNone, CallSleeps, CallEnds
  <2>2. call' \in [Calls -> CallState]
    BY <1>1, <1>4
       DEF CallArrives, CallFindsNone, CallSleeps, CallEnds, RptTypes,
           CallState
  <2> QED
    BY <1>1, <2>1, <2>2, InvPartsNext
       DEF tableVars, rptVars, RptTypes, InHand, SoundTable
<1> QED
  BY <1>2, <1>3, <1>4 DEF CallStep

LEMMA InvStep == Inv /\ [Next]_vars => Inv'
<1> SUFFICES ASSUME Inv, [Next]_vars PROVE Inv'
  OBVIOUS
<1>1. CASE RptStep
  BY <1>1, TurnSteps, ReconnectSteps, CommandSteps, ReadSteps DEF RptStep
<1>2. CASE LifeStep
  BY <1>2, LifeSteps
<1>3. CASE \E c \in Calls : CallStep(c)
  BY <1>3, CallSteps
<1>4. CASE UNCHANGED vars
  BY <1>4, InvParts, InvPartsNext DEF vars, RptTypes, SoundTable, InHand
<1> QED
  BY <1>1, <1>2, <1>3, <1>4 DEF Next

-----------------------------------------------------------------------------
(* Which steps dial.                                                       *)

\* The links in use that the step starts to dial.
Dials == {l \in heap : link[l].chan = "none" /\ link'[l].chan = "dial"}

LEMMA AgedChan ==
  ASSUME NEW r \in Link, NEW e, NEW w
  PROVE  Aged(r, e, w).chan = r.chan /\ Counted(r).chan = r.chan
  BY DEF Aged, Counted, Link

LEMMA TimersDialNone ==
  ASSUME Inv, TimersStep
  PROVE  Dials = {}
<1>1. RptTypes /\ SoundTable(link)
  BY InvParts
<1>2. PICK e \in {0, 1}, w \in SUBSET linked :
         \/ CountDown(e, w)
         \/ \E b \in linked, S \in SUBSET linked :
               \/ ConnectTooLong(b, S, e, w)
               \/ StartReconnect(b, S, e, w)
               \/ GiveUp(b, S, e, w)
  BY DEF TimersStep
<1>3. \A S \in SUBSET linked : Walks(S, e, w) =>
         \A l \in S : /\ Passed(S, e, w)[l].chan = link[l].chan
                      /\ Passed(S, e, w)[l] \in Link
  <2> SUFFICES ASSUME NEW S \in SUBSET linked, Walks(S, e, w), NEW l \in S
               PROVE  /\ Passed(S, e, w)[l].chan = link[l].chan
                      /\ Passed(S, e, w)[l] \in Link
    OBVIOUS
  <2>1. Sound(Aged(link[l], e, l \in w)) /\ l \in LinkIds /\ link[l] \in Link
    BY <1>1, PassedSound, AtSound DEF Sound, RptTypes
  <2>2. Passed(S, e, w)[l] = Aged(link[l], e, l \in w)
    BY <2>1 DEF Passed
  <2> QED
    BY <2>1, <2>2, AgedChan DEF Sound
<1>4. CASE CountDown(e, w)
  <2>1. \A l \in linked : Counted(Passed(linked, e, w)[l]).chan = link[l].chan
    BY <1>3, <1>4, AgedChan DEF CountDown
  <2>2. \A l \in LinkIds : link'[l].chan = link[l].chan
    BY <1>4, <2>1 DEF CountDown
  <2> QED
    BY <1>1, <2>2 DEF Dials, RptTypes
<1>5. ASSUME NEW b \in linked, NEW S \in SUBSET linked,
             EndsAt(b, S, e, w), NEW q, q.chan # "dial" \/ q.chan = link[b].chan,
             link' = CutOff(b, S, e, w, q)
      PROVE  Dials = {}
  <2>1. \A l \in S : Passed(S, e, w)[l] = Passed(S \cup {b}, e, w)[l]
    BY <1>1 DEF Passed, RptTypes
  <2>2. \A l \in S : Counted(Passed(S, e, w)[l]).chan = link[l].chan
    <3>1. S \cup {b} \in SUBSET linked /\ Walks(S \cup {b}, e, w)
      BY <1>5 DEF EndsAt
    <3>2. \A l \in S \cup {b} :
             /\ Passed(S \cup {b}, e, w)[l].chan = link[l].chan
             /\ Passed(S \cup {b}, e, w)[l] \in Link
      BY <1>3, <3>1
    <3>3. \A l \in S : /\ Passed(S, e, w)[l].chan = link[l].chan
                       /\ Passed(S, e, w)[l] \in Link
      BY <2>1, <3>2
    <3> QED
      BY <3>3, AgedChan
  <2>3. \A l \in LinkIds : l # b => link'[l].chan = link[l].chan
    BY <1>5, <2>2 DEF CutOff
  <2>4. link'[b] = q
    BY <1>1, <1>5 DEF CutOff, RptTypes
  <2> QED
    BY <1>1, <1>5, <2>3, <2>4 DEF Dials, RptTypes
<1>6. ASSUME NEW b \in linked, NEW S \in SUBSET linked,
             \/ ConnectTooLong(b, S, e, w)
             \/ StartReconnect(b, S, e, w)
             \/ GiveUp(b, S, e, w)
      PROVE  Dials = {}
  <2> DEFINE r == Aged(link[b], e, b \in w)
  <2>1. EndsAt(b, S, e, w)
    BY <1>6 DEF ConnectTooLong, StartReconnect, GiveUp
  <2>2. b \in LinkIds /\ r \in Link /\ link[b] \in Link
    BY <1>1, <2>1, BreakSound, AtSound DEF Sound
  <2>3. r.chan = link[b].chan
    BY <2>2, AgedChan
  <2> HIDE DEF r
  <2>4. /\ [r EXCEPT !.soft = SoftHangup(r), !.elaptime = 0].chan = r.chan
        /\ [r EXCEPT !.retries = Spent(r)].chan = r.chan
        /\ Counted(r).chan = r.chan
        /\ Blank.chan = "none"
    BY <2>2, AgedChan DEF Link, Blank
  <2>5. PICK q : link' = CutOff(b, S, e, w, q)
                 /\ (q.chan # "dial" \/ q.chan = link[b].chan)
    BY <1>6, <2>3, <2>4 DEF ConnectTooLong, StartReconnect, GiveUp, r
  <2> QED
    BY <1>5, <2>1, <2>5
<1> QED
  BY <1>2, <1>4, <1>6

LEMMA CommandDialsNone ==
  ASSUME Inv, CommandStep
  PROVE  Dials = {}
<1>1. RptTypes /\ link \in [LinkIds -> Link]
  BY InvParts DEF Inv, TypeOK
<1>2. \A l \in LinkIds : \A how :
         /\ Dropped(link[l], how).chan = link[l].chan
         /\ [Dropped(link[l], how) EXCEPT !.hasconnected = TRUE].chan
               = link[l].chan
  BY <1>1 DEF RptTypes, Dropped, Link
<1>3. CASE link' = link
  BY <1>3 DEF Dials
<1>4. ASSUME NEW l \in linked, NEW perma,
             Disconnect(l, perma) \/ ConnectOtherMode(l, perma)
      PROVE  Dials = {}
  <2>1. l \in LinkIds
    BY <1>1 DEF RptTypes
  <2>2. PICK r : link' = [link EXCEPT ![l] = r] /\ r.chan = link[l].chan
    BY <1>2, <1>4, <2>1 DEF Disconnect, ConnectOtherMode
  <2> QED
    BY <1>1, <2>1, <2>2 DEF Dials, RptTypes
<1>5. CASE DisconnectAll
  BY <1>1, <1>2, <1>5 DEF DisconnectAll, Dials, RptTypes
<1>6. ASSUME NEW l \in LinkIds, DialOut(l)
      PROVE  Dials = {}
  BY <1>1, <1>6 DEF DialOut, Insert, Dials, RptTypes
<1> QED
  BY <1>3, <1>4, <1>5, <1>6
     DEF CommandStep, NoCommand, ConnectNew, DialFails, tableVars

LEMMA ReadDialsNone ==
  ASSUME Inv, ReadStep
  PROVE  Dials = {}
<1>1. RptTypes /\ link \in [LinkIds -> Link]
  BY InvParts DEF Inv, TypeOK
<1>2. CASE ReadOther
  BY <1>2 DEF ReadOther, Dials, tableVars
<1>3. CASE ReadAnswer
  BY <1>1, <1>3 DEF ReadAnswer, Reads, Answered, Dials, RptTypes, Link
<1>4. CASE ReadDisconnect
  BY <1>1, <1>4 DEF ReadDisconnect, Reads, Dropped, Dials, RptTypes, Link
<1>5. CASE ReadHangup
  <2>1. /\ Lingering(link[who]).chan = "none"
        /\ HungUp(link[who]).chan = "none"
        /\ Retrying(link[who]).chan = "none"
        /\ Blank.chan = "none"
        /\ who \in LinkIds
    BY <1>1, <1>5
       DEF ReadHangup, Reads, Lingering, HungUp, Retrying, Blank, RptTypes, Link
  <2>2. PICK r : link' = [link EXCEPT ![who] = r] /\ r.chan = "none"
    BY <1>5, <2>1 DEF ReadHangup, Remove
  <2> QED
    BY <1>1, <2>1, <2>2 DEF Dials, RptTypes
<1> QED
  BY <1>2, <1>3, <1>4, <1>5 DEF ReadStep

LEMMA OthersDialNone ==
  ASSUME Inv,
         \/ \E l \in linked : ReapKilled(l)
         \/ \E w \in LinkIds \cup {Other, NoLink} : Wait(w)
         \/ LookupFails \/ LookupDone \/ RedialFails
         \/ LifeStep
         \/ \E c \in Calls : CallStep(c)
         \/ UNCHANGED vars
  PROVE  Dials = {}
<1>1. RptTypes /\ InHand /\ link \in [LinkIds -> Link]
  BY InvParts DEF Inv, TypeOK
<1>2. Blank.chan = "none"
  BY DEF Blank
<1>3. CASE link' = link
  BY <1>3 DEF Dials
<1>4. ASSUME NEW l \in linked, ReapKilled(l)
      PROVE  Dials = {}
  BY <1>1, <1>2, <1>4 DEF ReapKilled, Remove, Dials, RptTypes
<1>5. CASE LookupFails \/ RedialFails
  <2>1. inhand \in LinkIds /\ link[inhand] \in Link
    BY <1>1, <1>5 DEF LookupFails, RedialFails, InHand, RptTypes
  <2>2. PICK r : link' = [link EXCEPT ![inhand] = r]
                 /\ r.chan = link[inhand].chan
    <3>1. /\ [link[inhand] EXCEPT !.retrytimer = RetryTime].chan
                = link[inhand].chan
          /\ [link[inhand] EXCEPT !.elaptime = 0, !.retrytimer = RetryTime].chan
                = link[inhand].chan
      BY <2>1 DEF Link
    <3> QED
      BY <1>5, <3>1 DEF LookupFails, RedialFails
  <2> QED
    BY <1>1, <2>1, <2>2 DEF Dials, RptTypes
<1>6. CASE FreeAll
  BY <1>1, <1>2, <1>6 DEF FreeAll, Dials, RptTypes
<1>7. ASSUME NEW c \in Calls, NEW l \in linked, CallKillsOld(c, l)
      PROVE  Dials = {}
  <2>1. l \in LinkIds /\ link[l] \in Link
    BY <1>1 DEF RptTypes
  <2>2. PICK r : link' = [link EXCEPT ![l] = r] /\ r.chan = link[l].chan
    <3>1. [link[l] EXCEPT !.killme = TRUE, !.disced = 2,
                          !.retries = Spent(link[l])].chan = link[l].chan
      BY <2>1 DEF Link
    <3> QED
      BY <1>7, <3>1 DEF CallKillsOld
  <2> QED
    BY <1>1, <2>1, <2>2 DEF Dials, RptTypes
<1>8. ASSUME NEW c \in Calls, NEW l \in LinkIds, CallInserts(c, l)
      PROVE  Dials = {}
  BY <1>1, <1>8 DEF CallInserts, Insert, Dials, RptTypes
<1>9. ASSUME NEW c \in Calls, CallStep(c)
      PROVE  Dials = {}
  BY <1>3, <1>7, <1>8, <1>9
     DEF CallStep, CallArrives, CallFindsNone, CallSleeps, CallEnds, tableVars
<1> QED
  BY <1>3, <1>4, <1>5, <1>6, <1>9
     DEF Wait, LookupDone, LifeStep, Leave, Restart, tableVars, vars

LEMMA RedialDials ==
  ASSUME Inv, Redial
  PROVE  Dials \subseteq {inhand} /\ Dialable(link[inhand])
<1>1. RptTypes /\ InHand /\ link \in [LinkIds -> Link]
  BY InvParts DEF Inv, TypeOK
<1> QED
  BY <1>1 DEF Redial, InHand, Dials, RptTypes

LEMMA DialStep ==
  ASSUME Inv, [Next]_vars
  PROVE  \A l \in Dials : /\ link[l].disced = 0 \/ link[l].killme
                          /\ ~IsRemote(link[l])
<1>1. CASE Redial
  BY <1>1, RedialDials DEF Dialable
<1>2. CASE Dials = {}
  BY <1>2
<1> QED
  BY <1>1, <1>2, TimersDialNone, CommandDialsNone, ReadDialsNone, OthersDialNone
     DEF Next, RptStep, ReconnectStep

-----------------------------------------------------------------------------
(* How the links go on from step to step, and which steps add one.         *)

\* The link that attempt_reconnect looks up is in the queue.
Held == pc = "lookup" => inhand \in linked

\* What connect_link found in the queue still holds when it inserts its link.
Searched ==
    pc = "dialout" =>
       \/ LiveLinks(order.name) = {}
       \/ \E k \in WithName(order.name) : link[k].disced # 0

\* The record q, unless it is leaving, is that of the link r, which is not
\* leaving either, after a move that LinkLife allows.
Continues(r, q) ==
    q.disced = 0 =>
       /\ r.disced = 0
       /\ q.name = r.name
       /\ r.chan = "none" => q.chan # "up"
       /\ r.chan = "up" => q.chan # "dial"

\* No link becomes live with the step.
NoneNew ==
    \A l \in LinkIds : Live(l)' => Live(l) /\ Continues(link[l], link'[l])

LEMMA HeldStep ==
  ASSUME Inv, Held, [Next]_vars
  PROVE  Held'
<1>1. CASE pc' # "lookup"
  BY <1>1 DEF Held
<1>2. AfterTimers # "lookup"
  BY DEF AfterTimers
<1>3. CASE TimersStep
  <2>1. PICK e \in {0, 1}, w \in SUBSET linked :
           \/ CountDown(e, w)
           \/ \E b \in linked, S \in SUBSET linked :
                 \/ ConnectTooLong(b, S, e, w)
                 \/ StartReconnect(b, S, e, w)
                 \/ GiveUp(b, S, e, w)
    BY <1>3 DEF TimersStep
  <2>2. CASE CountDown(e, w)
    BY <1>1, <1>2, <2>2 DEF CountDown
  <2>3. ASSUME NEW b \in linked, NEW S,
               ConnectTooLong(b, S, e, w) \/ GiveUp(b, S, e, w)
        PROVE  Held'
    BY <1>1, <1>2, <2>3 DEF ConnectTooLong, GiveUp
  <2>4. ASSUME NEW b \in linked, NEW S, StartReconnect(b, S, e, w)
        PROVE  Held'
    BY <1>2, <2>4 DEF StartReconnect, Held
  <2> QED
    BY <2>1, <2>2, <2>3, <2>4
<1>4. CASE ReconnectStep
  BY <1>1, <1>2, <1>4
     DEF ReconnectStep, LookupFails, LookupDone, RedialFails, Redial,
         Reconnected
<1>5. CASE CommandStep
  BY <1>1, <1>5
     DEF CommandStep, NoCommand, DisconnectAll, Disconnect, ConnectNew,
         ConnectOtherMode, DialFails, DialOut
<1>6. CASE \/ \E l \in linked : ReapKilled(l)
           \/ \E v \in LinkIds \cup {Other, NoLink} : Wait(v)
           \/ ReadStep \/ LifeStep
  BY <1>1, <1>6
     DEF ReapKilled, Wait, ReadStep, ReadOther, ReadAnswer, ReadDisconnect,
         ReadHangup, LifeStep, Leave, FreeAll, Restart, rptVars
<1>7. ASSUME NEW c \in Calls, CallStep(c)
      PROVE  Held'
  <2>1. linked \subseteq linked' /\ pc' = pc /\ inhand' = inhand
    BY <1>7 DEF CallStep, CallArrives, CallFindsNone, CallKillsOld,
                CallSleeps, CallInserts, Insert, CallEnds, tableVars, rptVars
  <2> QED
    BY <2>1 DEF Held
<1>8. CASE UNCHANGED vars
  BY <1>8 DEF vars, Held
<1> QED
  BY <1>3, <1>4, <1>5, <1>6, <1>7, <1>8 DEF Next, RptStep

LEMMA HeldAlways == Spec => [](Inv /\ Held)
<1>1. Init => Held
  BY DEF Init, Held
<1>2. Inv /\ Inv' /\ Held /\ [Next]_vars => Held'
  BY HeldStep
<1> QED
  BY <1>1, <1>2, InvInit, InvStep, PTL DEF Spec

LEMMA SearchedInit == Init => Searched
  BY DEF Init, Searched

LEMMA SearchedStep ==
  ASSUME Inv, Searched, [Next]_vars, Calls = {}
  PROVE  Searched'
<1>1. RptTypes /\ link \in [LinkIds -> Link]
  BY InvParts DEF Inv, TypeOK
<1>2. CASE pc' # "dialout"
  BY <1>2 DEF Searched
<1>3. ASSUME NEW l \in linked, NEW perma, ConnectOtherMode(l, perma)
      PROVE  Searched'
  <2>1. l \in LinkIds /\ link[l] \in Link
    BY <1>1 DEF RptTypes
  <2>2. Dropped(link[l], 2).disced = 2 /\ Dropped(link[l], 2).name = link[l].name
    BY <2>1 DEF Dropped, Link
  <2>3. link'[l].disced = 2 /\ link'[l].name = order'.name /\ l \in linked'
    BY <1>1, <1>3, <2>1, <2>2 DEF ConnectOtherMode
  <2>4. \E k \in WithName(order.name)' : link'[k].disced # 0
    BY <2>3 DEF WithName
  <2> QED
    BY <2>4 DEF Searched
<1>4. ASSUME NEW n \in Nodes, NEW perma, ConnectNew(n, perma)
      PROVE  Searched'
  <2>1. linked' = linked /\ link' = link /\ pc' = "dialout" /\ order'.name = n
    BY <1>4 DEF ConnectNew, tableVars
  <2>2. LiveLinks(order.name)' = {}
    BY <1>4, <2>1 DEF ConnectNew, LiveLinks, Live, WithName
  <2> QED
    BY <2>2 DEF Searched
<1>5. AfterTimers # "dialout"
  BY DEF AfterTimers
<1>6. CASE TimersStep
  <2>1. PICK e \in {0, 1}, w \in SUBSET linked :
           \/ CountDown(e, w)
           \/ \E b \in linked, S \in SUBSET linked :
                 \/ ConnectTooLong(b, S, e, w)
                 \/ StartReconnect(b, S, e, w)
                 \/ GiveUp(b, S, e, w)
    BY <1>6 DEF TimersStep
  <2>2. CASE CountDown(e, w)
    BY <1>2, <1>5, <2>2 DEF CountDown
  <2>3. ASSUME NEW b \in linked, NEW S,
               \/ ConnectTooLong(b, S, e, w)
               \/ StartReconnect(b, S, e, w)
               \/ GiveUp(b, S, e, w)
        PROVE  Searched'
    BY <1>2, <1>5, <2>3 DEF ConnectTooLong, StartReconnect, GiveUp
  <2> QED
    BY <2>1, <2>2, <2>3
<1>7. CASE ReconnectStep
  BY <1>2, <1>5, <1>7
     DEF ReconnectStep, LookupFails, LookupDone, RedialFails, Redial,
         Reconnected
<1>8. CASE CommandStep
  BY <1>2, <1>3, <1>4, <1>8
     DEF CommandStep, NoCommand, DisconnectAll, Disconnect, DialFails, DialOut
<1>9. CASE \/ \E l \in linked : ReapKilled(l)
           \/ \E v \in LinkIds \cup {Other, NoLink} : Wait(v)
           \/ ReadStep \/ LifeStep
  BY <1>2, <1>9
     DEF ReapKilled, Wait, ReadStep, ReadOther, ReadAnswer, ReadDisconnect,
         ReadHangup, LifeStep, Leave, FreeAll, Restart, rptVars
<1>10. CASE UNCHANGED vars
  BY <1>10 DEF vars, Searched, LiveLinks, Live, WithName
<1> QED
  BY <1>6, <1>7, <1>8, <1>9, <1>10 DEF Next, RptStep

LEMMA AgedContinues ==
  ASSUME NEW r \in Link, NEW e, NEW w
  PROVE  /\ Continues(r, Aged(r, e, w))
         /\ Continues(r, Counted(r))
         /\ \A q \in Link : Continues(q, r) => Continues(q, Counted(r))
  BY DEF Continues, Aged, Counted, Link

LEMMA TimersNoneNew ==
  ASSUME Inv, TimersStep
  PROVE  NoneNew
<1>1. RptTypes /\ SoundTable(link)
  BY InvParts
<1>2. PICK e \in {0, 1}, w \in SUBSET linked :
         \/ CountDown(e, w)
         \/ \E b \in linked, S \in SUBSET linked :
               \/ ConnectTooLong(b, S, e, w)
               \/ StartReconnect(b, S, e, w)
               \/ GiveUp(b, S, e, w)
  BY DEF TimersStep
<1>3. ASSUME NEW S \in SUBSET linked, NEW T \in SUBSET linked, S \subseteq T,
             Walks(T, e, w), NEW l \in S
      PROVE  Continues(link[l], Counted(Passed(S, e, w)[l]))
  <2>1. l \in LinkIds /\ l \in T
    BY <1>1, <1>3 DEF RptTypes
  <2>2. Sound(Aged(link[l], e, l \in w)) /\ link[l] \in Link
    BY <1>1, <1>3, <2>1, PassedSound, AtSound DEF Sound
  <2>3. Passed(S, e, w)[l] = Aged(link[l], e, l \in w)
    BY <2>1 DEF Passed
  <2> DEFINE a == Aged(link[l], e, l \in w)
  <2>4. Continues(link[l], a) /\ a \in Link
    BY <2>2, AgedContinues DEF Sound
  <2> HIDE DEF a
  <2>5. Continues(link[l], Counted(a))
    BY <2>2, <2>4, AgedContinues
  <2> QED
    BY <2>3, <2>5 DEF a
<1>4. \A l : Continues(link[l], link[l])
  BY DEF Continues
<1>5. pc = "timers" /\ pc' # "redial"
  <2>1. AfterTimers # "redial"
    BY DEF AfterTimers
  <2>2. CASE CountDown(e, w)
    BY <2>1, <2>2 DEF CountDown, Walks
  <2>3. ASSUME NEW b \in linked, NEW S,
               \/ ConnectTooLong(b, S, e, w)
               \/ StartReconnect(b, S, e, w)
               \/ GiveUp(b, S, e, w)
        PROVE  pc = "timers" /\ pc' # "redial"
    BY <2>1, <2>3
       DEF ConnectTooLong, StartReconnect, GiveUp, EndsAt, Walks
  <2> QED
    BY <1>2, <2>2, <2>3
<1>6. CASE CountDown(e, w)
  <2>1. \A l \in LinkIds : Continues(link[l], link'[l])
    BY <1>3, <1>4, <1>6 DEF CountDown
  <2> QED
    BY <1>5, <1>6, <2>1 DEF NoneNew, Live, CountDown
<1>7. ASSUME NEW b \in linked, NEW S \in SUBSET linked, EndsAt(b, S, e, w),
             NEW q, link' = CutOff(b, S, e, w, q), linked' \subseteq linked,
             b \in linked' => Continues(link[b], q)
      PROVE  NoneNew
  <2>1. S \cup {b} \in SUBSET linked /\ Walks(S \cup {b}, e, w)
    BY <1>7 DEF EndsAt
  <2>2. \A l \in S : Continues(link[l], Counted(Passed(S, e, w)[l]))
    BY <1>3, <2>1
  <2>3. \A l \in LinkIds : l # b => Continues(link[l], link'[l])
    BY <1>4, <1>7, <2>2 DEF CutOff
  <2>4. b \in LinkIds /\ link'[b] = q
    BY <1>1, <1>7 DEF CutOff, RptTypes
  <2> QED
    BY <1>5, <1>7, <2>3, <2>4 DEF NoneNew, Live
<1>8. ASSUME NEW b \in linked, NEW S \in SUBSET linked,
             \/ ConnectTooLong(b, S, e, w)
             \/ StartReconnect(b, S, e, w)
             \/ GiveUp(b, S, e, w)
      PROVE  NoneNew
  <2> DEFINE r == Aged(link[b], e, b \in w)
  <2>1. EndsAt(b, S, e, w)
    BY <1>8 DEF ConnectTooLong, StartReconnect, GiveUp
  <2>2. b \in LinkIds /\ r \in Link /\ link[b] \in Link
    BY <1>1, <2>1, BreakSound, AtSound DEF Sound
  <2>3. Continues(link[b], r)
    BY <2>2, AgedContinues
  <2> HIDE DEF r
  <2>4. /\ Continues(link[b],
                     [r EXCEPT !.soft = SoftHangup(r), !.elaptime = 0])
        /\ Continues(link[b], [r EXCEPT !.retries = Spent(r)])
    BY <2>2, <2>3 DEF Continues, Link
  <2>5. Continues(link[b], Counted(r))
    BY <2>2, <2>3, AgedContinues
  <2>6. PICK q : /\ link' = CutOff(b, S, e, w, q)
                 /\ b \in linked' => Continues(link[b], q)
    BY <1>8, <2>4, <2>5 DEF ConnectTooLong, StartReconnect, GiveUp, r
  <2>7. linked' \subseteq linked
    BY <1>8 DEF ConnectTooLong, StartReconnect, GiveUp
  <2> QED
    BY <1>7, <2>1, <2>6, <2>7
<1> QED
  BY <1>2, <1>6, <1>8

LEMMA OneNoneNew ==
  ASSUME Inv, NEW l \in LinkIds, NEW r, link' = [link EXCEPT ![l] = r],
         \A m \in LinkIds : Live(m)' => Live(m),
         Live(l)' => Continues(link[l], r)
  PROVE  NoneNew
<1>1. link \in [LinkIds -> Link]
  BY DEF Inv, TypeOK
<1>2. ASSUME NEW m \in LinkIds, Live(m)'
      PROVE  Continues(link[m], link'[m])
  <2>1. CASE m = l
    BY <1>1, <1>2, <2>1
  <2>2. CASE m # l
    BY <1>1, <2>2 DEF Continues
  <2> QED
    BY <2>1, <2>2
<1> QED
  BY <1>2 DEF NoneNew

\* Outside of attempt_reconnect, what is in the queue is what is live.
LEMMA FewerLive ==
  ASSUME linked' \subseteq linked, pc' # "redial"
  PROVE  \A m \in LinkIds : (Live(m)' => Live(m)) /\ (Live(m)' => m \in linked')
  BY DEF Live

LEMMA CommandNoneNew ==
  ASSUME Inv, CommandStep
  PROVE  NoneNew \/ \E l \in LinkIds : DialOut(l)
<1>1. RptTypes /\ link \in [LinkIds -> Link]
  BY InvParts DEF Inv, TypeOK
<1>2. \A l \in LinkIds : \A how \in {1, 2} :
         /\ Continues(link[l], Dropped(link[l], how))
         /\ Continues(link[l],
                      [Dropped(link[l], how) EXCEPT !.hasconnected = TRUE])
  BY <1>1 DEF Continues, Dropped, Link
<1>3. ASSUME link' = link, linked' = linked, pc' # "redial"
      PROVE  NoneNew
  BY <1>3 DEF NoneNew, Live, Continues
<1>4. ASSUME NEW l \in linked, NEW perma,
             Disconnect(l, perma) \/ ConnectOtherMode(l, perma)
      PROVE  NoneNew
  <2>1. l \in LinkIds
    BY <1>1 DEF RptTypes
  <2>2. PICK r : link' = [link EXCEPT ![l] = r] /\ Continues(link[l], r)
    BY <1>1, <1>2, <1>4, <2>1 DEF Disconnect, ConnectOtherMode
  <2>3. linked' = linked /\ pc' # "redial"
    BY <1>4 DEF Disconnect, ConnectOtherMode
  <2> QED
    BY <2>1, <2>2, <2>3, FewerLive, OneNoneNew
<1>5. CASE DisconnectAll
  <2>1. \A l \in LinkIds : Continues(link[l], link'[l])
    BY <1>2, <1>5 DEF DisconnectAll, Continues
  <2> QED
    BY <1>5, <2>1 DEF DisconnectAll, NoneNew, Live
<1> QED
  BY <1>3, <1>4, <1>5
     DEF CommandStep, NoCommand, ConnectNew, DialFails, tableVars

LEMMA ReadNoneNew ==
  ASSUME Inv, ReadStep
  PROVE  NoneNew
<1>1. RptTypes /\ link \in [LinkIds -> Link]
  BY InvParts DEF Inv, TypeOK
<1>2. CASE ReadOther
  BY <1>2 DEF ReadOther, NoneNew, Live, Continues, tableVars
<1>3. ASSUME Reads, ReadAnswer \/ ReadDisconnect \/ ReadHangup
      PROVE  NoneNew
  <2>1. who \in LinkIds /\ link[who] \in Link
    BY <1>1, <1>3 DEF Reads, RptTypes
  <2>2. /\ ReadAnswer => Continues(link[who], Answered(link[who]))
        /\ Continues(link[who], Dropped(link[who], 1))
    BY <2>1 DEF Continues, Answered, Dropped, Link, ReadAnswer
  <2>3. /\ Continues(link[who], Lingering(link[who]))
        /\ Continues(link[who], HungUp(link[who]))
        /\ Continues(link[who], Retrying(link[who]))
    BY <2>1 DEF Continues, Lingering, HungUp, Retrying, Link
  <2>4. PICK r : /\ link' = [link EXCEPT ![who] = r]
                 /\ who \in linked' => Continues(link[who], r)
    BY <1>3, <2>2, <2>3
       DEF ReadAnswer, ReadDisconnect, ReadHangup, Remove
  <2>5. linked' \subseteq linked /\ pc' # "redial"
    BY <1>3 DEF ReadAnswer, ReadDisconnect, ReadHangup, Remove
  <2> QED
    BY <2>1, <2>4, <2>5, FewerLive, OneNoneNew
<1> QED
  BY <1>2, <1>3 DEF ReadStep, ReadAnswer, ReadDisconnect, ReadHangup

LEMMA ReconnectNoneNew ==
  ASSUME Inv, Held, ReconnectStep
  PROVE  NoneNew
<1>1. RptTypes /\ InHand /\ link \in [LinkIds -> Link]
  BY InvParts DEF Inv, TypeOK
<1>2. inhand \in LinkIds /\ link[inhand] \in Link /\ link[inhand].chan = "none"
  BY <1>1 DEF ReconnectStep, LookupFails, LookupDone, RedialFails, Redial,
              InHand, Dialable, RptTypes
<1>3. CASE LookupDone
  <2>1. inhand \in linked /\ link' = link /\ inhand' = inhand
    BY <1>3 DEF LookupDone, Held
  <2> QED
    BY <1>3, <2>1 DEF LookupDone, NoneNew, Live, Continues
<1>4. ASSUME LookupFails \/ RedialFails \/ Redial
      PROVE  NoneNew
  <2>1. /\ Continues(link[inhand],
                     [link[inhand] EXCEPT !.retrytimer = RetryTime])
        /\ Continues(link[inhand],
                     [link[inhand] EXCEPT !.elaptime = 0,
                                          !.retrytimer = RetryTime])
        /\ Continues(link[inhand],
                     [link[inhand] EXCEPT !.elaptime = 0, !.chan = "dial"])
    BY <1>2 DEF Continues, Link
  <2>2. \/ link' = [link EXCEPT ![inhand] =
                      [@ EXCEPT !.retrytimer = RetryTime]]
        \/ link' = [link EXCEPT ![inhand] =
                      [@ EXCEPT !.elaptime = 0, !.retrytimer = RetryTime]]
        \/ link' = [link EXCEPT ![inhand] =
                      [@ EXCEPT !.elaptime = 0, !.chan = "dial"]]
    BY <1>1, <1>2, <1>4 DEF LookupFails, RedialFails, Redial, Link
  <2>3. PICK r : link' = [link EXCEPT ![inhand] = r]
                 /\ Continues(link[inhand], r)
    BY <1>1, <1>2, <2>1, <2>2
  <2>4. pc' # "redial"
    BY <1>4 DEF LookupFails, RedialFails, Redial, Reconnected, AfterTimers
  <2>5. linked' \subseteq linked \cup {inhand}
        /\ (inhand \in linked' /\ inhand \notin linked => pc = "redial")
    BY <1>4 DEF LookupFails, RedialFails, Redial
  <2>6. \A m \in LinkIds : Live(m)' => Live(m)
    BY <2>4, <2>5 DEF Live
  <2> QED
    BY <1>2, <2>3, <2>6, OneNoneNew
<1> QED
  BY <1>3, <1>4 DEF ReconnectStep

LEMMA OthersNoneNew ==
  ASSUME Inv,
         \/ \E l \in linked : ReapKilled(l)
         \/ \E w \in LinkIds \cup {Other, NoLink} : Wait(w)
         \/ LifeStep
         \/ UNCHANGED vars
  PROVE  NoneNew
<1>1. RptTypes
  BY InvParts
<1>2. ASSUME NEW l \in linked, ReapKilled(l)
      PROVE  NoneNew
  <2>1. l \in LinkIds /\ link' = [link EXCEPT ![l] = Blank]
        /\ linked' = linked \ {l} /\ pc' # "redial"
    BY <1>1, <1>2 DEF ReapKilled, Remove, rptVars, RptTypes
  <2> QED
    BY <2>1, FewerLive, OneNoneNew
<1>3. ASSUME NEW w \in LinkIds \cup {Other, NoLink}, Wait(w)
      PROVE  NoneNew
  BY <1>3 DEF Wait, NoneNew, Live, Continues, tableVars
<1>4. CASE LifeStep
  BY <1>4 DEF LifeStep, Leave, FreeAll, Restart, NoneNew, Live, Continues,
              tableVars
<1>5. CASE UNCHANGED vars
  BY <1>5 DEF vars, NoneNew, Live, Continues
<1> QED
  BY <1>2, <1>3, <1>4, <1>5

LEMMA CallNoneNew ==
  ASSUME Inv, NEW c \in Calls, CallStep(c)
  PROVE  NoneNew \/ \E l \in LinkIds : CallInserts(c, l)
<1>1. RptTypes /\ link \in [LinkIds -> Link]
  BY InvParts DEF Inv, TypeOK
<1>2. ASSUME NEW l \in linked, CallKillsOld(c, l)
      PROVE  NoneNew
  <2>1. l \in LinkIds /\ link[l] \in Link
    BY <1>1 DEF RptTypes
  <2> DEFINE r == [link[l] EXCEPT !.killme = TRUE, !.disced = 2,
                                  !.retries = Spent(link[l])]
  <2>2. link' = [link EXCEPT ![l] = r]
    BY <1>1, <1>2, <2>1 DEF CallKillsOld, Link
  <2>3. r.disced # 0
    BY <2>1 DEF Link
  <2> HIDE DEF r
  <2>4. Continues(link[l], r)
    BY <2>3 DEF Continues
  <2>5. \A m \in LinkIds : Live(m)' => Live(m)
    BY <1>2 DEF CallKillsOld, rptVars, Live
  <2> QED
    BY <2>1, <2>2, <2>4, <2>5, OneNoneNew
<1>3. ASSUME UNCHANGED <<tableVars, rptVars>>
      PROVE  NoneNew
  BY <1>3 DEF tableVars, rptVars, NoneNew, Live, Continues
<1> QED
  BY <1>2, <1>3
     DEF CallStep, CallArrives, CallFindsNone, CallSleeps, CallEnds

LEMMA NewLinks ==
  ASSUME Inv, Held, [Next]_vars
  PROVE  \/ NoneNew
         \/ \E l \in LinkIds : DialOut(l)
         \/ \E c \in Calls, l \in LinkIds : CallInserts(c, l)
<1>1. ASSUME NEW c \in Calls, CallStep(c)
      PROVE  NoneNew \/ \E l \in LinkIds : CallInserts(c, l)
  BY <1>1, CallNoneNew
<1> QED
  BY <1>1, TimersNoneNew, CommandNoneNew, ReadNoneNew, ReconnectNoneNew,
     OthersNoneNew DEF Next, RptStep

\* An insert adds one link, in a block that was free.
LEMMA OneNew ==
  ASSUME Inv, NEW l \in LinkIds \ heap, NEW r, Insert(l, r),
         inhand' = inhand, pc' = pc \/ pc' # "redial"
  PROVE  /\ ~Live(l)
         /\ link'[l] = r
         /\ \A m \in LinkIds : m # l /\ Live(m)' =>
                                Live(m) /\ link'[m] = link[m]
<1>1. RptTypes /\ InHand /\ link \in [LinkIds -> Link]
  BY InvParts DEF Inv, TypeOK
<1>2. ~Live(l)
  BY <1>1 DEF Live, RptTypes, InHand
<1>3. link'[l] = r /\ \A m \in LinkIds : m # l => link'[m] = link[m]
  BY <1>1 DEF Insert
<1>4. \A m \in LinkIds : m # l /\ Live(m)' => Live(m)
  BY DEF Insert, Live
<1> QED
  BY <1>2, <1>3, <1>4

LEMMA DialOutNew ==
  ASSUME Inv, NEW l \in LinkIds, DialOut(l)
  PROVE  /\ ~Live(l)
         /\ link'[l] = OutboundLink(order.name, order.perma)
         /\ \A m \in LinkIds : m # l /\ Live(m)' =>
                                Live(m) /\ link'[m] = link[m]
  BY OneNew DEF DialOut

LEMMA InsertsNew ==
  ASSUME Inv, NEW c \in Calls, NEW l \in LinkIds, CallInserts(c, l)
  PROVE  /\ ~Live(l)
         /\ link'[l] = InboundLink(call[c].name)
         /\ \A m \in LinkIds : m # l /\ Live(m)' =>
                                Live(m) /\ link'[m] = link[m]
  BY OneNew DEF CallInserts, rptVars

LEMMA LiveLinksStep ==
  ASSUME Inv, Held, Searched, [Next]_vars, Calls = {}
  PROVE  \A n \in Nodes :
            LiveLinks(n) # {} /\ LiveLinks(n)' \ LiveLinks(n) # {} =>
               \E k \in WithName(n) : link[k].disced # 0
<1>1. ASSUME NoneNew, NEW n \in Nodes
      PROVE  LiveLinks(n)' \subseteq LiveLinks(n)
  BY <1>1 DEF NoneNew, Continues, LiveLinks
<1>2. ASSUME NEW l \in LinkIds, DialOut(l), NEW n \in Nodes,
             LiveLinks(n) # {}, LiveLinks(n)' \ LiveLinks(n) # {}
      PROVE  \E k \in WithName(n) : link[k].disced # 0
  <2>1. PICK m \in LinkIds : m \in LiveLinks(n)' /\ m \notin LiveLinks(n)
    BY <1>2 DEF LiveLinks
  <2>2. m = l
    BY <1>2, <2>1, DialOutNew DEF LiveLinks
  <2>3. OutboundLink(order.name, order.perma).name = order.name
    BY DEF OutboundLink, Blank
  <2>4. order.name = n
    BY <1>2, <2>1, <2>2, <2>3, DialOutNew DEF LiveLinks
  <2> QED
    BY <1>2, <2>4 DEF DialOut, Searched
<1> QED
  BY <1>1, <1>2, NewLinks

\* What LinkLife sees of a link.
LEMMA LifeAt ==
  ASSUME Inv, NEW l \in LinkIds
  PROVE  /\ ~Live(l) => Life[l] = "absent"
         /\ Live(l) /\ link[l].disced # 0 => Life[l] = "leaving"
         /\ Live(l) /\ link[l].disced = 0 =>
               /\ link[l].chan = "none" => Life[l] = "waiting"
               /\ link[l].chan = "dial" => Life[l] = "calling"
               /\ link[l].chan = "up" => Life[l] = "up"
         /\ link[l].chan \in {"none", "dial", "up"}
<1>1. link[l] \in Link
  BY DEF Inv, TypeOK
<1> QED
  BY <1>1 DEF Life, LifeOf, Link

LEMMA LifeAtNext ==
  ASSUME Inv', NEW l \in LinkIds
  PROVE  /\ ~Live(l)' => Life'[l] = "absent"
         /\ Live(l)' /\ link'[l].disced # 0 => Life'[l] = "leaving"
         /\ Live(l)' /\ link'[l].disced = 0 =>
               /\ link'[l].chan = "none" => Life'[l] = "waiting"
               /\ link'[l].chan = "dial" => Life'[l] = "calling"
               /\ link'[l].chan = "up" => Life'[l] = "up"
         /\ link'[l].chan \in {"none", "dial", "up"}
<1>1. link'[l] \in Link
  BY DEF Inv, TypeOK
<1> QED
  BY <1>1 DEF Life, LifeOf, Link

LEMMA LifeMoves ==
  ASSUME Inv, Inv', Held, [Next]_vars, NEW l \in LinkIds
  PROVE  /\ Life'[l] \in LinkLife!States
         /\ Life'[l] = Life[l] \/ LinkLife!Moves(l)
<1> USE LifeAt, LifeAtNext DEF LinkLife!States, LinkLife!Moves, LinkLife!Follows
<1>1. CASE ~Live(l)'
  BY <1>1
<1>2. ASSUME Live(l)', Live(l), Continues(link[l], link'[l])
      PROVE  /\ Life'[l] \in LinkLife!States
             /\ Life'[l] = Life[l] \/ LinkLife!Moves(l)
  BY <1>2 DEF Continues
<1>3. ASSUME Live(l)', ~Live(l), link'[l].disced = 0, link'[l].chan # "none"
      PROVE  /\ Life'[l] \in LinkLife!States
             /\ Life'[l] = Life[l] \/ LinkLife!Moves(l)
  BY <1>3
<1>4. CASE NoneNew
  BY <1>1, <1>2, <1>4 DEF NoneNew
<1>5. ASSUME NEW m \in LinkIds, ~Live(m),
             link'[m].disced = 0, link'[m].chan # "none",
             \A k \in LinkIds : k # m /\ Live(k)' =>
                                Live(k) /\ link'[k] = link[k]
      PROVE  /\ Life'[l] \in LinkLife!States
             /\ Life'[l] = Life[l] \/ LinkLife!Moves(l)
  <2>1. CASE l # m /\ Live(l)'
    BY <1>2, <1>5, <2>1 DEF Continues
  <2> QED
    BY <1>1, <1>3, <1>5, <2>1
<1>6. ASSUME NEW m \in LinkIds, DialOut(m)
      PROVE  /\ Life'[l] \in LinkLife!States
             /\ Life'[l] = Life[l] \/ LinkLife!Moves(l)
  <2>1. OutboundLink(order.name, order.perma).disced = 0
        /\ OutboundLink(order.name, order.perma).chan = "dial"
    BY DEF OutboundLink, Blank
  <2> QED
    BY <1>5, <1>6, <2>1, DialOutNew
<1>7. ASSUME NEW c \in Calls, NEW m \in LinkIds, CallInserts(c, m)
      PROVE  /\ Life'[l] \in LinkLife!States
             /\ Life'[l] = Life[l] \/ LinkLife!Moves(l)
  <2>1. InboundLink(call[c].name).disced = 0
        /\ InboundLink(call[c].name).chan = "up"
    BY DEF InboundLink, Blank
  <2> QED
    BY <1>5, <1>7, <2>1, InsertsNew
<1> QED
  BY <1>4, <1>6, <1>7, NewLinks

-----------------------------------------------------------------------------
(* The theorems.                                                           *)

\* The invariant holds in every state.
THEOREM Invariance == Spec => []Inv
  BY InvInit, InvStep, PTL DEF Spec

\* The variables of the link table have their types in every state.
THEOREM TypeCorrect == Spec => []TypeOK
<1>1. Inv => TypeOK
  BY DEF Inv
<1> QED
  BY <1>1, Invariance, PTL

\* With a long that does not overflow, every link without a channel stays
\* subject to the timers that redial or remove it.
THEOREM NobodyStranded ==
  ASSUME LongWraps = FALSE
  PROVE  Spec => []NeverStranded
<1>1. Inv => NeverStranded
  BY DEF Inv, TypeOK, LinkInv, NeverStranded, Link
<1> QED
  BY <1>1, Invariance, PTL

\* No link with a channel is skipped by the wait and the reads.
THEOREM ChannelsServed == Spec => []ChannelIsServed
<1>1. Inv => ChannelIsServed
  BY DEF Inv, TypeOK, LinkInv, ChannelIsServed
<1> QED
  BY <1>1, Invariance, PTL

\* A disconnected link, or a link to a remote base, has no retries left.
THEOREM RetriesSpent == Spec => []NoRetriesLeft
<1>1. Inv => NoRetriesLeft
  BY DEF Inv, TypeOK, LinkInv, NoRetriesLeft
<1> QED
  BY <1>1, Invariance, PTL

\* Only a link that nobody disconnected, or that an inbound call marked after
\* the decision to redial, is dialled again, and no remote base is.
THEOREM NoRedial == Spec => NoRedialAfterDisconnect
<1>1. Inv /\ [Next]_vars =>
         [\A l \in heap :
            link[l].chan = "none" /\ link'[l].chan = "dial" =>
               /\ link[l].disced = 0 \/ link[l].killme
               /\ ~IsRemote(link[l])]_vars
  BY DialStep DEF Dials
<1> QED
  BY <1>1, Invariance, PTL DEF Spec, NoRedialAfterDisconnect

\* As long as nobody calls, a node with a live link gets a second one only if
\* the link that connect_link found was already on its way out.
THEOREM SecondBehindLeaving ==
  ASSUME Calls = {}
  PROVE  Spec => SecondLinkBehindLeaving
<1>1. Inv /\ Searched /\ [Next]_vars => Searched'
  BY SearchedStep
<1>2. Inv /\ Held /\ Searched /\ [Next]_vars =>
         [\A n \in Nodes :
            LiveLinks(n) # {} /\ LiveLinks(n)' \ LiveLinks(n) # {} =>
               \E k \in WithName(n) : link[k].disced # 0]_vars
  BY LiveLinksStep
<1> QED
  BY <1>1, <1>2, SearchedInit, HeldAlways, PTL
     DEF Spec, SecondLinkBehindLeaving

\* The link table implements the safety part of LinkLife: every link begins
\* absent and moves only as LinkLife lets it, so that a link that leaves never
\* comes back and a lost link comes up again only through a new call.
THEOREM LivesAsPromised == Spec => LinkLife!Init /\ [][LinkLife!Next]_Life
<1>1. Init => LinkLife!Init
  BY DEF Init, LinkLife!Init, Life, LifeOf, Live
<1>2. Inv /\ Held /\ Inv' /\ [Next]_vars => [LinkLife!Next]_Life
  <2> SUFFICES ASSUME Inv, Held, Inv', [Next]_vars
               PROVE  LinkLife!Next
    OBVIOUS
  <2>1. ASSUME NEW l \in LinkIds
        PROVE  /\ Life'[l] \in LinkLife!States
               /\ Life'[l] = Life[l] \/ LinkLife!Moves(l)
    BY LifeMoves
  <2>2. Life' = [l \in LinkIds |-> Life'[l]]
    BY DEF Life
  <2>3. Life' \in [LinkIds -> LinkLife!States]
    BY <2>1, <2>2
  <2> QED
    BY <2>1, <2>3 DEF LinkLife!Next
<1> QED
  BY <1>1, <1>2, HeldAlways, PTL DEF Spec
=============================================================================
