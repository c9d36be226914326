---------------------------- MODULE RptTeleProofs ----------------------------
(***************************************************************************)
(* Proofs about RptTele, for any number of blocks and every setting.       *)
(*                                                                         *)
(* The queue is a sequence: the first lemmas say what the insertion behind *)
(* the first and the removal of one element do to it.  Then every action   *)
(* is shown to preserve Inv.                                               *)
(***************************************************************************)
EXTENDS RptTele, SequenceTheorems, TLAPS

\* A block that was given its turn keeps active_telem until its end, unless the
\* end of another took it: then it is in cut.
TurnInv ==
    \A t \in Tele : kind[t] \notin Exempt /\ pc[t] \in {"setup", "speak"}
        => t \in cut \/ active = t

\* While rpt() does not run, only other threads order telemetry.
RadioInv == rpt \in {"off", "starts"} => \A t \in Queued : kind[t] = "OTHER"

Stands == {"absent", "queued", "stuck", "started", "held", "turn", "setup",
           "speak"}

\* The part of TypeOK about the queue.
QueueOK ==
    /\ queue \in Seq(Tele)
    /\ \A i, j \in DOMAIN queue : queue[i] = queue[j] => i = j
    /\ Queued = {queue[i] : i \in DOMAIN queue}

\* Only blocks that began their turn are cut.
CutInv == \A t \in cut : pc[t] \in {"setup", "speak"}

\* The exempt do not wait for a turn.
WaitInv == \A t \in Tele : pc[t] = "turn" => kind[t] \notin Exempt

Inv == TypeOK /\ ActiveIsLive /\ TurnInv /\ RadioInv /\ CutInv /\ WaitInv

-----------------------------------------------------------------------------
(* Sequences.                                                               *)

\* What InsertAt returns.
LEMMA InsertAtProps ==
    ASSUME NEW S, NEW s \in Seq(S), NEW i \in 1..(Len(s) + 1), NEW e \in S
    PROVE  /\ InsertAt(s, i, e) \in Seq(S)
           /\ Len(InsertAt(s, i, e)) = Len(s) + 1
           /\ \A j \in 1..(Len(s) + 1) : InsertAt(s, i, e)[j] =
                IF j < i THEN s[j] ELSE IF j = i THEN e ELSE s[j - 1]
<1> DEFINE a == SubSeq(s, 1, i - 1)
<1> DEFINE b == SubSeq(s, i, Len(s))
<1> DEFINE c == a \o <<e>>
<1>0. Len(s) \in Nat /\ \A j \in 1..Len(s) : s[j] \in S
    OBVIOUS
<1>1. a \in Seq(S) /\ Len(a) = i - 1 /\ \A j \in 1..(i - 1) : a[j] = s[j]
    BY <1>0, SubSeqProperties
<1>2. /\ b \in Seq(S) /\ Len(b) = Len(s) - i + 1
      /\ \A j \in 1..(Len(s) - i + 1) : b[j] = s[i + j - 1]
    BY <1>0, SubSeqProperties
<1>3. /\ <<e>> \in Seq(S) /\ Len(<<e>>) = 1 /\ <<e>>[1] = e
    OBVIOUS
<1> HIDE DEF a, b
<1>4. /\ c \in Seq(S) /\ Len(c) = i
      /\ \A j \in 1..i : c[j] = IF j < i THEN s[j] ELSE e
    <2>1. c \in Seq(S) /\ Len(c) = i
        BY <1>1, <1>3, ConcatProperties
    <2>2. \A j \in 1..i : c[j] = IF j <= i - 1 THEN a[j] ELSE <<e>>[j - (i - 1)]
        BY <1>1, <1>3, ConcatProperties
    <2> QED
        BY <2>1, <2>2, <1>1, <1>3
<1> HIDE DEF c
<1>5. /\ c \o b \in Seq(S) /\ Len(c \o b) = Len(s) + 1
      /\ \A j \in 1..(Len(s) + 1) : (c \o b)[j] =
            IF j <= i THEN c[j] ELSE b[j - i]
    <2>1. /\ c \o b \in Seq(S)
          /\ Len(c \o b) = Len(c) + Len(b)
          /\ \A j \in 1..(Len(c) + Len(b)) : (c \o b)[j] =
                IF j <= Len(c) THEN c[j] ELSE b[j - Len(c)]
        BY <1>2, <1>4, ConcatProperties
    <2>2. i + (Len(s) - i + 1) = Len(s) + 1
        BY <1>0
    <2> QED
        BY <2>1, <2>2, <1>2, <1>4
<1>6. InsertAt(s, i, e) = c \o b
    BY DEF InsertAt, a, b, c
<1> QED
    BY <1>0, <1>2, <1>4, <1>5, <1>6

\* What RemoveAt returns.
LEMMA RemoveAtProps ==
    ASSUME NEW S, NEW s \in Seq(S), NEW i \in 1..Len(s)
    PROVE  /\ RemoveAt(s, i) \in Seq(S)
           /\ Len(RemoveAt(s, i)) = Len(s) - 1
           /\ \A j \in 1..(Len(s) - 1) :
                RemoveAt(s, i)[j] = IF j < i THEN s[j] ELSE s[j + 1]
<1> DEFINE a == SubSeq(s, 1, i - 1)
<1> DEFINE b == SubSeq(s, i + 1, Len(s))
<1>0. Len(s) \in Nat /\ \A j \in 1..Len(s) : s[j] \in S
    OBVIOUS
<1>1. a \in Seq(S) /\ Len(a) = i - 1 /\ \A j \in 1..(i - 1) : a[j] = s[j]
    BY <1>0, SubSeqProperties
<1>2. /\ b \in Seq(S) /\ Len(b) = Len(s) - i
      /\ \A j \in 1..(Len(s) - i) : b[j] = s[i + j]
    BY <1>0, SubSeqProperties
<1> HIDE DEF a, b
<1>3. /\ a \o b \in Seq(S) /\ Len(a \o b) = Len(s) - 1
      /\ \A j \in 1..(Len(s) - 1) : (a \o b)[j] =
            IF j <= i - 1 THEN a[j] ELSE b[j - (i - 1)]
    <2>1. /\ a \o b \in Seq(S)
          /\ Len(a \o b) = Len(a) + Len(b)
          /\ \A j \in 1..(Len(a) + Len(b)) : (a \o b)[j] =
                IF j <= Len(a) THEN a[j] ELSE b[j - Len(a)]
        BY <1>1, <1>2, ConcatProperties
    <2>2. (i - 1) + (Len(s) - i) = Len(s) - 1
        BY <1>0
    <2> QED
        BY <2>1, <2>2, <1>1, <1>2
<1>4. RemoveAt(s, i) = a \o b
    BY DEF RemoveAt, a, b
<1> QED
    BY <1>0, <1>1, <1>2, <1>3, <1>4

\* The queue after a block was put into it.
LEMMA InsertedProps ==
    ASSUME queue \in Seq(Tele), NEW t \in Tele
    PROVE  /\ Place \in 1..(Len(queue) + 1)
           /\ Inserted(t) \in Seq(Tele)
           /\ DOMAIN Inserted(t) = 1..(Len(queue) + 1)
           /\ \A j \in 1..(Len(queue) + 1) : Inserted(t)[j] =
                IF j < Place THEN queue[j]
                ELSE IF j = Place THEN t ELSE queue[j - 1]
<1>1. Len(queue) \in Nat /\ (queue # <<>> => Len(queue) # 0)
    BY EmptySeq
<1>2. Place \in 1..(Len(queue) + 1)
    BY <1>1 DEF Place
<1>3. /\ InsertAt(queue, Place, t) \in Seq(Tele)
      /\ Len(InsertAt(queue, Place, t)) = Len(queue) + 1
      /\ \A j \in 1..(Len(queue) + 1) : InsertAt(queue, Place, t)[j] =
            IF j < Place THEN queue[j]
            ELSE IF j = Place THEN t ELSE queue[j - 1]
    <2> HIDE DEF Place
    <2> QED
        BY ONLY queue \in Seq(Tele), t \in Tele, <1>2, InsertAtProps
<1>4. DOMAIN InsertAt(queue, Place, t) = 1..(Len(queue) + 1)
    BY <1>3, LenProperties
<1> QED
    BY <1>2, <1>3, <1>4, Zenon DEF Inserted

\* A block that was not in use comes into the queue.
LEMMA EnqueueQueue ==
    ASSUME QueueOK, pc \in [Tele -> Stands], NEW t \in Tele, NEW k,
           Enqueue(t, k)
    PROVE  QueueOK' /\ Queued' = Queued \cup {t} /\ t \notin Queued
<1>1. /\ Place \in 1..(Len(queue) + 1)
      /\ queue' \in Seq(Tele)
      /\ DOMAIN queue' = 1..(Len(queue) + 1)
      /\ \A j \in 1..(Len(queue) + 1) : queue'[j] =
            IF j < Place THEN queue[j]
            ELSE IF j = Place THEN t ELSE queue[j - 1]
    BY InsertedProps DEF QueueOK, Enqueue
<1>2. Queued' = Queued \cup {t} /\ t \notin Queued
    BY DEF Enqueue, Queued, Stands
<1>3. Len(queue) \in Nat /\ DOMAIN queue = 1..Len(queue)
    BY DEF QueueOK
<1>4. \A i \in DOMAIN queue : queue[i] # t
    BY <1>2 DEF QueueOK
<1>5. ASSUME NEW i \in DOMAIN queue', NEW j \in DOMAIN queue',
             queue'[i] = queue'[j]
      PROVE  i = j
    <2> DEFINE old(n) == IF n < Place THEN n ELSE n - 1
    <2>1. i \in Nat /\ j \in Nat /\ Place \in Nat
        BY <1>1, <1>3
    <2>2. ASSUME NEW n \in DOMAIN queue', n # Place
          PROVE  old(n) \in DOMAIN queue /\ queue'[n] = queue[old(n)]
        BY <1>1, <1>3, <2>2
    <2>3. queue'[Place] = t
        BY <1>1
    <2>4. CASE i = Place \/ j = Place
        BY <2>2, <2>3, <2>4, <1>4, <1>5
    <2>5. CASE i # Place /\ j # Place
        <3>1. old(i) = old(j)
            BY <2>2, <2>5, <1>5 DEF QueueOK
        <3> QED
            BY <3>1, <2>1, <2>5
    <2> QED
        BY <2>4, <2>5
<1>6. {queue'[i] : i \in DOMAIN queue'} = {queue[i] : i \in DOMAIN queue} \cup {t}
    <2>1. ASSUME NEW i \in DOMAIN queue'
          PROVE  queue'[i] \in {queue[j] : j \in DOMAIN queue} \cup {t}
        BY <1>1, <1>3
    <2>2. ASSUME NEW i \in DOMAIN queue
          PROVE  queue[i] \in {queue'[j] : j \in DOMAIN queue'}
        <3>1. i < Place => queue'[i] = queue[i] /\ i \in DOMAIN queue'
            BY <1>1, <1>3
        <3>2. ~(i < Place) => queue'[i + 1] = queue[i] /\ i + 1 \in DOMAIN queue'
            BY <1>1, <1>3
        <3> QED
            BY <3>1, <3>2, <1>1
    <2>3. queue'[Place] = t /\ Place \in DOMAIN queue'
        BY <1>1, <1>3
    <2> QED
        BY <2>1, <2>2, <2>3
<1> QED
    BY <1>1, <1>2, <1>5, <1>6 DEF QueueOK

\* A block leaves the queue and is free.
LEMMA DequeueQueue ==
    ASSUME QueueOK, pc \in [Tele -> Stands], NEW t \in Tele,
           Dequeue(t), pc' = [pc EXCEPT ![t] = "absent"]
    PROVE  QueueOK' /\ Queued' = Queued \ {t} /\ t \in Queued
<1>1. PICK k \in DOMAIN queue : queue[k] = t /\ queue' = RemoveAt(queue, k)
    BY DEF Dequeue
<1>2. Len(queue) \in Nat /\ DOMAIN queue = 1..Len(queue)
    BY DEF QueueOK
<1>3. /\ queue' \in Seq(Tele)
      /\ DOMAIN queue' = 1..(Len(queue) - 1)
      /\ \A j \in 1..(Len(queue) - 1) :
            queue'[j] = IF j < k THEN queue[j] ELSE queue[j + 1]
    <2>1. /\ queue' \in Seq(Tele)
          /\ Len(queue') = Len(queue) - 1
          /\ \A j \in 1..(Len(queue) - 1) :
                queue'[j] = IF j < k THEN queue[j] ELSE queue[j + 1]
        <3>1. k \in 1..Len(queue)
            BY <1>1, <1>2
        <3>2. queue \in Seq(Tele)
            BY DEF QueueOK
        <3>3. /\ RemoveAt(queue, k) \in Seq(Tele)
              /\ Len(RemoveAt(queue, k)) = Len(queue) - 1
              /\ \A j \in 1..(Len(queue) - 1) :
                    RemoveAt(queue, k)[j] =
                        IF j < k THEN queue[j] ELSE queue[j + 1]
            BY <3>1, <3>2, RemoveAtProps
        <3> QED
            BY <3>3, <1>1
    <2>2. DOMAIN queue' = 1..Len(queue')
        BY <2>1
    <2> QED
        BY <2>1, <2>2
<1>4. Queued' = Queued \ {t} /\ t \in Queued
    <2>1. t \in Queued
        BY <1>1 DEF QueueOK
    <2>2. \A u \in Tele : pc'[u] = IF u = t THEN "absent" ELSE pc[u]
        OBVIOUS
    <2> QED
        BY <2>1, <2>2 DEF Queued
<1>5. ASSUME NEW i \in DOMAIN queue', NEW j \in DOMAIN queue',
             queue'[i] = queue'[j]
      PROVE  i = j
    <2> DEFINE old(n) == IF n < k THEN n ELSE n + 1
    <2>1. /\ i \in Nat /\ j \in Nat /\ k \in Nat
          /\ old(i) \in DOMAIN queue /\ old(j) \in DOMAIN queue
        BY <1>1, <1>2, <1>3
    <2>2. queue'[i] = queue[old(i)] /\ queue'[j] = queue[old(j)]
        BY <1>3
    <2>3. old(i) = old(j)
        BY <2>1, <2>2, <1>5 DEF QueueOK
    <2> QED
        BY <2>1, <2>3
<1>6. {queue'[i] : i \in DOMAIN queue'} = {queue[i] : i \in DOMAIN queue} \ {t}
    <2>1. ASSUME NEW i \in DOMAIN queue'
          PROVE  queue'[i] \in {queue[j] : j \in DOMAIN queue} \ {t}
        BY <1>1, <1>2, <1>3 DEF QueueOK
    <2>2. ASSUME NEW i \in DOMAIN queue, queue[i] # t
          PROVE  queue[i] \in {queue'[j] : j \in DOMAIN queue'}
        <3>1. i < k => queue'[i] = queue[i] /\ i \in DOMAIN queue'
            BY <1>1, <1>2, <1>3
        <3>2. i > k => queue'[i - 1] = queue[i] /\ i - 1 \in DOMAIN queue'
            BY <1>1, <1>2, <1>3
        <3>3. i # k
            BY <1>1, <2>2
        <3> QED
            BY <3>1, <3>2, <3>3, <1>2
    <2> QED
        BY <2>1, <2>2
<1> QED
    BY <1>3, <1>4, <1>5, <1>6 DEF QueueOK

\* TypeOK in two parts.
LEMMA TypeParts ==
    TypeOK <=> /\ QueueOK
               /\ kind \in [Tele -> Kinds]
               /\ pc \in [Tele -> Stands]
               /\ killed \subseteq Queued /\ hung \subseteq Queued
               /\ cut \subseteq Queued
               /\ active \in Tele \cup {None}
               /\ rpt \in {"starts", "runs", "talkover", "identify", "drains",
                           "off", "crashed"}
               /\ due \in BOOLEAN
    BY DEF TypeOK, QueueOK, Stands

-----------------------------------------------------------------------------
(* The actions.                                                             *)

\* A step that leaves the queue alone and moves a thread from one place in the
\* queue to another.
LEMMA MoveQueue ==
    ASSUME QueueOK, pc \in [Tele -> Stands], NEW t \in Tele, pc[t] # "absent",
           NEW p \in Stands \ {"absent"},
           pc' = [pc EXCEPT ![t] = p], UNCHANGED queue
    PROVE  QueueOK' /\ Queued' = Queued /\ pc' \in [Tele -> Stands]
<1>1. Queued' = Queued
    BY DEF Queued
<1> QED
    BY <1>1 DEF QueueOK

\* The steps of a thread that neither begin nor end its turn.
LEMMA MovePreserves ==
    ASSUME Inv, NEW t \in Tele, pc[t] # "absent",
           NEW p \in Stands \ {"absent"},
           pc' = [pc EXCEPT ![t] = p],
           UNCHANGED <<queue, kind, killVars, active, rpt, cut, due>>,
           pc[t] \in {"setup", "speak"} => p \in {"setup", "speak"},
           p \in {"setup", "speak"} =>
                pc[t] \in {"setup", "speak"} \/ kind[t] \in Exempt,
           p = "turn" => kind[t] \notin Exempt
    PROVE  Inv'
<1>1. QueueOK' /\ Queued' = Queued /\ pc' \in [Tele -> Stands]
    BY MoveQueue, TypeParts DEF Inv
<1>2. TypeOK'
    BY <1>1, TypeParts DEF Inv, TypeOK, QueueOK, killVars, Stands
<1>3. \A u \in Tele : pc'[u] = IF u = t THEN p ELSE pc[u]
    BY TypeParts DEF Inv
<1>4. ActiveIsLive'
    BY <1>3, TypeParts DEF Inv, ActiveIsLive
<1>5. TurnInv'
    BY <1>3 DEF Inv, TurnInv
<1>6. RadioInv'
    BY <1>1 DEF Inv, RadioInv
<1>7. CutInv' /\ WaitInv'
    BY <1>3, TypeParts DEF Inv, CutInv, WaitInv, Queued
<1> QED
    BY <1>2, <1>4, <1>5, <1>6, <1>7 DEF Inv

\* A block is put into the queue, while rpt() runs or by another thread.
LEMMA EnqueuePreserves ==
    ASSUME Inv, NEW t \in Tele, NEW k \in Kinds, Enqueue(t, k),
           UNCHANGED <<killVars, active, cut, due>>,
           rpt' = rpt \/ rpt' = "runs",
           k = "OTHER" \/ rpt' \notin {"off", "starts"}
    PROVE  Inv'
<1>1. QueueOK' /\ Queued' = Queued \cup {t} /\ t \notin Queued
    BY EnqueueQueue, TypeParts DEF Inv
<1>2. /\ pc' \in [Tele -> Stands] /\ kind' \in [Tele -> Kinds]
      /\ \A u \in Tele : /\ pc'[u] = IF u = t THEN "queued" ELSE pc[u]
                         /\ kind'[u] = IF u = t THEN k ELSE kind[u]
    BY TypeParts DEF Inv, Enqueue, Stands
<1>3. TypeOK'
    <2>1. /\ killed' \subseteq Queued' /\ hung' \subseteq Queued'
          /\ cut' \subseteq Queued'
        BY <1>1, TypeParts DEF Inv, killVars
    <2>2. /\ active' \in Tele \cup {None} /\ due' \in BOOLEAN
          /\ rpt' \in {"starts", "runs", "talkover", "identify", "drains",
                       "off", "crashed"}
        BY TypeParts DEF Inv
    <2> QED
        BY <1>1, <1>2, <2>1, <2>2 DEF TypeOK, QueueOK, Stands
<1>4. pc[t] = "absent"
    BY DEF Enqueue
<1>5. ActiveIsLive'
    BY <1>2, <1>4, TypeParts DEF Inv, ActiveIsLive
<1>6. TurnInv'
    BY <1>2 DEF Inv, TurnInv
<1>7. RadioInv'
    BY <1>1, <1>2 DEF Inv, RadioInv, Queued
<1>8. CutInv' /\ WaitInv'
    BY <1>2, <1>4, TypeParts DEF Inv, CutInv, WaitInv, Queued
<1> QED
    BY <1>3, <1>5, <1>6, <1>7, <1>8 DEF Inv

\* What Leave does to everything but the turn.
LEMMA LeaveProps ==
    ASSUME Inv, NEW t \in Tele, Leave(t)
    PROVE  /\ QueueOK'
           /\ Queued' = Queued \ {t}
           /\ pc' \in [Tele -> Stands] /\ kind' \in [Tele -> Kinds]
           /\ \A u \in Tele :
                /\ pc'[u] = IF u = t THEN "absent" ELSE pc[u]
                /\ kind'[u] = IF u = t THEN "OTHER" ELSE kind[u]
           /\ killed' \subseteq Queued' /\ hung' \subseteq Queued'
           /\ rpt' = rpt
           /\ RadioInv'
<1>1. QueueOK' /\ Queued' = Queued \ {t} /\ t \in Queued
    BY DequeueQueue, TypeParts DEF Inv, Leave
<1>2. /\ pc' \in [Tele -> Stands] /\ kind' \in [Tele -> Kinds]
      /\ \A u \in Tele : /\ pc'[u] = IF u = t THEN "absent" ELSE pc[u]
                         /\ kind'[u] = IF u = t THEN "OTHER" ELSE kind[u]
    BY TypeParts DEF Inv, Leave, Stands, Kinds
<1>3. killed' \subseteq Queued' /\ hung' \subseteq Queued' /\ rpt' = rpt
    BY <1>1, TypeParts DEF Inv, Leave
<1>4. RadioInv'
    BY <1>1, <1>2, <1>3 DEF Inv, RadioInv, Queued
<1> QED
    BY <1>1, <1>2, <1>3, <1>4

\* A block that ends takes the turn of whoever has it; that one is then cut.
LEMMA EndPreserves ==
    ASSUME Inv, NEW t \in Tele, Leave(t), EndTurn(t), due' \in BOOLEAN
    PROVE  Inv'
<1>1. cut' \subseteq Queued'
    <2>1. active # None => active \in Queued
        BY TypeParts DEF Inv, ActiveIsLive, Queued
    <2> QED
        BY <2>1, LeaveProps, TypeParts DEF Inv, EndTurn
<1>2. TypeOK'
    <2>1. active' \in Tele \cup {None}
        BY DEF EndTurn
    <2>2. rpt' \in {"starts", "runs", "talkover", "identify", "drains",
                    "off", "crashed"}
        BY LeaveProps, TypeParts DEF Inv
    <2> QED
        BY <1>1, <2>1, <2>2, LeaveProps DEF TypeOK, QueueOK, Stands
<1>3. ActiveIsLive'
    BY DEF EndTurn, ActiveIsLive
<1>4. TurnInv'
    <2> SUFFICES ASSUME NEW u \in Tele, kind'[u] \notin Exempt,
                        pc'[u] \in {"setup", "speak"}
                 PROVE  u \in cut'
        BY DEF TurnInv
    <2>1. u # t /\ pc'[u] = pc[u] /\ kind'[u] = kind[u]
        BY LeaveProps
    <2>2. u \in cut \/ active = u
        BY <2>1 DEF Inv, TurnInv
    <2> QED
        BY <2>1, <2>2, NoneAssumption DEF EndTurn
<1>5. CutInv' /\ WaitInv'
    BY LeaveProps, TypeParts DEF Inv, CutInv, WaitInv, ActiveIsLive, EndTurn,
                                 Queued
<1> QED
    BY <1>2, <1>3, <1>4, <1>5, LeaveProps DEF Inv

\* A block that has had no turn leaves.
LEMMA NoChannelPreserves ==
    ASSUME Inv, NEW t \in Tele, NoChannel(t)
    PROVE  Inv'
<1>1. Leave(t) /\ pc[t] = "started" /\ UNCHANGED <<active, cut>>
      /\ due' \in BOOLEAN
    BY TypeParts DEF NoChannel, Inv
<1>2. active # t
    BY <1>1, NoneAssumption DEF Inv, ActiveIsLive
<1>3. ActiveIsLive'
    BY <1>1, <1>2, LeaveProps, TypeParts DEF Inv, ActiveIsLive
<1>4. TurnInv'
    <2> SUFFICES ASSUME NEW u \in Tele, kind'[u] \notin Exempt,
                        pc'[u] \in {"setup", "speak"}
                 PROVE  u \in cut' \/ active' = u
        BY DEF TurnInv
    <2>1. pc'[u] = pc[u] /\ kind'[u] = kind[u]
        BY <1>1, LeaveProps
    <2> QED
        BY <2>1, <1>1 DEF Inv, TurnInv
<1>5. cut' \subseteq Queued' /\ CutInv'
    <2>1. t \notin cut
        BY <1>1 DEF Inv, CutInv
    <2>2. cut \subseteq Queued /\ cut \subseteq Tele
        BY TypeParts DEF Inv, Queued
    <2>3. cut' \subseteq Queued'
        BY <2>1, <2>2, <1>1, LeaveProps
    <2>4. \A u \in cut : pc'[u] = pc[u]
        BY <2>1, <2>2, <1>1, LeaveProps
    <2> QED
        BY <2>3, <2>4, <1>1 DEF Inv, CutInv
<1>6. TypeOK'
    <2>1. active' \in Tele \cup {None} /\ due' \in BOOLEAN
        BY <1>1, TypeParts DEF Inv
    <2>2. rpt' \in {"starts", "runs", "talkover", "identify", "drains",
                    "off", "crashed"}
        BY <1>1, LeaveProps, TypeParts DEF Inv
    <2> QED
        BY <1>1, <1>5, <2>1, <2>2, LeaveProps DEF TypeOK, QueueOK, Stands
<1>7. WaitInv'
    BY <1>1, LeaveProps DEF Inv, WaitInv
<1> QED
    BY <1>1, <1>3, <1>4, <1>5, <1>6, <1>7, LeaveProps DEF Inv

\* A block takes the turn that nobody has.
LEMMA TakeTurnPreserves ==
    ASSUME Inv, NEW t \in Tele, TakeTurn(t)
    PROVE  Inv'
<1>1. /\ pc[t] = "turn" /\ active = None /\ active' = t
      /\ pc' = [pc EXCEPT ![t] = "setup"]
      /\ UNCHANGED <<queue, kind, killVars, rpt, cut, due>>
    BY DEF TakeTurn, MyTurn
<1>2. QueueOK' /\ Queued' = Queued /\ pc' \in [Tele -> Stands]
    <2>1. "setup" \in Stands \ {"absent"}
        BY DEF Stands
    <2> QED
        BY <1>1, <2>1, MoveQueue, TypeParts DEF Inv
<1>3. \A u \in Tele : pc'[u] = IF u = t THEN "setup" ELSE pc[u]
    BY <1>1, TypeParts DEF Inv
<1>4. TypeOK'
    BY <1>1, <1>2, TypeParts DEF Inv, TypeOK, QueueOK, killVars, Stands
<1>5. ActiveIsLive'
    <2>1. active' = t /\ kind'[t] = kind[t] /\ pc'[t] = "setup"
        BY <1>1, <1>3
    <2>2. kind[t] \notin Exempt
        BY <1>1 DEF Inv, WaitInv
    <2> QED
        BY <2>1, <2>2 DEF ActiveIsLive, Exempt
<1>6. TurnInv'
    BY <1>1, <1>3, NoneAssumption DEF Inv, TurnInv
<1>7. WaitInv'
    BY <1>1, <1>3 DEF Inv, WaitInv
<1>8. RadioInv'
    BY <1>1, <1>2 DEF Inv, RadioInv
<1>9. CutInv'
    <2>1. cut \subseteq Tele
        BY TypeParts DEF Inv, Queued
    <2> QED
        BY <2>1, <1>1, <1>3 DEF Inv, CutInv
<1> QED
    BY <1>4, <1>5, <1>6, <1>7, <1>8, <1>9 DEF Inv

\* Any step of the thread of a block.
LEMMA TeleStepPreserves ==
    ASSUME Inv, NEW t \in Tele, TeleStep(t)
    PROVE  Inv'
<1>0. pc \in [Tele -> Stands]
    BY TypeParts DEF Inv
<1>1. CASE CreateThread(t)
    <2>1. "started" \in Stands \ {"absent"}
        BY DEF Stands
    <2> QED
        BY <1>1, <2>1, MovePreserves DEF CreateThread
<1>2. CASE ThreadFails(t)
    <2>1. "stuck" \in Stands \ {"absent"}
        BY DEF Stands
    <2> QED
        BY <1>2, <2>1, MovePreserves DEF ThreadFails
<1>3. CASE NoChannel(t)
    BY <1>3, NoChannelPreserves
<1>4. CASE GetChannel(t)
    <2>1. "held" \in Stands \ {"absent"}
        BY DEF Stands
    <2> QED
        BY <1>4, <2>1, MovePreserves DEF GetChannel
<1>5. CASE PassPage(t)
    <2>1. {"setup", "turn"} \subseteq Stands \ {"absent"}
        BY DEF Stands
    <2>2. CASE kind[t] \in Exempt
        BY <1>5, <2>1, <2>2, MovePreserves DEF PassPage
    <2>3. CASE kind[t] \notin Exempt
        BY <1>5, <2>1, <2>3, MovePreserves DEF PassPage
    <2> QED
        BY <2>2, <2>3
<1>6. CASE TakeTurn(t)
    BY <1>6, TakeTurnPreserves
<1>7. CASE Join(t)
    <2>1. "speak" \in Stands \ {"absent"}
        BY DEF Stands
    <2> QED
        BY <1>7, <2>1, MovePreserves DEF Join
<1>8. CASE JoinFails(t)
    <2>1. due' \in BOOLEAN
        BY <1>8, TypeParts DEF Inv, JoinFails
    <2> QED
        BY <1>8, <2>1, EndPreserves DEF JoinFails
<1>9. CASE Done(t)
    <2>1. due' \in BOOLEAN
        BY <1>9, TypeParts DEF Inv, Done
    <2> QED
        BY <1>9, <2>1, EndPreserves DEF Done
<1> QED
    BY <1>1, <1>2, <1>3, <1>4, <1>5, <1>6, <1>7, <1>8, <1>9 DEF TeleStep

\* The steps of rpt() that leave the queue and the turns alone.
LEMMA RptPreserves ==
    ASSUME Inv, UNCHANGED <<queue, teleVars, active, cut>>,
           killed' \subseteq Queued, hung' \subseteq Queued, due' \in BOOLEAN,
           rpt' \in {"starts", "runs", "talkover", "identify", "drains",
                    "off", "crashed"},
           rpt' \in {"off", "starts"} =>
                rpt \in {"off", "starts"} \/ queue = <<>>
    PROVE  Inv'
<1>1. Queued' = Queued
    BY DEF Queued, teleVars
<1>2. QueueOK'
    BY <1>1, TypeParts DEF Inv, QueueOK
<1>3. TypeOK'
    BY <1>1, <1>2, TypeParts DEF Inv, TypeOK, QueueOK, teleVars, Stands
<1>4. ActiveIsLive' /\ TurnInv' /\ CutInv' /\ WaitInv'
    BY DEF Inv, ActiveIsLive, TurnInv, CutInv, WaitInv, teleVars
<1>5. RadioInv'
    <2>1. queue = <<>> => Queued = {}
        BY TypeParts DEF Inv, QueueOK
    <2> QED
        BY <1>1, <2>1 DEF Inv, RadioInv, teleVars
<1> QED
    BY <1>3, <1>4, <1>5 DEF Inv

\* A kill marks queued blocks.
LEMMA KillProps ==
    ASSUME Inv, NEW ks, Kill(Alive(ks))
    PROVE  killed' \subseteq Queued /\ hung' \subseteq Queued /\ due' \in BOOLEAN
<1>1. Alive(ks) \subseteq Queued
    BY DEF Alive
<1> QED
    BY <1>1, TypeParts DEF Inv, Kill

\* Any step of rpt().
LEMMA RptStepPreserves ==
    ASSUME Inv, RptStep
    PROVE  Inv'
<1>0. /\ killed \subseteq Queued /\ hung \subseteq Queued /\ due \in BOOLEAN
      /\ rpt \in {"starts", "runs", "talkover", "identify", "drains", "off",
                  "crashed"}
    BY TypeParts DEF Inv
<1>1. CASE KeyedOver
    <2>1. killed' \subseteq Queued /\ hung' \subseteq Queued /\ due' \in BOOLEAN
        BY <1>1, KillProps DEF KeyedOver
    <2> QED
        BY <1>1, <2>1, RptPreserves DEF KeyedOver
<1>2. CASE OrderId
    <2>1. killed' \subseteq Queued /\ hung' \subseteq Queued /\ due' \in BOOLEAN
        BY <1>2, KillProps DEF OrderId
    <2> QED
        BY <1>2, <2>1, RptPreserves DEF OrderId
<1>3. ASSUME NEW t \in Tele, Say(t)
      PROVE  Inv'
    <2> DEFINE k == IF rpt = "talkover" THEN "IDTALKOVER" ELSE "ID"
    <2>1. k \in Kinds
        BY DEF Kinds
    <2>2. Enqueue(t, k) /\ rpt' = "runs" /\ UNCHANGED <<killVars, active, cut, due>>
        BY <1>3 DEF Say
    <2> HIDE DEF k
    <2> QED
        BY <2>1, <2>2, EnqueuePreserves
<1>4. CASE Flush
    <2>1. hung' \subseteq Queued
        BY <1>0, <1>4 DEF Flush, HangUpAll
    <2> QED
        BY <1>0, <1>4, <2>1, RptPreserves DEF Flush, HangUpAll
<1>5. CASE Drain
    BY <1>0, <1>5, RptPreserves DEF Drain, killVars
<1>6. CASE HangUpRadio
    BY <1>0, <1>6, RptPreserves DEF HangUpRadio, killVars
<1>7. CASE Restart
    <2>1. hung' \subseteq Queued
        BY <1>0, <1>7 DEF Restart, HangUpAll
    <2> QED
        BY <1>0, <1>7, <2>1, RptPreserves DEF Restart, HangUpAll
<1>8. CASE Begin
    BY <1>0, <1>8, RptPreserves DEF Begin, killVars
<1> QED
    BY <1>1, <1>2, <1>3, <1>4, <1>5, <1>6, <1>7, <1>8 DEF RptStep

\* Inv is an invariant.
LEMMA Invariance == Spec => []Inv
<1>1. Init => Inv
    <2> SUFFICES ASSUME Init PROVE Inv
        OBVIOUS
    <2>1. Queued = {} /\ queue \in Seq(Tele) /\ DOMAIN queue = {}
        BY EmptySeq DEF Init, Queued
    <2>2. TypeOK
        BY <2>1 DEF Init, TypeOK, Kinds
    <2> QED
        BY <2>1, <2>2 DEF Init, Inv, ActiveIsLive, TurnInv, RadioInv, CutInv,
                        WaitInv
<1>2. Inv /\ [Next]_vars => Inv'
    <2> SUFFICES ASSUME Inv, [Next]_vars PROVE Inv'
        OBVIOUS
    <2>1. ASSUME NEW t \in Tele, TeleStep(t)
          PROVE  Inv'
        BY <2>1, TeleStepPreserves
    <2>2. ASSUME NEW t \in Tele, NEW k \in Ordered, Arrives(t, k)
          PROVE  Inv'
        <3>1. k \in Kinds
            BY OrderedAssumption DEF Kinds
        <3>2. /\ Enqueue(t, k) /\ rpt' = rpt
              /\ UNCHANGED <<killVars, active, cut, due>>
              /\ k = "OTHER" \/ rpt = "runs"
            BY <2>2 DEF Arrives
        <3> QED
            BY <3>1, <3>2, EnqueuePreserves
    <2>3. CASE RptStep
        BY <2>3, RptStepPreserves
    <2>4. CASE UNCHANGED vars
        <3>1. killed \subseteq Queued /\ hung \subseteq Queued /\ due \in BOOLEAN
            BY TypeParts DEF Inv
        <3>2. rpt \in {"starts", "runs", "talkover", "identify", "drains",
                       "off", "crashed"}
            BY TypeParts DEF Inv
        <3> QED
            BY <2>4, <3>1, <3>2, RptPreserves DEF vars, killVars
    <2> QED
        BY <2>1, <2>2, <2>3, <2>4 DEF Next
<1> QED
    BY <1>1, <1>2, PTL DEF Spec

\* The types, and that the queue holds every block in use exactly once, however
\* threads insert and remove blocks.
THEOREM TypeCorrect == Spec => []TypeOK
BY Invariance, PTL DEF Inv

\* active_telem never points to a block that was freed (rpt_tele_thread 9143-9157,
\* 10697).
THEOREM ActiveLives == Spec => []ActiveIsLive
BY Invariance, PTL DEF Inv

\* Two blocks that wait for turns never speak at once, unless one was cut.
THEOREM VoicesApart == Spec => []OneVoice
<1>1. Inv => OneVoice
    <2> SUFFICES ASSUME Inv, NEW t \in Voices, NEW u \in Voices, t # u
                 PROVE  {t, u} \cap cut # {}
        BY DEF OneVoice
    <2>1. (t \in cut \/ active = t) /\ (u \in cut \/ active = u)
        BY DEF Inv, TurnInv, Voices
    <2> QED
        BY <2>1
<1> QED
    BY <1>1, Invariance, PTL

\* No page uses the radio's channels after rpt() hung them up.
THEOREM PagesEnd == Spec => []RadioHeld
<1>1. Inv => RadioHeld
    BY DEF Inv, RadioInv, RadioHeld
<1> QED
    BY <1>1, Invariance, PTL

-----------------------------------------------------------------------------
(* Overtaking.                                                              *)

\* An insertion behind the first adds nothing behind any other.
LEMMA EnqueueOrder ==
    ASSUME QueueOK, pc \in [Tele -> Stands], NEW t \in Tele, NEW k,
           Enqueue(t, k), NEW u \in Queued, u # queue[1]
    PROVE  Before(u)' \subseteq Before(u)
<1>1. /\ Place \in 1..(Len(queue) + 1)
      /\ DOMAIN queue' = 1..(Len(queue) + 1)
      /\ \A j \in 1..(Len(queue) + 1) : queue'[j] =
            IF j < Place THEN queue[j]
            ELSE IF j = Place THEN t ELSE queue[j - 1]
    BY InsertedProps DEF QueueOK, Enqueue
<1>2. Len(queue) \in Nat /\ DOMAIN queue = 1..Len(queue)
    BY DEF QueueOK
<1>3. u # t
    BY EnqueueQueue
<1>4. Place = 2
    <2>1. queue # <<>>
        <3>1. DOMAIN queue # {}
            BY DEF QueueOK
        <3> QED
            BY <3>1, <1>2, EmptySeq
    <2> QED
        BY <2>1 DEF Place
<1>5. SUFFICES ASSUME NEW j \in DOMAIN queue', NEW i \in DOMAIN queue',
                      i < j, queue'[i] = u
               PROVE  queue'[j] \in Before(u)
    BY DEF Before
<1>6. i \in Nat /\ j \in Nat /\ i > 2 /\ j > 3
    BY <1>1, <1>2, <1>3, <1>4, <1>5
<1>7. /\ i - 1 \in DOMAIN queue /\ j - 1 \in DOMAIN queue /\ i - 1 < j - 1
      /\ queue[i - 1] = u /\ queue'[j] = queue[j - 1]
    BY <1>1, <1>2, <1>4, <1>5, <1>6
<1> QED
    BY <1>7 DEF Before

\* A removal keeps the order of the others.
LEMMA DequeueOrder ==
    ASSUME QueueOK, NEW t \in Tele, Dequeue(t), NEW u
    PROVE  Before(u)' \subseteq Before(u)
<1>1. PICK k \in DOMAIN queue : queue[k] = t /\ queue' = RemoveAt(queue, k)
    BY DEF Dequeue
<1>2. /\ queue \in Seq(Tele)
      /\ Len(queue) \in Nat /\ DOMAIN queue = 1..Len(queue)
      /\ k \in 1..Len(queue)
    BY <1>1 DEF QueueOK
<1>3. /\ RemoveAt(queue, k) \in Seq(Tele)
      /\ Len(RemoveAt(queue, k)) = Len(queue) - 1
      /\ \A j \in 1..(Len(queue) - 1) :
            RemoveAt(queue, k)[j] = IF j < k THEN queue[j] ELSE queue[j + 1]
    BY <1>2, RemoveAtProps
<1>4. /\ DOMAIN queue' = 1..(Len(queue) - 1)
      /\ \A j \in 1..(Len(queue) - 1) :
            queue'[j] = IF j < k THEN queue[j] ELSE queue[j + 1]
    <2>1. DOMAIN RemoveAt(queue, k) = 1..Len(RemoveAt(queue, k))
        BY <1>3
    <2> QED
        BY <2>1, <1>1, <1>3
<1>5. SUFFICES ASSUME NEW j \in DOMAIN queue', NEW i \in DOMAIN queue',
                      i < j, queue'[i] = u
               PROVE  queue'[j] \in Before(u)
    BY DEF Before
<1> DEFINE old(n) == IF n < k THEN n ELSE n + 1
<1>6. /\ old(i) \in DOMAIN queue /\ old(j) \in DOMAIN queue
      /\ old(i) < old(j)
    BY <1>2, <1>4, <1>5
<1>7. queue[old(i)] = u /\ queue'[j] = queue[old(j)]
    BY <1>4, <1>5
<1> HIDE DEF old
<1> QED
    BY <1>6, <1>7 DEF Before

\* Nobody but the first of the queue is overtaken, by however many newcomers.
THEOREM NoOvertaking == Spec => NotOvertaken
<1>1. Inv /\ [Next]_vars =>
        [\A t \in Queued : t # queue[1] => Before(t)' \subseteq Before(t)]_vars
    <2> DEFINE Keeps ==
            \A u \in Queued : u # queue[1] => Before(u)' \subseteq Before(u)
    <2> SUFFICES ASSUME Inv, Next PROVE Keeps
        OBVIOUS
    <2>1. QueueOK /\ pc \in [Tele -> Stands]
        BY TypeParts DEF Inv
    <2>2. CASE UNCHANGED queue
        BY <2>2 DEF Before
    <2>3. ASSUME NEW t \in Tele, NEW k, Enqueue(t, k)
          PROVE  Keeps
        BY <2>1, <2>3, EnqueueOrder
    <2>4. ASSUME NEW t \in Tele, Leave(t)
          PROVE  Keeps
        BY <2>1, <2>4, DequeueOrder DEF Leave
    <2>5. ASSUME NEW t \in Tele, TeleStep(t)
          PROVE  UNCHANGED queue \/ Leave(t)
        BY <2>5 DEF TeleStep, CreateThread, ThreadFails, NoChannel, GetChannel,
                    PassPage, TakeTurn, Join, JoinFails, Done
    <2>6. ASSUME NEW t \in Tele, NEW k \in Ordered, Arrives(t, k)
          PROVE  Enqueue(t, k)
        BY <2>6 DEF Arrives
    <2>7. CASE RptStep
        <3>1. ASSUME NEW t \in Tele, Say(t)
              PROVE  \E k \in {"IDTALKOVER", "ID"} : Enqueue(t, k)
            BY <3>1 DEF Say
        <3>2. UNCHANGED queue \/ \E t \in Tele : Say(t)
            BY <2>7 DEF RptStep, KeyedOver, OrderId, Flush, Drain, HangUpRadio,
                        Restart, Begin
        <3> QED
            BY <2>2, <2>3, <3>1, <3>2
    <2> QED
        BY <2>2, <2>3, <2>4, <2>5, <2>6, <2>7 DEF Next
<1> QED
    BY <1>1, Invariance, PTL DEF Spec, NotOvertaken
=============================================================================
