------------------------------- MODULE RptTele -------------------------------
(***************************************************************************)
(* The telemetry of one repeater node: courtesy tones, identification,     *)
(* tail messages, pages and all kinds of announcements.  rpt_telemetry()   *)
(* puts a block (struct rpt_tele) into the queue myrpt->tele and creates a *)
(* thread for it, rpt_tele_thread(), which gets a pseudo channel, waits    *)
(* for its turn, joins the conference, speaks, and takes its block off the *)
(* queue.  myrpt->active_telem points to the block whose turn it is.       *)
(*                                                                         *)
(* A block waits until it is the last of the queue and nobody is active;   *)
(* the exempt ones do not wait but for pages, and clear active_telem at    *)
(* their end like the others.  rpt() hangs up what it does not want to be  *)
(* heard, and waits for an empty queue before it starts and at its end.    *)
(*                                                                         *)
(* An action is the code between two points where the lock is dropped.     *)
(* Left out: what is said and how long it takes, failures of malloc and    *)
(* strdup, parrot mode and the test tone, the remote base's telemetry.     *)
(***************************************************************************)
EXTENDS Naturals, Sequences, SequencesExt

CONSTANTS
    Tele,         \* addresses ast_malloc can return for a struct rpt_tele
    None,         \* the null pointer
    Ordered,      \* the kinds of telemetry that are ordered
    IdTalkover,   \* an IDTALKOVER message is configured
    Flushes,      \* flushes happen: cop 24, a reload, a restart of rpt()
    Faults        \* what may fail

ASSUME NoneAssumption == None \notin Tele
ASSUME OrderedAssumption ==
    Ordered \subseteq {"COURTESY", "ID", "TAILMSG", "PAGE", "OTHER"}
ASSUME SwitchAssumption == IdTalkover \in BOOLEAN /\ Flushes \in BOOLEAN
ASSUME FaultAssumption == Faults \subseteq {"thread", "channel", "conference"}

VARIABLES
    queue,     \* the blocks from myrpt->tele.next to myrpt->tele.prev
    kind,      \* the mode of each block
    pc,        \* where its thread stands
    killed,    \* the blocks that are marked killed
    hung,      \* the blocks whose channel was hung up softly
    active,    \* myrpt->active_telem
    rpt,       \* where rpt() stands
    cut,       \* history: speaks, but another's end took its turn
    due        \* history: an ID was cut off, and none was spoken or failed since

teleVars == <<kind, pc>>
killVars == <<killed, hung>>
vars == <<queue, teleVars, killVars, active, rpt, cut, due>>

\* COURTESY: UNKEY, LINKUNKEY, LOCUNKEY, COMPLETE.  PAGE: PAGE, MDC1200, which
\* play on the transmitter's channel.  OTHER: all that is not listed.
Kinds == {"COURTESY", "ID", "IDTALKOVER", "TAILMSG", "PAGE", "OTHER"}
Exempt == {"COURTESY"}
Idents == {"ID", "IDTALKOVER"}

-----------------------------------------------------------------------------
(* The queue.                                                               *)

Queued == {t \in Tele : pc[t] # "absent"}

\* Wrong variant: insque(tele, tele.prev).
PlaceLast == Len(queue) + 1

\* insque(tele, tele.next) puts a block behind the first one.
Place == IF queue = <<>> THEN 1 ELSE 2

Inserted(t) == InsertAt(queue, Place, t)

\* Wrong variant: whatever is last is taken off.
DequeueLast(t) == queue' = RemoveAt(queue, Len(queue))

Dequeue(t) ==
    \E i \in DOMAIN queue : queue[i] = t /\ queue' = RemoveAt(queue, i)

\* rpt_telemetry is about to be called by rpt() for one more block.
Saying == rpt \in {"talkover", "identify"}

\* Bound: there are Tele blocks; rpt() finds one when it needs it.
Room(t) ==
    /\ pc[t] = "absent"
    /\ Saying => \E u \in Tele \ {t} : pc[u] = "absent"

\* The block is in the queue before its thread exists.
Enqueue(t, k) ==
    /\ pc[t] = "absent"
    /\ queue' = Inserted(t)
    /\ kind' = [kind EXCEPT ![t] = k]
    /\ pc' = [pc EXCEPT ![t] = "queued"]

\* rpt_telemetry: by rpt() while it runs; other threads (CLI, autopatch) order
\* announcements at any time.
Arrives(t, k) ==
    /\ k = "OTHER" \/ rpt = "runs"
    /\ Room(t)
    /\ Enqueue(t, k)
    /\ UNCHANGED <<killVars, active, rpt, cut, due>>

CreateThread(t) ==
    /\ pc[t] = "queued"
    /\ pc' = [pc EXCEPT ![t] = "started"]
    /\ UNCHANGED <<queue, kind, killVars, active, rpt, cut, due>>

\* ast_pthread_create returns a positive error, and rpt_telemetry looks for a
\* negative one: the block stays in the queue without a thread.
ThreadFails(t) ==
    /\ "thread" \in Faults
    /\ pc[t] = "queued"
    /\ pc' = [pc EXCEPT ![t] = "stuck"]
    /\ UNCHANGED <<queue, kind, killVars, active, rpt, cut, due>>

-----------------------------------------------------------------------------
(* The thread of a block: rpt_tele_thread.                                  *)

\* The block leaves the queue, under the lock, and is freed; then its channel
\* is hung up.  OTHER stands for the mode of a block that is not in use.
Leave(t) ==
    /\ Dequeue(t)
    /\ pc' = [pc EXCEPT ![t] = "absent"]
    /\ kind' = [kind EXCEPT ![t] = "OTHER"]
    /\ killed' = killed \ {t}
    /\ hung' = hung \ {t}
    /\ UNCHANGED rpt

NoChannel(t) ==
    /\ "channel" \in Faults
    /\ pc[t] = "started"
    /\ Leave(t)
    /\ due' = (due /\ kind[t] \notin Idents)
    /\ UNCHANGED <<active, cut>>

\* mytele->chan is set.
GetChannel(t) ==
    /\ pc[t] = "started"
    /\ pc' = [pc EXCEPT ![t] = "held"]
    /\ UNCHANGED <<queue, kind, killVars, active, rpt, cut, due>>

HasChannel(t) == pc[t] \in {"held", "turn", "setup", "speak"}

\* Nothing starts during a page, which plays on the transmitter's channel.
Paging == active # None /\ kind[active] = "PAGE"

PassPage(t) ==
    /\ pc[t] = "held"
    /\ ~Paging
    /\ pc' = [pc EXCEPT ![t] = IF kind[t] \in Exempt THEN "setup" ELSE "turn"]
    /\ UNCHANGED <<queue, kind, killVars, active, rpt, cut, due>>

\* Wrong variant: whoever is the last of the queue may speak.
MyTurnBusy(t) == queue[Len(queue)] = t

\* Wrong variant: the first of the queue is next.
MyTurnFirst(t) == active = None /\ queue[1] = t

MyTurn(t) == active = None /\ queue[Len(queue)] = t

TakeTurn(t) ==
    /\ pc[t] = "turn"
    /\ MyTurn(t)
    /\ active' = t
    /\ pc' = [pc EXCEPT ![t] = "setup"]
    /\ UNCHANGED <<queue, kind, killVars, rpt, cut, due>>

Join(t) ==
    /\ pc[t] = "setup"
    /\ pc' = [pc EXCEPT ![t] = "speak"]
    /\ UNCHANGED <<queue, kind, killVars, active, rpt, cut, due>>

\* Whoever ends clears active_telem, whether or not it was its own turn.
EndTurn(t) ==
    /\ active' = None
    /\ cut' = (cut \cup ({active} \ {None})) \ {t}

\* Wrong variant: active_telem keeps pointing to the block.
Abandons(t) ==
    /\ pc[t] = "setup"
    /\ "conference" \in Faults
    /\ Leave(t)
    /\ UNCHANGED <<active, cut, due>>

\* The conference cannot be joined.
JoinFails(t) ==
    /\ pc[t] = "setup"
    /\ "conference" \in Faults
    /\ Leave(t)
    /\ EndTurn(t)
    /\ due' = (due /\ kind[t] \notin Idents)

\* An identification counts when nobody hung it up.
Done(t) ==
    /\ pc[t] = "speak"
    /\ Leave(t)
    /\ EndTurn(t)
    /\ due' = (due /\ ~(kind[t] \in Idents /\ t \notin killed \cup hung))

-----------------------------------------------------------------------------
(* rpt(): it orders and kills telemetry in its decisions and commands.      *)

\* A block is hung up if it has a channel, and marked in any case.
Kill(S) ==
    /\ killed' = killed \cup S
    /\ hung' = hung \cup {t \in S : HasChannel(t)}
    /\ due' = (due \/ \E t \in S : kind[t] = "ID")

Alive(ks) == {t \in Queued \ killed : kind[t] \in ks}

\* Wrong variant: a talk-over ID is only begun for an ID that is heard.
FollowedWhenHeard ==
    /\ \E t \in Alive({"ID"}) : pc[t] = "speak"
    /\ \A t \in Queued : kind[t] # "IDTALKOVER"

\* An ID is replaced by the talk-over ID, unless one is queued already.
Followed ==
    /\ Alive({"ID"}) # {}
    /\ \A t \in Queued : kind[t] # "IDTALKOVER"

\* Somebody keys up over an ID or a tail message: rpt() hangs both up.
KeyedOver ==
    /\ rpt = "runs"
    /\ \E t \in Queued : kind[t] \in IF IdTalkover THEN Idents \cup {"TAILMSG"}
                                     ELSE {"TAILMSG"}
    /\ \E t \in Tele : pc[t] = "absent"        \* Bound, see Room
    /\ Kill(Alive({"ID", "TAILMSG"}))
    /\ rpt' = IF Followed THEN "talkover" ELSE "runs"
    /\ UNCHANGED <<queue, teleVars, active, cut>>

\* function_status 1 and 11: the IDs that are queued make room for a new one.
\* The walk, which is made without the lock, is taken as one step.
OrderId ==
    /\ rpt = "runs"
    /\ "ID" \in Ordered
    /\ \E t \in Tele : pc[t] = "absent"        \* Bound, see Room
    /\ Kill(Alive({"ID"}))
    /\ rpt' = "identify"
    /\ UNCHANGED <<queue, teleVars, active, cut>>

\* The lock was dropped in between.
Say(t) ==
    /\ Saying
    /\ Enqueue(t, IF rpt = "talkover" THEN "IDTALKOVER" ELSE "ID")
    /\ rpt' = "runs"
    /\ UNCHANGED <<killVars, active, cut, due>>

\* A flush hangs up the channel of every block without a look whether there is
\* one: without, ast_softhangup is called with the null pointer.
HangUpAll(next) ==
    /\ hung' = hung \cup {t \in Queued : HasChannel(t)}
    /\ rpt' = IF \A t \in Queued : HasChannel(t) THEN next ELSE "crashed"

\* flush_telem, and a reload.
Flush ==
    /\ Flushes
    /\ rpt = "runs"
    /\ HangUpAll("runs")
    /\ UNCHANGED <<queue, teleVars, killed, active, cut, due>>

\* The loop ends, or the channel hangs up while rpt() waits before it.
Drain ==
    /\ rpt \in {"runs", "starts"}
    /\ rpt' = "drains"
    /\ UNCHANGED <<queue, teleVars, killVars, active, cut, due>>

\* Wrong variant: rpt() does not wait for telemetry.
HangUpAtOnce ==
    /\ rpt = "drains"
    /\ rpt' = "off"
    /\ UNCHANGED <<queue, teleVars, killVars, active, cut, due>>

\* The radio's channels are hung up when the queue was seen empty.
HangUpRadio ==
    /\ rpt = "drains"
    /\ queue = <<>>
    /\ rpt' = "off"
    /\ UNCHANGED <<queue, teleVars, killVars, active, cut, due>>

\* rpt_master starts rpt() again, which flushes what others ordered meanwhile.
Restart ==
    /\ Flushes
    /\ rpt = "off"
    /\ HangUpAll("starts")
    /\ UNCHANGED <<queue, teleVars, killed, active, cut, due>>

\* rpt() waits for telemetry to be done before its loop.
Begin ==
    /\ rpt = "starts"
    /\ queue = <<>>
    /\ rpt' = "runs"
    /\ UNCHANGED <<queue, teleVars, killVars, active, cut, due>>

-----------------------------------------------------------------------------
Init ==
    /\ queue = <<>>
    /\ kind = [t \in Tele |-> "OTHER"]
    /\ pc = [t \in Tele |-> "absent"]
    /\ killed = {} /\ hung = {}
    /\ active = None
    /\ rpt = "starts"
    /\ cut = {}
    /\ due = FALSE

TeleStep(t) ==
    \/ CreateThread(t)
    \/ ThreadFails(t)
    \/ NoChannel(t)
    \/ GetChannel(t)
    \/ PassPage(t)
    \/ TakeTurn(t)
    \/ Join(t)
    \/ JoinFails(t)
    \/ Done(t)

RptStep ==
    \/ KeyedOver
    \/ OrderId
    \/ \E t \in Tele : Say(t)
    \/ Flush
    \/ Drain
    \/ HangUpRadio
    \/ Restart
    \/ Begin

Next ==
    /\ rpt # "crashed"
    /\ \/ \E t \in Tele : TeleStep(t) \/ \E k \in Ordered : Arrives(t, k)
       \/ RptStep

Spec == Init /\ [][Next]_vars

\* Threads are scheduled, and what is spoken has an end.
Fairness ==
    /\ WF_vars(\E t \in Tele : Say(t))
    /\ \A t \in Tele :
        /\ WF_vars(CreateThread(t))
        /\ WF_vars(GetChannel(t))
        /\ WF_vars(PassPage(t))
        /\ WF_vars(TakeTurn(t))
        /\ WF_vars(Join(t))
        /\ WF_vars(Done(t))

FairSpec == Spec /\ Fairness

-----------------------------------------------------------------------------
(* Properties.                                                              *)

\* The variables have their types, and the queue holds every block that is in
\* use exactly once.
TypeOK ==
    /\ kind \in [Tele -> Kinds]
    /\ pc \in [Tele -> {"absent", "queued", "stuck", "started", "held", "turn",
                        "setup", "speak"}]
    /\ queue \in Seq(Tele)
    /\ \A i, j \in DOMAIN queue : queue[i] = queue[j] => i = j
    /\ Queued = {queue[i] : i \in DOMAIN queue}
    /\ killed \subseteq Queued /\ hung \subseteq Queued /\ cut \subseteq Queued
    /\ active \in Tele \cup {None}
    /\ rpt \in {"starts", "runs", "talkover", "identify", "drains", "off",
                "crashed"}
    /\ due \in BOOLEAN

\* active_telem, which other threads look at, never points to a block that was
\* freed, and always to one that was given its turn.
ActiveIsLive ==
    active # None =>
        kind[active] \notin Exempt /\ pc[active] \in {"setup", "speak"}

\* Two that wait for their turn never speak at once, unless the end of a third
\* took the turn of one of them away.
Voices == {t \in Tele : pc[t] = "speak" /\ kind[t] \notin Exempt}
OneVoice == \A t, u \in Voices : t # u => {t, u} \cap cut # {}

\* No page is queued or plays while the radio's channels are hung up.
RadioHeld == rpt = "off" => \A t \in Queued : kind[t] # "PAGE"

\* Who is to speak before t: it stands behind t in the queue.
Before(t) ==
    {queue[j] : j \in {j \in DOMAIN queue :
                        \E i \in DOMAIN queue : i < j /\ queue[i] = t}}

\* A block that is not the first of the queue is overtaken by none.
NotOvertaken ==
    [][\A t \in Queued : t # queue[1] => Before(t)' \subseteq Before(t)]_vars

\* However much telemetry arrives, a block that is not the first of the queue
\* ends or becomes the first.
OnlyFirstStarves ==
    \A t \in Tele : t \in Queued ~> (t \notin Queued \/ queue[1] = t)

\* When no more telemetry is ordered, the queue becomes empty for good.
Orders == \E t \in Tele : Say(t) \/ \E k \in Ordered : Arrives(t, k)
Drains == []<><<Orders>>_vars \/ <>[](queue = <<>>)

\* When an ID was cut off by a signal or a new order, another one is spoken that
\* nobody hangs up, or fails, however often signals come, unless orders never end.
CutIdIsMadeGood ==
    []<><<OrderId \/ \E t \in Tele : \E k \in Ordered : Arrives(t, k)>>_vars
    \/ (due ~> ~due)

\* A flush of all telemetry does not touch a channel that is not there.
FlushIsSafe == rpt # "crashed"
=============================================================================
