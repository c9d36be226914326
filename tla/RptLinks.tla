------------------------------- MODULE RptLinks -------------------------------
(***************************************************************************)
(* The link table of one repeater node, as app_rpt.c keeps it.             *)
(*                                                                         *)
(* A link (struct rpt_link) is a connection to another node, or to a       *)
(* client program, that the node either dialled (outbound) or accepted     *)
(* (inbound).  All links hang off the queue myrpt->links, which three      *)
(* kinds of thread work on under one lock that they drop again and again:  *)
(*                                                                         *)
(*   - the node's own thread rpt(): one turn of its loop reaps the links   *)
(*     marked killme, waits on the channels of the others, counts their    *)
(*     timers down, redials, executes one pending command and reads one    *)
(*     frame from the channel that became ready;                           *)
(*   - one thread rpt_exec() per inbound call, which marks an older link   *)
(*     of the caller and inserts a new one;                                *)
(*   - rpt_master(), which starts rpt() again after it ended.              *)
(*                                                                         *)
(* An action is the code between two points where the lock is dropped.     *)
(* The order of the queue is abstracted (linked is a set), so are the      *)
(* audio, the telemetry and the text relayed between links.  Time is a     *)
(* count of ticks; a turn of the loop takes no tick or one.                *)
(***************************************************************************)
EXTENDS Integers, FiniteSets

CONSTANTS
    Nodes,           \* node numbers: the names that begin with 1..9
    Clients,         \* other names: phones ("0...") and client programs
    RemoteBases,     \* the nodes that node_lookup reports as remote bases
    LinkIds,         \* addresses ast_malloc can return for a struct rpt_link
    Calls,           \* inbound calls, one rpt_exec() thread each
    NoLink,          \* the null pointer
    Other,           \* a channel of the node itself, or a pseudo channel
    MaxRetries,      \* MAX_RETRIES
    MaxRetriesPerm,  \* MAX_RETRIES_PERM
    RetryTime,       \* RETRY_TIMER_MS in ticks
    DiscTime,        \* DISC_TIME in ticks
    MaxConnect,      \* MAXCONNECTTIME in ticks
    RequestFails,    \* ast_request may return no channel on a redial
    RadioFails,      \* the radio channel may hang up, which ends rpt()
    LongWraps        \* long has 32 bits and elaptime may overflow

ASSUME NameAssumption == Nodes # {} /\ RemoteBases \subseteq Nodes
ASSUME IdAssumption == NoLink \notin LinkIds /\ Other \notin LinkIds
ASSUME BudgetAssumption ==
    /\ MaxRetries \in Nat
    /\ MaxRetriesPerm \in Nat
    /\ MaxRetries < MaxRetriesPerm
ASSUME TimeAssumption ==
    /\ RetryTime \in Nat \ {0}
    /\ DiscTime \in Nat \ {0}
    /\ MaxConnect \in Nat \ {0}   \* a turn is shorter than MAXCONNECTTIME
ASSUME SwitchAssumption ==
    /\ RequestFails \in BOOLEAN
    /\ RadioFails \in BOOLEAN
    /\ LongWraps \in BOOLEAN

Names == Nodes \cup Clients

VARIABLES
    heap,     \* the addresses in use
    linked,   \* the links in the queue myrpt->links
    link,     \* the record at each address
    ready,    \* myrpt->ready
    pc,       \* where rpt() stands
    who,      \* the link whose channel ast_waitfor_n returned, Other or NoLink
    inhand,   \* the link attempt_reconnect works on, or NoLink
    order,    \* what connect_link is about to dial
    call      \* each rpt_exec() thread

rptVars == <<ready, pc, who, inhand, order>>
tableVars == <<heap, linked, link>>
vars == <<heap, linked, link, ready, pc, who, inhand, order, call>>

Link ==
    [name : Names, outbound : BOOLEAN, perma : BOOLEAN,
     hasconnected : BOOLEAN, disced : {0, 1, 2}, killme : BOOLEAN,
     retries : Nat, retrytimer : Nat, disctime : Nat, elaptime : Int,
     chan : {"none", "dial", "up"}, soft : BOOLEAN]

\* The content of a fresh or freed block is never read.
Blank ==
    [name |-> CHOOSE n \in Names : TRUE, outbound |-> FALSE, perma |-> FALSE,
     hasconnected |-> FALSE, disced |-> 0, killme |-> FALSE,
     retries |-> 0, retrytimer |-> 0, disctime |-> 0, elaptime |-> 0,
     chan |-> "none", soft |-> FALSE]

RptPc == {"kill", "timers", "lookup", "redial", "cmd", "dialout", "read",
          "exit", "stopped"}
Order == [name : Nodes, perma : BOOLEAN]
NoOrder == [name |-> CHOOSE n \in Nodes : TRUE, perma |-> FALSE]
CallState == [pc : {"idle", "search", "slept", "insert"}, name : Names]

-----------------------------------------------------------------------------
(* Helpers.                                                                *)

Budget(r) == IF r.perma THEN MaxRetriesPerm ELSE MaxRetries

\* Wrong variant: off by one.
SpentTooLow(r) == Budget(r)

\* "l->retries = l->max_retries + 1": never dial this link again.
Spent(r) == Budget(r) + 1

IsRemote(r) == r.outbound /\ r.name \in RemoteBases

\* ast_softhangup: the next ast_read of the channel, if any, returns no frame.
SoftHangup(r) == r.chan # "none"

\* The links whose channels go into cs[] for ast_waitfor_n.
Polled ==
    {l \in linked : ~link[l].killme /\ link[l].disctime = 0
                                    /\ link[l].chan # "none"}

\* remque and ast_free.
Remove(l) ==
    /\ linked' = linked \ {l}
    /\ heap' = heap \ {l}
    /\ link' = [link EXCEPT ![l] = Blank]

\* insque of a new link at the address l.
Insert(l, r) ==
    /\ linked' = linked \cup {l}
    /\ heap' = heap \cup {l}
    /\ link' = [link EXCEPT ![l] = r]

\* With no channel ready (ms = 0) the loop starts over: no command, no read.
AfterTimers == IF who = NoLink THEN "kill" ELSE "cmd"

-----------------------------------------------------------------------------
(* The turn of rpt(): reap, wait, count down.                              *)

ReapKilled(l) ==
    /\ pc = "kill"
    /\ l \in linked
    /\ link[l].killme
    /\ Remove(l)
    /\ UNCHANGED <<rptVars, call>>

NoneToReap == \A l \in linked : ~link[l].killme

Wait(w) ==
    /\ pc = "kill"
    /\ NoneToReap
    /\ w \in Polled \cup {Other, NoLink}
    /\ who' = w
    /\ pc' = "timers"
    /\ UNCHANGED <<tableVars, ready, inhand, order, call>>

\* Wrong variant: the timer is not clamped at zero.
LessUnclamped(t, e) == t - e

Less(t, e) == IF t > e THEN t - e ELSE 0

\* A 32-bit long overflows after 2^31 ms of a connection that is timed.
MayWrap(r, e) == LongWraps /\ e > 0 /\ r.elaptime > MaxConnect

\* The first half of the pass.  All values past MaxConnect are one value.
Aged(r, e, wraps) ==
    [r EXCEPT
        !.disctime = Less(@, e),
        !.retrytimer = Less(@, e),
        !.elaptime = IF @ < 0 THEN @
                     ELSE IF wraps THEN -1
                     ELSE IF @ + e > MaxConnect THEN MaxConnect + 1
                     ELSE @ + e]

\* The tests of the second half, in their order; a negative elaptime skips
\* them all.
TooLong(r) == r.elaptime > MaxConnect /\ r.chan # "up"
RedialsAtOnce(r) ==     \* wrong variant: does not wait for the retry timer
    r.elaptime >= 0 /\ ~TooLong(r) /\ r.chan = "none" /\ r.outbound
MayRedial(r) ==
    r.elaptime >= 0 /\ ~TooLong(r) /\ r.chan = "none" /\ r.retrytimer = 0
                    /\ r.outbound
Redials(r) == MayRedial(r) /\ r.retries < Budget(r) /\ r.hasconnected
GivenUp(r) == MayRedial(r) /\ ~Redials(r) /\ r.retries + 1 >= Budget(r)
PeerGone(r) ==
    r.elaptime >= 0 /\ ~TooLong(r) /\ r.chan = "none" /\ r.disctime = 0
                    /\ ~r.outbound
EndsPass(r) == TooLong(r) \/ Redials(r) \/ GivenUp(r) \/ PeerGone(r)

\* "l->retries++ < l->max_retries" counts whatever the outcome.
Counted(r) == IF MayRedial(r) THEN [r EXCEPT !.retries = @ + 1] ELSE r

\* The table after the links of S were counted down.
Passed(S, e, wrapped) ==
    [l \in LinkIds |-> IF l \in S THEN Aged(link[l], e, l \in wrapped)
                                  ELSE link[l]]

\* The pass walks over S, with e ticks elapsed: without a ready channel
\* the wait took its full MSWAIT.
Walks(S, e, wrapped) ==
    /\ pc = "timers"
    /\ S \subseteq linked
    /\ who = NoLink => e = 1
    /\ wrapped \subseteq S
    /\ \A l \in wrapped : MayWrap(link[l], e)

\* No link of the pass ends it: it walks over the whole queue.
CountDown(e, wrapped) ==
    LET aged == Passed(linked, e, wrapped) IN
    /\ Walks(linked, e, wrapped)
    /\ \A l \in linked : ~EndsPass(aged[l])
    /\ link' = [l \in LinkIds |-> IF l \in linked THEN Counted(aged[l])
                                                  ELSE link[l]]
    /\ pc' = AfterTimers
    /\ UNCHANGED <<heap, linked, ready, who, inhand, order, call>>

\* The pass ends at the link b, after it walked over the links of S.
EndsAt(b, S, e, wrapped) ==
    /\ b \in linked \ S
    /\ Walks(S \cup {b}, e, wrapped)
    /\ \A l \in S : ~EndsPass(Passed(S, e, wrapped)[l])

\* The table with b's record replaced by r.
CutOff(b, S, e, wrapped, r) ==
    [l \in LinkIds |->
        IF l = b THEN r
        ELSE IF l \in S THEN Counted(Passed(S, e, wrapped)[l])
        ELSE link[l]]

\* Dialling, or without a channel, for more than MaxConnect.
ConnectTooLong(b, S, e, wrapped) ==
    LET r == Aged(link[b], e, b \in wrapped) IN
    /\ EndsAt(b, S, e, wrapped)
    /\ TooLong(r)
    /\ link' = CutOff(b, S, e, wrapped, [r EXCEPT !.soft = SoftHangup(r), !.elaptime = 0])
    /\ pc' = AfterTimers
    /\ UNCHANGED <<heap, linked, ready, who, inhand, order, call>>

\* Time to redial; the lock is dropped before attempt_reconnect.
StartReconnect(b, S, e, wrapped) ==
    LET r == Aged(link[b], e, b \in wrapped) IN
    /\ EndsAt(b, S, e, wrapped)
    /\ Redials(r)
    /\ IF IsRemote(r)
       THEN /\ link' = CutOff(b, S, e, wrapped, [r EXCEPT !.retries = Spent(r)])
            /\ pc' = AfterTimers
            /\ UNCHANGED inhand
       ELSE /\ link' = CutOff(b, S, e, wrapped, Counted(r))
            /\ pc' = "lookup"
            /\ inhand' = b
    /\ UNCHANGED <<heap, linked, ready, who, order, call>>

\* Out of retries, or the peer did not come back within DiscTime.
GiveUp(b, S, e, wrapped) ==
    LET r == Aged(link[b], e, b \in wrapped) IN
    /\ EndsAt(b, S, e, wrapped)
    /\ GivenUp(r) \/ PeerGone(r)
    /\ linked' = linked \ {b}
    /\ heap' = heap \ {b}
    /\ link' = CutOff(b, S, e, wrapped, Blank)
    /\ pc' = AfterTimers
    /\ UNCHANGED <<ready, who, inhand, order, call>>

-----------------------------------------------------------------------------
(* attempt_reconnect, which runs without the lock but for two moments.     *)

\* The caller sets the retry timer when attempt_reconnect returns -1.
Reconnected == pc' = AfterTimers /\ inhand' = NoLink

LookupFails ==
    /\ pc = "lookup"
    /\ link' = [link EXCEPT ![inhand].retrytimer = RetryTime]
    /\ Reconnected
    /\ UNCHANGED <<heap, linked, ready, who, order, call>>

LookupDone ==
    /\ pc = "lookup"
    /\ linked' = linked \ {inhand}
    /\ pc' = "redial"
    /\ UNCHANGED <<heap, link, ready, who, inhand, order, call>>

\* Both ast_request calls returned no channel: -1, with the link off the queue.
RedialFails ==
    /\ pc = "redial"
    /\ RequestFails
    /\ link' = [link EXCEPT ![inhand].elaptime = 0,
                            ![inhand].retrytimer = RetryTime]
    /\ Reconnected
    /\ UNCHANGED <<heap, linked, ready, who, order, call>>

Redial ==
    /\ pc = "redial"
    /\ link' = [link EXCEPT ![inhand].elaptime = 0, ![inhand].chan = "dial"]
    /\ linked' = linked \cup {inhand}
    /\ Reconnected
    /\ UNCHANGED <<heap, ready, who, order, call>>

-----------------------------------------------------------------------------
(* The pending command: function_ilink and connect_link, run by rpt().     *)

NoCommand ==
    /\ pc = "cmd"
    /\ pc' = "read"
    /\ UNCHANGED <<tableVars, ready, who, inhand, order, call>>

\* Wrong variants: retries are left, the channel stays, disced is not set.
DroppedWithRetries(r, how) ==
    [r EXCEPT !.soft = SoftHangup(r), !.disced = how]
DroppedInSilence(r, how) == [r EXCEPT !.retries = Spent(r), !.disced = how]
DroppedUnmarked(r, how) ==
    [r EXCEPT !.soft = SoftHangup(r), !.retries = Spent(r)]

\* The record after a disconnect command or a change of mode.
Dropped(r, how) ==
    [r EXCEPT !.soft = SoftHangup(r), !.retries = Spent(r), !.disced = how]

\* ilink 1 and 11: a permanent link only yields to the permanent form.
Disconnect(l, permform) ==
    /\ pc = "cmd"
    /\ l \in linked
    /\ link[l].name \in Nodes
    /\ Budget(link[l]) > MaxRetries => permform
    /\ link' = [link EXCEPT ![l] = [Dropped(@, 1) EXCEPT !.hasconnected = TRUE]]
    /\ pc' = "read"
    /\ UNCHANGED <<heap, linked, ready, who, inhand, order, call>>

\* ilink 6: all links but those of clients, one after the other.  The lock is
\* dropped between two of them, but a link that comes in meanwhile is no
\* different from one that comes in after the last.
DisconnectAll ==
    /\ pc = "cmd"
    /\ link' = [l \in LinkIds |->
                  IF l \in linked /\ link[l].name \in Nodes
                  THEN Dropped(link[l], 2) ELSE link[l]]
    /\ pc' = "read"
    /\ UNCHANGED <<heap, linked, ready, who, inhand, order, call>>

WithName(n) == {l \in linked : link[l].name = n}

\* ilink 2, 3, 8, 12, 13, 18 for a node that has no link.
ConnectNew(n, perma) ==
    /\ pc = "cmd"
    /\ WithName(n) = {}
    /\ order' = [name |-> n, perma |-> perma]
    /\ pc' = "dialout"
    /\ UNCHANGED <<tableVars, ready, who, inhand, call>>

\* The same for a node that has a link in another mode.  With the same mode,
\* or without a channel, the command is ignored (NoCommand).
ConnectOtherMode(l, perma) ==
    /\ pc = "cmd"
    /\ l \in linked
    /\ link[l].name \in Nodes
    /\ link[l].chan # "none"
    /\ link' = [link EXCEPT ![l] = Dropped(@, 2)]
    /\ order' = [name |-> link[l].name, perma |-> perma]
    /\ pc' = "dialout"
    /\ UNCHANGED <<heap, linked, ready, who, inhand, call>>

\* ast_request, ast_malloc or the pseudo channel failed: nothing is inserted.
DialFails ==
    /\ pc = "dialout"
    /\ pc' = "read"
    /\ order' = NoOrder
    /\ UNCHANGED <<tableVars, ready, who, inhand, call>>

OutboundLink(n, perma) ==
    LET r == [Blank EXCEPT !.name = n, !.outbound = TRUE, !.perma = perma,
                           !.hasconnected = perma, !.chan = "dial"]
    IN  [r EXCEPT !.retries = IF IsRemote(r) THEN Spent(r) ELSE 0]

DialOut(l) ==
    /\ pc = "dialout"
    /\ l \in LinkIds \ heap
    /\ Insert(l, OutboundLink(order.name, order.perma))
    /\ pc' = "read"
    /\ order' = NoOrder
    /\ UNCHANGED <<ready, who, inhand, call>>

-----------------------------------------------------------------------------
(* The read from the channel that became ready.                            *)

\* The frame is from the channel of a link.
Reads == pc = "read" /\ who \in linked

ReadOther ==
    /\ pc = "read"
    /\ who \in linked => ~link[who].soft
    /\ pc' = "kill"
    /\ who' = NoLink
    /\ UNCHANGED <<tableVars, ready, inhand, order, call>>

Answered(r) ==
    [r EXCEPT !.chan = "up", !.hasconnected = TRUE, !.elaptime = -1,
              !.retries = IF IsRemote(r) THEN r.retries ELSE 0]

ReadAnswer ==
    /\ Reads
    /\ link[who].chan = "dial"
    /\ ~link[who].soft
    /\ link' = [link EXCEPT ![who] = Answered(@)]
    /\ pc' = "kill"
    /\ who' = NoLink
    /\ UNCHANGED <<heap, linked, ready, inhand, order, call>>

\* The peer's "!!DISCONNECT!!".
ReadDisconnect ==
    /\ Reads
    /\ link[who].chan = "up"
    /\ ~link[who].soft
    /\ link' = [link EXCEPT ![who] = Dropped(@, 1)]
    /\ pc' = "kill"
    /\ who' = NoLink
    /\ UNCHANGED <<heap, linked, ready, inhand, order, call>>

\* What becomes of a link whose channel hung up, in the order of the code.
Lingers(r) == r.disced = 0 /\ ~r.outbound
\* Wrong variant: a call that was never answered is retried, too.
RetriesUnanswered(r) == r.outbound /\ r.retries < Budget(r)

Retries(r) == r.outbound /\ r.retries < Budget(r) /\ r.hasconnected
Lingering(r) ==
    [r EXCEPT !.chan = "none", !.soft = FALSE,
              !.disctime = IF r.name \in Clients THEN 1 ELSE DiscTime]
HungUp(r) == [r EXCEPT !.chan = "none", !.soft = FALSE]
Retrying(r) ==
    [r EXCEPT !.chan = "none", !.soft = FALSE, !.retries = @ + 1,
              !.retrytimer = RetryTime, !.elaptime = 0]

\* No frame, or AST_CONTROL_HANGUP.
ReadHangup ==
    /\ Reads
    /\ LET r == link[who] IN
       IF Lingers(r) \/ r.retrytimer # 0 \/ Retries(r)
       THEN /\ link' = [link EXCEPT ![who] =
                          IF Lingers(r) THEN Lingering(r)
                          ELSE IF r.retrytimer # 0 THEN HungUp(r)
                          ELSE Retrying(r)]
            /\ UNCHANGED <<heap, linked>>
       ELSE Remove(who)
    /\ pc' = "kill"
    /\ who' = NoLink
    /\ UNCHANGED <<ready, inhand, order, call>>

-----------------------------------------------------------------------------
(* The end of rpt() when the radio channel hangs up, and its restart.      *)

Leave ==
    /\ RadioFails
    /\ pc = "kill"
    /\ ready' = FALSE
    /\ pc' = "exit"
    /\ UNCHANGED <<tableVars, who, inhand, order, call>>

FreeAll ==
    /\ pc = "exit"
    /\ heap' = heap \ linked
    /\ linked' = {}
    /\ link' = [l \in LinkIds |-> IF l \in linked THEN Blank ELSE link[l]]
    /\ pc' = "stopped"
    /\ UNCHANGED <<ready, who, inhand, order, call>>

\* rpt_master starts rpt(), which makes the queue empty.
Restart ==
    /\ pc = "stopped"
    /\ linked' = {}
    /\ ready' = TRUE
    /\ pc' = "kill"
    /\ UNCHANGED <<heap, link, who, inhand, order, call>>

-----------------------------------------------------------------------------
(* An inbound call: rpt_exec().                                            *)

\* The wait for 250 ms since the last inbound link only delays the thread.
CallArrives(c, n) ==
    /\ call[c].pc = "idle"
    /\ ready
    /\ call' = [call EXCEPT ![c] = [pc |-> "search", name |-> n]]
    /\ UNCHANGED <<tableVars, rptVars>>

\* No link of that name, or a caller whose name is not a number.
CallFindsNone(c) ==
    /\ call[c].pc = "search"
    /\ call[c].name \in Clients \/ WithName(call[c].name) = {}
    /\ call' = [call EXCEPT ![c].pc = "insert"]
    /\ UNCHANGED <<tableVars, rptVars>>

CallKillsOld(c, l) ==
    /\ call[c].pc = "search"
    /\ call[c].name \in Nodes
    /\ l \in WithName(call[c].name)
    /\ link' = [link EXCEPT ![l].killme = TRUE, ![l].disced = 2,
                            ![l].retries = Spent(link[l])]
    /\ call' = [call EXCEPT ![c].pc = "slept"]
    /\ UNCHANGED <<heap, linked, rptVars>>

\* usleep(500000)
CallSleeps(c) ==
    /\ call[c].pc = "slept"
    /\ call' = [call EXCEPT ![c].pc = "insert"]
    /\ UNCHANGED <<tableVars, rptVars>>

\* Wrong variant: the link counts as connected and is not timed.
InboundUntimed(n) ==
    [Blank EXCEPT !.name = n, !.hasconnected = TRUE, !.chan = "up",
                  !.elaptime = -1]

InboundLink(n) ==
    [Blank EXCEPT !.name = n, !.hasconnected = TRUE, !.chan = "up"]

CallInserts(c, l) ==
    /\ call[c].pc = "insert"
    /\ l \in LinkIds \ heap
    /\ Insert(l, InboundLink(call[c].name))
    /\ call' = [call EXCEPT ![c].pc = "idle"]
    /\ UNCHANGED rptVars

\* No memory, no pseudo channel, or the caller hung up.
CallEnds(c) ==
    /\ call[c].pc \in {"search", "insert"}
    /\ call' = [call EXCEPT ![c].pc = "idle"]
    /\ UNCHANGED <<tableVars, rptVars>>

-----------------------------------------------------------------------------
Init ==
    /\ heap = {}
    /\ linked = {}
    /\ link = [l \in LinkIds |-> Blank]
    /\ ready = TRUE
    /\ pc = "kill"
    /\ who = NoLink
    /\ inhand = NoLink
    /\ order = NoOrder
    /\ call = [c \in Calls |-> [pc |-> "idle",
                                name |-> CHOOSE n \in Names : TRUE]]

TimersStep ==
    /\ pc = "timers"
    /\ \E e \in {0, 1}, wrapped \in SUBSET linked :
          \/ CountDown(e, wrapped)
          \/ \E b \in linked, S \in SUBSET linked :
                \/ ConnectTooLong(b, S, e, wrapped)
                \/ StartReconnect(b, S, e, wrapped)
                \/ GiveUp(b, S, e, wrapped)

ReconnectStep == LookupFails \/ LookupDone \/ RedialFails \/ Redial

CommandStep ==
    \/ NoCommand
    \/ DisconnectAll
    \/ \E l \in linked, perma \in BOOLEAN :
          Disconnect(l, perma) \/ ConnectOtherMode(l, perma)
    \/ \E n \in Nodes, perma \in BOOLEAN : ConnectNew(n, perma)
    \/ DialFails
    \/ \E l \in LinkIds : DialOut(l)

ReadStep == ReadOther \/ ReadAnswer \/ ReadDisconnect \/ ReadHangup

RptStep ==
    \/ \E l \in linked : ReapKilled(l)
    \/ \E w \in LinkIds \cup {Other, NoLink} : Wait(w)
    \/ TimersStep
    \/ ReconnectStep
    \/ CommandStep
    \/ ReadStep

LifeStep == Leave \/ FreeAll \/ Restart

CallStep(c) ==
    \/ \E n \in Names : CallArrives(c, n)
    \/ CallFindsNone(c)
    \/ \E l \in linked : CallKillsOld(c, l)
    \/ CallSleeps(c)
    \/ \E l \in LinkIds : CallInserts(c, l)
    \/ CallEnds(c)

Next == RptStep \/ LifeStep \/ \E c \in Calls : CallStep(c)

Spec == Init /\ [][Next]_vars

(* Fairness.  rpt() and rpt_master() are scheduled; cs1[] is rotated by     *)
(* scram, so a channel that stays ready (softhangup makes it so) is         *)
(* returned eventually; and the elapsed times add up to real time, while a  *)
(* link that cuts a pass off does so once per MaxConnect or RetryTime, so   *)
(* the count-down reaches every link again and again.                       *)
WaitsForSoft(l) == l \in linked /\ link[l].soft /\ Wait(l)

CountsDown(l) ==
    \E wrapped \in SUBSET linked :
       \/ l \in linked /\ CountDown(1, wrapped)
       \/ \E b \in linked, S \in SUBSET linked :
             /\ l \in S \cup {b}
             /\ \/ ConnectTooLong(b, S, 1, wrapped)
                \/ StartReconnect(b, S, 1, wrapped)
                \/ GiveUp(b, S, 1, wrapped)

Fairness ==
    /\ WF_vars(RptStep \/ FreeAll \/ Restart)
    /\ SF_vars(\E w \in LinkIds \cup {Other, NoLink} : Wait(w))
    /\ \A l \in LinkIds :
          /\ SF_vars(l \in linked /\ ReapKilled(l))
          /\ SF_vars(WaitsForSoft(l))
          /\ SF_vars(CountsDown(l))

FairSpec == Spec /\ Fairness

-----------------------------------------------------------------------------
(* Properties.                                                             *)

\* Every variable has its type, and the queue holds allocated links only.
TypeOK ==
    /\ heap \subseteq LinkIds
    /\ linked \subseteq heap
    /\ link \in [LinkIds -> Link]
    /\ ready \in BOOLEAN
    /\ pc \in RptPc
    /\ who \in LinkIds \cup {Other, NoLink}
    /\ inhand \in LinkIds \cup {NoLink}
    /\ order \in Order
    /\ call \in [Calls -> CallState]

\* A link without a channel is on its way somewhere: it takes part in the
\* timer pass (whose first test is elaptime), and if the node dialled it, it
\* has connected before, so that the redial test can come out either way.
\* Without this it would stay in the queue for ever.
NeverStranded ==
    \A l \in linked :
       link[l].chan = "none" =>
          /\ link[l].elaptime >= 0
          /\ link[l].outbound => link[l].hasconnected

\* A link with a channel has no disconnect or retry timer running: links with
\* a disconnect timer are left out of cs[] and of the reads, so its hangup
\* would go unnoticed; with a retry timer a hangup would skip the retry.
ChannelIsServed ==
    \A l \in linked :
       link[l].chan # "none" => link[l].disctime = 0 /\ link[l].retrytimer = 0

\* A link that a command or its peer disconnected, and a link to a remote
\* base, has no retries left, however its channel ends afterwards.  (A link
\* marked killme may be answered in between, which resets retries, but it is
\* reaped before its next redial.)
NoRetriesLeft ==
    \A l \in linked :
       IsRemote(link[l]) \/ (link[l].disced # 0 /\ ~link[l].killme) =>
          link[l].retries > Budget(link[l])

\* attempt_reconnect never dials a link that was disconnected, unless an
\* inbound call from the node marked it after the decision to redial, and
\* never dials a remote base.
NoRedialAfterDisconnect ==
    [][\A l \in heap :
         link[l].chan = "none" /\ link'[l].chan = "dial" =>
            /\ link[l].disced = 0 \/ link[l].killme
            /\ ~IsRemote(link[l])]_vars

\* The state of each link as its peer and the operator see it.
Live(l) == l \in linked \/ (l = inhand /\ pc = "redial")
LifeOf(l) ==
    IF ~Live(l) THEN "absent"
    ELSE IF link[l].disced # 0 THEN "leaving"
    ELSE CASE link[l].chan = "none" -> "waiting"
           [] link[l].chan = "dial" -> "calling"
           [] link[l].chan = "up" -> "up"
Life == [l \in LinkIds |-> LifeOf(l)]

LinkLife == INSTANCE LinkLife WITH Ids <- LinkIds, life <- Life

\* Each link goes through the life that module LinkLife describes: a link that
\* leaves never comes back and is gone in the end, and one that lost its
\* channel is redialled or gone in the end.
LifeCycle == LinkLife!Spec

\* The links to the node n that are not on their way out.
LiveLinks(n) ==
    {l \in LinkIds : Live(l) /\ link[l].name = n /\ link[l].disced = 0}

\* While nobody calls, a node that has a live link gets another one only while
\* an older link to it is on its way out: connect_link hangs up the link it
\* finds in the queue, and finds one if there is one.
SecondLinkBehindLeaving ==
    [][\A n \in Nodes :
         LiveLinks(n) # {} /\ LiveLinks(n)' \ LiveLinks(n) # {} =>
            \E k \in WithName(n) : link[k].disced # 0]_vars

\* A node has at most one link that is not on its way out: connect_link and
\* rpt_exec look for the node in the queue before they insert a link.
OneLinkPerNode ==
    \A l, m \in linked :
       /\ link[l].name = link[m].name /\ link[l].name \in Nodes
       /\ link[l].disced = 0 /\ link[m].disced = 0
       => l = m

\* A link that is allocated and not disconnected is in the queue, or in the
\* hands of attempt_reconnect: no permanent link gets lost.
NoLinkLost ==
    \A l \in heap : link[l].perma /\ link[l].disced = 0 => Live(l)
=============================================================================
