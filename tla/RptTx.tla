-------------------------------- MODULE RptTx --------------------------------
(***************************************************************************)
(* The transmitter of one repeater node: what rpt() decides in every turn  *)
(* of its loop from the receiver, the links, the autopatch and the         *)
(* telemetry that is queued, and the timers behind the decision:           *)
(*                                                                         *)
(*   totimer    time-out: how long the node may be kept busy               *)
(*   tailtimer  hang time: the transmitter stays on after the activity     *)
(*   idtimer    identification: when the station's ID is due               *)
(*   tmsgtimer  when the next tail message is due                          *)
(*                                                                         *)
(* A turn is a decision (Control), a wait with the count-down of the       *)
(* timers (Timers), at most one command and at most one frame.  The lock   *)
(* is dropped around the calls of rpt_telemetry inside the decision; of    *)
(* what the decision reads, only the queue and callmode are touched by     *)
(* other threads, and a change there is seen one turn later.  The queue    *)
(* tele is the set of the kinds of telemetry that are in it.               *)
(*                                                                         *)
(* Left out: sleep mode, voice-operated transmission but for its effect,   *)
(* parrot, local DTMF, external boards (elke), alternate tail, linktolink, *)
(* dias, notelemtx, localoverride, txdisable.                              *)
(***************************************************************************)
EXTENDS Integers

CONSTANTS
    Duplex,        \* p.duplex: 0 half, 1 three quarter, 2 and more full
    ToTime,        \* p.totime in ticks
    HangTime,      \* p.hangtime
    IdTime,        \* p.idtime, 0 for no identification
    PoliteId,      \* p.politeid
    TailTime,      \* p.tailmessagetime, 0 for no tail messages
    SquashTime,    \* p.tailsquashedtime
    Beaconing,     \* p.beaconing
    IdTalkover,    \* an IDTALKOVER message is configured
    CourtesyTone,  \* UNKEY and LINKUNKEY queue a courtesy tone
    TotDisable     \* the time-out timer stands still

ASSUME DuplexAssumption == Duplex \in 0..4
ASSUME TimeAssumption ==
    /\ ToTime \in Nat \ {0}
    /\ HangTime \in Nat \ {0}       \* a configured 0 becomes 1 ms
    /\ IdTime \in Nat
    /\ PoliteId \in Nat \ {0}
    /\ TailTime \in Nat
    /\ SquashTime \in Nat
ASSUME SwitchAssumption ==
    /\ Beaconing \in BOOLEAN
    /\ IdTalkover \in BOOLEAN
    /\ CourtesyTone \in BOOLEAN
    /\ TotDisable \in BOOLEAN

VARIABLES
    pc,         \* where rpt() stands
    keyed,      \* the receiver hears a signal
    realrx,     \* a link's last frame was a key-up
    lastrx,     \* the same as of the last count-down: myrpt->remrx
    callmode,   \* 0 no call, 3 call, 4 circuit busy
    paging,     \* the radio sends a page
    tele,       \* kinds of telemetry in the queue
    killed,     \* those that were told to stop
    totimer, tounkeyed, tonotify,
    tailtimer, tailevent, tailid,
    idtimer, mustid, deferid,
    tmsgtimer,
    lasttx,     \* the transmitter is keyed
    held,       \* history: keyed when the timer ran out, and since
    heard       \* history: a signal was relayed since the last ID

envVars == <<keyed, realrx, callmode, paging>>
teleVars == <<tele, killed>>
toVars == <<totimer, tounkeyed, tonotify>>
idVars == <<idtimer, mustid, tailid, deferid>>
tailVars == <<tailtimer, tailevent, tmsgtimer>>
history == <<held, heard>>
vars == <<pc, envVars, lastrx, teleVars, toVars, tailVars, idVars, lasttx,
          history>>

\* CT: UNKEY, LINKUNKEY.  OTHER: all that is spoken and not listed here.
Kinds == {"ID", "IDTALKOVER", "TAILMSG", "CT", "OTHER"}

-----------------------------------------------------------------------------
(* The decision.  voice is what the autopatch adds: with full duplex any    *)
(* call keeps the transmitter on, else the caller's voice does.             *)

Voices == IF Duplex > 1 THEN {callmode # 0} ELSE {FALSE, callmode # 0}

\* What the links are to transmit, too: exttx before the local receiver.
Content(voice) == voice \/ (Duplex > 1 /\ keyed) \/ "OTHER" \in tele
ExtTx(voice) == Content(voice) \/ (Duplex < 2 /\ keyed)

\* totx, before the time-out.
Active(voice) ==
    \/ Content(voice)
    \/ lastrx
    \/ Duplex > 0 /\ (tele \cap {"ID", "IDTALKOVER", "CT"}) # {}
    \/ paging

\* In half duplex the receiver has priority.
Listens == Duplex < 2 /\ keyed

\* Wrong variant: a re-key restarts the timer, and the marks stay.
RunningOnRekey(voice) ==
    IF Active(voice) /\ ~(tounkeyed /\ keyed) THEN totimer ELSE ToTime

\* The time-out variables are reset while nothing is active.
Running(voice) == IF Active(voice) THEN totimer ELSE ToTime
TimedOut(voice) == Running(voice) = 0

\* Wrong variant: the ID is due whether or not there was a signal.
MustIdUnkeyed == mustid \/ (IdTime # 0 /\ idtimer # 0)

MustId == mustid \/ (IdTime # 0 /\ idtimer # 0 /\ (keyed \/ lastrx))

\* A time-out is told once.
Told(voice) ==
    IF TimedOut(voice) /\ ~tonotify THEN tele \cup {"OTHER"} ELSE tele

\* Wrong variant: the signal does not have to go away in between.
RekeysUnreleased == totimer = 0 /\ keyed

\* The signal went away and is back after a time-out.
Rekeys == totimer = 0 /\ tounkeyed /\ keyed

\* The turn ends here, and the next one begins with the decision.
Rekeyed(voice) ==
    /\ pc = "control"
    /\ TimedOut(voice) /\ Rekeys
    /\ totimer' = ToTime
    /\ tounkeyed' = FALSE
    /\ tonotify' = FALSE
    /\ tele' = Told(voice)
    /\ mustid' = MustId
    /\ tailtimer' = HangTime
    /\ UNCHANGED <<pc, envVars, lastrx, killed, tailevent, tmsgtimer, idtimer,
                   tailid, deferid, lasttx, history>>

Tail(voice) ==
    IF TimedOut(voice) THEN 0
    ELSE IF Active(voice) THEN HangTime ELSE tailtimer

\* Wrong variant: the time-out does not switch the transmitter off.
SendsTimedOut(voice) == (Active(voice) /\ ~Listens) \/ Tail(voice) # 0

\* totx with the tail.
Sends(voice) ==
    ~TimedOut(voice) /\ ((Active(voice) /\ ~Listens) \/ Tail(voice) # 0)

\* Somebody speaks over an ID or a tail message.
SpokenOver ==
    /\ keyed \/ lastrx
    /\ \/ IdTalkover /\ (tele \cap {"ID", "IDTALKOVER"}) # {}
       \/ "TAILMSG" \in tele
Whoosh == IF SpokenOver THEN tele \cap {"ID", "TAILMSG"} ELSE {}
Talkover ==
    IF "ID" \in Whoosh \ killed /\ "IDTALKOVER" \notin tele
    THEN {"IDTALKOVER"} ELSE {}

\* Wrong variants: only beacons, or no beacons, are sent by the timer.
IdDueBeacon == IdTime # 0 /\ idtimer = 0 /\ Beaconing
IdDueUsed == IdTime # 0 /\ idtimer = 0 /\ MustId

\* queue_id by the ID timer ...
IdDue == IdTime # 0 /\ idtimer = 0 /\ (MustId \/ Beaconing)
\* ... and what the rest of the decision sees then.
IdTimer == IF IdDue THEN IdTime ELSE idtimer
TailId(voice) ==
    \/ tailid /\ ~IdDue
    \/ /\ IdTime # 0
       /\ Sends(voice) /\ ~ExtTx(voice)
       /\ IdTimer <= PoliteId
       /\ Tail(voice) # 0

\* The tail ends with an ID, or else with a tail message.
IdInTail(voice) == tailevent /\ TailId(voice)
MessageInTail(voice) ==
    tailevent /\ ~TailId(voice) /\ TailTime # 0 /\ tmsgtimer = 0
QueuesId(voice) == IdDue \/ IdInTail(voice)

\* rpt_telemetry puts an ID off while the radio sends a page.
Fresh(voice) ==
    Talkover
      \cup (IF QueuesId(voice) /\ ~paging THEN {"ID"} ELSE {})
      \cup (IF MessageInTail(voice) THEN {"TAILMSG"} ELSE {})
Queued(voice) == Told(voice) \cup Fresh(voice)

\* A call in circuit busy is given up after a time-out.
CallKept(voice) == callmode         \* wrong variant
Call(voice) == IF TimedOut(voice) /\ callmode = 4 THEN 0 ELSE callmode

\* Wrong variant: the receiver's priority is not checked again.
KeysOverSignal(voice) ==
    \/ Sends(voice) \/ IdInTail(voice) \/ MessageInTail(voice)
    \/ Duplex > 0 /\ Queued(voice) # {}

Keys(voice) ==
    /\ \/ Sends(voice) \/ IdInTail(voice) \/ MessageInTail(voice)
       \/ Duplex > 0 /\ Queued(voice) # {}
    /\ ~Listens

Control(voice) ==
    /\ pc = "control"
    /\ ~(TimedOut(voice) /\ Rekeys)
    /\ totimer' = Running(voice)
    /\ tounkeyed' = (Active(voice) /\ (tounkeyed \/ (totimer = 0 /\ ~keyed)))
    /\ tonotify' = (Active(voice) /\ (tonotify \/ totimer = 0))
    /\ callmode' = Call(voice)
    /\ tailtimer' = Tail(voice)
    /\ tailevent' = FALSE
    /\ tmsgtimer' = IF MessageInTail(voice) THEN TailTime ELSE tmsgtimer
    /\ idtimer' = IF QueuesId(voice) THEN IdTime ELSE idtimer
    /\ mustid' = (MustId /\ ~QueuesId(voice))
    /\ tailid' = (TailId(voice) /\ ~tailevent)
    /\ deferid' = (deferid \/ (QueuesId(voice) /\ paging))
    /\ tele' = Queued(voice)
    /\ killed' = (killed \cup Whoosh) \ Fresh(voice)
    /\ lasttx' = Keys(voice)
    /\ held' = (held /\ keyed)
    /\ heard' = ((heard \/ (Sends(voice) /\ (keyed \/ lastrx)))
                   /\ ~QueuesId(voice))
    /\ pc' = "wait"
    /\ UNCHANGED <<keyed, realrx, paging, lastrx>>

-----------------------------------------------------------------------------
(* The wait, after which e ticks have passed, and a deferred ID.            *)

LessUnclamped(t, e) == t - e      \* wrong variant

Less(t, e) == IF t > e THEN t - e ELSE 0

DeferredId == deferid /\ ~paging

Timers(e) ==
    LET queues == DeferredId /\ IdTime # 0 IN
    /\ pc = "wait"
    /\ lastrx' = realrx
    /\ deferid' = (deferid /\ ~DeferredId)
    /\ tele' = IF queues THEN tele \cup {"ID"} ELSE tele
    /\ killed' = IF queues THEN killed \ {"ID"} ELSE killed
    /\ mustid' = (mustid /\ ~queues)
    /\ tailid' = (tailid /\ ~queues)
    /\ heard' = (heard /\ ~queues)
    /\ idtimer' = Less(IF queues THEN IdTime ELSE idtimer, e)
    /\ tailtimer' = Less(tailtimer, e)
    /\ tailevent' = (tailevent \/ (tailtimer # 0 /\ tailtimer' = 0))
    /\ totimer' = IF TotDisable THEN totimer ELSE Less(totimer, e)
    /\ tmsgtimer' = Less(tmsgtimer, e)
    /\ pc' \in {"cmd"} \cup (IF e > 0 THEN {"control"} ELSE {})
    /\ held' = (held \/ (keyed /\ totimer # 0 /\ totimer' = 0))
    /\ UNCHANGED <<envVars, tounkeyed, tonotify, lasttx>>

-----------------------------------------------------------------------------
(* The command of the turn.                                                 *)

NoCommand ==
    /\ pc = "cmd"
    /\ pc' = "read"
    /\ UNCHANGED <<envVars, lastrx, teleVars, toVars, tailVars, idVars, lasttx,
                   history>>

\* status 1 (an ID1, which is not put off) and status 11.
StatusId(mode) ==
    LET puts == mode = "OTHER" \/ ~paging IN
    /\ pc = "cmd"
    /\ mode \in {"ID", "OTHER"}
    /\ IF IdTime # 0
       THEN /\ mustid' = FALSE
            /\ tailid' = FALSE
            /\ idtimer' = IdTime
       ELSE UNCHANGED <<mustid, tailid, idtimer>>
    /\ tele' = IF puts THEN tele \cup {mode} ELSE tele
    /\ killed' = (killed \cup (tele \cap {"ID"}))
                    \ (IF puts THEN {mode} ELSE {})
    /\ deferid' = (deferid \/ ~puts)
    /\ heard' = FALSE
    /\ pc' = "read"
    /\ UNCHANGED <<envVars, lastrx, toVars, tailVars, lasttx, held>>

\* cop 65: a page stops the IDs that are playing, to be sent afterwards.  id1
\* tells whether there is an ID1 among the others.
StartPage(id1) ==
    LET ids == (tele \cap {"ID", "IDTALKOVER"}) \ killed IN
    /\ pc = "cmd"
    /\ id1 => "OTHER" \in tele
    /\ paging' = TRUE
    /\ killed' = killed \cup ids
    /\ deferid' = (deferid \/ ids # {} \/ id1)
    /\ pc' = "read"
    /\ UNCHANGED <<keyed, realrx, callmode, lastrx, tele, toVars, tailVars,
                   idtimer, mustid, tailid, lasttx, history>>

-----------------------------------------------------------------------------
(* The frame of the turn.                                                   *)

Read ==
    /\ pc = "read"
    /\ pc' = "control"
    /\ UNCHANGED <<callmode, lastrx, killed, toVars, tailVars, idVars, lasttx,
                   history>>

ReadOther == Read /\ UNCHANGED <<keyed, realrx, paging, tele>>

\* A transceiver does not hear itself.
Hears == ~lasttx \/ Duplex > 1

RxKey == Read /\ Hears /\ keyed' = TRUE /\ UNCHANGED <<realrx, paging, tele>>

RxUnkey ==
    /\ Read
    /\ keyed' = FALSE
    /\ tele' = IF Hears /\ Duplex > 0 /\ keyed /\ CourtesyTone
               THEN tele \cup {"CT"} ELSE tele
    /\ UNCHANGED <<realrx, paging>>

LinkKey == Read /\ realrx' = TRUE /\ UNCHANGED <<keyed, paging, tele>>

\* One link unkeys; others may go on.
LinkUnkey ==
    /\ Read
    /\ realrx
    /\ realrx' \in BOOLEAN
    /\ tele' = IF Duplex > 0 /\ CourtesyTone THEN tele \cup {"CT"} ELSE tele
    /\ UNCHANGED <<keyed, paging>>

EndPage == Read /\ paging' = FALSE /\ UNCHANGED <<keyed, realrx, tele>>

-----------------------------------------------------------------------------
(* Other threads.                                                           *)

\* The last telemetry of a kind is over.  A tail message that was stopped is
\* not repeated for SquashTime.
TeleEnds(k) ==
    /\ k \in tele
    /\ tele' = tele \ {k}
    /\ killed' = killed \ {k}
    /\ \/ UNCHANGED tmsgtimer
       \/ k = "TAILMSG" /\ tmsgtimer' = SquashTime
    /\ UNCHANGED <<pc, envVars, lastrx, toVars, tailtimer, tailevent, idVars,
                   lasttx, history>>

\* rpt_call: a call begins, its far end leaves circuit busy, or it ends.
CallChanges(mode) ==
    /\ mode \in IF callmode = 0 THEN {3} ELSE IF callmode = 4 THEN {0}
                ELSE IF Duplex > 1 THEN {0, 4} ELSE {0}
    /\ callmode' = mode
    /\ UNCHANGED <<pc, keyed, realrx, paging, lastrx, teleVars, toVars,
                   tailVars, idVars, lasttx, history>>

\* A page that does not end within 300 s is taken to be over.
PageLost ==
    /\ paging
    /\ paging' = FALSE
    /\ UNCHANGED <<pc, keyed, realrx, callmode, lastrx, teleVars, toVars,
                   tailVars, idVars, lasttx, history>>

-----------------------------------------------------------------------------
Init ==
    /\ pc = "control"
    /\ keyed = FALSE /\ realrx = FALSE /\ lastrx = FALSE
    /\ callmode = 0
    /\ paging = FALSE
    /\ tele = {} /\ killed = {}
    /\ totimer = ToTime /\ tounkeyed = FALSE /\ tonotify = FALSE
    /\ tailtimer = 0 /\ tailevent = FALSE /\ tailid = FALSE
    /\ idtimer = PoliteId /\ mustid = FALSE /\ deferid = FALSE
    /\ tmsgtimer = TailTime
    /\ lasttx = FALSE
    /\ held = FALSE /\ heard = FALSE

Decides == \E voice \in Voices : Control(voice) \/ Rekeyed(voice)

CommandStep ==
    \/ NoCommand
    \/ \E mode \in {"ID", "OTHER"} : StatusId(mode)
    \/ \E id1 \in BOOLEAN : StartPage(id1)

ReadStep == ReadOther \/ RxKey \/ RxUnkey \/ LinkKey \/ LinkUnkey \/ EndPage

RptStep == Decides \/ (\E e \in {0, 1} : Timers(e)) \/ CommandStep \/ ReadStep

OtherStep ==
    \/ \E k \in Kinds : TeleEnds(k)
    \/ \E mode \in {0, 3, 4} : CallChanges(mode)
    \/ PageLost

Next == RptStep \/ OtherStep

Spec == Init /\ [][Next]_vars

\* rpt() runs, time passes, and every telemetry comes to its end.
Fairness ==
    /\ WF_vars(RptStep)
    /\ SF_vars(Timers(1))
    /\ WF_vars(PageLost)
    /\ \A k \in Kinds : WF_vars(TeleEnds(k))

FairSpec == Spec /\ Fairness

-----------------------------------------------------------------------------
(* Properties.                                                              *)

TypeOK ==
    /\ pc \in {"control", "wait", "cmd", "read"}
    /\ keyed \in BOOLEAN /\ realrx \in BOOLEAN /\ lastrx \in BOOLEAN
    /\ callmode \in {0, 3, 4}
    /\ paging \in BOOLEAN
    /\ tele \subseteq Kinds
    /\ killed \subseteq tele
    /\ totimer \in 0..ToTime
    /\ tounkeyed \in BOOLEAN /\ tonotify \in BOOLEAN
    /\ tailtimer \in 0..HangTime
    /\ tailevent \in BOOLEAN /\ tailid \in BOOLEAN
    /\ idtimer \in Nat
    /\ mustid \in BOOLEAN /\ deferid \in BOOLEAN
    /\ tmsgtimer \in Nat
    /\ lasttx \in BOOLEAN
    /\ held \in BOOLEAN /\ heard \in BOOLEAN

\* A full duplex node does not relay a signal that timed out again before the
\* signal went away, whatever else keys the node up or lets go meanwhile.
NotRelayedUntilReleased == Duplex > 1 /\ held => totimer = 0

\* The marks of a time-out last as long as the time-out: the next one is told
\* again, and ends only when its own signal comes back.
MarksOfTimeOut == tounkeyed \/ tonotify => totimer = 0

\* After a time-out the transmitter only sends telemetry.
TimeOutSilences ==
    [][pc = "control" /\ pc' = "wait" /\ totimer' = 0 /\ tele' = {} /\ ~paging
         => ~lasttx']_vars

\* A node that cannot receive while it transmits does not transmit over a
\* signal that it hears, not even its ID, a tail message or telemetry.
ListensFirst ==
    [][pc = "control" /\ pc' = "wait" /\ keyed /\ Duplex < 2 => ~lasttx']_vars

\* A mark for a clean-up ID leads to an ID, at once or after a page.
MustIdIsSent == mustid ~> ~mustid

\* "Circuit busy" does not keep a transmitter on for ever that may time out.
BusyEnds == callmode = 4 ~> callmode = 0

\* When everybody is silent for good and orders no ID, and no ID takes so long that the next
\* one is due in its own tail, the transmitter is off for good in the end.
Silence == ~keyed /\ ~realrx /\ callmode = 0 /\ ~paging
ShortId == tailtimer # 0 => idtimer > PoliteId
QuietInTheEnd ==
    /\ <>[](Silence /\ ShortId)
    /\ <>[][~\E mode \in {"ID", "OTHER"} : StatusId(mode)]_vars
    => <>[]~lasttx

\* A signal that was relayed is followed by an ID.
IdFollows == heard ~> ~heard

\* When the node is silent and the ID timer has expired, no signal was relayed
\* since the last ID: the clean-up ID was sent.
CleanUpId ==
    pc = "wait" /\ ~keyed /\ ~lastrx /\ ~lasttx /\ idtimer = 0 => ~heard
=============================================================================
