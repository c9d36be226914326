----------------------------- MODULE RptTxProofs -----------------------------
(***************************************************************************)
(* Proofs of the safety properties of RptTx.                               *)
(*                                                                         *)
(* NotRelayedUntilReleased is not inductive: a re-key in a state with      *)
(* tounkeyed set would restart the timer.  It is strengthened by "a signal *)
(* that is still held was not taken for gone", which in turn rests on      *)
(* MarksOfTimeOut when the timer runs out.                                 *)
(***************************************************************************)
EXTENDS RptTx, TLAPS

HeldIsNotGone == Duplex > 1 /\ held => totimer = 0 /\ ~tounkeyed

Inv == TypeOK /\ MarksOfTimeOut /\ HeldIsNotGone

-----------------------------------------------------------------------------
(* Operators.                                                               *)

LEMMA LessType ==
  ASSUME NEW m \in Nat, NEW t \in 0..m, NEW e \in {0, 1}
  PROVE  Less(t, e) \in 0..m
  BY DEF Less

LEMMA RunningType ==
  ASSUME TypeOK, NEW voice
  PROVE  Running(voice) \in 0..ToTime
  BY TimeAssumption DEF TypeOK, Running

LEMMA TailType ==
  ASSUME TypeOK, NEW voice
  PROVE  Tail(voice) \in 0..HangTime
  BY TimeAssumption DEF TypeOK, Tail

LEMMA QueuedType ==
  ASSUME TypeOK, NEW voice
  PROVE  /\ Queued(voice) \subseteq Kinds
         /\ Told(voice) \subseteq Kinds
         /\ (killed \cup Whoosh) \ Fresh(voice) \subseteq Queued(voice)
         /\ killed \subseteq Told(voice)
<1>1. Whoosh \subseteq tele /\ tele \subseteq Told(voice)
  BY DEF Whoosh, Told
<1>2. Told(voice) \subseteq Kinds
  BY DEF TypeOK, Told, Kinds
<1>3. Fresh(voice) \subseteq Kinds
  BY DEF Fresh, Talkover, Kinds
<1> QED
  BY <1>1, <1>2, <1>3 DEF TypeOK, Queued

\* While a full duplex node hears a signal it is active.
LEMMA KeyedActive ==
  ASSUME Duplex > 1, keyed, NEW voice
  PROVE  Active(voice)
  BY DEF Active, Content

-----------------------------------------------------------------------------
(* The steps.                                                               *)

LEMMA InvInit == Init => Inv
<1> SUFFICES ASSUME Init
             PROVE  Inv
  OBVIOUS
<1>1. TypeOK
  <2>1. totimer \in 0..ToTime /\ tailtimer \in 0..HangTime
    BY TimeAssumption DEF Init
  <2>2. idtimer \in Nat /\ tmsgtimer \in Nat
    BY TimeAssumption DEF Init
  <2> QED
    BY <2>1, <2>2 DEF Init, TypeOK
<1>2. MarksOfTimeOut /\ HeldIsNotGone
  BY DEF Init, MarksOfTimeOut, HeldIsNotGone
<1> QED
  BY <1>1, <1>2 DEF Inv

LEMMA ControlStep ==
  ASSUME Inv, NEW voice \in Voices, Control(voice)
  PROVE  Inv'
<1> USE DEF Inv
<1>1. TypeOK'
  <2>1. /\ totimer' \in 0..ToTime
        /\ tailtimer' \in 0..HangTime
    BY RunningType, TailType DEF Control
  <2>2. tele' \subseteq Kinds /\ killed' \subseteq tele'
    BY QueuedType DEF Control
  <2>3. idtimer' \in Nat /\ tmsgtimer' \in Nat
    BY TimeAssumption DEF Control, TypeOK
  <2>4. callmode' \in {0, 3, 4}
    BY DEF Control, Call, TypeOK
  <2>5. /\ tounkeyed' \in BOOLEAN /\ tonotify' \in BOOLEAN
        /\ tailevent' \in BOOLEAN /\ tailid' \in BOOLEAN
        /\ mustid' \in BOOLEAN /\ deferid' \in BOOLEAN
        /\ lasttx' \in BOOLEAN
        /\ held' \in BOOLEAN /\ heard' \in BOOLEAN
    BY Zenon DEF Control, TypeOK, Keys
  <2>6. /\ pc' = "wait"
        /\ UNCHANGED <<keyed, realrx, paging, lastrx>>
    BY DEF Control
  <2> QED
    BY <2>1, <2>2, <2>3, <2>4, <2>5, <2>6 DEF TypeOK
<1>2. MarksOfTimeOut'
  BY DEF Control, MarksOfTimeOut, Running
<1>3. HeldIsNotGone'
  BY KeyedActive DEF Control, HeldIsNotGone, Running
<1> QED
  BY <1>1, <1>2, <1>3

LEMMA RekeyedStep ==
  ASSUME Inv, NEW voice \in Voices, Rekeyed(voice)
  PROVE  Inv'
<1> USE DEF Inv
<1>1. TypeOK'
  <2>1. tele' \subseteq Kinds /\ killed' \subseteq tele'
    BY QueuedType DEF Rekeyed
  <2>2. mustid' \in BOOLEAN
    BY Zenon DEF Rekeyed, MustId, TypeOK
  <2>3. totimer' \in 0..ToTime /\ tailtimer' \in 0..HangTime
    BY TimeAssumption DEF Rekeyed
  <2> QED
    BY <2>1, <2>2, <2>3, ZenonT(30) DEF Rekeyed, TypeOK, envVars, history
<1>2. MarksOfTimeOut'
  BY DEF Rekeyed, MarksOfTimeOut
<1>3. HeldIsNotGone'
  BY DEF Rekeyed, Rekeys, HeldIsNotGone, history
<1> QED
  BY <1>1, <1>2, <1>3

LEMMA TimersStep ==
  ASSUME Inv, NEW e \in {0, 1}, Timers(e)
  PROVE  Inv'
<1> USE DEF Inv
<1>1. TypeOK'
  <2>1. totimer' \in 0..ToTime /\ tailtimer' \in 0..HangTime
    BY LessType, TimeAssumption DEF Timers, TypeOK
  <2>2. tmsgtimer' \in Nat /\ idtimer' \in Nat
    BY TimeAssumption DEF Timers, TypeOK, Less
  <2>3. tele' \subseteq Kinds /\ killed' \subseteq tele'
    BY DEF Timers, TypeOK, Kinds
  <2>4. /\ deferid' \in BOOLEAN /\ mustid' \in BOOLEAN
        /\ tailid' \in BOOLEAN /\ tailevent' \in BOOLEAN
        /\ held' \in BOOLEAN /\ heard' \in BOOLEAN
    BY Zenon DEF Timers, TypeOK
  <2>5. /\ pc' \in {"control", "wait", "cmd", "read"}
        /\ lastrx' \in BOOLEAN
        /\ UNCHANGED <<envVars, tounkeyed, tonotify, lasttx>>
    BY DEF Timers, TypeOK
  <2> QED
    BY <2>1, <2>2, <2>3, <2>4, <2>5 DEF TypeOK, envVars
<1>2. MarksOfTimeOut'
  BY DEF Timers, MarksOfTimeOut, Less
<1>3. HeldIsNotGone'
  <2>1. held' => held \/ (totimer # 0 /\ totimer' = 0)
    BY Zenon DEF Timers
  <2>2. totimer = 0 => totimer' = 0
    BY DEF Timers, Less
  <2>3. tounkeyed' = tounkeyed
    BY DEF Timers
  <2> QED
    BY <2>1, <2>2, <2>3 DEF HeldIsNotGone, MarksOfTimeOut
<1> QED
  BY <1>1, <1>2, <1>3

LEMMA CommandsKeep ==
  ASSUME Inv, CommandStep
  PROVE  Inv'
<1> USE DEF Inv
<1>1. UNCHANGED <<toVars, held, tailtimer>>
  BY DEF CommandStep, NoCommand, StatusId, StartPage, tailVars, history
<1>2. MarksOfTimeOut' /\ HeldIsNotGone'
  BY <1>1 DEF toVars, MarksOfTimeOut, HeldIsNotGone
<1>3. CASE NoCommand
  BY <1>2, <1>3 DEF NoCommand, TypeOK, envVars, teleVars, toVars, tailVars,
                    idVars, history
<1>4. ASSUME NEW mode \in {"ID", "OTHER"}, StatusId(mode)
      PROVE  TypeOK'
  <2>1. tele' \subseteq Kinds /\ killed' \subseteq tele'
    BY <1>4 DEF StatusId, TypeOK, Kinds
  <2>2. idtimer' \in Nat
    BY <1>4, TimeAssumption DEF StatusId, TypeOK
  <2>3. mustid' \in BOOLEAN /\ tailid' \in BOOLEAN /\ deferid' \in BOOLEAN
    BY <1>4, Zenon DEF StatusId, TypeOK
  <2> QED
    BY <1>4, <2>1, <2>2, <2>3 DEF StatusId, TypeOK, envVars, toVars, tailVars
<1>5. ASSUME NEW id1 \in BOOLEAN, StartPage(id1)
      PROVE  TypeOK'
  <2>1. killed' \subseteq tele' /\ tele' \subseteq Kinds
    BY <1>5 DEF StartPage, TypeOK
  <2>2. deferid' \in BOOLEAN
    BY <1>5, Zenon DEF StartPage, TypeOK
  <2> QED
    BY <1>5, <2>1, <2>2 DEF StartPage, TypeOK, toVars, tailVars, history
<1> QED
  BY <1>2, <1>3, <1>4, <1>5 DEF CommandStep

LEMMA ReadsKeep ==
  ASSUME Inv, ReadStep
  PROVE  Inv'
<1> USE DEF Inv
<1>1. Read
  BY DEF ReadStep, ReadOther, RxKey, RxUnkey, LinkKey, LinkUnkey, EndPage
<1>2. MarksOfTimeOut' /\ HeldIsNotGone'
  BY <1>1 DEF Read, toVars, history, MarksOfTimeOut, HeldIsNotGone
<1>3. tele' \subseteq Kinds /\ tele \subseteq tele'
  BY DEF ReadStep, ReadOther, RxKey, RxUnkey, LinkKey, LinkUnkey, EndPage,
         TypeOK, Kinds
<1>4. keyed' \in BOOLEAN /\ realrx' \in BOOLEAN /\ paging' \in BOOLEAN
  BY DEF ReadStep, ReadOther, RxKey, RxUnkey, LinkKey, LinkUnkey, EndPage,
         TypeOK
<1>5. TypeOK'
  BY <1>1, <1>3, <1>4 DEF Read, TypeOK, toVars, tailVars, idVars, history
<1> QED
  BY <1>2, <1>5

LEMMA OthersKeep ==
  ASSUME Inv, OtherStep
  PROVE  Inv'
<1> USE DEF Inv
<1>1. ASSUME NEW k \in Kinds, TeleEnds(k)
      PROVE  Inv'
  <2>1. tmsgtimer' \in Nat
    BY <1>1, TimeAssumption DEF TeleEnds, TypeOK
  <2>2. TypeOK'
    BY <1>1, <2>1 DEF TeleEnds, TypeOK, envVars, toVars, idVars, history
  <2> QED
    BY <1>1, <2>2 DEF TeleEnds, toVars, history, MarksOfTimeOut, HeldIsNotGone
<1>2. ASSUME NEW mode \in {0, 3, 4}, CallChanges(mode)
      PROVE  Inv'
  BY <1>2 DEF CallChanges, TypeOK, teleVars, toVars, tailVars, idVars, history,
              MarksOfTimeOut, HeldIsNotGone
<1>3. CASE PageLost
  <2>1. TypeOK'
    <3>1. paging' = FALSE
      BY <1>3 DEF PageLost
    <3>2. UNCHANGED <<pc, keyed, realrx, callmode, lastrx, tele, killed,
                      totimer, tounkeyed, tonotify, tailtimer, tailevent,
                      tmsgtimer, idtimer, mustid, tailid, deferid, lasttx,
                      held, heard>>
      BY <1>3 DEF PageLost, teleVars, toVars, tailVars, idVars, history
    <3>3. TypeOK
      OBVIOUS
    <3>4. /\ pc' \in {"control", "wait", "cmd", "read"}
          /\ callmode' \in {0, 3, 4}
          /\ totimer' \in 0..ToTime /\ tailtimer' \in 0..HangTime
          /\ idtimer' \in Nat /\ tmsgtimer' \in Nat
      BY <3>2, <3>3 DEF TypeOK
    <3>5. tele' \subseteq Kinds /\ killed' \subseteq tele'
      BY <3>2, <3>3 DEF TypeOK
    <3>6. /\ keyed' \in BOOLEAN /\ realrx' \in BOOLEAN /\ lastrx' \in BOOLEAN
          /\ paging' \in BOOLEAN
          /\ tounkeyed' \in BOOLEAN /\ tonotify' \in BOOLEAN
          /\ tailevent' \in BOOLEAN /\ tailid' \in BOOLEAN
          /\ mustid' \in BOOLEAN /\ deferid' \in BOOLEAN
          /\ lasttx' \in BOOLEAN
          /\ held' \in BOOLEAN /\ heard' \in BOOLEAN
      BY <3>1, <3>2, <3>3, ZenonT(30) DEF TypeOK
    <3> QED
      BY <3>4, <3>5, <3>6 DEF TypeOK
  <2> QED
    BY <1>3, <2>1 DEF PageLost, toVars, history, MarksOfTimeOut, HeldIsNotGone
<1> QED
  BY <1>1, <1>2, <1>3 DEF OtherStep

LEMMA InvStep == Inv /\ [Next]_vars => Inv'
<1> SUFFICES ASSUME Inv, [Next]_vars
             PROVE  Inv'
  OBVIOUS
<1>1. CASE UNCHANGED vars
  BY <1>1 DEF vars, envVars, teleVars, toVars, tailVars, idVars, history, Inv,
              TypeOK, MarksOfTimeOut, HeldIsNotGone
<1> QED
  BY <1>1, ControlStep, RekeyedStep, TimersStep, CommandsKeep, ReadsKeep,
     OthersKeep DEF Next, RptStep, Decides

-----------------------------------------------------------------------------
(* The theorems.                                                            *)

\* The invariant holds in every state.
THEOREM Invariance == Spec => []Inv
  BY InvInit, InvStep, PTL DEF Spec

\* The timers stay within their start values, and only queued telemetry is
\* told to stop.
THEOREM TypeCorrect == Spec => []TypeOK
<1>1. Inv => TypeOK
  BY DEF Inv
<1> QED
  BY <1>1, Invariance, PTL

\* The marks of a time-out end with it.
THEOREM MarksEnd == Spec => []MarksOfTimeOut
<1>1. Inv => MarksOfTimeOut
  BY DEF Inv
<1> QED
  BY <1>1, Invariance, PTL

\* A signal that timed out has to go away before it is relayed again.
THEOREM NotRelayed == Spec => []NotRelayedUntilReleased
<1>1. Inv => NotRelayedUntilReleased
  BY DEF Inv, HeldIsNotGone, NotRelayedUntilReleased
<1> QED
  BY <1>1, Invariance, PTL

\* Only Control leads from the decision to the wait.
LEMMA OnlyControl ==
  ASSUME [Next]_vars, pc = "control", pc' = "wait"
  PROVE  \E voice \in Voices : Control(voice)
<1>1. ~UNCHANGED vars
  BY DEF vars
<1>2. ~CommandStep /\ ~ReadStep
  BY DEF CommandStep, NoCommand, StatusId, StartPage,
         ReadStep, ReadOther, RxKey, RxUnkey, LinkKey, LinkUnkey, EndPage, Read
<1>3. ~OtherStep
  BY DEF OtherStep, TeleEnds, CallChanges, PageLost
<1>4. \A e : ~Timers(e)
  BY DEF Timers
<1>5. \A voice : ~Rekeyed(voice)
  BY DEF Rekeyed
<1> QED
  BY <1>1, <1>2, <1>3, <1>4, <1>5 DEF Next, RptStep, Decides

\* After a time-out nothing but telemetry keys the transmitter.
THEOREM Silenced == Spec => TimeOutSilences
<1>1. ASSUME [Next]_vars, pc = "control", pc' = "wait",
             totimer' = 0, tele' = {}, ~paging
      PROVE  ~lasttx'
  <2>1. PICK voice \in Voices : Control(voice)
    BY <1>1, OnlyControl
  <2>2. ~Sends(voice)
    BY <1>1, <2>1 DEF Control, Sends, TimedOut
  <2>3. Queued(voice) = {}
    BY <1>1, <2>1 DEF Control
  <2>4. ~IdInTail(voice) /\ ~MessageInTail(voice)
    BY <1>1, <2>3 DEF Queued, Fresh, QueuesId
  <2>5. ~Keys(voice)
    BY <2>2, <2>3, <2>4 DEF Keys
  <2> QED
    BY <2>1, <2>5 DEF Control
<1>2. [Next]_vars =>
         [pc = "control" /\ pc' = "wait" /\ totimer' = 0 /\ tele' = {} /\ ~paging
            => ~lasttx']_vars
  BY <1>1
<1> QED
  BY <1>2, PTL DEF Spec, TimeOutSilences

\* In half duplex a signal that is heard silences the transmitter.
THEOREM Listened == Spec => ListensFirst
<1>1. ASSUME [Next]_vars, pc = "control", pc' = "wait", keyed, Duplex < 2
      PROVE  ~lasttx'
  BY <1>1, OnlyControl DEF Control, Keys, Listens
<1>2. [Next]_vars =>
         [pc = "control" /\ pc' = "wait" /\ keyed /\ Duplex < 2 => ~lasttx']_vars
  BY <1>1
<1> QED
  BY <1>2, PTL DEF Spec, ListensFirst
=============================================================================
