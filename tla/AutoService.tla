----------------------------- MODULE AutoService -----------------------------
(***************************************************************************)
(* main/autoservice.c: one background thread reads the channels whose      *)
(* owners are busy elsewhere, keeps their signalling frames, and gives     *)
(* them back when the owner returns.                                       *)
(*                                                                         *)
(* Each section under the list's lock is one action; the thread's wait for *)
(* the condition, which releases that lock, ends an action.  A channel's   *)
(* lock is a variable because ast_hangup holds it across several steps.    *)
(* From main/channel.c: ast_queue_frame, ast_read, ast_softhangup,         *)
(* ast_queue_hangup, ast_hangup and the parts of ast_waitfor_n that lock   *)
(* the channels and choose the one to read.                                *)
(***************************************************************************)
EXTENDS Naturals, FiniteSets, SequencesExt

CONSTANTS
    Users,        \* threads that start and stop autoservice
    Chans,        \* channels
    Serves,       \* the channels a thread may have serviced
    Entries,      \* addresses of struct asent
    Nobody,       \* holder of a free lock, and "no entry"
    MaxMons,      \* MAX_AUTOMONS
    StateWrap,    \* number of values of as_chan_list_state, 2^32
    MaxDepth,     \* bound: nested starts of one thread on one channel
    MaxSignals,   \* bound: frames worth keeping that arrive on a channel
    Talks,        \* bound: the channels on which such frames arrive
    Hangs,        \* bound: the channels that are hung up
    ThreadFails   \* ast_pthread_create_background may fail

ASSUME AutoServiceAssumption ==
    /\ Serves \in [Users -> SUBSET Chans]
    /\ Nobody \notin Users \cup Chans \cup Entries
    /\ MaxMons \in Nat \ {0}
    /\ StateWrap \in Nat \ {0, 1}
    /\ MaxDepth \in Nat
    /\ MaxSignals \in Nat
    /\ Talks \subseteq Chans /\ Hangs \subseteq Chans
    /\ ThreadFails \in BOOLEAN

\* Frames: the n-th frame worth keeping of its channel (DTMF end, control,
\* text, image, HTML), the control frame that says hangup, and any frame
\* that the thread throws away.
Signals == 1 .. MaxSignals
Null == 0
Hangup == MaxSignals + 1
Frames == {Null, Hangup} \cup Signals

VARIABLES
    aslist,              \* the list, the newest entry first
    heap,                \* allocated entries
    asent,               \* their contents
    as_chan_list_state,
    created,             \* asthread # AST_PTHREADT_NULL
    signalled,           \* the sleeping thread has been signalled
    tpc,                 \* where the thread is
    mons,                \* its arrays ents and mons, by place in the list
    todo,                \* its indices of channels that are yet to be locked
    at,                  \* its index of the channel to be read
    hand,                \* the frame to be kept
    chan,                \* the channels
    user,                \* where each user is, and its locals
    depth                \* starts not yet stopped, of each user and channel

list  == <<aslist, heap, asent, as_chan_list_state>>
svc   == <<created, signalled, tpc, mons, todo, at, hand>>
users == <<user, depth>>
vars  == <<list, svc, chan, users>>

Asent == [chan : Chans \cup {Nobody}, use_count : Nat,
          orig_end_dtmf_flag : BOOLEAN, deferred_frames : Seq(Frames)]
Freed == [chan |-> Nobody, use_count |-> 0, orig_end_dtmf_flag |-> FALSE,
          deferred_frames |-> <<>>]

\* A user between two calls has no locals; in a call it is at pc, works on
\* channel on and entry ent, and a stop has saved the list's state.
Busy == {"lock", "poll", "read", "defer"}   \* the thread uses its arrays

User == [pc : {"idle", "flag", "insert", "wait", "flush", "free"},
         on : Chans \cup {Nobody}, ent : Entries \cup {Nobody},
         saved : 0 .. StateWrap - 1]
Idle == [pc |-> "idle", on |-> Nobody, ent |-> Nobody, saved |-> 0]

\* alive: allocated.  end_dtmf: AST_FLAG_END_DTMF_ONLY.  soft: _softhangup.
\* The others are for the properties: how many signals came, which of them
\* the owner has read, whether the owner knows of the hangup, and whether
\* a failed start left the flag behind.
Channel == [alive : BOOLEAN, lock : Users \cup {Nobody}, end_dtmf : BOOLEAN,
            soft : BOOLEAN, readq : Seq(Frames), came : 0 .. MaxSignals,
            got : SUBSET Signals, told : BOOLEAN, spoilt : BOOLEAN]

Fresh == [alive |-> TRUE, lock |-> Nobody, end_dtmf |-> FALSE, soft |-> FALSE,
          readq |-> <<>>, came |-> 0, got |-> {}, told |-> FALSE,
          spoilt |-> FALSE]

Listed(c) == {e \in ToSet(aslist) : asent[e].chan = c}

\* A search of the list for channel c stops at its i-th entry.
Finds(i, c) ==
    /\ i \in DOMAIN aslist /\ asent[aslist[i]].chan = c
    /\ \A j \in 1 .. i - 1 : asent[aslist[j]].chan # c

\* Nothing is queued behind a hangup.
Queue(q, f) == IF q # <<>> /\ Last(q) = Hangup THEN q ELSE Append(q, f)

\* ast_queue_frame
Queued(ch, f) == [ch EXCEPT !.readq = Queue(ch.readq, f)]

Init ==
    /\ aslist = <<>> /\ heap = {} /\ as_chan_list_state = 0
    /\ asent = [e \in Entries |-> Freed]
    /\ created = FALSE /\ signalled = FALSE
    /\ tpc = "none" /\ mons = <<>> /\ todo = {} /\ at = 0 /\ hand = Null
    /\ chan = [c \in Chans |-> Fresh]
    /\ user = [u \in Users |-> Idle]
    /\ depth = [u \in Users |-> [c \in Chans |-> 0]]

-----------------------------------------------------------------------------
(* autoservice_run *)

\* The entries to be watched: the first MaxMons whose channel is not hung up.
Open == {i \in DOMAIN aslist : ~chan[asent[aslist[i]].chan].soft}
Watched == {i \in Open : Cardinality({j \in Open : j < i}) < MaxMons}

Gather ==
    /\ mons' = [i \in Watched |->
                   [ent |-> aslist[i], chan |-> asent[aslist[i]].chan]]
    /\ todo' = Watched
    /\ tpc' = IF Watched = {} THEN "top" ELSE "lock"

\* The locals of the loop's body go out of scope.
Loops ==
    /\ tpc' = "top" /\ mons' = <<>> /\ todo' = {} /\ at' = 0 /\ hand' = Null

Count ==
    IF as_chan_list_state = StateWrap - 1 THEN 0 ELSE as_chan_list_state + 1

\* Bound: a stop looks at the state every millisecond, so it does not miss
\* 2^32 rebuilds, and the state never comes back to a value a stop waits on.
NoneSleepsThrough ==
    \A u \in Users : user[u].pc = "wait" => user[u].saved # Count

\* "At this point, we know that no channels that have been removed are going
\* to get used again."
Rebuild ==
    /\ tpc = "top"
    /\ NoneSleepsThrough
    /\ as_chan_list_state' = Count
    /\ IF aslist = <<>>
       THEN tpc' = "asleep" /\ UNCHANGED <<mons, todo>>
       ELSE Gather
    /\ UNCHANGED <<aslist, heap, asent, created, signalled, at, hand, chan,
                   users>>

\* ast_cond_wait returns, with or without a signal.
Wake ==
    /\ tpc = "asleep"
    /\ signalled' = FALSE
    /\ Gather
    /\ UNCHANGED <<list, created, at, hand, chan, users>>

\* ast_waitfor_n waits for the lock of the channel at place i.
LocksAnyway(i) == TRUE   \* wrong variant

Locks(i) == chan[mons[i].chan].lock = Nobody

\* ast_waitfor_n locks and unlocks each channel in turn before it polls.
LockOne ==
    \E i \in todo :
    /\ tpc = "lock"
    /\ \A j \in todo : i <= j
    /\ Locks(i)
    /\ todo' = todo \ {i}
    /\ tpc' = IF todo = {i} THEN "poll" ELSE "lock"
    /\ UNCHANGED <<list, created, signalled, mons, at, hand, chan, users>>

Ready == {i \in DOMAIN mons : chan[mons[i].chan].readq # <<>>}

\* 50 ms pass, or a signal to the thread ends the poll.
PollNone ==
    /\ tpc = "poll"
    /\ Loops
    /\ UNCHANGED <<list, created, signalled, chan, users>>

\* The last of the channels with something to read wins.
PollWins ==
    \E i \in Ready :
    /\ tpc = "poll"
    /\ \A j \in Ready : j <= i
    /\ at' = i
    /\ tpc' = "read"
    /\ UNCHANGED <<list, created, signalled, mons, todo, hand, chan, users>>

\* ast_read: a hung up channel gives no frame and keeps its queue; a hangup
\* frame gives no frame and marks the channel.
ReadFrom(ch) ==
    IF ch.soft THEN ch
    ELSE [ch EXCEPT !.readq = Tail(@), !.soft = Head(ch.readq) = Hangup]

\* What ast_read returns, a hangup standing for no frame.
FrameOf(ch) == IF ch.soft THEN Hangup ELSE Head(ch.readq)

\* ast_read does not wait for the channel's lock: it returns a null frame.
ReadBusy ==
    /\ tpc = "read"
    /\ chan[mons[at].chan].lock # Nobody
    /\ Loops
    /\ UNCHANGED <<list, created, signalled, chan, users>>

\* What is kept: signals, and a hangup frame in the place of no frame.
KeepsHangup(f) == f = Hangup   \* wrong variant
KeepsSignals(f) == f \in Signals   \* wrong variant

Keeps(f) == f # Null

Read ==
    LET c == mons[at].chan IN
    /\ tpc = "read"
    /\ chan[c].lock = Nobody
    /\ chan[c].soft \/ chan[c].readq # <<>>
    /\ chan' = [chan EXCEPT ![c] = ReadFrom(@)]
    /\ IF Keeps(FrameOf(chan[c]))
       THEN /\ tpc' = "defer" /\ hand' = FrameOf(chan[c])
            /\ UNCHANGED <<mons, todo, at>>
       ELSE Loops
    /\ UNCHANGED <<list, created, signalled, users>>

\* The first of the thread's entries for that channel gets the frame.
Takes(i) ==
    /\ i \in DOMAIN mons /\ mons[i].chan = mons[at].chan
    /\ \A j \in DOMAIN mons : mons[j].chan = mons[at].chan => i <= j

Defer ==
    \E i \in DOMAIN mons :
    /\ tpc = "defer"
    /\ Takes(i)
    /\ asent' = [asent EXCEPT ![mons[i].ent].deferred_frames = Append(@, hand)]
    /\ Loops
    /\ UNCHANGED <<aslist, heap, as_chan_list_state, created, signalled, chan,
                   users>>

-----------------------------------------------------------------------------
(* ast_autoservice_start *)

\* No thread uses a channel that another has begun to hang up.
Usable(c) == chan[c].alive /\ chan[c].lock = Nobody

\* An entry exists: autoservice is already handling the channel.
StartAgain(u, c) ==
    /\ user[u].pc = "idle" /\ c \in Serves[u] /\ Usable(c)
    /\ depth[u][c] < MaxDepth
    /\ \E i \in DOMAIN aslist :
          Finds(i, c) /\ asent' = [asent EXCEPT ![aslist[i]].use_count = @ + 1]
    /\ depth' = [depth EXCEPT ![u][c] = @ + 1]
    /\ UNCHANGED <<aslist, heap, as_chan_list_state, svc, chan, user>>

StartNew(u, c) ==
    /\ user[u].pc = "idle" /\ c \in Serves[u] /\ Usable(c)
    /\ depth[u][c] < MaxDepth
    /\ Listed(c) = {}
    /\ user' = [user EXCEPT ![u] = [Idle EXCEPT !.pc = "flag", !.on = c]]
    /\ UNCHANGED <<list, svc, chan, depth>>

\* The new entry, and the flag under the channel's lock.
SetFlag(u) ==
    LET c == user[u].on IN
    \E e \in Entries \ heap :
    /\ user[u].pc = "flag"
    /\ chan[c].lock = Nobody
    /\ heap' = heap \cup {e}
    /\ asent' = [asent EXCEPT ![e] =
                [chan |-> c, use_count |-> 1,
                 orig_end_dtmf_flag |-> chan[c].end_dtmf,
                 deferred_frames |-> <<>>]]
    /\ chan' = [chan EXCEPT ![c].end_dtmf = TRUE]
    /\ user' = [user EXCEPT ![u] = [user[u] EXCEPT !.pc = "insert", !.ent = e]]
    /\ UNCHANGED <<aslist, as_chan_list_state, svc, depth>>

\* Whether the thread that waits for work is signalled.
RousesOnMore == aslist # <<>> /\ created   \* wrong variant
RousesNever == FALSE   \* wrong variant

Rouses == aslist = <<>> /\ created

InsertEntry(u) ==
    /\ user[u].pc = "insert"
    /\ signalled' = (signalled \/ (Rouses /\ tpc = "asleep"))
    /\ aslist' = <<user[u].ent>> \o aslist
    /\ created' = TRUE
    /\ tpc' = IF created THEN tpc ELSE "top"
    /\ depth' = [depth EXCEPT ![u][user[u].on] = @ + 1]
    /\ user' = [user EXCEPT ![u] = Idle]
    /\ UNCHANGED <<heap, asent, as_chan_list_state, mons, todo, at, hand, chan>>

\* The thread cannot be created: the entry goes, the flag stays.
InsertFails(u) ==
    /\ ThreadFails
    /\ user[u].pc = "insert"
    /\ ~created
    /\ heap' = heap \ {user[u].ent}
    /\ asent' = [asent EXCEPT ![user[u].ent] = Freed]
    /\ chan' = [chan EXCEPT ![user[u].on].spoilt = TRUE]
    /\ user' = [user EXCEPT ![u] = Idle]
    /\ UNCHANGED <<aslist, as_chan_list_state, svc, depth>>

-----------------------------------------------------------------------------
(* ast_autoservice_stop *)

\* Under the list's lock the first entry loses a use, and the last use takes
\* it from the list: the user then waits, with the list's state saved.
LastUseLate(e) == asent[e].use_count < 1   \* wrong variant

LastUse(e) == asent[e].use_count <= 1

Release(u, c, next) ==
    \/ /\ Listed(c) = {}
       /\ user' = [user EXCEPT ![u] = next]
       /\ UNCHANGED <<aslist, asent>>
    \/ \E i \in DOMAIN aslist :
       LET e == aslist[i] IN
       /\ Finds(i, c)
       /\ asent' = [asent EXCEPT ![e].use_count = @ - 1]
       /\ IF LastUse(e)
          THEN /\ aslist' = RemoveAt(aslist, i)
               /\ user' = [user EXCEPT ![u] =
                              [pc |-> "wait", on |-> c, ent |-> e,
                               saved |-> as_chan_list_state]]
          ELSE /\ user' = [user EXCEPT ![u] = next]
               /\ UNCHANGED aslist

Stop(u, c) ==
    /\ user[u].pc = "idle" /\ depth[u][c] > 0
    /\ Release(u, c, Idle)
    /\ depth' = [depth EXCEPT ![u][c] = @ - 1]
    /\ UNCHANGED <<heap, as_chan_list_state, svc, chan>>

\* "Wait while autoservice thread rebuilds its list", then report a hangup
\* and give the flag back, without a lock.
RebuiltAtOnce(u) == TRUE   \* wrong variant

Rebuilt(u) == as_chan_list_state # user[u].saved

RestoredNever(flag, e) == flag   \* wrong variant

Restored(flag, e) == flag /\ asent[e].orig_end_dtmf_flag

StopSeen(u) ==
    LET c == user[u].on IN
    /\ user[u].pc = "wait"
    /\ Rebuilt(u)
    /\ chan' = [chan EXCEPT ![c] =
          [chan[c] EXCEPT
             !.told = chan[c].told \/ chan[c].soft,
             !.end_dtmf = Restored(chan[c].end_dtmf, user[u].ent)]]
    /\ user' = [user EXCEPT ![u] =
                  [user[u] EXCEPT !.pc = "flush", !.saved = 0]]
    /\ UNCHANGED <<list, svc, depth>>

\* ast_queue_frame for each deferred frame.
Flush(u) ==
    LET c == user[u].on
        e == user[u].ent IN
    /\ user[u].pc = "flush"
    /\ asent[e].deferred_frames # <<>>
    /\ chan[c].lock \in {u, Nobody}
    /\ chan' = [chan EXCEPT ![c] = Queued(@, Head(asent[e].deferred_frames))]
    /\ asent' = [asent EXCEPT ![e].deferred_frames = Tail(@)]
    /\ UNCHANGED <<aslist, heap, as_chan_list_state, svc, users>>

\* ast_hangup goes on with the channel.
HangsUp(u) == chan[user[u].on].lock = u

FreeEntry(u) ==
    LET e == user[u].ent IN
    /\ user[u].pc = "flush"
    /\ asent[e].deferred_frames = <<>>
    /\ heap' = heap \ {e}
    /\ asent' = [asent EXCEPT ![e] = Freed]
    /\ user' = [user EXCEPT ![u] =
                  IF HangsUp(u)
                  THEN [Idle EXCEPT !.pc = "free", !.on = user[u].on]
                  ELSE Idle]
    /\ UNCHANGED <<aslist, as_chan_list_state, svc, chan, depth>>

-----------------------------------------------------------------------------
(* The channels: main/channel.c *)

\* Nobody but u has the channel serviced or is about to.
Alone(u, c) ==
    \A v \in Users \ {u} : depth[v][c] = 0 /\ user[v].on # c

\* At most one start of autoservice on c is not stopped yet.
OneUse(c) == \A e \in Listed(c) : Listed(c) = {e} /\ LastUse(e)

\* ast_hangup stops autoservice under the channel's lock.  Its caller alone
\* uses the channel, and is in no more than one start of autoservice.
HangUp(u, c) ==
    /\ user[u].pc = "idle" /\ c \in Serves[u] \cap Hangs
    /\ Usable(c)
    /\ depth[u][c] <= 1 /\ Alone(u, c) /\ OneUse(c)
    /\ chan' = [chan EXCEPT ![c].lock = u]
    /\ depth' = [depth EXCEPT ![u][c] = 0]
    /\ Release(u, c, [Idle EXCEPT !.pc = "free", !.on = c])
    /\ UNCHANGED <<heap, as_chan_list_state, svc>>

\* ast_channel_free
FreeChannel(u) ==
    /\ user[u].pc = "free"
    /\ chan' = [chan EXCEPT ![user[u].on] = [Fresh EXCEPT !.alive = FALSE]]
    /\ user' = [user EXCEPT ![u] = Idle]
    /\ UNCHANGED <<list, svc, depth>>

\* ast_channel_alloc, at the address of a freed channel
NewChannel(c) ==
    /\ ~chan[c].alive
    /\ chan' = [chan EXCEPT ![c] = Fresh]
    /\ UNCHANGED <<list, svc, users>>

\* The owner reads the channel itself while it is not serviced.
OwnerReads(u, c) ==
    LET f == FrameOf(chan[c]) IN
    /\ user[u].pc = "idle" /\ c \in Serves[u]
    /\ Usable(c)
    /\ depth[u][c] = 0 /\ Alone(u, c)
    /\ IF chan[c].soft THEN ~chan[c].told ELSE chan[c].readq # <<>>
    /\ chan' = [chan EXCEPT ![c] =
                  [ReadFrom(chan[c]) EXCEPT
                     !.told = chan[c].told \/ f = Hangup,
                     !.got = chan[c].got \cup ({f} \cap Signals)]]
    /\ UNCHANGED <<list, svc, users>>

\* The driver queues a frame worth keeping.
Signal(c) ==
    /\ c \in Talks
    /\ Usable(c)
    /\ chan[c].came < MaxSignals
    /\ chan' = [chan EXCEPT ![c] = [Queued(chan[c], chan[c].came + 1) EXCEPT
                                      !.came = chan[c].came + 1]]
    /\ UNCHANGED <<list, svc, users>>

\* ast_queue_hangup marks the channel only if it gets the lock at once.
DeviceHangup(c) ==
    /\ c \in Hangs
    /\ Usable(c) /\ ~chan[c].soft
    /\ \E got_lock \in BOOLEAN :
          chan' = [chan EXCEPT ![c] =
                      [Queued(chan[c], Hangup) EXCEPT !.soft = got_lock]]
    /\ UNCHANGED <<list, svc, users>>

\* ast_softhangup, by any thread
SoftHangup(c) ==
    /\ c \in Hangs
    /\ Usable(c) /\ ~chan[c].soft
    /\ chan' = [chan EXCEPT ![c] =
                    [Queued(chan[c], Null) EXCEPT !.soft = TRUE]]
    /\ UNCHANGED <<list, svc, users>>

-----------------------------------------------------------------------------

\* The thread's steps, but for its wait for work.
Works ==
    \/ Rebuild \/ LockOne \/ PollNone \/ PollWins
    \/ ReadBusy \/ Read \/ Defer

\* What a user does once a call of start, stop or ast_hangup is under way.
Finishes(u) ==
    \/ SetFlag(u) \/ InsertEntry(u) \/ InsertFails(u)
    \/ Flush(u) \/ FreeEntry(u) \/ FreeChannel(u)

Calls(u, c) ==
    \/ StartAgain(u, c) \/ StartNew(u, c) \/ Stop(u, c) \/ HangUp(u, c)
    \/ OwnerReads(u, c)

Outside(c) == NewChannel(c) \/ Signal(c) \/ DeviceHangup(c) \/ SoftHangup(c)

Next ==
    \/ Works \/ Wake
    \/ \E u \in Users : Finishes(u) \/ StopSeen(u)
    \/ \E u \in Users, c \in Chans : Calls(u, c)
    \/ \E c \in Chans : Outside(c)

Spec == Init /\ [][Next]_vars

\* Threads are scheduled.  A wait for the condition ends when it was
\* signalled.  A poll with something to read is now and then not broken off
\* by a signal.
Fairness ==
    /\ WF_vars(Works)
    /\ WF_vars(signalled /\ Wake)
    /\ SF_vars(PollWins)
    /\ \A u \in Users : WF_vars(Finishes(u)) /\ WF_vars(StopSeen(u))

FairSpec == Spec /\ Fairness

-----------------------------------------------------------------------------
(* Properties *)

TypeOK ==
    /\ aslist \in Seq(Entries) /\ heap \subseteq Entries
    /\ asent \in [Entries -> Asent]
    /\ as_chan_list_state \in 0 .. StateWrap - 1
    /\ created \in BOOLEAN /\ signalled \in BOOLEAN
    /\ tpc \in {"none", "top", "asleep"} \cup Busy
    /\ DOMAIN mons \subseteq Nat
    /\ \A i \in DOMAIN mons : mons[i] \in [ent : Entries, chan : Chans]
    /\ todo \subseteq DOMAIN mons
    /\ at \in Nat /\ (tpc \in {"read", "defer"} => at \in DOMAIN mons)
    /\ hand \in Frames
    /\ chan \in [Chans -> Channel]
    /\ user \in [Users -> User]
    /\ depth \in [Users -> [Chans -> Nat]]

\* The thread holds its arrays between a rebuild and the next one.
Holds == IF tpc \in Busy THEN {mons[i] : i \in DOMAIN mons} ELSE {}

\* What the thread uses without a lock exists: no entry or channel in its
\* arrays, and none in the list, has been freed or is another's by now
\* (ast_autoservice_stop: "we don't want our poor autoservice thread to step
\* on it after its gone").
NoUseAfterFree ==
    /\ \A m \in Holds :
          m.ent \in heap /\ asent[m.ent].chan = m.chan /\ chan[m.chan].alive
    /\ \A e \in ToSet(aslist) : e \in heap /\ chan[asent[e].chan].alive

\* Where the n-th signal of channel c is: in which queue, whose, and at
\* which place in it.
Holding(q, n) == {i \in DOMAIN q : q[i] = n}

InQueue(c, n) == {<<"readq", Nobody, i>> : i \in Holding(chan[c].readq, n)}

\* ... in the entries of set S, whose contents are a
Deferred(S, a, n) ==
    UNION {{<<"deferred", e, i>> : i \in Holding(a[e].deferred_frames, n)} :
              e \in S}

EntriesOf(c) == {e \in heap : asent[e].chan = c}

InEntries(c, n) == Deferred(EntriesOf(c), asent, n)

InHand(c, n) ==
    IF tpc = "defer" /\ hand = n /\ mons[at].chan = c
    THEN {<<"thread", Nobody, 1>>} ELSE {}

WithOwner(c, n) == {<<"owner", Nobody, i>> : i \in chan[c].got \cap {n}}

Places(c, n) ==
    InQueue(c, n) \cup InEntries(c, n) \cup InHand(c, n) \cup WithOwner(c, n)

Hung(c) ==
    \/ chan[c].soft
    \/ chan[c].readq # <<>> /\ Last(chan[c].readq) = Hangup

\* A frame worth keeping is never lost and never doubled while its channel
\* is not hung up: it is in the channel's queue, with the thread, deferred,
\* or read by the owner.
SignalsKept ==
    \A c \in Chans : \A n \in 1 .. chan[c].came :
        Hung(c) \/ \E p \in Places(c, n) : Places(c, n) = {p}

\* "We'll leave a HANGUP queued up so the thread in charge of this channel
\* will know": an owner that has not been told of a hangup has something to
\* wake up for.
HangupWakes ==
    \A c \in Chans : chan[c].soft /\ ~chan[c].told =>
        \/ chan[c].readq # <<>>
        \/ tpc = "defer" /\ mons[at].chan = c
        \/ \E e \in heap : asent[e].chan = c /\ asent[e].deferred_frames # <<>>

\* AST_FLAG_END_DTMF_ONLY stays set while the entry that set it is in the
\* list, and is not left behind, unless a start failed, when nobody uses
\* autoservice on the channel any more.
FlagKept ==
    /\ \A e \in ToSet(aslist) :
          asent[e].orig_end_dtmf_flag \/ chan[asent[e].chan].end_dtmf
    /\ \A c \in Chans :
          Listed(c) = {} /\ (\A u \in Users : user[u].on # c)
          => ~chan[c].end_dtmf \/ chan[c].spoilt

\* The thread does not sleep through the arrival of work.
NotAsleepOnWork == tpc = "asleep" /\ aslist # <<>> => signalled

\* ast_hangup waits for the thread with the channel's lock held, and the
\* thread waits for that lock: neither goes on.
Deadlocked ==
    /\ tpc = "lock"
    /\ \E i \in todo :
       LET u == chan[mons[i].chan].lock
       IN  u # Nobody /\ user[u].pc = "wait" /\ ~Rebuilt(u)

\* Nothing that anyone does ends this deadlock: no lock has a time limit, and
\* neither a signal to the thread nor a hangup or frame on any channel helps.
DeadlockLasts == [][Deadlocked => Deadlocked']_vars

\* A stop returns, but for the deadlock with ast_hangup.
StopReturns ==
    \A u \in Users :
        (user[u].pc = "wait") ~> (user[u].pc = "idle" \/ Deadlocked)

\* While a channel is serviced something is read from it in the end.
Serviced ==
    \A c \in Chans :
        (Listed(c) # {} /\ chan[c].readq # <<>> /\ ~chan[c].soft)
        ~> (\/ Listed(c) = {} \/ chan[c].readq = <<>> \/ chan[c].soft
            \/ Deadlocked)
=============================================================================
