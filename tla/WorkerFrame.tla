----------------------------- MODULE WorkerFrame -----------------------------
(***************************************************************************)
(* The receiving path of one SFrame worker (src/src/worker-frame.ts) on    *)
(* top of the key state of WorkerState: decodeFrame on every decoding      *)
(* pipe, the pre-epoch queue and drainPreEpochQueue.                       *)
(*                                                                         *)
(* A pipe handles one frame at a time; the pipes and the drain loop are    *)
(* the tasks that interleave, at the two places where they are suspended:  *)
(* while probeFormat tries the candidate formats and while                 *)
(* tryDecryptWithRatchet opens the frame.  Everything between two          *)
(* suspensions is one step; the drain loop takes one step per frame, and   *)
(* nothing else runs while it is between two frames.                       *)
(*                                                                         *)
(* A frame is abstracted to what the gates read from its header (epoch,    *)
(* peer, ctr), the key that sealed it (chain, ratchet step), its wire      *)
(* format and whether it carries the SIF trailer.  The durable replay      *)
(* guard is off (its default).  The interleavings inside                   *)
(* tryDecryptWithRatchet are those of module RatchetDedup; here a call has *)
(* one outcome, decided when it ends.                                      *)
(***************************************************************************)
EXTENDS WorkerState, FrameFormat, ReplayWindow, SequencesExt

CONSTANTS
    DecodePipes,    \* decoding transforms attached to the worker
    Drainer,        \* the drain loop
    Frames,         \* the wire frames the network may deliver, any number of times
    Codec,          \* state.codec
    SifTrailer,     \* is state.sifTrailer configured?
    QueueCap,       \* state.preEpochQueueCap
    RatchetWindow,  \* state.ratchetWindowSize
    ReplaySizes,    \* sizes a `set-replay-window' message may carry
    Tolerances,     \* values a `set-failure-tolerance' message may carry
    NoFormat,       \* no cached format
    NoKey,          \* no key for the header's epoch and peer
    MaxArrivals     \* bound on the frames delivered by the network

ASSUME FramesAssumption ==
    /\ IsFiniteSet(Frames)
    /\ \A f \in Frames : /\ f.epoch \in Epochs /\ f.peer \in Peers
                         /\ f.step \in Nat /\ f.fmt \in Format
ASSUME TasksAssumption == IsFiniteSet(DecodePipes) /\ Drainer \notin DecodePipes
ASSUME SettingsAssumption ==
    /\ QueueCap \in Nat \ {0}
    /\ ReplaySizes \subseteq Nat
    /\ Tolerances \subseteq Int
ASSUME NoFormatAssumption == NoFormat \notin Format
ASSUME NoKeyAssumption == NoKey \notin [chain : Chains, step : Nat]

VARIABLES
    queue,          \* state.preEpochQueue
    draining,       \* state.draining
    pendingDrain,   \* state.pendingDrain
    pending,        \* the drain loop's snapshot, what is left of it
    task,           \* what each task is suspended on
    cursor,         \* the ratchet step of the cached key of an epoch and peer
    replayWindows,  \* state.replayWindows; a window not yet created is a fresh one
    replaySize,     \* state.replayWindowSize
    failureCounts,  \* state.failureCounts
    tolerance,      \* state.failureTolerance
    formatCache,    \* state.formatCache
    arrivals,       \* history: frames delivered by the network so far
    parked,         \* history: frames parked since the last teardown
    lost,           \* history: parked frames lost to overflow
    opened,         \* history: how often a counter was accepted by its window
    passedOn        \* history: the forms in which the pipes enqueued frames downstream

queueVars == <<queue, draining, pendingDrain, pending>>
parkVars == <<queue, parked, lost>>
gateVars == <<replayWindows, replaySize, failureCounts, tolerance, formatCache>>
historyVars == <<arrivals, parked, lost, opened, passedOn>>
frameVars == <<queueVars, task, cursor, gateVars, historyVars>>
vars == <<stateVars, frameVars>>

Tasks == DecodePipes \cup {Drainer}
Slots == Epochs \X Peers
Counters == {f.ctr : f \in Frames}

\* A frame in hand.  n and session are history: when it was parked, as the
\* how-manieth frame of which session; n is 0 until then.
Item == [frame : Frames, n : Nat, session : Nat]
Key == [chain : Chains, step : Nat]

\* A task between frames, or suspended on one.  entry says what became of the
\* epoch entry the call captured, windowLive whether the captured replay
\* window is still the one in the table.
IdleTask == [pc |-> "idle"]
Suspended ==
    [pc : {"probe", "decrypt"}, item : Item, format : Format, key : Key \cup {NoKey},
     entry : {"live", "replaced", "wiped"}, windowLive : BOOLEAN]

FrameTypeOK ==
    /\ TypeOK
    /\ queue \in Seq(Item) /\ pending \in Seq(Item)
    /\ draining \in BOOLEAN /\ pendingDrain \in BOOLEAN
    /\ task \in [Tasks -> Suspended \cup {IdleTask}]
    /\ cursor \in [Slots -> Nat]
    /\ replayWindows \in [Slots -> [windowSize : Nat, seen : SUBSET Counters,
                                    queue : Seq(Counters)]]
    /\ replaySize \in ReplaySizes
    /\ failureCounts \in [Slots -> Nat] /\ tolerance \in Int
    /\ formatCache \in [Slots -> Format \cup {NoFormat}]
    /\ opened \in [Slots \X Counters -> Nat]
    /\ passedOn \subseteq {"sealed", "open", "plain"}
    /\ parked \in Nat /\ lost \subseteq Item

FrameInit ==
    /\ Init
    /\ queue = <<>> /\ pending = <<>>
    /\ draining = FALSE /\ pendingDrain = FALSE
    /\ task = [t \in Tasks |-> IdleTask]
    /\ cursor = [s \in Slots |-> 0]
    /\ replaySize \in ReplaySizes
    /\ replayWindows = [s \in Slots |-> newWindow(replaySize)]
    /\ failureCounts = [s \in Slots |-> 0]
    /\ tolerance = -1
    /\ formatCache = [s \in Slots |-> NoFormat]
    /\ arrivals = 0 /\ parked = 0 /\ lost = {}
    /\ opened = [c \in Slots \X Counters |-> 0]
    /\ passedOn = {}

Slot(f) == <<f.epoch, f.peer>>
KeyFor(f) ==
    IF HasKey(f.epoch, f.peer)
      THEN [chain |-> epochs[f.epoch].chain, step |-> cursor[Slot(f)]]
      ELSE NoKey

\* Does a key, advanced by at most `steps', open the frame?
Matches(f, key, steps) ==
    key # NoKey /\ key.chain = f.chain /\ f.step - key.step \in 0..steps

\* decodeFrame strips the SIF trailer before it parses; the drain loop does not.
BytesIntact(t, f) == f.trailer => SifTrailer /\ t # Drainer

\* The cached format is found when the header parses where the codec puts it.
getFormatCache(f) ==
    IF f.fmt.prefixLen = getUnencryptedBytes(Codec, f.kind)
      THEN formatCache[Slot(f)] ELSE NoFormat

isKeyInvalidZeroIsUnlimited(s) == tolerance > 0 /\ failureCounts[s] > tolerance
isKeyInvalid(s) == tolerance >= 0 /\ failureCounts[s] > tolerance
recordFailure(s) ==
    IF tolerance < 0 THEN failureCounts ELSE [failureCounts EXCEPT ![s] = @ + 1]
recordSuccessDecrementing(s) ==
    IF tolerance < 0 THEN failureCounts ELSE [failureCounts EXCEPT ![s] = @ - 1]
recordSuccess(s) ==
    IF tolerance < 0 THEN failureCounts ELSE [failureCounts EXCEPT ![s] = 0]

\* Overflow drops the newest queued frame, the oldest stay.
Overflow == Len(queue) >= QueueCap
pushToQueueDroppingHead(item) ==
    /\ queue' = Append(IF Overflow THEN Tail(queue) ELSE queue, item)
    /\ lost' = IF Overflow THEN lost \cup {Head(queue)} ELSE lost
pushToQueueUnbounded(item) ==
    /\ queue' = Append(queue, item)
    /\ UNCHANGED lost
pushToQueue(item) ==
    /\ queue' = Append(IF Overflow THEN Front(queue) ELSE queue, item)
    /\ lost' = IF Overflow THEN lost \cup {Last(queue)} ELSE lost

-----------------------------------------------------------------------------
(***************************************************************************)
(* How a task leaves a frame.                                              *)
(***************************************************************************)
\* The worker is one thread: whatever else runs, runs while the drain loop is
\* suspended or not active.
DrainRunning == draining /\ task[Drainer] = IdleTask

Settle(t) == task' = [task EXCEPT ![t] = IdleTask]

\* A pipe enqueues the frame downstream when decodeFrame returns normally, in
\* whatever form its data then has; the drain loop enqueues nothing.
PassOn(t, form) ==
    passedOn' = IF t \in DecodePipes THEN passedOn \cup {form} ELSE passedOn

\* decodeFrame throws and the pipe drops the frame, or the drain loop goes on
\* to the next one.
Drop(t) ==
    /\ Settle(t)
    /\ UNCHANGED <<parkVars, cursor, gateVars, opened, passedOn>>

\* enqueuePreEpoch, or the drain loop's re-enqueue of a frame parked before.
Park(t, item) ==
    /\ Settle(t)
    /\ IF item.n = 0
         THEN /\ parked' = parked + 1
              /\ pushToQueue([item EXCEPT !.n = parked + 1, !.session = session])
         ELSE /\ UNCHANGED parked
              /\ pushToQueue(item)
    /\ PassOn(t, "sealed")
    /\ UNCHANGED <<cursor, gateVars, opened>>

\* The frame is open: remember its format, accept its counter in the window
\* that was consulted, clear the failure slate and replace its data.
AcceptFrame(t, item, format, windowLive) ==
    LET f == item.frame IN
    /\ Settle(t)
    /\ formatCache' = [formatCache EXCEPT ![Slot(f)] = format]
    /\ IF windowLive
         THEN /\ replayWindows' = [replayWindows EXCEPT ![Slot(f)] = accept(@, f.ctr)]
              /\ opened' = [opened EXCEPT ![<<Slot(f), f.ctr>>] = @ + 1]
         ELSE UNCHANGED <<replayWindows, opened>>
    /\ failureCounts' = recordSuccess(Slot(f))
    /\ PassOn(t, "open")
    /\ UNCHANGED <<parkVars, replaySize, tolerance>>

\* tryDecryptWithRatchet begins: it holds the epoch entry and its cached key.
BeginDecrypt(t, item, format) ==
    /\ task' = [task EXCEPT ![t] =
                   [pc |-> "decrypt", item |-> item, format |-> format,
                    key |-> KeyFor(item.frame), entry |-> "live", windowLive |-> TRUE]]
    /\ UNCHANGED <<parkVars, cursor, gateVars, opened, passedOn>>

-----------------------------------------------------------------------------
(***************************************************************************)
(* The gates, from the parsed header to the decrypt.  A header read at the *)
(* wrong offset names no installed key.                                    *)
(***************************************************************************)

\* decodeFrame parks what arrives before the first epoch; the drain loop parks
\* again what still has no key.
MustWait(t, f) ==
    IF t = Drainer THEN ~HasKey(f.epoch, f.peer) ELSE currentEpoch = -1

Misread(t, item) ==
    \/ Drop(t)
    \/ (t = Drainer \/ currentEpoch = -1) /\ Park(t, item)

AdmitWithoutReplayCheck(t, item, format, probed) ==
    LET f == item.frame IN
    IF isKeyInvalid(Slot(f)) THEN Drop(t)
    ELSE IF probed THEN AcceptFrame(t, item, format, TRUE) /\ UNCHANGED cursor
    ELSE IF KeyFor(f) = NoKey THEN Drop(t)
    ELSE BeginDecrypt(t, item, format)

Admit(t, item, format, probed) ==
    LET f == item.frame IN
    IF ~check(replayWindows[Slot(f)], f.ctr) \/ isKeyInvalid(Slot(f)) THEN Drop(t)
    ELSE IF probed THEN AcceptFrame(t, item, format, TRUE) /\ UNCHANGED cursor
    ELSE IF KeyFor(f) = NoKey THEN Drop(t)
    ELSE BeginDecrypt(t, item, format)

Gates(t, item, format, probed) ==
    LET f == item.frame IN
    IF format.prefixLen # f.fmt.prefixLen THEN Misread(t, item)
    ELSE IF f.epoch < minValid THEN Drop(t)
    ELSE IF MustWait(t, f) THEN Park(t, item)
    ELSE Admit(t, item, format, probed)

\* A task turns to a frame: with a cached format it goes straight to the gates,
\* otherwise it is suspended in probeFormat, which tries the key it finds now.
Resolve(t, item) ==
    LET f == item.frame
        cached == getFormatCache(f)
    IN  IF cached # NoFormat
          THEN Gates(t, item, cached, FALSE)
          ELSE /\ task' = [task EXCEPT ![t] =
                      [pc |-> "probe", item |-> item, key |-> KeyFor(f),
                       format |-> fallbackFormat(Codec, f.kind),
                       entry |-> "live", windowLive |-> TRUE]]
               /\ UNCHANGED <<parkVars, cursor, gateVars, opened, passedOn>>

\* The first candidate is tried with the key found at the start, a later one
\* with a key looked up afresh when its turn comes.
ProbeKeys(t) ==
    LET f == task[t].item.frame IN
    IF f.fmt = fallbackFormat(Codec, f.kind) THEN {task[t].key} ELSE {task[t].key, KeyFor(f)}

probeFormat(t, key) ==
    LET f == task[t].item.frame IN
    /\ f.fmt \in formatCandidates(Codec, f.kind)
    /\ BytesIntact(t, f)
    /\ Matches(f, key, 0)

ProbeDone(t) ==
    LET tk == task[t] IN
    /\ ~DrainRunning
    /\ tk.pc = "probe"
    /\ \E key \in ProbeKeys(t) :
         IF probeFormat(t, key)
           THEN Gates(t, tk.item, tk.item.frame.fmt, TRUE)
           ELSE Gates(t, tk.item, tk.format, FALSE)
    /\ UNCHANGED <<stateVars, draining, pendingDrain, pending, arrivals>>

\* tryDecryptWithRatchet ends.  The key cached at the start is tried first, then
\* up to RatchetWindow steps from the key cached now; an entry that was wiped
\* meanwhile has no key material left to step from.
Opens(t) ==
    LET tk == task[t]
        f == tk.item.frame
        cached == IF tk.entry = "live" THEN KeyFor(f) ELSE tk.key
        steps == IF tk.entry = "wiped" THEN 0 ELSE RatchetWindow
    IN  /\ tk.format = f.fmt
        /\ BytesIntact(t, f)
        /\ Matches(f, tk.key, 0) \/ Matches(f, cached, steps)

tryDecryptWithRatchet(t) ==
    LET tk == task[t]
        f == tk.item.frame
    IN
    /\ ~DrainRunning
    /\ tk.pc = "decrypt"
    /\ \/ /\ Opens(t)
          /\ AcceptFrame(t, tk.item, tk.format, tk.windowLive)
          /\ cursor' = IF tk.entry = "live" /\ f.step > cursor[Slot(f)]
                         THEN [cursor EXCEPT ![Slot(f)] = f.step] ELSE cursor
       \/ /\ ~Opens(t)
          /\ Settle(t)
          /\ failureCounts' = recordFailure(Slot(f))
          /\ UNCHANGED <<parkVars, cursor, replayWindows, replaySize, tolerance,
                         formatCache, opened, passedOn>>
    /\ UNCHANGED <<stateVars, draining, pendingDrain, pending, arrivals>>

-----------------------------------------------------------------------------
(***************************************************************************)
(* Frames from the network.  With a trailer configured, a frame without    *)
(* one is not end-to-end encrypted and passes unchanged.                   *)
(***************************************************************************)
Arrive(p, f) ==
    /\ ~DrainRunning
    /\ task[p] = IdleTask
    /\ arrivals < MaxArrivals
    /\ arrivals' = arrivals + 1
    /\ LET item == [frame |-> f, n |-> 0, session |-> 0] IN
       IF SifTrailer /\ ~f.trailer
         THEN /\ PassOn(p, "plain")
              /\ UNCHANGED <<parkVars, task, cursor, gateVars, opened>>
         ELSE Resolve(p, item)
    /\ UNCHANGED <<stateVars, draining, pendingDrain, pending>>

(***************************************************************************)
(* drainPreEpochQueue.                                                     *)
(***************************************************************************)
drainWithoutPendingFlag ==
    IF draining
      THEN UNCHANGED queueVars
      ELSE /\ draining' = TRUE
           /\ pending' = queue
           /\ queue' = <<>>
           /\ UNCHANGED pendingDrain

drainPreEpochQueue ==
    IF draining
      THEN /\ pendingDrain' = TRUE
           /\ UNCHANGED <<queue, draining, pending>>
      ELSE /\ draining' = TRUE
           /\ pending' = queue
           /\ queue' = <<>>
           /\ UNCHANGED pendingDrain

DrainNext ==
    /\ DrainRunning /\ pending # <<>>
    /\ pending' = Tail(pending)
    /\ Resolve(Drainer, Head(pending))
    /\ UNCHANGED <<stateVars, draining, pendingDrain, arrivals>>

DrainEndWithoutRerun ==
    /\ DrainRunning /\ pending = <<>>
    /\ pendingDrain' = FALSE /\ draining' = FALSE
    /\ UNCHANGED <<stateVars, queue, pending, task, cursor, gateVars, historyVars>>

\* The snapshot is done; a request that came meanwhile starts one more pass.
DrainEnd ==
    /\ DrainRunning /\ pending = <<>>
    /\ pendingDrain' = FALSE
    /\ draining' = pendingDrain
    /\ IF pendingDrain
         THEN pending' = queue /\ queue' = <<>>
         ELSE UNCHANGED <<pending, queue>>
    /\ UNCHANGED <<stateVars, task, cursor, gateVars, historyVars>>

-----------------------------------------------------------------------------
(***************************************************************************)
(* Messages and timers, with their effect on the receiving path.           *)
(***************************************************************************)

\* What a suspended task holds of epoch e goes out of the tables.
Detach(E, what, windowsToo) ==
    task' = [t \in Tasks |->
        IF task[t] = IdleTask \/ task[t].item.frame.epoch \notin E THEN task[t]
        ELSE [task[t] EXCEPT !.entry = IF @ = "live" THEN what ELSE @,
                             !.windowLive = @ /\ ~windowsToo]]

FreshWindows(E, size) ==
    /\ replayWindows' = [s \in Slots |-> IF s[1] \in E THEN newWindow(size)
                                         ELSE replayWindows[s]]
    /\ opened' = [c \in DOMAIN opened |-> IF c[1][1] \in E THEN 0 ELSE opened[c]]

ForgetSlots(fn, E, default) == [s \in Slots |-> IF s[1] \in E THEN default ELSE fn[s]]

InstallAndDrain(e, self, chain, peers) ==
    /\ ~DrainRunning
    /\ installEpoch(e, self, chain, peers)
    /\ cursor' = ForgetSlots(cursor, {e}, 0)
    /\ failureCounts' = [s \in Slots |-> IF s[1] = e /\ s[2] \in peers THEN 0
                                         ELSE failureCounts[s]]
    /\ Detach({e}, "replaced", FALSE)
    /\ drainPreEpochQueue
    /\ UNCHANGED <<replayWindows, replaySize, tolerance, formatCache, historyVars>>

WipeAndForget(e) ==
    /\ ~DrainRunning
    /\ wipeTimerFires(e)
    /\ cursor' = ForgetSlots(cursor, {e}, 0)
    /\ formatCache' = ForgetSlots(formatCache, {e}, NoFormat)
    /\ FreshWindows({e}, replaySize)
    /\ Detach({e}, "wiped", TRUE)
    /\ UNCHANGED <<queueVars, replaySize, failureCounts, tolerance, arrivals, parked, lost,
                   passedOn>>

\* The drain flags and the snapshot of a drain in progress survive.
TeardownAndForget ==
    /\ ~DrainRunning
    /\ session < MaxSessions
    /\ teardown
    /\ queue' = <<>>
    /\ cursor' = ForgetSlots(cursor, Epochs, 0)
    /\ formatCache' = ForgetSlots(formatCache, Epochs, NoFormat)
    /\ FreshWindows(Epochs, replaySize)
    /\ failureCounts' = ForgetSlots(failureCounts, Epochs, 0)
    /\ Detach(Epochs, "replaced", TRUE)
    /\ parked' = 0
    /\ UNCHANGED <<draining, pendingDrain, pending, replaySize, tolerance, arrivals, lost,
                   passedOn>>

setReplayWindow(size) ==
    /\ ~DrainRunning
    /\ replaySize' = size
    /\ FreshWindows(Epochs, size)
    /\ task' = [t \in Tasks |-> IF task[t] = IdleTask THEN task[t]
                                ELSE [task[t] EXCEPT !.windowLive = FALSE]]
    /\ UNCHANGED <<stateVars, queueVars, cursor, failureCounts, tolerance, formatCache,
                   arrivals, parked, lost, passedOn>>

setFailureTolerance(t) ==
    /\ ~DrainRunning
    /\ tolerance' = IF t < -1 THEN -1 ELSE t
    /\ failureCounts' = ForgetSlots(failureCounts, Epochs, 0)
    /\ UNCHANGED <<stateVars, queueVars, task, cursor, replayWindows, replaySize,
                   formatCache, historyVars>>

Message ==
    \/ \E e \in Epochs, self \in Peers, chain \in Chains, peers \in SUBSET Peers :
          self \in peers /\ InstallAndDrain(e, self, chain, peers)
    \/ TeardownAndForget
    \/ \E size \in ReplaySizes : setReplayWindow(size)
    \/ \E t \in Tolerances : setFailureTolerance(t)

Sending == ~DrainRunning /\ Encode /\ UNCHANGED frameVars

FrameNext ==
    \/ Message
    \/ \E e \in Epochs : WipeAndForget(e)
    \/ \E p \in DecodePipes, f \in Frames : Arrive(p, f)
    \/ \E t \in Tasks : ProbeDone(t) \/ tryDecryptWithRatchet(t)
    \/ DrainNext
    \/ DrainEnd
    \/ Sending

FrameSpec == FrameInit /\ [][FrameNext]_vars

\* WebCrypto answers, and the loop goes on when it does.
FairFrameSpec ==
    /\ FrameSpec
    /\ WF_vars(DrainNext) /\ WF_vars(DrainEnd)
    /\ \A t \in Tasks :
          WF_vars(ProbeDone(t) \/ tryDecryptWithRatchet(t))

-----------------------------------------------------------------------------
(***************************************************************************)
(* Properties                                                              *)
(***************************************************************************)
KeyIsThere(item) == HasKey(item.frame.epoch, item.frame.peer)

\* No parked frame is forgotten: when the key of a frame in the queue is
\* installed, a drain is running and one more pass is requested.  Epoch
\* messages interleave with the drain's own re-parking, with teardown and with
\* frames that arrive during the drain (drainPreEpochQueue's draining and
\* pendingDrain flags).
NoOrphan ==
    \A i \in 1..Len(queue) : KeyIsThere(queue[i]) => draining /\ pendingDrain

\* The queue and the snapshot a drain works on stay within the cap, on every
\* path that parks a frame (pushToQueue).
QueueBounded == Len(queue) <= QueueCap /\ Len(pending) <= QueueCap

\* Overflow spares the oldest frame, the key frame the rest depend on, and
\* parked frames keep their order through any number of drains that park them
\* again (pushToQueue, drainPreEpochQueue).  Stated for a worker not torn down
\* yet: a teardown in mid-drain leaves the loop running, which then mixes frames
\* of two sessions.
FirstFrameSurvives ==
    session = 0 =>
        /\ \A i \in lost : i.n # 1
        /\ \A i, j \in 1..Len(queue \o pending) :
              i < j => (queue \o pending)[i].n < (queue \o pending)[j].n

\* A counter is consulted before the frame is opened and recorded after, so
\* copies of one frame on several tracks race; no more of them pass than there
\* are tasks, as long as the window remembers every counter in use
\* (SlidingReplayWindow in decodeFrame and drainPreEpochQueue).
ReplayBound ==
    replaySize >= Cardinality(Counters) =>
        \A c \in Slots \X Counters : opened[c] <= Cardinality(Tasks)

\* Once the failures of a key exceed the tolerance no further frame costs an
\* AEAD attempt: the count passes the tolerance by what was in flight at most
\* (isKeyInvalid consulted before, recordFailure run after the decryption).
InvalidationBound ==
    tolerance >= 0 =>
        \A s \in Slots : failureCounts[s] <= tolerance + Cardinality(Tasks)

\* A parked frame whose key is installed leaves the queue: the drain always
\* comes to it, whatever else is parked or installed meanwhile, and a drain
\* always ends (drainPreEpochQueue does not loop on frames without a key).
ParkedIsDrained ==
    \A n \in 1..MaxArrivals :
        (\E i \in 1..Len(queue) : queue[i].n = n /\ KeyIsThere(queue[i]))
            ~> (\A i \in 1..Len(queue) : queue[i].n = n => ~KeyIsThere(queue[i]))

(***************************************************************************)
(* The inductive invariants of the proofs, and what they suppose.          *)
(***************************************************************************)

\* The codec leaves the same number of bytes in the clear in every frame, and
\* the sender knows it: no header is read at a wrong offset.
OnePrefix ==
    \A f, g \in Frames : f.fmt.prefixLen = getUnencryptedBytes(Codec, g.kind)

\* The formats at hand are the sender's, so that a frame is parked again only
\* for want of its key.
Fits(format) == \A f \in Frames : format.prefixLen = f.fmt.prefixLen
FitInv ==
    /\ \A t \in Tasks : task[t] # IdleTask => Fits(task[t].format)
    /\ \A s \in Slots : formatCache[s] # NoFormat => Fits(formatCache[s])

\* What is suspended in the decryption of a frame of a slot can still fail.
Attempts(s) == {t \in Tasks : task[t].pc = "decrypt" /\ Slot(task[t].item.frame) = s}
FailureInv ==
    tolerance >= 0 =>
        \A s \in Slots :
            failureCounts[s] + Cardinality(Attempts(s)) <= tolerance + Cardinality(Tasks)

\* What was let past a window and will record its counter in that window.
Passed(s, k) ==
    {t \in Tasks : /\ task[t].pc = "decrypt" /\ task[t].windowLive
                   /\ Slot(task[t].item.frame) = s /\ task[t].item.frame.ctr = k}
ReplayInv ==
    /\ \A s \in Slots : replayWindows[s].windowSize = replaySize
    /\ replaySize >= Cardinality(Counters) =>
         \A s \in Slots :
            /\ Len(replayWindows[s].queue) = Cardinality(replayWindows[s].seen)
            /\ \A k \in Counters :
                 /\ opened[<<s, k>>] > 0 => k \in replayWindows[s].seen
                 /\ opened[<<s, k>>] + Cardinality(Passed(s, k)) <= Cardinality(Tasks)

\* Before the first teardown only a worker without an epoch parks new frames,
\* and a drain starts with an epoch: the frames behind the drain, the one in
\* its hands and the ones ahead of it are in the order of their arrival, and no
\* more of them than the queue has room for.
Increasing(q) == \A i, j \in 1..Len(q) : i < j => q[i].n < q[j].n
InHand == IF task[Drainer] = IdleTask THEN 0 ELSE 1
OrderInv ==
    session = 0 =>
        /\ \A i \in lost : i.n # 1
        /\ Increasing(queue) /\ Increasing(pending)
        /\ \A i \in 1..Len(queue) : queue[i].n \in 1..parked
        /\ \A i \in 1..Len(pending) : pending[i].n \in 1..parked
        /\ \A i \in 1..Len(queue), j \in 1..Len(pending) : queue[i].n < pending[j].n
        /\ Len(queue) + InHand + Len(pending) <= QueueCap
        /\ task[Drainer] # IdleTask =>
             /\ task[Drainer].item.n \in 1..parked
             /\ \A i \in 1..Len(queue) : queue[i].n < task[Drainer].item.n
             /\ \A i \in 1..Len(pending) : task[Drainer].item.n < pending[i].n
        /\ \A p \in DecodePipes : task[p] # IdleTask => task[p].item.n = 0
        /\ draining => currentEpoch # -1
        /\ ~draining => task[Drainer] = IdleTask /\ pending = <<>>
=============================================================================
