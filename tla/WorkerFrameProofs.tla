-------------------------- MODULE WorkerFrameProofs --------------------------
(***************************************************************************)
(* What holds of WorkerFrame for every set of frames, pipes, epochs and    *)
(* peers, for every setting and for every bound.                           *)
(***************************************************************************)
EXTENDS WorkerFrame, WorkerStateProofs, FiniteSetTheorems, SequenceTheorems

-----------------------------------------------------------------------------
(***************************************************************************)
(* A replay window that has room for every counter in use forgets none.    *)
(***************************************************************************)

\* A window over the counters C with room for them all.
Roomy(w, C) ==
    /\ w \in [windowSize : Nat, seen : SUBSET C, queue : Seq(C)]
    /\ Len(w.queue) = Cardinality(w.seen)
    /\ Cardinality(C) <= w.windowSize

\* accept keeps a window over the counters C one.
LEMMA AcceptType ==
    ASSUME NEW C, NEW w \in [windowSize : Nat, seen : SUBSET C, queue : Seq(C)], NEW n \in C
    PROVE  accept(w, n) \in [windowSize : Nat, seen : SUBSET C, queue : Seq(C)]
<1>1. CASE w.windowSize = 0 \/ n \in w.seen
    BY <1>1 DEF accept
<1>2. CASE ~(w.windowSize = 0 \/ n \in w.seen)
    <2>1. evicted(w) \in [windowSize : Nat, seen : SUBSET C, queue : Seq(C)]
        <3>1. CASE Len(w.queue) >= w.windowSize
            <4>1. Tail(w.queue) \in Seq(C)
                BY <1>2, <3>1
            <4>2. evicted(w) = [w EXCEPT !.seen = w.seen \ {Head(w.queue)},
                                         !.queue = Tail(w.queue)]
                BY <3>1 DEF evicted
            <4> QED
                BY <4>1, <4>2
        <3>2. CASE ~(Len(w.queue) >= w.windowSize)
            BY <3>2 DEF evicted
        <3> QED
            BY <3>1, <3>2
    <2>2. PICK v \in [windowSize : Nat, seen : SUBSET C, queue : Seq(C)] : v = evicted(w)
        BY <2>1
    <2>3. accept(w, n) = [v EXCEPT !.seen = v.seen \cup {n}, !.queue = Append(v.queue, n)]
        BY <1>2, <2>2 DEF accept
    <2>4. Append(v.queue, n) \in Seq(C) /\ v.seen \cup {n} \in SUBSET C
        OBVIOUS
    <2> QED
        BY <2>3, <2>4
<1> QED
    BY <1>1, <1>2

(***************************************************************************)
(* accept evicts only what makes room, so that a roomy window remembers    *)
(* the new counter and all the old ones (SlidingReplayWindow.accept).      *)
(***************************************************************************)
THEOREM AcceptRemembers ==
    ASSUME NEW C, IsFiniteSet(C), NEW w, Roomy(w, C), NEW n \in C
    PROVE  /\ Roomy(accept(w, n), C)
           /\ accept(w, n).seen = w.seen \cup {n}
           /\ accept(w, n).windowSize = w.windowSize
<1>1. /\ w.windowSize \in Nat /\ w.seen \in SUBSET C /\ w.queue \in Seq(C)
      /\ Len(w.queue) = Cardinality(w.seen)
      /\ Cardinality(C) <= w.windowSize
      /\ w = [windowSize |-> w.windowSize, seen |-> w.seen, queue |-> w.queue]
    BY DEF Roomy
<1>2. /\ Cardinality(C) \in Nat /\ Cardinality(C) # 0
      /\ IsFiniteSet(w.seen) /\ Cardinality(w.seen) \in Nat
    <2>1. IsFiniteSet(w.seen)
        BY <1>1, FS_Subset
    <2> QED
        BY <2>1, FS_CardinalityType, FS_EmptySet
<1>3. w.windowSize # 0
    BY <1>1, <1>2
<1>4. CASE n \in w.seen
    <2>1. accept(w, n) = w
        BY <1>4 DEF accept
    <2> QED
        BY <1>4, <2>1
<1>5. CASE n \notin w.seen
    <2>1. Cardinality(w.seen \cup {n}) = Cardinality(w.seen) + 1
        BY <1>2, <1>5, FS_AddElement
    <2>2. Cardinality(w.seen \cup {n}) <= Cardinality(C)
        <3>1. w.seen \cup {n} \in SUBSET C
            BY <1>1
        <3> QED
            BY <3>1, FS_Subset
    <2>3. ~(Len(w.queue) >= w.windowSize)
        BY <1>1, <1>2, <2>1, <2>2
    <2>4. evicted(w) = w
        BY <2>3 DEF evicted
    <2> DEFINE q == Append(w.queue, n)
               S == w.seen \cup {n}
    <2>5. q \in Seq(C) /\ Len(q) = Len(w.queue) + 1
        BY <1>1
    <2>6. accept(w, n) = [windowSize |-> w.windowSize, seen |-> S, queue |-> q]
        <3>1. accept(w, n) = [evicted(w) EXCEPT !.seen = evicted(w).seen \cup {n},
                                                  !.queue = Append(evicted(w).queue, n)]
            BY <1>3, <1>5 DEF accept
        <3>2. accept(w, n) = [w EXCEPT !.seen = S, !.queue = q]
            BY <2>4, <3>1
        <3> HIDE DEF q, S
        <3> QED
            BY <1>1, <3>2
    <2>7. S \in SUBSET C /\ Cardinality(S) = Len(q)
        BY <1>1, <2>1, <2>5
    <2> HIDE DEF q, S
    <2>8. /\ accept(w, n) \in [windowSize : Nat, seen : SUBSET C, queue : Seq(C)]
          /\ accept(w, n).queue = q /\ accept(w, n).seen = S
          /\ accept(w, n).windowSize = w.windowSize
        BY <1>1, <2>5, <2>6, <2>7
    <2> QED
        BY <1>1, <2>7, <2>8 DEF Roomy, S
<1> QED
    BY <1>4, <1>5

-----------------------------------------------------------------------------
(***************************************************************************)
(* The key state under the receiving path moves by the steps of            *)
(* WorkerState alone: what is proved there holds here.                     *)
(***************************************************************************)

LEMMA StateStep == [FrameNext]_vars => [Next]_stateVars
<1> SUFFICES ASSUME FrameNext \/ UNCHANGED vars
             PROVE  Next \/ UNCHANGED stateVars
    BY DEF vars, stateVars
<1>1. ASSUME NEW e \in Epochs, NEW self \in Peers, NEW chain \in Chains,
             NEW peers \in SUBSET Peers, self \in peers, InstallAndDrain(e, self, chain, peers)
      PROVE  Next
    BY <1>1 DEF InstallAndDrain, Next, EpochMessage
<1>2. CASE TeardownAndForget
    BY <1>2 DEF TeardownAndForget, Next, TeardownMessage
<1>3. ASSUME NEW e \in Epochs, WipeAndForget(e)
      PROVE  Next
    BY <1>3 DEF WipeAndForget, Next, WipeTimer
<1>4. CASE Sending
    BY <1>4 DEF Sending, Next
<1>5. ASSUME \/ \E size \in ReplaySizes : setReplayWindow(size)
             \/ \E t \in Tolerances : setFailureTolerance(t)
      PROVE  UNCHANGED stateVars
    BY <1>5 DEF setReplayWindow, setFailureTolerance
<1>6. ASSUME \/ \E p \in DecodePipes, f \in Frames : Arrive(p, f)
             \/ \E t \in Tasks : ProbeDone(t) \/ tryDecryptWithRatchet(t)
             \/ DrainNext \/ DrainEnd
      PROVE  UNCHANGED stateVars
    BY <1>6 DEF Arrive, ProbeDone, tryDecryptWithRatchet, DrainNext, DrainEnd
<1>7. CASE UNCHANGED vars
    BY <1>7 DEF vars
<1> QED
    BY <1>1, <1>2, <1>3, <1>4, <1>5, <1>6, <1>7 DEF FrameNext, Message

(***************************************************************************)
(* The worker with its receiving path implements the key state alone:      *)
(* decoding, parking and draining never touch what the sending path and    *)
(* the grace timers rest on (installEpoch, wipeEpoch and teardown are the  *)
(* only writers in worker-state.ts and worker-frame.ts).                   *)
(***************************************************************************)
THEOREM FramePathKeepsKeyState == FrameSpec => Spec
<1>1. FrameInit => Init
    BY DEF FrameInit
<1> QED
    BY <1>1, StateStep, PTL DEF FrameSpec, Spec

LEMMA FrameEpochInvariant == FrameSpec => [](TypeOK /\ EpochInv)
    BY FramePathKeepsKeyState, TypeCorrect, EpochInvariant, PTL

-----------------------------------------------------------------------------
(***************************************************************************)
(* The steps of a task.  Whatever way a frame comes to a task (Source),    *)
(* the task leaves it, or is suspended on it, in one of six ways (Work).   *)
(***************************************************************************)
Source(t, item) ==
    \/ task[t] # IdleTask /\ item = task[t].item /\ UNCHANGED pending
    \/ t \in DecodePipes /\ item.n = 0 /\ UNCHANGED pending
    \/ /\ t = Drainer /\ DrainRunning /\ pending # <<>>
       /\ item = Head(pending) /\ pending' = Tail(pending)

Parks(t, item, format) ==
    /\ Park(t, item)
    /\ t # Drainer => currentEpoch = -1
    /\ t = Drainer /\ format.prefixLen = item.frame.fmt.prefixLen =>
          ~HasKey(item.frame.epoch, item.frame.peer)

Begins(t, item, format) ==
    /\ BeginDecrypt(t, item, format)
    /\ check(replayWindows[Slot(item.frame)], item.frame.ctr)
    /\ ~isKeyInvalid(Slot(item.frame))

Probes(t, item, format) ==
    /\ task' = [task EXCEPT ![t] =
                   [pc |-> "probe", item |-> item, key |-> KeyFor(item.frame),
                    format |-> format, entry |-> "live", windowLive |-> TRUE]]
    /\ UNCHANGED <<parkVars, cursor, gateVars, opened, passedOn>>

AcceptsNow(t, item, format) ==
    /\ AcceptFrame(t, item, format, TRUE)
    /\ UNCHANGED cursor
    /\ check(replayWindows[Slot(item.frame)], item.frame.ctr)

AcceptsLater(t, item, format) ==
    /\ task[t].pc = "decrypt" /\ item = task[t].item
    /\ AcceptFrame(t, item, format, task[t].windowLive)
    /\ \/ UNCHANGED cursor
       \/ cursor' = [cursor EXCEPT ![Slot(item.frame)] = item.frame.step]

Fails(t, item) ==
    /\ task[t].pc = "decrypt" /\ item = task[t].item
    /\ Settle(t)
    /\ failureCounts' = recordFailure(Slot(item.frame))
    /\ UNCHANGED <<parkVars, cursor, replayWindows, replaySize, tolerance, formatCache,
                   opened, passedOn>>

Gated(t, item, format) ==
    \/ Drop(t) \/ Parks(t, item, format)
    \/ Begins(t, item, format) \/ AcceptsNow(t, item, format)

Work(t, item, format) ==
    /\ Source(t, item)
    /\ UNCHANGED <<stateVars, draining, pendingDrain>>
    /\ \/ Gated(t, item, format)
       \/ Probes(t, item, format)
       \/ AcceptsLater(t, item, format)
       \/ Fails(t, item)

\* A frame without the trailer passes a worker that expects one.
Passes ==
    UNCHANGED <<stateVars, queueVars, parkVars, task, cursor, gateVars, opened>>
        /\ \E p \in DecodePipes : PassOn(p, "plain")

LEMMA SlotType == \A f \in Frames : Slot(f) \in Slots /\ f.ctr \in Counters /\ f.epoch \in Epochs
BY FramesAssumption DEF Slot, Slots, Counters

LEMMA FallbackIsFormat == \A kind : fallbackFormat(Codec, kind) \in Format
BY DEF fallbackFormat, getUnencryptedBytes, Format, PrefixLens, AadForms

LEMMA SuspendedIsNotIdle == IdleTask \notin Suspended /\ IdleTask.pc = "idle"
BY DEF IdleTask, Suspended

LEMMA GatesCases ==
    ASSUME NEW t, NEW item, NEW format, NEW probed \in BOOLEAN,
           Gates(t, item, format, probed)
    PROVE  Gated(t, item, format)
<1> DEFINE f == item.frame
<1>1. CASE format.prefixLen # f.fmt.prefixLen
    <2>1. Misread(t, item)
        BY <1>1 DEF Gates
    <2> QED
        BY <1>1, <2>1 DEF Misread, Gated, Parks
<1>2. CASE format.prefixLen = f.fmt.prefixLen /\ f.epoch < minValid
    BY <1>2 DEF Gates, Gated
<1>3. CASE /\ format.prefixLen = f.fmt.prefixLen /\ ~(f.epoch < minValid)
           /\ MustWait(t, f)
    <2>1. Park(t, item)
        BY <1>3 DEF Gates
    <2> QED
        BY <1>3, <2>1 DEF MustWait, Gated, Parks
<1>4. CASE /\ format.prefixLen = f.fmt.prefixLen /\ ~(f.epoch < minValid)
           /\ ~MustWait(t, f)
    <2>1. Admit(t, item, format, probed)
        BY <1>4 DEF Gates
    <2>2. CASE ~check(replayWindows[Slot(f)], f.ctr) \/ isKeyInvalid(Slot(f))
        BY <2>1, <2>2 DEF Admit, Gated
    <2>3. CASE ~(~check(replayWindows[Slot(f)], f.ctr) \/ isKeyInvalid(Slot(f)))
        <3>1. CASE probed
            BY <2>1, <2>3, <3>1 DEF Admit, Gated, AcceptsNow
        <3>2. CASE ~probed /\ KeyFor(f) = NoKey
            BY <2>1, <2>3, <3>2 DEF Admit, Gated
        <3>3. CASE ~probed /\ KeyFor(f) # NoKey
            BY <2>1, <2>3, <3>3 DEF Admit, Gated, Begins
        <3> QED
            BY <3>1, <3>2, <3>3
    <2> QED
        BY <2>2, <2>3
<1> QED
    BY <1>1, <1>2, <1>3, <1>4

LEMMA ResolveCases ==
    ASSUME FrameTypeOK, NEW t \in Tasks, NEW item \in Item, Resolve(t, item)
    PROVE  \E format \in Format :
              /\ FitInv /\ OnePrefix => Fits(format)
              /\ Gated(t, item, format) \/ Probes(t, item, format)
<1> DEFINE f == item.frame
           cached == getFormatCache(f)
<1>1. f \in Frames /\ Slot(f) \in Slots
    <2>1. f \in Frames
        BY DEF Item
    <2> QED
        BY <2>1, SlotType
<1>2. CASE cached # NoFormat
    <2>1. cached = formatCache[Slot(f)]
        BY <1>2 DEF getFormatCache
    <2>2. cached \in Format
        BY <1>1, <1>2, <2>1 DEF FrameTypeOK
    <2>3. FitInv => Fits(cached)
        BY <1>1, <1>2, <2>1 DEF FitInv
    <2>4. Gated(t, item, cached)
        <3>1. Gates(t, item, cached, FALSE)
            BY <1>2 DEF Resolve
        <3> HIDE DEF cached
        <3> QED
            BY <3>1, GatesCases
    <2> QED
        BY <2>2, <2>3, <2>4
<1>3. CASE cached = NoFormat
    <2> DEFINE format == fallbackFormat(Codec, f.kind)
    <2>1. format \in Format
        BY FallbackIsFormat
    <2>2. OnePrefix => Fits(format)
        BY <1>1 DEF OnePrefix, Fits, fallbackFormat
    <2>3. Probes(t, item, format)
        BY <1>3 DEF Resolve, Probes
    <2> QED
        BY <2>1, <2>2, <2>3
<1> QED
    BY <1>2, <1>3

\* A task at work, with a format that fits if the formats at hand do.
Working ==
    \E t \in Tasks, item \in Item, format \in Format :
        /\ FitInv /\ OnePrefix => Fits(format)
        /\ Work(t, item, format)

LEMMA ArriveCases ==
    ASSUME FrameTypeOK, NEW p \in DecodePipes, NEW f \in Frames, Arrive(p, f)
    PROVE  Working \/ Passes
<1> DEFINE item == [frame |-> f, n |-> 0, session |-> 0]
<1>1. UNCHANGED <<stateVars, draining, pendingDrain, pending>>
    BY DEF Arrive
<1>2. CASE SifTrailer /\ ~f.trailer
    <2>1. PassOn(p, "plain") /\ UNCHANGED <<parkVars, task, cursor, gateVars, opened>>
        BY <1>2 DEF Arrive
    <2> QED
        BY <1>1, <2>1 DEF Passes, queueVars, parkVars
<1>3. CASE ~(SifTrailer /\ ~f.trailer)
    <2>1. Resolve(p, item)
        BY <1>3 DEF Arrive
    <2>2. item \in Item /\ item.n = 0
        BY DEF Item
    <2> HIDE DEF item
    <2>3. Source(p, item)
        BY <1>1, <2>2 DEF Source
    <2>4. p \in Tasks
        BY DEF Tasks
    <2>5. PICK format \in Format :
              /\ FitInv /\ OnePrefix => Fits(format)
              /\ Gated(p, item, format) \/ Probes(p, item, format)
        BY <2>1, <2>2, <2>4, ResolveCases
    <2>6. Work(p, item, format)
        BY <1>1, <2>3, <2>5 DEF Work
    <2> QED
        BY <2>2, <2>4, <2>5, <2>6 DEF Working
<1> QED
    BY <1>2, <1>3

LEMMA DrainNextCases ==
    ASSUME FrameTypeOK, DrainNext
    PROVE  Working
<1> DEFINE item == Head(pending)
<1>1. item \in Item
    BY DEF DrainNext, FrameTypeOK
<1>2. Resolve(Drainer, item) /\ UNCHANGED <<stateVars, draining, pendingDrain>>
    BY DEF DrainNext
<1>3. Source(Drainer, item)
    BY DEF DrainNext, Source
<1>4. Drainer \in Tasks
    BY DEF Tasks
<1> HIDE DEF item
<1>5. PICK format \in Format :
          /\ FitInv /\ OnePrefix => Fits(format)
          /\ Gated(Drainer, item, format) \/ Probes(Drainer, item, format)
    BY <1>1, <1>2, <1>4, ResolveCases
<1>6. Work(Drainer, item, format)
    BY <1>2, <1>3, <1>5 DEF Work
<1> QED
    BY <1>1, <1>4, <1>5, <1>6 DEF Working

\* What a suspended task holds.
LEMMA HeldType ==
    ASSUME FrameTypeOK, NEW t \in Tasks, task[t].pc # "idle"
    PROVE  /\ task[t] # IdleTask /\ task[t] \in Suspended
           /\ task[t].item \in Item /\ task[t].format \in Format
           /\ task[t].item.frame \in Frames
<1>1. task[t] # IdleTask
    BY SuspendedIsNotIdle
<1>2. task[t] \in Suspended
    BY <1>1 DEF FrameTypeOK
<1>3. task[t].item \in Item /\ task[t].format \in Format
    BY <1>2 DEF Suspended
<1>4. task[t].item.frame \in Frames
    BY <1>3 DEF Item
<1> QED
    BY <1>1, <1>2, <1>3, <1>4

LEMMA ProbeDoneCases ==
    ASSUME FrameTypeOK, NEW t \in Tasks, ProbeDone(t)
    PROVE  Working
<1> DEFINE tk == task[t]
           item == tk.item
<1>1. tk # IdleTask /\ item \in Item /\ tk.format \in Format /\ item.frame \in Frames
    BY HeldType DEF ProbeDone
<1>2. Source(t, item) /\ UNCHANGED <<stateVars, draining, pendingDrain>>
    BY <1>1 DEF ProbeDone, Source
<1>3. \/ Gates(t, item, item.frame.fmt, TRUE)
      \/ Gates(t, item, tk.format, FALSE)
    BY DEF ProbeDone
<1>4. ASSUME NEW format \in Format, Gated(t, item, format),
             FitInv /\ OnePrefix => Fits(format)
      PROVE  Working
    <2>1. Work(t, item, format)
        BY <1>2, <1>4 DEF Work
    <2> QED
        BY <1>1, <1>4, <2>1 DEF Working
<1>5. item.frame.fmt \in Format /\ (OnePrefix => Fits(item.frame.fmt))
    BY <1>1, FramesAssumption DEF OnePrefix, Fits
<1>6. FitInv => Fits(tk.format)
    BY <1>1 DEF FitInv
<1> HIDE DEF tk, item
<1> QED
    BY <1>1, <1>3, <1>4, <1>5, <1>6, GatesCases

LEMMA DecryptCases ==
    ASSUME FrameTypeOK, NEW t \in Tasks, tryDecryptWithRatchet(t)
    PROVE  Working
<1> DEFINE tk == task[t]
           item == tk.item
<1>1. tk # IdleTask /\ item \in Item /\ tk.format \in Format /\ item.frame \in Frames
    BY HeldType DEF tryDecryptWithRatchet
<1>2. Source(t, item) /\ UNCHANGED <<stateVars, draining, pendingDrain>>
    BY <1>1 DEF tryDecryptWithRatchet, Source
<1>3. AcceptsLater(t, item, tk.format) \/ Fails(t, item)
    BY DEF tryDecryptWithRatchet, AcceptsLater, Fails
<1>4. FitInv => Fits(tk.format)
    BY <1>1 DEF FitInv
<1>5. Work(t, item, tk.format)
    BY <1>2, <1>3 DEF Work
<1> QED
    BY <1>1, <1>4, <1>5 DEF Working

\* The steps of the worker, by what they may disturb.
LEMMA FrameCases ==
    ASSUME FrameTypeOK, FrameNext \/ UNCHANGED vars
    PROVE  \/ Working
           \/ Message
           \/ \E e \in Epochs : WipeAndForget(e)
           \/ DrainEnd
           \/ Passes
           \/ Sending
           \/ UNCHANGED vars
BY ArriveCases, DrainNextCases, ProbeDoneCases, DecryptCases DEF FrameNext

-----------------------------------------------------------------------------
(***************************************************************************)
(* Type correctness.                                                       *)
(***************************************************************************)
Window == [windowSize : Nat, seen : SUBSET Counters, queue : Seq(Counters)]

LEMMA KeyForType ==
    ASSUME FrameTypeOK, NEW f \in Frames
    PROVE  KeyFor(f) \in Key \cup {NoKey}
<1>1. CASE HasKey(f.epoch, f.peer)
    <2>1. epochs[f.epoch] \in Entry
        BY <1>1, FramesAssumption DEF HasKey, Installed, FrameTypeOK, TypeOK
    <2>2. epochs[f.epoch].chain \in Chains
        BY <2>1 DEF Entry
    <2>3. cursor[Slot(f)] \in Nat
        BY SlotType DEF FrameTypeOK
    <2>4. KeyFor(f) = [chain |-> epochs[f.epoch].chain, step |-> cursor[Slot(f)]]
        BY <1>1 DEF KeyFor
    <2> QED
        BY <2>2, <2>3, <2>4 DEF Key
<1>2. CASE ~HasKey(f.epoch, f.peer)
    BY <1>2 DEF KeyFor
<1> QED
    BY <1>1, <1>2

\* The frame in hand is numbered when it is parked first.
Numbered(item, new) ==
    /\ new.frame = item.frame
    /\ item.n = 0 => new.n = parked + 1 /\ parked' = parked + 1
    /\ item.n # 0 => new = item /\ parked' = parked

LEMMA ParkPushes ==
    ASSUME FrameTypeOK, NEW t \in Tasks, NEW item \in Item, Park(t, item)
    PROVE  \E new \in Item : pushToQueue(new) /\ Numbered(item, new)
<1>1. CASE item.n = 0
    <2> DEFINE new == [item EXCEPT !.n = parked + 1, !.session = session]
    <2>1. pushToQueue(new) /\ parked' = parked + 1
        BY <1>1 DEF Park
    <2>2. parked + 1 \in Nat /\ session \in Nat
        BY DEF FrameTypeOK, TypeOK
    <2>3. new \in Item /\ new.frame = item.frame /\ new.n = parked + 1
        BY <2>2 DEF Item
    <2> HIDE DEF new
    <2> QED
        BY <1>1, <2>1, <2>3 DEF Numbered
<1>2. CASE item.n # 0
    BY <1>2 DEF Park, Numbered
<1> QED
    BY <1>1, <1>2

\* A full queue gives up its last frame for the new one.
LEMMA PushFacts ==
    ASSUME FrameTypeOK, NEW new \in Item, pushToQueue(new)
    PROVE  /\ queue' \in Seq(Item)
           /\ Len(queue') = IF Overflow THEN Len(queue) ELSE Len(queue) + 1
           /\ queue'[Len(queue')] = new
           /\ \A i \in 1..(Len(queue') - 1) : i \in 1..Len(queue) /\ queue'[i] = queue[i]
           /\ Overflow => Len(queue) >= 1 /\ lost' = lost \cup {queue[Len(queue)]}
           /\ ~Overflow => lost' = lost
<1>1. queue \in Seq(Item) /\ Len(queue) \in Nat
    BY DEF FrameTypeOK
<1>2. CASE Overflow
    <2>1. queue' = Append(Front(queue), new) /\ lost' = lost \cup {queue[Len(queue)]}
        BY <1>2 DEF pushToQueue, Last
    <2>2. Len(queue) >= 1
        BY <1>1, <1>2, SettingsAssumption DEF Overflow
    <2>3. /\ Front(queue) \in Seq(Item) /\ Len(Front(queue)) = Len(queue) - 1
          /\ \A i \in 1..(Len(queue) - 1) : Front(queue)[i] = queue[i]
        <3>1. Front(queue) = SubSeq(queue, 1, Len(queue) - 1)
            BY DEF Front
        <3>2. PICK m \in Nat : m = Len(queue) - 1
            BY <1>1, <2>2
        <3>3. \A i \in 1..m : queue[i] \in Item
            BY <1>1, <3>2
        <3>4. /\ SubSeq(queue, 1, m) \in Seq(Item)
              /\ Len(SubSeq(queue, 1, m)) = IF 1 <= m THEN m - 1 + 1 ELSE 0
              /\ \A i \in 1..(m - 1 + 1) : SubSeq(queue, 1, m)[i] = queue[1 + i - 1]
            BY <3>3, SubSeqProperties
        <3> QED
            BY <3>1, <3>2, <3>4
    <2> DEFINE q == Front(queue)
    <2> HIDE DEF q
    <2>4. q \in Seq(Item) /\ queue' = Append(q, new)
        BY <2>1, <2>3 DEF q
    <2>5. /\ queue' \in Seq(Item) /\ Len(queue') = Len(q) + 1 /\ queue'[Len(q) + 1] = new
          /\ \A i \in 1..Len(q) : queue'[i] = q[i]
        BY <2>4
    <2>6. Len(q) = Len(queue) - 1 /\ \A i \in 1..(Len(queue) - 1) : q[i] = queue[i]
        BY <2>3 DEF q
    <2>7. Len(queue') = Len(queue) /\ queue'[Len(queue')] = new
        BY <1>1, <2>5, <2>6
    <2>8. \A i \in 1..(Len(queue') - 1) : i \in 1..Len(queue) /\ queue'[i] = queue[i]
        BY <1>1, <2>5, <2>6, <2>7
    <2> QED
        BY <1>2, <2>1, <2>2, <2>5, <2>7, <2>8
<1>3. CASE ~Overflow
    <2>1. queue' = Append(queue, new) /\ lost' = lost
        BY <1>3 DEF pushToQueue
    <2> QED
        BY <1>1, <1>3, <2>1
<1> QED
    BY <1>2, <1>3

\* Parking keeps the queue a queue of frames.
LEMMA ParkType ==
    ASSUME FrameTypeOK, NEW t \in Tasks, NEW item \in Item, Park(t, item)
    PROVE  queue' \in Seq(Item) /\ lost' \subseteq Item /\ parked' \in Nat
<1>1. PICK new \in Item : pushToQueue(new) /\ Numbered(item, new)
    BY ParkPushes
<1>2. parked' \in Nat
    BY DEF Park, FrameTypeOK
<1>3. lost' \subseteq Item
    <2>1. queue \in Seq(Item) /\ lost \subseteq Item
        BY DEF FrameTypeOK
    <2>2. \/ Len(queue) >= 1 /\ lost' = lost \cup {queue[Len(queue)]}
          \/ lost' = lost
        BY <1>1, PushFacts
    <2> QED
        BY ONLY <2>1, <2>2
<1> QED
    BY <1>1, <1>2, <1>3, PushFacts

LEMMA AcceptFrameType ==
    ASSUME FrameTypeOK, NEW t \in Tasks, NEW item \in Item, NEW format \in Format,
           NEW live, AcceptFrame(t, item, format, live)
    PROVE  /\ task' \in [Tasks -> Suspended \cup {IdleTask}]
           /\ replayWindows' \in [Slots -> Window]
           /\ formatCache' \in [Slots -> Format \cup {NoFormat}]
           /\ failureCounts' \in [Slots -> Nat]
           /\ opened' \in [Slots \X Counters -> Nat]
           /\ passedOn' \subseteq {"sealed", "open", "plain"}
           /\ UNCHANGED <<parkVars, replaySize, tolerance>>
<1> DEFINE f == item.frame
<1>1. f \in Frames /\ Slot(f) \in Slots /\ f.ctr \in Counters
    <2>1. f \in Frames
        BY DEF Item
    <2> QED
        BY <2>1, SlotType
<1>2. /\ formatCache' = [formatCache EXCEPT ![Slot(f)] = format]
      /\ failureCounts' = recordSuccess(Slot(f))
      /\ PassOn(t, "open")
      /\ Settle(t)
      /\ UNCHANGED <<parkVars, replaySize, tolerance>>
    BY DEF AcceptFrame
<1>3. \/ /\ replayWindows' = [replayWindows EXCEPT ![Slot(f)] = accept(replayWindows[Slot(f)], f.ctr)]
         /\ opened' = [opened EXCEPT ![<<Slot(f), f.ctr>>] = opened[<<Slot(f), f.ctr>>] + 1]
      \/ UNCHANGED <<replayWindows, opened>>
    BY <1>1 DEF AcceptFrame, FrameTypeOK
<1> HIDE DEF f
<1>4. replayWindows' \in [Slots -> Window]
    <2>1. replayWindows \in [Slots -> Window]
        BY DEF FrameTypeOK, Window
    <2>2. accept(replayWindows[Slot(f)], f.ctr) \in Window
        <3>1. replayWindows[Slot(f)] \in Window
            BY <1>1, <2>1
        <3> QED
            BY <1>1, <3>1, AcceptType DEF Window
    <2> QED
        BY <1>1, <1>3, <2>1, <2>2
<1>5. opened' \in [Slots \X Counters -> Nat]
    <2> DEFINE c == <<Slot(f), f.ctr>>
    <2>1. c \in Slots \X Counters
        BY <1>1
    <2>2. opened' = [opened EXCEPT ![c] = opened[c] + 1] \/ opened' = opened
        BY <1>3
    <2>3. opened \in [Slots \X Counters -> Nat]
        BY DEF FrameTypeOK
    <2> HIDE DEF c
    <2> QED
        BY <2>1, <2>2, <2>3
<1>6. failureCounts' \in [Slots -> Nat]
    BY <1>1, <1>2 DEF recordSuccess, FrameTypeOK
<1>7. formatCache' \in [Slots -> Format \cup {NoFormat}]
    BY <1>1, <1>2 DEF FrameTypeOK
<1>8. passedOn' \subseteq {"sealed", "open", "plain"}
    BY <1>2 DEF PassOn, FrameTypeOK
<1>9. task' \in [Tasks -> Suspended \cup {IdleTask}]
    BY <1>2 DEF Settle, FrameTypeOK
<1> QED
    BY <1>2, <1>4, <1>5, <1>6, <1>7, <1>8, <1>9

LEMMA WorkType ==
    ASSUME FrameTypeOK, TypeOK', Working
    PROVE  FrameTypeOK'
<1>1. PICK t \in Tasks, item \in Item, format \in Format : Work(t, item, format)
    BY DEF Working
<1>2. pending' \in Seq(Item)
    <2>1. pending' = pending \/ (pending # <<>> /\ pending' = Tail(pending))
        BY <1>1 DEF Work, Source
    <2>2. pending \in Seq(Item)
        BY DEF FrameTypeOK
    <2> QED
        BY ONLY <2>1, <2>2
<1>3. draining' \in BOOLEAN /\ pendingDrain' \in BOOLEAN
    BY <1>1 DEF Work, FrameTypeOK
<1>4. item.frame \in Frames
    BY DEF Item
<1>5. CASE Drop(t)
    <2>1. task' \in [Tasks -> Suspended \cup {IdleTask}]
        BY <1>5 DEF Drop, Settle, FrameTypeOK
    <2> QED
        BY <1>2, <1>3, <1>5, <2>1 DEF Drop, FrameTypeOK, parkVars, gateVars
<1>6. CASE Parks(t, item, format)
    <2>1. Park(t, item)
        BY <1>6 DEF Parks
    <2>2. task' \in [Tasks -> Suspended \cup {IdleTask}]
        BY <2>1 DEF Park, Settle, FrameTypeOK
    <2>3. queue' \in Seq(Item) /\ lost' \subseteq Item /\ parked' \in Nat
        BY <2>1, ParkType
    <2>4. passedOn' \subseteq {"sealed", "open", "plain"}
        BY <2>1 DEF Park, PassOn, FrameTypeOK
    <2>5. UNCHANGED <<cursor, gateVars, opened>>
        BY <2>1 DEF Park
    <2> QED
        BY <1>2, <1>3, <2>2, <2>3, <2>4, <2>5 DEF FrameTypeOK, gateVars
<1>7. ASSUME \/ Begins(t, item, format)
             \/ Probes(t, item, format)
      PROVE  FrameTypeOK'
    <2> DEFINE tk(pc) == [pc |-> pc, item |-> item, format |-> format,
                          key |-> KeyFor(item.frame), entry |-> "live", windowLive |-> TRUE]
    <2>1. tk("decrypt") \in Suspended /\ tk("probe") \in Suspended
        BY <1>4, KeyForType DEF Suspended
    <2>2. \/ task' = [task EXCEPT ![t] = tk("decrypt")]
          \/ task' = [task EXCEPT ![t] = tk("probe")]
        BY <1>7 DEF Begins, BeginDecrypt, Probes
    <2> HIDE DEF tk
    <2>3. task' \in [Tasks -> Suspended \cup {IdleTask}]
        BY <2>1, <2>2 DEF FrameTypeOK
    <2>4. UNCHANGED <<parkVars, cursor, gateVars, opened, passedOn>>
        BY <1>7 DEF Begins, BeginDecrypt, Probes
    <2> QED
        BY <1>2, <1>3, <2>3, <2>4 DEF FrameTypeOK, parkVars, gateVars
<1>8. ASSUME AcceptsNow(t, item, format) \/ AcceptsLater(t, item, format)
      PROVE  FrameTypeOK'
    <2>1. PICK live : AcceptFrame(t, item, format, live)
        BY <1>8 DEF AcceptsNow, AcceptsLater
    <2>2. cursor' \in [Slots -> Nat]
        BY <1>4, <1>8, FramesAssumption, SlotType DEF AcceptsNow, AcceptsLater, FrameTypeOK
    <2> QED
        BY <1>2, <1>3, <2>1, <2>2, AcceptFrameType DEF FrameTypeOK, parkVars, Window
<1>9. CASE Fails(t, item)
    <2>1. task' \in [Tasks -> Suspended \cup {IdleTask}]
        BY <1>9 DEF Fails, Settle, FrameTypeOK
    <2>2. failureCounts' \in [Slots -> Nat]
        BY <1>4, <1>9, SlotType DEF Fails, recordFailure, FrameTypeOK
    <2> QED
        BY <1>2, <1>3, <1>9, <2>1, <2>2 DEF Fails, FrameTypeOK, parkVars
<1> QED
    BY <1>1, <1>5, <1>6, <1>7, <1>8, <1>9 DEF Work, Gated

\* What a message or a timer leaves of a suspended task: all but its claim on
\* the tables.
Loosened(tk, new) ==
    /\ new \in Suspended
    /\ new.pc = tk.pc /\ new.item = tk.item /\ new.format = tk.format
    /\ tk.windowLive = FALSE => new.windowLive = FALSE

LEMMA LoosenType ==
    ASSUME NEW tk \in Suspended, NEW what \in {"replaced", "wiped"}, NEW live \in BOOLEAN,
           tk.windowLive = FALSE => live = FALSE
    PROVE  /\ Loosened(tk, [tk EXCEPT !.windowLive = live])
           /\ [tk EXCEPT !.windowLive = live].windowLive = live
           /\ Loosened(tk, [tk EXCEPT !.entry = IF tk.entry = "live" THEN what ELSE tk.entry,
                                      !.windowLive = live])
           /\ [tk EXCEPT !.entry = IF tk.entry = "live" THEN what ELSE tk.entry,
                         !.windowLive = live].windowLive = live
<1> DEFINE v == IF tk.entry = "live" THEN what ELSE tk.entry
<1>1. v \in {"live", "replaced", "wiped"}
    BY DEF Suspended
<1> HIDE DEF v
<1>2. /\ Loosened(tk, [tk EXCEPT !.windowLive = live])
      /\ [tk EXCEPT !.windowLive = live].windowLive = live
    BY DEF Loosened, Suspended
<1>3. /\ Loosened(tk, [tk EXCEPT !.entry = v, !.windowLive = live])
      /\ [tk EXCEPT !.entry = v, !.windowLive = live].windowLive = live
    BY <1>1 DEF Loosened, Suspended
<1> QED
    BY <1>2, <1>3 DEF v

\* No task is added or taken away.
Loosens ==
    /\ task' \in [Tasks -> Suspended \cup {IdleTask}]
    /\ \A t \in Tasks :
          IF task[t] = IdleTask THEN task'[t] = IdleTask ELSE Loosened(task[t], task'[t])

LEMMA DetachLoosens ==
    ASSUME FrameTypeOK, NEW E, NEW what \in {"replaced", "wiped"}, NEW too \in BOOLEAN,
           Detach(E, what, too)
    PROVE  /\ Loosens
           /\ \A t \in Tasks :
                 task[t] # IdleTask /\ task[t].item.frame.epoch \in E /\ too =>
                    task'[t].windowLive = FALSE
<1>1. ASSUME NEW t \in Tasks
      PROVE  /\ IF task[t] = IdleTask THEN task'[t] = IdleTask
                ELSE Loosened(task[t], task'[t])
             /\ task[t] # IdleTask /\ task[t].item.frame.epoch \in E /\ too =>
                    task'[t].windowLive = FALSE
    <2>1. CASE task[t] = IdleTask
        BY <2>1 DEF Detach
    <2>2. CASE task[t] # IdleTask /\ task[t].item.frame.epoch \notin E
        <3>1. task'[t] = task[t] /\ task[t] \in Suspended
            BY <2>2 DEF Detach, FrameTypeOK
        <3> QED
            BY <2>2, <3>1 DEF Loosened
    <2>3. CASE task[t] # IdleTask /\ task[t].item.frame.epoch \in E
        <3>1. PICK tk \in Suspended : tk = task[t]
            BY <2>3 DEF FrameTypeOK
        <3> DEFINE live == tk.windowLive /\ ~too
        <3>2. task'[t] = [tk EXCEPT !.entry = IF tk.entry = "live" THEN what ELSE tk.entry,
                                    !.windowLive = live]
            BY <2>3, <3>1 DEF Detach
        <3>3. live \in BOOLEAN /\ (tk.windowLive = FALSE => live = FALSE)
            BY DEF Suspended
        <3>4. too => live = FALSE
            OBVIOUS
        <3> HIDE DEF live
        <3> DEFINE new == [tk EXCEPT !.entry = IF tk.entry = "live" THEN what ELSE tk.entry,
                                     !.windowLive = live]
        <3>5. Loosened(tk, new) /\ new.windowLive = live
            BY <3>3, LoosenType
        <3>6. task'[t] = new
            BY <3>2
        <3> HIDE DEF new
        <3> QED
            BY <2>3, <3>1, <3>4, <3>5, <3>6
    <2> QED
        BY <2>1, <2>2, <2>3
<1>2. task' \in [Tasks -> Suspended \cup {IdleTask}]
    <2>1. task' = [t \in Tasks |-> task'[t]]
        BY DEF Detach
    <2>2. \A t \in Tasks : task'[t] \in Suspended \cup {IdleTask}
        BY <1>1 DEF Loosened
    <2> QED
        BY <2>1, <2>2
<1> QED
    BY <1>1, <1>2 DEF Loosens

LEMMA SetReplayWindowLoosens ==
    ASSUME FrameTypeOK, NEW size, setReplayWindow(size)
    PROVE  /\ Loosens
           /\ \A t \in Tasks : task[t] # IdleTask => task'[t].windowLive = FALSE
<1>1. ASSUME NEW t \in Tasks
      PROVE  IF task[t] = IdleTask THEN task'[t] = IdleTask
             ELSE Loosened(task[t], task'[t]) /\ task'[t].windowLive = FALSE
    <2>1. CASE task[t] = IdleTask
        BY <2>1 DEF setReplayWindow
    <2>2. CASE task[t] # IdleTask
        <3>1. PICK tk \in Suspended : tk = task[t]
            BY <2>2 DEF FrameTypeOK
        <3>2. task'[t] = [tk EXCEPT !.windowLive = FALSE]
            BY <2>2, <3>1 DEF setReplayWindow
        <3>3. Loosened(tk, task'[t]) /\ task'[t].windowLive = FALSE
            BY <3>2, LoosenType
        <3> QED
            BY <2>2, <3>1, <3>3
    <2> QED
        BY <2>1, <2>2
<1>2. task' \in [Tasks -> Suspended \cup {IdleTask}]
    <2>1. task' = [t \in Tasks |-> task'[t]]
        BY DEF setReplayWindow
    <2>2. \A t \in Tasks : task'[t] \in Suspended \cup {IdleTask}
        BY <1>1 DEF Loosened
    <2> QED
        BY <2>1, <2>2
<1> QED
    BY <1>1, <1>2 DEF Loosens

LEMMA FreshWindowsType ==
    ASSUME FrameTypeOK, NEW E, NEW size \in ReplaySizes, FreshWindows(E, size)
    PROVE  replayWindows' \in [Slots -> Window] /\ opened' \in [Slots \X Counters -> Nat]
<1>1. newWindow(size) \in Window
    <2>1. <<>> \in Seq(Counters) /\ size \in Nat
        BY SettingsAssumption
    <2> QED
        BY <2>1 DEF newWindow, Window
<1>2. \A s \in Slots : replayWindows[s] \in Window
    BY DEF FrameTypeOK, Window
<1>3. replayWindows' \in [Slots -> Window]
    BY <1>1, <1>2 DEF FreshWindows
<1>4. opened' \in [Slots \X Counters -> Nat]
    BY DEF FreshWindows, FrameTypeOK
<1> QED
    BY <1>3, <1>4

LEMMA ForgetType ==
    ASSUME NEW S, NEW fn \in [Slots -> S], NEW E, NEW default \in S
    PROVE  ForgetSlots(fn, E, default) \in [Slots -> S]
BY DEF ForgetSlots

LEMMA InstallType ==
    ASSUME FrameTypeOK, TypeOK', NEW e \in Epochs, NEW self \in Peers, NEW chain \in Chains,
           NEW peers \in SUBSET Peers, InstallAndDrain(e, self, chain, peers)
    PROVE  FrameTypeOK'
<1>1. task' \in [Tasks -> Suspended \cup {IdleTask}]
    BY DetachLoosens DEF InstallAndDrain, Loosens
<1>2. cursor' \in [Slots -> Nat]
    <2>1. cursor' = ForgetSlots(cursor, {e}, 0) /\ cursor \in [Slots -> Nat]
        BY DEF InstallAndDrain, FrameTypeOK
    <2> QED
        BY <2>1, ForgetType
<1>3. failureCounts' \in [Slots -> Nat]
    BY DEF InstallAndDrain, FrameTypeOK
<1>4. /\ queue' \in Seq(Item) /\ pending' \in Seq(Item)
      /\ draining' \in BOOLEAN /\ pendingDrain' \in BOOLEAN
    <2>1. \/ pendingDrain' = TRUE /\ UNCHANGED <<queue, draining, pending>>
          \/ draining' = TRUE /\ pending' = queue /\ queue' = <<>> /\ UNCHANGED pendingDrain
        BY DEF InstallAndDrain, drainPreEpochQueue
    <2>2. /\ queue \in Seq(Item) /\ pending \in Seq(Item)
          /\ draining \in BOOLEAN /\ pendingDrain \in BOOLEAN
        BY DEF FrameTypeOK
    <2>3. queue' \in Seq(Item) /\ pending' \in Seq(Item)
        <3>1. <<>> \in Seq(Item)
            OBVIOUS
        <3> QED
            BY ONLY <2>1, <2>2, <3>1
    <2>4. draining' \in BOOLEAN /\ pendingDrain' \in BOOLEAN
        BY <2>1, <2>2
    <2> QED
        BY <2>3, <2>4
<1> QED
    BY <1>1, <1>2, <1>3, <1>4 DEF InstallAndDrain, FrameTypeOK, historyVars

LEMMA WipeType ==
    ASSUME FrameTypeOK, TypeOK', NEW e \in Epochs, WipeAndForget(e)
    PROVE  FrameTypeOK'
<1>1. task' \in [Tasks -> Suspended \cup {IdleTask}]
    BY DetachLoosens DEF WipeAndForget, Loosens
<1>2. cursor' \in [Slots -> Nat] /\ formatCache' \in [Slots -> Format \cup {NoFormat}]
    <2>1. /\ cursor' = ForgetSlots(cursor, {e}, 0) /\ cursor \in [Slots -> Nat]
          /\ formatCache' = ForgetSlots(formatCache, {e}, NoFormat)
          /\ formatCache \in [Slots -> Format \cup {NoFormat}]
        BY DEF WipeAndForget, FrameTypeOK
    <2> QED
        BY <2>1, ForgetType
<1>3. replayWindows' \in [Slots -> Window] /\ opened' \in [Slots \X Counters -> Nat]
    BY FreshWindowsType DEF WipeAndForget, FrameTypeOK
<1> QED
    BY <1>1, <1>2, <1>3 DEF WipeAndForget, FrameTypeOK, queueVars, Window

LEMMA TeardownType ==
    ASSUME FrameTypeOK, TypeOK', TeardownAndForget
    PROVE  FrameTypeOK'
<1>1. task' \in [Tasks -> Suspended \cup {IdleTask}]
    BY DetachLoosens DEF TeardownAndForget, Loosens
<1>2. /\ cursor' \in [Slots -> Nat] /\ failureCounts' \in [Slots -> Nat]
      /\ formatCache' \in [Slots -> Format \cup {NoFormat}]
    <2>1. /\ cursor' = ForgetSlots(cursor, Epochs, 0) /\ cursor \in [Slots -> Nat]
          /\ failureCounts' = ForgetSlots(failureCounts, Epochs, 0)
          /\ failureCounts \in [Slots -> Nat]
          /\ formatCache' = ForgetSlots(formatCache, Epochs, NoFormat)
          /\ formatCache \in [Slots -> Format \cup {NoFormat}]
        BY DEF TeardownAndForget, FrameTypeOK
    <2> QED
        BY <2>1, ForgetType
<1>3. replayWindows' \in [Slots -> Window] /\ opened' \in [Slots \X Counters -> Nat]
    BY FreshWindowsType DEF TeardownAndForget, FrameTypeOK
<1>4. queue' \in Seq(Item)
    BY DEF TeardownAndForget
<1> QED
    BY <1>1, <1>2, <1>3, <1>4 DEF TeardownAndForget, FrameTypeOK, Window

LEMMA SettingsType ==
    ASSUME FrameTypeOK, TypeOK',
           \/ \E size \in ReplaySizes : setReplayWindow(size)
           \/ \E t \in Tolerances : setFailureTolerance(t)
    PROVE  FrameTypeOK'
<1>1. ASSUME NEW size \in ReplaySizes, setReplayWindow(size)
      PROVE  FrameTypeOK'
    <2>1. task' \in [Tasks -> Suspended \cup {IdleTask}]
        BY <1>1, SetReplayWindowLoosens DEF Loosens
    <2>2. replayWindows' \in [Slots -> Window] /\ opened' \in [Slots \X Counters -> Nat]
        BY <1>1, FreshWindowsType DEF setReplayWindow
    <2> QED
        BY <1>1, <2>1, <2>2 DEF setReplayWindow, FrameTypeOK, queueVars, Window
<1>2. ASSUME NEW t \in Tolerances, setFailureTolerance(t)
      PROVE  FrameTypeOK'
    <2>1. tolerance' \in Int
        BY <1>2, SettingsAssumption DEF setFailureTolerance
    <2>2. failureCounts' \in [Slots -> Nat]
        <3>1. failureCounts' = ForgetSlots(failureCounts, Epochs, 0)
            BY <1>2 DEF setFailureTolerance
        <3>2. failureCounts \in [Slots -> Nat]
            BY DEF FrameTypeOK
        <3> QED
            BY <3>1, <3>2, ForgetType
    <2> QED
        BY <1>2, <2>1, <2>2 DEF setFailureTolerance, FrameTypeOK, queueVars, historyVars
<1> QED
    BY <1>1, <1>2

LEMMA FrameTypeStep == FrameTypeOK /\ [FrameNext]_vars => FrameTypeOK'
<1> SUFFICES ASSUME FrameTypeOK, FrameNext \/ UNCHANGED vars
             PROVE  FrameTypeOK'
    BY DEF vars
<1>1. TypeOK'
    <2>1. [FrameNext]_vars
        OBVIOUS
    <2>2. TypeOK
        BY DEF FrameTypeOK
    <2> QED
        BY <2>1, <2>2, StateStep, TypeStep
<1>2. CASE Working
    BY <1>1, <1>2, WorkType
<1>3. CASE Message
    BY <1>1, <1>3, InstallType, TeardownType, SettingsType DEF Message
<1>4. CASE \E e \in Epochs : WipeAndForget(e)
    BY <1>1, <1>4, WipeType
<1>5. CASE DrainEnd
    <2>1. /\ queue' \in Seq(Item) /\ pending' \in Seq(Item)
          /\ draining' \in BOOLEAN /\ pendingDrain' \in BOOLEAN
        BY <1>5 DEF DrainEnd, FrameTypeOK
    <2> QED
        BY <1>1, <1>5, <2>1 DEF DrainEnd, FrameTypeOK, gateVars, historyVars
<1>6. CASE Passes
    <2>1. passedOn' \subseteq {"sealed", "open", "plain"}
        BY <1>6 DEF Passes, PassOn, FrameTypeOK
    <2> QED
        BY <1>1, <1>6, <2>1 DEF Passes, FrameTypeOK, queueVars, parkVars, gateVars
<1>7. CASE Sending \/ UNCHANGED vars
    <2>1. UNCHANGED frameVars
        BY <1>7 DEF Sending, vars
    <2> QED
        BY <1>1, <2>1 DEF FrameTypeOK, frameVars, queueVars, parkVars, gateVars, historyVars
<1> QED
    BY <1>2, <1>3, <1>4, <1>5, <1>6, <1>7, FrameCases

(***************************************************************************)
(* The receiving path's state always has its types: decodeFrame, the drain *)
(* loop and every message of worker-state.ts.                              *)
(***************************************************************************)
THEOREM FrameTypeCorrect == FrameSpec => []FrameTypeOK
<1>1. FrameInit => FrameTypeOK
    <2> SUFFICES ASSUME FrameInit PROVE FrameTypeOK
        OBVIOUS
    <2>1. TypeOK
        BY DEF FrameInit, Init, TypeOK
    <2>2. newWindow(replaySize) \in Window
        BY SettingsAssumption DEF FrameInit, newWindow, Window
    <2>3. replayWindows \in [Slots -> Window]
        BY <2>2 DEF FrameInit
    <2>4. queue \in Seq(Item) /\ pending \in Seq(Item)
        BY DEF FrameInit
    <2>5. /\ task \in [Tasks -> Suspended \cup {IdleTask}]
          /\ cursor \in [Slots -> Nat] /\ failureCounts \in [Slots -> Nat]
          /\ formatCache \in [Slots -> Format \cup {NoFormat}]
          /\ opened \in [Slots \X Counters -> Nat]
        BY DEF FrameInit
    <2>6. tolerance \in Int /\ parked \in Nat /\ lost \subseteq Item
        BY DEF FrameInit
    <2> QED
        BY <2>1, <2>3, <2>4, <2>5, <2>6 DEF FrameInit, FrameTypeOK, Window
<1> QED
    BY <1>1, FrameTypeStep, PTL DEF FrameSpec

-----------------------------------------------------------------------------
(***************************************************************************)
(* The bound on the queue.                                                 *)
(***************************************************************************)

\* A task at work parks the frame in hand or leaves the queue alone; the
\* drain's snapshot stays or loses its first frame.
LEMMA WorkQueue ==
    ASSUME NEW t, NEW item, NEW format, Work(t, item, format)
    PROVE  /\ Parks(t, item, format) \/ UNCHANGED parkVars
           /\ pending' = pending \/ (pending # <<>> /\ pending' = Tail(pending))
           /\ UNCHANGED <<stateVars, draining, pendingDrain>>
<1>1. Parks(t, item, format) \/ UNCHANGED parkVars
    BY DEF Work, Gated, Drop, Begins, BeginDecrypt, AcceptsNow, AcceptsLater, AcceptFrame,
           Probes, Fails
<1> QED
    BY <1>1 DEF Work, Source

LEMMA BoundStep == FrameTypeOK /\ QueueBounded /\ [FrameNext]_vars => QueueBounded'
<1> SUFFICES ASSUME FrameTypeOK, QueueBounded, FrameNext \/ UNCHANGED vars
             PROVE  QueueBounded'
    BY DEF vars
<1>1. /\ queue \in Seq(Item) /\ pending \in Seq(Item)
      /\ Len(queue) \in Nat /\ Len(pending) \in Nat /\ QueueCap \in Nat \ {0}
      /\ Len(queue) <= QueueCap /\ Len(pending) <= QueueCap
    BY SettingsAssumption DEF FrameTypeOK, QueueBounded
<1>2. CASE Working
    <2>1. PICK t \in Tasks, item \in Item, format \in Format : Work(t, item, format)
        BY <1>2 DEF Working
    <2>2. Len(pending') <= QueueCap
        <3>1. pending' = pending \/ (pending # <<>> /\ pending' = Tail(pending))
            BY <2>1, WorkQueue
        <3> QED
            BY ONLY <1>1, <3>1
    <2>3. Len(queue') <= QueueCap
        <3>1. CASE Parks(t, item, format)
            <4>1. PICK new \in Item : pushToQueue(new)
                BY <3>1, ParkPushes DEF Parks
            <4>2. Len(queue') = IF Overflow THEN Len(queue) ELSE Len(queue) + 1
                BY <4>1, PushFacts
            <4> QED
                BY <1>1, <4>2 DEF Overflow
        <3>2. CASE UNCHANGED parkVars
            BY <1>1, <3>2 DEF parkVars
        <3> QED
            BY <2>1, <3>1, <3>2, WorkQueue
    <2> QED
        BY <2>2, <2>3 DEF QueueBounded
<1>3. ASSUME /\ queue' = queue \/ queue' = <<>>
             /\ pending' = pending \/ pending' = queue
      PROVE  QueueBounded'
    <2>1. Len(<<>>) = 0
        OBVIOUS
    <2> QED
        BY ONLY <1>1, <1>3, <2>1 DEF QueueBounded
<1>4. CASE Message \/ \E e \in Epochs : WipeAndForget(e)
    <2>1. /\ queue' = queue \/ queue' = <<>>
          /\ pending' = pending \/ pending' = queue
        BY <1>4 DEF Message, InstallAndDrain, drainPreEpochQueue, TeardownAndForget,
                    setReplayWindow, setFailureTolerance, WipeAndForget, queueVars
    <2> QED
        BY <1>3, <2>1
<1>5. CASE DrainEnd
    <2>1. /\ queue' = queue \/ queue' = <<>>
          /\ pending' = pending \/ pending' = queue
        BY <1>5 DEF DrainEnd
    <2> QED
        BY <1>3, <2>1
<1>6. CASE Passes \/ Sending \/ UNCHANGED vars
    <2>1. UNCHANGED <<queue, pending>>
        BY <1>6 DEF Passes, Sending, vars, frameVars, queueVars
    <2> QED
        BY <1>3, <2>1
<1> QED
    BY <1>2, <1>4, <1>5, <1>6, FrameCases

(***************************************************************************)
(* No order of arrivals, drains and teardowns makes the pre-epoch queue or *)
(* the snapshot of a drain outgrow the cap (pushToQueue is the only way    *)
(* in, from decodeFrame and from the drain loop).                          *)
(***************************************************************************)
THEOREM QueueStaysBounded == FrameSpec => []QueueBounded
<1>1. FrameInit => QueueBounded
    BY SettingsAssumption DEF FrameInit, QueueBounded
<1> QED
    BY <1>1, BoundStep, FrameTypeCorrect, PTL DEF FrameSpec

-----------------------------------------------------------------------------
(***************************************************************************)
(* No parked frame is forgotten.                                           *)
(***************************************************************************)

LEMMA FitStep ==
    ASSUME OnePrefix
    PROVE  FrameTypeOK /\ FitInv /\ [FrameNext]_vars => FitInv'
<1> SUFFICES ASSUME FrameTypeOK, FitInv, FrameNext \/ UNCHANGED vars
             PROVE  FitInv'
    BY DEF vars
<1>1. CASE Working
    <2>1. PICK t \in Tasks, item \in Item, format \in Format :
              Fits(format) /\ Work(t, item, format)
        BY <1>1 DEF Working
    <2>2. \A u \in Tasks : u # t => task'[u] = task[u]
        BY <2>1 DEF Work, Gated, Drop, Parks, Park, Begins, BeginDecrypt, AcceptsNow,
                    AcceptsLater, AcceptFrame, Probes, Fails, Settle, FrameTypeOK
    <2>3. task'[t] = IdleTask \/ task'[t].format = format
        BY <2>1 DEF Work, Gated, Drop, Parks, Park, Begins, BeginDecrypt, AcceptsNow,
                    AcceptsLater, AcceptFrame, Probes, Fails, Settle, FrameTypeOK
    <2>4. \/ UNCHANGED formatCache
          \/ formatCache' = [formatCache EXCEPT ![Slot(item.frame)] = format]
        BY <2>1 DEF Work, Gated, Drop, Parks, Park, Begins, BeginDecrypt, AcceptsNow,
                    AcceptsLater, AcceptFrame, Probes, Fails, gateVars
    <2>5. \A s \in Slots : formatCache'[s] = formatCache[s] \/ formatCache'[s] = format
        BY <2>4 DEF FrameTypeOK
    <2> QED
        BY <2>1, <2>2, <2>3, <2>5 DEF FitInv
<1>2. ASSUME Loosens,
             \A s \in Slots : formatCache'[s] = formatCache[s] \/ formatCache'[s] = NoFormat
      PROVE  FitInv'
    BY <1>2 DEF FitInv, Loosens, Loosened
<1>3. ASSUME NEW e \in Epochs, NEW self \in Peers, NEW chain \in Chains,
             NEW peers \in SUBSET Peers, InstallAndDrain(e, self, chain, peers)
      PROVE  FitInv'
    BY <1>2, <1>3, DetachLoosens DEF InstallAndDrain
<1>4. CASE TeardownAndForget
    BY <1>2, <1>4, DetachLoosens DEF TeardownAndForget, ForgetSlots
<1>5. ASSUME NEW e \in Epochs, WipeAndForget(e)
      PROVE  FitInv'
    BY <1>2, <1>5, DetachLoosens DEF WipeAndForget, ForgetSlots
<1>6. ASSUME NEW size \in ReplaySizes, setReplayWindow(size)
      PROVE  FitInv'
    BY <1>2, <1>6, SetReplayWindowLoosens DEF setReplayWindow
<1>7. CASE \/ \E t \in Tolerances : setFailureTolerance(t)
           \/ DrainEnd \/ Passes \/ Sending \/ UNCHANGED vars
    <2>1. UNCHANGED <<task, formatCache>>
        BY <1>7 DEF setFailureTolerance, DrainEnd, Passes, Sending, vars, frameVars, gateVars
    <2> QED
        BY <2>1 DEF FitInv
<1> QED
    BY <1>1, <1>3, <1>4, <1>5, <1>6, <1>7, FrameCases DEF Message

LEMMA NoKeyWithoutEpoch ==
    ASSUME EpochInv, currentEpoch = -1, NEW f \in Frames
    PROVE  ~HasKey(f.epoch, f.peer)
<1>1. PICK e \in Epochs : e = f.epoch
    BY FramesAssumption
<1>2. ~Installed(e)
    BY EpochsAssumption DEF EpochInv
<1> QED
    BY <1>1, <1>2 DEF HasKey

LEMMA OrphanStep ==
    ASSUME OnePrefix
    PROVE  FrameTypeOK /\ EpochInv /\ FitInv /\ NoOrphan /\ [FrameNext]_vars => NoOrphan'
<1> SUFFICES ASSUME FrameTypeOK, EpochInv, FitInv, NoOrphan, FrameNext \/ UNCHANGED vars
             PROVE  NoOrphan'
    BY DEF vars
<1>1. queue \in Seq(Item) /\ Len(queue) \in Nat
    BY DEF FrameTypeOK
<1>2. ASSUME UNCHANGED <<epochs, queue, draining, pendingDrain>>
      PROVE  NoOrphan'
    BY <1>2 DEF NoOrphan, KeyIsThere, HasKey, Installed
<1>3. ASSUME queue' = <<>>
      PROVE  NoOrphan'
    BY <1>3 DEF NoOrphan
<1>4. CASE Working
    <2>1. PICK t \in Tasks, item \in Item, format \in Format :
              Fits(format) /\ Work(t, item, format)
        BY <1>4 DEF Working
    <2>2. UNCHANGED <<epochs, draining, pendingDrain>>
        BY <2>1, WorkQueue DEF stateVars, keyVars
    <2>3. CASE UNCHANGED parkVars
        BY <1>2, <2>2, <2>3 DEF parkVars
    <2>4. CASE Parks(t, item, format)
        <3>1. item.frame \in Frames
            BY DEF Item
        <3>2. ~HasKey(item.frame.epoch, item.frame.peer)
            BY <2>1, <2>4, <3>1, NoKeyWithoutEpoch DEF Parks, Fits
        <3>3. PICK new \in Item : pushToQueue(new) /\ new.frame = item.frame
            BY <2>4, ParkPushes DEF Parks, Numbered
        <3>4. /\ queue' \in Seq(Item)
              /\ queue'[Len(queue')] = new
              /\ \A i \in 1..(Len(queue') - 1) : i \in 1..Len(queue) /\ queue'[i] = queue[i]
            BY <3>3, PushFacts
        <3>5. ASSUME NEW i \in 1..Len(queue'), KeyIsThere(queue[i])'
              PROVE  draining' /\ pendingDrain'
            <4>1. HasKey(queue'[i].frame.epoch, queue'[i].frame.peer)
                BY <2>2, <3>5 DEF KeyIsThere, HasKey, Installed
            <4>2. i # Len(queue')
                BY <3>2, <3>3, <3>4, <4>1
            <4>3. i \in 1..Len(queue) /\ queue'[i] = queue[i]
                BY <3>4, <4>2
            <4> QED
                BY <2>2, <4>1, <4>3 DEF NoOrphan, KeyIsThere
        <3> QED
            BY <3>5 DEF NoOrphan
    <2> QED
        BY <2>1, <2>3, <2>4, WorkQueue
<1>5. ASSUME NEW e \in Epochs, NEW self \in Peers, NEW chain \in Chains,
             NEW peers \in SUBSET Peers, InstallAndDrain(e, self, chain, peers)
      PROVE  NoOrphan'
    <2>1. \/ draining /\ pendingDrain' = TRUE /\ UNCHANGED draining
          \/ queue' = <<>>
        BY <1>5 DEF InstallAndDrain, drainPreEpochQueue
    <2> QED
        BY <1>3, <2>1 DEF NoOrphan
<1>6. CASE TeardownAndForget
    BY <1>3, <1>6 DEF TeardownAndForget
<1>7. ASSUME NEW e \in Epochs, WipeAndForget(e)
      PROVE  NoOrphan'
    <2>1. UNCHANGED <<queue, draining, pendingDrain>>
        BY <1>7 DEF WipeAndForget, queueVars
    <2>2. epochs' = [epochs EXCEPT ![e] = NoEntry]
        BY <1>7 DEF WipeAndForget, wipeTimerFires, wipeEpoch
    <2>3. ASSUME NEW f \in Frames, HasKey(f.epoch, f.peer)'
          PROVE  HasKey(f.epoch, f.peer)
        <3>1. f.epoch \in Epochs
            BY FramesAssumption
        <3> QED
            BY <2>2, <2>3, <3>1 DEF HasKey, Installed, FrameTypeOK, TypeOK
    <2>4. \A i \in 1..Len(queue) : queue[i].frame \in Frames
        <3>1. \A i \in 1..Len(queue) : queue[i] \in Item
            BY <1>1
        <3> QED
            BY <3>1 DEF Item
    <2> QED
        BY <2>1, <2>3, <2>4 DEF NoOrphan, KeyIsThere
<1>8. CASE DrainEnd
    <2>1. \/ queue' = <<>>
          \/ ~pendingDrain /\ UNCHANGED <<epochs, queue>>
        BY <1>8 DEF DrainEnd, stateVars, keyVars
    <2> QED
        BY <1>3, <2>1 DEF NoOrphan, KeyIsThere, HasKey, Installed
<1>9. CASE \/ \E size \in ReplaySizes : setReplayWindow(size)
           \/ \E t \in Tolerances : setFailureTolerance(t)
           \/ Passes \/ Sending \/ UNCHANGED vars
    <2>1. UNCHANGED <<epochs, queue, draining, pendingDrain>>
        BY <1>9 DEF setReplayWindow, setFailureTolerance, Passes, Sending, Encode, encodeStart,
                    encodeDone, encodeFail, vars, frameVars, queueVars, stateVars, keyVars
    <2> QED
        BY <1>2, <2>1
<1> QED
    BY <1>4, <1>5, <1>6, <1>7, <1>8, <1>9, FrameCases DEF Message

(***************************************************************************)
(* When the codec leaves the same number of bytes in the clear in every    *)
(* frame, a frame whose key is installed is never left in the queue        *)
(* without a drain running that will take it up: no epoch message between  *)
(* a drain's snapshot and its end is lost (drainPreEpochQueue's draining   *)
(* and pendingDrain, set from installEpoch).                               *)
(***************************************************************************)
THEOREM NoFrameIsOrphaned ==
    ASSUME OnePrefix
    PROVE  FrameSpec => []NoOrphan
<1>1. FrameInit => FitInv /\ NoOrphan
    BY DEF FrameInit, FitInv, NoOrphan
<1>2. FrameTypeOK /\ FitInv /\ [FrameNext]_vars => FitInv'
    BY FitStep
<1>3. FrameTypeOK /\ EpochInv /\ FitInv /\ NoOrphan /\ [FrameNext]_vars => NoOrphan'
    BY OrphanStep
<1> QED
    BY <1>1, <1>2, <1>3, FrameTypeCorrect, FrameEpochInvariant, PTL DEF FrameSpec

-----------------------------------------------------------------------------
(***************************************************************************)
(* The bound on the failures of a key.                                     *)
(***************************************************************************)
LEMMA TasksFinite ==
    /\ IsFiniteSet(Tasks) /\ Cardinality(Tasks) \in Nat
    /\ \A T \in SUBSET Tasks : /\ IsFiniteSet(T) /\ Cardinality(T) \in Nat
                               /\ Cardinality(T) <= Cardinality(Tasks)
                               /\ \A t \in T : Cardinality(T \ {t}) = Cardinality(T) - 1
<1>1. IsFiniteSet(Tasks)
    BY TasksAssumption, FS_AddElement DEF Tasks
<1>2. ASSUME NEW T \in SUBSET Tasks
      PROVE  /\ IsFiniteSet(T) /\ Cardinality(T) \in Nat
             /\ Cardinality(T) <= Cardinality(Tasks)
             /\ \A t \in T : Cardinality(T \ {t}) = Cardinality(T) - 1
    <2>1. IsFiniteSet(T) /\ Cardinality(T) <= Cardinality(Tasks)
        BY <1>1, FS_Subset
    <2> QED
        BY <2>1, FS_CardinalityType, FS_RemoveElement
<1> QED
    BY <1>1, <1>2, FS_CardinalityType

LEMMA FewerTasks ==
    ASSUME NEW T \in SUBSET Tasks, NEW U \in SUBSET T
    PROVE  Cardinality(U) <= Cardinality(T)
BY TasksFinite, FS_Subset

\* The tasks other than t stay as they are when t is at work.
LEMMA WorkTask ==
    ASSUME FrameTypeOK, NEW t \in Tasks, NEW item \in Item, NEW format \in Format,
           Work(t, item, format)
    PROVE  /\ \A u \in Tasks : u # t => task'[u] = task[u]
           /\ ~Begins(t, item, format) => task'[t].pc # "decrypt"
<1>1. \A u \in Tasks : u # t => task'[u] = task[u]
    BY DEF Work, Gated, Drop, Parks, Park, Begins, BeginDecrypt, AcceptsNow,
           AcceptsLater, AcceptFrame, Probes, Fails, Settle, FrameTypeOK
<1>2. ~Begins(t, item, format) => task'[t] = IdleTask \/ task'[t].pc = "probe"
    BY DEF Work, Gated, Drop, Parks, Park, AcceptsNow,
           AcceptsLater, AcceptFrame, Probes, Fails, Settle, FrameTypeOK
<1> QED
    BY <1>1, <1>2, SuspendedIsNotIdle

LEMMA FailureStep == FrameTypeOK /\ FailureInv /\ [FrameNext]_vars => FailureInv'
<1> SUFFICES ASSUME FrameTypeOK, FailureInv, FrameNext \/ UNCHANGED vars
             PROVE  FailureInv'
    BY DEF vars
<1>1. /\ failureCounts \in [Slots -> Nat] /\ tolerance \in Int
      /\ Cardinality(Tasks) \in Nat
    BY TasksFinite DEF FrameTypeOK
<1>2. \A s \in Slots : /\ Attempts(s) \in SUBSET Tasks /\ Attempts(s)' \in SUBSET Tasks
                       /\ Cardinality(Attempts(s)) \in Nat /\ Cardinality(Attempts(s)') \in Nat
                       /\ Cardinality(Attempts(s)') <= Cardinality(Tasks)
    <2>1. \A s \in Slots : Attempts(s) \in SUBSET Tasks /\ Attempts(s)' \in SUBSET Tasks
        BY DEF Attempts
    <2> QED
        BY <2>1, TasksFinite
<1>3. ASSUME UNCHANGED tolerance,
             \A s \in Slots : /\ failureCounts'[s] = failureCounts[s] \/ failureCounts'[s] = 0
                              /\ Attempts(s)' \subseteq Attempts(s)
      PROVE  FailureInv'
    <2> SUFFICES ASSUME tolerance >= 0, NEW s \in Slots
                 PROVE  failureCounts'[s] + Cardinality(Attempts(s)')
                            <= tolerance + Cardinality(Tasks)
        BY <1>3 DEF FailureInv
    <2>1. Cardinality(Attempts(s)') <= Cardinality(Attempts(s))
        BY <1>2, <1>3, FewerTasks
    <2>2. failureCounts[s] + Cardinality(Attempts(s)) <= tolerance + Cardinality(Tasks)
        BY DEF FailureInv
    <2>3. failureCounts'[s] = failureCounts[s] \/ failureCounts'[s] = 0
        BY <1>3
    <2>4. failureCounts[s] \in Nat
        BY <1>1
    <2> QED
        BY <1>1, <1>2, <2>1, <2>2, <2>3, <2>4
<1>4. ASSUME Loosens
      PROVE  \A s \in Slots : Attempts(s)' \subseteq Attempts(s)
    <2> SUFFICES ASSUME NEW s \in Slots, NEW t \in Tasks, task'[t].pc = "decrypt",
                        Slot(task'[t].item.frame) = s
                 PROVE  task[t].pc = "decrypt" /\ Slot(task[t].item.frame) = s
        BY DEF Attempts
    <2> QED
        BY <1>4, SuspendedIsNotIdle DEF Loosens, Loosened
<1>5. CASE Working
    <2>1. PICK t \in Tasks, item \in Item, format \in Format : Work(t, item, format)
        BY <1>5 DEF Working
    <2>2. item.frame \in Frames /\ Slot(item.frame) \in Slots
        <3>1. item.frame \in Frames
            BY DEF Item
        <3> QED
            BY <3>1, SlotType
    <2>3. ASSUME ~Begins(t, item, format), NEW s \in Slots
          PROVE  Attempts(s)' = Attempts(s) \ {t}
        BY <2>1, <2>3, WorkTask DEF Attempts
    <2>4. CASE Begins(t, item, format)
        <3>1. /\ UNCHANGED <<failureCounts, tolerance>>
              /\ ~isKeyInvalid(Slot(item.frame))
              /\ task'[t].item = item
            BY <2>4 DEF Begins, BeginDecrypt, gateVars, FrameTypeOK
        <3> SUFFICES ASSUME tolerance >= 0, NEW s \in Slots
                     PROVE  failureCounts[s] + Cardinality(Attempts(s)')
                                <= tolerance + Cardinality(Tasks)
            BY <3>1 DEF FailureInv
        <3>2. failureCounts[s] \in Nat
            BY <1>1
        <3>3. CASE s = Slot(item.frame)
            <4>1. failureCounts[s] <= tolerance
                BY <1>1, <3>1, <3>2, <3>3 DEF isKeyInvalid
            <4> QED
                BY <1>1, <1>2, <3>2, <4>1
        <3>4. CASE s # Slot(item.frame)
            <4>1. Attempts(s)' \subseteq Attempts(s)
                BY <2>1, <3>1, <3>4, WorkTask DEF Attempts
            <4>2. Cardinality(Attempts(s)') <= Cardinality(Attempts(s))
                BY <1>2, <4>1, FewerTasks
            <4>3. failureCounts[s] + Cardinality(Attempts(s)) <= tolerance + Cardinality(Tasks)
                BY DEF FailureInv
            <4> QED
                BY <1>1, <1>2, <3>2, <4>2, <4>3
        <3> QED
            BY <3>3, <3>4
    <2>5. CASE Fails(t, item)
        <3> DEFINE v == Slot(item.frame)
        <3>1. /\ task[t].pc = "decrypt" /\ item = task[t].item
              /\ failureCounts' = recordFailure(v) /\ UNCHANGED tolerance
              /\ ~Begins(t, item, format)
            <4>1. /\ task[t].pc = "decrypt" /\ item = task[t].item /\ task'[t] = IdleTask
                  /\ failureCounts' = recordFailure(v) /\ UNCHANGED tolerance
                BY <2>5 DEF Fails, Settle, FrameTypeOK
            <4>2. ~Begins(t, item, format)
                BY <4>1, SuspendedIsNotIdle DEF Begins, BeginDecrypt, FrameTypeOK
            <4> QED
                BY <4>1, <4>2
        <3> SUFFICES ASSUME tolerance >= 0, NEW s \in Slots
                     PROVE  failureCounts'[s] + Cardinality(Attempts(s)')
                                <= tolerance + Cardinality(Tasks)
            BY <3>1 DEF FailureInv
        <3>2. failureCounts' = [failureCounts EXCEPT ![v] = failureCounts[v] + 1]
            BY <1>1, <2>2, <3>1 DEF recordFailure
        <3>3. Attempts(s)' = Attempts(s) \ {t}
            BY <2>3, <3>1
        <3>4. failureCounts[s] + Cardinality(Attempts(s)) <= tolerance + Cardinality(Tasks)
            BY DEF FailureInv
        <3>5. failureCounts[s] \in Nat
            BY <1>1
        <3>6. CASE s = v
            <4>1. t \in Attempts(s)
                BY <3>1, <3>6 DEF Attempts
            <4>2. Cardinality(Attempts(s)') = Cardinality(Attempts(s)) - 1
                BY <1>2, <3>3, <4>1, TasksFinite
            <4>3. failureCounts'[s] = failureCounts[s] + 1
                BY <1>1, <3>2, <3>6
            <4> QED
                BY <1>1, <1>2, <3>4, <3>5, <4>2, <4>3
        <3>7. CASE s # v
            <4>1. Cardinality(Attempts(s)') <= Cardinality(Attempts(s))
                BY <1>2, <3>3, FewerTasks
            <4>2. failureCounts'[s] = failureCounts[s]
                BY <1>1, <3>2, <3>7
            <4> QED
                BY <1>1, <1>2, <3>4, <3>5, <4>1, <4>2
        <3> QED
            BY <3>6, <3>7
    <2>6. ASSUME ~Begins(t, item, format), ~Fails(t, item)
          PROVE  FailureInv'
        <3>1. /\ UNCHANGED tolerance
              /\ UNCHANGED failureCounts \/ failureCounts' = recordSuccess(Slot(item.frame))
            BY <2>1, <2>6 DEF Work, Gated, Drop, Parks, Park, AcceptsNow, AcceptsLater,
                              AcceptFrame, Probes, gateVars
        <3>2. \A s \in Slots : failureCounts'[s] = failureCounts[s] \/ failureCounts'[s] = 0
            BY <1>1, <2>2, <3>1 DEF recordSuccess
        <3>3. \A s \in Slots : Attempts(s)' \subseteq Attempts(s)
            BY <2>3, <2>6
        <3> QED
            BY <1>3, <3>1, <3>2, <3>3
    <2> QED
        BY <2>4, <2>5, <2>6
<1>6. ASSUME NEW e \in Epochs, NEW self \in Peers, NEW chain \in Chains,
             NEW peers \in SUBSET Peers, InstallAndDrain(e, self, chain, peers)
      PROVE  FailureInv'
    <2>1. Loosens
        BY <1>6, DetachLoosens DEF InstallAndDrain
    <2>2. /\ UNCHANGED tolerance
          /\ \A s \in Slots : failureCounts'[s] = failureCounts[s] \/ failureCounts'[s] = 0
        BY <1>6 DEF InstallAndDrain
    <2> QED
        BY <1>3, <1>4, <2>1, <2>2
<1>7. CASE TeardownAndForget
    <2>1. Loosens
        BY <1>7, DetachLoosens DEF TeardownAndForget
    <2>2. /\ UNCHANGED tolerance
          /\ \A s \in Slots : failureCounts'[s] = failureCounts[s] \/ failureCounts'[s] = 0
        BY <1>7 DEF TeardownAndForget, ForgetSlots
    <2> QED
        BY <1>3, <1>4, <2>1, <2>2
<1>8. ASSUME NEW e \in Epochs, WipeAndForget(e)
      PROVE  FailureInv'
    <2>1. Loosens
        BY <1>8, DetachLoosens DEF WipeAndForget
    <2> QED
        BY <1>3, <1>4, <1>8, <2>1 DEF WipeAndForget
<1>9. ASSUME NEW size \in ReplaySizes, setReplayWindow(size)
      PROVE  FailureInv'
    <2>1. Loosens
        BY <1>9, SetReplayWindowLoosens
    <2> QED
        BY <1>3, <1>4, <1>9, <2>1 DEF setReplayWindow
<1>10. ASSUME NEW v \in Tolerances, setFailureTolerance(v)
       PROVE  FailureInv'
    <2>1. \A s \in Slots : failureCounts'[s] = 0
        BY <1>10 DEF setFailureTolerance, ForgetSlots, Slots
    <2>2. tolerance' \in Int
        BY <1>10, SettingsAssumption DEF setFailureTolerance
    <2> QED
        BY <1>1, <1>2, <2>1, <2>2 DEF FailureInv
<1>11. CASE DrainEnd \/ Passes \/ Sending \/ UNCHANGED vars
    <2>1. UNCHANGED <<task, failureCounts, tolerance>>
        BY <1>11 DEF DrainEnd, Passes, Sending, vars, frameVars, gateVars
    <2>2. \A s \in Slots : Attempts(s)' = Attempts(s)
        BY <2>1 DEF Attempts
    <2> QED
        BY <1>3, <2>1, <2>2
<1> QED
    BY <1>5, <1>6, <1>7, <1>8, <1>9, <1>10, <1>11, FrameCases DEF Message

(***************************************************************************)
(* Once the failures of a key exceed the tolerance, at most the attempts   *)
(* already under way still fail: isKeyInvalid turns away every later       *)
(* frame, on every pipe and in the drain (decodeFrame, recordFailure).     *)
(***************************************************************************)
THEOREM FailuresAreBounded == FrameSpec => []InvalidationBound
<1>1. FrameInit => FailureInv
    BY DEF FrameInit, FailureInv
<1>2. FrameTypeOK /\ FailureInv => InvalidationBound
    <2> SUFFICES ASSUME FrameTypeOK, FailureInv, tolerance >= 0, NEW s \in Slots
                 PROVE  failureCounts[s] <= tolerance + Cardinality(Tasks)
        BY DEF InvalidationBound
    <2>1. Attempts(s) \in SUBSET Tasks
        BY DEF Attempts
    <2>2. Cardinality(Attempts(s)) \in Nat /\ Cardinality(Tasks) \in Nat
        BY <2>1, TasksFinite
    <2>3. failureCounts[s] \in Nat /\ tolerance \in Int
        BY DEF FrameTypeOK
    <2>4. failureCounts[s] + Cardinality(Attempts(s)) <= tolerance + Cardinality(Tasks)
        BY DEF FailureInv
    <2> QED
        BY <2>2, <2>3, <2>4
<1> QED
    BY <1>1, <1>2, FailureStep, FrameTypeCorrect, PTL DEF FrameSpec

-----------------------------------------------------------------------------
(***************************************************************************)
(* The bound on the copies of a frame.                                     *)
(***************************************************************************)
LEMMA CountersFinite == IsFiniteSet(Counters) /\ Cardinality(Counters) \in Nat
<1>1. IsFiniteSet(Counters)
    <2> DEFINE ctrOf == [f \in Frames |-> f.ctr]
    <2>1. ctrOf \in Surjection(Frames, Counters)
        BY DEF Surjection, Counters
    <2> HIDE DEF ctrOf
    <2> QED
        BY <2>1, FramesAssumption, FS_Surjection
<1> QED
    BY <1>1, FS_CardinalityType

LEMMA PassedType ==
    \A s, k : /\ Passed(s, k) \in SUBSET Tasks /\ Passed(s, k)' \in SUBSET Tasks
              /\ Cardinality(Passed(s, k)) \in Nat /\ Cardinality(Passed(s, k)') \in Nat
              /\ Cardinality(Passed(s, k)) <= Cardinality(Tasks)
              /\ Cardinality(Passed(s, k)') <= Cardinality(Tasks)
<1> SUFFICES ASSUME NEW s, NEW k
             PROVE  /\ Passed(s, k) \in SUBSET Tasks /\ Passed(s, k)' \in SUBSET Tasks
                    /\ Cardinality(Passed(s, k)) \in Nat /\ Cardinality(Passed(s, k)') \in Nat
                    /\ Cardinality(Passed(s, k)) <= Cardinality(Tasks)
                    /\ Cardinality(Passed(s, k)') <= Cardinality(Tasks)
    OBVIOUS
<1>1. Passed(s, k) \in SUBSET Tasks /\ Passed(s, k)' \in SUBSET Tasks
    BY DEF Passed
<1> QED
    BY <1>1, TasksFinite

LEMMA LoosenPassed ==
    ASSUME FrameTypeOK, Loosens
    PROVE  \A s, k : Passed(s, k)' \subseteq Passed(s, k)
<1> SUFFICES ASSUME NEW s, NEW k, NEW t \in Tasks, t \in Passed(s, k)'
             PROVE  t \in Passed(s, k)
    BY PassedType
<1>1. /\ task'[t].pc = "decrypt" /\ task'[t].windowLive
      /\ Slot(task'[t].item.frame) = s /\ task'[t].item.frame.ctr = k
    BY DEF Passed, Slot
<1>2. task[t] # IdleTask
    BY <1>1, SuspendedIsNotIdle DEF Loosens
<1>3. task[t] \in Suspended /\ Loosened(task[t], task'[t])
    BY <1>2 DEF Loosens, FrameTypeOK
<1>4. task[t].windowLive \in BOOLEAN
    BY <1>3 DEF Suspended
<1>5. task[t].windowLive
    BY <1>1, <1>3, <1>4 DEF Loosened
<1>6. task'[t].pc = task[t].pc /\ task'[t].item = task[t].item
    BY <1>3 DEF Loosened
<1> QED
    BY <1>1, <1>5, <1>6 DEF Passed

\* What ReplayInv says of one slot, when the window has room for all counters.
SlotInv(s) ==
    /\ Len(replayWindows[s].queue) = Cardinality(replayWindows[s].seen)
    /\ \A k \in Counters :
         /\ opened[<<s, k>>] > 0 => k \in replayWindows[s].seen
         /\ opened[<<s, k>>] + Cardinality(Passed(s, k)) <= Cardinality(Tasks)

LEMMA SlotUntouched ==
    ASSUME FrameTypeOK, NEW s \in Slots, SlotInv(s), replayWindows'[s] = replayWindows[s],
           \A k \in Counters : /\ opened'[<<s, k>>] = opened[<<s, k>>]
                               /\ Passed(s, k)' \subseteq Passed(s, k)
    PROVE  SlotInv(s)'
<1> SUFFICES ASSUME NEW k \in Counters
             PROVE  opened'[<<s, k>>] + Cardinality(Passed(s, k)') <= Cardinality(Tasks)
    BY DEF SlotInv
<1>1. Cardinality(Passed(s, k)') <= Cardinality(Passed(s, k))
    BY PassedType, FewerTasks
<1>2. opened[<<s, k>>] \in Nat /\ Cardinality(Tasks) \in Nat
    <2>1. <<s, k>> \in Slots \X Counters
        OBVIOUS
    <2> QED
        BY <2>1, TasksFinite DEF FrameTypeOK
<1>3. opened[<<s, k>>] + Cardinality(Passed(s, k)) <= Cardinality(Tasks)
    BY DEF SlotInv
<1>4. Cardinality(Passed(s, k)) \in Nat /\ Cardinality(Passed(s, k)') \in Nat
    BY PassedType
<1>5. opened'[<<s, k>>] = opened[<<s, k>>]
    OBVIOUS
<1> QED
    BY <1>1, <1>2, <1>3, <1>4, <1>5

\* A message or a timer clears some windows and loosens the tasks.
LEMMA FreshStep ==
    ASSUME FrameTypeOK, ReplayInv, Loosens, NEW E, FreshWindows(E, replaySize'),
           replaySize' \in ReplaySizes, E = Epochs \/ replaySize' = replaySize
    PROVE  ReplayInv'
<1> DEFINE w == newWindow(replaySize')
<1>1. w.windowSize = replaySize' /\ w.seen = {} /\ w.queue = <<>>
    BY DEF newWindow
<1>2. \A s \in Slots : replayWindows'[s] = IF s[1] \in E THEN w ELSE replayWindows[s]
    BY DEF FreshWindows
<1>3. \A s \in Slots, k \in Counters :
          opened'[<<s, k>>] = IF s[1] \in E THEN 0 ELSE opened[<<s, k>>]
    <2> SUFFICES ASSUME NEW s \in Slots, NEW k \in Counters
                 PROVE  opened'[<<s, k>>] = IF s[1] \in E THEN 0 ELSE opened[<<s, k>>]
        OBVIOUS
    <2>1. <<s, k>> \in DOMAIN opened /\ <<s, k>>[1] = s
        BY DEF FrameTypeOK
    <2> QED
        BY <2>1 DEF FreshWindows
<1> HIDE DEF w
<1>4. \A s, k : Passed(s, k)' \subseteq Passed(s, k)
    BY LoosenPassed
<1>5. \A s \in Slots : replayWindows'[s].windowSize = replaySize'
    BY <1>1, <1>2 DEF ReplayInv, Slots
<1>6. ASSUME replaySize' >= Cardinality(Counters), NEW s \in Slots
      PROVE  SlotInv(s)'
    <2>1. CASE s[1] \in E
        <3>1. replayWindows'[s] = w /\ \A k \in Counters : opened'[<<s, k>>] = 0
            BY <1>2, <1>3, <2>1
        <3>2. Len(w.queue) = Cardinality(w.seen)
            BY <1>1, FS_EmptySet
        <3>3. \A k \in Counters : 0 + Cardinality(Passed(s, k)') <= Cardinality(Tasks)
            BY PassedType
        <3> QED
            BY <3>1, <3>2, <3>3 DEF SlotInv
    <2>2. CASE s[1] \notin E
        <3>1. replaySize' = replaySize
            BY <2>2 DEF Slots
        <3>2. SlotInv(s)
            BY <1>6, <3>1 DEF ReplayInv, SlotInv
        <3> QED
            BY <1>2, <1>3, <1>4, <2>2, <3>2, SlotUntouched
    <2> QED
        BY <2>1, <2>2
<1> QED
    BY <1>5, <1>6 DEF ReplayInv, SlotInv

LEMMA KeepsStep ==
    ASSUME FrameTypeOK, ReplayInv, UNCHANGED <<replayWindows, replaySize, opened>>,
           \A s \in Slots, k \in Counters : Passed(s, k)' \subseteq Passed(s, k)
    PROVE  ReplayInv'
<1>1. ASSUME NEW s \in Slots, replaySize >= Cardinality(Counters)
      PROVE  SlotInv(s)'
    <2>1. SlotInv(s)
        BY <1>1 DEF ReplayInv, SlotInv
    <2> QED
        BY <2>1, SlotUntouched
<1> QED
    BY <1>1 DEF ReplayInv, SlotInv

\* A counter is recorded by a task that still had its place among the tasks.
LEMMA AcceptStep ==
    ASSUME FrameTypeOK, ReplayInv, NEW f \in Frames,
           replaySize' = replaySize,
           replayWindows' = [replayWindows EXCEPT ![Slot(f)] =
                                 accept(replayWindows[Slot(f)], f.ctr)],
           opened' = [opened EXCEPT ![<<Slot(f), f.ctr>>] = opened[<<Slot(f), f.ctr>>] + 1],
           \A s \in Slots, k \in Counters : Passed(s, k)' \subseteq Passed(s, k),
           replaySize >= Cardinality(Counters) =>
               opened[<<Slot(f), f.ctr>>] + 1 + Cardinality(Passed(Slot(f), f.ctr)')
                    <= Cardinality(Tasks)
    PROVE  ReplayInv'
<1> DEFINE v == Slot(f)
           c == f.ctr
           w == accept(replayWindows[v], c)
<1>1. v \in Slots /\ c \in Counters /\ <<v, c>> \in Slots \X Counters
    BY SlotType
<1>2. /\ replayWindows \in [Slots -> Window]
      /\ opened \in [Slots \X Counters -> Nat]
    BY DEF FrameTypeOK, Window
<1>3. w.windowSize = replaySize
    <2>1. replayWindows[v].windowSize = replaySize
        BY <1>1 DEF ReplayInv
    <2> QED
        BY <2>1 DEF accept, evicted
<1>4. ASSUME replaySize >= Cardinality(Counters)
      PROVE  w.seen = replayWindows[v].seen \cup {c} /\ Len(w.queue) = Cardinality(w.seen)
    <2>1. Roomy(replayWindows[v], Counters)
        <3>1. replayWindows[v] \in Window
            BY <1>1, <1>2
        <3>2. /\ Len(replayWindows[v].queue) = Cardinality(replayWindows[v].seen)
              /\ replayWindows[v].windowSize = replaySize
            BY <1>1, <1>4 DEF ReplayInv
        <3>3. Cardinality(Counters) <= replayWindows[v].windowSize
            <4>1. replaySize \in Nat
                BY SettingsAssumption DEF FrameTypeOK
            <4> QED
                BY <1>4, <3>2, <4>1, CountersFinite
        <3> QED
            BY <3>1, <3>2, <3>3 DEF Roomy, Window
    <2>2. Roomy(w, Counters) /\ w.seen = replayWindows[v].seen \cup {c}
        BY <1>1, <2>1, CountersFinite, AcceptRemembers
    <2> QED
        BY <2>2 DEF Roomy
<1> HIDE DEF w
<1>5. \A s \in Slots : replayWindows'[s] = IF s = v THEN w ELSE replayWindows[s]
    BY <1>1, <1>2 DEF w
<1>6. \A s \in Slots, k \in Counters :
          opened'[<<s, k>>] = IF s = v /\ k = c THEN opened[<<v, c>>] + 1 ELSE opened[<<s, k>>]
    <2> SUFFICES ASSUME NEW s \in Slots, NEW k \in Counters
                 PROVE  opened'[<<s, k>>] = IF s = v /\ k = c THEN opened[<<v, c>>] + 1
                                            ELSE opened[<<s, k>>]
        OBVIOUS
    <2>1. <<s, k>> \in Slots \X Counters /\ (<<s, k>> = <<v, c>> <=> s = v /\ k = c)
        OBVIOUS
    <2> QED
        BY <1>1, <1>2, <2>1
<1>7. \A s \in Slots : replayWindows'[s].windowSize = replaySize'
    BY <1>3, <1>5 DEF ReplayInv
<1>8. ASSUME replaySize >= Cardinality(Counters), NEW s \in Slots
      PROVE  SlotInv(s)'
    <2>1. SlotInv(s)
        BY <1>8 DEF ReplayInv, SlotInv
    <2>2. CASE s # v
        BY <1>5, <1>6, <2>1, <2>2, SlotUntouched
    <2>3. CASE s = v
        <3>1. replayWindows'[s] = w /\ Len(w.queue) = Cardinality(w.seen)
            BY <1>4, <1>5, <1>8, <2>3
        <3> SUFFICES ASSUME NEW k \in Counters
                     PROVE  /\ opened'[<<s, k>>] > 0 => k \in w.seen
                            /\ opened'[<<s, k>>] + Cardinality(Passed(s, k)')
                                    <= Cardinality(Tasks)
            BY <3>1 DEF SlotInv
        <3>2. CASE k = c
            <4>1. opened'[<<s, k>>] = opened[<<v, c>>] + 1 /\ k \in w.seen
                BY <1>1, <1>4, <1>6, <1>8, <2>3, <3>2
            <4>2. opened[<<v, c>>] + 1 + Cardinality(Passed(v, c)') <= Cardinality(Tasks)
                BY <1>8
            <4> QED
                BY <2>3, <3>2, <4>1, <4>2
        <3>3. CASE k # c
            <4>1. opened'[<<s, k>>] = opened[<<s, k>>]
                BY <1>6, <3>3
            <4>2. opened[<<s, k>>] > 0 => k \in w.seen
                BY <1>4, <1>8, <2>1, <2>3 DEF SlotInv
            <4>3. opened[<<s, k>>] + Cardinality(Passed(s, k)) <= Cardinality(Tasks)
                BY <2>1 DEF SlotInv
            <4>4. Cardinality(Passed(s, k)') <= Cardinality(Passed(s, k))
                BY PassedType, FewerTasks
            <4>5. /\ Cardinality(Passed(s, k)) \in Nat /\ Cardinality(Passed(s, k)') \in Nat
                  /\ Cardinality(Tasks) \in Nat
                BY PassedType, TasksFinite
            <4>6. opened[<<s, k>>] \in Nat
                <5>1. <<s, k>> \in Slots \X Counters
                    OBVIOUS
                <5> QED
                    BY <1>2, <5>1
            <4> QED
                BY <4>1, <4>2, <4>3, <4>4, <4>5, <4>6
        <3> QED
            BY <3>2, <3>3
    <2> QED
        BY <2>2, <2>3
<1> QED
    BY <1>7, <1>8 DEF ReplayInv, SlotInv

\* A counter that a roomy window lets pass was not accepted yet.
LEMMA CheckedIsNew ==
    ASSUME FrameTypeOK, ReplayInv, NEW f \in Frames, check(replayWindows[Slot(f)], f.ctr),
           replaySize >= Cardinality(Counters)
    PROVE  opened[<<Slot(f), f.ctr>>] = 0
<1>1. Slot(f) \in Slots /\ f.ctr \in Counters /\ <<Slot(f), f.ctr>> \in Slots \X Counters
    BY SlotType
<1>2. opened[<<Slot(f), f.ctr>>] \in Nat /\ replaySize \in Nat
    BY <1>1, SettingsAssumption DEF FrameTypeOK
<1>3. Cardinality(Counters) # 0
    BY <1>1, CountersFinite, FS_EmptySet
<1>4. replayWindows[Slot(f)].windowSize # 0
    <2>1. replaySize # 0
        BY <1>2, <1>3, CountersFinite
    <2> QED
        BY <1>1, <2>1 DEF ReplayInv
<1>5. f.ctr \notin replayWindows[Slot(f)].seen
    BY <1>4 DEF check
<1>6. ~(opened[<<Slot(f), f.ctr>>] > 0)
    BY <1>1, <1>5 DEF ReplayInv
<1> QED
    BY <1>2, <1>6

LEMMA WorkReplay ==
    ASSUME FrameTypeOK, ReplayInv, Working
    PROVE  ReplayInv'
<1>1. PICK t \in Tasks, item \in Item, format \in Format : Work(t, item, format)
    BY DEF Working
<1> DEFINE f == item.frame
           v == Slot(f)
           c == f.ctr
<1>2. f \in Frames /\ v \in Slots /\ c \in Counters
    <2>1. f \in Frames
        BY DEF Item
    <2> QED
        BY <2>1, SlotType
<1>3. ASSUME ~Begins(t, item, format)
      PROVE  \A s, k : Passed(s, k)' \subseteq Passed(s, k) \ {t}
    BY <1>1, <1>3, WorkTask DEF Passed
<1>4. CASE Begins(t, item, format)
    <2>1. /\ UNCHANGED <<replayWindows, replaySize, opened>>
          /\ check(replayWindows[v], c)
          /\ task'[t].item = item
        BY <1>4 DEF Begins, BeginDecrypt, gateVars, FrameTypeOK
    <2>2. ASSUME NEW s \in Slots, NEW k \in Counters, s # v \/ k # c
          PROVE  Passed(s, k)' \subseteq Passed(s, k)
        BY <1>1, <2>1, <2>2, WorkTask DEF Passed
    <2>3. ASSUME replaySize >= Cardinality(Counters), NEW s \in Slots
          PROVE  SlotInv(s)'
        <3>1. SlotInv(s)
            BY <2>3 DEF ReplayInv, SlotInv
        <3>2. CASE s # v
            BY <2>1, <2>2, <3>1, <3>2, SlotUntouched
        <3>3. CASE s = v
            <4> SUFFICES ASSUME NEW k \in Counters
                         PROVE  opened[<<s, k>>] + Cardinality(Passed(s, k)')
                                    <= Cardinality(Tasks)
                BY <2>1, <3>1 DEF SlotInv
            <4>1. CASE k = c
                <5>1. opened[<<s, k>>] = 0
                    BY <1>2, <2>1, <2>3, <3>3, <4>1, CheckedIsNew
                <5> QED
                    BY <5>1, PassedType, TasksFinite
            <4>2. CASE k # c
                <5>1. Cardinality(Passed(s, k)') <= Cardinality(Passed(s, k))
                    BY <2>2, <4>2, PassedType, FewerTasks
                <5>2. opened[<<s, k>>] + Cardinality(Passed(s, k)) <= Cardinality(Tasks)
                    BY <3>1 DEF SlotInv
                <5>3. opened[<<s, k>>] \in Nat
                    <6>1. <<s, k>> \in Slots \X Counters
                        OBVIOUS
                    <6> QED
                        BY <6>1 DEF FrameTypeOK
                <5> QED
                    BY <5>1, <5>2, <5>3, PassedType, TasksFinite
            <4> QED
                BY <4>1, <4>2
        <3> QED
            BY <3>2, <3>3
    <2> QED
        BY <2>1, <2>3 DEF ReplayInv, SlotInv
<1>5. ASSUME ~Begins(t, item, format), AcceptFrame(t, item, format, TRUE),
             replaySize >= Cardinality(Counters) =>
               opened[<<v, c>>] + 1 + Cardinality(Passed(v, c)') <= Cardinality(Tasks)
      PROVE  ReplayInv'
    <2>1. /\ replaySize' = replaySize
          /\ replayWindows' = [replayWindows EXCEPT ![v] = accept(replayWindows[v], c)]
          /\ opened' = [opened EXCEPT ![<<v, c>>] = opened[<<v, c>>] + 1]
        BY <1>2, <1>5 DEF AcceptFrame, FrameTypeOK
    <2>2. \A s \in Slots, k \in Counters : Passed(s, k)' \subseteq Passed(s, k)
        BY <1>3, <1>5
    <2> HIDE DEF f
    <2> QED
        BY <1>2, <1>5, <2>1, <2>2, AcceptStep
<1>6. CASE ~Begins(t, item, format) /\ AcceptsNow(t, item, format)
    <2>1. ASSUME replaySize >= Cardinality(Counters)
          PROVE  opened[<<v, c>>] + 1 + Cardinality(Passed(v, c)') <= Cardinality(Tasks)
        <3>1. opened[<<v, c>>] = 0
            BY <1>2, <1>6, <2>1, CheckedIsNew DEF AcceptsNow
        <3>2. Passed(v, c)' \subseteq Tasks \ {t}
            BY <1>3, <1>6, PassedType
        <3>3. Cardinality(Passed(v, c)') <= Cardinality(Tasks \ {t})
            BY <3>2, FewerTasks
        <3>4. Cardinality(Tasks \ {t}) = Cardinality(Tasks) - 1
            BY TasksFinite
        <3> QED
            BY <3>1, <3>3, <3>4, PassedType, TasksFinite
    <2> QED
        BY <1>5, <1>6, <2>1 DEF AcceptsNow
<1>7. CASE ~Begins(t, item, format) /\ AcceptsLater(t, item, format)
    <2>1. /\ task[t].pc = "decrypt" /\ item = task[t].item
          /\ AcceptFrame(t, item, format, task[t].windowLive)
        BY <1>7 DEF AcceptsLater
    <2>2. task[t].windowLive \in BOOLEAN
        BY <2>1, HeldType DEF Suspended
    <2>3. CASE task[t].windowLive = TRUE
        <3>1. ASSUME replaySize >= Cardinality(Counters)
              PROVE  opened[<<v, c>>] + 1 + Cardinality(Passed(v, c)') <= Cardinality(Tasks)
            <4>1. t \in Passed(v, c)
                BY <2>1, <2>3 DEF Passed
            <4>2. Cardinality(Passed(v, c) \ {t}) = Cardinality(Passed(v, c)) - 1
                BY <4>1, PassedType, TasksFinite
            <4>3. Cardinality(Passed(v, c)') <= Cardinality(Passed(v, c) \ {t})
                <5>1. Passed(v, c) \ {t} \in SUBSET Tasks
                    BY PassedType
                <5> QED
                    BY <1>3, <1>7, <5>1, FewerTasks
            <4>4. opened[<<v, c>>] + Cardinality(Passed(v, c)) <= Cardinality(Tasks)
                BY <1>2, <3>1 DEF ReplayInv
            <4>5. opened[<<v, c>>] \in Nat
                <5>1. <<v, c>> \in Slots \X Counters
                    BY <1>2
                <5> QED
                    BY <5>1 DEF FrameTypeOK
            <4> HIDE DEF v, c
            <4> QED
                BY <4>2, <4>3, <4>4, <4>5, PassedType, TasksFinite
        <3> QED
            BY <1>5, <1>7, <2>1, <2>3, <3>1
    <2>4. CASE task[t].windowLive = FALSE
        <3>1. UNCHANGED <<replayWindows, replaySize, opened>>
            BY <2>1, <2>4 DEF AcceptFrame
        <3> QED
            BY <1>3, <1>7, <3>1, KeepsStep
    <2> QED
        BY <2>2, <2>3, <2>4
<1>8. ASSUME ~Begins(t, item, format), ~AcceptsNow(t, item, format),
             ~AcceptsLater(t, item, format)
      PROVE  ReplayInv'
    <2>1. UNCHANGED <<replayWindows, replaySize, opened>>
        BY <1>1, <1>8 DEF Work, Gated, Drop, Parks, Park, Probes, Fails, gateVars
    <2> QED
        BY <1>3, <1>8, <2>1, KeepsStep
<1> QED
    BY <1>4, <1>6, <1>7, <1>8

LEMMA ReplayStep == FrameTypeOK /\ ReplayInv /\ [FrameNext]_vars => ReplayInv'
<1> SUFFICES ASSUME FrameTypeOK, ReplayInv, FrameNext \/ UNCHANGED vars
             PROVE  ReplayInv'
    BY DEF vars
<1>1. ASSUME Loosens
      PROVE  \A s \in Slots, k \in Counters : Passed(s, k)' \subseteq Passed(s, k)
    BY <1>1, LoosenPassed
<1>2. ASSUME NEW e \in Epochs, NEW self \in Peers, NEW chain \in Chains,
             NEW peers \in SUBSET Peers, InstallAndDrain(e, self, chain, peers)
      PROVE  ReplayInv'
    <2>1. Loosens
        BY <1>2, DetachLoosens DEF InstallAndDrain
    <2>2. UNCHANGED <<replayWindows, replaySize, opened>>
        BY <1>2 DEF InstallAndDrain, historyVars
    <2> QED
        BY <1>1, <2>1, <2>2, KeepsStep
<1>3. CASE TeardownAndForget
    <2>1. Loosens
        BY <1>3, DetachLoosens DEF TeardownAndForget
    <2>2. FreshWindows(Epochs, replaySize') /\ replaySize' \in ReplaySizes
        BY <1>3 DEF TeardownAndForget, FrameTypeOK
    <2> QED
        BY <2>1, <2>2, FreshStep
<1>4. ASSUME NEW e \in Epochs, WipeAndForget(e)
      PROVE  ReplayInv'
    <2>1. Loosens
        BY <1>4, DetachLoosens DEF WipeAndForget
    <2>2. FreshWindows({e}, replaySize') /\ replaySize' = replaySize /\ replaySize' \in ReplaySizes
        BY <1>4 DEF WipeAndForget, FrameTypeOK
    <2> QED
        BY <2>1, <2>2, FreshStep
<1>5. ASSUME NEW size \in ReplaySizes, setReplayWindow(size)
      PROVE  ReplayInv'
    <2>1. Loosens
        BY <1>5, SetReplayWindowLoosens
    <2>2. FreshWindows(Epochs, replaySize') /\ replaySize' \in ReplaySizes
        BY <1>5 DEF setReplayWindow
    <2> QED
        BY <2>1, <2>2, FreshStep
<1>6. CASE \/ \E v \in Tolerances : setFailureTolerance(v)
           \/ DrainEnd \/ Passes \/ Sending \/ UNCHANGED vars
    <2>1. UNCHANGED <<task, replayWindows, replaySize, opened>>
        BY <1>6 DEF setFailureTolerance, DrainEnd, Passes, Sending, vars, frameVars, gateVars,
                    historyVars
    <2>2. \A s, k : Passed(s, k)' = Passed(s, k)
        BY <2>1 DEF Passed
    <2> QED
        BY <2>1, <2>2, KeepsStep
<1> QED
    BY <1>2, <1>3, <1>4, <1>5, <1>6, WorkReplay, FrameCases DEF Message

(***************************************************************************)
(* With a replay window that has room for every counter in use, no frame   *)
(* is opened more often than there are tasks to race for it, whatever      *)
(* messages and wipes replace the windows meanwhile (the check before the  *)
(* decryption and the accept after it in decodeFrame and in the drain).    *)
(***************************************************************************)
THEOREM ReplaysAreBounded == FrameSpec => []ReplayBound
<1>1. FrameInit => ReplayInv
    <2> SUFFICES ASSUME FrameInit PROVE ReplayInv
        OBVIOUS
    <2>1. \A s, k : Passed(s, k) = {}
        BY SuspendedIsNotIdle DEF FrameInit, Passed
    <2>2. Cardinality({}) = 0 /\ Len(<<>>) = 0
        BY FS_EmptySet
    <2>3. \A s \in Slots : /\ replayWindows[s].windowSize = replaySize
                           /\ replayWindows[s].seen = {} /\ replayWindows[s].queue = <<>>
        BY DEF FrameInit, newWindow
    <2>4. \A s \in Slots, k \in Counters : opened[<<s, k>>] = 0
        BY DEF FrameInit
    <2>5. \A s \in Slots, k \in Counters :
              opened[<<s, k>>] + Cardinality(Passed(s, k)) <= Cardinality(Tasks)
        <3> SUFFICES ASSUME NEW s \in Slots, NEW k \in Counters
                     PROVE  opened[<<s, k>>] + Cardinality(Passed(s, k)) <= Cardinality(Tasks)
            OBVIOUS
        <3>1. Cardinality(Passed(s, k)) = 0 /\ opened[<<s, k>>] = 0
            BY <2>1, <2>2, <2>4
        <3> QED
            BY <3>1, TasksFinite
    <2>6. \A s \in Slots : Len(replayWindows[s].queue) = Cardinality(replayWindows[s].seen)
        BY <2>2, <2>3
    <2> QED
        BY <2>3, <2>4, <2>5, <2>6 DEF ReplayInv
<1>2. FrameTypeOK /\ ReplayInv => ReplayBound
    <2> SUFFICES ASSUME FrameTypeOK, ReplayInv, replaySize >= Cardinality(Counters),
                        NEW c \in Slots \X Counters
                 PROVE  opened[c] <= Cardinality(Tasks)
        BY DEF ReplayBound
    <2>1. PICK s \in Slots, k \in Counters : c = <<s, k>>
        OBVIOUS
    <2>2. opened[c] + Cardinality(Passed(s, k)) <= Cardinality(Tasks)
        BY <2>1 DEF ReplayInv
    <2>3. opened[c] \in Nat
        BY DEF FrameTypeOK
    <2> QED
        BY <2>2, <2>3, PassedType, TasksFinite
<1> QED
    BY <1>1, <1>2, ReplayStep, FrameTypeCorrect, PTL DEF FrameSpec

-----------------------------------------------------------------------------
(***************************************************************************)
(* The order of the parked frames.                                         *)
(***************************************************************************)

\* The queue and the snapshot, apart from the frame in the drain's hands.
Lines(q, p) ==
    /\ Increasing(q) /\ Increasing(p)
    /\ \A i \in 1..Len(q) : q[i].n \in 1..parked
    /\ \A i \in 1..Len(p) : p[i].n \in 1..parked
    /\ \A i \in 1..Len(q), j \in 1..Len(p) : q[i].n < p[j].n

LinesInv == (\A i \in lost : i.n # 1) /\ Lines(queue, pending)

\* The frame a drain is about, between the two.
Between(item, q, p) ==
    /\ item.n \in 1..parked
    /\ \A i \in 1..Len(q) : q[i].n < item.n
    /\ \A i \in 1..Len(p) : item.n < p[i].n

HandInv ==
    /\ Len(queue) + InHand + Len(pending) <= QueueCap
    /\ task[Drainer] # IdleTask => Between(task[Drainer].item, queue, pending)
    /\ \A p \in DecodePipes : task[p] # IdleTask => task[p].item.n = 0
    /\ draining => currentEpoch # -1
    /\ ~draining => task[Drainer] = IdleTask /\ pending = <<>>

LEMMA OrderParts == OrderInv <=> (session = 0 => LinesInv /\ HandInv)
BY DEF OrderInv, LinesInv, Lines, HandInv, Between

LEMMA QueueTypes ==
    ASSUME FrameTypeOK
    PROVE  /\ queue \in Seq(Item) /\ pending \in Seq(Item) /\ parked \in Nat
           /\ Len(queue) \in Nat /\ Len(pending) \in Nat
           /\ \A i \in 1..Len(queue) : queue[i].n \in Nat
           /\ \A i \in 1..Len(pending) : pending[i].n \in Nat
           /\ QueueCap \in Nat /\ InHand \in Nat
<1>1. queue \in Seq(Item) /\ pending \in Seq(Item) /\ parked \in Nat
    BY DEF FrameTypeOK
<1>2. /\ \A i \in 1..Len(queue) : queue[i] \in Item
      /\ \A i \in 1..Len(pending) : pending[i] \in Item
      /\ Len(queue) \in Nat /\ Len(pending) \in Nat
    BY <1>1
<1>3. \A item \in Item : item.n \in Nat
    BY DEF Item
<1>4. QueueCap \in Nat
    BY SettingsAssumption
<1> QED
    BY <1>1, <1>2, <1>3, <1>4 DEF InHand

\* A pipe parks a frame that has just arrived: behind every other, and in
\* place of the last one if the queue is full.
LEMMA PipeParks ==
    ASSUME QueueCap >= 2, FrameTypeOK, LinesInv, HandInv, NEW item \in Item, item.n = 0,
           NEW new \in Item, pushToQueue(new), Numbered(item, new),
           pending = <<>>, UNCHANGED pending
    PROVE  LinesInv' /\ Len(queue') + Len(pending') <= QueueCap
<1>1. /\ new.n = parked + 1 /\ parked' = parked + 1 /\ parked \in Nat
      /\ Len(queue) \in Nat /\ QueueCap \in Nat /\ Len(pending) = 0 /\ Len(pending') = 0
      /\ \A i \in 1..Len(queue) : queue[i].n \in Nat
    BY QueueTypes DEF Numbered
<1>2. /\ Len(queue') = IF Overflow THEN Len(queue) ELSE Len(queue) + 1
      /\ queue'[Len(queue')] = new
      /\ \A i \in 1..(Len(queue') - 1) : i \in 1..Len(queue) /\ queue'[i] = queue[i]
      /\ Overflow => Len(queue) >= 1 /\ lost' = lost \cup {queue[Len(queue)]}
      /\ ~Overflow => lost' = lost
    BY PushFacts
<1>3. Len(queue) <= QueueCap
    BY <1>1, QueueTypes DEF HandInv
<1>4. Len(queue') + Len(pending') <= QueueCap
    BY <1>1, <1>2, <1>3 DEF Overflow
<1>5. \A i \in lost' : i.n # 1
    <2>1. CASE Overflow
        <3>1. Len(queue) >= 2
            BY <1>1, <2>1 DEF Overflow
        <3>2. queue[1].n < queue[Len(queue)].n /\ queue[1].n \in 1..parked
            BY <1>1, <3>1 DEF LinesInv, Lines, Increasing
        <3>3. queue[Len(queue)].n # 1
            BY <1>1, <3>1, <3>2
        <3> QED
            BY <1>2, <2>1, <3>3 DEF LinesInv, Lines
    <2>2. CASE ~Overflow
        BY <1>2, <2>2 DEF LinesInv, Lines
    <2> QED
        BY <2>1, <2>2
<1>6. \A i \in 1..Len(queue') : \/ i = Len(queue') /\ queue'[i].n = parked + 1
                                \/ i \in 1..Len(queue) /\ i < Len(queue') /\ queue'[i] = queue[i]
    BY <1>1, <1>2
<1>7. \A i \in 1..Len(queue') : queue'[i].n \in 1..parked'
    BY <1>1, <1>6 DEF LinesInv, Lines
<1>8. Increasing(queue)'
    <2> SUFFICES ASSUME NEW i \in 1..Len(queue'), NEW j \in 1..Len(queue'), i < j
                 PROVE  queue'[i].n < queue'[j].n
        BY DEF Increasing
    <2>1. i \in 1..Len(queue) /\ queue'[i] = queue[i] /\ queue[i].n \in 1..parked
        BY <1>1, <1>2, <1>6 DEF LinesInv, Lines
    <2>2. CASE j = Len(queue')
        BY <1>1, <1>2, <2>1, <2>2
    <2>3. CASE j # Len(queue')
        BY <1>6, <2>1, <2>3 DEF LinesInv, Lines, Increasing
    <2> QED
        BY <2>2, <2>3
<1>9. Increasing(pending)'
    BY DEF Increasing
<1> QED
    BY <1>1, <1>4, <1>5, <1>7, <1>8, <1>9 DEF LinesInv, Lines

\* The drain parks the frame in its hands again: it goes behind the frames
\* parked before it in the same pass, and there is room.
LEMMA DrainParks ==
    ASSUME FrameTypeOK, \A i \in lost : i.n # 1, pending' \in Seq(Item),
           Lines(queue, pending'), NEW item \in Item, Between(item, queue, pending'),
           NEW new \in Item, pushToQueue(new), Numbered(item, new),
           Len(queue) + 1 + Len(pending') <= QueueCap
    PROVE  LinesInv' /\ Len(queue') + Len(pending') <= QueueCap
<1>1. /\ parked \in Nat /\ Len(queue) \in Nat /\ Len(pending') \in Nat /\ QueueCap \in Nat
      /\ \A i \in 1..Len(queue) : queue[i].n \in Nat
    BY QueueTypes
<1>2. item.n # 0 /\ new = item /\ parked' = parked
    BY <1>1 DEF Between, Numbered
<1>3. ~Overflow
    BY <1>1 DEF Overflow
<1>4. /\ Len(queue') = Len(queue) + 1 /\ queue'[Len(queue')] = item /\ lost' = lost
      /\ \A i \in 1..(Len(queue') - 1) : i \in 1..Len(queue) /\ queue'[i] = queue[i]
    BY <1>2, <1>3, PushFacts
<1>5. \A i \in 1..Len(queue') : \/ i = Len(queue') /\ queue'[i] = item
                                \/ i \in 1..Len(queue) /\ i < Len(queue') /\ queue'[i] = queue[i]
    BY <1>1, <1>4
<1>6. \A i \in 1..Len(queue') : queue'[i].n \in 1..parked
    BY <1>5 DEF Lines, Between
<1>7. Increasing(queue)'
    <2> SUFFICES ASSUME NEW i \in 1..Len(queue'), NEW j \in 1..Len(queue'), i < j
                 PROVE  queue'[i].n < queue'[j].n
        BY DEF Increasing
    <2>1. i \in 1..Len(queue) /\ queue'[i] = queue[i]
        BY <1>1, <1>4, <1>5
    <2>2. CASE j = Len(queue')
        BY <1>4, <2>1, <2>2 DEF Between
    <2>3. CASE j # Len(queue')
        BY <1>5, <2>1, <2>3 DEF Lines, Increasing
    <2> QED
        BY <2>2, <2>3
<1>8. \A i \in 1..Len(queue'), j \in 1..Len(pending') : queue'[i].n < pending'[j].n
    BY <1>5 DEF Lines, Between
<1> QED
    BY <1>1, <1>2, <1>4, <1>6, <1>7, <1>8 DEF LinesInv, Lines, Increasing

\* The drain takes the first frame of its snapshot.
LEMMA HeadTaken ==
    ASSUME FrameTypeOK, Lines(queue, pending), pending # <<>>
    PROVE  /\ Tail(pending) \in Seq(Item) /\ Len(Tail(pending)) = Len(pending) - 1
           /\ Lines(queue, Tail(pending)) /\ Between(Head(pending), queue, Tail(pending))
<1>1. /\ pending \in Seq(Item) /\ Len(pending) \in Nat
      /\ \A i \in 1..Len(pending) : pending[i].n \in Nat
    BY QueueTypes
<1> DEFINE p == Tail(pending)
<1>2. /\ p \in Seq(Item) /\ Len(p) = Len(pending) - 1 /\ Len(pending) >= 1
      /\ \A i \in 1..Len(p) : p[i] = pending[i + 1]
      /\ Head(pending) = pending[1]
    BY <1>1
<1> HIDE DEF p
<1>3. \A i \in 1..Len(p) : p[i] = pending[i + 1] /\ i + 1 \in 1..Len(pending) /\ 1 < i + 1
    BY <1>1, <1>2
<1>4. 1 \in 1..Len(pending)
    BY <1>1, <1>2
<1>5. Increasing(p)
    <2> SUFFICES ASSUME NEW i \in 1..Len(p), NEW j \in 1..Len(p), i < j
                 PROVE  p[i].n < p[j].n
        BY DEF Increasing
    <2>1. i + 1 < j + 1
        BY <1>1, <1>2
    <2> QED
        BY <1>3, <2>1 DEF Lines, Increasing
<1>6. Lines(queue, p)
    BY <1>3, <1>5 DEF Lines
<1>7. Between(pending[1], queue, p)
    BY <1>3, <1>4 DEF Between, Lines, Increasing
<1> QED
    BY <1>2, <1>6, <1>7 DEF p

\* What becomes of the task that worked on the frame.
LEMMA WorkHand ==
    ASSUME FrameTypeOK, NEW t \in Tasks, NEW item \in Item, NEW format \in Format,
           Work(t, item, format)
    PROVE  /\ \A u \in Tasks : u # t => task'[u] = task[u]
           /\ task'[t] = IdleTask \/ task'[t].item = item
           /\ Parks(t, item, format) => task'[t] = IdleTask
<1>1. task'[t] = IdleTask \/ task'[t].item = item
    BY DEF Work, Gated, Drop, Parks, Park, Begins, BeginDecrypt, AcceptsNow,
           AcceptsLater, AcceptFrame, Probes, Fails, Settle, FrameTypeOK
<1>2. Parks(t, item, format) => task'[t] = IdleTask
    BY DEF Parks, Park, Settle, FrameTypeOK
<1> QED
    BY <1>1, <1>2, WorkTask

LEMMA PipeOrder ==
    ASSUME QueueCap >= 2, FrameTypeOK, LinesInv, HandInv, NEW t \in DecodePipes,
           NEW item \in Item, NEW format \in Format, Work(t, item, format)
    PROVE  LinesInv' /\ HandInv'
<1>1. t \in Tasks /\ t # Drainer /\ Drainer \in Tasks /\ DecodePipes \subseteq Tasks
    BY TasksAssumption DEF Tasks
<1>2. item.n = 0 /\ UNCHANGED pending
    BY <1>1 DEF Work, Source, HandInv
<1>3. /\ task'[Drainer] = task[Drainer]
      /\ \A p \in DecodePipes : task'[p] # IdleTask => task'[p].item.n = 0
    BY <1>1, <1>2, WorkHand DEF HandInv
<1>4. UNCHANGED <<draining, currentEpoch>>
    BY WorkQueue DEF stateVars, keyVars
<1>5. CASE UNCHANGED parkVars
    BY <1>2, <1>3, <1>4, <1>5 DEF parkVars, LinesInv, Lines, HandInv, InHand, Between
<1>6. CASE Parks(t, item, format)
    <2>1. ~draining /\ pending = <<>> /\ task[Drainer] = IdleTask
        BY <1>1, <1>6 DEF Parks, HandInv
    <2>2. PICK new \in Item : pushToQueue(new) /\ Numbered(item, new)
        BY <1>1, <1>6, ParkPushes DEF Parks
    <2>3. LinesInv' /\ Len(queue') + Len(pending') <= QueueCap
        BY <1>2, <2>1, <2>2, PipeParks
    <2>4. InHand' = 0
        BY <1>3, <2>1 DEF InHand
    <2>5. Len(queue') + InHand' + Len(pending') <= QueueCap
        <3>1. queue' \in Seq(Item) /\ Len(queue') \in Nat
            BY <2>2, PushFacts
        <3>2. Len(pending') \in Nat
            BY <1>2, QueueTypes
        <3> QED
            BY <2>3, <2>4, <3>1, <3>2
    <2> QED
        BY <1>2, <1>3, <1>4, <2>1, <2>3, <2>5 DEF HandInv
<1> QED
    BY <1>1, <1>5, <1>6, WorkQueue

LEMMA DrainOrder ==
    ASSUME FrameTypeOK, LinesInv, HandInv, NEW item \in Item, NEW format \in Format,
           Work(Drainer, item, format)
    PROVE  LinesInv' /\ HandInv'
<1>1. Drainer \in Tasks /\ Drainer \notin DecodePipes /\ DecodePipes \subseteq Tasks
    BY TasksAssumption DEF Tasks
<1>2. /\ Len(queue) \in Nat /\ Len(pending) \in Nat /\ QueueCap \in Nat
      /\ pending \in Seq(Item)
    BY QueueTypes
<1>3. /\ draining
      /\ pending' \in Seq(Item) /\ Lines(queue, pending') /\ Between(item, queue, pending')
      /\ Len(queue) + 1 + Len(pending') <= QueueCap
    <2>1. CASE task[Drainer] # IdleTask /\ item = task[Drainer].item /\ UNCHANGED pending
        BY <1>2, <2>1 DEF HandInv, LinesInv, InHand
    <2>2. CASE /\ DrainRunning /\ pending # <<>>
               /\ item = Head(pending) /\ pending' = Tail(pending)
        <3>1. draining /\ InHand = 0
            BY <2>2 DEF DrainRunning, InHand
        <3>2. /\ pending' \in Seq(Item) /\ Len(pending') = Len(pending) - 1
              /\ Lines(queue, pending') /\ Between(item, queue, pending')
            BY <2>2, HeadTaken DEF LinesInv
        <3> QED
            BY <1>2, <3>1, <3>2 DEF HandInv
    <2> QED
        BY <1>1, <2>1, <2>2 DEF Work, Source
<1>4. \A p \in DecodePipes : task'[p] # IdleTask => task'[p].item.n = 0
    BY <1>1, WorkHand DEF HandInv
<1>5. UNCHANGED <<draining, currentEpoch>> /\ draining' /\ currentEpoch' # -1
    BY <1>3, WorkQueue DEF stateVars, keyVars, HandInv
<1>6. Len(pending') \in Nat
    BY <1>3
<1>7. CASE UNCHANGED parkVars
    <2>1. LinesInv'
        BY <1>3, <1>7 DEF parkVars, LinesInv, Lines
    <2>2. InHand' \in {0, 1}
        BY DEF InHand
    <2>3. Len(queue') + InHand' + Len(pending') <= QueueCap
        BY <1>2, <1>3, <1>6, <1>7, <2>2 DEF parkVars
    <2>4. task'[Drainer] # IdleTask => Between(task[Drainer].item, queue, pending)'
        BY <1>1, <1>3, <1>7, WorkHand DEF parkVars, Between
    <2> QED
        BY <1>4, <1>5, <2>1, <2>3, <2>4 DEF HandInv
<1>8. CASE Parks(Drainer, item, format)
    <2>1. PICK new \in Item : pushToQueue(new) /\ Numbered(item, new)
        BY <1>1, <1>8, ParkPushes DEF Parks
    <2>2. LinesInv' /\ Len(queue') + Len(pending') <= QueueCap
        BY <1>3, <2>1, DrainParks DEF LinesInv
    <2>3. task'[Drainer] = IdleTask /\ InHand' = 0
        BY <1>1, <1>8, WorkHand DEF InHand
    <2>4. Len(queue') + InHand' + Len(pending') <= QueueCap
        <3>1. queue' \in Seq(Item) /\ Len(queue') \in Nat
            BY <2>1, PushFacts
        <3> QED
            BY <1>6, <2>2, <2>3, <3>1
    <2> QED
        BY <1>4, <1>5, <2>2, <2>3, <2>4 DEF HandInv
<1> QED
    BY <1>7, <1>8, WorkQueue

\* The queue becomes the snapshot of a new pass.
LEMMA SnapshotOrder ==
    ASSUME FrameTypeOK, LinesInv, HandInv, task[Drainer] = IdleTask, pending = <<>>,
           pending' = queue, queue' = <<>>, UNCHANGED <<lost, parked>>
    PROVE  LinesInv' /\ Len(queue') + Len(pending') <= QueueCap
<1>1. Len(queue) \in Nat /\ Len(queue') = 0 /\ Len(pending) = 0
    BY QueueTypes
<1>2. InHand = 0
    BY DEF InHand
<1>3. Len(queue') + Len(pending') <= QueueCap
    BY <1>1, <1>2 DEF HandInv
<1>4. Increasing(queue)' /\ Increasing(pending)'
    BY <1>1 DEF LinesInv, Lines, Increasing
<1> QED
    BY <1>1, <1>3, <1>4 DEF LinesInv, Lines

LEMMA LoosenHand ==
    ASSUME FrameTypeOK, HandInv, Loosens
    PROVE  /\ task'[Drainer] = IdleTask <=> task[Drainer] = IdleTask
           /\ task[Drainer] # IdleTask => task'[Drainer].item = task[Drainer].item
           /\ InHand' = InHand
           /\ \A p \in DecodePipes : task'[p] # IdleTask => task'[p].item.n = 0
<1>1. Drainer \in Tasks /\ DecodePipes \subseteq Tasks
    BY DEF Tasks
<1>2. \A t \in Tasks : /\ task'[t] = IdleTask <=> task[t] = IdleTask
                       /\ task[t] # IdleTask => task'[t].item = task[t].item
    BY SuspendedIsNotIdle DEF Loosens, Loosened
<1> QED
    BY <1>1, <1>2 DEF HandInv, InHand

LEMMA InstallOrder ==
    ASSUME FrameTypeOK, LinesInv, HandInv, NEW e \in Epochs, NEW self \in Peers,
           NEW chain \in Chains, NEW peers \in SUBSET Peers,
           InstallAndDrain(e, self, chain, peers)
    PROVE  LinesInv' /\ HandInv'
<1>1. Loosens
    BY DetachLoosens DEF InstallAndDrain
<1>2. UNCHANGED <<lost, parked>>
    BY DEF InstallAndDrain, historyVars
<1>3. currentEpoch' # -1
    <2>1. e \in Nat /\ currentEpoch \in Int
        BY EpochsAssumption DEF FrameTypeOK, TypeOK
    <2>2. currentEpoch' = IF e > currentEpoch THEN e ELSE currentEpoch
        BY DEF InstallAndDrain, installEpoch
    <2> QED
        BY <2>1, <2>2
<1>4. CASE draining
    <2>1. UNCHANGED <<queue, draining, pending>>
        BY <1>4 DEF InstallAndDrain, drainPreEpochQueue
    <2> QED
        BY <1>1, <1>2, <1>3, <1>4, <2>1, LoosenHand DEF LinesInv, Lines, HandInv, Between
<1>5. CASE ~draining
    <2>1. draining' = TRUE /\ pending' = queue /\ queue' = <<>>
        BY <1>5 DEF InstallAndDrain, drainPreEpochQueue
    <2>2. task[Drainer] = IdleTask /\ pending = <<>>
        BY <1>5 DEF HandInv
    <2>3. LinesInv' /\ Len(queue') + Len(pending') <= QueueCap
        BY <1>2, <2>1, <2>2, SnapshotOrder
    <2>4. InHand' = 0 /\ task'[Drainer] = IdleTask
        BY <1>1, <2>2, LoosenHand DEF InHand
    <2>5. Len(queue') + InHand' + Len(pending') <= QueueCap
        <3>1. Len(queue') = 0 /\ Len(pending') \in Nat
            BY <2>1, QueueTypes
        <3> QED
            BY <2>3, <2>4, <3>1
    <2> QED
        BY <1>1, <1>3, <2>1, <2>3, <2>4, <2>5, LoosenHand DEF HandInv
<1> QED
    BY <1>4, <1>5

LEMMA DrainEndOrder ==
    ASSUME FrameTypeOK, LinesInv, HandInv, DrainEnd
    PROVE  LinesInv' /\ HandInv'
<1>1. /\ draining /\ task[Drainer] = IdleTask /\ pending = <<>> /\ UNCHANGED task
      /\ UNCHANGED <<lost, parked, currentEpoch>>
    BY DEF DrainEnd, DrainRunning, historyVars, stateVars, keyVars
<1>2. CASE pendingDrain
    <2>1. pending' = queue /\ queue' = <<>> /\ draining'
        BY <1>2 DEF DrainEnd
    <2>2. LinesInv' /\ Len(queue') + Len(pending') <= QueueCap
        BY <1>1, <2>1, SnapshotOrder
    <2>3. InHand' = 0
        BY <1>1 DEF InHand
    <2>4. Len(queue') + InHand' + Len(pending') <= QueueCap
        <3>1. Len(queue') = 0 /\ Len(pending') \in Nat
            BY <2>1, QueueTypes
        <3> QED
            BY <2>2, <2>3, <3>1
    <2> QED
        BY <1>1, <2>1, <2>2, <2>4 DEF HandInv
<1>3. CASE ~pendingDrain
    <2>1. UNCHANGED <<pending, queue>> /\ ~draining'
        BY <1>3 DEF DrainEnd
    <2> QED
        BY <1>1, <2>1 DEF LinesInv, Lines, HandInv, InHand
<1> QED
    BY <1>2, <1>3

LEMMA OrderStep ==
    ASSUME QueueCap >= 2
    PROVE  FrameTypeOK /\ OrderInv /\ [FrameNext]_vars => OrderInv'
<1> SUFFICES ASSUME FrameTypeOK, OrderInv, FrameNext \/ UNCHANGED vars, session' = 0
             PROVE  LinesInv' /\ HandInv'
    <2>1. (session = 0 => LinesInv /\ HandInv)' <=> OrderInv'
        BY OrderParts, PTL
    <2> QED
        BY <2>1 DEF vars
<1>1. ~TeardownAndForget
    <2>1. session \in Nat
        BY DEF FrameTypeOK, TypeOK
    <2>2. TeardownAndForget => session' = session + 1
        BY DEF TeardownAndForget, teardown
    <2> QED
        BY ONLY <2>1, <2>2, session' = 0
<1>2. session = 0
    <2>1. UNCHANGED session
        <3>1. CASE Working
            BY <3>1, WorkQueue DEF Working, stateVars
        <3>2. CASE Message
            BY <1>1, <3>2 DEF Message, InstallAndDrain, installEpoch, setReplayWindow,
                              setFailureTolerance, stateVars
        <3>3. CASE \E e \in Epochs : WipeAndForget(e)
            BY <3>3 DEF WipeAndForget, wipeTimerFires, wipeEpoch
        <3>4. CASE DrainEnd \/ Passes \/ Sending \/ UNCHANGED vars
            BY <3>4 DEF DrainEnd, Passes, Sending, Encode, encodeStart, encodeDone, encodeFail,
                        vars, stateVars
        <3> QED
            BY <3>1, <3>2, <3>3, <3>4, FrameCases
    <2> QED
        BY <2>1
<1>3. LinesInv /\ HandInv
    BY <1>2, OrderParts
<1>4. CASE Working
    <2>1. PICK t \in Tasks, item \in Item, format \in Format : Work(t, item, format)
        BY <1>4 DEF Working
    <2>2. t \in DecodePipes \/ t = Drainer
        BY DEF Tasks
    <2> QED
        BY <1>3, <2>1, <2>2, PipeOrder, DrainOrder
<1>5. ASSUME UNCHANGED <<queue, pending, lost, parked, draining, currentEpoch>>,
             Loosens \/ UNCHANGED task
      PROVE  LinesInv' /\ HandInv'
    <2>1. LinesInv'
        BY <1>3, <1>5 DEF LinesInv, Lines
    <2>2. CASE Loosens
        BY <1>3, <1>5, <2>1, <2>2, LoosenHand DEF HandInv, Between
    <2>3. CASE UNCHANGED task
        BY <1>3, <1>5, <2>1, <2>3 DEF HandInv, Between, InHand
    <2> QED
        BY <1>5, <2>2, <2>3
<1>6. ASSUME NEW e \in Epochs, NEW self \in Peers, NEW chain \in Chains,
             NEW peers \in SUBSET Peers, InstallAndDrain(e, self, chain, peers)
      PROVE  LinesInv' /\ HandInv'
    BY <1>3, <1>6, InstallOrder
<1>7. ASSUME NEW e \in Epochs, WipeAndForget(e)
      PROVE  LinesInv' /\ HandInv'
    <2>1. Loosens
        BY <1>7, DetachLoosens DEF WipeAndForget
    <2>2. UNCHANGED <<queue, pending, lost, parked, draining, currentEpoch>>
        BY <1>7 DEF WipeAndForget, queueVars, wipeTimerFires, wipeEpoch
    <2> QED
        BY <1>5, <2>1, <2>2
<1>8. ASSUME NEW size \in ReplaySizes, setReplayWindow(size)
      PROVE  LinesInv' /\ HandInv'
    <2>1. Loosens
        BY <1>8, SetReplayWindowLoosens
    <2>2. UNCHANGED <<queue, pending, lost, parked, draining, currentEpoch>>
        BY <1>8 DEF setReplayWindow, queueVars, stateVars, keyVars
    <2> QED
        BY <1>5, <2>1, <2>2
<1>9. CASE DrainEnd
    BY <1>3, <1>9, DrainEndOrder
<1>10. CASE \/ \E v \in Tolerances : setFailureTolerance(v)
            \/ Passes \/ Sending \/ UNCHANGED vars
    <2>1. UNCHANGED <<queue, pending, lost, parked, draining, currentEpoch, task>>
        BY <1>10 DEF setFailureTolerance, Passes, Sending, Encode, encodeStart, encodeDone,
                     encodeFail, vars, frameVars, queueVars, parkVars, historyVars, stateVars,
                     keyVars
    <2> QED
        BY <1>5, <2>1
<1> QED
    BY <1>1, <1>4, <1>6, <1>7, <1>8, <1>9, <1>10, FrameCases DEF Message

(***************************************************************************)
(* Until the first teardown, and with room for two frames or more, the     *)
(* first frame ever parked is never lost to overflow, and however often    *)
(* the drain parks frames again the queue and what the drain has still to  *)
(* do stay in the order of arrival (pushToQueue drops the newest, the      *)
(* drain re-parks before any new frame can come in between).               *)
(***************************************************************************)
THEOREM OldestFramesStay ==
    ASSUME QueueCap >= 2
    PROVE  FrameSpec => []FirstFrameSurvives
<1>1. FrameInit => OrderInv
    <2> SUFFICES ASSUME FrameInit PROVE OrderInv
        OBVIOUS
    <2>1. Drainer \in Tasks /\ DecodePipes \subseteq Tasks
        BY DEF Tasks
    <2>2. Len(<<>>) = 0
        OBVIOUS
    <2>3. Len(queue) + InHand + Len(pending) <= QueueCap
        BY <2>1, <2>2, SettingsAssumption DEF FrameInit, InHand
    <2> QED
        BY <2>1, <2>3 DEF FrameInit, OrderInv, Increasing
<1>2. FrameTypeOK /\ OrderInv => FirstFrameSurvives
    <2> SUFFICES ASSUME FrameTypeOK, OrderInv, session = 0
                 PROVE  /\ \A i \in lost : i.n # 1
                        /\ \A i, j \in 1..Len(queue \o pending) :
                              i < j => (queue \o pending)[i].n < (queue \o pending)[j].n
        BY DEF FirstFrameSurvives
    <2>1. LinesInv
        BY OrderParts
    <2>2. queue \in Seq(Item) /\ pending \in Seq(Item)
        BY QueueTypes
    <2> DEFINE s == queue \o pending
    <2>3. /\ Len(s) = Len(queue) + Len(pending)
          /\ \A i \in 1..Len(queue) : s[i] = queue[i]
          /\ \A i \in 1..Len(pending) : s[Len(queue) + i] = pending[i]
        BY <2>2
    <2>4. Len(queue) \in Nat /\ Len(pending) \in Nat
        BY <2>2
    <2> HIDE DEF s
    <2>5. ASSUME NEW i \in 1..Len(s), NEW j \in 1..Len(s), i < j
          PROVE  s[i].n < s[j].n
        <3> DEFINE l == i - Len(queue)
                   m == j - Len(queue)
        <3>0. /\ i > Len(queue) => l \in 1..Len(pending) /\ i = Len(queue) + l
              /\ j > Len(queue) => m \in 1..Len(pending) /\ j = Len(queue) + m
              /\ l < m
            BY <2>3, <2>4, <2>5
        <3> HIDE DEF l, m
        <3>1. CASE j <= Len(queue)
            <4>1. i \in 1..Len(queue) /\ j \in 1..Len(queue)
                BY <2>3, <2>4, <2>5, <3>1
            <4> QED
                BY <2>1, <2>3, <2>5, <4>1 DEF LinesInv, Lines, Increasing
        <3>2. CASE i <= Len(queue) /\ j > Len(queue)
            <4>1. i \in 1..Len(queue)
                BY <2>3, <2>4, <3>2
            <4> QED
                BY <2>1, <2>3, <3>0, <3>2, <4>1 DEF LinesInv, Lines
        <3>3. CASE i > Len(queue)
            <4>1. j > Len(queue)
                BY <2>3, <2>4, <2>5, <3>3
            <4> QED
                BY <2>1, <2>3, <3>0, <3>3, <4>1 DEF LinesInv, Lines, Increasing
        <3> QED
            BY <2>3, <2>4, <3>1, <3>2, <3>3
    <2> QED
        BY <2>1, <2>5 DEF LinesInv, s
<1>3. FrameTypeOK /\ OrderInv /\ [FrameNext]_vars => OrderInv'
    BY OrderStep
<1> QED
    BY <1>1, <1>2, <1>3, FrameTypeCorrect, PTL DEF FrameSpec
=============================================================================
