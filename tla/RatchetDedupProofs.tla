------------------------- MODULE RatchetDedupProofs -------------------------
(***************************************************************************)
(* What holds of the retry loops of RatchetDedup for every window, every   *)
(* number of calls and whatever frames arrive; first for any number of     *)
(* callers, then for two.                                                  *)
(***************************************************************************)
EXTENDS RatchetDedup, TLAPS, FiniteSetTheorems

(***************************************************************************)
(* Types.                                                                  *)
(***************************************************************************)
LEMMA LeavingType ==
    ASSUME waiters \in Seq(Callers), NEW c \in Callers
    PROVE  Leaving(c) \in Seq(Callers)
<1>1. CASE \E i \in DOMAIN waiters : waiters[i] = c
    <2> DEFINE i == CHOOSE i \in DOMAIN waiters : waiters[i] = c
    <2>1. i \in 1..Len(waiters)
        BY <1>1
    <2> HIDE DEF i
    <2>2. RemoveAt(waiters, i) \in Seq(Callers)
        BY <2>1 DEF RemoveAt
    <2> QED
        BY <1>1, <2>2 DEF Leaving, i
<1>2. CASE ~\E i \in DOMAIN waiters : waiters[i] = c
    BY <1>2 DEF Leaving
<1> QED
    BY <1>1, <1>2

LEMMA RequeueType ==
    ASSUME waiters \in Seq(Callers), NEW c \in Callers, Requeue(c)
    PROVE  waiters' \in Seq(Callers)
BY LeavingType DEF Requeue

\* The steps of a call keep the types of all but the waiters.
CallTypeOK ==
    /\ cursor \in Nat
    /\ inMap \in Promise \cup {NoPromise}
    /\ loops \in [Promise -> {"none", "running", "opened", "failed"}]
    /\ call \in [Callers -> Call]
    /\ \A c \in Callers : call[c].pc \in {"inFlight", "afterAwait"} => call[c].awaits # NoPromise
    /\ result \in [Callers -> {"none", "own", "other", "failed"}]

LEMMA ReturnType ==
    ASSUME CallTypeOK, NEW c \in Callers, NEW how \in {"own", "other", "failed"}, Return(c, how),
           UNCHANGED <<cursor, inMap, loops>>
    PROVE  CallTypeOK'
<1> DEFINE r == [call[c] EXCEPT !.pc = "idle", !.inFlight = NoPromise,
                                !.awaits = NoPromise, !.key = 0, !.step = 0]
<1>1. r \in Call /\ r.pc = "idle"
    BY DEF CallTypeOK, Call
<1>2. call' = [call EXCEPT ![c] = r]
    BY DEF Return, CallTypeOK
<1> HIDE DEF r
<1> QED
    BY <1>1, <1>2 DEF Return, CallTypeOK

LEMMA StartLoopType ==
    ASSUME CallTypeOK, NEW c \in Callers, call[c].n \in 1..MaxCalls, StartLoop(c)
    PROVE  CallTypeOK'
<1> DEFINE r == [call[c] EXCEPT !.pc = "loop", !.key = cursor, !.step = 1,
                                !.awaits = NoPromise]
<1>1. r \in Call /\ r.pc = "loop"
    BY DEF CallTypeOK, Call
<1>2. call' = [call EXCEPT ![c] = r]
    BY DEF StartLoop, CallTypeOK
<1> HIDE DEF r
<1>3. <<c, call[c].n>> \in Promise
    BY DEF Promise
<1> QED
    BY <1>1, <1>2, <1>3 DEF StartLoop, CallTypeOK

LEMMA AwaitType ==
    ASSUME CallTypeOK, NEW c \in Callers, NEW pc \in {"inFlight", "afterAwait"},
           inMap # NoPromise, Await(c, pc)
    PROVE  CallTypeOK'
<1> DEFINE r == [call[c] EXCEPT !.pc = pc, !.awaits = inMap,
                                !.inFlight = IF pc = "inFlight" THEN inMap
                                             ELSE call[c].inFlight]
<1>1. r \in Call /\ r.awaits = inMap
    BY DEF CallTypeOK, Call
<1>2. call' = [call EXCEPT ![c] = r]
    BY DEF Await, CallTypeOK
<1> HIDE DEF r
<1> QED
    BY <1>1, <1>2 DEF Await, CallTypeOK

LEMMA AfterAwaitType ==
    ASSUME CallTypeOK, NEW c \in Callers, call[c].n \in 1..MaxCalls, AfterAwait(c)
    PROVE  CallTypeOK'
BY StartLoopType, AwaitType DEF AfterAwait

\* A call in progress has a number.
LEMMA CallNumber ==
    ASSUME RatchetTypeOK, LoopInv, NEW c \in Callers, call[c].pc # "idle"
    PROVE  call[c].n \in 1..MaxCalls /\ <<c, call[c].n>> \in Promise
BY MaxCallsAssumption DEF RatchetTypeOK, LoopInv, Call, Promise

LEMMA FinishType ==
    ASSUME CallTypeOK, NEW c \in Callers, call[c].n \in 1..MaxCalls,
           NEW how \in {"opened", "failed"}, Finish(c, how), cursor' \in Nat
    PROVE  CallTypeOK'
<1> DEFINE r == [call[c] EXCEPT !.pc = "idle", !.inFlight = NoPromise,
                                !.awaits = NoPromise, !.key = 0, !.step = 0]
<1>1. r \in Call /\ r.pc = "idle"
    BY DEF CallTypeOK, Call
<1>2. call' = [call EXCEPT ![c] = r]
    BY DEF Finish, Return, CallTypeOK
<1> HIDE DEF r
<1>3. result' \in [Callers -> {"none", "own", "other", "failed"}]
    BY DEF Finish, Return, CallTypeOK
<1>4. loops' \in [Promise -> {"none", "running", "opened", "failed"}] /\ inMap' = NoPromise
    BY DEF Finish, CallTypeOK
<1> QED
    BY <1>1, <1>2, <1>3, <1>4 DEF CallTypeOK

(***************************************************************************)
(* Every step of a call keeps the shared state within its types.           *)
(***************************************************************************)
LEMMA RatchetTypeStep == RatchetTypeOK /\ LoopInv /\ [Next]_vars => RatchetTypeOK'
<1> SUFFICES ASSUME RatchetTypeOK, LoopInv, [Next]_vars
             PROVE  RatchetTypeOK'
    OBVIOUS
<1>1. CallTypeOK /\ waiters \in Seq(Callers)
    BY DEF RatchetTypeOK, CallTypeOK
<1>2. SUFFICES CallTypeOK' /\ waiters' \in Seq(Callers)
    BY DEF RatchetTypeOK, CallTypeOK
<1>3. ASSUME NEW c \in Callers, NEW want \in Wanted, Begin(c, want)
      PROVE  CallTypeOK' /\ waiters' \in Seq(Callers)
    <2> DEFINE r == [call[c] EXCEPT !.pc = "step0", !.n = call[c].n + 1, !.want = want,
                                    !.key = cursor]
    <2>0. call[c].n + 1 \in 0..MaxCalls
        BY <1>1, <1>3, MaxCallsAssumption DEF Begin, CallTypeOK, Call
    <2>1. r \in Call /\ r.pc = "step0"
        BY <1>1, <2>0 DEF CallTypeOK, Call
    <2>2. call' = [call EXCEPT ![c] = r]
        BY <1>3 DEF Begin
    <2> HIDE DEF r
    <2> QED
        BY <1>1, <1>3, <2>1, <2>2 DEF Begin, CallTypeOK
<1>4. ASSUME NEW c \in Callers, Step0(c)
      PROVE  CallTypeOK' /\ waiters' \in Seq(Callers)
    <2>1. call[c].n \in 1..MaxCalls
        BY <1>4, CallNumber DEF Step0
    <2>2. CASE call[c].want = call[c].key
        BY <1>1, <1>4, <2>2, ReturnType DEF Step0
    <2>3. CASE call[c].want # call[c].key /\ Window = 0
        BY <1>1, <1>4, <2>3, ReturnType DEF Step0
    <2>4. CASE call[c].want # call[c].key /\ Window # 0 /\ inMap # NoPromise
        <3>1. Await(c, "inFlight") /\ waiters' = Append(waiters, c)
            BY <1>4, <2>4 DEF Step0
        <3> QED
            BY <1>1, <2>4, <3>1, AwaitType
    <2>5. CASE call[c].want # call[c].key /\ Window # 0 /\ inMap = NoPromise
        BY <1>1, <1>4, <2>1, <2>5, StartLoopType DEF Step0
    <2> QED
        BY <2>2, <2>3, <2>4, <2>5
<1>5. ASSUME NEW c \in Callers, InFlight(c)
      PROVE  CallTypeOK' /\ waiters' \in Seq(Callers)
    <2>1. call[c].n \in 1..MaxCalls
        BY <1>5, CallNumber DEF InFlight
    <2>2. waiters' \in Seq(Callers)
        BY <1>1, <1>5, RequeueType DEF InFlight
    <2>3. CASE loops[call[c].awaits] = "opened"
        <3> DEFINE r == [call[c] EXCEPT !.pc = "retry0", !.key = cursor, !.awaits = NoPromise]
        <3>1. r \in Call /\ r.pc = "retry0"
            BY <1>1 DEF CallTypeOK, Call
        <3>2. call' = [call EXCEPT ![c] = r]
            BY <1>5, <2>3 DEF InFlight
        <3> HIDE DEF r
        <3> QED
            BY <1>1, <1>5, <2>2, <2>3, <3>1, <3>2 DEF InFlight, CallTypeOK
    <2>4. CASE loops[call[c].awaits] # "opened"
        BY <1>1, <1>5, <2>1, <2>2, <2>4, AfterAwaitType DEF InFlight
    <2> QED
        BY <2>3, <2>4
<1>6. ASSUME NEW c \in Callers, Retry0(c)
      PROVE  CallTypeOK' /\ waiters' \in Seq(Callers)
    <2>1. call[c].n \in 1..MaxCalls
        BY <1>6, CallNumber DEF Retry0
    <2>2. waiters' \in Seq(Callers)
        BY <1>1, <1>6, RequeueType DEF Retry0
    <2>3. CASE call[c].want = call[c].key
        BY <1>1, <1>6, <2>2, <2>3, ReturnType DEF Retry0
    <2>4. CASE call[c].want # call[c].key
        BY <1>1, <1>6, <2>1, <2>2, <2>4, AfterAwaitType DEF Retry0
    <2> QED
        BY <2>3, <2>4
<1>7. ASSUME NEW c \in Callers, Adopt(c)
      PROVE  CallTypeOK' /\ waiters' \in Seq(Callers)
    <2>1. call[c].n \in 1..MaxCalls
        BY <1>7, CallNumber DEF Adopt
    <2>2. waiters' \in Seq(Callers)
        BY <1>1, <1>7, RequeueType DEF Adopt
    <2>3. CASE loops[call[c].awaits] = "opened"
        BY <1>1, <1>7, <2>2, <2>3, ReturnType DEF Adopt
    <2>4. CASE loops[call[c].awaits] # "opened"
        BY <1>1, <1>7, <2>1, <2>2, <2>4, StartLoopType DEF Adopt
    <2> QED
        BY <2>3, <2>4
<1>8. ASSUME NEW c \in Callers, Loop(c)
      PROVE  CallTypeOK' /\ waiters' \in Seq(Callers)
    <2>1. call[c].n \in 1..MaxCalls
        BY <1>8, CallNumber DEF Loop
    <2>2. Tried(c) \in Nat
        BY <1>1 DEF Tried, CallTypeOK, Call
    <2>3. CASE call[c].want = Tried(c)
        BY <1>1, <1>8, <2>1, <2>2, <2>3, FinishType DEF Loop
    <2>4. CASE call[c].want # Tried(c) /\ call[c].step = Window
        <3>1. Finish(c, "failed") /\ cursor' \in Nat
            BY <1>1, <1>8, <2>4 DEF Loop, CallTypeOK
        <3> QED
            BY <1>1, <1>8, <2>1, <3>1, FinishType DEF Loop
    <2>5. CASE call[c].want # Tried(c) /\ call[c].step # Window
        <3> DEFINE r == [call[c] EXCEPT !.step = @ + 1]
        <3>0. call[c].step + 1 \in Nat
            BY <1>1 DEF CallTypeOK, Call
        <3>1. r \in Call /\ r.pc = "loop"
            BY <1>1, <1>8, <3>0 DEF CallTypeOK, Call, Loop
        <3>2. call' = [call EXCEPT ![c] = r]
            BY <1>1, <1>8, <2>5 DEF Loop, CallTypeOK, Call
        <3> HIDE DEF r
        <3> QED
            BY <1>1, <1>8, <2>5, <3>1, <3>2 DEF Loop, CallTypeOK
    <2> QED
        BY <2>3, <2>4, <2>5
<1>9. CASE UNCHANGED vars
    BY <1>1, <1>9 DEF vars, CallTypeOK
<1> QED
    BY <1>3, <1>4, <1>5, <1>6, <1>7, <1>8, <1>9 DEF Next

-----------------------------------------------------------------------------
(***************************************************************************)
(* The bookkeeping of promises, for any number of callers.                 *)
(***************************************************************************)
Waiting == {"step0", "inFlight", "retry0", "afterAwait"}

\* A call that is not in its loop moves on, or a new one begins.
LEMMA QuietStep ==
    ASSUME RatchetTypeOK, LoopInv, NEW c \in Callers, NEW r \in Call,
           call' = [call EXCEPT ![c] = r], UNCHANGED <<inMap, loops>>,
           call[c].pc # "loop",
           \/ r.n = call[c].n /\ (r.pc = "idle" \/ (r.pc \in Waiting /\ call[c].pc \in Waiting))
           \/ r.n = call[c].n + 1 /\ r.pc = "step0"
    PROVE  LoopInv'
<1> USE MaxCallsAssumption DEF RatchetTypeOK, Call, Waiting
<1>1. NoStalePromise'
    BY DEF LoopInv, NoStalePromise
<1>2. ASSUME NEW d \in Callers
      PROVE  call'[d] = IF d = c THEN r ELSE call[d]
    OBVIOUS
<1>3. ASSUME NEW d \in Callers
      PROVE  call'[d].pc # "idle" => call'[d].n >= 1
    BY <1>2 DEF LoopInv
<1>4. ASSUME NEW d \in Callers, NEW m \in 1..MaxCalls
      PROVE  /\ loops[<<d, m>>] = "running" <=> call'[d].pc = "loop" /\ call'[d].n = m
             /\ m > call'[d].n => loops[<<d, m>>] = "none"
             /\ m = call'[d].n /\ call'[d].pc \in Waiting => loops[<<d, m>>] = "none"
    <2>1. CASE d = c
        <3>1. loops[<<c, m>>] # "running"
            BY DEF LoopInv
        <3>2. m > call[c].n => loops[<<c, m>>] = "none"
            BY DEF LoopInv
        <3>3. m = call[c].n /\ call[c].pc \in Waiting => loops[<<c, m>>] = "none"
            BY DEF LoopInv
        <3> QED
            BY <1>2, <2>1, <3>1, <3>2, <3>3
    <2>2. CASE d # c
        BY <1>2, <2>2 DEF LoopInv
    <2> QED
        BY <2>1, <2>2
<1>5. ASSUME NEW d \in Callers
      PROVE  call'[d].pc = "loop" => call'[d].step >= 1
    BY <1>2 DEF LoopInv
<1> QED
    BY <1>1, <1>3, <1>4, <1>5 DEF LoopInv

LEMMA StartLoopStep ==
    ASSUME RatchetTypeOK, LoopInv, NEW c \in Callers, call[c].pc \in Waiting, StartLoop(c)
    PROVE  LoopInv'
<1> USE MaxCallsAssumption DEF RatchetTypeOK, Waiting
<1>1. call[c].n \in 1..MaxCalls /\ <<c, call[c].n>> \in Promise
    BY CallNumber
<1> DEFINE r == [call[c] EXCEPT !.pc = "loop", !.key = cursor, !.step = 1,
                                !.awaits = NoPromise]
<1>2. call' = [call EXCEPT ![c] = r] /\ r.pc = "loop" /\ r.step = 1 /\ r.n = call[c].n
    BY DEF StartLoop, Call
<1> HIDE DEF r
<1>3. NoStalePromise'
    BY <1>1 DEF StartLoop, NoStalePromise
<1>4. ASSUME NEW d \in Callers
      PROVE  call'[d] = IF d = c THEN r ELSE call[d]
    BY <1>2
<1>5. ASSUME NEW d \in Callers, NEW m \in 1..MaxCalls
      PROVE  loops'[<<d, m>>] = IF d = c /\ m = call[c].n THEN "running" ELSE loops[<<d, m>>]
    BY <1>1 DEF StartLoop, Promise
<1>6. ASSUME NEW d \in Callers, NEW m \in 1..MaxCalls
      PROVE  /\ loops'[<<d, m>>] = "running" <=> call'[d].pc = "loop" /\ call'[d].n = m
             /\ m > call'[d].n => loops'[<<d, m>>] = "none"
             /\ m = call'[d].n /\ call'[d].pc \in Waiting => loops'[<<d, m>>] = "none"
    <2>1. CASE d = c
        <3>1. loops[<<c, m>>] # "running"
            BY DEF LoopInv
        <3>2. m > call[c].n => loops[<<c, m>>] = "none"
            BY DEF LoopInv
        <3>3. m > call[c].n => m # call[c].n
            BY <1>1
        <3> QED
            BY <1>2, <1>4, <1>5, <2>1, <3>1, <3>2, <3>3
    <2>2. CASE d # c
        BY <1>4, <1>5, <2>2 DEF LoopInv
    <2> QED
        BY <2>1, <2>2
<1>7. ASSUME NEW d \in Callers
      PROVE  /\ call'[d].pc # "idle" => call'[d].n >= 1
             /\ call'[d].pc = "loop" => call'[d].step >= 1
    BY <1>1, <1>2, <1>4 DEF LoopInv
<1> QED
    BY <1>3, <1>6, <1>7 DEF LoopInv

LEMMA FinishStep ==
    ASSUME RatchetTypeOK, LoopInv, NEW c \in Callers, call[c].pc = "loop",
           NEW how \in {"opened", "failed"}, Finish(c, how)
    PROVE  LoopInv'
<1> USE MaxCallsAssumption DEF RatchetTypeOK, Waiting
<1>1. call[c].n \in 1..MaxCalls /\ <<c, call[c].n>> \in Promise
    BY CallNumber
<1> DEFINE r == [call[c] EXCEPT !.pc = "idle", !.inFlight = NoPromise,
                                !.awaits = NoPromise, !.key = 0, !.step = 0]
<1>2. call' = [call EXCEPT ![c] = r] /\ r.pc = "idle" /\ r.n = call[c].n
    BY DEF Finish, Return, Call
<1> HIDE DEF r
<1>3. NoStalePromise'
    BY DEF Finish, NoStalePromise
<1>4. ASSUME NEW d \in Callers
      PROVE  call'[d] = IF d = c THEN r ELSE call[d]
    BY <1>2
<1>5. ASSUME NEW d \in Callers, NEW m \in 1..MaxCalls
      PROVE  loops'[<<d, m>>] = IF d = c /\ m = call[c].n THEN how ELSE loops[<<d, m>>]
    BY <1>1 DEF Finish, Promise
<1>6. ASSUME NEW d \in Callers, NEW m \in 1..MaxCalls
      PROVE  /\ loops'[<<d, m>>] = "running" <=> call'[d].pc = "loop" /\ call'[d].n = m
             /\ m > call'[d].n => loops'[<<d, m>>] = "none"
             /\ m = call'[d].n /\ call'[d].pc \in Waiting => loops'[<<d, m>>] = "none"
    <2>1. CASE d = c
        <3>1. loops[<<c, m>>] = "running" <=> call[c].n = m
            BY DEF LoopInv
        <3>2. m > call[c].n => loops[<<c, m>>] = "none"
            BY DEF LoopInv
        <3>3. m > call[c].n => m # call[c].n
            BY <1>1
        <3> QED
            BY <1>2, <1>4, <1>5, <2>1, <3>1, <3>2, <3>3
    <2>2. CASE d # c
        BY <1>4, <1>5, <2>2 DEF LoopInv
    <2> QED
        BY <2>1, <2>2
<1>7. ASSUME NEW d \in Callers
      PROVE  /\ call'[d].pc # "idle" => call'[d].n >= 1
             /\ call'[d].pc = "loop" => call'[d].step >= 1
    BY <1>2, <1>4 DEF LoopInv
<1> QED
    BY <1>3, <1>6, <1>7 DEF LoopInv

\* What Return, Await and StartLoop make of a call.
LEMMA ReturnCall ==
    ASSUME RatchetTypeOK, NEW c \in Callers, NEW how, Return(c, how)
    PROVE  \E r \in Call : /\ call' = [call EXCEPT ![c] = r]
                           /\ r.pc = "idle" /\ r.n = call[c].n
<1> DEFINE r == [call[c] EXCEPT !.pc = "idle", !.inFlight = NoPromise,
                                !.awaits = NoPromise, !.key = 0, !.step = 0]
<1>1. r \in Call /\ r.pc = "idle" /\ r.n = call[c].n
    BY DEF RatchetTypeOK, Call
<1>2. call' = [call EXCEPT ![c] = r]
    BY DEF Return
<1> QED
    BY <1>1, <1>2

LEMMA AwaitCall ==
    ASSUME RatchetTypeOK, NEW c \in Callers, NEW pc \in {"inFlight", "afterAwait"}, Await(c, pc)
    PROVE  \E r \in Call : /\ call' = [call EXCEPT ![c] = r]
                           /\ r.pc = pc /\ r.n = call[c].n /\ r.awaits = inMap
                           /\ r.inFlight = IF pc = "inFlight" THEN inMap ELSE call[c].inFlight
<1> DEFINE r == [call[c] EXCEPT !.pc = pc, !.awaits = inMap,
                                !.inFlight = IF pc = "inFlight" THEN inMap
                                             ELSE call[c].inFlight]
<1>1. /\ r \in Call /\ r.pc = pc /\ r.n = call[c].n /\ r.awaits = inMap
      /\ r.inFlight = IF pc = "inFlight" THEN inMap ELSE call[c].inFlight
    BY DEF RatchetTypeOK, Call
<1>2. call' = [call EXCEPT ![c] = r]
    BY DEF Await
<1> QED
    BY <1>1, <1>2

LEMMA StartLoopCall ==
    ASSUME RatchetTypeOK, NEW c \in Callers, StartLoop(c)
    PROVE  \E r \in Call : /\ call' = [call EXCEPT ![c] = r]
                           /\ r.pc = "loop" /\ r.n = call[c].n /\ r.key = cursor
<1> DEFINE r == [call[c] EXCEPT !.pc = "loop", !.key = cursor, !.step = 1,
                                !.awaits = NoPromise]
<1>1. r \in Call /\ r.pc = "loop" /\ r.n = call[c].n /\ r.key = cursor
    BY DEF RatchetTypeOK, Call
<1>2. call' = [call EXCEPT ![c] = r]
    BY DEF StartLoop
<1> QED
    BY <1>1, <1>2

LEMMA BeginCall ==
    ASSUME RatchetTypeOK, NEW c \in Callers, NEW want \in Wanted, Begin(c, want)
    PROVE  \E r \in Call : /\ call' = [call EXCEPT ![c] = r]
                           /\ r.pc = "step0" /\ r.n = call[c].n + 1
<1> DEFINE r == [call[c] EXCEPT !.pc = "step0", !.n = call[c].n + 1, !.want = want,
                                !.key = cursor]
<1>1. call[c].n + 1 \in 0..MaxCalls
    BY MaxCallsAssumption DEF Begin, RatchetTypeOK, Call
<1>2. r \in Call /\ r.pc = "step0" /\ r.n = call[c].n + 1
    BY <1>1 DEF RatchetTypeOK, Call
<1>3. call' = [call EXCEPT ![c] = r]
    BY DEF Begin
<1> QED
    BY <1>2, <1>3

LEMMA Retry0Call ==
    ASSUME RatchetTypeOK, NEW c \in Callers,
           call' = [call EXCEPT ![c] = [@ EXCEPT !.pc = "retry0", !.key = cursor,
                                                 !.awaits = NoPromise]]
    PROVE  \E r \in Call : /\ call' = [call EXCEPT ![c] = r]
                           /\ r.pc = "retry0" /\ r.n = call[c].n
                           /\ r.inFlight = call[c].inFlight
<1> DEFINE r == [call[c] EXCEPT !.pc = "retry0", !.key = cursor, !.awaits = NoPromise]
<1>1. r \in Call /\ r.pc = "retry0" /\ r.n = call[c].n /\ r.inFlight = call[c].inFlight
    BY DEF RatchetTypeOK, Call
<1> QED
    BY <1>1

LEMMA LoopCall ==
    ASSUME RatchetTypeOK, NEW c \in Callers, call[c].pc = "loop",
           call' = [call EXCEPT ![c].step = @ + 1]
    PROVE  \E r \in Call : /\ call' = [call EXCEPT ![c] = r]
                           /\ r.pc = "loop" /\ r.n = call[c].n /\ r.key = call[c].key
                           /\ r.step = call[c].step + 1
<1> DEFINE r == [call[c] EXCEPT !.step = call[c].step + 1]
<1>0. call[c] \in Call /\ call[c].step + 1 \in Nat
    BY DEF RatchetTypeOK, Call
<1>1. /\ r \in Call /\ r.pc = "loop" /\ r.n = call[c].n /\ r.key = call[c].key
      /\ r.step = call[c].step + 1
    BY <1>0 DEF Call
<1>2. call' = [call EXCEPT ![c] = r]
    BY DEF RatchetTypeOK
<1> QED
    BY <1>1, <1>2

LEMMA LoopTick ==
    ASSUME RatchetTypeOK, LoopInv, NEW c \in Callers, NEW r \in Call,
           call' = [call EXCEPT ![c] = r], UNCHANGED <<inMap, loops>>,
           call[c].pc = "loop", r.pc = "loop", r.n = call[c].n, r.step >= 1
    PROVE  LoopInv'
<1>1. ASSUME NEW d \in Callers
      PROVE  /\ call'[d].pc = call[d].pc /\ call'[d].n = call[d].n
             /\ call'[d].pc = "loop" => call'[d].step >= 1
    BY DEF RatchetTypeOK, LoopInv
<1> QED
    BY <1>1 DEF LoopInv, NoStalePromise

LEMMA LoopStep == RatchetTypeOK /\ LoopInv /\ [Next]_vars => LoopInv'
<1> SUFFICES ASSUME RatchetTypeOK, LoopInv, [Next]_vars
             PROVE  LoopInv'
    OBVIOUS
<1> USE DEF Waiting
<1>1. ASSUME NEW c \in Callers, NEW want \in Wanted, Begin(c, want)
      PROVE  LoopInv'
    BY <1>1, BeginCall, QuietStep DEF Begin
<1>2. ASSUME NEW c \in Callers, call[c].pc \in Waiting, AfterAwait(c)
      PROVE  LoopInv'
    <2>1. CASE StartLoop(c)
        BY <1>2, <2>1, StartLoopStep
    <2>2. CASE Await(c, "afterAwait")
        BY <1>2, <2>2, AwaitCall, QuietStep DEF Await
    <2> QED
        BY <1>2, <2>1, <2>2 DEF AfterAwait
<1>3. ASSUME NEW c \in Callers, Step0(c)
      PROVE  LoopInv'
    <2>1. CASE StartLoop(c)
        BY <1>3, <2>1, StartLoopStep DEF Step0
    <2>2. CASE Await(c, "inFlight")
        BY <1>3, <2>2, AwaitCall, QuietStep DEF Step0, Await
    <2>3. CASE (Return(c, "own") \/ Return(c, "failed")) /\ UNCHANGED <<cursor, inMap, loops>>
        BY <1>3, <2>3, ReturnCall, QuietStep DEF Step0
    <2> QED
        BY <1>3, <2>1, <2>2, <2>3 DEF Step0
<1>4. ASSUME NEW c \in Callers, InFlight(c)
      PROVE  LoopInv'
    <2>1. CASE loops[call[c].awaits] = "opened"
        BY <1>4, <2>1, Retry0Call, QuietStep DEF InFlight
    <2>2. CASE loops[call[c].awaits] # "opened"
        BY <1>2, <1>4, <2>2 DEF InFlight
    <2> QED
        BY <2>1, <2>2
<1>5. ASSUME NEW c \in Callers, Retry0(c)
      PROVE  LoopInv'
    <2>1. CASE call[c].want = call[c].key
        BY <1>5, <2>1, ReturnCall, QuietStep DEF Retry0
    <2>2. CASE call[c].want # call[c].key
        BY <1>2, <1>5, <2>2 DEF Retry0
    <2> QED
        BY <2>1, <2>2
<1>6. ASSUME NEW c \in Callers, Adopt(c)
      PROVE  LoopInv'
    <2>1. CASE loops[call[c].awaits] = "opened"
        BY <1>6, <2>1, ReturnCall, QuietStep DEF Adopt
    <2>2. CASE loops[call[c].awaits] # "opened"
        BY <1>6, <2>2, StartLoopStep DEF Adopt
    <2> QED
        BY <2>1, <2>2
<1>7. ASSUME NEW c \in Callers, Loop(c)
      PROVE  LoopInv'
    <2>1. CASE Finish(c, "opened") \/ Finish(c, "failed")
        BY <1>7, <2>1, FinishStep DEF Loop
    <2>2. CASE call' = [call EXCEPT ![c].step = @ + 1] /\ UNCHANGED <<inMap, loops>>
        <3>1. PICK r \in Call : /\ call' = [call EXCEPT ![c] = r]
                                /\ r.pc = "loop" /\ r.n = call[c].n
                                /\ r.step = call[c].step + 1
            BY <1>7, <2>2, LoopCall DEF Loop
        <3>2. r.step >= 1
            BY <3>1 DEF RatchetTypeOK, Call
        <3> QED
            BY <1>7, <2>2, <3>1, <3>2, LoopTick DEF Loop
    <2> QED
        BY <1>7, <2>1, <2>2 DEF Loop
<1>8. CASE UNCHANGED vars
    BY <1>8 DEF vars, LoopInv, NoStalePromise
<1> QED
    BY <1>1, <1>3, <1>4, <1>5, <1>6, <1>7, <1>8 DEF Next

(***************************************************************************)
(* The shared state of the callers always has its types                    *)
(* (tryDecryptWithRatchet, state.ratchetPromises).                         *)
(***************************************************************************)
THEOREM RatchetTypeCorrect == Spec => []RatchetTypeOK
<1>1. Init => RatchetTypeOK /\ LoopInv
    <2> SUFFICES ASSUME Init PROVE RatchetTypeOK /\ LoopInv
        OBVIOUS
    <2>1. RatchetTypeOK
        BY MaxCallsAssumption DEF Init, RatchetTypeOK, Call, Wanted
    <2>2. LoopInv
        BY MaxCallsAssumption DEF Init, LoopInv, NoStalePromise, Promise
    <2> QED
        BY <2>1, <2>2
<1>2. RatchetTypeOK /\ LoopInv /\ [Next]_vars => (RatchetTypeOK /\ LoopInv)'
    BY RatchetTypeStep, LoopStep
<1> QED
    BY <1>1, <1>2, PTL DEF Spec

LEMMA LoopInvariant == Spec => []LoopInv
<1>1. Init => LoopInv
    BY MaxCallsAssumption DEF Init, LoopInv, NoStalePromise, Promise
<1> QED
    BY <1>1, LoopStep, RatchetTypeCorrect, PTL DEF Spec

(***************************************************************************)
(* The map never holds the promise of a loop that has ended, for any       *)
(* number of callers: the finally block of tryDecryptWithRatchet.          *)
(***************************************************************************)
THEOREM PromisesAreLive == Spec => []NoStalePromise
<1>1. LoopInv => NoStalePromise
    BY DEF LoopInv
<1> QED
    BY <1>1, LoopInvariant, PTL

\* Only the end of a loop that opened its frame moves the cached key.
LEMMA CursorMoves ==
    ASSUME RatchetTypeOK, [Next]_vars
    PROVE  \/ cursor' = cursor
           \/ \E c \in Callers :
                 Loop(c) /\ call[c].want = Tried(c) /\ cursor' = Tried(c)
BY DEF Next, Begin, Step0, InFlight, Retry0, Adopt, Loop, AfterAwait, StartLoop, Await, vars

(***************************************************************************)
(* However many callers race, the cached key is one that opened a frame of *)
(* the sender (entry.keys.set at the end of a retry loop).                 *)
(***************************************************************************)
THEOREM KeyIsTheSenders == Spec => []NoOvershoot
<1>1. Init => NoOvershoot
    BY MaxStepAssumption DEF Init, NoOvershoot
<1>2. RatchetTypeOK /\ NoOvershoot /\ [Next]_vars => NoOvershoot'
    <2> SUFFICES ASSUME RatchetTypeOK, NoOvershoot, [Next]_vars
                 PROVE  NoOvershoot'
        OBVIOUS
    <2>1. CASE cursor' = cursor
        BY <2>1 DEF NoOvershoot
    <2>2. ASSUME NEW c \in Callers, call[c].want = Tried(c), cursor' = Tried(c)
          PROVE  NoOvershoot'
        <3>1. call[c].want \in Wanted /\ Tried(c) \in Nat
            BY DEF RatchetTypeOK, Call, Tried
        <3> QED
            BY <2>2, <3>1, GarbageAssumption DEF Wanted, NoOvershoot
    <2> QED
        BY <2>1, <2>2, CursorMoves
<1> QED
    BY <1>1, <1>2, RatchetTypeCorrect, PTL DEF Spec

-----------------------------------------------------------------------------
(***************************************************************************)
(* Two callers.                                                            *)
(***************************************************************************)
NobodyLoops == \A d \in Callers : call[d].pc # "loop"

LEMMA PromiseParts ==
    ASSUME NEW p \in Promise
    PROVE  p[1] \in Callers /\ p[2] \in 1..MaxCalls /\ p = <<p[1], p[2]>>
BY DEF Promise

\* A promise that runs is that of its owner's present loop.
LEMMA RunningOwner ==
    ASSUME LoopInv, NEW p \in Promise
    PROVE  loops[p] = "running" <=> call[p[1]].pc = "loop" /\ p = <<p[1], call[p[1]].n>>
BY PromiseParts DEF LoopInv

\* A call that is not in its loop moves on; the promise it waits for, if it
\* does, is running.
LEMMA PairQuietStep ==
    ASSUME RatchetTypeOK, LoopInv, PairInv, NEW c \in Callers, NEW r \in Call,
           call' = [call EXCEPT ![c] = r], UNCHANGED <<cursor, inMap, loops>>,
           call[c].pc # "idle" \/ Task, r.pc # "loop",
           r.pc \in {"inFlight", "afterAwait"} =>
               r.awaits \in Promise /\ r.awaits[1] # c /\ loops[r.awaits] = "running",
           r.pc = "inFlight" => r.inFlight = r.awaits,
           r.pc \in {"retry0", "afterAwait"} =>
               r.inFlight \in Promise /\ loops[r.inFlight] \in {"opened", "failed"}
    PROVE  PairInv'
<1>1. ASSUME NEW d \in Callers
      PROVE  call'[d] = IF d = c THEN r ELSE call[d]
    BY DEF RatchetTypeOK
<1>2. ASSUME NEW d \in Callers, d # c, call[d].pc \in {"inFlight", "afterAwait"},
             loops[call[d].awaits] # "running"
      PROVE  call'[call[d].awaits[1]].pc = "idle"
    <2>1. call[d].awaits[1] \in Callers /\ call[call[d].awaits[1]].pc = "idle"
        BY <1>2, PromiseParts DEF PairInv
    <2>2. ~Task
        BY <1>2 DEF Task, Ready
    <2>3. call[d].awaits[1] # c
        BY <2>1, <2>2
    <2> QED
        BY <1>1, <2>1, <2>3
<1> QED
    BY <1>1, <1>2 DEF PairInv

LEMMA PairStartStep ==
    ASSUME RatchetTypeOK, LoopInv, PairInv, NEW c \in Callers, call[c].pc \in Waiting,
           NobodyLoops, StartLoop(c)
    PROVE  PairInv'
<1>0. call[c].n \in 1..MaxCalls /\ <<c, call[c].n>> \in Promise
    BY CallNumber DEF Waiting
<1>1. PICK r \in Call : /\ call' = [call EXCEPT ![c] = r]
                        /\ r.pc = "loop" /\ r.n = call[c].n /\ r.key = cursor
    BY StartLoopCall
<1>2. ASSUME NEW d \in Callers
      PROVE  call'[d] = IF d = c THEN r ELSE call[d]
    BY <1>1 DEF RatchetTypeOK
<1>3. inMap' = <<c, call[c].n>> /\ cursor' = cursor
    BY DEF StartLoop
<1>4. loops[<<c, call[c].n>>] = "none"
    BY <1>0 DEF LoopInv, Waiting
<1>5. ASSUME NEW p \in Promise, loops[p] # "none"
      PROVE  loops'[p] = loops[p]
    BY <1>4, <1>5 DEF StartLoop, RatchetTypeOK
<1>6. ASSUME NEW d \in Callers, d # c, call[d].pc \in {"inFlight", "afterAwait"}
      PROVE  loops'[call[d].awaits] # "none" /\ call'[call[d].awaits[1]].pc = "idle"
    <2>1. call[d].awaits \in Promise /\ loops[call[d].awaits] # "none"
        BY <1>6 DEF PairInv
    <2>2. call[d].awaits[1] \in Callers
        BY <2>1, PromiseParts
    <2>3. loops[call[d].awaits] # "running"
        BY <2>1, <2>2, RunningOwner DEF NobodyLoops
    <2>4. call[call[d].awaits[1]].pc = "idle"
        BY <1>6, <2>3 DEF PairInv
    <2>5. call[d].awaits[1] # c
        BY <2>4 DEF Waiting
    <2> QED
        BY <1>2, <1>5, <2>1, <2>2, <2>4, <2>5
<1>7. ASSUME NEW d \in Callers, d # c, call[d].pc \in {"retry0", "afterAwait"}
      PROVE  call[d].inFlight \in Promise /\ loops'[call[d].inFlight] \in {"opened", "failed"}
    BY <1>5, <1>7 DEF PairInv
<1>8. ASSUME NEW d \in Callers, d # c
      PROVE  call[d].pc # "loop"
    BY DEF NobodyLoops
<1> QED
    BY <1>1, <1>2, <1>3, <1>6, <1>7, <1>8 DEF PairInv

LEMMA PairFinishStep ==
    ASSUME RatchetTypeOK, LoopInv, PairInv, NEW c \in Callers, call[c].pc = "loop",
           NEW how \in {"opened", "failed"}, Finish(c, how)
    PROVE  PairInv'
<1>0. call[c].n \in 1..MaxCalls /\ <<c, call[c].n>> \in Promise
    BY CallNumber
<1>1. PICK r \in Call : /\ call' = [call EXCEPT ![c] = r]
                        /\ r.pc = "idle" /\ r.n = call[c].n
    BY ReturnCall DEF Finish
<1>2. ASSUME NEW d \in Callers
      PROVE  call'[d] = IF d = c THEN r ELSE call[d]
    BY <1>1 DEF RatchetTypeOK
<1>3. ASSUME NEW p \in Promise
      PROVE  loops'[p] = IF p = <<c, call[c].n>> THEN how ELSE loops[p]
    BY <1>0 DEF Finish, RatchetTypeOK
<1>4. ASSUME NEW d \in Callers, d # c
      PROVE  call[d].pc # "loop"
    BY <1>4 DEF PairInv
<1>5. ASSUME NEW d \in Callers, d # c, call[d].pc \in {"inFlight", "afterAwait"}
      PROVE  /\ loops'[call[d].awaits] # "none"
             /\ loops'[call[d].awaits] # "running" => call'[call[d].awaits[1]].pc = "idle"
    <2> DEFINE p == call[d].awaits
    <2>1. p \in Promise /\ loops[p] # "none" /\ p[1] \in Callers
        BY <1>5, PromiseParts DEF PairInv
    <2>2. CASE p = <<c, call[c].n>>
        BY <1>1, <1>2, <1>3, <2>1, <2>2
    <2>3. CASE p # <<c, call[c].n>>
        <3>1. loops[p] # "running" => call[p[1]].pc = "idle"
            BY <1>5 DEF PairInv
        <3> QED
            BY <1>1, <1>2, <1>3, <2>1, <2>3, <3>1
    <2> QED
        BY <2>2, <2>3
<1>6. ASSUME NEW d \in Callers, d # c, call[d].pc \in {"retry0", "afterAwait"}
      PROVE  call[d].inFlight \in Promise /\ loops'[call[d].inFlight] \in {"opened", "failed"}
    BY <1>3, <1>6 DEF PairInv
<1> QED
    BY <1>1, <1>2, <1>4, <1>5, <1>6 DEF PairInv

\* When a waiter finds its promise settled nobody is in a loop: the owner has
\* just left it, and there is nobody else.
LEMMA ReadyMeansQuiet ==
    ASSUME TwoCallers, PairInv, NEW c \in Callers, Ready(c)
    PROVE  NobodyLoops
<1> DEFINE o == call[c].awaits[1]
<1>1. o \in Callers /\ o # c /\ call[o].pc = "idle"
    BY PromiseParts DEF Ready, PairInv
<1>2. ASSUME NEW d \in Callers
      PROVE  d = c \/ d = o
    BY <1>1 DEF TwoCallers
<1> QED
    BY <1>1, <1>2 DEF NobodyLoops, Ready

\* An empty map means that nobody is in a loop, a promise in it that its owner is.
LEMMA EmptyMapMeansQuiet ==
    ASSUME RatchetTypeOK, LoopInv, PairInv, inMap = NoPromise
    PROVE  NobodyLoops
BY CallNumber, NoPromiseAssumption DEF NobodyLoops, PairInv, Promise

LEMMA MapMeansLoop ==
    ASSUME RatchetTypeOK, LoopInv, inMap # NoPromise
    PROVE  /\ inMap \in Promise /\ inMap[1] \in Callers
           /\ loops[inMap] = "running" /\ call[inMap[1]].pc = "loop"
<1>1. inMap \in Promise /\ loops[inMap] = "running"
    BY DEF RatchetTypeOK, LoopInv, NoStalePromise
<1> QED
    BY <1>1, PromiseParts, RunningOwner

LEMMA PairStep ==
    ASSUME TwoCallers
    PROVE  RatchetTypeOK /\ LoopInv /\ PairInv /\ [Next]_vars => PairInv'
<1> SUFFICES ASSUME RatchetTypeOK, LoopInv, PairInv, [Next]_vars
             PROVE  PairInv'
    OBVIOUS
<1>1. ASSUME NEW c \in Callers, NEW want \in Wanted, Begin(c, want)
      PROVE  PairInv'
    BY <1>1, BeginCall, PairQuietStep DEF Begin
<1>2. ASSUME NEW c \in Callers, Step0(c)
      PROVE  PairInv'
    <2>1. CASE StartLoop(c) /\ inMap = NoPromise
        BY <1>2, <2>1, EmptyMapMeansQuiet, PairStartStep DEF Step0, Waiting
    <2>2. CASE Await(c, "inFlight") /\ inMap # NoPromise
        <3>0. call[c].pc = "step0"
            BY <1>2 DEF Step0
        <3>1. inMap \in Promise /\ inMap[1] # c /\ loops[inMap] = "running"
            BY <2>2, <3>0, MapMeansLoop
        <3>2. PICK r \in Call : /\ call' = [call EXCEPT ![c] = r]
                                /\ r.pc = "inFlight" /\ r.awaits = inMap /\ r.inFlight = inMap
            BY <2>2, AwaitCall
        <3> QED
            BY <2>2, <3>0, <3>1, <3>2, PairQuietStep DEF Await
    <2>3. CASE (Return(c, "own") \/ Return(c, "failed")) /\ UNCHANGED <<cursor, inMap, loops>>
        BY <1>2, <2>3, ReturnCall, PairQuietStep DEF Step0
    <2> QED
        BY <1>2, <2>1, <2>2, <2>3 DEF Step0
<1>3. ASSUME NEW c \in Callers, InFlight(c)
      PROVE  PairInv'
    <2>0. Ready(c) /\ NobodyLoops /\ call[c].pc = "inFlight"
        BY <1>3, ReadyMeansQuiet DEF InFlight, NextWaiter
    <2>1. CASE loops[call[c].awaits] = "opened"
        <3>1. call[c].inFlight \in Promise /\ loops[call[c].inFlight] = "opened"
            BY <2>0, <2>1 DEF PairInv
        <3> QED
            BY <1>3, <2>0, <2>1, <3>1, Retry0Call, PairQuietStep DEF InFlight
    <2>2. CASE loops[call[c].awaits] # "opened"
        <3>1. inMap = NoPromise
            BY <2>0, MapMeansLoop DEF NobodyLoops
        <3>2. StartLoop(c)
            BY <1>3, <2>2, <3>1 DEF InFlight, AfterAwait
        <3> QED
            BY <2>0, <3>2, PairStartStep DEF Waiting
    <2> QED
        BY <2>1, <2>2
<1>4. ASSUME NEW c \in Callers, Retry0(c)
      PROVE  PairInv'
    <2>0. /\ call[c].pc = "retry0"
          /\ call[c].inFlight \in Promise /\ loops[call[c].inFlight] \in {"opened", "failed"}
        BY <1>4 DEF Retry0, PairInv
    <2>1. CASE call[c].want = call[c].key
        BY <1>4, <2>0, <2>1, ReturnCall, PairQuietStep DEF Retry0
    <2>2. CASE call[c].want # call[c].key /\ inMap = NoPromise
        <3>1. StartLoop(c)
            BY <1>4, <2>2 DEF Retry0, AfterAwait
        <3> QED
            BY <2>0, <2>2, <3>1, EmptyMapMeansQuiet, PairStartStep DEF Waiting
    <2>3. CASE call[c].want # call[c].key /\ inMap # NoPromise
        <3>1. /\ inMap \in Promise /\ inMap[1] # c /\ loops[inMap] = "running"
              /\ inMap # call[c].inFlight
            BY <2>0, <2>3, MapMeansLoop
        <3>2. Await(c, "afterAwait")
            BY <1>4, <2>3, <3>1 DEF Retry0, AfterAwait
        <3>3. PICK r \in Call : /\ call' = [call EXCEPT ![c] = r]
                                /\ r.pc = "afterAwait" /\ r.awaits = inMap
                                /\ r.inFlight = call[c].inFlight
            BY <3>2, AwaitCall
        <3> QED
            BY <2>0, <3>1, <3>2, <3>3, PairQuietStep DEF Await
    <2> QED
        BY <2>1, <2>2, <2>3
<1>5. ASSUME NEW c \in Callers, Adopt(c)
      PROVE  PairInv'
    <2>0. Ready(c) /\ NobodyLoops /\ call[c].pc = "afterAwait"
        BY <1>5, ReadyMeansQuiet DEF Adopt, NextWaiter
    <2>1. CASE loops[call[c].awaits] = "opened"
        BY <1>5, <2>0, <2>1, ReturnCall, PairQuietStep DEF Adopt
    <2>2. CASE loops[call[c].awaits] # "opened"
        BY <1>5, <2>0, <2>2, PairStartStep DEF Adopt, Waiting
    <2> QED
        BY <2>1, <2>2
<1>6. ASSUME NEW c \in Callers, Loop(c)
      PROVE  PairInv'
    <2>1. CASE Finish(c, "opened") \/ Finish(c, "failed")
        BY <1>6, <2>1, PairFinishStep DEF Loop
    <2>2. CASE /\ call' = [call EXCEPT ![c].step = @ + 1]
               /\ UNCHANGED <<cursor, inMap, loops>>
        <3>1. PICK r \in Call : /\ call' = [call EXCEPT ![c] = r]
                                /\ r.pc = "loop" /\ r.n = call[c].n /\ r.key = call[c].key
            BY <1>6, <2>2, LoopCall DEF Loop
        <3>2. ASSUME NEW d \in Callers
              PROVE  call'[d] = IF d = c THEN r ELSE call[d]
            BY <3>1 DEF RatchetTypeOK
        <3>3. ASSUME NEW d \in Callers
              PROVE  call'[d].pc = call[d].pc /\ call'[d].n = call[d].n /\ call'[d].key = call[d].key
            BY <1>6, <3>1, <3>2 DEF Loop
        <3>4. ASSUME NEW d \in Callers, call[d].pc # "loop"
              PROVE  call'[d] = call[d]
            BY <1>6, <3>2, <3>4 DEF Loop
        <3>5. ASSUME NEW d \in Callers, call[d].pc \in {"inFlight", "afterAwait"}
              PROVE  call[d].awaits[1] \in Callers
            BY <3>5, PromiseParts DEF PairInv
        <3> QED
            BY <2>2, <3>3, <3>4, <3>5 DEF PairInv
    <2> QED
        BY <1>6, <2>1, <2>2 DEF Loop
<1>7. CASE UNCHANGED vars
    BY <1>7 DEF vars, PairInv
<1> QED
    BY <1>1, <1>2, <1>3, <1>4, <1>5, <1>6, <1>7 DEF Next

LEMMA PairInvariant ==
    ASSUME TwoCallers
    PROVE  Spec => []PairInv
<1>1. Init => PairInv
    BY DEF Init, PairInv
<1>2. RatchetTypeOK /\ LoopInv /\ PairInv /\ [Next]_vars => PairInv'
    BY PairStep
<1> QED
    BY <1>1, <1>2, LoopInvariant, RatchetTypeCorrect, PTL DEF Spec

(***************************************************************************)
(* Two callers never run two retry loops at a time: the promise map is     *)
(* looked up before each loop, and a waiter resumes before the owner of    *)
(* the promise can take up another frame (tryDecryptWithRatchet).          *)
(***************************************************************************)
THEOREM OneLoopAtATime ==
    ASSUME TwoCallers
    PROVE  Spec => []SingleLoop
<1>1. RatchetTypeOK /\ LoopInv /\ PairInv => SingleLoop
    <2> SUFFICES ASSUME RatchetTypeOK, LoopInv, PairInv
                 PROVE  SingleLoop
        OBVIOUS
    <2> DEFINE L == {c \in Callers : call[c].pc = "loop"}
    <2>1. ASSUME NEW c \in L, NEW d \in L
          PROVE  c = d
        BY DEF PairInv
    <2>2. CASE L = {}
        BY <2>2, FS_EmptySet DEF SingleLoop
    <2>3. CASE L # {}
        <3>1. PICK c \in L : TRUE
            BY <2>3
        <3>2. L = {c}
            BY <2>1, <3>1
        <3>3. Cardinality(L) = 1
            BY <3>2, FS_Singleton
        <3> QED
            BY <3>3 DEF SingleLoop
    <2> QED
        BY <2>2, <2>3
<1>2. Spec => []PairInv
    BY PairInvariant
<1> QED
    BY <1>1, <1>2, LoopInvariant, RatchetTypeCorrect, PTL

(***************************************************************************)
(* With two callers the cached key never moves back: the loop that ends    *)
(* began at the key that is still cached (entry.keys.set).                 *)
(***************************************************************************)
THEOREM KeyMovesForward ==
    ASSUME TwoCallers
    PROVE  Spec => CursorForward
<1>1. RatchetTypeOK /\ LoopInv /\ PairInv /\ [Next]_vars => [cursor' >= cursor]_vars
    <2> SUFFICES ASSUME RatchetTypeOK, LoopInv, PairInv, [Next]_vars
                 PROVE  cursor' >= cursor
        OBVIOUS
    <2>1. CASE cursor' = cursor
        BY <2>1 DEF RatchetTypeOK
    <2>2. ASSUME NEW c \in Callers, Loop(c), cursor' = Tried(c)
          PROVE  cursor' >= cursor
        <3>1. call[c].key = cursor
            BY <2>2 DEF Loop, PairInv
        <3>2. call[c].step \in Nat /\ cursor \in Nat
            BY DEF RatchetTypeOK, Call
        <3> QED
            BY <2>2, <3>1, <3>2 DEF Tried
    <2> QED
        BY <2>1, <2>2, CursorMoves
<1>2. Spec => []PairInv
    BY PairInvariant
<1> QED
    BY <1>1, <1>2, LoopInvariant, RatchetTypeCorrect, PTL DEF Spec, CursorForward
=============================================================================
