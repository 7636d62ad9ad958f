---------------------------- MODULE RatchetDedup ----------------------------
(***************************************************************************)
(* tryDecryptWithRatchet (src/src/worker-frame.ts) for the frames of one   *)
(* sender in one epoch: the callers, which are the decoding pipes and the  *)
(* drain loop, share the cached key and one slot of state.ratchetPromises. *)
(*                                                                         *)
(* A call is suspended in WebCrypto (step 0, its repetition, each step of  *)
(* the retry loop) or on another caller's promise.  Completions of         *)
(* WebCrypto are tasks of the event loop; when a promise settles, its      *)
(* owner's continuation runs first, then those of its waiters in the order *)
(* in which they began to wait, all before the next task.                  *)
(*                                                                         *)
(* A key is the number of its ratchet step, a frame the step that opens    *)
(* it.  The epoch stays installed throughout.                              *)
(***************************************************************************)
EXTENDS Integers, Sequences, SequencesExt, FiniteSets

CONSTANTS
    Callers,     \* the tasks that decrypt frames of this sender
    Window,      \* state.ratchetWindowSize
    MaxStep,     \* the furthest step a sender is at
    Garbage,     \* a frame that no step opens
    NoPromise,   \* no entry in state.ratchetPromises
    MaxCalls     \* bound on the frames per caller

ASSUME WindowAssumption == Window \in Nat
ASSUME MaxStepAssumption == MaxStep \in Nat
ASSUME GarbageAssumption == Garbage \notin Int
ASSUME MaxCallsAssumption == MaxCalls \in Nat
ASSUME NoPromiseAssumption == NoPromise \notin Callers \X (1..MaxCalls)

VARIABLES
    cursor,      \* the step of the key cached in entry.keys
    inMap,       \* the promise in state.ratchetPromises
    loops,       \* what became of the retry loop of each call
    call,        \* the call each caller is in
    waiters,     \* callers suspended on a promise, the longest first
    result       \* history: how the last call of each caller ended

vars == <<cursor, inMap, loops, call, waiters, result>>

Promise == Callers \X (1..MaxCalls)
Wanted == (0..MaxStep) \cup {Garbage}

\* key: the step tried in step 0, or the one a retry loop started from.
Call == [pc : {"idle", "step0", "inFlight", "retry0", "afterAwait", "loop"},
         n : 0..MaxCalls, want : Wanted, key : Nat, step : Nat,
         inFlight : Promise \cup {NoPromise}, awaits : Promise \cup {NoPromise}]

RatchetTypeOK ==
    /\ cursor \in Nat
    /\ inMap \in Promise \cup {NoPromise}
    /\ loops \in [Promise -> {"none", "running", "opened", "failed"}]
    /\ call \in [Callers -> Call]
    /\ \A c \in Callers : call[c].pc \in {"inFlight", "afterAwait"} => call[c].awaits # NoPromise
    /\ waiters \in Seq(Callers)
    /\ result \in [Callers -> {"none", "own", "other", "failed"}]

Init ==
    /\ cursor = 0
    /\ inMap = NoPromise
    /\ loops = [p \in Promise |-> "none"]
    /\ call = [c \in Callers |-> [pc |-> "idle", n |-> 0, want |-> Garbage, key |-> 0, step |-> 0,
                                  inFlight |-> NoPromise, awaits |-> NoPromise]]
    /\ waiters = <<>>
    /\ result = [c \in Callers |-> "none"]

\* A microtask is pending: some caller waits on a promise that has settled.
Ready(c) ==
    /\ call[c].pc \in {"inFlight", "afterAwait"}
    /\ loops[call[c].awaits] # "running"
Task == \A c \in Callers : ~Ready(c)
NextWaiter(c) ==
    /\ Ready(c)
    /\ c = SelectSeq(waiters, Ready)[1]

-----------------------------------------------------------------------------
(***************************************************************************)
(* How a call moves on; each leaves the call suspended or ended.           *)
(***************************************************************************)
Return(c, how) ==
    /\ call' = [call EXCEPT ![c] = [@ EXCEPT !.pc = "idle", !.inFlight = NoPromise,
                                             !.awaits = NoPromise, !.key = 0, !.step = 0]]
    /\ result' = [result EXCEPT ![c] = how]

StartLoop(c) ==
    /\ call' = [call EXCEPT ![c] = [@ EXCEPT !.pc = "loop", !.key = cursor, !.step = 1,
                                             !.awaits = NoPromise]]
    /\ inMap' = <<c, call[c].n>>
    /\ loops' = [loops EXCEPT ![<<c, call[c].n>>] = "running"]
    /\ UNCHANGED <<cursor, result>>

Await(c, pc) ==
    /\ call' = [call EXCEPT ![c] = [@ EXCEPT !.pc = pc, !.awaits = inMap,
                                             !.inFlight = IF pc = "inFlight" THEN inMap
                                                          ELSE call[c].inFlight]]
    /\ UNCHANGED <<cursor, inMap, loops, result>>

AfterAwaitUnchecked(c) == StartLoop(c)
AfterAwaitWithoutNullCheck(c) ==
    IF inMap # call[c].inFlight THEN Await(c, "afterAwait") ELSE StartLoop(c)

\* The re-check of the map before a loop of its own.
AfterAwait(c) ==
    IF inMap # NoPromise /\ inMap # call[c].inFlight
      THEN Await(c, "afterAwait")
      ELSE StartLoop(c)

-----------------------------------------------------------------------------
\* A caller takes up a frame and tries the cached key.
Begin(c, want) ==
    /\ Task
    /\ call[c].pc = "idle" /\ call[c].n < MaxCalls
    /\ call' = [call EXCEPT ![c] = [@ EXCEPT !.pc = "step0", !.n = call[c].n + 1, !.want = want,
                                             !.key = cursor]]
    /\ UNCHANGED <<cursor, inMap, loops, waiters, result>>

Step0WithoutDedup(c) ==
    /\ Task
    /\ call[c].pc = "step0"
    /\ IF call[c].want = call[c].key
         THEN Return(c, "own") /\ UNCHANGED <<cursor, inMap, loops>>
         ELSE StartLoop(c)
    /\ UNCHANGED waiters

Step0(c) ==
    /\ Task
    /\ call[c].pc = "step0"
    /\ IF call[c].want = call[c].key
         THEN Return(c, "own") /\ UNCHANGED <<cursor, inMap, loops, waiters>>
       ELSE IF Window = 0
         THEN Return(c, "failed") /\ UNCHANGED <<cursor, inMap, loops, waiters>>
       ELSE IF inMap # NoPromise
         THEN Await(c, "inFlight") /\ waiters' = Append(waiters, c)
         ELSE StartLoop(c) /\ UNCHANGED waiters

\* A caller is among the waiters once at most.
Leaving(c) ==
    IF \E i \in DOMAIN waiters : waiters[i] = c
      THEN RemoveAt(waiters, CHOOSE i \in DOMAIN waiters : waiters[i] = c)
      ELSE waiters

Requeue(c) ==
    waiters' = IF call'[c].pc = "afterAwait" THEN Append(Leaving(c), c) ELSE Leaving(c)

\* The promise in flight has settled: after a success the cached key is tried
\* again, after a failure the call goes on to the re-check.
InFlight(c) ==
    /\ NextWaiter(c)
    /\ call[c].pc = "inFlight"
    /\ IF loops[call[c].awaits] = "opened"
         THEN /\ call' = [call EXCEPT ![c] = [@ EXCEPT !.pc = "retry0", !.key = cursor,
                                                      !.awaits = NoPromise]]
              /\ UNCHANGED <<cursor, inMap, loops, result>>
         ELSE AfterAwait(c)
    /\ Requeue(c)

Retry0(c) ==
    /\ Task
    /\ call[c].pc = "retry0"
    /\ IF call[c].want = call[c].key
         THEN Return(c, "own") /\ UNCHANGED <<cursor, inMap, loops>>
         ELSE AfterAwait(c)
    /\ Requeue(c)

\* The call returns what the other caller's promise resolved to.
Adopt(c) ==
    /\ NextWaiter(c)
    /\ call[c].pc = "afterAwait"
    /\ IF loops[call[c].awaits] = "opened"
         THEN Return(c, "other") /\ UNCHANGED <<cursor, inMap, loops>>
         ELSE StartLoop(c)
    /\ Requeue(c)

FinishDeletingOnSuccess(c, how) ==
    /\ loops' = [loops EXCEPT ![<<c, call[c].n>>] = how]
    /\ inMap' = IF how = "opened" THEN NoPromise ELSE inMap
    /\ Return(c, IF how = "opened" THEN "own" ELSE "failed")

\* The loop ends: its promise settles, and the owner's finally block takes
\* whatever promise is in the map out of it.
Finish(c, how) ==
    /\ loops' = [loops EXCEPT ![<<c, call[c].n>>] = how]
    /\ inMap' = NoPromise
    /\ Return(c, IF how = "opened" THEN "own" ELSE "failed")

Tried(c) == call[c].key + call[c].step

LoopRestarting(c) ==
    /\ Task
    /\ call[c].pc = "loop"
    /\ IF call[c].want = Tried(c)
         THEN cursor' = Tried(c) /\ Finish(c, "opened")
         ELSE /\ call' = [call EXCEPT ![c].step = IF @ = Window THEN 1 ELSE @ + 1]
              /\ UNCHANGED <<cursor, inMap, loops, result>>
    /\ UNCHANGED waiters

LoopAdvancing(c) ==
    /\ Task
    /\ call[c].pc = "loop"
    /\ IF call[c].want = Tried(c)
         THEN cursor' = Tried(c) /\ Finish(c, "opened")
       ELSE IF call[c].step = Window
         THEN cursor' = Tried(c) /\ Finish(c, "failed")
       ELSE /\ call' = [call EXCEPT ![c].step = @ + 1]
            /\ UNCHANGED <<cursor, inMap, loops, result>>
    /\ UNCHANGED waiters

\* One step of the retry loop: derive the next key and try it.
Loop(c) ==
    /\ Task
    /\ call[c].pc = "loop"
    /\ IF call[c].want = Tried(c)
         THEN cursor' = Tried(c) /\ Finish(c, "opened")
       ELSE IF call[c].step = Window
         THEN UNCHANGED cursor /\ Finish(c, "failed")
       ELSE /\ call' = [call EXCEPT ![c].step = @ + 1]
            /\ UNCHANGED <<cursor, inMap, loops, result>>
    /\ UNCHANGED waiters

Next ==
    \E c \in Callers :
        \/ \E want \in Wanted : Begin(c, want)
        \/ Step0(c)
        \/ InFlight(c)
        \/ Retry0(c)
        \/ Adopt(c)
        \/ Loop(c)

Spec == Init /\ [][Next]_vars

\* WebCrypto answers and the event loop runs; frames need not come.
FairSpec ==
    /\ Spec
    /\ \A c \in Callers :
          WF_vars(Step0(c) \/ InFlight(c) \/ Retry0(c) \/ Adopt(c) \/ Loop(c))

-----------------------------------------------------------------------------
(***************************************************************************)
(* Properties                                                              *)
(***************************************************************************)

\* Two callers never run two retry loops at a time, whatever frames they take
\* up while the other is suspended (the dedup of ratchetPromises).
SingleLoop == Cardinality({c \in Callers : call[c].pc = "loop"}) <= 1

\* The cached key only moves forward, so a slower caller never takes back what
\* a faster one found (entry.keys.set at the end of a retry loop).
CursorForward == [][cursor' >= cursor]_vars

\* The cached key is one that opened a frame of the sender: neither frames that
\* fail nor callers that race push it past the furthest step the sender used.
NoOvershoot == cursor <= MaxStep

\* A promise in the map is that of a loop still running, so no caller waits on
\* or adopts the outcome of a loop of the past (the finally block).
NoStalePromise == inMap # NoPromise => loops[inMap] = "running"

\* Every call ends, whatever waits on whatever.
CallsReturn == \A c \in Callers : call[c].pc # "idle" ~> call[c].pc = "idle"

(***************************************************************************)
(* The inductive invariants of the proofs.                                 *)
(***************************************************************************)

\* A promise is running exactly while its owner is in the loop of that call, a
\* call that has not looped yet has not settled one, and one in the map runs.
LoopInv ==
    /\ NoStalePromise
    /\ \A c \in Callers, m \in 1..MaxCalls :
          /\ loops[<<c, m>>] = "running" <=> call[c].pc = "loop" /\ call[c].n = m
          /\ m > call[c].n => loops[<<c, m>>] = "none"
          /\ m = call[c].n /\ call[c].pc \in {"step0", "inFlight", "retry0", "afterAwait"} =>
                loops[<<c, m>>] = "none"
    /\ \A c \in Callers :
          /\ call[c].pc # "idle" => call[c].n >= 1
          /\ call[c].pc = "loop" => call[c].step >= 1

\* No more than two callers decrypt frames of the sender in the epoch.
TwoCallers == \A a, b, c \in Callers : a = b \/ b = c \/ a = c

\* With two callers the loop that runs owns the entry of the map, nobody moves
\* the key under it, and a caller that waits finds the owner of the promise still
\* in its loop or just back from it; the promise it waited for first is settled
\* when it looks at the map again.
PairInv ==
    \A c \in Callers :
        /\ call[c].pc = "loop" => inMap = <<c, call[c].n>> /\ call[c].key = cursor
        /\ call[c].pc \in {"inFlight", "afterAwait"} =>
              /\ call[c].awaits \in Promise
              /\ call[c].awaits[1] # c
              /\ loops[call[c].awaits] # "none"
              /\ loops[call[c].awaits] # "running" => call[call[c].awaits[1]].pc = "idle"
        /\ call[c].pc = "inFlight" => call[c].inFlight = call[c].awaits
        /\ call[c].pc \in {"retry0", "afterAwait"} =>
              /\ call[c].inFlight \in Promise
              /\ loops[call[c].inFlight] \in {"opened", "failed"}

\* A call returns the plaintext of its own frame.
OwnPlaintext == \A c \in Callers : result[c] # "other"
=============================================================================
