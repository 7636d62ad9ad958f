------------------------------- MODULE MlsChat ------------------------------
(***************************************************************************)
(* createMlsChatProvider (src/src/chat/mls.ts) in several tabs of one      *)
(* user, over the counter of CtrAllocator: setEpoch, seal, unseal,         *)
(* clearEpoch and dispose for one room and one sender, with the monotonic  *)
(* counter and without the durable guard (which is in ChatReplay).         *)
(*                                                                         *)
(* setEpoch is suspended while the sender keys are derived, seal in        *)
(* allocator.next() and then in the encryption, unseal in the decryption.  *)
(* Any message sealed so far may be delivered to any tab, at any time and  *)
(* any number of times.                                                    *)
(***************************************************************************)
EXTENDS CtrAllocator, ReplayWindow, FiniteSetsExt

CONSTANTS
    MlsEpochs,   \* epochs of the MLS group
    NoEpoch,     \* a room without epoch material, a call without a key
    Readers,     \* pages that unseal messages
    OpenSlots,   \* unseal calls a page has open at a time
    NoMessage,   \* an unseal slot that is free
    WindowSize,  \* replayWindow
    MaxSetEpochs \* bound on the calls of setEpoch

ASSUME MlsAssumption ==
    MlsEpochs \subseteq Nat /\ NoEpoch \notin MlsEpochs /\ Readers \subseteq Tabs

\* Each page, call and epoch is one of finitely many.
ASSUME FiniteAssumption == IsFiniteSet(Calls) /\ IsFiniteSet(MlsEpochs) /\ MaxCtr \in Nat

Opens == Readers \X OpenSlots
Counters == 0 .. MaxCtr + Cardinality(Calls)
Nonces == MlsEpochs \X Counters

VARIABLES
    room,       \* roomEpochs of each page: the epoch whose keys it holds
    deriving,   \* the epochs whose setEpoch is suspended
    window,     \* replayWindows of each page
    held,       \* the epoch of the key a seal call took
    opening,    \* the message each unseal call is suspended on
    sealed,     \* how many messages were sealed under each key and counter
    opened,     \* history: messages recorded since the epoch was installed
    asked,      \* the last epoch the page called setEpoch with
    setEpochs   \* history: the calls of setEpoch

roomVars == <<room, deriving, window, opened, asked, setEpochs>>
chatVars == <<roomVars, held, opening, sealed>>
vars == <<ctrVars, chatVars>>

Init ==
    /\ CtrInit
    /\ room = [t \in Tabs |-> NoEpoch]
    /\ deriving = [t \in Tabs |-> {}]
    /\ window = [t \in Tabs |-> newWindow(WindowSize)]
    /\ held = [c \in Calls |-> NoEpoch]
    /\ opening = [o \in Opens |-> NoMessage]
    /\ sealed = [n \in Nonces |-> 0]
    /\ opened = [t \in Tabs |-> {}]
    /\ asked = [t \in Tabs |-> NoEpoch]
    /\ setEpochs = 0

-----------------------------------------------------------------------------
(***************************************************************************)
(* setEpoch.  The group moves forward, so a page asks for its epochs in    *)
(* order, perhaps for one twice, and need not await one before the next.   *)
(***************************************************************************)
setEpoch(t, e) ==
    /\ setEpochs < MaxSetEpochs
    /\ asked[t] # NoEpoch => asked[t] <= e
    /\ e \notin deriving[t]
    /\ deriving' = [deriving EXCEPT ![t] = @ \cup {e}]
    /\ asked' = [asked EXCEPT ![t] = e]
    /\ setEpochs' = setEpochs + 1
    /\ UNCHANGED <<ctrVars, room, window, opened, held, opening, sealed>>

\* The page's windows are dropped from the map; unseal calls keep theirs.
DropWindows(t) ==
    /\ window' = [window EXCEPT ![t] = newWindow(WindowSize)]
    /\ opening' = [o \in Opens |->
          IF o[1] = t /\ opening[o] # NoMessage
            THEN [opening[o] EXCEPT !.live = FALSE] ELSE opening[o]]
    /\ opened' = [opened EXCEPT ![t] = {}]

\* The derivation is done: the epoch is installed, whatever is there by now.
install(t, e) ==
    /\ e \in deriving[t]
    /\ deriving' = [deriving EXCEPT ![t] = @ \ {e}]
    /\ room' = [room EXCEPT ![t] = e]
    /\ DropWindows(t)
    /\ UNCHANGED <<ctrVars, asked, setEpochs, held, sealed>>

deriveFails(t, e) ==
    /\ e \in deriving[t]
    /\ deriving' = [deriving EXCEPT ![t] = @ \ {e}]
    /\ UNCHANGED <<ctrVars, room, window, opened, asked, setEpochs, held, opening, sealed>>

\* clearEpoch and dispose: suspended calls of setEpoch install all the same.
clearEpoch(t) ==
    /\ room[t] # NoEpoch
    /\ room' = [room EXCEPT ![t] = NoEpoch]
    /\ DropWindows(t)
    /\ UNCHANGED <<ctrVars, deriving, asked, setEpochs, held, sealed>>

-----------------------------------------------------------------------------
(***************************************************************************)
(* seal: the key is taken before the counter.                              *)
(***************************************************************************)
seal(c) ==
    /\ room[c[1]] # NoEpoch
    /\ nextCtr(c)
    /\ held' = [held EXCEPT ![c] = room[c[1]]]
    /\ UNCHANGED <<roomVars, opening, sealed>>

\* A call of next() that was rejected takes the seal with it.
Rejected == held' = [c \in Calls |-> IF at'[c] = "idle" THEN NoEpoch ELSE held[c]]

allocate ==
    /\ Progress
    /\ Rejected
    /\ UNCHANGED <<roomVars, opening, sealed>>

sframeEncrypt(c) ==
    /\ Taken(c)
    /\ sealed' = [sealed EXCEPT ![<<held[c], got[c]>>] = @ + 1]
    /\ held' = [held EXCEPT ![c] = NoEpoch]
    /\ UNCHANGED <<roomVars, opening>>

encryptFails(c) ==
    /\ Taken(c)
    /\ held' = [held EXCEPT ![c] = NoEpoch]
    /\ UNCHANGED <<roomVars, opening, sealed>>

-----------------------------------------------------------------------------
(***************************************************************************)
(* unseal: the epoch of the header must be the room's, the window is       *)
(* checked before the decryption and written after it.                     *)
(***************************************************************************)
unseal(o, n) ==
    /\ opening[o] = NoMessage
    /\ sealed[n] > 0
    /\ room[o[1]] = n[1]
    /\ check(window[o[1]], n[2])
    /\ opening' = [opening EXCEPT ![o] =
          [nonce |-> n, live |-> TRUE, replay |-> n \in opened[o[1]]]]
    /\ UNCHANGED <<ctrVars, roomVars, held, sealed>>

\* A mutant: the counter is not recorded.
decryptDoneUnrecorded(o) ==
    /\ opening[o] # NoMessage
    /\ opening' = [opening EXCEPT ![o] = NoMessage]
    /\ opened' = [opened EXCEPT ![o[1]] = IF opening[o].live THEN @ \cup {opening[o].nonce} ELSE @]
    /\ UNCHANGED <<ctrVars, room, deriving, window, asked, setEpochs, held, sealed>>

\* The window is the one the call began with, which may be off the map.
decryptDone(o) ==
    /\ opening[o] # NoMessage
    /\ opening' = [opening EXCEPT ![o] = NoMessage]
    /\ IF opening[o].live
         THEN /\ window' = [window EXCEPT ![o[1]] = accept(@, opening[o].nonce[2])]
              /\ opened' = [opened EXCEPT ![o[1]] = @ \cup {opening[o].nonce}]
         ELSE UNCHANGED <<window, opened>>
    /\ UNCHANGED <<ctrVars, room, deriving, asked, setEpochs, held, sealed>>

decryptFails(o) ==
    /\ opening[o] # NoMessage
    /\ opening' = [opening EXCEPT ![o] = NoMessage]
    /\ UNCHANGED <<ctrVars, roomVars, held, sealed>>

reloadPage(t) ==
    /\ reload(t)
    /\ room' = [room EXCEPT ![t] = NoEpoch]
    /\ deriving' = [deriving EXCEPT ![t] = {}]
    /\ window' = [window EXCEPT ![t] = newWindow(WindowSize)]
    /\ opened' = [opened EXCEPT ![t] = {}]
    /\ asked' = [asked EXCEPT ![t] = NoEpoch]
    /\ held' = [c \in Calls |-> IF c[1] = t THEN NoEpoch ELSE held[c]]
    /\ opening' = [o \in Opens |-> IF o[1] = t THEN NoMessage ELSE opening[o]]
    /\ UNCHANGED <<setEpochs, sealed>>

Room ==
    \E t \in Tabs :
        \/ clearEpoch(t)
        \/ \E e \in MlsEpochs : setEpoch(t, e) \/ install(t, e) \/ deriveFails(t, e)
Seal == \E c \in Calls : seal(c) \/ sframeEncrypt(c) \/ encryptFails(c)
Unseal ==
    \E o \in Opens :
        \/ decryptDone(o) \/ decryptFails(o)
        \/ \E n \in Nonces : unseal(o, n)

Next == Room \/ Seal \/ allocate \/ Unseal \/ \E t \in Tabs : reloadPage(t)

Spec == Init /\ [][Next]_vars

-----------------------------------------------------------------------------
(***************************************************************************)
(* Properties                                                              *)
(***************************************************************************)

\* However the seal calls of all tabs interleave with each other, with new and
\* repeated epochs, with failures and reloads, and with or without Web Locks,
\* two messages share a key and a counter only where IndexedDB lost a
\* transaction after its put, one reuse for one loss (atomicIncrement resolves
\* on the success of the put).
Excess == [n \in Nonces |-> IF sealed[n] > 1 THEN sealed[n] - 1 ELSE 0]
Reuses == MapThenSumSet(LAMBDA n : Excess[n], Nonces)
NonceReuseBounded == Reuses <= aborts

\* The allocator is a counter as its callers know it (UniqueCounter): tabs,
\* locks, transactions and reloads do not show (MonotonicIdbCtrAllocator.next).
CounterImplemented == Counter!CounterSpec

\* A message whose counter was recorded is not opened again by a later unseal
\* of the page while the epoch stays installed, also with calls under way that
\* began under another installation (unseal checks before and writes after the
\* decryption, setEpoch and clearEpoch drop the windows in between).
OpenedOnce ==
    \A o \in Opens : opening[o] # NoMessage /\ opening[o].live => ~opening[o].replay

\* No seal waits for something that cannot come: a call in front of the lock is
\* in its queue, the holder of the lock is in a transaction or about to create
\* one, and a call in a transaction has one that is still to answer, whatever
\* requests failed and pages went away (next awaits the database, the lock and
\* the transaction).
EverySealCanEnd ==
    /\ \A c \in Calls :
          /\ at[c] = "db" => db[c[1]] # "none"
          /\ at[c] = "lock" => \E i \in DOMAIN lockQueue : lockQueue[i] = c
          /\ at[c] = "tx" => \E i \in DOMAIN txs : txs[i].call = c /\ ~txs[i].put
    /\ lockQueue # <<>> => at[Head(lockQueue)] \in {"lock", "tx"}

\* The case without a lost transaction: no message shares a key and a counter
\* with another.
NoReuseWithoutLoss == aborts = 0 => \A n \in Nonces : sealed[n] <= 1

(***************************************************************************)
(* The inductive invariants of the proofs.                                 *)
(***************************************************************************)

\* As long as no transaction is lost: what is sealed, or granted to a call, is
\* behind the counter, no two calls hold one grant, and none is sealed yet.
ReuseInv ==
    /\ sealed \in [Nonces -> Nat]
    /\ aborts = 0 =>
          /\ \A n \in Nonces : sealed[n] <= 1 /\ (sealed[n] > 0 => n[2] < Upcoming)
          /\ \A c \in Calls :
                got[c] # NoCtr =>
                    /\ got[c] < Upcoming
                    /\ \A n \in Nonces : n[2] = got[c] => sealed[n] = 0
                    /\ \A d \in Calls : d # c => got[d] # got[c]

\* With losses: a counter that was granted once more than the allocator still
\* counts, to calls that hold it or to messages, is owed one reuse at most, and
\* for every reuse made or owed a transaction was lost.
Holders(v) == Cardinality({c \in Calls : got[c] = v})
Used(v) == IF \E n \in Nonces : n[2] = v /\ sealed[n] > 0 THEN 1 ELSE 0
Given(v) == IF v < Upcoming THEN 1 ELSE 0
Owed == [v \in Counters |->
    IF Holders(v) + Used(v) > Given(v) THEN Holders(v) + Used(v) - Given(v) ELSE 0]
LossInv ==
    /\ sealed \in [Nonces -> Nat]
    /\ Reuses + MapThenSumSet(LAMBDA v : Owed[v], Counters) <= aborts

\* A replay window with room for every counter that can be granted.
WindowCoversCounters ==
    /\ IsFiniteSet(Calls) /\ MaxCtr \in Nat /\ WindowSize \in Nat
    /\ MaxCtr + Cardinality(Calls) < WindowSize

\* The window a page checks holds every counter it recorded.
WindowInv ==
    /\ window \in [Tabs -> [windowSize : Nat, seen : SUBSET Counters, queue : Seq(Counters)]]
    /\ opened \in [Tabs -> SUBSET Nonces]
    /\ opening \in [Opens -> [nonce : Nonces, live : BOOLEAN, replay : BOOLEAN]
                             \cup {NoMessage}]
    /\ \A t \in Tabs :
          /\ window[t].windowSize = WindowSize
          /\ Len(window[t].queue) = Cardinality(window[t].seen)
          /\ \A n \in opened[t] : n[2] \in window[t].seen
=============================================================================
