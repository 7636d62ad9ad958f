---------------------------- MODULE WorkerState ----------------------------
(***************************************************************************)
(* The key state of one SFrame worker (src/src/worker-state.ts) and the    *)
(* sending path that draws on it (encodeFrame in src/src/worker-frame.ts). *)
(*                                                                         *)
(* The worker receives `epoch' and `rotate' messages from the main thread, *)
(* keeps the superseded epochs for a grace period and wipes each from a    *)
(* timer of its own, and seals outgoing frames under the current epoch     *)
(* with one counter for all of the sender's streams.  A message handler    *)
(* and a timer callback run to completion; encodeFrame is suspended while  *)
(* WebCrypto seals, so the encoding pipes interleave there.                *)
(***************************************************************************)
EXTENDS Integers, FiniteSets

CONSTANTS
    Epochs,      \* epoch numbers the main thread may install
    Peers,       \* peer indices
    Chains,      \* chain keys: (epoch, chain, peer) determines a sender key
    EncodePipes, \* encoding transforms attached to the worker
    NoEntry,     \* what Map.get returns for an epoch that is not installed
    Idle,        \* an encoding pipe with no frame in hand
    MaxSessions, \* bound on teardowns
    MaxCtr,      \* bound on the frames sealed per epoch
    MaxWire      \* bound on the frames sent

ASSUME EpochsAssumption == Epochs \subseteq Nat
ASSUME NoEntryAssumption == NoEntry \notin [selfPeerIndex : Peers, chain : Chains,
                                            peers : SUBSET Peers]
ASSUME IdleAssumption == Idle \notin [session : Nat, epoch : Epochs, chain : Chains,
                                      peer : Peers, ctr : Nat]
ASSUME BoundsAssumption == MaxSessions \in Nat /\ MaxCtr \in Nat /\ MaxWire \in Nat

VARIABLES
    epochs,        \* state.epochs
    currentEpoch,  \* state.currentEpoch
    minValid,      \* state.currentMinValidEpoch
    ctr,           \* state.ctr
    wipeTimers,    \* the epochs in state.wipeTimers
    sealing,       \* the frame each encoding pipe is suspended on
    wire,          \* history: the nonces of the frames sent
    session        \* history: the number of teardowns so far

keyVars == <<epochs, currentEpoch, minValid, wipeTimers>>
sendVars == <<ctr, sealing, wire>>
stateVars == <<keyVars, sendVars, session>>

Entry == [selfPeerIndex : Peers, chain : Chains, peers : SUBSET Peers]
Nonce == [session : Nat, epoch : Epochs, chain : Chains, peer : Peers, ctr : Nat]

TypeOK ==
    /\ epochs \in [Epochs -> Entry \cup {NoEntry}]
    /\ currentEpoch \in Epochs \cup {-1}
    /\ minValid \in Nat
    /\ ctr \in Nat
    /\ wipeTimers \subseteq Epochs
    /\ sealing \in [EncodePipes -> Nonce \cup {Idle}]
    /\ wire \subseteq Nonce
    /\ session \in Nat

\* createWorkerState
Init ==
    /\ epochs = [e \in Epochs |-> NoEntry]
    /\ currentEpoch = -1
    /\ minValid = 0
    /\ ctr = 0
    /\ wipeTimers = {}
    /\ sealing = [p \in EncodePipes |-> Idle]
    /\ wire = {}
    /\ session = 0

Installed(e) == epochs[e] # NoEntry
HasKey(e, p) == Installed(e) /\ p \in epochs[e].peers

(***************************************************************************)
(* Epoch messages.  The keys of the message replace whatever the epoch     *)
(* held; only an epoch above the current one becomes current, restarts the *)
(* counter and schedules the wipe of every installed epoch below it.       *)
(***************************************************************************)
scheduleWipeOfPrevious(newEpoch) == wipeTimers \cup {currentEpoch}
scheduleWipeBelowPrevious(newEpoch) ==
    wipeTimers \cup {e \in Epochs : Installed(e) /\ e < newEpoch - 1}

\* Timers already pending are kept: the first schedule decides.
scheduleWipeOfEpochsBelow(newEpoch) ==
    wipeTimers \cup {e \in Epochs : Installed(e) /\ e < newEpoch}

installEpochResettingCtr(e, self, chain, peers) ==
    /\ epochs' = [epochs EXCEPT ![e] = [selfPeerIndex |-> self, chain |-> chain,
                                        peers |-> peers]]
    /\ ctr' = 0
    /\ IF e > currentEpoch
         THEN /\ currentEpoch' = e
              /\ wipeTimers' = scheduleWipeOfEpochsBelow(e)
         ELSE UNCHANGED <<currentEpoch, wipeTimers>>
    /\ UNCHANGED <<minValid, sealing, wire, session>>

installEpochInOrderOfArrival(e, self, chain, peers) ==
    /\ epochs' = [epochs EXCEPT ![e] = [selfPeerIndex |-> self, chain |-> chain,
                                        peers |-> peers]]
    /\ currentEpoch' = e
    /\ ctr' = 0
    /\ wipeTimers' = scheduleWipeOfEpochsBelow(e)
    /\ UNCHANGED <<minValid, sealing, wire, session>>

installEpoch(e, self, chain, peers) ==
    /\ epochs' = [epochs EXCEPT ![e] = [selfPeerIndex |-> self, chain |-> chain,
                                        peers |-> peers]]
    /\ IF e > currentEpoch
         THEN /\ currentEpoch' = e
              /\ ctr' = 0
              /\ wipeTimers' = scheduleWipeOfEpochsBelow(e)
         ELSE UNCHANGED <<currentEpoch, ctr, wipeTimers>>
    /\ UNCHANGED <<minValid, sealing, wire, session>>

(***************************************************************************)
(* The grace timer of epoch e fires: its keys go and the gate moves past   *)
(* it.  (The 2 s of GRACE_WINDOW_MS are not measured: a pending timer may  *)
(* fire at any later point.)                                               *)
(***************************************************************************)
wipeEpoch(e) ==
    /\ epochs' = [epochs EXCEPT ![e] = NoEntry]
    /\ wipeTimers' = wipeTimers \ {e}
    /\ minValid' = IF e + 1 > minValid THEN e + 1 ELSE minValid
    /\ UNCHANGED <<currentEpoch, sendVars, session>>

wipeTimerFires(e) ==
    /\ e \in wipeTimers
    /\ wipeEpoch(e)

teardownKeepingTimers ==
    /\ epochs' = [e \in Epochs |-> NoEntry]
    /\ currentEpoch' = -1
    /\ minValid' = 0
    /\ ctr' = 0
    /\ session' = session + 1
    /\ UNCHANGED <<wipeTimers, sealing, wire>>

\* Pending timers are cleared, so none survives into the next session.  A
\* pipe suspended in encodeFrame keeps the key and the counter it holds.
teardown ==
    /\ epochs' = [e \in Epochs |-> NoEntry]
    /\ currentEpoch' = -1
    /\ minValid' = 0
    /\ ctr' = 0
    /\ wipeTimers' = {}
    /\ session' = session + 1
    /\ UNCHANGED <<sealing, wire>>

(***************************************************************************)
(* encodeFrame: the key and the counter are taken, and the counter         *)
(* advanced, before the pipe is suspended in WebCrypto.                    *)
(***************************************************************************)
CanEncode ==
    /\ currentEpoch # -1
    /\ HasKey(currentEpoch, epochs[currentEpoch].selfPeerIndex)

NextNonce ==
    [session |-> session, epoch |-> currentEpoch, chain |-> epochs[currentEpoch].chain,
     peer |-> epochs[currentEpoch].selfPeerIndex, ctr |-> ctr]

encodeStart(p) ==
    /\ sealing[p] = Idle
    /\ CanEncode
    /\ ctr < MaxCtr
    /\ sealing' = [sealing EXCEPT ![p] = NextNonce]
    /\ ctr' = ctr + 1
    /\ UNCHANGED <<keyVars, wire, session>>

\* Sealing succeeds and the pipe enqueues the frame ...
encodeDone(p) ==
    /\ sealing[p] # Idle
    /\ Cardinality(wire) < MaxWire
    /\ wire' = wire \cup {sealing[p]}
    /\ sealing' = [sealing EXCEPT ![p] = Idle]
    /\ UNCHANGED <<keyVars, ctr, session>>

\* ... or it throws: the pipe drops the frame and survives; its counter is spent.
encodeFail(p) ==
    /\ sealing[p] # Idle
    /\ sealing' = [sealing EXCEPT ![p] = Idle]
    /\ UNCHANGED <<keyVars, ctr, wire, session>>

\* FrameCryptor.setEpoch posts no message without a key for the sender itself.
EpochMessage ==
    \E e \in Epochs, self \in Peers, chain \in Chains, peers \in SUBSET Peers :
        /\ self \in peers
        /\ installEpoch(e, self, chain, peers)

WipeTimer == \E e \in Epochs : wipeTimerFires(e)

TeardownMessage == session < MaxSessions /\ teardown

Encode ==
    \E p \in EncodePipes : encodeStart(p) \/ encodeDone(p) \/ encodeFail(p)

Next == EpochMessage \/ WipeTimer \/ TeardownMessage \/ Encode

Spec == Init /\ [][Next]_stateVars

\* A timer that is set fires, unless teardown clears it: setTimeout.
FairSpec == Spec /\ \A e \in Epochs : WF_stateVars(wipeTimerFires(e))

-----------------------------------------------------------------------------
(***************************************************************************)
(* Properties                                                              *)
(***************************************************************************)

\* The epoch the worker sends under and opens new frames with is never lost
\* to a wipe: it is installed, no timer set for an earlier state is pending
\* against it and the stale-epoch gate is not past it.  Late, repeated and
\* out-of-order epoch messages, timers and teardowns all intervene
\* (installEpoch, scheduleWipeOfEpochsBelow, wipeEpoch, teardown).
CurrentEpochSurvives ==
    currentEpoch # -1 =>
        /\ Installed(currentEpoch)
        /\ currentEpoch \notin wipeTimers
        /\ minValid <= currentEpoch

\* No two frames of one session are sealed under one key and counter, however
\* the pipes of the sender interleave and however often an epoch message is
\* repeated (encodeFrame's read-then-increment, installEpoch's reset).
NonceUniqueInSession ==
    /\ \A p \in EncodePipes : sealing[p] # Idle => sealing[p] \notin wire
    /\ \A p, q \in EncodePipes : p # q /\ sealing[p] # Idle => sealing[p] # sealing[q]

\* An epoch that was current and is superseded is eventually wiped: its timer
\* is set when the next epoch is installed and fires (scheduleWipeOfEpochsBelow,
\* wipeEpoch).
SupersededIsWiped ==
    \A e \in Epochs :
        (currentEpoch = e) ~> (~Installed(e) \/ [](currentEpoch = e))

(***************************************************************************)
(* The inductive invariants of the proofs.                                 *)
(***************************************************************************)

\* Timers and installed epochs lie below the current epoch, so does the gate,
\* and a worker with no current epoch holds nothing.
EpochInv ==
    /\ currentEpoch # -1 => Installed(currentEpoch)
    /\ \A e \in Epochs : Installed(e) => e <= currentEpoch
    /\ \A e \in wipeTimers : e < currentEpoch
    /\ minValid = 0 \/ minValid <= currentEpoch

\* Every nonce of this session that is sent or in flight is behind the counter.
Behind(n) ==
    /\ n.session <= session
    /\ n.session = session =>
          n.epoch < currentEpoch \/ (n.epoch = currentEpoch /\ n.ctr < ctr)
NonceInv ==
    /\ \A n \in wire : Behind(n)
    /\ \A p \in EncodePipes : sealing[p] # Idle => Behind(sealing[p])
    /\ NonceUniqueInSession

\* What docs/SECURITY.md says of the initialisation vectors: no two frames the
\* sender ever sends share a key and a counter, across teardowns as well.
SameIv(m, n) == [m EXCEPT !.session = 0] = [n EXCEPT !.session = 0]
IvUniqueness ==
    \A m, n \in wire : SameIv(m, n) => m = n
=============================================================================
