-------------------------- MODULE WorkerStateProofs --------------------------
(***************************************************************************)
(* What holds of WorkerState for every set of epochs, peers, chain keys    *)
(* and encoding pipes, and for every bound.                                *)
(***************************************************************************)
EXTENDS WorkerState, TLAPS

(***************************************************************************)
(* Every handler, timer and encoding step keeps the state of the worker    *)
(* within its types.                                                       *)
(***************************************************************************)
LEMMA TypeStep == TypeOK /\ [Next]_stateVars => TypeOK'
<1> SUFFICES ASSUME TypeOK, [Next]_stateVars
             PROVE  TypeOK'
    OBVIOUS
<1> USE EpochsAssumption DEF TypeOK
<1>1. ASSUME NEW e \in Epochs, NEW self \in Peers, NEW chain \in Chains,
             NEW peers \in SUBSET Peers, installEpoch(e, self, chain, peers)
      PROVE  TypeOK'
    <2>1. epochs' \in [Epochs -> Entry \cup {NoEntry}]
        BY <1>1 DEF installEpoch, Entry
    <2>2. /\ currentEpoch' \in Epochs \cup {-1}
          /\ ctr' \in Nat
          /\ wipeTimers' \subseteq Epochs
        <3>1. CASE e > currentEpoch
            <4>1. /\ currentEpoch' = e
                  /\ ctr' = 0
                  /\ wipeTimers' = scheduleWipeOfEpochsBelow(e)
                BY <1>1, <3>1 DEF installEpoch
            <4> QED
                BY <4>1 DEF scheduleWipeOfEpochsBelow
        <3>2. CASE ~(e > currentEpoch)
            BY <1>1, <3>2 DEF installEpoch
        <3> QED
            BY <3>1, <3>2
    <2> QED
        BY <1>1, <2>1, <2>2 DEF installEpoch
<1>2. ASSUME NEW e \in Epochs, wipeTimerFires(e)
      PROVE  TypeOK'
    BY <1>2 DEF wipeTimerFires, wipeEpoch, sendVars
<1>3. CASE TeardownMessage
    BY <1>3 DEF TeardownMessage, teardown
<1>4. ASSUME NEW p \in EncodePipes, encodeStart(p)
      PROVE  TypeOK'
    <2>1. NextNonce \in Nonce
        BY <1>4 DEF encodeStart, CanEncode, HasKey, Installed, NextNonce, Nonce, Entry
    <2> QED
        BY <1>4, <2>1 DEF encodeStart, keyVars
<1>5. ASSUME NEW p \in EncodePipes, encodeDone(p)
      PROVE  TypeOK'
    BY <1>5 DEF encodeDone, keyVars
<1>6. ASSUME NEW p \in EncodePipes, encodeFail(p)
      PROVE  TypeOK'
    BY <1>6 DEF encodeFail, keyVars
<1>7. CASE UNCHANGED stateVars
    BY <1>7 DEF stateVars, keyVars, sendVars
<1> QED
    BY <1>1, <1>2, <1>3, <1>4, <1>5, <1>6, <1>7 DEF Next, EpochMessage, WipeTimer, Encode

(***************************************************************************)
(* The worker's state always has its types (createWorkerState and every    *)
(* handler of worker-state.ts, encodeFrame).                               *)
(***************************************************************************)
THEOREM TypeCorrect == Spec => []TypeOK
<1>1. Init => TypeOK
    BY DEF Init, TypeOK
<1> QED
    BY <1>1, TypeStep, PTL DEF Spec

-----------------------------------------------------------------------------
(***************************************************************************)
(* Timers, installed epochs and the gate stay below the current epoch.     *)
(***************************************************************************)
LEMMA EpochStep == TypeOK /\ EpochInv /\ [Next]_stateVars => EpochInv'
<1> SUFFICES ASSUME TypeOK, EpochInv, [Next]_stateVars
             PROVE  EpochInv'
    OBVIOUS
<1> USE EpochsAssumption DEF TypeOK, EpochInv, Installed
<1>1. ASSUME NEW e \in Epochs, NEW self \in Peers, NEW chain \in Chains,
             NEW peers \in SUBSET Peers, installEpoch(e, self, chain, peers)
      PROVE  EpochInv'
    <2> DEFINE entry == [selfPeerIndex |-> self, chain |-> chain, peers |-> peers]
    <2>1. entry # NoEntry
        BY NoEntryAssumption
    <2>2. CASE e > currentEpoch
        <3>1. /\ currentEpoch' = e
              /\ wipeTimers' = wipeTimers \cup {f \in Epochs : Installed(f) /\ f < e}
              /\ minValid' = minValid
              /\ epochs' = [epochs EXCEPT ![e] = entry]
            BY <1>1, <2>2 DEF installEpoch, scheduleWipeOfEpochsBelow
        <3> QED
            BY <2>1, <2>2, <3>1
    <2>3. CASE ~(e > currentEpoch)
        <3>1. /\ UNCHANGED <<currentEpoch, wipeTimers, minValid>>
              /\ epochs' = [epochs EXCEPT ![e] = entry]
            BY <1>1, <2>3 DEF installEpoch
        <3> QED
            BY <2>1, <2>3, <3>1
    <2> QED
        BY <2>2, <2>3
<1>2. ASSUME NEW e \in Epochs, wipeTimerFires(e)
      PROVE  EpochInv'
    BY <1>2 DEF wipeTimerFires, wipeEpoch
<1>3. CASE TeardownMessage
    BY <1>3 DEF TeardownMessage, teardown
<1>4. ASSUME NEW p \in EncodePipes, encodeStart(p) \/ encodeDone(p) \/ encodeFail(p)
      PROVE  EpochInv'
    BY <1>4 DEF encodeStart, encodeDone, encodeFail, keyVars
<1>5. CASE UNCHANGED stateVars
    BY <1>5 DEF stateVars, keyVars
<1> QED
    BY <1>1, <1>2, <1>3, <1>4, <1>5 DEF Next, EpochMessage, WipeTimer, Encode

LEMMA EpochInvariant == Spec => []EpochInv
<1>1. Init => EpochInv
    BY DEF Init, EpochInv, Installed
<1> QED
    BY <1>1, EpochStep, TypeCorrect, PTL DEF Spec

(***************************************************************************)
(* No interleaving of epoch messages, grace timers and teardowns makes the *)
(* worker lose the epoch it works under (installEpoch, wipeEpoch).         *)
(***************************************************************************)
THEOREM CurrentEpochIsKept == Spec => []CurrentEpochSurvives
<1>1. TypeOK /\ EpochInv => CurrentEpochSurvives
    BY EpochsAssumption DEF TypeOK, EpochInv, CurrentEpochSurvives
<1> QED
    BY <1>1, TypeCorrect, EpochInvariant, PTL

-----------------------------------------------------------------------------
\* The epoch of a nonce is a number.
LEMMA NonceEpochIsInt == \A n \in Nonce : n.epoch \in Int
<1> SUFFICES ASSUME NEW n \in Nonce PROVE n.epoch \in Int
    OBVIOUS
<1>1. n.epoch \in Epochs
    BY DEF Nonce
<1>2. Epochs \subseteq Int
    BY EpochsAssumption
<1> QED
    BY ONLY <1>1, <1>2

(***************************************************************************)
(* Every nonce in flight or sent stays behind the counter.                 *)
(***************************************************************************)
LEMMA NonceStep == TypeOK /\ NonceInv /\ [Next]_stateVars => NonceInv'
<1> SUFFICES ASSUME TypeOK, NonceInv, [Next]_stateVars
             PROVE  NonceInv'
    OBVIOUS
<1> USE EpochsAssumption DEF TypeOK, NonceInv, NonceUniqueInSession, Nonce
<1>1. ASSUME NEW e \in Epochs, NEW self \in Peers, NEW chain \in Chains,
             NEW peers \in SUBSET Peers, installEpoch(e, self, chain, peers)
      PROVE  NonceInv'
    <2>1. UNCHANGED <<sealing, wire, session>>
        BY <1>1 DEF installEpoch
    <2>2. ASSUME NEW n \in Nonce, Behind(n)
          PROVE  Behind(n)'
        <3>1. CASE e > currentEpoch
            <4>1. currentEpoch' = e
                BY <1>1, <3>1 DEF installEpoch
            <4>2. n.epoch \in Int /\ e \in Int /\ currentEpoch \in Int
                <5>1. e \in Int /\ currentEpoch \in Int
                    OBVIOUS
                <5> QED
                    BY <5>1, NonceEpochIsInt
            <4>3. n.session = session => n.epoch <= currentEpoch
                BY <2>2, <4>2 DEF Behind
            <4> QED
                BY <2>1, <2>2, <3>1, <4>1, <4>2, <4>3 DEF Behind
        <3>2. CASE ~(e > currentEpoch)
            BY <1>1, <2>1, <2>2, <3>2 DEF installEpoch, Behind
        <3> QED
            BY <3>1, <3>2
    <2> QED
        BY <2>1, <2>2
<1>2. ASSUME NEW e \in Epochs, wipeTimerFires(e)
      PROVE  NonceInv'
    BY <1>2 DEF wipeTimerFires, wipeEpoch, sendVars, Behind
<1>3. CASE TeardownMessage
    BY <1>3 DEF TeardownMessage, teardown, Behind
<1>4. ASSUME NEW p \in EncodePipes, encodeStart(p)
      PROVE  NonceInv'
    <2>1. NextNonce \in Nonce
        BY <1>4 DEF encodeStart, CanEncode, HasKey, Installed, NextNonce, Entry
    <2>2. PICK new \in Nonce : new = NextNonce
        BY <2>1
    <2>3. /\ new.session = session
          /\ new.epoch = currentEpoch
          /\ new.ctr = ctr
          /\ new # Idle
        BY <2>2, IdleAssumption DEF NextNonce
    <2>4. /\ sealing' = [sealing EXCEPT ![p] = new]
          /\ ctr' = ctr + 1
          /\ UNCHANGED <<currentEpoch, wire, session>>
          /\ sealing[p] = Idle
        BY <1>4, <2>2 DEF encodeStart, keyVars
    <2>5. ASSUME NEW n \in Nonce, Behind(n)
          PROVE  n # new /\ Behind(n)'
        BY <2>3, <2>4, <2>5 DEF Behind
    <2>6. Behind(new)'
        BY <2>3, <2>4 DEF Behind
    <2> QED
        BY <2>3, <2>4, <2>5, <2>6
<1>5. ASSUME NEW p \in EncodePipes, encodeDone(p)
      PROVE  NonceInv'
    BY <1>5, IdleAssumption DEF encodeDone, keyVars, Behind
<1>6. ASSUME NEW p \in EncodePipes, encodeFail(p)
      PROVE  NonceInv'
    BY <1>6, IdleAssumption DEF encodeFail, keyVars, Behind
<1>7. CASE UNCHANGED stateVars
    BY <1>7 DEF stateVars, keyVars, sendVars, Behind
<1> QED
    BY <1>1, <1>2, <1>3, <1>4, <1>5, <1>6, <1>7 DEF Next, EpochMessage, WipeTimer, Encode

(***************************************************************************)
(* Within a session no key and counter are used twice: encodeFrame takes   *)
(* and advances the counter before it is suspended, and installEpoch       *)
(* restarts it only for an epoch above every earlier one.                  *)
(***************************************************************************)
THEOREM NoncesAreUnique == Spec => []NonceUniqueInSession
<1>1. Init => NonceInv
    BY DEF Init, NonceInv, NonceUniqueInSession
<1>2. NonceInv => NonceUniqueInSession
    BY DEF NonceInv
<1> QED
    BY <1>1, <1>2, NonceStep, TypeCorrect, PTL DEF Spec
=============================================================================
