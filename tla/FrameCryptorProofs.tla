------------------------- MODULE FrameCryptorProofs -------------------------
(***************************************************************************)
(* What holds of the main thread, the worker and the channels between them *)
(* for every set of endpoints, epochs, peers and chain keys, any number of *)
(* calls open at once and every bound.                                     *)
(***************************************************************************)
EXTENDS FrameCryptor, WorkerStateProofs, FiniteSetTheorems

(***************************************************************************)
(* Messages and calls.                                                     *)
(***************************************************************************)
Quiet == [type : {"init", "streams"}]
KeyMessage == {m \in WorkerMessage : m.type \in {"epoch", "rotate"}}

LEMMA MessageKinds ==
    ASSUME NEW m \in WorkerMessage
    PROVE  \/ m \in Quiet /\ m.type \in {"init", "streams"}
           \/ m.type = "teardown"
           \/ /\ m \in KeyMessage
              /\ m.type \in {"epoch", "rotate"}
              /\ m.epoch \in Epochs /\ m.self \in Peers /\ m.chain \in Chains
              /\ m.peers \in SUBSET Peers /\ m.self \in m.peers
BY DEF WorkerMessage, Quiet, KeyMessage

LEMMA MessageTypes ==
    /\ Quiet \subseteq WorkerMessage
    /\ KeyMessage \subseteq WorkerMessage
    /\ [type |-> "teardown"] \in WorkerMessage
BY DEF Quiet, KeyMessage, WorkerMessage

LEMMA KeyMessages ==
    ASSUME NEW p \in Params, p.self \in p.peers, NEW type \in {"epoch", "rotate"}
    PROVE  /\ Message(type, p) \in KeyMessage
           /\ Message(type, p).epoch = p.epoch
BY DEF Message, Params, KeyMessage, WorkerMessage

LEMMA QuietInit == ensureInit \in Seq(Quiet)
<1>1. [type |-> "init"] \in Quiet
    BY DEF Quiet
<1> QED
    BY <1>1 DEF ensureInit

(***************************************************************************)
(* Every step is one of seven kinds as far as the key state and the        *)
(* channels go.                                                            *)
(***************************************************************************)

\* Messages that install nothing are posted, or none.
Announce ==
    /\ \E w \in Seq(Quiet) : toWorker' = toWorker \o w
    /\ UNCHANGED <<stateVars, toMain, posted, late, appliedEpoch, listening>>
    /\ initialised' = initialised \/ initialised' = TRUE

\* The keys of an epoch are posted, once or twice.
Post ==
    /\ \E w \in Seq(KeyMessage), e \in Epochs :
          /\ toWorker' = toWorker \o w
          /\ w # <<>>
          /\ \A i \in DOMAIN w : w[i].epoch = e
          /\ posted' = posted \cup {e}
    /\ UNCHANGED <<stateVars, toMain, appliedEpoch, listening, initialised>>
    /\ late' = (late \/ ~initialised)

\* The worker handles the keys of an epoch.
Install(m) ==
    /\ toWorker # <<>>
    /\ m = Head(toWorker)
    /\ toWorker' = Tail(toWorker)
    /\ installEpoch(m.epoch, m.self, m.chain, m.peers)
    /\ toMain' = Applied(m)
    /\ UNCHANGED <<posted, late, appliedEpoch, listening, initialised>>

\* The worker handles a message that leaves its state alone ...
Skip ==
    /\ toWorker # <<>>
    /\ Head(toWorker) \in Quiet
    /\ toWorker' = Tail(toWorker)
    /\ UNCHANGED <<stateVars, toMain, posted, late, appliedEpoch, listening, initialised>>

\* ... or its teardown.
TornDown ==
    /\ toWorker # <<>>
    /\ Head(toWorker).type = "teardown"
    /\ toWorker' = Tail(toWorker)
    /\ teardown
    /\ UNCHANGED <<toMain, posted, late, appliedEpoch, listening, initialised>>

Timer ==
    /\ WipeTimer
    /\ UNCHANGED <<toWorker, toMain, posted, late, appliedEpoch, listening, initialised>>

Kinds ==
    \/ Announce \/ Post \/ detach \/ (\E m \in KeyMessage : Install(m)) \/ Skip \/ TornDown
    \/ handleWorkerMessage \/ Timer

CallsTyped ==
    /\ calls \in [CallSlots -> Call \cup {NoCall}]
    /\ \A s \in CallSlots :
          calls[s] # NoCall /\ calls[s].stage = "derive" =>
              calls[s].params.self \in calls[s].params.peers

LEMMA AnnounceNothing ==
    ASSUME toWorker \in Seq(WorkerMessage), UNCHANGED <<stateVars, toMain, posted, late, appliedEpoch, listening>>,
           UNCHANGED <<toWorker, initialised>>
    PROVE  Announce
<1>1. toWorker' = toWorker \o <<>> /\ <<>> \in Seq(Quiet)
    OBVIOUS
<1> QED
    BY <1>1 DEF Announce

LEMMA StartAnnounces ==
    ASSUME StartDerivation
    PROVE  Announce
BY QuietInit DEF StartDerivation, Announce

LEMMA StepKinds ==
    ASSUME CallsTyped, toWorker \in Seq(WorkerMessage), CryptorNext \/ UNCHANGED cryptorVars
    PROVE  Kinds
<1>1. ASSUME NEW x \in Endpoints, attach(x)
      PROVE  Announce
    <2>1. ensureInit \o <<[type |-> "streams"]>> \in Seq(Quiet)
        BY QuietInit DEF Quiet
    <2>2. toWorker \o ensureInit \o <<[type |-> "streams"]>>
            = toWorker \o (ensureInit \o <<[type |-> "streams"]>>)
        <3>1. ensureInit \in Seq(WorkerMessage) /\ <<[type |-> "streams"]>> \in Seq(WorkerMessage)
            <4>1. [type |-> "streams"] \in Quiet
                BY DEF Quiet
            <4>2. Quiet \subseteq WorkerMessage
                BY MessageTypes
            <4> HIDE DEF Quiet, WorkerMessage
            <4> QED
                BY <4>1, <4>2, QuietInit
        <3> QED
            BY <3>1
    <2>3. \E w \in Seq(Quiet) : toWorker' = toWorker \o w
        BY <1>1, <2>1, <2>2, QuietInit DEF attach
    <2> QED
        BY <1>1, <2>3 DEF attach, Announce, history
<1>2. CASE setEpochWithoutSelf
    BY <1>2, StartAnnounces DEF setEpochWithoutSelf, Kinds
<1>3. CASE dispose
    BY <1>3, AnnounceNothing DEF dispose, channelVars, history, Kinds
<1>4. ASSUME NEW s \in CallSlots, deriveDone(s)
      PROVE  Post
    <2> DEFINE p == calls[s].params
               w == IF role = "sender" THEN <<Message("epoch", p), Message("rotate", p)>>
                                       ELSE <<Message("epoch", p)>>
    <2>1. p \in Params /\ p.self \in p.peers
        BY <1>4 DEF deriveDone, CallsTyped, Call
    <2>2. p.epoch \in Epochs
        BY <2>1 DEF Params
    <2>3. /\ Message("epoch", p) \in KeyMessage /\ Message("epoch", p).epoch = p.epoch
          /\ Message("rotate", p) \in KeyMessage /\ Message("rotate", p).epoch = p.epoch
        BY <2>1, KeyMessages
    <2>4. /\ toWorker' = toWorker \o <<Message("epoch", p)>>
                            \o (IF role = "sender" THEN <<Message("rotate", p)>> ELSE <<>>)
          /\ posted' = posted \cup {p.epoch}
        BY <1>4 DEF deriveDone
    <2> HIDE DEF p
    <2>5. /\ toWorker' = toWorker \o w
          /\ w # <<>>
          /\ \A i \in DOMAIN w : w[i].epoch = p.epoch
          /\ w \in Seq(KeyMessage)
        <3>1. KeyMessage \subseteq WorkerMessage
            BY MessageTypes
        <3>2. CASE role = "sender"
            BY <2>3, <2>4, <3>1, <3>2
        <3>3. CASE role # "sender"
            BY <2>3, <2>4, <3>1, <3>3
        <3> QED
            BY <3>2, <3>3
    <2> QED
        BY <1>4, <2>2, <2>4, <2>5 DEF deriveDone, Post
<1>5. ASSUME NEW s \in CallSlots, exporterDone(s)
      PROVE  Announce
    BY <1>5, StartAnnounces DEF exporterDone
<1>6. ASSUME NEW s \in CallSlots, callFails(s)
      PROVE  Announce
    BY <1>6, AnnounceNothing DEF callFails, channelVars, history
<1>7. ASSUME NEW s \in CallSlots, NEW p \in Params, applyEpoch(s, p)
      PROVE  Announce
    BY <1>7, AnnounceNothing DEF applyEpoch, channelVars
<1>8. ASSUME NEW s \in CallSlots, NEW p \in Params, setEpoch(s, p)
      PROVE  Announce
    BY <1>8, StartAnnounces DEF setEpoch
<1>9. CASE handleMessage
    <2>1. PICK m \in WorkerMessage : m = Head(toWorker)
        BY <1>9 DEF handleMessage
    <2>2. CASE m.type \in {"init", "streams"}
        <3>1. m \in Quiet
            BY <2>2, MessageKinds
        <3> QED
            BY <1>9, <2>1, <2>2, <3>1 DEF handleMessage, Skip, Kinds, mainVars, history
    <2>3. CASE m.type \in {"epoch", "rotate"}
        <3>1. m \in KeyMessage
            BY <2>3, MessageKinds
        <3>2. Install(m)
            BY <1>9, <2>1, <2>3 DEF handleMessage, Install, mainVars, history
        <3> QED
            BY <3>1, <3>2 DEF Kinds
    <2>4. CASE m.type = "teardown"
        BY <1>9, <2>1, <2>4 DEF handleMessage, TornDown, Kinds, mainVars, history
    <2> QED
        BY <2>2, <2>3, <2>4, MessageKinds DEF Kinds
<1>10. CASE graceTimer
    BY <1>10 DEF graceTimer, Timer, Kinds, mainVars, channelVars, history
<1>11. CASE UNCHANGED cryptorVars
    BY <1>11, AnnounceNothing DEF cryptorVars, mainVars, channelVars, history, Kinds
<1> QED
    BY <1>1, <1>2, <1>3, <1>4, <1>5, <1>6, <1>7, <1>8, <1>9, <1>10, <1>11
    DEF CryptorNext, Calling, Kinds

(***************************************************************************)
(* Types.                                                                  *)
(***************************************************************************)

\* The suspended calls keep their types, and none derives a table without
\* the peer itself (setEpoch refuses it before its await).
LEMMA CallsStep ==
    ASSUME CallsTyped, CryptorNext \/ UNCHANGED cryptorVars
    PROVE  CallsTyped'
<1> USE DEF CallsTyped
<1>1. ASSUME NEW s \in CallSlots, deriveDone(s) \/ callFails(s)
      PROVE  CallsTyped'
    BY <1>1 DEF deriveDone, callFails
<1>2. ASSUME NEW s \in CallSlots, exporterDone(s)
      PROVE  CallsTyped'
    <2> DEFINE p == calls[s].params
               r == [calls[s] EXCEPT !.stage = "derive"]
    <2>1. calls[s] \in Call
        BY <1>2 DEF exporterDone
    <2>2. r \in Call /\ r.params = p
        BY <2>1 DEF Call
    <2>3. calls' = [calls EXCEPT ![s] = IF p.self \in p.peers THEN r ELSE NoCall]
        BY <1>2 DEF exporterDone
    <2> HIDE DEF r
    <2> QED
        BY <2>2, <2>3
<1>3. ASSUME NEW s \in CallSlots, NEW p \in Params, applyEpoch(s, p)
      PROVE  CallsTyped'
    <2> DEFINE r == [stage |-> "export", params |-> p]
    <2>1. r \in Call /\ r.stage # "derive"
        BY DEF Call
    <2>2. calls' = [calls EXCEPT ![s] = r]
        BY <1>3 DEF applyEpoch, Called
    <2> HIDE DEF r
    <2> QED
        BY <2>1, <2>2
<1>4. ASSUME NEW s \in CallSlots, NEW p \in Params, setEpoch(s, p)
      PROVE  CallsTyped'
    <2> DEFINE r == [stage |-> "derive", params |-> p]
    <2>1. r \in Call /\ r.params.self \in r.params.peers
        BY <1>4 DEF Call, setEpoch
    <2>2. calls' = [calls EXCEPT ![s] = r]
        BY <1>4 DEF setEpoch, Called
    <2> HIDE DEF r
    <2> QED
        BY <2>1, <2>2
<1>5. ASSUME UNCHANGED calls PROVE CallsTyped'
    BY <1>5
<1>6. ASSUME NEW x \in Endpoints, attach(x) PROVE UNCHANGED calls
    BY <1>6 DEF attach
<1>7. CASE setEpochWithoutSelf \/ dispose \/ detach \/ handleWorkerMessage
    BY <1>5, <1>7 DEF setEpochWithoutSelf, dispose, detach, handleWorkerMessage
<1>8. CASE handleMessage \/ graceTimer \/ UNCHANGED cryptorVars
    BY <1>5, <1>8 DEF handleMessage, graceTimer, cryptorVars, mainVars
<1> QED
    BY <1>1, <1>2, <1>3, <1>4, <1>5, <1>6, <1>7, <1>8 DEF CryptorNext, Calling

\* What a step does to the key state, in the terms of WorkerState.
LEMMA KindsOfWorkerStep ==
    ASSUME Kinds
    PROVE  EpochMessage \/ WipeTimer \/ teardown \/ UNCHANGED stateVars
<1>1. ASSUME NEW m \in KeyMessage, Install(m)
      PROVE  EpochMessage
    <2>1. /\ m.epoch \in Epochs /\ m.self \in Peers /\ m.chain \in Chains
          /\ m.peers \in SUBSET Peers /\ m.self \in m.peers
        BY DEF KeyMessage, WorkerMessage
    <2> QED
        BY <1>1, <2>1 DEF Install, EpochMessage
<1> QED
    BY <1>1 DEF Kinds, Announce, Post, detach, Skip, TornDown, handleWorkerMessage, Timer

LEMMA WorkerTypeStep ==
    ASSUME TypeOK, Kinds
    PROVE  TypeOK'
<1>1. teardown => TypeOK'
    BY DEF teardown, TypeOK
<1> QED
    BY <1>1, KindsOfWorkerStep, TypeStep DEF Next

LEMMA WorkerEpochStep ==
    ASSUME TypeOK, EpochInv, Kinds
    PROVE  EpochInv'
<1>1. teardown => EpochInv'
    BY DEF teardown, TypeOK, EpochInv, Installed
<1> QED
    BY <1>1, KindsOfWorkerStep, EpochStep DEF Next

LEMMA CryptorTypeStep ==
    ASSUME CryptorTypeOK, CryptorNext \/ UNCHANGED cryptorVars
    PROVE  CryptorTypeOK'
<1> USE DEF CryptorTypeOK
<1>1. Kinds
    BY StepKinds DEF CallsTyped
<1>2. TypeOK'
    BY <1>1, WorkerTypeStep
<1>3. CallsTyped'
    BY CallsStep DEF CallsTyped
<1> DEFINE Rest == /\ {initialised, listening, late} \subseteq BOOLEAN
                   /\ appliedEpoch \in Epochs \cup {-1}
                   /\ toWorker \in Seq(WorkerMessage)
                   /\ toMain \in Seq(Epochs)
                   /\ posted \subseteq Epochs
<1>4. Rest'
    <2>1. CASE Announce
        <3>1. PICK w \in Seq(Quiet) : toWorker' = toWorker \o w
            BY <2>1 DEF Announce
        <3>2. w \in Seq(WorkerMessage)
            BY MessageTypes
        <3>3. toWorker' \in Seq(WorkerMessage)
            BY <3>1, <3>2
        <3> QED
            BY <2>1, <3>3 DEF Announce
    <2>2. CASE Post
        <3>1. PICK w \in Seq(KeyMessage), e \in Epochs :
                  toWorker' = toWorker \o w /\ posted' = posted \cup {e}
            BY <2>2 DEF Post
        <3>2. w \in Seq(WorkerMessage)
            BY MessageTypes
        <3>3. toWorker' \in Seq(WorkerMessage)
            BY <3>1, <3>2
        <3> QED
            BY <2>2, <3>1, <3>3 DEF Post
    <2>3. CASE detach
        <3>1. toWorker' \in Seq(WorkerMessage)
            BY <2>3, MessageTypes DEF detach
        <3>2. {initialised, listening, late}' \subseteq BOOLEAN
            BY <2>3 DEF detach
        <3>3. UNCHANGED <<appliedEpoch, toMain>> /\ (posted' = {} \/ posted' = posted)
            BY <2>3 DEF detach
        <3> QED
            BY <3>1, <3>2, <3>3
    <2>4. ASSUME NEW m \in KeyMessage, Install(m)
          PROVE  Rest'
        <3>1. m.epoch \in Epochs
            BY DEF KeyMessage, WorkerMessage
        <3>2. toMain' \in Seq(Epochs) /\ toWorker' \in Seq(WorkerMessage)
            BY <2>4, <3>1 DEF Install, Applied
        <3> QED
            BY <2>4, <3>2 DEF Install
    <2>5. CASE Skip \/ TornDown
        <3>1. toWorker' \in Seq(WorkerMessage)
            <4>1. toWorker # <<>> /\ toWorker' = Tail(toWorker)
                BY <2>5 DEF Skip, TornDown
            <4> HIDE DEF WorkerMessage
            <4> QED
                BY <4>1
        <3>2. UNCHANGED <<toMain, posted, late, appliedEpoch, listening, initialised>>
            BY <2>5 DEF Skip, TornDown
        <3> QED
            BY <3>1, <3>2
    <2>6. CASE handleWorkerMessage
        <3>1. Head(toMain) \in Epochs /\ toMain' \in Seq(Epochs)
            BY <2>6 DEF handleWorkerMessage
        <3>2. appliedEpoch' = Head(toMain) \/ appliedEpoch' = appliedEpoch
            BY <2>6 DEF handleWorkerMessage
        <3>3. UNCHANGED <<toWorker, posted, late, listening, initialised>>
            BY <2>6 DEF handleWorkerMessage, history
        <3> QED
            BY <3>1, <3>2, <3>3
    <2>7. CASE Timer
        BY <2>7 DEF Timer
    <2> QED
        BY <1>1, <2>1, <2>2, <2>3, <2>4, <2>5, <2>6, <2>7 DEF Kinds
<1> QED
    BY <1>2, <1>3, <1>4 DEF CallsTyped

LEMMA CryptorTypeInit == CryptorInit => CryptorTypeOK /\ EpochInv
<1> SUFFICES ASSUME CryptorInit PROVE CryptorTypeOK /\ EpochInv
    OBVIOUS
<1>1. TypeOK /\ EpochInv
    BY DEF CryptorInit, Init, TypeOK, EpochInv, Installed
<1>2. toWorker \in Seq(WorkerMessage) /\ toMain \in Seq(Epochs)
    <2> HIDE DEF WorkerMessage
    <2> QED
        BY DEF CryptorInit
<1>3. calls = [s \in CallSlots |-> NoCall]
    BY DEF CryptorInit
<1>4. /\ {initialised, listening, late} \subseteq BOOLEAN
      /\ appliedEpoch = -1 /\ posted = {}
    BY DEF CryptorInit
<1> QED
    BY <1>1, <1>2, <1>3, <1>4 DEF CryptorTypeOK

LEMMA CryptorTypes == CryptorSpec => [](CryptorTypeOK /\ EpochInv)
<1>1. CryptorTypeOK /\ EpochInv /\ [CryptorNext]_cryptorVars => (CryptorTypeOK /\ EpochInv)'
    BY CryptorTypeStep, StepKinds, WorkerEpochStep DEF CryptorTypeOK, CallsTyped
<1> QED
    BY <1>1, CryptorTypeInit, PTL DEF CryptorSpec

(***************************************************************************)
(* The composed system keeps its types; in particular no key table reaches *)
(* the worker without a key for the sender itself (setEpoch, exporterDone).*)
(***************************************************************************)
THEOREM CryptorTypeCorrect == CryptorSpec => []CryptorTypeOK
BY CryptorTypes, PTL

-----------------------------------------------------------------------------
(***************************************************************************)
(* The channel to the worker: what posting and handling does to the        *)
(* positions of the messages in it.                                        *)
(***************************************************************************)
LEMMA Posting ==
    ASSUME toWorker \in Seq(WorkerMessage), NEW w \in Seq(WorkerMessage),
           toWorker' = toWorker \o w
    PROVE  /\ DOMAIN toWorker \subseteq Nat /\ DOMAIN toWorker' \subseteq Nat
           /\ \A i \in DOMAIN toWorker : i \in DOMAIN toWorker' /\ toWorker'[i] = toWorker[i]
           /\ \A i \in DOMAIN toWorker' :
                 i \notin DOMAIN toWorker =>
                     /\ \A j \in DOMAIN toWorker : j < i
                     /\ \E k \in DOMAIN w : toWorker'[i] = w[k]
           /\ w # <<>> => \E i \in DOMAIN toWorker' : i \notin DOMAIN toWorker
<1> DEFINE n == Len(toWorker)
<1>1. /\ n \in Nat /\ Len(w) \in Nat
      /\ DOMAIN toWorker = 1..n
      /\ DOMAIN w = 1..Len(w)
      /\ DOMAIN toWorker' = 1..(n + Len(w))
    OBVIOUS
<1>2. \A i \in 1..n : toWorker'[i] = toWorker[i]
    OBVIOUS
<1>3. \A i \in (n + 1)..(n + Len(w)) : toWorker'[i] = w[i - n]
    OBVIOUS
<1>4. w # <<>> => Len(w) > 0
    OBVIOUS
<1> HIDE DEF n
<1>5. ASSUME NEW i \in DOMAIN toWorker', i \notin DOMAIN toWorker
      PROVE  /\ \A j \in DOMAIN toWorker : j < i
             /\ \E k \in DOMAIN w : toWorker'[i] = w[k]
    <2>1. i - n \in DOMAIN w /\ i \in (n + 1)..(n + Len(w))
        BY <1>1, <1>5
    <2>2. toWorker'[i] = w[i - n]
        BY <1>3, <2>1
    <2>3. \A j \in DOMAIN toWorker : j < i
        BY <1>1, <2>1
    <2> QED
        BY <2>1, <2>2, <2>3
<1>6. w # <<>> => n + 1 \in DOMAIN toWorker' /\ n + 1 \notin DOMAIN toWorker
    BY <1>1, <1>4
<1>7. /\ DOMAIN toWorker \subseteq Nat /\ DOMAIN toWorker' \subseteq Nat
      /\ DOMAIN toWorker \subseteq DOMAIN toWorker'
    BY <1>1
<1>8. \A i \in DOMAIN toWorker : i \in DOMAIN toWorker' /\ toWorker'[i] = toWorker[i]
    BY <1>1, <1>2, <1>7
<1> QED
    BY ONLY <1>5, <1>6, <1>7, <1>8

LEMMA Handling ==
    ASSUME toWorker \in Seq(WorkerMessage), toWorker # <<>>, toWorker' = Tail(toWorker)
    PROVE  /\ DOMAIN toWorker \subseteq Nat /\ DOMAIN toWorker' \subseteq Nat
           /\ 1 \in DOMAIN toWorker /\ Head(toWorker) = toWorker[1]
           /\ \A i \in DOMAIN toWorker : i >= 1
           /\ \A i \in DOMAIN toWorker :
                 i # 1 => i - 1 \in DOMAIN toWorker' /\ toWorker'[i - 1] = toWorker[i]
           /\ \A i \in DOMAIN toWorker' :
                 i >= 1 /\ i + 1 \in DOMAIN toWorker /\ toWorker'[i] = toWorker[i + 1]
<1> DEFINE n == Len(toWorker)
<1>1. /\ n \in Nat /\ n > 0
      /\ DOMAIN toWorker = 1..n
      /\ DOMAIN toWorker' = 1..(n - 1)
    OBVIOUS
<1>2. \A i \in 1..(n - 1) : toWorker'[i] = toWorker[i + 1]
    OBVIOUS
<1>3. Head(toWorker) = toWorker[1]
    OBVIOUS
<1> HIDE DEF n
<1> QED
    BY <1>1, <1>2, <1>3

(***************************************************************************)
(* PostedInv.                                                              *)
(***************************************************************************)
LEMMA PostedUnderAnnounce ==
    ASSUME CryptorTypeOK, PostedInv, Announce
    PROVE  PostedInv' /\ (NoTeardownAfter(0) => NoTeardownAfter(0)')
<1>1. PICK w \in Seq(Quiet) : toWorker' = toWorker \o w
    BY DEF Announce
<1>2. w \in Seq(WorkerMessage) /\ \A k \in DOMAIN w : w[k].type \in {"init", "streams"}
    <2>1. \A m \in Quiet : m.type \in {"init", "streams"}
        BY DEF Quiet
    <2> HIDE DEF Quiet
    <2> QED
        BY <2>1, MessageTypes
<1>3. toWorker \in Seq(WorkerMessage)
    BY DEF CryptorTypeOK
<1>4. /\ DOMAIN toWorker \subseteq Nat /\ DOMAIN toWorker' \subseteq Nat
      /\ \A i \in DOMAIN toWorker : i \in DOMAIN toWorker' /\ toWorker'[i] = toWorker[i]
      /\ \A i \in DOMAIN toWorker' :
            i \notin DOMAIN toWorker => toWorker'[i].type \in {"init", "streams"}
    BY <1>1, <1>2, <1>3, Posting
<1>5. UNCHANGED <<posted, currentEpoch>>
    BY DEF Announce, stateVars, keyVars
<1>6. \A i : NoTeardownAfter(i)' <=> NoTeardownAfter(i)
    BY <1>4 DEF NoTeardownAfter
<1>7. \A i \in DOMAIN toWorker : InSession(i)' <=> InSession(i)
    BY <1>4, <1>6 DEF InSession
<1>8. \A i \in DOMAIN toWorker' : i \notin DOMAIN toWorker => ~InSession(i)'
    BY <1>4 DEF InSession
<1> QED
    BY <1>4, <1>5, <1>6, <1>7, <1>8 DEF PostedInv

LEMMA PostedUnderPost ==
    ASSUME CryptorTypeOK, PostedInv, Post
    PROVE  PostedInv' /\ (NoTeardownAfter(0) => NoTeardownAfter(0)')
<1>1. PICK w \in Seq(KeyMessage), e \in Epochs :
          /\ toWorker' = toWorker \o w
          /\ w # <<>>
          /\ \A k \in DOMAIN w : w[k].epoch = e
          /\ posted' = posted \cup {e}
    BY DEF Post
<1>2. w \in Seq(WorkerMessage) /\ \A k \in DOMAIN w : w[k].type \in {"epoch", "rotate"}
    <2>1. \A m \in KeyMessage : m.type \in {"epoch", "rotate"}
        BY DEF KeyMessage
    <2> HIDE DEF KeyMessage
    <2> QED
        BY <2>1, MessageTypes
<1>3. toWorker \in Seq(WorkerMessage)
    BY DEF CryptorTypeOK
<1>4. /\ DOMAIN toWorker \subseteq Nat /\ DOMAIN toWorker' \subseteq Nat
      /\ \A i \in DOMAIN toWorker : i \in DOMAIN toWorker' /\ toWorker'[i] = toWorker[i]
      /\ \A i \in DOMAIN toWorker' :
            i \notin DOMAIN toWorker =>
                /\ toWorker'[i].type \in {"epoch", "rotate"}
                /\ toWorker'[i].epoch = e
                /\ \A j \in DOMAIN toWorker : j < i
    BY <1>1, <1>2, <1>3, Posting
<1>5. UNCHANGED currentEpoch
    BY DEF Post, stateVars, keyVars
<1>6. \A i : NoTeardownAfter(i)' <=> NoTeardownAfter(i)
    BY <1>4 DEF NoTeardownAfter
<1>7. \A i \in DOMAIN toWorker : InSession(i)' <=> InSession(i)
    BY <1>4, <1>6 DEF InSession
<1>8. PICK new \in DOMAIN toWorker' : new \notin DOMAIN toWorker
    BY <1>1, <1>2, <1>3, Posting
<1>9. InSession(new)' /\ toWorker'[new].epoch = e
    <2>1. NoTeardownAfter(new)
        BY <1>4, <1>8 DEF NoTeardownAfter
    <2> QED
        BY <1>4, <1>6, <1>8, <2>1 DEF InSession
<1>10. \A i \in DOMAIN toWorker' : InSession(i)' => toWorker'[i].epoch \in posted'
    BY <1>1, <1>4, <1>7 DEF PostedInv
<1>11. ASSUME NEW f \in posted'
       PROVE  \/ \E i \in DOMAIN toWorker' : InSession(i)' /\ toWorker'[i].epoch = f
              \/ NoTeardownAfter(0)' /\ f <= currentEpoch'
    <2>1. CASE f = e
        BY <1>8, <1>9, <2>1
    <2>2. CASE f \in posted
        BY <1>4, <1>5, <1>6, <1>7, <2>2 DEF PostedInv
    <2> QED
        BY <1>1, <2>1, <2>2
<1>12. NoTeardownAfter(0)' => currentEpoch' \in posted' \cup {-1}
    BY <1>1, <1>5, <1>6 DEF PostedInv
<1> QED
    BY <1>6, <1>10, <1>11, <1>12 DEF PostedInv

LEMMA PostedUnderDetach ==
    ASSUME CryptorTypeOK, PostedInv, detach
    PROVE  PostedInv'
<1>1. UNCHANGED currentEpoch
    BY DEF detach, stateVars, keyVars
<1>2. CASE ~initialised
    BY <1>1, <1>2 DEF detach, PostedInv, InSession, NoTeardownAfter
<1>3. CASE initialised
    <2> DEFINE n == Len(toWorker)
    <2>1. toWorker \in Seq(WorkerMessage)
        BY DEF CryptorTypeOK
    <2>2. toWorker' = Append(toWorker, [type |-> "teardown"]) /\ posted' = {}
        BY <1>3 DEF detach
    <2>3. /\ n \in Nat
          /\ DOMAIN toWorker' = 1..(n + 1)
          /\ toWorker'[n + 1] = [type |-> "teardown"]
        BY <2>1, <2>2
    <2> HIDE DEF n
    <2>4. toWorker'[n + 1].type = "teardown" /\ n + 1 \in DOMAIN toWorker'
        BY <2>3
    <2>5. \A i \in DOMAIN toWorker' : ~InSession(i)'
        BY <2>3, <2>4 DEF InSession, NoTeardownAfter
    <2>6. ~NoTeardownAfter(0)'
        BY <2>3, <2>4 DEF NoTeardownAfter
    <2> QED
        BY <2>2, <2>5, <2>6 DEF PostedInv
<1> QED
    BY <1>2, <1>3

\* The worker handles its first message: the rest move up by one.
LEMMA MovedUp ==
    ASSUME toWorker \in Seq(WorkerMessage), toWorker # <<>>, toWorker' = Tail(toWorker)
    PROVE  /\ \A i \in DOMAIN toWorker : i # 1 => (InSession(i - 1)' <=> InSession(i))
           /\ \A i \in DOMAIN toWorker' : InSession(i)' <=> InSession(i + 1)
           /\ NoTeardownAfter(0)' <=> NoTeardownAfter(1)
           /\ NoTeardownAfter(0) <=> NoTeardownAfter(1) /\ toWorker[1].type # "teardown"
<1> DEFINE H == /\ DOMAIN toWorker \subseteq Nat /\ DOMAIN toWorker' \subseteq Nat
                /\ 1 \in DOMAIN toWorker
                /\ \A i \in DOMAIN toWorker : i >= 1
                /\ \A i \in DOMAIN toWorker :
                      i # 1 => i - 1 \in DOMAIN toWorker' /\ toWorker'[i - 1] = toWorker[i]
                /\ \A i \in DOMAIN toWorker' :
                      i >= 1 /\ i + 1 \in DOMAIN toWorker /\ toWorker'[i] = toWorker[i + 1]
<1>1. H
    BY Handling
<1>2. ASSUME NEW i \in Nat
      PROVE  NoTeardownAfter(i)' <=> NoTeardownAfter(i + 1)
    <2>1. ASSUME NoTeardownAfter(i)', NEW j \in DOMAIN toWorker, j > i + 1
          PROVE  toWorker[j].type # "teardown"
        <3>1. j # 1 /\ j - 1 > i
            BY <1>1, <2>1
        <3> QED
            BY <1>1, <2>1, <3>1 DEF NoTeardownAfter
    <2>2. ASSUME NoTeardownAfter(i + 1), NEW j \in DOMAIN toWorker', j > i
          PROVE  toWorker'[j].type # "teardown"
        <3>1. j + 1 > i + 1
            BY <1>1, <2>2
        <3> QED
            BY <1>1, <2>2, <3>1 DEF NoTeardownAfter
    <2> QED
        BY <2>1, <2>2 DEF NoTeardownAfter
<1>3. \A i \in DOMAIN toWorker' : InSession(i)' <=> InSession(i + 1)
    BY <1>1, <1>2 DEF InSession
<1>4. ASSUME NEW i \in DOMAIN toWorker, i # 1
      PROVE  InSession(i - 1)' <=> InSession(i)
    <2>1. i - 1 \in DOMAIN toWorker' /\ (i - 1) + 1 = i
        BY <1>1, <1>4
    <2> QED
        BY <1>3, <2>1
<1>5. NoTeardownAfter(0)' <=> NoTeardownAfter(1)
    <2>1. NoTeardownAfter(0)' <=> NoTeardownAfter(0 + 1)
        BY <1>2
    <2> QED
        BY <2>1
<1>6. NoTeardownAfter(0) <=> NoTeardownAfter(1) /\ toWorker[1].type # "teardown"
    BY <1>1 DEF NoTeardownAfter
<1> QED
    BY <1>3, <1>4, <1>5, <1>6

\* What is on its way stays so, but for the message that is handled.
LEMMA StillOnItsWay ==
    ASSUME CryptorTypeOK, PostedInv, toWorker # <<>>, toWorker' = Tail(toWorker), UNCHANGED posted
    PROVE  /\ \A i \in DOMAIN toWorker' : InSession(i)' => toWorker'[i].epoch \in posted'
           /\ \A e \in posted :
                 \/ \E i \in DOMAIN toWorker' : InSession(i)' /\ toWorker'[i].epoch = e
                 \/ InSession(1) /\ toWorker[1].epoch = e
                 \/ NoTeardownAfter(0) /\ e <= currentEpoch
<1>1. toWorker \in Seq(WorkerMessage)
    BY DEF CryptorTypeOK
<1>2. \A i \in DOMAIN toWorker' : InSession(i)' => toWorker'[i].epoch \in posted'
    BY <1>1, MovedUp, Handling DEF PostedInv
<1>3. ASSUME NEW e \in posted, NEW i \in DOMAIN toWorker, InSession(i), toWorker[i].epoch = e,
             i # 1
      PROVE  \E k \in DOMAIN toWorker' : InSession(k)' /\ toWorker'[k].epoch = e
    <2>1. /\ i - 1 \in DOMAIN toWorker' /\ toWorker'[i - 1] = toWorker[i]
          /\ InSession(i - 1)'
        BY <1>1, <1>3, MovedUp, Handling
    <2> QED
        BY <1>3, <2>1
<1> QED
    BY <1>2, <1>3 DEF PostedInv

LEMMA PostedUnderSkip ==
    ASSUME CryptorTypeOK, PostedInv, Skip
    PROVE  PostedInv' /\ (NoTeardownAfter(0) => NoTeardownAfter(0)')
<1>1. /\ toWorker \in Seq(WorkerMessage) /\ toWorker # <<>> /\ toWorker' = Tail(toWorker)
      /\ UNCHANGED <<posted, currentEpoch>>
    BY DEF Skip, CryptorTypeOK, stateVars, keyVars
<1>2. toWorker[1].type \in {"init", "streams"}
    BY <1>1, Handling DEF Skip, Quiet
<1>3. ~InSession(1) /\ (NoTeardownAfter(0)' <=> NoTeardownAfter(0))
    BY <1>1, <1>2, MovedUp DEF InSession
<1> QED
    BY <1>1, <1>3, StillOnItsWay DEF PostedInv

\* A teardown ends a session: what was posted since is all on its way.
LEMMA PostedUnderTeardown ==
    ASSUME CryptorTypeOK, PostedInv, TornDown
    PROVE  PostedInv' /\ ~NoTeardownAfter(0)
<1>1. /\ toWorker \in Seq(WorkerMessage) /\ toWorker # <<>> /\ toWorker' = Tail(toWorker)
      /\ UNCHANGED posted /\ currentEpoch' = -1
    BY DEF TornDown, teardown, CryptorTypeOK
<1>2. toWorker[1].type = "teardown"
    BY <1>1, Handling DEF TornDown
<1>3. ~InSession(1) /\ ~NoTeardownAfter(0)
    BY <1>1, <1>2, MovedUp DEF InSession
<1> QED
    BY <1>1, <1>3, StillOnItsWay DEF PostedInv

\* The epoch handled is now the current one or below it.
LEMMA PostedUnderInstall ==
    ASSUME CryptorTypeOK, PostedInv, NEW m \in KeyMessage, Install(m)
    PROVE  PostedInv' /\ (NoTeardownAfter(0) => NoTeardownAfter(0)')
<1>1. /\ toWorker \in Seq(WorkerMessage) /\ toWorker # <<>> /\ toWorker' = Tail(toWorker)
      /\ UNCHANGED posted /\ m = Head(toWorker)
    BY DEF Install, CryptorTypeOK
<1>2. m.type \in {"epoch", "rotate"} /\ m.epoch \in Epochs /\ toWorker[1] = m
    BY <1>1, Handling DEF KeyMessage, WorkerMessage
<1>3. currentEpoch' = IF m.epoch > currentEpoch THEN m.epoch ELSE currentEpoch
    BY DEF Install, installEpoch
<1>4. currentEpoch \in Epochs \cup {-1} /\ Epochs \subseteq Nat /\ posted \subseteq Epochs
    BY EpochsAssumption DEF CryptorTypeOK, TypeOK
<1>5. NoTeardownAfter(0)' <=> NoTeardownAfter(0)
    BY <1>1, <1>2, MovedUp
<1>6. InSession(1) <=> NoTeardownAfter(0)
    BY <1>1, <1>2, MovedUp DEF InSession
<1>7. NoTeardownAfter(0) => m.epoch \in posted
    BY <1>1, <1>2, <1>6, Handling DEF PostedInv
<1>8. \A e \in Epochs : e <= currentEpoch \/ e = m.epoch => e <= currentEpoch'
    <2> SUFFICES ASSUME NEW e \in Epochs, e <= currentEpoch \/ e = m.epoch
                 PROVE  e <= currentEpoch'
        OBVIOUS
    <2>1. m.epoch \in Epochs
        BY <1>2
    <2>2. PICK f \in Epochs : f = m.epoch
        BY ONLY <2>1
    <2>3. e \in Int /\ f \in Int /\ currentEpoch \in Int
        BY ONLY <1>4, f \in Epochs, e \in Epochs
    <2>4. /\ currentEpoch' = IF f > currentEpoch THEN f ELSE currentEpoch
          /\ e <= currentEpoch \/ e = f
        BY <1>3, <2>2
    <2> QED
        BY ONLY <2>3, <2>4
<1>9. NoTeardownAfter(0)' => currentEpoch' \in posted' \cup {-1}
    BY <1>1, <1>3, <1>5, <1>7 DEF PostedInv
<1>10. \A e \in posted' :
          \/ \E i \in DOMAIN toWorker' : InSession(i)' /\ toWorker'[i].epoch = e
          \/ NoTeardownAfter(0)' /\ e <= currentEpoch'
    BY <1>1, <1>2, <1>4, <1>5, <1>6, <1>8, StillOnItsWay
<1> QED
    BY <1>1, <1>5, <1>9, <1>10, StillOnItsWay DEF PostedInv

LEMMA PostedStep ==
    ASSUME CryptorTypeOK, PostedInv, Kinds
    PROVE  PostedInv'
<1>1. CASE handleWorkerMessage \/ Timer
    <2>1. UNCHANGED <<toWorker, posted, currentEpoch>>
        BY <1>1 DEF handleWorkerMessage, Timer, WipeTimer, wipeTimerFires, wipeEpoch, history,
                    stateVars, keyVars
    <2> QED
        BY <2>1 DEF PostedInv, InSession, NoTeardownAfter
<1> QED
    BY <1>1, PostedUnderAnnounce, PostedUnderPost, PostedUnderDetach, PostedUnderInstall,
       PostedUnderSkip, PostedUnderTeardown DEF Kinds

(***************************************************************************)
(* DetachInv.                                                              *)
(***************************************************************************)
LEMMA DetachStep ==
    ASSUME CryptorTypeOK, PostedInv, DetachInv, Kinds
    PROVE  DetachInv'
<1>1. (~initialised /\ ~late => posted = {})'
    <2>1. CASE Announce
        <3>1. UNCHANGED <<posted, late>> /\ (initialised' = initialised \/ initialised' = TRUE)
            BY <2>1 DEF Announce
        <3> QED
            BY <3>1 DEF DetachInv
    <2>2. CASE Post
        BY <2>2 DEF Post, CryptorTypeOK
    <2>3. CASE detach
        <3>1. CASE initialised
            BY <2>3, <3>1 DEF detach
        <3>2. CASE ~initialised
            <4>1. (late' <=> late) /\ posted' = posted
                BY <2>3, <3>2 DEF detach
            <4> QED
                BY <3>2, <4>1 DEF DetachInv
        <3> QED
            BY <3>1, <3>2
    <2>4. CASE (\E m \in KeyMessage : Install(m)) \/ Skip \/ TornDown
               \/ handleWorkerMessage \/ Timer
        <3>1. UNCHANGED <<initialised, late, posted>>
            BY <2>4 DEF Install, Skip, TornDown, handleWorkerMessage, Timer, history
        <3> QED
            BY <3>1 DEF DetachInv
    <2> QED
        BY <2>1, <2>2, <2>3, <2>4 DEF Kinds
<1>2. ASSUME listening'
      PROVE  (NoTeardownAfter(0) /\ AppliedEpochTracks)'
    <2>1. listening
        BY <1>2 DEF Kinds, Announce, Post, detach, Install, Skip, TornDown, handleWorkerMessage,
                    Timer
    <2>2. NoTeardownAfter(0) /\ AppliedEpochTracks
        BY <2>1 DEF DetachInv
    <2>3. CASE Announce \/ Post \/ Skip
        <3>1. UNCHANGED <<toMain, appliedEpoch, currentEpoch, listening>>
            BY <2>3 DEF Announce, Post, Skip, stateVars, keyVars
        <3> QED
            BY <2>2, <2>3, <3>1, PostedUnderAnnounce, PostedUnderPost, PostedUnderSkip
            DEF AppliedEpochTracks
    <2>4. ASSUME NEW m \in KeyMessage, Install(m)
          PROVE  (NoTeardownAfter(0) /\ AppliedEpochTracks)'
        <3>1. /\ currentEpoch' = IF m.epoch > currentEpoch THEN m.epoch ELSE currentEpoch
              /\ toMain' = IF m.epoch > currentEpoch THEN Append(toMain, m.epoch) ELSE toMain
              /\ UNCHANGED <<appliedEpoch, listening>>
            BY <2>4 DEF Install, installEpoch, Applied
        <3>2. m.epoch \in Epochs /\ toMain \in Seq(Epochs)
            BY DEF KeyMessage, WorkerMessage, CryptorTypeOK
        <3>3. AppliedEpochTracks'
            BY <2>1, <2>2, <3>1, <3>2 DEF AppliedEpochTracks
        <3> QED
            BY <2>2, <2>4, <3>3, PostedUnderInstall
    <2>5. CASE handleWorkerMessage
        <3>1. /\ toMain # <<>> /\ toMain' = Tail(toMain) /\ appliedEpoch' = Head(toMain)
              /\ UNCHANGED <<toWorker, currentEpoch>>
            BY <2>1, <2>5 DEF handleWorkerMessage, stateVars, keyVars
        <3>2. toMain \in Seq(Epochs)
            BY DEF CryptorTypeOK
        <3>3. (IF toMain' = <<>> THEN appliedEpoch' ELSE toMain'[Len(toMain')])
                 = toMain[Len(toMain)]
            <4>1. CASE Len(toMain) = 1
                BY <3>1, <3>2, <4>1
            <4>2. CASE Len(toMain) # 1
                BY <3>1, <3>2, <4>2
            <4> QED
                BY <4>1, <4>2
        <3> QED
            BY <2>1, <2>2, <3>1, <3>3 DEF AppliedEpochTracks, NoTeardownAfter
    <2>6. CASE Timer
        <3>1. UNCHANGED <<toWorker, toMain, appliedEpoch, currentEpoch, listening>>
            BY <2>6 DEF Timer, WipeTimer, wipeTimerFires, wipeEpoch
        <3> QED
            BY <2>2, <3>1 DEF AppliedEpochTracks, NoTeardownAfter
    <2> QED
        BY <1>2, <2>2, <2>3, <2>4, <2>5, <2>6, PostedUnderTeardown DEF Kinds, detach
<1> QED
    BY <1>1, <1>2 DEF DetachInv

(***************************************************************************)
(* The invariants together.                                                *)
(***************************************************************************)
CryptorInv == CryptorTypeOK /\ EpochInv /\ PostedInv /\ DetachInv

LEMMA CryptorInvariant == CryptorSpec => []CryptorInv
<1>1. CryptorInit => PostedInv /\ DetachInv
    <2> SUFFICES ASSUME CryptorInit PROVE PostedInv /\ DetachInv
        OBVIOUS
    <2>1. /\ toWorker = <<>> /\ toMain = <<>> /\ posted = {} /\ currentEpoch = -1
          /\ appliedEpoch = -1
        BY DEF CryptorInit, Init
    <2> QED
        BY <2>1 DEF PostedInv, DetachInv, AppliedEpochTracks, NoTeardownAfter
<1>2. CryptorInv /\ [CryptorNext]_cryptorVars => CryptorInv'
    <2> SUFFICES ASSUME CryptorInv, CryptorNext \/ UNCHANGED cryptorVars PROVE CryptorInv'
        OBVIOUS
    <2>1. Kinds
        BY StepKinds DEF CryptorInv, CryptorTypeOK, CallsTyped
    <2> QED
        BY <2>1, CryptorTypeStep, WorkerEpochStep, PostedStep, DetachStep
        DEF CryptorInv, CryptorTypeOK
<1> QED
    BY <1>1, <1>2, CryptorTypeInit, PTL DEF CryptorSpec, CryptorInv

(***************************************************************************)
(* Whatever order overlapping calls of setEpoch and applyEpoch end in, and *)
(* whatever is detached in between, a worker with no message left sends    *)
(* under the highest epoch posted since the last teardown.                 *)
(***************************************************************************)
THEOREM LatestEpochIsUsed == CryptorSpec => []LatestEpochWins
<1>1. CryptorInv => LatestEpochWins
    <2> SUFFICES ASSUME CryptorInv, toWorker = <<>>
                 PROVE  /\ currentEpoch = Max(posted \cup {-1})
                        /\ currentEpoch # -1 => Installed(currentEpoch)
        BY DEF LatestEpochWins
    <2>1. /\ currentEpoch \in posted \cup {-1}
          /\ \A e \in posted : e <= currentEpoch
          /\ currentEpoch # -1 => Installed(currentEpoch)
        BY DEF CryptorInv, PostedInv, EpochInv, NoTeardownAfter
    <2>2. posted \subseteq Nat /\ currentEpoch \in Int /\ -1 <= currentEpoch
        BY EpochsAssumption DEF CryptorInv, CryptorTypeOK, TypeOK
    <2>3. \A x \in posted \cup {-1} :
              (\A y \in posted \cup {-1} : x >= y) <=> x = currentEpoch
        BY <2>1, <2>2
    <2>4. currentEpoch = Max(posted \cup {-1})
        BY <2>1, <2>3 DEF Max
    <2> QED
        BY <2>1, <2>4
<1> QED
    BY <1>1, CryptorInvariant, PTL

(***************************************************************************)
(* Until the cryptor is detached, getAppliedEpoch is the worker's epoch up *)
(* to the reports on their way.                                            *)
(***************************************************************************)
THEOREM ReportsAreInOrder == CryptorSpec => []AppliedEpochTracks
<1>1. CryptorInv => AppliedEpochTracks
    BY DEF CryptorInv, DetachInv, AppliedEpochTracks
<1> QED
    BY <1>1, CryptorInvariant, PTL

(***************************************************************************)
(* A detached cryptor's worker holds no keys once it has handled its       *)
(* messages, unless a call of setEpoch posted after the detach.            *)
(***************************************************************************)
THEOREM DetachEmptiesTheWorker == CryptorSpec => []DetachedHoldsNoKeys
<1>1. CryptorInv => DetachedHoldsNoKeys
    <2> SUFFICES ASSUME CryptorInv, ~initialised, toWorker = <<>>, ~late
                 PROVE  \A e \in Epochs : ~Installed(e)
        BY DEF DetachedHoldsNoKeys
    <2>1. currentEpoch = -1
        BY DEF CryptorInv, PostedInv, DetachInv, NoTeardownAfter
    <2> QED
        BY <2>1, EpochsAssumption DEF CryptorInv, EpochInv
<1> QED
    BY <1>1, CryptorInvariant, PTL

-----------------------------------------------------------------------------
(***************************************************************************)
(* The worker as the cryptor drives it is a WorkerState.                   *)
(***************************************************************************)
OnTheirWay == {i \in DOMAIN toWorker : toWorker[i].type = "teardown"}

LEMMA OnTheirWayFinite ==
    ASSUME toWorker \in Seq(WorkerMessage)
    PROVE  IsFiniteSet(OnTheirWay) /\ Cardinality(OnTheirWay) \in Nat
<1>1. IsFiniteSet(1..Len(toWorker)) /\ DOMAIN toWorker = 1..Len(toWorker)
    BY FS_Interval
<1>2. OnTheirWay \in SUBSET (1..Len(toWorker))
    BY <1>1 DEF OnTheirWay
<1>3. IsFiniteSet(OnTheirWay)
    BY <1>1, <1>2, FS_Subset
<1> QED
    BY <1>3, FS_CardinalityType

\* Handling a message takes its teardown off the channel.
LEMMA OneLess ==
    ASSUME toWorker \in Seq(WorkerMessage), toWorker # <<>>, toWorker' = Tail(toWorker)
    PROVE  /\ Cardinality(OnTheirWay') \in Nat
           /\ Cardinality(OnTheirWay') <= IF toWorker[1].type = "teardown"
                                            THEN Cardinality(OnTheirWay) - 1
                                            ELSE Cardinality(OnTheirWay)
<1> DEFINE f == [i \in OnTheirWay' |-> i + 1]
<1>1. f \in Injection(OnTheirWay', OnTheirWay \ {1})
    <2>1. \A i \in OnTheirWay' : i \in Nat /\ i >= 1 /\ i + 1 \in OnTheirWay
        BY Handling DEF OnTheirWay
    <2>2. f \in [OnTheirWay' -> OnTheirWay \ {1}]
        BY <2>1
    <2>3. \A i, j \in OnTheirWay' : f[i] = f[j] => i = j
        BY <2>1
    <2> QED
        BY <2>2, <2>3 DEF Injection, IsInjective
<1>2. IsFiniteSet(OnTheirWay) /\ Cardinality(OnTheirWay) \in Nat
    BY OnTheirWayFinite
<1>3. /\ IsFiniteSet(OnTheirWay \ {1})
      /\ Cardinality(OnTheirWay \ {1}) = IF 1 \in OnTheirWay THEN Cardinality(OnTheirWay) - 1
                                                             ELSE Cardinality(OnTheirWay)
    BY <1>2, FS_RemoveElement
<1>4. /\ IsFiniteSet(OnTheirWay')
      /\ Cardinality(OnTheirWay') <= Cardinality(OnTheirWay \ {1})
    BY <1>1, <1>3, FS_Injection
<1>5. 1 \in OnTheirWay <=> toWorker[1].type = "teardown"
    BY Handling DEF OnTheirWay
<1>6. Cardinality(OnTheirWay') \in Nat
    BY <1>4, FS_CardinalityType
<1> QED
    BY <1>3, <1>4, <1>5, <1>6

LEMMA BoundStep ==
    ASSUME CryptorTypeOK, BoundInv, Kinds
    PROVE  BoundInv'
<1>1. /\ toWorker \in Seq(WorkerMessage) /\ session \in Nat /\ MaxSessions \in Nat
      /\ Cardinality(OnTheirWay) \in Nat /\ IsFiniteSet(OnTheirWay)
      /\ session + Cardinality(OnTheirWay) <= MaxSessions
    BY OnTheirWayFinite, BoundsAssumption
    DEF CryptorTypeOK, TypeOK, BoundInv, Teardowns, OnTheirWay
<1>2. SUFFICES session' + Cardinality(OnTheirWay') <= MaxSessions
    BY DEF BoundInv, Teardowns, OnTheirWay
<1>3. ASSUME NEW w \in Seq(WorkerMessage), toWorker' = toWorker \o w,
             \A k \in DOMAIN w : w[k].type # "teardown", session' = session
      PROVE  session' + Cardinality(OnTheirWay') <= MaxSessions
    <2>1. OnTheirWay' = OnTheirWay
        BY <1>1, <1>3, Posting DEF OnTheirWay
    <2> QED
        BY <1>1, <1>3, <2>1
<1>4. CASE Announce
    <2>1. PICK w \in Seq(Quiet) : toWorker' = toWorker \o w
        BY <1>4 DEF Announce
    <2>2. \A k \in DOMAIN w : w[k].type # "teardown"
        <3>1. \A m \in Quiet : m.type # "teardown"
            BY DEF Quiet
        <3> HIDE DEF Quiet
        <3> QED
            BY <3>1
    <2>3. w \in Seq(WorkerMessage)
        BY MessageTypes
    <2>4. session' = session
        BY <1>4 DEF Announce, stateVars
    <2> QED
        BY <1>3, <2>1, <2>2, <2>3, <2>4
<1>5. CASE Post
    <2>1. PICK w \in Seq(KeyMessage) : toWorker' = toWorker \o w
        BY <1>5 DEF Post
    <2>2. \A k \in DOMAIN w : w[k].type # "teardown"
        <3>1. \A m \in KeyMessage : m.type # "teardown"
            BY DEF KeyMessage
        <3> HIDE DEF KeyMessage
        <3> QED
            BY <3>1
    <2>3. w \in Seq(WorkerMessage)
        BY MessageTypes
    <2>4. session' = session
        BY <1>5 DEF Post, stateVars
    <2> QED
        BY <1>3, <2>1, <2>2, <2>3, <2>4
<1>6. CASE detach
    <2>1. session + Cardinality(OnTheirWay) < MaxSessions /\ session' = session
        BY <1>6 DEF detach, Teardowns, OnTheirWay, stateVars
    <2>2. CASE ~initialised
        BY <1>1, <1>6, <2>1, <2>2 DEF detach, OnTheirWay
    <2>3. CASE initialised
        <3> DEFINE n == Len(toWorker)
        <3>1. toWorker' = Append(toWorker, [type |-> "teardown"])
            BY <1>6, <2>3 DEF detach
        <3>2. /\ n \in Nat
              /\ DOMAIN toWorker = 1..n
              /\ DOMAIN toWorker' = 1..(n + 1)
              /\ \A i \in 1..n : toWorker'[i] = toWorker[i]
            BY <1>1, <3>1
        <3> HIDE DEF n
        <3>3. OnTheirWay' \in SUBSET (OnTheirWay \cup {n + 1})
            BY <3>2 DEF OnTheirWay
        <3>4. /\ IsFiniteSet(OnTheirWay \cup {n + 1})
              /\ Cardinality(OnTheirWay \cup {n + 1}) \in Nat
              /\ Cardinality(OnTheirWay \cup {n + 1}) <= Cardinality(OnTheirWay) + 1
            <4>1. /\ IsFiniteSet(OnTheirWay \cup {n + 1})
                  /\ Cardinality(OnTheirWay \cup {n + 1})
                       = IF n + 1 \in OnTheirWay THEN Cardinality(OnTheirWay)
                                                 ELSE Cardinality(OnTheirWay) + 1
                BY <1>1, FS_AddElement
            <4> QED
                BY <1>1, <4>1
        <3>5. /\ IsFiniteSet(OnTheirWay')
              /\ Cardinality(OnTheirWay') <= Cardinality(OnTheirWay \cup {n + 1})
            BY <3>3, <3>4, FS_Subset
        <3>6. Cardinality(OnTheirWay') \in Nat
            BY <3>5, FS_CardinalityType
        <3> QED
            BY <1>1, <2>1, <3>4, <3>5, <3>6
    <2> QED
        BY <2>2, <2>3
<1>7. ASSUME toWorker # <<>>, toWorker' = Tail(toWorker),
             session' = IF toWorker[1].type = "teardown" THEN session + 1 ELSE session
      PROVE  session' + Cardinality(OnTheirWay') <= MaxSessions
    <2>1. /\ Cardinality(OnTheirWay') \in Nat
          /\ Cardinality(OnTheirWay') <= IF toWorker[1].type = "teardown"
                                           THEN Cardinality(OnTheirWay) - 1
                                           ELSE Cardinality(OnTheirWay)
        BY <1>1, <1>7, OneLess
    <2>2. CASE toWorker[1].type = "teardown"
        BY <1>1, <1>7, <2>1, <2>2
    <2>3. CASE toWorker[1].type # "teardown"
        BY <1>1, <1>7, <2>1, <2>3
    <2> QED
        BY <2>2, <2>3
<1>8. ASSUME NEW m \in KeyMessage, Install(m)
      PROVE  session' + Cardinality(OnTheirWay') <= MaxSessions
    <2>1. toWorker # <<>> /\ toWorker' = Tail(toWorker) /\ m = Head(toWorker) /\ session' = session
        BY <1>8 DEF Install, installEpoch
    <2>2. toWorker[1].type # "teardown"
        BY <1>1, <2>1, Handling DEF KeyMessage
    <2> QED
        BY <1>7, <2>1, <2>2
<1>9. CASE Skip
    <2>1. toWorker # <<>> /\ toWorker' = Tail(toWorker) /\ session' = session
        BY <1>9 DEF Skip, stateVars
    <2>2. toWorker[1].type # "teardown"
        BY <1>1, <1>9, <2>1, Handling DEF Skip, Quiet
    <2> QED
        BY <1>7, <2>1, <2>2
<1>10. CASE TornDown
    <2>1. toWorker # <<>> /\ toWorker' = Tail(toWorker) /\ session' = session + 1
        BY <1>10 DEF TornDown, teardown
    <2>2. toWorker[1].type = "teardown"
        BY <1>1, <1>10, <2>1, Handling DEF TornDown
    <2> QED
        BY <1>7, <2>1, <2>2
<1>11. CASE handleWorkerMessage \/ Timer
    <2>1. UNCHANGED <<toWorker, session>>
        BY <1>11 DEF handleWorkerMessage, Timer, WipeTimer, wipeTimerFires, wipeEpoch, stateVars
    <2> QED
        BY <1>1, <2>1 DEF OnTheirWay
<1> QED
    BY <1>4, <1>5, <1>6, <1>8, <1>9, <1>10, <1>11 DEF Kinds

\* A teardown the worker handles is within the bound of WorkerState.
LEMMA CryptorStepIsWorkerStep ==
    ASSUME CryptorTypeOK, BoundInv, Kinds
    PROVE  [Next]_stateVars
<1>1. CASE TornDown
    <2>1. /\ toWorker \in Seq(WorkerMessage) /\ toWorker # <<>> /\ toWorker' = Tail(toWorker)
          /\ teardown
          /\ session \in Nat /\ MaxSessions \in Nat
        BY <1>1, BoundsAssumption DEF TornDown, CryptorTypeOK, TypeOK
    <2>2. 1 \in OnTheirWay
        BY <1>1, <2>1, Handling DEF TornDown, OnTheirWay
    <2>3. Cardinality(OnTheirWay) \in Nat /\ Cardinality(OnTheirWay) # 0
        BY <2>1, <2>2, OnTheirWayFinite, FS_EmptySet
    <2>4. session + Cardinality(OnTheirWay) <= MaxSessions
        BY DEF BoundInv, Teardowns, OnTheirWay
    <2>5. session < MaxSessions
        BY <2>1, <2>3, <2>4
    <2> QED
        BY <2>1, <2>5 DEF Next, TeardownMessage
<1>2. ASSUME NEW m \in KeyMessage, Install(m)
      PROVE  Next
    <2>1. /\ m.epoch \in Epochs /\ m.self \in Peers /\ m.chain \in Chains
          /\ m.peers \in SUBSET Peers /\ m.self \in m.peers
        BY DEF KeyMessage, WorkerMessage
    <2> QED
        BY <1>2, <2>1 DEF Install, EpochMessage, Next
<1>3. CASE Timer
    BY <1>3 DEF Timer, Next
<1>4. CASE Announce \/ Post \/ detach \/ Skip \/ handleWorkerMessage
    BY <1>4 DEF Announce, Post, detach, Skip, handleWorkerMessage
<1> QED
    BY <1>1, <1>2, <1>3, <1>4 DEF Kinds

(***************************************************************************)
(* However the main thread is called, the messages it posts make the       *)
(* worker take only steps of WorkerState, so that what is proved of the    *)
(* worker alone holds of the worker the cryptor drives.                    *)
(***************************************************************************)
THEOREM CryptorDrivesWorkerState == CryptorSpec => Spec
<1>1. CryptorInit => Init /\ BoundInv
    <2> SUFFICES ASSUME CryptorInit PROVE Init /\ BoundInv
        OBVIOUS
    <2>1. Init /\ toWorker = <<>> /\ session = 0
        BY DEF CryptorInit, Init
    <2>2. OnTheirWay = {}
        BY <2>1 DEF OnTheirWay
    <2> QED
        BY <2>1, <2>2, FS_EmptySet, BoundsAssumption DEF BoundInv, Teardowns, OnTheirWay
<1>2. CryptorTypeOK /\ BoundInv /\ [CryptorNext]_cryptorVars => BoundInv' /\ [Next]_stateVars
    <2> SUFFICES ASSUME CryptorTypeOK, BoundInv, CryptorNext \/ UNCHANGED cryptorVars
                 PROVE  BoundInv' /\ [Next]_stateVars
        OBVIOUS
    <2>1. Kinds
        BY StepKinds DEF CryptorTypeOK, CallsTyped
    <2> QED
        BY <2>1, BoundStep, CryptorStepIsWorkerStep
<1> QED
    BY <1>1, <1>2, CryptorTypeCorrect, PTL DEF CryptorSpec, Spec
=============================================================================
