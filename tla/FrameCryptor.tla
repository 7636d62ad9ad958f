---------------------------- MODULE FrameCryptor ----------------------------
(***************************************************************************)
(* FrameCryptor on the main thread (src/src/frame-cryptor.ts), the MLS     *)
(* provider that drives it (src/src/mls/index.ts) and the worker it posts  *)
(* to (WorkerState), with the two message channels between them.           *)
(*                                                                         *)
(* setEpoch is suspended while it derives the key table, applyEpoch before *)
(* that in the MLS exporter.  Nothing holds back a second call, or detach, *)
(* meanwhile.  Encoding is left to WorkerState.                            *)
(***************************************************************************)
EXTENDS WorkerState, Sequences, FiniteSetsExt

CONSTANTS
    Endpoints, \* RTP senders and receivers
    CallSlots, \* calls of setEpoch and applyEpoch open at a time
    NoCall,    \* a free slot
    MaxCalls   \* bound on the calls of setEpoch and applyEpoch

ASSUME NoCallAssumption ==
    NoCall \notin [stage : {"export", "derive"},
                  params : [epoch : Epochs, self : Peers, chain : Chains, peers : SUBSET Peers]]

VARIABLES
    role,         \* "sender" or "receiver"
    support,      \* the transform APIs the browser has
    initialised,  \* this.initialised
    listening,    \* this.workerListener is set
    appliedEpoch, \* this.appliedEpoch
    attached,     \* endpoints with an entry in this.attached
    calls,        \* the suspended calls
    disposed,     \* the MLS provider is disposed of
    toWorker,     \* messages posted to the worker
    toMain,       \* epoch_applied messages posted to the main thread
    posted,       \* history: epochs posted since the last teardown message
    late,         \* history: an epoch was posted to a cryptor that is detached
    made          \* history: calls made

mainVars == <<role, support, initialised, listening, appliedEpoch, attached, calls, disposed>>
channelVars == <<toWorker, toMain>>
history == <<posted, late, made>>
cryptorVars == <<stateVars, mainVars, channelVars, history>>

Params == [epoch : Epochs, self : Peers, chain : Chains, peers : SUBSET Peers]
Call == [stage : {"export", "derive"}, params : Params]
WorkerMessage ==
    [type : {"init", "streams", "teardown"}]
    \cup {m \in [type : {"epoch", "rotate"}, epoch : Epochs, self : Peers, chain : Chains,
                 peers : SUBSET Peers] : m.self \in m.peers}

\* A key table is derived and posted only for a peer that is in it itself.
CryptorTypeOK ==
    /\ TypeOK
    /\ {initialised, listening, late} \subseteq BOOLEAN
    /\ appliedEpoch \in Epochs \cup {-1}
    /\ calls \in [CallSlots -> Call \cup {NoCall}]
    /\ \A s \in CallSlots :
          calls[s] # NoCall /\ calls[s].stage = "derive" =>
              calls[s].params.self \in calls[s].params.peers
    /\ toWorker \in Seq(WorkerMessage)
    /\ toMain \in Seq(Epochs)
    /\ posted \subseteq Epochs

\* The constructor; without allowTransitOnly it throws where support is empty.
CryptorInit ==
    /\ Init
    /\ role \in {"sender", "receiver"}
    /\ support \in SUBSET {"native", "fallback"}
    /\ initialised = FALSE
    /\ listening = TRUE
    /\ appliedEpoch = -1
    /\ attached = {}
    /\ calls = [s \in CallSlots |-> NoCall]
    /\ disposed = FALSE
    /\ toWorker = <<>>
    /\ toMain = <<>>
    /\ posted = {}
    /\ late = FALSE
    /\ made = 0

-----------------------------------------------------------------------------
transitOnly == support = {}

ensureInit == IF initialised THEN <<>> ELSE <<[type |-> "init"]>>

(***************************************************************************)
(* attachSender and attachReceiver.  The native constructor may reject the *)
(* worker; then the fallback is tried, and without one the endpoint stays  *)
(* untransformed.                                                          *)
(***************************************************************************)
attach(x) ==
    /\ ~transitOnly
    /\ x \notin attached
    /\ initialised' = TRUE
    /\ \/ /\ "native" \in support
          /\ attached' = attached \cup {x}
          /\ toWorker' = toWorker \o ensureInit
       \/ /\ "fallback" \in support
          /\ attached' = attached \cup {x}
          /\ toWorker' = toWorker \o ensureInit \o <<[type |-> "streams"]>>
       \/ /\ "fallback" \notin support
          /\ attached' = attached
          /\ toWorker' = toWorker \o ensureInit
    /\ UNCHANGED <<stateVars, role, support, listening, appliedEpoch, calls, disposed,
                   toMain, history>>

(***************************************************************************)
(* applyEpoch of the MLS provider: deriveMlsEpochMaterial awaits the       *)
(* exporter, then setEpoch is called.  A dispose in between is not seen.   *)
(***************************************************************************)
Called(s, call) ==
    /\ calls[s] = NoCall
    /\ made < MaxCalls
    /\ made' = made + 1
    /\ calls' = [calls EXCEPT ![s] = call]

applyEpoch(s, p) ==
    /\ ~disposed
    /\ Called(s, [stage |-> "export", params |-> p])
    /\ UNCHANGED <<stateVars, role, support, initialised, listening, appliedEpoch,
                   attached, disposed, channelVars, posted, late>>

dispose ==
    /\ ~disposed
    /\ disposed' = TRUE
    /\ UNCHANGED <<stateVars, role, support, initialised, listening, appliedEpoch,
                   attached, calls, channelVars, history>>

\* setEpoch up to its await; a map without the peer itself is refused, after
\* the init message.
StartDerivation ==
    /\ initialised' = TRUE
    /\ toWorker' = toWorker \o ensureInit
    /\ UNCHANGED <<stateVars, role, support, listening, appliedEpoch, attached, disposed,
                   toMain, posted, late>>

setEpoch(s, p) ==
    /\ p.self \in p.peers
    /\ Called(s, [stage |-> "derive", params |-> p])
    /\ StartDerivation

setEpochWithoutSelf ==
    /\ ~initialised
    /\ StartDerivation
    /\ UNCHANGED <<calls, made>>

exporterDone(s) ==
    /\ calls[s] # NoCall
    /\ calls[s].stage = "export"
    /\ calls' = [calls EXCEPT ![s] = IF @.params.self \in @.params.peers
                                       THEN [@ EXCEPT !.stage = "derive"] ELSE NoCall]
    /\ StartDerivation
    /\ UNCHANGED made

(***************************************************************************)
(* The key table is derived and posted, for a sender twice, whatever else  *)
(* was posted meanwhile.                                                   *)
(***************************************************************************)
Message(type, p) ==
    [type |-> type, epoch |-> p.epoch, self |-> p.self, chain |-> p.chain, peers |-> p.peers]

deriveDone(s) ==
    /\ calls[s] # NoCall
    /\ calls[s].stage = "derive"
    /\ LET p == calls[s].params
       IN  /\ toWorker' = toWorker \o <<Message("epoch", p)>>
                            \o (IF role = "sender" THEN <<Message("rotate", p)>> ELSE <<>>)
           /\ posted' = posted \cup {p.epoch}
    /\ late' = (late \/ ~initialised)
    /\ calls' = [calls EXCEPT ![s] = NoCall]
    /\ UNCHANGED <<stateVars, role, support, initialised, listening, appliedEpoch,
                   attached, disposed, toMain, made>>

\* The exporter or the derivation rejects.
callFails(s) ==
    /\ calls[s] # NoCall
    /\ calls' = [calls EXCEPT ![s] = NoCall]
    /\ UNCHANGED <<stateVars, role, support, initialised, listening, appliedEpoch,
                   attached, disposed, channelVars, history>>

\* A mutant: the teardown is posted only where a transform is attached.
detachOnlyAttached ==
    /\ attached # {} \/ listening
    /\ attached' = {}
    /\ listening' = FALSE
    /\ initialised' = FALSE
    /\ toWorker' = IF attached # {} THEN Append(toWorker, [type |-> "teardown"]) ELSE toWorker
    /\ posted' = IF attached # {} THEN {} ELSE posted
    /\ late' = FALSE
    /\ UNCHANGED <<stateVars, role, support, appliedEpoch, calls, disposed, toMain, made>>

\* The listener is removed for good: nothing installs it again.
Teardowns == session + Cardinality({i \in DOMAIN toWorker : toWorker[i].type = "teardown"})
detach ==
    /\ attached # {} \/ listening \/ initialised
    /\ Teardowns < MaxSessions
    /\ attached' = {}
    /\ listening' = FALSE
    /\ initialised' = FALSE
    /\ toWorker' = IF initialised THEN Append(toWorker, [type |-> "teardown"]) ELSE toWorker
    /\ posted' = IF initialised THEN {} ELSE posted
    /\ late' = (late /\ ~initialised)
    /\ UNCHANGED <<stateVars, role, support, appliedEpoch, calls, disposed, toMain, made>>

-----------------------------------------------------------------------------
(***************************************************************************)
(* handleMessage of the worker, and handleWorkerMessage of the main        *)
(* thread.  The ready message is ignored there and left out.               *)
(***************************************************************************)
\* A mutant: every epoch message is answered.
AppliedAlways(m) == Append(toMain, m.epoch)
\* installEpoch reports an epoch that becomes current.
Applied(m) == IF m.epoch > currentEpoch THEN Append(toMain, m.epoch) ELSE toMain

handleMessage ==
    /\ toWorker # <<>>
    /\ toWorker' = Tail(toWorker)
    /\ LET m == Head(toWorker)
       IN  \/ /\ m.type \in {"init", "streams"}
              /\ UNCHANGED <<stateVars, toMain>>
           \/ /\ m.type \in {"epoch", "rotate"}
              /\ installEpoch(m.epoch, m.self, m.chain, m.peers)
              /\ toMain' = Applied(m)
           \/ /\ m.type = "teardown"
              /\ teardown
              /\ UNCHANGED toMain
    /\ UNCHANGED <<mainVars, history>>

handleWorkerMessage ==
    /\ toMain # <<>>
    /\ toMain' = Tail(toMain)
    /\ appliedEpoch' = IF listening THEN Head(toMain) ELSE appliedEpoch
    /\ UNCHANGED <<stateVars, role, support, initialised, listening, attached, calls,
                   disposed, toWorker, history>>

graceTimer == WipeTimer /\ UNCHANGED <<mainVars, channelVars, history>>

Calling ==
    \E s \in CallSlots :
        \/ exporterDone(s) \/ deriveDone(s) \/ callFails(s)
        \/ \E p \in Params : applyEpoch(s, p) \/ setEpoch(s, p)

CryptorNext ==
    \/ \E x \in Endpoints : attach(x)
    \/ Calling \/ setEpochWithoutSelf \/ dispose \/ detach
    \/ handleMessage \/ handleWorkerMessage \/ graceTimer

CryptorSpec == CryptorInit /\ [][CryptorNext]_cryptorVars

-----------------------------------------------------------------------------
(***************************************************************************)
(* Properties                                                              *)
(***************************************************************************)

\* However overlapping calls of setEpoch and applyEpoch end, and whatever was
\* detached in between, once the worker has handled its messages it sends under
\* the highest epoch posted since the last teardown, and still has its keys
\* (setEpoch posts after an await, installEpoch takes epochs in any order).
LatestEpochWins ==
    toWorker = <<>> =>
        /\ currentEpoch = Max(posted \cup {-1})
        /\ currentEpoch # -1 => Installed(currentEpoch)

\* As long as the cryptor has not been detached, getAppliedEpoch tells the
\* epoch the worker sends under, up to the messages on their way: reports never
\* come out of order or for an epoch that did not become current
\* (installEpoch's emit, handleWorkerMessage).
AppliedEpochTracks ==
    listening =>
        (IF toMain = <<>> THEN appliedEpoch ELSE toMain[Len(toMain)]) = currentEpoch

\* A detached cryptor whose worker has handled its messages holds no keys,
\* except where a call of setEpoch posted after the detach (detach posts a
\* teardown, setEpoch does not look again whether it is still initialised).
DetachedHoldsNoKeys ==
    ~initialised /\ toWorker = <<>> /\ ~late => \A e \in Epochs : ~Installed(e)

(***************************************************************************)
(* The inductive invariants of the proofs.                                 *)
(***************************************************************************)
NoTeardownAfter(i) == \A j \in DOMAIN toWorker : j > i => toWorker[j].type # "teardown"
InSession(i) == toWorker[i].type \in {"epoch", "rotate"} /\ NoTeardownAfter(i)

\* An epoch posted since the last teardown message is on its way behind that
\* message, or the worker has handled it and is at it or past it.
PostedInv ==
    /\ \A i \in DOMAIN toWorker : InSession(i) => toWorker[i].epoch \in posted
    /\ \A e \in posted :
          \/ \E i \in DOMAIN toWorker : InSession(i) /\ toWorker[i].epoch = e
          \/ NoTeardownAfter(0) /\ e <= currentEpoch
    /\ NoTeardownAfter(0) => currentEpoch \in posted \cup {-1}

\* The listener goes before the teardown message comes, and a cryptor that is
\* detached has posted nothing since, but for calls that outlived the detach.
DetachInv ==
    /\ listening => NoTeardownAfter(0) /\ AppliedEpochTracks
    /\ ~initialised /\ ~late => posted = {}

\* Teardown messages on their way are within the bound.
BoundInv == Teardowns <= MaxSessions
=============================================================================
