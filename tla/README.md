# A verification development for sframe-ratchet

TLA+ models of the concurrent core of `sframe-ratchet`, a browser library for
end-to-end encrypted WebRTC media (SFrame, RFC 9605) and chat, with TLC
configurations that check them on small instances and TLAPS proofs of the
central invariants. `PROJECT.json` maps every definition to the source lines it
stands for, and lists runs, mutants, findings, hazards and theorems.

## The system

The **main thread** holds a `RoomRatchet` (`ratchet.ts`), which moves the room
from epoch to epoch as members come and go, and one `FrameCryptor`
(`frame-cryptor.ts`) per role, which derives per-sender keys and posts them to a
**worker**. The worker seals and opens encoded frames in stream transforms
(`worker-frame.ts`) under keys it keeps in its own state (`worker-state.ts`). A
**chat** layer (`chat/`) seals messages with counters and replay windows that
outlive a reload in IndexedDB; an **MLS adapter** (`mls/`) feeds both.

| Component | State | Operations | What is hard | Correct when |
|---|---|---|---|---|
| worker key state | epochs, current epoch, stale gate, counter, grace timers | epoch, rotate, teardown messages; timer | messages late, repeated, out of order; timers set for an earlier state | the current epoch is never lost; superseded keys go; no nonce twice |
| encoding path | counter, a frame per pipe | `encodeFrame` | pipes suspended in WebCrypto share a counter | nonces are unique |
| decoding path | pre-epoch queue, drain flags, replay windows, failure counts, format cache | `decodeFrame`, `drainPreEpochQueue` | checks before an await, bookkeeping after it; drains that overlap | no frame orphaned, bounded queue, bounded drift of the gates |
| ratchet retry | cached key, promise map | `tryDecryptWithRatchet` | callers waiting on callers | one loop, forward only, own plaintext, every call ends |
| replay window | recent counters | check, accept, clear | eviction | the last *n* distinct counters |
| frame cryptor | initialised flag, applied epoch, message channels | setEpoch, attach, detach | overlapping calls await before they post; detach meanwhile | the highest epoch posted wins; a detached worker has no keys |
| room ratchet | epochs, members, SAS | startNewEpoch, consume, rotate, forget | overlapping rotations, forget timers | members converge, old chain keys are forgotten |
| durable replay guard | memory cache, IndexedDB, persist chain | check, accept, clear | tabs, crashes, eviction during a write | an accepted counter is never accepted again |
| chat counters | IndexedDB counter | next | tabs, locks, a commit lost after its answer | counters unique |
| chat providers | per-room keys, windows | seal, unseal, rotate, setEpoch | rotation during an unseal | messages open once, under the right key |
| MLS adapter | disposed flag | applyEpoch | epochs and indices at their limits | an epoch is refused only if it does not fit |
| KID formats, header codec | none | encode, decode | fields of 16, 32, 53 and 64 bits | a frame leads to the key of its sender |

Components interact by messages (main thread to worker, in order), by calls
within the worker's one thread, by promises (ratchet retry), by timers, and,
between tabs, by IndexedDB and Web Locks.

## Modules

* **WorkerState** - `worker-state.ts` and `encodeFrame`. Variables are the fields
  of `WorkerState`; a message handler or timer callback is one action because it
  runs to completion; `encodeFrame` is two, before and after WebCrypto
  (`encodeStart`, then `encodeDone` or `encodeFail`). A sender key is determined
  by epoch, chain key and peer. `wire` and `session` are history.
* **FrameFormat**, **ReplayWindow** - pure operators: the prefix table and
  candidate list of the format probe; `SlidingReplayWindow`.
* **WorkerFrame** - the decoding path; extends the three above. The *tasks* are
  the decoding pipes and the drain loop. A task is idle or suspended, in
  `probeFormat` or in `tryDecryptWithRatchet`; everything between suspensions is
  one action (`Arrive`, `ProbeDone`, `tryDecryptWithRatchet`, `DrainNext`,
  `DrainEnd`). While the drain loop is between two frames nothing else runs
  (`DrainRunning`). What a suspended task captured - its key, its epoch entry,
  its replay window - is part of its state, so installs, wipes and teardowns
  under its feet have the code's effect. A frame is reduced to its header
  fields, the chain and ratchet step that sealed it, its format and whether it
  has the SIF trailer. Histories: `parked`, `lost`, `opened`, `passedOn`.
* **RatchetDedup** - every await of `tryDecryptWithRatchet` for one sender and
  epoch. Completions of WebCrypto are tasks; continuations of a settled promise
  run before the next task, the owner first and then waiters in the order in
  which they began to wait. That order is what JavaScript guarantees, and
  `SingleLoop` depends on it.
* **MCWorkerFrame** - the frames of the instances of WorkerFrame.
* **RoomRatchet** - the ratchets of all nodes of a room, which peer is told of
  which change, and the announcements between them. A record per node has the
  fields of `RoomRatchet` and the calls it has suspended: in the derivation of
  the key table (`deriveDone`), in a wrap (`wrapDone`), in the SAS (`sasDone`). The
  awaits of `consumeEpochAnnouncement` before `installEpoch` touch no state and
  are part of its start. A suspended wrap refers to the *buffer* of the chain
  key, so that `forgetEpoch` zeroizes it under the call's feet. The author wraps
  for members in any order, of which the code's is one. Signaling is the
  application's: every node is told of changes in one order, and announcements
  from one node to another stay in order; nothing else is assumed of delivery.
  `known` (chain keys a node has unwrapped, also after it left) and `compared`
  (SAS that users found equal) are history.
* **ChatReplay** - `unseal` and `rotate` of the chat provider with the
  `DurableReplayGuard`, in several tabs. A record per tab has the maps of the
  provider and of the guard, the unseal calls it has suspended (in the
  derivation, before the windows are checked, in a hydration, in the decryption,
  in a persist), the chain of persists and the IndexedDB transactions not yet
  reported. A transaction takes effect when it is created, since IndexedDB orders
  those of one store so, and is reported later; between the two, other tabs and
  calls run. A `MemWindow` is a place in a heap, because calls and persists keep
  it when the cache has dropped it. Web Locks are one lock per key; `reload` loses
  the tab, its locks and what it had not created, and keeps the store. A key
  stands for a room with one sender. Any message sealed so far may be delivered
  any number of times. History: what was `written` since the last rotation, and
  what a session `knows` (what was written when it began, what it recorded).
* **MCChatReplay** - how the rooms are spread over the tabs, and the symmetry.
* **FrameCryptor** - `FrameCryptor` and the MLS provider on the main thread,
  composed with WorkerState over two channels of messages, each in order. A call
  of `applyEpoch` is suspended in the MLS exporter and then, like one of
  `setEpoch`, in the derivation of the key table; it posts when that is done,
  whatever was posted or detached meanwhile. `posted` (epochs posted since the
  last teardown message) and `late` (posted to a detached cryptor) are history.
  **MCFrameCryptor** makes the call slots symmetric.
* **CtrAllocator** - `MonotonicIdbCtrAllocator` in several tabs: each call of
  `next()` awaits the database, the Web Lock where there is one, and a
  transaction. Transactions of the store run one after the other in the order of
  their creation; the first one answers its get and its put, then commits or is
  lost. The promise is resolved, and the lock given back, at the put.
* **UniqueCounter** - what an allocator promises: each grant is the next number,
  whoever asks, and a number is granted again only after the counter was set
  back. CtrAllocator maps to it with the counter taken to have moved on as soon
  as the put has succeeded, and a lost commit as the step that sets it back.
* **MlsChat** - `createMlsChatProvider` over CtrAllocator, for one room and sender:
  `setEpoch` (suspended in the derivation), `seal` (in the allocator, then in the
  encryption), `unseal` (in the decryption), `clearEpoch` and `dispose`. An unseal
  keeps the window it began with, which a `setEpoch` may have dropped from the map
  meanwhile (`live`). The durable guard is ChatReplay's subject and is off here.
* **FrameAddressing** - from the leaves of an MLS group to the key that opens a
  frame: `deriveMlsEpochMaterial`, `buildPeerIndexMap`, the key table, both KID
  codecs, `serializeHeader`, `parseHeader` and `sframeDecrypt` up to the AEAD. All
  widths (byte, 16-, 32-, 53- and 64-bit integers) are constants; what throws a
  RangeError is `Thrown`. The shift of `(1 << nEpochBits) - 1` is a signed one with
  its count taken modulo the word, as in JavaScript. **MCFrameAddressing** gives
  the configurations and groups.
* **WorkerStateProofs**, **WorkerFrameProofs**, **RatchetDedupProofs**,
  **FrameCryptorProofs**, **MlsChatProofs**, **FrameAddressingProofs**,
  **RoomRatchetProofs** and **ChatReplayProofs** - theorems.

In the modules, operators named after a definition with a variant suffix
(`drainWithoutPendingFlag`, `installEpochResettingCtr`, `maxEpochExclusive`...) are its mutants: bugs
the code could have had, used to confirm that each property can fail.

## Runs

| Run | Instance | What it shows |
|---|---|---|
| `worker_state` | epochs 0..2, one peer, two encoding pipes, one teardown, 2 frames | `CurrentEpochSurvives`, `NonceUniqueInSession`, `SupersededIsWiped` hold. Three epochs allow one to be skipped, repeated and installed late; two pipes to race for the counter |
| `receive_park` | two epochs, one pipe and the drain loop, cap 2, three frames, one teardown | `NoOrphan`, `QueueBounded`, `FirstFrameSurvives`, `ParkedIsDrained`. Three frames overflow the cap; two epochs make one drain interrupt another |
| `receive_gates` | one epoch, two pipes and the drain loop, four frames (good, one ratchet step ahead, unopenable), tolerance -1 or 0, an encoding pipe | `ReplayBound`, `InvalidationBound`: check-then-record across an await lets through at most one copy, and at most one failure too many, per task. Four frames exceed three tasks by one |
| `ratchet_dedup` | two callers, three frames each, window 2, steps 0..4 or unopenable | `SingleLoop`, `CursorForward`, `NoOvershoot`, `NoStalePromise`, `CallsReturn` |
| `room_rotation` | three nodes of which one stays, three joins or leaves, one repeated wrap, calls awaited one after the other | `RoomAgrees`, `CanSend`, `OutsidersExcluded`, `NoZeroedKey`, `SasAgrees`, `VerifiedWasCompared`, `OldEpochsForgotten`. Three changes let a member leave and come back under a new key while announcements for it are on their way |
| `chat_replay` | one tab with two rooms and caches for one, or two tabs with the same room; two counters, three unseal calls, two at a time, a reload, and a rotation or a failure of IndexedDB | `ReplayRefused`, `GuardRemembers`, `EveryWaitEnds`, `RetiredKeyNeedsOverlap`. Two rooms evict each other's windows before, during and after a persist; two tabs merge into one record; three calls are two recordings and a replay |
| `frame_cryptor` | epochs 0..2, two calls open at a time, three calls in all, one endpoint, one teardown | `LatestEpochWins`, `AppliedEpochTracks`, `DetachedHoldsNoKeys`. Three epochs arrive in any order; two overlapping calls straddle the detach |
| `chat_mls` | two tabs of one user, one of which reads; two epochs, three setEpoch calls, a lost commit, a reload, with and without Web Locks | `NonceReuseBounded`, `OpenedOnce`, `EverySealCanEnd`, and `CounterImplemented`: the allocator implements UniqueCounter. The lost commit and the reload may strike between any two steps |
| `frame_addressing` | all widths divided by 8 (KIDs of 4 bits, counters of 8); the fixed format and MLS formats of 0 to 8 bits per field with contexts 0 and 1; groups of 2, 3 (two leaves of one identity) and 5; epochs 0 to 8, two of them in one behaviour; frames cut at every byte | `FrameReachesItsKey`, `RefusedOnlyIfTooLarge`, `KeyPerIdentity`. Every field is taken to its limit and past it |
| `iv_across_teardown` | as `worker_state` | **violated**: see findings |
| `adopted_plaintext` | three callers, one frame each | **violated** |
| `split_brain` | as `room_rotation`, two calls open at a time, no repeated wrap | **violated** |

`CHECK_DEADLOCK FALSE` wherever the bounds on arriving frames or calls let the
model come to rest; a worker without input really is at rest.

### Findings

1. *Nonce reuse across teardown.* `teardown` restarts the counter;
   `FrameCryptor.detach` posts it, and attaching again with the same epoch and
   chain key seals counter 0 a second time under the same key. Within a session
   uniqueness is proved.
2. *Adopted plaintext.* The re-check in `tryDecryptWithRatchet` returns what
   another caller's promise resolves to, which is another frame's plaintext.
3. *Split brain.* `startNewEpoch` takes its version before it awaits. An author
   that handles two member changes without awaiting the first mints two chain
   keys for one version; members end with different keys for it. With one call
   at a time the room converges.

### Findings without a run

*Sealed frames go downstream.* After `enqueuePreEpoch`, `decodeFrame` returns
normally, so `pipe` enqueues the parked frame as ciphertext (`Park` has
`PassOn(t, "sealed")`); the drain then opens a frame that has already left.
*VP8 format cache.* The remembered prefix length is that of a key frame (10) or
of an inter frame (3), and is used for both kinds. *Stale chat key.*
`deriveAesKeyAndSalt` fills the cache after its awaits; one that began before
`rotate` and ends after it puts the retired key back, and every later call of the
room finds it there until the next `rotate`. `RetiredKeyNeedsOverlap` shows that
this is the only way. *Epoch mask.* For 31 epoch bits `(1 << nEpochBits) - 1` is
negative and the MLS provider refuses every epoch; from 32 bits on the shift count
wraps and it refuses all but the first few. `mls/index.ts:81` promises
`2^nEpochBits - 1`; `RefusedOnlyIfTooLarge` is stated for fewer bits.
*Counter after a lost commit.* `atomicIncrement` resolves on the success of the put
and listens to `tx.onerror` but not to abort; a commit lost after it gives the next
caller the same number (`NonceReuseBounded`: one reuse for each loss). Web Locks
do not matter to this, nor to uniqueness at all: IndexedDB already serialises the
transactions, and the lock is given back before the commit.

Met while modelling and recorded without a run: a drain suspended
during a teardown parks the frames of the old session in the queue of the new
one (which is why `FirstFrameSurvives` speaks of a worker not torn down yet);
with three callers, or two and a teardown, two retry loops can run at a time
(`SingleLoop` is for two); an epoch installed below the current one has no grace
timer until the next advance; the drain loop does not strip the SIF trailer
that `decodeFrame` strips; a frame whose step 0 is tried with the old key while
another caller's loop advances it is lost, as its own retry loop starts one step
after the new key; `QueueFullError`'s documentation says the oldest frame
is dropped, the code drops the newest. In the ratchet: announcements consumed out of
order install an epoch below the current one, for which no forget timer is ever
set; `startNewEpoch` skips a member that is the node itself when it wraps, but
the node is then twice in the list that `buildPeerIndexMap` numbers; if the
author leaves while its last epoch is on its way, the next author can mint the
same version again. In chat: `rotate` in one tab deletes the
counters another tab wrote under the new key; a persist that has read the record
before the delete of a rotation writes the old counters back after it; `clear`
ends by deleting the `hydrating` entry of a hydration begun after it, so that two
hydrations run and the later one replaces a window with recorded counters (for
these reasons the replay properties exclude rooms rotated in the session); a room
whose windows `evictOldReplayRooms` has dropped is not cleared in the store by
`rotate`; `accept` of a counter that another call has recorded returns before that
call's persist is done; the merge of two tabs keeps this tab's counters before
more recent ones of the other; copies of a message that arrive together are all
checked before one is recorded. In the MLS chat provider: a `setEpoch` that ends
late installs an older epoch over a newer one; `seal` takes its key before it
awaits its counter and may seal under a superseded epoch; `unseal` never
compares the sender of its context with the peer of the KID, though `mls.ts:123`
promises an error on a uid mismatch; `setEpoch` zeroizes the caller's buffer,
which `mls.ts:111` denies, and so a second call with it derives from zeros; a
window dropped while an unseal is suspended loses that unseal's counter. A database
that fails to open once leaves the allocator of the page rejecting for good. On
the main thread: `detach` removes the worker listener and nothing installs it
again, so `getAppliedEpoch` is stale when the cryptor is used once more
(`AppliedEpochTracks` is for one that has not been detached); a `setEpoch` that
outlives `detach` leaves its keys in the torn-down worker (`DetachedHoldsNoKeys`
excludes it); `applyEpoch` outlives `dispose`, and its chain key is not zeroized
when a later step throws. `deriveMlsEpochMaterial` discards the result of
`validatePeerIndexMap`: two leaves with one credential identity leave a gap in
the map and share a key, with counters of their own (`KeyPerIdentity` says that
only they do). Replay windows in the worker are created from headers that are not
authenticated, without a bound.

### Fairness

Only what the platform guarantees: a timer that is set fires unless cleared
(`FairSpec` of WorkerState), WebCrypto answers and continuations run
(`FairFrameSpec`, `FairSpec` of RatchetDedup). The waits of the chat modules are
checked as invariants (`EveryWaitEnds`, `EverySealCanEnd`: what is waited for is on
its way), which needs no fairness. Nothing is assumed of the
network, of the main thread or of which frames arrive.

## Proofs

Every proof module extends the module it is about. A safety property is proved
from an inductive invariant that strengthens it; TLC has confirmed those
invariants on the runs' instances, and each is there for the reason given. All hold for every value of the constants that the
named assumptions allow; TLC evaluates those assumptions in the runs. They say
that epochs, counters and bounds are natural numbers, that sets that are counted
are finite, and that the values for "nothing" (`NoEntry`, `Idle`, `None`, ...)
differ from what they stand beside. Where a theorem needs more it says so in an
ASSUME of its own, named below.

**WorkerStateProofs**

* `TypeCorrect`: `Spec => []TypeOK`.
* `CurrentEpochIsKept`: `Spec => []CurrentEpochSurvives`. The property is not
  inductive: that the timer which fires is not that of the current epoch needs
  that *every* pending timer is below it, and that an install of a higher epoch
  makes it so needs that every installed epoch is at most the current one.
  `EpochInv` adds these and that the gate stays at or below the current epoch.
* `NoncesAreUnique`: `Spec => []NonceUniqueInSession`. `NonceInv` adds that every
  nonce of this session, sent or in flight, is behind the counter: of an earlier
  epoch, or of this epoch with a smaller counter. An install of a higher epoch
  may then restart the counter; a repeated one does not.

**WorkerFrameProofs** (the cap of the queue is at least 1: `init` takes any
positive number and rounds it down, so a fraction below 1 gives a cap of 0, which
is outside the assumption)

* `FramePathKeepsKeyState`: every step of the decoding path is a step of
  WorkerState or leaves its variables alone. The theorems above therefore hold of
  WorkerFrame, and `EpochInv` is used in the proofs below.
* `FrameTypeCorrect`, `QueueStaysBounded`: the bound follows from the guards of
  `pushToQueue` and needs the types only.
* `NoFrameIsOrphaned`, where `OnePrefix`: the codec leaves as many bytes in the
  clear in every frame as the sender does. Without it the probe may settle on a
  wrong offset and park a frame again for a key it misread, while the true one is
  there; h264, opus and no codec satisfy it. `FitInv` carries it into the format
  cache and the suspended tasks.
* `FailuresAreBounded`: the count alone says nothing of the attempts under way,
  so `FailureInv` adds to it the tasks suspended in a decryption of that slot: a
  task that passes `isKeyInvalid` moves from neither to the second, and a failure
  from the second to the first.
* `ReplaysAreBounded`: likewise `ReplayInv` adds the tasks that were let past the
  window and will record in it, and that a counter opened is in the window, so
  that none passes after the first was recorded. It rests on `AcceptRemembers`: a
  window at least as large as the set of counters evicts nothing. What a smaller
  window keeps is not stated. (MlsChatProofs has its own copy of the lemma.)
* `OldestFramesStay`, for caps of at least 2: the order of the queue is preserved
  only because before the first teardown new frames are parked only while no
  drain runs. `OrderInv` says that the frames drained and parked again, the one in
  hand and the ones to come are in the order of their arrival and fit the cap
  together. With a cap of 1 the newest queued frame is also the oldest, and goes.

**RatchetDedupProofs** - for any number of callers: `RatchetTypeCorrect`,
`PromisesAreLive`, `KeyIsTheSenders` (with `LoopInv`: a promise is running exactly
while its owner is in the loop of that call, and none is settled before it has
begun). For two callers (`TwoCallers`; with three it is false): `OneLoopAtATime`
and `KeyMovesForward`, from `PairInv`, which says what the other caller may be
doing while one is in its loop or about to start one.

**FrameCryptorProofs** - `CryptorTypeCorrect`; `LatestEpochIsUsed` from
`PostedInv`: an epoch posted since the last teardown message is still in the
channel behind it, or the worker has handled it and is at it or past it;
`ReportsAreInOrder` and `DetachEmptiesTheWorker` from `DetachInv` besides: a cryptor
that listens has no teardown message on its way, and a detached one has posted
nothing since, but for calls that outlived the detach; `CryptorDrivesWorkerState`, the refinement of
WorkerState by the composition.

**MlsChatProofs** - `AllocatorIsCounter`: CtrAllocator implements UniqueCounter.
`TxInv` says that the transaction in front is the only one that has read, and has
read the counter; the mapping takes the counter as moved on once the put of that
transaction has succeeded. `NoSealIsStuck`, from `LockInv`: which stages of a call
go with the lock queue and the transactions. `NoncesAreUsedOnce`: without a lost
commit no epoch and counter seal twice (`ReuseInv`: what was used is below the
counter the callers see, and calls that hold a number hold different ones); this
is `NonceReuseBounded` for no losses. `ReusesAreLosses`: `NonceReuseBounded` in
full, one reuse at most for each lost commit. The reuses made so far are not enough
for the induction, since two calls may already hold a number that neither has
sealed with. `LossInv` adds these: what a number owes (`Owed`) is the calls that
hold it, one more if it was ever used, less the one grant that is still behind the
counter the callers see; reuses made and owed are together at most the commits
lost. A lost commit sets the counter back by one number and raises what is owed by
one. Sums over a finite set are handled by a least subset on which they would go
wrong. `ReplaysAreRefused`, where
`WindowCoversCounters`: the window is at least as large as the set of counters;
`WindowInv` adds that the window of a page holds every counter it recorded.

**FrameAddressingProofs** - for all widths in the proportions of the code
(`WidthAssumption`: a KID has a whole number of bytes and two halves, a counter two
KIDs, the safe integers lie between; the 8, 16, 32, 53 and 64 bits of the code are
an instance), every configuration, every group with at least one leaf and every
history of it (`RoomAssumption`):

* `KeysPerIdentity`, `RefusalsAreDue`, `FramesReachTheirKeys`: `KeyPerIdentity`,
  `RefusedOnlyIfTooLarge` and `FrameReachesItsKey` always hold. `AddrInv`
  (`AddrCorrect`) is what they need of a history: an epoch keeps its members, it was
  applied if it could be derived and refused only if it could not, with the codec
  in place, and the frame on its way is what a member of an applied epoch sealed, or
  its first bytes.
* The rest is about the operators. The provers know nothing of powers: that
  2^(a + b) = 2^a * 2^b comes from 2^n being the number of subsets of n things
  (`PowerSum`). What `fixedBigEndian` or `minimalBigEndian` writes, `readBigEndian`
  reads (`WriteThenRead`), so `parseHeader` finds in the first bytes of a frame
  nothing, or the KID and the counter that were sealed (`HeaderRead`). `decode` gives
  back what `encode` took (`DecodeEncoded`), and where some KID decodes to an epoch
  and an index, `encode` does not throw (`EncodeDecoded`). Ranks of different
  identities differ (`IndexPerIdentity`).

**RoomRatchetProofs** - for every set of nodes, every bound and any number of
overlapping calls (so also where the room splits):

* `RoomTypeCorrect`: `RoomSpec => []RoomTypeOK`.
* `SendersHaveKeys`: `RoomSpec => []CanSend`. Not inductive: `forgetEpoch` needs
  that every pending timer is for an epoch below the current one, and
  `installEpoch` needs that a suspended call carries a map with its node in it,
  which `startNewEpoch` builds and `consumeEpochAnnouncement` checks. `RoomSound`
  adds both.
* `VerifiedMeansCompared`: `RoomSpec => []VerifiedWasCompared`, inductive together
  with the types.

and for `OneCallAtATime` (one slot per node, so that an application awaits a call
before it makes the next, and at least one node that stays; the `split_brain` run
shows what overlapping calls do):

* `RoomConverges`, `OutsidersAreExcluded`, `SasIsShared`, `NoZeroedKeyIsShared`:
  `RoomAgrees`, `OutsidersExcluded`, `SasAgrees`, `NoZeroedKey` always hold. They
  are about a room at rest, so the invariant has to say how it gets there, and has
  a part for each thing that is on its way. `SeatInv`: only the author, the least
  node that stays, mints, wraps and announces. `AuthorInv`: its keys are numbered
  in the order of its epochs, and its call is about the epoch it has installed.
  `MailInv`: announcements reach a node in the order of their versions, none is
  newer than the author's newest, and those of one version carry one key and map.
  `FeedInv`: a change of the room that the author does not know of yet is in its
  feed. `KnownInv`: whoever has the newest key is a peer of the author, or the
  author is about to look at it and rotate. `SyncInv`: the newest epoch and its
  secret are, for each node of the room, still to be wrapped, wrapped, sent, being
  consumed, or shared. `ConvergeInv` is their conjunction; at rest all but the last
  of `SyncInv`'s cases is gone.
* `OldEpochsAreForgotten`: `OldEpochsForgotten`, from `ForgetInv`: no epoch is
  installed ahead of the current one, and no suspended call is about to install an
  older one. With overlapping calls one may, and that epoch has no timer.

**ChatReplayProofs** - for any number of tabs, rooms, counters, calls, reloads and
failures, and any capacity of the caches: `ChatTypeCorrect`, `WaitsEnd`
(`EveryWaitEnds`), `RetiredKeysOverlap` (`RetiredKeyNeedsOverlap`),
`GuardKeepsItsWord` (`GuardRemembers`) and `ReplaysRefused` (`ReplayRefused`), all
from `ChatInv`. Its parts:

* `TabSound`, what holds of one tab, given the store, the counters opened, what its
  session knows, the rooms rotated since it began, and the rooms for which the guard
  promises something (`Promises`). `KeysSound` and `RoomsSound` are about the key
  cache and the replay windows. `WindowsSound`: a window that is not there yet has
  exactly one read under way, and whoever waits for a window waits for one of its
  room. `ChainSound`: persists and the calls that wait for them correspond, and only
  the first of the chain has begun and has one transaction. `OrdersFit`: windows
  hold opened counters, each once; so nothing is trimmed from them while those
  counters fit. `ReadsFresh`: whoever is about to write has read what the store has
  now. `WritesIt`: the counter of a persist is in the window it will write.
* `Session`, for rooms nobody has rotated since the session began. `Steady`:
  `persisting` counts the persists of a room, so `trimMemCache` does not evict a
  window that is being written; after a rotation `clear` resets that count while
  persists are under way, and it no longer does. `Remembers`: a counter that the
  session knows is in the cached window, or in the store if there is none, and in
  every read under way; and in the store unless it is being persisted. `Refuses`: no
  call with a message known at its beginning is past the guard's check.
* `StoreInv` (what was written stays) and `LockInv` (a Web Lock is held by the tab
  whose first persist has begun), which is why no other tab writes between the read
  and the write of a persist.

Each step changes one tab and what the tabs share. `Compose` asks that the tab it
changes is sound again, and of the others only `Bears`: that the store lost nothing
they rely on. `hydrateDone` preserves the invariant only because a call whose window
is there has gone on before (`NoneResumable`): microtasks run before the next task.
What `dedupKeepLast` returns, for every sequence (`LastsFacts`), is proved from the
least suffix that would be an exception.

Only model-checked: the liveness properties (`SupersededIsWiped`,
`ParkedIsDrained`, `CallsReturn`), which are outside the prover's reach. Where a
proof needs an induction over data (sums, bytes of a number, suffixes), it argues
from a least counterexample, since the prover cannot use the induction theorems.

## Bounds

`MaxSessions` (teardowns), `MaxCtr` and `MaxWire` (frames sealed and sent),
`MaxArrivals` (frames delivered), `MaxCalls` (frames per caller), `MaxStep` (how
far a sender ratchets), `MaxChanges`, `MaxEpoch` and `MaxRewraps` (joins and leaves,
epochs, repeated wraps; `MaxEpoch` is as large as `MaxChanges`, so no rotation is
cut off), `Slots`, `MaxGen`, `MaxReloads` and `MaxUpsets` (unseal calls open at a
time, keys of a room, reloads, rotations and failures), `Window`, `CacheCap` and
`RoomCap` (1024, 256 and 1024 in the code), `CallSlots` (calls open at a time in
FrameCryptor), `MaxAborts` (commits lost), `MaxSetEpochs`, `MaxHistory` (epochs of
the group one behaviour of FrameAddressing goes through). In FrameAddressing the
widths keep their proportions, so that each limit is met by small numbers: a
field of 16 bits has 2, a counter of 64 bits 8. With as many counters as the window
holds nothing is forgotten by age: that the window forgets the oldest is not what
`chat_replay` is about. Symmetry is used there for tabs, rooms and counters, with
invariants only. Grace periods are not measured: a pending timer may fire
at any later moment.

## Not modelled, and the plan

Left out of the modules above: the durable guard in the worker (off by
default), the coalesced starvation signals, metrics; `init`, `set-sif-trailer`
and `set-ratchet-window` are constants of an instance. Encryption is abstract: a
key opens exactly what it sealed. Interleavings inside `tryDecryptWithRatchet`
are in RatchetDedup only; WorkerFrame gives a call one outcome. An epoch wiped or
replaced during a retry loop is in WorkerFrame, not in RatchetDedup. In the
ratchet: `startNewEpoch` called directly with a version or chain key of its own,
`forgetEpoch` called directly, an author that joins late (the version it begins
with is the application's choice), SAS callbacks. In chat: `seal` of the base-key
provider, whose counter is the one of MlsChat, and the random counters; the
capacity of the derived-key cache (an evicted key is derived again); a guard without
IndexedDB or Web Locks, which does nothing; transactions of the replay guard that
are answered and then fail to commit; a message under a key that no tab has
yet, which fails in the decryption like one under an old key; the durable guard
of the MLS provider. Of the frame cryptor: the callbacks it passes reports to. Of
the SFrame layer: IV derivation and the forms of the additional data, which the
ideal AEAD stands for. The key exchange helper, the derivation of SAS strings and
the FIPS policy are straight-line code around WebCrypto.

Next: an abstract replay guard that ChatReplay implements, and what holds of it
after a rotation.
