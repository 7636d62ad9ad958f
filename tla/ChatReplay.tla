----------------------------- MODULE ChatReplay -----------------------------
(***************************************************************************)
(* What unseal and rotate of the chat provider (src/src/chat/index.ts) do  *)
(* about replays, in several tabs that share an IndexedDB store: the       *)
(* derived-key cache (chat/derive.ts), the in-memory replay windows and    *)
(* the DurableReplayGuard (chat/durable-replay.ts).                        *)
(*                                                                         *)
(* A key stands for a room with one sender.  A message is known by its     *)
(* key, the generation of the room's base key it is sealed under, and its  *)
(* counter; any message may be delivered any number of times.              *)
(*                                                                         *)
(* IndexedDB runs transactions on a store in the order in which they are   *)
(* created, so a transaction takes effect in the step that creates it, and *)
(* those of a tab are reported to it later, in that order.  A tab may be   *)
(* reloaded at any moment.                                                 *)
(***************************************************************************)
EXTENDS Integers, Sequences, SequencesExt, FiniteSets

CONSTANTS
    Tabs, Keys, Ctrs,
    Layouts,         \* the ways to spread the rooms over the tabs
    Slots,           \* the unseal calls that may be open at a time, in all tabs
    Window,          \* replayWindow, and the window of the guard
    CacheCap,        \* REPLAY_MEM_CACHE_CAP
    RoomCap,         \* MAX_REPLAY_ROOMS
    MaxCalls,        \* bound on the unseal calls
    MaxGen,          \* bound on the generation of a room's key
    MaxReloads,      \* bound on the reloads
    MaxUpsets,       \* bound on the rotations and the failures of IndexedDB
    None             \* an absent entry of a map

ASSUME LayoutsAssumption == Layouts \subseteq [Tabs -> SUBSET Keys]
ASSUME ChatBoundsAssumption ==
    /\ {MaxCalls, MaxGen, MaxReloads, MaxUpsets} \subseteq Nat
    /\ {Window, CacheCap, RoomCap} \subseteq Nat \ {0}
    /\ IsFiniteSet(Slots)

VARIABLES
    tabs,            \* the provider of each tab
    store,           \* the persisted windows, oldest counter first
    lock,            \* the tab that holds the Web Lock of a key
    calls,           \* how many unseal calls there were
    reloads,         \* how many reloads there were
    upsets,          \* how many rotations and failures there were
    failed,          \* history: IndexedDB has failed
    ctrs,            \* history: the counters opened so far
    written,         \* history: the messages written since the last rotation
    knows,           \* history: those a session of a tab began with or recorded
    rotated          \* history: the rooms rotated, in any tab, since it began

bounds == <<calls, reloads, upsets>>
history == <<failed, ctrs, written, knows, rotated>>
chatVars == <<tabs, store, lock, bounds, history>>

RW == INSTANCE ReplayWindow

-----------------------------------------------------------------------------
(***************************************************************************)
(* State.  A MemWindow is known by its place in the heap, as calls and     *)
(* persists keep it after it has left the cache; one that is not ready is  *)
(* the promise of a hydration.  rw says whether the replay window that a   *)
(* call holds is still in the provider's map.  began and known are         *)
(* history: the generation of the room when the call began, and whether    *)
(* its message was known by then; so is overlapped, the rooms rotated      *)
(* while a key of theirs was being derived.                                *)
(***************************************************************************)
Gens == 0..MaxGen
Message == [key : Keys, gen : Gens, ctr : Ctrs]
MemWindow == [key : Keys, order : Seq(Ctrs), ready : BOOLEAN]
Unseal == [pc : {"derive", "ready", "check", "decrypt", "accept", "persist"}, msg : Message,
           userKey : Gens, began : Gens, known : BOOLEAN, rw : BOOLEAN, win : Nat]
Persist == [key : Keys, win : Nat, slot : Slots, started : BOOLEAN]
Transaction == [op : {"hydrate", "read", "write", "delete"}, key : Keys, win : Nat,
                seen : Seq(Ctrs), ok : BOOLEAN]
ReplayWindowType == [windowSize : Nat, seen : SUBSET Ctrs, queue : Seq(Ctrs)]

Tab == [shows : SUBSET Keys, gen : [Keys -> Gens], keyCache : [Keys -> Gens \cup {None}],
        replayWindows : [Keys -> ReplayWindowType \cup {None}], rooms : Seq(Keys),
        mem : [Keys -> Nat \cup {None}], memKeys : Seq(Keys),
        hydrating : [Keys -> Nat \cup {None}], persisting : [Keys -> Nat],
        persistTail : Seq(Persist), txs : Seq(Transaction), heap : Seq(MemWindow),
        calls : [Slots -> Unseal \cup {None}], overlapped : SUBSET Keys]

ASSUME ChatNoneAssumption ==
    None \notin Nat /\ None \notin Unseal /\ None \notin ReplayWindowType /\ None \notin Tabs

ChatTypeOK ==
    /\ tabs \in [Tabs -> Tab]
    /\ store \in [Keys -> Seq(Ctrs)]
    /\ lock \in [Keys -> Tabs \cup {None}]
    /\ \A k \in Keys : Len(store[k]) <= Window /\ IsInjective(store[k])
    /\ \A t \in Tabs : Len(tabs[t].rooms) <= RoomCap

Empty == [k \in Keys |-> None]
Zero == [k \in Keys |-> 0]

createChatProvider(shows, gen) ==
    [shows |-> shows, gen |-> gen, keyCache |-> Empty, replayWindows |-> Empty, rooms |-> <<>>,
     mem |-> Empty, memKeys |-> <<>>, hydrating |-> Empty, persisting |-> Zero,
     persistTail |-> <<>>, txs |-> <<>>, heap |-> <<>>,
     calls |-> [s \in Slots |-> None], overlapped |-> {}]

Init ==
    /\ \E shows \in Layouts : tabs = [t \in Tabs |-> createChatProvider(shows[t], Zero)]
    /\ store = [k \in Keys |-> <<>>]
    /\ lock = Empty
    /\ calls = 0 /\ reloads = 0 /\ upsets = 0 /\ failed = FALSE
    /\ ctrs = [k \in Keys |-> {}]
    /\ written = {}
    /\ knows = [t \in Tabs |-> {}]
    /\ rotated = [t \in Tabs |-> {}]

-----------------------------------------------------------------------------
(***************************************************************************)
(* Operators.  Those on a tab take and return its record.                  *)
(***************************************************************************)
lastOf(seq, n) == SubSeq(seq, (IF Len(seq) > n THEN Len(seq) - n ELSE 0) + 1, Len(seq))

\* From the end of seq to its beginning, what is gone or there already is skipped.
lasts(seq, gone) ==
    FoldRight(LAMBDA v, out : IF v \in gone \cup ToSet(out) THEN out ELSE <<v>> \o out, seq, <<>>)

dedupKeepLast(arr) == lasts(arr, {})

mergeClobbering(persistedSeen, order) == order

merge(persistedSeen, order) == lastOf(dedupKeepLast(persistedSeen \o order), Window)

InState(t, s, pc) == tabs[t].calls[s] # None /\ tabs[t].calls[s].pc = pc
Awaited(t, s) == tabs[t].heap[tabs[t].calls[s].win].ready

\* A call whose window is there goes on before the next task of its tab.
Resumable(t) == \E s \in Slots : (InState(t, s, "check") \/ InState(t, s, "accept")) /\ Awaited(t, s)

Return(r, s) == [r EXCEPT !.calls[s] = None]
Update(t, r) == tabs' = [tabs EXCEPT ![t] = r]

\* A transaction is created; the first one of a tab is reported.
Create(r, op, k, w, seen, ok) ==
    [r EXCEPT !.txs = Append(@, [op |-> op, key |-> k, win |-> w, seen |-> seen, ok |-> ok])]
Reported(t, op) == tabs[t].txs # <<>> /\ Head(tabs[t].txs).op = op

Upset == upsets < MaxUpsets /\ upsets' = upsets + 1

\* IndexedDB may fail; the provider carries on.
Outcome(ok) == IF ok THEN UNCHANGED <<upsets, failed>> ELSE Upset /\ failed' = TRUE

\* A mutant: the keys stay.
evictRoomOfNothing(r, k) == r
\* The derived keys of a room leave the cache.
evictRoom(r, k) == [r EXCEPT !.keyCache[k] = None]

\* Replay windows of rooms leave the provider's map.
detachRooms(r, gone) ==
    [r EXCEPT !.replayWindows = [k \in Keys |-> IF k \in gone THEN None ELSE @[k]],
              !.rooms = lasts(@, gone),
              !.calls = [s \in Slots |-> IF @[s] # None /\ @[s].msg.key \in gone
                                           THEN [@[s] EXCEPT !.rw = FALSE] ELSE @[s]]]

evictOldReplayRooms(r) == IF Len(r.rooms) > RoomCap THEN detachRooms(r, {Head(r.rooms)}) ELSE r

getReplayWindow(r, k) ==
    IF r.replayWindows[k] # None THEN r
    ELSE evictOldReplayRooms([r EXCEPT !.replayWindows[k] = RW!newWindow(Window),
                                       !.rooms = Append(@, k)])

\* hydrate starts a read unless the window is cached or being read; promised is
\* what it returns.
promised(r, k) ==
    IF r.mem[k] # None THEN r.mem[k]
    ELSE IF r.hydrating[k] # None THEN r.hydrating[k] ELSE Len(r.heap) + 1
hydrate(r, k) ==
    IF promised(r, k) <= Len(r.heap) THEN r
    ELSE [Create(r, "hydrate", k, promised(r, k), store[k], TRUE) EXCEPT
            !.hydrating[k] = promised(r, k),
            !.heap = Append(@, [key |-> k, order |-> <<>>, ready |-> FALSE])]

uncache(r, gone) ==
    [r EXCEPT !.mem = [k \in Keys |-> IF k \in gone THEN None ELSE @[k]],
              !.memKeys = lasts(@, gone)]

trimAnything(r, justHydrated) ==
    LET evictable == lasts(r.memKeys, {justHydrated})
    IN  uncache(r, {evictable[i] : i \in {j \in DOMAIN evictable : j <= Len(r.memKeys) - CacheCap}})

trimMemCache(r, justHydrated) ==
    LET busy == {k \in Keys : r.hydrating[k] # None \/ r.persisting[k] # 0}
        evictable == lasts(r.memKeys, busy \cup {justHydrated})
    IN  uncache(r, {evictable[i] : i \in {j \in DOMAIN evictable : j <= Len(r.memKeys) - CacheCap}})

releaseUnchecked(r, k) == [r EXCEPT !.persisting[k] = @ - 1]

releasePersisting(r, k) == [r EXCEPT !.persisting[k] = IF @ > 0 THEN @ - 1 ELSE 0]

-----------------------------------------------------------------------------
(***************************************************************************)
(* unseal, from await to await.                                            *)
(***************************************************************************)
unseal(t, s, m) ==
    /\ calls < MaxCalls
    /\ \A v \in Tabs : tabs[v].calls[s] = None
    /\ \A u \in Slots : u < s => \E v \in Tabs : tabs[v].calls[u] # None
    /\ LET r == tabs[t] IN
       Update(t, [r EXCEPT !.calls[s] =
           [pc |-> IF r.keyCache[m.key] = None THEN "derive" ELSE "ready", msg |-> m,
            userKey |-> IF r.keyCache[m.key] = None THEN r.gen[m.key] ELSE r.keyCache[m.key],
            began |-> r.gen[m.key], known |-> m \in knows[t], rw |-> FALSE, win |-> 0]])
    /\ calls' = calls + 1
    /\ UNCHANGED <<store, lock, reloads, upsets, history>>

deriveAesKeyAndSalt(t, s) ==
    /\ InState(t, s, "derive")
    /\ LET c == tabs[t].calls[s] IN
       Update(t, [tabs[t] EXCEPT !.keyCache[c.msg.key] = c.userKey, !.calls[s].pc = "ready"])
    /\ UNCHANGED <<store, lock, bounds, history>>

\* The in-memory window first, then the guard.
replayCheck(t, s) ==
    /\ InState(t, s, "ready")
    /\ LET m == tabs[t].calls[s].msg
           r == getReplayWindow(tabs[t], m.key)
       IN  IF RW!check(r.replayWindows[m.key], m.ctr)
             THEN Update(t, [hydrate(r, m.key) EXCEPT
                               !.calls[s] = [@ EXCEPT !.pc = "check", !.rw = TRUE,
                                                      !.win = promised(r, m.key)]])
             ELSE Update(t, Return(r, s))
    /\ UNCHANGED <<store, lock, bounds, history>>

check(t, s) ==
    /\ InState(t, s, "check") /\ Awaited(t, s)
    /\ LET r == tabs[t]
           c == r.calls[s]
       IN  Update(t, IF c.msg.ctr \in ToSet(r.heap[c.win].order) THEN Return(r, s)
                     ELSE [r EXCEPT !.calls[s].pc = "decrypt"])
    /\ UNCHANGED <<store, lock, bounds, history>>

\* A key opens exactly the messages of its generation.
sframeDecrypt(t, s) ==
    /\ InState(t, s, "decrypt")
    /\ LET r == tabs[t]
           c == r.calls[s]
           m == c.msg
           accepted == IF c.rw THEN [r EXCEPT !.replayWindows[m.key] = RW!accept(@, m.ctr)] ELSE r
       IN  IF c.userKey = m.gen
             THEN /\ Update(t, [hydrate(accepted, m.key) EXCEPT
                                  !.calls[s] = [@ EXCEPT !.pc = "accept", !.win = promised(r, m.key)]])
                  /\ ctrs' = [ctrs EXCEPT ![m.key] = @ \cup {m.ctr}]
             ELSE Update(t, Return(r, s)) /\ UNCHANGED ctrs
    /\ UNCHANGED <<store, lock, bounds, failed, written, knows, rotated>>

\* A window after a counter was added and the oldest ones were trimmed.
trim(order, ctr) == lastOf(Append(order, ctr), Window)

accept(t, s) ==
    /\ InState(t, s, "accept") /\ Awaited(t, s)
    /\ LET r == tabs[t]
           c == r.calls[s]
           k == c.msg.key
       IN  IF c.msg.ctr \in ToSet(r.heap[c.win].order)
             THEN Update(t, Return(r, s)) /\ UNCHANGED knows
             ELSE /\ Update(t, [r EXCEPT
                       !.persisting[k] = @ + 1,
                       !.heap[c.win].order = trim(@, c.msg.ctr),
                       !.persistTail = Append(@, [key |-> k, win |-> c.win, slot |-> s, started |-> FALSE]),
                       !.calls[s].pc = "persist"])
                  /\ knows' = [knows EXCEPT ![t] = IF k \in rotated[t] THEN @ ELSE @ \cup {c.msg}]
    /\ UNCHANGED <<store, lock, bounds, failed, ctrs, written, rotated>>

-----------------------------------------------------------------------------
(***************************************************************************)
(* The guard's reads and writes.                                           *)
(***************************************************************************)
hydrateDone(t, ok) ==
    /\ Reported(t, "hydrate")
    /\ LET r == tabs[t]
           tx == Head(r.txs)
           cached == [r EXCEPT !.txs = Tail(@),
                               !.heap[tx.win] = [@ EXCEPT !.ready = TRUE,
                                     !.order = IF ok THEN lastOf(tx.seen, Window) ELSE <<>>],
                               !.mem[tx.key] = tx.win,
                               !.memKeys = IF r.mem[tx.key] = None THEN Append(@, tx.key) ELSE @,
                               !.hydrating[tx.key] = None]
       IN  Update(t, trimMemCache(cached, tx.key))
    /\ Outcome(ok)
    /\ UNCHANGED <<store, lock, calls, reloads, ctrs, written, knows, rotated>>

\* The next persist of the chain gets its lock and reads the record.
lockGranted(t) ==
    /\ tabs[t].persistTail # <<>>
    /\ LET p == Head(tabs[t].persistTail) IN
       /\ ~p.started /\ lock[p.key] = None
       /\ lock' = [lock EXCEPT ![p.key] = t]
       /\ Update(t, [Create(tabs[t], "read", p.key, p.win, store[p.key], TRUE) EXCEPT
                       !.persistTail[1].started = TRUE])
    /\ UNCHANGED <<store, bounds, history>>

\* What was read is merged into the window, and the window is written.
persistMerged(t, readOk, writeOk) ==
    /\ Reported(t, "read")
    /\ LET r == tabs[t]
           tx == Head(r.txs)
           merged == merge(IF readOk THEN tx.seen ELSE <<>>, r.heap[tx.win].order)
           m == r.calls[Head(r.persistTail).slot].msg
       IN  /\ Update(t, Create([r EXCEPT !.txs = Tail(@), !.heap[tx.win].order = merged],
                               "write", tx.key, tx.win, <<>>, writeOk))
           /\ store' = IF writeOk THEN [store EXCEPT ![tx.key] = merged] ELSE store
           /\ written' = IF writeOk /\ m.gen = r.gen[m.key] THEN written \cup {m} ELSE written
    /\ Outcome(readOk /\ writeOk)
    /\ UNCHANGED <<lock, calls, reloads, ctrs, knows, rotated>>

persistDoneLeaking(t) ==
    /\ Reported(t, "write")
    /\ LET r == tabs[t]
           p == Head(r.persistTail)
       IN  /\ Update(t, Return([releasePersisting(r, p.key) EXCEPT
                                  !.txs = Tail(@), !.persistTail = Tail(@)], p.slot))
           /\ lock' = [lock EXCEPT ![p.key] = IF Head(r.txs).ok THEN None ELSE @]
    /\ UNCHANGED <<store, bounds, history>>

\* A persist has settled, well or badly: the lock is free, the chain goes on and
\* the call that waited for it returns.
persistDone(t) ==
    /\ Reported(t, "write")
    /\ LET r == tabs[t]
           p == Head(r.persistTail)
       IN  /\ Update(t, Return([releasePersisting(r, p.key) EXCEPT
                                  !.txs = Tail(@), !.persistTail = Tail(@)], p.slot))
           /\ lock' = [lock EXCEPT ![p.key] = None]
    /\ UNCHANGED <<store, bounds, history>>

\* rotate, called when getKey has the next key; it deletes the record if a
\* message of the room was seen in this session.
rotate(t, k, ok) ==
    /\ tabs[t].gen[k] < MaxGen
    /\ LET r == tabs[t]
           known == r.replayWindows[k] # None
           deriving == \E s \in Slots : InState(t, s, "derive") /\ r.calls[s].msg.key = k
           evicted == [detachRooms(evictRoom(r, k), {k}) EXCEPT !.gen[k] = @ + 1,
                          !.overlapped = IF deriving THEN @ \cup {k} ELSE @]
       IN  /\ ok \/ known
           /\ Update(t, IF known THEN Create(evicted, "delete", k, 0, <<>>, ok) ELSE evicted)
           /\ store' = IF known /\ ok THEN [store EXCEPT ![k] = <<>>] ELSE store
    /\ Upset
    /\ failed' = (failed \/ ~ok)
    /\ written' = {m \in written : m.key # k}
    /\ knows' = [u \in Tabs |-> {m \in knows[u] : m.key # k}]
    /\ rotated' = [u \in Tabs |-> rotated[u] \cup {k}]
    /\ UNCHANGED <<lock, calls, reloads, ctrs>>

\* The rest of clear, whether or not the delete succeeded.
clearDone(t) ==
    /\ Reported(t, "delete")
    /\ LET k == Head(tabs[t].txs).key IN
       Update(t, [uncache(tabs[t], {k}) EXCEPT !.txs = Tail(@), !.hydrating[k] = None,
                                               !.persisting[k] = 0])
    /\ UNCHANGED <<store, lock, bounds, history>>

\* The page is reloaded, or crashes and is opened again.
reload(t) ==
    /\ tabs[t].shows # {}
    /\ reloads < MaxReloads
    /\ reloads' = reloads + 1
    /\ Update(t, createChatProvider(tabs[t].shows, tabs[t].gen))
    /\ lock' = [k \in Keys |-> IF lock[k] = t THEN None ELSE lock[k]]
    /\ knows' = [knows EXCEPT ![t] = written]
    /\ rotated' = [rotated EXCEPT ![t] = {}]
    /\ UNCHANGED <<store, calls, upsets, failed, ctrs, written>>

Continuation(t) == \E s \in Slots : check(t, s) \/ accept(t, s)

Task(t) ==
    /\ ~Resumable(t)
    /\ \/ \E s \in Slots : deriveAesKeyAndSalt(t, s) \/ replayCheck(t, s) \/ sframeDecrypt(t, s)
       \/ \E ok \in BOOLEAN : hydrateDone(t, ok)
       \/ lockGranted(t)
       \/ \E readOk, writeOk \in BOOLEAN : persistMerged(t, readOk, writeOk)
       \/ persistDone(t)
       \/ clearDone(t)

\* Messages are sealed under the keys that some tab has had.
Sealed(m) == \E t \in Tabs : m.gen <= tabs[t].gen[m.key]

Application(t) ==
    /\ ~Resumable(t)
    /\ \/ \E s \in Slots, m \in Message : m.key \in tabs[t].shows /\ Sealed(m) /\ unseal(t, s, m)
       \/ \E k \in tabs[t].shows, ok \in BOOLEAN : rotate(t, k, ok)

Next == \E t \in Tabs : Continuation(t) \/ Task(t) \/ Application(t) \/ reload(t)

ChatSpec == Init /\ [][Next]_chatVars

-----------------------------------------------------------------------------
(***************************************************************************)
(* Properties.  The guard promises something while IndexedDB works and for *)
(* the most recent counters, as many as fit the window.                    *)
(***************************************************************************)
Promised(k) == ~failed /\ Cardinality(ctrs[k]) <= Window

\* A call does not open a message that was known when it began: one that accept
\* had recorded in this session, though its windows may have been evicted since, or
\* that this or another tab had written to the store before the session began.
ReplayRefused ==
    \A t \in Tabs, s \in Slots :
        LET c == tabs[t].calls[s]
        IN  c # None /\ Promised(c.msg.key) /\ c.known /\ c.msg.key \notin rotated[t] =>
                c.pc \notin {"accept", "persist"}

\* What a session knows the guard would refuse, by the cached window or by the one
\* that would be read: trimMemCache evicts no window that is not written yet.
GuardRemembers ==
    \A t \in Tabs : \A m \in knows[t] : Promised(m.key) =>
        LET win == tabs[t].mem[m.key]
        IN  m.ctr \in ToSet(IF win # None THEN tabs[t].heap[win].order ELSE store[m.key])

\* Nobody waits for what cannot come: a call waits for a window that is there or
\* being read, or for a persist in the chain; the persist that the chain waits for
\* has its lock and a transaction under way, or its lock is held by a tab that has.
EveryWaitEnds ==
    /\ \A t \in Tabs, s \in Slots :
          /\ InState(t, s, "check") \/ InState(t, s, "accept") =>
                \/ Awaited(t, s)
                \/ \E i \in DOMAIN tabs[t].txs :
                      tabs[t].txs[i].op = "hydrate" /\ tabs[t].txs[i].win = tabs[t].calls[s].win
          /\ InState(t, s, "persist") =>
                \E i \in DOMAIN tabs[t].persistTail : tabs[t].persistTail[i].slot = s
    /\ \A t \in Tabs, k \in Keys :
          LET tail == tabs[t].persistTail
          IN  lock[k] = t <=> /\ tail # <<>> /\ Head(tail).started /\ Head(tail).key = k
                              /\ \E i \in DOMAIN tabs[t].txs :
                                    tabs[t].txs[i].op \in {"read", "write"} /\ tabs[t].txs[i].key = k

\* A call that begins after rotate uses a retired key only where a derivation was
\* under way during the rotate, which put it back (evictRoom empties the cache,
\* deriveAesKeyAndSalt fills it after its awaits).
RetiredKeyNeedsOverlap ==
    \A t \in Tabs, s \in Slots :
        LET c == tabs[t].calls[s]
        IN  c # None /\ c.userKey < c.began => c.msg.key \in tabs[t].overlapped
=============================================================================
