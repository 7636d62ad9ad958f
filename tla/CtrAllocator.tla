---------------------------- MODULE CtrAllocator ----------------------------
(***************************************************************************)
(* MonotonicIdbCtrAllocator (src/src/chat/ctr-allocator.ts): the counter   *)
(* of one room and sender, kept in IndexedDB and drawn on by several tabs. *)
(*                                                                         *)
(* next() awaits the database, then the Web Lock where the browser has     *)
(* one, then a transaction that reads and writes the counter.  Read-write  *)
(* transactions of one store run one after the other, in the order of      *)
(* their creation, across tabs.  The promise of next() is resolved, and    *)
(* with it the lock is given back, when the put succeeds: the transaction  *)
(* commits later, and may still fail to.                                   *)
(***************************************************************************)
EXTENDS Integers, Sequences, FiniteSets

CONSTANTS
    Tabs,       \* pages with an allocator each
    Slots,      \* calls of next() a page has open at a time
    NoCtr,      \* a call or a transaction that has no number yet
    MaxCtr,     \* bound on the numbers given out
    MaxAborts,  \* bound on the transactions lost after their put
    MaxReloads  \* bound on the pages lost

ASSUME CtrAssumption == NoCtr \notin Nat

Calls == Tabs \X Slots

VARIABLES
    hasLocks,  \* navigator.locks is available
    db,        \* dbPromise of each page
    at,        \* where each call of next() is suspended
    got,       \* what it was resolved to
    lockQueue, \* the requests for the lock, the first of which holds it
    txs,       \* the transactions of the store, the first of which runs
    store,     \* the committed counter
    aborts,    \* history: transactions lost after their put
    reloads    \* history: pages lost

callVars == <<at, got>>
idbVars == <<lockQueue, txs, store, aborts>>
ctrVars == <<hasLocks, db, callVars, idbVars, reloads>>

CtrInit ==
    /\ hasLocks \in BOOLEAN
    /\ db = [t \in Tabs |-> "none"]
    /\ at = [c \in Calls |-> "idle"]
    /\ got = [c \in Calls |-> NoCtr]
    /\ lockQueue = <<>>
    /\ txs = <<>>
    /\ store = 0
    /\ aborts = 0
    /\ reloads = 0

-----------------------------------------------------------------------------
\* A mutant: the counter is read in a transaction of its own, before.
TransactionReadingEarly(c) == [call |-> c, read |-> store, put |-> FALSE]
Transaction(c) == [call |-> c, read |-> NoCtr, put |-> FALSE]

\* A call that holds the lock gives it back.
Unlocked(c) ==
    IF lockQueue # <<>> /\ Head(lockQueue) = c THEN Tail(lockQueue) ELSE lockQueue

\* The first call opens the database; the promise is kept, rejected or not.
openDb(t) == db' = [db EXCEPT ![t] = IF @ = "none" THEN "opening" ELSE @]

nextCtr(c) ==
    /\ at[c] = "idle"
    /\ store < MaxCtr
    /\ at' = [at EXCEPT ![c] = "db"]
    /\ openDb(c[1])
    /\ UNCHANGED <<hasLocks, got, idbVars, reloads>>

openDone(t) ==
    /\ db[t] = "opening"
    /\ \E outcome \in {"open", "failed"} : db' = [db EXCEPT ![t] = outcome]
    /\ UNCHANGED <<hasLocks, callVars, idbVars, reloads>>

atomicIncrement(c) ==
    /\ txs' = Append(txs, Transaction(c))
    /\ at' = [at EXCEPT ![c] = "tx"]
    /\ UNCHANGED <<hasLocks, db, got, store, aborts, reloads>>

dbReady(c) ==
    /\ at[c] = "db"
    /\ db[c[1]] = "open"
    /\ \/ /\ hasLocks
          /\ lockQueue' = Append(lockQueue, c)
          /\ at' = [at EXCEPT ![c] = "lock"]
          /\ UNCHANGED <<hasLocks, db, got, txs, store, aborts, reloads>>
       \/ /\ ~hasLocks
          /\ atomicIncrement(c)
          /\ UNCHANGED lockQueue

dbFailed(c) ==
    /\ at[c] = "db"
    /\ db[c[1]] = "failed"
    /\ at' = [at EXCEPT ![c] = "idle"]
    /\ UNCHANGED <<hasLocks, db, got, idbVars, reloads>>

lockGranted(c) ==
    /\ at[c] = "lock"
    /\ Head(lockQueue) = c
    /\ atomicIncrement(c)
    /\ UNCHANGED lockQueue

(***************************************************************************)
(* The running transaction: get, put, commit.  A request that fails        *)
(* rejects the promise and aborts the transaction.                         *)
(***************************************************************************)
Running == txs # <<>>

getDone ==
    /\ Running
    /\ Head(txs).read = NoCtr
    /\ txs' = [txs EXCEPT ![1].read = store]
    /\ UNCHANGED <<hasLocks, db, callVars, lockQueue, store, aborts, reloads>>

putDone ==
    /\ Running
    /\ Head(txs).read # NoCtr
    /\ ~Head(txs).put
    /\ LET c == Head(txs).call
       IN  /\ at' = [at EXCEPT ![c] = "ready"]
           /\ got' = [got EXCEPT ![c] = Head(txs).read]
           /\ lockQueue' = Unlocked(c)
    /\ txs' = [txs EXCEPT ![1].put = TRUE]
    /\ UNCHANGED <<hasLocks, db, store, aborts, reloads>>

\* A mutant: without the error handlers the promise is never settled.
requestFailsUnheard ==
    /\ Running
    /\ ~Head(txs).put
    /\ txs' = Tail(txs)
    /\ UNCHANGED <<hasLocks, db, callVars, lockQueue, store, aborts, reloads>>

requestFails ==
    /\ Running
    /\ ~Head(txs).put
    /\ LET c == Head(txs).call
       IN  /\ at' = [at EXCEPT ![c] = "idle"]
           /\ lockQueue' = Unlocked(c)
    /\ txs' = Tail(txs)
    /\ UNCHANGED <<hasLocks, db, got, store, aborts, reloads>>

\* A mutant: what is put is the number that was read.
commitUnchanged ==
    /\ Running
    /\ Head(txs).put
    /\ store' = Head(txs).read
    /\ txs' = Tail(txs)
    /\ UNCHANGED <<hasLocks, db, callVars, lockQueue, aborts, reloads>>

commit ==
    /\ Running
    /\ Head(txs).put
    /\ store' = Head(txs).read + 1
    /\ txs' = Tail(txs)
    /\ UNCHANGED <<hasLocks, db, callVars, lockQueue, aborts, reloads>>

\* The commit fails (quota, disk) after the promise was resolved: tx.onerror
\* comes too late, and nothing listens to abort.
commitFails ==
    /\ Running
    /\ Head(txs).put
    /\ aborts < MaxAborts
    /\ aborts' = aborts + 1
    /\ txs' = Tail(txs)
    /\ UNCHANGED <<hasLocks, db, callVars, lockQueue, store, reloads>>

\* seal() takes the number: the call of next() is over.
Taken(c) ==
    /\ at[c] = "ready"
    /\ at' = [at EXCEPT ![c] = "idle"]
    /\ got' = [got EXCEPT ![c] = NoCtr]
    /\ UNCHANGED <<hasLocks, db, idbVars, reloads>>

\* The elements of q at the positions K, in their order.
Rank(K, k) == Cardinality({j \in K : j <= k})
KeepAt(q, K) == [i \in 1..Cardinality(K) |-> q[CHOOSE k \in K : Rank(K, k) = i]]

\* A page is reloaded or crashes: its calls, its lock requests and its
\* transactions are gone; one whose put had succeeded is lost with them.
LostPut(t) == Running /\ Head(txs).put /\ Head(txs).call[1] = t

reload(t) ==
    /\ reloads < MaxReloads
    /\ reloads' = reloads + 1
    /\ LostPut(t) => aborts < MaxAborts
    /\ aborts' = IF LostPut(t) THEN aborts + 1 ELSE aborts
    /\ db' = [db EXCEPT ![t] = "none"]
    /\ at' = [c \in Calls |-> IF c[1] = t THEN "idle" ELSE at[c]]
    /\ got' = [c \in Calls |-> IF c[1] = t THEN NoCtr ELSE got[c]]
    /\ lockQueue' = KeepAt(lockQueue, {i \in DOMAIN lockQueue : lockQueue[i][1] # t})
    /\ txs' = KeepAt(txs, {i \in DOMAIN txs : txs[i].call[1] # t})
    /\ UNCHANGED <<hasLocks, store>>

\* What goes on without a call of the page: the database and the lock manager.
Progress ==
    \/ \E t \in Tabs : openDone(t)
    \/ \E c \in Calls : dbReady(c) \/ dbFailed(c) \/ lockGranted(c)
    \/ getDone \/ putDone \/ requestFails \/ commit \/ commitFails

-----------------------------------------------------------------------------
(***************************************************************************)
(* The counter the callers see has moved on when the put has succeeded.    *)
(***************************************************************************)
Upcoming == IF Running /\ Head(txs).put THEN Head(txs).read + 1 ELSE store

Counter == INSTANCE UniqueCounter WITH
    Callers <- Calls, NoReply <- NoCtr, next <- Upcoming, reply <- got, setbacks <- aborts

(***************************************************************************)
(* The inductive invariants of the proofs.                                 *)
(***************************************************************************)
CtrTypeOK ==
    /\ hasLocks \in BOOLEAN
    /\ db \in [Tabs -> {"none", "opening", "open", "failed"}]
    /\ at \in [Calls -> {"idle", "db", "lock", "tx", "ready"}]
    /\ got \in [Calls -> Nat \cup {NoCtr}]
    /\ lockQueue \in Seq(Calls)
    /\ txs \in Seq([call : Calls, read : Nat \cup {NoCtr}, put : BOOLEAN])
    /\ store \in Nat
    /\ aborts \in Nat

\* Only the transaction that runs has read, and it has read the committed
\* counter; one that has not put yet belongs to a call that waits for it, and
\* such a call has one transaction.
TxInv ==
    /\ \A i \in DOMAIN txs : i > 1 => txs[i].read = NoCtr /\ ~txs[i].put
    /\ \A i \in DOMAIN txs :
          /\ txs[i].put => txs[i].read # NoCtr
          /\ txs[i].read # NoCtr => txs[i].read = store
          /\ ~txs[i].put => at[txs[i].call] = "tx"
    /\ \A i, j \in DOMAIN txs :
          i # j /\ ~txs[i].put /\ ~txs[j].put => txs[i].call # txs[j].call
    /\ \A c \in Calls :
          /\ at[c] = "tx" => \E i \in DOMAIN txs : txs[i].call = c /\ ~txs[i].put
          /\ got[c] # NoCtr => at[c] = "ready"

\* The lock's queue holds the calls that wait for the lock, after the one
\* that has it; a call is in a transaction only under the lock, where there
\* are locks.
LockInv ==
    /\ \A c \in Calls :
          /\ at[c] = "db" => db[c[1]] # "none"
          /\ at[c] = "lock" => \E i \in DOMAIN lockQueue : lockQueue[i] = c
          /\ hasLocks /\ at[c] = "tx" => lockQueue # <<>> /\ lockQueue[1] = c
    /\ \A i, j \in DOMAIN lockQueue : i # j => lockQueue[i] # lockQueue[j]
    /\ \A i \in DOMAIN lockQueue :
          at[lockQueue[i]] = "lock" \/ (i = 1 /\ at[lockQueue[i]] = "tx")
    /\ ~hasLocks => lockQueue = <<>>
=============================================================================
