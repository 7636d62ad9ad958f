---------------------------- MODULE MlsChatProofs ----------------------------
(***************************************************************************)
(* What holds of the MLS chat provider and the counter allocator below it  *)
(* for every number of pages, open calls and epochs, and for every bound:  *)
(* the allocator implements UniqueCounter, no seal waits in vain, and no   *)
(* counter is used twice as long as IndexedDB keeps what it acknowledged.  *)
(***************************************************************************)
EXTENDS MlsChat, TLAPS, FiniteSetTheorems, WellFoundedInduction

(***************************************************************************)
(* KeepAt: the elements kept come in their order, and all of them.         *)
(***************************************************************************)
LEMMA RankIncreases ==
    ASSUME NEW n \in Nat, NEW K \in SUBSET (1..n)
    PROVE  /\ IsFiniteSet(K) /\ Cardinality(K) \in Nat
           /\ \A k \in K : Rank(K, k) \in 1..Cardinality(K)
           /\ \A k, l \in K : k < l => Rank(K, k) < Rank(K, l)
<1>1. IsFiniteSet(1..n)
    BY FS_Interval
<1>2. IsFiniteSet(K) /\ Cardinality(K) \in Nat
    BY <1>1, FS_Subset, FS_CardinalityType
<1> DEFINE U(k) == {j \in K : j <= k}
<1>3. ASSUME NEW k \in K
      PROVE  /\ IsFiniteSet(U(k)) /\ Cardinality(U(k)) \in 1..Cardinality(K)
    <2>1. U(k) \in SUBSET K /\ k \in U(k)
        OBVIOUS
    <2>2. IsFiniteSet(U(k)) /\ Cardinality(U(k)) <= Cardinality(K)
        BY <1>2, <2>1, FS_Subset
    <2>3. Cardinality(U(k)) \in Nat /\ Cardinality(U(k)) # 0
        BY <2>1, <2>2, FS_CardinalityType, FS_EmptySet
    <2> QED
        BY <1>2, <2>2, <2>3
<1>4. ASSUME NEW k \in K, NEW l \in K, k < l
      PROVE  Cardinality(U(k)) < Cardinality(U(l))
    <2>1. U(k) \in SUBSET U(l) /\ U(k) # U(l)
        <3>1. l \in U(l) /\ l \notin U(k)
            BY <1>4
        <3>2. \A j \in K : j \in Int
            OBVIOUS
        <3>3. \A j \in K : j <= k => j <= l
            BY <1>4, <3>2
        <3> QED
            BY <3>1, <3>3
    <2>2. /\ Cardinality(U(k)) <= Cardinality(U(l))
          /\ Cardinality(U(l)) = Cardinality(U(k)) => U(l) = U(k)
        BY <1>3, <2>1, FS_Subset
    <2>3. Cardinality(U(k)) \in Nat /\ Cardinality(U(l)) \in Nat
        BY <1>3, FS_CardinalityType
    <2> QED
        BY <2>1, <2>2, <2>3
<1> QED
    BY <1>2, <1>3, <1>4 DEF Rank

LEMMA KeepAtProperties ==
    ASSUME NEW S, NEW q \in Seq(S), NEW K \in SUBSET DOMAIN q
    PROVE  /\ KeepAt(q, K) \in Seq(S)
           /\ \E f \in [DOMAIN KeepAt(q, K) -> K] :
                 /\ \A i \in DOMAIN KeepAt(q, K) : KeepAt(q, K)[i] = q[f[i]]
                 /\ \A i, j \in DOMAIN KeepAt(q, K) : i < j => f[i] < f[j]
                 /\ \A k \in K : \E i \in DOMAIN KeepAt(q, K) : f[i] = k
<1> DEFINE n == Len(q)
           m == Cardinality(K)
           rank == [k \in K |-> Rank(K, k)]
           f == [i \in 1..m |-> CHOOSE k \in K : Rank(K, k) = i]
<1>1. n \in Nat /\ DOMAIN q = 1..n
    OBVIOUS
<1>2. /\ IsFiniteSet(K) /\ m \in Nat
      /\ \A k \in K : Rank(K, k) \in 1..m
      /\ \A k, l \in K : k < l => Rank(K, k) < Rank(K, l)
    BY <1>1, RankIncreases
<1>3. rank \in Surjection(K, 1..m)
    <2>1. \A k, l \in K : Rank(K, k) = Rank(K, l) => k = l
        <3> SUFFICES ASSUME NEW k \in K, NEW l \in K, Rank(K, k) = Rank(K, l), k # l
                     PROVE  FALSE
            OBVIOUS
        <3>1. k \in Nat /\ l \in Nat
            BY <1>1
        <3>2. k < l \/ l < k
            BY <3>1
        <3>3. Rank(K, k) \in Nat /\ Rank(K, l) \in Nat
            BY <1>2
        <3> QED
            BY <1>2, <3>2, <3>3
    <2>2. rank \in Injection(K, 1..m)
        BY <1>2, <2>1 DEF Injection, IsInjective
    <2>3. IsFiniteSet(1..m) /\ Cardinality(1..m) = m
        BY <1>2, FS_Interval
    <2> QED
        BY <2>2, <2>3, FS_Injection
<1>4. \A i \in 1..m : \E k \in K : Rank(K, k) = i
    BY <1>3 DEF Surjection
<1>5. \A i \in 1..m : f[i] \in K /\ Rank(K, f[i]) = i
    BY <1>4
<1>6. f \in [1..m -> K]
    BY <1>5
<1>7. DOMAIN KeepAt(q, K) = 1..m /\ \A i \in 1..m : KeepAt(q, K)[i] = q[f[i]]
    BY DEF KeepAt
<1>8. KeepAt(q, K) \in Seq(S)
    <2>1. \A i \in 1..m : q[f[i]] \in S
        BY <1>5
    <2>2. KeepAt(q, K) = [i \in 1..m |-> q[f[i]]]
        BY DEF KeepAt
    <2> HIDE DEF f, m
    <2> QED
        BY <1>2, <2>1, <2>2
<1> HIDE DEF f, m, n
<1>9. ASSUME NEW i \in 1..m, NEW j \in 1..m, i < j
      PROVE  f[i] < f[j]
    <2>1. f[i] \in K /\ f[j] \in K /\ Rank(K, f[i]) = i /\ Rank(K, f[j]) = j
        BY <1>5
    <2>2. f[i] \in Nat /\ f[j] \in Nat /\ i \in Nat /\ j \in Nat
        BY <1>1, <1>2, <2>1
    <2>3. ~(f[j] < f[i]) /\ f[i] # f[j]
        BY <1>2, <1>9, <2>1, <2>2
    <2> QED
        BY <2>2, <2>3
<1>10. ASSUME NEW k \in K
       PROVE  \E i \in 1..m : f[i] = k
    <2>1. Rank(K, k) \in 1..m
        BY <1>2
    <2>2. f[Rank(K, k)] \in K /\ Rank(K, f[Rank(K, k)]) = Rank(K, k)
        BY <1>5, <2>1
    <2>3. f[Rank(K, k)] = k
        <3>1. f[Rank(K, k)] \in Nat /\ k \in Nat
            BY <1>1, <2>2
        <3>2. Rank(K, k) \in Nat
            BY <1>2
        <3>3. ~(f[Rank(K, k)] < k) /\ ~(k < f[Rank(K, k)])
            BY <1>2, <2>2, <3>2
        <3> QED
            BY <3>1, <3>3
    <2> QED
        BY <2>1, <2>3
<1> DEFINE kept == KeepAt(q, K)
<1>11. /\ \A i \in DOMAIN kept : kept[i] = q[f[i]]
       /\ \A i, j \in DOMAIN kept : i < j => f[i] < f[j]
       /\ \A k \in K : \E i \in DOMAIN kept : f[i] = k
       /\ f \in [DOMAIN kept -> K]
    BY <1>6, <1>7, <1>9, <1>10
<1> HIDE DEF kept
<1>12. \E g \in [DOMAIN kept -> K] :
          /\ \A i \in DOMAIN kept : kept[i] = q[g[i]]
          /\ \A i, j \in DOMAIN kept : i < j => g[i] < g[j]
          /\ \A k \in K : \E i \in DOMAIN kept : g[i] = k
    BY <1>11
<1> QED
    BY <1>8, <1>12 DEF kept

-----------------------------------------------------------------------------
(***************************************************************************)
(* The allocator by itself: every step of a page, the database or the lock *)
(* manager keeps its invariants.                                           *)
(***************************************************************************)
Tx == [call : Calls, read : Nat \cup {NoCtr}, put : BOOLEAN]
CtrInv == CtrTypeOK /\ TxInv /\ LockInv

CtrStep ==
    \/ \E c \in Calls : nextCtr(c) \/ Taken(c)
    \/ Progress
    \/ \E t \in Tabs : reload(t)
    \/ UNCHANGED ctrVars

LEMMA CallsArePairs == \A c \in Calls : c[1] \in Tabs
BY DEF Calls

LEMMA TxTypes ==
    ASSUME CtrTypeOK
    PROVE  /\ txs \in Seq(Tx)
           /\ DOMAIN txs = 1..Len(txs) /\ Len(txs) \in Nat
           /\ \A i \in DOMAIN txs : /\ txs[i] \in Tx
                                    /\ txs[i].call \in Calls
                                    /\ txs[i].read \in Nat \cup {NoCtr}
                                    /\ txs[i].put \in BOOLEAN
<1>1. txs \in Seq(Tx)
    BY DEF CtrTypeOK, Tx
<1> HIDE DEF Tx
<1>2. /\ DOMAIN txs = 1..Len(txs) /\ Len(txs) \in Nat
      /\ \A i \in DOMAIN txs : txs[i] \in Tx
    BY <1>1
<1>3. \A x \in Tx : x.call \in Calls /\ x.read \in Nat \cup {NoCtr} /\ x.put \in BOOLEAN
    BY DEF Tx
<1> QED
    BY <1>1, <1>2, <1>3

\* Steps that touch neither the transactions nor the lock's queue.
LEMMA QuietSteps ==
    ASSUME CtrInv, UNCHANGED <<hasLocks, lockQueue, txs, store>>, aborts' \in Nat,
           \/ \E c \in Calls : nextCtr(c) \/ Taken(c) \/ dbFailed(c)
           \/ \E t \in Tabs : openDone(t)
           \/ UNCHANGED ctrVars
    PROVE  CtrInv'
<1> USE CallsArePairs DEF CtrInv, CtrTypeOK
<1>1. /\ db' \in [Tabs -> {"none", "opening", "open", "failed"}]
      /\ at' \in [Calls -> {"idle", "db", "lock", "tx", "ready"}]
      /\ got' \in [Calls -> Nat \cup {NoCtr}]
    BY DEF nextCtr, openDb, Taken, dbFailed, openDone, ctrVars, callVars
<1>2. \A c \in Calls : /\ at'[c] = "lock" <=> at[c] = "lock"
                       /\ at'[c] = "tx" <=> at[c] = "tx"
                       /\ got'[c] # NoCtr => got[c] # NoCtr /\ at'[c] = at[c]
                       /\ at'[c] = "db" => db'[c[1]] # "none"
    BY DEF nextCtr, openDb, Taken, dbFailed, openDone, ctrVars, callVars, TxInv, LockInv
<1>3. TxInv'
    BY <1>2, TxTypes DEF TxInv
<1>4. LockInv'
    BY <1>2 DEF LockInv
<1> QED
    BY <1>1, <1>3, <1>4

\* A call creates its transaction, behind the others.
LEMMA IncrementStep ==
    ASSUME CtrInv, NEW c \in Calls, at[c] \in {"db", "lock"}, atomicIncrement(c)
    PROVE  /\ txs' \in Seq(Tx)
           /\ at' \in [Calls -> {"idle", "db", "lock", "tx", "ready"}]
           /\ TxInv'
<1> DEFINE x == [call |-> c, read |-> NoCtr, put |-> FALSE]
           n == Len(txs)
<1>1. x \in Tx /\ x.call = c /\ x.read = NoCtr /\ ~x.put
    BY DEF Tx
<1>2. /\ txs' = Append(txs, x)
      /\ at' = [at EXCEPT ![c] = "tx"]
      /\ UNCHANGED <<got, store>>
    BY DEF atomicIncrement, Transaction
<1> HIDE DEF x
<1>3. /\ txs \in Seq(Tx) /\ n \in Nat /\ DOMAIN txs = 1..n
      /\ \A i \in DOMAIN txs : txs[i].call \in Calls
    BY TxTypes DEF CtrInv
<1>4. /\ txs' \in Seq(Tx) /\ DOMAIN txs' = 1..(n + 1)
      /\ txs'[n + 1] = x
      /\ \A i \in 1..n : txs'[i] = txs[i]
    <2> HIDE DEF Tx
    <2> QED
        BY <1>1, <1>2, <1>3
<1>5. at \in [Calls -> {"idle", "db", "lock", "tx", "ready"}]
    BY DEF CtrInv, CtrTypeOK
<1>6. \A d \in Calls : at'[d] = IF d = c THEN "tx" ELSE at[d]
    BY <1>2, <1>5
<1>7. \A i \in 1..n : ~txs[i].put => txs[i].call # c
    BY <1>3 DEF CtrInv, TxInv
<1>8. \A i \in 1..(n + 1) : i \in 1..n \/ i = n + 1
    BY <1>3
<1>9. \A i \in DOMAIN txs' : i > 1 => txs'[i].read = NoCtr /\ ~txs'[i].put
    BY <1>1, <1>3, <1>4, <1>8 DEF CtrInv, TxInv
<1>10. \A i \in DOMAIN txs' :
          /\ txs'[i].put => txs'[i].read # NoCtr
          /\ txs'[i].read # NoCtr => txs'[i].read = store'
          /\ ~txs'[i].put => at'[txs'[i].call] = "tx"
    BY <1>1, <1>2, <1>3, <1>4, <1>6, <1>8 DEF CtrInv, TxInv
<1>11. \A i, j \in DOMAIN txs' :
          i # j /\ ~txs'[i].put /\ ~txs'[j].put => txs'[i].call # txs'[j].call
    BY <1>1, <1>3, <1>4, <1>7, <1>8 DEF CtrInv, TxInv
<1>12. ASSUME NEW d \in Calls
       PROVE  /\ at'[d] = "tx" => \E i \in DOMAIN txs' : txs'[i].call = d /\ ~txs'[i].put
              /\ got'[d] # NoCtr => at'[d] = "ready"
    <2>1. CASE d = c
        <3>1. n + 1 \in DOMAIN txs'
            BY <1>3, <1>4
        <3>2. got[c] = NoCtr
            BY DEF CtrInv, TxInv
        <3> QED
            BY <1>1, <1>2, <1>4, <2>1, <3>1, <3>2
    <2>2. CASE d # c
        <3>1. at[d] = "tx" => \E i \in 1..n : txs[i].call = d /\ ~txs[i].put
            BY <1>3 DEF CtrInv, TxInv
        <3>2. \A i \in 1..n : i \in DOMAIN txs'
            BY <1>3, <1>4
        <3> QED
            BY <1>2, <1>4, <1>6, <2>2, <3>1, <3>2 DEF CtrInv, TxInv
    <2> QED
        BY <2>1, <2>2
<1>13. at' \in [Calls -> {"idle", "db", "lock", "tx", "ready"}]
    BY <1>2, <1>5
<1> QED
    BY <1>4, <1>9, <1>10, <1>11, <1>12, <1>13 DEF TxInv

LEMMA DbReadyStep ==
    ASSUME CtrInv, NEW c \in Calls, dbReady(c)
    PROVE  CtrInv'
<1>1. CASE hasLocks
    <2>1. /\ at[c] = "db" /\ lockQueue' = Append(lockQueue, c)
          /\ at' = [at EXCEPT ![c] = "lock"]
          /\ UNCHANGED <<hasLocks, db, got, txs, store, aborts>>
        BY <1>1 DEF dbReady
    <2>2. CtrTypeOK'
        BY <2>1 DEF CtrInv, CtrTypeOK
    <2>3. \A d \in Calls : at'[d] = IF d = c THEN "lock" ELSE at[d]
        BY <2>1 DEF CtrInv, CtrTypeOK
    <2>4. TxInv'
        <3>1. \A i \in DOMAIN txs : ~txs[i].put => txs[i].call # c
            BY <2>1 DEF CtrInv, TxInv
        <3>2. \A d \in Calls : at'[d] = "tx" <=> at[d] = "tx"
            BY <2>1, <2>3
        <3>3. got[c] = NoCtr
            BY <2>1 DEF CtrInv, TxInv
        <3> QED
            BY <2>1, <2>3, <3>2, <3>3, TxTypes DEF CtrInv, TxInv
    <2>5. LockInv'
        <3> DEFINE n == Len(lockQueue)
        <3>1. /\ n \in Nat /\ DOMAIN lockQueue = 1..n /\ DOMAIN lockQueue' = 1..(n + 1)
              /\ lockQueue'[n + 1] = c
              /\ \A i \in 1..n : lockQueue'[i] = lockQueue[i] /\ lockQueue[i] \in Calls
            BY <2>1 DEF CtrInv, CtrTypeOK
        <3>2. lockQueue # <<>> => lockQueue' # <<>> /\ lockQueue'[1] = lockQueue[1]
            BY <2>1 DEF CtrInv, CtrTypeOK
        <3> HIDE DEF n
        <3>3. \A i \in 1..n : lockQueue[i] # c
            BY <2>1, <3>1 DEF CtrInv, LockInv
        <3>4. \A i \in 1..(n + 1) : i \in 1..n \/ i = n + 1
            BY <3>1
        <3>5. \A i \in DOMAIN lockQueue' :
                 at'[lockQueue'[i]] = "lock" \/ (i = 1 /\ at'[lockQueue'[i]] = "tx")
            BY <2>3, <3>1, <3>4 DEF CtrInv, LockInv
        <3>6. \A i, j \in DOMAIN lockQueue' : i # j => lockQueue'[i] # lockQueue'[j]
            BY <3>1, <3>3, <3>4 DEF CtrInv, LockInv
        <3>7. ASSUME NEW d \in Calls
              PROVE  /\ at'[d] = "db" => db'[d[1]] # "none"
                     /\ at'[d] = "lock" => \E i \in DOMAIN lockQueue' : lockQueue'[i] = d
                     /\ hasLocks' /\ at'[d] = "tx" => lockQueue' # <<>> /\ lockQueue'[1] = d
            <4>1. n + 1 \in DOMAIN lockQueue' /\ \A i \in 1..n : i \in DOMAIN lockQueue'
                BY <3>1
            <4>2. CASE d = c
                BY <2>3, <3>1, <4>1, <4>2
            <4>3. CASE d # c
                BY <2>1, <2>3, <3>1, <3>2, <4>1, <4>3 DEF CtrInv, LockInv
            <4> QED
                BY <4>2, <4>3
        <3> QED
            BY <1>1, <2>1, <3>5, <3>6, <3>7 DEF LockInv
    <2> QED
        BY <2>2, <2>4, <2>5 DEF CtrInv
<1>2. CASE ~hasLocks
    <2>1. /\ at[c] = "db" /\ atomicIncrement(c) /\ UNCHANGED lockQueue
        BY <1>2 DEF dbReady
    <2>2. txs' \in Seq(Tx) /\ TxInv' /\ at' \in [Calls -> {"idle", "db", "lock", "tx", "ready"}]
        BY <2>1, IncrementStep
    <2>3. UNCHANGED <<hasLocks, db, got, store, aborts>> /\ at' = [at EXCEPT ![c] = "tx"]
        BY <2>1 DEF atomicIncrement
    <2>4. CtrTypeOK'
        BY <2>1, <2>2, <2>3 DEF CtrInv, CtrTypeOK, Tx
    <2>5. \A d \in Calls : at'[d] = IF d = c THEN "tx" ELSE at[d]
        BY <2>3 DEF CtrInv, CtrTypeOK
    <2>6. LockInv'
        BY <1>2, <2>1, <2>3, <2>5 DEF CtrInv, LockInv
    <2> QED
        BY <2>2, <2>4, <2>6 DEF CtrInv
<1> QED
    BY <1>1, <1>2

LEMMA LockGrantedStep ==
    ASSUME CtrInv, NEW c \in Calls, lockGranted(c)
    PROVE  CtrInv'
<1>1. /\ at[c] = "lock" /\ atomicIncrement(c) /\ UNCHANGED lockQueue /\ Head(lockQueue) = c
    BY DEF lockGranted
<1>2. txs' \in Seq(Tx) /\ TxInv' /\ at' \in [Calls -> {"idle", "db", "lock", "tx", "ready"}]
    BY <1>1, IncrementStep
<1>3. UNCHANGED <<hasLocks, db, got, store, aborts>> /\ at' = [at EXCEPT ![c] = "tx"]
    BY <1>1 DEF atomicIncrement
<1>4. CtrTypeOK'
    BY <1>1, <1>2, <1>3 DEF CtrInv, CtrTypeOK, Tx
<1>5. \A d \in Calls : at'[d] = IF d = c THEN "tx" ELSE at[d]
    BY <1>3 DEF CtrInv, CtrTypeOK
<1>6. lockQueue # <<>> /\ lockQueue[1] = c /\ lockQueue \in Seq(Calls)
    <2>1. lockQueue \in Seq(Calls) /\ lockQueue # <<>>
        BY <1>1 DEF CtrInv, CtrTypeOK, LockInv
    <2> QED
        BY <1>1, <2>1
<1>7. \A d \in Calls : hasLocks /\ d # c => at[d] # "tx"
    BY <1>6 DEF CtrInv, LockInv
<1>8. LockInv'
    BY <1>1, <1>3, <1>5, <1>6, <1>7 DEF CtrInv, LockInv
<1> QED
    BY <1>2, <1>4, <1>8 DEF CtrInv

\* A call that leaves its transaction gives the lock back to the next one.
LEMMA UnlockStep ==
    ASSUME CtrInv, NEW c \in Calls, at[c] = "tx", NEW v \in {"idle", "ready"},
           at' = [at EXCEPT ![c] = v], lockQueue' = Unlocked(c), UNCHANGED <<hasLocks, db>>
    PROVE  LockInv' /\ lockQueue' \in Seq(Calls)
<1>1. \A d \in Calls : at'[d] = IF d = c THEN v ELSE at[d]
    BY DEF CtrInv, CtrTypeOK
<1>2. lockQueue \in Seq(Calls) /\ hasLocks \in BOOLEAN
    BY DEF CtrInv, CtrTypeOK
<1>3. CASE ~hasLocks
    <2>1. lockQueue = <<>> /\ lockQueue' = <<>>
        BY <1>3 DEF CtrInv, LockInv, Unlocked
    <2> QED
        BY <1>1, <1>3, <2>1 DEF CtrInv, LockInv
<1>4. CASE hasLocks
    <2> DEFINE n == Len(lockQueue)
    <2>1. lockQueue # <<>> /\ lockQueue[1] = c
        BY <1>4 DEF CtrInv, LockInv
    <2>2. lockQueue' = Tail(lockQueue)
        BY <1>2, <2>1 DEF Unlocked
    <2>3. /\ n \in Nat /\ n > 0 /\ DOMAIN lockQueue = 1..n
          /\ DOMAIN lockQueue' = 1..(n - 1)
          /\ \A i \in 1..(n - 1) : lockQueue'[i] = lockQueue[i + 1]
          /\ \A i \in 1..n : lockQueue[i] \in Calls
          /\ lockQueue' \in Seq(Calls)
        BY <1>2, <2>1, <2>2
    <2> HIDE DEF n
    <2>4. \A i \in 1..(n - 1) : i + 1 \in 1..n /\ i + 1 # 1
        BY <2>3
    <2>5. \A i \in DOMAIN lockQueue' : /\ lockQueue'[i] # c /\ lockQueue'[i] \in Calls
                                       /\ at[lockQueue'[i]] = "lock"
        <3> SUFFICES ASSUME NEW i \in 1..(n - 1)
                     PROVE  /\ lockQueue'[i] # c /\ lockQueue'[i] \in Calls
                            /\ at[lockQueue'[i]] = "lock"
            BY <2>3
        <3>1. i + 1 \in DOMAIN lockQueue /\ 1 \in DOMAIN lockQueue /\ i + 1 # 1
            BY <2>3, <2>4
        <3>2. lockQueue'[i] = lockQueue[i + 1]
            BY <2>3
        <3> QED
            BY <2>1, <2>3, <3>1, <3>2 DEF CtrInv, LockInv
    <2>6. \A i, j \in DOMAIN lockQueue' : i # j => lockQueue'[i] # lockQueue'[j]
        <3> SUFFICES ASSUME NEW i \in 1..(n - 1), NEW j \in 1..(n - 1), i # j
                     PROVE  lockQueue'[i] # lockQueue'[j]
            BY <2>3
        <3>1. i + 1 # j + 1 /\ i + 1 \in DOMAIN lockQueue /\ j + 1 \in DOMAIN lockQueue
            BY <2>3, <2>4
        <3>2. lockQueue'[i] = lockQueue[i + 1] /\ lockQueue'[j] = lockQueue[j + 1]
            BY <2>3
        <3> QED
            BY <3>1, <3>2 DEF CtrInv, LockInv
    <2>7. ASSUME NEW d \in Calls, at'[d] = "lock"
          PROVE  \E i \in DOMAIN lockQueue' : lockQueue'[i] = d
        <3>1. d # c /\ at[d] = "lock"
            BY <1>1, <2>7
        <3>2. PICK i \in 1..n : lockQueue[i] = d
            BY <2>3, <3>1 DEF CtrInv, LockInv
        <3>3. i # 1 /\ i - 1 \in 1..(n - 1) /\ (i - 1) + 1 = i
            BY <2>1, <2>3, <3>1, <3>2
        <3> QED
            BY <2>3, <3>2, <3>3
    <2>8. \A d \in Calls : at'[d] # "tx"
        BY <1>1, <1>4, <2>1 DEF CtrInv, LockInv
    <2>9. \A d \in Calls : at'[d] = "db" => db'[d[1]] # "none"
        BY <1>1 DEF CtrInv, LockInv
    <2> QED
        BY <1>1, <1>4, <2>3, <2>5, <2>6, <2>7, <2>8, <2>9 DEF LockInv
<1> QED
    BY <1>2, <1>3, <1>4

LEMMA GetDoneStep ==
    ASSUME CtrInv, getDone
    PROVE  CtrInv'
<1>1. /\ txs \in Seq(Tx) /\ DOMAIN txs = 1..Len(txs) /\ txs # <<>>
      /\ \A i \in DOMAIN txs : /\ txs[i] \in Tx
                               /\ txs[i].call \in Calls
                               /\ txs[i].put \in BOOLEAN
    BY TxTypes DEF CtrInv, getDone, Running
<1>2. 1 \in DOMAIN txs /\ txs[1].read = NoCtr /\ store \in Nat /\ Len(txs) \in Nat
    BY <1>1 DEF getDone, CtrInv, CtrTypeOK
<1> DEFINE x == [txs[1] EXCEPT !.read = store]
<1>3. x \in Tx /\ x.call = txs[1].call /\ x.put = txs[1].put /\ x.read = store
    BY <1>1, <1>2 DEF Tx
<1>4. txs' = [txs EXCEPT ![1] = x]
    BY DEF getDone
<1>5. UNCHANGED <<hasLocks, db, at, got, lockQueue, store, aborts>>
    BY DEF getDone, callVars
<1> HIDE DEF x
<1>6. /\ txs' \in Seq(Tx) /\ DOMAIN txs' = DOMAIN txs
      /\ \A i \in DOMAIN txs : txs'[i] = IF i = 1 THEN x ELSE txs[i]
    <2> HIDE DEF Tx
    <2> QED
        BY <1>1, <1>2, <1>3, <1>4
<1>7. CtrTypeOK'
    BY <1>5, <1>6 DEF CtrInv, CtrTypeOK, Tx
<1>8. \A i \in DOMAIN txs : txs'[i].put = txs[i].put /\ txs'[i].call = txs[i].call
    BY <1>3, <1>6
<1>9. /\ \A i \in DOMAIN txs' : i > 1 => txs'[i].read = NoCtr /\ ~txs'[i].put
      /\ \A i \in DOMAIN txs' : /\ txs'[i].put => txs'[i].read # NoCtr
                                /\ txs'[i].read # NoCtr => txs'[i].read = store'
    BY <1>2, <1>3, <1>5, <1>6, <1>8, CtrAssumption DEF CtrInv, TxInv
<1>10. TxInv'
    BY <1>5, <1>6, <1>8, <1>9 DEF CtrInv, TxInv
<1>11. LockInv'
    BY <1>5 DEF CtrInv, LockInv
<1> QED
    BY <1>7, <1>10, <1>11 DEF CtrInv

LEMMA PutDoneStep ==
    ASSUME CtrInv, putDone
    PROVE  /\ CtrInv'
           /\ at[Head(txs).call] = "tx"
           /\ Head(txs) = txs[1] /\ txs[1].call \in Calls /\ txs[1].read = store
           /\ txs'[1].put /\ txs'[1].read = txs[1].read /\ ~txs[1].put /\ txs' # <<>>
           /\ Head(txs') = txs'[1]
<1>1. /\ txs \in Seq(Tx) /\ DOMAIN txs = 1..Len(txs) /\ txs # <<>> /\ Head(txs) = txs[1]
      /\ \A i \in DOMAIN txs : /\ txs[i] \in Tx
                               /\ txs[i].call \in Calls
                               /\ txs[i].put \in BOOLEAN
                               /\ txs[i].read \in Nat \cup {NoCtr}
    BY TxTypes DEF CtrInv, putDone, Running
<1>2. 1 \in DOMAIN txs /\ txs[1].read # NoCtr /\ ~txs[1].put /\ Len(txs) \in Nat
    BY <1>1 DEF putDone
<1> DEFINE x == [txs[1] EXCEPT !.put = TRUE]
           c == txs[1].call
<1>3. x \in Tx /\ x.call = c /\ x.put /\ x.read = txs[1].read
    BY <1>1, <1>2 DEF Tx
<1>4. /\ txs' = [txs EXCEPT ![1] = x]
      /\ at' = [at EXCEPT ![c] = "ready"]
      /\ got' = [got EXCEPT ![c] = txs[1].read]
      /\ lockQueue' = Unlocked(c)
      /\ UNCHANGED <<hasLocks, db, store, aborts>>
    BY <1>1 DEF putDone
<1> HIDE DEF x
<1>5. /\ txs' \in Seq(Tx) /\ DOMAIN txs' = DOMAIN txs
      /\ \A i \in DOMAIN txs : txs'[i] = IF i = 1 THEN x ELSE txs[i]
    <2> HIDE DEF Tx
    <2> QED
        BY <1>1, <1>2, <1>3, <1>4
<1>6. at[c] = "tx" /\ c \in Calls /\ txs[1].read = store
    BY <1>1, <1>2 DEF CtrInv, TxInv
<1> HIDE DEF c
<1>7. LockInv' /\ lockQueue' \in Seq(Calls)
    BY <1>4, <1>6, UnlockStep
<1>8. CtrTypeOK'
    BY <1>1, <1>2, <1>4, <1>5, <1>6, <1>7 DEF CtrInv, CtrTypeOK, Tx
<1>9. \A d \in Calls : /\ at'[d] = IF d = c THEN "ready" ELSE at[d]
                       /\ got'[d] = IF d = c THEN store ELSE got[d]
    BY <1>4, <1>6 DEF CtrInv, CtrTypeOK
<1>10. \A i \in DOMAIN txs : /\ txs'[i].call = txs[i].call
                             /\ txs'[i].read = txs[i].read
                             /\ ~txs'[i].put <=> i # 1 /\ ~txs[i].put
    BY <1>3, <1>5 DEF c
<1>11. \A i \in DOMAIN txs : i # 1 => i > 1 /\ ~txs[i].put /\ txs[i].call # c
    BY <1>1, <1>2 DEF c, CtrInv, TxInv
<1>12. TxInv'
    <2>1. \A i \in DOMAIN txs' : i > 1 => txs'[i].read = NoCtr /\ ~txs'[i].put
        BY <1>5, <1>10, <1>11 DEF CtrInv, TxInv
    <2>2. \A i \in DOMAIN txs' :
             /\ txs'[i].put => txs'[i].read # NoCtr
             /\ txs'[i].read # NoCtr => txs'[i].read = store'
             /\ ~txs'[i].put => at'[txs'[i].call] = "tx"
        BY <1>1, <1>2, <1>4, <1>5, <1>9, <1>10, <1>11 DEF CtrInv, TxInv
    <2>3. \A i, j \in DOMAIN txs' :
             i # j /\ ~txs'[i].put /\ ~txs'[j].put => txs'[i].call # txs'[j].call
        BY <1>5, <1>10 DEF CtrInv, TxInv
    <2>4. ASSUME NEW d \in Calls
          PROVE  /\ at'[d] = "tx" => \E i \in DOMAIN txs' : txs'[i].call = d /\ ~txs'[i].put
                 /\ got'[d] # NoCtr => at'[d] = "ready"
        <3>1. CASE d = c
            BY <1>9, <3>1
        <3>2. CASE d # c
            <4>1. \A i \in DOMAIN txs : txs[i].call = d => i # 1
                BY <3>2 DEF c
            <4> QED
                BY <1>5, <1>9, <1>10, <3>2, <4>1 DEF CtrInv, TxInv
        <3> QED
            BY <3>1, <3>2
    <2> QED
        BY <2>1, <2>2, <2>3, <2>4 DEF TxInv
<1>13. txs' # <<>> /\ Head(txs') = txs'[1]
    BY <1>1, <1>2, <1>5
<1> QED
    BY <1>1, <1>2, <1>3, <1>5, <1>6, <1>7, <1>8, <1>12, <1>13 DEF CtrInv, c

\* A transaction is over: the rest move up, and none of them has read yet.
LEMMA TxEnds ==
    ASSUME CtrInv, txs # <<>>, txs' = Tail(txs)
    PROVE  /\ txs' \in Seq(Tx)
           /\ \A i \in DOMAIN txs' :
                 /\ i + 1 \in DOMAIN txs /\ i + 1 # 1 /\ txs'[i] = txs[i + 1]
                 /\ txs'[i].call \in Calls /\ txs'[i].read = NoCtr /\ ~txs'[i].put
                 /\ at[txs'[i].call] = "tx"
           /\ \A i \in DOMAIN txs : i # 1 => i - 1 \in DOMAIN txs' /\ txs'[i - 1] = txs[i]
           /\ \A i, j \in DOMAIN txs' : i # j => txs'[i].call # txs'[j].call
           /\ 1 \in DOMAIN txs /\ Head(txs) = txs[1]
           /\ txs' # <<>> => 1 \in DOMAIN txs' /\ Head(txs') = txs'[1]
<1> DEFINE n == Len(txs)
<1>1. /\ txs \in Seq(Tx) /\ n \in Nat /\ DOMAIN txs = 1..n
      /\ \A i \in DOMAIN txs : txs[i].call \in Calls
    BY TxTypes DEF CtrInv
<1>2. /\ n > 0 /\ txs' \in Seq(Tx) /\ DOMAIN txs' = 1..(n - 1) /\ Head(txs) = txs[1]
      /\ \A i \in 1..(n - 1) : txs'[i] = txs[i + 1]
      /\ txs' # <<>> => n > 1 /\ Head(txs') = txs'[1]
    <2> HIDE DEF Tx
    <2> QED
        BY <1>1
<1> HIDE DEF n
<1>3. \A i \in DOMAIN txs' : i + 1 \in DOMAIN txs /\ i + 1 > 1 /\ txs'[i] = txs[i + 1]
    BY <1>1, <1>2
<1>4. \A i \in DOMAIN txs' : /\ txs'[i].call \in Calls /\ txs'[i].read = NoCtr
                             /\ ~txs'[i].put /\ at[txs'[i].call] = "tx"
    BY <1>1, <1>3 DEF CtrInv, TxInv
<1>5. \A i \in DOMAIN txs : i # 1 => i - 1 \in DOMAIN txs' /\ txs'[i - 1] = txs[i]
    <2> SUFFICES ASSUME NEW i \in 1..n, i # 1
                 PROVE  i - 1 \in DOMAIN txs' /\ txs'[i - 1] = txs[i]
        BY <1>1
    <2>1. i - 1 \in 1..(n - 1) /\ (i - 1) + 1 = i
        BY <1>1
    <2> QED
        BY <1>2, <2>1
<1>6. ASSUME NEW i \in DOMAIN txs', NEW j \in DOMAIN txs', i # j
      PROVE  txs'[i].call # txs'[j].call
    <2>1. i + 1 # j + 1
        BY <1>1, <1>2, <1>6
    <2> QED
        BY <1>3, <1>4, <2>1 DEF CtrInv, TxInv
<1>7. \A i \in DOMAIN txs' : i + 1 # 1
    BY <1>1, <1>2
<1> QED
    BY <1>1, <1>2, <1>3, <1>4, <1>5, <1>6, <1>7

LEMMA CommitStep ==
    ASSUME CtrInv, commit \/ commitFails
    PROVE  CtrInv'
<1>1. /\ txs # <<>> /\ Head(txs).put /\ txs' = Tail(txs)
      /\ UNCHANGED <<hasLocks, db, at, got, lockQueue>>
      /\ store' = Head(txs).read + 1 \/ store' = store
    BY DEF commit, commitFails, Running, callVars
<1>2. 1 \in DOMAIN txs /\ Head(txs) = txs[1] /\ txs[1].put /\ txs[1].read = store
      /\ store \in Nat
    BY <1>1, TxEnds DEF CtrInv, TxInv, CtrTypeOK
<1>3. aborts' \in Nat
    BY DEF commit, commitFails, CtrInv, CtrTypeOK
<1>4. CtrTypeOK'
    <2>1. store' \in Nat /\ txs' \in Seq(Tx)
        BY <1>1, <1>2, TxEnds
    <2> QED
        BY <1>1, <1>3, <2>1 DEF CtrInv, CtrTypeOK, Tx
<1>5. \A c \in Calls : at[c] = "tx" => \E i \in DOMAIN txs' : txs'[i].call = c /\ ~txs'[i].put
    <2> SUFFICES ASSUME NEW c \in Calls, at[c] = "tx"
                 PROVE  \E i \in DOMAIN txs' : txs'[i].call = c /\ ~txs'[i].put
        OBVIOUS
    <2>1. PICK i \in DOMAIN txs : txs[i].call = c /\ ~txs[i].put
        BY DEF CtrInv, TxInv
    <2>2. i - 1 \in DOMAIN txs' /\ txs'[i - 1] = txs[i]
        BY <1>1, <1>2, <2>1, TxEnds
    <2> QED
        BY <2>1, <2>2
<1>6. TxInv'
    <2>1. \A c \in Calls : got[c] # NoCtr => at[c] = "ready"
        BY DEF CtrInv, TxInv
    <2> QED
        BY <1>1, <1>5, <2>1, TxEnds DEF TxInv
<1>7. LockInv'
    BY <1>1 DEF CtrInv, LockInv
<1> QED
    BY <1>4, <1>6, <1>7 DEF CtrInv

LEMMA RequestFailsStep ==
    ASSUME CtrInv, requestFails
    PROVE  CtrInv'
<1> DEFINE c == txs[1].call
<1>1. /\ txs # <<>> /\ ~Head(txs).put /\ txs' = Tail(txs)
      /\ UNCHANGED <<hasLocks, db, got, store, aborts>>
    BY DEF requestFails, Running
<1>2. 1 \in DOMAIN txs /\ Head(txs) = txs[1] /\ ~txs[1].put
    BY <1>1, TxEnds
<1>3. at[c] = "tx" /\ c \in Calls
    BY <1>2, TxTypes DEF CtrInv, TxInv
<1>4. at' = [at EXCEPT ![c] = "idle"] /\ lockQueue' = Unlocked(c)
    BY <1>2 DEF requestFails
<1>5. \A i \in DOMAIN txs : i # 1 => txs[i].call # c
    BY <1>2, TxTypes DEF CtrInv, TxInv
<1> HIDE DEF c
<1>6. LockInv' /\ lockQueue' \in Seq(Calls)
    BY <1>1, <1>3, <1>4, UnlockStep
<1>7. CtrTypeOK'
    <2>1. txs' \in Seq(Tx)
        BY <1>1, TxEnds
    <2> QED
        BY <1>1, <1>3, <1>4, <1>6, <2>1 DEF CtrInv, CtrTypeOK, Tx
<1>8. \A d \in Calls : at'[d] = IF d = c THEN "idle" ELSE at[d]
    BY <1>4 DEF CtrInv, CtrTypeOK
<1>9. TxInv'
    <2>1. \A i \in DOMAIN txs' : txs'[i].call # c
        BY <1>1, <1>5, TxEnds
    <2>2. \A i \in DOMAIN txs' : at'[txs'[i].call] = "tx"
        BY <1>1, <1>8, <2>1, TxEnds
    <2>3. \A d \in Calls : got[d] # NoCtr => at'[d] = "ready"
        BY <1>3, <1>8 DEF CtrInv, TxInv
    <2>4. \A d \in Calls : at'[d] = "tx" => \E i \in DOMAIN txs' : txs'[i].call = d /\ ~txs'[i].put
        <3> SUFFICES ASSUME NEW d \in Calls, at'[d] = "tx"
                     PROVE  \E i \in DOMAIN txs' : txs'[i].call = d /\ ~txs'[i].put
            OBVIOUS
        <3>1. d # c /\ at[d] = "tx"
            BY <1>8
        <3>2. PICK i \in DOMAIN txs : txs[i].call = d /\ ~txs[i].put
            BY <3>1 DEF CtrInv, TxInv
        <3>3. i # 1
            BY <3>1, <3>2 DEF c
        <3>4. i - 1 \in DOMAIN txs' /\ txs'[i - 1] = txs[i]
            BY <1>1, <3>2, <3>3, TxEnds
        <3> QED
            BY <3>2, <3>4
    <2> QED
        BY <1>1, <2>2, <2>3, <2>4, TxEnds DEF TxInv
<1> QED
    BY <1>6, <1>7, <1>9 DEF CtrInv

\* A page goes away: what is left of a queue keeps its order, and nothing
\* but its first element comes to the front ...
KeptFrom(p, q, K, f) ==
    /\ f \in [DOMAIN p -> K]
    /\ \A i \in DOMAIN p : p[i] = q[f[i]]
    /\ \A i, j \in DOMAIN p : i # j => f[i] # f[j]
    /\ \A k \in K : \E i \in DOMAIN p : f[i] = k
    /\ \A i \in DOMAIN p : i >= 1 /\ (i # 1 => f[i] > 1)
    /\ 1 \in K => 1 \in DOMAIN p /\ f[1] = 1
    /\ p # <<>> => 1 \in DOMAIN p /\ Head(p) = p[1]

LEMMA KeptInOrder ==
    ASSUME NEW S, NEW q \in Seq(S), NEW K \in SUBSET DOMAIN q
    PROVE  KeepAt(q, K) \in Seq(S) /\ \E f : KeptFrom(KeepAt(q, K), q, K, f)
<1> DEFINE kept == KeepAt(q, K)
<1>1. kept \in Seq(S)
    BY KeepAtProperties
<1>2. PICK f \in [DOMAIN kept -> K] :
          /\ \A i \in DOMAIN kept : kept[i] = q[f[i]]
          /\ \A i, j \in DOMAIN kept : i < j => f[i] < f[j]
          /\ \A k \in K : \E i \in DOMAIN kept : f[i] = k
    BY KeepAtProperties
<1>3. /\ DOMAIN kept = 1..Len(kept) /\ Len(kept) \in Nat
      /\ kept # <<>> => 1 \in DOMAIN kept /\ Head(kept) = kept[1]
    BY <1>1
<1>4. \A k \in K : k \in Int /\ k >= 1
    OBVIOUS
<1> HIDE DEF kept
<1>5. \A i \in DOMAIN kept : i \in Int /\ i >= 1 /\ 1 \in DOMAIN kept /\ f[i] \in K
    BY <1>2, <1>3
<1>6. ASSUME NEW i \in DOMAIN kept, NEW j \in DOMAIN kept, i # j
      PROVE  f[i] # f[j]
    <2>1. i < j \/ j < i
        BY <1>5, <1>6
    <2>2. f[i] < f[j] \/ f[j] < f[i]
        BY <1>2, <2>1
    <2>3. f[i] \in Int /\ f[j] \in Int
        BY <1>4, <1>5
    <2> QED
        BY <2>2, <2>3
<1>7. ASSUME NEW i \in DOMAIN kept, i # 1
      PROVE  f[i] > 1
    <2>1. 1 < i /\ 1 \in DOMAIN kept
        BY <1>5, <1>7
    <2>2. f[1] < f[i] /\ f[1] \in K /\ f[i] \in K
        BY <1>2, <1>5, <2>1
    <2> QED
        BY <1>4, <2>2
<1>8. ASSUME 1 \in K
      PROVE  1 \in DOMAIN kept /\ f[1] = 1
    <2>1. PICK i \in DOMAIN kept : f[i] = 1
        BY <1>2, <1>8
    <2>2. i = 1
        BY <1>4, <1>5, <1>7, <2>1
    <2> QED
        BY <2>1, <2>2
<1>9. KeptFrom(kept, q, K, f)
    BY <1>2, <1>3, <1>5, <1>6, <1>7, <1>8 DEF KeptFrom
<1> QED
    BY <1>1, <1>9 DEF kept

LEMMA ReloadStep ==
    ASSUME CtrInv, NEW t \in Tabs, reload(t)
    PROVE  CtrInv'
<1> DEFINE Kt == {i \in DOMAIN txs : txs[i].call[1] # t}
           Kl == {i \in DOMAIN lockQueue : lockQueue[i][1] # t}
<1>1. /\ txs' = KeepAt(txs, Kt) /\ lockQueue' = KeepAt(lockQueue, Kl)
      /\ db' = [db EXCEPT ![t] = "none"]
      /\ at' = [c \in Calls |-> IF c[1] = t THEN "idle" ELSE at[c]]
      /\ got' = [c \in Calls |-> IF c[1] = t THEN NoCtr ELSE got[c]]
      /\ UNCHANGED <<hasLocks, store>> /\ aborts' \in Nat
    BY DEF reload, CtrInv, CtrTypeOK
<1>2. txs \in Seq(Tx) /\ lockQueue \in Seq(Calls) /\ \A i \in DOMAIN txs : txs[i].call \in Calls
    BY TxTypes DEF CtrInv, CtrTypeOK
<1>3. txs' \in Seq(Tx) /\ \E f : KeptFrom(txs', txs, Kt, f)
    <2>1. Kt \in SUBSET DOMAIN txs
        OBVIOUS
    <2> HIDE DEF Tx, Kt
    <2> QED
        BY <1>1, <1>2, <2>1, KeptInOrder
<1>4. PICK f : KeptFrom(txs', txs, Kt, f)
    BY <1>3
<1>5. lockQueue' \in Seq(Calls) /\ \E g : KeptFrom(lockQueue', lockQueue, Kl, g)
    <2>1. Kl \in SUBSET DOMAIN lockQueue
        OBVIOUS
    <2> HIDE DEF Calls, Kl
    <2> QED
        BY <1>1, <1>2, <2>1, KeptInOrder
<1>6. PICK g : KeptFrom(lockQueue', lockQueue, Kl, g)
    BY <1>5
<1> USE DEF KeptFrom
<1>7. \A c \in Calls : c[1] # t => at'[c] = at[c] /\ got'[c] = got[c]
    BY <1>1
<1>8. \A c \in Calls : c[1] = t => at'[c] = "idle" /\ got'[c] = NoCtr
    BY <1>1
<1>9. CtrTypeOK'
    BY <1>1, <1>3, <1>5, CallsArePairs DEF CtrInv, CtrTypeOK, Tx
<1>10. \A i \in DOMAIN txs' : /\ f[i] \in DOMAIN txs /\ txs'[i].call \in Calls
                              /\ txs'[i].call[1] # t
    BY <1>2, <1>4
<1>11. TxInv'
    <2>1. \A i \in DOMAIN txs' : i > 1 => txs'[i].read = NoCtr /\ ~txs'[i].put
        <3> SUFFICES ASSUME NEW i \in DOMAIN txs', i > 1
                     PROVE  txs'[i].read = NoCtr /\ ~txs'[i].put
            OBVIOUS
        <3>1. f[i] \in DOMAIN txs /\ f[i] > 1
            BY <1>4, <1>10
        <3> QED
            BY <1>4, <3>1 DEF CtrInv, TxInv
    <2>2. \A i \in DOMAIN txs' :
             /\ txs'[i].put => txs'[i].read # NoCtr
             /\ txs'[i].read # NoCtr => txs'[i].read = store'
             /\ ~txs'[i].put => at'[txs'[i].call] = "tx"
        BY <1>1, <1>4, <1>7, <1>10 DEF CtrInv, TxInv
    <2>3. \A i, j \in DOMAIN txs' :
             i # j /\ ~txs'[i].put /\ ~txs'[j].put => txs'[i].call # txs'[j].call
        BY <1>4, <1>10 DEF CtrInv, TxInv
    <2>4. ASSUME NEW c \in Calls
          PROVE  /\ at'[c] = "tx" => \E i \in DOMAIN txs' : txs'[i].call = c /\ ~txs'[i].put
                 /\ got'[c] # NoCtr => at'[c] = "ready"
        <3>1. ASSUME at'[c] = "tx"
              PROVE  \E i \in DOMAIN txs' : txs'[i].call = c /\ ~txs'[i].put
            <4>1. c[1] # t /\ at[c] = "tx"
                BY <1>7, <1>8, <3>1
            <4>2. PICK k \in DOMAIN txs : txs[k].call = c /\ ~txs[k].put
                BY <4>1 DEF CtrInv, TxInv
            <4>3. k \in Kt
                BY <4>1, <4>2
            <4>4. PICK i \in DOMAIN txs' : f[i] = k
                BY <1>4, <4>3
            <4> QED
                BY <1>4, <4>2, <4>4
        <3>2. got'[c] # NoCtr => at'[c] = "ready"
            BY <1>7, <1>8 DEF CtrInv, TxInv
        <3> QED
            BY <3>1, <3>2
    <2> QED
        BY <2>1, <2>2, <2>3, <2>4 DEF TxInv
<1>12. \A i \in DOMAIN lockQueue' : /\ g[i] \in DOMAIN lockQueue /\ lockQueue'[i] \in Calls
                                    /\ lockQueue'[i][1] # t /\ lockQueue'[i] = lockQueue[g[i]]
    <2> SUFFICES ASSUME NEW i \in DOMAIN lockQueue'
                 PROVE  /\ g[i] \in DOMAIN lockQueue /\ lockQueue'[i] \in Calls
                        /\ lockQueue'[i][1] # t /\ lockQueue'[i] = lockQueue[g[i]]
        OBVIOUS
    <2>1. g[i] \in Kl /\ lockQueue'[i] = lockQueue[g[i]]
        BY <1>6
    <2> QED
        BY <1>2, <2>1
<1>13. LockInv'
    <2>1. \A i \in DOMAIN lockQueue' :
             at'[lockQueue'[i]] = "lock" \/ (i = 1 /\ at'[lockQueue'[i]] = "tx")
        <3> SUFFICES ASSUME NEW i \in DOMAIN lockQueue', at'[lockQueue'[i]] # "lock"
                     PROVE  i = 1 /\ at'[lockQueue'[i]] = "tx"
            OBVIOUS
        <3>1. g[i] = 1 /\ at'[lockQueue'[i]] = "tx"
            BY <1>7, <1>12 DEF CtrInv, LockInv
        <3> QED
            BY <1>6, <3>1
    <2>2. \A i, j \in DOMAIN lockQueue' : i # j => lockQueue'[i] # lockQueue'[j]
        BY <1>6, <1>12 DEF CtrInv, LockInv
    <2>3. ASSUME NEW c \in Calls, at'[c] = "lock"
          PROVE  \E i \in DOMAIN lockQueue' : lockQueue'[i] = c
        <3>1. c[1] # t /\ at[c] = "lock"
            BY <1>7, <1>8, <2>3
        <3>2. PICK k \in DOMAIN lockQueue : lockQueue[k] = c
            BY <3>1 DEF CtrInv, LockInv
        <3>3. k \in Kl
            BY <3>1, <3>2
        <3>4. PICK i \in DOMAIN lockQueue' : g[i] = k
            BY <1>6, <3>3
        <3> QED
            BY <1>12, <3>2, <3>4
    <2>4. ASSUME NEW c \in Calls, hasLocks, at'[c] = "tx"
          PROVE  lockQueue' # <<>> /\ lockQueue'[1] = c
        <3>1. c[1] # t /\ at[c] = "tx"
            BY <1>7, <1>8, <2>4
        <3>2. lockQueue # <<>> /\ lockQueue[1] = c
            BY <2>4, <3>1 DEF CtrInv, LockInv
        <3>3. 1 \in DOMAIN lockQueue
            BY <1>2, <3>2
        <3>4. 1 \in Kl
            BY <3>1, <3>2, <3>3
        <3>5. 1 \in DOMAIN lockQueue' /\ g[1] = 1
            BY <1>6, <3>4
        <3> QED
            BY <1>12, <3>2, <3>5
    <2>5. \A c \in Calls : at'[c] = "db" => db'[c[1]] # "none"
        BY <1>1, <1>7, <1>8, CallsArePairs DEF CtrInv, LockInv, CtrTypeOK
    <2>6. ~hasLocks' => lockQueue' = <<>>
        <3> SUFFICES ASSUME ~hasLocks PROVE lockQueue' = <<>>
            BY <1>1
        <3>1. DOMAIN lockQueue = {}
            BY DEF CtrInv, LockInv
        <3>2. DOMAIN lockQueue' = {}
            BY <1>12, <3>1
        <3> QED
            BY <1>5, <3>2
    <2> QED
        BY <1>1, <2>1, <2>2, <2>3, <2>4, <2>5, <2>6 DEF LockInv
<1> QED
    BY <1>9, <1>11, <1>13 DEF CtrInv

LEMMA CtrInvStep ==
    ASSUME CtrInv, CtrStep
    PROVE  CtrInv'
<1>1. ASSUME NEW c \in Calls, nextCtr(c) \/ Taken(c) \/ dbFailed(c)
      PROVE  CtrInv'
    <2>1. UNCHANGED <<hasLocks, lockQueue, txs, store, aborts>>
        BY <1>1 DEF nextCtr, Taken, dbFailed, idbVars
    <2>2. aborts' \in Nat
        BY <2>1 DEF CtrInv, CtrTypeOK
    <2> QED
        BY <1>1, <2>1, <2>2, QuietSteps
<1>2. ASSUME NEW t \in Tabs, openDone(t)
      PROVE  CtrInv'
    <2>1. UNCHANGED <<hasLocks, lockQueue, txs, store, aborts>>
        BY <1>2 DEF openDone, idbVars
    <2>2. aborts' \in Nat
        BY <2>1 DEF CtrInv, CtrTypeOK
    <2> QED
        BY <1>2, <2>1, <2>2, QuietSteps
<1>3. CASE UNCHANGED ctrVars
    <2>1. UNCHANGED <<hasLocks, lockQueue, txs, store, aborts>>
        BY <1>3 DEF ctrVars, idbVars
    <2>2. aborts' \in Nat
        BY <2>1 DEF CtrInv, CtrTypeOK
    <2> QED
        BY <1>3, <2>1, <2>2, QuietSteps
<1> QED
    BY <1>1, <1>2, <1>3, DbReadyStep, LockGrantedStep, GetDoneStep, PutDoneStep, RequestFailsStep,
       CommitStep, ReloadStep DEF CtrStep, Progress

LEMMA CtrInvInit == CtrInit => CtrInv
<1> SUFFICES ASSUME CtrInit PROVE CtrInv
    OBVIOUS
<1>1. lockQueue \in Seq(Calls) /\ txs \in Seq(Tx) /\ lockQueue = <<>> /\ txs = <<>>
    <2> HIDE DEF Tx, Calls
    <2> QED
        BY DEF CtrInit
<1>2. CtrTypeOK
    BY <1>1 DEF CtrInit, CtrTypeOK, Tx
<1> QED
    BY <1>1, <1>2 DEF CtrInit, CtrInv, TxInv, LockInv

-----------------------------------------------------------------------------
(***************************************************************************)
(* The allocator implements UniqueCounter.                                 *)
(***************************************************************************)
\* Once a transaction is over the committed counter is what comes next.
LEMMA UpcomingAfterEnd ==
    ASSUME CtrInv, txs # <<>>, txs' = Tail(txs)
    PROVE  Upcoming' = store'
<1>1. txs' # <<>> => ~Head(txs').put
    BY TxEnds
<1> QED
    BY <1>1 DEF Upcoming, Running

LEMMA UpcomingType ==
    ASSUME CtrInv
    PROVE  /\ Upcoming \in Nat /\ store \in Nat
           /\ txs # <<>> => 1 \in DOMAIN txs /\ Head(txs) = txs[1] /\ txs[1].put \in BOOLEAN
           /\ txs # <<>> /\ txs[1].put => txs[1].read = store
<1>1. txs \in Seq(Tx) /\ store \in Nat
    BY TxTypes DEF CtrInv, CtrTypeOK
<1>2. txs # <<>> => 1 \in DOMAIN txs /\ Head(txs) = txs[1]
    <2> HIDE DEF Tx
    <2> QED
        BY <1>1
<1>3. txs # <<>> /\ txs[1].put => txs[1].read = store
    BY <1>2 DEF CtrInv, TxInv
<1>4. txs # <<>> => txs[1].put \in BOOLEAN
    BY <1>2, TxTypes DEF CtrInv
<1> QED
    BY <1>1, <1>2, <1>3, <1>4 DEF Upcoming, Running

\* The replies as a function of the calls.
LEMMA ReplyShape ==
    ASSUME CtrInv
    PROVE  got = [c \in Calls |-> IF c \in {} THEN NoCtr ELSE got[c]]
BY DEF CtrInv, CtrTypeOK

\* What a step means to the callers.
CounterStep ==
    \/ \E c \in Calls : /\ got[c] = NoCtr
                         /\ got' = [got EXCEPT ![c] = Upcoming]
                         /\ Upcoming' = Upcoming + 1 /\ aborts' = aborts
    \/ \E C \in SUBSET Calls :
          /\ got' = [c \in Calls |-> IF c \in C THEN NoCtr ELSE got[c]]
          /\ \/ Upcoming' = Upcoming /\ aborts' = aborts
             \/ Upcoming > 0 /\ Upcoming' = Upcoming - 1 /\ aborts' = aborts + 1
    \/ UNCHANGED <<Upcoming, got, aborts>>

LEMMA StepOfCounter ==
    ASSUME CtrInv, CtrStep
    PROVE  CounterStep
<1>1. ASSUME UNCHANGED <<txs, store, got, aborts>>
      PROVE  CounterStep
    BY <1>1 DEF CounterStep, Upcoming, Running
<1>2. ASSUME NEW c \in Calls, nextCtr(c) \/ dbFailed(c)
      PROVE  CounterStep
    BY <1>1, <1>2 DEF nextCtr, dbFailed, idbVars
<1>3. ASSUME NEW t \in Tabs, openDone(t)
      PROVE  CounterStep
    BY <1>1, <1>3 DEF openDone, callVars, idbVars
<1>4. CASE UNCHANGED ctrVars
    BY <1>1, <1>4 DEF ctrVars, callVars, idbVars
<1>5. ASSUME NEW c \in Calls, Taken(c)
      PROVE  CounterStep
    <2>1. UNCHANGED <<txs, store, aborts>>
        BY <1>5 DEF Taken, idbVars
    <2>2. Upcoming' = Upcoming
        BY <2>1 DEF Upcoming, Running
    <2>3. got' = [d \in Calls |-> IF d \in {c} THEN NoCtr ELSE got[d]]
        BY <1>5 DEF Taken, CtrInv, CtrTypeOK
    <2>4. {c} \in SUBSET Calls
        OBVIOUS
    <2> QED
        BY <2>1, <2>2, <2>3, <2>4 DEF CounterStep
<1>6. ASSUME NEW c \in Calls, dbReady(c) \/ lockGranted(c)
      PROVE  CounterStep
    <2>1. UNCHANGED <<store, got, aborts>> /\ (txs' = txs \/ txs' = Append(txs, Transaction(c)))
        BY <1>6 DEF dbReady, lockGranted, atomicIncrement
    <2> DEFINE x == Transaction(c)
    <2>2. txs \in Seq(Tx) /\ x \in Tx /\ ~x.put
        BY TxTypes DEF CtrInv, Transaction, Tx
    <2> HIDE DEF x
    <2>3. CASE txs' = Append(txs, x) /\ txs = <<>>
        <3>1. txs' # <<>> /\ Head(txs') = x
            BY <2>2, <2>3
        <3> QED
            BY <2>1, <2>2, <2>3, <3>1 DEF CounterStep, Upcoming, Running
    <2>4. CASE txs' = Append(txs, x) /\ txs # <<>>
        <3>1. txs' # <<>> /\ Head(txs') = Head(txs)
            <4> HIDE DEF Tx
            <4> QED
                BY <2>2, <2>4
        <3> QED
            BY <2>1, <2>4, <3>1 DEF CounterStep, Upcoming, Running
    <2> QED
        BY <1>1, <2>1, <2>3, <2>4 DEF x
<1>7. CASE getDone
    <2>1. /\ txs # <<>> /\ UNCHANGED <<store, got, aborts>> /\ Head(txs).read = NoCtr
          /\ txs' = [txs EXCEPT ![1].read = store]
        BY <1>7 DEF getDone, callVars, Running
    <2>2. txs \in Seq(Tx) /\ 1 \in DOMAIN txs /\ Head(txs) = txs[1] /\ txs[1] \in Tx
        BY <2>1, TxTypes, UpcomingType DEF CtrInv
    <2>3. ~txs[1].put
        BY <2>1, <2>2 DEF CtrInv, TxInv
    <2> DEFINE x == [txs[1] EXCEPT !.read = store]
    <2>4. x.put = txs[1].put /\ x \in Tx
        BY <2>2 DEF Tx, CtrInv, CtrTypeOK
    <2>5. txs' = [txs EXCEPT ![1] = x]
        BY <2>1
    <2> HIDE DEF x
    <2>6. txs' # <<>> /\ Head(txs') = x
        <3> HIDE DEF Tx
        <3> QED
            BY <2>2, <2>4, <2>5
    <2> QED
        BY <2>1, <2>2, <2>3, <2>4, <2>6 DEF CounterStep, Upcoming, Running
<1>8. CASE putDone
    <2> DEFINE c == txs[1].call
    <2>1. /\ c \in Calls /\ at[c] = "tx" /\ Head(txs) = txs[1] /\ txs[1].read = store
          /\ ~txs[1].put /\ txs'[1].put /\ txs'[1].read = store /\ txs' # <<>>
          /\ Head(txs') = txs'[1]
        BY <1>8, PutDoneStep
    <2>2. got' = [got EXCEPT ![c] = store] /\ UNCHANGED <<store, aborts>>
        BY <1>8, <2>1 DEF putDone
    <2>3. got[c] = NoCtr
        BY <2>1 DEF CtrInv, TxInv
    <2>4. Upcoming = store /\ Upcoming' = store + 1
        BY <2>1 DEF Upcoming, Running
    <2> QED
        BY <2>1, <2>2, <2>3, <2>4 DEF CounterStep
<1>9. CASE requestFails
    <2>1. /\ txs # <<>> /\ ~Head(txs).put /\ txs' = Tail(txs) /\ UNCHANGED <<got, store, aborts>>
        BY <1>9 DEF requestFails, Running
    <2>2. Upcoming = store /\ Upcoming' = store
        BY <2>1, UpcomingAfterEnd DEF Upcoming, Running
    <2> QED
        BY <2>1, <2>2 DEF CounterStep
<1>10. CASE commit
    <2>1. /\ txs # <<>> /\ Head(txs).put /\ txs' = Tail(txs) /\ UNCHANGED <<got, aborts>>
          /\ store' = Head(txs).read + 1
        BY <1>10 DEF commit, Running, callVars
    <2>2. Upcoming = store' /\ Upcoming' = store'
        BY <2>1, UpcomingAfterEnd DEF Upcoming, Running
    <2> QED
        BY <2>1, <2>2 DEF CounterStep
<1>11. CASE commitFails
    <2>1. /\ txs # <<>> /\ Head(txs).put /\ txs' = Tail(txs) /\ UNCHANGED <<got, store>>
          /\ aborts' = aborts + 1
        BY <1>11 DEF commitFails, Running, callVars
    <2>2. Upcoming = store + 1 /\ Upcoming' = store /\ store \in Nat
        <3>1. Upcoming' = store /\ store \in Nat
            BY <2>1, UpcomingAfterEnd, UpcomingType
        <3>2. Head(txs).read = store
            BY <2>1, UpcomingType
        <3> QED
            BY <2>1, <3>1, <3>2 DEF Upcoming, Running
    <2>3. Upcoming > 0 /\ Upcoming' = Upcoming - 1
        BY <2>2
    <2>4. got' = [c \in Calls |-> IF c \in {} THEN NoCtr ELSE got[c]] /\ {} \in SUBSET Calls
        BY <2>1, ReplyShape
    <2> QED
        BY <2>1, <2>3, <2>4 DEF CounterStep
<1>12. ASSUME NEW t \in Tabs, reload(t)
       PROVE  CounterStep
    <2> DEFINE C == {c \in Calls : c[1] = t}
               K == {i \in DOMAIN txs : txs[i].call[1] # t}
    <2>1. /\ txs' = KeepAt(txs, K) /\ UNCHANGED store
          /\ got' = [c \in Calls |-> IF c[1] = t THEN NoCtr ELSE got[c]]
          /\ aborts' = IF LostPut(t) THEN aborts + 1 ELSE aborts
        BY <1>12 DEF reload
    <2>2. got' = [c \in Calls |-> IF c \in C THEN NoCtr ELSE got[c]] /\ C \in SUBSET Calls
        BY <2>1
    <2> HIDE DEF C
    <2>3. PICK f : KeptFrom(txs', txs, K, f)
        <3>1. K \in SUBSET DOMAIN txs /\ txs \in Seq(Tx)
            BY TxTypes DEF CtrInv
        <3> HIDE DEF Tx, K
        <3> QED
            BY <2>1, <3>1, KeptInOrder
    <2>4. CASE txs # <<>> /\ Head(txs).put /\ Head(txs).call[1] # t
        <3>1. 1 \in K
            BY <2>4, UpcomingType
        <3>2. 1 \in DOMAIN txs' /\ txs'[1] = txs[1]
            BY <2>3, <3>1 DEF KeptFrom
        <3>3. txs' # <<>> /\ Head(txs') = Head(txs)
            BY <2>3, <2>4, <3>2, UpcomingType DEF KeptFrom
        <3>4. ~LostPut(t)
            BY <2>4 DEF LostPut
        <3>5. Upcoming' = Upcoming
            BY <2>1, <2>4, <3>3 DEF Upcoming, Running
        <3> QED
            BY <2>1, <2>2, <3>4, <3>5 DEF CounterStep
    <2>5. ASSUME txs = <<>> \/ ~Head(txs).put \/ Head(txs).call[1] = t
          PROVE  txs' # <<>> => ~Head(txs').put
        <3> SUFFICES ASSUME txs' # <<>> PROVE ~Head(txs').put
            OBVIOUS
        <3>1. 1 \in DOMAIN txs' /\ Head(txs') = txs'[1] /\ txs'[1] = txs[f[1]] /\ f[1] \in K
            BY <2>3 DEF KeptFrom
        <3>2. f[1] \in DOMAIN txs /\ txs[f[1]].call[1] # t /\ txs # <<>>
            BY <3>1
        <3>3. CASE f[1] = 1
            BY <2>5, <3>1, <3>2, <3>3, UpcomingType
        <3>4. CASE f[1] # 1
            <4>1. f[1] > 1
                BY <3>2, <3>4, TxTypes DEF CtrInv
            <4> QED
                BY <3>1, <3>2, <4>1 DEF CtrInv, TxInv
        <3> QED
            BY <3>3, <3>4
    <2>6. CASE LostPut(t)
        <3>1. Upcoming = store + 1 /\ Upcoming' = store
            <4>1. txs # <<>> /\ Head(txs).put /\ Head(txs).call[1] = t
                BY <2>6 DEF LostPut, Running
            <4>2. Head(txs).read = store
                BY <4>1, UpcomingType
            <4>3. Upcoming' = store
                BY <2>1, <2>5, <4>1 DEF Upcoming, Running
            <4> QED
                BY <4>1, <4>2, <4>3 DEF Upcoming, Running
        <3>2. Upcoming > 0 /\ Upcoming' = Upcoming - 1
            BY <3>1, UpcomingType
        <3> QED
            BY <2>1, <2>2, <2>6, <3>2 DEF CounterStep
    <2>7. CASE txs = <<>> \/ ~Head(txs).put
        <3>1. ~LostPut(t)
            BY <2>7 DEF LostPut, Running
        <3>2. Upcoming = store /\ Upcoming' = store
            BY <2>1, <2>5, <2>7 DEF Upcoming, Running
        <3> QED
            BY <2>1, <2>2, <3>1, <3>2 DEF CounterStep
    <2> QED
        BY <2>4, <2>6, <2>7 DEF LostPut, Running
<1> QED
    BY <1>2, <1>3, <1>4, <1>5, <1>6, <1>7, <1>8, <1>9, <1>10, <1>11, <1>12 DEF CtrStep, Progress

LEMMA StepIsCounterNext ==
    ASSUME CounterStep
    PROVE  Counter!CounterNext \/ UNCHANGED Counter!counterVars
<1>1. ASSUME NEW c \in Calls, got[c] = NoCtr, got' = [got EXCEPT ![c] = Upcoming],
             Upcoming' = Upcoming + 1, aborts' = aborts
      PROVE  Counter!Grant(c)
    BY <1>1 DEF Counter!Grant, Upcoming
<1>2. ASSUME NEW C \in SUBSET Calls, got' = [c \in Calls |-> IF c \in C THEN NoCtr ELSE got[c]],
             Upcoming' = Upcoming, aborts' = aborts
      PROVE  Counter!Release(C)
    BY <1>2 DEF Counter!Release, Upcoming
<1>3. ASSUME NEW C \in SUBSET Calls, got' = [c \in Calls |-> IF c \in C THEN NoCtr ELSE got[c]],
             Upcoming > 0, Upcoming' = Upcoming - 1, aborts' = aborts + 1
      PROVE  Counter!SetBack(C)
    BY <1>3 DEF Counter!SetBack, Upcoming
<1>4. UNCHANGED <<Upcoming, got, aborts>> => UNCHANGED Counter!counterVars
    BY DEF Counter!counterVars, Upcoming
<1> QED
    BY <1>1, <1>2, <1>3, <1>4 DEF CounterStep, Counter!CounterNext

LEMMA CounterInitially == CtrInit => Counter!CounterInit
BY DEF CtrInit, Counter!CounterInit, Upcoming, Running

-----------------------------------------------------------------------------
(***************************************************************************)
(* The chat provider: every step is one of the allocator, or leaves it     *)
(* alone.                                                                  *)
(***************************************************************************)
LEMMA ChatStepOfAllocator ==
    ASSUME Next \/ UNCHANGED vars
    PROVE  CtrStep
<1>1. CASE Room
    BY <1>1 DEF Room, clearEpoch, setEpoch, install, deriveFails, CtrStep
<1>2. CASE Seal
    BY <1>2 DEF Seal, seal, sframeEncrypt, encryptFails, CtrStep
<1>3. CASE allocate
    BY <1>3 DEF allocate, CtrStep
<1>4. CASE Unseal
    BY <1>4 DEF Unseal, decryptDone, decryptFails, unseal, CtrStep
<1>5. ASSUME NEW t \in Tabs, reloadPage(t) PROVE CtrStep
    BY <1>5 DEF reloadPage, CtrStep
<1>6. CASE UNCHANGED vars
    BY <1>6 DEF vars, CtrStep
<1> QED
    BY <1>1, <1>2, <1>3, <1>4, <1>5, <1>6 DEF Next

LEMMA CtrInvariant == Spec => []CtrInv
<1>1. Init => CtrInv
    BY CtrInvInit DEF Init
<1>2. CtrInv /\ [Next]_vars => CtrInv'
    BY ChatStepOfAllocator, CtrInvStep
<1> QED
    BY <1>1, <1>2, PTL DEF Spec

(***************************************************************************)
(* Refinement: what the pages see of locks, transactions, failures and     *)
(* reloads is a counter that gives every number once, and is set back by   *)
(* one where a transaction is lost after its put                           *)
(* (MonotonicIdbCtrAllocator.next).                                        *)
(***************************************************************************)
THEOREM AllocatorIsCounter == Spec => CounterImplemented
<1>1. Init => Counter!CounterInit
    BY CounterInitially DEF Init
<1>2. CtrInv /\ [Next]_vars => [Counter!CounterNext]_Counter!counterVars
    <2> SUFFICES ASSUME CtrInv, Next \/ UNCHANGED vars
                 PROVE  Counter!CounterNext \/ UNCHANGED Counter!counterVars
        OBVIOUS
    <2> QED
        BY ChatStepOfAllocator, StepOfCounter, StepIsCounterNext
<1> QED
    BY <1>1, <1>2, CtrInvariant, PTL DEF Spec, CounterImplemented, Counter!CounterSpec

(***************************************************************************)
(* No seal waits for something that cannot come: the database, the lock    *)
(* and the transaction it waits for are all under way.                     *)
(***************************************************************************)
THEOREM NoSealIsStuck == Spec => []EverySealCanEnd
<1>1. CtrInv => EverySealCanEnd
    <2> SUFFICES ASSUME CtrInv PROVE EverySealCanEnd
        OBVIOUS
    <2>1. lockQueue # <<>> => at[Head(lockQueue)] \in {"lock", "tx"}
        <3>1. lockQueue # <<>> => 1 \in DOMAIN lockQueue /\ Head(lockQueue) = lockQueue[1]
            BY DEF CtrInv, CtrTypeOK
        <3> QED
            BY <3>1 DEF CtrInv, LockInv
    <2> QED
        BY <2>1 DEF EverySealCanEnd, CtrInv, LockInv, TxInv
<1> QED
    BY <1>1, CtrInvariant, PTL

-----------------------------------------------------------------------------
(***************************************************************************)
(* Nonces.                                                                 *)
(***************************************************************************)
LEMMA NonceNumbers == \A n \in Nonces : n[2] \in Int
BY DEF Nonces, Counters

\* Who holds a grant and what comes next move as UniqueCounter says, and
\* nothing is sealed.
LEMMA ReuseUnderCounter ==
    ASSUME CtrInv, CounterStep, ReuseInv, UNCHANGED sealed
    PROVE  ReuseInv'
<1> SUFFICES ASSUME aborts' = 0
             PROVE  /\ \A n \in Nonces : sealed[n] <= 1 /\ (sealed[n] > 0 => n[2] < Upcoming')
                    /\ \A c \in Calls :
                          got'[c] # NoCtr =>
                              /\ got'[c] < Upcoming'
                              /\ \A n \in Nonces : n[2] = got'[c] => sealed[n] = 0
                              /\ \A d \in Calls : d # c => got'[d] # got'[c]
    BY DEF ReuseInv
<1>1. /\ Upcoming \in Nat /\ aborts \in Nat /\ got \in [Calls -> Nat \cup {NoCtr}]
      /\ \A c \in Calls : got[c] # NoCtr => got[c] \in Nat
    BY UpcomingType DEF CtrInv, CtrTypeOK
<1> DEFINE Old == /\ \A n \in Nonces : sealed[n] <= 1 /\ (sealed[n] > 0 => n[2] < Upcoming)
                  /\ \A c \in Calls :
                        got[c] # NoCtr =>
                            /\ got[c] < Upcoming
                            /\ \A n \in Nonces : n[2] = got[c] => sealed[n] = 0
                            /\ \A d \in Calls : d # c => got[d] # got[c]
<1>2. aborts = 0 => Old
    BY DEF ReuseInv
<1>3. ASSUME NEW c \in Calls, got[c] = NoCtr, got' = [got EXCEPT ![c] = Upcoming],
             Upcoming' = Upcoming + 1, aborts' = aborts
      PROVE  Old'
    <2>1. Old
        BY <1>2, <1>3
    <2>2. \A d \in Calls : got'[d] = IF d = c THEN Upcoming ELSE got[d]
        BY <1>1, <1>3
    <2>3. \A n \in Nonces : sealed[n] <= 1 /\ (sealed[n] > 0 => n[2] < Upcoming')
        BY <1>1, <1>3, <2>1, NonceNumbers
    <2>4. \A n \in Nonces : n[2] = Upcoming => sealed[n] = 0
        BY <1>1, <2>1, NonceNumbers DEF ReuseInv
    <2>5. ASSUME NEW d \in Calls, got'[d] # NoCtr
          PROVE  /\ got'[d] < Upcoming'
                 /\ \A n \in Nonces : n[2] = got'[d] => sealed[n] = 0
                 /\ \A e \in Calls : e # d => got'[e] # got'[d]
        <3>1. CASE d = c
            <4>1. \A e \in Calls : e # c => got[e] # Upcoming
                BY <1>1, <2>1, CtrAssumption
            <4> QED
                BY <1>1, <1>3, <2>2, <2>4, <3>1, <4>1
        <3>2. CASE d # c
            <4>1. got'[d] = got[d] /\ got[d] \in Nat /\ got[d] < Upcoming
                BY <1>1, <2>1, <2>2, <2>5, <3>2
            <4>2. \A e \in Calls : e # d => got'[e] # got'[d]
                BY <1>1, <2>1, <2>2, <2>5, <3>2, <4>1
            <4> QED
                BY <1>1, <1>3, <2>1, <2>5, <4>1, <4>2
        <3> QED
            BY <3>1, <3>2
    <2> QED
        BY <2>3, <2>5
<1>4. ASSUME NEW C \in SUBSET Calls,
             got' = [c \in Calls |-> IF c \in C THEN NoCtr ELSE got[c]],
             Upcoming' = Upcoming, aborts' = aborts
      PROVE  Old'
    <2>1. Old
        BY <1>2, <1>4
    <2>2. \A c \in Calls : got'[c] # NoCtr => got'[c] = got[c]
        BY <1>4
    <2>3. \A c, d \in Calls : got'[c] # NoCtr /\ d # c => got'[d] # got'[c]
        BY <1>4, <2>1, <2>2
    <2> QED
        BY <1>4, <2>1, <2>2, <2>3
<1>5. ASSUME aborts' = aborts + 1 PROVE FALSE
    BY <1>1, <1>5
<1>6. CASE UNCHANGED <<Upcoming, got, aborts>>
    BY <1>2, <1>6
<1> QED
    BY <1>3, <1>4, <1>5, <1>6 DEF CounterStep

\* A grant is used: its counter was not sealed before, and it is given up.
LEMMA ReuseUnderSeal ==
    ASSUME CtrInv, ReuseInv, NEW c \in Calls, sframeEncrypt(c)
    PROVE  ReuseInv'
<1> DEFINE m == <<held[c], got[c]>>
<1>1. /\ got' = [got EXCEPT ![c] = NoCtr] /\ UNCHANGED <<txs, store, aborts>>
      /\ sealed' = [sealed EXCEPT ![m] = @ + 1] /\ m[2] = got[c]
    BY DEF sframeEncrypt, Taken, idbVars
<1>2. Upcoming' = Upcoming
    BY <1>1 DEF Upcoming, Running
<1>3. /\ sealed \in [Nonces -> Nat] /\ got \in [Calls -> Nat \cup {NoCtr}] /\ Upcoming \in Nat
    BY UpcomingType DEF ReuseInv, CtrInv, CtrTypeOK
<1> HIDE DEF m
<1>4. /\ sealed' \in [Nonces -> Nat]
      /\ \A n \in Nonces : sealed'[n] = IF n = m THEN sealed[n] + 1 ELSE sealed[n]
    <2>1. CASE m \in Nonces
        BY <1>1, <1>3, <2>1
    <2>2. CASE m \notin Nonces
        <3>1. sealed' = sealed
            BY <1>1, <1>3, <2>2
        <3> QED
            BY <1>3, <2>2, <3>1
    <2> QED
        BY <2>1, <2>2
<1>5. \A d \in Calls : got'[d] = IF d = c THEN NoCtr ELSE got[d]
    BY <1>1, <1>3
<1>6. ASSUME aborts = 0
      PROVE  /\ \A n \in Nonces : sealed'[n] <= 1 /\ (sealed'[n] > 0 => n[2] < Upcoming')
             /\ \A d \in Calls :
                   got'[d] # NoCtr =>
                       /\ got'[d] < Upcoming'
                       /\ \A n \in Nonces : n[2] = got'[d] => sealed'[n] = 0
                       /\ \A e \in Calls : e # d => got'[e] # got'[d]
    <2>1. /\ \A n \in Nonces : sealed[n] <= 1 /\ (sealed[n] > 0 => n[2] < Upcoming)
          /\ \A d \in Calls :
                got[d] # NoCtr =>
                    /\ got[d] < Upcoming
                    /\ \A n \in Nonces : n[2] = got[d] => sealed[n] = 0
                    /\ \A e \in Calls : e # d => got[e] # got[d]
        BY <1>6 DEF ReuseInv
    <2>2. m \in Nonces => got[c] # NoCtr
        BY <1>1, CtrAssumption DEF Nonces, Counters
    <2>3. m \in Nonces => sealed[m] = 0 /\ m[2] < Upcoming
        BY <1>1, <2>1, <2>2
    <2>4. \A n \in Nonces : sealed'[n] <= 1 /\ (sealed'[n] > 0 => n[2] < Upcoming')
        <3> SUFFICES ASSUME NEW n \in Nonces
                     PROVE  sealed'[n] <= 1 /\ (sealed'[n] > 0 => n[2] < Upcoming')
            OBVIOUS
        <3>1. CASE n = m
            BY <1>2, <1>4, <2>3, <3>1
        <3>2. CASE n # m
            BY <1>2, <1>4, <2>1, <3>2
        <3> QED
            BY <3>1, <3>2
    <2>5. ASSUME NEW d \in Calls, got'[d] # NoCtr
          PROVE  /\ got'[d] < Upcoming'
                 /\ \A n \in Nonces : n[2] = got'[d] => sealed'[n] = 0
                 /\ \A e \in Calls : e # d => got'[e] # got'[d]
        <3>1. d # c /\ got'[d] = got[d] /\ got[d] # NoCtr
            BY <1>5, <2>5
        <3>2. \A n \in Nonces : n[2] = got[d] => n # m
            BY <1>1, <2>1, <3>1
        <3> QED
            BY <1>2, <1>4, <1>5, <2>1, <3>1, <3>2
    <2> QED
        BY <2>4, <2>5
<1> QED
    BY <1>1, <1>4, <1>6 DEF ReuseInv

LEMMA ReuseStep ==
    ASSUME CtrInv, ReuseInv, Next \/ UNCHANGED vars
    PROVE  ReuseInv'
<1>1. CASE \E c \in Calls : sframeEncrypt(c)
    BY <1>1, ReuseUnderSeal
<1>2. CASE ~\E c \in Calls : sframeEncrypt(c)
    <2>1. UNCHANGED sealed
        BY <1>2 DEF Next, Room, clearEpoch, setEpoch, install, deriveFails, Seal, seal, encryptFails,
                    allocate, Unseal, decryptDone, decryptFails, unseal, reloadPage, vars, chatVars
    <2> QED
        BY <2>1, ChatStepOfAllocator, StepOfCounter, ReuseUnderCounter
<1> QED
    BY <1>1, <1>2

(***************************************************************************)
(* As long as IndexedDB keeps what it acknowledged, no two messages are    *)
(* ever sealed under one key and counter, whatever tabs, epochs, failing   *)
(* requests and reloads do: the case of NonceReuseBounded without a loss.  *)
(***************************************************************************)
THEOREM NoncesAreUsedOnce == Spec => []NoReuseWithoutLoss
<1>1. Init => ReuseInv
    <2> SUFFICES ASSUME Init PROVE ReuseInv
        OBVIOUS
    <2>1. sealed = [n \in Nonces |-> 0] /\ got = [c \in Calls |-> NoCtr]
        BY DEF Init, CtrInit
    <2> QED
        BY <2>1 DEF ReuseInv
<1>2. CtrInv /\ ReuseInv /\ [Next]_vars => ReuseInv'
    BY ReuseStep
<1>3. ReuseInv => NoReuseWithoutLoss
    BY DEF ReuseInv, NoReuseWithoutLoss
<1> QED
    BY <1>1, <1>2, <1>3, CtrInvariant, PTL DEF Spec

-----------------------------------------------------------------------------
(***************************************************************************)
(* Sums over finite sets.                                                  *)
(***************************************************************************)
\* One step of the sum of g, over the set s of what is left.
Pick(s) == CHOOSE x \in s : TRUE
PartOf(f, g, s) == IF s = {} THEN 0 ELSE g[Pick(s)] + f[s \ {Pick(s)}]
AddsUp(f, g, D) == f = [s \in D |-> PartOf(f, g, s)]
Smaller(S, m) == {s \in SUBSET S : Cardinality(s) <= m}
Total(g, S) == MapThenSumSet(LAMBDA x : g[x], S)
IsSum(f, g, S) == Total(g, S) = f[S] /\ \A s \in SUBSET S : f[s] = PartOf(f, g, s)

LEMMA LeastOf ==
    ASSUME NEW T \in SUBSET Nat, T # {}
    PROVE  \E n \in T : \A y \in T : n <= y
<1>1. IsWellFoundedOn(OpToRel(<, Nat), Nat)
    BY NatLessThanWellFounded
<1>2. PICK n \in T : \A p \in T : ~(<<p, n>> \in OpToRel(<, Nat))
    BY ONLY <1>1, WFMin, T \in SUBSET Nat, T # {}
<1>3. \A p \in T : ~(p < n)
    BY <1>2 DEF OpToRel
<1> QED
    BY <1>3

\* What is left of a subset once an element was taken.
LEMMA OneLess ==
    ASSUME NEW S, IsFiniteSet(S), NEW s \in SUBSET S
    PROVE  /\ IsFiniteSet(s) /\ Cardinality(s) \in Nat /\ Cardinality(s) <= Cardinality(S)
           /\ s = {} => Cardinality(s) = 0
           /\ s # {} => /\ Pick(s) \in s /\ s \ {Pick(s)} \in SUBSET S
                        /\ Cardinality(s \ {Pick(s)}) = Cardinality(s) - 1
                        /\ Cardinality(s) > 0
<1>1. IsFiniteSet(s) /\ Cardinality(s) \in Nat /\ Cardinality(s) <= Cardinality(S)
    BY FS_Subset, FS_CardinalityType
<1>2. s = {} <=> Cardinality(s) = 0
    BY <1>1, FS_EmptySet
<1>3. ASSUME s # {}
      PROVE  Pick(s) \in s
    BY <1>3 DEF Pick
<1>4. ASSUME s # {}
      PROVE  Cardinality(s \ {Pick(s)}) = Cardinality(s) - 1
    BY <1>1, <1>3, <1>4, FS_RemoveElement
<1> QED
    BY <1>1, <1>2, <1>3, <1>4

LEMMA SumExists ==
    ASSUME NEW S, IsFiniteSet(S), NEW g
    PROVE  \E f : AddsUp(f, g, SUBSET S)
<1> DEFINE P(m) == \E f : AddsUp(f, g, Smaller(S, m))
           n == Cardinality(S)
           T == {m \in 0..n : ~P(m)}
<1>0. n \in Nat
    BY FS_CardinalityType
<1>1. P(0)
    <2> DEFINE h == [s \in Smaller(S, 0) |-> 0]
    <2>1. \A s \in Smaller(S, 0) : s = {}
        <3> SUFFICES ASSUME NEW s \in SUBSET S, Cardinality(s) <= 0
                     PROVE  s = {}
            BY DEF Smaller
        <3>1. Cardinality(s) \in Nat /\ (s # {} => Cardinality(s) > 0)
            BY ONLY OneLess, IsFiniteSet(S), s \in SUBSET S
        <3> QED
            BY <3>1
    <2>2. \A s \in Smaller(S, 0) : PartOf(h, g, s) = 0
        BY <2>1 DEF PartOf
    <2>3. h = [s \in Smaller(S, 0) |-> PartOf(h, g, s)]
        BY <2>2
    <2> QED
        BY <2>3 DEF AddsUp
<1>2. ASSUME NEW m \in Nat, P(m)
      PROVE  P(m + 1)
    <2>1. PICK f : AddsUp(f, g, Smaller(S, m))
        BY <1>2
    <2> DEFINE h == [s \in Smaller(S, m + 1) |-> PartOf(f, g, s)]
    <2>2. \A s \in Smaller(S, m) : s \in Smaller(S, m + 1) /\ f[s] = PartOf(f, g, s) /\ h[s] = f[s]
        <3>1. \A s \in Smaller(S, m) : f[s] = PartOf(f, g, s)
            BY <2>1 DEF AddsUp
        <3>2. \A s \in Smaller(S, m) : s \in Smaller(S, m + 1)
            <4> SUFFICES ASSUME NEW s \in SUBSET S, Cardinality(s) <= m
                         PROVE  Cardinality(s) <= m + 1
                BY DEF Smaller
            <4>1. Cardinality(s) \in Nat
                BY ONLY OneLess, IsFiniteSet(S), s \in SUBSET S
            <4> QED
                BY <4>1, <1>2
        <3> QED
            BY <3>1, <3>2
    <2>3. ASSUME NEW s \in Smaller(S, m + 1)
          PROVE  h[s] = PartOf(h, g, s)
        <3>1. h[s] = PartOf(f, g, s)
            OBVIOUS
        <3> HIDE DEF h
        <3>2. CASE s = {}
            BY <3>1, <3>2 DEF PartOf
        <3>3. CASE s # {}
            <4>1. s \in SUBSET S /\ Cardinality(s) <= m + 1
                BY DEF Smaller
            <4>2. s \ {Pick(s)} \in SUBSET S /\ Cardinality(s \ {Pick(s)}) <= m
                <5>1. /\ s \ {Pick(s)} \in SUBSET S /\ Cardinality(s \ {Pick(s)}) = Cardinality(s) - 1
                      /\ Cardinality(s) \in Nat
                    BY <4>1, <3>3, OneLess
                <5> QED
                    BY <5>1, <4>1, <1>2
            <4>3. s \ {Pick(s)} \in Smaller(S, m)
                BY <4>2 DEF Smaller
            <4>4. h[s \ {Pick(s)}] = f[s \ {Pick(s)}]
                BY <4>3, <2>2
            <4> QED
                BY <3>1, <3>3, <4>4 DEF PartOf
        <3> QED
            BY <3>2, <3>3
    <2>4. h = [s \in Smaller(S, m + 1) |-> PartOf(h, g, s)]
        BY <2>3
    <2> HIDE DEF h
    <2> QED
        BY <2>4 DEF AddsUp
<1>3. T = {}
    <2> SUFFICES ASSUME T # {} PROVE FALSE
        OBVIOUS
    <2>1. T \in SUBSET Nat
        OBVIOUS
    <2>2. PICK m \in T : \A y \in T : m <= y
        BY <2>1, LeastOf
    <2> HIDE DEF P
    <2>3. m # 0
        BY <1>1
    <2>4. m - 1 \in 0..n /\ m - 1 \in Nat /\ m - 1 \notin T
        BY <2>2, <2>3, <1>0
    <2>5. P(m - 1)
        BY <2>4
    <2>6. P((m - 1) + 1)
        BY <2>4, <2>5, <1>2
    <2> QED
        BY <2>6
<1>4. P(n)
    <2> HIDE DEF P
    <2> QED
        BY <1>0, <1>3
<1>5. Smaller(S, n) = SUBSET S
    BY OneLess DEF Smaller
<1> QED
    BY <1>4, <1>5

\* The sum is the last of the sums of the parts.
LEMMA TotalAddsUp ==
    ASSUME NEW S, IsFiniteSet(S), NEW g
    PROVE  \E f : IsSum(f, g, S)
<1> DEFINE f == CHOOSE h : AddsUp(h, g, SUBSET S)
<1>1. Total(g, S) = f[S]
    BY DEF Total, MapThenSumSet, MapThenFoldSet, AddsUp, PartOf, Pick
<1>2. AddsUp(f, g, SUBSET S)
    BY SumExists
<1> HIDE DEF f
<1> QED
    BY <1>1, <1>2 DEF AddsUp, IsSum

\* Where g is nowhere smaller than h, but for d at x, so are the sums.
LEMMA TotalsCompare ==
    ASSUME NEW S, IsFiniteSet(S), NEW g \in [S -> Nat], NEW h \in [S -> Nat],
           NEW x, NEW d \in Int, d >= 0 \/ x \in S,
           \A y \in S : h[y] <= g[y] + (IF y = x THEN d ELSE 0)
    PROVE  /\ Total(g, S) \in Nat /\ Total(h, S) \in Nat /\ Total(h, S) <= Total(g, S) + d
           /\ (\A y \in S : g[y] = 0) => Total(g, S) = 0
<1>0. \A f : \E F : IsSum(F, f, S)
    BY ONLY TotalAddsUp, IsFiniteSet(S)
<1>1. PICK G : Total(g, S) = G[S] /\ \A s \in SUBSET S : G[s] = PartOf(G, g, s)
    BY <1>0 DEF IsSum
<1>2. PICK H : Total(h, S) = H[S] /\ \A s \in SUBSET S : H[s] = PartOf(H, h, s)
    BY <1>0 DEF IsSum
<1> DEFINE D(s) == IF x \in s THEN d ELSE 0
           Zero == \A y \in S : g[y] = 0
           Q(s) == /\ G[s] \in Nat /\ H[s] \in Nat /\ H[s] <= G[s] + D(s)
                   /\ Zero => G[s] = 0
           T == {Cardinality(s) : s \in {r \in SUBSET S : ~Q(r)}}
<1>3. ASSUME NEW s \in SUBSET S, s # {}, Q(s \ {Pick(s)})
      PROVE  Q(s)
    <2> DEFINE p == Pick(s)
               r == s \ {p}
    <2>1. p \in s /\ p \in S
        BY <1>3, OneLess
    <2>2. G[s] = g[p] + G[r] /\ H[s] = h[p] + H[r]
        BY <1>1, <1>2, <1>3 DEF PartOf
    <2>3. g[p] \in Nat /\ h[p] \in Nat /\ h[p] <= g[p] + (IF p = x THEN d ELSE 0)
        BY <2>1
    <2>4. G[r] \in Nat /\ H[r] \in Nat /\ H[r] <= G[r] + D(r)
        BY <1>3
    <2>5. D(s) = D(r) + (IF p = x THEN d ELSE 0)
        BY <2>1
    <2>6. D(s) \in Int /\ D(r) \in Int
        OBVIOUS
    <2>5a. Zero => g[p] = 0 /\ G[r] = 0
        BY <1>3, <2>1
    <2> HIDE DEF D, p, r, Zero
    <2>7. H[s] <= G[s] + D(s)
        <3>1. PICK gp, hp, gr, hr \in Nat : gp = g[p] /\ hp = h[p] /\ gr = G[r] /\ hr = H[r]
            BY <2>3, <2>4
        <3>2. hp + hr <= gp + gr + (D(r) + (IF p = x THEN d ELSE 0))
            BY <3>1, <2>3, <2>4, <2>6
        <3> QED
            BY <3>1, <3>2, <2>2, <2>5
    <2> QED
        BY <2>2, <2>3, <2>4, <2>7, <2>5a
<1>4. T = {}
    <2> SUFFICES ASSUME T # {} PROVE FALSE
        OBVIOUS
    <2> HIDE DEF Q
    <2>0. \A s \in SUBSET S : Cardinality(s) \in Nat
        BY ONLY OneLess, IsFiniteSet(S)
    <2>1. T \in SUBSET Nat
        BY <2>0
    <2>2. PICK k \in T : \A y \in T : k <= y
        BY <2>1, LeastOf
    <2>3. PICK s \in SUBSET S : ~Q(s) /\ k = Cardinality(s)
        OBVIOUS
    <2>4. s # {}
        <3>1. G[{}] = 0 /\ H[{}] = 0
            BY <1>1, <1>2 DEF PartOf
        <3>2. Q({})
            BY <3>1 DEF Q
        <3> QED
            BY <3>2, <2>3
    <2>5. s \ {Pick(s)} \in SUBSET S /\ Cardinality(s \ {Pick(s)}) = k - 1 /\ k \in Nat
        BY <2>3, <2>4, OneLess
    <2>6. Q(s \ {Pick(s)})
        <3>1. ~Q(s \ {Pick(s)}) => k - 1 \in T
            BY <2>5
        <3>2. k - 1 \notin T
            BY <2>2, <2>5
        <3> QED
            BY <3>1, <3>2
    <2> QED
        BY <2>3, <2>4, <2>6, <1>3
<1>5. Q(S)
    <2> HIDE DEF Q
    <2> QED
        BY <1>4
<1>6. D(S) <= d /\ D(S) \in Int
    OBVIOUS
<1> HIDE DEF D
<1> QED
    BY <1>1, <1>2, <1>5, <1>6

(***************************************************************************)
(* Nonces, where IndexedDB loses transactions.                             *)
(***************************************************************************)
LEMMA NoncesFinite ==
    /\ IsFiniteSet(Calls) /\ IsFiniteSet(Counters) /\ IsFiniteSet(Nonces)
    /\ Counters \in SUBSET Nat /\ \A n \in Nonces : n[2] \in Counters
<1>1. IsFiniteSet(Calls) /\ MaxCtr \in Nat /\ IsFiniteSet(MlsEpochs)
    BY FiniteAssumption
<1>2. MaxCtr + Cardinality(Calls) \in Nat
    BY <1>1, FS_CardinalityType
<1>3. IsFiniteSet(Counters)
    BY <1>2, FS_Interval DEF Counters
<1>4. IsFiniteSet(Nonces)
    BY <1>1, <1>3, FS_Product DEF Nonces
<1> QED
    BY <1>1, <1>2, <1>3, <1>4 DEF Counters, Nonces

\* Two sums under the same comparison, as TotalsCompare makes it.
Below(h, g, S, x, d) == \A y \in S : h[y] <= g[y] + (IF y = x THEN d ELSE 0)
LEMMA TotalsBelow ==
    ASSUME NEW S, IsFiniteSet(S), NEW g \in [S -> Nat], NEW h \in [S -> Nat],
           NEW x, NEW d \in Int, d >= 0 \/ x \in S, Below(h, g, S, x, d)
    PROVE  /\ Total(g, S) \in Nat /\ Total(h, S) \in Nat /\ Total(h, S) <= Total(g, S) + d
           /\ (\A y \in S : g[y] = 0) => Total(g, S) = 0
BY TotalsCompare DEF Below

LEMMA TotalType ==
    ASSUME NEW S, IsFiniteSet(S), NEW g \in [S -> Nat]
    PROVE  Total(g, S) \in Nat
<1>1. Below(g, g, S, 0, 0)
    BY DEF Below
<1> QED
    BY <1>1, TotalsBelow

\* A sum of nothing but zeros.
LEMMA TotalOfZeros ==
    ASSUME NEW S, IsFiniteSet(S)
    PROVE  Total([x \in S |-> 0], S) = 0
<1> DEFINE g == [x \in S |-> 0]
<1>1. g \in [S -> Nat] /\ (\A y \in S : g[y] = 0) /\ Below(g, g, S, 0, 0)
    BY DEF Below
<1> HIDE DEF g
<1>2. Total(g, S) = 0
    BY <1>1, TotalsBelow
<1> QED
    BY <1>2 DEF g

LEMMA LedgerTypes ==
    ASSUME sealed \in [Nonces -> Nat], Upcoming \in Nat
    PROVE  /\ \A v \in Counters : Holders(v) \in Nat /\ Used(v) \in {0, 1} /\ Given(v) \in {0, 1}
           /\ Excess \in [Nonces -> Nat] /\ Owed \in [Counters -> Nat]
<1>1. \A v \in Counters : Holders(v) \in Nat
    <2> SUFFICES ASSUME NEW v PROVE Holders(v) \in Nat
        OBVIOUS
    <2>1. {c \in Calls : got[c] = v} \in SUBSET Calls
        OBVIOUS
    <2> QED
        BY <2>1, NoncesFinite, FS_Subset, FS_CardinalityType DEF Holders
<1>2. \A v \in Counters : Used(v) \in {0, 1} /\ Given(v) \in {0, 1}
    BY DEF Used, Given
<1>3. Excess \in [Nonces -> Nat]
    BY DEF Excess
<1>4. \A v \in Counters : (IF Holders(v) + Used(v) > Given(v) THEN Holders(v) + Used(v) - Given(v) ELSE 0) \in Nat
    BY <1>1, <1>2
<1>5. Owed \in [Counters -> Nat]
    BY <1>4 DEF Owed
<1> QED
    BY <1>1, <1>2, <1>3, <1>5

LEMMA LedgerSums ==
    LossInv <=> sealed \in [Nonces -> Nat] /\ Total(Excess, Nonces) + Total(Owed, Counters) <= aborts
BY DEF LossInv, Reuses, Total

\* Fewer calls hold a counter that others gave up.
LEMMA HoldersFewer ==
    ASSUME NEW C \in SUBSET Calls, got' = [c \in Calls |-> IF c \in C THEN NoCtr ELSE got[c]],
           NEW v \in Counters
    PROVE  Holders(v)' \in Nat /\ Holders(v) \in Nat /\ Holders(v)' <= Holders(v)
<1> DEFINE A == {c \in Calls : got[c] = v}
           B == {c \in Calls : got'[c] = v}
<1>1. v # NoCtr
    BY CtrAssumption, NoncesFinite
<1>2. B \in SUBSET A /\ A \in SUBSET Calls
    BY <1>1
<1> HIDE DEF A, B
<1>3. IsFiniteSet(A) /\ Cardinality(A) \in Nat
    BY <1>2, NoncesFinite, FS_Subset, FS_CardinalityType
<1>4. IsFiniteSet(B) /\ Cardinality(B) \in Nat /\ Cardinality(B) <= Cardinality(A)
    BY <1>2, <1>3, FS_Subset, FS_CardinalityType
<1> QED
    BY <1>3, <1>4 DEF A, B, Holders

LedgerTyped == sealed \in [Nonces -> Nat] /\ Upcoming \in Nat
LedgerIs ==
    /\ \A v \in Counters : Holders(v) \in Nat /\ Used(v) \in {0, 1} /\ Given(v) \in {0, 1}
    /\ Excess \in [Nonces -> Nat] /\ Owed \in [Counters -> Nat]
LEMMA LedgerBefore == LedgerTyped => LedgerIs
BY LedgerTypes DEF LedgerTyped, LedgerIs
LEMMA LedgerAfter == LedgerTyped' => LedgerIs'
BY LedgerBefore, PTL
LEMMA SumsAfter ==
    LossInv' <=> sealed' \in [Nonces -> Nat] /\ Total(Excess', Nonces) + Total(Owed', Counters) <= aborts'
<1>1. (LossInv <=> sealed \in [Nonces -> Nat] /\ Total(Excess, Nonces) + Total(Owed, Counters) <= aborts)'
    BY LedgerSums, PTL
<1> QED
    BY <1>1

\* What a call holds and what comes next move as UniqueCounter says: a grant
\* leaves every debt as it is, a counter that is set back is owed once more.
LEMMA OwedUnderCounter ==
    ASSUME CtrInv, CounterStep, LedgerTyped, LedgerTyped', UNCHANGED sealed
    PROVE  \E x : /\ aborts' - aborts \in Nat /\ aborts \in Nat
                  /\ Below(Owed', Owed, Counters, x, aborts' - aborts)
<1>1. /\ Upcoming \in Nat /\ Upcoming' \in Nat /\ aborts \in Nat
      /\ got \in [Calls -> Nat \cup {NoCtr}]
    BY DEF LedgerTyped, CtrInv, CtrTypeOK
<1>2. LedgerIs /\ LedgerIs'
    BY LedgerBefore, LedgerAfter
<1>3. \A v \in Counters : /\ v \in Nat
                          /\ Holders(v) \in Nat /\ Used(v) \in Nat /\ Given(v) \in Nat
                          /\ Holders(v)' \in Nat /\ Used(v)' = Used(v) /\ Given(v)' \in Nat
    BY <1>2, NoncesFinite DEF LedgerIs, Used
<1>4. \A v \in Counters :
          /\ Owed[v] = IF Holders(v) + Used(v) > Given(v) THEN Holders(v) + Used(v) - Given(v) ELSE 0
          /\ Owed'[v] = IF Holders(v)' + Used(v)' > Given(v)' THEN Holders(v)' + Used(v)' - Given(v)' ELSE 0
    BY DEF Owed
<1>5. ASSUME NEW c \in Calls, got[c] = NoCtr, got' = [got EXCEPT ![c] = Upcoming],
             Upcoming' = Upcoming + 1, aborts' = aborts
      PROVE  Below(Owed', Owed, Counters, 0, 0)
    <2> SUFFICES ASSUME NEW v \in Counters PROVE Owed'[v] <= Owed[v]
        BY <1>2 DEF Below, LedgerIs
    <2> DEFINE A == {d \in Calls : got[d] = v}
               B == {d \in Calls : got'[d] = v}
    <2>1. IsFiniteSet(A)
        BY NoncesFinite, FS_Subset
    <2>2. v # NoCtr
        BY <1>3, CtrAssumption
    <2>3. CASE v = Upcoming
        <3>1. B = A \cup {c} /\ c \notin A
            BY <1>1, <1>5, <2>2, <2>3
        <3>2. Cardinality(B) = Cardinality(A) + 1
            BY <2>1, <3>1, FS_AddElement
        <3>3. Holders(v)' = Holders(v) + 1
            BY <3>2 DEF Holders
        <3>4. Given(v) = 0 /\ Given(v)' = 1
            BY <1>1, <1>3, <1>5, <2>3 DEF Given
        <3> QED
            BY <1>3, <1>4, <3>3, <3>4
    <2>4. CASE v # Upcoming
        <3>1. B = A
            BY <1>1, <1>5, <2>2, <2>4
        <3>2. Holders(v)' = Holders(v)
            BY <3>1 DEF Holders
        <3>3. Given(v) = Given(v)'
            BY <1>1, <1>3, <1>5, <2>4 DEF Given
        <3> QED
            BY <1>3, <1>4, <3>2, <3>3
    <2> QED
        BY <2>3, <2>4
<1>6. ASSUME NEW C \in SUBSET Calls, got' = [c \in Calls |-> IF c \in C THEN NoCtr ELSE got[c]],
             Upcoming' = Upcoming, aborts' = aborts
      PROVE  Below(Owed', Owed, Counters, 0, 0)
    <2> SUFFICES ASSUME NEW v \in Counters PROVE Owed'[v] <= Owed[v]
        BY <1>2 DEF Below, LedgerIs
    <2>1. Holders(v)' <= Holders(v)
        BY <1>6, HoldersFewer
    <2>2. Given(v)' = Given(v)
        BY <1>6 DEF Given
    <2> QED
        BY <1>3, <1>4, <2>1, <2>2
<1>7. ASSUME NEW C \in SUBSET Calls, got' = [c \in Calls |-> IF c \in C THEN NoCtr ELSE got[c]],
             Upcoming' = Upcoming - 1, aborts' = aborts + 1
      PROVE  Below(Owed', Owed, Counters, Upcoming - 1, 1)
    <2> SUFFICES ASSUME NEW v \in Counters
                 PROVE  Owed'[v] <= Owed[v] + (IF v = Upcoming - 1 THEN 1 ELSE 0)
        BY DEF Below
    <2>1. Holders(v)' <= Holders(v)
        BY <1>7, HoldersFewer
    <2>2. CASE v = Upcoming - 1
        <3>1. Given(v) = 1 /\ Given(v)' = 0
            BY <1>1, <1>3, <1>7, <2>2 DEF Given
        <3> QED
            BY <1>3, <1>4, <2>1, <2>2, <3>1
    <2>3. CASE v # Upcoming - 1
        <3>1. Given(v) = Given(v)'
            BY <1>1, <1>3, <1>7, <2>3 DEF Given
        <3> QED
            BY <1>3, <1>4, <2>1, <2>3, <3>1
    <2> QED
        BY <2>2, <2>3
<1>8. ASSUME UNCHANGED <<Upcoming, got, aborts>>
      PROVE  Below(Owed', Owed, Counters, 0, 0)
    <2> SUFFICES ASSUME NEW v \in Counters PROVE Owed'[v] <= Owed[v]
        BY <1>2 DEF Below, LedgerIs
    <2>1. Holders(v)' = Holders(v) /\ Given(v)' = Given(v)
        BY <1>8 DEF Holders, Given
    <2> QED
        BY <1>3, <1>4, <2>1
<1>9. \/ aborts' = aborts /\ Below(Owed', Owed, Counters, 0, 0)
      \/ aborts' = aborts + 1 /\ Below(Owed', Owed, Counters, Upcoming - 1, 1)
    BY <1>5, <1>6, <1>7, <1>8 DEF CounterStep
<1>10. CASE aborts' = aborts /\ Below(Owed', Owed, Counters, 0, 0)
    <2>1. aborts' - aborts = 0
        BY <1>1, <1>10
    <2> QED
        BY <1>1, <1>10, <2>1
<1>11. CASE aborts' = aborts + 1 /\ Below(Owed', Owed, Counters, Upcoming - 1, 1)
    <2>1. aborts' - aborts = 1
        BY <1>1, <1>11
    <2> QED
        BY <1>1, <1>11, <2>1
<1> QED
    BY <1>9, <1>10, <1>11

UpcomingTyped == Upcoming \in Nat
LEMMA UpcomingBefore == CtrInv => UpcomingTyped
BY UpcomingType DEF UpcomingTyped
LEMMA UpcomingAfter == CtrInv' => UpcomingTyped'
BY UpcomingBefore, PTL

LEMMA LossUnderCounter ==
    ASSUME CtrInv, CtrInv', CounterStep, LossInv, UNCHANGED sealed
    PROVE  LossInv'
<1>1. LedgerTyped /\ LedgerTyped'
    <2>1. Upcoming' \in Nat
        BY UpcomingAfter DEF UpcomingTyped
    <2> QED
        BY <2>1, UpcomingType DEF LedgerTyped, LossInv
<1>2. LedgerIs /\ LedgerIs'
    BY <1>1, LedgerBefore, LedgerAfter
<1>3. PICK x : /\ aborts' - aborts \in Nat /\ aborts \in Nat
               /\ Below(Owed', Owed, Counters, x, aborts' - aborts)
    BY <1>1, OwedUnderCounter
<1>4. Excess' = Excess
    BY DEF Excess
<1>5. Total(Excess, Nonces) \in Nat
    BY <1>2, NoncesFinite, TotalType DEF LedgerIs
<1>6. /\ Total(Owed, Counters) \in Nat /\ Total(Owed', Counters) \in Nat
      /\ Total(Owed', Counters) <= Total(Owed, Counters) + (aborts' - aborts)
    <2>1. Owed \in [Counters -> Nat] /\ Owed' \in [Counters -> Nat]
        BY <1>2 DEF LedgerIs
    <2>2. aborts' - aborts \in Int /\ aborts' - aborts >= 0
        BY <1>3
    <2> QED
        BY <1>3, <2>1, <2>2, NoncesFinite, TotalsBelow
<1>7. Total(Excess, Nonces) + Total(Owed, Counters) <= aborts
    BY LedgerSums
<1>8. aborts' \in Nat
    BY DEF CtrInv, CtrTypeOK
<1>9. Total(Excess', Nonces) + Total(Owed', Counters) <= aborts'
    BY <1>3, <1>4, <1>5, <1>6, <1>7, <1>8
<1> QED
    BY <1>1, <1>9, SumsAfter DEF LedgerTyped

\* A message is sealed under a counter nobody sealed with before, or pays one
\* of the reuses that its counter is owed.
LEMMA LossUnderSeal ==
    ASSUME CtrInv, LossInv, NEW c \in Calls, sframeEncrypt(c)
    PROVE  LossInv'
<1>0. PICK v : v = got[c]
    OBVIOUS
<1> DEFINE m == <<held[c], v>>
           A == {d \in Calls : got[d] = v}
           B == {d \in Calls : got'[d] = v}
<1>1. /\ got' = [got EXCEPT ![c] = NoCtr] /\ UNCHANGED <<txs, store, aborts>>
      /\ sealed' = [sealed EXCEPT ![m] = @ + 1] /\ m[2] = v
    BY <1>0 DEF sframeEncrypt, Taken, idbVars
<1>2. Upcoming' = Upcoming
    BY <1>1 DEF Upcoming, Running
<1>3. /\ sealed \in [Nonces -> Nat] /\ got \in [Calls -> Nat \cup {NoCtr}] /\ Upcoming \in Nat
      /\ aborts \in Nat
    BY UpcomingType DEF LossInv, CtrInv, CtrTypeOK
<1> HIDE DEF m
<1>4. CASE m \notin Nonces
    <2>1. UNCHANGED sealed
        BY <1>1, <1>3, <1>4
    <2>2. CtrStep
        BY DEF sframeEncrypt, CtrStep
    <2> QED
        BY <2>1, <2>2, CtrInvStep, StepOfCounter, LossUnderCounter
<1>5. CASE m \in Nonces
    <2>1. /\ sealed' \in [Nonces -> Nat] /\ v \in Counters /\ v \in Nat
          /\ \A n \in Nonces : sealed'[n] = IF n = m THEN sealed[n] + 1 ELSE sealed[n]
        <3>1. v \in Counters /\ v \in Nat
            BY <1>1, <1>5, NoncesFinite
        <3> QED
            BY <1>1, <1>3, <1>5, <3>1
    <2>2. LedgerTyped /\ LedgerTyped' /\ LedgerIs /\ LedgerIs'
        BY <1>2, <1>3, <2>1, LedgerBefore, LedgerAfter DEF LedgerTyped
    <2>3. \A w \in Counters : /\ Holders(w) \in Nat /\ Used(w) \in {0, 1} /\ Given(w) \in {0, 1}
                              /\ Holders(w)' \in Nat /\ Used(w)' \in {0, 1} /\ Given(w)' = Given(w)
        BY <1>2, <2>2 DEF LedgerIs, Given
    <2>4. /\ Holders(v)' = Holders(v) - 1 /\ Holders(v) > 0
          /\ \A w \in Counters : w # v => Holders(w)' = Holders(w) /\ Used(w)' = Used(w)
        <3>1. v # NoCtr
            BY <2>1, CtrAssumption
        <3>2. B = A \ {c} /\ c \in A
            BY <1>0, <1>1, <1>3, <3>1
        <3>3. IsFiniteSet(A)
            BY NoncesFinite, FS_Subset
        <3>4. Cardinality(B) = Cardinality(A) - 1
            BY <3>2, <3>3, FS_RemoveElement
        <3>5. Holders(v)' = Holders(v) - 1
            <4>1. Holders(v) = Cardinality(A) /\ Holders(v)' = Cardinality(B)
                BY DEF Holders
            <4> QED
                BY <3>4, <4>1
        <3>6. Holders(v) > 0
            BY <2>1, <2>3, <3>5
        <3>7. ASSUME NEW w \in Counters, w # v
              PROVE  Holders(w)' = Holders(w) /\ Used(w)' = Used(w)
            <4>1. w # NoCtr
                BY <3>7, NoncesFinite, CtrAssumption
            <4>2. {d \in Calls : got'[d] = w} = {d \in Calls : got[d] = w}
                BY <1>0, <1>1, <1>3, <3>7, <4>1
            <4>3. \A n \in Nonces : n[2] = w => sealed'[n] = sealed[n]
                BY <1>1, <2>1, <3>7
            <4> QED
                BY <4>2, <4>3 DEF Holders, Used
        <3> QED
            BY <3>5, <3>6, <3>7
    <2>5. \A w \in Counters :
              /\ Owed[w] = IF Holders(w) + Used(w) > Given(w) THEN Holders(w) + Used(w) - Given(w) ELSE 0
              /\ Owed'[w] = IF Holders(w)' + Used(w)' > Given(w)' THEN Holders(w)' + Used(w)' - Given(w)' ELSE 0
        BY DEF Owed
    <2>6. \A w \in Counters : w # v => Owed'[w] = Owed[w]
        BY <2>3, <2>4, <2>5
    <2>7. \A n \in Nonces :
              /\ Excess[n] = IF sealed[n] > 1 THEN sealed[n] - 1 ELSE 0
              /\ Excess'[n] = IF sealed'[n] > 1 THEN sealed'[n] - 1 ELSE 0
        BY DEF Excess
    <2>8. \A n \in Nonces : n # m => Excess'[n] = Excess[n]
        BY <2>1, <2>7
    <2>9. \A w \in Counters : Owed[w] \in Nat /\ Owed'[w] \in Nat
        BY <2>2 DEF LedgerIs
    <2>10. \A n \in Nonces : Excess[n] \in Nat /\ Excess'[n] \in Nat /\ sealed[n] \in Nat
        BY <1>3, <2>2 DEF LedgerIs
    <2>11. \E d \in {0, 1} : /\ Excess'[m] <= Excess[m] + d
                             /\ Owed'[v] <= Owed[v] + (0 - d)
        <3>1. CASE sealed[m] = 0
            <4>1. Excess'[m] = 0
                BY <1>5, <2>1, <2>7, <3>1
            <4>2. Owed'[v] <= Owed[v]
                <5>1. /\ Holders(v) \in Nat /\ Used(v) \in {0, 1} /\ Given(v) \in {0, 1}
                      /\ Used(v)' \in {0, 1} /\ Given(v)' = Given(v)
                    BY <2>1, <2>3
                <5> QED
                    BY <2>1, <2>4, <2>5, <5>1
            <4> QED
                BY <1>5, <2>1, <2>9, <2>10, <4>1, <4>2
        <3>2. CASE sealed[m] # 0
            <4>1. sealed[m] > 0 /\ sealed'[m] > 0
                BY <1>5, <2>1, <2>10, <3>2
            <4>2. Used(v) = 1 /\ Used(v)' = 1
                BY <1>1, <1>5, <4>1 DEF Used
            <4>3. Excess'[m] <= Excess[m] + 1
                BY <1>5, <2>1, <2>7, <2>10, <4>1
            <4>4. Owed'[v] <= Owed[v] - 1
                <5>1. Holders(v) \in Nat /\ Given(v) \in {0, 1} /\ Given(v)' = Given(v)
                    BY <2>1, <2>3
                <5> QED
                    BY <2>1, <2>4, <2>5, <4>2, <5>1
            <4> QED
                BY <2>1, <2>9, <4>3, <4>4
        <3> QED
            BY <3>1, <3>2
    <2>12. PICK d \in {0, 1} : Excess'[m] <= Excess[m] + d /\ Owed'[v] <= Owed[v] + (0 - d)
        BY <2>11
    <2>13. Below(Excess', Excess, Nonces, m, d)
        BY <2>8, <2>10, <2>12 DEF Below
    <2>14. Below(Owed', Owed, Counters, v, 0 - d)
        BY <2>6, <2>9, <2>12 DEF Below
    <2>15. /\ Excess \in [Nonces -> Nat] /\ Excess' \in [Nonces -> Nat]
           /\ Owed \in [Counters -> Nat] /\ Owed' \in [Counters -> Nat] /\ d \in Int /\ 0 - d \in Int
        BY <2>2, <2>12 DEF LedgerIs
    <2>16. /\ Total(Excess, Nonces) \in Nat /\ Total(Excess', Nonces) \in Nat
           /\ Total(Excess', Nonces) <= Total(Excess, Nonces) + d
        BY <1>5, <2>13, <2>15, NoncesFinite, TotalsBelow
    <2>17. /\ Total(Owed, Counters) \in Nat /\ Total(Owed', Counters) \in Nat
           /\ Total(Owed', Counters) <= Total(Owed, Counters) + (0 - d)
        BY <2>1, <2>14, <2>15, NoncesFinite, TotalsBelow
    <2>18. Total(Excess, Nonces) + Total(Owed, Counters) <= aborts
        BY LedgerSums
    <2>19. Total(Excess', Nonces) + Total(Owed', Counters) <= aborts'
        BY <1>1, <1>3, <2>12, <2>16, <2>17, <2>18
    <2> QED
        BY <2>1, <2>19, SumsAfter
<1> QED
    BY <1>4, <1>5

LEMMA LossStep ==
    ASSUME CtrInv, LossInv, Next \/ UNCHANGED vars
    PROVE  LossInv'
<1>1. CASE \E c \in Calls : sframeEncrypt(c)
    BY <1>1, LossUnderSeal
<1>2. CASE ~\E c \in Calls : sframeEncrypt(c)
    <2>1. UNCHANGED sealed
        BY <1>2 DEF Next, Room, clearEpoch, setEpoch, install, deriveFails, Seal, seal, encryptFails,
                    allocate, Unseal, decryptDone, decryptFails, unseal, reloadPage, vars, chatVars
    <2> QED
        BY <2>1, ChatStepOfAllocator, CtrInvStep, StepOfCounter, LossUnderCounter
<1> QED
    BY <1>1, <1>2

\* At first nothing is sealed, held or owed.
LEMMA NothingOwed ==
    ASSUME Init
    PROVE  LossInv
<1>1. /\ sealed = [n \in Nonces |-> 0] /\ got = [c \in Calls |-> NoCtr] /\ aborts = 0
      /\ Upcoming = 0 /\ LedgerTyped
    BY DEF Init, CtrInit, Upcoming, Running, LedgerTyped
<1>2. LedgerIs
    BY <1>1, LedgerBefore
<1>3. Excess = [n \in Nonces |-> 0]
    BY <1>1 DEF Excess
<1>4. \A v \in Counters : Owed[v] = 0
    <2> SUFFICES ASSUME NEW v \in Counters PROVE Owed[v] = 0
        OBVIOUS
    <2>1. {c \in Calls : got[c] = v} = {}
        BY <1>1, NoncesFinite, CtrAssumption
    <2>2. Holders(v) = 0
        BY <2>1, FS_EmptySet DEF Holders
    <2>3. Used(v) = 0 /\ Given(v) = 0
        BY <1>1, NoncesFinite DEF Used, Given
    <2> QED
        BY <2>2, <2>3 DEF Owed
<1>5. Total(Excess, Nonces) = 0 /\ Total(Owed, Counters) = 0
    <2>1. Owed = [v \in Counters |-> 0]
        BY <1>4 DEF Owed
    <2> QED
        BY <1>3, <2>1, NoncesFinite, TotalOfZeros
<1> QED
    BY <1>1, <1>5, LedgerSums DEF LedgerTyped

(***************************************************************************)
(* With losses too: a key and a counter are shared by no more messages     *)
(* than IndexedDB lost transactions it had acknowledged, one reuse for one *)
(* loss, over all pages, epochs and reloads (atomicIncrement resolves on   *)
(* the success of the put).                                                *)
(***************************************************************************)
THEOREM ReusesAreLosses == Spec => []NonceReuseBounded
<1>1. Init => LossInv
    BY NothingOwed
<1>2. CtrInv /\ LossInv /\ [Next]_vars => LossInv'
    BY LossStep
<1>3. CtrInv /\ LossInv => NonceReuseBounded
    <2> SUFFICES ASSUME CtrInv, LossInv PROVE NonceReuseBounded
        OBVIOUS
    <2>1. LedgerIs /\ aborts \in Nat
        BY UpcomingType, LedgerBefore DEF LedgerTyped, LossInv, CtrInv, CtrTypeOK
    <2>2. Total(Excess, Nonces) \in Nat /\ Total(Owed, Counters) \in Nat
        BY <2>1, NoncesFinite, TotalType DEF LedgerIs
    <2>3. Total(Excess, Nonces) + Total(Owed, Counters) <= aborts
        BY LedgerSums
    <2>4. Reuses = Total(Excess, Nonces)
        BY DEF Reuses, Total
    <2> QED
        BY <2>1, <2>2, <2>3, <2>4 DEF NonceReuseBounded
<1> QED
    BY <1>1, <1>2, <1>3, CtrInvariant, PTL DEF Spec

-----------------------------------------------------------------------------
(***************************************************************************)
(* Replays.                                                                *)
(***************************************************************************)
\* A window over the counters C with room for them all.
Roomy(w, C) ==
    /\ w \in [windowSize : Nat, seen : SUBSET C, queue : Seq(C)]
    /\ Len(w.queue) = Cardinality(w.seen)
    /\ Cardinality(C) <= w.windowSize

LEMMA NewWindowIsRoomy ==
    ASSUME NEW C, NEW size \in Nat, Cardinality(C) <= size
    PROVE  Roomy(newWindow(size), C) /\ newWindow(size).seen = {}
<1>1. <<>> \in Seq(C) /\ Len(<<>>) = 0
    OBVIOUS
<1> QED
    BY <1>1, FS_EmptySet DEF Roomy, newWindow

\* accept evicts only what makes room: a roomy window remembers the new counter
\* and all the old ones.
LEMMA AcceptRemembers ==
    ASSUME NEW C, IsFiniteSet(C), NEW w, Roomy(w, C), NEW ctr \in C
    PROVE  /\ Roomy(accept(w, ctr), C)
           /\ accept(w, ctr).seen = w.seen \cup {ctr}
           /\ accept(w, ctr).windowSize = w.windowSize
<1>1. /\ w.windowSize \in Nat /\ w.seen \in SUBSET C /\ w.queue \in Seq(C)
      /\ Len(w.queue) = Cardinality(w.seen)
      /\ Cardinality(C) <= w.windowSize
      /\ w = [windowSize |-> w.windowSize, seen |-> w.seen, queue |-> w.queue]
    BY DEF Roomy
<1>2. /\ Cardinality(C) \in Nat /\ Cardinality(C) # 0
      /\ IsFiniteSet(w.seen) /\ Cardinality(w.seen) \in Nat
    <2>1. IsFiniteSet(w.seen)
        BY <1>1, FS_Subset
    <2> QED
        BY <2>1, FS_CardinalityType, FS_EmptySet
<1>3. w.windowSize # 0
    BY <1>1, <1>2
<1>4. CASE ctr \in w.seen
    <2>1. accept(w, ctr) = w
        BY <1>4 DEF accept
    <2> QED
        BY <1>4, <2>1
<1>5. CASE ctr \notin w.seen
    <2>1. Cardinality(w.seen \cup {ctr}) = Cardinality(w.seen) + 1
        BY <1>2, <1>5, FS_AddElement
    <2>2. Cardinality(w.seen \cup {ctr}) <= Cardinality(C)
        <3>1. w.seen \cup {ctr} \in SUBSET C
            BY <1>1
        <3> QED
            BY <3>1, FS_Subset
    <2>3. ~(Len(w.queue) >= w.windowSize)
        BY <1>1, <1>2, <2>1, <2>2
    <2>4. evicted(w) = w
        BY <2>3 DEF evicted
    <2> DEFINE q == Append(w.queue, ctr)
               S == w.seen \cup {ctr}
    <2>5. q \in Seq(C) /\ Len(q) = Len(w.queue) + 1
        BY <1>1
    <2>6. accept(w, ctr) = [windowSize |-> w.windowSize, seen |-> S, queue |-> q]
        <3>1. accept(w, ctr) = [evicted(w) EXCEPT !.seen = evicted(w).seen \cup {ctr},
                                                  !.queue = Append(evicted(w).queue, ctr)]
            BY <1>3, <1>5 DEF accept
        <3>2. accept(w, ctr) = [w EXCEPT !.seen = S, !.queue = q]
            BY <2>4, <3>1
        <3> HIDE DEF q, S
        <3> QED
            BY <1>1, <3>2
    <2>7. S \in SUBSET C /\ Cardinality(S) = Len(q)
        BY <1>1, <2>1, <2>5
    <2> HIDE DEF q, S
    <2>8. /\ accept(w, ctr) \in [windowSize : Nat, seen : SUBSET C, queue : Seq(C)]
          /\ accept(w, ctr).queue = q /\ accept(w, ctr).seen = S
          /\ accept(w, ctr).windowSize = w.windowSize
        BY <1>1, <2>5, <2>6, <2>7
    <2> QED
        BY <1>1, <2>7, <2>8 DEF Roomy, S
<1> QED
    BY <1>4, <1>5

Opening == [nonce : Nonces, live : BOOLEAN, replay : BOOLEAN]

LEMMA CountersFinite ==
    ASSUME WindowCoversCounters
    PROVE  IsFiniteSet(Counters) /\ Cardinality(Counters) <= WindowSize
<1>1. Cardinality(Calls) \in Nat /\ MaxCtr \in Nat /\ WindowSize \in Nat
    BY FS_CardinalityType DEF WindowCoversCounters
<1> DEFINE n == MaxCtr + Cardinality(Calls)
<1>2. n \in Nat /\ n < WindowSize
    BY <1>1 DEF WindowCoversCounters
<1> HIDE DEF n
<1>3. IsFiniteSet(0..n) /\ Cardinality(0..n) = n + 1
    BY <1>2, FS_Interval
<1> QED
    BY <1>1, <1>2, <1>3 DEF n, Counters

LEMMA WindowsAreRoomy ==
    ASSUME WindowCoversCounters, WindowInv, NEW t \in Tabs
    PROVE  Roomy(window[t], Counters)
BY CountersFinite DEF WindowInv, Roomy

\* The page's windows are dropped, with what was recorded in them.
LEMMA DropWindowsStep ==
    ASSUME WindowCoversCounters, WindowInv, OpenedOnce, NEW t \in Tabs, DropWindows(t)
    PROVE  WindowInv' /\ OpenedOnce'
<1> DEFINE w == newWindow(WindowSize)
<1>1. Roomy(w, Counters) /\ w.seen = {} /\ w.windowSize = WindowSize
    BY CountersFinite, NewWindowIsRoomy DEF WindowCoversCounters, newWindow
<1>2. window' = [window EXCEPT ![t] = w] /\ opened' = [opened EXCEPT ![t] = {}]
    BY DEF DropWindows
<1> HIDE DEF w
<1>3. /\ window' \in [Tabs -> [windowSize : Nat, seen : SUBSET Counters, queue : Seq(Counters)]]
      /\ opened' \in [Tabs -> SUBSET Nonces]
    BY <1>1, <1>2 DEF WindowInv, Roomy
<1>4. \A u \in Tabs : /\ window'[u] = IF u = t THEN w ELSE window[u]
                      /\ opened'[u] = IF u = t THEN {} ELSE opened[u]
    BY <1>2 DEF WindowInv
<1>5. \A u \in Tabs :
          /\ window'[u].windowSize = WindowSize
          /\ Len(window'[u].queue) = Cardinality(window'[u].seen)
          /\ \A n \in opened'[u] : n[2] \in window'[u].seen
    BY <1>1, <1>4 DEF WindowInv, Roomy
<1>6. ASSUME NEW o \in Opens
      PROVE  /\ opening'[o] \in Opening \cup {NoMessage}
             /\ opening'[o] # NoMessage /\ opening'[o].live => ~opening'[o].replay
    <2>1. opening'[o] = IF o[1] = t /\ opening[o] # NoMessage
                          THEN [opening[o] EXCEPT !.live = FALSE] ELSE opening[o]
        BY DEF DropWindows
    <2>2. opening[o] \in Opening \cup {NoMessage}
        BY DEF WindowInv, Opening
    <2>3. CASE o[1] = t /\ opening[o] # NoMessage
        <3> DEFINE r == [opening[o] EXCEPT !.live = FALSE]
        <3>1. r \in Opening /\ ~r.live
            BY <2>2, <2>3 DEF Opening
        <3> HIDE DEF r
        <3>2. opening'[o] = r
            BY <2>1, <2>3 DEF r
        <3> QED
            BY <3>1, <3>2
    <2>4. CASE ~(o[1] = t /\ opening[o] # NoMessage)
        <3>1. opening'[o] = opening[o]
            BY <2>1, <2>4
        <3> QED
            BY <2>2, <3>1 DEF OpenedOnce
    <2> QED
        BY <2>3, <2>4
<1>7. opening' \in [Opens -> Opening \cup {NoMessage}]
    <2>1. opening' = [o \in Opens |-> opening'[o]]
        BY DEF DropWindows
    <2> QED
        BY <1>6, <2>1
<1> QED
    BY <1>3, <1>5, <1>6, <1>7 DEF WindowInv, OpenedOnce, Opening

LEMMA UnsealStep ==
    ASSUME WindowCoversCounters, WindowInv, OpenedOnce, NEW o \in Opens, NEW n \in Nonces,
           unseal(o, n)
    PROVE  WindowInv' /\ OpenedOnce'
<1> DEFINE t == o[1]
           r == [nonce |-> n, live |-> TRUE, replay |-> n \in opened[t]]
<1>1. t \in Tabs
    BY MlsAssumption DEF Opens
<1>2. n \notin opened[t]
    <2>1. n[2] \notin window[t].seen
        <3>1. window[t].windowSize # 0
            <4>1. WindowSize # 0
                <5>1. Cardinality(Calls) \in Nat
                    BY FS_CardinalityType DEF WindowCoversCounters
                <5> QED
                    BY <5>1 DEF WindowCoversCounters
            <4> QED
                BY <1>1, <4>1 DEF WindowInv
        <3> QED
            BY <3>1 DEF unseal, check
    <2> QED
        BY <1>1, <2>1 DEF WindowInv
<1>3. r \in Opening /\ ~r.replay
    <2>1. (n \in opened[t]) = FALSE
        BY <1>2
    <2>2. r = [nonce |-> n, live |-> TRUE, replay |-> FALSE]
        BY <2>1
    <2> HIDE DEF r
    <2> QED
        BY <2>2 DEF Opening
<1>4. opening' = [opening EXCEPT ![o] = r] /\ UNCHANGED <<window, opened>>
    BY DEF unseal, roomVars
<1> HIDE DEF r
<1>5. opening' \in [Opens -> Opening \cup {NoMessage}]
    BY <1>3, <1>4 DEF WindowInv, Opening
<1>6. OpenedOnce'
    BY <1>3, <1>4 DEF OpenedOnce, WindowInv
<1> QED
    BY <1>4, <1>5, <1>6 DEF WindowInv, Opening

\* The decryption is done: the window remembers the counter and the earlier ones.
LEMMA DecryptDoneStep ==
    ASSUME WindowCoversCounters, WindowInv, OpenedOnce, NEW o \in Opens, decryptDone(o)
    PROVE  WindowInv' /\ OpenedOnce'
<1> DEFINE t == o[1]
           n == opening[o].nonce
           w == accept(window[t], n[2])
<1>1. t \in Tabs
    BY MlsAssumption DEF Opens
<1>2. opening[o] \in Opening /\ n \in Nonces /\ n[2] \in Counters
    <2>1. opening[o] \in Opening
        BY DEF decryptDone, WindowInv, Opening
    <2>2. n \in Nonces
        BY <2>1 DEF Opening
    <2> QED
        BY <2>1, <2>2 DEF Nonces
<1>3. opening' = [opening EXCEPT ![o] = NoMessage]
    BY DEF decryptDone
<1>4. OpenedOnce' /\ opening' \in [Opens -> Opening \cup {NoMessage}]
    BY <1>3 DEF OpenedOnce, WindowInv, Opening
<1>5. CASE ~opening[o].live
    <2>1. UNCHANGED <<window, opened>>
        BY <1>5 DEF decryptDone
    <2> QED
        BY <1>4, <2>1 DEF WindowInv, Opening
<1>6. CASE opening[o].live
    <2>1. window' = [window EXCEPT ![t] = w] /\ opened' = [opened EXCEPT ![t] = @ \cup {n}]
        BY <1>6 DEF decryptDone
    <2>2. /\ Roomy(w, Counters) /\ w.seen = window[t].seen \cup {n[2]}
          /\ w.windowSize = WindowSize
        <3>1. Roomy(window[t], Counters) /\ window[t].windowSize = WindowSize
            BY <1>1, WindowsAreRoomy DEF WindowInv
        <3>2. IsFiniteSet(Counters)
            BY CountersFinite
        <3> QED
            BY <1>2, <3>1, <3>2, AcceptRemembers
    <2> HIDE DEF w, n
    <2>3. /\ window' \in [Tabs -> [windowSize : Nat, seen : SUBSET Counters,
                                   queue : Seq(Counters)]]
          /\ opened' \in [Tabs -> SUBSET Nonces]
        BY <1>2, <2>1, <2>2 DEF WindowInv, Roomy
    <2>4. \A u \in Tabs : /\ window'[u] = IF u = t THEN w ELSE window[u]
                          /\ opened'[u] = IF u = t THEN opened[t] \cup {n} ELSE opened[u]
        BY <1>1, <2>1 DEF WindowInv
    <2>5. \A u \in Tabs :
              /\ window'[u].windowSize = WindowSize
              /\ Len(window'[u].queue) = Cardinality(window'[u].seen)
              /\ \A k \in opened'[u] : k[2] \in window'[u].seen
        <3> SUFFICES ASSUME NEW u \in Tabs
                     PROVE  /\ window'[u].windowSize = WindowSize
                            /\ Len(window'[u].queue) = Cardinality(window'[u].seen)
                            /\ \A k \in opened'[u] : k[2] \in window'[u].seen
            OBVIOUS
        <3>1. CASE u # t
            BY <2>4, <3>1 DEF WindowInv
        <3>2. CASE u = t
            <4>1. window'[u] = w /\ opened'[u] = opened[t] \cup {n}
                BY <1>1, <2>4, <3>2
            <4>2. Len(w.queue) = Cardinality(w.seen)
                BY <2>2 DEF Roomy
            <4>3. \A k \in opened[t] \cup {n} : k[2] \in w.seen
                BY <1>1, <2>2 DEF WindowInv
            <4> QED
                BY <2>2, <4>1, <4>2, <4>3
        <3> QED
            BY <3>1, <3>2
    <2> QED
        BY <1>4, <2>3, <2>5 DEF WindowInv, Opening
<1> QED
    BY <1>5, <1>6

LEMMA ReloadPageWindows ==
    ASSUME WindowCoversCounters, WindowInv, OpenedOnce, NEW t \in Tabs, reloadPage(t)
    PROVE  WindowInv' /\ OpenedOnce'
<1> DEFINE w == newWindow(WindowSize)
<1>1. Roomy(w, Counters) /\ w.seen = {} /\ w.windowSize = WindowSize
    BY CountersFinite, NewWindowIsRoomy DEF WindowCoversCounters, newWindow
<1>2. /\ window' = [window EXCEPT ![t] = w] /\ opened' = [opened EXCEPT ![t] = {}]
      /\ opening' = [o \in Opens |-> IF o[1] = t THEN NoMessage ELSE opening[o]]
    BY DEF reloadPage
<1> HIDE DEF w
<1>3. /\ window' \in [Tabs -> [windowSize : Nat, seen : SUBSET Counters, queue : Seq(Counters)]]
      /\ opened' \in [Tabs -> SUBSET Nonces]
      /\ opening' \in [Opens -> Opening \cup {NoMessage}]
    BY <1>1, <1>2 DEF WindowInv, Roomy, Opening
<1>4. \A u \in Tabs : /\ window'[u] = IF u = t THEN w ELSE window[u]
                      /\ opened'[u] = IF u = t THEN {} ELSE opened[u]
    BY <1>2 DEF WindowInv
<1>5. \A u \in Tabs :
          /\ window'[u].windowSize = WindowSize
          /\ Len(window'[u].queue) = Cardinality(window'[u].seen)
          /\ \A n \in opened'[u] : n[2] \in window'[u].seen
    BY <1>1, <1>4 DEF WindowInv, Roomy
<1>6. OpenedOnce'
    BY <1>2 DEF OpenedOnce
<1> QED
    BY <1>3, <1>5, <1>6 DEF WindowInv, Opening

(***************************************************************************)
(* With a replay window that has room for every counter, a message that    *)
(* was recorded is not opened again while its epoch stays installed,       *)
(* whatever unseal calls were under way when windows were dropped.         *)
(***************************************************************************)
THEOREM ReplaysAreRefused ==
    ASSUME WindowCoversCounters
    PROVE  Spec => []OpenedOnce
<1>1. Init => WindowInv /\ OpenedOnce
    <2> SUFFICES ASSUME Init PROVE WindowInv /\ OpenedOnce
        OBVIOUS
    <2> DEFINE w == newWindow(WindowSize)
    <2>1. Roomy(w, Counters) /\ w.seen = {} /\ w.windowSize = WindowSize
        BY CountersFinite, NewWindowIsRoomy DEF WindowCoversCounters, newWindow
    <2>2. /\ window = [t \in Tabs |-> w] /\ opened = [t \in Tabs |-> {}]
          /\ opening = [o \in Opens |-> NoMessage]
        BY DEF Init
    <2> HIDE DEF w
    <2> QED
        BY <2>1, <2>2 DEF WindowInv, OpenedOnce, Roomy
<1>2. WindowInv /\ OpenedOnce /\ [Next]_vars => (WindowInv /\ OpenedOnce)'
    <2> SUFFICES ASSUME WindowInv, OpenedOnce, Next \/ UNCHANGED vars
                 PROVE  WindowInv' /\ OpenedOnce'
        OBVIOUS
    <2>1. ASSUME UNCHANGED <<window, opened, opening>>
          PROVE  WindowInv' /\ OpenedOnce'
        BY <2>1 DEF WindowInv, OpenedOnce
    <2>2. ASSUME NEW t \in Tabs,
                 clearEpoch(t) \/ \E e \in MlsEpochs : install(t, e)
          PROVE  WindowInv' /\ OpenedOnce'
        BY <2>2, DropWindowsStep DEF clearEpoch, install
    <2>3. ASSUME NEW t \in Tabs, NEW e \in MlsEpochs, setEpoch(t, e) \/ deriveFails(t, e)
          PROVE  UNCHANGED <<window, opened, opening>>
        BY <2>3 DEF setEpoch, deriveFails
    <2>4. CASE Seal \/ allocate \/ UNCHANGED vars
        BY <2>1, <2>4 DEF Seal, seal, sframeEncrypt, encryptFails, allocate, vars, chatVars, roomVars
    <2>5. ASSUME NEW o \in Opens, decryptFails(o)
          PROVE  WindowInv' /\ OpenedOnce'
        <3>1. opening' = [opening EXCEPT ![o] = NoMessage] /\ UNCHANGED <<window, opened>>
            BY <2>5 DEF decryptFails, roomVars
        <3>2. OpenedOnce' /\ opening' \in [Opens -> Opening \cup {NoMessage}]
            BY <3>1 DEF OpenedOnce, WindowInv, Opening
        <3> QED
            BY <3>1, <3>2 DEF WindowInv, Opening
    <2> QED
        BY <2>1, <2>2, <2>3, <2>4, <2>5, UnsealStep, DecryptDoneStep, ReloadPageWindows
        DEF Next, Room, Unseal
<1> QED
    BY <1>1, <1>2, PTL DEF Spec
=============================================================================
