-------------------------- MODULE ChatReplayProofs --------------------------
(***************************************************************************)
(* What holds of ChatReplay for every set of tabs, rooms and counters, for *)
(* any number of calls that are open at a time and for every bound.        *)
(***************************************************************************)
EXTENDS ChatReplay, TLAPS, FiniteSetTheorems, FunctionTheorems, WellFoundedInduction

(***************************************************************************)
(* The operators on sequences.                                             *)
(***************************************************************************)
LEMMA LeastNumber ==
    ASSUME NEW T \in SUBSET Nat, T # {}
    PROVE  Min(T) \in T /\ \A y \in T : Min(T) <= y
<1>1. IsWellFoundedOn(OpToRel(<, Nat), Nat)
    BY NatLessThanWellFounded
<1>2. PICK n \in T : \A p \in T : ~(<<p, n>> \in OpToRel(<, Nat))
    BY ONLY <1>1, WFMin, T \in SUBSET Nat, T # {}
<1>3. \A p \in T : ~(p < n)
    BY <1>2 DEF OpToRel
<1>4. \A p \in T : n <= p
    BY <1>3
<1> QED
    BY <1>4 DEF Min

\* One step of the fold, over the set s of the positions that are left.
Keep(v, out, gone) == IF v \in gone \cup ToSet(out) THEN out ELSE <<v>> \o out
Kept(f, seq, gone, s) == IF s = {} THEN <<>> ELSE Keep(seq[Min(s)], f[s \ {Min(s)}], gone)
IsKept(f, seq, gone, S) == f = [s \in SUBSET S |-> Kept(f, seq, gone, s)]

LEMMA KeptExists ==
    ASSUME NEW seq, NEW gone, NEW n \in Nat
    PROVE  \E f : IsKept(f, seq, gone, 1..n)
<1> DEFINE P(m) == \E f : IsKept(f, seq, gone, (n - m + 1)..n)
           T == {m \in 0..n : ~P(m)}
<1>1. P(0)
    <2> DEFINE g == [s \in SUBSET ((n + 1)..n) |-> <<>>]
    <2>1. \A s \in SUBSET ((n + 1)..n) : s = {}
        OBVIOUS
    <2>2. \A s \in SUBSET ((n + 1)..n) : Kept(g, seq, gone, s) = <<>>
        BY <2>1 DEF Kept
    <2>3. g = [s \in SUBSET ((n + 1)..n) |-> Kept(g, seq, gone, s)]
        BY <2>2
    <2>4. n - 0 + 1 = n + 1
        OBVIOUS
    <2> QED
        BY <2>3, <2>4 DEF IsKept
<1>2. ASSUME NEW m \in Nat, m < n, P(m)
      PROVE  P(m + 1)
    <2>1. PICK f : IsKept(f, seq, gone, (n - m + 1)..n)
        BY <1>2
    <2> DEFINE S == (n - m + 1)..n
               R == (n - m)..n
               g == [s \in SUBSET R |-> IF n - m \in s THEN Keep(seq[n - m], f[s \ {n - m}], gone) ELSE f[s]]
    <2>2. \A s \in SUBSET S : f[s] = Kept(f, seq, gone, s)
        BY <2>1 DEF IsKept
    <2>3. \A s \in SUBSET S : s \in SUBSET R /\ n - m \notin s /\ g[s] = f[s]
        BY <1>2
    <2>4. ASSUME NEW s \in SUBSET R
          PROVE  g[s] = Kept(g, seq, gone, s)
        <3>0. s \in SUBSET Nat
            BY <1>2
        <3>1. CASE n - m \in s
            <4>1. Min(s) \in s /\ \A y \in s : Min(s) <= y
                BY <3>0, <3>1, LeastNumber
            <4>2. Min(s) = n - m
                <5>1. PICK x \in R : x = Min(s) /\ \A y \in s : x <= y
                    BY <4>1
                <5>2. x <= n - m
                    BY <5>1, <3>1
                <5>3. x = n - m
                    BY <5>2, <1>2
                <5> QED
                    BY <5>1, <5>3
            <4>3. s \ {n - m} \in SUBSET S
                BY <1>2
            <4>4. g[s \ {n - m}] = f[s \ {n - m}]
                BY <4>3, <2>3
            <4>5. g[s] = Keep(seq[n - m], f[s \ {n - m}], gone)
                BY <3>1
            <4> QED
                BY <4>2, <4>4, <4>5, <3>1 DEF Kept
        <3>2. CASE n - m \notin s
            <4>1. s \in SUBSET S
                BY <3>2, <1>2
            <4>2. g[s] = Kept(f, seq, gone, s)
                BY <4>1, <2>2, <2>3
            <4>3. s \ {Min(s)} \in SUBSET S
                BY <4>1
            <4>4. g[s \ {Min(s)}] = f[s \ {Min(s)}]
                BY <4>3, <2>3
            <4> QED
                BY <4>2, <4>4 DEF Kept
        <3> QED
            BY <3>1, <3>2
    <2>5. g = [s \in SUBSET R |-> Kept(g, seq, gone, s)]
        BY <2>4
    <2>6. n - (m + 1) + 1 = n - m
        BY <1>2
    <2> HIDE DEF g
    <2> QED
        BY <2>5, <2>6 DEF IsKept
<1>3. T = {}
    <2> SUFFICES ASSUME T # {} PROVE FALSE
        OBVIOUS
    <2>1. T \in SUBSET Nat
        OBVIOUS
    <2>2. PICK m \in T : \A y \in T : m <= y
        BY <2>1, LeastNumber
    <2> HIDE DEF P
    <2>3. m # 0
        BY <1>1
    <2>4. m - 1 \in 0..n /\ m - 1 < n /\ m - 1 \notin T
        BY <2>2, <2>3
    <2>5. P(m - 1)
        BY <2>4
    <2>6. P((m - 1) + 1)
        BY <2>4, <2>5, <1>2
    <2> QED
        BY <2>6
<1>4. P(n)
    <2> HIDE DEF P
    <2> QED
        BY <1>3
<1>5. n - n + 1 = 1
    OBVIOUS
<1> QED
    BY <1>4, <1>5

\* The least positions of a nonempty range.
LEMMA RangeMin ==
    ASSUME NEW i \in Nat, NEW n \in Nat, i <= n
    PROVE  Min(i..n) = i /\ (i..n) \ {i} = (i + 1)..n
<1>1. i..n \in SUBSET Nat /\ i \in i..n
    OBVIOUS
<1>2. PICK x \in i..n : x = Min(i..n) /\ \A y \in i..n : x <= y
    BY <1>1, LeastNumber
<1>3. x = i
    BY <1>1, <1>2
<1> QED
    BY <1>2, <1>3

LEMMA LastsKept ==
    ASSUME NEW X, NEW seq \in Seq(X), NEW gone
    PROVE  \E f : /\ lasts(seq, gone) = f[1..Len(seq)]
                 /\ f[(Len(seq) + 1)..Len(seq)] = <<>>
                 /\ \A i \in DOMAIN seq : f[i..Len(seq)] = Keep(seq[i], f[(i + 1)..Len(seq)], gone)
<1> DEFINE f == CHOOSE g : IsKept(g, seq, gone, DOMAIN seq)
           n == Len(seq)
<1>1. lasts(seq, gone) = f[DOMAIN seq]
    BY DEF lasts, FoldRight, MapThenFoldSet, IsKept, Kept, Keep
<1>2. DOMAIN seq = 1..n /\ n \in Nat
    OBVIOUS
<1>3. \E g : IsKept(g, seq, gone, DOMAIN seq)
    BY <1>2, KeptExists
<1>4. IsKept(f, seq, gone, DOMAIN seq)
    BY <1>3
<1> HIDE DEF f, n
<1>5. \A s \in SUBSET (1..n) : f[s] = Kept(f, seq, gone, s)
    BY <1>2, <1>4 DEF IsKept
<1>6. f[(n + 1)..n] = <<>>
    <2>1. (n + 1)..n \in SUBSET (1..n) /\ (n + 1)..n = {}
        BY <1>2
    <2> QED
        BY <2>1, <1>5 DEF Kept
<1>7. ASSUME NEW i \in 1..n
      PROVE  f[i..n] = Keep(seq[i], f[(i + 1)..n], gone)
    <2>1. i..n \in SUBSET (1..n) /\ i..n # {}
        BY <1>2, <1>7
    <2>2. Min(i..n) = i /\ (i..n) \ {i} = (i + 1)..n
        BY <1>2, RangeMin
    <2> QED
        BY <2>1, <2>2, <1>5 DEF Kept
<1> QED
    BY <1>1, <1>2, <1>6, <1>7 DEF n

LEMMA KeepFacts ==
    ASSUME NEW X, NEW out \in Seq(X), NEW v \in X, NEW gone, IsInjective(out)
    PROVE  /\ Keep(v, out, gone) \in Seq(X) /\ IsInjective(Keep(v, out, gone))
           /\ Len(Keep(v, out, gone)) <= Len(out) + 1
           /\ v \in gone => Keep(v, out, gone) = out
           /\ \A x : x \in ToSet(Keep(v, out, gone)) <=> x \in ToSet(out) \/ (x = v /\ v \notin gone)
<1>1. CASE v \in gone \cup ToSet(out)
    BY <1>1 DEF Keep
<1>2. CASE v \notin gone \cup ToSet(out)
    <2> DEFINE q == <<v>> \o out
    <2>1. /\ q \in Seq(X) /\ Len(q) = Len(out) + 1 /\ q[1] = v
          /\ \A i \in DOMAIN q : i # 1 => i - 1 \in DOMAIN out /\ q[i] = out[i - 1]
          /\ \A i \in DOMAIN out : i + 1 \in DOMAIN q /\ q[i + 1] = out[i]
          /\ 1 \in DOMAIN q /\ DOMAIN q = 1..Len(q) /\ DOMAIN out = 1..Len(out)
        OBVIOUS
    <2>2. Keep(v, out, gone) = q
        BY <1>2 DEF Keep
    <2> HIDE DEF q
    <2>3. IsInjective(q)
        <3> SUFFICES ASSUME NEW i \in DOMAIN q, NEW j \in DOMAIN q, q[i] = q[j]
                     PROVE  i = j
            BY DEF IsInjective
        <3>1. \A a \in DOMAIN out : out[a] # v
            BY <1>2 DEF ToSet
        <3>2. \A a, b \in DOMAIN out : out[a] = out[b] => a = b
            BY DEF IsInjective
        <3>3. CASE i = 1 \/ j = 1
            BY <3>3, <2>1, <3>1
        <3>4. CASE i # 1 /\ j # 1
            <4>1. i - 1 \in DOMAIN out /\ j - 1 \in DOMAIN out /\ out[i - 1] = out[j - 1]
                BY <3>4, <2>1
            <4>2. i - 1 = j - 1
                BY <4>1, <3>2
            <4> QED
                BY <4>2, <2>1
        <3> QED
            BY <3>3, <3>4
    <2>4. ToSet(q) = ToSet(out) \cup {v}
        <3>1. ToSet(q) \subseteq ToSet(out) \cup {v}
            BY <2>1 DEF ToSet
        <3>2. ToSet(out) \subseteq ToSet(q) /\ v \in ToSet(q)
            BY <2>1 DEF ToSet
        <3> QED
            BY <3>1, <3>2
    <2> QED
        BY <1>2, <2>1, <2>2, <2>3, <2>4
<1> QED
    BY <1>1, <1>2


LEMMA LastsFacts ==
    ASSUME NEW X, NEW seq \in Seq(X), NEW gone
    PROVE  /\ lasts(seq, gone) \in Seq(X) /\ IsInjective(lasts(seq, gone))
           /\ ToSet(lasts(seq, gone)) = ToSet(seq) \ gone
           /\ Len(lasts(seq, gone)) <= Len(seq)
           /\ seq # <<>> /\ Head(seq) \in gone => Len(lasts(seq, gone)) < Len(seq)
<1> DEFINE n == Len(seq)
<1>1. DOMAIN seq = 1..n /\ n \in Nat /\ \A i \in 1..n : seq[i] \in X
    OBVIOUS
<1>2. PICK f : /\ lasts(seq, gone) = f[1..n]
               /\ f[(n + 1)..n] = <<>>
               /\ \A i \in 1..n : f[i..n] = Keep(seq[i], f[(i + 1)..n], gone)
    BY <1>1, LastsKept
<1> DEFINE Q(out, i) == /\ out \in Seq(X) /\ IsInjective(out) /\ Len(out) <= n - i + 1
                        /\ ToSet(out) = {seq[j] : j \in i..n} \ gone
           P(m) == Q(f[(n - m + 1)..n], n - m + 1)
           T == {m \in 0..n : ~P(m)}
<1> HIDE DEF n
<1>3. P(0)
    <2>1. Q(<<>>, n + 1)
        <3>1. <<>> \in Seq(X) /\ Len(<<>>) = 0 /\ DOMAIN <<>> = {}
            OBVIOUS
        <3>2. (n + 1)..n = {} /\ 0 <= n - (n + 1) + 1
            BY <1>1
        <3>3. IsInjective(<<>>) /\ ToSet(<<>>) = {}
            BY <3>1 DEF IsInjective, ToSet
        <3> QED
            BY <3>1, <3>2, <3>3
    <2>2. n - 0 + 1 = n + 1
        BY <1>1
    <2> QED
        BY <2>1, <2>2, <1>2
<1>4. ASSUME NEW m \in Nat, m < n, P(m)
      PROVE  P(m + 1)
    <2> DEFINE i == n - m
               out == f[(i + 1)..n]
    <2>1. i \in 1..n /\ i + 1 = n - m + 1 /\ n - (m + 1) + 1 = i
        BY <1>1, <1>4
    <2>2. Q(out, i + 1)
        BY <2>1, <1>4
    <2> HIDE DEF i
    <2>3. f[i..n] = Keep(seq[i], out, gone) /\ seq[i] \in X
        BY <1>1, <1>2, <2>1
    <2> HIDE DEF out
    <2>4. {seq[j] : j \in i..n} = {seq[j] : j \in (i + 1)..n} \cup {seq[i]}
        BY <2>1, <1>1
    <2>5. Q(Keep(seq[i], out, gone), i)
        <3> DEFINE k == Keep(seq[i], out, gone)
        <3>1. /\ k \in Seq(X) /\ IsInjective(k) /\ Len(k) <= Len(out) + 1
              /\ ToSet(k) = ToSet(out) \cup ({seq[i]} \ gone)
            <4>1. out \in Seq(X) /\ IsInjective(out) /\ seq[i] \in X
                BY <2>2, <2>3
            <4>2. PICK v \in X : v = seq[i]
                BY <4>1
            <4>3. k \in Seq(X) /\ IsInjective(k)
                BY ONLY <4>1, <4>2, KeepFacts
            <4>4. Len(k) <= Len(out) + 1
                BY ONLY <4>1, <4>2, KeepFacts
            <4>5. \A x : x \in ToSet(k) <=> x \in ToSet(out) \/ (x = seq[i] /\ seq[i] \notin gone)
                <5>1. \A x : x \in ToSet(Keep(v, out, gone)) <=> x \in ToSet(out) \/ (x = v /\ v \notin gone)
                    BY ONLY <4>1, v \in X, KeepFacts
                <5> QED
                    BY ONLY <5>1, <4>2
            <4>6. ToSet(k) = ToSet(out) \cup ({seq[i]} \ gone)
                BY ONLY <4>5
            <4> QED
                BY ONLY <4>3, <4>4, <4>6
        <3> HIDE DEF k
        <3>2. Len(k) \in Nat /\ Len(out) \in Nat /\ Len(out) <= n - (i + 1) + 1
            BY <3>1, <2>2
        <3>3. Len(k) <= n - i + 1
            BY <3>1, <3>2, <2>1, <1>1
        <3> QED
            BY <3>1, <3>3, <2>2, <2>4 DEF k
    <2> QED
        BY <2>1, <2>3, <2>5
<1>5. T = {}
    <2> SUFFICES ASSUME T # {} PROVE FALSE
        OBVIOUS
    <2>1. T \in SUBSET Nat
        OBVIOUS
    <2>2. PICK m \in T : \A y \in T : m <= y
        BY <2>1, LeastNumber
    <2> HIDE DEF P
    <2>3. m # 0
        BY <1>3
    <2>4. m - 1 \in 0..n /\ m - 1 < n /\ m - 1 \notin T
        BY <2>2, <2>3, <1>1
    <2>5. P(m - 1)
        BY <2>4
    <2>6. P((m - 1) + 1)
        BY <2>4, <2>5, <1>4
    <2> QED
        BY <2>6
<1>6. \A i \in 1..(n + 1) : Q(f[i..n], i)
    <2> SUFFICES ASSUME NEW i \in 1..(n + 1) PROVE Q(f[i..n], i)
        OBVIOUS
    <2>1. P(n - i + 1)
        <3> HIDE DEF P
        <3> QED
            BY <1>1, <1>5
    <2>2. n - (n - i + 1) + 1 = i
        BY <1>1
    <2> QED
        BY <2>1, <2>2
<1>7. Q(f[1..n], 1)
    <2>1. 1 \in 1..(n + 1)
        BY <1>1
    <2> HIDE DEF Q
    <2> QED
        BY <2>1, <1>6
<1>8. ASSUME seq # <<>>, Head(seq) \in gone
      PROVE  Len(lasts(seq, gone)) < Len(seq)
    <2>1. 1 \in 1..n /\ seq[1] \in gone /\ 1 + 1 \in 1..(n + 1)
        BY <1>8 DEF n
    <2>2. Q(f[(1 + 1)..n], 1 + 1)
        BY <2>1, <1>6
    <2>3. f[1..n] = f[(1 + 1)..n]
        BY <2>1, <1>2 DEF Keep
    <2>4. Len(f[1..n]) <= n - (1 + 1) + 1 /\ Len(f[1..n]) \in Nat
        BY <2>2, <2>3
    <2> QED
        BY <2>4, <1>1, <1>2 DEF n
<1>9. {seq[j] : j \in 1..n} = ToSet(seq)
    BY <1>1 DEF ToSet
<1>10. n - 1 + 1 = n
    BY <1>1
<1> QED
    BY <1>2, <1>7, <1>8, <1>9, <1>10 DEF n

LEMMA AppendFacts ==
    ASSUME NEW X, NEW seq \in Seq(X), NEW e \in X
    PROVE  /\ Append(seq, e) \in Seq(X) /\ Len(Append(seq, e)) = Len(seq) + 1
           /\ Len(seq) + 1 \in DOMAIN Append(seq, e) /\ Append(seq, e)[Len(seq) + 1] = e
           /\ \A i \in DOMAIN seq : /\ i \in DOMAIN Append(seq, e) /\ Append(seq, e)[i] = seq[i]
                                    /\ i # Len(seq) + 1
           /\ \A i \in DOMAIN Append(seq, e) : i \in DOMAIN seq \/ i = Len(seq) + 1
OBVIOUS

LEMMA TailFacts ==
    ASSUME NEW X, NEW seq \in Seq(X), seq # <<>>
    PROVE  /\ Tail(seq) \in Seq(X) /\ 1 \in DOMAIN seq /\ Head(seq) = seq[1] /\ seq[1] \in X
           /\ Len(Tail(seq)) = Len(seq) - 1
           /\ \A i \in DOMAIN Tail(seq) : /\ i \in Nat /\ i + 1 \in DOMAIN seq /\ i + 1 # 1
                                          /\ Tail(seq)[i] = seq[i + 1]
           /\ \A i \in DOMAIN seq : i # 1 => /\ i \in Nat /\ i - 1 \in DOMAIN Tail(seq)
                                             /\ Tail(seq)[i - 1] = seq[i]
OBVIOUS

LEMMA SetOfAppend ==
    ASSUME NEW X, NEW seq \in Seq(X), NEW e \in X
    PROVE  /\ ToSet(Append(seq, e)) = ToSet(seq) \cup {e}
           /\ IsInjective(seq) /\ e \notin ToSet(seq) => IsInjective(Append(seq, e))
<1> DEFINE q == Append(seq, e)
<1>1. /\ \A i \in DOMAIN seq : i \in DOMAIN q /\ q[i] = seq[i] /\ i # Len(seq) + 1
      /\ \A i \in DOMAIN q : i \in DOMAIN seq \/ i = Len(seq) + 1
      /\ Len(seq) + 1 \in DOMAIN q /\ q[Len(seq) + 1] = e
    BY AppendFacts
<1> HIDE DEF q
<1>2. ToSet(q) \subseteq ToSet(seq) \cup {e}
    BY <1>1 DEF ToSet
<1>3. ToSet(seq) \subseteq ToSet(q) /\ e \in ToSet(q)
    BY <1>1 DEF ToSet
<1>4. ASSUME IsInjective(seq), e \notin ToSet(seq) PROVE IsInjective(q)
    <2> SUFFICES ASSUME NEW i \in DOMAIN q, NEW j \in DOMAIN q, q[i] = q[j] PROVE i = j
        BY DEF IsInjective
    <2>1. \A a \in DOMAIN seq : seq[a] # e
        BY <1>4 DEF ToSet
    <2>2. \A a, b \in DOMAIN seq : seq[a] = seq[b] => a = b
        BY <1>4 DEF IsInjective
    <2> QED
        BY <2>1, <2>2, <1>1
<1> QED
    BY <1>2, <1>3, <1>4 DEF q

LEMMA LastOfFacts ==
    ASSUME NEW X, NEW seq \in Seq(X), NEW n \in Nat
    PROVE  /\ lastOf(seq, n) \in Seq(X) /\ Len(lastOf(seq, n)) <= n
           /\ ToSet(lastOf(seq, n)) \subseteq ToSet(seq)
           /\ IsInjective(seq) => IsInjective(lastOf(seq, n))
           /\ Len(seq) <= n => ToSet(lastOf(seq, n)) = ToSet(seq)
<1> DEFINE d == IF Len(seq) > n THEN Len(seq) - n ELSE 0
           q == lastOf(seq, n)
<1>1. d \in 0..Len(seq) /\ Len(seq) \in Nat /\ Len(seq) - d <= n /\ (Len(seq) <= n => d = 0)
    OBVIOUS
<1>2. q = SubSeq(seq, d + 1, Len(seq))
    BY DEF lastOf
<1> HIDE DEF d, q
<1>3. q \in Seq(X) /\ Len(q) = Len(seq) - d
    BY <1>1, <1>2
<1>4. \A i \in DOMAIN q : i \in Nat /\ i + d \in DOMAIN seq /\ q[i] = seq[i + d]
    BY <1>1, <1>2
<1>5. d = 0 => \A i \in DOMAIN seq : i \in DOMAIN q /\ q[i] = seq[i]
    BY <1>1, <1>2
<1>6. ToSet(q) \subseteq ToSet(seq)
    BY <1>4 DEF ToSet
<1>7. d = 0 => ToSet(seq) \subseteq ToSet(q)
    BY <1>5 DEF ToSet
<1>8. ASSUME IsInjective(seq) PROVE IsInjective(q)
    <2> SUFFICES ASSUME NEW i \in DOMAIN q, NEW j \in DOMAIN q, q[i] = q[j] PROVE i = j
        BY DEF IsInjective
    <2>1. i + d \in DOMAIN seq /\ j + d \in DOMAIN seq /\ seq[i + d] = seq[j + d] /\ i \in Nat /\ j \in Nat
        BY <1>4
    <2>2. i + d = j + d
        BY <2>1, <1>8 DEF IsInjective
    <2> QED
        BY <2>1, <2>2, <1>1
<1> QED
    BY <1>1, <1>3, <1>6, <1>7, <1>8 DEF q

\* A sequence without repetitions is as long as its set of elements is large.
LEMMA InjectiveLen ==
    ASSUME NEW X, NEW seq \in Seq(X), IsInjective(seq)
    PROVE  IsFiniteSet(ToSet(seq)) /\ Cardinality(ToSet(seq)) = Len(seq)
<1>1. IsFiniteSet(1..Len(seq)) /\ Cardinality(1..Len(seq)) = Len(seq)
    <2>1. Len(seq) \in Nat /\ 1 \in Int
        OBVIOUS
    <2>2. IsFiniteSet(1..Len(seq)) /\ Cardinality(1..Len(seq)) = IF 1 <= Len(seq) THEN Len(seq) - 1 + 1 ELSE 0
        BY <2>1, FS_Interval
    <2> QED
        BY <2>1, <2>2
<1>2. seq \in Bijection(1..Len(seq), ToSet(seq))
    <2>1. DOMAIN seq = 1..Len(seq) /\ seq = [i \in DOMAIN seq |-> seq[i]]
        OBVIOUS
    <2>2. seq \in [1..Len(seq) -> ToSet(seq)]
        BY <2>1 DEF ToSet
    <2>3. \A a, b \in 1..Len(seq) : seq[a] = seq[b] => a = b
        BY <2>1 DEF IsInjective
    <2>4. \A v \in ToSet(seq) : \E i \in 1..Len(seq) : seq[i] = v
        BY <2>1 DEF ToSet
    <2> QED
        BY <2>2, <2>3, <2>4, Fun_IsBij
<1> QED
    BY <1>1, <1>2, FS_Bijection DEF ExistsBijection

(***************************************************************************)
(* The invariants of one tab, with the provider r.                         *)
(***************************************************************************)
\* A key older than the room's is in the cache, or on its way there, only where a
\* derivation overlapped a rotation.
KeysSound(r) ==
    /\ \A k \in Keys : r.keyCache[k] # None /\ r.keyCache[k] < r.gen[k] => k \in r.overlapped
    /\ \A s \in Slots : r.calls[s] # None =>
          /\ r.calls[s].userKey < r.calls[s].began => r.calls[s].msg.key \in r.overlapped
          /\ r.calls[s].pc = "derive" /\ r.calls[s].userKey < r.gen[r.calls[s].msg.key] =>
                r.calls[s].msg.key \in r.overlapped

\* The rooms with a replay window are no more than MAX_REPLAY_ROOMS, and a call
\* holds the one of its room.
RoomsHeld(r) ==
    /\ \A k \in ToSet(r.rooms) : r.replayWindows[k] # None
    /\ \A s \in Slots : r.calls[s] # None /\ r.calls[s].rw => r.replayWindows[r.calls[s].msg.key] # None
RoomsSound(r) == Len(r.rooms) <= RoomCap /\ RoomsHeld(r)

\* A window is cached when it is there; while it is read it has one transaction.
Cached(r, k, w) == w \in DOMAIN r.heap /\ r.heap[w].key = k
Waits(r, s) == r.calls[s] # None /\ r.calls[s].pc \in {"check", "accept"}
WindowsSound(r) ==
    /\ \A k \in Keys : r.mem[k] # None => Cached(r, k, r.mem[k]) /\ r.heap[r.mem[k]].ready
    /\ \A k \in Keys : r.hydrating[k] # None =>
          Cached(r, k, r.hydrating[k]) /\ ~r.heap[r.hydrating[k]].ready /\ r.mem[k] = None
    /\ \A i \in DOMAIN r.txs : r.txs[i].op = "hydrate" =>
          /\ Cached(r, r.txs[i].key, r.txs[i].win) /\ ~r.heap[r.txs[i].win].ready
          /\ \A j \in DOMAIN r.txs : r.txs[j].op = "hydrate" /\ r.txs[j].win = r.txs[i].win => i = j
    /\ \A w \in DOMAIN r.heap : ~r.heap[w].ready =>
          \E i \in DOMAIN r.txs : r.txs[i].op = "hydrate" /\ r.txs[i].win = w
    /\ \A s \in Slots : Waits(r, s) => Cached(r, r.calls[s].msg.key, r.calls[s].win)

\* Each persist of the chain has its call, and each call that waits for a persist
\* has one; only the first has begun, and then it has one transaction.
Persists(r, s) == r.calls[s] # None /\ r.calls[s].pc = "persist"
Started(r, k) == r.persistTail # <<>> /\ r.persistTail[1].started /\ r.persistTail[1].key = k
PersistSound(r, p) ==
    /\ Persists(r, p.slot) /\ r.calls[p.slot].msg.key = p.key
    /\ Cached(r, p.key, p.win) /\ r.heap[p.win].ready
ChainSound(r) ==
    /\ \A i \in DOMAIN r.persistTail :
          /\ r.persistTail[i].started => i = 1
          /\ PersistSound(r, r.persistTail[i])
          /\ \A j \in DOMAIN r.persistTail : r.persistTail[j].slot = r.persistTail[i].slot => i = j
    /\ \A s \in Slots : Persists(r, s) => \E i \in DOMAIN r.persistTail : r.persistTail[i].slot = s
    /\ \A i \in DOMAIN r.txs : r.txs[i].op \in {"read", "write"} =>
          /\ Started(r, r.txs[i].key) /\ r.txs[i].win = r.persistTail[1].win
          /\ \A j \in DOMAIN r.txs : r.txs[j].op \in {"read", "write"} => i = j
    /\ \A k \in Keys : Started(r, k) => \E i \in DOMAIN r.txs : r.txs[i].op \in {"read", "write"}

(***************************************************************************)
(* What the windows of a tab hold: opened are the counters opened so far   *)
(* and stored the persisted windows.                                       *)
(***************************************************************************)
\* Counters that were opened, each once and no more than fit.
Fits(order, opened) == IsInjective(order) /\ Len(order) <= Window /\ ToSet(order) \subseteq opened
OrdersFit(r, opened) ==
    /\ \A w \in DOMAIN r.heap : Fits(r.heap[w].order, opened[r.heap[w].key])
    /\ \A i \in DOMAIN r.txs : Fits(r.txs[i].seen, opened[r.txs[i].key])
    /\ \A s \in Slots : r.calls[s] # None /\ r.calls[s].pc \in {"accept", "persist"} =>
          r.calls[s].msg.ctr \in opened[r.calls[s].msg.key]

\* Whoever is about to write has read what is there.
ReadsFresh(r, stored) ==
    \A i \in DOMAIN r.txs : r.txs[i].op = "read" =>
        ToSet(stored[r.txs[i].key]) \subseteq ToSet(r.txs[i].seen)

\* The counter that a persist is for is in its window.
WritesIt(r, promises) ==
    \A i \in DOMAIN r.persistTail : r.persistTail[i].key \in promises =>
        r.calls[r.persistTail[i].slot].msg.ctr \in ToSet(r.heap[r.persistTail[i].win].order)

(***************************************************************************)
(* A session of a tab, for a room k that nobody has rotated since it       *)
(* began; here is what the store has for the room.                         *)
(***************************************************************************)
\* Its window is cached or being read, and is not evicted during a persist.
PersistsOf(r, k) == {s \in Slots : Persists(r, s) /\ r.calls[s].msg.key = k}
Steady(r, k) ==
    /\ \A i \in DOMAIN r.txs : r.txs[i].key = k =>
          r.txs[i].op # "delete" /\ (r.txs[i].op = "hydrate" => r.txs[i].win = r.hydrating[k])
    /\ r.persisting[k] = Cardinality(PersistsOf(r, k))
    /\ \A s \in Slots : Waits(r, s) /\ r.calls[s].msg.key = k =>
          r.calls[s].win = IF r.heap[r.calls[s].win].ready THEN r.mem[k] ELSE r.hydrating[k]

\* A message that was known when its call began is known still.
StillKnown(r, k, known) ==
    \A s \in Slots : r.calls[s] # None /\ r.calls[s].msg.key = k /\ r.calls[s].known =>
        r.calls[s].msg \in known

\* The guard has the counter of a message that the session knows.
Remembers(r, k, ctr, here) ==
    /\ r.mem[k] # None => ctr \in ToSet(r.heap[r.mem[k]].order)
    /\ r.mem[k] = None => ctr \in here
    /\ \A i \in DOMAIN r.txs : r.txs[i].key = k /\ r.txs[i].op = "hydrate" => ctr \in ToSet(r.txs[i].seen)
    /\ ctr \in here \/ \E s \in PersistsOf(r, k) : r.calls[s].msg.ctr = ctr

\* No call gets past the guard with such a message, and a persist that is being
\* written is in the store.
Refuses(r, k, here) ==
    /\ \A s \in Slots : r.calls[s] # None /\ r.calls[s].msg.key = k /\ r.calls[s].known =>
          r.calls[s].pc \notin {"decrypt", "accept", "persist"}
    /\ \A i \in DOMAIN r.txs : r.txs[i].key = k /\ r.txs[i].op = "write" =>
          r.calls[r.persistTail[1].slot].msg.ctr \in here

Session(r, known, gone, stored, promises) ==
    /\ \A m \in known : m.key \notin gone
    /\ \A k \in Keys \ gone :
          /\ Steady(r, k)
          /\ StillKnown(r, k, known)
          /\ k \in promises => /\ Refuses(r, k, ToSet(stored[k]))
                               /\ \A m \in known : m.key = k => Remembers(r, k, m.ctr, ToSet(stored[k]))

(***************************************************************************)
(* The invariant.                                                          *)
(***************************************************************************)
TabSound(r, opened, stored, known, gone, promises) ==
    /\ r \in Tab /\ RoomsSound(r) /\ KeysSound(r) /\ WindowsSound(r) /\ ChainSound(r)
    /\ OrdersFit(r, opened) /\ ReadsFresh(r, stored) /\ WritesIt(r, promises)
    /\ Session(r, known, gone, stored, promises)

HistoryTypeOK ==
    /\ ctrs \in [Keys -> SUBSET Ctrs] /\ \A k \in Keys : IsFiniteSet(ctrs[k])
    /\ written \in SUBSET Message
    /\ knows \in [Tabs -> SUBSET Message]
    /\ rotated \in [Tabs -> SUBSET Keys]

Promises == {k \in Keys : Promised(k)}

\* What was written stays in the store, and a Web Lock is held for the persist
\* that has begun.
StoreInv ==
    /\ store \in [Keys -> Seq(Ctrs)]
    /\ \A k \in Keys : Fits(store[k], ctrs[k])
    /\ \A m \in written : m.key \in Promises => m.ctr \in ToSet(store[m.key])
LockInv ==
    /\ lock \in [Keys -> Tabs \cup {None}]
    /\ \A t \in Tabs, k \in Keys : lock[k] = t <=> Started(tabs[t], k)

ChatInv ==
    /\ HistoryTypeOK /\ StoreInv /\ LockInv
    /\ tabs = [t \in Tabs |-> tabs[t]]
    /\ \A t \in Tabs : TabSound(tabs[t], ctrs, store, knows[t], rotated[t], Promises)

(***************************************************************************)
(* The windows.                                                            *)
(***************************************************************************)
LEMMA WindowNat == Window \in Nat /\ Window > 0 /\ RoomCap \in Nat /\ RoomCap > 0
BY ChatBoundsAssumption

\* A window of counters that all fit keeps all of them.
LEMMA AllFit ==
    ASSUME NEW opened, IsFiniteSet(opened), Cardinality(opened) <= Window,
           NEW seq \in Seq(Ctrs), IsInjective(seq), ToSet(seq) \subseteq opened
    PROVE  Len(seq) <= Window
<1>1. IsFiniteSet(ToSet(seq)) /\ Cardinality(ToSet(seq)) = Len(seq)
    BY InjectiveLen
<1>2. Cardinality(ToSet(seq)) <= Cardinality(opened)
    BY FS_Subset
<1>3. Cardinality(opened) \in Nat /\ Len(seq) \in Nat
    BY FS_CardinalityType
<1> QED
    BY <1>1, <1>2, <1>3, WindowNat

LEMMA TrimFacts ==
    ASSUME NEW order \in Seq(Ctrs), NEW ctr \in Ctrs, NEW opened, IsFiniteSet(opened),
           ctr \in opened, ctr \notin ToSet(order), Fits(order, opened)
    PROVE  /\ trim(order, ctr) \in Seq(Ctrs) /\ Fits(trim(order, ctr), opened)
           /\ Cardinality(opened) <= Window =>
                 \A c : c \in ToSet(order) \/ c = ctr => c \in ToSet(trim(order, ctr))
<1> DEFINE q == Append(order, ctr)
<1>1. q \in Seq(Ctrs)
    OBVIOUS
<1>2. ToSet(q) = ToSet(order) \cup {ctr} /\ IsInjective(q)
    BY SetOfAppend DEF Fits
<1> HIDE DEF q
<1>3. ToSet(q) \subseteq opened
    BY <1>2 DEF Fits
<1>4. Cardinality(opened) <= Window => Len(q) <= Window
    BY <1>1, <1>2, <1>3, AllFit
<1>5. trim(order, ctr) = lastOf(q, Window)
    BY DEF trim, q
<1>6. /\ lastOf(q, Window) \in Seq(Ctrs) /\ Len(lastOf(q, Window)) <= Window
      /\ ToSet(lastOf(q, Window)) \subseteq ToSet(q)
      /\ IsInjective(lastOf(q, Window))
      /\ Len(q) <= Window => ToSet(lastOf(q, Window)) = ToSet(q)
    BY <1>1, <1>2, WindowNat, LastOfFacts
<1> QED
    BY <1>2, <1>3, <1>4, <1>5, <1>6 DEF Fits

LEMMA MergeFacts ==
    ASSUME NEW a \in Seq(Ctrs), NEW b \in Seq(Ctrs), NEW opened, IsFiniteSet(opened),
           ToSet(a) \subseteq opened, ToSet(b) \subseteq opened
    PROVE  /\ merge(a, b) \in Seq(Ctrs) /\ Fits(merge(a, b), opened)
           /\ Cardinality(opened) <= Window =>
                 \A c : c \in ToSet(a) \/ c \in ToSet(b) => c \in ToSet(merge(a, b))
<1> DEFINE ab == a \o b
           q == dedupKeepLast(ab)
<1>1. ab \in Seq(Ctrs)
    OBVIOUS
<1>2. ToSet(ab) = ToSet(a) \cup ToSet(b)
    <2>1. /\ \A i \in DOMAIN ab : \/ i \in DOMAIN a /\ ab[i] = a[i]
                                  \/ i - Len(a) \in DOMAIN b /\ ab[i] = b[i - Len(a)]
          /\ \A i \in DOMAIN a : i \in DOMAIN ab /\ ab[i] = a[i]
          /\ \A i \in DOMAIN b : i + Len(a) \in DOMAIN ab /\ ab[i + Len(a)] = b[i]
        OBVIOUS
    <2> HIDE DEF ab
    <2>2. ToSet(ab) \subseteq ToSet(a) \cup ToSet(b)
        BY <2>1 DEF ToSet
    <2>3. ToSet(a) \subseteq ToSet(ab) /\ ToSet(b) \subseteq ToSet(ab)
        BY <2>1 DEF ToSet
    <2> QED
        BY <2>2, <2>3
<1> HIDE DEF ab
<1>3. q \in Seq(Ctrs) /\ IsInjective(q) /\ ToSet(q) = ToSet(ab) \ {}
    BY <1>1, LastsFacts DEF dedupKeepLast
<1>4. merge(a, b) = lastOf(q, Window)
    BY DEF merge, ab
<1> HIDE DEF q
<1>5. ToSet(q) \subseteq opened
    BY <1>2, <1>3
<1>6. Cardinality(opened) <= Window => Len(q) <= Window
    BY <1>3, <1>5, AllFit
<1>7. /\ lastOf(q, Window) \in Seq(Ctrs) /\ Len(lastOf(q, Window)) <= Window
      /\ ToSet(lastOf(q, Window)) \subseteq ToSet(q)
      /\ IsInjective(lastOf(q, Window))
      /\ Len(q) <= Window => ToSet(lastOf(q, Window)) = ToSet(q)
    BY <1>3, WindowNat, LastOfFacts
<1> QED
    BY <1>2, <1>3, <1>4, <1>5, <1>6, <1>7 DEF Fits

LEMMA ReplayWindowAccept ==
    ASSUME NEW w \in ReplayWindowType, NEW ctr \in Ctrs
    PROVE  RW!accept(w, ctr) \in ReplayWindowType /\ RW!newWindow(Window) \in ReplayWindowType
<1>1. RW!newWindow(Window) \in ReplayWindowType
    BY WindowNat DEF RW!newWindow, ReplayWindowType
<1>2. CASE w.windowSize = 0 \/ ctr \in w.seen
    BY <1>1, <1>2 DEF RW!accept
<1>3. CASE ~(w.windowSize = 0 \/ ctr \in w.seen)
    <2> DEFINE v == RW!evicted(w)
    <2>1. v \in ReplayWindowType
        <3>1. CASE Len(w.queue) >= w.windowSize
            <4>1. w.queue \in Seq(Ctrs) /\ w.windowSize \in Nat
                BY DEF ReplayWindowType
            <4>2. w.queue # <<>>
                BY <1>3, <3>1, <4>1
            <4>3. Tail(w.queue) \in Seq(Ctrs)
                BY <4>1, <4>2
            <4> QED
                BY <3>1, <4>3 DEF RW!evicted, ReplayWindowType
        <3>2. CASE ~(Len(w.queue) >= w.windowSize)
            BY <3>2 DEF RW!evicted
        <3> QED
            BY <3>1, <3>2
    <2> HIDE DEF v
    <2>2. Append(v.queue, ctr) \in Seq(Ctrs)
        BY <2>1 DEF ReplayWindowType
    <2>3. RW!accept(w, ctr) = [v EXCEPT !.seen = @ \cup {ctr}, !.queue = Append(@, ctr)]
        BY <1>3 DEF RW!accept, v
    <2> QED
        BY <1>1, <2>1, <2>2, <2>3 DEF ReplayWindowType
<1> QED
    BY <1>2, <1>3

(***************************************************************************)
(* Steps of a tab that the invariant is not about: the replay windows of   *)
(* the provider and the marks that its calls have of them.                 *)
(***************************************************************************)
SameCall(c, d) ==
    /\ c = None <=> d = None
    /\ c # None => /\ d.pc = c.pc /\ d.msg = c.msg /\ d.win = c.win
                   /\ d.userKey = c.userKey /\ d.began = c.began /\ d.known = c.known
Alike(r, q) ==
    /\ q.mem = r.mem /\ q.hydrating = r.hydrating /\ q.heap = r.heap /\ q.txs = r.txs
    /\ q.persistTail = r.persistTail /\ q.persisting = r.persisting
    /\ \A s \in Slots : SameCall(r.calls[s], q.calls[s])

LEMMA TabFields ==
    ASSUME NEW r \in Tab
    PROVE  /\ r.txs \in Seq(Transaction) /\ r.heap \in Seq(MemWindow) /\ r.persistTail \in Seq(Persist)
           /\ r.mem \in [Keys -> Nat \cup {None}] /\ r.hydrating \in [Keys -> Nat \cup {None}]
           /\ r.persisting \in [Keys -> Nat] /\ r.calls \in [Slots -> Unseal \cup {None}]
           /\ r.gen \in [Keys -> Gens] /\ r.keyCache \in [Keys -> Gens \cup {None}]
           /\ r.rooms \in Seq(Keys) /\ r.memKeys \in Seq(Keys) /\ r.overlapped \in SUBSET Keys
           /\ r.replayWindows \in [Keys -> ReplayWindowType \cup {None}] /\ r.shows \in SUBSET Keys
           /\ \A i \in DOMAIN r.txs : /\ r.txs[i] \in Transaction /\ r.txs[i].key \in Keys /\ r.txs[i].win \in Nat
                                      /\ r.txs[i].seen \in Seq(Ctrs) /\ r.txs[i].ok \in BOOLEAN
                                      /\ r.txs[i].op \in {"hydrate", "read", "write", "delete"}
           /\ \A w \in DOMAIN r.heap : /\ r.heap[w] \in MemWindow /\ r.heap[w].key \in Keys
                                       /\ r.heap[w].order \in Seq(Ctrs) /\ r.heap[w].ready \in BOOLEAN
           /\ \A i \in DOMAIN r.persistTail :
                 /\ r.persistTail[i] \in Persist /\ r.persistTail[i].key \in Keys /\ r.persistTail[i].win \in Nat
                 /\ r.persistTail[i].slot \in Slots /\ r.persistTail[i].started \in BOOLEAN
           /\ \A s \in Slots : r.calls[s] # None =>
                 /\ r.calls[s] \in Unseal /\ r.calls[s].msg \in Message /\ r.calls[s].msg.key \in Keys
                 /\ r.calls[s].msg.ctr \in Ctrs /\ r.calls[s].msg.gen \in Gens /\ r.calls[s].win \in Nat
                 /\ r.calls[s].userKey \in Gens /\ r.calls[s].began \in Gens
<1>1. /\ r.txs \in Seq(Transaction) /\ r.heap \in Seq(MemWindow) /\ r.persistTail \in Seq(Persist)
      /\ r.mem \in [Keys -> Nat \cup {None}] /\ r.hydrating \in [Keys -> Nat \cup {None}]
      /\ r.persisting \in [Keys -> Nat] /\ r.calls \in [Slots -> Unseal \cup {None}]
      /\ r.gen \in [Keys -> Gens] /\ r.keyCache \in [Keys -> Gens \cup {None}]
      /\ r.rooms \in Seq(Keys) /\ r.memKeys \in Seq(Keys) /\ r.overlapped \in SUBSET Keys
      /\ r.replayWindows \in [Keys -> ReplayWindowType \cup {None}] /\ r.shows \in SUBSET Keys
    BY DEF Tab
<1>2. \A i \in DOMAIN r.txs : r.txs[i] \in Transaction
    BY <1>1
<1>3. \A w \in DOMAIN r.heap : r.heap[w] \in MemWindow
    BY <1>1
<1>4. \A i \in DOMAIN r.persistTail : r.persistTail[i] \in Persist
    BY <1>1
<1>5. \A s \in Slots : r.calls[s] # None => r.calls[s] \in Unseal
    BY <1>1
<1>6. \A x \in Transaction : /\ x.key \in Keys /\ x.win \in Nat /\ x.seen \in Seq(Ctrs) /\ x.ok \in BOOLEAN
                             /\ x.op \in {"hydrate", "read", "write", "delete"}
    BY DEF Transaction
<1>7. \A x \in MemWindow : x.key \in Keys /\ x.order \in Seq(Ctrs) /\ x.ready \in BOOLEAN
    BY DEF MemWindow
<1>8. \A x \in Persist : x.key \in Keys /\ x.win \in Nat /\ x.slot \in Slots /\ x.started \in BOOLEAN
    BY DEF Persist
<1>9. \A x \in Unseal : /\ x.msg \in Message /\ x.msg.key \in Keys /\ x.msg.ctr \in Ctrs /\ x.msg.gen \in Gens
                        /\ x.win \in Nat /\ x.userKey \in Gens /\ x.began \in Gens
    BY DEF Unseal, Message
<1> QED
    BY ONLY <1>1, <1>2, <1>3, <1>4, <1>5, <1>6, <1>7, <1>8, <1>9

LEMMA AlikeSound ==
    ASSUME NEW r, NEW q, NEW opened, NEW stored, NEW known, NEW gone, NEW promises,
           TabSound(r, opened, stored, known, gone, promises), Alike(r, q),
           q \in Tab, RoomsSound(q), KeysSound(q)
    PROVE  TabSound(q, opened, stored, known, gone, promises)
<1>1. \A s \in Slots : /\ Persists(q, s) <=> Persists(r, s)
                       /\ Waits(q, s) <=> Waits(r, s)
                       /\ q.calls[s] # None <=> r.calls[s] # None
                       /\ r.calls[s] # None => /\ q.calls[s].pc = r.calls[s].pc /\ q.calls[s].msg = r.calls[s].msg
                                               /\ q.calls[s].win = r.calls[s].win /\ q.calls[s].known = r.calls[s].known
    BY DEF Alike, SameCall, Persists, Waits
<1>2. /\ q.mem = r.mem /\ q.hydrating = r.hydrating /\ q.heap = r.heap /\ q.txs = r.txs
      /\ q.persistTail = r.persistTail /\ q.persisting = r.persisting
      /\ \A k, w : Cached(q, k, w) <=> Cached(r, k, w)
      /\ \A k : Started(q, k) <=> Started(r, k)
    BY DEF Alike, Cached, Started
<1>3. r \in Tab /\ \A i \in DOMAIN r.persistTail : r.persistTail[i].slot \in Slots
    BY TabFields DEF TabSound
<1>4. WindowsSound(q)
    <2>1. WindowsSound(r)
        BY DEF TabSound
    <2> QED
        BY ONLY <2>1, <1>1, <1>2 DEF WindowsSound, Waits
<1>5. ChainSound(q)
    <2>1. ChainSound(r)
        BY DEF TabSound
    <2> QED
        BY ONLY <2>1, <1>1, <1>2, <1>3 DEF ChainSound, PersistSound, Persists
<1>6. OrdersFit(q, opened)
    <2>1. OrdersFit(r, opened)
        BY DEF TabSound
    <2> QED
        BY ONLY <2>1, <1>1, <1>2 DEF OrdersFit
<1>7. ReadsFresh(q, stored)
    <2>1. ReadsFresh(r, stored)
        BY DEF TabSound
    <2> QED
        BY ONLY <2>1, <1>2 DEF ReadsFresh
<1>8. WritesIt(q, promises)
    <2>1. WritesIt(r, promises) /\ ChainSound(r)
        BY DEF TabSound
    <2>2. \A i \in DOMAIN r.persistTail : q.calls[r.persistTail[i].slot].msg = r.calls[r.persistTail[i].slot].msg
        BY ONLY <2>1, <1>1, <1>3 DEF ChainSound, PersistSound, Persists
    <2> QED
        BY ONLY <2>1, <2>2, <1>2 DEF WritesIt
<1>9. Session(q, known, gone, stored, promises)
    <2>1. Session(r, known, gone, stored, promises) /\ ChainSound(r)
        BY DEF TabSound
    <2>2. ASSUME NEW k \in Keys \ gone PROVE Steady(q, k)
        <3>1. Steady(r, k)
            BY <2>1 DEF Session
        <3>2. PersistsOf(q, k) = PersistsOf(r, k)
            BY <1>1 DEF Persists, PersistsOf
        <3> QED
            BY ONLY <3>1, <3>2, <1>1, <1>2 DEF Steady, Waits
    <2>3. ASSUME NEW k \in Keys \ gone PROVE StillKnown(q, k, known)
        BY <2>1, <1>1 DEF Session, StillKnown
    <2>4. ASSUME NEW k \in Keys \ gone, k \in promises PROVE Refuses(q, k, ToSet(stored[k]))
        <3>1. Refuses(r, k, ToSet(stored[k]))
            BY <2>1, <2>4 DEF Session
        <3>2. \A i \in DOMAIN r.txs : r.txs[i].op = "write" =>
                  q.calls[r.persistTail[1].slot].msg = r.calls[r.persistTail[1].slot].msg
            <4>1. \A i \in DOMAIN r.txs : r.txs[i].op = "write" => r.persistTail # <<>>
                BY <2>1 DEF ChainSound, Started
            <4>2. r.persistTail # <<>> => 1 \in DOMAIN r.persistTail
                BY <1>3 DEF Tab
            <4>3. r.persistTail # <<>> => r.calls[r.persistTail[1].slot] # None /\ r.persistTail[1].slot \in Slots
                BY <4>2, <2>1, <1>3 DEF ChainSound, PersistSound, Persists
            <4> QED
                BY <4>1, <4>3, <1>1
        <3> QED
            BY ONLY <3>1, <3>2, <1>1, <1>2 DEF Refuses
    <2>5. ASSUME NEW k \in Keys \ gone, k \in promises, NEW m \in known, m.key = k
          PROVE  Remembers(q, k, m.ctr, ToSet(stored[k]))
        <3>1. Remembers(r, k, m.ctr, ToSet(stored[k]))
            BY <2>1, <2>5 DEF Session
        <3> QED
            BY ONLY <3>1, <1>1, <1>2 DEF Remembers, Persists, PersistsOf
    <2> QED
        BY <2>1, <2>2, <2>3, <2>4, <2>5 DEF Session
<1> QED
    BY <1>4, <1>5, <1>6, <1>7, <1>8, <1>9 DEF TabSound

LEMMA SameKeys ==
    ASSUME NEW r, NEW q, KeysSound(r), \A s \in Slots : SameCall(r.calls[s], q.calls[s]),
           q.keyCache = r.keyCache, q.gen = r.gen, q.overlapped = r.overlapped
    PROVE  KeysSound(q)
BY DEF KeysSound, SameCall

LEMMA DetachAlike ==
    ASSUME NEW r \in Tab, NEW gone
    PROVE  LET q == detachRooms(r, gone) IN
           /\ q \in Tab /\ Alike(r, q)
           /\ q.keyCache = r.keyCache /\ q.gen = r.gen /\ q.overlapped = r.overlapped
           /\ RoomsHeld(r) => RoomsHeld(q)
           /\ RoomsSound(r) => RoomsSound(q)
           /\ q.rooms = lasts(r.rooms, gone)
           /\ \A k \in Keys : q.replayWindows[k] = IF k \in gone THEN None ELSE r.replayWindows[k]
<1> DEFINE windows == [k \in Keys |-> IF k \in gone THEN None ELSE r.replayWindows[k]]
           rooms == lasts(r.rooms, gone)
           calls2 == [s \in Slots |-> IF r.calls[s] # None /\ r.calls[s].msg.key \in gone
                                        THEN [r.calls[s] EXCEPT !.rw = FALSE] ELSE r.calls[s]]
           q == detachRooms(r, gone)
<1>1. q = [r EXCEPT !.replayWindows = windows, !.rooms = rooms, !.calls = calls2]
    BY DEF detachRooms
<1>2. rooms \in Seq(Keys) /\ Len(rooms) <= Len(r.rooms) /\ ToSet(rooms) = ToSet(r.rooms) \ gone
    BY TabFields, LastsFacts
<1>3. windows \in [Keys -> ReplayWindowType \cup {None}]
    BY TabFields
<1>4. \A s \in Slots : /\ calls2[s] \in Unseal \cup {None} /\ SameCall(r.calls[s], calls2[s])
                       /\ calls2[s] # None => /\ (calls2[s].rw => r.calls[s].rw /\ r.calls[s].msg.key \notin gone)
                                              /\ calls2[s].msg = r.calls[s].msg
    <2> SUFFICES ASSUME NEW s \in Slots
                 PROVE  /\ calls2[s] \in Unseal \cup {None} /\ SameCall(r.calls[s], calls2[s])
                        /\ calls2[s] # None => /\ (calls2[s].rw => r.calls[s].rw /\ r.calls[s].msg.key \notin gone)
                                               /\ calls2[s].msg = r.calls[s].msg
        OBVIOUS
    <2> DEFINE c == r.calls[s]
               d == IF c # None /\ c.msg.key \in gone THEN [c EXCEPT !.rw = FALSE] ELSE c
    <2>1. c \in Unseal \cup {None}
        BY TabFields
    <2>2. calls2[s] = d
        OBVIOUS
    <2> HIDE DEF c
    <2>3. d \in Unseal \cup {None} /\ SameCall(c, d)
          /\ (d # None => (d.rw => c.rw /\ c.msg.key \notin gone) /\ d.msg = c.msg)
        <3>1. CASE c = None
            BY <3>1 DEF SameCall
        <3>2. CASE c \in Unseal
            BY <3>2, ChatNoneAssumption DEF Unseal, SameCall
        <3> QED
            BY <2>1, <3>1, <3>2
    <2> QED
        BY <2>2, <2>3 DEF c
<1> HIDE DEF windows, rooms, calls2
<1>5. calls2 \in [Slots -> Unseal \cup {None}]
    <2>1. calls2 = [s \in Slots |-> calls2[s]]
        BY DEF calls2
    <2> QED
        BY <2>1, <1>4
<1>6. q \in Tab
    BY <1>1, <1>2, <1>3, <1>5 DEF Tab
<1>7. /\ q.replayWindows = windows /\ q.rooms = rooms /\ q.calls = calls2
      /\ q.mem = r.mem /\ q.hydrating = r.hydrating /\ q.heap = r.heap /\ q.txs = r.txs
      /\ q.persistTail = r.persistTail /\ q.persisting = r.persisting
      /\ q.keyCache = r.keyCache /\ q.gen = r.gen /\ q.overlapped = r.overlapped
    BY <1>1 DEF Tab
<1> HIDE DEF q
<1>8. Alike(r, q)
    BY <1>4, <1>7 DEF Alike
<1>9. ASSUME RoomsHeld(r) PROVE RoomsHeld(q)
    <2>3. ToSet(r.rooms) \subseteq Keys
        BY TabFields DEF ToSet
    <2>4. \A k \in Keys \ gone : windows[k] = r.replayWindows[k]
        BY DEF windows
    <2>5. \A k \in ToSet(rooms) : windows[k] # None
        BY <1>2, <1>9, <2>3, <2>4 DEF RoomsHeld
    <2>6. \A s \in Slots : calls2[s] # None /\ calls2[s].rw => windows[calls2[s].msg.key] # None
        <3>1. \A s \in Slots : calls2[s] # None => r.calls[s] # None
            BY <1>4 DEF SameCall
        <3>2. \A s \in Slots : r.calls[s] # None => r.calls[s].msg.key \in Keys
            BY TabFields
        <3>3. \A s \in Slots : r.calls[s] # None /\ r.calls[s].rw => r.replayWindows[r.calls[s].msg.key] # None
            BY <1>9 DEF RoomsHeld
        <3> QED
            BY ONLY <1>4, <2>4, <3>1, <3>2, <3>3
    <2> QED
        BY <2>5, <2>6, <1>7 DEF RoomsHeld
<1>10. \A k \in Keys : windows[k] = IF k \in gone THEN None ELSE r.replayWindows[k]
    BY DEF windows
<1>11. ASSUME RoomsSound(r) PROVE RoomsSound(q)
    <2>1. Len(rooms) \in Nat /\ Len(r.rooms) \in Nat
        BY <1>2, TabFields
    <2> QED
        BY <1>2, <1>7, <1>9, <1>11, <2>1, WindowNat DEF RoomsSound
<1> QED
    BY <1>6, <1>7, <1>8, <1>9, <1>10, <1>11 DEF q, rooms

LEMMA AlikeTwice ==
    ASSUME NEW r, NEW q, NEW p, Alike(r, q), Alike(q, p)
    PROVE  Alike(r, p)
BY DEF Alike, SameCall

LEMMA GetWindowSound ==
    ASSUME NEW r, NEW opened, NEW stored, NEW known, NEW gone, NEW promises,
           TabSound(r, opened, stored, known, gone, promises), NEW k \in Keys
    PROVE  LET q == getReplayWindow(r, k) IN
           /\ TabSound(q, opened, stored, known, gone, promises) /\ Alike(r, q)
           /\ q.keyCache = r.keyCache /\ q.gen = r.gen /\ q.overlapped = r.overlapped
           /\ q.replayWindows[k] # None
<1> DEFINE q == getReplayWindow(r, k)
<1>1. CASE r.replayWindows[k] # None
    <2>1. q = r
        BY <1>1 DEF getReplayWindow
    <2>2. Alike(r, r)
        BY DEF Alike, SameCall
    <2> QED
        BY <1>1, <2>1, <2>2
<1>2. CASE r.replayWindows[k] = None
    <2> DEFINE r1 == [r EXCEPT !.replayWindows[k] = RW!newWindow(Window), !.rooms = Append(@, k)]
    <2>1. r \in Tab /\ RoomsSound(r) /\ KeysSound(r)
        BY DEF TabSound
    <2>2. RW!newWindow(Window) \in ReplayWindowType /\ RW!newWindow(Window) # None
        <3>1. RW!newWindow(Window) \in ReplayWindowType
            BY WindowNat DEF RW!newWindow, ReplayWindowType
        <3> QED
            BY <3>1, ChatNoneAssumption
    <2>3. Append(r.rooms, k) \in Seq(Keys) /\ Len(Append(r.rooms, k)) = Len(r.rooms) + 1
          /\ ToSet(Append(r.rooms, k)) = ToSet(r.rooms) \cup {k}
        BY <2>1, TabFields, AppendFacts, SetOfAppend
    <2>4. r1 \in Tab
        BY <2>1, <2>2, <2>3 DEF Tab
    <2>5. /\ r1.rooms = Append(r.rooms, k)
          /\ r1.replayWindows = [r.replayWindows EXCEPT ![k] = RW!newWindow(Window)]
          /\ r1.mem = r.mem /\ r1.hydrating = r.hydrating /\ r1.heap = r.heap /\ r1.txs = r.txs
          /\ r1.persistTail = r.persistTail /\ r1.persisting = r.persisting /\ r1.calls = r.calls
          /\ r1.keyCache = r.keyCache /\ r1.gen = r.gen /\ r1.overlapped = r.overlapped
        BY <2>1 DEF Tab
    <2>6. q = evictOldReplayRooms(r1)
        BY <1>2 DEF getReplayWindow
    <2> HIDE DEF r1
    <2>7. r1.replayWindows[k] # None /\ \A j \in Keys : r.replayWindows[j] # None => r1.replayWindows[j] # None
        BY <2>1, <2>2, <2>5, TabFields
    <2>8. Alike(r, r1)
        BY <2>5 DEF Alike, SameCall
    <2>9. RoomsHeld(r1)
        <3>1. ToSet(r.rooms) \subseteq Keys
            BY <2>1, TabFields DEF ToSet
        <3>2. \A s \in Slots : r.calls[s] # None => r.calls[s].msg.key \in Keys
            BY <2>1, TabFields
        <3> QED
            BY <2>1, <2>3, <2>5, <2>7, <3>1, <3>2 DEF RoomsHeld, RoomsSound
    <2>10. Len(r.rooms) \in Nat /\ Len(r.rooms) <= RoomCap
        BY <2>1, TabFields DEF RoomsSound
    <2>11. /\ q \in Tab /\ Alike(r, q) /\ RoomsSound(q) /\ q.replayWindows[k] # None
           /\ q.keyCache = r.keyCache /\ q.gen = r.gen /\ q.overlapped = r.overlapped
        <3>1. CASE Len(r1.rooms) > RoomCap
            <4> DEFINE h == Head(r1.rooms)
            <4>1. q = detachRooms(r1, {h})
                BY <2>6, <3>1 DEF evictOldReplayRooms
            <4>2. r.rooms # <<>>
                BY <3>1, <2>3, <2>5, <2>10, WindowNat
            <4>3. h \in ToSet(r.rooms) /\ r1.rooms # <<>>
                <5>1. r.rooms \in Seq(Keys) /\ 1 \in DOMAIN r.rooms
                    BY <2>1, <4>2, TabFields
                <5>2. h = r.rooms[1] /\ r1.rooms # <<>>
                    BY <2>5, <5>1
                <5> QED
                    BY <5>1, <5>2 DEF ToSet
            <4>4. h # k
                BY <4>3, <2>1, <1>2 DEF RoomsSound, RoomsHeld
            <4>5. r1.rooms \in Seq(Keys)
                BY <2>3, <2>5
            <4> HIDE DEF h
            <4>6. Len(lasts(r1.rooms, {h})) < Len(r1.rooms) /\ Len(lasts(r1.rooms, {h})) \in Nat
                <5>1. lasts(r1.rooms, {h}) \in Seq(Keys)
                    BY <4>5, LastsFacts
                <5>2. r1.rooms # <<>> /\ Head(r1.rooms) \in {h}
                    BY <4>3 DEF h
                <5>3. Len(lasts(r1.rooms, {h})) < Len(r1.rooms)
                    BY <4>5, <5>2, LastsFacts
                <5> QED
                    BY <5>1, <5>3
            <4>7. /\ q \in Tab /\ Alike(r1, q) /\ RoomsHeld(q) /\ q.rooms = lasts(r1.rooms, {h})
                  /\ q.keyCache = r1.keyCache /\ q.gen = r1.gen /\ q.overlapped = r1.overlapped
                  /\ q.replayWindows[k] # None
                BY <4>1, <4>4, <2>4, <2>7, <2>9, DetachAlike
            <4>8. Len(q.rooms) <= RoomCap
                BY <4>6, <4>7, <2>3, <2>5, <2>10, WindowNat
            <4>9. Alike(r, q)
                BY <4>7, <2>8, AlikeTwice
            <4> QED
                BY <4>7, <4>8, <4>9, <2>5 DEF RoomsSound
        <3>2. CASE ~(Len(r1.rooms) > RoomCap)
            <4>1. q = r1
                BY <2>6, <3>2 DEF evictOldReplayRooms
            <4>2. Len(r1.rooms) <= RoomCap
                BY <3>2, <2>3, <2>5, <2>10, WindowNat
            <4> QED
                BY <4>1, <4>2, <2>4, <2>5, <2>7, <2>8, <2>9 DEF RoomsSound
        <3> QED
            BY <3>1, <3>2
    <2> HIDE DEF q
    <2>12. KeysSound(q)
        BY <2>1, <2>11, SameKeys DEF Alike
    <2> QED
        BY <2>11, <2>12, AlikeSound DEF q
<1> QED
    BY <1>1, <1>2

(***************************************************************************)
(* hydrate: the window of the room is cached or being read afterwards.     *)
(***************************************************************************)
LEMMA EmptyFits == \A opened : <<>> \in Seq(Ctrs) /\ Fits(<<>>, opened)
<1>1. <<>> \in Seq(Ctrs) /\ Len(<<>>) = 0 /\ DOMAIN <<>> = {}
    OBVIOUS
<1>2. IsInjective(<<>>) /\ ToSet(<<>>) = {}
    BY <1>1 DEF IsInjective, ToSet
<1> QED
    BY <1>1, <1>2, WindowNat DEF Fits

\* The read of a window that is new: n is its place, tx the transaction.
NewRead(r, q, k, n, tx) ==
    /\ n = Len(r.heap) + 1 /\ r.mem[k] = None /\ r.hydrating[k] = None
    /\ tx = [op |-> "hydrate", key |-> k, win |-> n, seen |-> store[k], ok |-> TRUE]
    /\ q.txs = Append(r.txs, tx)
    /\ q.heap = Append(r.heap, [key |-> k, order |-> <<>>, ready |-> FALSE])
    /\ q.hydrating = [r.hydrating EXCEPT ![k] = n]
    /\ q.mem = r.mem /\ q.memKeys = r.memKeys /\ q.persisting = r.persisting
    /\ q.persistTail = r.persistTail /\ q.calls = r.calls /\ q.rooms = r.rooms
    /\ q.replayWindows = r.replayWindows
    /\ q.keyCache = r.keyCache /\ q.gen = r.gen /\ q.overlapped = r.overlapped

LEMMA HydrateFields ==
    ASSUME NEW r \in Tab, WindowsSound(r), NEW k \in Keys, store \in [Keys -> Seq(Ctrs)]
    PROVE  \/ /\ hydrate(r, k) = r /\ Cached(r, k, promised(r, k)) /\ promised(r, k) \in Nat
              /\ promised(r, k) = IF r.heap[promised(r, k)].ready THEN r.mem[k] ELSE r.hydrating[k]
           \/ /\ hydrate(r, k) \in Tab /\ promised(r, k) \in Nat
              /\ \E tx \in Transaction : NewRead(r, hydrate(r, k), k, promised(r, k), tx)
<1> DEFINE p == promised(r, k)
           q == hydrate(r, k)
           n == Len(r.heap) + 1
<1>0. r.heap \in Seq(MemWindow) /\ n \in Nat /\ \A w \in DOMAIN r.heap : w \in Nat /\ w <= Len(r.heap)
    BY TabFields
<1>1. /\ r.mem[k] # None => Cached(r, k, r.mem[k]) /\ r.heap[r.mem[k]].ready
      /\ r.hydrating[k] # None => Cached(r, k, r.hydrating[k]) /\ ~r.heap[r.hydrating[k]].ready
    BY DEF WindowsSound
<1>2. CASE r.mem[k] # None
    <2>1. p = r.mem[k] /\ p \in DOMAIN r.heap /\ r.heap[p].ready /\ Cached(r, k, p)
        BY <1>1, <1>2 DEF promised, Cached
    <2>2. q = r
        BY <2>1, <1>0 DEF hydrate
    <2> QED
        BY <2>1, <2>2, <1>0
<1>3. CASE r.mem[k] = None /\ r.hydrating[k] # None
    <2>1. p = r.hydrating[k] /\ p \in DOMAIN r.heap /\ ~r.heap[p].ready /\ Cached(r, k, p)
        BY <1>1, <1>3 DEF promised, Cached
    <2>2. q = r
        BY <2>1, <1>0 DEF hydrate
    <2> QED
        BY <2>1, <2>2, <1>0
<1>4. CASE r.mem[k] = None /\ r.hydrating[k] = None
    <2> DEFINE tx == [op |-> "hydrate", key |-> k, win |-> n, seen |-> store[k], ok |-> TRUE]
               w == [key |-> k, order |-> <<>>, ready |-> FALSE]
    <2>1. p = n /\ ~(p <= Len(r.heap))
        BY <1>0, <1>4 DEF promised
    <2>2. q = [Create(r, "hydrate", k, n, store[k], TRUE) EXCEPT !.hydrating[k] = n, !.heap = Append(@, w)]
        BY <2>1 DEF hydrate
    <2>3. q = [r EXCEPT !.txs = Append(@, tx), !.hydrating[k] = n, !.heap = Append(@, w)]
        BY <2>2 DEF Create, Tab
    <2>4. tx \in Transaction /\ w \in MemWindow
        BY <1>0, EmptyFits DEF Transaction, MemWindow
    <2> HIDE DEF tx, w, n
    <2>5. Append(r.txs, tx) \in Seq(Transaction) /\ Append(r.heap, w) \in Seq(MemWindow)
        BY <2>4, TabFields
    <2>6. q \in Tab
        <3>1. q = [r EXCEPT !.txs = Append(r.txs, tx), !.hydrating = [r.hydrating EXCEPT ![k] = n],
                            !.heap = Append(r.heap, w)]
            BY <2>3 DEF Tab
        <3>2. [r.hydrating EXCEPT ![k] = n] \in [Keys -> Nat \cup {None}]
            BY <1>0, TabFields
        <3> QED
            BY ONLY <2>5, <3>1, <3>2, r \in Tab DEF Tab
    <2>7. NewRead(r, q, k, n, tx)
        <3>1. /\ q.txs = Append(r.txs, tx) /\ q.heap = Append(r.heap, w)
              /\ q.hydrating = [r.hydrating EXCEPT ![k] = n]
              /\ q.mem = r.mem /\ q.memKeys = r.memKeys /\ q.persisting = r.persisting
              /\ q.persistTail = r.persistTail /\ q.calls = r.calls /\ q.rooms = r.rooms
              /\ q.replayWindows = r.replayWindows
              /\ q.keyCache = r.keyCache /\ q.gen = r.gen /\ q.overlapped = r.overlapped
            BY <2>3 DEF Tab
        <3> HIDE DEF q
        <3> QED
            BY <3>1, <1>4 DEF NewRead, tx, w, n
    <2> QED
        BY <1>0, <2>1, <2>4, <2>6, <2>7
<1> QED
    BY <1>2, <1>3, <1>4

\* The chain is as before when its calls, windows and transaction are.
LEMMA ChainKeeps ==
    ASSUME NEW r \in Tab, NEW q, ChainSound(r), q.persistTail = r.persistTail,
           \A w \in DOMAIN r.heap : r.heap[w].ready =>
               w \in DOMAIN q.heap /\ q.heap[w].ready /\ q.heap[w].key = r.heap[w].key,
           \A s \in Slots : /\ Persists(q, s) <=> Persists(r, s)
                            /\ Persists(r, s) => q.calls[s].msg = r.calls[s].msg,
           \A i \in DOMAIN q.txs : q.txs[i].op \in {"read", "write"} =>
               \E j \in DOMAIN r.txs : /\ r.txs[j].op \in {"read", "write"}
                                       /\ r.txs[j].key = q.txs[i].key /\ r.txs[j].win = q.txs[i].win,
           \A i, j \in DOMAIN q.txs : q.txs[i].op \in {"read", "write"} /\ q.txs[j].op \in {"read", "write"} => i = j,
           (\E j \in DOMAIN r.txs : r.txs[j].op \in {"read", "write"}) =>
               \E i \in DOMAIN q.txs : q.txs[i].op \in {"read", "write"}
    PROVE  ChainSound(q)
<1>1. \A i \in DOMAIN r.persistTail : PersistSound(q, r.persistTail[i])
    <2> SUFFICES ASSUME NEW i \in DOMAIN r.persistTail
                 PROVE  PersistSound(q, r.persistTail[i])
        OBVIOUS
    <2>1. PersistSound(r, r.persistTail[i]) /\ r.persistTail[i].slot \in Slots
        BY TabFields DEF ChainSound
    <2> DEFINE p == r.persistTail[i]
    <2> HIDE DEF p
    <2>2. PersistSound(r, p) /\ p.slot \in Slots
        BY <2>1 DEF p
    <2>3. PersistSound(q, p)
        BY <2>2 DEF PersistSound, Cached
    <2> QED
        BY <2>3 DEF p
<1>2. \A k : Started(q, k) <=> Started(r, k)
    BY DEF Started
<1>3. \A i \in DOMAIN r.persistTail :
          /\ r.persistTail[i].started => i = 1
          /\ \A j \in DOMAIN r.persistTail : r.persistTail[j].slot = r.persistTail[i].slot => i = j
    BY DEF ChainSound
<1>4. \A i \in DOMAIN q.persistTail :
          /\ q.persistTail[i].started => i = 1
          /\ PersistSound(q, q.persistTail[i])
          /\ \A j \in DOMAIN q.persistTail : q.persistTail[j].slot = q.persistTail[i].slot => i = j
    BY <1>1, <1>3
<1>5. \A s \in Slots : Persists(q, s) => \E i \in DOMAIN q.persistTail : q.persistTail[i].slot = s
    BY DEF ChainSound
<1>6. \A i \in DOMAIN q.txs : q.txs[i].op \in {"read", "write"} =>
          Started(q, q.txs[i].key) /\ q.txs[i].win = q.persistTail[1].win
    BY <1>2 DEF ChainSound
<1>7. \A k \in Keys : Started(q, k) => \E i \in DOMAIN q.txs : q.txs[i].op \in {"read", "write"}
    BY <1>2 DEF ChainSound
<1> QED
    BY <1>4, <1>5, <1>6, <1>7 DEF ChainSound

LEMMA NewReadSound ==
    ASSUME NEW r, NEW q \in Tab, NEW opened, NEW known, NEW gone, NEW promises, NEW k \in Keys,
           NEW n, NEW tx \in Transaction,
           TabSound(r, opened, store, known, gone, promises), Fits(store[k], opened[k]),
           NewRead(r, q, k, n, tx)
    PROVE  /\ TabSound(q, opened, store, known, gone, promises)
           /\ Cached(q, k, n) /\ n = IF q.heap[n].ready THEN q.mem[k] ELSE q.hydrating[k]
<1> DEFINE e == Len(r.txs) + 1
           w0 == [key |-> k, order |-> <<>>, ready |-> FALSE]
<1>1. r \in Tab
    BY DEF TabSound
<1>2. /\ n = Len(r.heap) + 1 /\ r.mem[k] = None /\ r.hydrating[k] = None
      /\ q.txs = Append(r.txs, tx) /\ q.heap = Append(r.heap, w0)
      /\ q.hydrating = [r.hydrating EXCEPT ![k] = n]
      /\ q.mem = r.mem /\ q.persisting = r.persisting
      /\ q.persistTail = r.persistTail /\ q.calls = r.calls /\ q.rooms = r.rooms
      /\ q.replayWindows = r.replayWindows
      /\ q.keyCache = r.keyCache /\ q.gen = r.gen /\ q.overlapped = r.overlapped
    BY DEF NewRead
<1>3. tx.op = "hydrate" /\ tx.key = k /\ tx.win = n /\ tx.seen = store[k]
    BY DEF NewRead
<1>4. w0 \in MemWindow /\ w0.key = k /\ w0.order = <<>> /\ w0.ready = FALSE
    BY EmptyFits DEF MemWindow
<1> HIDE DEF w0
<1>5. /\ n \in DOMAIN q.heap /\ q.heap[n].key = k /\ q.heap[n].order = <<>> /\ q.heap[n].ready = FALSE
      /\ \A w \in DOMAIN r.heap : w \in DOMAIN q.heap /\ q.heap[w] = r.heap[w] /\ w # n
      /\ \A w \in DOMAIN q.heap : w \in DOMAIN r.heap \/ w = n
    <2>1. r.heap \in Seq(MemWindow)
        BY <1>1, TabFields
    <2>2. /\ n \in DOMAIN q.heap /\ q.heap[n] = w0
          /\ \A w \in DOMAIN r.heap : w \in DOMAIN q.heap /\ q.heap[w] = r.heap[w] /\ w # n
          /\ \A w \in DOMAIN q.heap : w \in DOMAIN r.heap \/ w = n
        BY ONLY <2>1, <1>2, <1>4, AppendFacts
    <2> QED
        BY ONLY <2>2, <1>4
<1>6. /\ e \in DOMAIN q.txs /\ q.txs[e] = tx
      /\ \A i \in DOMAIN r.txs : i \in DOMAIN q.txs /\ q.txs[i] = r.txs[i] /\ i # e
      /\ \A i \in DOMAIN q.txs : i \in DOMAIN r.txs \/ i = e
    BY <1>1, <1>2, TabFields, AppendFacts
<1>7. /\ q.hydrating[k] = n /\ \A j \in Keys : j # k => q.hydrating[j] = r.hydrating[j]
      /\ n \in Nat /\ n # None
    BY <1>1, <1>2, ChatNoneAssumption, TabFields
<1>8. \A j, w : Cached(r, j, w) => Cached(q, j, w) /\ q.heap[w] = r.heap[w]
    BY <1>5 DEF Cached
<1>9. /\ \A s \in Slots : /\ Persists(q, s) <=> Persists(r, s)
                          /\ Waits(q, s) <=> Waits(r, s)
      /\ \A j : Started(q, j) <=> Started(r, j)
      /\ \A j : PersistsOf(q, j) = PersistsOf(r, j)
    BY <1>2 DEF Persists, Waits, Started, PersistsOf
<1> HIDE DEF e
<1>10. RoomsSound(q) /\ KeysSound(q)
    BY <1>2 DEF TabSound, RoomsSound, RoomsHeld, KeysSound
<1>11. WindowsSound(q)
    <2>1. WindowsSound(r)
        BY DEF TabSound
    <2>2. \A j \in Keys : q.mem[j] # None => Cached(q, j, q.mem[j]) /\ q.heap[q.mem[j]].ready
        <3>1. \A j \in Keys : r.mem[j] # None => Cached(r, j, r.mem[j]) /\ r.heap[r.mem[j]].ready
            BY ONLY <2>1 DEF WindowsSound
        <3>2. \A j \in Keys : r.mem[j] # None => Cached(q, j, r.mem[j]) /\ q.heap[r.mem[j]].ready
            BY ONLY <3>1, <1>8
        <3> QED
            BY ONLY <3>2, <1>2
    <2>3. \A j \in Keys : q.hydrating[j] # None =>
              Cached(q, j, q.hydrating[j]) /\ ~q.heap[q.hydrating[j]].ready /\ q.mem[j] = None
        BY ONLY <2>1, <1>2, <1>5, <1>7, <1>8 DEF WindowsSound, Cached
    <2>4. \A i \in DOMAIN q.txs : q.txs[i].op = "hydrate" =>
              /\ Cached(q, q.txs[i].key, q.txs[i].win) /\ ~q.heap[q.txs[i].win].ready
              /\ \A j \in DOMAIN q.txs : q.txs[j].op = "hydrate" /\ q.txs[j].win = q.txs[i].win => i = j
        <3>1. \A i \in DOMAIN r.txs : r.txs[i].op = "hydrate" =>
                  /\ Cached(r, r.txs[i].key, r.txs[i].win) /\ ~r.heap[r.txs[i].win].ready /\ r.txs[i].win # n
                  /\ \A j \in DOMAIN r.txs : r.txs[j].op = "hydrate" /\ r.txs[j].win = r.txs[i].win => i = j
            BY ONLY <2>1, <1>5 DEF WindowsSound, Cached
        <3>2. Cached(q, k, n) /\ ~q.heap[n].ready
            BY <1>5 DEF Cached
        <3> QED
            BY ONLY <3>1, <3>2, <1>3, <1>6, <1>8
    <2>5. \A w \in DOMAIN q.heap : ~q.heap[w].ready =>
              \E i \in DOMAIN q.txs : q.txs[i].op = "hydrate" /\ q.txs[i].win = w
        BY ONLY <2>1, <1>3, <1>5, <1>6 DEF WindowsSound
    <2>6. \A s \in Slots : Waits(q, s) => Cached(q, q.calls[s].msg.key, q.calls[s].win)
        BY ONLY <2>1, <1>2, <1>8, <1>9 DEF WindowsSound
    <2> QED
        BY ONLY <2>2, <2>3, <2>4, <2>5, <2>6 DEF WindowsSound
<1>12. ChainSound(q)
    <2>1. ChainSound(r)
        BY DEF TabSound
    <2>2. tx.op \notin {"read", "write"}
        BY <1>3
    <2>3. \A i \in DOMAIN q.txs : q.txs[i].op \in {"read", "write"} => i \in DOMAIN r.txs /\ q.txs[i] = r.txs[i]
        BY ONLY <1>6, <2>2
    <2>4. \A w \in DOMAIN r.heap : r.heap[w].ready =>
              w \in DOMAIN q.heap /\ q.heap[w].ready /\ q.heap[w].key = r.heap[w].key
        BY ONLY <1>5
    <2>5. \A s \in Slots : /\ Persists(q, s) <=> Persists(r, s)
                           /\ Persists(r, s) => q.calls[s].msg = r.calls[s].msg
        BY ONLY <1>2, <1>9
    <2>6. /\ \A i \in DOMAIN q.txs : q.txs[i].op \in {"read", "write"} =>
                \E j \in DOMAIN r.txs : /\ r.txs[j].op \in {"read", "write"}
                                        /\ r.txs[j].key = q.txs[i].key /\ r.txs[j].win = q.txs[i].win
          /\ \A i, j \in DOMAIN q.txs : q.txs[i].op \in {"read", "write"} /\ q.txs[j].op \in {"read", "write"} => i = j
          /\ (\E j \in DOMAIN r.txs : r.txs[j].op \in {"read", "write"}) =>
                \E i \in DOMAIN q.txs : q.txs[i].op \in {"read", "write"}
        BY ONLY <2>1, <2>3, <1>6 DEF ChainSound
    <2> QED
        BY <2>1, <2>4, <2>5, <2>6, <1>1, <1>2, ChainKeeps
<1>13. OrdersFit(q, opened)
    <2>1. OrdersFit(r, opened)
        BY DEF TabSound
    <2>2. Fits(<<>>, opened[k]) /\ Fits(store[k], opened[k])
        BY EmptyFits
    <2>3. \A w \in DOMAIN q.heap : Fits(q.heap[w].order, opened[q.heap[w].key])
        BY ONLY <2>1, <2>2, <1>5 DEF OrdersFit
    <2>4. \A i \in DOMAIN q.txs : Fits(q.txs[i].seen, opened[q.txs[i].key])
        BY ONLY <2>1, <2>2, <1>3, <1>6 DEF OrdersFit
    <2> QED
        BY ONLY <2>1, <2>3, <2>4, <1>2 DEF OrdersFit
<1>14. ReadsFresh(q, store)
    <2>1. ReadsFresh(r, store) /\ tx.op # "read"
        BY <1>3 DEF TabSound
    <2> QED
        BY ONLY <2>1, <1>6 DEF ReadsFresh
<1>15. WritesIt(q, promises)
    <2>1. WritesIt(r, promises) /\ ChainSound(r)
        BY DEF TabSound
    <2>2. \A i \in DOMAIN r.persistTail : Cached(r, r.persistTail[i].key, r.persistTail[i].win)
        BY ONLY <2>1 DEF ChainSound, PersistSound
    <2>3. \A i \in DOMAIN r.persistTail : q.heap[r.persistTail[i].win] = r.heap[r.persistTail[i].win]
        BY ONLY <2>2, <1>8
    <2>4. \A i \in DOMAIN r.persistTail : r.persistTail[i].key \in promises =>
              r.calls[r.persistTail[i].slot].msg.ctr \in ToSet(r.heap[r.persistTail[i].win].order)
        BY ONLY <2>1 DEF WritesIt
    <2>5. \A i \in DOMAIN r.persistTail : r.persistTail[i].key \in promises =>
              r.calls[r.persistTail[i].slot].msg.ctr \in ToSet(q.heap[r.persistTail[i].win].order)
        BY ONLY <2>3, <2>4
    <2> QED
        BY ONLY <2>5, <1>2 DEF WritesIt
<1>16. Session(q, known, gone, store, promises)
    <2>1. Session(r, known, gone, store, promises) /\ WindowsSound(r)
        BY DEF TabSound
    <2>2. \A i \in DOMAIN r.txs : r.txs[i].op = "hydrate" => r.txs[i].win # None
        BY <1>1, ChatNoneAssumption, TabFields
    <2>3. \A s \in Slots : r.calls[s] # None => r.calls[s].win # None
        BY <1>1, ChatNoneAssumption, TabFields
    <2>4. ASSUME NEW j \in Keys \ gone PROVE Steady(q, j)
        <3>1. Steady(r, j)
            BY <2>1 DEF Session
        <3>2. \A i \in DOMAIN q.txs : q.txs[i].key = j =>
                  q.txs[i].op # "delete" /\ (q.txs[i].op = "hydrate" => q.txs[i].win = q.hydrating[j])
            <4>1. CASE j = k
                <5>1. tx.op # "delete" /\ tx.win = q.hydrating[k]
                    BY <1>3, <1>7
                <5> QED
                    BY ONLY <4>1, <5>1, <3>1, <2>2, <1>2, <1>6 DEF Steady
            <4>2. CASE j # k
                BY ONLY <4>2, <3>1, <1>3, <1>6, <1>7, j \in Keys \ gone DEF Steady
            <4> QED
                BY <4>1, <4>2
        <3>3. \A s \in Slots : Waits(q, s) /\ q.calls[s].msg.key = j =>
                  q.calls[s].win = IF q.heap[q.calls[s].win].ready THEN q.mem[j] ELSE q.hydrating[j]
            <4> SUFFICES ASSUME NEW s \in Slots, Waits(q, s), q.calls[s].msg.key = j
                         PROVE  q.calls[s].win = IF q.heap[q.calls[s].win].ready THEN q.mem[j] ELSE q.hydrating[j]
                OBVIOUS
            <4>0. Waits(r, s) /\ r.calls[s].msg.key = j
                BY <1>2, <1>9
            <4>1. q.heap[r.calls[s].win] = r.heap[r.calls[s].win]
                BY ONLY <2>1, <1>8, <4>0, s \in Slots DEF WindowsSound
            <4>2. r.calls[s].win = IF r.heap[r.calls[s].win].ready THEN r.mem[j] ELSE r.hydrating[j]
                BY ONLY <3>1, <4>0, s \in Slots DEF Steady
            <4>3. j # k
                BY <4>0, <4>2, <2>3, <1>2 DEF Waits
            <4> QED
                BY ONLY <4>1, <4>2, <4>3, <1>2, <1>7, j \in Keys \ gone
        <3> QED
            BY ONLY <3>1, <3>2, <3>3, <1>2, <1>9 DEF Steady
    <2>5. ASSUME NEW j \in Keys \ gone PROVE StillKnown(q, j, known)
        BY <2>1, <1>2 DEF Session, StillKnown
    <2>6. ASSUME NEW j \in Keys \ gone, j \in promises PROVE Refuses(q, j, ToSet(store[j]))
        <3>1. Refuses(r, j, ToSet(store[j])) /\ tx.op # "write"
            BY <2>1, <2>6, <1>3 DEF Session
        <3> QED
            BY ONLY <3>1, <1>2, <1>6 DEF Refuses
    <2>7. ASSUME NEW j \in Keys \ gone, j \in promises, NEW m \in known, m.key = j
          PROVE  Remembers(q, j, m.ctr, ToSet(store[j]))
        <3>1. Remembers(r, j, m.ctr, ToSet(store[j]))
            BY <2>1, <2>7 DEF Session
        <3>2. q.mem[j] # None => m.ctr \in ToSet(q.heap[q.mem[j]].order)
            <4>1. r.mem[j] # None => q.heap[r.mem[j]] = r.heap[r.mem[j]]
                BY ONLY <2>1, <1>8, j \in Keys \ gone DEF WindowsSound
            <4> QED
                BY ONLY <3>1, <4>1, <1>2 DEF Remembers
        <3>3. \A i \in DOMAIN q.txs : q.txs[i].key = j /\ q.txs[i].op = "hydrate" => m.ctr \in ToSet(q.txs[i].seen)
            BY ONLY <3>1, <1>2, <1>3, <1>6 DEF Remembers
        <3> QED
            BY ONLY <3>1, <3>2, <3>3, <1>2, <1>9 DEF Remembers
    <2> QED
        BY <2>1, <2>4, <2>5, <2>6, <2>7 DEF Session
<1>17. Cached(q, k, n) /\ n = IF q.heap[n].ready THEN q.mem[k] ELSE q.hydrating[k]
    BY <1>5, <1>7 DEF Cached
<1> QED
    BY <1>10, <1>11, <1>12, <1>13, <1>14, <1>15, <1>16, <1>17 DEF TabSound

LEMMA HydrateSound ==
    ASSUME NEW r, NEW opened, NEW known, NEW gone, NEW promises, NEW k \in Keys,
           TabSound(r, opened, store, known, gone, promises),
           store \in [Keys -> Seq(Ctrs)], Fits(store[k], opened[k])
    PROVE  LET q == hydrate(r, k)
               p == promised(r, k)
           IN  /\ TabSound(q, opened, store, known, gone, promises)
               /\ p \in Nat /\ Cached(q, k, p)
               /\ p = IF q.heap[p].ready THEN q.mem[k] ELSE q.hydrating[k]
               /\ q.calls = r.calls /\ q.rooms = r.rooms /\ q.replayWindows = r.replayWindows
               /\ q.keyCache = r.keyCache /\ q.gen = r.gen /\ q.overlapped = r.overlapped
               /\ q.persistTail = r.persistTail
<1>1. r \in Tab /\ WindowsSound(r)
    BY DEF TabSound
<1>2. CASE /\ hydrate(r, k) = r /\ Cached(r, k, promised(r, k)) /\ promised(r, k) \in Nat
           /\ promised(r, k) = IF r.heap[promised(r, k)].ready THEN r.mem[k] ELSE r.hydrating[k]
    BY <1>2
<1>3. CASE /\ hydrate(r, k) \in Tab /\ promised(r, k) \in Nat
           /\ \E tx \in Transaction : NewRead(r, hydrate(r, k), k, promised(r, k), tx)
    <2>1. PICK tx \in Transaction : NewRead(r, hydrate(r, k), k, promised(r, k), tx)
        BY <1>3
    <2>2. /\ TabSound(hydrate(r, k), opened, store, known, gone, promises)
          /\ Cached(hydrate(r, k), k, promised(r, k))
          /\ promised(r, k) = IF hydrate(r, k).heap[promised(r, k)].ready THEN hydrate(r, k).mem[k]
                              ELSE hydrate(r, k).hydrating[k]
        BY <1>3, <2>1, NewReadSound
    <2> QED
        BY <1>3, <2>1, <2>2 DEF NewRead
<1> QED
    BY <1>1, <1>2, <1>3, HydrateFields

(***************************************************************************)
(* A call, not one that waits for a persist, takes a step or returns.      *)
(***************************************************************************)
CallSound(r, c, opened, known, gone, promises) ==
    /\ c.pc # "persist"
    /\ c.userKey < c.began => c.msg.key \in r.overlapped
    /\ c.pc = "derive" /\ c.userKey < r.gen[c.msg.key] => c.msg.key \in r.overlapped
    /\ c.rw => r.replayWindows[c.msg.key] # None
    /\ c.pc \in {"check", "accept"} => Cached(r, c.msg.key, c.win)
    /\ c.pc = "accept" => c.msg.ctr \in opened[c.msg.key]
    /\ c.msg.key \notin gone =>
          /\ c.pc \in {"check", "accept"} =>
                c.win = IF r.heap[c.win].ready THEN r.mem[c.msg.key] ELSE r.hydrating[c.msg.key]
          /\ c.known => c.msg \in known
          /\ c.known /\ c.msg.key \in promises => c.pc \notin {"decrypt", "accept"}

LEMMA SetCallSound ==
    ASSUME NEW r, NEW opened, NEW stored, NEW known, NEW gone, NEW promises,
           TabSound(r, opened, stored, known, gone, promises),
           NEW s \in Slots, ~Persists(r, s), NEW c \in Unseal \cup {None},
           c # None => CallSound(r, c, opened, known, gone, promises)
    PROVE  LET q == [r EXCEPT !.calls[s] = c]
           IN  /\ TabSound(q, opened, stored, known, gone, promises)
               /\ q.persistTail = r.persistTail
<1> DEFINE q == [r EXCEPT !.calls[s] = c]
<1>1. r \in Tab
    BY DEF TabSound
<1>2. q \in Tab
    BY <1>1 DEF Tab
<1>3. /\ q.calls = [r.calls EXCEPT ![s] = c]
      /\ q.mem = r.mem /\ q.hydrating = r.hydrating /\ q.heap = r.heap /\ q.txs = r.txs
      /\ q.persistTail = r.persistTail /\ q.persisting = r.persisting /\ q.rooms = r.rooms
      /\ q.replayWindows = r.replayWindows
      /\ q.keyCache = r.keyCache /\ q.gen = r.gen /\ q.overlapped = r.overlapped
    BY <1>1 DEF Tab
<1> HIDE DEF q
<1>4. q.calls[s] = c /\ \A u \in Slots : u # s => q.calls[u] = r.calls[u]
    BY <1>1, <1>3, TabFields
<1>5. /\ ~Persists(q, s)
      /\ \A u \in Slots : u # s => (Persists(q, u) <=> Persists(r, u)) /\ (Waits(q, u) <=> Waits(r, u))
      /\ \A u \in Slots : Persists(r, u) => u # s /\ q.calls[u] = r.calls[u]
      /\ \A u \in Slots : Persists(q, u) <=> Persists(r, u)
      /\ \A k, w : Cached(q, k, w) <=> Cached(r, k, w)
    BY <1>3, <1>4 DEF Persists, Waits, CallSound, Cached
<1>6. \A k : PersistsOf(q, k) = PersistsOf(r, k)
    BY <1>5 DEF PersistsOf
<1>7. RoomsSound(q)
    <2>1. RoomsSound(r)
        BY DEF TabSound
    <2> QED
        BY <2>1, <1>3, <1>4 DEF RoomsSound, RoomsHeld, CallSound
<1>8. KeysSound(q)
    <2>1. KeysSound(r)
        BY DEF TabSound
    <2>2. \A u \in Slots : q.calls[u] # None =>
          /\ q.calls[u].userKey < q.calls[u].began => q.calls[u].msg.key \in r.overlapped
          /\ q.calls[u].pc = "derive" /\ q.calls[u].userKey < r.gen[q.calls[u].msg.key] =>
                q.calls[u].msg.key \in r.overlapped
        BY <2>1, <1>4 DEF KeysSound, CallSound
    <2> QED
        BY <2>1, <2>2, <1>3 DEF KeysSound
<1>9. WindowsSound(q)
    <2>1. WindowsSound(r)
        BY DEF TabSound
    <2>2. \A u \in Slots : Waits(q, u) => Cached(q, q.calls[u].msg.key, q.calls[u].win)
        <3> SUFFICES ASSUME NEW u \in Slots, Waits(q, u)
                     PROVE  Cached(q, q.calls[u].msg.key, q.calls[u].win)
            OBVIOUS
        <3>1. CASE u = s
            BY <3>1, <1>4, <1>5 DEF Waits, CallSound
        <3>2. CASE u # s
            BY <3>2, <2>1, <1>4, <1>5 DEF WindowsSound
        <3> QED
            BY <3>1, <3>2
    <2> QED
        BY ONLY <2>1, <2>2, <1>3, <1>5 DEF WindowsSound
<1>10. ChainSound(q)
    <2>1. ChainSound(r)
        BY DEF TabSound
    <2>2. \A u \in Slots : /\ Persists(q, u) <=> Persists(r, u)
                           /\ Persists(r, u) => q.calls[u].msg = r.calls[u].msg
        BY <1>5
    <2>3. \A w \in DOMAIN r.heap : r.heap[w].ready =>
              w \in DOMAIN q.heap /\ q.heap[w].ready /\ q.heap[w].key = r.heap[w].key
        BY <1>3
    <2>4. /\ \A i \in DOMAIN q.txs : q.txs[i].op \in {"read", "write"} =>
                \E j \in DOMAIN r.txs : /\ r.txs[j].op \in {"read", "write"}
                                        /\ r.txs[j].key = q.txs[i].key /\ r.txs[j].win = q.txs[i].win
          /\ \A i, j \in DOMAIN q.txs : q.txs[i].op \in {"read", "write"} /\ q.txs[j].op \in {"read", "write"} => i = j
          /\ (\E j \in DOMAIN r.txs : r.txs[j].op \in {"read", "write"}) =>
                \E i \in DOMAIN q.txs : q.txs[i].op \in {"read", "write"}
        BY ONLY <2>1, <1>3 DEF ChainSound
    <2> QED
        BY ONLY <2>1, <2>2, <2>3, <2>4, <1>1, <1>3, ChainKeeps
<1>11. OrdersFit(q, opened)
    <2>1. OrdersFit(r, opened)
        BY DEF TabSound
    <2>2. \A u \in Slots : q.calls[u] # None /\ q.calls[u].pc \in {"accept", "persist"} =>
              q.calls[u].msg.ctr \in opened[q.calls[u].msg.key]
        BY <2>1, <1>4 DEF OrdersFit, CallSound
    <2> QED
        BY ONLY <2>1, <2>2, <1>3 DEF OrdersFit
<1>12. ReadsFresh(q, stored)
    BY <1>3 DEF TabSound, ReadsFresh
<1>13. WritesIt(q, promises)
    <2>1. WritesIt(r, promises) /\ ChainSound(r)
        BY DEF TabSound
    <2>2. \A i \in DOMAIN r.persistTail : q.calls[r.persistTail[i].slot] = r.calls[r.persistTail[i].slot]
        BY <2>1, <1>1, <1>5, TabFields DEF ChainSound, PersistSound
    <2> QED
        BY ONLY <2>1, <2>2, <1>3 DEF WritesIt
<1>14. Session(q, known, gone, stored, promises)
    <2>1. Session(r, known, gone, stored, promises) /\ ChainSound(r)
        BY DEF TabSound
    <2>2. ASSUME NEW k \in Keys \ gone PROVE Steady(q, k)
        <3>1. Steady(r, k)
            BY <2>1 DEF Session
        <3>2. \A u \in Slots : Waits(q, u) /\ q.calls[u].msg.key = k =>
                  q.calls[u].win = IF q.heap[q.calls[u].win].ready THEN q.mem[k] ELSE q.hydrating[k]
            <4> SUFFICES ASSUME NEW u \in Slots, Waits(q, u), q.calls[u].msg.key = k
                         PROVE  q.calls[u].win = IF r.heap[q.calls[u].win].ready THEN r.mem[k] ELSE r.hydrating[k]
                BY <1>3
            <4>1. CASE u = s
                BY <4>1, <1>4 DEF Waits, CallSound
            <4>2. CASE u # s
                BY <4>2, <3>1, <1>4, <1>5 DEF Steady
            <4> QED
                BY <4>1, <4>2
        <3> QED
            BY ONLY <3>1, <3>2, <1>3, <1>6 DEF Steady
    <2>3. ASSUME NEW k \in Keys \ gone PROVE StillKnown(q, k, known)
        BY <2>1, <1>4 DEF Session, StillKnown, CallSound
    <2>4. ASSUME NEW k \in Keys \ gone, k \in promises PROVE Refuses(q, k, ToSet(stored[k]))
        <3>1. Refuses(r, k, ToSet(stored[k]))
            BY <2>1, <2>4 DEF Session
        <3>2. \A u \in Slots : q.calls[u] # None /\ q.calls[u].msg.key = k /\ q.calls[u].known =>
                  q.calls[u].pc \notin {"decrypt", "accept", "persist"}
            BY <2>4, <3>1, <1>4 DEF Refuses, CallSound
        <3>3. \A i \in DOMAIN r.txs : r.txs[i].op = "write" =>
                  q.calls[r.persistTail[1].slot] = r.calls[r.persistTail[1].slot]
            <4>1. \A i \in DOMAIN r.txs : r.txs[i].op = "write" => r.persistTail # <<>>
                BY <2>1 DEF ChainSound, Started
            <4>2. r.persistTail # <<>> => 1 \in DOMAIN r.persistTail
                BY <1>1 DEF Tab
            <4>3. r.persistTail # <<>> => Persists(r, r.persistTail[1].slot) /\ r.persistTail[1].slot \in Slots
                BY <4>2, <2>1, <1>1, TabFields DEF ChainSound, PersistSound
            <4> QED
                BY <4>1, <4>3, <1>5
        <3> QED
            BY ONLY <3>1, <3>2, <3>3, <1>3 DEF Refuses
    <2>5. ASSUME NEW k \in Keys \ gone, k \in promises, NEW m \in known, m.key = k
          PROVE  Remembers(q, k, m.ctr, ToSet(stored[k]))
        <3>1. Remembers(r, k, m.ctr, ToSet(stored[k]))
            BY <2>1, <2>5 DEF Session
        <3>2. \A u \in PersistsOf(r, k) : q.calls[u] = r.calls[u]
            BY <1>5 DEF PersistsOf
        <3> QED
            BY ONLY <3>1, <3>2, <1>3, <1>6 DEF Remembers
    <2> QED
        BY <2>1, <2>2, <2>3, <2>4, <2>5 DEF Session
<1> QED
    BY <1>2, <1>3, <1>7, <1>8, <1>9, <1>10, <1>11, <1>12, <1>13, <1>14 DEF TabSound, q

(***************************************************************************)
(* accept records a counter in its window and adds a persist to the chain. *)
(***************************************************************************)
\* The window at w has the counters order; the others are as they were.
Reordered(r, q, w, order) ==
    /\ DOMAIN q.heap = DOMAIN r.heap
    /\ \A v \in DOMAIN r.heap : q.heap[v].key = r.heap[v].key /\ q.heap[v].ready = r.heap[v].ready
    /\ \A v \in DOMAIN r.heap : q.heap[v].order = IF v = w THEN order ELSE r.heap[v].order

LEMMA ReorderedHeap ==
    ASSUME NEW r \in Tab, NEW w, NEW order \in Seq(Ctrs), NEW q,
           q.heap = [r.heap EXCEPT ![w].order = order]
    PROVE  [r.heap EXCEPT ![w].order = order] \in Seq(MemWindow) /\ Reordered(r, q, w, order)
<1> DEFINE h == [r.heap EXCEPT ![w].order = order]
<1>1. r.heap \in Seq(MemWindow) /\ \A v \in DOMAIN r.heap : r.heap[v] \in MemWindow
    BY TabFields
<1>2. DOMAIN h = DOMAIN r.heap /\ \A v \in DOMAIN r.heap : v # w => h[v] = r.heap[v]
    BY <1>1
<1>3. w \in DOMAIN r.heap => h[w] = [r.heap[w] EXCEPT !.order = order]
    BY <1>1
<1>4. \A x \in MemWindow : /\ [x EXCEPT !.order = order] \in MemWindow
                           /\ [x EXCEPT !.order = order].key = x.key
                           /\ [x EXCEPT !.order = order].ready = x.ready
                           /\ [x EXCEPT !.order = order].order = order
    BY DEF MemWindow
<1>5. \A v \in DOMAIN h : h[v] \in MemWindow
    BY <1>1, <1>2, <1>3, <1>4
<1>6. h \in Seq(MemWindow)
    <2>0. h = [v \in DOMAIN h |-> h[v]]
        OBVIOUS
    <2> HIDE DEF h
    <2>1. DOMAIN h = 1..Len(r.heap) /\ Len(r.heap) \in Nat /\ h = [v \in DOMAIN h |-> h[v]]
        BY <1>1, <1>2, <2>0
    <2>2. h \in [1..Len(r.heap) -> MemWindow]
        BY <2>1, <1>5
    <2> QED
        BY <2>1, <2>2
<1> HIDE DEF h
<1>7. q.heap = h
    BY DEF h
<1>8. Reordered(r, q, w, order)
    <2>1. \A v \in DOMAIN r.heap : /\ h[v].key = r.heap[v].key /\ h[v].ready = r.heap[v].ready
                                   /\ h[v].order = IF v = w THEN order ELSE r.heap[v].order
        <3> SUFFICES ASSUME NEW v \in DOMAIN r.heap
                     PROVE  /\ h[v].key = r.heap[v].key /\ h[v].ready = r.heap[v].ready
                            /\ h[v].order = IF v = w THEN order ELSE r.heap[v].order
            OBVIOUS
        <3>1. CASE v = w
            <4>1. PICK x \in MemWindow : x = r.heap[v]
                BY <1>1
            <4>2. h[v] = [x EXCEPT !.order = order]
                BY <3>1, <4>1, <1>3
            <4>3. h[v].key = x.key /\ h[v].ready = x.ready /\ h[v].order = order
                BY ONLY <4>1, <4>2, <1>4
            <4> QED
                BY ONLY <3>1, <4>1, <4>3
        <3>2. CASE v # w
            BY <3>2, <1>2
        <3> QED
            BY <3>1, <3>2
    <2> QED
        BY ONLY <2>1, <1>2, <1>7 DEF Reordered
<1> QED
    BY <1>6, <1>8 DEF h

\* What accept does to a tab, for the call c in slot s and the room k.
Accepts(r, q, s, c, k) ==
    /\ c = r.calls[s] /\ c # None /\ c.pc = "accept" /\ c.msg.key = k
    /\ r.heap[c.win].ready /\ c.msg.ctr \notin ToSet(r.heap[c.win].order)
    /\ q = [r EXCEPT !.persisting[k] = @ + 1,
                     !.heap[c.win].order = trim(@, c.msg.ctr),
                     !.persistTail = Append(@, [key |-> k, win |-> c.win, slot |-> s, started |-> FALSE]),
                     !.calls[s].pc = "persist"]

LEMMA AcceptFields ==
    ASSUME NEW r \in Tab, NEW q, NEW s \in Slots, NEW c, NEW k, Accepts(r, q, s, c, k),
           Cached(r, k, c.win),
           trim(r.heap[c.win].order, c.msg.ctr) \in Seq(Ctrs)
    PROVE  LET p == [key |-> k, win |-> c.win, slot |-> s, started |-> FALSE] IN
           /\ q \in Tab /\ p \in Persist
           /\ q.persisting = [r.persisting EXCEPT ![k] = r.persisting[k] + 1]
           /\ Reordered(r, q, c.win, trim(r.heap[c.win].order, c.msg.ctr))
           /\ q.persistTail = Append(r.persistTail, p)
           /\ q.calls[s] = [c EXCEPT !.pc = "persist"] /\ \A u \in Slots : u # s => q.calls[u] = r.calls[u]
           /\ q.mem = r.mem /\ q.hydrating = r.hydrating /\ q.txs = r.txs /\ q.rooms = r.rooms
           /\ q.replayWindows = r.replayWindows
           /\ q.keyCache = r.keyCache /\ q.gen = r.gen /\ q.overlapped = r.overlapped
<1> DEFINE p == [key |-> k, win |-> c.win, slot |-> s, started |-> FALSE]
           order == trim(r.heap[c.win].order, c.msg.ctr)
           d == [c EXCEPT !.pc = "persist"]
<1>1. c \in Unseal /\ c = r.calls[s] /\ k \in Keys /\ c.win \in Nat
    BY TabFields DEF Accepts
<1>2. p \in Persist
    BY <1>1 DEF Persist
<1>3. d \in Unseal
    BY <1>1 DEF Unseal
<1>4. q = [r EXCEPT !.persisting = [r.persisting EXCEPT ![k] = r.persisting[k] + 1],
                    !.heap = [r.heap EXCEPT ![c.win].order = order],
                    !.persistTail = Append(r.persistTail, p),
                    !.calls = [r.calls EXCEPT ![s] = d]]
    <2>1. /\ [r.heap EXCEPT ![c.win].order = trim(@, c.msg.ctr)] = [r.heap EXCEPT ![c.win].order = order]
          /\ [r.calls EXCEPT ![s].pc = "persist"] = [r.calls EXCEPT ![s] = d]
          /\ [r.persisting EXCEPT ![k] = @ + 1] = [r.persisting EXCEPT ![k] = r.persisting[k] + 1]
        BY <1>1, TabFields DEF Cached
    <2>2. q = [r EXCEPT !.persisting = [r.persisting EXCEPT ![k] = @ + 1],
                        !.heap = [r.heap EXCEPT ![c.win].order = trim(@, c.msg.ctr)],
                        !.persistTail = Append(r.persistTail, p),
                        !.calls = [r.calls EXCEPT ![s].pc = "persist"]]
        BY DEF Accepts, Tab
    <2> QED
        BY ONLY <2>1, <2>2
<1> HIDE DEF p, order, d
<1>5. /\ [r.persisting EXCEPT ![k] = r.persisting[k] + 1] \in [Keys -> Nat]
      /\ [r.calls EXCEPT ![s] = d] \in [Slots -> Unseal \cup {None}]
      /\ Append(r.persistTail, p) \in Seq(Persist)
    BY <1>1, <1>2, <1>3, TabFields
<1>6. /\ q.heap = [r.heap EXCEPT ![c.win].order = order]
      /\ q.persisting = [r.persisting EXCEPT ![k] = r.persisting[k] + 1]
      /\ q.persistTail = Append(r.persistTail, p)
      /\ q.calls = [r.calls EXCEPT ![s] = d]
      /\ q.mem = r.mem /\ q.hydrating = r.hydrating /\ q.txs = r.txs /\ q.rooms = r.rooms
      /\ q.replayWindows = r.replayWindows
      /\ q.keyCache = r.keyCache /\ q.gen = r.gen /\ q.overlapped = r.overlapped
    BY <1>4 DEF Tab
<1>7. [r.heap EXCEPT ![c.win].order = order] \in Seq(MemWindow) /\ Reordered(r, q, c.win, order)
    <2>1. order \in Seq(Ctrs)
        BY DEF order
    <2> QED
        BY ONLY <2>1, <1>6, r \in Tab, ReorderedHeap
<1>8. q \in Tab
    BY ONLY <1>4, <1>5, <1>7, r \in Tab DEF Tab
<1>9. q.calls[s] = d /\ \A u \in Slots : u # s => q.calls[u] = r.calls[u]
    BY <1>6, TabFields
<1> QED
    BY ONLY <1>2, <1>6, <1>7, <1>8, <1>9 DEF p, order, d

LEMMA AcceptSound ==
    ASSUME NEW r, NEW q, NEW opened, NEW stored, NEW known, NEW gone, NEW promises,
           NEW s \in Slots, NEW c, NEW k,
           TabSound(r, opened, stored, known, gone, promises), Accepts(r, q, s, c, k),
           IsFiniteSet(opened[k]), k \in promises => Cardinality(opened[k]) <= Window
    PROVE  /\ TabSound(q, opened, stored, IF k \in gone THEN known ELSE known \cup {c.msg}, gone, promises)
           /\ \A j : Started(q, j) <=> Started(r, j)
<1> DEFINE p == [key |-> k, win |-> c.win, slot |-> s, started |-> FALSE]
           order == trim(r.heap[c.win].order, c.msg.ctr)
           known2 == IF k \in gone THEN known ELSE known \cup {c.msg}
           n == Len(r.persistTail) + 1
<1>1. /\ r \in Tab /\ c \in Unseal /\ c = r.calls[s] /\ c # None /\ c.pc = "accept" /\ c.msg.key = k /\ k \in Keys
      /\ c.msg.ctr \in Ctrs /\ c.win \in Nat
    BY TabFields DEF TabSound, Accepts
<1>2. Cached(r, k, c.win) /\ r.heap[c.win].ready
    <2>1. Waits(r, s)
        BY ONLY <1>1 DEF Waits
    <2>2. WindowsSound(r)
        BY DEF TabSound
    <2>3. Cached(r, r.calls[s].msg.key, r.calls[s].win)
        BY ONLY <2>1, <2>2, s \in Slots DEF WindowsSound
    <2>4. r.heap[c.win].ready
        BY DEF Accepts
    <2> QED
        BY ONLY <2>3, <2>4, <1>1
<1>3. c.msg.ctr \in opened[k] /\ Fits(r.heap[c.win].order, opened[k]) /\ r.heap[c.win].order \in Seq(Ctrs)
    BY <1>1, <1>2, TabFields DEF TabSound, OrdersFit, Cached
<1>4. /\ order \in Seq(Ctrs) /\ Fits(order, opened[k])
      /\ k \in promises => \A x : x \in ToSet(r.heap[c.win].order) \/ x = c.msg.ctr => x \in ToSet(order)
    BY <1>1, <1>3, TrimFacts DEF Accepts
<1>5. /\ q \in Tab /\ p \in Persist
      /\ q.persisting = [r.persisting EXCEPT ![k] = r.persisting[k] + 1]
      /\ Reordered(r, q, c.win, order)
      /\ q.persistTail = Append(r.persistTail, p)
      /\ q.calls[s] = [c EXCEPT !.pc = "persist"] /\ \A u \in Slots : u # s => q.calls[u] = r.calls[u]
      /\ q.mem = r.mem /\ q.hydrating = r.hydrating /\ q.txs = r.txs /\ q.rooms = r.rooms
      /\ q.replayWindows = r.replayWindows
      /\ q.keyCache = r.keyCache /\ q.gen = r.gen /\ q.overlapped = r.overlapped
    <2>1. r \in Tab /\ Accepts(r, q, s, c, k) /\ Cached(r, k, c.win)
          /\ trim(r.heap[c.win].order, c.msg.ctr) \in Seq(Ctrs)
        BY <1>1, <1>2, <1>4
    <2> QED
        BY ONLY <2>1, s \in Slots, AcceptFields
<1>6. p.key = k /\ p.win = c.win /\ p.slot = s /\ p.started = FALSE
    OBVIOUS
<1> HIDE DEF p, order
<1>7. /\ q.calls[s] # None /\ q.calls[s].pc = "persist" /\ q.calls[s].msg = c.msg /\ q.calls[s].win = c.win
      /\ q.calls[s].userKey = c.userKey /\ q.calls[s].began = c.began
      /\ q.calls[s].known = c.known /\ q.calls[s].rw = c.rw
    <2>1. [c EXCEPT !.pc = "persist"] \in Unseal
        BY <1>1 DEF Unseal
    <2>2. [c EXCEPT !.pc = "persist"] # None
        BY <2>1, ChatNoneAssumption
    <2> QED
        BY <1>1, <1>5, <2>2 DEF Unseal
\* The calls are the same but for the step of this one.
<1>0. \A u \in Slots : q.calls[u] # None =>
          /\ r.calls[u] # None /\ q.calls[u].msg = r.calls[u].msg /\ q.calls[u].win = r.calls[u].win
          /\ q.calls[u].userKey = r.calls[u].userKey /\ q.calls[u].began = r.calls[u].began
          /\ q.calls[u].known = r.calls[u].known /\ q.calls[u].rw = r.calls[u].rw
          /\ q.calls[u].pc = r.calls[u].pc \/ (r.calls[u].pc = "accept" /\ q.calls[u].pc = "persist")
    <2> SUFFICES ASSUME NEW u \in Slots, q.calls[u] # None
                 PROVE  /\ r.calls[u] # None /\ q.calls[u].msg = r.calls[u].msg /\ q.calls[u].win = r.calls[u].win
                        /\ q.calls[u].userKey = r.calls[u].userKey /\ q.calls[u].began = r.calls[u].began
                        /\ q.calls[u].known = r.calls[u].known /\ q.calls[u].rw = r.calls[u].rw
                        /\ q.calls[u].pc = r.calls[u].pc \/ (r.calls[u].pc = "accept" /\ q.calls[u].pc = "persist")
        OBVIOUS
    <2>1. CASE u = s
        BY ONLY <2>1, <1>1, <1>7
    <2>2. CASE u # s
        BY ONLY <2>2, <1>5, u \in Slots, q.calls[u] # None
    <2> QED
        BY <2>1, <2>2
<1>8. /\ n \in DOMAIN q.persistTail /\ q.persistTail[n] = p
      /\ \A i \in DOMAIN r.persistTail : i \in DOMAIN q.persistTail /\ q.persistTail[i] = r.persistTail[i] /\ i # n
      /\ \A i \in DOMAIN q.persistTail : i \in DOMAIN r.persistTail \/ i = n
      /\ q.persistTail # <<>> /\ (r.persistTail = <<>> => n = 1)
      /\ r.persistTail # <<>> => 1 \in DOMAIN r.persistTail
    <2>1. r.persistTail \in Seq(Persist)
        BY <1>1, TabFields
    <2> QED
        BY <1>5, <2>1, AppendFacts
<1> HIDE DEF n
<1>9. /\ \A j, w : Cached(q, j, w) <=> Cached(r, j, w)
      /\ \A w \in DOMAIN r.heap : q.heap[w].ready = r.heap[w].ready /\ q.heap[w].key = r.heap[w].key
      /\ DOMAIN q.heap = DOMAIN r.heap
    BY <1>5 DEF Cached, Reordered
<1>10. \A w \in DOMAIN r.heap :
          \/ q.heap[w].order = r.heap[w].order
          \/ w = c.win /\ q.heap[w].order = order /\ r.heap[w].key = k
    BY <1>2, <1>5 DEF Reordered, Cached
<1>11. \A j : Started(q, j) <=> Started(r, j)
    BY <1>6, <1>8 DEF Started
<1>12. /\ ~Persists(r, s) /\ Persists(q, s) /\ ~Waits(q, s)
       /\ \A u \in Slots : u # s => (Persists(q, u) <=> Persists(r, u)) /\ (Waits(q, u) <=> Waits(r, u))
       /\ \A u \in Slots : Persists(r, u) => u # s /\ q.calls[u] = r.calls[u]
    BY <1>1, <1>5, <1>7 DEF Persists, Waits
<1>13. RoomsSound(q)
    <2>1. RoomsSound(r)
        BY DEF TabSound
    <2> QED
        BY ONLY <2>1, <1>0, <1>5 DEF RoomsSound, RoomsHeld
<1>14. KeysSound(q)
    <2>1. KeysSound(r)
        BY DEF TabSound
    <2>2. \A u \in Slots : q.calls[u] # None =>
          /\ q.calls[u].userKey < q.calls[u].began => q.calls[u].msg.key \in r.overlapped
          /\ q.calls[u].pc = "derive" /\ q.calls[u].userKey < r.gen[q.calls[u].msg.key] =>
                q.calls[u].msg.key \in r.overlapped
        BY ONLY <2>1, <1>0 DEF KeysSound
    <2> QED
        BY <2>1, <2>2, <1>5 DEF KeysSound
<1>15. WindowsSound(q)
    <2>1. WindowsSound(r)
        BY DEF TabSound
    <2>2. \A u \in Slots : Waits(q, u) => Cached(q, q.calls[u].msg.key, q.calls[u].win)
        BY <2>1, <1>5, <1>9, <1>12 DEF WindowsSound
    <2>3. /\ \A j \in Keys : r.mem[j] # None => Cached(q, j, r.mem[j]) /\ q.heap[r.mem[j]].ready
          /\ \A j \in Keys : r.hydrating[j] # None =>
                Cached(q, j, r.hydrating[j]) /\ ~q.heap[r.hydrating[j]].ready /\ r.mem[j] = None
          /\ \A i \in DOMAIN r.txs : r.txs[i].op = "hydrate" =>
                Cached(q, r.txs[i].key, r.txs[i].win) /\ ~q.heap[r.txs[i].win].ready
          /\ \A w \in DOMAIN q.heap : ~q.heap[w].ready =>
                \E i \in DOMAIN r.txs : r.txs[i].op = "hydrate" /\ r.txs[i].win = w
        BY ONLY <2>1, <1>9 DEF WindowsSound, Cached
    <2> QED
        BY ONLY <2>1, <2>2, <2>3, <1>5 DEF WindowsSound
<1>16. ChainSound(q)
    <2>1. ChainSound(r)
        BY DEF TabSound
    <2>2. \A i \in DOMAIN r.persistTail : PersistSound(q, r.persistTail[i]) /\ r.persistTail[i].slot # s
        <3> SUFFICES ASSUME NEW i \in DOMAIN r.persistTail
                     PROVE  PersistSound(q, r.persistTail[i]) /\ r.persistTail[i].slot # s
            OBVIOUS
        <3> DEFINE e == r.persistTail[i]
        <3>1. PersistSound(r, e) /\ e.slot \in Slots
            BY <2>1, <1>1, TabFields DEF ChainSound
        <3> HIDE DEF e
        <3>2. PersistSound(q, e) /\ e.slot # s
            BY <3>1, <1>9, <1>12 DEF PersistSound, Persists, Cached
        <3> QED
            BY <3>2 DEF e
    <2>3. PersistSound(q, p)
        BY <1>2, <1>1, <1>6, <1>7, <1>9, <1>12 DEF PersistSound, Cached
    <2>4. \A i \in DOMAIN q.persistTail :
              /\ q.persistTail[i].started => i = 1
              /\ PersistSound(q, q.persistTail[i])
              /\ \A j \in DOMAIN q.persistTail : q.persistTail[j].slot = q.persistTail[i].slot => i = j
        <3>1. \A i \in DOMAIN r.persistTail :
                  /\ r.persistTail[i].started => i = 1
                  /\ \A j \in DOMAIN r.persistTail : r.persistTail[j].slot = r.persistTail[i].slot => i = j
            BY ONLY <2>1 DEF ChainSound
        <3> QED
            BY ONLY <2>2, <2>3, <3>1, <1>6, <1>8
    <2>5. \A u \in Slots : Persists(q, u) => \E i \in DOMAIN q.persistTail : q.persistTail[i].slot = u
        BY ONLY <2>1, <1>6, <1>8, <1>12 DEF ChainSound
    <2>6. \A i \in DOMAIN r.txs : r.txs[i].op \in {"read", "write"} =>
              Started(q, r.txs[i].key) /\ r.txs[i].win = q.persistTail[1].win
        BY ONLY <2>1, <1>8, <1>11 DEF ChainSound, Started
    <2> QED
        BY ONLY <2>1, <2>4, <2>5, <2>6, <1>5, <1>11 DEF ChainSound
<1>17. OrdersFit(q, opened)
    <2>1. OrdersFit(r, opened)
        BY DEF TabSound
    <2>2. \A w \in DOMAIN q.heap : Fits(q.heap[w].order, opened[q.heap[w].key])
        BY <2>1, <1>4, <1>9, <1>10 DEF OrdersFit
    <2>3. \A u \in Slots : q.calls[u] # None /\ q.calls[u].pc \in {"accept", "persist"} =>
              q.calls[u].msg.ctr \in opened[q.calls[u].msg.key]
        BY ONLY <2>1, <1>0 DEF OrdersFit
    <2> QED
        BY ONLY <2>1, <2>2, <2>3, <1>5 DEF OrdersFit
<1>18. ReadsFresh(q, stored)
    BY <1>5 DEF TabSound, ReadsFresh
\* Windows only grow.
<1>19. \A w \in DOMAIN r.heap : r.heap[w].key \in promises => ToSet(r.heap[w].order) \subseteq ToSet(q.heap[w].order)
    BY <1>4, <1>10
<1>20. WritesIt(q, promises)
    <2>1. WritesIt(r, promises) /\ ChainSound(r)
        BY DEF TabSound
    <2>2. ASSUME NEW i \in DOMAIN r.persistTail, r.persistTail[i].key \in promises
          PROVE  q.calls[r.persistTail[i].slot].msg.ctr \in ToSet(q.heap[r.persistTail[i].win].order)
        <3> DEFINE e == r.persistTail[i]
        <3>1. /\ PersistSound(r, e) /\ e.slot \in Slots /\ e.key \in promises
              /\ r.calls[e.slot].msg.ctr \in ToSet(r.heap[e.win].order)
            BY <2>1, <2>2, <1>1, TabFields DEF ChainSound, WritesIt
        <3> HIDE DEF e
        <3>2. q.calls[e.slot] = r.calls[e.slot] /\ e.win \in DOMAIN r.heap /\ r.heap[e.win].key \in promises
            BY <3>1, <1>12 DEF PersistSound, Cached
        <3> QED
            BY <3>1, <3>2, <1>19 DEF e
    <2>3. k \in promises => q.calls[s].msg.ctr \in ToSet(q.heap[c.win].order)
        <3>1. q.heap[c.win].order = order
            BY <1>2, <1>5 DEF Reordered, Cached
        <3> QED
            BY <3>1, <1>4, <1>7
    <2> QED
        BY ONLY <2>2, <2>3, <1>6, <1>8 DEF WritesIt
<1>21. /\ PersistsOf(q, k) = PersistsOf(r, k) \cup {s} /\ s \notin PersistsOf(r, k)
       /\ \A j : j # k => PersistsOf(q, j) = PersistsOf(r, j)
       /\ \A j : \A u \in PersistsOf(r, j) : u \in PersistsOf(q, j) /\ q.calls[u] = r.calls[u]
    BY <1>1, <1>7, <1>12 DEF PersistsOf
<1>22. Session(q, known2, gone, stored, promises)
    <2>1. Session(r, known, gone, stored, promises) /\ WindowsSound(r) /\ ChainSound(r)
        BY DEF TabSound
    <2>2. ASSUME NEW j \in Keys \ gone PROVE Steady(q, j)
        <3>1. Steady(r, j)
            BY <2>1 DEF Session
        <3>2. \A u \in Slots : Waits(q, u) /\ q.calls[u].msg.key = j =>
                  q.calls[u].win = IF q.heap[q.calls[u].win].ready THEN q.mem[j] ELSE q.hydrating[j]
            <4> SUFFICES ASSUME NEW u \in Slots, Waits(q, u), q.calls[u].msg.key = j
                         PROVE  q.calls[u].win = IF q.heap[q.calls[u].win].ready THEN q.mem[j] ELSE q.hydrating[j]
                OBVIOUS
            <4>1. u # s /\ Waits(r, u) /\ q.calls[u] = r.calls[u]
                BY <1>5, <1>12
            <4>2. r.calls[u].win \in DOMAIN r.heap
                BY <2>1, <4>1 DEF WindowsSound, Cached
            <4>3. r.calls[u].win = IF r.heap[r.calls[u].win].ready THEN r.mem[j] ELSE r.hydrating[j]
                BY <3>1, <4>1 DEF Steady
            <4> QED
                BY ONLY <4>1, <4>2, <4>3, <1>5, <1>9
        <3>3. q.persisting[j] = Cardinality(PersistsOf(q, j))
            <4>1. r.persisting[j] = Cardinality(PersistsOf(r, j))
                BY <3>1 DEF Steady
            <4>2. IsFiniteSet(PersistsOf(r, j))
                BY ChatBoundsAssumption, FS_Subset DEF PersistsOf
            <4>3. CASE j = k
                <5>1. Cardinality(PersistsOf(r, k) \cup {s}) = Cardinality(PersistsOf(r, k)) + 1
                    BY <4>2, <4>3, <1>21, FS_AddElement
                <5>2. q.persisting[k] = r.persisting[k] + 1
                    BY <1>1, <1>5, TabFields
                <5> QED
                    BY ONLY <5>1, <5>2, <4>1, <4>3, <1>21
            <4>4. CASE j # k
                <5>1. q.persisting[j] = r.persisting[j]
                    BY <1>1, <1>5, <4>4, TabFields
                <5> QED
                    BY ONLY <5>1, <4>1, <4>4, <1>21
            <4> QED
                BY <4>3, <4>4
        <3> QED
            BY ONLY <3>1, <3>2, <3>3, <1>5 DEF Steady
    <2>3. ASSUME NEW j \in Keys \ gone PROVE StillKnown(q, j, known2)
        <3>1. StillKnown(r, j, known)
            BY <2>1 DEF Session
        <3> QED
            BY ONLY <3>1, <1>0 DEF StillKnown
    <2>4. ASSUME NEW j \in Keys \ gone, j \in promises PROVE Refuses(q, j, ToSet(stored[j]))
        <3>1. Refuses(r, j, ToSet(stored[j]))
            BY <2>1, <2>4 DEF Session
        <3>2. \A u \in Slots : q.calls[u] # None /\ q.calls[u].msg.key = j /\ q.calls[u].known =>
                  q.calls[u].pc \notin {"decrypt", "accept", "persist"}
            BY ONLY <3>1, <1>0 DEF Refuses
        <3>3. \A i \in DOMAIN r.txs : r.txs[i].op = "write" =>
                  /\ q.persistTail[1] = r.persistTail[1]
                  /\ q.calls[r.persistTail[1].slot] = r.calls[r.persistTail[1].slot]
            <4>1. \A i \in DOMAIN r.txs : r.txs[i].op = "write" => r.persistTail # <<>>
                BY <2>1 DEF ChainSound, Started
            <4>2. r.persistTail # <<>> => 1 \in DOMAIN r.persistTail /\ q.persistTail[1] = r.persistTail[1]
                BY <1>8
            <4>3. r.persistTail # <<>> => Persists(r, r.persistTail[1].slot) /\ r.persistTail[1].slot \in Slots
                BY <4>2, <2>1, <1>1, TabFields DEF ChainSound, PersistSound
            <4> QED
                BY <4>1, <4>2, <4>3, <1>12
        <3> QED
            BY ONLY <3>1, <3>2, <3>3, <1>5 DEF Refuses
    <2>5. ASSUME NEW j \in Keys \ gone, j \in promises, NEW m \in known, m.key = j
          PROVE  Remembers(q, j, m.ctr, ToSet(stored[j]))
        <3>1. Remembers(r, j, m.ctr, ToSet(stored[j]))
            BY <2>1, <2>5 DEF Session
        <3>2. r.mem[j] # None => m.ctr \in ToSet(q.heap[r.mem[j]].order)
            BY <3>1, <2>1, <2>5, <1>19 DEF Remembers, WindowsSound, Cached
        <3> QED
            BY ONLY <3>1, <3>2, <1>5, <1>21 DEF Remembers
    <2>6. ASSUME k \notin gone, k \in promises
          PROVE  Remembers(q, k, c.msg.ctr, ToSet(stored[k]))
        <3>1. Steady(r, k)
            BY <2>1, <2>6, <1>1 DEF Session
        <3>2. r.mem[k] = c.win
            BY <3>1, <1>1, <1>2 DEF Steady, Waits
        <3>3. r.mem[k] # None
            BY <3>2, <1>1, ChatNoneAssumption
        <3>4. r.hydrating[k] = None
            BY <3>3, <2>1, <1>1 DEF WindowsSound
        <3>5. \A i \in DOMAIN r.txs : ~(r.txs[i].key = k /\ r.txs[i].op = "hydrate")
            BY <3>1, <3>4, <1>1, TabFields, ChatNoneAssumption DEF Steady
        <3>6. q.heap[c.win].order = order
            BY <1>2, <1>5 DEF Reordered, Cached
        <3>7. c.msg.ctr \in ToSet(order)
            BY <1>4, <2>6
        <3>8. \E u \in PersistsOf(q, k) : q.calls[u].msg.ctr = c.msg.ctr
            BY <1>7, <1>21
        <3> QED
            BY ONLY <3>2, <3>3, <3>5, <3>6, <3>7, <3>8, <1>5 DEF Remembers
    <2>7. \A m \in known2 : m.key \notin gone
        BY <2>1, <1>1 DEF Session
    <2>8. ASSUME NEW j \in Keys \ gone, j \in promises, NEW m \in known2, m.key = j
          PROVE  Remembers(q, j, m.ctr, ToSet(stored[j]))
        BY <2>5, <2>6, <2>8, <1>1
    <2> HIDE DEF known2
    <2> QED
        BY <2>2, <2>3, <2>4, <2>7, <2>8 DEF Session
<1> QED
    BY <1>5, <1>11, <1>13, <1>14, <1>15, <1>16, <1>17, <1>18, <1>20, <1>22 DEF TabSound

(***************************************************************************)
(* What a tab has to bear from the rest of the system: counters are        *)
(* opened, windows are written to the store, rooms are rotated, and the    *)
(* guard promises less.                                                    *)
(***************************************************************************)
Bears(r, stored, known, gone, stored2, known2, gone2, promises2) ==
    /\ gone \subseteq gone2
    /\ \A m : m \in known2 <=> m \in known /\ m.key \notin gone2
    /\ \A i \in DOMAIN r.txs : r.txs[i].op = "read" =>
          ToSet(stored2[r.txs[i].key]) \subseteq ToSet(stored[r.txs[i].key])
    /\ \A k \in Keys \ gone2 : k \in promises2 => ToSet(stored[k]) \subseteq ToSet(stored2[k])

LEMMA EnvSound ==
    ASSUME NEW r, NEW opened, NEW stored, NEW known, NEW gone, NEW promises,
           NEW opened2, NEW stored2, NEW known2, NEW gone2, NEW promises2,
           TabSound(r, opened, stored, known, gone, promises),
           \A k \in Keys : opened[k] \subseteq opened2[k], promises2 \subseteq promises,
           Bears(r, stored, known, gone, stored2, known2, gone2, promises2)
    PROVE  TabSound(r, opened2, stored2, known2, gone2, promises2)
<1>1. /\ r \in Tab /\ RoomsSound(r) /\ KeysSound(r) /\ WindowsSound(r) /\ ChainSound(r)
      /\ OrdersFit(r, opened) /\ ReadsFresh(r, stored) /\ WritesIt(r, promises)
      /\ Session(r, known, gone, stored, promises)
    BY DEF TabSound
<1>2. OrdersFit(r, opened2)
    <2>1. \A w \in DOMAIN r.heap : Fits(r.heap[w].order, opened2[r.heap[w].key])
        BY <1>1, TabFields DEF OrdersFit, Fits
    <2>2. \A i \in DOMAIN r.txs : Fits(r.txs[i].seen, opened2[r.txs[i].key])
        BY <1>1, TabFields DEF OrdersFit, Fits
    <2>3. \A s \in Slots : r.calls[s] # None /\ r.calls[s].pc \in {"accept", "persist"} =>
              r.calls[s].msg.ctr \in opened2[r.calls[s].msg.key]
        BY <1>1, TabFields DEF OrdersFit
    <2> QED
        BY <2>1, <2>2, <2>3 DEF OrdersFit
<1>3. ReadsFresh(r, stored2)
    BY <1>1 DEF ReadsFresh, Bears
<1>4. WritesIt(r, promises2)
    BY <1>1 DEF WritesIt
<1>5. \A m \in known2 : m.key \notin gone2 /\ m \in known
    BY DEF Bears
<1>6. ASSUME NEW k \in Keys \ gone2
      PROVE  /\ Steady(r, k) /\ StillKnown(r, k, known2)
             /\ k \in promises2 => /\ Refuses(r, k, ToSet(stored2[k]))
                                   /\ \A m \in known2 : m.key = k => Remembers(r, k, m.ctr, ToSet(stored2[k]))
    <2>1. k \in Keys \ gone
        BY DEF Bears
    <2>2. /\ Steady(r, k) /\ StillKnown(r, k, known)
          /\ k \in promises => /\ Refuses(r, k, ToSet(stored[k]))
                               /\ \A m \in known : m.key = k => Remembers(r, k, m.ctr, ToSet(stored[k]))
        BY <1>1, <2>1 DEF Session
    <2>3. StillKnown(r, k, known2)
        BY <2>2 DEF StillKnown, Bears
    <2>4. ASSUME k \in promises2
          PROVE  Refuses(r, k, ToSet(stored2[k]))
        BY <2>2, <2>4 DEF Refuses, Bears
    <2>5. ASSUME k \in promises2, NEW m \in known2, m.key = k
          PROVE  Remembers(r, k, m.ctr, ToSet(stored2[k]))
        <3>1. ToSet(stored[k]) \subseteq ToSet(stored2[k])
            BY <2>5 DEF Bears
        <3>2. Remembers(r, k, m.ctr, ToSet(stored[k]))
            BY <2>2, <2>5, <1>5
        <3> QED
            BY ONLY <3>1, <3>2 DEF Remembers
    <2> QED
        BY <2>2, <2>3, <2>4, <2>5
<1> QED
    BY <1>1, <1>2, <1>3, <1>4, <1>5, <1>6 DEF TabSound, Session

(***************************************************************************)
(* A report: the first transaction of the tab is done.                     *)
(***************************************************************************)
\* Windows leave the cache; for a steady room only while it is idle.
Idle(r, k) ==
    /\ r.hydrating[k] = None /\ r.persisting[k] = 0
    /\ \A s \in Slots : Waits(r, s) /\ r.calls[s].msg.key = k => ~r.heap[r.calls[s].win].ready

LEMMA UncacheSound ==
    ASSUME NEW r, NEW opened, NEW stored, NEW known, NEW gone, NEW promises, NEW evicted,
           TabSound(r, opened, stored, known, gone, promises),
           \A k \in Keys \ gone : k \in evicted => Idle(r, k)
    PROVE  /\ TabSound(uncache(r, evicted), opened, stored, known, gone, promises)
           /\ uncache(r, evicted).persistTail = r.persistTail
<1> DEFINE mem == [k \in Keys |-> IF k \in evicted THEN None ELSE r.mem[k]]
           q == uncache(r, evicted)
<1>0. r \in Tab
    BY DEF TabSound
<1>1. mem \in [Keys -> Nat \cup {None}] /\ lasts(r.memKeys, evicted) \in Seq(Keys)
    BY <1>0, TabFields, LastsFacts
<1>2. \A k \in Keys : mem[k] = IF k \in evicted THEN None ELSE r.mem[k]
    OBVIOUS
<1>3. q = [r EXCEPT !.mem = mem, !.memKeys = lasts(r.memKeys, evicted)]
    BY <1>0 DEF uncache, Tab
<1> HIDE DEF mem, q
<1>4. q \in Tab
    BY ONLY <1>0, <1>1, <1>3 DEF Tab
<1>5. /\ q.mem = mem /\ q.hydrating = r.hydrating /\ q.heap = r.heap /\ q.txs = r.txs
      /\ q.persistTail = r.persistTail /\ q.persisting = r.persisting /\ q.calls = r.calls
      /\ q.rooms = r.rooms /\ q.replayWindows = r.replayWindows
      /\ q.keyCache = r.keyCache /\ q.gen = r.gen /\ q.overlapped = r.overlapped
    BY <1>0, <1>3 DEF Tab
<1>6. /\ \A k, w : Cached(q, k, w) <=> Cached(r, k, w)
      /\ \A s : (Persists(q, s) <=> Persists(r, s)) /\ (Waits(q, s) <=> Waits(r, s))
      /\ \A k : Started(q, k) <=> Started(r, k)
      /\ \A k : PersistsOf(q, k) = PersistsOf(r, k)
      /\ \A p : PersistSound(q, p) <=> PersistSound(r, p)
    BY <1>5 DEF Cached, Persists, Waits, Started, PersistsOf, PersistSound
<1>7. RoomsSound(q) /\ KeysSound(q)
    BY <1>5 DEF TabSound, RoomsSound, RoomsHeld, KeysSound
<1>8. WindowsSound(q)
    <2>1. WindowsSound(r)
        BY DEF TabSound
    <2> QED
        BY ONLY <2>1, <1>2, <1>5, <1>6 DEF WindowsSound
<1>9. ChainSound(q)
    <2>1. ChainSound(r)
        BY DEF TabSound
    <2> QED
        BY ONLY <2>1, <1>5, <1>6 DEF ChainSound
<1>10. OrdersFit(q, opened) /\ ReadsFresh(q, stored) /\ WritesIt(q, promises)
    BY <1>5 DEF TabSound, OrdersFit, ReadsFresh, WritesIt
<1>11. ASSUME NEW k \in Keys \ gone
       PROVE  /\ Steady(q, k) /\ StillKnown(q, k, known)
              /\ k \in promises => /\ Refuses(q, k, ToSet(stored[k]))
                                   /\ \A m \in known : m.key = k => Remembers(q, k, m.ctr, ToSet(stored[k]))
    <2>1. /\ Steady(r, k) /\ StillKnown(r, k, known)
          /\ k \in promises => /\ Refuses(r, k, ToSet(stored[k]))
                               /\ \A m \in known : m.key = k => Remembers(r, k, m.ctr, ToSet(stored[k]))
        BY DEF TabSound, Session
    <2>2. StillKnown(q, k, known) /\ (Refuses(r, k, ToSet(stored[k])) => Refuses(q, k, ToSet(stored[k])))
        BY <2>1, <1>5 DEF StillKnown, Refuses
    <2>3. CASE k \notin evicted
        <3>1. mem[k] = r.mem[k]
            BY <2>3, <1>2
        <3>2. Steady(q, k)
            BY ONLY <2>1, <3>1, <1>5, <1>6 DEF Steady
        <3>3. \A m \in known : Remembers(r, k, m.ctr, ToSet(stored[k])) => Remembers(q, k, m.ctr, ToSet(stored[k]))
            BY ONLY <3>1, <1>5, <1>6 DEF Remembers
        <3> QED
            BY <2>1, <2>2, <3>2, <3>3
    <2>4. CASE k \in evicted
        <3>1. mem[k] = None /\ Idle(r, k)
            BY <2>4, <1>2
        <3>2. Steady(q, k)
            BY ONLY <2>1, <3>1, <1>5, <1>6 DEF Steady, Idle
        <3>3. PersistsOf(r, k) = {}
            <4>1. Cardinality(PersistsOf(r, k)) = 0
                BY <2>1, <3>1 DEF Steady, Idle
            <4>2. IsFiniteSet(PersistsOf(r, k))
                BY ChatBoundsAssumption, FS_Subset DEF PersistsOf
            <4> QED
                BY <4>1, <4>2, FS_EmptySet
        <3>4. \A m \in known : Remembers(r, k, m.ctr, ToSet(stored[k])) => Remembers(q, k, m.ctr, ToSet(stored[k]))
            BY ONLY <3>1, <3>3, <1>5, <1>6 DEF Remembers
        <3> QED
            BY <2>1, <2>2, <3>2, <3>4
    <2> QED
        BY <2>3, <2>4
<1> QED
    BY <1>4, <1>5, <1>7, <1>8, <1>9, <1>10, <1>11 DEF TabSound, Session, q

\* What hydrateDone does to a tab before it trims the cache.
Hydrated(r, tx, order) ==
    [r EXCEPT !.txs = Tail(@),
              !.heap[tx.win] = [@ EXCEPT !.ready = TRUE, !.order = order],
              !.mem[tx.key] = tx.win,
              !.memKeys = IF r.mem[tx.key] = None THEN Append(@, tx.key) ELSE @,
              !.hydrating[tx.key] = None]

LEMMA HydratedFields ==
    ASSUME NEW r \in Tab, r.txs # <<>>, NEW tx, tx = r.txs[1],
           tx.win \in DOMAIN r.heap, NEW order \in Seq(Ctrs)
    PROVE  LET q == Hydrated(r, tx, order) IN
           /\ q \in Tab /\ q.txs = Tail(r.txs)
           /\ q.mem = [r.mem EXCEPT ![tx.key] = tx.win]
           /\ q.hydrating = [r.hydrating EXCEPT ![tx.key] = None]
           /\ DOMAIN q.heap = DOMAIN r.heap
           /\ \A v \in DOMAIN r.heap : q.heap[v].key = r.heap[v].key
           /\ \A v \in DOMAIN r.heap : v # tx.win => q.heap[v] = r.heap[v]
           /\ q.heap[tx.win].ready /\ q.heap[tx.win].order = order
           /\ q.memKeys \in Seq(Keys)
           /\ q.persistTail = r.persistTail /\ q.persisting = r.persisting /\ q.calls = r.calls
           /\ q.rooms = r.rooms /\ q.replayWindows = r.replayWindows
           /\ q.keyCache = r.keyCache /\ q.gen = r.gen /\ q.overlapped = r.overlapped
<1> DEFINE x == [r.heap[tx.win] EXCEPT !.ready = TRUE, !.order = order]
           h == [r.heap EXCEPT ![tx.win] = x]
           mk == IF r.mem[tx.key] = None THEN Append(r.memKeys, tx.key) ELSE r.memKeys
           q == Hydrated(r, tx, order)
<1>0. Tail(r.txs) \in Seq(Transaction) /\ 1 \in DOMAIN r.txs
    <2>1. r.txs \in Seq(Transaction)
        BY TabFields
    <2> QED
        BY <2>1, TailFacts
<1>1. tx.key \in Keys /\ tx.win \in Nat
    BY <1>0, TabFields
<1>2. r.heap \in Seq(MemWindow) /\ r.heap[tx.win] \in MemWindow
    BY TabFields
<1>3. x \in MemWindow /\ x.key = r.heap[tx.win].key /\ x.ready = TRUE /\ x.order = order
    BY <1>2 DEF MemWindow
<1>4. q = [r EXCEPT !.txs = Tail(r.txs), !.heap = h, !.mem = [r.mem EXCEPT ![tx.key] = tx.win],
                    !.memKeys = mk, !.hydrating = [r.hydrating EXCEPT ![tx.key] = None]]
    <2>1. q = [r EXCEPT !.txs = Tail(r.txs),
                        !.heap = [r.heap EXCEPT ![tx.win] = [r.heap[tx.win] EXCEPT !.ready = TRUE, !.order = order]],
                        !.mem = [r.mem EXCEPT ![tx.key] = tx.win],
                        !.memKeys = mk, !.hydrating = [r.hydrating EXCEPT ![tx.key] = None]]
        BY DEF Hydrated, Tab
    <2> QED
        BY <2>1
<1> HIDE DEF x, q
<1>5. /\ h \in Seq(MemWindow) /\ DOMAIN h = DOMAIN r.heap /\ h[tx.win] = x
      /\ \A v \in DOMAIN r.heap : v # tx.win => h[v] = r.heap[v]
    BY ONLY <1>2, <1>3, tx.win \in DOMAIN r.heap
<1>6. /\ [r.mem EXCEPT ![tx.key] = tx.win] \in [Keys -> Nat \cup {None}]
      /\ [r.hydrating EXCEPT ![tx.key] = None] \in [Keys -> Nat \cup {None}]
      /\ mk \in Seq(Keys)
    BY <1>1, TabFields
<1> HIDE DEF h, mk
<1>7. q \in Tab
    BY ONLY <1>0, <1>4, <1>5, <1>6, r \in Tab DEF Tab
<1>8. /\ q.txs = Tail(r.txs) /\ q.mem = [r.mem EXCEPT ![tx.key] = tx.win]
      /\ q.hydrating = [r.hydrating EXCEPT ![tx.key] = None] /\ q.heap = h /\ q.memKeys = mk
      /\ q.persistTail = r.persistTail /\ q.persisting = r.persisting /\ q.calls = r.calls
      /\ q.rooms = r.rooms /\ q.replayWindows = r.replayWindows
      /\ q.keyCache = r.keyCache /\ q.gen = r.gen /\ q.overlapped = r.overlapped
    BY <1>4 DEF Tab
<1> QED
    <2>1. /\ \A v \in DOMAIN r.heap : q.heap[v].key = r.heap[v].key
          /\ \A v \in DOMAIN r.heap : v # tx.win => q.heap[v] = r.heap[v]
          /\ q.heap[tx.win].ready /\ q.heap[tx.win].order = order /\ DOMAIN q.heap = DOMAIN r.heap
        BY ONLY <1>3, <1>5, <1>8
    <2> QED
        BY ONLY <2>1, <1>6, <1>7, <1>8 DEF q

\* Its report comes first and has what was read, or nothing if that failed.
Reads(r, tx, order, promises) ==
    /\ r.txs # <<>> /\ tx = r.txs[1] /\ tx.op = "hydrate"
    /\ \/ order = lastOf(tx.seen, Window)
       \/ order = <<>> /\ promises = {}

LEMMA HydratedSound ==
    ASSUME NEW r, NEW opened, NEW stored, NEW known, NEW gone, NEW promises, NEW tx, NEW order,
           TabSound(r, opened, stored, known, gone, promises),
           Reads(r, tx, order, promises)
    PROVE  LET q == Hydrated(r, tx, order) IN
           /\ TabSound(q, opened, stored, known, gone, promises)
           /\ q.persistTail = r.persistTail /\ q.calls = r.calls /\ tx.key \in Keys
           /\ \A w \in DOMAIN r.heap : r.heap[w].key # tx.key => q.heap[w] = r.heap[w]
<1> DEFINE q == Hydrated(r, tx, order)
           n == tx.win
           k == tx.key
<1>0. r.txs # <<>> /\ tx = r.txs[1] /\ tx.op = "hydrate"
    BY DEF Reads
<1>1. r \in Tab /\ r.txs \in Seq(Transaction) /\ 1 \in DOMAIN r.txs
    <2>1. r \in Tab
        BY DEF TabSound
    <2>2. r.txs \in Seq(Transaction)
        BY <2>1, TabFields
    <2> QED
        BY <1>0, <2>1, <2>2, TailFacts
<1>2. tx \in Transaction /\ k \in Keys /\ n \in Nat /\ tx.seen \in Seq(Ctrs) /\ n # None
    BY <1>0, <1>1, TabFields, ChatNoneAssumption
<1>3. Cached(r, k, n) /\ ~r.heap[n].ready
    BY <1>0, <1>1 DEF TabSound, WindowsSound
<1>4. Fits(tx.seen, opened[k])
    BY <1>0, <1>1 DEF TabSound, OrdersFit
<1>5. order \in Seq(Ctrs) /\ Fits(order, opened[k]) /\ (promises = {} \/ ToSet(order) = ToSet(tx.seen))
    <2>1. /\ lastOf(tx.seen, Window) \in Seq(Ctrs) /\ Len(lastOf(tx.seen, Window)) <= Window
          /\ ToSet(lastOf(tx.seen, Window)) \subseteq ToSet(tx.seen)
          /\ IsInjective(tx.seen) => IsInjective(lastOf(tx.seen, Window))
          /\ Len(tx.seen) <= Window => ToSet(lastOf(tx.seen, Window)) = ToSet(tx.seen)
        BY <1>2, WindowNat, LastOfFacts
    <2>2. CASE order = lastOf(tx.seen, Window)
        BY <2>1, <2>2, <1>4 DEF Fits
    <2>3. CASE order = <<>> /\ promises = {}
        BY <2>3, EmptyFits
    <2> QED
        BY <2>2, <2>3 DEF Reads
<1>6. /\ q \in Tab /\ q.txs = Tail(r.txs)
      /\ q.mem = [r.mem EXCEPT ![k] = n] /\ q.hydrating = [r.hydrating EXCEPT ![k] = None]
      /\ DOMAIN q.heap = DOMAIN r.heap
      /\ \A v \in DOMAIN r.heap : q.heap[v].key = r.heap[v].key
      /\ \A v \in DOMAIN r.heap : v # n => q.heap[v] = r.heap[v]
      /\ q.heap[n].ready /\ q.heap[n].order = order
      /\ q.persistTail = r.persistTail /\ q.persisting = r.persisting /\ q.calls = r.calls
      /\ q.rooms = r.rooms /\ q.replayWindows = r.replayWindows
      /\ q.keyCache = r.keyCache /\ q.gen = r.gen /\ q.overlapped = r.overlapped
    <2>1. n \in DOMAIN r.heap
        BY <1>3 DEF Cached
    <2> QED
        BY ONLY <2>1, <1>0, <1>1, <1>5, HydratedFields
<1> HIDE DEF q
<1>7. /\ \A i \in DOMAIN q.txs : i \in Nat /\ i + 1 \in DOMAIN r.txs /\ i + 1 # 1 /\ q.txs[i] = r.txs[i + 1]
      /\ \A i \in DOMAIN r.txs : i # 1 => i \in Nat /\ i - 1 \in DOMAIN q.txs /\ q.txs[i - 1] = r.txs[i]
    BY <1>0, <1>1, <1>6, TailFacts
<1>8. /\ q.mem[k] = n /\ q.hydrating[k] = None
      /\ \A j \in Keys : j # k => q.mem[j] = r.mem[j] /\ q.hydrating[j] = r.hydrating[j]
    BY <1>1, <1>2, <1>6, TabFields
<1>9. /\ \A j, w : Cached(q, j, w) <=> Cached(r, j, w)
      /\ \A s : (Persists(q, s) <=> Persists(r, s)) /\ (Waits(q, s) <=> Waits(r, s))
      /\ \A j : Started(q, j) <=> Started(r, j)
      /\ \A j : PersistsOf(q, j) = PersistsOf(r, j)
    BY <1>6 DEF Cached, Persists, Waits, Started, PersistsOf
<1>10. /\ n \in DOMAIN r.heap /\ r.heap[n].key = k
       /\ \A w \in DOMAIN r.heap : r.heap[w].key # k => q.heap[w] = r.heap[w]
    BY <1>3, <1>6 DEF Cached
<1>11. RoomsSound(q) /\ KeysSound(q)
    BY <1>6 DEF TabSound, RoomsSound, RoomsHeld, KeysSound
\* The other reads are of other windows.
<1>12. \A i \in DOMAIN q.txs : q.txs[i].op = "hydrate" => q.txs[i].win # n
    <2>1. \A i \in DOMAIN r.txs : r.txs[i].op = "hydrate" /\ r.txs[i].win = n => i = 1
        BY <1>0, <1>1 DEF TabSound, WindowsSound
    <2> QED
        BY <2>1, <1>7
<1>13. WindowsSound(q)
    <2>1. WindowsSound(r)
        BY DEF TabSound
    <2>2. \A j \in Keys : q.mem[j] # None => Cached(q, j, q.mem[j]) /\ q.heap[q.mem[j]].ready
        <3> SUFFICES ASSUME NEW j \in Keys, q.mem[j] # None
                     PROVE  Cached(q, j, q.mem[j]) /\ q.heap[q.mem[j]].ready
            OBVIOUS
        <3>1. CASE j = k
            BY ONLY <3>1, <1>3, <1>6, <1>8, <1>9
        <3>2. CASE j # k
            <4>1. Cached(r, j, r.mem[j]) /\ r.heap[r.mem[j]].ready /\ q.mem[j] = r.mem[j]
                BY <2>1, <3>2, <1>8 DEF WindowsSound
            <4>2. q.heap[r.mem[j]] = r.heap[r.mem[j]]
                BY <4>1, <3>2, <1>10 DEF Cached
            <4> QED
                BY ONLY <4>1, <4>2, <1>9
        <3> QED
            BY <3>1, <3>2
    <2>3. \A j \in Keys : q.hydrating[j] # None =>
              Cached(q, j, q.hydrating[j]) /\ ~q.heap[q.hydrating[j]].ready /\ q.mem[j] = None
        <3> SUFFICES ASSUME NEW j \in Keys, q.hydrating[j] # None
                     PROVE  Cached(q, j, q.hydrating[j]) /\ ~q.heap[q.hydrating[j]].ready /\ q.mem[j] = None
            OBVIOUS
        <3>1. j # k /\ q.mem[j] = r.mem[j] /\ q.hydrating[j] = r.hydrating[j]
            BY <1>8
        <3>2. Cached(r, j, r.hydrating[j]) /\ ~r.heap[r.hydrating[j]].ready /\ r.mem[j] = None
            BY <2>1, <3>1 DEF WindowsSound
        <3>3. q.heap[r.hydrating[j]] = r.heap[r.hydrating[j]]
            BY <3>1, <3>2, <1>10 DEF Cached
        <3> QED
            BY ONLY <3>1, <3>2, <3>3, <1>9
    <2>4. \A i \in DOMAIN q.txs : q.txs[i].op = "hydrate" =>
              /\ Cached(q, q.txs[i].key, q.txs[i].win) /\ ~q.heap[q.txs[i].win].ready
              /\ \A j \in DOMAIN q.txs : q.txs[j].op = "hydrate" /\ q.txs[j].win = q.txs[i].win => i = j
        <3> SUFFICES ASSUME NEW i \in DOMAIN q.txs, q.txs[i].op = "hydrate"
                     PROVE  /\ Cached(q, q.txs[i].key, q.txs[i].win) /\ ~q.heap[q.txs[i].win].ready
                            /\ \A j \in DOMAIN q.txs : q.txs[j].op = "hydrate" /\ q.txs[j].win = q.txs[i].win => i = j
            OBVIOUS
        <3>1. /\ Cached(r, q.txs[i].key, q.txs[i].win) /\ ~r.heap[q.txs[i].win].ready
              /\ \A j \in DOMAIN r.txs : r.txs[j].op = "hydrate" /\ r.txs[j].win = q.txs[i].win => i + 1 = j
            BY <2>1, <1>7 DEF WindowsSound
        <3>2. q.heap[q.txs[i].win] = r.heap[q.txs[i].win]
            BY <3>1, <1>6, <1>12 DEF Cached
        <3>3. \A j \in DOMAIN q.txs : q.txs[j].op = "hydrate" /\ q.txs[j].win = q.txs[i].win => i + 1 = j + 1
            BY <3>1, <1>7
        <3>4. \A j \in DOMAIN q.txs : i + 1 = j + 1 => i = j
            BY <1>7
        <3> QED
            BY ONLY <3>1, <3>2, <3>3, <3>4, <1>9
    <2>5. \A w \in DOMAIN q.heap : ~q.heap[w].ready =>
              \E i \in DOMAIN q.txs : q.txs[i].op = "hydrate" /\ q.txs[i].win = w
        <3> SUFFICES ASSUME NEW w \in DOMAIN q.heap, ~q.heap[w].ready
                     PROVE  \E i \in DOMAIN q.txs : q.txs[i].op = "hydrate" /\ q.txs[i].win = w
            OBVIOUS
        <3>1. w # n /\ w \in DOMAIN r.heap /\ ~r.heap[w].ready
            BY <1>6
        <3>2. PICK i \in DOMAIN r.txs : r.txs[i].op = "hydrate" /\ r.txs[i].win = w
            BY <2>1, <3>1 DEF WindowsSound
        <3>3. i # 1
            BY <1>0, <3>1, <3>2
        <3> QED
            BY <3>2, <3>3, <1>7
    <2>6. \A s \in Slots : Waits(q, s) => Cached(q, q.calls[s].msg.key, q.calls[s].win)
        BY ONLY <2>1, <1>6, <1>9 DEF WindowsSound
    <2> QED
        BY ONLY <2>2, <2>3, <2>4, <2>5, <2>6 DEF WindowsSound
<1>14. ChainSound(q)
    <2>1. ChainSound(r)
        BY DEF TabSound
    <2>2. \A w \in DOMAIN r.heap : r.heap[w].ready =>
              w \in DOMAIN q.heap /\ q.heap[w].ready /\ q.heap[w].key = r.heap[w].key
        BY <1>3, <1>6
    <2>3. \A i \in DOMAIN q.txs : q.txs[i].op \in {"read", "write"} =>
              \E j \in DOMAIN r.txs : /\ r.txs[j].op \in {"read", "write"}
                                      /\ r.txs[j].key = q.txs[i].key /\ r.txs[j].win = q.txs[i].win
        BY ONLY <1>7
    <2>4. \A i, j \in DOMAIN q.txs : q.txs[i].op \in {"read", "write"} /\ q.txs[j].op \in {"read", "write"} => i = j
        <3>1. \A i, j \in DOMAIN q.txs :
                  q.txs[i].op \in {"read", "write"} /\ q.txs[j].op \in {"read", "write"} => i + 1 = j + 1
            BY <2>1, <1>7 DEF ChainSound
        <3> QED
            BY ONLY <3>1, <1>7
    <2>5. (\E j \in DOMAIN r.txs : r.txs[j].op \in {"read", "write"}) =>
              \E i \in DOMAIN q.txs : q.txs[i].op \in {"read", "write"}
        <3>1. \A j \in DOMAIN r.txs : r.txs[j].op \in {"read", "write"} => j # 1
            BY <1>0
        <3> QED
            BY ONLY <3>1, <1>7
    <2>6. q.persistTail = r.persistTail /\ q.calls = r.calls
        BY <1>6
    <2> QED
        BY ONLY <2>1, <2>2, <2>3, <2>4, <2>5, <2>6, <1>1, <1>9, ChainKeeps
<1>15. OrdersFit(q, opened)
    <2>1. OrdersFit(r, opened)
        BY DEF TabSound
    <2>2. \A w \in DOMAIN q.heap : Fits(q.heap[w].order, opened[q.heap[w].key])
        BY <2>1, <1>5, <1>6, <1>10 DEF OrdersFit
    <2> QED
        BY ONLY <2>1, <2>2, <1>6, <1>7 DEF OrdersFit
<1>16. ReadsFresh(q, stored)
    <2>1. ReadsFresh(r, stored)
        BY DEF TabSound
    <2> QED
        <3> SUFFICES ASSUME NEW i \in DOMAIN q.txs, q.txs[i].op = "read"
                     PROVE  ToSet(stored[q.txs[i].key]) \subseteq ToSet(q.txs[i].seen)
            BY DEF ReadsFresh
        <3>1. i + 1 \in DOMAIN r.txs /\ q.txs[i] = r.txs[i + 1]
            BY <1>7
        <3> QED
            BY <2>1, <3>1 DEF ReadsFresh
<1>17. WritesIt(q, promises)
    <2>1. WritesIt(r, promises) /\ ChainSound(r)
        BY DEF TabSound
    <2>2. \A i \in DOMAIN r.persistTail : q.heap[r.persistTail[i].win] = r.heap[r.persistTail[i].win]
        <3> SUFFICES ASSUME NEW i \in DOMAIN r.persistTail
                     PROVE  q.heap[r.persistTail[i].win] = r.heap[r.persistTail[i].win]
            OBVIOUS
        <3>1. r.persistTail[i].win \in DOMAIN r.heap /\ r.heap[r.persistTail[i].win].ready
            BY <2>1 DEF ChainSound, PersistSound, Cached
        <3> QED
            BY <3>1, <1>3, <1>6
    <2> QED
        BY ONLY <2>1, <2>2, <1>6 DEF WritesIt
<1>18. ASSUME NEW j \in Keys \ gone
       PROVE  /\ Steady(q, j) /\ StillKnown(q, j, known)
              /\ j \in promises => /\ Refuses(q, j, ToSet(stored[j]))
                                   /\ \A m \in known : m.key = j => Remembers(q, j, m.ctr, ToSet(stored[j]))
    <2>1. /\ Steady(r, j) /\ StillKnown(r, j, known) /\ WindowsSound(r)
          /\ j \in promises => /\ Refuses(r, j, ToSet(stored[j]))
                               /\ \A m \in known : m.key = j => Remembers(r, j, m.ctr, ToSet(stored[j]))
        BY DEF TabSound, Session
    <2>2. StillKnown(q, j, known)
        BY <2>1, <1>6 DEF StillKnown
    <2>3. Refuses(r, j, ToSet(stored[j])) => Refuses(q, j, ToSet(stored[j]))
        BY ONLY <1>6, <1>7 DEF Refuses
    <2>4. CASE j # k
        <3>1. q.mem[j] = r.mem[j] /\ q.hydrating[j] = r.hydrating[j]
            BY <2>4, <1>8
        <3>2. \A s \in Slots : Waits(r, s) /\ r.calls[s].msg.key = j => q.heap[r.calls[s].win] = r.heap[r.calls[s].win]
            BY <2>1, <2>4, <1>10 DEF WindowsSound, Cached
        <3>3. Steady(q, j)
            BY ONLY <2>1, <3>1, <3>2, <1>6, <1>7, <1>9 DEF Steady
        <3>4. r.mem[j] # None => q.heap[r.mem[j]] = r.heap[r.mem[j]]
            BY <2>1, <2>4, <1>10 DEF WindowsSound, Cached
        <3>5. \A m \in known : Remembers(r, j, m.ctr, ToSet(stored[j])) => Remembers(q, j, m.ctr, ToSet(stored[j]))
            BY ONLY <3>1, <3>4, <1>6, <1>7, <1>9 DEF Remembers
        <3> QED
            BY <2>1, <2>2, <2>3, <3>3, <3>5
    <2>5. CASE j = k
        <3>1. r.hydrating[k] = n /\ r.mem[k] = None
            BY <2>1, <2>5, <1>0, <1>1, <1>2 DEF Steady, WindowsSound
        <3>2. \A i \in DOMAIN q.txs : q.txs[i].key = k => q.txs[i].op # "delete" /\ q.txs[i].op # "hydrate"
            <4>1. \A i \in DOMAIN q.txs : q.txs[i].key = k =>
                      q.txs[i].op # "delete" /\ (q.txs[i].op = "hydrate" => q.txs[i].win = n)
                BY ONLY <2>1, <2>5, <3>1, <1>7 DEF Steady
            <4> QED
                BY ONLY <4>1, <1>12
        <3>3. \A s \in Slots : Waits(q, s) /\ q.calls[s].msg.key = k => q.calls[s].win = n
            <4> SUFFICES ASSUME NEW s \in Slots, Waits(q, s), q.calls[s].msg.key = k
                         PROVE  q.calls[s].win = n
                OBVIOUS
            <4>1. Waits(r, s) /\ q.calls[s] = r.calls[s] /\ r.calls[s].msg.key = k
                BY <1>6, <1>9
            <4>2. r.calls[s].win = IF r.heap[r.calls[s].win].ready THEN r.mem[k] ELSE r.hydrating[k]
                BY <2>1, <2>5, <4>1 DEF Steady
            <4>3. r.calls[s].win \in Nat
                BY <1>1, <4>1, TabFields DEF Waits
            <4> QED
                BY ONLY <4>1, <4>2, <4>3, <3>1, ChatNoneAssumption
        <3>4. Steady(q, k)
            BY ONLY <2>1, <2>5, <3>2, <3>3, <1>6, <1>8, <1>9 DEF Steady
        <3>5. ASSUME k \in promises, NEW m \in known, m.key = k
              PROVE  Remembers(q, k, m.ctr, ToSet(stored[k]))
            <4>1. Remembers(r, k, m.ctr, ToSet(stored[k]))
                BY <2>1, <2>5, <3>5
            <4>2. m.ctr \in ToSet(order)
                BY <4>1, <3>5, <1>0, <1>1, <1>5 DEF Remembers
            <4> QED
                BY ONLY <4>1, <4>2, <3>2, <1>2, <1>6, <1>8, <1>9 DEF Remembers
        <3> QED
            BY <2>1, <2>2, <2>3, <2>5, <3>4, <3>5
    <2> QED
        BY <2>4, <2>5
<1>19. \A m \in known : m.key \notin gone
    BY DEF TabSound, Session
<1>20. TabSound(q, opened, stored, known, gone, promises)
    BY ONLY <1>6, <1>11, <1>13, <1>14, <1>15, <1>16, <1>17, <1>18, <1>19 DEF TabSound, Session
<1> QED
    BY <1>2, <1>6, <1>10, <1>20 DEF q

\* trimMemCache evicts rooms that are idle, as no call waits for a window that is
\* there when a report comes.
NoneResumable(r) == \A s \in Slots : Waits(r, s) => ~r.heap[r.calls[s].win].ready

LEMMA HydrateDoneSound ==
    ASSUME NEW r, NEW opened, NEW stored, NEW known, NEW gone, NEW promises, NEW tx, NEW order,
           TabSound(r, opened, stored, known, gone, promises), NoneResumable(r),
           Reads(r, tx, order, promises)
    PROVE  LET q == trimMemCache(Hydrated(r, tx, order), tx.key) IN
           TabSound(q, opened, stored, known, gone, promises) /\ q.persistTail = r.persistTail
<1> DEFINE c == Hydrated(r, tx, order)
<1>1. /\ TabSound(c, opened, stored, known, gone, promises)
      /\ c.persistTail = r.persistTail /\ c.calls = r.calls /\ tx.key \in Keys
      /\ \A w \in DOMAIN r.heap : r.heap[w].key # tx.key => c.heap[w] = r.heap[w]
    <2>1. TabSound(c, opened, stored, known, gone, promises)
        BY ONLY TabSound(r, opened, stored, known, gone, promises), Reads(r, tx, order, promises), HydratedSound
    <2>2. c.persistTail = r.persistTail /\ c.calls = r.calls /\ tx.key \in Keys
        BY ONLY <2>1, TabSound(r, opened, stored, known, gone, promises), Reads(r, tx, order, promises), HydratedSound
    <2>3. \A w \in DOMAIN r.heap : r.heap[w].key # tx.key => c.heap[w] = r.heap[w]
        BY ONLY <2>1, TabSound(r, opened, stored, known, gone, promises), Reads(r, tx, order, promises), HydratedSound
    <2> QED
        BY <2>1, <2>2, <2>3
<1> HIDE DEF c
<1> DEFINE busy == {k \in Keys : c.hydrating[k] # None \/ c.persisting[k] # 0}
           evictable == lasts(c.memKeys, busy \cup {tx.key})
           evicted == {evictable[i] : i \in {j \in DOMAIN evictable : j <= Len(c.memKeys) - CacheCap}}
<1>2. c.memKeys \in Seq(Keys)
    BY <1>1, TabFields DEF TabSound
<1>3. ToSet(evictable) = ToSet(c.memKeys) \ (busy \cup {tx.key})
    BY <1>2, LastsFacts
<1> HIDE DEF evictable
<1>4. evicted \subseteq ToSet(evictable)
    BY DEF ToSet
<1>5. ASSUME NEW k \in Keys, k \in evicted PROVE Idle(c, k)
    <2>1. k # tx.key /\ c.hydrating[k] = None /\ c.persisting[k] = 0
        BY <1>3, <1>4, <1>5
    <2>2. ASSUME NEW s \in Slots, Waits(c, s), c.calls[s].msg.key = k
          PROVE  ~c.heap[c.calls[s].win].ready
        <3>1. Waits(r, s) /\ c.calls[s] = r.calls[s] /\ r.calls[s].msg.key = k
            BY <2>2, <1>1 DEF Waits
        <3>2. r.calls[s].win \in DOMAIN r.heap /\ r.heap[r.calls[s].win].key = k
            BY <3>1 DEF TabSound, WindowsSound, Cached
        <3>3. c.heap[r.calls[s].win] = r.heap[r.calls[s].win]
            BY <3>2, <2>1, <1>1
        <3> QED
            BY <3>1, <3>3 DEF NoneResumable
    <2> QED
        BY <2>1, <2>2 DEF Idle
<1>6. trimMemCache(c, tx.key) = uncache(c, evicted)
    BY DEF trimMemCache, evictable
<1> HIDE DEF evicted
<1>7. TabSound(uncache(c, evicted), opened, stored, known, gone, promises) /\ uncache(c, evicted).persistTail = c.persistTail
    BY <1>1, <1>5, UncacheSound
<1> QED
    BY <1>1, <1>6, <1>7 DEF c

(***************************************************************************)
(* A persist: the lock, the read, the merge and the write.                 *)
(***************************************************************************)
\* What lockGranted does to a tab whose chain begins with p.
Granted(r, p, seen) ==
    [Create(r, "read", p.key, p.win, seen, TRUE) EXCEPT !.persistTail[1].started = TRUE]

\* tx is a new transaction of q, and the first persist of the chain has begun.
BeginsRead(r, q, tx) ==
    /\ q \in Tab /\ q.txs = Append(r.txs, tx) /\ tx \in Transaction
    /\ DOMAIN q.persistTail = DOMAIN r.persistTail
    /\ \A i \in DOMAIN r.persistTail :
          /\ q.persistTail[i].key = r.persistTail[i].key
          /\ q.persistTail[i].win = r.persistTail[i].win
          /\ q.persistTail[i].slot = r.persistTail[i].slot
          /\ i # 1 => q.persistTail[i].started = r.persistTail[i].started
    /\ q.persistTail[1].started /\ 1 \in DOMAIN r.persistTail /\ q.persistTail # <<>>
    /\ q.mem = r.mem /\ q.hydrating = r.hydrating /\ q.heap = r.heap
    /\ q.persisting = r.persisting /\ q.calls = r.calls
    /\ q.rooms = r.rooms /\ q.replayWindows = r.replayWindows
    /\ q.keyCache = r.keyCache /\ q.gen = r.gen /\ q.overlapped = r.overlapped

LEMMA GrantedFields ==
    ASSUME NEW r \in Tab, r.persistTail # <<>>, NEW p, p = r.persistTail[1], NEW seen \in Seq(Ctrs)
    PROVE  BeginsRead(r, Granted(r, p, seen),
                      [op |-> "read", key |-> p.key, win |-> p.win, seen |-> seen, ok |-> TRUE])
<1> DEFINE q == Granted(r, p, seen)
           tx == [op |-> "read", key |-> p.key, win |-> p.win, seen |-> seen, ok |-> TRUE]
           p2 == [p EXCEPT !.started = TRUE]
           tail == [r.persistTail EXCEPT ![1] = p2]
<1>1. r.persistTail \in Seq(Persist) /\ 1 \in DOMAIN r.persistTail /\ p \in Persist
    <2>1. r.persistTail \in Seq(Persist)
        BY TabFields
    <2> QED
        BY <2>1, TailFacts
<1>2. p2 \in Persist /\ p2.started = TRUE /\ p2.key = p.key /\ p2.win = p.win /\ p2.slot = p.slot
    BY <1>1 DEF Persist
<1>3. tx \in Transaction
    BY <1>1 DEF Transaction, Persist
<1>4. q = [r EXCEPT !.txs = Append(r.txs, tx), !.persistTail = tail]
    <2>1. q = [r EXCEPT !.txs = Append(r.txs, tx), !.persistTail = [r.persistTail EXCEPT ![1].started = TRUE]]
        BY DEF Granted, Create, Tab
    <2>2. [r.persistTail EXCEPT ![1].started = TRUE] = tail
        BY <1>1
    <2> QED
        BY ONLY <2>1, <2>2
<1> HIDE DEF q, tx, p2
<1>5. /\ tail \in Seq(Persist) /\ DOMAIN tail = DOMAIN r.persistTail /\ tail[1] = p2
      /\ \A i \in DOMAIN r.persistTail : i # 1 => tail[i] = r.persistTail[i]
    BY ONLY <1>1, <1>2
<1>6. Append(r.txs, tx) \in Seq(Transaction)
    BY <1>3, TabFields
<1> HIDE DEF tail
<1>7. q \in Tab
    BY ONLY <1>4, <1>5, <1>6, r \in Tab DEF Tab
<1>8. /\ q.txs = Append(r.txs, tx) /\ q.persistTail = tail
      /\ q.mem = r.mem /\ q.hydrating = r.hydrating /\ q.heap = r.heap
      /\ q.persisting = r.persisting /\ q.calls = r.calls
      /\ q.rooms = r.rooms /\ q.replayWindows = r.replayWindows
      /\ q.keyCache = r.keyCache /\ q.gen = r.gen /\ q.overlapped = r.overlapped
    BY <1>4 DEF Tab
<1>9. \A i \in DOMAIN r.persistTail :
          /\ q.persistTail[i].key = r.persistTail[i].key
          /\ q.persistTail[i].win = r.persistTail[i].win
          /\ q.persistTail[i].slot = r.persistTail[i].slot
          /\ i # 1 => q.persistTail[i].started = r.persistTail[i].started
    BY ONLY <1>2, <1>5, <1>8, p = r.persistTail[1]
<1>10. q.persistTail # <<>> /\ q.persistTail[1].started /\ DOMAIN q.persistTail = DOMAIN r.persistTail
    BY ONLY <1>1, <1>2, <1>5, <1>8
<1>11. BeginsRead(r, q, tx)
    BY ONLY <1>1, <1>3, <1>7, <1>8, <1>9, <1>10 DEF BeginsRead
<1> QED
    BY ONLY <1>11 DEF q, tx

\* Only the persist for k has begun in q, and none in r.
Begins(r, q, k) == \A j : ~Started(r, j) /\ (Started(q, j) <=> j = k)

LEMMA GrantedSound ==
    ASSUME NEW r, NEW opened, NEW stored, NEW known, NEW gone, NEW promises, NEW p,
           TabSound(r, opened, stored, known, gone, promises),
           r.persistTail # <<>>, p = r.persistTail[1], ~p.started,
           stored[p.key] \in Seq(Ctrs), Fits(stored[p.key], opened[p.key])
    PROVE  /\ TabSound(Granted(r, p, stored[p.key]), opened, stored, known, gone, promises)
           /\ Begins(r, Granted(r, p, stored[p.key]), p.key)
<1> DEFINE q == Granted(r, p, stored[p.key])
           tx == [op |-> "read", key |-> p.key, win |-> p.win, seen |-> stored[p.key], ok |-> TRUE]
           e == Len(r.txs) + 1
<1>1. r \in Tab /\ r.txs \in Seq(Transaction)
    BY TabFields DEF TabSound
<1>2. /\ q \in Tab /\ q.txs = Append(r.txs, tx) /\ tx \in Transaction
      /\ DOMAIN q.persistTail = DOMAIN r.persistTail
      /\ \A i \in DOMAIN r.persistTail :
            /\ q.persistTail[i].key = r.persistTail[i].key
            /\ q.persistTail[i].win = r.persistTail[i].win
            /\ q.persistTail[i].slot = r.persistTail[i].slot
            /\ i # 1 => q.persistTail[i].started = r.persistTail[i].started
      /\ q.persistTail[1].started /\ 1 \in DOMAIN r.persistTail /\ q.persistTail # <<>>
      /\ q.mem = r.mem /\ q.hydrating = r.hydrating /\ q.heap = r.heap
      /\ q.persisting = r.persisting /\ q.calls = r.calls
      /\ q.rooms = r.rooms /\ q.replayWindows = r.replayWindows
      /\ q.keyCache = r.keyCache /\ q.gen = r.gen /\ q.overlapped = r.overlapped
    <2>1. BeginsRead(r, q, tx)
        BY ONLY <1>1, r.persistTail # <<>>, p = r.persistTail[1], stored[p.key] \in Seq(Ctrs), GrantedFields
    <2> HIDE DEF q, tx
    <2> QED
        BY ONLY <2>1 DEF BeginsRead
<1>3. tx.op = "read" /\ tx.key = p.key /\ tx.win = p.win /\ tx.seen = stored[p.key]
    OBVIOUS
<1> HIDE DEF q, tx
<1>4. /\ e \in DOMAIN q.txs /\ q.txs[e] = tx
      /\ \A i \in DOMAIN r.txs : i \in DOMAIN q.txs /\ q.txs[i] = r.txs[i] /\ i # e
      /\ \A i \in DOMAIN q.txs : i \in DOMAIN r.txs \/ i = e
    BY <1>1, <1>2, AppendFacts
<1> HIDE DEF e
<1>5. /\ \A j, w : Cached(q, j, w) <=> Cached(r, j, w)
      /\ \A s : (Persists(q, s) <=> Persists(r, s)) /\ (Waits(q, s) <=> Waits(r, s))
      /\ \A j : PersistsOf(q, j) = PersistsOf(r, j)
      /\ \A x : PersistSound(q, x) <=> PersistSound(r, x)
    BY <1>2 DEF Cached, Persists, Waits, PersistsOf, PersistSound
<1>6. \A j : ~Started(r, j) /\ (Started(q, j) <=> j = p.key)
    BY <1>2 DEF Started
\* The persist is the first to begin, so there is no other read or write.
<1>7. \A i \in DOMAIN r.txs : r.txs[i].op \notin {"read", "write"}
    BY <1>6 DEF TabSound, ChainSound
<1>8. RoomsSound(q) /\ KeysSound(q)
    BY <1>2 DEF TabSound, RoomsSound, RoomsHeld, KeysSound
<1>9. WindowsSound(q)
    <2>1. WindowsSound(r)
        BY DEF TabSound
    <2>2. \A i \in DOMAIN q.txs : q.txs[i].op = "hydrate" => i \in DOMAIN r.txs /\ r.txs[i] = q.txs[i]
        BY <1>3, <1>4
    <2>3. \A w \in DOMAIN q.heap : ~q.heap[w].ready =>
              \E i \in DOMAIN q.txs : q.txs[i].op = "hydrate" /\ q.txs[i].win = w
        BY ONLY <2>1, <1>2, <1>4 DEF WindowsSound
    <2>4. /\ \A j \in Keys : q.mem[j] # None => Cached(q, j, q.mem[j]) /\ q.heap[q.mem[j]].ready
          /\ \A j \in Keys : q.hydrating[j] # None =>
                Cached(q, j, q.hydrating[j]) /\ ~q.heap[q.hydrating[j]].ready /\ q.mem[j] = None
          /\ \A s \in Slots : Waits(q, s) => Cached(q, q.calls[s].msg.key, q.calls[s].win)
        BY ONLY <2>1, <1>2, <1>5 DEF WindowsSound
    <2>5. \A i \in DOMAIN q.txs : q.txs[i].op = "hydrate" =>
              /\ Cached(q, q.txs[i].key, q.txs[i].win) /\ ~q.heap[q.txs[i].win].ready
              /\ \A j \in DOMAIN q.txs : q.txs[j].op = "hydrate" /\ q.txs[j].win = q.txs[i].win => i = j
        BY ONLY <2>1, <2>2, <1>2, <1>5 DEF WindowsSound
    <2> QED
        BY ONLY <2>3, <2>4, <2>5 DEF WindowsSound
<1>10. ChainSound(q)
    <2>1. ChainSound(r)
        BY DEF TabSound
    <2>2. \A i \in DOMAIN q.persistTail :
              /\ q.persistTail[i].started => i = 1
              /\ \A j \in DOMAIN q.persistTail : q.persistTail[j].slot = q.persistTail[i].slot => i = j
        BY ONLY <2>1, <1>2 DEF ChainSound
    <2>3. \A i \in DOMAIN q.persistTail : PersistSound(q, q.persistTail[i])
        <3> SUFFICES ASSUME NEW i \in DOMAIN q.persistTail PROVE PersistSound(r, q.persistTail[i])
            BY <1>5
        <3>1. i \in DOMAIN r.persistTail /\ PersistSound(r, r.persistTail[i])
            BY <2>1, <1>2 DEF ChainSound
        <3> DEFINE a == q.persistTail[i]
                   b == r.persistTail[i]
        <3>2. a.key = b.key /\ a.win = b.win /\ a.slot = b.slot
            BY <3>1, <1>2
        <3> HIDE DEF a, b
        <3>3. PersistSound(r, b) => PersistSound(r, a)
            BY ONLY <3>2 DEF PersistSound
        <3> QED
            BY <3>1, <3>3 DEF a, b
    <2>4. \A s \in Slots : Persists(q, s) => \E i \in DOMAIN q.persistTail : q.persistTail[i].slot = s
        BY ONLY <2>1, <1>2, <1>5 DEF ChainSound
    <2>5. \A i \in DOMAIN q.txs : q.txs[i].op \in {"read", "write"} =>
              /\ i = e /\ Started(q, q.txs[i].key) /\ q.txs[i].win = q.persistTail[1].win
        BY <1>2, <1>3, <1>4, <1>6, <1>7
    <2>6. \E i \in DOMAIN q.txs : q.txs[i].op \in {"read", "write"}
        BY <1>3, <1>4
    <2> QED
        BY ONLY <2>2, <2>3, <2>4, <2>5, <2>6 DEF ChainSound
<1>11. OrdersFit(q, opened)
    <2>1. OrdersFit(r, opened)
        BY DEF TabSound
    <2>2. \A i \in DOMAIN q.txs : Fits(q.txs[i].seen, opened[q.txs[i].key])
        BY <2>1, <1>3, <1>4 DEF OrdersFit
    <2> QED
        BY ONLY <2>1, <2>2, <1>2 DEF OrdersFit
<1>12. ReadsFresh(q, stored)
    BY <1>3, <1>4, <1>7 DEF ReadsFresh
<1>13. WritesIt(q, promises)
    <2>1. WritesIt(r, promises)
        BY DEF TabSound
    <2> QED
        BY ONLY <2>1, <1>2 DEF WritesIt
<1>14. ASSUME NEW j \in Keys \ gone
       PROVE  /\ Steady(q, j) /\ StillKnown(q, j, known)
              /\ j \in promises => /\ Refuses(q, j, ToSet(stored[j]))
                                   /\ \A m \in known : m.key = j => Remembers(q, j, m.ctr, ToSet(stored[j]))
    <2>1. /\ Steady(r, j) /\ StillKnown(r, j, known)
          /\ j \in promises => /\ Refuses(r, j, ToSet(stored[j]))
                               /\ \A m \in known : m.key = j => Remembers(r, j, m.ctr, ToSet(stored[j]))
        BY DEF TabSound, Session
    <2>2. StillKnown(q, j, known)
        BY <2>1, <1>2 DEF StillKnown
    <2>3. Refuses(r, j, ToSet(stored[j])) => Refuses(q, j, ToSet(stored[j]))
        BY ONLY <1>2, <1>3, <1>4, <1>7 DEF Refuses
    <2>4. Steady(q, j)
        BY ONLY <2>1, <1>2, <1>3, <1>4, <1>5 DEF Steady
    <2>5. \A m \in known : Remembers(r, j, m.ctr, ToSet(stored[j])) => Remembers(q, j, m.ctr, ToSet(stored[j]))
        BY ONLY <1>2, <1>3, <1>4, <1>5 DEF Remembers
    <2> QED
        BY <2>1, <2>2, <2>3, <2>4, <2>5
<1>15. \A m \in known : m.key \notin gone
    BY DEF TabSound, Session
<1>16. TabSound(q, opened, stored, known, gone, promises)
    BY ONLY <1>2, <1>8, <1>9, <1>10, <1>11, <1>12, <1>13, <1>14, <1>15 DEF TabSound, Session
<1>17. Begins(r, q, p.key)
    BY ONLY <1>6 DEF Begins, q
<1> QED
    BY ONLY <1>16, <1>17 DEF q

\* What persistMerged does to a tab: tx is the read and wtx the write.
Merged(r, tx, order, wtx) == [r EXCEPT !.txs = Append(Tail(@), wtx), !.heap[tx.win].order = order]

LEMMA MergedFields ==
    ASSUME NEW r \in Tab, r.txs # <<>>, NEW tx, tx = r.txs[1], NEW wtx \in Transaction,
           NEW order \in Seq(Ctrs)
    PROVE  LET q == Merged(r, tx, order, wtx) IN
           /\ q \in Tab /\ q.txs = Append(Tail(r.txs), wtx)
           /\ Reordered(r, q, tx.win, order)
           /\ q.mem = r.mem /\ q.hydrating = r.hydrating /\ q.persistTail = r.persistTail
           /\ q.persisting = r.persisting /\ q.calls = r.calls
           /\ q.rooms = r.rooms /\ q.replayWindows = r.replayWindows
           /\ q.keyCache = r.keyCache /\ q.gen = r.gen /\ q.overlapped = r.overlapped
<1> DEFINE q == Merged(r, tx, order, wtx)
           h == [r.heap EXCEPT ![tx.win].order = order]
<1>1. Append(Tail(r.txs), wtx) \in Seq(Transaction)
    <2>1. r.txs \in Seq(Transaction)
        BY TabFields
    <2>2. Tail(r.txs) \in Seq(Transaction)
        BY <2>1, TailFacts
    <2> QED
        BY <2>2
<1>2. q = [r EXCEPT !.txs = Append(Tail(r.txs), wtx), !.heap = h]
    BY DEF Merged, Tab
<1> HIDE DEF q
<1>3. /\ q.txs = Append(Tail(r.txs), wtx) /\ q.heap = h
      /\ q.mem = r.mem /\ q.hydrating = r.hydrating /\ q.persistTail = r.persistTail
      /\ q.persisting = r.persisting /\ q.calls = r.calls
      /\ q.rooms = r.rooms /\ q.replayWindows = r.replayWindows
      /\ q.keyCache = r.keyCache /\ q.gen = r.gen /\ q.overlapped = r.overlapped
    BY <1>2 DEF Tab
<1>4. h \in Seq(MemWindow) /\ Reordered(r, q, tx.win, order)
    BY ONLY <1>3, r \in Tab, order \in Seq(Ctrs), ReorderedHeap
<1> HIDE DEF h
<1>5. q \in Tab
    BY ONLY <1>1, <1>2, <1>4, r \in Tab DEF Tab
<1> QED
    BY ONLY <1>3, <1>4, <1>5 DEF q

\* The read comes first; what is written has what was there and what is in the
\* window, for a room that the guard promises something about.
Writes(r, tx, order, wtx, opened, stored, stored2, promises) ==
    /\ r.txs # <<>> /\ tx = r.txs[1] /\ tx.op = "read"
    /\ wtx \in Transaction /\ wtx.op = "write" /\ wtx.key = tx.key /\ wtx.win = tx.win /\ wtx.seen = <<>>
    /\ order \in Seq(Ctrs) /\ Fits(order, opened[tx.key])
    /\ \A j \in Keys : j # tx.key => stored2[j] = stored[j]
    /\ tx.key \in promises => /\ ToSet(r.heap[tx.win].order) \subseteq ToSet(order)
                              /\ ToSet(stored[tx.key]) \subseteq ToSet(order)
                              /\ stored2[tx.key] = order

LEMMA MergedSound ==
    ASSUME NEW r, NEW opened, NEW stored, NEW known, NEW gone, NEW promises,
           NEW tx, NEW order, NEW wtx, NEW stored2,
           TabSound(r, opened, stored, known, gone, promises),
           Writes(r, tx, order, wtx, opened, stored, stored2, promises)
    PROVE  LET q == Merged(r, tx, order, wtx) IN
           TabSound(q, opened, stored2, known, gone, promises) /\ q.persistTail = r.persistTail
<1> DEFINE q == Merged(r, tx, order, wtx)
           k == tx.key
           n == tx.win
           e == Len(r.txs)
<1>1. r \in Tab /\ r.txs \in Seq(Transaction)
    BY TabFields DEF TabSound
<1>2. /\ r.txs # <<>> /\ tx = r.txs[1] /\ tx.op = "read"
      /\ wtx \in Transaction /\ wtx.op = "write" /\ wtx.key = k /\ wtx.win = n /\ wtx.seen = <<>>
      /\ order \in Seq(Ctrs) /\ Fits(order, opened[k])
      /\ \A j \in Keys : j # k => stored2[j] = stored[j]
      /\ k \in promises => /\ ToSet(r.heap[n].order) \subseteq ToSet(order)
                           /\ ToSet(stored[k]) \subseteq ToSet(order) /\ stored2[k] = order
    BY DEF Writes
<1>3. /\ q \in Tab /\ q.txs = Append(Tail(r.txs), wtx) /\ Reordered(r, q, n, order)
      /\ q.mem = r.mem /\ q.hydrating = r.hydrating /\ q.persistTail = r.persistTail
      /\ q.persisting = r.persisting /\ q.calls = r.calls
      /\ q.rooms = r.rooms /\ q.replayWindows = r.replayWindows
      /\ q.keyCache = r.keyCache /\ q.gen = r.gen /\ q.overlapped = r.overlapped
    BY ONLY <1>1, <1>2, MergedFields
<1> HIDE DEF q
<1>4. 1 \in DOMAIN r.txs /\ k \in Keys
    BY <1>1, <1>2, TailFacts, TabFields
<1>5. /\ e \in DOMAIN q.txs /\ q.txs[e] = wtx
      /\ \A i \in DOMAIN r.txs : i # 1 => i \in Nat /\ i - 1 \in DOMAIN q.txs /\ q.txs[i - 1] = r.txs[i]
      /\ \A i \in DOMAIN q.txs : \/ i \in Nat /\ i + 1 \in DOMAIN r.txs /\ i + 1 # 1 /\ q.txs[i] = r.txs[i + 1]
                                 \/ i = e
    <2> DEFINE tail == Tail(r.txs)
    <2>1. /\ tail \in Seq(Transaction) /\ Len(tail) + 1 = e
          /\ \A i \in DOMAIN tail : i \in Nat /\ i + 1 \in DOMAIN r.txs /\ i + 1 # 1 /\ tail[i] = r.txs[i + 1]
          /\ \A i \in DOMAIN r.txs : i # 1 => i \in Nat /\ i - 1 \in DOMAIN tail /\ tail[i - 1] = r.txs[i]
        BY <1>1, <1>2, TailFacts
    <2> HIDE DEF tail, e
    <2>2. q.txs = Append(tail, wtx)
        BY <1>3 DEF tail
    <2>3. /\ e \in DOMAIN q.txs /\ q.txs[e] = wtx
          /\ \A i \in DOMAIN tail : i \in DOMAIN q.txs /\ q.txs[i] = tail[i]
          /\ \A i \in DOMAIN q.txs : i \in DOMAIN tail \/ i = e
        BY ONLY <2>1, <2>2, <1>2, AppendFacts
    <2> QED
        BY ONLY <2>1, <2>3
<1> HIDE DEF e
<1>6. /\ \A j, w : Cached(q, j, w) <=> Cached(r, j, w)
      /\ \A w \in DOMAIN r.heap : q.heap[w].ready = r.heap[w].ready /\ q.heap[w].key = r.heap[w].key
      /\ DOMAIN q.heap = DOMAIN r.heap
      /\ \A s : (Persists(q, s) <=> Persists(r, s)) /\ (Waits(q, s) <=> Waits(r, s))
      /\ \A j : Started(q, j) <=> Started(r, j)
      /\ \A j : PersistsOf(q, j) = PersistsOf(r, j)
    BY <1>3 DEF Cached, Persists, Waits, PersistsOf, Started, Reordered
<1>7. ChainSound(r) /\ WindowsSound(r)
    BY DEF TabSound
\* The read is of the window that the first persist of the chain is for.
<1>8. /\ Started(r, k) /\ n = r.persistTail[1].win /\ 1 \in DOMAIN r.persistTail /\ r.persistTail[1].key = k
      /\ Cached(r, k, n) /\ r.heap[n].ready
    <2>1. Started(r, k) /\ n = r.persistTail[1].win
        BY <1>2, <1>4, <1>7 DEF ChainSound
    <2>2. r.persistTail \in Seq(Persist) /\ r.persistTail # <<>> /\ r.persistTail[1].key = k
        BY <2>1, <1>1, TabFields DEF Started
    <2>3. 1 \in DOMAIN r.persistTail
        BY <2>2, TailFacts
    <2>4. PersistSound(r, r.persistTail[1])
        BY <2>3, <1>7 DEF ChainSound
    <2> QED
        BY <2>1, <2>2, <2>3, <2>4 DEF PersistSound
<1>9. \A i \in DOMAIN r.txs : r.txs[i].op \in {"read", "write"} => i = 1
    BY <1>2, <1>4, <1>7 DEF ChainSound
<1>10. \A i \in DOMAIN q.txs : q.txs[i].op \in {"read", "write"} => i = e /\ q.txs[i] = wtx
    BY <1>5, <1>9
<1>11. \A i \in DOMAIN q.txs : q.txs[i].op \notin {"read", "write"} =>
           i \in Nat /\ i + 1 \in DOMAIN r.txs /\ q.txs[i] = r.txs[i + 1]
    BY <1>2, <1>5
<1>12. \A w \in DOMAIN r.heap : \/ q.heap[w].order = r.heap[w].order
                                \/ w = n /\ q.heap[w].order = order /\ r.heap[w].key = k
    BY <1>3, <1>8 DEF Reordered, Cached
<1>13. RoomsSound(q) /\ KeysSound(q)
    BY <1>3 DEF TabSound, RoomsSound, RoomsHeld, KeysSound
<1>14. WindowsSound(q)
    <2>1. /\ \A j \in Keys : q.mem[j] # None => Cached(q, j, q.mem[j]) /\ q.heap[q.mem[j]].ready
          /\ \A j \in Keys : q.hydrating[j] # None =>
                Cached(q, j, q.hydrating[j]) /\ ~q.heap[q.hydrating[j]].ready /\ q.mem[j] = None
          /\ \A s \in Slots : Waits(q, s) => Cached(q, q.calls[s].msg.key, q.calls[s].win)
        BY ONLY <1>3, <1>6, <1>7 DEF WindowsSound, Cached
    <2>2. \A w \in DOMAIN q.heap : ~q.heap[w].ready =>
              \E i \in DOMAIN q.txs : q.txs[i].op = "hydrate" /\ q.txs[i].win = w
        <3> SUFFICES ASSUME NEW w \in DOMAIN q.heap, ~q.heap[w].ready
                     PROVE  \E i \in DOMAIN q.txs : q.txs[i].op = "hydrate" /\ q.txs[i].win = w
            OBVIOUS
        <3>1. PICK i \in DOMAIN r.txs : r.txs[i].op = "hydrate" /\ r.txs[i].win = w
            BY <1>6, <1>7 DEF WindowsSound
        <3>2. i # 1
            BY <3>1, <1>2
        <3> QED
            BY <3>1, <3>2, <1>5
    <2>3. \A i \in DOMAIN q.txs : q.txs[i].op = "hydrate" =>
              /\ Cached(q, q.txs[i].key, q.txs[i].win) /\ ~q.heap[q.txs[i].win].ready
              /\ \A j \in DOMAIN q.txs : q.txs[j].op = "hydrate" /\ q.txs[j].win = q.txs[i].win => i = j
        <3> SUFFICES ASSUME NEW i \in DOMAIN q.txs, q.txs[i].op = "hydrate"
                     PROVE  /\ Cached(q, q.txs[i].key, q.txs[i].win) /\ ~q.heap[q.txs[i].win].ready
                            /\ \A j \in DOMAIN q.txs : q.txs[j].op = "hydrate" /\ q.txs[j].win = q.txs[i].win => i = j
            OBVIOUS
        <3>1. i \in Nat /\ i + 1 \in DOMAIN r.txs /\ q.txs[i] = r.txs[i + 1]
            BY <1>11
        <3>2. /\ Cached(r, q.txs[i].key, q.txs[i].win) /\ ~r.heap[q.txs[i].win].ready
              /\ \A j \in DOMAIN r.txs : r.txs[j].op = "hydrate" /\ r.txs[j].win = q.txs[i].win => i + 1 = j
            BY <3>1, <1>7 DEF WindowsSound
        <3>3. \A j \in DOMAIN q.txs : q.txs[j].op = "hydrate" /\ q.txs[j].win = q.txs[i].win => j \in Nat /\ i + 1 = j + 1
            BY <3>2, <1>11
        <3>4. ~q.heap[q.txs[i].win].ready
            BY <3>2, <1>6 DEF Cached
        <3> QED
            BY ONLY <3>1, <3>2, <3>3, <3>4, <1>6
    <2> QED
        BY ONLY <2>1, <2>2, <2>3 DEF WindowsSound
<1>15. ChainSound(q)
    <2>1. \A w \in DOMAIN r.heap : r.heap[w].ready =>
              w \in DOMAIN q.heap /\ q.heap[w].ready /\ q.heap[w].key = r.heap[w].key
        BY <1>6
    <2>2. \A i \in DOMAIN q.txs : q.txs[i].op \in {"read", "write"} =>
              \E j \in DOMAIN r.txs : /\ r.txs[j].op \in {"read", "write"}
                                      /\ r.txs[j].key = q.txs[i].key /\ r.txs[j].win = q.txs[i].win
        BY <1>2, <1>4, <1>10
    <2>3. \A i, j \in DOMAIN q.txs : q.txs[i].op \in {"read", "write"} /\ q.txs[j].op \in {"read", "write"} => i = j
        BY <1>10
    <2>4. \E i \in DOMAIN q.txs : q.txs[i].op \in {"read", "write"}
        BY <1>2, <1>5
    <2> QED
        BY ONLY <2>1, <2>2, <2>3, <2>4, <1>1, <1>3, <1>6, <1>7, ChainKeeps
<1>16. OrdersFit(q, opened)
    <2>1. OrdersFit(r, opened)
        BY DEF TabSound
    <2>2. \A i \in DOMAIN q.txs : Fits(q.txs[i].seen, opened[q.txs[i].key])
        BY <2>1, <1>2, <1>5, EmptyFits DEF OrdersFit
    <2>3. \A w \in DOMAIN q.heap : Fits(q.heap[w].order, opened[q.heap[w].key])
        BY <2>1, <1>2, <1>6, <1>12 DEF OrdersFit
    <2> QED
        BY ONLY <2>1, <2>2, <2>3, <1>3 DEF OrdersFit
<1>17. ReadsFresh(q, stored2)
    BY <1>2, <1>10 DEF ReadsFresh
\* Windows and the store only grow.
<1>18. /\ \A w \in DOMAIN r.heap : r.heap[w].key \in promises => ToSet(r.heap[w].order) \subseteq ToSet(q.heap[w].order)
       /\ \A j \in Keys : j \in promises => ToSet(stored[j]) \subseteq ToSet(stored2[j])
    BY <1>2, <1>12
<1>19. WritesIt(q, promises)
    <2>1. WritesIt(r, promises)
        BY DEF TabSound
    <2> SUFFICES ASSUME NEW i \in DOMAIN r.persistTail, r.persistTail[i].key \in promises
                 PROVE  r.calls[r.persistTail[i].slot].msg.ctr \in ToSet(q.heap[r.persistTail[i].win].order)
        BY <1>3 DEF WritesIt
    <2>2. r.calls[r.persistTail[i].slot].msg.ctr \in ToSet(r.heap[r.persistTail[i].win].order)
        BY <2>1 DEF WritesIt
    <2>3. r.persistTail[i].win \in DOMAIN r.heap /\ r.heap[r.persistTail[i].win].key \in promises
        BY <1>7 DEF ChainSound, PersistSound, Cached
    <2> QED
        BY <2>2, <2>3, <1>18
<1>20. ASSUME NEW j \in Keys \ gone
       PROVE  /\ Steady(q, j) /\ StillKnown(q, j, known)
              /\ j \in promises => /\ Refuses(q, j, ToSet(stored2[j]))
                                   /\ \A m \in known : m.key = j => Remembers(q, j, m.ctr, ToSet(stored2[j]))
    <2>1. /\ Steady(r, j) /\ StillKnown(r, j, known)
          /\ j \in promises => /\ Refuses(r, j, ToSet(stored[j]))
                               /\ \A m \in known : m.key = j => Remembers(r, j, m.ctr, ToSet(stored[j]))
        BY DEF TabSound, Session
    <2>2. StillKnown(q, j, known)
        BY <2>1, <1>3 DEF StillKnown
    <2>3. ASSUME j \in promises PROVE Refuses(q, j, ToSet(stored2[j]))
        <3>1. Refuses(r, j, ToSet(stored[j]))
            BY <2>1, <2>3
        <3>2. ASSUME NEW i \in DOMAIN q.txs, q.txs[i].key = j, q.txs[i].op = "write"
              PROVE  r.calls[r.persistTail[1].slot].msg.ctr \in ToSet(stored2[j])
            <4>1. j = k
                BY <3>2, <1>2, <1>10
            <4>2. r.calls[r.persistTail[1].slot].msg.ctr \in ToSet(r.heap[n].order)
                BY <4>1, <2>3, <1>8 DEF TabSound, WritesIt
            <4> QED
                BY <4>1, <4>2, <2>3, <1>2
        <3> QED
            BY ONLY <3>1, <3>2, <1>3 DEF Refuses
    <2>4. Steady(q, j)
        <3>1. \A i \in DOMAIN q.txs : q.txs[i].key = j =>
                  q.txs[i].op # "delete" /\ (q.txs[i].op = "hydrate" => q.txs[i].win = r.hydrating[j])
            BY ONLY <2>1, <1>2, <1>5 DEF Steady
        <3>2. \A s \in Slots : Waits(r, s) /\ r.calls[s].msg.key = j =>
                  q.heap[r.calls[s].win].ready = r.heap[r.calls[s].win].ready
            BY <1>6, <1>7 DEF WindowsSound, Cached
        <3>3. \A s \in Slots : Waits(q, s) /\ q.calls[s].msg.key = j =>
                  q.calls[s].win = IF q.heap[q.calls[s].win].ready THEN q.mem[j] ELSE q.hydrating[j]
            BY ONLY <2>1, <3>2, <1>3, <1>6 DEF Steady
        <3> QED
            BY ONLY <2>1, <3>1, <3>3, <1>3, <1>6 DEF Steady
    <2>5. ASSUME j \in promises, NEW m \in known, m.key = j
          PROVE  Remembers(q, j, m.ctr, ToSet(stored2[j]))
        <3>1. Remembers(r, j, m.ctr, ToSet(stored[j])) /\ ToSet(stored[j]) \subseteq ToSet(stored2[j])
            BY <2>1, <2>5, <1>18
        <3>2. r.mem[j] # None => m.ctr \in ToSet(q.heap[r.mem[j]].order)
            BY <3>1, <2>5, <1>7, <1>18 DEF Remembers, WindowsSound, Cached
        <3>3. \A i \in DOMAIN q.txs : q.txs[i].key = j /\ q.txs[i].op = "hydrate" => m.ctr \in ToSet(q.txs[i].seen)
            BY ONLY <3>1, <1>11 DEF Remembers
        <3> QED
            BY ONLY <3>1, <3>2, <3>3, <1>3, <1>6 DEF Remembers
    <2> QED
        BY <2>2, <2>3, <2>4, <2>5
<1>21. \A m \in known : m.key \notin gone
    BY DEF TabSound, Session
<1>22. TabSound(q, opened, stored2, known, gone, promises)
    BY ONLY <1>3, <1>13, <1>14, <1>15, <1>16, <1>17, <1>19, <1>20, <1>21 DEF TabSound, Session
<1> QED
    BY <1>3, <1>22 DEF q

\* What persistDone does to a tab whose chain begins with p.
Finished(r, p) ==
    Return([releasePersisting(r, p.key) EXCEPT !.txs = Tail(@), !.persistTail = Tail(@)], p.slot)

LEMMA FinishedFields ==
    ASSUME NEW r \in Tab, r.txs # <<>>, r.persistTail # <<>>, NEW p, p = r.persistTail[1]
    PROVE  LET q == Finished(r, p) IN
           /\ q \in Tab /\ q.txs = Tail(r.txs) /\ q.persistTail = Tail(r.persistTail)
           /\ q.calls = [r.calls EXCEPT ![p.slot] = None]
           /\ q.persisting = [r.persisting EXCEPT ![p.key] = IF r.persisting[p.key] > 0 THEN r.persisting[p.key] - 1 ELSE 0]
           /\ q.mem = r.mem /\ q.hydrating = r.hydrating /\ q.heap = r.heap
           /\ q.rooms = r.rooms /\ q.replayWindows = r.replayWindows
           /\ q.keyCache = r.keyCache /\ q.gen = r.gen /\ q.overlapped = r.overlapped
<1> DEFINE q == Finished(r, p)
           np == [r.persisting EXCEPT ![p.key] = IF r.persisting[p.key] > 0 THEN r.persisting[p.key] - 1 ELSE 0]
           nc == [r.calls EXCEPT ![p.slot] = None]
<1>1. r.txs \in Seq(Transaction) /\ r.persistTail \in Seq(Persist)
    BY TabFields
<1>2. Tail(r.txs) \in Seq(Transaction) /\ Tail(r.persistTail) \in Seq(Persist) /\ p \in Persist
    BY <1>1, TailFacts
<1>3. p.key \in Keys /\ p.slot \in Slots
    BY <1>2 DEF Persist
<1>4. np \in [Keys -> Nat]
    <2>1. r.persisting \in [Keys -> Nat]
        BY TabFields
    <2>2. r.persisting[p.key] \in Nat
        BY <2>1, <1>3
    <2>3. (IF r.persisting[p.key] > 0 THEN r.persisting[p.key] - 1 ELSE 0) \in Nat
        BY <2>2
    <2> QED
        BY <2>1, <2>3
<1>5. nc \in [Slots -> Unseal \cup {None}]
    BY <1>3, TabFields
<1>6. q = [r EXCEPT !.persisting = np, !.txs = Tail(r.txs), !.persistTail = Tail(r.persistTail), !.calls = nc]
    BY DEF Finished, Return, releasePersisting, Tab
<1> HIDE DEF q, np, nc
<1>7. q \in Tab
    BY ONLY <1>2, <1>4, <1>5, <1>6, r \in Tab DEF Tab
<1>8. /\ q.txs = Tail(r.txs) /\ q.persistTail = Tail(r.persistTail) /\ q.calls = nc /\ q.persisting = np
      /\ q.mem = r.mem /\ q.hydrating = r.hydrating /\ q.heap = r.heap
      /\ q.rooms = r.rooms /\ q.replayWindows = r.replayWindows
      /\ q.keyCache = r.keyCache /\ q.gen = r.gen /\ q.overlapped = r.overlapped
    BY <1>6 DEF Tab
<1> QED
    BY ONLY <1>7, <1>8 DEF q, np, nc

LEMMA FinishedSound ==
    ASSUME NEW r, NEW opened, NEW stored, NEW known, NEW gone, NEW promises, NEW p,
           TabSound(r, opened, stored, known, gone, promises),
           r.txs # <<>>, r.txs[1].op = "write", p = r.persistTail[1]
    PROVE  /\ TabSound(Finished(r, p), opened, stored, known, gone, promises)
           /\ \A j : (Started(r, j) <=> j = p.key) /\ ~Started(Finished(r, p), j)
           /\ p.key \in Keys
<1> DEFINE q == Finished(r, p)
           k == p.key
           s == p.slot
<1>1. r \in Tab /\ r.txs \in Seq(Transaction) /\ r.persistTail \in Seq(Persist)
    BY TabFields DEF TabSound
<1>2. 1 \in DOMAIN r.txs
    BY <1>1, TailFacts
<1>3. ChainSound(r) /\ WindowsSound(r)
    BY DEF TabSound
<1>4. Started(r, r.txs[1].key)
    BY <1>2, <1>3 DEF ChainSound
<1>5. r.persistTail # <<>> /\ 1 \in DOMAIN r.persistTail /\ p.started /\ r.txs[1].key = k
    <2>1. r.persistTail # <<>> /\ p.started /\ r.txs[1].key = k
        BY <1>4 DEF Started
    <2> QED
        BY <2>1, <1>1, TailFacts
<1>6. /\ p \in Persist /\ k \in Keys /\ s \in Slots /\ PersistSound(r, p)
    BY <1>1, <1>3, <1>5, TabFields DEF ChainSound
<1>7. Persists(r, s) /\ r.calls[s].msg.key = k
    BY <1>6 DEF PersistSound
<1>8. /\ q \in Tab /\ q.txs = Tail(r.txs) /\ q.persistTail = Tail(r.persistTail)
      /\ q.calls = [r.calls EXCEPT ![s] = None]
      /\ q.persisting = [r.persisting EXCEPT ![k] = IF r.persisting[k] > 0 THEN r.persisting[k] - 1 ELSE 0]
      /\ q.mem = r.mem /\ q.hydrating = r.hydrating /\ q.heap = r.heap
      /\ q.rooms = r.rooms /\ q.replayWindows = r.replayWindows
      /\ q.keyCache = r.keyCache /\ q.gen = r.gen /\ q.overlapped = r.overlapped
    BY ONLY <1>1, <1>5, r.txs # <<>>, p = r.persistTail[1], FinishedFields
<1> HIDE DEF q
<1>9. /\ \A i \in DOMAIN q.txs : i \in Nat /\ i + 1 \in DOMAIN r.txs /\ i + 1 # 1 /\ q.txs[i] = r.txs[i + 1]
      /\ \A i \in DOMAIN r.txs : i # 1 => i \in Nat /\ i - 1 \in DOMAIN q.txs /\ q.txs[i - 1] = r.txs[i]
    BY <1>1, <1>8, TailFacts
<1>10. /\ \A i \in DOMAIN q.persistTail : /\ i \in Nat /\ i + 1 \in DOMAIN r.persistTail /\ i + 1 # 1
                                          /\ q.persistTail[i] = r.persistTail[i + 1]
       /\ \A i \in DOMAIN r.persistTail : i # 1 => /\ i \in Nat /\ i - 1 \in DOMAIN q.persistTail
                                                   /\ q.persistTail[i - 1] = r.persistTail[i]
    BY <1>1, <1>5, <1>8, TailFacts
<1>11. q.calls[s] = None /\ \A u \in Slots : u # s => q.calls[u] = r.calls[u]
    BY <1>1, <1>6, <1>8, TabFields
<1>12. \A u \in Slots : q.calls[u] # None => u # s /\ q.calls[u] = r.calls[u]
    BY <1>11
<1>13. /\ \A j, w : Cached(q, j, w) <=> Cached(r, j, w)
       /\ \A u \in Slots : Persists(q, u) <=> Persists(r, u) /\ u # s
       /\ \A u \in Slots : Waits(q, u) <=> Waits(r, u)
    BY <1>7, <1>8, <1>11 DEF Cached, Persists, Waits
<1>14. \A i \in DOMAIN q.txs : q.txs[i].op \notin {"read", "write"}
    <2>1. \A i \in DOMAIN r.txs : r.txs[i].op \in {"read", "write"} => i = 1
        BY <1>2, <1>3 DEF ChainSound
    <2> QED
        BY <2>1, <1>9
<1>15. \A i \in DOMAIN q.persistTail : ~q.persistTail[i].started /\ q.persistTail[i].slot # s
    <2>1. \A i \in DOMAIN r.persistTail : i # 1 => ~r.persistTail[i].started /\ r.persistTail[i].slot # s
        BY <1>3, <1>5 DEF ChainSound
    <2> QED
        BY ONLY <2>1, <1>10
<1>16. \A j : (Started(r, j) <=> j = k) /\ ~Started(q, j)
    <2>1. q.persistTail # <<>> => 1 \in DOMAIN q.persistTail
        <3>1. q.persistTail \in Seq(Persist)
            BY <1>8, TabFields
        <3> QED
            BY <3>1, TailFacts
    <2> QED
        BY <2>1, <1>5, <1>15 DEF Started
<1>17. RoomsSound(q) /\ KeysSound(q)
    <2>1. RoomsSound(r) /\ KeysSound(r)
        BY DEF TabSound
    <2>2. RoomsSound(q)
        BY ONLY <2>1, <1>8, <1>12 DEF RoomsSound, RoomsHeld
    <2>3. KeysSound(q)
        BY ONLY <2>1, <1>8, <1>12 DEF KeysSound
    <2> QED
        BY <2>2, <2>3
<1>18. WindowsSound(q)
    <2>1. /\ \A j \in Keys : q.mem[j] # None => Cached(q, j, q.mem[j]) /\ q.heap[q.mem[j]].ready
          /\ \A j \in Keys : q.hydrating[j] # None =>
                Cached(q, j, q.hydrating[j]) /\ ~q.heap[q.hydrating[j]].ready /\ q.mem[j] = None
        BY ONLY <1>3, <1>8, <1>13 DEF WindowsSound
    <2>2. \A u \in Slots : Waits(q, u) => Cached(q, q.calls[u].msg.key, q.calls[u].win)
        BY <1>3, <1>12, <1>13 DEF WindowsSound, Waits
    <2>3. \A w \in DOMAIN q.heap : ~q.heap[w].ready =>
              \E i \in DOMAIN q.txs : q.txs[i].op = "hydrate" /\ q.txs[i].win = w
        <3> SUFFICES ASSUME NEW w \in DOMAIN q.heap, ~q.heap[w].ready
                     PROVE  \E i \in DOMAIN q.txs : q.txs[i].op = "hydrate" /\ q.txs[i].win = w
            OBVIOUS
        <3>1. PICK i \in DOMAIN r.txs : r.txs[i].op = "hydrate" /\ r.txs[i].win = w
            BY <1>3, <1>8 DEF WindowsSound
        <3>2. i # 1
            BY <3>1
        <3> QED
            BY <3>1, <3>2, <1>9
    <2>4. \A i \in DOMAIN q.txs : q.txs[i].op = "hydrate" =>
              /\ Cached(q, q.txs[i].key, q.txs[i].win) /\ ~q.heap[q.txs[i].win].ready
              /\ \A j \in DOMAIN q.txs : q.txs[j].op = "hydrate" /\ q.txs[j].win = q.txs[i].win => i = j
        <3> SUFFICES ASSUME NEW i \in DOMAIN q.txs, q.txs[i].op = "hydrate"
                     PROVE  /\ Cached(q, q.txs[i].key, q.txs[i].win) /\ ~q.heap[q.txs[i].win].ready
                            /\ \A j \in DOMAIN q.txs : q.txs[j].op = "hydrate" /\ q.txs[j].win = q.txs[i].win => i = j
            OBVIOUS
        <3>1. i \in Nat /\ i + 1 \in DOMAIN r.txs /\ q.txs[i] = r.txs[i + 1]
            BY <1>9
        <3>2. /\ Cached(r, q.txs[i].key, q.txs[i].win) /\ ~r.heap[q.txs[i].win].ready
              /\ \A j \in DOMAIN r.txs : r.txs[j].op = "hydrate" /\ r.txs[j].win = q.txs[i].win => i + 1 = j
            BY <3>1, <1>3 DEF WindowsSound
        <3>3. \A j \in DOMAIN q.txs : q.txs[j].op = "hydrate" /\ q.txs[j].win = q.txs[i].win => j \in Nat /\ i + 1 = j + 1
            BY <3>2, <1>9
        <3> QED
            BY ONLY <3>1, <3>2, <3>3, <1>8, <1>13
    <2> QED
        BY ONLY <2>1, <2>2, <2>3, <2>4 DEF WindowsSound
<1>19. ChainSound(q)
    <2>1. \A i \in DOMAIN q.persistTail : PersistSound(q, q.persistTail[i])
        <3> SUFFICES ASSUME NEW i \in DOMAIN q.persistTail PROVE PersistSound(q, q.persistTail[i])
            OBVIOUS
        <3> DEFINE a == q.persistTail[i]
        <3>1. PersistSound(r, a) /\ a.slot # s /\ a.slot \in Slots
            <4>1. i + 1 \in DOMAIN r.persistTail /\ a = r.persistTail[i + 1] /\ a.slot # s
                BY ONLY <1>10, <1>15, i \in DOMAIN q.persistTail
            <4> HIDE DEF a
            <4>2. PersistSound(r, a)
                BY ONLY <4>1, <1>3 DEF ChainSound
            <4>3. a.slot \in Slots
                BY ONLY <4>1, <1>1, TabFields
            <4> QED
                BY ONLY <4>1, <4>2, <4>3
        <3> HIDE DEF a
        <3>2. PersistSound(q, a)
            BY ONLY <3>1, <1>8, <1>11, <1>13 DEF PersistSound
        <3> QED
            BY <3>2 DEF a
    <2>2. \A i, j \in DOMAIN q.persistTail : q.persistTail[j].slot = q.persistTail[i].slot => i = j
        <3>1. \A i, j \in DOMAIN r.persistTail : r.persistTail[j].slot = r.persistTail[i].slot => i = j
            BY <1>3 DEF ChainSound
        <3>2. \A i, j \in DOMAIN q.persistTail : q.persistTail[j].slot = q.persistTail[i].slot => i + 1 = j + 1
            BY ONLY <3>1, <1>10
        <3> QED
            BY ONLY <3>2, <1>10
    <2>3. \A u \in Slots : Persists(q, u) => \E i \in DOMAIN q.persistTail : q.persistTail[i].slot = u
        <3> SUFFICES ASSUME NEW u \in Slots, Persists(q, u)
                     PROVE  \E i \in DOMAIN q.persistTail : q.persistTail[i].slot = u
            OBVIOUS
        <3>1. PICK i \in DOMAIN r.persistTail : r.persistTail[i].slot = u
            BY <1>3, <1>13 DEF ChainSound
        <3>2. i # 1
            BY <3>1, <1>13
        <3> QED
            BY <3>1, <3>2, <1>10
    <2> QED
        BY ONLY <2>1, <2>2, <2>3, <1>14, <1>15, <1>16 DEF ChainSound
<1>20. OrdersFit(q, opened)
    <2>1. OrdersFit(r, opened)
        BY DEF TabSound
    <2> QED
        BY ONLY <2>1, <1>8, <1>9, <1>12 DEF OrdersFit
<1>21. ReadsFresh(q, stored)
    BY <1>14 DEF ReadsFresh
<1>22. WritesIt(q, promises)
    <2>1. WritesIt(r, promises)
        BY DEF TabSound
    <2> SUFFICES ASSUME NEW i \in DOMAIN q.persistTail, q.persistTail[i].key \in promises
                 PROVE  q.calls[q.persistTail[i].slot].msg.ctr \in ToSet(q.heap[q.persistTail[i].win].order)
        BY DEF WritesIt
    <2>2. i + 1 \in DOMAIN r.persistTail /\ q.persistTail[i] = r.persistTail[i + 1]
        BY <1>10
    <2>3. r.calls[q.persistTail[i].slot].msg.ctr \in ToSet(r.heap[q.persistTail[i].win].order)
        BY <2>1, <2>2 DEF WritesIt
    <2>4. q.persistTail[i].slot \in Slots /\ q.persistTail[i].slot # s
        BY <1>1, <1>15, <2>2, TabFields
    <2> QED
        BY <2>3, <2>4, <1>8, <1>11
<1>23. /\ PersistsOf(q, k) = PersistsOf(r, k) \ {s} /\ s \in PersistsOf(r, k)
       /\ \A j : j # k => PersistsOf(q, j) = PersistsOf(r, j)
       /\ \A j : \A u \in PersistsOf(r, j) : u \in Slots /\ (u # s => u \in PersistsOf(q, j) /\ q.calls[u] = r.calls[u])
    BY <1>6, <1>7, <1>11, <1>13 DEF PersistsOf
<1>24. ASSUME NEW j \in Keys \ gone
       PROVE  /\ Steady(q, j) /\ StillKnown(q, j, known)
              /\ j \in promises => /\ Refuses(q, j, ToSet(stored[j]))
                                   /\ \A m \in known : m.key = j => Remembers(q, j, m.ctr, ToSet(stored[j]))
    <2>1. /\ Steady(r, j) /\ StillKnown(r, j, known)
          /\ j \in promises => /\ Refuses(r, j, ToSet(stored[j]))
                               /\ \A m \in known : m.key = j => Remembers(r, j, m.ctr, ToSet(stored[j]))
        BY DEF TabSound, Session
    <2>2. StillKnown(q, j, known)
        BY ONLY <2>1, <1>12 DEF StillKnown
    <2>3. Refuses(r, j, ToSet(stored[j])) => Refuses(q, j, ToSet(stored[j]))
        BY ONLY <1>12, <1>14 DEF Refuses
    <2>4. q.persisting[j] = Cardinality(PersistsOf(q, j))
        <3>1. r.persisting[j] = Cardinality(PersistsOf(r, j)) /\ r.persisting \in [Keys -> Nat]
            BY <2>1, <1>1, TabFields DEF Steady
        <3>2. CASE j = k
            <4>1. IsFiniteSet(PersistsOf(r, k))
                BY ChatBoundsAssumption, FS_Subset DEF PersistsOf
            <4>2. Cardinality(PersistsOf(r, k) \ {s}) = Cardinality(PersistsOf(r, k)) - 1
                BY <4>1, <1>23, FS_RemoveElement
            <4>3. Cardinality(PersistsOf(r, k)) # 0
                BY <4>1, <1>23, FS_EmptySet
            <4>4. q.persisting[k] = IF r.persisting[k] > 0 THEN r.persisting[k] - 1 ELSE 0
                BY <3>1, <1>6, <1>8
            <4>5. r.persisting[k] \in Nat
                BY <3>1, <1>6
            <4> QED
                BY ONLY <3>1, <3>2, <4>2, <4>3, <4>4, <4>5, <1>23
        <3>3. CASE j # k
            BY <3>1, <3>3, <1>8, <1>23
        <3> QED
            BY <3>2, <3>3
    <2>5. Steady(q, j)
        <3>1. \A u \in Slots : Waits(q, u) => q.calls[u] = r.calls[u]
            BY <1>12 DEF Waits
        <3> QED
            BY ONLY <2>1, <2>4, <3>1, <1>8, <1>9, <1>13 DEF Steady
    <2>6. ASSUME j \in promises, NEW m \in known, m.key = j
          PROVE  Remembers(q, j, m.ctr, ToSet(stored[j]))
        <3>1. Remembers(r, j, m.ctr, ToSet(stored[j])) /\ Refuses(r, j, ToSet(stored[j]))
            BY <2>1, <2>6
        <3>2. m.ctr \in ToSet(stored[j]) \/ \E u \in PersistsOf(q, j) : q.calls[u].msg.ctr = m.ctr
            <4>1. CASE m.ctr \in ToSet(stored[j])
                BY <4>1
            <4>2. CASE \E u \in PersistsOf(r, j) : r.calls[u].msg.ctr = m.ctr
                <5>1. PICK u \in PersistsOf(r, j) : r.calls[u].msg.ctr = m.ctr
                    BY <4>2
                <5>2. CASE u # s
                    BY <5>1, <5>2, <1>23
                <5>3. CASE u = s
                    <6>1. j = k
                        BY <5>1, <5>3, <1>7 DEF PersistsOf
                    <6> QED
                        BY <5>1, <5>3, <6>1, <3>1, <1>2, <1>5 DEF Refuses
                <5> QED
                    BY <5>2, <5>3
            <4> QED
                BY <3>1, <4>1, <4>2 DEF Remembers
        <3> QED
            BY ONLY <3>1, <3>2, <1>8, <1>9 DEF Remembers
    <2> QED
        BY <2>1, <2>2, <2>3, <2>5, <2>6
<1>25. \A m \in known : m.key \notin gone
    BY DEF TabSound, Session
<1>26. TabSound(q, opened, stored, known, gone, promises)
    BY ONLY <1>8, <1>17, <1>18, <1>19, <1>20, <1>21, <1>22, <1>24, <1>25 DEF TabSound, Session
<1> QED
    BY <1>6, <1>16, <1>26 DEF q

(***************************************************************************)
(* Rotation, what clear does later, and a new session.                     *)
(***************************************************************************)
\* rotate before the record is deleted; overlapped are the rooms rotated during a
\* derivation.
Rotated(r, k, overlapped) ==
    [detachRooms(evictRoom(r, k), {k}) EXCEPT !.gen[k] = @ + 1, !.overlapped = overlapped]

LEMMA RotatedSound ==
    ASSUME NEW r, NEW opened, NEW stored, NEW known, NEW gone, NEW promises, NEW k \in Keys, NEW overlapped,
           TabSound(r, opened, stored, known, gone, promises), r.gen[k] < MaxGen,
           r.overlapped \subseteq overlapped, overlapped \subseteq Keys,
           (\E s \in Slots : r.calls[s] # None /\ r.calls[s].pc = "derive" /\ r.calls[s].msg.key = k) => k \in overlapped
    PROVE  /\ TabSound(Rotated(r, k, overlapped), opened, stored, known, gone, promises)
           /\ Alike(r, Rotated(r, k, overlapped))
<1> DEFINE a == evictRoom(r, k)
           b == detachRooms(a, {k})
           q == Rotated(r, k, overlapped)
<1>1. r \in Tab /\ RoomsSound(r) /\ KeysSound(r)
    BY DEF TabSound
<1>2. [r.keyCache EXCEPT ![k] = None] \in [Keys -> Gens \cup {None}]
    BY <1>1, TabFields
<1>3. a = [r EXCEPT !.keyCache = [r.keyCache EXCEPT ![k] = None]]
    BY <1>1 DEF evictRoom, Tab
<1> HIDE DEF a
<1>4. a \in Tab
    BY ONLY <1>1, <1>2, <1>3 DEF Tab
<1>5. /\ a.keyCache = [r.keyCache EXCEPT ![k] = None] /\ a.gen = r.gen /\ a.overlapped = r.overlapped
      /\ a.calls = r.calls /\ a.rooms = r.rooms /\ a.replayWindows = r.replayWindows
      /\ a.mem = r.mem /\ a.hydrating = r.hydrating /\ a.heap = r.heap /\ a.txs = r.txs
      /\ a.persistTail = r.persistTail /\ a.persisting = r.persisting
    BY <1>1, <1>3 DEF Tab
<1>6. Alike(r, a) /\ RoomsSound(a)
    BY <1>1, <1>5 DEF Alike, SameCall, RoomsSound, RoomsHeld
<1>7. a.keyCache[k] = None /\ \A j \in Keys : j # k => a.keyCache[j] = r.keyCache[j]
    BY <1>1, <1>5, TabFields
<1>8. KeysSound(a)
    BY ONLY <1>1, <1>5, <1>7 DEF KeysSound
<1>9. /\ b \in Tab /\ Alike(a, b) /\ b.keyCache = a.keyCache /\ b.gen = a.gen /\ b.overlapped = a.overlapped
      /\ RoomsSound(b)
    BY <1>4, <1>6, DetachAlike
<1>10. Alike(r, b)
    BY <1>6, <1>9, AlikeTwice
<1>11. q = [b EXCEPT !.gen = [b.gen EXCEPT ![k] = b.gen[k] + 1], !.overlapped = overlapped]
    BY <1>9 DEF Rotated, Tab, a
<1> HIDE DEF b, q
<1>12. [b.gen EXCEPT ![k] = b.gen[k] + 1] \in [Keys -> Gens]
    <2>1. r.gen \in [Keys -> Gens] /\ b.gen = r.gen
        BY <1>1, <1>5, <1>9, TabFields
    <2>2. r.gen[k] + 1 \in Gens
        BY <2>1, ChatBoundsAssumption DEF Gens
    <2> QED
        BY <2>1, <2>2
<1>13. q \in Tab
    BY ONLY <1>9, <1>11, <1>12, overlapped \subseteq Keys DEF Tab
<1>14. /\ q.gen = [b.gen EXCEPT ![k] = b.gen[k] + 1] /\ q.overlapped = overlapped /\ q.keyCache = b.keyCache
       /\ q.calls = b.calls /\ q.rooms = b.rooms /\ q.replayWindows = b.replayWindows
       /\ q.mem = b.mem /\ q.hydrating = b.hydrating /\ q.heap = b.heap /\ q.txs = b.txs
       /\ q.persistTail = b.persistTail /\ q.persisting = b.persisting
    BY <1>9, <1>11 DEF Tab
<1>15. Alike(r, q) /\ RoomsSound(q)
    <2>1. Alike(b, q) /\ RoomsSound(q)
        BY <1>9, <1>14 DEF Alike, SameCall, RoomsSound, RoomsHeld
    <2> QED
        BY <2>1, <1>10, AlikeTwice
<1>16. \A j \in Keys : j # k => q.gen[j] = r.gen[j] /\ q.keyCache[j] = r.keyCache[j]
    BY <1>1, <1>5, <1>7, <1>9, <1>14, TabFields
<1>17. KeysSound(q)
    <2>1. \A j \in Keys : q.keyCache[j] # None /\ q.keyCache[j] < q.gen[j] => j \in q.overlapped
        <3> SUFFICES ASSUME NEW j \in Keys, q.keyCache[j] # None, q.keyCache[j] < q.gen[j]
                     PROVE  j \in r.overlapped
            BY <1>14
        <3>1. j # k
            BY <1>7, <1>9, <1>14
        <3> QED
            BY <3>1, <1>1, <1>16 DEF KeysSound
    <2>2. \A s \in Slots : q.calls[s] # None =>
              /\ q.calls[s].userKey < q.calls[s].began => q.calls[s].msg.key \in q.overlapped
              /\ q.calls[s].pc = "derive" /\ q.calls[s].userKey < q.gen[q.calls[s].msg.key] =>
                    q.calls[s].msg.key \in q.overlapped
        <3> SUFFICES ASSUME NEW s \in Slots, q.calls[s] # None
                     PROVE  /\ q.calls[s].userKey < q.calls[s].began => q.calls[s].msg.key \in overlapped
                            /\ q.calls[s].pc = "derive" /\ q.calls[s].userKey < q.gen[q.calls[s].msg.key] =>
                                  q.calls[s].msg.key \in overlapped
            BY <1>14
        <3>1. /\ r.calls[s] # None /\ q.calls[s].userKey = r.calls[s].userKey /\ q.calls[s].began = r.calls[s].began
              /\ q.calls[s].msg = r.calls[s].msg /\ q.calls[s].pc = r.calls[s].pc
            BY <1>15 DEF Alike, SameCall
        <3>2. r.calls[s].msg.key \in Keys
            BY <3>1, <1>1, TabFields
        <3>3. /\ r.calls[s].userKey < r.calls[s].began => r.calls[s].msg.key \in r.overlapped
              /\ r.calls[s].pc = "derive" /\ r.calls[s].userKey < r.gen[r.calls[s].msg.key] =>
                    r.calls[s].msg.key \in r.overlapped
            BY <1>1, <3>1 DEF KeysSound
        <3>4. CASE r.calls[s].msg.key = k
            BY <3>1, <3>3, <3>4
        <3>5. CASE r.calls[s].msg.key # k
            BY <3>1, <3>2, <3>3, <3>5, <1>16
        <3> QED
            BY <3>4, <3>5
    <2> QED
        BY <2>1, <2>2 DEF KeysSound
<1>18. TabSound(q, opened, stored, known, gone, promises)
    BY <1>13, <1>15, <1>17, AlikeSound
<1> QED
    BY <1>15, <1>18 DEF q

\* A room that was rotated gets a transaction that deletes its record.
LEMMA DeleteSound ==
    ASSUME NEW r, NEW opened, NEW stored, NEW known, NEW gone, NEW promises, NEW k \in Keys,
           NEW ok \in BOOLEAN, TabSound(r, opened, stored, known, gone, promises), k \in gone
    PROVE  LET q == Create(r, "delete", k, 0, <<>>, ok) IN
           TabSound(q, opened, stored, known, gone, promises) /\ q.persistTail = r.persistTail
<1> DEFINE q == Create(r, "delete", k, 0, <<>>, ok)
           tx == [op |-> "delete", key |-> k, win |-> 0, seen |-> <<>>, ok |-> ok]
           e == Len(r.txs) + 1
<1>1. r \in Tab /\ r.txs \in Seq(Transaction)
    BY TabFields DEF TabSound
<1>2. tx \in Transaction /\ tx.op = "delete" /\ tx.key = k /\ tx.seen = <<>>
    BY EmptyFits DEF Transaction
<1>3. q = [r EXCEPT !.txs = Append(r.txs, tx)]
    BY <1>1 DEF Create, Tab
<1> HIDE DEF q, tx
<1>4. Append(r.txs, tx) \in Seq(Transaction)
    BY <1>1, <1>2
<1>5. q \in Tab
    BY ONLY <1>1, <1>3, <1>4 DEF Tab
<1>6. /\ q.txs = Append(r.txs, tx) /\ q.persistTail = r.persistTail
      /\ q.mem = r.mem /\ q.hydrating = r.hydrating /\ q.heap = r.heap
      /\ q.persisting = r.persisting /\ q.calls = r.calls
      /\ q.rooms = r.rooms /\ q.replayWindows = r.replayWindows
      /\ q.keyCache = r.keyCache /\ q.gen = r.gen /\ q.overlapped = r.overlapped
    BY <1>1, <1>3 DEF Tab
<1>7. /\ e \in DOMAIN q.txs /\ q.txs[e] = tx
      /\ \A i \in DOMAIN r.txs : i \in DOMAIN q.txs /\ q.txs[i] = r.txs[i] /\ i # e
      /\ \A i \in DOMAIN q.txs : i \in DOMAIN r.txs \/ i = e
    BY <1>1, <1>2, <1>6, AppendFacts
<1> HIDE DEF e
<1>8. /\ \A j, w : Cached(q, j, w) <=> Cached(r, j, w)
      /\ \A s : (Persists(q, s) <=> Persists(r, s)) /\ (Waits(q, s) <=> Waits(r, s))
      /\ \A j : PersistsOf(q, j) = PersistsOf(r, j)
      /\ \A j : Started(q, j) <=> Started(r, j)
    BY <1>6 DEF Cached, Persists, Waits, PersistsOf, Started
<1>9. \A i \in DOMAIN q.txs : q.txs[i].op # "delete" => i \in DOMAIN r.txs /\ q.txs[i] = r.txs[i]
    BY <1>2, <1>7
<1>10. RoomsSound(q) /\ KeysSound(q)
    BY <1>6 DEF TabSound, RoomsSound, RoomsHeld, KeysSound
<1>11. WindowsSound(q)
    <2>1. WindowsSound(r)
        BY DEF TabSound
    <2>2. \A w \in DOMAIN q.heap : ~q.heap[w].ready =>
              \E i \in DOMAIN q.txs : q.txs[i].op = "hydrate" /\ q.txs[i].win = w
        BY ONLY <2>1, <1>6, <1>7 DEF WindowsSound
    <2>3. /\ \A j \in Keys : q.mem[j] # None => Cached(q, j, q.mem[j]) /\ q.heap[q.mem[j]].ready
          /\ \A j \in Keys : q.hydrating[j] # None =>
                Cached(q, j, q.hydrating[j]) /\ ~q.heap[q.hydrating[j]].ready /\ q.mem[j] = None
          /\ \A s \in Slots : Waits(q, s) => Cached(q, q.calls[s].msg.key, q.calls[s].win)
        BY ONLY <2>1, <1>6, <1>8 DEF WindowsSound
    <2>4. \A i \in DOMAIN q.txs : q.txs[i].op = "hydrate" =>
              /\ Cached(q, q.txs[i].key, q.txs[i].win) /\ ~q.heap[q.txs[i].win].ready
              /\ \A j \in DOMAIN q.txs : q.txs[j].op = "hydrate" /\ q.txs[j].win = q.txs[i].win => i = j
        BY ONLY <2>1, <1>6, <1>8, <1>9 DEF WindowsSound
    <2> QED
        BY ONLY <2>2, <2>3, <2>4 DEF WindowsSound
<1>12. ChainSound(q)
    <2>1. ChainSound(r)
        BY DEF TabSound
    <2>2. \A i \in DOMAIN q.txs : q.txs[i].op \in {"read", "write"} => i \in DOMAIN r.txs /\ q.txs[i] = r.txs[i]
        BY <1>9
    <2>3. \A i, j \in DOMAIN q.txs : q.txs[i].op \in {"read", "write"} /\ q.txs[j].op \in {"read", "write"} => i = j
        BY ONLY <2>1, <2>2 DEF ChainSound
    <2> QED
        BY ONLY <2>1, <2>2, <2>3, <1>1, <1>6, <1>7, <1>8, ChainKeeps
<1>13. OrdersFit(q, opened)
    <2>1. OrdersFit(r, opened)
        BY DEF TabSound
    <2>2. \A i \in DOMAIN q.txs : Fits(q.txs[i].seen, opened[q.txs[i].key])
        BY <2>1, <1>2, <1>7, EmptyFits DEF OrdersFit
    <2> QED
        BY ONLY <2>1, <2>2, <1>6 DEF OrdersFit
<1>14. ReadsFresh(q, stored) /\ WritesIt(q, promises)
    <2>1. ReadsFresh(r, stored) /\ WritesIt(r, promises)
        BY DEF TabSound
    <2>2. ReadsFresh(q, stored)
        BY ONLY <2>1, <1>9 DEF ReadsFresh
    <2> QED
        BY ONLY <2>1, <2>2, <1>6 DEF WritesIt
<1>15. ASSUME NEW j \in Keys \ gone
       PROVE  /\ Steady(q, j) /\ StillKnown(q, j, known)
              /\ j \in promises => /\ Refuses(q, j, ToSet(stored[j]))
                                   /\ \A m \in known : m.key = j => Remembers(q, j, m.ctr, ToSet(stored[j]))
    <2>1. /\ Steady(r, j) /\ StillKnown(r, j, known) /\ j # k
          /\ j \in promises => /\ Refuses(r, j, ToSet(stored[j]))
                               /\ \A m \in known : m.key = j => Remembers(r, j, m.ctr, ToSet(stored[j]))
        BY DEF TabSound, Session
    <2>2. StillKnown(q, j, known)
        BY <2>1, <1>6 DEF StillKnown
    <2>3. Refuses(r, j, ToSet(stored[j])) => Refuses(q, j, ToSet(stored[j]))
        BY ONLY <1>6, <1>9 DEF Refuses
    <2>4. Steady(q, j)
        BY ONLY <2>1, <1>2, <1>6, <1>7, <1>8 DEF Steady
    <2>5. \A m \in known : Remembers(r, j, m.ctr, ToSet(stored[j])) => Remembers(q, j, m.ctr, ToSet(stored[j]))
        BY ONLY <1>6, <1>8, <1>9 DEF Remembers
    <2> QED
        BY <2>1, <2>2, <2>3, <2>4, <2>5
<1>16. \A m \in known : m.key \notin gone
    BY DEF TabSound, Session
<1>17. TabSound(q, opened, stored, known, gone, promises)
    BY ONLY <1>5, <1>10, <1>11, <1>12, <1>13, <1>14, <1>15, <1>16 DEF TabSound, Session
<1> QED
    BY <1>6, <1>17 DEF q

\* What clear does to a tab when its delete, of the room k, is reported.
Cleared(r, k) ==
    [uncache(r, {k}) EXCEPT !.txs = Tail(@), !.hydrating[k] = None, !.persisting[k] = 0]

LEMMA ClearedSound ==
    ASSUME NEW r, NEW opened, NEW stored, NEW known, NEW gone, NEW promises, NEW k,
           TabSound(r, opened, stored, known, gone, promises),
           r.txs # <<>>, r.txs[1].op = "delete", k = r.txs[1].key
    PROVE  /\ TabSound(Cleared(r, k), opened, stored, known, gone, promises)
           /\ Cleared(r, k).persistTail = r.persistTail
<1> DEFINE a == uncache(r, {k})
           q == Cleared(r, k)
           mem == [j \in Keys |-> IF j \in {k} THEN None ELSE r.mem[j]]
<1>1. r \in Tab /\ r.txs \in Seq(Transaction)
    BY TabFields DEF TabSound
<1>2. 1 \in DOMAIN r.txs /\ k \in Keys
    BY <1>1, TailFacts, TabFields
\* A steady room has no delete.
<1>3. k \in gone
    BY <1>2 DEF TabSound, Session, Steady
<1>4. TabSound(a, opened, stored, known, gone, promises) /\ a.persistTail = r.persistTail
    <2>1. \A j \in Keys \ gone : j \in {k} => Idle(r, j)
        BY <1>3
    <2> QED
        BY ONLY <2>1, TabSound(r, opened, stored, known, gone, promises), UncacheSound
<1>5. a.txs = r.txs /\ a.mem[k] = None
    BY <1>1, <1>2 DEF uncache, Tab
<1>6. a \in Tab
    BY <1>4 DEF TabSound
<1> HIDE DEF a
<1>7. /\ q = [a EXCEPT !.txs = Tail(a.txs), !.hydrating = [a.hydrating EXCEPT ![k] = None],
                       !.persisting = [a.persisting EXCEPT ![k] = 0]]
    BY <1>6 DEF Cleared, Tab, a
<1> HIDE DEF q
<1>8. /\ Tail(a.txs) \in Seq(Transaction)
      /\ \A i \in DOMAIN Tail(a.txs) : i \in Nat /\ i + 1 \in DOMAIN a.txs /\ i + 1 # 1 /\ Tail(a.txs)[i] = a.txs[i + 1]
      /\ \A i \in DOMAIN a.txs : i # 1 => i \in Nat /\ i - 1 \in DOMAIN Tail(a.txs) /\ Tail(a.txs)[i - 1] = a.txs[i]
    BY <1>1, <1>5, TailFacts
<1>9. /\ [a.hydrating EXCEPT ![k] = None] \in [Keys -> Nat \cup {None}]
      /\ [a.persisting EXCEPT ![k] = 0] \in [Keys -> Nat]
    BY <1>2, <1>6, TabFields
<1>10. q \in Tab
    BY ONLY <1>6, <1>7, <1>8, <1>9 DEF Tab
<1>11. /\ q.txs = Tail(a.txs) /\ q.hydrating = [a.hydrating EXCEPT ![k] = None]
       /\ q.persisting = [a.persisting EXCEPT ![k] = 0] /\ q.persistTail = a.persistTail
       /\ q.mem = a.mem /\ q.heap = a.heap /\ q.calls = a.calls
       /\ q.rooms = a.rooms /\ q.replayWindows = a.replayWindows
       /\ q.keyCache = a.keyCache /\ q.gen = a.gen /\ q.overlapped = a.overlapped
    BY <1>6, <1>7 DEF Tab
<1>12. /\ q.hydrating[k] = None
       /\ \A j \in Keys : j # k => q.hydrating[j] = a.hydrating[j] /\ q.persisting[j] = a.persisting[j]
    BY <1>2, <1>6, <1>11, TabFields
<1>13. /\ \A i \in DOMAIN q.txs : i \in Nat /\ i + 1 \in DOMAIN a.txs /\ i + 1 # 1 /\ q.txs[i] = a.txs[i + 1]
       /\ \A i \in DOMAIN a.txs : i # 1 => i \in Nat /\ i - 1 \in DOMAIN q.txs /\ q.txs[i - 1] = a.txs[i]
       /\ a.txs[1].op = "delete"
    BY <1>5, <1>8, <1>11
<1>14. /\ \A j, w : Cached(q, j, w) <=> Cached(a, j, w)
       /\ \A s : (Persists(q, s) <=> Persists(a, s)) /\ (Waits(q, s) <=> Waits(a, s))
       /\ \A j : PersistsOf(q, j) = PersistsOf(a, j)
       /\ \A j : Started(q, j) <=> Started(a, j)
    BY <1>11 DEF Cached, Persists, Waits, PersistsOf, Started
<1>15. RoomsSound(q) /\ KeysSound(q)
    BY <1>4, <1>11 DEF TabSound, RoomsSound, RoomsHeld, KeysSound
<1>16. WindowsSound(q)
    <2>1. WindowsSound(a)
        BY <1>4 DEF TabSound
    <2>2. \A w \in DOMAIN q.heap : ~q.heap[w].ready =>
              \E i \in DOMAIN q.txs : q.txs[i].op = "hydrate" /\ q.txs[i].win = w
        <3> SUFFICES ASSUME NEW w \in DOMAIN q.heap, ~q.heap[w].ready
                     PROVE  \E i \in DOMAIN q.txs : q.txs[i].op = "hydrate" /\ q.txs[i].win = w
            OBVIOUS
        <3>1. PICK i \in DOMAIN a.txs : a.txs[i].op = "hydrate" /\ a.txs[i].win = w
            BY <2>1, <1>11 DEF WindowsSound
        <3>2. i # 1
            BY <3>1, <1>13
        <3> QED
            BY <3>1, <3>2, <1>13
    <2>3. /\ \A j \in Keys : q.mem[j] # None => Cached(q, j, q.mem[j]) /\ q.heap[q.mem[j]].ready
          /\ \A s \in Slots : Waits(q, s) => Cached(q, q.calls[s].msg.key, q.calls[s].win)
        BY ONLY <2>1, <1>11, <1>14 DEF WindowsSound
    <2>4. \A j \in Keys : q.hydrating[j] # None =>
              Cached(q, j, q.hydrating[j]) /\ ~q.heap[q.hydrating[j]].ready /\ q.mem[j] = None
        BY ONLY <2>1, <1>11, <1>12, <1>14 DEF WindowsSound
    <2>5. \A i \in DOMAIN q.txs : q.txs[i].op = "hydrate" =>
              /\ Cached(q, q.txs[i].key, q.txs[i].win) /\ ~q.heap[q.txs[i].win].ready
              /\ \A j \in DOMAIN q.txs : q.txs[j].op = "hydrate" /\ q.txs[j].win = q.txs[i].win => i = j
        <3> SUFFICES ASSUME NEW i \in DOMAIN q.txs, q.txs[i].op = "hydrate"
                     PROVE  /\ Cached(q, q.txs[i].key, q.txs[i].win) /\ ~q.heap[q.txs[i].win].ready
                            /\ \A j \in DOMAIN q.txs : q.txs[j].op = "hydrate" /\ q.txs[j].win = q.txs[i].win => i = j
            OBVIOUS
        <3>1. i \in Nat /\ i + 1 \in DOMAIN a.txs /\ q.txs[i] = a.txs[i + 1]
            BY <1>13
        <3>2. /\ Cached(a, q.txs[i].key, q.txs[i].win) /\ ~a.heap[q.txs[i].win].ready
              /\ \A j \in DOMAIN a.txs : a.txs[j].op = "hydrate" /\ a.txs[j].win = q.txs[i].win => i + 1 = j
            BY <3>1, <2>1 DEF WindowsSound
        <3>3. \A j \in DOMAIN q.txs : q.txs[j].op = "hydrate" /\ q.txs[j].win = q.txs[i].win => j \in Nat /\ i + 1 = j + 1
            BY <3>2, <1>13
        <3> QED
            BY ONLY <3>1, <3>2, <3>3, <1>11, <1>14
    <2> QED
        BY ONLY <2>2, <2>3, <2>4, <2>5 DEF WindowsSound
<1>17. ChainSound(q)
    <2>1. ChainSound(a)
        BY <1>4 DEF TabSound
    <2>2. \A i, j \in DOMAIN q.txs : q.txs[i].op \in {"read", "write"} /\ q.txs[j].op \in {"read", "write"} => i = j
        <3>1. \A i, j \in DOMAIN q.txs :
                  q.txs[i].op \in {"read", "write"} /\ q.txs[j].op \in {"read", "write"} => i + 1 = j + 1
            BY ONLY <2>1, <1>13 DEF ChainSound
        <3> QED
            BY ONLY <3>1, <1>13
    <2>3. \A i \in DOMAIN q.txs : q.txs[i].op \in {"read", "write"} =>
              \E j \in DOMAIN a.txs : /\ a.txs[j].op \in {"read", "write"}
                                      /\ a.txs[j].key = q.txs[i].key /\ a.txs[j].win = q.txs[i].win
        BY ONLY <1>13
    <2>4. (\E j \in DOMAIN a.txs : a.txs[j].op \in {"read", "write"}) =>
              \E i \in DOMAIN q.txs : q.txs[i].op \in {"read", "write"}
        <3>1. \A j \in DOMAIN a.txs : a.txs[j].op \in {"read", "write"} => j # 1
            BY ONLY <1>13
        <3> QED
            BY ONLY <3>1, <1>13
    <2> QED
        BY ONLY <2>1, <2>2, <2>3, <2>4, <1>6, <1>11, <1>14, ChainKeeps
<1>18. OrdersFit(q, opened)
    <2>1. OrdersFit(a, opened)
        BY <1>4 DEF TabSound
    <2> QED
        BY ONLY <2>1, <1>11, <1>13 DEF OrdersFit
<1>19. ReadsFresh(q, stored) /\ WritesIt(q, promises)
    <2>1. ReadsFresh(a, stored) /\ WritesIt(a, promises)
        BY <1>4 DEF TabSound
    <2>2. ReadsFresh(q, stored)
        <3> SUFFICES ASSUME NEW i \in DOMAIN q.txs, q.txs[i].op = "read"
                     PROVE  ToSet(stored[q.txs[i].key]) \subseteq ToSet(q.txs[i].seen)
            BY DEF ReadsFresh
        <3>1. i + 1 \in DOMAIN a.txs /\ q.txs[i] = a.txs[i + 1]
            BY <1>13
        <3> QED
            BY <2>1, <3>1 DEF ReadsFresh
    <2> QED
        BY ONLY <2>1, <2>2, <1>11 DEF WritesIt
<1>20. ASSUME NEW j \in Keys \ gone
       PROVE  /\ Steady(q, j) /\ StillKnown(q, j, known)
              /\ j \in promises => /\ Refuses(q, j, ToSet(stored[j]))
                                   /\ \A m \in known : m.key = j => Remembers(q, j, m.ctr, ToSet(stored[j]))
    <2>1. /\ Steady(a, j) /\ StillKnown(a, j, known) /\ j # k
          /\ j \in promises => /\ Refuses(a, j, ToSet(stored[j]))
                               /\ \A m \in known : m.key = j => Remembers(a, j, m.ctr, ToSet(stored[j]))
        BY <1>3, <1>4 DEF TabSound, Session
    <2>2. StillKnown(q, j, known)
        BY <2>1, <1>11 DEF StillKnown
    <2>3. Refuses(a, j, ToSet(stored[j])) => Refuses(q, j, ToSet(stored[j]))
        BY ONLY <1>11, <1>13 DEF Refuses
    <2>4. q.hydrating[j] = a.hydrating[j] /\ q.persisting[j] = a.persisting[j]
        BY <2>1, <1>12
    <2>5. Steady(q, j)
        BY ONLY <2>1, <2>4, <1>11, <1>13, <1>14 DEF Steady
    <2>6. \A m \in known : Remembers(a, j, m.ctr, ToSet(stored[j])) => Remembers(q, j, m.ctr, ToSet(stored[j]))
        BY ONLY <2>4, <1>11, <1>13, <1>14 DEF Remembers
    <2> QED
        BY <2>1, <2>2, <2>3, <2>5, <2>6
<1>21. \A m \in known : m.key \notin gone
    BY DEF TabSound, Session
<1>22. TabSound(q, opened, stored, known, gone, promises)
    BY ONLY <1>10, <1>15, <1>16, <1>17, <1>18, <1>19, <1>20, <1>21 DEF TabSound, Session
<1> QED
    BY <1>4, <1>11, <1>22 DEF q

LEMMA FreshSound ==
    ASSUME NEW shows \in SUBSET Keys, NEW gen \in [Keys -> Gens], NEW opened, NEW stored, NEW known, NEW promises,
           \A m \in known : m.key \in promises => m.ctr \in ToSet(stored[m.key])
    PROVE  LET q == createChatProvider(shows, gen) IN
           TabSound(q, opened, stored, known, {}, promises) /\ q.persistTail = <<>>
<1> DEFINE q == createChatProvider(shows, gen)
<1>1. /\ q.shows = shows /\ q.gen = gen /\ q.keyCache = Empty /\ q.replayWindows = Empty /\ q.rooms = <<>>
      /\ q.mem = Empty /\ q.memKeys = <<>> /\ q.hydrating = Empty /\ q.persisting = Zero
      /\ q.persistTail = <<>> /\ q.txs = <<>> /\ q.heap = <<>>
      /\ q.calls = [s \in Slots |-> None] /\ q.overlapped = {}
    BY DEF createChatProvider
<1>2. q \in Tab
    <2>1. /\ <<>> \in Seq(Keys) /\ <<>> \in Seq(Persist) /\ <<>> \in Seq(Transaction) /\ <<>> \in Seq(MemWindow)
          /\ Empty \in [Keys -> Gens \cup {None}] /\ Empty \in [Keys -> ReplayWindowType \cup {None}]
          /\ Empty \in [Keys -> Nat \cup {None}] /\ Zero \in [Keys -> Nat]
          /\ [s \in Slots |-> None] \in [Slots -> Unseal \cup {None}]
        BY DEF Empty, Zero
    <2> QED
        BY ONLY <2>1, shows \in SUBSET Keys, gen \in [Keys -> Gens] DEF createChatProvider, Tab
<1> HIDE DEF q
<1>3. /\ \A k \in Keys : q.keyCache[k] = None /\ q.mem[k] = None /\ q.hydrating[k] = None /\ q.persisting[k] = 0
      /\ \A s \in Slots : q.calls[s] = None
      /\ DOMAIN q.txs = {} /\ DOMAIN q.heap = {} /\ DOMAIN q.persistTail = {} /\ DOMAIN q.rooms = {}
      /\ Len(q.rooms) = 0 /\ q.persistTail = <<>>
    BY <1>1 DEF Empty, Zero
<1>4. /\ \A s \in Slots : ~Waits(q, s) /\ ~Persists(q, s)
      /\ \A k : ~Started(q, k) /\ PersistsOf(q, k) = {}
    BY <1>3 DEF Waits, Persists, Started, PersistsOf
<1>5. RoomsSound(q) /\ KeysSound(q)
    BY <1>3, WindowNat DEF RoomsSound, RoomsHeld, KeysSound, ToSet
<1>6. WindowsSound(q)
    BY ONLY <1>3, <1>4 DEF WindowsSound
<1>7. ChainSound(q)
    BY ONLY <1>3, <1>4 DEF ChainSound
<1>8. OrdersFit(q, opened) /\ ReadsFresh(q, stored) /\ WritesIt(q, promises)
    BY ONLY <1>3 DEF OrdersFit, ReadsFresh, WritesIt
<1>9. ASSUME NEW k \in Keys
      PROVE  /\ Steady(q, k) /\ StillKnown(q, k, known) /\ Refuses(q, k, ToSet(stored[k]))
             /\ k \in promises => \A m \in known : m.key = k => Remembers(q, k, m.ctr, ToSet(stored[k]))
    <2>1. Cardinality(PersistsOf(q, k)) = 0
        BY <1>4, FS_EmptySet
    <2>2. Steady(q, k)
        BY ONLY <2>1, <1>3, <1>4, k \in Keys DEF Steady
    <2>3. StillKnown(q, k, known) /\ Refuses(q, k, ToSet(stored[k]))
        BY ONLY <1>3 DEF StillKnown, Refuses
    <2>4. k \in promises => \A m \in known : m.key = k => Remembers(q, k, m.ctr, ToSet(stored[k]))
        BY <1>3 DEF Remembers
    <2> QED
        BY <2>2, <2>3, <2>4
<1>10. Session(q, known, {}, stored, promises)
    BY <1>9 DEF Session
<1> QED
    BY <1>1, <1>2, <1>5, <1>6, <1>7, <1>8, <1>10 DEF TabSound, q

(***************************************************************************)
(* The tabs together.                                                      *)
(***************************************************************************)
LEMMA PromisesShrink ==
    ASSUME HistoryTypeOK', failed => failed', \A k \in Keys : ctrs[k] \subseteq ctrs'[k]
    PROVE  Promises' \subseteq Promises
<1> SUFFICES ASSUME NEW k \in Keys, ~failed', Cardinality(ctrs'[k]) <= Window
             PROVE  Cardinality(ctrs[k]) <= Window
    BY DEF Promises, Promised
<1>1. IsFiniteSet(ctrs'[k]) /\ ctrs[k] \subseteq ctrs'[k]
    BY DEF HistoryTypeOK
<1>2. IsFiniteSet(ctrs[k]) /\ Cardinality(ctrs[k]) <= Cardinality(ctrs'[k])
    BY <1>1, FS_Subset
<1>3. Cardinality(ctrs[k]) \in Nat /\ Cardinality(ctrs'[k]) \in Nat
    BY <1>1, <1>2, FS_CardinalityType
<1> QED
    BY <1>2, <1>3, WindowNat

\* A step of one tab, the others bearing what it does to what they share.
LEMMA Compose ==
    ASSUME ChatInv, NEW t \in Tabs, NEW q, tabs' = [tabs EXCEPT ![t] = q],
           HistoryTypeOK', StoreInv', failed => failed', \A k \in Keys : ctrs[k] \subseteq ctrs'[k],
           lock' \in [Keys -> Tabs \cup {None}], \A k \in Keys : lock'[k] = t <=> Started(q, k),
           \A u \in Tabs \ {t}, k \in Keys : lock'[k] = u <=> lock[k] = u,
           TabSound(q, ctrs', store', knows'[t], rotated'[t], Promises'),
           \A u \in Tabs \ {t} :
               Bears(tabs[u], store, knows[u], rotated[u], store', knows'[u], rotated'[u], Promises')
    PROVE  ChatInv'
<1>1. Promises' \subseteq Promises
    BY PromisesShrink
<1>2. /\ tabs = [u \in Tabs |-> tabs[u]]
      /\ \A u \in Tabs : TabSound(tabs[u], ctrs, store, knows[u], rotated[u], Promises)
      /\ \A u \in Tabs, k \in Keys : lock[k] = u <=> Started(tabs[u], k)
    BY DEF ChatInv, LockInv
<1>3. /\ tabs'[t] = q /\ \A u \in Tabs \ {t} : tabs'[u] = tabs[u]
      /\ tabs' = [u \in Tabs |-> tabs'[u]]
    BY <1>2
<1>4. ASSUME NEW u \in Tabs \ {t}
      PROVE  TabSound(tabs[u], ctrs', store', knows'[u], rotated'[u], Promises')
    <2>1. TabSound(tabs[u], ctrs, store, knows[u], rotated[u], Promises)
        BY <1>2
    <2>2. Bears(tabs[u], store, knows[u], rotated[u], store', knows'[u], rotated'[u], Promises')
        OBVIOUS
    <2>3. \A k \in Keys : ctrs[k] \subseteq ctrs'[k]
        OBVIOUS
    <2> QED
        BY ONLY <2>1, <2>2, <2>3, <1>1, EnvSound
<1>5. \A u \in Tabs : TabSound(tabs'[u], ctrs', store', knows'[u], rotated'[u], Promises')
    BY <1>3, <1>4
<1>6. \A u \in Tabs, k \in Keys : lock'[k] = u <=> Started(tabs'[u], k)
    BY <1>2, <1>3
<1> QED
    BY <1>3, <1>5, <1>6 DEF ChatInv, LockInv

LEMMA BearsSame ==
    ASSUME NEW r, NEW opened, NEW stored, NEW known, NEW gone, NEW promises, NEW promises2,
           TabSound(r, opened, stored, known, gone, promises)
    PROVE  Bears(r, stored, known, gone, stored, known, gone, promises2)
BY DEF TabSound, Session, Bears

\* A step of one tab that leaves alone what the others see.
LEMMA LocalStep ==
    ASSUME ChatInv, NEW t \in Tabs, NEW q, tabs' = [tabs EXCEPT ![t] = q],
           UNCHANGED <<store, lock, ctrs, written, rotated>>, failed => failed',
           knows' \in [Tabs -> SUBSET Message], \A u \in Tabs \ {t} : knows'[u] = knows[u],
           TabSound(q, ctrs, store, knows'[t], rotated[t], Promises'),
           \A k \in Keys : Started(q, k) <=> Started(tabs[t], k)
    PROVE  ChatInv'
<1>1. HistoryTypeOK /\ StoreInv /\ LockInv
    BY DEF ChatInv
<1>2. HistoryTypeOK'
    BY <1>1 DEF HistoryTypeOK
<1>3. \A k \in Keys : ctrs[k] \subseteq ctrs'[k]
    OBVIOUS
<1>4. Promises' \subseteq Promises
    BY <1>2, <1>3, PromisesShrink
<1>5. StoreInv'
    BY <1>1, <1>4 DEF StoreInv
<1>6. /\ lock' \in [Keys -> Tabs \cup {None}] /\ \A k \in Keys : lock'[k] = t <=> Started(q, k)
      /\ \A u \in Tabs \ {t}, k \in Keys : lock'[k] = u <=> lock[k] = u
    BY <1>1 DEF LockInv
<1>7. ASSUME NEW u \in Tabs \ {t}
      PROVE  Bears(tabs[u], store, knows[u], rotated[u], store', knows'[u], rotated'[u], Promises')
    <2>1. TabSound(tabs[u], ctrs, store, knows[u], rotated[u], Promises)
        BY DEF ChatInv
    <2>2. Bears(tabs[u], store, knows[u], rotated[u], store, knows[u], rotated[u], Promises')
        BY ONLY <2>1, BearsSame
    <2> QED
        BY <2>2
<1>8. TabSound(q, ctrs', store', knows'[t], rotated'[t], Promises')
    OBVIOUS
<1> QED
    BY <1>2, <1>3, <1>5, <1>6, <1>7, <1>8, Compose

LEMMA QuietStep ==
    ASSUME ChatInv, NEW t \in Tabs, NEW q, tabs' = [tabs EXCEPT ![t] = q],
           UNCHANGED <<store, lock, history>>,
           TabSound(q, ctrs, store, knows[t], rotated[t], Promises),
           \A k \in Keys : Started(q, k) <=> Started(tabs[t], k)
    PROVE  ChatInv'
<1>1. UNCHANGED <<store, lock, ctrs, written, rotated>> /\ (failed => failed') /\ knows' = knows /\ Promises' = Promises
    BY DEF history, Promises, Promised
<1>2. knows' \in [Tabs -> SUBSET Message] /\ \A u \in Tabs \ {t} : knows'[u] = knows[u]
    BY <1>1 DEF ChatInv, HistoryTypeOK
<1>3. TabSound(q, ctrs, store, knows'[t], rotated[t], Promises')
    BY <1>1
<1> QED
    BY <1>1, <1>2, <1>3, LocalStep

LEMMA SameTail ==
    ASSUME NEW r, NEW q, q.persistTail = r.persistTail
    PROVE  \A k : Started(q, k) <=> Started(r, k)
BY DEF Started

(***************************************************************************)
(* Each action preserves the invariant.                                    *)
(***************************************************************************)
LEMMA UnsealStep ==
    ASSUME ChatInv, NEW t \in Tabs, NEW s \in Slots, NEW m \in Message, unseal(t, s, m)
    PROVE  ChatInv'
<1> DEFINE r == tabs[t]
           k == m.key
           c == [pc |-> IF r.keyCache[m.key] = None THEN "derive" ELSE "ready", msg |-> m,
                 userKey |-> IF r.keyCache[m.key] = None THEN r.gen[m.key] ELSE r.keyCache[m.key],
                 began |-> r.gen[m.key], known |-> m \in knows[t], rw |-> FALSE, win |-> 0]
           q == [r EXCEPT !.calls[s] = c]
<1>1. TabSound(r, ctrs, store, knows[t], rotated[t], Promises)
    BY DEF ChatInv
<1>2. r.calls[s] = None /\ tabs' = [tabs EXCEPT ![t] = q] /\ UNCHANGED <<store, lock, history>>
    BY DEF unseal, Update
<1>3. r \in Tab /\ KeysSound(r) /\ k \in Keys
    BY <1>1 DEF TabSound, Message
<1>4. r.gen[k] \in Gens /\ (r.keyCache[k] # None => r.keyCache[k] \in Gens)
    BY <1>3, TabFields
<1>5. /\ c.msg = m /\ c.pc \in {"derive", "ready"} /\ c.began = r.gen[k] /\ c.rw = FALSE /\ c.win = 0
      /\ c.known => m \in knows[t]
      /\ c.pc = "derive" => c.userKey = r.gen[k]
      /\ c.userKey = r.gen[k] \/ (r.keyCache[k] # None /\ c.userKey = r.keyCache[k])
    OBVIOUS
<1>6. c \in Unseal
    BY <1>4 DEF Unseal
<1> HIDE DEF c
<1>7. CallSound(r, c, ctrs, knows[t], rotated[t], Promises)
    <2>1. ~(r.gen[k] < r.gen[k])
        BY <1>4 DEF Gens
    <2>2. c.userKey < c.began => k \in r.overlapped
        BY <2>1, <1>3, <1>5 DEF KeysSound
    <2> QED
        BY ONLY <2>1, <2>2, <1>5 DEF CallSound
<1>8. ~Persists(r, s)
    BY <1>2 DEF Persists
<1>9. TabSound(q, ctrs, store, knows[t], rotated[t], Promises) /\ q.persistTail = r.persistTail
    BY <1>1, <1>6, <1>7, <1>8, SetCallSound
<1> HIDE DEF q
<1> QED
    BY <1>2, <1>9, SameTail, QuietStep

LEMMA DeriveStep ==
    ASSUME ChatInv, NEW t \in Tabs, NEW s \in Slots, deriveAesKeyAndSalt(t, s)
    PROVE  ChatInv'
<1> DEFINE r == tabs[t]
           c == r.calls[s]
           k == c.msg.key
           kc == [r.keyCache EXCEPT ![k] = c.userKey]
           a == [r EXCEPT !.keyCache = kc]
           d == [c EXCEPT !.pc = "ready"]
           q == [a EXCEPT !.calls[s] = d]
<1>1. TabSound(r, ctrs, store, knows[t], rotated[t], Promises)
    BY DEF ChatInv
<1>2. c # None /\ c.pc = "derive" /\ UNCHANGED <<store, lock, history>>
    BY DEF deriveAesKeyAndSalt, InState
<1>3. r \in Tab /\ KeysSound(r) /\ RoomsSound(r)
    BY <1>1 DEF TabSound
<1>4. c \in Unseal /\ k \in Keys /\ c.userKey \in Gens
    BY <1>2, <1>3, TabFields
<1>5. kc \in [Keys -> Gens \cup {None}] /\ kc[k] = c.userKey /\ \A j \in Keys : j # k => kc[j] = r.keyCache[j]
    BY <1>3, <1>4, TabFields
<1> HIDE DEF kc
<1>6. a \in Tab
    BY ONLY <1>3, <1>5 DEF Tab
<1>7. /\ a.keyCache = kc /\ a.gen = r.gen /\ a.overlapped = r.overlapped
      /\ a.calls = r.calls /\ a.rooms = r.rooms /\ a.replayWindows = r.replayWindows
      /\ a.mem = r.mem /\ a.hydrating = r.hydrating /\ a.heap = r.heap /\ a.txs = r.txs
      /\ a.persistTail = r.persistTail /\ a.persisting = r.persisting
    BY <1>3 DEF Tab
<1>8. tabs' = [tabs EXCEPT ![t] = q]
    <2>1. tabs' = [tabs EXCEPT ![t] = [r EXCEPT !.keyCache[k] = c.userKey, !.calls[s].pc = "ready"]]
        BY DEF deriveAesKeyAndSalt, Update
    <2>2. [r EXCEPT !.keyCache[k] = c.userKey, !.calls[s].pc = "ready"] = q
        BY <1>3, TabFields DEF Tab, kc
    <2> QED
        BY ONLY <2>1, <2>2
<1>9. KeysSound(a)
    <2>1. \A j \in Keys : a.keyCache[j] # None /\ a.keyCache[j] < a.gen[j] => j \in a.overlapped
        BY <1>2, <1>3, <1>5, <1>7 DEF KeysSound
    <2> QED
        BY ONLY <2>1, <1>3, <1>7 DEF KeysSound
<1> HIDE DEF a
<1>10. RoomsSound(a) /\ Alike(r, a)
    BY <1>3, <1>7 DEF RoomsSound, RoomsHeld, Alike, SameCall
<1>11. TabSound(a, ctrs, store, knows[t], rotated[t], Promises)
    BY <1>1, <1>6, <1>9, <1>10, AlikeSound
<1>12. d \in Unseal /\ d.pc = "ready" /\ d.msg = c.msg /\ d.userKey = c.userKey /\ d.began = c.began
       /\ (d.known => c.known) /\ (d.rw => c.rw)
    BY <1>4 DEF Unseal
<1> HIDE DEF d
<1>13. CallSound(a, d, ctrs, knows[t], rotated[t], Promises)
    <2>1. /\ c.userKey < c.began => k \in a.overlapped
          /\ c.rw => a.replayWindows[k] # None
          /\ k \notin rotated[t] /\ c.known => c.msg \in knows[t]
        BY <1>1, <1>2, <1>3, <1>4, <1>7 DEF KeysSound, RoomsSound, RoomsHeld, TabSound, Session, StillKnown
    <2> QED
        BY ONLY <2>1, <1>12 DEF CallSound
<1>14. ~Persists(a, s)
    BY <1>2, <1>7 DEF Persists
<1>15. TabSound(q, ctrs, store, knows[t], rotated[t], Promises) /\ q.persistTail = a.persistTail
    BY <1>11, <1>12, <1>13, <1>14, SetCallSound
<1> HIDE DEF q
<1>16. q.persistTail = r.persistTail
    BY <1>7, <1>15
<1>17. \A j : Started(q, j) <=> Started(r, j)
    BY ONLY <1>16, SameTail
<1> QED
    BY ONLY ChatInv, t \in Tabs, <1>2, <1>8, <1>15, <1>17, QuietStep

LEMMA CheckStep ==
    ASSUME ChatInv, NEW t \in Tabs, NEW s \in Slots, check(t, s)
    PROVE  ChatInv'
<1> DEFINE r == tabs[t]
           c == r.calls[s]
           k == c.msg.key
           d == [c EXCEPT !.pc = "decrypt"]
<1>1. TabSound(r, ctrs, store, knows[t], rotated[t], Promises)
    BY DEF ChatInv
<1>2. /\ c # None /\ c.pc = "check" /\ UNCHANGED <<store, lock, history>> /\ r.heap[c.win].ready
      /\ tabs' = [tabs EXCEPT ![t] = IF c.msg.ctr \in ToSet(r.heap[c.win].order) THEN Return(r, s)
                                     ELSE [r EXCEPT !.calls[s].pc = "decrypt"]]
    BY DEF check, InState, Awaited, Update
<1>3. r \in Tab /\ KeysSound(r) /\ RoomsSound(r)
    BY <1>1 DEF TabSound
<1>4. c \in Unseal /\ k \in Keys /\ c.win \in Nat
    BY <1>2, <1>3, TabFields
<1>5. ~Persists(r, s) /\ Waits(r, s)
    BY <1>2 DEF Persists, Waits
<1>6. CASE c.msg.ctr \in ToSet(r.heap[c.win].order)
    <2> DEFINE q == [r EXCEPT !.calls[s] = None]
    <2>1. tabs' = [tabs EXCEPT ![t] = q]
        BY <1>2, <1>6 DEF Return
    <2>2. TabSound(q, ctrs, store, knows[t], rotated[t], Promises) /\ q.persistTail = r.persistTail
        BY <1>1, <1>5, SetCallSound
    <2> HIDE DEF q
    <2> QED
        BY <1>2, <2>1, <2>2, SameTail, QuietStep
<1>7. CASE c.msg.ctr \notin ToSet(r.heap[c.win].order)
    <2> DEFINE q == [r EXCEPT !.calls[s] = d]
    <2>1. tabs' = [tabs EXCEPT ![t] = q]
        <3>1. [r EXCEPT !.calls[s].pc = "decrypt"] = q
            BY <1>3, TabFields DEF Tab
        <3> QED
            BY ONLY <3>1, <1>2, <1>7
    <2>2. d \in Unseal /\ d.pc = "decrypt" /\ d.msg = c.msg /\ d.userKey = c.userKey /\ d.began = c.began
          /\ (d.known => c.known) /\ (d.rw => c.rw)
        BY <1>4 DEF Unseal
    <2> HIDE DEF d
    <2>3. CallSound(r, d, ctrs, knows[t], rotated[t], Promises)
        <3>1. /\ c.userKey < c.began => k \in r.overlapped
              /\ c.rw => r.replayWindows[k] # None
              /\ k \notin rotated[t] /\ c.known => c.msg \in knows[t]
            BY <1>1, <1>2, <1>3, <1>4 DEF KeysSound, RoomsSound, RoomsHeld, TabSound, Session, StillKnown
        \* The window that the call waited for is the cached one, which has what is known.
        <3>2. ASSUME k \notin rotated[t], k \in Promises, c.known PROVE FALSE
            <4>1. Steady(r, k) /\ c.msg \in knows[t]
                BY <3>1, <3>2, <1>1, <1>4 DEF TabSound, Session
            <4>2. Remembers(r, k, c.msg.ctr, ToSet(store[k]))
                BY <4>1, <3>2, <1>1, <1>4 DEF TabSound, Session
            <4>3. c.win = r.mem[k]
                BY <4>1, <1>2, <1>5 DEF Steady
            <4>4. r.mem[k] # None
                BY <4>3, <1>4, ChatNoneAssumption
            <4> QED
                BY <4>2, <4>3, <4>4, <1>7 DEF Remembers
        <3> QED
            BY ONLY <3>1, <3>2, <2>2 DEF CallSound
    <2>4. TabSound(q, ctrs, store, knows[t], rotated[t], Promises) /\ q.persistTail = r.persistTail
        BY <1>1, <1>5, <2>2, <2>3, SetCallSound
    <2> HIDE DEF q
    <2> QED
        BY <1>2, <2>1, <2>4, SameTail, QuietStep
<1> QED
    BY <1>6, <1>7

LEMMA ReplayCheckStep ==
    ASSUME ChatInv, NEW t \in Tabs, NEW s \in Slots, replayCheck(t, s)
    PROVE  ChatInv'
<1> DEFINE r0 == tabs[t]
           c == r0.calls[s]
           m == c.msg
           k == m.key
           r == getReplayWindow(r0, k)
           h == hydrate(r, k)
           n == promised(r, k)
           d == [h.calls[s] EXCEPT !.pc = "check", !.rw = TRUE, !.win = n]
<1>1. TabSound(r0, ctrs, store, knows[t], rotated[t], Promises) /\ StoreInv
    BY DEF ChatInv
<1>2. /\ c # None /\ c.pc = "ready" /\ UNCHANGED <<store, lock, history>>
      /\ IF RW!check(r.replayWindows[k], m.ctr)
           THEN tabs' = [tabs EXCEPT ![t] = [h EXCEPT !.calls[s] = d]]
           ELSE tabs' = [tabs EXCEPT ![t] = [r EXCEPT !.calls[s] = None]]
    <2>1. c # None /\ c.pc = "ready" /\ UNCHANGED <<store, lock, history>>
        BY DEF replayCheck, InState
    <2>2. IF RW!check(r.replayWindows[k], m.ctr)
            THEN tabs' = [tabs EXCEPT ![t] = [h EXCEPT !.calls[s] = [@ EXCEPT !.pc = "check", !.rw = TRUE, !.win = n]]]
            ELSE tabs' = [tabs EXCEPT ![t] = [r EXCEPT !.calls[s] = None]]
        BY DEF replayCheck, Update, Return
    <2> QED
        BY ONLY <2>1, <2>2
<1>3. r0 \in Tab
    BY <1>1 DEF TabSound
<1>4. k \in Keys /\ c \in Unseal
    BY <1>2, <1>3, TabFields
<1>5. /\ TabSound(r, ctrs, store, knows[t], rotated[t], Promises) /\ Alike(r0, r)
      /\ r.replayWindows[k] # None
    BY <1>1, <1>4, GetWindowSound
<1> HIDE DEF r
<1>6. /\ r.calls[s] # None /\ r.calls[s].pc = "ready" /\ r.calls[s].msg = m /\ r.persistTail = r0.persistTail
    BY <1>2, <1>5 DEF Alike, SameCall
<1>7. ~Persists(r, s)
    BY <1>6 DEF Persists
<1>8. CASE ~RW!check(r.replayWindows[k], m.ctr)
    <2> DEFINE q == [r EXCEPT !.calls[s] = None]
    <2>1. tabs' = [tabs EXCEPT ![t] = q]
        BY <1>2, <1>8
    <2>2. TabSound(q, ctrs, store, knows[t], rotated[t], Promises) /\ q.persistTail = r.persistTail
        BY <1>5, <1>7, SetCallSound
    <2> HIDE DEF q
    <2>3. q.persistTail = r0.persistTail
        BY <2>2, <1>6
    <2>4. \A j : Started(q, j) <=> Started(r0, j)
        BY ONLY <2>3, SameTail
    <2> QED
        BY ONLY ChatInv, t \in Tabs, <1>2, <2>1, <2>2, <2>4, QuietStep
<1>9. CASE RW!check(r.replayWindows[k], m.ctr)
    <2> DEFINE q == [h EXCEPT !.calls[s] = d]
    <2>1. tabs' = [tabs EXCEPT ![t] = q]
        BY <1>2, <1>9
    <2>2. store \in [Keys -> Seq(Ctrs)] /\ Fits(store[k], ctrs[k])
        BY <1>1, <1>4 DEF StoreInv
    <2>3. /\ TabSound(h, ctrs, store, knows[t], rotated[t], Promises)
          /\ n \in Nat /\ Cached(h, k, n)
          /\ n = IF h.heap[n].ready THEN h.mem[k] ELSE h.hydrating[k]
          /\ h.calls = r.calls /\ h.replayWindows = r.replayWindows
          /\ h.persistTail = r.persistTail
        <3> HIDE DEF k
        <3>1. TabSound(h, ctrs, store, knows[t], rotated[t], Promises)
            BY ONLY <1>4, <1>5, <2>2, HydrateSound
        <3>2. /\ n \in Nat /\ Cached(h, k, n)
              /\ n = IF h.heap[n].ready THEN h.mem[k] ELSE h.hydrating[k]
              /\ h.calls = r.calls /\ h.replayWindows = r.replayWindows
              /\ h.persistTail = r.persistTail
            BY ONLY <3>1, <1>4, <1>5, <2>2, HydrateSound
        <3> QED
            BY ONLY <3>1, <3>2
    <2> HIDE DEF h, n
    <2>4. h \in Tab /\ KeysSound(h) /\ h.calls[s] # None /\ h.calls[s].msg = m /\ ~Persists(h, s)
        BY <2>3, <1>6 DEF TabSound, Persists
    <2>5. h.calls[s] \in Unseal
        BY <2>4, TabFields
    <2>6. /\ d \in Unseal /\ d.pc = "check" /\ d.msg = m /\ d.win = n
          /\ d.userKey = h.calls[s].userKey /\ d.began = h.calls[s].began /\ (d.known => h.calls[s].known)
        BY <2>3, <2>4, <2>5 DEF Unseal
    <2> HIDE DEF d
    <2>7. CallSound(h, d, ctrs, knows[t], rotated[t], Promises)
        <3>1. /\ d.userKey < d.began => k \in h.overlapped
              /\ k \notin rotated[t] /\ d.known => m \in knows[t]
            BY <2>3, <2>4, <2>6, <1>4 DEF KeysSound, TabSound, Session, StillKnown
        <3>2. h.replayWindows[k] # None
            BY <2>3, <1>5
        <3> QED
            BY ONLY <3>1, <3>2, <2>3, <2>6 DEF CallSound
    <2>8. TabSound(q, ctrs, store, knows[t], rotated[t], Promises) /\ q.persistTail = h.persistTail
        BY ONLY s \in Slots, <2>3, <2>4, <2>6, <2>7, SetCallSound
    <2> HIDE DEF q
    <2>9. q.persistTail = r0.persistTail
        BY <2>3, <2>8, <1>6
    <2>10. \A j : Started(q, j) <=> Started(r0, j)
        BY ONLY <2>9, SameTail
    <2> QED
        BY ONLY ChatInv, t \in Tabs, <1>2, <2>1, <2>8, <2>10, QuietStep
<1> QED
    BY <1>8, <1>9

LEMMA AcceptStep ==
    ASSUME ChatInv, NEW t \in Tabs, NEW s \in Slots, accept(t, s)
    PROVE  ChatInv'
<1> DEFINE r == tabs[t]
           c == r.calls[s]
           k == c.msg.key
<1>1. TabSound(r, ctrs, store, knows[t], rotated[t], Promises) /\ HistoryTypeOK
    BY DEF ChatInv
<1>2. /\ c # None /\ c.pc = "accept" /\ r.heap[c.win].ready
      /\ UNCHANGED <<store, lock, failed, ctrs, written, rotated>>
    BY DEF accept, InState, Awaited
<1>3. r \in Tab /\ c \in Unseal /\ k \in Keys /\ c.msg \in Message
    BY <1>1, <1>2, TabFields DEF TabSound
<1>4. CASE c.msg.ctr \in ToSet(r.heap[c.win].order)
    <2> DEFINE q == [r EXCEPT !.calls[s] = None]
    <2>1. tabs' = [tabs EXCEPT ![t] = q] /\ UNCHANGED <<store, lock, history>>
        BY <1>2, <1>4 DEF accept, Update, Return, history
    <2>2. ~Persists(r, s)
        BY <1>2 DEF Persists
    <2>3. TabSound(q, ctrs, store, knows[t], rotated[t], Promises) /\ q.persistTail = r.persistTail
        BY <1>1, <2>2, SetCallSound
    <2> HIDE DEF q
    <2> QED
        BY <2>1, <2>3, SameTail, QuietStep
<1>5. CASE c.msg.ctr \notin ToSet(r.heap[c.win].order)
    <2> DEFINE q == [r EXCEPT !.persisting[k] = @ + 1,
                              !.heap[c.win].order = trim(@, c.msg.ctr),
                              !.persistTail = Append(@, [key |-> k, win |-> c.win, slot |-> s, started |-> FALSE]),
                              !.calls[s].pc = "persist"]
    <2>1. /\ tabs' = [tabs EXCEPT ![t] = q]
          /\ knows' = [knows EXCEPT ![t] = IF k \in rotated[t] THEN knows[t] ELSE knows[t] \cup {c.msg}]
        BY <1>5 DEF accept, Update
    <2>2. Accepts(r, q, s, c, k)
        BY <1>2, <1>5 DEF Accepts
    <2> HIDE DEF q
    <2>3. /\ knows' \in [Tabs -> SUBSET Message] /\ \A u \in Tabs \ {t} : knows'[u] = knows[u]
          /\ knows'[t] = IF k \in rotated[t] THEN knows[t] ELSE knows[t] \cup {c.msg}
        BY <1>1, <1>3, <2>1 DEF HistoryTypeOK
    <2>4. IsFiniteSet(ctrs[k]) /\ (k \in Promises => Cardinality(ctrs[k]) <= Window)
        BY <1>1, <1>3 DEF HistoryTypeOK, Promises, Promised
    <2>5. /\ TabSound(q, ctrs, store, IF k \in rotated[t] THEN knows[t] ELSE knows[t] \cup {c.msg}, rotated[t], Promises)
          /\ \A j : Started(q, j) <=> Started(r, j)
        <3> DEFINE known2 == IF k \in rotated[t] THEN knows[t] ELSE knows[t] \cup {c.msg}
        <3> HIDE DEF r, c, k
        <3>1. TabSound(q, ctrs, store, known2, rotated[t], Promises)
            BY ONLY s \in Slots, <1>1, <2>2, <2>4, AcceptSound
        <3>2. \A j : Started(q, j) <=> Started(r, j)
            BY ONLY s \in Slots, <3>1, <1>1, <2>2, <2>4, AcceptSound
        <3> QED
            BY <3>1, <3>2
    <2>6. Promises' = Promises
        BY <1>2 DEF Promises, Promised
    <2>7. TabSound(q, ctrs, store, knows'[t], rotated[t], Promises')
        BY ONLY <2>3, <2>5, <2>6
    <2>8. failed => failed'
        BY <1>2
    <2> QED
        BY ONLY ChatInv, t \in Tabs, <1>2, <2>1, <2>3, <2>5, <2>7, <2>8, LocalStep
<1> QED
    BY <1>4, <1>5

LEMMA Fewer ==
    ASSUME NEW r, NEW opened, NEW stored, NEW known, NEW gone, NEW promises, NEW promises2,
           TabSound(r, opened, stored, known, gone, promises), promises2 \subseteq promises
    PROVE  TabSound(r, opened, stored, known, gone, promises2)
<1>1. Bears(r, stored, known, gone, stored, known, gone, promises2)
    BY BearsSame
<1>2. \A k \in Keys : opened[k] \subseteq opened[k]
    OBVIOUS
<1> QED
    BY ONLY <1>1, <1>2, TabSound(r, opened, stored, known, gone, promises), promises2 \subseteq promises, EnvSound

LEMMA HydrateDoneStep ==
    ASSUME ChatInv, NEW t \in Tabs, ~Resumable(t), NEW ok \in BOOLEAN, hydrateDone(t, ok)
    PROVE  ChatInv'
<1> DEFINE r == tabs[t]
           tx == Head(r.txs)
           order == IF ok THEN lastOf(tx.seen, Window) ELSE <<>>
           q == trimMemCache(Hydrated(r, tx, order), tx.key)
<1>1. TabSound(r, ctrs, store, knows[t], rotated[t], Promises) /\ HistoryTypeOK
    BY DEF ChatInv
<1>2. /\ r.txs # <<>> /\ tx.op = "hydrate" /\ tabs' = [tabs EXCEPT ![t] = q]
      /\ UNCHANGED <<store, lock, ctrs, written, rotated>> /\ knows' = knows
      /\ (failed => failed') /\ (ok \/ failed')
    BY DEF hydrateDone, Hydrated, Reported, Update, Outcome, Upset
<1> HIDE DEF q
<1>3. r.txs \in Seq(Transaction)
    BY <1>1, TabFields DEF TabSound
<1>4. tx = r.txs[1]
    BY <1>2, <1>3, TailFacts
<1>5. NoneResumable(r)
    BY DEF NoneResumable, Resumable, InState, Awaited, Waits
<1>6. HistoryTypeOK' /\ \A k \in Keys : ctrs[k] \subseteq ctrs'[k]
    BY <1>1, <1>2 DEF HistoryTypeOK
<1>7. Promises' \subseteq Promises
    BY ONLY <1>2, <1>6, PromisesShrink
<1>8. TabSound(r, ctrs, store, knows[t], rotated[t], Promises')
    BY ONLY <1>1, <1>7, Fewer
<1>9. Reads(r, tx, order, Promises')
    <2>1. ok => order = lastOf(tx.seen, Window)
        OBVIOUS
    <2>2. ~ok => order = <<>> /\ Promises' = {}
        BY <1>2 DEF Promises, Promised
    <2> HIDE DEF order
    <2> QED
        BY <2>1, <2>2, <1>2, <1>4 DEF Reads
<1> HIDE DEF order
<1>10. TabSound(q, ctrs, store, knows[t], rotated[t], Promises') /\ q.persistTail = r.persistTail
    BY ONLY <1>5, <1>8, <1>9, HydrateDoneSound DEF q
<1>11. \A j : Started(q, j) <=> Started(r, j)
    BY ONLY <1>10, SameTail
<1>12. knows' \in [Tabs -> SUBSET Message] /\ \A u \in Tabs \ {t} : knows'[u] = knows[u]
    BY <1>1, <1>2 DEF HistoryTypeOK
<1>13. TabSound(q, ctrs, store, knows'[t], rotated[t], Promises')
    BY <1>2, <1>10
<1> QED
    BY ONLY ChatInv, t \in Tabs, <1>2, <1>11, <1>12, <1>13, LocalStep

LEMMA ClearDoneStep ==
    ASSUME ChatInv, NEW t \in Tabs, clearDone(t)
    PROVE  ChatInv'
<1> DEFINE r == tabs[t]
           k == Head(r.txs).key
           q == Cleared(r, k)
<1>1. TabSound(r, ctrs, store, knows[t], rotated[t], Promises)
    BY DEF ChatInv
<1>2. /\ r.txs # <<>> /\ Head(r.txs).op = "delete" /\ tabs' = [tabs EXCEPT ![t] = q]
      /\ UNCHANGED <<store, lock, history>>
    BY DEF clearDone, Cleared, Reported, Update
<1>3. r.txs \in Seq(Transaction)
    BY <1>1, TabFields DEF TabSound
<1>4. Head(r.txs) = r.txs[1]
    BY <1>2, <1>3, TailFacts
<1> HIDE DEF q
<1>5. TabSound(q, ctrs, store, knows[t], rotated[t], Promises) /\ q.persistTail = r.persistTail
    BY ONLY <1>1, <1>2, <1>4, ClearedSound DEF q
<1>6. \A j : Started(q, j) <=> Started(r, j)
    BY ONLY <1>5, SameTail
<1> QED
    BY ONLY ChatInv, t \in Tabs, <1>2, <1>5, <1>6, QuietStep

LEMMA DecryptStep ==
    ASSUME ChatInv, NEW t \in Tabs, NEW s \in Slots, sframeDecrypt(t, s)
    PROVE  ChatInv'
<1> DEFINE r == tabs[t]
           c == r.calls[s]
           m == c.msg
           k == m.key
           a == IF c.rw THEN [r EXCEPT !.replayWindows[k] = RW!accept(@, m.ctr)] ELSE r
           h == hydrate(a, k)
           n == promised(r, k)
           d == [h.calls[s] EXCEPT !.pc = "accept", !.win = n]
<1>1. /\ TabSound(r, ctrs, store, knows[t], rotated[t], Promises)
      /\ HistoryTypeOK /\ StoreInv /\ LockInv
    BY DEF ChatInv
<1>2. /\ c # None /\ c.pc = "decrypt" /\ UNCHANGED <<store, lock, failed, written, knows, rotated>>
      /\ IF c.userKey = m.gen
           THEN /\ tabs' = [tabs EXCEPT ![t] = [h EXCEPT !.calls[s] = d]]
                /\ ctrs' = [ctrs EXCEPT ![k] = ctrs[k] \cup {m.ctr}]
           ELSE tabs' = [tabs EXCEPT ![t] = [r EXCEPT !.calls[s] = None]] /\ UNCHANGED ctrs
    <2>1. c # None /\ c.pc = "decrypt" /\ UNCHANGED <<store, lock, failed, written, knows, rotated>>
        BY DEF sframeDecrypt, InState
    <2>2. IF c.userKey = m.gen
            THEN /\ tabs' = [tabs EXCEPT ![t] = [h EXCEPT !.calls[s] = [@ EXCEPT !.pc = "accept", !.win = n]]]
                 /\ ctrs' = [ctrs EXCEPT ![k] = ctrs[k] \cup {m.ctr}]
            ELSE tabs' = [tabs EXCEPT ![t] = [r EXCEPT !.calls[s] = None]] /\ UNCHANGED ctrs
        BY DEF sframeDecrypt, Update, Return
    <2> QED
        BY ONLY <2>1, <2>2
<1>3. r \in Tab /\ RoomsSound(r) /\ KeysSound(r)
    BY <1>1 DEF TabSound
<1>4. k \in Keys /\ c \in Unseal /\ m.ctr \in Ctrs
    BY <1>2, <1>3, TabFields
<1>5. ~Persists(r, s)
    BY <1>2 DEF Persists
<1>6. CASE c.userKey # m.gen
    <2> DEFINE q == [r EXCEPT !.calls[s] = None]
    <2>1. tabs' = [tabs EXCEPT ![t] = q] /\ UNCHANGED <<store, lock, history>>
        BY <1>2, <1>6 DEF history
    <2>2. TabSound(q, ctrs, store, knows[t], rotated[t], Promises) /\ q.persistTail = r.persistTail
        BY <1>1, <1>5, SetCallSound
    <2> HIDE DEF q
    <2>3. \A j : Started(q, j) <=> Started(r, j)
        BY ONLY <2>2, SameTail
    <2> QED
        BY ONLY ChatInv, t \in Tabs, <2>1, <2>2, <2>3, QuietStep
<1>7. CASE c.userKey = m.gen
    <2> DEFINE q == [h EXCEPT !.calls[s] = d]
    <2>1. tabs' = [tabs EXCEPT ![t] = q] /\ ctrs' = [ctrs EXCEPT ![k] = ctrs[k] \cup {m.ctr}]
        BY <1>2, <1>7
    <2>2. /\ ctrs' \in [Keys -> SUBSET Ctrs] /\ m.ctr \in ctrs'[k]
          /\ \A j \in Keys : ctrs[j] \subseteq ctrs'[j] /\ IsFiniteSet(ctrs'[j])
        <3>1. ctrs' \in [Keys -> SUBSET Ctrs] /\ ctrs'[k] = ctrs[k] \cup {m.ctr} /\ \A j \in Keys : j # k => ctrs'[j] = ctrs[j]
            BY <1>1, <1>4, <2>1 DEF HistoryTypeOK
        <3>2. IsFiniteSet(ctrs[k] \cup {m.ctr})
            BY <1>1, <1>4, FS_AddElement DEF HistoryTypeOK
        <3> QED
            BY <3>1, <3>2, <1>1 DEF HistoryTypeOK
    <2>3. HistoryTypeOK'
        BY <1>1, <1>2, <2>2 DEF HistoryTypeOK
    <2>4. Promises' \subseteq Promises
        BY <1>2, <2>2, <2>3, PromisesShrink
    <2>5. StoreInv'
        BY <1>1, <1>2, <2>2, <2>4 DEF StoreInv, Fits
    \* The tab bears the new counter, and the replay window has it.
    <2>6. TabSound(r, ctrs', store, knows[t], rotated[t], Promises')
        <3>1. Bears(r, store, knows[t], rotated[t], store, knows[t], rotated[t], Promises')
            BY ONLY <1>1, BearsSame
        <3> QED
            BY ONLY <1>1, <2>2, <2>4, <3>1, EnvSound
    <2>7. /\ TabSound(a, ctrs', store, knows[t], rotated[t], Promises') /\ Alike(r, a)
          /\ (c.rw => a.replayWindows[k] # None)
        <3>1. CASE ~c.rw
            BY <3>1, <2>6 DEF Alike, SameCall
        <3>2. CASE c.rw
            <4> DEFINE w == r.replayWindows[k]
                       rws == [r.replayWindows EXCEPT ![k] = RW!accept(w, m.ctr)]
            <4>1. w \in ReplayWindowType
                BY <3>2, <1>2, <1>3, <1>4, TabFields DEF RoomsSound, RoomsHeld
            <4>2. RW!accept(w, m.ctr) \in ReplayWindowType
                BY <4>1, <1>4, ReplayWindowAccept
            <4>3. RW!accept(w, m.ctr) # None
                BY <4>2, ChatNoneAssumption
            <4>4. /\ rws \in [Keys -> ReplayWindowType \cup {None}] /\ rws[k] # None
                  /\ \A j \in Keys : j # k => rws[j] = r.replayWindows[j]
                <5> DEFINE x == RW!accept(w, m.ctr)
                           map == r.replayWindows
                <5>1. map \in [Keys -> ReplayWindowType \cup {None}]
                    BY <1>3, TabFields
                <5>2. x \in ReplayWindowType /\ x # None
                    BY <4>2, <4>3
                <5>3. rws = [map EXCEPT ![k] = x]
                    OBVIOUS
                <5> HIDE DEF x, map, rws, k
                <5> QED
                    BY ONLY <5>1, <5>2, <5>3, <1>4 DEF map
            <4>5. a = [r EXCEPT !.replayWindows = rws]
                BY <3>2, <1>3 DEF Tab
            <4> HIDE DEF rws, a
            <4>6. a \in Tab
                BY ONLY <4>4, <4>5, <1>3 DEF Tab
            <4>7. /\ a.replayWindows = rws /\ a.keyCache = r.keyCache /\ a.gen = r.gen /\ a.overlapped = r.overlapped
                  /\ a.calls = r.calls /\ a.rooms = r.rooms
                  /\ a.mem = r.mem /\ a.hydrating = r.hydrating /\ a.heap = r.heap /\ a.txs = r.txs
                  /\ a.persistTail = r.persistTail /\ a.persisting = r.persisting
                BY <4>5, <1>3 DEF Tab
            <4>8. Alike(r, a) /\ KeysSound(a)
                BY <4>7, <1>3 DEF Alike, SameCall, KeysSound
            <4>9. RoomsSound(a)
                <5>1. \A j \in Keys : r.replayWindows[j] # None => a.replayWindows[j] # None
                    BY <4>4, <4>7
                <5>2. \A u \in Slots : r.calls[u] # None => r.calls[u].msg.key \in Keys
                    BY <1>3, TabFields
                <5>3. \A j \in ToSet(r.rooms) : j \in Keys
                    BY <1>3, TabFields DEF ToSet
                <5> QED
                    BY ONLY <5>1, <5>2, <5>3, <4>7, <1>3 DEF RoomsSound, RoomsHeld
            <4>10. TabSound(a, ctrs', store, knows[t], rotated[t], Promises')
                BY ONLY <2>6, <4>6, <4>8, <4>9, AlikeSound
            <4> QED
                BY <4>4, <4>7, <4>8, <4>10
        <3> QED
            BY <3>1, <3>2
    <2> HIDE DEF a
    <2>8. promised(a, k) = n
        BY <2>7 DEF promised, Alike
    <2>9. store \in [Keys -> Seq(Ctrs)] /\ Fits(store[k], ctrs'[k])
        BY <1>2, <1>4, <2>5 DEF StoreInv
    <2>10. /\ TabSound(h, ctrs', store, knows[t], rotated[t], Promises')
           /\ n \in Nat /\ Cached(h, k, n)
           /\ n = IF h.heap[n].ready THEN h.mem[k] ELSE h.hydrating[k]
           /\ h.calls = a.calls /\ h.replayWindows = a.replayWindows
           /\ h.persistTail = a.persistTail
        <3> HIDE DEF k, n
        <3>1. TabSound(h, ctrs', store, knows[t], rotated[t], Promises')
            BY ONLY <1>4, <2>7, <2>9, HydrateSound
        <3>2. /\ n \in Nat /\ Cached(h, k, n)
              /\ n = IF h.heap[n].ready THEN h.mem[k] ELSE h.hydrating[k]
              /\ h.calls = a.calls /\ h.replayWindows = a.replayWindows
              /\ h.persistTail = a.persistTail
            BY ONLY <3>1, <1>4, <2>7, <2>8, <2>9, HydrateSound
        <3> QED
            BY ONLY <3>1, <3>2
    <2> HIDE DEF h, n
    <2>11. /\ h \in Tab /\ KeysSound(h) /\ RoomsSound(h)
           /\ h.calls[s] # None /\ h.calls[s].msg = m /\ h.calls[s].pc = "decrypt" /\ ~Persists(h, s)
           /\ h.persistTail = r.persistTail
        <3>1. h \in Tab /\ KeysSound(h) /\ RoomsSound(h)
            BY ONLY <2>10 DEF TabSound
        <3>2. SameCall(r.calls[s], a.calls[s]) /\ a.persistTail = r.persistTail
            BY ONLY <2>7, s \in Slots DEF Alike
        <3>3. h.calls[s] # None /\ h.calls[s].msg = m /\ h.calls[s].pc = "decrypt"
            BY ONLY <3>2, <2>10, <1>2 DEF SameCall
        <3> QED
            BY ONLY <3>1, <3>2, <3>3, <2>10 DEF Persists
    <2>12. h.calls[s] \in Unseal
        BY <2>11, TabFields
    <2>13. /\ d \in Unseal /\ d.pc = "accept" /\ d.msg = m /\ d.win = n
           /\ d.userKey = h.calls[s].userKey /\ d.began = h.calls[s].began /\ (d.known => h.calls[s].known)
           /\ (d.rw => h.calls[s].rw)
        BY <2>10, <2>11, <2>12 DEF Unseal
    <2> HIDE DEF d
    <2>14. CallSound(h, d, ctrs', knows[t], rotated[t], Promises')
        <3>1. /\ d.userKey < d.began => k \in h.overlapped
              /\ d.rw => h.replayWindows[k] # None
            BY ONLY s \in Slots, <2>11, <2>13 DEF KeysSound, RoomsSound, RoomsHeld
        <3>2. k \notin rotated[t] /\ d.known => m \in knows[t] /\ k \notin Promises'
            BY <2>10, <2>11, <2>13, <1>4 DEF TabSound, Session, StillKnown, Refuses
        <3> QED
            BY ONLY <3>1, <3>2, <2>2, <2>10, <2>13 DEF CallSound
    <2>15. TabSound(q, ctrs', store, knows[t], rotated[t], Promises') /\ q.persistTail = h.persistTail
        BY ONLY s \in Slots, <2>10, <2>11, <2>13, <2>14, SetCallSound
    <2> HIDE DEF q
    <2>16. q.persistTail = r.persistTail
        BY <2>11, <2>15
    <2>17. \A j : Started(q, j) <=> Started(r, j)
        BY ONLY <2>16, SameTail
    <2>18. TabSound(q, ctrs', store', knows'[t], rotated'[t], Promises')
        BY <1>2, <2>15
    <2>19. /\ lock' \in [Keys -> Tabs \cup {None}] /\ \A j \in Keys : lock'[j] = t <=> Started(q, j)
           /\ \A u \in Tabs \ {t}, j \in Keys : lock'[j] = u <=> lock[j] = u
        BY <1>1, <1>2, <2>17 DEF LockInv
    <2>20. \A u \in Tabs \ {t} :
               Bears(tabs[u], store, knows[u], rotated[u], store', knows'[u], rotated'[u], Promises')
        <3> SUFFICES ASSUME NEW u \in Tabs \ {t}
                     PROVE  Bears(tabs[u], store, knows[u], rotated[u], store, knows[u], rotated[u], Promises')
            BY <1>2
        <3>1. TabSound(tabs[u], ctrs, store, knows[u], rotated[u], Promises)
            BY DEF ChatInv
        <3> QED
            BY ONLY <3>1, BearsSame
    <2>21. failed => failed'
        BY <1>2
    <2> QED
        BY ONLY ChatInv, t \in Tabs, <2>1, <2>2, <2>3, <2>5, <2>18, <2>19, <2>20, <2>21, Compose
<1> QED
    BY <1>6, <1>7

\* The others do not see a step that changes the lock alone.
LEMMA OthersBear ==
    ASSUME ChatInv, UNCHANGED <<store, history>>, NEW t \in Tabs
    PROVE  /\ HistoryTypeOK' /\ StoreInv' /\ (failed => failed') /\ Promises' = Promises
           /\ \A k \in Keys : ctrs[k] \subseteq ctrs'[k]
           /\ \A u \in Tabs \ {t} :
                 Bears(tabs[u], store, knows[u], rotated[u], store', knows'[u], rotated'[u], Promises')
<1>1. HistoryTypeOK /\ StoreInv
    BY DEF ChatInv
<1>2. failed' = failed /\ ctrs' = ctrs /\ written' = written /\ knows' = knows /\ rotated' = rotated /\ store' = store
    BY DEF history
<1>3. HistoryTypeOK'
    BY <1>1, <1>2 DEF HistoryTypeOK
<1>4. Promises' = Promises
    BY <1>2 DEF Promises, Promised
<1>5. StoreInv'
    BY <1>1, <1>2, <1>4 DEF StoreInv
<1>6. ASSUME NEW u \in Tabs \ {t}
      PROVE  Bears(tabs[u], store, knows[u], rotated[u], store', knows'[u], rotated'[u], Promises')
    <2>1. TabSound(tabs[u], ctrs, store, knows[u], rotated[u], Promises)
        BY DEF ChatInv
    <2>2. Bears(tabs[u], store, knows[u], rotated[u], store, knows[u], rotated[u], Promises')
        BY ONLY <2>1, BearsSame
    <2> QED
        BY <1>2, <2>2
<1> QED
    BY <1>2, <1>3, <1>4, <1>5, <1>6

LEMMA LockGrantedStep ==
    ASSUME ChatInv, NEW t \in Tabs, lockGranted(t)
    PROVE  ChatInv'
<1> DEFINE r == tabs[t]
           p == Head(r.persistTail)
           q == Granted(r, p, store[p.key])
<1>1. TabSound(r, ctrs, store, knows[t], rotated[t], Promises) /\ StoreInv /\ LockInv
    BY DEF ChatInv
<1>2. /\ r.persistTail # <<>> /\ ~p.started /\ lock[p.key] = None
      /\ lock' = [lock EXCEPT ![p.key] = t] /\ tabs' = [tabs EXCEPT ![t] = q]
      /\ UNCHANGED <<store, history>>
    BY DEF lockGranted, Granted, Update
<1>3. r.persistTail \in Seq(Persist)
    BY <1>1, TabFields DEF TabSound
<1>4. p = r.persistTail[1] /\ p \in Persist
    BY <1>2, <1>3
<1>5. p.key \in Keys
    BY <1>4 DEF Persist
<1>6. store[p.key] \in Seq(Ctrs) /\ Fits(store[p.key], ctrs[p.key])
    BY <1>1, <1>5 DEF StoreInv
<1> HIDE DEF q
<1>7. /\ TabSound(q, ctrs, store, knows[t], rotated[t], Promises)
      /\ \A j : ~Started(r, j) /\ (Started(q, j) <=> j = p.key)
    <2> HIDE DEF r, p
    <2>1. TabSound(q, ctrs, store, knows[t], rotated[t], Promises)
        BY ONLY <1>1, <1>2, <1>4, <1>6, GrantedSound DEF q
    <2>2. Begins(r, q, p.key)
        BY ONLY <2>1, <1>1, <1>2, <1>4, <1>6, GrantedSound DEF q
    <2> QED
        BY ONLY <2>1, <2>2 DEF Begins
<1>8. /\ HistoryTypeOK' /\ StoreInv' /\ (failed => failed') /\ Promises' = Promises
      /\ \A k \in Keys : ctrs[k] \subseteq ctrs'[k]
      /\ \A u \in Tabs \ {t} :
            Bears(tabs[u], store, knows[u], rotated[u], store', knows'[u], rotated'[u], Promises')
    BY ONLY ChatInv, <1>2, t \in Tabs, OthersBear
<1>9. TabSound(q, ctrs', store', knows'[t], rotated'[t], Promises')
    BY <1>2, <1>7, <1>8 DEF history
<1>10. /\ lock' \in [Keys -> Tabs \cup {None}]
       /\ \A k \in Keys : lock'[k] = IF k = p.key THEN t ELSE lock[k]
       /\ \A k \in Keys : lock[k] # t /\ None # t
    <2>1. None # t
        BY ChatNoneAssumption
    <2>2. lock \in [Keys -> Tabs \cup {None}] /\ \A k \in Keys : lock[k] # t
        BY <1>1, <1>7 DEF LockInv
    <2>3. lock' \in [Keys -> Tabs \cup {None}] /\ \A k \in Keys : lock'[k] = IF k = p.key THEN t ELSE lock[k]
        BY ONLY <2>2, <1>2, <1>5, t \in Tabs
    <2> QED
        BY ONLY <2>1, <2>2, <2>3
<1>11. \A k \in Keys : lock'[k] = t <=> Started(q, k)
    BY <1>7, <1>10
<1>12. \A u \in Tabs \ {t}, k \in Keys : lock'[k] = u <=> lock[k] = u
    <2> SUFFICES ASSUME NEW u \in Tabs \ {t}, NEW k \in Keys PROVE lock'[k] = u <=> lock[k] = u
        OBVIOUS
    <2>1. u # None
        BY ChatNoneAssumption
    <2> QED
        BY <2>1, <1>2, <1>10
<1> QED
    BY ONLY ChatInv, t \in Tabs, <1>2, <1>8, <1>9, <1>10, <1>11, <1>12, Compose

LEMMA PersistDoneStep ==
    ASSUME ChatInv, NEW t \in Tabs, persistDone(t)
    PROVE  ChatInv'
<1> DEFINE r == tabs[t]
           p == Head(r.persistTail)
           q == Finished(r, p)
<1>1. TabSound(r, ctrs, store, knows[t], rotated[t], Promises) /\ LockInv
    BY DEF ChatInv
<1>2. /\ r.txs # <<>> /\ Head(r.txs).op = "write"
      /\ lock' = [lock EXCEPT ![p.key] = None] /\ tabs' = [tabs EXCEPT ![t] = q]
      /\ UNCHANGED <<store, history>>
    BY DEF persistDone, Reported, Finished, Update
<1>3. r.persistTail \in Seq(Persist) /\ r.txs \in Seq(Transaction)
    BY <1>1, TabFields DEF TabSound
<1>4. r.txs[1].op = "write" /\ p = r.persistTail[1]
    BY <1>2, <1>3, TailFacts
<1> HIDE DEF q
<1>5. /\ TabSound(q, ctrs, store, knows[t], rotated[t], Promises)
      /\ \A j : (Started(r, j) <=> j = p.key) /\ ~Started(q, j)
      /\ p.key \in Keys
    <2> HIDE DEF r, p
    <2>1. TabSound(q, ctrs, store, knows[t], rotated[t], Promises)
        BY ONLY <1>1, <1>2, <1>4, FinishedSound DEF q
    <2>2. (\A j : (Started(r, j) <=> j = p.key) /\ ~Started(q, j)) /\ p.key \in Keys
        BY ONLY <2>1, <1>1, <1>2, <1>4, FinishedSound DEF q
    <2> QED
        BY ONLY <2>1, <2>2
<1>6. /\ HistoryTypeOK' /\ StoreInv' /\ (failed => failed') /\ Promises' = Promises
      /\ \A k \in Keys : ctrs[k] \subseteq ctrs'[k]
      /\ \A u \in Tabs \ {t} :
            Bears(tabs[u], store, knows[u], rotated[u], store', knows'[u], rotated'[u], Promises')
    BY ONLY ChatInv, <1>2, t \in Tabs, OthersBear
<1>7. TabSound(q, ctrs', store', knows'[t], rotated'[t], Promises')
    BY <1>2, <1>5, <1>6 DEF history
<1>8. /\ lock' \in [Keys -> Tabs \cup {None}]
      /\ \A k \in Keys : lock'[k] = IF k = p.key THEN None ELSE lock[k]
      /\ \A k \in Keys : lock[k] = t <=> k = p.key
    BY <1>1, <1>2, <1>5 DEF LockInv
<1>9. None \notin Tabs
    BY ChatNoneAssumption
<1>10. \A k \in Keys : lock'[k] = t <=> Started(q, k)
    BY <1>5, <1>8, <1>9
<1>11. \A u \in Tabs \ {t}, k \in Keys : lock'[k] = u <=> lock[k] = u
    BY <1>8, <1>9
<1> QED
    BY ONLY ChatInv, t \in Tabs, <1>2, <1>6, <1>7, <1>8, <1>10, <1>11, Compose

\* A rotation takes the room's record away, and the others forget its messages.
LEMMA RotationBears ==
    ASSUME NEW r, NEW opened, NEW stored, NEW known, NEW gone, NEW promises, NEW promises2,
           NEW k \in Keys, NEW stored2, TabSound(r, opened, stored, known, gone, promises),
           \A j \in Keys : stored2[j] = stored[j] \/ (j = k /\ stored2[j] = <<>>)
    PROVE  Bears(r, stored, known, gone, stored2, {m \in known : m.key # k}, gone \cup {k}, promises2)
<1>1. \A m \in known : m.key \notin gone
    BY DEF TabSound, Session
<1>2. \A i \in DOMAIN r.txs : r.txs[i].key \in Keys
    BY TabFields DEF TabSound, Transaction
<1>3. \A j \in Keys : ToSet(stored2[j]) \subseteq ToSet(stored[j])
    BY DEF ToSet
<1>4. \A i \in DOMAIN r.txs : r.txs[i].op = "read" =>
          ToSet(stored2[r.txs[i].key]) \subseteq ToSet(stored[r.txs[i].key])
    BY <1>2, <1>3
<1> QED
    BY <1>1, <1>4 DEF Bears

LEMMA RotateStep ==
    ASSUME ChatInv, NEW t \in Tabs, NEW k \in Keys, NEW ok \in BOOLEAN, rotate(t, k, ok)
    PROVE  ChatInv'
<1> DEFINE r == tabs[t]
           deriving == \E s \in Slots : InState(t, s, "derive") /\ r.calls[s].msg.key = k
           overlapped == IF deriving THEN r.overlapped \cup {k} ELSE r.overlapped
           e == Rotated(r, k, overlapped)
           q == IF r.replayWindows[k] # None THEN Create(e, "delete", k, 0, <<>>, ok) ELSE e
<1>1. /\ TabSound(r, ctrs, store, knows[t], rotated[t], Promises)
      /\ HistoryTypeOK /\ StoreInv /\ LockInv
    BY DEF ChatInv
<1>2. /\ r.gen[k] < MaxGen /\ tabs' = [tabs EXCEPT ![t] = q]
      /\ store' = store \/ store' = [store EXCEPT ![k] = <<>>]
      /\ written' = {m \in written : m.key # k}
      /\ knows' = [u \in Tabs |-> {m \in knows[u] : m.key # k}]
      /\ rotated' = [u \in Tabs |-> rotated[u] \cup {k}]
      /\ (failed => failed') /\ lock' = lock /\ ctrs' = ctrs
    <2> DEFINE b == detachRooms(evictRoom(r, k), {k})
               x == [b EXCEPT !.gen[k] = @ + 1, !.overlapped = IF deriving THEN @ \cup {k} ELSE @]
    <2>1. /\ r.gen[k] < MaxGen
          /\ store' = store \/ store' = [store EXCEPT ![k] = <<>>]
          /\ written' = {m \in written : m.key # k}
          /\ knows' = [u \in Tabs |-> {m \in knows[u] : m.key # k}]
          /\ rotated' = [u \in Tabs |-> rotated[u] \cup {k}]
          /\ (failed => failed') /\ lock' = lock /\ ctrs' = ctrs
        BY DEF rotate
    <2>2. tabs' = [tabs EXCEPT ![t] = IF r.replayWindows[k] # None THEN Create(x, "delete", k, 0, <<>>, ok) ELSE x]
        BY DEF rotate, Update
    <2>3. r \in Tab
        BY <1>1 DEF TabSound
    <2>4. b.overlapped = r.overlapped
        BY <2>3 DEF detachRooms, evictRoom, Tab
    <2> HIDE DEF b, deriving
    <2>5. x = e
        BY <2>4 DEF Rotated, b
    <2> QED
        BY ONLY <2>1, <2>2, <2>5 DEF q
<1>3. /\ r.overlapped \subseteq overlapped /\ overlapped \subseteq Keys
      /\ (\E s \in Slots : r.calls[s] # None /\ r.calls[s].pc = "derive" /\ r.calls[s].msg.key = k) => k \in overlapped
    <2>1. r.overlapped \subseteq Keys
        BY <1>1 DEF TabSound, Tab
    <2> QED
        BY <2>1 DEF InState
<1> HIDE DEF overlapped, e, q
<1>4. TabSound(e, ctrs, store, knows[t], rotated[t], Promises) /\ Alike(r, e)
    <2>1. TabSound(e, ctrs, store, knows[t], rotated[t], Promises)
        BY ONLY k \in Keys, <1>1, <1>2, <1>3, RotatedSound DEF e
    <2>2. Alike(r, e)
        BY ONLY <2>1, k \in Keys, <1>1, <1>2, <1>3, RotatedSound DEF e
    <2> QED
        BY ONLY <2>1, <2>2
<1>5. /\ store' \in [Keys -> Seq(Ctrs)]
      /\ \A j \in Keys : store'[j] = store[j] \/ (j = k /\ store'[j] = <<>>)
    BY <1>1, <1>2, EmptyFits DEF StoreInv
<1>6. HistoryTypeOK'
    BY <1>1, <1>2 DEF HistoryTypeOK
<1>7. \A j \in Keys : ctrs[j] \subseteq ctrs'[j]
    BY <1>2
<1>8. Promises' \subseteq Promises
    BY ONLY <1>2, <1>6, <1>7, PromisesShrink
<1>9. StoreInv'
    <2>1. \A j \in Keys : Fits(store'[j], ctrs'[j])
        BY <1>1, <1>2, <1>5, EmptyFits DEF StoreInv
    <2>2. \A m \in written' : m.key \in Promises' => m.ctr \in ToSet(store'[m.key])
        <3> SUFFICES ASSUME NEW m \in written', m.key \in Promises'
                     PROVE  m.ctr \in ToSet(store'[m.key])
            OBVIOUS
        <3>1. m \in written /\ m.key # k /\ m.key \in Keys
            BY <1>1, <1>2 DEF HistoryTypeOK, Message
        <3> QED
            BY <3>1, <1>1, <1>5, <1>8 DEF StoreInv
    <2> QED
        BY <1>5, <2>1, <2>2 DEF StoreInv
<1>10. \A u \in Tabs : knows'[u] = {m \in knows[u] : m.key # k} /\ rotated'[u] = rotated[u] \cup {k}
    BY <1>2
<1>11. TabSound(e, ctrs', store', knows'[t], rotated'[t], Promises')
    <2>1. Bears(e, store, knows[t], rotated[t], store', {m \in knows[t] : m.key # k}, rotated[t] \cup {k}, Promises')
        BY ONLY k \in Keys, <1>4, <1>5, RotationBears
    <2>2. Bears(e, store, knows[t], rotated[t], store', knows'[t], rotated'[t], Promises')
        BY ONLY t \in Tabs, <2>1, <1>10
    <2> QED
        BY ONLY <2>2, <1>4, <1>7, <1>8, EnvSound
<1>12. TabSound(q, ctrs', store', knows'[t], rotated'[t], Promises') /\ q.persistTail = e.persistTail
    <2>1. k \in rotated'[t]
        BY <1>10
    <2>2. CASE r.replayWindows[k] # None
        <3> DEFINE d == Create(e, "delete", k, 0, <<>>, ok)
        <3>1. q = d
            BY <2>2 DEF q
        <3> QED
            BY ONLY k \in Keys, ok \in BOOLEAN, <3>1, <1>11, <2>1, DeleteSound
    <2>3. CASE r.replayWindows[k] = None
        BY <2>3, <1>11 DEF q
    <2> QED
        BY <2>2, <2>3
<1>13. q.persistTail = r.persistTail
    BY <1>4, <1>12 DEF Alike
<1>14. \A j : Started(q, j) <=> Started(r, j)
    BY ONLY <1>13, SameTail
<1>15. /\ lock' \in [Keys -> Tabs \cup {None}] /\ \A j \in Keys : lock'[j] = t <=> Started(q, j)
       /\ \A u \in Tabs \ {t}, j \in Keys : lock'[j] = u <=> lock[j] = u
    BY <1>1, <1>2, <1>14 DEF LockInv
<1>16. \A u \in Tabs \ {t} :
           Bears(tabs[u], store, knows[u], rotated[u], store', knows'[u], rotated'[u], Promises')
    <2> SUFFICES ASSUME NEW u \in Tabs \ {t}
                 PROVE  Bears(tabs[u], store, knows[u], rotated[u], store', knows'[u], rotated'[u], Promises')
        OBVIOUS
    <2>1. TabSound(tabs[u], ctrs, store, knows[u], rotated[u], Promises)
        BY DEF ChatInv
    <2>2. Bears(tabs[u], store, knows[u], rotated[u], store', {m \in knows[u] : m.key # k}, rotated[u] \cup {k}, Promises')
        BY ONLY k \in Keys, <2>1, <1>5, RotationBears
    <2> QED
        BY ONLY u \in Tabs \ {t}, <2>2, <1>10
<1> QED
    BY ONLY ChatInv, t \in Tabs, <1>2, <1>6, <1>7, <1>9, <1>12, <1>15, <1>16, Compose

LEMMA ReloadStep ==
    ASSUME ChatInv, NEW t \in Tabs, reload(t)
    PROVE  ChatInv'
<1> DEFINE r == tabs[t]
           q == createChatProvider(r.shows, r.gen)
<1>1. /\ TabSound(r, ctrs, store, knows[t], rotated[t], Promises)
      /\ HistoryTypeOK /\ StoreInv /\ LockInv
    BY DEF ChatInv
<1>2. /\ tabs' = [tabs EXCEPT ![t] = q]
      /\ lock' = [k \in Keys |-> IF lock[k] = t THEN None ELSE lock[k]]
      /\ knows' = [knows EXCEPT ![t] = written] /\ rotated' = [rotated EXCEPT ![t] = {}]
      /\ UNCHANGED <<store, failed, ctrs, written>>
    BY DEF reload, Update
<1>3. r.shows \in SUBSET Keys /\ r.gen \in [Keys -> Gens]
    BY <1>1 DEF TabSound, Tab
<1>4. Promises' = Promises
    BY <1>2 DEF Promises, Promised
<1>5. HistoryTypeOK' /\ (failed => failed') /\ \A k \in Keys : ctrs[k] \subseteq ctrs'[k]
    BY <1>1, <1>2 DEF HistoryTypeOK
<1>6. StoreInv'
    BY <1>1, <1>2, <1>4 DEF StoreInv
<1>7. /\ knows'[t] = written /\ rotated'[t] = {}
      /\ \A u \in Tabs \ {t} : knows'[u] = knows[u] /\ rotated'[u] = rotated[u]
    BY <1>1, <1>2 DEF HistoryTypeOK
<1>8. \A m \in written : m.key \in Promises => m.ctr \in ToSet(store[m.key])
    BY <1>1 DEF StoreInv
<1> HIDE DEF q
<1>9. TabSound(q, ctrs, store, written, {}, Promises) /\ q.persistTail = <<>>
    BY ONLY <1>3, <1>8, FreshSound DEF q
<1>10. TabSound(q, ctrs', store', knows'[t], rotated'[t], Promises')
    BY <1>2, <1>4, <1>7, <1>9
<1>11. \A k : ~Started(q, k)
    BY <1>9 DEF Started
<1>12. /\ lock' \in [Keys -> Tabs \cup {None}] /\ \A k \in Keys : lock'[k] = t <=> Started(q, k)
       /\ \A u \in Tabs \ {t}, k \in Keys : lock'[k] = u <=> lock[k] = u
    <2>1. None \notin Tabs
        BY ChatNoneAssumption
    <2> QED
        BY <2>1, <1>1, <1>2, <1>11 DEF LockInv
<1>13. \A u \in Tabs \ {t} :
           Bears(tabs[u], store, knows[u], rotated[u], store', knows'[u], rotated'[u], Promises')
    <2> SUFFICES ASSUME NEW u \in Tabs \ {t}
                 PROVE  Bears(tabs[u], store, knows[u], rotated[u], store, knows[u], rotated[u], Promises')
        BY <1>2, <1>7
    <2>1. TabSound(tabs[u], ctrs, store, knows[u], rotated[u], Promises)
        BY DEF ChatInv
    <2> QED
        BY ONLY <2>1, BearsSame
<1> QED
    BY ONLY ChatInv, t \in Tabs, <1>2, <1>5, <1>6, <1>10, <1>12, <1>13, Compose

LEMMA PersistMergedStep ==
    ASSUME ChatInv, NEW t \in Tabs, NEW readOk \in BOOLEAN, NEW writeOk \in BOOLEAN,
           persistMerged(t, readOk, writeOk)
    PROVE  ChatInv'
<1> DEFINE r == tabs[t]
           tx == Head(r.txs)
           k == tx.key
           seen == IF readOk THEN tx.seen ELSE <<>>
           window == r.heap[tx.win].order
           order == merge(seen, window)
           wtx == [op |-> "write", key |-> tx.key, win |-> tx.win, seen |-> <<>>, ok |-> writeOk]
           p == r.persistTail[1]
           m == r.calls[p.slot].msg
           q == Merged(r, tx, order, wtx)
<1>1. /\ TabSound(r, ctrs, store, knows[t], rotated[t], Promises)
      /\ HistoryTypeOK /\ StoreInv /\ LockInv
    BY DEF ChatInv
<1>2. /\ r \in Tab /\ WindowsSound(r) /\ ChainSound(r) /\ OrdersFit(r, ctrs)
      /\ ReadsFresh(r, store) /\ WritesIt(r, Promises)
    BY <1>1 DEF TabSound
<1>3. r.txs # <<>> /\ tx.op = "read"
    BY DEF persistMerged, Reported
<1>4. r.txs \in Seq(Transaction) /\ r.persistTail \in Seq(Persist) /\ r.heap \in Seq(MemWindow)
    BY <1>2, TabFields
<1>5. tx = r.txs[1] /\ 1 \in DOMAIN r.txs /\ tx \in Transaction
    BY <1>3, <1>4
<1>6. k \in Keys /\ tx.win \in Nat /\ tx.seen \in Seq(Ctrs)
    BY <1>5 DEF Transaction
\* It is the read of the persist that the tab has the lock for.
<1>7. Started(r, k) /\ tx.win = p.win
    BY ONLY <1>2, <1>3, <1>5 DEF ChainSound
<1>8. r.persistTail # <<>> /\ p.key = k /\ p = Head(r.persistTail) /\ 1 \in DOMAIN r.persistTail
    BY <1>4, <1>7 DEF Started
<1>9. PersistSound(r, p)
    BY ONLY <1>2, <1>8 DEF ChainSound
<1>10. /\ p.slot \in Slots /\ r.calls[p.slot] # None /\ m.key = k
       /\ tx.win \in DOMAIN r.heap /\ r.heap[tx.win].key = k
    <2>1. p \in Persist
        BY <1>4, <1>8
    <2>2. p.slot \in Slots
        BY <2>1 DEF Persist
    <2> QED
        BY <2>2, <1>7, <1>8, <1>9 DEF PersistSound, Persists, Cached
<1>11. m \in Message
    <2>1. r.calls[p.slot] \in Unseal
        BY <1>2, <1>10, TabFields
    <2> QED
        BY <2>1 DEF Unseal
<1>12. window \in Seq(Ctrs)
    <2>1. r.heap[tx.win] \in MemWindow
        BY <1>4, <1>10
    <2> QED
        BY <2>1 DEF MemWindow
<1>13. Fits(window, ctrs[k]) /\ Fits(tx.seen, ctrs[k])
    BY ONLY <1>2, <1>5, <1>10 DEF OrdersFit
<1>14. seen \in Seq(Ctrs) /\ ToSet(seen) \subseteq ctrs[k] /\ ToSet(window) \subseteq ctrs[k] /\ IsFiniteSet(ctrs[k])
    <2>1. seen = tx.seen \/ seen = <<>>
        OBVIOUS
    <2> QED
        BY <2>1, <1>1, <1>6, <1>13, EmptyFits DEF Fits, HistoryTypeOK
<1>15. /\ tabs' = [tabs EXCEPT ![t] = q]
       /\ store' = IF writeOk THEN [store EXCEPT ![k] = order] ELSE store
       /\ written' = IF writeOk /\ m.gen = r.gen[m.key] THEN written \cup {m} ELSE written
       /\ (failed => failed') /\ ((readOk /\ writeOk) \/ failed')
       /\ lock' = lock /\ ctrs' = ctrs /\ knows' = knows /\ rotated' = rotated
    <2>1. /\ (failed => failed') /\ ((readOk /\ writeOk) \/ failed')
          /\ lock' = lock /\ ctrs' = ctrs /\ knows' = knows /\ rotated' = rotated
        BY DEF persistMerged, Outcome, Upset
    <2>2. /\ tabs' = [tabs EXCEPT ![t] = Create([r EXCEPT !.txs = Tail(@), !.heap[tx.win].order = order],
                                                "write", tx.key, tx.win, <<>>, writeOk)]
          /\ store' = IF writeOk THEN [store EXCEPT ![k] = order] ELSE store
          /\ written' = IF writeOk /\ m.gen = r.gen[m.key] THEN written \cup {m} ELSE written
        BY <1>8 DEF persistMerged, Update
    <2> HIDE DEF order
    <2>3. Create([r EXCEPT !.txs = Tail(@), !.heap[tx.win].order = order], "write", tx.key, tx.win, <<>>, writeOk) = q
        BY ONLY <1>2 DEF Create, Merged, Tab
    <2> QED
        BY ONLY <2>1, <2>2, <2>3
<1>16. HistoryTypeOK' /\ \A j \in Keys : ctrs[j] \subseteq ctrs'[j]
    BY <1>1, <1>11, <1>15 DEF HistoryTypeOK
<1>17. Promises' \subseteq Promises /\ (Promises' # {} => readOk /\ writeOk)
    <2>1. Promises' \subseteq Promises
        BY ONLY <1>15, <1>16, PromisesShrink
    <2>2. Promises' # {} => ~failed'
        BY DEF Promises, Promised
    <2> QED
        BY <2>1, <2>2, <1>15
<1> HIDE DEF q, order, seen, window, m, wtx, p
<1>18. /\ order \in Seq(Ctrs) /\ Fits(order, ctrs[k])
       /\ Cardinality(ctrs[k]) <= Window => \A c : c \in ToSet(seen) \/ c \in ToSet(window) => c \in ToSet(order)
    BY ONLY <1>12, <1>14, MergeFacts DEF order
<1>19. k \in Promises' => /\ ToSet(window) \subseteq ToSet(order)
                          /\ ToSet(store[k]) \subseteq ToSet(order)
                          /\ store'[k] = order
    <2> SUFFICES ASSUME k \in Promises' PROVE /\ ToSet(window) \subseteq ToSet(order)
                                              /\ ToSet(store[k]) \subseteq ToSet(order)
                                              /\ store'[k] = order
        OBVIOUS
    <2>1. readOk /\ writeOk /\ Cardinality(ctrs[k]) <= Window
        BY <1>15, <1>17 DEF Promises, Promised
    <2>2. ToSet(store[k]) \subseteq ToSet(tx.seen)
        BY ONLY <1>2, <1>3, <1>5 DEF ReadsFresh
    <2>3. seen = tx.seen
        BY <2>1 DEF seen
    <2>4. store'[k] = order
        BY <2>1, <1>1, <1>6, <1>15 DEF StoreInv
    <2> QED
        BY <2>1, <2>2, <2>3, <2>4, <1>18
<1>20. /\ store' \in [Keys -> Seq(Ctrs)]
       /\ \A j \in Keys : j # k => store'[j] = store[j]
       /\ store'[k] = order \/ store'[k] = store[k]
    BY <1>1, <1>6, <1>15, <1>18 DEF StoreInv
<1>21. StoreInv'
    <2>1. \A j \in Keys : Fits(store'[j], ctrs'[j])
        BY <1>1, <1>15, <1>18, <1>20 DEF StoreInv
    <2>2. ASSUME NEW n \in written', n.key \in Promises' PROVE n.ctr \in ToSet(store'[n.key])
        <3>1. CASE n \in written
            <4>1. n.key \in Keys /\ n.ctr \in ToSet(store[n.key])
                BY <3>1, <2>2, <1>1, <1>17 DEF StoreInv, HistoryTypeOK, Message
            <4> QED
                BY <4>1, <2>2, <1>19, <1>20
        <3>2. CASE n = m
            <4>1. k \in Promises /\ k \in Promises'
                BY <3>2, <2>2, <1>10, <1>17
            <4>2. m.ctr \in ToSet(window)
                BY <4>1, <1>2, <1>7, <1>8 DEF WritesIt, window, m, p
            <4> QED
                BY <4>1, <4>2, <3>2, <1>10, <1>19
        <3> QED
            BY <3>1, <3>2, <2>2, <1>15
    <2> QED
        BY <1>20, <2>1, <2>2 DEF StoreInv
<1>22. Writes(r, tx, order, wtx, ctrs, store, store', Promises')
    <2>1. /\ wtx \in Transaction /\ wtx.op = "write" /\ wtx.key = tx.key /\ wtx.win = tx.win /\ wtx.seen = <<>>
        BY <1>6, EmptyFits DEF wtx, Transaction
    <2> QED
        BY ONLY <2>1, <1>3, <1>5, <1>18, <1>19, <1>20 DEF Writes, window
<1>23. TabSound(r, ctrs, store, knows[t], rotated[t], Promises')
    BY ONLY <1>1, <1>17, Fewer
<1>24. TabSound(q, ctrs, store', knows[t], rotated[t], Promises') /\ q.persistTail = r.persistTail
    BY ONLY <1>22, <1>23, MergedSound DEF q
<1>25. \A j : Started(q, j) <=> Started(r, j)
    BY ONLY <1>24, SameTail
<1>26. TabSound(q, ctrs', store', knows'[t], rotated'[t], Promises')
    BY ONLY <1>15, <1>24
<1>27. /\ lock' \in [Keys -> Tabs \cup {None}] /\ \A j \in Keys : lock'[j] = t <=> Started(q, j)
       /\ \A u \in Tabs \ {t}, j \in Keys : lock'[j] = u <=> lock[j] = u
    BY <1>1, <1>15, <1>25 DEF LockInv
\* No other tab has read the record: it would have the lock.
<1>28. \A u \in Tabs \ {t} :
           Bears(tabs[u], store, knows[u], rotated[u], store', knows'[u], rotated'[u], Promises')
    <2> SUFFICES ASSUME NEW u \in Tabs \ {t}
                 PROVE  Bears(tabs[u], store, knows[u], rotated[u], store', knows[u], rotated[u], Promises')
        BY <1>15
    <2>1. TabSound(tabs[u], ctrs, store, knows[u], rotated[u], Promises)
        BY DEF ChatInv
    <2>2. ~Started(tabs[u], k)
        BY <1>1, <1>6, <1>7 DEF LockInv
    <2>3. ASSUME NEW i \in DOMAIN tabs[u].txs, tabs[u].txs[i].op = "read"
          PROVE  store'[tabs[u].txs[i].key] = store[tabs[u].txs[i].key]
        <3>1. Started(tabs[u], tabs[u].txs[i].key)
            BY <2>1, <2>3 DEF TabSound, ChainSound
        <3>2. tabs[u].txs[i].key \in Keys
            <4>1. tabs[u].txs \in Seq(Transaction)
                BY <2>1, TabFields DEF TabSound
            <4>2. tabs[u].txs[i] \in Transaction
                BY <4>1
            <4> QED
                BY <4>2 DEF Transaction
        <3> QED
            BY <3>1, <3>2, <2>2, <1>20
    <2>4. \A j \in Keys : j \in Promises' => ToSet(store[j]) \subseteq ToSet(store'[j])
        BY <1>19, <1>20
    <2>5. \A n \in knows[u] : n.key \notin rotated[u]
        BY <2>1 DEF TabSound, Session
    <2> QED
        BY ONLY <2>3, <2>4, <2>5 DEF Bears
<1> QED
    BY ONLY ChatInv, t \in Tabs, <1>15, <1>16, <1>21, <1>26, <1>27, <1>28, Compose

(***************************************************************************)
(* The invariant holds.                                                    *)
(***************************************************************************)
LEMMA ChatInvInit ==
    ASSUME Init
    PROVE  ChatInv
<1> PICK shows \in Layouts : tabs = [t \in Tabs |-> createChatProvider(shows[t], Zero)]
    BY DEF Init
<1>1. /\ store = [k \in Keys |-> <<>>] /\ lock = [k \in Keys |-> None]
      /\ ctrs = [k \in Keys |-> {}] /\ written = {}
      /\ knows = [t \in Tabs |-> {}] /\ rotated = [t \in Tabs |-> {}]
    BY DEF Init, Empty
<1>2. HistoryTypeOK
    BY <1>1, FS_EmptySet DEF HistoryTypeOK
<1>3. StoreInv
    BY <1>1, EmptyFits DEF StoreInv
<1>4. Zero \in [Keys -> Gens]
    BY ChatBoundsAssumption DEF Zero, Gens
<1>5. ASSUME NEW t \in Tabs
      PROVE  /\ TabSound(tabs[t], ctrs, store, knows[t], rotated[t], Promises)
             /\ \A k : ~Started(tabs[t], k)
    <2> DEFINE q == createChatProvider(shows[t], Zero)
    <2>1. shows[t] \in SUBSET Keys
        BY LayoutsAssumption
    <2>2. tabs[t] = q /\ knows[t] = {} /\ rotated[t] = {}
        BY <1>1
    <2>3. \A m \in {} : m.key \in Promises => m.ctr \in ToSet(store[m.key])
        OBVIOUS
    <2> HIDE DEF q
    <2>4. TabSound(q, ctrs, store, {}, {}, Promises) /\ q.persistTail = <<>>
        BY ONLY <2>1, <2>3, <1>4, FreshSound DEF q
    <2>5. \A k : ~Started(q, k)
        BY <2>4 DEF Started
    <2> QED
        BY ONLY <2>2, <2>4, <2>5
<1>6. LockInv
    BY <1>1, <1>5, ChatNoneAssumption DEF LockInv
<1> QED
    BY <1>2, <1>3, <1>5, <1>6 DEF ChatInv

LEMMA ChatInvStutter ==
    ASSUME ChatInv, UNCHANGED chatVars
    PROVE  ChatInv'
<1>1. /\ tabs' = tabs /\ store' = store /\ lock' = lock /\ failed' = failed /\ ctrs' = ctrs
      /\ written' = written /\ knows' = knows /\ rotated' = rotated
    BY DEF chatVars, history
<1>2. Promises' = Promises
    BY <1>1 DEF Promises, Promised
<1>3. HistoryTypeOK' /\ LockInv'
    BY <1>1 DEF ChatInv, HistoryTypeOK, LockInv
<1>4. StoreInv'
    BY <1>1, <1>2 DEF ChatInv, StoreInv
<1> QED
    BY <1>1, <1>2, <1>3, <1>4 DEF ChatInv

LEMMA ChatInvNext ==
    ASSUME ChatInv, Next
    PROVE  ChatInv'
<1> PICK t \in Tabs : Continuation(t) \/ Task(t) \/ Application(t) \/ reload(t)
    BY DEF Next
<1>1. CASE Continuation(t)
    BY <1>1, CheckStep, AcceptStep DEF Continuation
<1>2. CASE Task(t)
    <2>1. ~Resumable(t)
        BY <1>2 DEF Task
    <2>2. CASE \E s \in Slots : deriveAesKeyAndSalt(t, s) \/ replayCheck(t, s) \/ sframeDecrypt(t, s)
        BY <2>2, DeriveStep, ReplayCheckStep, DecryptStep
    <2>3. CASE \E ok \in BOOLEAN : hydrateDone(t, ok)
        BY <2>1, <2>3, HydrateDoneStep
    <2>4. CASE lockGranted(t)
        BY <2>4, LockGrantedStep
    <2>5. CASE \E readOk, writeOk \in BOOLEAN : persistMerged(t, readOk, writeOk)
        BY <2>5, PersistMergedStep
    <2>6. CASE persistDone(t)
        BY <2>6, PersistDoneStep
    <2>7. CASE clearDone(t)
        BY <2>7, ClearDoneStep
    <2> QED
        BY <1>2, <2>2, <2>3, <2>4, <2>5, <2>6, <2>7 DEF Task
<1>3. CASE Application(t)
    <2>1. CASE \E s \in Slots, m \in Message : unseal(t, s, m)
        BY <2>1, UnsealStep
    <2>2. CASE \E k \in tabs[t].shows, ok \in BOOLEAN : rotate(t, k, ok)
        <3>1. tabs[t].shows \subseteq Keys
            BY DEF ChatInv, TabSound, Tab
        <3> QED
            BY <2>2, <3>1, RotateStep
    <2> QED
        BY <1>3, <2>1, <2>2 DEF Application
<1>4. CASE reload(t)
    BY <1>4, ReloadStep
<1> QED
    BY <1>1, <1>2, <1>3, <1>4

LEMMA ChatInvAlways == ChatSpec => []ChatInv
<1>1. Init => ChatInv
    BY ChatInvInit
<1>2. ChatInv /\ [Next]_chatVars => ChatInv'
    BY ChatInvNext, ChatInvStutter
<1> QED
    BY <1>1, <1>2, PTL DEF ChatSpec

(***************************************************************************)
(* What it means for the guard.                                            *)
(***************************************************************************)
\* The provider and the store keep their types; a persisted window has each counter
\* once and no more of them than the window (dedupKeepLast and slice in #persist),
\* and getReplayWindow keeps no more rooms than MAX_REPLAY_ROOMS.
THEOREM ChatTypeCorrect == ChatSpec => []ChatTypeOK
<1>1. ChatInv => ChatTypeOK
    <2> SUFFICES ASSUME ChatInv PROVE ChatTypeOK
        OBVIOUS
    <2>1. tabs \in [Tabs -> Tab] /\ \A t \in Tabs : Len(tabs[t].rooms) <= RoomCap
        BY DEF ChatInv, TabSound, RoomsSound
    <2>2. store \in [Keys -> Seq(Ctrs)] /\ \A k \in Keys : Len(store[k]) <= Window /\ IsInjective(store[k])
        BY DEF ChatInv, StoreInv, Fits
    <2>3. lock \in [Keys -> Tabs \cup {None}]
        BY DEF ChatInv, LockInv
    <2> QED
        BY <2>1, <2>2, <2>3 DEF ChatTypeOK
<1> QED
    BY <1>1, ChatInvAlways, PTL

\* Nobody waits for what cannot come: check and accept await a window that is there
\* or whose read is under way, a call awaits a persist that is in the chain, and the
\* Web Lock of a room is held exactly while the persist at the head of its holder's
\* chain has a transaction under way, whatever fails and whichever tab is reloaded.
THEOREM WaitsEnd == ChatSpec => []EveryWaitEnds
<1>1. ChatInv => EveryWaitEnds
    <2> SUFFICES ASSUME ChatInv PROVE EveryWaitEnds
        OBVIOUS
    <2>1. ASSUME NEW t \in Tabs
          PROVE  WindowsSound(tabs[t]) /\ ChainSound(tabs[t]) /\ tabs[t].persistTail \in Seq(Persist)
        <3>1. TabSound(tabs[t], ctrs, store, knows[t], rotated[t], Promises)
            BY DEF ChatInv
        <3> QED
            BY <3>1, TabFields DEF TabSound
    <2>2. ASSUME NEW t \in Tabs, NEW s \in Slots, InState(t, s, "check") \/ InState(t, s, "accept"), ~Awaited(t, s)
          PROVE  \E i \in DOMAIN tabs[t].txs :
                     tabs[t].txs[i].op = "hydrate" /\ tabs[t].txs[i].win = tabs[t].calls[s].win
        <3>1. Waits(tabs[t], s)
            BY <2>2 DEF InState, Waits
        <3>2. Cached(tabs[t], tabs[t].calls[s].msg.key, tabs[t].calls[s].win)
            BY ONLY <3>1, <2>1, t \in Tabs, s \in Slots DEF WindowsSound
        <3>3. \A w \in DOMAIN tabs[t].heap : ~tabs[t].heap[w].ready =>
                  \E i \in DOMAIN tabs[t].txs : tabs[t].txs[i].op = "hydrate" /\ tabs[t].txs[i].win = w
            BY ONLY <2>1, t \in Tabs DEF WindowsSound
        <3>4. tabs[t].calls[s].win \in DOMAIN tabs[t].heap /\ ~tabs[t].heap[tabs[t].calls[s].win].ready
            BY ONLY <3>2, <2>2 DEF Cached, Awaited
        <3> QED
            BY ONLY <3>3, <3>4
    <2>3. ASSUME NEW t \in Tabs, NEW s \in Slots, InState(t, s, "persist")
          PROVE  \E i \in DOMAIN tabs[t].persistTail : tabs[t].persistTail[i].slot = s
        <3>1. Persists(tabs[t], s)
            BY <2>3 DEF InState, Persists
        <3> QED
            BY ONLY <3>1, <2>1, t \in Tabs, s \in Slots DEF ChainSound
    <2>4. ASSUME NEW t \in Tabs, NEW k \in Keys
          PROVE  LET tail == tabs[t].persistTail
                 IN  lock[k] = t <=> /\ tail # <<>> /\ Head(tail).started /\ Head(tail).key = k
                                     /\ \E i \in DOMAIN tabs[t].txs :
                                           tabs[t].txs[i].op \in {"read", "write"} /\ tabs[t].txs[i].key = k
        <3> DEFINE tail == tabs[t].persistTail
        <3>1. lock[k] = t <=> Started(tabs[t], k)
            BY DEF ChatInv, LockInv
        <3>2. Started(tabs[t], k) => \E i \in DOMAIN tabs[t].txs :
                                        tabs[t].txs[i].op \in {"read", "write"} /\ tabs[t].txs[i].key = k
            <4> SUFFICES ASSUME Started(tabs[t], k)
                         PROVE  \E i \in DOMAIN tabs[t].txs :
                                    tabs[t].txs[i].op \in {"read", "write"} /\ tabs[t].txs[i].key = k
                OBVIOUS
            <4>1. PICK i \in DOMAIN tabs[t].txs : tabs[t].txs[i].op \in {"read", "write"}
                BY <2>1 DEF ChainSound
            <4>2. Started(tabs[t], tabs[t].txs[i].key)
                BY <2>1, <4>1 DEF ChainSound
            <4>3. tabs[t].txs[i].key = k
                BY <4>2 DEF Started
            <4> QED
                BY <4>1, <4>3
        <3>3. tail # <<>> => Head(tail) = tail[1]
            BY <2>1
        <3>4. Started(tabs[t], k) <=> tail # <<>> /\ Head(tail).started /\ Head(tail).key = k
            BY <3>3 DEF Started
        <3> QED
            BY <3>1, <3>2, <3>4
    <2> QED
        BY <2>2, <2>3, <2>4 DEF EveryWaitEnds
<1> QED
    BY <1>1, ChatInvAlways, PTL

\* A call that begins after rotate holds a retired key only where a derivation that
\* was under way during the rotate put it back into the cache of evictRoom.
THEOREM RetiredKeysOverlap == ChatSpec => []RetiredKeyNeedsOverlap
<1>1. ChatInv => RetiredKeyNeedsOverlap
    BY DEF ChatInv, TabSound, KeysSound, RetiredKeyNeedsOverlap
<1> QED
    BY <1>1, ChatInvAlways, PTL

\* What a session has recorded or began with is in the window that the guard has
\* cached or would read: trimMemCache evicts no window with a counter that #persist
\* has not written, and no merge drops one, in any number of tabs.
THEOREM GuardKeepsItsWord == ChatSpec => []GuardRemembers
<1>1. ChatInv => GuardRemembers
    <2> SUFFICES ASSUME ChatInv, NEW t \in Tabs, NEW m \in knows[t], Promised(m.key)
                 PROVE  LET win == tabs[t].mem[m.key]
                        IN  m.ctr \in ToSet(IF win # None THEN tabs[t].heap[win].order ELSE store[m.key])
        BY DEF GuardRemembers
    <2>1. Session(tabs[t], knows[t], rotated[t], store, Promises)
        BY DEF ChatInv, TabSound
    <2>2. m.key \in Keys
        BY DEF ChatInv, HistoryTypeOK, Message
    <2>3. m.key \in Keys \ rotated[t] /\ m.key \in Promises
        BY <2>1, <2>2 DEF Session, Promises
    <2>4. Remembers(tabs[t], m.key, m.ctr, ToSet(store[m.key]))
        BY <2>1, <2>3 DEF Session
    <2> QED
        BY <2>4 DEF Remembers
<1> QED
    BY <1>1, ChatInvAlways, PTL

\* unseal does not open a message that was known when the call began: recorded by
\* accept in this session, or written by any tab before the session began, while
\* IndexedDB works and the counters opened fit the window.
THEOREM ReplaysRefused == ChatSpec => []ReplayRefused
<1>1. ChatInv => ReplayRefused
    <2> SUFFICES ASSUME ChatInv, NEW t \in Tabs, NEW s \in Slots, tabs[t].calls[s] # None,
                        Promised(tabs[t].calls[s].msg.key), tabs[t].calls[s].known,
                        tabs[t].calls[s].msg.key \notin rotated[t]
                 PROVE  tabs[t].calls[s].pc \notin {"accept", "persist"}
        BY DEF ReplayRefused
    <2> DEFINE c == tabs[t].calls[s]
               k == c.msg.key
    <2>1. TabSound(tabs[t], ctrs, store, knows[t], rotated[t], Promises)
        BY DEF ChatInv
    <2>2. k \in Keys
        BY <2>1, TabFields DEF TabSound
    <2>3. k \in Keys \ rotated[t] /\ k \in Promises
        BY <2>2 DEF Promises
    <2>4. Refuses(tabs[t], k, ToSet(store[k]))
        BY <2>1, <2>3 DEF TabSound, Session
    <2> QED
        BY <2>4 DEF Refuses
<1> QED
    BY <1>1, ChatInvAlways, PTL
=============================================================================
