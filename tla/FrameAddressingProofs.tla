------------------------ MODULE FrameAddressingProofs ------------------------
(***************************************************************************)
(* What holds of FrameAddressing for every width of a byte, a Key ID, an   *)
(* epoch, an index and a counter, those of the code among them, and for    *)
(* every configuration, group and history.                                 *)
(***************************************************************************)
EXTENDS FrameAddressing, TLAPS, FiniteSetTheorems, FunctionTheorems, WellFoundedInduction

(***************************************************************************)
(* Powers of two, of which the provers know nothing, and division.         *)
(***************************************************************************)
\* 2^n counts the subsets of a set of n elements.
LEMMA PowerIsSubsets ==
    ASSUME NEW S, IsFiniteSet(S), NEW n \in Nat, Cardinality(S) = n
    PROVE  /\ 2^n = Cardinality(SUBSET S) /\ IsFiniteSet(SUBSET S)
           /\ 2^n \in Nat /\ 2^n > 0
<1>1. IsFiniteSet(SUBSET S) /\ Cardinality(SUBSET S) = 2^n
    BY FS_SUBSET
<1>2. Cardinality(SUBSET S) \in Nat /\ Cardinality(SUBSET S) # 0
    <2>1. {} \in SUBSET S
        OBVIOUS
    <2> QED
        BY <1>1, <2>1, FS_CardinalityType, FS_EmptySet
<1> QED
    BY <1>1, <1>2

LEMMA PowerType ==
    ASSUME NEW n \in Nat
    PROVE  2^n \in Nat /\ 2^n > 0
<1>1. IsFiniteSet(1..n) /\ Cardinality(1..n) = n
    BY FS_Interval
<1> QED
    BY <1>1, PowerIsSubsets

LEMMA PowerSum ==
    ASSUME NEW a \in Nat, NEW b \in Nat
    PROVE  2^(a + b) = 2^a * 2^b
<1> DEFINE S == 1..a
           T == (a + 1)..(a + b)
           P == (SUBSET S) \X (SUBSET T)
           f == [p \in P |-> p[1] \cup p[2]]
<1>1. /\ IsFiniteSet(S) /\ Cardinality(S) = a
      /\ IsFiniteSet(T) /\ Cardinality(T) = b
    <2>1. IsFiniteSet(S) /\ Cardinality(S) = a
        BY FS_Interval
    <2>2. IsFiniteSet(T) /\ Cardinality(T) = b
        <3>1. a + 1 \in Int /\ a + b \in Int
            OBVIOUS
        <3>2. IsFiniteSet(T) /\ Cardinality(T) = IF a + 1 > a + b THEN 0 ELSE (a + b) - (a + 1) + 1
            BY <3>1, FS_Interval
        <3> QED
            BY <3>2
    <2> QED
        BY <2>1, <2>2
<1>2. IsFiniteSet(1..(a + b)) /\ Cardinality(1..(a + b)) = a + b
    <2>1. PICK c \in Nat : c = a + b
        OBVIOUS
    <2>2. IsFiniteSet(1..c) /\ Cardinality(1..c) = c
        BY FS_Interval
    <2> QED
        BY <2>1, <2>2
<1>3. S \cup T = 1..(a + b) /\ S \cap T = {}
    OBVIOUS
<1> HIDE DEF S, T
<1>4. IsFiniteSet(P) /\ Cardinality(P) = 2^a * 2^b
    <2>1. /\ IsFiniteSet(SUBSET S) /\ Cardinality(SUBSET S) = 2^a
          /\ IsFiniteSet(SUBSET T) /\ Cardinality(SUBSET T) = 2^b
        BY <1>1, PowerIsSubsets
    <2> QED
        BY <2>1, FS_Product
<1>5. f \in [P -> SUBSET (S \cup T)]
    OBVIOUS
<1>6. ASSUME NEW p \in P, NEW q \in P, f[p] = f[q]
      PROVE  p = q
    <2>1. p[1] \in SUBSET S /\ q[1] \in SUBSET S /\ p[2] \in SUBSET T /\ q[2] \in SUBSET T
        OBVIOUS
    <2>2. p[1] \cup p[2] = q[1] \cup q[2]
        BY <1>6
    <2>3. p[1] = q[1] /\ p[2] = q[2]
        BY <1>3, <2>1, <2>2
    <2> QED
        BY <2>3
<1>7. ASSUME NEW t \in SUBSET (S \cup T)
      PROVE  \E p \in P : f[p] = t
    <2> DEFINE p == <<t \cap S, t \cap T>>
    <2>1. p \in P /\ p[1] \cup p[2] = t
        OBVIOUS
    <2> QED
        BY <2>1
<1>8. f \in Bijection(P, SUBSET (S \cup T))
    <2> HIDE DEF f
    <2> QED
        BY <1>5, <1>6, <1>7 DEF Bijection, Injection, Surjection, IsInjective
<1>9. Cardinality(P) = Cardinality(SUBSET (S \cup T))
    <2> HIDE DEF P, f
    <2>1. ExistsBijection(P, SUBSET (S \cup T))
        BY <1>8 DEF ExistsBijection
    <2> QED
        BY <2>1, <1>4, FS_Bijection
<1>10. Cardinality(SUBSET (S \cup T)) = 2^(a + b)
    <2>1. PICK c \in Nat : c = a + b
        OBVIOUS
    <2>2. IsFiniteSet(S \cup T) /\ Cardinality(S \cup T) = c
        BY <1>2, <1>3, <2>1
    <2>3. Cardinality(SUBSET (S \cup T)) = 2^c
        BY <2>2, PowerIsSubsets
    <2> QED
        BY <2>1, <2>3
<1> QED
    BY <1>4, <1>9, <1>10

LEMMA PowerOrder ==
    ASSUME NEW a \in Nat, NEW b \in Nat, a <= b
    PROVE  2^a <= 2^b
<1>1. b - a \in Nat /\ a + (b - a) = b
    OBVIOUS
<1>2. 2^b = 2^a * 2^(b - a)
    BY <1>1, PowerSum
<1>3. PICK x, y \in Nat : x = 2^a /\ y = 2^(b - a) /\ y > 0
    BY <1>1, PowerType
<1>4. x <= x * y
    BY <1>3
<1> QED
    BY <1>2, <1>3, <1>4
LEMMA SmallPowers == 2^0 = 1 /\ 2^1 = 2
OBVIOUS

LEMMA Division ==
    ASSUME NEW a \in Int, NEW b \in Nat, b > 0
    PROVE  a = b * (a \div b) + (a % b) /\ a \div b \in Int /\ a % b \in 0..(b - 1)
OBVIOUS

LEMMA Quotient ==
    ASSUME NEW b \in Nat, b > 0, NEW q \in Int, NEW r \in Int, NEW a \in Int,
           a = q * b + r, 0 <= r, r < b
    PROVE  a \div b = q /\ a % b = r
OBVIOUS

LEMMA QuotientTwice ==
    ASSUME NEW a \in Nat, NEW b \in Nat, NEW c \in Nat, b > 0, c > 0
    PROVE  a \div (b * c) = (a \div b) \div c
OBVIOUS

LEMMA QuotientBound ==
    ASSUME NEW a \in Nat, NEW b \in Nat, NEW c \in Nat, b > 0, a < b * c
    PROVE  a \div b \in Nat /\ a \div b < c
OBVIOUS

-----------------------------------------------------------------------------
(***************************************************************************)
(* Numbers as bytes, the highest first.                                    *)
(***************************************************************************)
LEMMA LeastOf ==
    ASSUME NEW T \in SUBSET Nat, T # {}
    PROVE  \E n \in T : \A y \in T : n <= y
<1>1. IsWellFoundedOn(OpToRel(<, Nat), Nat)
    BY NatLessThanWellFounded
<1>2. PICK n \in T : \A p \in T : ~(<<p, n>> \in OpToRel(<, Nat))
    BY ONLY <1>1, WFMin, T \in SUBSET Nat, T # {}
<1>3. \A p \in T : ~(p < n)
    BY <1>2 DEF OpToRel
<1> QED
    BY <1>3

LEMMA MinOf ==
    ASSUME NEW T \in SUBSET Nat, T # {}
    PROVE  Min(T) \in T /\ \A y \in T : Min(T) <= y
BY LeastOf DEF Min

LEMMA MaxOf ==
    ASSUME NEW n \in Nat, NEW T \in SUBSET (0..n), T # {}
    PROVE  Max(T) \in T /\ \A y \in T : Max(T) >= y
<1> DEFINE D == {n - y : y \in T}
<1>0. \A y \in T : y \in Int /\ n - y \in Nat /\ n - y \in D
    OBVIOUS
<1>1. D \in SUBSET Nat /\ D # {}
    BY <1>0
<1>2. PICK d \in D : \A e \in D : d <= e
    BY <1>1, LeastOf
<1>3. PICK x \in T : d = n - x
    OBVIOUS
<1>4. \A y \in T : x >= y
    <2> SUFFICES ASSUME NEW y \in T PROVE x >= y
        OBVIOUS
    <2>1. n - x <= n - y
        BY <1>0, <1>2, <1>3
    <2> QED
        BY <2>1, <1>0
<1> QED
    BY <1>4 DEF Max

\* One step of the fold, over the set s of the positions that are left.
Value(f, seq, s) == IF s = {} THEN 0 ELSE f[s \ {Max(s)}] * Base + seq[Max(s)]
IsValue(f, seq, S) == f = [s \in SUBSET S |-> Value(f, seq, s)]

LEMMA ValueExists ==
    ASSUME NEW seq, NEW n \in Nat
    PROVE  \E f : IsValue(f, seq, 1..n)
<1> DEFINE P(m) == \E f : IsValue(f, seq, 1..m)
           T == {m \in 0..n : ~P(m)}
<1>1. P(0)
    <2> DEFINE g == [s \in SUBSET (1..0) |-> 0]
    <2>1. \A s \in SUBSET (1..0) : s = {}
        OBVIOUS
    <2>2. \A s \in SUBSET (1..0) : Value(g, seq, s) = 0
        BY <2>1 DEF Value
    <2>3. g = [s \in SUBSET (1..0) |-> Value(g, seq, s)]
        BY <2>2
    <2> QED
        BY <2>3 DEF IsValue
<1>2. ASSUME NEW m \in Nat, P(m)
      PROVE  P(m + 1)
    <2>1. PICK f : IsValue(f, seq, 1..m)
        BY <1>2
    <2> DEFINE S == 1..m
               R == 1..(m + 1)
               g == [s \in SUBSET R |-> IF m + 1 \in s THEN f[s \ {m + 1}] * Base + seq[m + 1] ELSE f[s]]
    <2>2. \A s \in SUBSET S : f[s] = Value(f, seq, s)
        BY <2>1 DEF IsValue
    <2>3. \A s \in SUBSET S : s \in SUBSET R /\ m + 1 \notin s /\ g[s] = f[s]
        BY <1>2
    <2>4. ASSUME NEW s \in SUBSET R
          PROVE  g[s] = Value(g, seq, s)
        <3>1. CASE m + 1 \in s
            <4>1. Max(s) \in s /\ \A y \in s : Max(s) >= y
                <5>1. m + 1 \in Nat /\ s \in SUBSET (0..(m + 1)) /\ s # {}
                    BY <3>1
                <5> QED
                    BY <5>1, MaxOf
            <4>2. Max(s) = m + 1
                <5>1. PICK x \in R : x = Max(s) /\ \A y \in s : x >= y
                    BY <4>1
                <5>2. x >= m + 1
                    BY <5>1, <3>1
                <5>3. x = m + 1
                    BY <5>2
                <5> QED
                    BY <5>1, <5>3
            <4>3. s \ {m + 1} \in SUBSET S
                OBVIOUS
            <4>4. g[s \ {m + 1}] = f[s \ {m + 1}]
                BY <4>3, <2>3
            <4>5. g[s] = f[s \ {m + 1}] * Base + seq[m + 1]
                BY <3>1
            <4> HIDE DEF g
            <4> QED
                BY <4>2, <4>4, <4>5, <3>1 DEF Value
        <3>2. CASE m + 1 \notin s
            <4>1. s \in SUBSET S
                BY <3>2
            <4>2. g[s] = Value(f, seq, s)
                BY <4>1, <2>2, <2>3
            <4>3. s \ {Max(s)} \in SUBSET S
                BY <4>1
            <4>4. g[s \ {Max(s)}] = f[s \ {Max(s)}]
                BY <4>3, <2>3
            <4> HIDE DEF g
            <4> QED
                BY <4>2, <4>4 DEF Value
        <3> QED
            BY <3>1, <3>2
    <2>5. g = [s \in SUBSET R |-> Value(g, seq, s)]
        BY <2>4
    <2> HIDE DEF g
    <2> QED
        BY <2>5 DEF IsValue
<1>3. T = {}
    <2> SUFFICES ASSUME T # {} PROVE FALSE
        OBVIOUS
    <2>1. T \in SUBSET Nat
        OBVIOUS
    <2>2. PICK m \in T : \A y \in T : m <= y
        BY <2>1, LeastOf
    <2> HIDE DEF P
    <2>3. m # 0
        BY <1>1
    <2>4. m - 1 \in 0..n /\ m - 1 \in Nat /\ m - 1 \notin T
        BY <2>2, <2>3
    <2>5. P(m - 1)
        BY <2>4
    <2>6. P((m - 1) + 1)
        BY <2>4, <2>5, <1>2
    <2> QED
        BY <2>6
<1>4. P(n)
    <2> HIDE DEF P
    <2> QED
        BY <1>3
<1> QED
    BY <1>4

\* Reading goes from byte to byte.
LEMMA ReadSteps ==
    ASSUME NEW n \in Nat, NEW seq, DOMAIN seq = 1..n
    PROVE  \E f : /\ readBigEndian(seq) = f[1..n] /\ f[1..0] = 0
                 /\ \A m \in 1..n : f[1..m] = f[1..(m - 1)] * Base + seq[m]
<1> DEFINE f == CHOOSE g : IsValue(g, seq, DOMAIN seq)
<1>1. readBigEndian(seq) = f[DOMAIN seq]
    BY DEF readBigEndian, FoldLeft, MapThenFoldSet, IsValue, Value
<1>2. IsValue(f, seq, DOMAIN seq)
    BY ValueExists
<1> HIDE DEF f
<1>3. \A s \in SUBSET (1..n) : f[s] = Value(f, seq, s)
    BY <1>2 DEF IsValue
<1>4. f[1..0] = 0
    <2>1. 1..0 = {} /\ 1..0 \in SUBSET (1..n)
        OBVIOUS
    <2> QED
        BY <2>1, <1>3 DEF Value
<1>5. ASSUME NEW m \in 1..n
      PROVE  f[1..m] = f[1..(m - 1)] * Base + seq[m]
    <2>1. m \in Nat /\ 1..m \in SUBSET (0..m) /\ 1..m # {} /\ 1..m \in SUBSET (1..n)
        <3>1. m \in Nat /\ 1 <= m /\ m <= n
            OBVIOUS
        <3>2. m \in 1..m
            BY <3>1
        <3>3. 1..m # {}
            BY ONLY <3>2
        <3>4. 1..m \in SUBSET (0..m) /\ 1..m \in SUBSET (1..n)
            BY <3>1
        <3> QED
            BY <3>1, <3>3, <3>4
    <2>2. PICK x \in 1..m : x = Max(1..m) /\ \A y \in 1..m : x >= y
        BY <2>1, MaxOf
    <2>3. x = m
        <3>1. m \in 1..m
            BY <2>1
        <3> QED
            BY <2>1, <2>2, <3>1
    <2>4. (1..m) \ {m} = 1..(m - 1)
        OBVIOUS
    <2> QED
        BY <2>1, <2>2, <2>3, <2>4, <1>3 DEF Value
<1> QED
    BY <1>1, <1>4, <1>5

(***************************************************************************)
(* A number that fits into some bytes is read back from them (what         *)
(* fixedBigEndian and minimalBigEndian write, readBigEndianNumber and      *)
(* readBigEndianBigInt read).                                              *)
(***************************************************************************)
LEMMA BaseType == Base \in Nat /\ Base > 0 /\ ByteBits \in Nat /\ ByteBits > 0 /\ Base = 2^ByteBits
BY WidthAssumption, PowerType DEF Base

LEMMA BitsOfBytes ==
    ASSUME NEW k \in Nat
    PROVE  /\ ByteBits * k \in Nat /\ ByteBits * (k + 1) = ByteBits * k + ByteBits
           /\ 2^(ByteBits * k) \in Nat /\ 2^(ByteBits * k) > 0
           /\ 2^(ByteBits * (k + 1)) = 2^(ByteBits * k) * Base
<1>1. ByteBits * k \in Nat /\ ByteBits * (k + 1) = ByteBits * k + ByteBits
    BY BaseType
<1>2. PICK m \in Nat : m = ByteBits * k
    BY <1>1
<1>3. 2^m \in Nat /\ 2^m > 0 /\ 2^(m + ByteBits) = 2^m * 2^ByteBits
    BY BaseType, PowerType, PowerSum
<1> QED
    BY <1>1, <1>2, <1>3, BaseType

LEMMA WriteThenRead ==
    ASSUME NEW v \in Nat, NEW w \in Nat, v < 2^(ByteBits * w)
    PROVE  readBigEndian(fixedBigEndian(v, w)) = v
<1> DEFINE bytes == fixedBigEndian(v, w)
           q(j) == v \div 2^(ByteBits * (w - j))
<1>1. DOMAIN bytes = 1..w /\ \A j \in 1..w : bytes[j] = q(j) % Base
    BY DEF fixedBigEndian
<1> HIDE DEF bytes
<1>2. PICK f : /\ readBigEndian(bytes) = f[1..w] /\ f[1..0] = 0
               /\ \A m \in 1..w : f[1..m] = f[1..(m - 1)] * Base + bytes[m]
    BY <1>1, ReadSteps
<1>3. q(0) = 0
    <2>1. PICK b \in Nat : b = 2^(ByteBits * w) /\ b > 0
        BY BitsOfBytes
    <2>2. v = 0 * b + v /\ 0 <= v /\ v < b
        BY <2>1
    <2>3. v \div b = 0
        BY <2>1, <2>2, Quotient
    <2>4. w - 0 = w
        OBVIOUS
    <2> QED
        BY <2>1, <2>3, <2>4
<1>4. ASSUME NEW j \in 1..w
      PROVE  q(j) = q(j - 1) * Base + (q(j) % Base)
    <2>1. PICK k \in Nat : k = w - j
        OBVIOUS
    <2>2. w - (j - 1) = k + 1
        BY <2>1
    <2>3. PICK x \in Nat : x = 2^(ByteBits * k) /\ x > 0
        BY BitsOfBytes
    <2>4. q(j) = v \div x /\ q(j - 1) = v \div (x * Base)
        BY <2>1, <2>2, <2>3, BitsOfBytes
    <2>5. PICK a \in Nat : a = v \div x
        <3>1. v \div x \in Nat
            BY <2>3
        <3> QED
            BY <3>1
    <2>6. v \div (x * Base) = a \div Base
        BY <2>3, <2>5, BaseType, QuotientTwice
    <2>7. a = Base * (a \div Base) + (a % Base) /\ a \div Base \in Int
        BY BaseType, Division
    <2>8. Base * (a \div Base) = (a \div Base) * Base
        BY <2>7, BaseType
    <2> HIDE DEF q
    <2> QED
        BY <2>4, <2>5, <2>6, <2>7, <2>8
<1>5. q(w) = v
    <2>1. w - w = 0 /\ ByteBits * 0 = 0
        BY BaseType
    <2>2. 2^(ByteBits * (w - w)) = 1
        BY <2>1, SmallPowers
    <2> QED
        BY <2>2
<1> DEFINE U == {j \in 0..w : f[1..j] # q(j)}
<1>6. U = {}
    <2> SUFFICES ASSUME U # {} PROVE FALSE
        OBVIOUS
    <2> HIDE DEF q
    <2>1. U \in SUBSET Nat
        OBVIOUS
    <2>2. PICK m \in U : \A y \in U : m <= y
        BY <2>1, LeastOf
    <2>3. m # 0
        BY <1>2, <1>3
    <2>4. m \in 1..w /\ m - 1 \in 0..w /\ m - 1 \notin U
        BY <2>2, <2>3
    <2>5. f[1..(m - 1)] = q(m - 1)
        BY <2>4
    <2>6. f[1..m] = q(m)
        BY <2>4, <2>5, <1>1, <1>2, <1>4
    <2> QED
        BY <2>6
<1>7. f[1..w] = q(w)
    <2> HIDE DEF q
    <2> QED
        BY <1>6
<1> QED
    BY <1>2, <1>5, <1>7 DEF bytes

LEMMA Widths ==
    /\ KidBytes \in Nat /\ CtrBytes \in Nat /\ CtrBytes > 0
    /\ WordBits = ByteBits * KidBytes /\ BigBits = ByteBits * CtrBytes
    /\ HalfBits \in Nat /\ WordBits \in Nat /\ BigBits \in Nat /\ SafeBits \in Nat /\ TagBytes \in Nat
    /\ WordBits <= SafeBits /\ WordBits <= BigBits
<1>1. /\ ByteBits \in Nat /\ ByteBits > 0 /\ HalfBits \in Nat /\ HalfBits > 0 /\ TagBytes \in Nat
      /\ WordBits = 2 * HalfBits /\ BigBits = 2 * WordBits /\ WordBits = KidBytes * ByteBits
      /\ SafeBits \in WordBits .. BigBits
    BY WidthAssumption
<1>2. WordBits \in Nat /\ BigBits \in Nat /\ WordBits > 0
    BY <1>1
<1>3. KidBytes \in Nat
    BY <1>1, <1>2 DEF KidBytes
<1>4. KidBytes > 0
    BY <1>1, <1>2, <1>3
<1>5. CtrBytes = 2 * KidBytes
    <2>1. PICK k \in Nat : k = 2 * KidBytes
        BY <1>3
    <2>2. BigBits = k * ByteBits + 0
        BY <1>1, <1>3, <2>1
    <2>3. BigBits \div ByteBits = k
        BY <1>1, <1>2, <2>2, Quotient
    <2> QED
        BY <2>1, <2>3 DEF CtrBytes
<1>6. BigBits = ByteBits * CtrBytes
    BY <1>1, <1>3, <1>5
<1> QED
    BY <1>1, <1>2, <1>3, <1>4, <1>5, <1>6

LEMMA CounterBytes ==
    ASSUME NEW ctr \in Ctrs
    PROVE  /\ ctr \in Nat
           /\ \E w \in Nat : w > 0 /\ minimalBigEndian(ctr) = fixedBigEndian(ctr, w) /\ ctr < 2^(ByteBits * w)
<1> DEFINE T == {w \in 1 .. CtrBytes : ctr < 2^(ByteBits * w)}
<1>1. ctr \in Nat /\ ctr < 2^BigBits
    <2>1. 2^BigBits \in Nat
        BY Widths, PowerType
    <2>2. ctr \in 0 .. 2^BigBits - 1
        BY WidthAssumption
    <2> QED
        BY <2>1, <2>2
<1>2. CtrBytes \in T /\ T \in SUBSET Nat
    BY <1>1, Widths
<1>3. PICK w : w = Min(T) /\ w \in T
    BY <1>2, MinOf
<1>4. minimalBigEndian(ctr) = fixedBigEndian(ctr, w)
    BY <1>3 DEF minimalBigEndian
<1>5. w \in Nat /\ w > 0 /\ ctr < 2^(ByteBits * w)
    BY <1>3, Widths
<1> HIDE DEF T
<1> QED
    BY <1>1, <1>4, <1>5

LEMMA BytesAreSequence ==
    ASSUME NEW v \in Nat, NEW w \in Nat
    PROVE  fixedBigEndian(v, w) \in Seq(Int) /\ Len(fixedBigEndian(v, w)) = w
<1>1. ASSUME NEW j \in 1..w
      PROVE  (v \div 2^(ByteBits * (w - j))) % Base \in Int
    <2>1. PICK k \in Nat : k = w - j
        OBVIOUS
    <2>2. PICK x \in Nat : x = 2^(ByteBits * k) /\ x > 0
        BY BitsOfBytes
    <2>3. v \div x \in Int
        BY <2>2
    <2>4. (v \div x) % Base \in Int
        BY <2>3, BaseType
    <2> QED
        BY <2>1, <2>2, <2>4
<1> QED
    BY <1>1 DEF fixedBigEndian

-----------------------------------------------------------------------------
(***************************************************************************)
(* The header.                                                             *)
(***************************************************************************)
IsJoin(j, s, t, X) ==
    /\ j \in Seq(X) /\ Len(j) = Len(s) + Len(t)
    /\ \A i \in 1..Len(s) : j[i] = s[i]
    /\ \A i \in 1..Len(t) : j[Len(s) + i] = t[i]
LEMMA Joined ==
    ASSUME NEW X, NEW s \in Seq(X), NEW t \in Seq(X)
    PROVE  IsJoin(s \o t, s, t, X)
BY DEF IsJoin

LEMMA Slice ==
    ASSUME NEW X, NEW s \in Seq(X), NEW m \in Nat, NEW d \in Nat, m + d <= Len(s)
    PROVE  SubSeq(s, m + 1, m + d) = [i \in 1..d |-> s[m + i]]
<1>1. SubSeq(s, m + 1, m + d) = [i \in 1..(1 + (m + d) - (m + 1)) |-> s[i + (m + 1) - 1]]
    OBVIOUS
<1>2. 1 + (m + d) - (m + 1) = d
    OBVIOUS
<1>3. \A i \in 1..d : i + (m + 1) - 1 = m + i
    OBVIOUS
<1> QED
    BY <1>1, <1>2, <1>3

\* What is left of a, k, c and t in a row when they are cut to a length.
ArePieces(b, a, k, c, t, end, X) ==
    LET cut == SubSeq(b, 1, end)
    IN  /\ Len(b) = 1 + Len(k) + Len(c) + Len(t)
        /\ Len(cut) = end /\ cut \in Seq(X) /\ (end > 0 => cut[1] = a)
        /\ end >= 1 + Len(k) + Len(c) =>
              /\ SubSeq(cut, 2, 1 + Len(k)) = k
              /\ SubSeq(cut, 1 + Len(k) + 1, 1 + Len(k) + Len(c)) = c
LEMMA Pieces ==
    ASSUME NEW X, NEW a \in X, NEW k \in Seq(X), NEW c \in Seq(X), NEW t \in Seq(X), NEW end \in Nat,
           end <= 1 + Len(k) + Len(c) + Len(t)
    PROVE  ArePieces(<<a>> \o k \o c \o t, a, k, c, t, end, X)
<1> DEFINE b == <<a>> \o k \o c \o t
           cut == SubSeq(b, 1, end)
           K == Len(k)
           C == Len(c)
<1>1. /\ K \in Nat /\ C \in Nat /\ Len(t) \in Nat
      /\ k = [i \in 1..K |-> k[i]] /\ c = [i \in 1..C |-> c[i]]
    OBVIOUS
<1>2. /\ b \in Seq(X) /\ Len(b) = 1 + K + C + Len(t) /\ b[1] = a
      /\ \A i \in 1..K : b[1 + i] = k[i]
      /\ \A i \in 1..C : b[1 + K + i] = c[i]
    <2> DEFINE b1 == <<a>> \o k
               b2 == b1 \o c
    <2>1. /\ b1 \in Seq(X) /\ Len(b1) = 1 + K /\ b1[1] = a
          /\ \A i \in 1..K : b1[1 + i] = k[i]
        OBVIOUS
    <2> HIDE DEF b1
    <2>2. /\ b2 \in Seq(X) /\ Len(b2) = 1 + K + C
          /\ \A i \in 1..(1 + K) : b2[i] = b1[i]
          /\ \A i \in 1..C : b2[1 + K + i] = c[i]
        <3>0. IsJoin(b2, b1, c, X)
            BY ONLY <2>1, c \in Seq(X), Joined
        <3> HIDE DEF b2
        <3>1. /\ b2 \in Seq(X) /\ Len(b2) = Len(b1) + C
              /\ \A i \in 1..Len(b1) : b2[i] = b1[i]
              /\ \A i \in 1..C : b2[Len(b1) + i] = c[i]
            BY <3>0 DEF IsJoin
        <3> QED
            BY <2>1, <3>1
    <2> HIDE DEF b2
    <2>3. /\ b2 \o t \in Seq(X) /\ Len(b2 \o t) = 1 + K + C + Len(t)
          /\ \A i \in 1..(1 + K + C) : (b2 \o t)[i] = b2[i]
        <3>0. IsJoin(b2 \o t, b2, t, X)
            BY ONLY <2>2, t \in Seq(X), Joined
        <3>1. /\ b2 \o t \in Seq(X) /\ Len(b2 \o t) = Len(b2) + Len(t)
              /\ \A i \in 1..Len(b2) : (b2 \o t)[i] = b2[i]
            BY ONLY <3>0 DEF IsJoin
        <3> HIDE DEF K, C
        <3> QED
            BY <1>1, <2>2, <3>1
    <2>4. b = b2 \o t
        BY DEF b1, b2
    <2> HIDE DEF b, K, C
    <2>5. b[1] = a
        <3>1. 1 \in 1..(1 + K) /\ 1 \in 1..(1 + K + C)
            BY <1>1
        <3> QED
            BY <2>1, <2>2, <2>3, <2>4, <3>1
    <2>6. ASSUME NEW i \in 1..K
          PROVE  b[1 + i] = k[i]
        <3>1. 1 + i \in 1..(1 + K) /\ 1 + i \in 1..(1 + K + C)
            BY <1>1
        <3> QED
            BY <2>1, <2>2, <2>3, <2>4, <3>1
    <2>7. ASSUME NEW i \in 1..C
          PROVE  b[1 + K + i] = c[i]
        <3>1. 1 + K + i \in 1..(1 + K + C)
            BY <1>1
        <3> QED
            BY <2>2, <2>3, <2>4, <3>1
    <2> QED
        BY <2>3, <2>4, <2>5, <2>6, <2>7
<1> HIDE DEF b, K, C
<1>3. /\ cut \in Seq(X) /\ Len(cut) = end
      /\ \A i \in 1..end : cut[i] = b[i]
    BY <1>1, <1>2 DEF K, C
<1> HIDE DEF cut
<1>4. end > 0 => cut[1] = a
    BY <1>2, <1>3
<1>5. ASSUME end >= 1 + K + C
      PROVE  SubSeq(cut, 2, 1 + K) = k /\ SubSeq(cut, 1 + K + 1, 1 + K + C) = c
    <2>1. SubSeq(cut, 2, 1 + K) = [i \in 1..K |-> cut[1 + i]]
        <3>1. 1 \in Nat /\ 1 + K <= Len(cut) /\ 1 + 1 = 2
            BY <1>1, <1>3, <1>5
        <3>2. SubSeq(cut, 1 + 1, 1 + K) = [i \in 1..K |-> cut[1 + i]]
            BY <1>1, <1>3, <3>1, Slice
        <3> QED
            BY <3>1, <3>2
    <2>2. SubSeq(cut, 1 + K + 1, 1 + K + C) = [i \in 1..C |-> cut[1 + K + i]]
        <3>1. PICK m \in Nat : m = 1 + K
            BY <1>1
        <3>2. m + C <= Len(cut)
            BY <1>1, <1>3, <1>5, <3>1
        <3>3. SubSeq(cut, m + 1, m + C) = [i \in 1..C |-> cut[m + i]]
            BY ONLY <1>1, <1>3, <3>2, m \in Nat, Slice
        <3> QED
            BY <3>1, <3>3
    <2>3. \A i \in 1..K : cut[1 + i] = k[i]
        <3> SUFFICES ASSUME NEW i \in 1..K PROVE cut[1 + i] = k[i]
            OBVIOUS
        <3>1. 1 + i \in 1..end
            BY <1>1, <1>5
        <3> QED
            BY <1>2, <1>3, <3>1
    <2>4. \A i \in 1..C : cut[1 + K + i] = c[i]
        <3> SUFFICES ASSUME NEW i \in 1..C PROVE cut[1 + K + i] = c[i]
            OBVIOUS
        <3>1. 1 + K + i \in 1..end
            BY <1>1, <1>5
        <3> QED
            BY <1>2, <1>3, <3>1
    <2>5. [i \in 1..K |-> cut[1 + i]] = [i \in 1..K |-> k[i]]
        BY <2>3
    <2>6. [i \in 1..C |-> cut[1 + K + i]] = [i \in 1..C |-> c[i]]
        BY <2>4
    <2> QED
        BY <1>1, <2>1, <2>2, <2>5, <2>6
<1> QED
    BY <1>2, <1>3, <1>4, <1>5 DEF b, cut, K, C, ArePieces

\* What was sent with a KID and a counter, and what parseHeader finds in the
\* first bytes of it: nothing, or the KID and the counter.
Sent(kid, ctr) == serializeHeader(kid, ctr) \o [j \in 1 .. 1 + TagBytes |-> 0]
Found(hdr, kid, ctr, end, len) ==
    /\ hdr = Unparsed \/ (hdr.kid = kid /\ hdr.ctr = ctr)
    /\ end = len => hdr # Unparsed /\ ~(end < hdr.bodyOffset + TagBytes)

LEMMA HeaderRead ==
    ASSUME NEW kid \in Nat, kid < 2^WordBits, NEW ctr \in Ctrs,
           NEW end \in Nat, end <= Len(Sent(kid, ctr))
    PROVE  /\ Len(Sent(kid, ctr)) \in Nat
           /\ Len(SubSeq(Sent(kid, ctr), 1, end)) = end
           /\ Found(parseHeader(SubSeq(Sent(kid, ctr), 1, end)), kid, ctr, end, Len(Sent(kid, ctr)))
<1>1. PICK w \in Nat : w > 0 /\ minimalBigEndian(ctr) = fixedBigEndian(ctr, w) /\ ctr < 2^(ByteBits * w)
    BY CounterBytes
<1> DEFINE k == fixedBigEndian(kid, KidBytes)
           c == fixedBigEndian(ctr, w)
           a == [k |-> TRUE, klen |-> KidBytes - 1, c |-> TRUE, clen |-> Len(c) - 1]
           t == [j \in 1 .. 1 + TagBytes |-> 0]
           X == {a} \cup Int
           buf == SubSeq(Sent(kid, ctr), 1, end)
           n == 1 + KidBytes + w
<1>2. ctr \in Nat /\ KidBytes \in Nat /\ TagBytes \in Nat
    BY CounterBytes, Widths
<1>3. /\ k \in Seq(Int) /\ Len(k) = KidBytes /\ c \in Seq(Int) /\ Len(c) = w
    BY <1>2, BytesAreSequence
<1>4. t \in Seq(Int) /\ Len(t) = 1 + TagBytes
    BY <1>2
<1>5. /\ readBigEndian(k) = kid /\ readBigEndian(c) = ctr
    <2>1. kid < 2^(ByteBits * KidBytes)
        BY Widths
    <2> QED
        BY <1>1, <1>2, <2>1, WriteThenRead
<1>6. Sent(kid, ctr) = <<a>> \o k \o c \o t
    BY <1>1 DEF Sent, serializeHeader
<1>7. a.k = TRUE /\ a.klen + 1 = KidBytes /\ a.c = TRUE /\ a.clen + 1 = w
    BY <1>1, <1>2, <1>3
<1>8. a \in X /\ k \in Seq(X) /\ c \in Seq(X) /\ t \in Seq(X)
    BY <1>3, <1>4
<1> HIDE DEF k, c, a, t, X
<1>9. /\ Len(Sent(kid, ctr)) = 1 + KidBytes + w + (1 + TagBytes)
      /\ Len(buf) = end /\ buf \in Seq(X) /\ (end > 0 => buf[1] = a)
      /\ end >= n => SubSeq(buf, 2, 1 + KidBytes) = k /\ SubSeq(buf, 1 + KidBytes + 1, n) = c
    <2> DEFINE b == <<a>> \o k \o c \o t
    <2>1. ASSUME NEW e \in Nat, e <= 1 + Len(k) + Len(c) + Len(t)
          PROVE  ArePieces(b, a, k, c, t, e, X)
        BY ONLY <1>8, <2>1, e \in Nat, Pieces
    <2> HIDE DEF b
    <2>2. Len(b) = 1 + KidBytes + w + (1 + TagBytes)
        <3>1. ArePieces(b, a, k, c, t, 0, X)
            BY <1>2, <1>3, <1>4, <2>1
        <3> QED
            BY ONLY <1>3, <1>4, <3>1 DEF ArePieces
    <2>3. ArePieces(b, a, k, c, t, end, X)
        BY <1>2, <1>3, <1>4, <1>6, <2>1, <2>2 DEF b
    <2> QED
        BY <1>3, <1>6, <2>2, <2>3 DEF ArePieces, b
<1> HIDE DEF n
<1>10. kid < 2^SafeBits
    <2>1. 2^WordBits <= 2^SafeBits /\ 2^WordBits \in Nat /\ 2^SafeBits \in Nat
        BY Widths, PowerOrder, PowerType
    <2> QED
        BY <2>1
<1>11. CASE end = 0
    <2>1. buf = <<>>
        BY <1>9, <1>11
    <2>2. parseHeader(buf) = Unparsed
        BY <2>1 DEF parseHeader
    <2>3. end # Len(Sent(kid, ctr))
        BY <1>2, <1>9, <1>11
    <2> QED
        BY <1>2, <1>9, <2>2, <2>3 DEF Found
<1>12. CASE end # 0
    <2>1. buf # <<>> /\ buf[1] = a
        BY <1>9, <1>12
    <2>2. 1 + (IF a.k THEN a.klen + 1 ELSE 0) = 1 + KidBytes
        BY <1>7
    <2>3. 1 + KidBytes + (IF a.c THEN a.clen + 1 ELSE 0) = n
        BY <1>7 DEF n
    <2> HIDE DEF buf
    <2>4. parseHeader(buf) =
              IF Len(buf) < n \/ readBigEndian(SubSeq(buf, 2, 1 + KidBytes)) >= 2^SafeBits THEN Unparsed
              ELSE [kid |-> readBigEndian(SubSeq(buf, 2, 1 + KidBytes)), bodyOffset |-> n,
                    ctr |-> readBigEndian(SubSeq(buf, 1 + KidBytes + 1, n))]
        BY <1>7, <2>1, <2>2, <2>3 DEF parseHeader
    <2>5. CASE end < n
        <3>1. parseHeader(buf) = Unparsed
            BY <1>9, <2>4, <2>5
        <3>2. end # Len(Sent(kid, ctr))
            BY <1>2, <1>9, <2>5 DEF n
        <3> QED
            BY <1>2, <1>9, <3>1, <3>2 DEF Found, buf
    <2>6. CASE end >= n
        <3>1. n \in Nat /\ 2^SafeBits \in Nat
            BY <1>2, Widths, PowerType DEF n
        <3>a. /\ readBigEndian(SubSeq(buf, 2, 1 + KidBytes)) = kid
              /\ readBigEndian(SubSeq(buf, 1 + KidBytes + 1, n)) = ctr
            BY <1>5, <1>9, <2>6
        <3>b. ~(Len(buf) < n) /\ ~(kid >= 2^SafeBits)
            BY <1>9, <1>10, <2>6, <3>1
        <3>2. parseHeader(buf) = [kid |-> kid, bodyOffset |-> n, ctr |-> ctr]
            BY ONLY <2>4, <3>a, <3>b
        <3>3. parseHeader(buf) # Unparsed
            BY <3>2 DEF Unparsed, Thrown
        <3>4. end = Len(Sent(kid, ctr)) => ~(end < n + TagBytes)
            BY <1>2, <1>9 DEF n
        <3> QED
            BY <1>2, <1>9, <3>2, <3>3, <3>4 DEF Found, buf
    <2> QED
        BY <2>5, <2>6, <1>2 DEF n
<1> QED
    BY <1>11, <1>12

LEMMA SentLength ==
    ASSUME NEW kid \in Nat, NEW ctr \in Ctrs
    PROVE  Len(Sent(kid, ctr)) \in Nat
<1>1. PICK w \in Nat : w > 0 /\ minimalBigEndian(ctr) = fixedBigEndian(ctr, w)
    BY CounterBytes
<1> DEFINE k == fixedBigEndian(kid, KidBytes)
           c == fixedBigEndian(ctr, w)
           a == [k |-> TRUE, klen |-> KidBytes - 1, c |-> TRUE, clen |-> Len(c) - 1]
           t == [j \in 1 .. 1 + TagBytes |-> 0]
           X == {a} \cup Int
<1>2. k \in Seq(Int) /\ c \in Seq(Int) /\ t \in Seq(Int)
    <2>1. ctr \in Nat /\ KidBytes \in Nat /\ TagBytes \in Nat
        BY CounterBytes, Widths
    <2>2. k \in Seq(Int) /\ c \in Seq(Int)
        BY <2>1, BytesAreSequence
    <2>3. t \in Seq(Int)
        BY <2>1
    <2> QED
        BY <2>2, <2>3
<1>3. Sent(kid, ctr) = <<a>> \o k \o c \o t
    BY <1>1 DEF Sent, serializeHeader
<1>4. a \in X /\ k \in Seq(X) /\ c \in Seq(X) /\ t \in Seq(X)
    BY <1>2
<1> HIDE DEF k, c, a, t, X
<1> QED
    BY <1>3, <1>4

-----------------------------------------------------------------------------
(***************************************************************************)
(* Key IDs: encode and decode are inverse to each other wherever neither   *)
(* throws.                                                                 *)
(***************************************************************************)
\* Two fields in one number, and three.
AreTwo(a, x, y, e, i) == a = i * x + e /\ a < x * y /\ a \div x = i /\ a % x = e
AreThree(a, x, y, e, i, c) == a = c * (x * y) + i * x + e /\ a % x = e /\ (a \div x) % y = i

LEMMA TwoFields ==
    ASSUME NEW x \in Nat, x > 0, NEW y \in Nat, y > 0, NEW e \in Nat, e < x, NEW i \in Nat, i < y
    PROVE  \E a \in Nat : AreTwo(a, x, y, e, i)
<1>1. PICK a \in Nat : a = i * x + e
    OBVIOUS
<1>2. a \div x = i /\ a % x = e
    BY <1>1, Quotient
<1>3. a < x * y
    <2>1. i * x + x <= y * x
        OBVIOUS
    <2>2. y * x = x * y
        OBVIOUS
    <2> QED
        BY <1>1, <2>1, <2>2
<1> QED
    BY <1>1, <1>2, <1>3 DEF AreTwo

LEMMA ThreeFields ==
    ASSUME NEW x \in Nat, x > 0, NEW y \in Nat, y > 0,
           NEW e \in Nat, e < x, NEW i \in Nat, i < y, NEW c \in Nat
    PROVE  \E a \in Nat : AreThree(a, x, y, e, i, c)
<1> DEFINE a == c * (x * y) + i * x + e
           b == c * y + i
<1>1. b \in Nat /\ a = b * x + e
    <2>1. c * (x * y) = (c * y) * x /\ (c * y + i) * x = (c * y) * x + i * x
        OBVIOUS
    <2> QED
        BY <2>1
<1>2. a \in Nat
    OBVIOUS
<1>3. b \div y = c /\ b % y = i
    BY <1>1, Quotient
<1> HIDE DEF a, b
<1>4. a \div x = b /\ a % x = e
    BY <1>1, <1>2, Quotient
<1> QED
    BY <1>2, <1>3, <1>4 DEF a, AreThree

\* The fields make up the number.
LEMMA FieldsMakeNumber ==
    ASSUME NEW x \in Nat, x > 0, NEW y \in Nat, y > 0, NEW a \in Nat
    PROVE  /\ a = (a \div (x * y)) * (x * y) + ((a \div x) % y) * x + (a % x)
           /\ a % x \in Nat /\ a % x < x /\ (a \div x) % y \in Nat /\ (a \div x) % y < y
           /\ a \div (x * y) \in Nat
<1>1. /\ a = x * (a \div x) + (a % x) /\ a \div x \in Nat /\ a % x \in Nat /\ a % x < x
    OBVIOUS
<1>2. PICK q \in Nat : q = a \div x
    BY <1>1
<1>3. /\ q = y * (q \div y) + (q % y) /\ q \div y \in Nat /\ q % y \in Nat /\ q % y < y
    OBVIOUS
<1>4. PICK c, i, e \in Nat : c = q \div y /\ i = q % y /\ e = a % x
    BY <1>1, <1>3
<1>5. a \div (x * y) = c
    BY <1>2, <1>4, QuotientTwice
<1>6. a = x * (y * c + i) + e
    BY <1>1, <1>2, <1>3, <1>4
<1>7. x * (y * c + i) = c * (x * y) + i * x
    <2>1. x * (y * c + i) = x * (y * c) + x * i /\ x * (y * c) = c * (x * y) /\ x * i = i * x
        OBVIOUS
    <2> QED
        BY <2>1
<1> QED
    BY <1>1, <1>2, <1>3, <1>4, <1>5, <1>6, <1>7

\* The powers of two the formats are made of.
LEMMA FixedWidths ==
    /\ 2^HalfBits \in Nat /\ 2^HalfBits > 0 /\ 2^WordBits = 2^HalfBits * 2^HalfBits
    /\ 2^WordBits \in Nat /\ 2^WordBits > 0
<1>1. HalfBits \in Nat /\ WordBits = HalfBits + HalfBits /\ WordBits \in Nat
    BY Widths, WidthAssumption
<1> QED
    BY <1>1, PowerType, PowerSum

LEMMA MlsWidths ==
    ASSUME NEW E \in Nat, NEW S \in Nat, E + S < BigBits
    PROVE  /\ 2^E \in Nat /\ 2^E > 0 /\ 2^S \in Nat /\ 2^S > 0 /\ 2^(E + S) = 2^E * 2^S
           /\ 2^(BigBits - E - S) \in Nat /\ 2^WordBits <= (2^E * 2^S) * 2^(BigBits - E - S)
<1>1. PICK r \in Nat : r = BigBits - E - S
    BY Widths
<1>2. PICK n \in Nat : n = E + S
    OBVIOUS
<1>3. 2^E \in Nat /\ 2^E > 0 /\ 2^S \in Nat /\ 2^S > 0 /\ 2^(E + S) = 2^E * 2^S /\ 2^r \in Nat
    BY PowerType, PowerSum
<1>4. 2^(n + r) = 2^n * 2^r
    BY PowerSum
<1>5. n + r = BigBits
    BY <1>1, <1>2, Widths
<1>6. 2^WordBits <= 2^BigBits
    BY Widths, PowerOrder
<1> QED
    BY <1>1, <1>2, <1>3, <1>4, <1>5, <1>6

LEMMA MlsConfig ==
    ASSUME config \in Configs, config.format = "mls", makeKidCodec(config)
    PROVE  /\ config.nEpochBits \in Nat /\ config.nIndexBits \in Nat /\ config.contextId \in Nat
           /\ config.nEpochBits + config.nIndexBits < BigBits
BY RoomAssumption DEF makeKidCodec, validateMlsBitRange

LEMMA DecodeEncoded ==
    ASSUME config \in Configs, makeKidCodec(config), NEW e \in Nat, NEW i \in Nat, encode(e, i) # Thrown
    PROVE  /\ encode(e, i) \in Nat /\ encode(e, i) < 2^WordBits
           /\ decode(encode(e, i)) = [epoch |-> e, index |-> i]
<1>1. CASE config.format = "fixed"
    <2>1. encode(e, i) = makeKid(e, i) /\ \A kid : decode(kid) = splitKid(kid)
        BY <1>1 DEF encode, decode
    <2>2. PICK h \in Nat : h = 2^HalfBits /\ h > 0 /\ 2^WordBits = h * h
        BY FixedWidths
    <2>3. e < h /\ i < h /\ makeKid(e, i) = e * h + i
        BY <2>1, <2>2 DEF makeKid
    <2>4. PICK k \in Nat : k = e * h + i /\ k < h * h /\ k \div h = e /\ k % h = i
        <3>1. h > 0 /\ e < h /\ i < h
            BY <2>2, <2>3
        <3>2. \E a \in Nat : AreTwo(a, h, h, i, e)
            BY ONLY e \in Nat, i \in Nat, h \in Nat, <3>1, TwoFields
        <3> QED
            BY ONLY <3>2 DEF AreTwo
    <2>5. k % (h * h) = k
        <3>1. PICK g \in Nat : g = h * h /\ g > 0
            BY <2>2
        <3>2. k = 0 * g + k
            BY <3>1
        <3> QED
            BY <2>4, <3>1, <3>2, Quotient
    <2>6. splitKid(k) = [epoch |-> e, index |-> i]
        BY <2>2, <2>4, <2>5 DEF splitKid
    <2> QED
        BY <2>1, <2>2, <2>3, <2>4, <2>6
<1>2. CASE config.format # "fixed"
    <2>0. config.format = "mls"
        BY <1>2, RoomAssumption
    <2>1. PICK E, S, c \in Nat : /\ E = config.nEpochBits /\ S = config.nIndexBits /\ c = config.contextId
                                /\ E + S < BigBits
        BY <2>0, MlsConfig
    <2>2. PICK x, y \in Nat : x = 2^E /\ y = 2^S /\ x > 0 /\ y > 0 /\ 2^(E + S) = x * y
        <3>1. 2^E \in Nat /\ 2^E > 0 /\ 2^S \in Nat /\ 2^S > 0 /\ 2^(E + S) = 2^E * 2^S
            BY ONLY E \in Nat, S \in Nat, <2>1, MlsWidths
        <3> QED
            BY ONLY <3>1
    <2>3. /\ encode(e, i) = encodeMlsKid(e, i, config) /\ encodeMlsKid(e, i, config) < 2^WordBits
          /\ encodeMlsKid(e, i, config) # Thrown
          /\ \A kid : decode(kid) = decodeMlsKid(kid, config)
        BY <1>2 DEF encode, decode
    <2>4. e < x /\ i < y /\ encodeMlsKid(e, i, config) = c * (x * y) + i * x + e
        BY <2>1, <2>2, <2>3 DEF encodeMlsKid
    <2>5. PICK k \in Nat : k = c * (x * y) + i * x + e /\ k % x = e /\ (k \div x) % y = i
        <3>1. x > 0 /\ y > 0 /\ e < x /\ i < y
            BY <2>2, <2>4
        <3>2. \E a \in Nat : AreThree(a, x, y, e, i, c)
            BY ONLY e \in Nat, i \in Nat, c \in Nat, x \in Nat, y \in Nat, <3>1, ThreeFields
        <3> QED
            BY ONLY <3>2 DEF AreThree
    <2>6. decodeMlsKid(k, config) = [epoch |-> e, index |-> i]
        BY <2>1, <2>2, <2>5 DEF decodeMlsKid
    <2> QED
        BY <2>3, <2>4, <2>5, <2>6
<1> QED
    BY <1>1, <1>2

LEMMA EncodeDecoded ==
    ASSUME config \in Configs, makeKidCodec(config), NEW e \in Nat, NEW i \in Nat, HasKid(e, i)
    PROVE  /\ encode(e, i) # Thrown
           /\ config.format = "fixed" => e < 2^HalfBits
           /\ config.format = "mls" => e < 2^config.nEpochBits
<1>1. PICK kid \in 0 .. 2^WordBits - 1 :
          /\ decode(kid) = [epoch |-> e, index |-> i]
          /\ config.format = "mls" =>
                kid \div 2^(config.nEpochBits + config.nIndexBits) = config.contextId
    BY DEF HasKid
<1>2. kid \in Nat /\ kid < 2^WordBits
    BY <1>1, FixedWidths
<1>3. CASE config.format = "fixed"
    <2>1. encode(e, i) = makeKid(e, i) /\ decode(kid) = splitKid(kid)
        BY <1>3 DEF encode, decode
    <2>2. PICK h \in Nat : h = 2^HalfBits /\ h > 0 /\ 2^WordBits = h * h
        BY FixedWidths
    <2>3. kid % (h * h) = kid
        <3>1. PICK g \in Nat : g = h * h /\ g > 0
            BY <2>2
        <3>2. kid = 0 * g + kid
            BY <1>2, <3>1
        <3> QED
            BY <1>2, <2>2, <3>1, <3>2, Quotient
    <2>4. e = kid \div h /\ i = kid % h
        BY <1>1, <2>1, <2>2, <2>3 DEF splitKid
    <2>5. e < h
        BY <1>2, <2>2, <2>4, QuotientBound
    <2>6. i < h
        BY <1>2, <2>2, <2>4
    <2>7. makeKid(e, i) = e * h + i
        BY <2>2, <2>5, <2>6 DEF makeKid
    <2>8. e * h + i # Thrown
        BY <2>2 DEF Thrown
    <2> QED
        BY <1>3, <2>1, <2>2, <2>5, <2>7, <2>8
<1>4. CASE config.format # "fixed"
    <2>0. config.format = "mls"
        BY <1>4, RoomAssumption
    <2>1. PICK E, S, c \in Nat : /\ E = config.nEpochBits /\ S = config.nIndexBits /\ c = config.contextId
                                /\ E + S < BigBits
        BY <2>0, MlsConfig
    <2>2. PICK x, y, z \in Nat : /\ x = 2^E /\ y = 2^S /\ x > 0 /\ y > 0 /\ 2^(E + S) = x * y
                                /\ z = 2^(BigBits - E - S) /\ 2^WordBits <= (x * y) * z
        <3>1. /\ 2^E \in Nat /\ 2^E > 0 /\ 2^S \in Nat /\ 2^S > 0 /\ 2^(E + S) = 2^E * 2^S
              /\ 2^(BigBits - E - S) \in Nat /\ 2^WordBits <= (2^E * 2^S) * 2^(BigBits - E - S)
            BY ONLY E \in Nat, S \in Nat, <2>1, MlsWidths
        <3> QED
            BY ONLY <3>1
    <2>3. e = kid % x /\ i = (kid \div x) % y /\ c = kid \div (x * y)
        BY <1>1, <1>4, <2>0, <2>1, <2>2 DEF decode, decodeMlsKid
    <2>4. kid = c * (x * y) + i * x + e /\ e < x /\ i < y
        BY <1>2, <2>2, <2>3, FieldsMakeNumber
    <2>5. c < z
        <3>1. PICK g \in Nat : g = x * y /\ g > 0
            BY <2>2
        <3>2. kid < g * z
            BY <1>2, <2>2, <3>1, FixedWidths
        <3> QED
            BY <1>2, <2>3, <3>1, <3>2, QuotientBound
    <2>6. encodeMlsKid(e, i, config) = kid
        BY <2>1, <2>2, <2>4, <2>5 DEF encodeMlsKid
    <2>7. encode(e, i) = kid
        BY <1>2, <1>4, <2>6 DEF encode
    <2> QED
        BY <1>2, <1>4, <2>1, <2>2, <2>4, <2>7 DEF Thrown
<1> QED
    BY <1>3, <1>4

-----------------------------------------------------------------------------
(***************************************************************************)
(* The key table of an epoch.                                              *)
(***************************************************************************)
\* Members of a group have an index each, and different members different ones.
LEMMA IndexPerIdentity ==
    ASSUME NEW ids \in Groups, NEW p \in Range(ids), NEW q \in Range(ids)
    PROVE  /\ buildPeerIndexMap(ids)[p] \in Nat
           /\ buildPeerIndexMap(ids)[p] = buildPeerIndexMap(ids)[q] => p = q
<1>1. ids \in Seq(Nat) /\ DOMAIN ids = 1..Len(ids) /\ Len(ids) \in Nat
    BY RoomAssumption
<1>2. \A l \in DOMAIN ids : ids[l] \in Nat
    BY <1>1
<1> DEFINE U(r) == {l \in DOMAIN ids : ids[l] <= r}
<1>3. \A r : IsFiniteSet(U(r)) /\ Cardinality(U(r)) \in Nat
    <2> SUFFICES ASSUME NEW r PROVE IsFiniteSet(U(r)) /\ Cardinality(U(r)) \in Nat
        OBVIOUS
    <2>1. IsFiniteSet(DOMAIN ids)
        BY <1>1, FS_Interval
    <2>2. U(r) \in SUBSET DOMAIN ids
        OBVIOUS
    <2> QED
        BY <2>1, <2>2, FS_Subset, FS_CardinalityType
<1>4. PICK k, m \in DOMAIN ids : ids[k] = p /\ ids[m] = q
    BY DEF Range
<1>5. p \in Nat /\ q \in Nat
    BY <1>2, <1>4
<1>6. k \in U(p) /\ m \in U(q)
    BY <1>4, <1>5
<1>7. Cardinality(U(p)) # 0
    <2>1. U(p) # {}
        BY <1>6
    <2> HIDE DEF U
    <2> QED
        BY <1>3, <2>1, FS_EmptySet
<1>8. ASSUME NEW a \in Nat, NEW b \in Nat, NEW l \in DOMAIN ids, ids[l] = b, a < b
      PROVE  Cardinality(U(a)) # Cardinality(U(b))
    <2>1. l \in U(b) /\ l \notin U(a)
        BY <1>8
    <2>2. U(a) \in SUBSET U(b)
        BY <1>2, <1>8
    <2>3. U(a) # U(b)
        BY ONLY <2>1
    <2> HIDE DEF U
    <2> QED
        BY <1>3, <2>2, <2>3, FS_Subset
<1>9. /\ buildPeerIndexMap(ids)[p] = Cardinality(U(p)) - 1
      /\ buildPeerIndexMap(ids)[q] = Cardinality(U(q)) - 1
    BY DEF buildPeerIndexMap
<1>10. Cardinality(U(p)) \in Nat /\ Cardinality(U(q)) \in Nat
    BY <1>3
<1> HIDE DEF U
<1>11. p # q => Cardinality(U(p)) # Cardinality(U(q))
    <2>1. CASE p < q
        BY <1>4, <1>5, <1>8, <2>1
    <2>2. CASE q < p
        BY <1>4, <1>5, <1>8, <2>2
    <2> QED
        BY <1>5, <2>1, <2>2
<1> QED
    BY <1>7, <1>9, <1>10, <1>11

LEMMA EpochIndices ==
    ASSUME EpochInv, NEW e \in DOMAIN members
    PROVE  /\ e \in Nat /\ members[e] \in Groups /\ Range(members[e]) # {}
           /\ \A p \in Range(members[e]) : peerIndexMap(e)[p] \in Indices(e)
           /\ Indices(e) \in SUBSET Nat /\ Indices(e) # {}
           /\ \A p, q \in Range(members[e]) : peerIndexMap(e)[p] = peerIndexMap(e)[q] => p = q
<1>1. e \in Nat /\ members[e] \in Groups
    BY DEF EpochInv
<1>2. members[e] \in Seq(Nat) /\ members[e] # <<>>
    BY <1>1, RoomAssumption
<1>3. Range(members[e]) # {}
    <2>1. 1 \in DOMAIN members[e]
        BY <1>2
    <2> QED
        BY <2>1 DEF Range
<1>4. \A p \in Range(members[e]) : peerIndexMap(e)[p] \in Indices(e)
    BY DEF Indices
<1>5. \A p, q \in Range(members[e]) :
          peerIndexMap(e)[p] \in Nat /\ (peerIndexMap(e)[p] = peerIndexMap(e)[q] => p = q)
    BY <1>1, IndexPerIdentity DEF peerIndexMap
<1>6. Indices(e) \in SUBSET Nat
    BY <1>5 DEF Indices
<1> QED
    BY <1>1, <1>3, <1>4, <1>5, <1>6

\* Different members of an applied epoch have different keys.
LEMMA KeysDiffer == EpochInv => KeyPerIdentity
<1> SUFFICES ASSUME EpochInv, NEW e \in applied["sender"],
                    NEW p \in Range(members[e]), NEW q \in Range(members[e]),
                    [deriveSenderKeys(e, peerIndexMap(e)[p]) EXCEPT !.kid = 0]
                      = [deriveSenderKeys(e, peerIndexMap(e)[q]) EXCEPT !.kid = 0]
             PROVE  p = q
    BY DEF KeyPerIdentity
<1>1. e \in DOMAIN members /\ Derivable(e)
    <2>1. "sender" \in Clients
        BY DEF Clients
    <2> QED
        BY <2>1 DEF EpochInv
<1>2. PICK i, j : i = peerIndexMap(e)[p] /\ j = peerIndexMap(e)[q]
    OBVIOUS
<1>3. i \in Indices(e) /\ j \in Indices(e) /\ (i = j => p = q)
    BY <1>1, <1>2, EpochIndices
<1>4. peerIndexBe16(i) = peerIndexBe16(j)
    BY <1>2 DEF deriveSenderKeys
<1>5. peerIndexBe16(i) # Thrown /\ peerIndexBe16(j) # Thrown
    BY <1>1, <1>3 DEF Derivable
<1>6. peerIndexBe16(i) = i /\ peerIndexBe16(j) = j
    BY <1>5 DEF peerIndexBe16
<1> QED
    BY <1>3, <1>4, <1>6

\* An epoch whose members all have a Key ID is not refused.
LEMMA RefusedTooLarge == EpochInv => RefusedOnlyIfTooLarge
<1> SUFFICES ASSUME EpochInv, config.format = "mls" => config.nEpochBits < WordBits - 1,
                    NEW e \in refused, \A i \in Indices(e) : HasKid(e, i) /\ ~(i >= 2^HalfBits)
             PROVE  FALSE
    BY DEF RefusedOnlyIfTooLarge
<1>1. e \in DOMAIN members /\ ~Derivable(e) /\ config \in Configs /\ makeKidCodec(config)
    BY DEF EpochInv
<1>2. e \in Nat /\ members[e] # <<>> /\ Indices(e) \in SUBSET Nat /\ Indices(e) # {}
    BY <1>1, EpochIndices, RoomAssumption
<1>3. ASSUME NEW i \in Indices(e)
      PROVE  /\ peerIndexBe16(i) # Thrown /\ encode(e, i) # Thrown
             /\ config.format = "fixed" => e < 2^HalfBits
             /\ config.format = "mls" => e < 2^config.nEpochBits
    <2>1. i \in Nat /\ HasKid(e, i) /\ ~(i >= 2^HalfBits)
        BY <1>2
    <2>2. peerIndexBe16(i) # Thrown
        BY <2>1, FixedWidths DEF peerIndexBe16, Thrown
    <2> QED
        BY <1>1, <1>2, <2>1, <2>2, EncodeDecoded
<1>4. PICK i : i \in Indices(e)
    BY <1>2
<1>5. e <= maxEpoch
    <2>1. CASE config.format = "mls"
        <3>1. PICK n \in Nat : n = config.nEpochBits /\ n < WordBits - 1
            BY <1>1, <2>1, MlsConfig
        <3>2. n % WordBits = n /\ n # WordBits - 1
            <4>1. n = 0 * WordBits + n /\ WordBits > 0 /\ n < WordBits /\ 0 * WordBits = 0
                BY <3>1, Widths
            <4> QED
                BY <4>1, <3>1, Widths, Quotient
        <3>3. maxEpoch = 2^n - 1
            BY <2>1, <3>1, <3>2 DEF maxEpoch
        <3>4. e < 2^n /\ 2^n \in Nat
            BY <1>3, <1>4, <2>1, <3>1, PowerType
        <3> QED
            BY <1>2, <3>3, <3>4
    <2>2. CASE config.format # "mls"
        <3>1. config.format = "fixed"
            BY <1>1, <2>2, RoomAssumption
        <3>2. maxEpoch = 2^HalfBits - 1 /\ e < 2^HalfBits /\ 2^HalfBits \in Nat
            BY <1>3, <1>4, <3>1, FixedWidths DEF maxEpoch
        <3> QED
            BY <1>2, <3>2
    <2> QED
        BY <2>1, <2>2
<1> QED
    BY <1>1, <1>2, <1>3, <1>5 DEF Derivable

\* What is derived from an epoch does not change while its members do not.
LEMMA SameEpoch ==
    ASSUME NEW e, config' = config, members'[e] = members[e]
    PROVE  /\ Derivable(e)' <=> Derivable(e)
           /\ peerIndexMap(e)' = peerIndexMap(e) /\ Indices(e)' = Indices(e)
           /\ \A i : deriveSenderKeys(e, i)' = deriveSenderKeys(e, i)
           /\ \A kid : decode(kid)' = decode(kid)
<1>1. peerIndexMap(e)' = peerIndexMap(e)
    BY DEF peerIndexMap, buildPeerIndexMap
<1>2. Indices(e)' = Indices(e)
    BY <1>1 DEF Indices
<1>3. maxEpoch' = maxEpoch /\ \A i : encode(e, i)' = encode(e, i)
    BY DEF maxEpoch, encode
<1>4. \A i : deriveSenderKeys(e, i)' = deriveSenderKeys(e, i)
    BY <1>3 DEF deriveSenderKeys
<1>5. \A kid : decode(kid)' = decode(kid)
    BY DEF decode
<1>6. Derivable(e)' <=> Derivable(e)
    BY <1>2, <1>3 DEF Derivable
<1> QED
    BY <1>1, <1>2, <1>4, <1>5, <1>6

LEMMA EpochStart == Init => EpochInv
<1> SUFFICES ASSUME Init PROVE EpochInv
    OBVIOUS
<1>1. PICK ids \in Groups : members = [e \in {epoch} |-> ids]
    BY DEF Init
<1>2. epoch \in Nat /\ DOMAIN members = {epoch} /\ members[epoch] = ids
    BY <1>1, RoomAssumption DEF Init
<1>3. \A e \in DOMAIN members : e \in 0 .. epoch /\ members[e] \in Groups
    BY <1>2
<1> QED
    BY <1>2, <1>3 DEF Init, EpochInv

LEMMA EpochStep == EpochInv /\ [Next]_vars => EpochInv'
<1> SUFFICES ASSUME EpochInv, [Next]_vars PROVE EpochInv'
    OBVIOUS
<1>1. CASE construct
    <2>1. \A e : Derivable(e)' <=> Derivable(e)
        BY <1>1, SameEpoch DEF construct
    <2>2. makeKidCodec(config)'
        BY <1>1 DEF construct, makeKidCodec
    <2> QED
        BY <1>1, <2>1, <2>2 DEF construct, EpochInv
<1>2. ASSUME NEW ids \in Groups, groupAdvances(ids)
      PROVE  EpochInv'
    <2>1. /\ epoch \in Nat /\ epoch' = epoch + 1 /\ epoch' \notin DOMAIN members
          /\ config' = config /\ ready' = ready /\ applied' = applied /\ refused' = refused
        BY <1>2 DEF groupAdvances, EpochInv
    <2>2. /\ DOMAIN members' = DOMAIN members \cup {epoch'}
          /\ members'[epoch'] = ids
          /\ \A e \in DOMAIN members : members'[e] = members[e]
        BY <1>2, <2>1 DEF groupAdvances
    <2>3. \A e \in DOMAIN members : Derivable(e)' <=> Derivable(e)
        BY <2>1, <2>2, SameEpoch
    <2>4. \A e \in DOMAIN members' : e \in 0 .. epoch' /\ members'[e] \in Groups
        BY <1>2, <2>1, <2>2 DEF EpochInv
    <2>5. makeKidCodec(config)' = makeKidCodec(config)
        BY <2>1 DEF makeKidCodec
    <2>6. applied \in [Clients -> SUBSET DOMAIN members'] /\ refused \subseteq DOMAIN members'
        BY <2>2 DEF EpochInv
    <2> QED
        BY <2>1, <2>3, <2>4, <2>5, <2>6 DEF EpochInv
<1>3. ASSUME NEW e \in DOMAIN members, NEW c \in Clients, applyEpoch(c, e)
      PROVE  EpochInv'
    <2>1. \A d : Derivable(d)' <=> Derivable(d)
        BY <1>3, SameEpoch DEF applyEpoch
    <2>2. makeKidCodec(config)' = makeKidCodec(config)
        BY <1>3 DEF applyEpoch, makeKidCodec
    <2>3. applied' \in [Clients -> SUBSET DOMAIN members]
        BY <1>3 DEF applyEpoch, EpochInv
    <2>4. \A b \in Clients : \A d \in applied'[b] : Derivable(d)
        BY <1>3 DEF applyEpoch, EpochInv
    <2> QED
        BY <1>3, <2>1, <2>2, <2>3, <2>4 DEF applyEpoch, EpochInv
<1>4. ASSUME NEW e \in DOMAIN members, applyEpochThrows(e)
      PROVE  EpochInv'
    <2>1. \A d : Derivable(d)' <=> Derivable(d)
        BY <1>4, SameEpoch DEF applyEpochThrows
    <2>2. makeKidCodec(config)' = makeKidCodec(config)
        BY <1>4 DEF applyEpochThrows, makeKidCodec
    <2> QED
        BY <1>4, <2>1, <2>2 DEF applyEpochThrows, EpochInv
<1>5. ASSUME UNCHANGED <<config, ready, epoch, members, applied, refused>>
      PROVE  EpochInv'
    <2>1. \A d : Derivable(d)' <=> Derivable(d)
        BY <1>5, SameEpoch
    <2>2. makeKidCodec(config)' = makeKidCodec(config)
        BY <1>5 DEF makeKidCodec
    <2> QED
        BY <1>5, <2>1, <2>2 DEF EpochInv
<1>6. ASSUME NEW leaf, NEW ctr, NEW cut, send(leaf, ctr, cut)
      PROVE  EpochInv'
    BY <1>5, <1>6 DEF send
<1>7. CASE sframeDecrypt
    BY <1>5, <1>7 DEF sframeDecrypt
<1>8. CASE UNCHANGED vars
    BY <1>5, <1>8 DEF vars
<1> QED
    BY <1>1, <1>2, <1>3, <1>4, <1>6, <1>7, <1>8 DEF Next

-----------------------------------------------------------------------------
(***************************************************************************)
(* The frame.                                                              *)
(***************************************************************************)
\* The key of a member of an applied epoch, and the way back from its KID.
LEMMA KeyOfMember ==
    ASSUME EpochInv, NEW c \in Clients, NEW e \in applied[c], NEW p \in Range(members[e]),
           NEW i, i = peerIndexMap(e)[p]
    PROVE  /\ e \in DOMAIN members /\ e \in Nat /\ i \in Indices(e) /\ i \in Nat
           /\ deriveSenderKeys(e, i).chain = e /\ deriveSenderKeys(e, i).kid = encode(e, i)
           /\ deriveSenderKeys(e, i) # None
           /\ encode(e, i) \in Nat /\ encode(e, i) < 2^WordBits
           /\ decode(encode(e, i)) = [epoch |-> e, index |-> i]
<1>1. e \in DOMAIN members /\ Derivable(e)
    BY DEF EpochInv
<1>2. e \in Nat /\ i \in Indices(e) /\ i \in Nat
    BY <1>1, EpochIndices
<1>3. config \in Configs /\ makeKidCodec(config)
    <2>1. ready
        BY DEF EpochInv
    <2> QED
        BY <2>1 DEF EpochInv
<1>4. encode(e, i) # Thrown
    BY <1>1, <1>2 DEF Derivable
<1>5. deriveSenderKeys(e, i).chain = e /\ deriveSenderKeys(e, i).kid = encode(e, i)
    BY DEF deriveSenderKeys
<1>6. deriveSenderKeys(e, i) # None
    <2>1. "chain" \in DOMAIN deriveSenderKeys(e, i) /\ "chain" \notin DOMAIN None
        BY DEF deriveSenderKeys, None
    <2> QED
        BY <2>1
<1> QED
    BY <1>1, <1>2, <1>3, <1>4, <1>5, <1>6, DecodeEncoded

LEMMA FrameStays ==
    ASSUME EpochInv, FrameInv, frame' = frame, config' = config,
           applied["sender"] \subseteq applied'["sender"],
           \A e \in DOMAIN members : members'[e] = members[e]
    PROVE  FrameInv'
<1> SUFFICES ASSUME frame # None PROVE FrameInv'
    BY DEF FrameInv
<1>1. PICK e \in applied["sender"] :
          /\ frame.peer \in Range(members[e])
          /\ frame.key = deriveSenderKeys(e, peerIndexMap(e)[frame.peer])
    BY DEF FrameInv
<1>2. e \in DOMAIN members
    BY DEF EpochInv, Clients
<1>3. members'[e] = members[e]
    BY <1>2
<1>4. peerIndexMap(e)' = peerIndexMap(e) /\ \A i : deriveSenderKeys(e, i)' = deriveSenderKeys(e, i)
    BY <1>3, SameEpoch
<1>5. PICK i : i = peerIndexMap(e)[frame.peer]
    OBVIOUS
<1>6. deriveSenderKeys(e, i)' = frame.key
    BY <1>1, <1>4, <1>5
<1>7. deriveSenderKeys(e, peerIndexMap(e)[frame.peer])' = frame'.key
    BY <1>4, <1>5, <1>6 DEF deriveSenderKeys, encode
<1>8. e \in applied'["sender"] /\ frame'.peer \in Range(members'[e])
    BY <1>1, <1>3
<1> QED
    BY <1>7, <1>8 DEF FrameInv

LEMMA FrameSent ==
    ASSUME EpochInv, NEW leaf, NEW ctr \in Ctrs, NEW cut \in Nat, send(leaf, ctr, cut)
    PROVE  FrameInv'
<1>1. PICK e : e = Max(applied["sender"])
    OBVIOUS
<1>2. e \in applied["sender"]
    <2>1. epoch \in Nat /\ applied["sender"] \in SUBSET (0..epoch)
        BY DEF EpochInv, Clients
    <2>2. applied["sender"] # {}
        BY DEF send
    <2> QED
        BY <1>1, <2>1, <2>2, MaxOf
<1>3. leaf \in DOMAIN members[e]
    BY <1>1 DEF send
<1>4. PICK p : p = members[e][leaf]
    OBVIOUS
<1>5. p \in Range(members[e])
    BY <1>3, <1>4 DEF Range
<1>6. PICK i : i = peerIndexMap(e)[p]
    OBVIOUS
<1>7. PICK key, kid : key = deriveSenderKeys(e, i) /\ kid = encode(e, i)
    OBVIOUS
<1>8. key.kid = kid /\ kid \in Nat /\ kid < 2^WordBits
    BY <1>2, <1>5, <1>6, <1>7, KeyOfMember DEF Clients
<1>9. sframeEncrypt(key, ctr) = Sent(kid, ctr)
    BY <1>8 DEF sframeEncrypt, Sent
<1>10. PICK len \in Nat : len = Len(Sent(kid, ctr))
    <2>1. Len(Sent(kid, ctr)) \in Nat
        BY <1>8, SentLength
    <2> QED
        BY <2>1
<1>11. PICK end \in Nat : end = (IF cut > len THEN len ELSE cut) /\ end <= len
    OBVIOUS
<1>12. PICK buf : buf = SubSeq(Sent(kid, ctr), 1, end)
    OBVIOUS
<1>13. Len(buf) = end
    BY <1>8, <1>10, <1>11, <1>12, HeaderRead
<1>14. frame' = [step |-> "sent", peer |-> p, key |-> key, ctr |-> ctr,
                 buf |-> buf, whole |-> end = len]
    BY <1>1, <1>4, <1>6, <1>7, <1>9, <1>10, <1>11, <1>12 DEF send
<1>15. /\ frame'.peer = p /\ frame'.key = key /\ frame'.ctr = ctr /\ frame'.buf = buf
       /\ frame'.whole = (end = len)
    BY <1>14
<1>16. applied' = applied /\ config' = config /\ members' = members
    BY DEF send
<1>17. e \in applied'["sender"] /\ p \in Range(members'[e])
    BY <1>2, <1>5, <1>16
<1>18. deriveSenderKeys(e, peerIndexMap(e)[frame.peer])' = key
    BY <1>6, <1>7, <1>15, <1>16 DEF peerIndexMap, deriveSenderKeys, encode
<1>19. Len(frame'.buf) \in 0..Len(sframeEncrypt(frame'.key, frame'.ctr))
    BY <1>9, <1>10, <1>11, <1>13, <1>15
<1>20. frame'.buf = SubSeq(sframeEncrypt(frame'.key, frame'.ctr), 1, Len(frame'.buf))
    BY <1>9, <1>12, <1>13, <1>15
<1>21. frame'.whole => Len(frame'.buf) = Len(sframeEncrypt(frame'.key, frame'.ctr))
    BY <1>9, <1>10, <1>13, <1>15
<1> QED
    BY <1>15, <1>17, <1>18, <1>19, <1>20, <1>21 DEF FrameInv

LEMMA AddrStep == AddrInv /\ [Next]_vars => AddrInv'
<1> SUFFICES ASSUME AddrInv, [Next]_vars PROVE AddrInv'
    OBVIOUS
<1>1. EpochInv /\ FrameInv /\ (frame = None => outcome = None)
    BY DEF AddrInv
<1>2. EpochInv'
    BY <1>1, EpochStep
<1>3. ASSUME frame' = frame, config' = config, outcome' = outcome \/ frame # None,
             applied["sender"] \subseteq applied'["sender"],
             \A e \in DOMAIN members : members'[e] = members[e]
      PROVE  AddrInv'
    BY <1>1, <1>2, <1>3, FrameStays DEF AddrInv
<1>4. CASE construct
    BY <1>3, <1>4 DEF construct
<1>5. ASSUME NEW ids \in Groups, groupAdvances(ids)
      PROVE  AddrInv'
    <2>1. epoch' \notin DOMAIN members
        BY <1>1, <1>5 DEF groupAdvances, EpochInv
    <2>2. \A e \in DOMAIN members : members'[e] = members[e]
        BY <1>5, <2>1 DEF groupAdvances
    <2> QED
        BY <1>3, <1>5, <2>2 DEF groupAdvances
<1>6. ASSUME NEW e \in DOMAIN members, NEW c \in Clients, applyEpoch(c, e)
      PROVE  AddrInv'
    <2>1. applied["sender"] \subseteq applied'["sender"]
        BY <1>1, <1>6 DEF applyEpoch, EpochInv
    <2> QED
        BY <1>3, <1>6, <2>1 DEF applyEpoch
<1>7. ASSUME NEW e \in DOMAIN members, applyEpochThrows(e)
      PROVE  AddrInv'
    BY <1>3, <1>7 DEF applyEpochThrows
<1>8. ASSUME NEW leaf, NEW ctr \in Ctrs, NEW cut \in Nat, send(leaf, ctr, cut)
      PROVE  AddrInv'
    <2>1. outcome' = None
        BY <1>1, <1>8 DEF send
    <2> QED
        BY <1>1, <1>2, <1>8, <2>1, FrameSent DEF AddrInv
<1>9. CASE sframeDecrypt
    BY <1>3, <1>9 DEF sframeDecrypt
<1>10. CASE UNCHANGED vars
    BY <1>3, <1>10 DEF vars
<1>11. \A cut \in 0 .. 2 + KidBytes + CtrBytes + TagBytes : cut \in Nat
    BY Widths
<1> QED
    BY <1>4, <1>5, <1>6, <1>7, <1>8, <1>9, <1>10, <1>11 DEF Next

LEMMA AddrStart == Init => AddrInv
BY EpochStart DEF Init, AddrInv, FrameInv

\* sframeDecrypt finds the key the frame was sealed with, or none.
LEMMA FrameOpened ==
    ASSUME EpochInv, FrameInv, sframeDecrypt
    PROVE  FrameReachesItsKey'
<1>1. PICK e \in applied["sender"] :
          /\ frame.peer \in Range(members[e])
          /\ frame.key = deriveSenderKeys(e, peerIndexMap(e)[frame.peer])
    BY DEF FrameInv, sframeDecrypt
<1>2. PICK i, kid, end : i = peerIndexMap(e)[frame.peer] /\ kid = encode(e, i) /\ end = Len(frame.buf)
    OBVIOUS
<1>3. /\ e \in DOMAIN members /\ i \in Indices(e) /\ frame.key.chain = e /\ frame.key.kid = kid
      /\ frame.key # None /\ frame.key = deriveSenderKeys(e, i)
      /\ kid \in Nat /\ kid < 2^WordBits /\ decode(kid) = [epoch |-> e, index |-> i]
    BY <1>1, <1>2, KeyOfMember DEF Clients
<1>4. PICK hdr : hdr = parseHeader(frame.buf)
    OBVIOUS
<1>5. frame.ctr \in Ctrs /\ Found(hdr, kid, frame.ctr, end, Len(sframeEncrypt(frame.key, frame.ctr)))
    <2>1. /\ frame.ctr \in Ctrs /\ end \in 0 .. Len(sframeEncrypt(frame.key, frame.ctr))
          /\ frame.buf = SubSeq(sframeEncrypt(frame.key, frame.ctr), 1, end)
        BY <1>2 DEF FrameInv, sframeDecrypt
    <2>2. sframeEncrypt(frame.key, frame.ctr) = Sent(kid, frame.ctr)
        BY <1>3 DEF sframeEncrypt, Sent
    <2>3. PICK ctr \in Ctrs : ctr = frame.ctr
        BY <2>1
    <2>4. Len(Sent(kid, ctr)) \in Nat
        BY <1>3, SentLength
    <2>5. end \in Nat /\ end <= Len(Sent(kid, ctr))
        BY <2>1, <2>2, <2>3, <2>4
    <2>6. Found(parseHeader(SubSeq(Sent(kid, ctr), 1, end)), kid, ctr, end, Len(Sent(kid, ctr)))
        BY <1>3, <2>5, HeaderRead
    <2> QED
        BY <1>4, <2>1, <2>2, <2>3, <2>6
<1>6. frame.whole => end = Len(sframeEncrypt(frame.key, frame.ctr))
    BY <1>2 DEF FrameInv, sframeDecrypt
<1> DEFINE short == hdr = Unparsed \/ Len(frame.buf) < hdr.bodyOffset + TagBytes
           at == decode(hdr.kid)
           key == IF short THEN None ELSE Lookup(at)
           step == IF short THEN "malformed"
                   ELSE IF key = None THEN "no key"
                   ELSE IF key = frame.key /\ hdr.ctr = frame.ctr /\ frame.whole
                     THEN "opened" ELSE "not authentic"
           had == frame.key.chain \in applied["receiver"]
           from == IF key = None THEN {}
                   ELSE {p \in Range(members[at.epoch]) : peerIndexMap(at.epoch)[p] = at.index}
<1>7. outcome' = [step |-> step, key |-> key, had |-> had, from |-> from] /\ frame' = frame
    BY <1>4 DEF sframeDecrypt
<1>8. frame.whole => ~short
    <2>1. frame.whole => hdr # Unparsed /\ ~(end < hdr.bodyOffset + TagBytes)
        BY <1>5, <1>6 DEF Found
    <2> QED
        BY <1>2, <2>1
<1>9. ~short => hdr.ctr = frame.ctr /\ at = [epoch |-> e, index |-> i]
    BY <1>3, <1>5 DEF Found
<1>10. ~short => key = IF had THEN frame.key ELSE None
    BY <1>3, <1>9 DEF Lookup
<1>11. key \in {frame.key, None}
    BY <1>10
<1>12. key = frame.key => from = {frame.peer}
    <2> SUFFICES ASSUME key = frame.key PROVE from = {frame.peer}
        OBVIOUS
    <2>1. ~short
        BY <1>3
    <2>2. from = {p \in Range(members[e]) : peerIndexMap(e)[p] = i}
        BY <1>3, <1>9, <2>1
    <2>3. \A p \in Range(members[e]) : peerIndexMap(e)[p] = i => p = frame.peer
        BY <1>1, <1>2, <1>3, EpochIndices
    <2> QED
        BY <1>1, <1>2, <2>2, <2>3
<1>13. frame.whole /\ had => step = "opened"
    BY <1>3, <1>8, <1>9, <1>10
<1> HIDE DEF short, at, key, step, had, from
<1>14. outcome'.step = step /\ outcome'.key = key /\ outcome'.had = had /\ outcome'.from = from
    BY <1>7
<1> QED
    BY <1>7, <1>11, <1>12, <1>13, <1>14 DEF FrameReachesItsKey

-----------------------------------------------------------------------------
(***************************************************************************)
(* An epoch keeps its members, an applied epoch could be derived and a     *)
(* refused one could not, and the frame on its way is what a member of an  *)
(* applied epoch sealed, or its first bytes.                               *)
(***************************************************************************)
THEOREM AddrCorrect == Spec => []AddrInv
<1>1. Init => AddrInv
    BY AddrStart
<1>2. AddrInv /\ [Next]_vars => AddrInv'
    BY AddrStep
<1> QED
    BY <1>1, <1>2, PTL DEF Spec

(***************************************************************************)
(* Two leaves of an applied epoch share a key only if they share an        *)
(* identity (buildPeerIndexMap, peerIndexBe16, deriveSenderKeys), whatever *)
(* the size of the group.                                                  *)
(***************************************************************************)
THEOREM KeysPerIdentity == Spec => []KeyPerIdentity
<1>1. AddrInv => KeyPerIdentity
    BY KeysDiffer DEF AddrInv
<1> QED
    BY <1>1, AddrCorrect, PTL

(***************************************************************************)
(* An epoch is refused only where some member has no Key ID of the format, *)
(* or an index too wide for the key derivation, for every width of the     *)
(* fields but the 31 epoch bits and more that the shift of                 *)
(* createMlsRatchetProvider gets wrong.                                    *)
(***************************************************************************)
THEOREM RefusalsAreDue == Spec => []RefusedOnlyIfTooLarge
<1>1. AddrInv => RefusedOnlyIfTooLarge
    BY RefusedTooLarge DEF AddrInv
<1> QED
    BY <1>1, AddrCorrect, PTL

(***************************************************************************)
(* A frame that arrives whole at a client with the keys of its epoch is    *)
(* opened and taken for its sender's, and a frame cut anywhere leads to no *)
(* other key (serializeHeader, parseHeader, the codec's encode and decode, *)
(* sframeDecrypt), for every format, context and counter.                  *)
(***************************************************************************)
THEOREM FramesReachTheirKeys == Spec => []FrameReachesItsKey
<1> DEFINE Inv == AddrInv /\ FrameReachesItsKey
<1>1. Init => Inv
    BY AddrStart DEF Init, FrameReachesItsKey
<1>2. Inv /\ [Next]_vars => Inv'
    <2> SUFFICES ASSUME AddrInv, FrameReachesItsKey, [Next]_vars PROVE FrameReachesItsKey'
        BY AddrStep
    <2>1. CASE sframeDecrypt
        BY <2>1, FrameOpened DEF AddrInv
    <2>2. ASSUME frame' = frame, outcome' = outcome
          PROVE  FrameReachesItsKey'
        BY <2>2 DEF FrameReachesItsKey
    <2>3. ASSUME NEW leaf, NEW ctr, NEW cut, send(leaf, ctr, cut)
          PROVE  FrameReachesItsKey'
        BY <2>3 DEF send, AddrInv, FrameReachesItsKey
    <2>4. CASE construct
        BY <2>2, <2>4 DEF construct
    <2>5. ASSUME NEW ids, groupAdvances(ids)
          PROVE  FrameReachesItsKey'
        BY <2>2, <2>5 DEF groupAdvances
    <2>6. ASSUME NEW c, NEW e, applyEpoch(c, e) \/ applyEpochThrows(e)
          PROVE  FrameReachesItsKey'
        BY <2>2, <2>6 DEF applyEpoch, applyEpochThrows
    <2>7. CASE UNCHANGED vars
        BY <2>2, <2>7 DEF vars
    <2> QED
        BY <2>1, <2>3, <2>4, <2>5, <2>6, <2>7 DEF Next
<1> QED
    BY <1>1, <1>2, PTL DEF Spec
=============================================================================
