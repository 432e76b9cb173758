----------------------------- MODULE SlabProofs -----------------------------
(***************************************************************************)
(* Proofs about Slab for any number of pages, any requests, and pages and  *)
(* chunks of any size whose map the int of ngx_slab.c:474 has bits for     *)
(* (MapAssumption: pages of 4K and 8K with chunks of 8 bytes): the lists   *)
(* and the runs stay as the code keeps them, the pool is an allocator of   *)
(* memory, and no room is lost.                                            *)
(*                                                                         *)
(* A pool is looked at between two operations and inside one: `nd' is the  *)
(* pages and list heads at some point, B the pages that are being          *)
(* rearranged there and belong to no list.  Each piece of an operation     *)
(* (Split, Unlinked, JoinNext, ...) has a lemma that says what it makes of *)
(* a pool that is Sound but for B.                                         *)
(***************************************************************************)
EXTENDS Slab, FiniteSetTheorems, FunctionTheorems, WellFoundedInduction, TLAPS

----------------------------------------------------------------------------
(* Numbers                                                                 *)

\* A set of naturals with zero, and with the successor of each of its members.
LEMMA SetInduction ==
    ASSUME NEW S, 0 \in S, \A n \in Nat : n \in S => n + 1 \in S
    PROVE  \A n \in Nat : n \in S
<1> SUFFICES ASSUME NEW k \in Nat, k \notin S PROVE FALSE
  OBVIOUS
<1> DEFINE T == {n \in Nat : n \notin S}
<1>1. T \subseteq Nat /\ T # {}
  OBVIOUS
<1> HIDE DEF T
<1>2. PICK x \in T : \A y \in T : ~(<<y, x>> \in OpToRel(<, Nat))
  BY <1>1, NatLessThanWellFounded, WFMin
<1>3. OpToRel(<, Nat) = {ss \in Nat \X Nat : ss[1] < ss[2]}
  BY DEF OpToRel
<1>4. \A y \in T : ~(y < x)
  BY <1>1, <1>2, <1>3
<1>5. x \in Nat /\ x \notin S /\ x # 0
  BY DEF T
<1>6. x - 1 \in Nat /\ x - 1 < x /\ (x - 1) + 1 = x
  BY <1>5
<1>7. x - 1 \in S
  BY <1>4, <1>6 DEF T
<1> QED
  BY <1>5, <1>6, <1>7

\* A set has two to its size subsets: one more element doubles them.
LEMMA PowDouble == \A n \in Nat : 2 ^ n \in Nat \ {0} /\ 2 ^ (n + 1) = 2 * 2 ^ n
<1> SUFFICES ASSUME NEW n \in Nat
             PROVE  2 ^ n \in Nat \ {0} /\ 2 ^ (n + 1) = 2 * 2 ^ n
  OBVIOUS
<1> DEFINE A == SUBSET (1 .. n)
           B == SUBSET (1 .. n + 1)
           C == B \ A
           f == [s \in A |-> s \cup {n + 1}]
<1>1. IsFiniteSet(1 .. n) /\ Cardinality(1 .. n) = n
      /\ IsFiniteSet(1 .. n + 1) /\ Cardinality(1 .. n + 1) = n + 1
  BY FS_Interval
<1>2. IsFiniteSet(A) /\ Cardinality(A) = 2 ^ n /\ IsFiniteSet(B) /\ Cardinality(B) = 2 ^ (n + 1)
  BY <1>1, FS_SUBSET
<1>3. A \cap C = {} /\ A \cup C = B
  OBVIOUS
<1>4. f \in Bijection(A, C)
  <2>1. f \in [A -> C]
    OBVIOUS
  <2>2. ASSUME NEW s \in A, NEW t \in A, f[s] = f[t] PROVE s = t
    <3>1. n + 1 \notin s /\ n + 1 \notin t
      OBVIOUS
    <3>2. s \cup {n + 1} = t \cup {n + 1}
      BY <2>2
    <3> QED
      BY <3>1, <3>2
  <2>3. ASSUME NEW c \in C PROVE \E s \in A : f[s] = c
    <3>1. c \subseteq 1 .. n + 1 /\ ~(c \subseteq 1 .. n)
      OBVIOUS
    <3>2. n + 1 \in c
      BY <3>1
    <3>3. c \ {n + 1} \in A
      BY <3>1
    <3>4. f[c \ {n + 1}] = c
      BY <3>2, <3>3
    <3> QED
      BY <3>3, <3>4
  <2> HIDE DEF A, C, f
  <2> QED
    BY <2>1, <2>2, <2>3, Fun_IsBij
<1> HIDE DEF A, B, C, f
<1>5. IsFiniteSet(C) /\ Cardinality(C) = Cardinality(A)
  <2>1. ExistsBijection(A, C)
    BY <1>4 DEF ExistsBijection
  <2> QED
    BY <1>2, <2>1, FS_Bijection
<1>6. Cardinality(B) = Cardinality(A) + Cardinality(C)
  <2>1. Cardinality(A \cup C) = Cardinality(A) + Cardinality(C) - Cardinality(A \cap C)
    BY <1>2, <1>5, FS_Union
  <2>2. Cardinality(A \cap C) = 0
    BY <1>3, FS_EmptySet
  <2>3. Cardinality(A) \in Nat /\ Cardinality(C) \in Nat
    BY <1>2, <1>5, FS_CardinalityType
  <2>4. Cardinality(A \cup C) = Cardinality(B)
    BY <1>3
  <2> QED
    BY <2>1, <2>2, <2>3, <2>4
<1>7. Cardinality(A) # 0 /\ Cardinality(A) \in Nat
  <2>1. {} \in A
    BY DEF A
  <2> QED
    BY <1>2, <2>1, FS_EmptySet, FS_CardinalityType
<1> QED
  BY <1>2, <1>5, <1>6, <1>7

LEMMA PowSum == \A m, n \in Nat : 2 ^ (m + n) = 2 ^ m * 2 ^ n
<1> SUFFICES ASSUME NEW m \in Nat
             PROVE  \A n \in Nat : 2 ^ (m + n) = 2 ^ m * 2 ^ n
  OBVIOUS
<1> DEFINE S == {n \in Nat : 2 ^ (m + n) = 2 ^ m * 2 ^ n}
<1>1. 0 \in S
  <2>1. 2 ^ m \in Nat
    BY PowDouble
  <2>2. 2 ^ 0 = 1 /\ m + 0 = m
    OBVIOUS
  <2> QED
    BY <2>1, <2>2
<1>2. ASSUME NEW n \in Nat, n \in S PROVE n + 1 \in S
  <2> DEFINE a == 2 ^ m
             b == 2 ^ n
             c == 2 ^ (m + n)
  <2>1. a \in Nat /\ b \in Nat /\ c \in Nat /\ 2 ^ (n + 1) = 2 * b /\ m + n \in Nat
    BY PowDouble
  <2>2. 2 ^ ((m + n) + 1) = 2 * c
    BY <2>1, PowDouble
  <2>3. c = a * b
    BY <1>2
  <2>4. (m + n) + 1 = m + (n + 1)
    OBVIOUS
  <2> HIDE DEF a, b, c
  <2>5. 2 * (a * b) = a * (2 * b)
    BY <2>1
  <2>6. 2 ^ (m + (n + 1)) = a * 2 ^ (n + 1)
    BY <2>1, <2>2, <2>3, <2>4, <2>5
  <2> QED
    BY <2>6 DEF a
<1> HIDE DEF S
<1>3. \A n \in Nat : n \in S
  BY <1>1, <1>2, SetInduction
<1> QED
  BY <1>3 DEF S

\* The power of a larger number is a multiple, and the larger one.
LEMMA PowOrder == \A m, n \in Nat : m < n => 2 ^ m < 2 ^ n /\ 2 * 2 ^ m <= 2 ^ n /\ 2 ^ n = 2 ^ m * 2 ^ (n - m)
<1> SUFFICES ASSUME NEW m \in Nat, NEW n \in Nat, m < n
             PROVE  2 ^ m < 2 ^ n /\ 2 * 2 ^ m <= 2 ^ n /\ 2 ^ n = 2 ^ m * 2 ^ (n - m)
  OBVIOUS
<1> DEFINE k == (n - m) - 1
           a == 2 ^ m
           b == 2 ^ k
<1>1. k \in Nat /\ n - m = k + 1 /\ n - m \in Nat /\ n = m + (n - m)
  OBVIOUS
<1>2. a \in Nat \ {0} /\ b \in Nat \ {0} /\ 2 ^ (n - m) = 2 * b
  BY <1>1, PowDouble
<1>3. 2 ^ n = a * 2 ^ (n - m)
  BY <1>1, PowSum
<1> HIDE DEF a, b
<1>4. 2 ^ n = a * (2 * b)
  BY <1>2, <1>3
<1>5. a * (2 * b) >= 2 * a
  BY <1>2
<1>6. 2 * a > a /\ 2 * a \in Nat /\ a * (2 * b) \in Nat
  BY <1>2
<1> QED
  BY <1>2, <1>3, <1>4, <1>5, <1>6 DEF a

LEMMA LeastNat ==
    ASSUME NEW S, S \subseteq Nat, S # {}
    PROVE  \E x \in S : \A y \in S : x <= y
<1>1. PICK x \in S : \A y \in S : ~(<<y, x>> \in OpToRel(<, Nat))
  BY NatLessThanWellFounded, WFMin
<1>2. OpToRel(<, Nat) = {ss \in Nat \X Nat : ss[1] < ss[2]}
  BY DEF OpToRel
<1>3. \A y \in S : ~(y < x)
  BY <1>1, <1>2
<1> QED
  BY <1>3

\* Division by a positive number: the quotient and the rest are unique.
LEMMA Times == \A a, b \in Int, d \in Nat : a < b => a * d + d <= b * d
<1> SUFFICES ASSUME NEW a \in Int, NEW b \in Int, NEW d \in Nat, a < b
             PROVE  a * d + d <= b * d
  OBVIOUS
<1>1. b - (a + 1) \in Nat
  OBVIOUS
<1>2. (b - (a + 1)) * d >= 0
  BY <1>1
<1> QED
  BY <1>2

LEMMA Divided ==
    \A x \in Nat, d \in Nat \ {0} : /\ x \div d \in Nat /\ x % d \in 0 .. d - 1
                                    /\ x = (x \div d) * d + (x % d)
<1> SUFFICES ASSUME NEW x \in Nat, NEW d \in Nat \ {0}
             PROVE  /\ x \div d \in Nat /\ x % d \in 0 .. d - 1
                    /\ x = (x \div d) * d + (x % d)
  OBVIOUS
<1> QED
  BY SMT

LEMMA DivideBack ==
    \A q \in Nat, d \in Nat \ {0}, r \in Nat :
        r < d => (q * d + r) \div d = q /\ (q * d + r) % d = r
<1> SUFFICES ASSUME NEW q \in Nat, NEW d \in Nat \ {0}, NEW r \in Nat, r < d
             PROVE  (q * d + r) \div d = q /\ (q * d + r) % d = r
  OBVIOUS
<1> DEFINE x == q * d + r
<1>1. x \in Nat /\ x = q * d + r
  OBVIOUS
<1> HIDE DEF x
<1>2. x \div d = q
  BY <1>1, SMT
<1>3. x % d = r
  BY <1>1, SMT
<1> QED
  BY <1>2, <1>3 DEF x

----------------------------------------------------------------------------
(* Sizes                                                                   *)

LEMMA Sizes == /\ PageSize \in Nat \ {0} /\ MaxSize \in Nat \ {0} /\ PageSize = 2 * MaxSize
               /\ MaxSize = 2 ^ (PageShift - 1)
               /\ PageShift \in Nat /\ MinShift \in Nat /\ MinShift + 2 <= PageShift
<1>1. PageShift \in Nat /\ MinShift \in Nat /\ MinShift + 2 <= PageShift
  BY ShiftAssumption
<1>2. PageShift - 1 \in Nat /\ (PageShift - 1) + 1 = PageShift
  BY <1>1
<1> DEFINE m == 2 ^ (PageShift - 1)
<1>3. m \in Nat \ {0} /\ PageSize = 2 * m
  BY <1>2, PowDouble DEF PageSize
<1>m. m = 2 ^ (PageShift - 1)
  OBVIOUS
<1> HIDE DEF m
<1>4. PageSize \in Nat \ {0}
  BY <1>3
<1>5. MaxSize = m
  BY <1>3 DEF MaxSize
<1> QED
  BY <1>1, <1>3, <1>4, <1>5, <1>m

LEMMA ExactIs == ExactShift \in 0 .. PageShift - 1
<1>1. PICK w \in 1 .. PageShift : WordBits = 2 ^ w
  BY ShiftAssumption
<1>2. w \in Nat /\ PageShift \in Nat /\ PageShift - w \in Nat /\ (PageShift - w) + w = PageShift
  BY <1>1, Sizes
<1> DEFINE a == 2 ^ (PageShift - w)
           b == 2 ^ w
<1>3. a \in Nat \ {0} /\ b \in Nat \ {0} /\ PageSize = a * b
  BY <1>2, PowDouble, PowSum DEF PageSize
<1>d. WordBits = b /\ a = 2 ^ (PageShift - w)
  BY <1>1
<1> HIDE DEF a, b
<1>4. a * b + 0 = PageSize /\ 0 < b /\ 0 \in Nat /\ a \in Nat
  BY <1>3
<1>5. PageSize \div b = a
  BY <1>3, <1>4, DivideBack
<1>6. ExactSize = 2 ^ (PageShift - w)
  BY <1>5, <1>d DEF ExactSize
<1>7. ExactShift \in 0 .. PageShift /\ 2 ^ ExactShift = 2 ^ (PageShift - w)
  <2>1. \E t \in 0 .. PageShift : 2 ^ t = ExactSize
    BY <1>1, <1>2, <1>6
  <2>2. ExactShift \in 0 .. PageShift /\ 2 ^ ExactShift = ExactSize
    BY <2>1 DEF ExactShift
  <2> QED
    BY <1>6, <2>2
<1>8. ExactShift # PageShift
  <2>1. PageShift - w < PageShift
    BY <1>1, <1>2
  <2>2. 2 ^ (PageShift - w) < 2 ^ PageShift
    BY <1>2, <2>1, PowOrder
  <2>3. 2 ^ (PageShift - w) \in Nat /\ 2 ^ PageShift \in Nat
    BY <1>2, PowDouble
  <2> QED
    BY <1>7, <2>2, <2>3
<1> QED
  BY <1>2, <1>7, <1>8

\* The chunks of a size fill a page, and there are at least two of them.
LEMMA ChunkSizes ==
    \A s \in MinShift .. PageShift - 1 :
        /\ 2 ^ s \in Nat \ {0} /\ 2 ^ (PageShift - s) \in Nat
        /\ 2 ^ (PageShift - s) * 2 ^ s = PageSize /\ 2 ^ (PageShift - s) >= 2
        /\ Chunks(s) = 0 .. 2 ^ (PageShift - s) - 1
<1> SUFFICES ASSUME NEW s \in MinShift .. PageShift - 1
             PROVE  /\ 2 ^ s \in Nat \ {0} /\ 2 ^ (PageShift - s) \in Nat
                    /\ 2 ^ (PageShift - s) * 2 ^ s = PageSize /\ 2 ^ (PageShift - s) >= 2
                    /\ Chunks(s) = 0 .. 2 ^ (PageShift - s) - 1
  OBVIOUS
<1> DEFINE a == (PageShift - s) - 1
<1>1. s \in Nat /\ PageShift \in Nat /\ a \in Nat /\ PageShift - s = a + 1 /\ PageShift - s \in Nat
      /\ (PageShift - s) + s = PageShift
  BY Sizes
<1>2. 2 ^ (PageShift - s) * 2 ^ s = PageSize
  BY <1>1, PowSum DEF PageSize
<1> DEFINE c == 2 ^ a
<1>3. c \in Nat \ {0} /\ 2 ^ (PageShift - s) = 2 * c
  BY <1>1, PowDouble
<1> HIDE DEF c
<1>4. 2 ^ (PageShift - s) >= 2 /\ 2 ^ (PageShift - s) \in Nat
  BY <1>3
<1>5. 2 ^ s \in Nat \ {0}
  BY <1>1, PowDouble
<1> QED
  BY <1>2, <1>4, <1>5 DEF Chunks

\* The chunks of the map: it fits in them, and they leave two others.
LEMMA HeaderIs ==
    \A s \in MinShift .. PageShift - 1 :
        /\ Cardinality(Header(s)) \in Nat /\ Header(s) = 0 .. Cardinality(Header(s)) - 1
        /\ Cardinality(Header(s)) + 1 < 2 ^ (PageShift - s)
        /\ Type(s) = "small" => /\ 2 ^ (PageShift - s) \div 8 <= Cardinality(Header(s)) * 2 ^ s
                                /\ 2 ^ (PageShift - s) \div 8 \in Nat
<1> SUFFICES ASSUME NEW s \in MinShift .. PageShift - 1
             PROVE  /\ Cardinality(Header(s)) \in Nat /\ Header(s) = 0 .. Cardinality(Header(s)) - 1
                    /\ Cardinality(Header(s)) + 1 < 2 ^ (PageShift - s)
                    /\ Type(s) = "small" => /\ 2 ^ (PageShift - s) \div 8 <= Cardinality(Header(s)) * 2 ^ s
                                            /\ 2 ^ (PageShift - s) \div 8 \in Nat
  OBVIOUS
<1> DEFINE a == PageShift - s
           c == 2 ^ a
           d == 2 ^ s
           m == c \div 8
           k == m \div d
<1>1. s \in Nat /\ PageShift \in Nat /\ a \in Nat /\ a >= 1 /\ s < PageShift
  BY Sizes
<1>2. c \in Nat /\ d \in Nat \ {0} /\ c >= 2
  BY ChunkSizes
<1>3. CASE ~(s < ExactShift)
  <2>1. Header(s) = {} /\ Type(s) # "small"
    BY <1>3 DEF Header, Type
  <2>2. Cardinality(Header(s)) = 0
    BY <2>1, FS_EmptySet
  <2> QED
    BY <1>2, <2>1, <2>2
<1>4. CASE s < ExactShift
  <2> DEFINE n == IF k = 0 THEN 1 ELSE k
  <2>1. Header(s) = 0 .. n - 1
    BY <1>4 DEF Header
  <2>2. a >= 2
    BY <1>1, <1>4, ExactIs
  <2>3. m \in Nat /\ (m = 0 \/ c = 8 * m) /\ (a >= 3 => c = 8 * m /\ m = 2 ^ (a - 3)) /\ (a < 3 => m = 0) /\ c >= 4
    <3>1. 2 ^ 2 = 4 /\ 2 ^ 3 = 8
      <4>1. 2 ^ 1 = 2
        BY PowDouble
      <4>2. 2 ^ (1 + 1) = 2 * 2 ^ 1 /\ 2 ^ (2 + 1) = 2 * 2 ^ 2
        BY PowDouble
      <4> QED
        BY <4>1, <4>2
    <3>2. CASE a = 2
      <4>1. c = 4
        BY <3>1, <3>2
      <4> HIDE DEF c
      <4>2. m = 0
        BY <4>1
      <4> QED
        BY <3>2, <4>1, <4>2
    <3>3. CASE a >= 3
      <4>1. 3 + (a - 3) = a /\ a - 3 \in Nat
        BY <1>1, <3>3
      <4> DEFINE e == 2 ^ (a - 3)
      <4>2. e \in Nat \ {0} /\ c = 8 * e
        <5>1. 2 ^ (3 + (a - 3)) = 2 ^ 3 * 2 ^ (a - 3)
          BY <4>1, PowSum
        <5> QED
          BY <3>1, <4>1, <5>1, PowDouble
      <4>3. e = 2 ^ (a - 3)
        OBVIOUS
      <4> HIDE DEF e, c
      <4>4. m = e
        BY <4>2
      <4>5. c >= 4 /\ m \in Nat /\ c = 8 * m
        BY <4>2, <4>4
      <4> HIDE DEF m
      <4> QED
        BY <1>1, <3>3, <4>3, <4>4, <4>5
    <3> QED
      BY <1>1, <2>2, <3>2, <3>3
  <2>4. k \in Nat /\ (k # 0 => m = k * d) /\ (k = 0 => m < d)
    <3>0. k \in Nat /\ m = k * d + (m % d) /\ m % d \in 0 .. d - 1
      <4> HIDE DEF m, d
      <4> QED
        BY <1>2, <2>3, Divided
    <3>1. CASE a < 3
      <4>1. m = 0
        BY <2>3, <3>1
      <4>2. m < d
        BY <1>2, <4>1
      <4>3. k = 0
        <5>1. d > 0 /\ d \in Nat
          BY <1>2
        <5> HIDE DEF d, m
        <5> QED
          BY <4>1, <5>1
      <4> QED
        BY <4>2, <4>3
    <3>2. CASE a >= 3
      <4>1. m = 2 ^ (a - 3) /\ a - 3 \in Nat
        BY <1>1, <2>3, <3>2
      <4>2. CASE a - 3 < s
        <5>1. m < d
          BY <1>1, <4>1, <4>2, PowOrder
        <5>2. k = 0
          <6> DEFINE r == m % d
                     kk == k
          <6>1. kk \in Nat /\ m = kk * d + r /\ r \in Nat /\ m \in Nat /\ d \in Nat
            BY <1>2, <2>3, <3>0
          <6> HIDE DEF r, kk, m, d
          <6>2. kk >= 1 => kk * d >= d
            BY <6>1
          <6>3. kk = 0
            BY <5>1, <6>1, <6>2
          <6> QED
            BY <6>3 DEF kk
        <5> QED
          BY <5>1, <5>2
      <4>3. CASE a - 3 >= s
        <5> DEFINE f == 2 ^ ((a - 3) - s)
        <5>1. (a - 3) - s \in Nat /\ ((a - 3) - s) + s = a - 3
          BY <1>1, <4>1, <4>3
        <5>2. f \in Nat /\ m = f * d
          BY <1>1, <4>1, <5>1, PowSum, PowDouble
        <5> HIDE DEF f
        <5>3. f * d + 0 = m /\ 0 < d /\ 0 \in Nat
          BY <1>2, <2>3, <5>2
        <5>4. k = f
          <6> HIDE DEF m, d
          <6> QED
            BY <1>2, <5>2, <5>3, DivideBack
        <5>5. m # 0
          BY <1>1, <4>1, PowDouble
        <5>6. k # 0
          <6> HIDE DEF m
          <6> QED
            BY <1>2, <5>2, <5>4, <5>5
        <5> QED
          BY <5>2, <5>4, <5>6
      <4> QED
        BY <1>1, <4>1, <4>2, <4>3
    <3> QED
      BY <1>1, <3>1, <3>2
  <2>n. n \in Nat \ {0} /\ (n = k \/ n = 1) /\ (k = 0 => n = 1) /\ (k # 0 => n = k)
    BY <2>4
  <2> HIDE DEF n
  <2>5. Cardinality(Header(s)) = n
    <3>1. Cardinality(0 .. n - 1) = (n - 1) - 0 + 1
      BY <2>n, FS_Interval
    <3> QED
      BY <2>1, <2>n, <3>1
  <2>6. n + 1 < c /\ m <= n * d
    <3> HIDE DEF k, m, c, d
    <3>1. CASE k = 0
      BY <1>2, <2>3, <2>4, <2>n, <3>1
    <3>2. CASE k # 0
      <4>1. k * d >= k
        BY <1>2, <2>4
      <4>2. m >= k /\ m # 0
        BY <2>4, <3>2, <4>1, <1>2
      <4> QED
        BY <1>2, <2>3, <2>4, <2>n, <3>2, <4>1, <4>2
    <3> QED
      BY <3>1, <3>2
  <2> QED
    BY <2>1, <2>3, <2>5, <2>6, <2>n
<1> QED
  BY <1>3, <1>4

\* A request of up to half a page is served from the smallest chunks it fits.
LEMMA ShiftIs ==
    \A size \in Nat \ {0} :
        size <= MaxSize => Shift(size) \in MinShift .. PageShift - 1 /\ size <= 2 ^ Shift(size)
<1> SUFFICES ASSUME NEW size \in Nat \ {0}, size <= MaxSize
             PROVE  Shift(size) \in MinShift .. PageShift - 1 /\ size <= 2 ^ Shift(size)
  OBVIOUS
<1> DEFINE S == {s \in MinShift .. PageShift : 2 ^ s >= size}
<1>1. S \subseteq Nat /\ PageShift - 1 \in S
  BY Sizes
<1>2. PICK x \in S : \A y \in S : x <= y
  BY <1>1, LeastNat
<1>3. x \in MinShift .. PageShift - 1
  BY <1>1, <1>2, Sizes
<1>4. \A t \in MinShift .. x - 1 : 2 ^ t < size
  <2> TAKE t \in MinShift .. x - 1
  <2>1. t \notin S /\ t \in Nat /\ t \in MinShift .. PageShift
    BY <1>1, <1>2, <1>3, Sizes
  <2>2. 2 ^ t \in Nat
    BY <2>1, PowDouble
  <2> QED
    BY <2>1, <2>2
<1> DEFINE Serves(s) == 2 ^ s >= size /\ \A t \in MinShift .. s - 1 : 2 ^ t < size
<1>5. x \in MinShift .. PageShift /\ Serves(x)
  BY <1>2, <1>4
<1>6. Shift(size) \in MinShift .. PageShift /\ Serves(Shift(size))
  BY <1>5 DEF Shift
<1>7. Shift(size) = x
  <2>1. Shift(size) \in S
    BY <1>6
  <2>2. ~(x < Shift(size))
    <3> SUFFICES ASSUME x < Shift(size) PROVE FALSE
      OBVIOUS
    <3>1. x \in MinShift .. Shift(size) - 1
      BY <1>3, <1>6, Sizes
    <3>2. 2 ^ x < size /\ 2 ^ x >= size /\ 2 ^ x \in Nat
      BY <1>1, <1>5, <1>6, <3>1, PowDouble
    <3> QED
      BY <3>2
  <2> QED
    BY <1>1, <1>2, <2>1, <2>2
<1> QED
  BY <1>3, <1>5, <1>7

LEMMA PagesForIs ==
    \A size \in Nat \ {0} : /\ PagesFor(size) \in Nat \ {0}
                            /\ size <= PagesFor(size) * PageSize
                            /\ (PagesFor(size) - 1) * PageSize < size
<1> SUFFICES ASSUME NEW size \in Nat \ {0}
             PROVE  /\ PagesFor(size) \in Nat \ {0}
                    /\ size <= PagesFor(size) * PageSize
                    /\ (PagesFor(size) - 1) * PageSize < size
  OBVIOUS
<1> DEFINE q == size \div PageSize
           r == size % PageSize
           d == PageSize
           n == PagesFor(size)
<1>1. d \in Nat \ {0} /\ q \in Nat /\ r \in 0 .. d - 1 /\ size = q * d + r
  BY Sizes, Divided
<1>2. n = IF r # 0 THEN q + 1 ELSE q
  BY <1>1 DEF PagesFor
<1> HIDE DEF q, r, d, n
<1>3. (q + 1) * d = q * d + d /\ q * d \in Nat
  BY <1>1
<1>4. CASE r # 0
  <2>1. n = q + 1 /\ n - 1 = q
    BY <1>1, <1>2, <1>4
  <2> QED
    BY <1>1, <1>3, <1>4, <2>1 DEF n, d
<1>5. CASE r = 0
  <2>1. n = q /\ size = q * d
    BY <1>1, <1>2, <1>3, <1>5
  <2>2. q # 0
    BY <1>1, <2>1
  <2>3. (q - 1) * d = q * d - d
    BY <1>1
  <2>4. n \in Nat \ {0} /\ size <= n * d /\ (n - 1) * d < size
    BY <1>1, <1>3, <2>1, <2>2, <2>3
  <2> QED
    BY <2>4 DEF n, d
<1> QED
  BY <1>1, <1>4, <1>5

----------------------------------------------------------------------------
(* The lists.  A page in a list belongs to the head of that list.          *)

Heads == {FreeHead} \cup {SlotHead(s) : s \in Slots}
Nodes == Pages \cup Heads

\* own: the head of the list a node is in, Null if it is in none; rank: a page
\* comes before those of a higher rank.
Links(nd, own, rank, m) ==
    /\ own \in [Nodes -> Heads \cup {Null}] /\ m \in Nat /\ rank \in [Pages -> -m .. m]
    /\ \A h \in Heads : own[h] = h
    /\ \A x \in Nodes : own[x] # Null =>
          /\ nd[x].next \in Nodes /\ own[nd[x].next] = own[x]
          /\ nd[x].next \in Pages => nd[nd[x].next].prev = x
    /\ \A x \in Pages : own[x] # Null =>
          /\ nd[x].prev \in Nodes /\ own[nd[x].prev] = own[x]
          /\ nd[nd[x].prev].next = x
          /\ nd[x].next \in Pages => rank[x] < rank[nd[x].next]

LEMMA Apart == /\ Pages \cap Heads = {} /\ Nodes = Pages \cup Heads /\ Null \notin Nodes
               /\ Pages \subseteq Nat /\ FreeHead \in Heads
<1>1. \A s \in Slots : s \in Nat
  BY Sizes DEF Slots
<1>2. \A h \in Heads : h \in Int /\ h < -1
  BY <1>1 DEF Heads, FreeHead, SlotHead
<1>3. \A p \in Pages : p \in Nat
  BY DEF Pages
<1> QED
  BY <1>2, <1>3 DEF Nodes, Null, Heads

LEMMA LinksSame ==
    ASSUME NEW nd, NEW md, NEW own, NEW rank, NEW m, Links(nd, own, rank, m),
           \A x \in Nodes : own[x] # Null => md[x].next = nd[x].next,
           \A x \in Pages : own[x] # Null => md[x].prev = nd[x].prev
    PROVE  Links(md, own, rank, m)
<1>1. ASSUME NEW x \in Nodes, own[x] # Null
      PROVE  /\ md[x].next \in Nodes /\ own[md[x].next] = own[x]
             /\ md[x].next \in Pages => md[md[x].next].prev = x
  <2>1. nd[x].next \in Nodes /\ own[nd[x].next] = own[x] /\ md[x].next = nd[x].next
    BY <1>1 DEF Links
  <2>2. nd[x].next \in Pages => nd[nd[x].next].prev = x
    BY <1>1 DEF Links
  <2> QED
    BY <1>1, <2>1, <2>2
<1>2. ASSUME NEW x \in Pages, own[x] # Null
      PROVE  /\ md[x].prev \in Nodes /\ own[md[x].prev] = own[x]
             /\ md[md[x].prev].next = x
             /\ md[x].next \in Pages => rank[x] < rank[md[x].next]
  <2>1. /\ nd[x].prev \in Nodes /\ own[nd[x].prev] = own[x] /\ md[x].prev = nd[x].prev
        /\ nd[nd[x].prev].next = x /\ md[x].next = nd[x].next
        /\ nd[x].next \in Pages => rank[x] < rank[nd[x].next]
    BY <1>2, Apart DEF Links
  <2> QED
    BY <1>2, <2>1
<1>3. own \in [Nodes -> Heads \cup {Null}] /\ m \in Nat /\ rank \in [Pages -> -m .. m]
      /\ \A h \in Heads : own[h] = h
  BY DEF Links
<1> QED
  BY <1>1, <1>2, <1>3 DEF Links

\* A page that leaves its list: its neighbours are joined.
LEMMA LinksUnlink ==
    ASSUME NEW nd, NEW md, NEW own, NEW rank, NEW m, Links(nd, own, rank, m),
           NEW p \in Pages, own[p] # Null,
           \A x \in Nodes \ {p} : own[x] # Null =>
               md[x].next = IF x = nd[p].prev THEN nd[p].next ELSE nd[x].next,
           \A x \in Pages \ {p} : own[x] # Null =>
               md[x].prev = IF x = nd[p].next THEN nd[p].prev ELSE nd[x].prev
    PROVE  Links(md, [own EXCEPT ![p] = Null], rank, m)
<1> DEFINE to == [own EXCEPT ![p] = Null]
           a == nd[p].prev
           b == nd[p].next
<1>1. own \in [Nodes -> Heads \cup {Null}] /\ m \in Nat /\ rank \in [Pages -> -m .. m]
  BY DEF Links
<1>2. to \in [Nodes -> Heads \cup {Null}] /\ to[p] = Null /\ \A x \in Nodes \ {p} : to[x] = own[x]
  BY <1>1, Apart
<1>3. /\ a \in Nodes /\ b \in Nodes /\ own[a] = own[p] /\ own[b] = own[p]
      /\ nd[a].next = p /\ (b \in Pages => nd[b].prev = p /\ rank[p] < rank[b])
  BY Apart DEF Links
<1>4. b # p
  BY <1>1, <1>3
<1>5. a # p
  BY <1>3, <1>4
<1> HIDE DEF to
<1>6. \A h \in Heads : to[h] = h
  <2>1. \A h \in Heads : own[h] = h
    BY DEF Links
  <2> QED
    BY <1>2, <2>1, Apart
<1>7. ASSUME NEW x \in Nodes, to[x] # Null
      PROVE  /\ md[x].next \in Nodes /\ to[md[x].next] = to[x]
             /\ md[x].next \in Pages => md[md[x].next].prev = x
             /\ x \in Pages /\ md[x].next \in Pages => rank[x] < rank[md[x].next]
  <2>1. x # p /\ own[x] = to[x] /\ own[x] # Null
    BY <1>2, <1>7
  <2>2. CASE x = a
    <3>1. md[x].next = b
      BY <2>1, <2>2
    <3>2. to[b] = to[x]
      BY <1>2, <1>3, <1>4, <2>1, <2>2
    <3>3. b \in Pages => md[b].prev = a
      BY <1>3, <1>4, <2>1, <2>2
    <3>4. x \in Pages /\ b \in Pages => rank[x] < rank[b]
      <4> SUFFICES ASSUME x \in Pages, b \in Pages PROVE rank[x] < rank[b]
        OBVIOUS
      <4>1. rank[x] < rank[p] /\ rank[p] < rank[b]
        BY <1>3, <2>1, <2>2 DEF Links
      <4>2. rank[x] \in Int /\ rank[p] \in Int /\ rank[b] \in Int
        BY <1>1
      <4> QED
        BY <4>1, <4>2
    <3> QED
      BY <1>3, <2>2, <3>1, <3>2, <3>3, <3>4
  <2>3. CASE x # a
    <3> DEFINE y == nd[x].next
    <3>1. md[x].next = y /\ y \in Nodes /\ own[y] = own[x] /\ (y \in Pages => nd[y].prev = x)
          /\ (x \in Pages /\ y \in Pages => rank[x] < rank[y])
      BY <2>1, <2>3 DEF Links
    <3>2. y # p
      BY <2>3, <3>1
    <3>3. to[y] = to[x]
      BY <1>2, <2>1, <3>1, <3>2
    <3>4. y \in Pages => md[y].prev = x
      <4> SUFFICES ASSUME y \in Pages PROVE md[y].prev = x
        OBVIOUS
      <4>1. y # b
        BY <1>3, <2>1, <3>1
      <4> QED
        BY <2>1, <3>1, <3>2, <4>1
    <3> QED
      BY <3>1, <3>3, <3>4
  <2> QED
    BY <2>2, <2>3
<1>8. ASSUME NEW x \in Pages, to[x] # Null
      PROVE  /\ md[x].prev \in Nodes /\ to[md[x].prev] = to[x]
             /\ md[md[x].prev].next = x
  <2>1. x # p /\ own[x] = to[x] /\ own[x] # Null /\ x \in Nodes
    BY <1>2, <1>8, Apart
  <2>2. CASE x = b
    <3>1. md[x].prev = a
      BY <2>1, <2>2
    <3>2. to[a] = to[x] /\ own[a] # Null
      BY <1>2, <1>3, <1>5, <2>1, <2>2
    <3>3. md[a].next = b
      BY <1>3, <1>5, <3>2
    <3> QED
      BY <1>3, <2>2, <3>1, <3>2, <3>3
  <2>3. CASE x # b
    <3> DEFINE y == nd[x].prev
    <3>1. md[x].prev = y /\ y \in Nodes /\ own[y] = own[x] /\ nd[y].next = x
      BY <2>1, <2>3 DEF Links
    <3>2. y # p
      BY <2>3, <3>1
    <3>3. to[y] = to[x]
      BY <1>2, <2>1, <3>1, <3>2
    <3>4. y # a
      BY <1>3, <2>1, <3>1
    <3>5. md[y].next = x
      BY <2>1, <3>1, <3>2, <3>4
    <3> QED
      BY <3>1, <3>3, <3>5
  <2> QED
    BY <2>2, <2>3
<1>9. Links(md, to, rank, m)
  BY <1>1, <1>2, <1>6, <1>7, <1>8, Apart DEF Links
<1> QED
  BY <1>9 DEF to

\* A page that enters a list at its head.
LEMMA LinksInsert ==
    ASSUME NEW nd, NEW md, NEW own, NEW rank, NEW m, Links(nd, own, rank, m),
           NEW p \in Pages, own[p] = Null, NEW h \in Heads,
           md[p].next = nd[h].next, md[p].prev = h,
           \A x \in Nodes : own[x] # Null => md[x].next = IF x = h THEN p ELSE nd[x].next,
           \A x \in Pages : own[x] # Null =>
               md[x].prev = IF x = nd[h].next THEN p ELSE nd[x].prev
    PROVE  Links(md, [own EXCEPT ![p] = h], [rank EXCEPT ![p] = -(m + 1)], m + 1)
<1> DEFINE to == [own EXCEPT ![p] = h]
           ra == [rank EXCEPT ![p] = -(m + 1)]
           b == nd[h].next
<1>1. own \in [Nodes -> Heads \cup {Null}] /\ m \in Nat /\ rank \in [Pages -> -m .. m]
  BY DEF Links
<1>2. to \in [Nodes -> Heads \cup {Null}] /\ to[p] = h /\ \A x \in Nodes \ {p} : to[x] = own[x]
  BY <1>1, Apart
<1>3. /\ m + 1 \in Nat /\ ra \in [Pages -> -(m + 1) .. m + 1] /\ ra[p] = -(m + 1)
      /\ \A x \in Pages \ {p} : ra[x] = rank[x] /\ ra[x] \in -m .. m
  BY <1>1
<1>4. own[h] = h /\ h # Null /\ h # p /\ h \in Nodes /\ b \in Nodes /\ own[b] = h /\ b # p
      /\ (b \in Pages => nd[b].prev = h)
  <2>1. own[h] = h /\ h # Null /\ h # p /\ h \in Nodes
    BY Apart DEF Links
  <2>2. b \in Nodes /\ own[b] = h /\ (b \in Pages => nd[b].prev = h)
    BY <2>1 DEF Links
  <2> QED
    BY <2>1, <2>2
<1> HIDE DEF to, ra
<1>6. \A x \in Heads : to[x] = x
  <2>1. \A x \in Heads : own[x] = x
    BY DEF Links
  <2> QED
    BY <1>2, <2>1, Apart
<1>7. ASSUME NEW x \in Nodes, to[x] # Null
      PROVE  /\ md[x].next \in Nodes /\ to[md[x].next] = to[x]
             /\ md[x].next \in Pages => md[md[x].next].prev = x
             /\ x \in Pages /\ md[x].next \in Pages => ra[x] < ra[md[x].next]
  <2>1. CASE x = p
    <3>1. md[x].next = b /\ to[b] = to[x]
      BY <1>2, <1>4, <2>1
    <3>2. b \in Pages => md[b].prev = x
      BY <1>4, <2>1
    <3>3. b \in Pages => ra[x] < ra[b]
      BY <1>1, <1>3, <1>4, <2>1
    <3> QED
      BY <1>4, <3>1, <3>2, <3>3
  <2>2. CASE x = h
    <3>1. md[x].next = p /\ to[p] = to[x]
      BY <1>2, <1>4, <2>2
    <3>2. md[p].prev = x /\ x \notin Pages /\ p \in Nodes
      BY <2>2, Apart
    <3> QED
      BY <3>1, <3>2
  <2>3. CASE x # p /\ x # h
    <3> DEFINE y == nd[x].next
    <3>1. own[x] = to[x] /\ own[x] # Null
      BY <1>2, <1>7, <2>3
    <3>2. md[x].next = y /\ y \in Nodes /\ own[y] = own[x] /\ (y \in Pages => nd[y].prev = x)
          /\ (x \in Pages /\ y \in Pages => rank[x] < rank[y])
      BY <2>3, <3>1 DEF Links
    <3>3. y # p
      BY <3>1, <3>2
    <3>4. to[y] = to[x]
      BY <1>2, <3>1, <3>2, <3>3
    <3>5. y \in Pages => md[y].prev = x
      BY <1>4, <2>3, <3>1, <3>2
    <3>6. x \in Pages /\ y \in Pages => ra[x] < ra[y]
      BY <1>3, <2>3, <3>2, <3>3
    <3> QED
      BY <3>2, <3>4, <3>5, <3>6
  <2> QED
    BY <2>1, <2>2, <2>3
<1>8. ASSUME NEW x \in Pages, to[x] # Null
      PROVE  /\ md[x].prev \in Nodes /\ to[md[x].prev] = to[x]
             /\ md[md[x].prev].next = x
  <2>0. x \in Nodes
    BY Apart
  <2>1. CASE x = p
    BY <1>2, <1>4, <2>1
  <2>2. CASE x # p /\ x = b
    <3>1. own[x] = to[x] /\ own[x] # Null
      BY <1>2, <1>8, <2>0, <2>2
    <3>2. md[x].prev = p
      BY <2>2, <3>1
    <3> QED
      BY <1>2, <1>4, <2>2, <3>1, <3>2, Apart
  <2>3. CASE x # p /\ x # b
    <3> DEFINE y == nd[x].prev
    <3>1. own[x] = to[x] /\ own[x] # Null
      BY <1>2, <1>8, <2>0, <2>3
    <3>2. md[x].prev = y /\ y \in Nodes /\ own[y] = own[x] /\ nd[y].next = x
      BY <2>3, <3>1 DEF Links
    <3>3. y # p /\ y # h
      BY <2>3, <3>1, <3>2
    <3>4. to[y] = to[x] /\ md[y].next = x
      BY <1>2, <3>1, <3>2, <3>3
    <3> QED
      BY <3>2, <3>4
  <2> QED
    BY <2>1, <2>2, <2>3
<1>9. Links(md, to, ra, m + 1)
  BY <1>2, <1>3, <1>6, <1>7, <1>8, Apart DEF Links
<1> QED
  BY <1>9 DEF to, ra

\* A page takes another one's place in its list.
LEMMA LinksReplace ==
    ASSUME NEW nd, NEW md, NEW own, NEW rank, NEW m, Links(nd, own, rank, m),
           NEW p \in Pages, own[p] # Null, NEW r \in Pages, own[r] = Null,
           md[r].next = nd[p].next, md[r].prev = nd[p].prev,
           \A x \in Nodes \ {p} : own[x] # Null =>
               md[x].next = IF x = nd[p].prev THEN r ELSE nd[x].next,
           \A x \in Pages \ {p} : own[x] # Null =>
               md[x].prev = IF x = nd[p].next THEN r ELSE nd[x].prev
    PROVE  Links(md, [own EXCEPT ![p] = Null, ![r] = own[p]], [rank EXCEPT ![r] = rank[p]], m)
<1> DEFINE to == [own EXCEPT ![p] = Null, ![r] = own[p]]
           ra == [rank EXCEPT ![r] = rank[p]]
           a == nd[p].prev
           b == nd[p].next
<1>1. own \in [Nodes -> Heads \cup {Null}] /\ m \in Nat /\ rank \in [Pages -> -m .. m] /\ p # r
  BY DEF Links
<1>2. to \in [Nodes -> Heads \cup {Null}] /\ to[p] = Null /\ to[r] = own[p]
      /\ \A x \in Nodes \ {p, r} : to[x] = own[x]
  BY <1>1, Apart
<1>3. /\ a \in Nodes /\ b \in Nodes /\ own[a] = own[p] /\ own[b] = own[p]
      /\ nd[a].next = p /\ (b \in Pages => nd[b].prev = p /\ rank[p] < rank[b])
  BY Apart DEF Links
<1>4. b # p /\ b # r /\ a # r
  BY <1>1, <1>3
<1>5. a # p
  BY <1>3, <1>4
<1>r. ra \in [Pages -> -m .. m] /\ ra[r] = rank[p] /\ \A x \in Pages \ {r} : ra[x] = rank[x]
  BY <1>1
<1> HIDE DEF to, ra
<1>6. \A h \in Heads : to[h] = h
  <2>1. \A h \in Heads : own[h] = h
    BY DEF Links
  <2> QED
    BY <1>2, <2>1, Apart
<1>7. ASSUME NEW x \in Nodes, to[x] # Null
      PROVE  /\ md[x].next \in Nodes /\ to[md[x].next] = to[x]
             /\ md[x].next \in Pages => md[md[x].next].prev = x
             /\ x \in Pages /\ md[x].next \in Pages => ra[x] < ra[md[x].next]
  <2>1. CASE x = r
    <3>1. md[x].next = b /\ to[b] = to[x]
      BY <1>2, <1>3, <1>4, <2>1
    <3>2. b \in Pages => md[b].prev = x /\ ra[x] < ra[b]
      BY <1>3, <1>4, <1>r, <2>1
    <3> QED
      BY <1>3, <3>1, <3>2
  <2>2. CASE x = a
    <3>1. md[x].next = r /\ to[r] = to[x] /\ r \in Nodes
      BY <1>2, <1>3, <1>4, <1>5, <2>2, Apart
    <3>2. md[r].prev = x
      BY <2>2
    <3>3. x \in Pages => ra[x] < ra[r]
      BY <1>3, <1>4, <1>r, <2>2 DEF Links
    <3> QED
      BY <3>1, <3>2, <3>3
  <2>3. CASE x # r /\ x # a
    <3> DEFINE y == nd[x].next
    <3>0. x # p /\ own[x] = to[x] /\ own[x] # Null
      BY <1>2, <1>7, <2>3
    <3>1. md[x].next = y /\ y \in Nodes /\ own[y] = own[x] /\ (y \in Pages => nd[y].prev = x)
          /\ (x \in Pages /\ y \in Pages => rank[x] < rank[y])
      BY <2>3, <3>0 DEF Links
    <3>2. y # p /\ y # r
      BY <2>3, <3>0, <3>1
    <3>3. to[y] = to[x]
      BY <1>2, <3>0, <3>1, <3>2
    <3>4. y \in Pages => md[y].prev = x
      <4> SUFFICES ASSUME y \in Pages PROVE md[y].prev = x
        OBVIOUS
      <4>1. y # b
        BY <1>3, <3>0, <3>1
      <4> QED
        BY <3>0, <3>1, <3>2, <4>1
    <3>5. x \in Pages /\ y \in Pages => ra[x] < ra[y]
      BY <1>r, <2>3, <3>1, <3>2
    <3> QED
      BY <3>1, <3>3, <3>4, <3>5
  <2> QED
    BY <2>1, <2>2, <2>3
<1>8. ASSUME NEW x \in Pages, to[x] # Null
      PROVE  /\ md[x].prev \in Nodes /\ to[md[x].prev] = to[x]
             /\ md[md[x].prev].next = x
  <2>0. x \in Nodes
    BY Apart
  <2>1. CASE x = r
    <3>1. md[a].next = r
      BY <1>3, <1>5
    <3> QED
      BY <1>2, <1>3, <1>4, <1>5, <2>1, <3>1
  <2>2. CASE x = b
    <3>1. own[x] # Null /\ x # p /\ md[x].prev = r
      BY <1>3, <1>4, <2>2
    <3> QED
      BY <1>2, <1>3, <1>4, <2>2, <3>1, Apart
  <2>3. CASE x # r /\ x # b
    <3> DEFINE y == nd[x].prev
    <3>0. x # p /\ own[x] = to[x] /\ own[x] # Null
      BY <1>2, <1>8, <2>0, <2>3
    <3>1. md[x].prev = y /\ y \in Nodes /\ own[y] = own[x] /\ nd[y].next = x
      BY <2>3, <3>0 DEF Links
    <3>2. y # p /\ y # r /\ y # a
      BY <1>3, <2>3, <3>0, <3>1
    <3>3. to[y] = to[x] /\ md[y].next = x
      BY <1>2, <3>0, <3>1, <3>2
    <3> QED
      BY <3>1, <3>3
  <2> QED
    BY <2>1, <2>2, <2>3
<1>9. Links(md, to, ra, m)
  BY <1>1, <1>2, <1>r, <1>6, <1>7, <1>8, Apart DEF Links
<1> QED
  BY <1>9 DEF to, ra

\* The head of the list a page is in: that of the free runs, or of its chunks' size.
Kind(n) == IF n.next = Null THEN Null
           ELSE IF n.type = "page" THEN FreeHead ELSE SlotHead(n.slab - MinShift)

\* Pages in B are being rearranged, and in no list.
Owner(nd, B, x) == IF x \in Heads THEN x ELSE IF x \in B THEN Null ELSE Kind(nd[x])
Own(nd, B) == [x \in Nodes |-> Owner(nd, B, x)]

Lists(nd, B) == \E m, rank : Links(nd, Own(nd, B), rank, m)

LEMMA OwnIs == ASSUME NEW nd, NEW B, NEW x \in Nodes PROVE Own(nd, B)[x] = Owner(nd, B, x)
BY DEF Own

\* What is known of the neighbours of a listed node.
LEMMA ListsKnow ==
    ASSUME NEW nd, NEW B, Lists(nd, B)
    PROVE  /\ \A x \in Nodes : Owner(nd, B, x) # Null =>
                /\ nd[x].next \in Nodes /\ Owner(nd, B, nd[x].next) = Owner(nd, B, x)
                /\ Owner(nd, B, x) \in Heads
                /\ nd[x].next \in Pages => nd[nd[x].next].prev = x
           /\ \A x \in Pages : Owner(nd, B, x) # Null =>
                /\ nd[x].prev \in Nodes /\ Owner(nd, B, nd[x].prev) = Owner(nd, B, x)
                /\ nd[nd[x].prev].next = x
                /\ nd[x].next # x /\ nd[x].prev # x
<1>1. PICK m, rank : Links(nd, Own(nd, B), rank, m)
  BY DEF Lists
<1> DEFINE own == Own(nd, B)
<1>2. \A x \in Nodes : own[x] = Owner(nd, B, x)
  BY OwnIs
<1>4. \A x \in Pages : x \in Nodes
  BY Apart
<1> HIDE DEF own
<1>3. Links(nd, own, rank, m)
  BY <1>1 DEF own
<1>5. own \in [Nodes -> Heads \cup {Null}] /\ rank \in [Pages -> -m .. m] /\ m \in Nat
  BY <1>3 DEF Links
<1>6. ASSUME NEW x \in Nodes, Owner(nd, B, x) # Null
      PROVE  /\ nd[x].next \in Nodes /\ Owner(nd, B, nd[x].next) = Owner(nd, B, x)
             /\ Owner(nd, B, x) \in Heads
             /\ nd[x].next \in Pages => nd[nd[x].next].prev = x
  <2>1. own[x] # Null /\ own[x] \in Heads
    BY <1>2, <1>5, <1>6
  <2>2. nd[x].next \in Nodes /\ own[nd[x].next] = own[x]
        /\ (nd[x].next \in Pages => nd[nd[x].next].prev = x)
    BY <1>3, <2>1 DEF Links
  <2> QED
    BY <1>2, <2>1, <2>2
<1>7. ASSUME NEW x \in Pages, Owner(nd, B, x) # Null
      PROVE  /\ nd[x].prev \in Nodes /\ Owner(nd, B, nd[x].prev) = Owner(nd, B, x)
             /\ nd[nd[x].prev].next = x
             /\ nd[x].next # x /\ nd[x].prev # x
  <2>1. own[x] # Null
    BY <1>2, <1>4, <1>7
  <2>2. nd[x].prev \in Nodes /\ own[nd[x].prev] = own[x] /\ nd[nd[x].prev].next = x
        /\ (nd[x].next \in Pages => rank[x] < rank[nd[x].next])
    BY <1>3, <2>1 DEF Links
  <2>3. nd[x].next # x
    BY <1>5, <2>2
  <2> QED
    BY <1>2, <1>4, <2>2, <2>3
<1> QED
  BY <1>6, <1>7

LEMMA ListsKeep ==
    ASSUME NEW nd, NEW md, NEW B, NEW C, Lists(nd, B),
           \A x \in Pages : Owner(md, C, x) = Owner(nd, B, x),
           \A x \in Nodes : Owner(nd, B, x) # Null => md[x].next = nd[x].next,
           \A x \in Pages : Owner(nd, B, x) # Null => md[x].prev = nd[x].prev
    PROVE  Lists(md, C)
<1>1. PICK m, rank : Links(nd, Own(nd, B), rank, m)
  BY DEF Lists
<1>2. Own(md, C) = Own(nd, B)
  <2>1. \A x \in Nodes : Owner(md, C, x) = Owner(nd, B, x)
    BY Apart DEF Owner
  <2> QED
    BY <2>1 DEF Own
<1>3. \A x \in Nodes : Own(nd, B)[x] = Owner(nd, B, x)
  BY OwnIs
<1>4. Links(md, Own(nd, B), rank, m)
  BY <1>1, <1>3, Apart, LinksSame
<1> QED
  BY <1>2, <1>4 DEF Lists

LEMMA ListsUnlink ==
    ASSUME NEW nd, NEW md, NEW B, NEW C, Lists(nd, B), NEW p \in Pages,
           Owner(nd, B, p) # Null, Owner(md, C, p) = Null,
           \A x \in Pages \ {p} : Owner(md, C, x) = Owner(nd, B, x),
           \A x \in Nodes \ {p} : Owner(nd, B, x) # Null =>
               md[x].next = IF x = nd[p].prev THEN nd[p].next ELSE nd[x].next,
           \A x \in Pages \ {p} : Owner(nd, B, x) # Null =>
               md[x].prev = IF x = nd[p].next THEN nd[p].prev ELSE nd[x].prev
    PROVE  Lists(md, C)
<1>1. PICK m, rank : Links(nd, Own(nd, B), rank, m)
  BY DEF Lists
<1> DEFINE own == Own(nd, B)
<1>3. \A x \in Nodes : own[x] = Owner(nd, B, x)
  BY OwnIs
<1>2. Own(md, C) = [own EXCEPT ![p] = Null]
  <2>1. \A x \in Nodes \ {p} : Owner(md, C, x) = Owner(nd, B, x)
    BY Apart DEF Owner
  <2> QED
    BY <2>1, Apart DEF Own
<1>0. Links(nd, own, rank, m)
  BY <1>1
<1> HIDE DEF own
<1>4. Links(md, [own EXCEPT ![p] = Null], rank, m)
  <2>1. \A x \in Pages : x \in Nodes
    BY Apart
  <2>2. own[p] # Null
    BY <1>3, <2>1
  <2>3. \A x \in Nodes \ {p} : own[x] # Null =>
            md[x].next = IF x = nd[p].prev THEN nd[p].next ELSE nd[x].next
    BY <1>3
  <2>4. \A x \in Pages \ {p} : own[x] # Null =>
            md[x].prev = IF x = nd[p].next THEN nd[p].prev ELSE nd[x].prev
    BY <1>3, <2>1
  <2> QED
    BY <1>0, <2>2, <2>3, <2>4, LinksUnlink
<1> QED
  BY <1>2, <1>4 DEF Lists

LEMMA ListsInsert ==
    ASSUME NEW nd, NEW md, NEW B, NEW C, Lists(nd, B), NEW p \in Pages, NEW h \in Heads,
           Owner(nd, B, p) = Null, Owner(md, C, p) = h,
           \A x \in Pages \ {p} : Owner(md, C, x) = Owner(nd, B, x),
           md[p].next = nd[h].next, md[p].prev = h,
           \A x \in Nodes : Owner(nd, B, x) # Null => md[x].next = IF x = h THEN p ELSE nd[x].next,
           \A x \in Pages : Owner(nd, B, x) # Null =>
               md[x].prev = IF x = nd[h].next THEN p ELSE nd[x].prev
    PROVE  Lists(md, C)
<1>1. PICK m, rank : Links(nd, Own(nd, B), rank, m)
  BY DEF Lists
<1> DEFINE own == Own(nd, B)
<1>3. \A x \in Nodes : own[x] = Owner(nd, B, x)
  BY OwnIs
<1>2. Own(md, C) = [own EXCEPT ![p] = h]
  <2>1. \A x \in Nodes \ {p} : Owner(md, C, x) = Owner(nd, B, x)
    BY Apart DEF Owner
  <2> QED
    BY <2>1, Apart DEF Own
<1>0. Links(nd, own, rank, m)
  BY <1>1
<1> HIDE DEF own
<1>4. Links(md, [own EXCEPT ![p] = h], [rank EXCEPT ![p] = -(m + 1)], m + 1)
  BY <1>0, <1>3, Apart, LinksInsert
<1> QED
  BY <1>2, <1>4 DEF Lists

LEMMA ListsReplace ==
    ASSUME NEW nd, NEW md, NEW B, NEW C, Lists(nd, B), NEW p \in Pages, NEW r \in Pages,
           Owner(nd, B, p) # Null, Owner(nd, B, r) = Null,
           Owner(md, C, p) = Null, Owner(md, C, r) = Owner(nd, B, p),
           \A x \in Pages \ {p, r} : Owner(md, C, x) = Owner(nd, B, x),
           md[r].next = nd[p].next, md[r].prev = nd[p].prev,
           \A x \in Nodes \ {p} : Owner(nd, B, x) # Null =>
               md[x].next = IF x = nd[p].prev THEN r ELSE nd[x].next,
           \A x \in Pages \ {p} : Owner(nd, B, x) # Null =>
               md[x].prev = IF x = nd[p].next THEN r ELSE nd[x].prev
    PROVE  Lists(md, C)
<1>1. PICK m, rank : Links(nd, Own(nd, B), rank, m)
  BY DEF Lists
<1> DEFINE own == Own(nd, B)
<1>3. \A x \in Nodes : own[x] = Owner(nd, B, x)
  BY OwnIs
<1>2. Own(md, C) = [own EXCEPT ![p] = Null, ![r] = own[p]]
  <2>1. \A x \in Nodes \ {p, r} : Owner(md, C, x) = Owner(nd, B, x)
    BY Apart DEF Owner
  <2>2. p \in Nodes /\ r \in Nodes /\ p # r
    BY Apart
  <2>3. DOMAIN own = Nodes /\ own[p] = Owner(nd, B, p)
    BY <1>3, <2>2 DEF Own
  <2>4. \A x \in Nodes : [own EXCEPT ![p] = Null, ![r] = own[p]][x] = Owner(md, C, x)
    <3> HIDE DEF own
    <3> QED
      BY <1>3, <2>1, <2>2, <2>3
  <2>5. [own EXCEPT ![p] = Null, ![r] = own[p]] = [x \in Nodes |-> Owner(md, C, x)]
    <3> HIDE DEF own
    <3> QED
      BY <2>3, <2>4
  <2> QED
    BY <2>5 DEF Own
<1>0. Links(nd, own, rank, m)
  BY <1>1
<1> HIDE DEF own
<1>4. Links(md, [own EXCEPT ![p] = Null, ![r] = own[p]], [rank EXCEPT ![r] = rank[p]], m)
  <2>1. \A x \in Pages : x \in Nodes
    BY Apart
  <2>2. own[p] # Null /\ own[r] = Null
    BY <1>3, <2>1
  <2>3. \A x \in Nodes \ {p} : own[x] # Null =>
            md[x].next = IF x = nd[p].prev THEN r ELSE nd[x].next
    BY <1>3
  <2>4. \A x \in Pages \ {p} : own[x] # Null =>
            md[x].prev = IF x = nd[p].next THEN r ELSE nd[x].prev
    BY <1>3, <2>1
  <2> QED
    BY <1>0, <2>2, <2>3, <2>4, LinksReplace
<1> QED
  BY <1>2, <1>4 DEF Lists

----------------------------------------------------------------------------
(* The pages: free runs, runs in use and pages cut into chunks.            *)

Node == [slab : Int, next : Int, prev : Int, type : {"page", "small", "exact", "big"},
         taken : SUBSET Nat]

Typed(nd) == nd \in [Nodes -> Node]

IsFree(nd, p) == nd[p].type = "page" /\ nd[p].next # Null
IsBusy(nd, p) == nd[p].type = "page" /\ nd[p].next = Null /\ nd[p].slab > PageStart
IsCut(nd, p) == nd[p].type # "page"

First(nd, p) == IsFree(nd, p) \/ IsBusy(nd, p) \/ IsCut(nd, p)

Long(nd, p) == IF IsCut(nd, p) THEN 1
               ELSE IF IsFree(nd, p) THEN nd[p].slab ELSE nd[p].slab - PageStart

Span(nd, p) == p .. p + Long(nd, p) - 1

\* What a page behind the first one of its run holds.
Inner(nd, i, free) == nd[i].type = "page" /\ nd[i].next = Null /\ nd[i].slab = IF free THEN PageFree ELSE PageBusy

CutRight(n) == /\ n.slab \in MinShift .. PageShift - 1 /\ n.type = Type(n.slab)
               /\ Header(n.slab) \subseteq n.taken /\ n.taken \subseteq Chunks(n.slab)
               /\ n.taken # Header(n.slab)
               /\ n.next = Null <=> n.taken = Chunks(n.slab)

Proper(nd, p) ==
    /\ Long(nd, p) \in Nat \ {0} /\ site.pages \in Nat /\ p + Long(nd, p) <= site.pages
    /\ \A i \in p + 1 .. p + Long(nd, p) - 1 : Inner(nd, i, IsFree(nd, p))
    /\ IsFree(nd, p) /\ Long(nd, p) > 1 /\ p + Long(nd, p) < site.pages =>
          nd[p + Long(nd, p) - 1].prev = p
    /\ IsCut(nd, p) => CutRight(nd[p])

Laid(nd, B) ==
    /\ \A p \in Pages \ B : First(nd, p) => Proper(nd, p) /\ Span(nd, p) \cap B = {}
    /\ \A i \in Pages \ B : \E p \in Pages \ B : First(nd, p) /\ i \in Span(nd, p)

Joined(nd, B) == \A p, q \in Pages \ B : IsFree(nd, p) /\ q = p + Long(nd, p) => ~IsFree(nd, q)

\* Two states of a page that differ in its neighbours at most.
Alike(n, m) == /\ m.slab = n.slab /\ m.type = n.type /\ m.taken = n.taken
               /\ m.next = Null <=> n.next = Null
               /\ n.next = Null => m.prev = n.prev

LEMMA PagesAre ==
    site.pages \in Nat => /\ \A p \in Pages : p \in Nat /\ p < site.pages
                          /\ \A i \in Nat : i < site.pages => i \in Pages
BY DEF Pages

LEMMA StartIs == PageStart \in Nat
BY PowDouble DEF PageStart

LEMMA Shape ==
    ASSUME NEW nd, NEW md, NEW p, Alike(nd[p], md[p])
    PROVE  /\ IsFree(md, p) <=> IsFree(nd, p)
           /\ IsBusy(md, p) <=> IsBusy(nd, p)
           /\ IsCut(md, p) <=> IsCut(nd, p)
           /\ First(md, p) <=> First(nd, p)
           /\ Long(md, p) = Long(nd, p) /\ Span(md, p) = Span(nd, p)
BY DEF Alike, IsFree, IsBusy, IsCut, First, Long, Span

LEMMA Shapes ==
    ASSUME NEW nd, NEW md, NEW S, \A x \in S : Alike(nd[x], md[x])
    PROVE  \A p \in S : /\ IsFree(md, p) <=> IsFree(nd, p)
                        /\ IsBusy(md, p) <=> IsBusy(nd, p)
                        /\ IsCut(md, p) <=> IsCut(nd, p)
                        /\ First(md, p) <=> First(nd, p)
                        /\ Long(md, p) = Long(nd, p) /\ Span(md, p) = Span(nd, p)
BY Shape

LEMMA InnerIs ==
    ASSUME NEW nd, NEW i, NEW free, Inner(nd, i, free)
    PROVE  ~First(nd, i)
BY StartIs DEF Inner, First, IsFree, IsBusy, IsCut, PageFree, PageBusy

LEMMA SpanIs ==
    ASSUME NEW nd, NEW p \in Pages, Proper(nd, p)
    PROVE  /\ p \in Span(nd, p) /\ Span(nd, p) \subseteq Pages
           /\ \A i \in Span(nd, p) \ {p} : Inner(nd, i, IsFree(nd, p)) /\ ~First(nd, i)
           /\ Long(nd, p) \in Nat \ {0} /\ p + Long(nd, p) - 1 \in Span(nd, p)
<1>1. Long(nd, p) \in Nat \ {0} /\ site.pages \in Nat /\ p + Long(nd, p) <= site.pages
      /\ \A i \in p + 1 .. p + Long(nd, p) - 1 : Inner(nd, i, IsFree(nd, p))
  BY DEF Proper
<1>2. p \in Span(nd, p) /\ Span(nd, p) \subseteq Pages /\ p + Long(nd, p) - 1 \in Span(nd, p)
  BY <1>1, PagesAre DEF Span
<1>3. ASSUME NEW i \in Span(nd, p) \ {p} PROVE Inner(nd, i, IsFree(nd, p)) /\ ~First(nd, i)
  <2>1. i \in p + 1 .. p + Long(nd, p) - 1
    BY <1>1, PagesAre DEF Span
  <2> QED
    BY <1>1, <2>1, InnerIs
<1> QED
  BY <1>1, <1>2, <1>3

\* Runs do not overlap.
LEMMA Disjoint ==
    ASSUME NEW nd, NEW p \in Pages, NEW q \in Pages, p # q,
           First(nd, p), First(nd, q), Proper(nd, p), Proper(nd, q)
    PROVE  Span(nd, p) \cap Span(nd, q) = {}
<1>1. p \notin Span(nd, q) /\ q \notin Span(nd, p)
  BY SpanIs
<1>2. p \in Nat /\ q \in Nat /\ Long(nd, p) \in Nat \ {0} /\ Long(nd, q) \in Nat \ {0}
  BY PagesAre, SpanIs DEF Proper
<1> QED
  BY <1>1, <1>2 DEF Span

LEMMA ProperSame ==
    ASSUME NEW nd, NEW md, NEW p \in Pages, Proper(nd, p),
           \A x \in Span(nd, p) : Alike(nd[x], md[x])
    PROVE  Proper(md, p)
<1>1. p \in Span(nd, p) /\ Long(nd, p) \in Nat \ {0} /\ p \in Nat
      /\ p + Long(nd, p) - 1 \in Span(nd, p)
  BY SpanIs, PagesAre DEF Proper
<1>2. /\ IsFree(md, p) <=> IsFree(nd, p)
      /\ IsCut(md, p) <=> IsCut(nd, p)
      /\ Long(md, p) = Long(nd, p)
  BY <1>1, Shape
<1>3. \A i \in p + 1 .. p + Long(nd, p) - 1 : i \in Span(nd, p) /\ Inner(nd, i, IsFree(nd, p))
  BY <1>1 DEF Proper, Span
<1>4. \A i \in p + 1 .. p + Long(md, p) - 1 : Inner(md, i, IsFree(md, p))
  BY <1>2, <1>3 DEF Inner, Alike
<1>5. IsFree(md, p) /\ Long(md, p) > 1 /\ p + Long(md, p) < site.pages =>
          md[p + Long(md, p) - 1].prev = p
  <2> SUFFICES ASSUME IsFree(md, p), Long(md, p) > 1, p + Long(md, p) < site.pages
               PROVE  md[p + Long(md, p) - 1].prev = p
    OBVIOUS
  <2> DEFINE l == p + Long(nd, p) - 1
  <2>1. l \in p + 1 .. p + Long(nd, p) - 1 /\ nd[l].prev = p
    BY <1>1, <1>2 DEF Proper
  <2> HIDE DEF l
  <2>2. Alike(nd[l], md[l]) /\ nd[l].next = Null
    BY <1>3, <2>1 DEF Inner
  <2>3. md[l].prev = p
    BY <2>1, <2>2 DEF Alike
  <2> QED
    BY <1>2, <2>3 DEF l
<1>6. IsCut(md, p) => CutRight(md[p])
  <2> SUFFICES ASSUME IsCut(md, p) PROVE CutRight(md[p])
    OBVIOUS
  <2>1. CutRight(nd[p]) /\ Alike(nd[p], md[p])
    BY <1>1, <1>2 DEF Proper
  <2> QED
    BY <2>1 DEF CutRight, Alike
<1> QED
  BY <1>2, <1>4, <1>5, <1>6 DEF Proper

\* More pages to be rearranged: those of one run.
LEMMA Grow ==
    ASSUME NEW nd, NEW md, NEW B, NEW p \in Pages \ B, Laid(nd, B), Joined(nd, B), First(nd, p),
           \A x \in Pages \ (B \cup Span(nd, p)) : Alike(nd[x], md[x])
    PROVE  Laid(md, B \cup Span(nd, p)) /\ Joined(md, B \cup Span(nd, p))
<1> DEFINE C == B \cup Span(nd, p)
<1>1. Proper(nd, p) /\ Span(nd, p) \cap B = {}
  BY DEF Laid
<1>2. \A x \in Pages \ C : /\ IsFree(md, x) <=> IsFree(nd, x)
                           /\ First(md, x) <=> First(nd, x)
                           /\ Long(md, x) = Long(nd, x) /\ Span(md, x) = Span(nd, x)
  BY Shape
<1>3. ASSUME NEW q \in Pages \ C, First(md, q)
      PROVE  Proper(md, q) /\ Span(md, q) \cap C = {}
  <2>1. First(nd, q) /\ Proper(nd, q) /\ Span(nd, q) \cap B = {}
    BY <1>2, <1>3 DEF Laid
  <2>2. q # p
    BY <1>1, SpanIs
  <2>3. Span(nd, q) \cap Span(nd, p) = {}
    BY <1>1, <2>1, <2>2, Disjoint
  <2>4. \A x \in Span(nd, q) : Alike(nd[x], md[x])
    BY <2>1, <2>3, SpanIs
  <2> QED
    BY <1>2, <2>1, <2>3, <2>4, ProperSame
<1>4. ASSUME NEW i \in Pages \ C
      PROVE  \E q \in Pages \ C : First(md, q) /\ i \in Span(md, q)
  <2>1. PICK q \in Pages \ B : First(nd, q) /\ i \in Span(nd, q)
    BY DEF Laid
  <2>2. q \notin Span(nd, p)
    <3>1. q # p
      BY <2>1
    <3> QED
      BY <1>1, <2>1, <3>1, SpanIs
  <2> QED
    BY <1>2, <2>1, <2>2
<1>5. Joined(md, C)
  BY <1>2 DEF Joined
<1> HIDE DEF C
<1>6. Laid(md, C)
  BY <1>3, <1>4 DEF Laid
<1> QED
  BY <1>5, <1>6 DEF C

\* A run that was rearranged takes its place.
LEMMA Settle ==
    ASSUME NEW nd, NEW md, NEW B, NEW C, B \subseteq Pages, C \subseteq B,
           NEW p \in B, Laid(nd, B), Joined(nd, B),
           First(md, p), Proper(md, p), Span(md, p) = B \ C,
           \A x \in Pages \ B : Alike(nd[x], md[x]),
           IsFree(md, p) => \A q \in Pages \ B : IsFree(nd, q) =>
                               q # p + Long(md, p) /\ p # q + Long(nd, q)
    PROVE  Laid(md, C) /\ Joined(md, C)
<1>1. \A x \in Pages \ B : /\ IsFree(md, x) <=> IsFree(nd, x)
                           /\ First(md, x) <=> First(nd, x)
                           /\ Long(md, x) = Long(nd, x) /\ Span(md, x) = Span(nd, x)
  BY Shape
<1>2. \A x \in Pages \ C : x \in Pages \ B \/ x \in Span(md, p)
  OBVIOUS
<1>3. p \in Span(md, p) /\ \A x \in Span(md, p) \ {p} : ~First(md, x)
  BY SpanIs
<1>4. ASSUME NEW q \in Pages \ C, First(md, q)
      PROVE  Proper(md, q) /\ Span(md, q) \cap C = {}
  <2>1. CASE q = p
    BY <2>1
  <2>2. CASE q # p
    <3>1. q \in Pages \ B
      BY <1>2, <1>3, <1>4, <2>2
    <3>2. First(nd, q) /\ Proper(nd, q) /\ Span(nd, q) \cap B = {}
      BY <1>1, <1>4, <3>1 DEF Laid
    <3>3. \A x \in Span(nd, q) : Alike(nd[x], md[x])
      BY <3>2, SpanIs
    <3> QED
      BY <1>1, <3>1, <3>2, <3>3, ProperSame
  <2> QED
    BY <2>1, <2>2
<1>5. ASSUME NEW i \in Pages \ C
      PROVE  \E q \in Pages \ C : First(md, q) /\ i \in Span(md, q)
  <2>1. CASE i \in Span(md, p)
    <3>1. p \in Pages \ C
      BY <1>3
    <3> QED
      BY <2>1, <3>1
  <2>2. CASE i \in Pages \ B
    <3>1. PICK q \in Pages \ B : First(nd, q) /\ i \in Span(nd, q)
      BY <2>2 DEF Laid
    <3> QED
      BY <1>1, <3>1
  <2> QED
    BY <1>2, <2>1, <2>2
<1>6. Joined(md, C)
  <2> SUFFICES ASSUME NEW q \in Pages \ C, NEW r \in Pages \ C, IsFree(md, q), r = q + Long(md, q),
                      IsFree(md, r)
               PROVE  FALSE
    BY DEF Joined
  <2>1. First(md, q) /\ First(md, r)
    BY DEF First
  <2>2. (q = p \/ q \in Pages \ B) /\ (r = p \/ r \in Pages \ B)
    BY <1>2, <1>3, <2>1
  <2>3. CASE q = p
    <3>1. r # p
      <4>1. p \in Nat /\ Long(md, p) \in Nat \ {0}
        BY PagesAre DEF Proper
      <4> QED
        BY <2>3, <4>1
    <3> QED
      BY <1>1, <2>2, <2>3, <3>1
  <2>4. CASE q # p
    BY <1>1, <2>2, <2>4 DEF Joined
  <2> QED
    BY <2>3, <2>4
<1> QED
  BY <1>4, <1>5, <1>6 DEF Laid

----------------------------------------------------------------------------
(* Runs are taken from the free ones                                       *)

Sound(nd, B) == /\ site.pages \in Nat /\ Typed(nd)
                /\ Lists(nd, B) /\ Laid(nd, B) /\ Joined(nd, B)

\* Nodes that differ in their links at most.
Same(n, m) == m.slab = n.slab /\ m.type = n.type /\ m.taken = n.taken

LEMMA NodeIs ==
    ASSUME NEW nd, Typed(nd), NEW x \in Nodes
    PROVE  /\ nd[x] \in Node /\ nd[x].slab \in Int /\ nd[x].next \in Int /\ nd[x].prev \in Int
           /\ nd[x].taken \subseteq Nat
BY DEF Typed, Node

LEMMA NodesAre ==
    site.pages \in Nat => \A x \in Nodes : x \in Int
<1>1. \A s \in Slots : s \in Int
  BY Sizes DEF Slots
<1> QED
  BY <1>1, PagesAre DEF Nodes, Heads, FreeHead, SlotHead

LEMMA UnlinkedIs ==
    ASSUME NEW nd, site.pages \in Nat, Typed(nd), NEW p \in Pages,
           nd[p].prev \in Nodes, nd[p].next \in Nodes
    PROVE  /\ Typed(Unlinked(nd, p))
           /\ \A x \in Nodes :
                 /\ Same(nd[x], Unlinked(nd, p)[x])
                 /\ Unlinked(nd, p)[x].next = IF x = nd[p].prev THEN nd[p].next ELSE nd[x].next
                 /\ Unlinked(nd, p)[x].prev = IF x = nd[p].next THEN nd[p].prev ELSE nd[x].prev
<1> DEFINE a == nd[p].prev
           b == nd[p].next
           ud == [nd EXCEPT ![a].next = b, ![b].prev = a]
<1>1. Unlinked(nd, p) = ud
  BY DEF Unlinked
<1>2. a \in Int /\ b \in Int /\ a \in Nodes /\ b \in Nodes
  BY NodesAre
<1> HIDE DEF a, b
<1>3. Typed(ud)
  BY <1>2 DEF Typed, Node
<1>4. \A x \in Nodes : /\ Same(nd[x], ud[x])
                       /\ ud[x].next = IF x = a THEN b ELSE nd[x].next
                       /\ ud[x].prev = IF x = b THEN a ELSE nd[x].prev
  BY <1>2 DEF Typed, Node, Same
<1> HIDE DEF ud
<1> QED
  BY <1>1, <1>3, <1>4 DEF a, b

\* A page of a sound state that is in a list.
LEMMA FreeIs ==
    ASSUME NEW nd, NEW B, B \subseteq Pages, Sound(nd, B), NEW p \in Pages \ B, IsFree(nd, p)
    PROVE  /\ Owner(nd, B, p) = FreeHead
           /\ nd[p].prev \in Nodes /\ nd[p].next \in Nodes
           /\ Owner(nd, B, nd[p].prev) = FreeHead /\ Owner(nd, B, nd[p].next) = FreeHead
           /\ nd[p].prev # p /\ nd[p].next # p
           /\ nd[p].prev # Null /\ nd[p].next # Null
           /\ nd[p].prev \notin B \cup Span(nd, p) /\ nd[p].next \notin B \cup Span(nd, p)
           /\ First(nd, p) /\ Proper(nd, p) /\ Span(nd, p) \cap B = {}
           /\ Long(nd, p) = nd[p].slab /\ nd[p].slab \in Nat \ {0}
<1>0. p \in Nodes /\ p \notin Heads /\ FreeHead # Null
  BY Apart DEF FreeHead, Null
<1>1. Owner(nd, B, p) = FreeHead
  BY <1>0 DEF Owner, Kind, IsFree
<1>2. /\ nd[p].prev \in Nodes /\ nd[p].next \in Nodes
      /\ Owner(nd, B, nd[p].prev) = FreeHead /\ Owner(nd, B, nd[p].next) = FreeHead
      /\ nd[p].prev # p /\ nd[p].next # p
  BY <1>0, <1>1, ListsKnow DEF Sound
<1>3. First(nd, p) /\ Proper(nd, p) /\ Span(nd, p) \cap B = {}
  BY DEF First, Sound, Laid
<1>4. Long(nd, p) = nd[p].slab /\ nd[p].slab \in Nat \ {0}
  BY <1>3 DEF Long, IsFree, IsCut, Proper
<1>5. ASSUME NEW x \in B \cup Span(nd, p), x # p PROVE Owner(nd, B, x) # FreeHead
  <2>1. x \in Pages /\ x \notin Heads
    BY <1>3, SpanIs, Apart
  <2>2. x \in B \/ nd[x].next = Null
    BY <1>3, <1>5, SpanIs DEF Inner
  <2> QED
    BY <1>0, <2>1, <2>2 DEF Owner, Kind
<1> QED
  BY <1>0, <1>1, <1>2, <1>3, <1>4, <1>5, Apart

LEMMA SplitIs ==
    ASSUME NEW nd, Sound(nd, {}), NEW p \in Pages, IsFree(nd, p), NEW n \in Nat \ {0}, n < Long(nd, p)
    PROVE  LET md == Split(nd, p, n)
               r == p + n
               last == p + Long(nd, p) - 1
               a == nd[p].prev
               b == nd[p].next
           IN /\ Typed(md)
              /\ \A x \in Nodes \ {r} :
                    /\ Same(nd[x], md[x])
                    /\ md[x].next = IF x = a THEN r ELSE nd[x].next
                    /\ x # last => md[x].prev = IF x = b THEN r ELSE nd[x].prev
              /\ md[r].type = nd[r].type /\ md[r].slab = Long(nd, p) - n
              /\ md[r].next = b /\ md[r].prev = a
              /\ r # last => md[last].prev = r
<1> DEFINE r == p + n
           last == p + Long(nd, p) - 1
           a == nd[p].prev
           b == nd[p].next
           k == nd[p].slab
           tagged == [nd EXCEPT ![last].prev = r]
           md == [tagged EXCEPT ![r].slab = k - n, ![r].next = b, ![r].prev = a, ![a].next = r, ![b].prev = r]
<1>1. /\ Long(nd, p) = k /\ k \in Nat \ {0} /\ a \in Nodes /\ b \in Nodes
      /\ a \notin Span(nd, p) /\ b \notin Span(nd, p)
      /\ Proper(nd, p) /\ Span(nd, p) \subseteq Pages
  BY FreeIs, SpanIs
<1>2. p \in Nat /\ site.pages \in Nat
  BY PagesAre DEF Sound
<1>3. r \in Span(nd, p) /\ last \in Span(nd, p) /\ r \in Int /\ last \in Int /\ k - n \in Int
  BY <1>1, <1>2 DEF Span
<1>4. r \in Nodes /\ last \in Nodes /\ r # a /\ r # b /\ last # a /\ last # b
  BY <1>1, <1>3, Apart
<1>5. Split(nd, p, n) = md
  <2>1. p + nd[p].slab - 1 = last
    BY <1>1
  <2> QED
    BY <2>1 DEF Split
<1>6. a \in Int /\ b \in Int
  BY <1>1, <1>2, NodesAre
<1>7. Typed(nd)
  BY DEF Sound
<1>k. Long(nd, p) - n = k - n
  BY <1>1
<1> HIDE DEF a, b, r, last, k
<1>8. Typed(tagged) /\ \A x \in Nodes : /\ Same(nd[x], tagged[x]) /\ tagged[x].next = nd[x].next
                                        /\ tagged[x].prev = IF x = last THEN r ELSE nd[x].prev
  BY <1>3, <1>4, <1>7 DEF Typed, Node, Same
<1> HIDE DEF tagged
<1>9. Typed(md)
  BY <1>1, <1>3, <1>4, <1>6, <1>8 DEF Typed, Node
<1>10. \A x \in Nodes \ {r} :
           /\ Same(tagged[x], md[x])
           /\ md[x].next = IF x = a THEN r ELSE tagged[x].next
           /\ md[x].prev = IF x = b THEN r ELSE tagged[x].prev
  BY <1>1, <1>4, <1>8 DEF Typed, Node, Same
<1>11. md[r].type = tagged[r].type /\ md[r].slab = k - n /\ md[r].next = b /\ md[r].prev = a
  <2>1. DOMAIN tagged = Nodes /\ tagged[r] \in Node
    BY <1>4, <1>8 DEF Typed
  <2>2. md[r] = [tagged[r] EXCEPT !.slab = k - n, !.next = b, !.prev = a]
    BY <1>4, <2>1
  <2> QED
    BY <2>1, <2>2 DEF Node
<1> HIDE DEF md
<1>12. \A x \in Nodes \ {r} :
           /\ Same(nd[x], md[x])
           /\ md[x].next = IF x = a THEN r ELSE nd[x].next
           /\ x # last => md[x].prev = IF x = b THEN r ELSE nd[x].prev
  BY <1>8, <1>10 DEF Same
<1>13. md[r].type = nd[r].type
  BY <1>4, <1>8, <1>11 DEF Same
<1>14. r # last => md[last].prev = r
  BY <1>4, <1>8, <1>10
<1>15. Typed(md) /\ md[r].slab = Long(nd, p) - n /\ md[r].next = b /\ md[r].prev = a
  BY <1>9, <1>11, <1>k
<1> QED
  BY <1>5, <1>12, <1>13, <1>14, <1>15 DEF a, b, r, last

LEMMA AllocFields ==
    ASSUME NEW nd, Sound(nd, {}), NEW p \in Pages, IsFree(nd, p), NEW n \in Nat \ {0}, n <= Long(nd, p)
    PROVE  LET md == AllocPages(nd, p, n)
               r == p + n
               k == Long(nd, p)
               a == nd[p].prev
               b == nd[p].next
           IN /\ Typed(md)
              /\ \A x \in Nodes \ Span(nd, p) :
                    /\ Same(nd[x], md[x])
                    /\ md[x].next = IF x = a THEN (IF n < k THEN r ELSE b) ELSE nd[x].next
                    /\ md[x].prev = IF x = b THEN (IF n < k THEN r ELSE a) ELSE nd[x].prev
              /\ md[p].type = "page" /\ md[p].next = Null /\ md[p].slab = PageStart + n
              /\ \A i \in p + 1 .. p + n - 1 : Inner(md, i, FALSE)
              /\ n < k => /\ md[r].type = "page" /\ md[r].slab = k - n
                          /\ md[r].next = b /\ md[r].prev = a
                          /\ \A i \in r + 1 .. p + k - 1 : Inner(md, i, TRUE)
                          /\ r # p + k - 1 => md[p + k - 1].prev = r
<1> DEFINE r == p + n
           k == Long(nd, p)
           a == nd[p].prev
           b == nd[p].next
           cut == IF k > n THEN Split(nd, p, n) ELSE Unlinked(nd, p)
           md == [i \in DOMAIN nd |-> IF i = p THEN [Blank EXCEPT !.slab = PageStart + n]
                                      ELSE IF i \in p + 1 .. p + n - 1 THEN [Blank EXCEPT !.slab = PageBusy]
                                      ELSE cut[i]]
<1>1. /\ k = nd[p].slab /\ k \in Nat \ {0} /\ n <= k /\ a \in Nodes /\ b \in Nodes
      /\ a \notin Span(nd, p) /\ b \notin Span(nd, p)
      /\ Proper(nd, p) /\ Span(nd, p) \subseteq Pages
      /\ \A i \in Span(nd, p) \ {p} : Inner(nd, i, TRUE)
  <2>1. \A i \in Span(nd, p) \ {p} : Inner(nd, i, IsFree(nd, p))
    BY FreeIs, SpanIs
  <2>2. \A i \in Span(nd, p) \ {p} : Inner(nd, i, TRUE)
    BY <2>1 DEF Inner
  <2>3. /\ k = nd[p].slab /\ k \in Nat \ {0} /\ a \in Nodes /\ b \in Nodes
        /\ a \notin Span(nd, p) /\ b \notin Span(nd, p)
        /\ Proper(nd, p)
    BY FreeIs
  <2>4. Span(nd, p) \subseteq Pages
    BY <2>3, SpanIs
  <2> QED
    BY <2>2, <2>3, <2>4
<1>2. p \in Nat /\ site.pages \in Nat /\ Typed(nd) /\ DOMAIN nd = Nodes /\ Span(nd, p) = p .. p + k - 1
  BY PagesAre DEF Sound, Typed, Span
<1>3. AllocPages(nd, p, n) = md
  BY <1>1 DEF AllocPages
<1>4. Typed(cut)
  BY <1>1, <1>2, SplitIs, UnlinkedIs
<1>5. \A x \in Nodes \ Span(nd, p) :
         /\ Same(nd[x], cut[x])
         /\ cut[x].next = IF x = a THEN (IF n < k THEN r ELSE b) ELSE nd[x].next
         /\ cut[x].prev = IF x = b THEN (IF n < k THEN r ELSE a) ELSE nd[x].prev
  <2>1. CASE n < k
    <3>1. r \in Span(nd, p) /\ p + k - 1 \in Span(nd, p)
      BY <1>1, <1>2, <2>1
    <3>2. \A x \in Nodes \ {r} :
             /\ Same(nd[x], Split(nd, p, n)[x])
             /\ Split(nd, p, n)[x].next = IF x = a THEN r ELSE nd[x].next
             /\ x # p + k - 1 => Split(nd, p, n)[x].prev = IF x = b THEN r ELSE nd[x].prev
      BY <2>1, SplitIs
    <3>3. cut = Split(nd, p, n)
      BY <1>1, <2>1
    <3> HIDE DEF cut, a, b, r, k
    <3> QED
      BY <2>1, <3>1, <3>2, <3>3
  <2>2. CASE ~(n < k)
    <3>1. cut = Unlinked(nd, p)
      BY <1>1, <2>2
    <3>2. \A x \in Nodes :
             /\ Same(nd[x], Unlinked(nd, p)[x])
             /\ Unlinked(nd, p)[x].next = IF x = a THEN b ELSE nd[x].next
             /\ Unlinked(nd, p)[x].prev = IF x = b THEN a ELSE nd[x].prev
      BY <1>1, <1>2, UnlinkedIs
    <3> HIDE DEF cut, a, b, r, k
    <3> QED
      BY <2>2, <3>1, <3>2
  <2> QED
    BY <2>1, <2>2
<1>6. ASSUME n < k
      PROVE  /\ cut[r].type = "page" /\ cut[r].slab = k - n /\ cut[r].next = b /\ cut[r].prev = a
             /\ \A i \in r + 1 .. p + k - 1 : Inner(cut, i, TRUE)
             /\ r # p + k - 1 => cut[p + k - 1].prev = r
  <2>1. cut = Split(nd, p, n)
    BY <1>1, <1>6
  <2>2. /\ cut[r].type = nd[r].type /\ cut[r].slab = k - n /\ cut[r].next = b /\ cut[r].prev = a
        /\ r # p + k - 1 => cut[p + k - 1].prev = r
        /\ \A x \in Nodes \ {r} : Same(nd[x], cut[x]) /\ cut[x].next = IF x = a THEN r ELSE nd[x].next
    BY <1>6, <2>1, SplitIs
  <2>3. r \in Span(nd, p) \ {p} /\ \A i \in r + 1 .. p + k - 1 : i \in Span(nd, p) \ {p} /\ i # r
    BY <1>1, <1>2, <1>6
  <2>4. nd[r].type = "page"
    BY <1>1, <2>3 DEF Inner
  <2> HIDE DEF cut, a, b, r, k
  <2>5. \A i \in r + 1 .. p + k - 1 : Inner(cut, i, TRUE)
    BY <1>1, <2>2, <2>3, Apart DEF Inner, Same
  <2> QED
    BY <2>2, <2>4, <2>5
<1>7. PageStart + n \in Int
  BY StartIs
<1> HIDE DEF cut, a, b, k
<1>8. Typed(md)
  <2>0. [Blank EXCEPT !.slab = PageStart + n] \in Node /\ [Blank EXCEPT !.slab = PageBusy] \in Node
    BY <1>7 DEF Node, Blank, Null, PageBusy
  <2>1. \A i \in Nodes : md[i] \in Node
    BY <1>2, <1>4, <2>0 DEF Typed
  <2> QED
    BY <1>2, <2>1 DEF Typed
<1>9. \A x \in Nodes \ Span(nd, p) : md[x] = cut[x]
  BY <1>1, <1>2
<1>10. n < k => \A x \in r .. p + k - 1 : md[x] = cut[x] /\ x \in Nodes
  BY <1>1, <1>2, Apart
<1>11. p \in Nodes /\ \A i \in p + 1 .. p + n - 1 : i \in Nodes /\ i # p
  BY <1>1, <1>2, Apart
<1>12. md[p].type = "page" /\ md[p].next = Null /\ md[p].slab = PageStart + n
  BY <1>2, <1>11 DEF Blank
<1>13. \A i \in p + 1 .. p + n - 1 : Inner(md, i, FALSE)
  BY <1>2, <1>11 DEF Blank, Inner
<1>14. n < k => /\ md[r].type = "page" /\ md[r].slab = k - n
                /\ md[r].next = b /\ md[r].prev = a
                /\ \A i \in r + 1 .. p + k - 1 : Inner(md, i, TRUE)
                /\ r # p + k - 1 => md[p + k - 1].prev = r
  <2> SUFFICES ASSUME n < k
               PROVE  /\ md[r].type = "page" /\ md[r].slab = k - n
                      /\ md[r].next = b /\ md[r].prev = a
                      /\ \A i \in r + 1 .. p + k - 1 : Inner(md, i, TRUE)
                      /\ r # p + k - 1 => md[p + k - 1].prev = r
    OBVIOUS
  <2>1. r \in r .. p + k - 1 /\ p + k - 1 \in r .. p + k - 1
        /\ \A i \in r + 1 .. p + k - 1 : i \in r .. p + k - 1
    BY <1>1, <1>2
  <2> HIDE DEF md, r
  <2> QED
    BY <1>6, <1>10, <2>1 DEF Inner
<1> HIDE DEF md
<1>15. \A x \in Nodes \ Span(nd, p) :
         /\ Same(nd[x], md[x])
         /\ md[x].next = IF x = a THEN (IF n < k THEN r ELSE b) ELSE nd[x].next
         /\ md[x].prev = IF x = b THEN (IF n < k THEN r ELSE a) ELSE nd[x].prev
  BY <1>5, <1>9
<1> QED
  BY <1>3, <1>8, <1>12, <1>13, <1>14, <1>15 DEF a, b, r, k

LEMMA KindSame == ASSUME NEW n, NEW m, Alike(n, m) PROVE Kind(m) = Kind(n)
BY DEF Alike, Kind

LEMMA AlikeSelf == \A n : Alike(n, n)
BY DEF Alike

\* What a run is cut from stays sound: the first pages are in use, the others free.
LEMMA AllocSound ==
    ASSUME NEW nd, Sound(nd, {}), NEW p \in Pages, IsFree(nd, p), NEW n \in Nat \ {0}, n <= Long(nd, p)
    PROVE  LET md == AllocPages(nd, p, n)
           IN /\ Sound(md, {}) /\ IsBusy(md, p) /\ Long(md, p) = n
              /\ \A x \in Pages \ Span(nd, p) : Alike(nd[x], md[x])
              /\ \A x \in Span(nd, p) \ {p} : ~IsBusy(md, x) /\ ~IsCut(md, x)
              /\ \A h \in Heads \ {FreeHead} : md[h].next = nd[h].next
<1> DEFINE md == AllocPages(nd, p, n)
           r == p + n
           k == Long(nd, p)
           a == nd[p].prev
           b == nd[p].next
           S == Span(nd, p)
           R == r .. p + k - 1
<1>1. /\ Typed(md)
      /\ \A x \in Nodes \ S :
            /\ Same(nd[x], md[x])
            /\ md[x].next = IF x = a THEN (IF n < k THEN r ELSE b) ELSE nd[x].next
            /\ md[x].prev = IF x = b THEN (IF n < k THEN r ELSE a) ELSE nd[x].prev
      /\ md[p].type = "page" /\ md[p].next = Null /\ md[p].slab = PageStart + n
      /\ \A i \in p + 1 .. p + n - 1 : Inner(md, i, FALSE)
      /\ n < k => /\ md[r].type = "page" /\ md[r].slab = k - n
                  /\ md[r].next = b /\ md[r].prev = a
                  /\ \A i \in r + 1 .. p + k - 1 : Inner(md, i, TRUE)
                  /\ r # p + k - 1 => md[p + k - 1].prev = r
  BY AllocFields
<1>2. /\ k \in Nat \ {0} /\ n <= k /\ p \in Nat /\ site.pages \in Nat /\ p + k <= site.pages
      /\ S = p .. p + k - 1 /\ S \subseteq Pages /\ p \in S /\ Proper(nd, p) /\ First(nd, p)
  <2>1. Proper(nd, p) /\ First(nd, p)
    BY FreeIs
  <2>2. S \subseteq Pages /\ p \in S
    BY <2>1, SpanIs
  <2> QED
    BY <2>1, <2>2, PagesAre DEF Sound, Proper, Span
<1>3. /\ a \in Nodes /\ b \in Nodes /\ a # Null /\ b # Null
      /\ a \notin S /\ b \notin S /\ a # p /\ b # p
      /\ Owner(nd, {}, p) = FreeHead /\ Owner(nd, {}, a) = FreeHead /\ Owner(nd, {}, b) = FreeHead
  BY FreeIs
<1>4. \A x \in S \ {p} : nd[x].next = Null /\ ~First(nd, x)
  BY <1>2, SpanIs DEF Inner
<1>5. n < k => r \in S \ {p} /\ r \in Nodes /\ r # Null
  BY <1>2, Apart
<1>f. FreeHead # Null /\ PageStart \in Nat
  BY StartIs DEF FreeHead, Null
<1> HIDE DEF md, a, b, k, S
<1>6. ASSUME NEW x \in Pages \ S PROVE Alike(nd[x], md[x])
  <2>1. x \in Nodes /\ x \notin Heads
    BY Apart
  <2>2. x = a => nd[x].next # Null
    BY <1>3, <1>f, <2>1 DEF Owner, Kind
  <2>3. x = b => nd[x].next # Null
    BY <1>3, <1>f, <2>1 DEF Owner, Kind
  <2> QED
    BY <1>1, <1>3, <1>5, <2>1, <2>2, <2>3 DEF Alike, Same
<1>7. IsBusy(md, p) /\ ~IsFree(md, p) /\ ~IsCut(md, p) /\ Long(md, p) = n /\ First(md, p)
  BY <1>1, <1>2, <1>f DEF IsBusy, IsFree, IsCut, Long, First
<1>8. \A i \in p + 1 .. p + n - 1 : md[i].type = "page" /\ md[i].next = Null /\ ~First(md, i)
  BY <1>1, InnerIs DEF Inner
<1>9. n < k => \A i \in r + 1 .. p + k - 1 : md[i].type = "page" /\ md[i].next = Null /\ ~First(md, i)
  BY <1>1, InnerIs DEF Inner
<1>10. \A x \in S \ {p} : x \in p + 1 .. p + n - 1 \/ (n < k /\ (x = r \/ x \in r + 1 .. p + k - 1))
  BY <1>2
<1>11. n < k => IsFree(md, r) /\ ~IsBusy(md, r) /\ ~IsCut(md, r) /\ First(md, r) /\ Long(md, r) = k - n
  BY <1>1, <1>3 DEF IsBusy, IsFree, IsCut, Long, First
<1>12. \A x \in S \ {p} : ~IsBusy(md, x) /\ ~IsCut(md, x)
  BY <1>8, <1>9, <1>10, <1>11 DEF First
<1>13. Proper(md, p) /\ Span(md, p) = p .. p + n - 1
  <2>1. Span(md, p) = p .. p + n - 1
    BY <1>7 DEF Span
  <2>2. \A i \in p + 1 .. p + n - 1 : Inner(md, i, IsFree(md, p))
    BY <1>1, <1>7 DEF Inner
  <2> QED
    BY <1>2, <1>7, <2>1, <2>2 DEF Proper
<1>14. Laid(md, S) /\ Joined(md, S)
  <2>1. {} \cup Span(nd, p) = S
    BY DEF S
  <2>2. Laid(md, {} \cup Span(nd, p)) /\ Joined(md, {} \cup Span(nd, p))
    BY <1>2, <1>6, <2>1, Grow DEF Sound
  <2> QED
    BY <2>1, <2>2
<1>15. Laid(md, {}) /\ Joined(md, {})
  <2>1. CASE ~(n < k)
    <3>1. Span(md, p) = S \ {}
      BY <1>2, <1>13, <2>1
    <3> QED
      BY <1>2, <1>7, <1>13, <1>14, <3>1, AlikeSelf, Settle
  <2>2. CASE n < k
    <3> HIDE DEF r
    <3>0. r = p + n
      BY DEF r
    <3>1. Span(md, p) = S \ R /\ R \subseteq S /\ r \in R /\ p \notin R /\ R \subseteq Pages
      BY <1>2, <1>13, <2>2, <3>0
    <3>2. Laid(md, R) /\ Joined(md, R)
      <4> HIDE DEF R
      <4> QED
        BY <1>2, <1>7, <1>13, <1>14, <3>1, AlikeSelf, Settle
    <3>3. Span(md, r) = R \ {}
      BY <1>2, <1>11, <2>2, <3>0 DEF Span
    <3>4. Proper(md, r)
      <4>1. Long(md, r) \in Nat \ {0} /\ r + Long(md, r) = p + k
        BY <1>2, <1>11, <2>2, <3>0
      <4>2. \A i \in r + 1 .. r + Long(md, r) - 1 : Inner(md, i, IsFree(md, r))
        BY <1>1, <1>2, <3>0, <1>11, <2>2, <4>1 DEF Inner
      <4>3. Long(md, r) > 1 => md[r + Long(md, r) - 1].prev = r
        <5> SUFFICES ASSUME Long(md, r) > 1 PROVE md[r + Long(md, r) - 1].prev = r
          OBVIOUS
        <5>1. r # p + k - 1
          BY <1>2, <1>11, <2>2, <3>0
        <5> QED
          <6>1. md[p + k - 1].prev = r
            BY <1>1, <2>2, <5>1
          <6>2. r + Long(md, r) - 1 = p + k - 1
            BY <1>2, <1>11, <2>2, <3>0
          <6> QED
            BY <6>1, <6>2
      <4> QED
        BY <1>2, <1>11, <2>2, <4>1, <4>2, <4>3 DEF Proper
    <3>5. ASSUME NEW q \in Pages \ R, IsFree(md, q)
          PROVE  q # r + Long(md, r) /\ r # q + Long(md, q)
      <4>1. q \notin S
        <5>1. q # p /\ q \notin p + 1 .. p + n - 1
          BY <1>7, <1>8, <3>5 DEF First
        <5> QED
          BY <1>2, <3>5, <3>0, <5>1
      <4>2. IsFree(nd, q) /\ Long(md, q) = Long(nd, q) /\ First(nd, q)
        BY <1>6, <3>5, <4>1, Shape DEF First
      <4>3. q # p + k
        BY <4>2 DEF Sound, Joined, k
      <4>4. Proper(nd, q) /\ q # p
        BY <1>2, <4>1, <4>2 DEF Sound, Laid
      <4>5. Span(nd, q) \cap S = {}
        BY <1>2, <4>2, <4>4, Disjoint DEF S
      <4>6. r # q + Long(nd, q)
        <5> SUFFICES ASSUME r = q + Long(nd, q) PROVE FALSE
          OBVIOUS
        <5>1. q + Long(nd, q) - 1 \in Span(nd, q)
          BY <4>4, SpanIs
        <5>2. r - 1 \in S
          BY <1>2, <2>2, <3>0
        <5> QED
          BY <1>2, <4>4, <4>5, PagesAre, <5>1, <5>2 DEF Proper
      <4>7. r + Long(md, r) = p + k
        BY <1>2, <1>11, <2>2, <3>0
      <4> QED
        BY <4>2, <4>3, <4>6, <4>7
    <3> HIDE DEF R
    <3>6. {} \subseteq R
      OBVIOUS
    <3> QED
      BY <1>11, <2>2, <3>1, <3>2, <3>3, <3>4, <3>5, <3>6, AlikeSelf, Settle
  <2> QED
    BY <2>1, <2>2
<1>16. Lists(md, {})
  <2>1. \A x \in Pages \ S : Owner(md, {}, x) = Owner(nd, {}, x)
    BY <1>6, KindSame, Apart DEF Owner
  <2>2. \A x \in S \ {p} : Owner(nd, {}, x) = Null
    BY <1>2, <1>4, Apart DEF Owner, Kind
  <2>3. \A x \in S \ {p} : (n < k => x # r) => Owner(md, {}, x) = Null
    BY <1>2, <1>8, <1>9, <1>10, Apart DEF Owner, Kind
  <2>4. Owner(md, {}, p) = Null
    BY <1>1, Apart DEF Owner, Kind
  <2>5. \A x \in Nodes \ {p} : Owner(nd, {}, x) # Null => x \notin S
    BY <2>2
  <2>6. Lists(nd, {})
    BY DEF Sound
  <2>7. CASE n < k
    <3>1. Owner(md, {}, r) = FreeHead /\ r \in Pages /\ Owner(nd, {}, r) = Null
      BY <1>1, <1>2, <1>3, <1>5, <2>2, <2>7, Apart DEF Owner, Kind
    <3>2. \A x \in Pages \ {p, r} : Owner(md, {}, x) = Owner(nd, {}, x)
      BY <2>1, <2>2, <2>3
    <3>3. \A x \in Nodes \ {p} : Owner(nd, {}, x) # Null =>
              md[x].next = IF x = a THEN r ELSE nd[x].next
      BY <1>1, <2>5, <2>7
    <3>4. \A x \in Pages \ {p} : Owner(nd, {}, x) # Null =>
              md[x].prev = IF x = b THEN r ELSE nd[x].prev
      BY <1>1, <2>5, <2>7, Apart
    <3> HIDE DEF r
    <3> QED
      BY <1>1, <1>3, <1>f, <2>4, <2>6, <2>7, <3>1, <3>2, <3>3, <3>4, ListsReplace DEF a, b
  <2>8. CASE ~(n < k)
    <3>1. \A x \in Pages \ {p} : Owner(md, {}, x) = Owner(nd, {}, x)
      BY <2>1, <2>2, <2>3, <2>8
    <3>2. \A x \in Nodes \ {p} : Owner(nd, {}, x) # Null =>
              md[x].next = IF x = a THEN b ELSE nd[x].next
      BY <1>1, <2>5, <2>8
    <3>3. \A x \in Pages \ {p} : Owner(nd, {}, x) # Null =>
              md[x].prev = IF x = b THEN a ELSE nd[x].prev
      BY <1>1, <2>5, <2>8, Apart
    <3> QED
      BY <1>3, <1>f, <2>4, <2>6, <3>1, <3>2, <3>3, ListsUnlink DEF a, b
  <2> QED
    BY <2>7, <2>8
<1>17. \A h \in Heads \ {FreeHead} : md[h].next = nd[h].next
  <2> TAKE h \in Heads \ {FreeHead}
  <2>1. h \in Nodes /\ h \notin S
    BY <1>2, Apart
  <2>2. Owner(nd, {}, h) = h
    BY DEF Owner
  <2> QED
    BY <1>1, <1>3, <2>1, <2>2
<1>18. Sound(md, {})
  BY <1>1, <1>2, <1>15, <1>16 DEF Sound
<1> QED
  BY <1>6, <1>7, <1>12, <1>17, <1>18 DEF md, S

----------------------------------------------------------------------------
(* Runs become free, and are joined                                        *)

\* The n pages from p on are free and in no list; p holds their number.
Loose(nd, p, n) ==
    /\ n \in Nat \ {0} /\ p \in Pages /\ p .. p + n - 1 \subseteq Pages
    /\ Sound(nd, p .. p + n - 1)
    /\ nd[p].slab = n /\ \A i \in p + 1 .. p + n - 1 : Inner(nd, i, TRUE)

LEMMA AlikeTrans == \A n, m, o : Alike(n, m) /\ Alike(m, o) => Alike(n, o)
BY DEF Alike

Joint(nd, q, n, run, gone) ==
    [Unlinked(nd, q) EXCEPT ![run].slab = n + nd[q].slab, ![gone] = Swallowed]

\* The free run q and the loose one, side by side, become one.
LEMMA Swallow ==
    ASSUME NEW nd, NEW p, NEW n, Loose(nd, p, n), NEW q \in Pages \ (p .. p + n - 1), IsFree(nd, q),
           NEW run, NEW gone, {run, gone} = {p, q}, gone = run + (IF run = p THEN n ELSE Long(nd, q))
    PROVE  LET md == Joint(nd, q, n, run, gone)
               k == n + Long(nd, q)
           IN /\ Loose(md, run, k)
              /\ run .. run + k - 1 = (p .. p + n - 1) \cup Span(nd, q)
              /\ \A x \in Pages \ (run .. run + k - 1) : Alike(nd[x], md[x])
<1> DEFINE B == p .. p + n - 1
           l == Long(nd, q)
           k == n + l
           a == nd[q].prev
           b == nd[q].next
           ud == Unlinked(nd, q)
           md == Joint(nd, q, n, run, gone)
           C == run .. run + k - 1
<1>1. /\ n \in Nat \ {0} /\ p \in Pages /\ B \subseteq Pages /\ Sound(nd, B) /\ nd[p].slab = n
      /\ site.pages \in Nat /\ Typed(nd) /\ q \in Pages \ B /\ p \in Nat /\ q \in Nat
      /\ \A i \in B \ {p} : Inner(nd, i, TRUE)
  <2>1. \A i \in B \ {p} : i \in p + 1 .. p + n - 1
    BY PagesAre DEF Loose, Sound
  <2> QED
    BY <2>1, PagesAre DEF Loose, Sound
<1>2. /\ Owner(nd, B, q) = FreeHead /\ a \in Nodes /\ b \in Nodes /\ a # q /\ b # q
      /\ Owner(nd, B, a) = FreeHead /\ Owner(nd, B, b) = FreeHead
      /\ a # Null /\ b # Null
      /\ a \notin B \cup Span(nd, q) /\ b \notin B \cup Span(nd, q)
      /\ First(nd, q) /\ Proper(nd, q) /\ Span(nd, q) \cap B = {}
      /\ l = nd[q].slab /\ l \in Nat \ {0}
  BY <1>1, FreeIs
<1>3. \A i \in Span(nd, q) \ {q} : Inner(nd, i, TRUE)
  <2>1. \A i \in Span(nd, q) \ {q} : Inner(nd, i, IsFree(nd, q))
    BY <1>1, <1>2, SpanIs
  <2> QED
    BY <2>1 DEF Inner
<1>4. Span(nd, q) = q .. q + l - 1 /\ Span(nd, q) \subseteq Pages /\ q \in Span(nd, q)
  BY <1>1, <1>2, SpanIs DEF Span
<1>5. /\ C = B \cup Span(nd, q) /\ run # gone /\ run \in Nat /\ k \in Nat \ {0} /\ run \in C /\ gone \in C
      /\ (run = p /\ gone = q) \/ (run = q /\ gone = p)
  <2>1. p # q
    BY <1>1
  <2>2. CASE run = p
    <3>1. gone = q /\ q = p + n
      BY <2>1, <2>2
    <3>2. C = B \cup Span(nd, q)
      BY <1>1, <1>2, <1>4, <2>2, <3>1
    <3> QED
      BY <1>1, <1>2, <1>4, <2>1, <2>2, <3>1, <3>2
  <2>3. CASE run = q
    <3>1. gone = p /\ p = q + l
      BY <2>1, <2>3
    <3>2. C = q .. q + (n + l) - 1 /\ B = q + l .. q + (n + l) - 1
      <4>1. l \in Nat /\ n \in Nat /\ p = q + l /\ q \in Nat /\ run = q
        BY <1>1, <1>2, <2>3, <3>1
      <4> HIDE DEF l
      <4>2. p + n - 1 = q + (n + l) - 1
        BY <4>1
      <4> QED
        BY <4>1, <4>2 DEF l
    <3>3. C = B \cup Span(nd, q)
      <4>1. l \in Nat \ {0} /\ n \in Nat \ {0} /\ q \in Nat /\ Span(nd, q) = q .. q + l - 1
        BY <1>1, <1>2, <1>4
      <4> HIDE DEF B, C, l
      <4>2. ASSUME NEW i \in C PROVE i \in B \cup Span(nd, q)
        BY <3>2, <4>1, <4>2
      <4>3. ASSUME NEW i \in B \cup Span(nd, q) PROVE i \in C
        BY <3>2, <4>1, <4>3
      <4> QED
        BY <4>2, <4>3
    <3>4. run \in Nat /\ k \in Nat \ {0} /\ p \in B
      BY <1>1, <1>2, <2>3
    <3> QED
      BY <1>4, <2>1, <2>3, <3>1, <3>3, <3>4
  <2>4. run = p \/ run = q
    OBVIOUS
  <2> QED
    BY <2>2, <2>3, <2>4
<1>6. C \subseteq Pages /\ run \in Pages /\ gone \in Pages /\ C \subseteq Nodes
  BY <1>1, <1>4, <1>5, Apart
<1> HIDE DEF B, a, b, l, C, k
<1>7. Typed(ud) /\ \A x \in Nodes :
         /\ Same(nd[x], ud[x])
         /\ ud[x].next = IF x = a THEN b ELSE nd[x].next
         /\ ud[x].prev = IF x = b THEN a ELSE nd[x].prev
  BY <1>1, <1>2, UnlinkedIs DEF a, b
<1>m. md = [ud EXCEPT ![run].slab = n + nd[q].slab, ![gone] = Swallowed]
  BY DEF Joint
<1> HIDE DEF ud, md
<1>8. Typed(md)
  <2>1. Swallowed \in Node /\ n + nd[q].slab \in Int
    BY <1>1, <1>2 DEF Swallowed, Blank, Node, PageFree, Null
  <2> DEFINE one == [ud EXCEPT ![run].slab = n + nd[q].slab]
  <2>2. ud \in [Nodes -> Node] /\ run \in Nodes /\ gone \in Nodes
    BY <1>6, <1>7, Apart DEF Typed
  <2>3. one = [ud EXCEPT ![run] = [ud[run] EXCEPT !.slab = n + nd[q].slab]]
    BY <2>2
  <2>4. [ud[run] EXCEPT !.slab = n + nd[q].slab] \in Node
    BY <2>1, <2>2 DEF Node
  <2>5. one \in [Nodes -> Node]
    BY <2>2, <2>3, <2>4
  <2>6. md = [one EXCEPT ![gone] = Swallowed]
    BY <1>m
  <2> HIDE DEF one
  <2> QED
    BY <2>1, <2>2, <2>5, <2>6 DEF Typed
<1>9. /\ \A x \in Nodes \ {run, gone} : md[x] = ud[x]
      /\ md[gone] = Swallowed /\ md[run].slab = n + nd[q].slab
  BY <1>5, <1>6, <1>7, <1>m, Apart DEF Typed, Node
<1>10. \A x \in C \ {run} : Inner(md, x, TRUE)
  <2> TAKE x \in C \ {run}
  <2>1. CASE x = gone
    BY <1>9, <2>1 DEF Inner, Swallowed, Blank
  <2>2. CASE x # gone
    <3>1. Inner(nd, x, TRUE) /\ x \in Nodes /\ x # a
      BY <1>1, <1>2, <1>3, <1>5, <1>6, <2>2
    <3> QED
      BY <1>7, <1>9, <2>2, <3>1 DEF Inner, Same
  <2> QED
    BY <2>1, <2>2
<1>11. ASSUME NEW x \in Pages \ C PROVE Alike(nd[x], md[x])
  <2>1. x \in Nodes /\ x \notin Heads /\ x # run /\ x # gone /\ x \notin B
    BY <1>5, Apart
  <2>2. x = a \/ x = b => nd[x].next # Null
    BY <1>2, <2>1 DEF Owner, Kind, FreeHead, Null
  <2> QED
    BY <1>2, <1>7, <1>9, <2>1, <2>2 DEF Alike, Same
<1>12. Laid(md, C) /\ Joined(md, C)
  <2>1. \A x \in Pages \ (B \cup Span(nd, q)) : Alike(nd[x], md[x])
    BY <1>5, <1>11
  <2>2. Laid(nd, B) /\ Joined(nd, B)
    BY <1>1 DEF Sound
  <2>3. Laid(md, B \cup Span(nd, q)) /\ Joined(md, B \cup Span(nd, q))
    BY <1>1, <1>2, <2>1, <2>2, Grow
  <2> QED
    BY <1>5, <2>3
<1>13. Lists(md, C)
  <2>1. \A x \in Pages \ {q} : Owner(md, C, x) = Owner(nd, B, x)
    <3> TAKE x \in Pages \ {q}
    <3>0. x \notin Heads
      BY Apart
    <3>1. CASE x \in B
      BY <1>5, <3>0, <3>1 DEF Owner
    <3>2. CASE x \in C /\ x \notin B
      <4>1. nd[x].next = Null
        BY <1>3, <1>5, <3>2 DEF Inner
      <4> QED
        BY <3>0, <3>2, <4>1 DEF Owner, Kind
    <3>3. CASE x \notin C
      BY <1>5, <1>11, <3>0, <3>3, KindSame DEF Owner
    <3> QED
      BY <3>1, <3>2, <3>3
  <2>2. Owner(md, C, q) = Null
    BY <1>5, <1>6, Apart DEF Owner
  <2>3. \A x \in Nodes \ {q} : Owner(nd, B, x) # Null => x \notin C
    <3> TAKE x \in Nodes \ {q}
    <3> SUFFICES ASSUME x \in C PROVE Owner(nd, B, x) = Null
      OBVIOUS
    <3>1. x \notin Heads
      BY <1>6, Apart
    <3>2. x \in B \/ nd[x].next = Null
      BY <1>3, <1>5 DEF Inner
    <3> QED
      BY <3>1, <3>2 DEF Owner, Kind
  <2>4. \A x \in Nodes \ {q} : Owner(nd, B, x) # Null =>
            md[x].next = IF x = a THEN b ELSE nd[x].next
    BY <1>5, <1>7, <1>9, <2>3
  <2>5. \A x \in Pages \ {q} : Owner(nd, B, x) # Null =>
            md[x].prev = IF x = b THEN a ELSE nd[x].prev
    BY <1>5, <1>7, <1>9, <2>3, Apart
  <2>6. Lists(nd, B) /\ q \in Pages /\ Owner(nd, B, q) # Null
    BY <1>1, <1>2 DEF Sound, FreeHead, Null
  <2> QED
    BY <2>1, <2>2, <2>4, <2>5, <2>6, ListsUnlink DEF a, b
<1>14. Sound(md, C)
  BY <1>1, <1>8, <1>12, <1>13 DEF Sound
<1>15. Loose(md, run, k)
  <2>1. \A i \in run + 1 .. run + k - 1 : i \in C \ {run}
    BY <1>5 DEF C
  <2>2. md[run].slab = k
    BY <1>2, <1>9 DEF k
  <2> QED
    BY <1>5, <1>6, <1>10, <1>14, <2>1, <2>2 DEF Loose, C
<1>16. C = B \cup Span(nd, q) /\ \A x \in Pages \ C : Alike(nd[x], md[x])
  BY <1>5, <1>11
<1> QED
  BY <1>15, <1>16 DEF md, ud, k, C, l, B

\* The run behind the loose one is joined to it if it is free.
LEMMA JoinNextIs ==
    ASSUME NEW nd, NEW p, NEW n, Loose(nd, p, n)
    PROVE  \E k \in Nat :
              LET md == JoinNext(nd, p) IN
              /\ Loose(md, p, k) /\ n <= k
              /\ \A x \in Pages \ (p .. p + k - 1) : Alike(nd[x], md[x])
              /\ \A x \in p + n .. p + k - 1 : ~IsBusy(nd, x) /\ ~IsCut(nd, x)
              /\ p + k \in Pages => ~IsFree(md, p + k)
<1> DEFINE md == JoinNext(nd, p)
           q == p + n
           B == p .. p + n - 1
<1>1. /\ nd[p].slab = n /\ n \in Nat \ {0} /\ p \in Nat /\ Sound(nd, B) /\ B \subseteq Pages
      /\ site.pages \in Nat /\ p \in Pages
  BY PagesAre DEF Loose, Sound
<1>2. CASE q \in FreeRuns(nd)
  <2> DEFINE l == Long(nd, q)
             k == n + l
             C == p .. p + k - 1
             to == Joint(nd, q, n, p, q)
  <2>1. q \in Pages \ B /\ IsFree(nd, q)
    BY <1>1, <1>2 DEF FreeRuns, IsFree
  <2>2. md = to
    BY <1>1, <1>2 DEF JoinNext, Joint
  <2>3. q = p + (IF p = p THEN n ELSE Long(nd, q)) /\ {p, q} = {p, q}
    OBVIOUS
  <2>4. Loose(to, p, k) /\ C = B \cup Span(nd, q) /\ \A x \in Pages \ C : Alike(nd[x], to[x])
    <3> HIDE DEF q
    <3> QED
      BY <2>1, <2>3, Swallow
  <2>5. Proper(nd, q) /\ First(nd, q) /\ l \in Nat \ {0}
    BY <1>1, <2>1, FreeIs
  <2>6. \A x \in p + n .. p + k - 1 : ~IsBusy(nd, x) /\ ~IsCut(nd, x)
    <3> TAKE x \in p + n .. p + k - 1
    <3>1. x \in Span(nd, q)
      BY <1>1, <2>5 DEF Span
    <3>2. x = q \/ ~First(nd, x)
      BY <2>1, <2>5, <3>1, SpanIs
    <3> QED
      BY <2>1, <3>2 DEF First, IsFree, IsBusy, IsCut
  <2>7. p + k \in Pages => ~IsFree(to, p + k)
    <3> SUFFICES ASSUME p + k \in Pages, IsFree(to, p + k) PROVE FALSE
      OBVIOUS
    <3>1. p + k \in Pages \ C /\ p + k = q + l /\ p + k \notin B
      BY <1>1, <2>5
    <3> HIDE DEF C, q, l, k, to
    <3>2. IsFree(nd, p + k)
      BY <2>4, <3>1, Shape
    <3> QED
      BY <1>1, <2>1, <3>1, <3>2 DEF Sound, Joined, l
  <2>8. n <= k /\ k \in Nat
    BY <1>1, <2>5
  <2> HIDE DEF k, to
  <2> QED
    BY <2>2, <2>4, <2>6, <2>7, <2>8
<1>3. CASE q \notin FreeRuns(nd)
  <2>1. md = nd
    BY <1>1, <1>3 DEF JoinNext
  <2>2. p + n \in Pages => ~IsFree(md, p + n)
    BY <1>3, <2>1 DEF FreeRuns, IsFree
  <2>3. \A x \in p + n .. p + n - 1 : FALSE
    BY <1>1
  <2> HIDE DEF md, q
  <2> QED
    BY <1>1, <2>1, <2>2, <2>3, AlikeSelf DEF md
<1> QED
  BY <1>2, <1>3

\* The free run that ends before the loose one is found.
LEMMA RunBeforeIs ==
    ASSUME NEW nd, NEW p, NEW n, Loose(nd, p, n)
    PROVE  LET q == RunBefore(nd, p) IN
           /\ q # Null => q \in Pages \ (p .. p + n - 1) /\ IsFree(nd, q) /\ q + Long(nd, q) = p
           /\ q = Null => \A x \in Pages \ (p .. p + n - 1) : IsFree(nd, x) => x + Long(nd, x) # p
<1> DEFINE B == p .. p + n - 1
           last == p - 1
           join == IF nd[last].slab = PageFree THEN nd[last].prev ELSE last
           q == RunBefore(nd, p)
<1>1. /\ n \in Nat \ {0} /\ p \in Nat /\ Sound(nd, B) /\ B \subseteq Pages
      /\ site.pages \in Nat /\ p \in Pages /\ p < site.pages
  BY PagesAre DEF Loose, Sound
<1>2. q = IF p > 0 /\ nd[last].type = "page" /\ nd[join].next # Null THEN join ELSE Null
  BY DEF RunBefore
<1>3. CASE p = 0
  <2>1. q = Null
    BY <1>2, <1>3
  <2>2. ASSUME NEW x \in Pages \ B, IsFree(nd, x) PROVE x + Long(nd, x) # p
    <3>1. Long(nd, x) \in Nat \ {0} /\ x \in Nat
      BY <1>1, <2>2, FreeIs, PagesAre
    <3> QED
      BY <1>3, <3>1
  <2> QED
    BY <2>1, <2>2
<1>4. CASE p > 0
  <2>1. last \in Pages \ B /\ last \in Nat
    BY <1>1, <1>4, PagesAre
  <2>2. PICK f \in Pages \ B : First(nd, f) /\ last \in Span(nd, f)
    BY <1>1, <2>1 DEF Sound, Laid
  <2>3. Proper(nd, f) /\ Span(nd, f) \cap B = {} /\ f \in Nat /\ Long(nd, f) \in Nat \ {0} /\ f \in Span(nd, f)
    BY <1>1, <2>2, PagesAre, SpanIs DEF Sound, Laid
  <2>4. f + Long(nd, f) = p
    <3>1. p \notin Span(nd, f)
      BY <1>1, <2>3
    <3>2. f \in Nat /\ Long(nd, f) \in Nat /\ last \in f .. f + Long(nd, f) - 1
             /\ p \notin f .. f + Long(nd, f) - 1 /\ last = p - 1 /\ p \in Nat
      BY <1>1, <2>2, <2>3, <3>1 DEF Span
    <3> HIDE DEF last
    <3> QED
      BY <3>2
  <2>5. last = f \/ (last \in f + 1 .. f + Long(nd, f) - 1 /\ Long(nd, f) > 1)
    BY <1>1, <2>3, <2>4
  <2>6. last # f => Inner(nd, last, IsFree(nd, f)) /\ Long(nd, f) > 1
    BY <2>3, <2>5 DEF Proper
  <2>7. last = f => Long(nd, f) = 1
    BY <1>1, <2>3, <2>4
  <2>8. CASE IsFree(nd, f)
    <3>1. CASE last = f
      <4>1. nd[f].slab = 1 /\ PageFree = 0
        BY <2>7, <2>8, <3>1 DEF Long, IsFree, IsCut, PageFree
      <4>2. join = f /\ nd[last].type = "page" /\ nd[join].next # Null
        BY <2>8, <3>1, <4>1 DEF IsFree
      <4> QED
        BY <1>2, <1>4, <2>2, <2>3, <2>4, <2>8, <4>2 DEF Null
    <3>2. CASE last # f
      <4>1. nd[last].type = "page" /\ nd[last].slab = PageFree
        BY <2>6, <2>8, <3>2 DEF Inner
      <4>2. f + Long(nd, f) - 1 = last
        BY <1>1, <2>3, <2>4
      <4>3. nd[last].prev = f
        BY <1>1, <2>3, <2>4, <2>6, <2>8, <3>2, <4>2 DEF Proper
      <4>4. join = f /\ nd[join].next # Null
        BY <2>8, <4>1, <4>3 DEF IsFree
      <4> QED
        BY <1>2, <1>4, <2>2, <2>3, <2>4, <2>8, <4>1, <4>4 DEF Null
    <3> QED
      BY <3>1, <3>2
  <2>9. CASE ~IsFree(nd, f)
    <3>1. q = Null
      <4>1. CASE IsCut(nd, f)
        <5>1. last = f
          BY <2>6, <4>1 DEF Long
        <5> QED
          BY <1>2, <4>1, <5>1 DEF IsCut
      <4>2. CASE IsBusy(nd, f)
        <5>1. nd[last].slab # PageFree /\ nd[last].next = Null
          BY <2>6, <2>9, <4>2, StartIs DEF IsBusy, Inner, PageBusy, PageFree
        <5> QED
          BY <1>2, <5>1
      <4> QED
        BY <2>2, <2>9, <4>1, <4>2 DEF First
    <3>2. ASSUME NEW x \in Pages \ B, IsFree(nd, x) PROVE x + Long(nd, x) # p
      <4> SUFFICES ASSUME x + Long(nd, x) = p PROVE FALSE
        OBVIOUS
      <4>1. Proper(nd, x) /\ First(nd, x) /\ Long(nd, x) \in Nat \ {0} /\ x \in Nat
        BY <1>1, <3>2, FreeIs, PagesAre
      <4>2. last \in Span(nd, x)
        BY <1>1, <4>1 DEF Span
      <4> QED
        BY <2>2, <2>3, <2>9, <3>2, <4>1, <4>2, Disjoint
    <3> QED
      BY <3>1, <3>2
  <2> QED
    BY <2>8, <2>9
<1> QED
  BY <1>1, <1>3, <1>4

\* The free run that ends before the loose one swallows it.
LEMMA JoinBeforeIs ==
    ASSUME NEW nd, NEW p, NEW n, Loose(nd, p, n), p + n \in Pages => ~IsFree(nd, p + n)
    PROVE  LET q == RunBefore(nd, p)
               run == IF q # Null THEN q ELSE p
               md == IF q # Null
                     THEN [Unlinked(nd, q) EXCEPT ![q].slab = nd[q].slab + nd[p].slab, ![p] = Swallowed]
                     ELSE nd
           IN \E k \in Nat :
              /\ Loose(md, run, k) /\ p .. p + n - 1 \subseteq run .. run + k - 1
              /\ \A x \in Pages \ (run .. run + k - 1) : Alike(nd[x], md[x])
              /\ \A x \in (run .. run + k - 1) \ (p .. p + n - 1) : ~IsBusy(nd, x) /\ ~IsCut(nd, x)
              /\ run + k \in Pages => ~IsFree(md, run + k)
              /\ \A x \in Pages \ (run .. run + k - 1) : IsFree(md, x) => x + Long(md, x) # run
<1> DEFINE q == RunBefore(nd, p)
           run == IF q # Null THEN q ELSE p
           md == IF q # Null
                 THEN [Unlinked(nd, q) EXCEPT ![q].slab = nd[q].slab + nd[p].slab, ![p] = Swallowed]
                 ELSE nd
           B == p .. p + n - 1
<1>1. /\ nd[p].slab = n /\ n \in Nat \ {0} /\ p \in Nat /\ Sound(nd, B) /\ B \subseteq Pages
      /\ site.pages \in Nat /\ p \in Pages
  BY PagesAre DEF Loose, Sound
<1>2. /\ q # Null => q \in Pages \ B /\ IsFree(nd, q) /\ q + Long(nd, q) = p
      /\ q = Null => \A x \in Pages \ B : IsFree(nd, x) => x + Long(nd, x) # p
  BY RunBeforeIs
<1> HIDE DEF q
<1>3. CASE q # Null
  <2> DEFINE l == Long(nd, q)
             k == n + l
             to == Joint(nd, q, n, q, p)
             C == q .. q + k - 1
  <2>1. q \in Pages \ B /\ IsFree(nd, q) /\ q + Long(nd, q) = p /\ q # p
    BY <1>1, <1>2, <1>3
  <2>2. Proper(nd, q) /\ First(nd, q) /\ l \in Nat \ {0} /\ l = nd[q].slab /\ q \in Nat
    BY <1>1, <2>1, FreeIs, PagesAre
  <2>3. md = to /\ run = q
    <3>1. nd[q].slab + nd[p].slab = n + nd[q].slab
      BY <1>1, <2>2
    <3> QED
      BY <1>3, <3>1 DEF Joint
  <2>4. Loose(to, q, k) /\ C = B \cup Span(nd, q) /\ \A x \in Pages \ C : Alike(nd[x], to[x])
    <3>1. {q, p} = {p, q} /\ p = q + (IF q = p THEN n ELSE Long(nd, q))
      BY <2>1
    <3> QED
      BY <2>1, <3>1, Swallow
  <2>5. \A x \in C \ B : ~IsBusy(nd, x) /\ ~IsCut(nd, x)
    <3> TAKE x \in C \ B
    <3>1. x \in Span(nd, q)
      BY <2>4
    <3>2. x = q \/ ~First(nd, x)
      BY <2>1, <2>2, <3>1, SpanIs
    <3> QED
      BY <2>1, <3>2 DEF First, IsFree, IsBusy, IsCut
  <2>6. q + k = p + n /\ q + k \notin C
    BY <1>1, <2>1, <2>2
  <2> HIDE DEF C, l, k, to, md, run
  <2>7. q + k \in Pages => ~IsFree(to, q + k)
    BY <2>4, <2>6, Shape
  <2>8. \A x \in Pages \ C : IsFree(to, x) => x + Long(to, x) # q
    <3> TAKE x \in Pages \ C
    <3> SUFFICES ASSUME IsFree(to, x), x + Long(to, x) = q PROVE FALSE
      OBVIOUS
    <3>1. IsFree(nd, x) /\ x + Long(nd, x) = q /\ x \in Pages \ B
      BY <2>4, Shape
    <3> QED
      BY <1>1, <2>1, <3>1 DEF Sound, Joined
  <2>9. k \in Nat /\ B \subseteq C
    BY <1>1, <2>2, <2>4 DEF k
  <2> QED
    BY <2>3, <2>4, <2>5, <2>7, <2>8, <2>9 DEF C, md, run, q
<1>4. CASE q = Null
  <2>1. md = nd /\ run = p
    BY <1>4
  <2>2. \A x \in B \ B : FALSE
    OBVIOUS
  <2> HIDE DEF md, run
  <2> QED
    BY <1>1, <1>2, <1>4, <2>1, <2>2, AlikeSelf DEF md, run, q
<1> QED
  BY <1>3, <1>4

\* The loose run comes to the head of the free list.
LEMMA FinalIs ==
    ASSUME NEW nd, NEW r, NEW k, Loose(nd, r, k), r + k \in Pages => ~IsFree(nd, r + k),
           \A x \in Pages \ (r .. r + k - 1) : IsFree(nd, x) => x + Long(nd, x) # r
    PROVE  LET first == nd[FreeHead].next
               md == [Tagged(nd, r) EXCEPT
                         ![r] = [Blank EXCEPT !.slab = nd[r].slab, !.next = first, !.prev = FreeHead],
                         ![first].prev = r, ![FreeHead].next = r]
           IN /\ Sound(md, {})
              /\ \A x \in Pages \ (r .. r + k - 1) : Alike(nd[x], md[x])
              /\ \A x \in r .. r + k - 1 : ~IsBusy(md, x) /\ ~IsCut(md, x)
<1> DEFINE first == nd[FreeHead].next
           to == [Blank EXCEPT !.slab = nd[r].slab, !.next = first, !.prev = FreeHead]
           td == Tagged(nd, r)
           md == [td EXCEPT ![r] = to, ![first].prev = r, ![FreeHead].next = r]
           C == r .. r + k - 1
           last == r + nd[r].slab - 1
<1>1. /\ nd[r].slab = k /\ k \in Nat \ {0} /\ r \in Nat /\ r \in C /\ Sound(nd, C) /\ C \subseteq Pages
      /\ site.pages \in Nat /\ r \in Pages /\ r \in Nodes /\ Typed(nd) /\ C \cap Heads = {}
      /\ \A x \in C \ {r} : Inner(nd, x, TRUE)
  <2>1. /\ nd[r].slab = k /\ k \in Nat \ {0} /\ r \in Nat /\ Sound(nd, C) /\ C \subseteq Pages
        /\ site.pages \in Nat /\ r \in Pages /\ Typed(nd)
    BY PagesAre DEF Loose, Sound
  <2>2. r \in C /\ \A x \in C \ {r} : x \in r + 1 .. r + k - 1
    BY <2>1
  <2>3. \A x \in C \ {r} : Inner(nd, x, TRUE)
    BY <2>2 DEF Loose
  <2> HIDE DEF C
  <2> QED
    BY <2>1, <2>2, <2>3, Apart
<1>2. /\ first \in Nodes /\ Owner(nd, C, first) = FreeHead /\ first \notin C /\ first # r
      /\ FreeHead \in Nodes /\ FreeHead \in Heads /\ FreeHead \notin Pages /\ FreeHead # Null
      /\ first # Null
  <2>1. FreeHead \in Nodes /\ FreeHead \in Heads /\ Owner(nd, C, FreeHead) = FreeHead /\ FreeHead # Null
    BY Apart DEF Owner, FreeHead, Null
  <2>2. first \in Nodes /\ Owner(nd, C, first) = FreeHead
    BY <1>1, <2>1, ListsKnow DEF Sound
  <2>3. first \notin C
    BY <1>1, <2>1, <2>2, Apart DEF Owner
  <2> QED
    BY <1>1, <2>1, <2>2, <2>3, Apart
<1>3. last = r + k - 1 /\ last \in C /\ last \in Nodes /\ last \in Pages
  <2>1. last = r + k - 1 /\ last \in C
    BY <1>1
  <2> HIDE DEF last, C
  <2> QED
    BY <1>1, <2>1, Apart
<1>4. /\ td \in [Nodes -> Node]
      /\ \A x \in Nodes : /\ Same(nd[x], td[x]) /\ td[x].next = nd[x].next
                          /\ td[x].prev = IF x = last /\ last # r THEN r ELSE nd[x].prev
  <2>1. td = IF last # r THEN [nd EXCEPT ![last].prev = r] ELSE nd
    BY DEF Tagged
  <2> HIDE DEF td, last
  <2>2. nd \in [Nodes -> Node] /\ r \in Int
    BY <1>1 DEF Typed
  <2>3. CASE last = r
    BY <2>1, <2>2, <2>3 DEF Same
  <2>4. CASE last # r
    <3>1. td = [nd EXCEPT ![last] = [nd[last] EXCEPT !.prev = r]]
      BY <2>1, <2>4
    <3>2. [nd[last] EXCEPT !.prev = r] \in Node
      BY <1>3, <2>2 DEF Node
    <3>3. td \in [Nodes -> Node]
      BY <1>3, <2>2, <3>1, <3>2
    <3>4. \A x \in Nodes : td[x] = IF x = last THEN [nd[last] EXCEPT !.prev = r] ELSE nd[x]
      BY <2>2, <3>1
    <3> QED
      BY <1>3, <2>2, <2>4, <3>3, <3>4 DEF Same, Node
  <2> QED
    BY <2>3, <2>4
<1>5. to \in Node /\ to.slab = k /\ to.next = first /\ to.prev = FreeHead /\ to.type = "page"
  <2>1. first \in Int /\ FreeHead \in Int
    BY <1>1, <1>2, NodesAre
  <2>2. nd[r].slab \in Int
    BY <1>1
  <2> QED
    BY <1>1, <2>1, <2>2 DEF Blank, Node, Null
<1> HIDE DEF td, to, first, C
<1>6. /\ Typed(md) /\ md[r] = to
      /\ \A x \in Nodes \ {r} : /\ Same(nd[x], md[x])
                                /\ md[x].next = IF x = FreeHead THEN r ELSE nd[x].next
                                /\ md[x].prev = IF x = first THEN r ELSE td[x].prev
  <2> DEFINE one == [td EXCEPT ![r] = to]
             two == [one EXCEPT ![first].prev = r]
  <2>1. one \in [Nodes -> Node] /\ one[r] = to /\ \A x \in Nodes \ {r} : one[x] = td[x]
    BY <1>1, <1>4, <1>5
  <2>2. md = [two EXCEPT ![FreeHead].next = r]
    OBVIOUS
  <2> HIDE DEF one
  <2>3. /\ two \in [Nodes -> Node] /\ two[r] = to
        /\ \A x \in Nodes \ {r} : /\ Same(nd[x], two[x]) /\ two[x].next = nd[x].next
                                  /\ two[x].prev = IF x = first THEN r ELSE td[x].prev
    BY <1>1, <1>2, <1>4, <2>1 DEF Node, Same
  <2> HIDE DEF two, md
  <2>4. FreeHead # r
    BY <1>1, <1>2
  <2> QED
    BY <1>1, <1>2, <1>4, <2>2, <2>3, <2>4 DEF Node, Same, Typed
<1> HIDE DEF md, last
<1>7. /\ IsFree(md, r) /\ ~IsBusy(md, r) /\ ~IsCut(md, r) /\ First(md, r) /\ Long(md, r) = k
      /\ Span(md, r) = C
  BY <1>2, <1>5, <1>6 DEF IsFree, IsBusy, IsCut, First, Long, Span, C
<1>8. \A x \in C \ {r} : Inner(md, x, TRUE) /\ ~First(md, x)
  <2> TAKE x \in C \ {r}
  <2>1. x \in Nodes /\ x # FreeHead
    BY <1>1, <1>2, Apart
  <2>2. Inner(md, x, TRUE)
    BY <1>1, <1>6, <2>1 DEF Inner, Same
  <2> QED
    BY <2>2, InnerIs
<1>9. \A x \in C : ~IsBusy(md, x) /\ ~IsCut(md, x)
  BY <1>7, <1>8 DEF First
<1>10. ASSUME NEW x \in Pages \ C PROVE Alike(nd[x], md[x])
  <2>1. x \in Nodes \ {r} /\ x \notin Heads /\ x # FreeHead /\ x # last
    BY <1>1, <1>2, <1>3, Apart
  <2>2. x = first => nd[x].next # Null
    BY <1>2, <2>1 DEF Owner, Kind
  <2> QED
    BY <1>4, <1>6, <2>1, <2>2 DEF Alike, Same
<1>11. Proper(md, r)
  <2>1. r + k <= site.pages
    BY <1>1, <1>3, PagesAre DEF C
  <2>2. \A i \in r + 1 .. r + k - 1 : Inner(md, i, IsFree(md, r))
    <3> TAKE i \in r + 1 .. r + k - 1
    <3>1. i \in C \ {r}
      BY <1>1 DEF C
    <3> QED
      BY <1>7, <1>8, <3>1 DEF Inner
  <2>3. k > 1 => md[r + k - 1].prev = r
    <3> SUFFICES ASSUME k > 1 PROVE md[last].prev = r
      BY <1>3
    <3>1. last # r
      BY <1>1, <1>3
    <3> QED
      BY <1>1, <1>2, <1>3, <1>4, <1>6, <3>1
  <2> QED
    BY <1>1, <1>7, <2>1, <2>2, <2>3 DEF Proper
<1>12. Laid(md, {}) /\ Joined(md, {})
  <2>1. {} \subseteq C /\ Span(md, r) = C \ {}
    BY <1>7
  <2>2. \A q \in Pages \ C : IsFree(nd, q) => q # r + Long(md, r) /\ r # q + Long(nd, q)
    BY <1>7 DEF C
  <2> QED
    BY <1>1, <1>7, <1>10, <1>11, <2>1, <2>2, Settle DEF Sound
<1>13. Lists(md, {})
  <2>1. Owner(nd, C, r) = Null /\ Owner(md, {}, r) = FreeHead
    BY <1>1, <1>2, <1>5, <1>6 DEF Owner, Kind
  <2>2. ASSUME NEW x \in Pages \ {r} PROVE Owner(md, {}, x) = Owner(nd, C, x)
    <3>1. x \notin Heads
      BY Apart
    <3>2. CASE x \in C
      BY <1>8, <3>1, <3>2 DEF Owner, Kind, Inner
    <3>3. CASE x \notin C
      BY <1>10, <3>1, <3>3, KindSame DEF Owner
    <3> QED
      BY <3>2, <3>3
  <2>3. \A x \in Nodes : Owner(nd, C, x) # Null => x \notin C
    BY <1>1 DEF Owner
  <2>4. md[r].next = nd[FreeHead].next /\ md[r].prev = FreeHead
    BY <1>5, <1>6 DEF first
  <2>5. \A x \in Nodes : Owner(nd, C, x) # Null =>
            md[x].next = IF x = FreeHead THEN r ELSE nd[x].next
    BY <1>1, <1>6, <2>3
  <2>6. \A x \in Pages : Owner(nd, C, x) # Null =>
            md[x].prev = IF x = nd[FreeHead].next THEN r ELSE nd[x].prev
    BY <1>1, <1>3, <1>4, <1>6, <2>3, Apart DEF first
  <2>7. Lists(nd, C)
    BY <1>1 DEF Sound
  <2> QED
    BY <1>1, <1>2, <2>1, <2>2, <2>4, <2>5, <2>6, <2>7, ListsInsert
<1>14. Sound(md, {})
  BY <1>1, <1>6, <1>12, <1>13 DEF Sound
<1> QED
  BY <1>9, <1>10, <1>14 DEF md, C, td, to, first

\* What is right about the pages outside B stays so when they stay alike.
LEMMA LaidSame ==
    ASSUME NEW nd, NEW md, NEW B, Laid(nd, B), Joined(nd, B),
           \A x \in Pages \ B : Alike(nd[x], md[x])
    PROVE  Laid(md, B) /\ Joined(md, B)
<1>1. \A x \in Pages \ B : /\ IsFree(md, x) <=> IsFree(nd, x)
                           /\ First(md, x) <=> First(nd, x)
                           /\ Long(md, x) = Long(nd, x) /\ Span(md, x) = Span(nd, x)
  BY Shape
<1>2. ASSUME NEW q \in Pages \ B, First(md, q)
      PROVE  Proper(md, q) /\ Span(md, q) \cap B = {}
  <2>1. First(nd, q) /\ Proper(nd, q) /\ Span(nd, q) \cap B = {}
    BY <1>1, <1>2 DEF Laid
  <2>2. \A x \in Span(nd, q) : Alike(nd[x], md[x])
    BY <2>1, SpanIs
  <2> QED
    BY <1>1, <2>1, <2>2, ProperSame
<1>3. ASSUME NEW i \in Pages \ B
      PROVE  \E q \in Pages \ B : First(md, q) /\ i \in Span(md, q)
  BY <1>1 DEF Laid
<1>4. Joined(md, B)
  BY <1>1 DEF Joined
<1> QED
  BY <1>2, <1>3, <1>4 DEF Laid

\* Pages that are given back: in no list, and with nothing of their use left.
Given(nd, p, n) ==
    /\ n \in Nat \ {0} /\ p \in Pages /\ p .. p + n - 1 \subseteq Pages
    /\ site.pages \in Nat /\ Typed(nd) /\ Lists(nd, {})
    /\ Laid(nd, p .. p + n - 1) /\ Joined(nd, p .. p + n - 1)
    /\ nd[p].next # Null => Owner(nd, {}, p) # Null
    /\ \A i \in p + 1 .. p + n - 1 : nd[i].next = Null

LEMMA ClearIs ==
    ASSUME NEW nd, NEW p, NEW n, Given(nd, p, n)
    PROVE  LET cd == [i \in DOMAIN nd |-> IF i = p THEN [nd[p] EXCEPT !.slab = n]
                                          ELSE IF i \in p + 1 .. p + n - 1 THEN Blank
                                          ELSE nd[i]]
               md == IF nd[p].next # Null THEN Unlinked(cd, p) ELSE cd
           IN /\ Loose(md, p, n)
              /\ \A x \in Pages \ (p .. p + n - 1) : Alike(nd[x], md[x])
<1> DEFINE cd == [i \in DOMAIN nd |-> IF i = p THEN [nd[p] EXCEPT !.slab = n]
                                      ELSE IF i \in p + 1 .. p + n - 1 THEN Blank
                                      ELSE nd[i]]
           md == IF nd[p].next # Null THEN Unlinked(cd, p) ELSE cd
           B == p .. p + n - 1
           a == nd[p].prev
           b == nd[p].next
<1>1. /\ n \in Nat \ {0} /\ p \in Pages /\ p \in Nat /\ B \subseteq Pages /\ site.pages \in Nat
      /\ Typed(nd) /\ Lists(nd, {}) /\ Laid(nd, B) /\ Joined(nd, B) /\ p \in B
      /\ p \in Nodes /\ B \subseteq Nodes /\ B \cap Heads = {}
  BY PagesAre, Apart DEF Given
<1>2. \A i \in B \ {p} : i \in p + 1 .. p + n - 1 /\ nd[i].next = Null
  BY <1>1 DEF Given
<1>3. /\ Typed(cd) /\ cd[p] = [nd[p] EXCEPT !.slab = n]
      /\ \A i \in p + 1 .. p + n - 1 : cd[i] = Blank
      /\ \A x \in Nodes \ B : cd[x] = nd[x]
  <2>1. Blank \in Node
    BY DEF Blank, Node, Null
  <2>2. nd \in [Nodes -> Node] /\ [nd[p] EXCEPT !.slab = n] \in Node
    BY <1>1 DEF Typed, Node
  <2>3. \A i \in p + 1 .. p + n - 1 : i \in Nodes /\ i # p
    BY <1>1
  <2>4. \A x \in Nodes \ B : x # p /\ x \notin p + 1 .. p + n - 1
    BY <1>1
  <2>5. \A i \in Nodes : cd[i] \in Node
    BY <2>1, <2>2
  <2>6. cd \in [Nodes -> Node]
    BY <2>2, <2>5
  <2> QED
    BY <1>1, <2>2, <2>3, <2>4, <2>6 DEF Typed
<1>4. cd[p].slab = n /\ cd[p].next = b /\ cd[p].prev = a /\ cd[p].type = nd[p].type
  BY <1>1, <1>3 DEF Typed, Node
<1>5. \A i \in B \ {p} : Inner(cd, i, TRUE)
  BY <1>2, <1>3 DEF Inner, Blank, PageFree
<1> HIDE DEF cd
<1>6. CASE b = Null
  <2>1. md = cd
    BY <1>6
  <2>2. \A x \in Pages \ B : Alike(nd[x], md[x])
    BY <1>3, <2>1, AlikeSelf, Apart
  <2>3. Laid(md, B) /\ Joined(md, B)
    BY <1>1, <2>2, LaidSame
  <2>4. Lists(md, B)
    <3>1. \A x \in Pages : Owner(md, B, x) = Owner(nd, {}, x)
      BY <1>1, <1>2, <1>3, <1>6, <2>1, Apart DEF Owner, Kind
    <3>2. \A x \in Nodes : Owner(nd, {}, x) # Null => x \notin B
      BY <1>1, <1>2, <1>6, Apart DEF Owner, Kind
    <3>3. \A x \in Nodes : Owner(nd, {}, x) # Null => md[x].next = nd[x].next
      BY <1>3, <2>1, <3>2
    <3>4. \A x \in Pages : Owner(nd, {}, x) # Null => md[x].prev = nd[x].prev
      BY <1>3, <2>1, <3>2, Apart
    <3> QED
      BY <1>1, <3>1, <3>3, <3>4, ListsKeep
  <2>5. Sound(md, B)
    BY <1>1, <1>3, <2>1, <2>3, <2>4 DEF Sound
  <2>6. \A i \in p + 1 .. p + n - 1 : i \in B \ {p}
    BY <1>1
  <2> QED
    BY <1>1, <1>4, <1>5, <2>1, <2>2, <2>5, <2>6 DEF Loose, md, cd
<1>7. CASE b # Null
  <2>0. md = Unlinked(cd, p)
    BY <1>7
  <2>1. Owner(nd, {}, p) # Null
    BY <1>7 DEF Given
  <2>2. /\ a \in Nodes /\ b \in Nodes /\ a # p /\ b # p
        /\ Owner(nd, {}, a) # Null /\ Owner(nd, {}, b) # Null
    BY <1>1, <2>1, ListsKnow
  <2>3. a \notin B /\ b \notin B /\ a # Null
    BY <1>1, <1>2, <2>2, Apart DEF Owner, Kind
  <2> HIDE DEF md, a, b
  <2>4. /\ Typed(md)
        /\ \A x \in Nodes : /\ Same(cd[x], md[x])
                            /\ md[x].next = IF x = a THEN b ELSE cd[x].next
                            /\ md[x].prev = IF x = b THEN a ELSE cd[x].prev
    <3>1. cd[p].prev \in Nodes /\ cd[p].next \in Nodes
      BY <1>4, <2>2
    <3>2. Typed(cd) /\ p \in Pages /\ site.pages \in Nat
      BY <1>1, <1>3
    <3>3. /\ Typed(md)
          /\ \A x \in Nodes :
                /\ Same(cd[x], md[x])
                /\ md[x].next = IF x = cd[p].prev THEN cd[p].next ELSE cd[x].next
                /\ md[x].prev = IF x = cd[p].next THEN cd[p].prev ELSE cd[x].prev
      BY <2>0, <3>1, <3>2, UnlinkedIs
    <3> QED
      BY <1>4, <3>3 DEF a, b
  <2>5. ASSUME NEW x \in Pages \ B PROVE Alike(nd[x], md[x])
    <3>1. x \in Nodes /\ x \notin Heads /\ cd[x] = nd[x]
      BY <1>3, Apart
    <3>2. x = a \/ x = b => nd[x].next # Null
      BY <2>2, <3>1 DEF Owner, Kind
    <3> QED
      BY <1>7, <2>4, <3>1, <3>2 DEF Alike, Same
  <2>6. Laid(md, B) /\ Joined(md, B)
    BY <1>1, <2>5, LaidSame
  <2>7. Lists(md, B)
    <3>1. \A x \in Pages \ {p} : Owner(md, B, x) = Owner(nd, {}, x)
      <4> TAKE x \in Pages \ {p}
      <4>1. CASE x \in B
        BY <1>1, <1>2, <4>1, Apart DEF Owner, Kind
      <4>2. CASE x \notin B
        BY <2>5, <4>2, KindSame DEF Owner
      <4> QED
        BY <4>1, <4>2
    <3>2. \A x \in Nodes \ {p} : Owner(nd, {}, x) # Null => x \notin B
      BY <1>1, <1>2, Apart DEF Owner, Kind
    <3>3. Owner(md, B, p) = Null
      BY <1>1, Apart DEF Owner
    <3>4. \A x \in Nodes \ {p} : Owner(nd, {}, x) # Null => md[x].next = IF x = a THEN b ELSE nd[x].next
      BY <1>3, <2>4, <3>2
    <3>5. \A x \in Pages \ {p} : Owner(nd, {}, x) # Null => md[x].prev = IF x = b THEN a ELSE nd[x].prev
      BY <1>3, <2>4, <3>2, Apart
    <3> QED
      BY <1>1, <2>1, <3>1, <3>3, <3>4, <3>5, ListsUnlink DEF a, b
  <2>8. Sound(md, B)
    BY <1>1, <2>4, <2>6, <2>7 DEF Sound
  <2>9. \A i \in p + 1 .. p + n - 1 : Inner(md, i, TRUE)
    <3> TAKE i \in p + 1 .. p + n - 1
    <3>1. i \in B \ {p} /\ i \in Nodes /\ i # a
      BY <1>1, <2>3
    <3>2. Inner(cd, i, TRUE)
      BY <1>5, <3>1
    <3> QED
      BY <2>4, <3>1, <3>2 DEF Inner, Same
  <2>10. md[p].slab = n
    BY <1>1, <1>4, <2>4 DEF Same
  <2> QED
    BY <1>1, <2>5, <2>8, <2>9, <2>10 DEF Loose, md, cd
<1> QED
  BY <1>6, <1>7

\* A page is in use as it was, or is still unused.
Keeps(nd, md, x) == \/ Alike(nd[x], md[x])
                    \/ ~IsBusy(nd, x) /\ ~IsCut(nd, x) /\ ~IsBusy(md, x) /\ ~IsCut(md, x)

\* A page still in chunks is cut as it was.
CutAlike(n, m) == m.type = n.type /\ m.slab = n.slab

LEMMA FreePagesSound ==
    ASSUME NEW nd, NEW p, NEW n, Given(nd, p, n)
    PROVE  LET md == FreePages(nd, p, n)
           IN /\ Sound(md, {})
              /\ \A x \in Pages \ (p .. p + n - 1) : Keeps(nd, md, x)
              /\ \A x \in p .. p + n - 1 : ~IsBusy(md, x) /\ ~IsCut(md, x)
<1> DEFINE cd == [i \in DOMAIN nd |-> IF i = p THEN [nd[p] EXCEPT !.slab = n]
                                      ELSE IF i \in p + 1 .. p + n - 1 THEN Blank
                                      ELSE nd[i]]
           ld == IF nd[p].next # Null THEN Unlinked(cd, p) ELSE cd
           jd == JoinNext(ld, p)
           q == RunBefore(jd, p)
           run == IF q # Null THEN q ELSE p
           wd == IF q # Null
                 THEN [Unlinked(jd, q) EXCEPT ![q].slab = jd[q].slab + jd[p].slab, ![p] = Swallowed]
                 ELSE jd
           first == wd[FreeHead].next
           md == [Tagged(wd, run) EXCEPT
                     ![run] = [Blank EXCEPT !.slab = wd[run].slab, !.next = first, !.prev = FreeHead],
                     ![first].prev = run, ![FreeHead].next = run]
           B == p .. p + n - 1
<1>0. FreePages(nd, p, n) = md
  BY DEF FreePages
<1>1. Loose(ld, p, n) /\ \A x \in Pages \ B : Alike(nd[x], ld[x])
  <2> HIDE DEF B
  <2> QED
    BY ClearIs DEF B
<1> HIDE DEF ld
<1>2. PICK k \in Nat : /\ Loose(jd, p, k) /\ n <= k
                       /\ \A x \in Pages \ (p .. p + k - 1) : Alike(ld[x], jd[x])
                       /\ \A x \in p + n .. p + k - 1 : ~IsBusy(ld, x) /\ ~IsCut(ld, x)
                       /\ p + k \in Pages => ~IsFree(jd, p + k)
  BY <1>1, JoinNextIs
<1> HIDE DEF jd
<1> DEFINE C == p .. p + k - 1
<1>3. PICK m \in Nat :
              /\ Loose(wd, run, m) /\ C \subseteq run .. run + m - 1
              /\ \A x \in Pages \ (run .. run + m - 1) : Alike(jd[x], wd[x])
              /\ \A x \in (run .. run + m - 1) \ C : ~IsBusy(jd, x) /\ ~IsCut(jd, x)
              /\ run + m \in Pages => ~IsFree(wd, run + m)
              /\ \A x \in Pages \ (run .. run + m - 1) : IsFree(wd, x) => x + Long(wd, x) # run
  BY <1>2, JoinBeforeIs
<1> HIDE DEF wd, run
<1> DEFINE D == run .. run + m - 1
<1>4. /\ Sound(md, {}) /\ \A x \in Pages \ D : Alike(wd[x], md[x])
      /\ \A x \in D : ~IsBusy(md, x) /\ ~IsCut(md, x)
  BY <1>3, FinalIs
<1>5. B \subseteq C /\ \A x \in C \ B : x \in p + n .. p + k - 1
  BY <1>1, <1>2, PagesAre DEF Loose, Sound
<1> HIDE DEF md
<1>6. ASSUME NEW x \in Pages \ B PROVE Keeps(nd, md, x)
  <2>1. Alike(nd[x], ld[x])
    BY <1>1
  <2> HIDE DEF B, C, D
  <2>2. CASE x \in C
    <3>1. ~IsBusy(nd, x) /\ ~IsCut(nd, x)
      BY <1>2, <1>5, <2>1, <2>2, Shape
    <3> QED
      BY <1>3, <1>4, <2>2, <3>1 DEF Keeps, D
  <2>3. CASE x \notin C
    <3>1. Alike(nd[x], jd[x])
      BY <1>2, <2>1, <2>3, AlikeTrans DEF C
    <3>2. CASE x \in D
      <4>1. ~IsBusy(nd, x) /\ ~IsCut(nd, x)
        BY <1>3, <2>3, <3>1, <3>2, Shape DEF D
      <4> QED
        BY <1>4, <3>2, <4>1 DEF Keeps
    <3>3. CASE x \notin D
      BY <1>3, <1>4, <3>1, <3>3, AlikeTrans DEF Keeps, D
    <3> QED
      BY <3>2, <3>3
  <2> QED
    BY <2>2, <2>3
<1>7. \A x \in B : ~IsBusy(md, x) /\ ~IsCut(md, x)
  BY <1>3, <1>4, <1>5
<1> QED
  BY <1>0, <1>4, <1>6, <1>7

----------------------------------------------------------------------------
(* The search of the free list                                             *)

\* Which list a page is in tells what it is used for.
LEMMA OwnerIs ==
    ASSUME NEW nd, Sound(nd, {}), NEW x \in Pages
    PROVE  /\ Owner(nd, {}, x) = Kind(nd[x])
           /\ Owner(nd, {}, x) = FreeHead <=> IsFree(nd, x)
           /\ \A s \in MinShift .. PageShift - 1 : Owner(nd, {}, x) = SlotHead(s - MinShift) <=>
                               IsCut(nd, x) /\ nd[x].slab = s /\ nd[x].next # Null
<1>1. Owner(nd, {}, x) = Kind(nd[x])
  BY Apart DEF Owner
<1>2. IsCut(nd, x) => nd[x].slab \in MinShift .. PageShift - 1
  BY DEF Sound, Laid, First, Proper, CutRight
<1>3. MinShift \in Nat /\ PageShift \in Nat
  BY Sizes
<1> QED
  BY <1>1, <1>2, <1>3 DEF Kind, IsFree, IsCut, FreeHead, SlotHead, Null

LEMMA FreeLinks ==
    ASSUME NEW nd, Sound(nd, {})
    PROVE  \E m, rank :
              /\ m \in Nat /\ rank \in [Pages -> -m .. m]
              /\ FreeHead \notin FreeRuns(nd) /\ FreeRuns(nd) \subseteq Pages
              /\ nd[FreeHead].next \in FreeRuns(nd) \cup {FreeHead}
              /\ \A p \in FreeRuns(nd) :
                    /\ nd[p].next \in FreeRuns(nd) \cup {FreeHead}
                    /\ nd[p].next \in FreeRuns(nd) => rank[p] < rank[nd[p].next]
                    /\ nd[p].prev \in FreeRuns(nd) \cup {FreeHead}
                    /\ nd[nd[p].prev].next = p
<1> DEFINE own == Own(nd, {})
<1>1. PICK m, rank : Links(nd, own, rank, m)
  BY DEF Sound, Lists
<1>2. \A x \in Nodes : own[x] = Owner(nd, {}, x)
  BY OwnIs
<1>3. \A x \in Pages : x \in FreeRuns(nd) <=> own[x] = FreeHead
  BY <1>2, OwnerIs, Apart DEF FreeRuns, IsFree
<1>4. \A x \in Heads : own[x] = FreeHead <=> x = FreeHead
  BY <1>2, Apart DEF Owner
<1>5. FreeHead \in Nodes /\ FreeHead \in Heads /\ FreeHead \notin Pages /\ FreeHead # Null
  BY Apart DEF FreeHead, Null
<1> HIDE DEF own
<1>6. ASSUME NEW p \in FreeRuns(nd)
      PROVE  /\ nd[p].next \in FreeRuns(nd) \cup {FreeHead}
             /\ nd[p].next \in FreeRuns(nd) => rank[p] < rank[nd[p].next]
             /\ nd[p].prev \in FreeRuns(nd) \cup {FreeHead}
             /\ nd[nd[p].prev].next = p
  <2>1. p \in Pages /\ p \in Nodes /\ own[p] = FreeHead
    BY <1>3, Apart DEF FreeRuns
  <2>2. /\ nd[p].next \in Nodes /\ own[nd[p].next] = FreeHead
        /\ nd[p].prev \in Nodes /\ own[nd[p].prev] = FreeHead
        /\ nd[nd[p].prev].next = p
        /\ nd[p].next \in Pages => rank[p] < rank[nd[p].next]
    BY <1>1, <1>5, <2>1 DEF Links
  <2>3. FreeRuns(nd) \subseteq Pages /\ Nodes = Pages \cup Heads
    BY Apart DEF FreeRuns
  <2>4. nd[p].next \in FreeRuns(nd) \cup {FreeHead}
    BY <1>3, <1>4, <2>2, <2>3
  <2>5. nd[p].prev \in FreeRuns(nd) \cup {FreeHead}
    BY <1>3, <1>4, <2>2, <2>3
  <2> QED
    BY <2>2, <2>3, <2>4, <2>5
<1>7. nd[FreeHead].next \in FreeRuns(nd) \cup {FreeHead}
  <2>1. nd[FreeHead].next \in Nodes /\ own[nd[FreeHead].next] = FreeHead
    BY <1>1, <1>4, <1>5 DEF Links
  <2> QED
    BY <1>3, <1>4, <2>1, Apart
<1>8. m \in Nat /\ rank \in [Pages -> -m .. m]
  BY <1>1 DEF Links
<1>9. FreeHead \notin FreeRuns(nd) /\ FreeRuns(nd) \subseteq Pages
  BY <1>5 DEF FreeRuns
<1> QED
  BY <1>6, <1>7, <1>8, <1>9

Fits(nd, n, D, f) == f = [p \in D |-> IF p = FreeHead THEN Null
                                      ELSE IF nd[p].slab >= n THEN p
                                      ELSE f[nd[p].next]]

LEMMA FitIs ==
    ASSUME NEW nd, NEW n
    PROVE  FirstFit(nd, n) = (CHOOSE f : Fits(nd, n, FreeRuns(nd) \cup {FreeHead}, f))[nd[FreeHead].next]
BY Zenon DEF FirstFit, Fits

\* The search ends: the list is built from its end.
LEMMA FitExists ==
    ASSUME NEW nd, Sound(nd, {}), NEW n
    PROVE  \E f : Fits(nd, n, FreeRuns(nd) \cup {FreeHead}, f)
<1> DEFINE F == FreeRuns(nd)
<1>1. PICK m, rank :
              /\ m \in Nat /\ rank \in [Pages -> -m .. m]
              /\ FreeHead \notin F /\ F \subseteq Pages
              /\ \A p \in F : /\ nd[p].next \in F \cup {FreeHead}
                              /\ nd[p].next \in F => rank[p] < rank[nd[p].next]
  BY FreeLinks
<1> HIDE DEF F
<1> DEFINE D(i) == {p \in F \cup {FreeHead} : p = FreeHead \/ rank[p] > m - i}
           S == {i \in Nat : \E f : Fits(nd, n, D(i), f)}
<1>2. 0 \in S
  <2>1. Fits(nd, n, D(0), [p \in D(0) |-> Null])
    <3>1. \A p \in D(0) : p = FreeHead
      BY <1>1
    <3> HIDE DEF D
    <3> QED
      BY <3>1 DEF Fits
  <2> QED
    BY <2>1
<1>3. ASSUME NEW i \in Nat, i \in S PROVE i + 1 \in S
  <2>1. PICK f : Fits(nd, n, D(i), f)
    BY <1>3
  <2> DEFINE g == [p \in D(i + 1) |-> IF p = FreeHead THEN Null
                                      ELSE IF nd[p].slab >= n THEN p
                                      ELSE f[nd[p].next]]
  <2>2. \A p \in D(i) : p \in D(i + 1)
    BY <1>1
  <2>3. \A p \in D(i + 1) : p # FreeHead => nd[p].next \in D(i)
    BY <1>1
  <2> HIDE DEF D
  <2>4. \A p \in D(i) : g[p] = f[p]
    <3> TAKE p \in D(i)
    <3>1. f[p] = IF p = FreeHead THEN Null ELSE IF nd[p].slab >= n THEN p ELSE f[nd[p].next]
      BY <2>1 DEF Fits
    <3> QED
      BY <2>2, <3>1
  <2>5. g = [p \in D(i + 1) |-> IF p = FreeHead THEN Null
                                ELSE IF nd[p].slab >= n THEN p
                                ELSE g[nd[p].next]]
    <3>1. \A p \in D(i + 1) : p # FreeHead => g[nd[p].next] = f[nd[p].next]
      BY <2>3, <2>4
    <3>2. \A p \in D(i + 1) : (IF p = FreeHead THEN Null ELSE IF nd[p].slab >= n THEN p ELSE f[nd[p].next])
                            = (IF p = FreeHead THEN Null ELSE IF nd[p].slab >= n THEN p ELSE g[nd[p].next])
      BY <3>1
    <3> QED
      BY <3>2
  <2>6. Fits(nd, n, D(i + 1), g)
    BY <2>5 DEF Fits
  <2> QED
    BY <2>6
<1> HIDE DEF S
<1>4. m + m + 1 \in S
  BY <1>1, <1>2, <1>3, SetInduction
<1>5. D(m + m + 1) = F \cup {FreeHead}
  <2>1. \A p \in F : rank[p] > m - (m + m + 1)
    BY <1>1
  <2> QED
    BY <2>1
<1> HIDE DEF D
<1> QED
  BY <1>4, <1>5 DEF S, F

\* It finds a run that is long enough if there is one.
LEMMA FirstFitIs ==
    ASSUME NEW nd, Sound(nd, {}), NEW n \in Nat \ {0}
    PROVE  LET r == FirstFit(nd, n)
           IN /\ r # Null => r \in Pages /\ IsFree(nd, r) /\ n <= Long(nd, r)
              /\ r = Null => \A q \in Pages : IsFree(nd, q) => Long(nd, q) < n
<1> DEFINE F == FreeRuns(nd)
           f == CHOOSE g : Fits(nd, n, F \cup {FreeHead}, g)
           r == FirstFit(nd, n)
<1>1. PICK m, rank :
              /\ m \in Nat /\ rank \in [Pages -> -m .. m]
              /\ FreeHead \notin F /\ F \subseteq Pages
              /\ nd[FreeHead].next \in F \cup {FreeHead}
              /\ \A p \in F : /\ nd[p].next \in F \cup {FreeHead}
                              /\ nd[p].next \in F => rank[p] < rank[nd[p].next]
                              /\ nd[p].prev \in F \cup {FreeHead}
                              /\ nd[nd[p].prev].next = p
  BY FreeLinks
<1>2. Fits(nd, n, F \cup {FreeHead}, f)
  BY FitExists
<1>3. r = f[nd[FreeHead].next]
  BY FitIs
<1>4. \A p \in Pages : p \in F <=> IsFree(nd, p)
  BY DEF FreeRuns, IsFree
<1>5. \A p \in F : nd[p].slab \in Int /\ Long(nd, p) = nd[p].slab /\ p \in Nat /\ p # Null
  <2> TAKE p \in F
  <2>1. p \in Pages /\ IsFree(nd, p)
    BY <1>1, <1>4
  <2>2. Long(nd, p) = nd[p].slab /\ nd[p].slab \in Nat \ {0}
    BY <2>1, FreeIs
  <2> QED
    BY <2>1, <2>2, Apart DEF Null
<1>s. n \in Int /\ FreeHead # Null
  BY DEF FreeHead, Null
<1> HIDE DEF F, f, r
<1>6. f[FreeHead] = Null /\ \A p \in F : f[p] = IF nd[p].slab >= n THEN p ELSE f[nd[p].next]
  <2>1. \A p \in F \cup {FreeHead} : f[p] = IF p = FreeHead THEN Null
                                            ELSE IF nd[p].slab >= n THEN p
                                            ELSE f[nd[p].next]
    BY <1>2 DEF Fits
  <2> QED
    BY <1>1, <2>1
<1>7. ASSUME r # Null PROVE r \in Pages /\ IsFree(nd, r) /\ n <= Long(nd, r)
  <2> DEFINE S == {i \in Nat : \A p \in F : rank[p] > m - i /\ f[p] # Null =>
                                     f[p] \in F /\ nd[f[p]].slab >= n}
  <2>1. 0 \in S
    BY <1>1
  <2>2. ASSUME NEW i \in Nat, i \in S PROVE i + 1 \in S
    <3> SUFFICES ASSUME NEW p \in F, rank[p] > m - (i + 1), f[p] # Null
                 PROVE  f[p] \in F /\ nd[f[p]].slab >= n
      OBVIOUS
    <3>1. CASE nd[p].slab >= n
      BY <1>6, <3>1
    <3>2. CASE ~(nd[p].slab >= n)
      <4>1. f[p] = f[nd[p].next] /\ nd[p].next \in F
        BY <1>1, <1>6, <3>2
      <4>2. rank[nd[p].next] > m - i
        BY <1>1, <4>1
      <4> QED
        BY <2>2, <4>1, <4>2
    <3> QED
      BY <3>1, <3>2
  <2> HIDE DEF S
  <2>3. m + m + 1 \in S
    BY <1>1, <2>1, <2>2, SetInduction
  <2>4. \A p \in F : rank[p] > m - (m + m + 1)
    BY <1>1
  <2>5. nd[FreeHead].next \in F
    BY <1>1, <1>3, <1>6, <1>7
  <2>6. r \in F /\ nd[r].slab >= n
    BY <1>3, <1>7, <2>3, <2>4, <2>5 DEF S
  <2> QED
    BY <1>1, <1>4, <1>5, <2>6
<1>8. ASSUME r = Null PROVE \A q \in Pages : IsFree(nd, q) => Long(nd, q) < n
  <2> DEFINE S == {i \in Nat : \A p \in F : rank[p] < i - m => f[p] = Null}
  <2>1. 0 \in S
    BY <1>1
  <2>2. ASSUME NEW i \in Nat, i \in S PROVE i + 1 \in S
    <3> SUFFICES ASSUME NEW p \in F, rank[p] < (i + 1) - m
                 PROVE  f[p] = Null
      OBVIOUS
    <3>1. CASE nd[p].prev = FreeHead
      <4>1. nd[FreeHead].next = p
        BY <1>1, <3>1
      <4> QED
        BY <1>3, <1>8, <4>1
    <3>2. CASE nd[p].prev \in F
      <4>1. nd[nd[p].prev].next = p /\ rank[nd[p].prev] < rank[p]
        BY <1>1, <3>2
      <4>2. rank[nd[p].prev] < i - m
        BY <1>1, <3>2, <4>1
      <4>3. f[nd[p].prev] = Null
        BY <2>2, <3>2, <4>2
      <4> QED
        BY <1>5, <1>6, <3>2, <4>1, <4>3
    <3> QED
      BY <1>1, <3>1, <3>2
  <2> HIDE DEF S
  <2>3. m + m + 1 \in S
    BY <1>1, <2>1, <2>2, SetInduction
  <2>4. \A p \in F : rank[p] < (m + m + 1) - m
    BY <1>1
  <2>5. \A p \in F : f[p] = Null
    BY <2>3, <2>4 DEF S
  <2>6. \A p \in F : ~(nd[p].slab >= n)
    BY <1>5, <1>6, <2>5
  <2> QED
    BY <1>4, <1>5, <1>s, <2>6
<1> QED
  BY <1>7, <1>8 DEF r

----------------------------------------------------------------------------
(* What the callers hold                                                   *)

PageOf(b) == b.at \div PageSize

\* The block is the run at p, or chunk c of the page.
RunBlock(nd, p, b) == /\ IsBusy(nd, p) /\ b.at = p * PageSize /\ PageOf(b) = p
                      /\ b.size \in Nat /\ b.size > MaxSize /\ PagesFor(b.size) = Long(nd, p)

ChunkBlock(nd, p, c, b) ==
    LET shift == nd[p].slab
    IN /\ IsCut(nd, p) /\ c \in nd[p].taken \ Header(shift)
       /\ b.at = p * PageSize + c * 2 ^ shift
       /\ PageOf(b) = p /\ (b.at % PageSize) \div 2 ^ shift = c
       /\ b.size \in Nat \ {0} /\ b.size <= MaxSize /\ Shift(b.size) = shift

\* On a page in use, the blocks are the run or the taken chunks, one each.
HeldOn(nd, held, p) ==
    /\ \A b \in held : PageOf(b) = p => RunBlock(nd, p, b) \/ \E c : ChunkBlock(nd, p, c, b)
    /\ IsBusy(nd, p) => \E b \in held : RunBlock(nd, p, b)
    /\ IsCut(nd, p) => \A c \in nd[p].taken \ Header(nd[p].slab) : \E b \in held : ChunkBlock(nd, p, c, b)
    /\ \A b, c \in held : PageOf(b) = p /\ PageOf(c) = p /\ b.at = c.at => b = c

Held(nd, held) == /\ \A b \in held : PageOf(b) \in Pages
                  /\ \A p \in Pages : HeldOn(nd, held, p)

\* What is kept holds the blocks it held.
LEMMA BlocksKeep ==
    ASSUME NEW nd, NEW md, NEW held, NEW left, NEW x, Keeps(nd, md, x), HeldOn(nd, held, x),
           \A b : PageOf(b) = x => (b \in left <=> b \in held)
    PROVE  HeldOn(md, left, x)
<1>1. \A b, c : RunBlock(nd, x, b) \/ ChunkBlock(nd, x, c, b) => PageOf(b) = x
  BY DEF RunBlock, ChunkBlock
<1>2. CASE Alike(nd[x], md[x])
  <2>1. /\ IsBusy(md, x) <=> IsBusy(nd, x)
        /\ IsCut(md, x) <=> IsCut(nd, x)
        /\ Long(md, x) = Long(nd, x)
        /\ md[x].slab = nd[x].slab /\ md[x].taken = nd[x].taken
    BY <1>2, Shape DEF Alike
  <2>2. \A b : RunBlock(md, x, b) <=> RunBlock(nd, x, b)
    BY <2>1 DEF RunBlock
  <2>3. \A b, c : ChunkBlock(md, x, c, b) <=> ChunkBlock(nd, x, c, b)
    BY <2>1 DEF ChunkBlock
  <2>4. IsBusy(md, x) => \E b \in left : RunBlock(md, x, b)
    BY <1>1, <2>1, <2>2 DEF HeldOn
  <2>5. IsCut(md, x) => \A c \in md[x].taken \ Header(md[x].slab) : \E b \in left : ChunkBlock(md, x, c, b)
    BY <1>1, <2>1, <2>3 DEF HeldOn
  <2>6. \A b \in left : PageOf(b) = x => RunBlock(md, x, b) \/ \E c : ChunkBlock(md, x, c, b)
    BY <2>2, <2>3 DEF HeldOn
  <2>7. \A b, c \in left : PageOf(b) = x /\ PageOf(c) = x /\ b.at = c.at => b = c
    BY DEF HeldOn
  <2> QED
    BY <2>4, <2>5, <2>6, <2>7 DEF HeldOn
<1>3. CASE ~IsBusy(nd, x) /\ ~IsCut(nd, x) /\ ~IsBusy(md, x) /\ ~IsCut(md, x)
  <2>1. \A b \in held : PageOf(b) # x
    BY <1>3 DEF HeldOn, RunBlock, ChunkBlock
  <2> QED
    BY <1>3, <2>1 DEF HeldOn
<1> QED
  BY <1>2, <1>3 DEF Keeps

\* A call changes the blocks of one page.
LEMMA HeldStep ==
    ASSUME NEW nd, NEW md, NEW held, NEW left, Held(nd, held), NEW p \in Pages,
           \A x \in Pages \ {p} : Keeps(nd, md, x),
           \A b : PageOf(b) # p => (b \in left <=> b \in held),
           HeldOn(md, left, p)
    PROVE  Held(md, left)
<1>1. \A b \in left : PageOf(b) \in Pages
  BY DEF Held
<1>2. ASSUME NEW x \in Pages \ {p} PROVE HeldOn(md, left, x)
  <2>1. HeldOn(nd, held, x) /\ Keeps(nd, md, x)
    BY DEF Held
  <2>2. \A b : PageOf(b) = x => (b \in left <=> b \in held)
    OBVIOUS
  <2> QED
    BY <2>1, <2>2, BlocksKeep
<1> QED
  BY <1>1, <1>2 DEF Held

\* A page that is not in use holds nothing.
LEMMA NoneOn ==
    ASSUME NEW nd, NEW held, NEW p, HeldOn(nd, held, p), ~IsBusy(nd, p), ~IsCut(nd, p)
    PROVE  \A b \in held : PageOf(b) # p
BY DEF HeldOn, RunBlock, ChunkBlock

----------------------------------------------------------------------------
(* The calls                                                               *)

\* Room for a run is found in one of the free ones.
LEMMA RunTaken ==
    ASSUME NEW nd, NEW held, Sound(nd, {}), Held(nd, held),
           NEW size \in Nat \ {0}, size > MaxSize, FirstFit(nd, PagesFor(size)) # Null
    PROVE  LET p == FirstFit(nd, PagesFor(size))
               md == AllocPages(nd, p, PagesFor(size))
               new == Block(p, 0, 0, size)
           IN Sound(md, {}) /\ Held(md, held \cup {new}) /\ new \notin held
<1> DEFINE n == PagesFor(size)
           p == FirstFit(nd, n)
           md == AllocPages(nd, p, n)
           new == Block(p, 0, 0, size)
           left == held \cup {new}
<1>1. n \in Nat \ {0}
  BY PagesForIs
<1>2. p \in Pages /\ IsFree(nd, p) /\ n <= Long(nd, p)
  BY <1>1, FirstFitIs
<1> HIDE DEF n, p
<1>3. /\ Sound(md, {}) /\ IsBusy(md, p) /\ Long(md, p) = n
      /\ \A x \in Pages \ Span(nd, p) : Alike(nd[x], md[x])
      /\ \A x \in Span(nd, p) \ {p} : ~IsBusy(md, x) /\ ~IsCut(md, x)
  BY <1>1, <1>2, AllocSound
<1>4. \A x \in Span(nd, p) : ~IsBusy(nd, x) /\ ~IsCut(nd, x)
  <2>1. Proper(nd, p) /\ ~IsBusy(nd, p) /\ ~IsCut(nd, p)
    BY <1>2, FreeIs DEF IsFree, IsBusy, IsCut
  <2>2. \A x \in Span(nd, p) \ {p} : ~First(nd, x)
    BY <1>2, <2>1, SpanIs
  <2> QED
    BY <2>1, <2>2 DEF First
<1>5. p \in Nat /\ p \in Span(nd, p) /\ PageSize \in Nat \ {0}
  <2>1. Proper(nd, p)
    BY <1>2, FreeIs
  <2> QED
    BY <1>2, <2>1, SpanIs, Sizes, Apart
<1>6. new.at = p * PageSize /\ PageOf(new) = p /\ new.size = size
  <2>1. new.at = p * PageSize + 0 /\ p * PageSize \in Nat /\ new.size = size
    BY <1>5 DEF Block
  <2>2. (p * PageSize + 0) \div PageSize = p
    BY <1>5, DivideBack
  <2> QED
    BY <2>1, <2>2 DEF PageOf
<1> HIDE DEF md, new
<1>7. RunBlock(md, p, new)
  BY <1>3, <1>6 DEF RunBlock, n
<1>8. HeldOn(md, left, p)
  <2>1. \A b \in held : PageOf(b) # p
    BY <1>2, <1>4, <1>5, NoneOn DEF Held
  <2>2. ~IsCut(md, p)
    BY <1>3 DEF IsBusy, IsCut
  <2> QED
    BY <1>7, <2>1, <2>2 DEF HeldOn
<1>9. \A x \in Pages \ {p} : Keeps(nd, md, x)
  BY <1>3, <1>4 DEF Keeps
<1>10. \A b : PageOf(b) # p => (b \in left <=> b \in held)
  BY <1>6
<1>n. new \notin held
  <2>1. HeldOn(nd, held, p) /\ ~IsBusy(nd, p) /\ ~IsCut(nd, p)
    BY <1>2, <1>4, <1>5 DEF Held
  <2> QED
    BY <1>6, <2>1, NoneOn
<1> HIDE DEF left
<1>11. Held(md, left)
  BY <1>2, <1>8, <1>9, <1>10, HeldStep
<1> QED
  BY <1>3, <1>11, <1>n DEF left, new, md, p, n

\* A run that is given back is free again.
LEMMA RunGiven ==
    ASSUME NEW nd, NEW held, Sound(nd, {}), Held(nd, held), NEW b \in held,
           NEW p, p = PageOf(b), nd[p].type = "page"
    PROVE  LET md == FreePages(nd, p, nd[p].slab - PageStart)
           IN /\ Sound(md, {}) /\ Held(md, held \ {b})
              /\ \A x \in Pages : IsCut(md, x) => CutAlike(nd[x], md[x])
<1> DEFINE n == nd[p].slab - PageStart
           md == FreePages(nd, p, n)
           B == p .. p + n - 1
<1>1. p \in Pages /\ RunBlock(nd, p, b) /\ IsBusy(nd, p)
  BY DEF Held, HeldOn, RunBlock, ChunkBlock, IsCut
<1>2. First(nd, p) /\ Proper(nd, p) /\ Long(nd, p) = n /\ nd[p].next = Null
  BY <1>1 DEF First, Sound, Laid, Long, IsBusy, IsCut, IsFree
<1>3. /\ n \in Nat \ {0} /\ Span(nd, p) = B /\ B \subseteq Pages /\ p \in B
      /\ \A i \in B \ {p} : nd[i].next = Null /\ ~First(nd, i)
  <2>1. Span(nd, p) = B
    BY <1>2 DEF Span
  <2> HIDE DEF B, n
  <2> QED
    BY <1>1, <1>2, <2>1, SpanIs DEF Inner
<1>4. Given(nd, p, n)
  <2>1. {} \cup Span(nd, p) = B
    BY <1>3
  <2>2. Laid(nd, B) /\ Joined(nd, B)
    <3> HIDE DEF B
    <3> QED
      BY <1>1, <1>2, <2>1, AlikeSelf, Grow DEF Sound
  <2>3. \A i \in p + 1 .. p + n - 1 : i \in B \ {p}
    BY <1>1, <1>3, Apart
  <2> HIDE DEF n
  <2> QED
    BY <1>1, <1>2, <1>3, <2>2, <2>3 DEF Given, Sound
<1>5. /\ Sound(md, {})
      /\ \A x \in Pages \ B : Keeps(nd, md, x)
      /\ \A x \in B : ~IsBusy(md, x) /\ ~IsCut(md, x)
  BY <1>4, FreePagesSound
<1> HIDE DEF md, B, n
<1>6. \A x \in Pages \ {p} : Keeps(nd, md, x)
  BY <1>3, <1>5 DEF Keeps, First
<1>7. HeldOn(md, held \ {b}, p)
  <2>1. \A c \in held : PageOf(c) = p => c.at = b.at
    BY <1>1 DEF Held, HeldOn, RunBlock, ChunkBlock, IsCut
  <2>2. \A c \in held \ {b} : PageOf(c) # p
    BY <1>1, <2>1 DEF Held, HeldOn
  <2> QED
    BY <1>3, <1>5, <2>2 DEF HeldOn
<1>8. \A c : PageOf(c) # p => (c \in held \ {b} <=> c \in held)
  OBVIOUS
<1>9. Held(md, held \ {b})
  BY <1>1, <1>6, <1>7, <1>8, HeldStep
<1>10. \A x \in Pages : IsCut(md, x) => CutAlike(nd[x], md[x])
  BY <1>3, <1>5, <1>6 DEF Keeps, Alike, CutAlike
<1> QED
  BY <1>5, <1>9, <1>10 DEF md, n

LEMMA SlotIs ==
    ASSUME NEW s \in MinShift .. PageShift - 1
    PROVE  LET h == SlotHead(s - MinShift)
           IN h \in Heads /\ h \in Nodes /\ h \notin Pages /\ h # FreeHead /\ h # Null
<1>1. s - MinShift \in Slots /\ s - MinShift \in Nat
  BY Sizes DEF Slots
<1> QED
  BY <1>1, Apart DEF Heads, SlotHead, FreeHead, Null

LEMMA BlockIs ==
    ASSUME NEW p \in Nat, NEW s \in MinShift .. PageShift - 1, NEW c \in Chunks(s), NEW size
    PROVE  LET b == Block(p, c, s, size)
           IN /\ b.at = p * PageSize + c * 2 ^ s /\ b.size = size
              /\ PageOf(b) = p /\ (b.at % PageSize) \div 2 ^ s = c
<1> DEFINE b == Block(p, c, s, size)
           w == 2 ^ s
           k == 2 ^ (PageShift - s)
           at == p * PageSize + c * w
<1>1. b.at = at /\ b.size = size
  BY DEF Block
<1>2. /\ w \in Nat \ {0} /\ k \in Nat /\ k * w = PageSize /\ c \in 0 .. k - 1 /\ PageSize \in Nat \ {0}
  BY ChunkSizes, Sizes
<1> HIDE DEF w, k, at
<1>3. c * w \in Nat /\ c * w < PageSize
  <2>1. c * w + w <= k * w
    BY <1>2, Times
  <2>2. c * w \in Nat
    BY <1>2
  <2> QED
    BY <1>2, <2>1, <2>2
<1>4. at \div PageSize = p /\ at % PageSize = c * w
  BY <1>2, <1>3, DivideBack DEF at
<1>5. (c * w) \div w = c
  <2>1. (c * w + 0) \div w = c
    BY <1>2, DivideBack
  <2> QED
    BY <1>3, <2>1
<1> QED
  BY <1>1, <1>4, <1>5 DEF PageOf, at, w

\* A page that is cut into chunks, and as it should be, settles where it is.
LEMMA Recut ==
    ASSUME NEW nd, NEW md, Sound(nd, {}), NEW p \in Pages, First(nd, p), Long(nd, p) = 1,
           Typed(md), Lists(md, {}), \A x \in Pages \ {p} : Alike(nd[x], md[x]),
           IsCut(md, p), CutRight(md[p])
    PROVE  Sound(md, {})
<1>1. p \in Nat /\ site.pages \in Nat /\ p < site.pages
  BY PagesAre DEF Sound
<1>2. {} \cup Span(nd, p) = {p}
  BY <1>1 DEF Span
<1>3. Laid(md, {p}) /\ Joined(md, {p})
  BY <1>2, Grow DEF Sound
<1>4. Long(md, p) = 1 /\ ~IsFree(md, p) /\ First(md, p) /\ Span(md, p) = {p} \ {}
  BY <1>1 DEF Long, IsFree, IsCut, First, Span
<1>5. Proper(md, p)
  BY <1>1, <1>4 DEF Proper
<1>6. Laid(md, {}) /\ Joined(md, {})
  BY <1>3, <1>4, <1>5, AlikeSelf, Settle
<1> QED
  BY <1>1, <1>6 DEF Sound

FreeChunk(nd, shift, p) == Least(Chunks(shift) \ nd[p].taken)

Taking(nd, shift, p) ==
    LET taken == nd[p].taken \cup {FreeChunk(nd, shift, p)}
        out == [Unlinked(nd, p) EXCEPT ![p].next = Null, ![p].prev = Null]
    IN [IF taken = Chunks(shift) THEN out ELSE nd EXCEPT ![p].taken = taken]

\* A free chunk of a listed page is taken, and the page leaves the list once full.
LEMMA ChunkTaken ==
    ASSUME NEW nd, NEW held, Sound(nd, {}), Held(nd, held),
           NEW size \in Nat \ {0}, size <= MaxSize,
           NEW p, p = nd[SlotHead(Shift(size) - MinShift)].next, p # SlotHead(Shift(size) - MinShift)
    PROVE  LET shift == Shift(size)
               md == Taking(nd, shift, p)
               new == Block(p, FreeChunk(nd, shift, p), shift, size)
           IN Sound(md, {}) /\ Held(md, held \cup {new}) /\ new \notin held
<1> DEFINE shift == Shift(size)
           head == SlotHead(shift - MinShift)
           chunk == FreeChunk(nd, shift, p)
           taken == nd[p].taken \cup {chunk}
           out == [Unlinked(nd, p) EXCEPT ![p].next = Null, ![p].prev = Null]
           full == taken = Chunks(shift)
           base == IF full THEN out ELSE nd
           md == [base EXCEPT ![p].taken = taken]
           new == Block(p, chunk, shift, size)
           a == nd[p].prev
           b == nd[p].next
<1>1. shift \in MinShift .. PageShift - 1
  BY ShiftIs
<1>2. Lists(nd, {}) /\ Typed(nd) /\ site.pages \in Nat
  BY DEF Sound
<1>3. p \in Pages /\ Owner(nd, {}, p) = head /\ head \in Heads /\ head # Null
  <2>1. head \in Heads /\ head \in Nodes /\ head # Null
    BY <1>1, SlotIs
  <2>2. Owner(nd, {}, head) = head
    BY <2>1 DEF Owner
  <2>3. p \in Nodes /\ Owner(nd, {}, p) = head
    BY <1>2, <2>1, <2>2, ListsKnow
  <2>4. p \notin Heads
    BY <2>3 DEF Owner
  <2> QED
    BY <2>1, <2>3, <2>4, Apart
<1>4. IsCut(nd, p) /\ nd[p].slab = shift /\ b # Null /\ First(nd, p) /\ Long(nd, p) = 1 /\ CutRight(nd[p])
  <2>1. IsCut(nd, p) /\ nd[p].slab = shift /\ b # Null
    BY <1>1, <1>3, OwnerIs
  <2>2. First(nd, p) /\ Long(nd, p) = 1
    BY <2>1 DEF First, Long
  <2>3. Proper(nd, p)
    BY <1>3, <2>2 DEF Sound, Laid
  <2> QED
    BY <2>1, <2>2, <2>3 DEF Proper
<1>5. /\ a \in Nodes /\ b \in Nodes /\ a # p /\ b # p
      /\ Owner(nd, {}, a) = head /\ Owner(nd, {}, b) = head
  BY <1>2, <1>3, ListsKnow
<1>6. chunk \in Chunks(shift) \ nd[p].taken
  <2>1. Chunks(shift) \ nd[p].taken # {} /\ Chunks(shift) \subseteq Nat
    <3> HIDE DEF shift, b
    <3>1. nd[p].taken \subseteq Chunks(shift) /\ nd[p].taken # Chunks(shift)
      BY <1>4 DEF CutRight, b
    <3>2. Chunks(shift) \subseteq Nat
      BY <1>1, ChunkSizes
    <3> QED
      BY <3>1, <3>2
  <2>2. \E x \in Chunks(shift) \ nd[p].taken : \A y \in Chunks(shift) \ nd[p].taken : x <= y
    BY <2>1, LeastNat
  <2> HIDE DEF shift
  <2> QED
    BY <2>2 DEF FreeChunk, Least
<1>7. p \in Nat /\ p \in Nodes /\ p \notin Heads
  BY <1>3, Apart
<1> HIDE DEF shift, chunk, head
<1>8. /\ taken \subseteq Chunks(shift) /\ Header(shift) \subseteq taken /\ taken # Header(shift)
      /\ taken \subseteq Nat
  <2>1. Chunks(shift) \subseteq Nat
    BY <1>1, ChunkSizes
  <2> QED
    BY <1>4, <1>6, <2>1 DEF CutRight
<1> DEFINE ud == Unlinked(nd, p)
<1>9. Typed(ud) /\ \A x \in Nodes :
         /\ Same(nd[x], ud[x])
         /\ ud[x].next = IF x = a THEN b ELSE nd[x].next
         /\ ud[x].prev = IF x = b THEN a ELSE nd[x].prev
  BY <1>2, <1>3, <1>5, UnlinkedIs
<1>10. out = [ud EXCEPT ![p].next = Null, ![p].prev = Null]
  OBVIOUS
<1> HIDE DEF ud, taken, a, b
<1>11. /\ Typed(out) /\ out[p].next = Null /\ Same(nd[p], out[p])
       /\ \A x \in Nodes \ {p} : out[x] = ud[x]
  <2> DEFINE one == [ud EXCEPT ![p].next = Null]
  <2>1. ud \in [Nodes -> Node] /\ Null \in Int
    BY <1>9 DEF Typed, Null
  <2>2. one = [ud EXCEPT ![p] = [ud[p] EXCEPT !.next = Null]]
    BY <2>1
  <2>3. [ud[p] EXCEPT !.next = Null] \in Node
    BY <1>7, <2>1 DEF Node
  <2>4. one \in [Nodes -> Node] /\ one[p].next = Null /\ Same(ud[p], one[p]) /\ \A x \in Nodes \ {p} : one[x] = ud[x]
    BY <1>7, <2>1, <2>2, <2>3 DEF Same, Node
  <2>5. out = [one EXCEPT ![p].prev = Null]
    BY <1>10
  <2> HIDE DEF one, out
  <2>6. out = [one EXCEPT ![p] = [one[p] EXCEPT !.prev = Null]]
    BY <2>4, <2>5
  <2>7. [one[p] EXCEPT !.prev = Null] \in Node
    BY <1>7, <2>1, <2>4 DEF Node
  <2>8. Same(nd[p], ud[p])
    BY <1>7, <1>9
  <2> QED
    BY <1>7, <2>4, <2>6, <2>7, <2>8 DEF Typed, Same, Node
<1> HIDE DEF out
<1>12. /\ Typed(base) /\ Same(nd[p], base[p])
       /\ base[p].next = IF full THEN Null ELSE nd[p].next
       /\ \A x \in Nodes \ {p} :
             /\ Same(nd[x], base[x])
             /\ base[x].next = IF full /\ x = a THEN b ELSE nd[x].next
             /\ base[x].prev = IF full /\ x = b THEN a ELSE nd[x].prev
       /\ ~full => base = nd
  <2>1. CASE full
    BY <1>9, <1>11, <2>1
  <2>2. CASE ~full
    BY <1>2, <2>2 DEF Same
  <2> QED
    BY <2>1, <2>2
<1> HIDE DEF base, full
<1>13. /\ Typed(md) /\ md[p].taken = taken /\ md[p].slab = shift /\ md[p].type = nd[p].type
       /\ md[p].next = base[p].next /\ md[p].prev = base[p].prev
       /\ \A x \in Nodes \ {p} : md[x] = base[x]
  <2>1. base \in [Nodes -> Node]
    BY <1>12 DEF Typed
  <2>2. md = [base EXCEPT ![p] = [base[p] EXCEPT !.taken = taken]]
    BY <2>1
  <2>3. [base[p] EXCEPT !.taken = taken] \in Node
    BY <1>7, <1>8, <2>1 DEF Node
  <2> QED
    BY <1>4, <1>7, <1>12, <2>1, <2>2, <2>3 DEF Typed, Same, Node
<1> HIDE DEF md
<1>14. ASSUME NEW x \in Pages \ {p} PROVE Alike(nd[x], md[x])
  <2>1. x \in Nodes /\ x \notin Heads
    BY Apart
  <2>2. x = a \/ x = b => nd[x].next # Null
    BY <1>3, <1>5, <2>1 DEF Owner, Kind
  <2> QED
    BY <1>4, <1>12, <1>13, <2>1, <2>2 DEF Alike, Same
<1>15. IsCut(md, p) /\ CutRight(md[p])
  <2>1. full <=> taken = Chunks(shift)
    BY DEF full
  <2> QED
    BY <1>4, <1>8, <1>12, <1>13, <2>1 DEF IsCut, CutRight, b
<1>16. Lists(md, {})
  <2>1. \A x \in Pages \ {p} : Owner(md, {}, x) = Owner(nd, {}, x)
    BY <1>14, KindSame DEF Owner
  <2>2. CASE full
    <3>1. Owner(md, {}, p) = Null /\ Owner(nd, {}, p) # Null
      BY <1>3, <1>7, <1>12, <1>13, <2>2 DEF Owner, Kind
    <3>2. \A x \in Nodes \ {p} : Owner(nd, {}, x) # Null => md[x].next = IF x = a THEN b ELSE nd[x].next
      BY <1>12, <1>13, <2>2
    <3>3. \A x \in Pages \ {p} : Owner(nd, {}, x) # Null => md[x].prev = IF x = b THEN a ELSE nd[x].prev
      BY <1>12, <1>13, <2>2, Apart
    <3> QED
      BY <1>2, <1>3, <2>1, <3>1, <3>2, <3>3, ListsUnlink DEF a, b
  <2>3. CASE ~full
    <3>1. md[p].next = nd[p].next /\ md[p].prev = nd[p].prev
      BY <1>12, <1>13, <2>3
    <3>2. Owner(md, {}, p) = Owner(nd, {}, p)
      BY <1>4, <1>7, <1>13, <3>1 DEF Owner, Kind
    <3>3. \A x \in Nodes : md[x].next = nd[x].next /\ md[x].prev = nd[x].prev
      BY <1>12, <1>13, <2>3, <3>1
    <3>4. \A x \in Pages : Owner(md, {}, x) = Owner(nd, {}, x)
      BY <2>1, <3>2
    <3> QED
      BY <1>2, <3>3, <3>4, ListsKeep, Apart
  <2> QED
    BY <2>2, <2>3
<1>17. Sound(md, {})
  BY <1>3, <1>4, <1>13, <1>14, <1>15, <1>16, Recut
<1>18. ChunkBlock(md, p, chunk, new)
  <2>1. /\ new.at = p * PageSize + chunk * 2 ^ shift /\ new.size = size
        /\ PageOf(new) = p /\ (new.at % PageSize) \div 2 ^ shift = chunk
    BY <1>1, <1>6, <1>7, BlockIs
  <2>2. chunk \in taken \ Header(shift)
    BY <1>4, <1>6 DEF taken, CutRight
  <2> HIDE DEF new
  <2> QED
    BY <1>13, <1>15, <2>1, <2>2 DEF ChunkBlock, shift
<1> HIDE DEF new
<1>19. HeldOn(md, held \cup {new}, p)
  <2>1. HeldOn(nd, held, p) /\ ~IsBusy(nd, p) /\ ~IsBusy(md, p)
    BY <1>3, <1>4, <1>15 DEF Held, IsBusy, IsCut
  <2>2. \A c, d : ChunkBlock(nd, p, c, d) => ChunkBlock(md, p, c, d) /\ c # chunk
    BY <1>4, <1>6, <1>13, <1>15 DEF ChunkBlock, taken
  <2>3. \A d \in held : PageOf(d) = p => (\E c : ChunkBlock(md, p, c, d)) /\ d.at # new.at
    <3> TAKE d \in held
    <3> SUFFICES ASSUME PageOf(d) = p PROVE (\E c : ChunkBlock(md, p, c, d)) /\ d.at # new.at
      OBVIOUS
    <3>1. PICK c : ChunkBlock(nd, p, c, d)
      BY <2>1 DEF HeldOn, RunBlock
    <3>2. d.at # new.at
      BY <1>13, <1>18, <2>2, <3>1 DEF ChunkBlock
    <3> QED
      BY <2>2, <3>1, <3>2
  <2>4. \A c \in md[p].taken \ Header(md[p].slab) : \E d \in held \cup {new} : ChunkBlock(md, p, c, d)
    <3> TAKE c \in md[p].taken \ Header(md[p].slab)
    <3>1. CASE c = chunk
      BY <1>18, <3>1
    <3>2. CASE c # chunk
      <4>1. c \in nd[p].taken \ Header(nd[p].slab)
        BY <1>4, <1>13, <3>2 DEF taken
      <4> QED
        BY <1>4, <2>1, <2>2, <4>1 DEF HeldOn
    <3> QED
      BY <3>1, <3>2
  <2>5. \A c, d \in held \cup {new} : PageOf(c) = p /\ PageOf(d) = p /\ c.at = d.at => c = d
    BY <2>1, <2>3 DEF HeldOn
  <2>6. \A d \in held \cup {new} : PageOf(d) = p => RunBlock(md, p, d) \/ \E c : ChunkBlock(md, p, c, d)
    BY <1>18, <2>3
  <2> QED
    BY <2>1, <2>4, <2>5, <2>6 DEF HeldOn
<1>n. new \notin held
  <2> SUFFICES ASSUME new \in held PROVE FALSE
    OBVIOUS
  <2>1. HeldOn(nd, held, p) /\ PageOf(new) = p
    BY <1>3, <1>18 DEF Held, ChunkBlock
  <2>2. PICK c : ChunkBlock(nd, p, c, new)
    BY <1>4, <2>1 DEF HeldOn, RunBlock, IsBusy, IsCut
  <2>3. c = chunk
    BY <1>4, <1>13, <1>18, <2>2 DEF ChunkBlock
  <2> QED
    BY <1>6, <2>2, <2>3 DEF ChunkBlock
<1>20. Held(md, held \cup {new})
  <2>1. \A x \in Pages \ {p} : Keeps(nd, md, x)
    BY <1>14 DEF Keeps
  <2>2. PageOf(new) = p
    BY <1>18 DEF ChunkBlock
  <2>3. \A d : PageOf(d) # p => (d \in held \cup {new} <=> d \in held)
    BY <2>2
  <2> QED
    BY <1>3, <1>19, <2>1, <2>3, HeldStep
<1> QED
  <2>1. Taking(nd, shift, p) = md
    BY DEF Taking, md, base, full, out, ud, taken, chunk
  <2> QED
    BY <1>17, <1>20, <1>n, <2>1 DEF new, chunk, shift

\* The first map of a page marks the chunks of the map and the one behind them.
LEMMA MarksAre ==
    \A s \in MinShift .. PageShift - 1 :
        Marks(Cardinality(Header(s))) = Header(s) \cup {Cardinality(Header(s))}
<1> SUFFICES ASSUME NEW s \in MinShift .. PageShift - 1
             PROVE  Marks(Cardinality(Header(s))) = Header(s) \cup {Cardinality(Header(s))}
  OBVIOUS
<1> DEFINE n == Cardinality(Header(s))
<1>1. n \in Nat /\ Header(s) = 0 .. n - 1
  BY HeaderIs
<1>2. n <= IntBits - 3 /\ IntBits \in Int
  <2>1. PICK w \in 1 .. PageShift : WordBits = 2 ^ w
    BY ShiftAssumption
  <2>2. WordBits \in Nat
    BY <2>1, PowDouble, Sizes
  <2> QED
    BY <2>2, MapAssumption, ShiftAssumption
<1> HIDE DEF n
<1>3. {i \in 0 .. IntBits - 2 : i <= n} = (0 .. n - 1) \cup {n}
  BY <1>1, <1>2
<1> QED
  BY <1>1, <1>3 DEF Marks, n

\* A page of the free list is cut, and its first chunk behind its map taken.
LEMMA ChunkCut ==
    ASSUME NEW nd, NEW held, Sound(nd, {}), Held(nd, held),
           NEW size \in Nat \ {0}, size <= MaxSize, FirstFit(nd, 1) # Null,
           nd[SlotHead(Shift(size) - MinShift)].next = SlotHead(Shift(size) - MinShift)
    PROVE  LET shift == Shift(size)
               head == SlotHead(shift - MinShift)
               p == FirstFit(nd, 1)
               chunk == Cardinality(Header(shift))
               ad == AllocPages(nd, p, 1)
               md == [ad EXCEPT ![head].next = p,
                                ![p] = [Linked(head) EXCEPT !.slab = shift, !.type = Type(shift),
                                                            !.taken = Marks(chunk)]]
               new == Block(p, chunk, shift, size)
           IN Sound(md, {}) /\ Held(md, held \cup {new}) /\ new \notin held
<1> DEFINE shift == Shift(size)
           head == SlotHead(shift - MinShift)
           p == FirstFit(nd, 1)
           chunk == Cardinality(Header(shift))
           taken == Marks(chunk)
           ad == AllocPages(nd, p, 1)
           cut == [Linked(head) EXCEPT !.slab = shift, !.type = Type(shift), !.taken = taken]
           md == [ad EXCEPT ![head].next = p, ![p] = cut]
           new == Block(p, chunk, shift, size)
<1>1. shift \in MinShift .. PageShift - 1 /\ MinShift \in Nat /\ PageShift \in Nat
  BY ShiftIs, Sizes
<1> HIDE DEF shift
<1>2. head \in Heads /\ head \in Nodes /\ head \notin Pages /\ head # FreeHead /\ head # Null
  BY <1>1, SlotIs
<1>3. p \in Pages /\ IsFree(nd, p) /\ 1 <= Long(nd, p) /\ 1 \in Nat \ {0}
  BY FirstFitIs
<1> HIDE DEF p, head
<1>4. /\ Sound(ad, {}) /\ IsBusy(ad, p) /\ Long(ad, p) = 1
      /\ \A x \in Pages \ Span(nd, p) : Alike(nd[x], ad[x])
      /\ \A x \in Span(nd, p) \ {p} : ~IsBusy(ad, x) /\ ~IsCut(ad, x)
      /\ \A h \in Heads \ {FreeHead} : ad[h].next = nd[h].next
  BY <1>3, AllocSound
<1>5. \A x \in Span(nd, p) : ~IsBusy(nd, x) /\ ~IsCut(nd, x)
  <2>1. Proper(nd, p) /\ ~IsBusy(nd, p) /\ ~IsCut(nd, p)
    BY <1>3, FreeIs DEF IsFree, IsBusy, IsCut
  <2>2. \A x \in Span(nd, p) \ {p} : ~First(nd, x)
    BY <1>3, <2>1, SpanIs
  <2> QED
    BY <2>1, <2>2 DEF First
<1>6. p \in Nat /\ p \in Span(nd, p) /\ p \in Nodes /\ p \notin Heads /\ p # head
  <2>1. Proper(nd, p)
    BY <1>3, FreeIs
  <2> QED
    BY <1>2, <1>3, <2>1, SpanIs, Apart
<1>7. /\ chunk \in Nat /\ Header(shift) = 0 .. chunk - 1 /\ chunk \in Chunks(shift)
      /\ taken \subseteq Chunks(shift) /\ taken # Chunks(shift) /\ taken # Header(shift)
      /\ taken \ Header(shift) = {chunk} /\ taken \subseteq Nat /\ Header(shift) \subseteq taken
  <2>1. /\ chunk \in Nat /\ Header(shift) = 0 .. chunk - 1 /\ chunk + 1 < 2 ^ (PageShift - shift)
        /\ Chunks(shift) = 0 .. 2 ^ (PageShift - shift) - 1 /\ 2 ^ (PageShift - shift) \in Nat
        /\ taken = Header(shift) \cup {chunk}
    BY <1>1, HeaderIs, ChunkSizes, MarksAre
  <2> DEFINE k == 2 ^ (PageShift - shift)
  <2> HIDE DEF k, chunk, taken
  <2>2. taken = 0 .. chunk
    BY <2>1
  <2>3. Chunks(shift) = 0 .. k - 1 /\ chunk + 1 < k /\ k \in Nat
    BY <2>1 DEF k
  <2>4. k - 1 \in Chunks(shift) /\ k - 1 \notin taken /\ chunk \in taken /\ chunk \notin Header(shift)
    BY <2>1, <2>2, <2>3
  <2>5. chunk \in Chunks(shift) /\ taken \subseteq Chunks(shift) /\ taken \subseteq Nat
        /\ taken \ Header(shift) = {chunk} /\ Header(shift) \subseteq taken
    BY <2>1, <2>2, <2>3
  <2> QED
    BY <2>1, <2>4, <2>5
<1> HIDE DEF ad, chunk, taken
<1>8. Typed(ad) /\ Lists(ad, {}) /\ site.pages \in Nat
  BY <1>4 DEF Sound
<1>9. /\ cut \in Node /\ cut.slab = shift /\ cut.type = Type(shift) /\ cut.taken = taken
      /\ cut.next = head /\ cut.prev = head
  <2>1. head \in Int /\ shift \in Int
    BY <1>1, <1>2, <1>8, NodesAre
  <2>2. Type(shift) \in {"page", "small", "exact", "big"}
    BY DEF Type
  <2> QED
    BY <1>7, <2>1, <2>2 DEF Linked, Blank, Node
<1> HIDE DEF cut
<1>10. /\ Typed(md) /\ md[p] = cut
       /\ \A x \in Nodes \ {p} : /\ Same(ad[x], md[x]) /\ md[x].prev = ad[x].prev
                                 /\ md[x].next = IF x = head THEN p ELSE ad[x].next
  <2> DEFINE one == [ad EXCEPT ![head].next = p]
  <2>1. ad \in [Nodes -> Node] /\ p \in Int
    BY <1>6, <1>8 DEF Typed
  <2>2. one = [ad EXCEPT ![head] = [ad[head] EXCEPT !.next = p]]
    BY <2>1
  <2>3. [ad[head] EXCEPT !.next = p] \in Node
    BY <1>2, <2>1 DEF Node
  <2>4. /\ one \in [Nodes -> Node]
        /\ \A x \in Nodes : /\ Same(ad[x], one[x]) /\ one[x].prev = ad[x].prev
                            /\ one[x].next = IF x = head THEN p ELSE ad[x].next
    BY <1>2, <2>1, <2>2, <2>3 DEF Same, Node
  <2>5. md = [one EXCEPT ![p] = cut]
    OBVIOUS
  <2> HIDE DEF one, md
  <2> QED
    BY <1>6, <1>9, <2>4, <2>5 DEF Typed
<1> HIDE DEF md
<1>11. \A x \in Pages \ {p} : Alike(ad[x], md[x])
  BY <1>2, <1>10, Apart DEF Alike, Same
<1>12. IsCut(md, p) /\ CutRight(md[p])
  <2>1. Type(shift) # "page"
    BY DEF Type
  <2> QED
    BY <1>1, <1>2, <1>7, <1>9, <1>10, <2>1 DEF IsCut, CutRight, taken
<1>13. Lists(md, {})
  <2>1. \A x \in Pages \ {p} : Owner(md, {}, x) = Owner(ad, {}, x)
    BY <1>11, KindSame DEF Owner
  <2>2. Owner(ad, {}, p) = Null
    BY <1>4, <1>6 DEF Owner, Kind, IsBusy
  <2>3. Owner(md, {}, p) = head
    BY <1>2, <1>6, <1>9, <1>10, <1>12 DEF Owner, Kind, IsCut, head
  <2>4. ad[head].next = head
    BY <1>2, <1>4 DEF head, shift
  <2>5. \A x \in Nodes : Owner(ad, {}, x) # Null => x # p
    BY <2>2
  <2>6. \A x \in Nodes : Owner(ad, {}, x) # Null => md[x].next = IF x = head THEN p ELSE ad[x].next
    BY <1>10, <2>5
  <2>7. \A x \in Pages : Owner(ad, {}, x) # Null => md[x].prev = IF x = ad[head].next THEN p ELSE ad[x].prev
    BY <1>2, <1>10, <2>4, <2>5, Apart
  <2>8. md[p].next = ad[head].next /\ md[p].prev = head
    BY <1>9, <1>10, <2>4
  <2> QED
    BY <1>2, <1>3, <1>8, <2>1, <2>2, <2>3, <2>6, <2>7, <2>8, ListsInsert
<1>14. Sound(md, {})
  BY <1>3, <1>4, <1>10, <1>11, <1>12, <1>13, Recut DEF First
<1>15. ChunkBlock(md, p, chunk, new)
  <2>1. /\ new.at = p * PageSize + chunk * 2 ^ shift /\ new.size = size
        /\ PageOf(new) = p /\ (new.at % PageSize) \div 2 ^ shift = chunk
    BY <1>1, <1>6, <1>7, BlockIs
  <2> HIDE DEF new
  <2> QED
    BY <1>7, <1>9, <1>10, <1>12, <2>1 DEF ChunkBlock, shift
<1> HIDE DEF new
<1>16. HeldOn(md, held \cup {new}, p)
  <2>1. \A d \in held : PageOf(d) # p
    BY <1>3, <1>5, <1>6, NoneOn DEF Held
  <2>2. ~IsBusy(md, p)
    BY <1>12 DEF IsBusy, IsCut
  <2>3. \A c \in md[p].taken \ Header(md[p].slab) : c = chunk
    BY <1>7, <1>9, <1>10
  <2> QED
    BY <1>15, <2>1, <2>2, <2>3 DEF HeldOn
<1>n. new \notin held
  <2>1. HeldOn(nd, held, p) /\ ~IsBusy(nd, p) /\ ~IsCut(nd, p) /\ PageOf(new) = p
    BY <1>3, <1>5, <1>6, <1>15 DEF Held, ChunkBlock
  <2> QED
    BY <2>1, NoneOn
<1>17. Held(md, held \cup {new})
  <2>1. \A x \in Pages \ {p} : Keeps(nd, md, x)
    <3> TAKE x \in Pages \ {p}
    <3>1. CASE x \in Span(nd, p)
      <4>1. ~IsBusy(md, x) /\ ~IsCut(md, x)
        BY <1>4, <1>11, <3>1, Shape
      <4> QED
        BY <1>5, <3>1, <4>1 DEF Keeps
    <3>2. CASE x \notin Span(nd, p)
      BY <1>4, <1>11, <3>2, AlikeTrans DEF Keeps
    <3> QED
      BY <3>1, <3>2
  <2>2. PageOf(new) = p
    BY <1>15 DEF ChunkBlock
  <2>3. \A d : PageOf(d) # p => (d \in held \cup {new} <=> d \in held)
    BY <2>2
  <2> QED
    BY <1>3, <1>16, <2>1, <2>3, HeldStep
<1> QED
  BY <1>14, <1>17, <1>n DEF md, cut, ad, new, taken, chunk, p, head, shift

LEMMA RelistedIs ==
    ASSUME NEW nd, Typed(nd), site.pages \in Nat, NEW p \in Pages, NEW head \in Heads,
           nd[head].next \in Nodes, nd[head].next # p
    PROVE  LET first == nd[head].next
               md == Relisted(nd, p, head)
           IN /\ Typed(md) /\ Same(nd[p], md[p]) /\ md[p].next = first /\ md[p].prev = head
              /\ \A x \in Nodes \ {p} : /\ Same(nd[x], md[x])
                                        /\ md[x].next = IF x = head THEN p ELSE nd[x].next
                                        /\ md[x].prev = IF x = first THEN p ELSE nd[x].prev
<1> DEFINE first == nd[head].next
           md == Relisted(nd, p, head)
           one == [nd EXCEPT ![p].next = first]
           two == [one EXCEPT ![p].prev = head]
           three == [two EXCEPT ![first].prev = p]
<1>1. /\ nd \in [Nodes -> Node] /\ p \in Nodes /\ head \in Nodes /\ first \in Nodes
      /\ p # head /\ p # first /\ p \in Int /\ head \in Int /\ first \in Int
  BY Apart, NodesAre DEF Typed
<1>2. md = [three EXCEPT ![head].next = p]
  BY DEF Relisted
<1>3. one = [nd EXCEPT ![p] = [nd[p] EXCEPT !.next = first]] /\ [nd[p] EXCEPT !.next = first] \in Node
  BY <1>1 DEF Node
<1> HIDE DEF first
<1>4. /\ one \in [Nodes -> Node] /\ Same(nd[p], one[p]) /\ one[p].next = first
      /\ \A x \in Nodes \ {p} : one[x] = nd[x]
  BY <1>1, <1>3 DEF Same, Node
<1> HIDE DEF one
<1>5. two = [one EXCEPT ![p] = [one[p] EXCEPT !.prev = head]] /\ [one[p] EXCEPT !.prev = head] \in Node
  BY <1>1, <1>4 DEF Node
<1>6. /\ two \in [Nodes -> Node] /\ Same(nd[p], two[p]) /\ two[p].next = first /\ two[p].prev = head
      /\ \A x \in Nodes \ {p} : two[x] = nd[x]
  BY <1>1, <1>4, <1>5 DEF Same, Node
<1> HIDE DEF two
<1>7. three = [two EXCEPT ![first] = [two[first] EXCEPT !.prev = p]] /\ [two[first] EXCEPT !.prev = p] \in Node
  BY <1>1, <1>6 DEF Node
<1>8. /\ three \in [Nodes -> Node] /\ three[p] = two[p]
      /\ \A x \in Nodes \ {p} : /\ Same(nd[x], three[x]) /\ three[x].next = nd[x].next
                                /\ three[x].prev = IF x = first THEN p ELSE nd[x].prev
  BY <1>1, <1>6, <1>7 DEF Same, Node
<1> HIDE DEF three
<1>9. md = [three EXCEPT ![head] = [three[head] EXCEPT !.next = p]] /\ [three[head] EXCEPT !.next = p] \in Node
  BY <1>1, <1>2, <1>8 DEF Node
<1> HIDE DEF md
<1>10. md \in [Nodes -> Node] /\ md[p] = two[p]
  BY <1>1, <1>8, <1>9
<1>11. \A x \in Nodes \ {p} : /\ Same(nd[x], md[x])
                              /\ md[x].next = IF x = head THEN p ELSE nd[x].next
                              /\ md[x].prev = IF x = first THEN p ELSE nd[x].prev
  BY <1>1, <1>8, <1>9 DEF Same, Node
<1> QED
  BY <1>6, <1>10, <1>11 DEF Typed, first, md

\* A chunk is given back; a full page is listed again, an empty one is freed.
LEMMA ChunkGiven ==
    ASSUME NEW nd, NEW held, Sound(nd, {}), Held(nd, held), NEW b \in held,
           NEW p, p = PageOf(b), nd[p].type # "page"
    PROVE  LET shift == IF nd[p].type = "exact" THEN ExactShift ELSE nd[p].slab
               head == SlotHead(shift - MinShift)
               listed == IF nd[p].next = Null THEN Relisted(nd, p, head) ELSE nd
               taken == nd[p].taken \ {(b.at % PageSize) \div 2 ^ shift}
               cd == [listed EXCEPT ![p].taken = taken]
               md == IF taken \ Header(shift) # {} THEN cd ELSE FreePages(cd, p, 1)
           IN /\ Sound(md, {}) /\ Held(md, held \ {b})
              /\ \A x \in Pages : IsCut(md, x) => CutAlike(nd[x], md[x])
<1> DEFINE shift == IF nd[p].type = "exact" THEN ExactShift ELSE nd[p].slab
           head == SlotHead(shift - MinShift)
           listed == IF nd[p].next = Null THEN Relisted(nd, p, head) ELSE nd
           chunk == (b.at % PageSize) \div 2 ^ shift
           taken == nd[p].taken \ {chunk}
           cd == [listed EXCEPT ![p].taken = taken]
           first == nd[head].next
           md == IF taken \ Header(shift) # {} THEN cd ELSE FreePages(cd, p, 1)
<1>1. PICK c : p \in Pages /\ ChunkBlock(nd, p, c, b)
  BY DEF Held, HeldOn, RunBlock, IsBusy
<1>2. /\ IsCut(nd, p) /\ First(nd, p) /\ Long(nd, p) = 1 /\ CutRight(nd[p])
      /\ HeldOn(nd, held, p) /\ ~IsBusy(nd, p) /\ ~IsFree(nd, p)
  BY <1>1 DEF Held, IsCut, IsBusy, IsFree, First, Long, Sound, Laid, Proper
<1>3. shift = nd[p].slab /\ shift \in MinShift .. PageShift - 1
  <2>1. nd[p].type = Type(nd[p].slab) /\ nd[p].slab \in MinShift .. PageShift - 1
    BY <1>2 DEF CutRight
  <2> QED
    BY <2>1 DEF Type
<1>4. chunk = c /\ chunk \in nd[p].taken \ Header(shift)
  BY <1>1, <1>3 DEF ChunkBlock
<1> HIDE DEF shift, chunk
<1>5. head \in Heads /\ head \in Nodes /\ head \notin Pages /\ head # Null
  BY <1>3, SlotIs
<1>6. Lists(nd, {}) /\ Typed(nd) /\ site.pages \in Nat /\ p \in Nodes /\ p \notin Heads /\ p \in Nat
  BY <1>1, Apart DEF Sound
<1>7. Owner(nd, {}, p) = IF nd[p].next = Null THEN Null ELSE head
  BY <1>2, <1>6, <1>3 DEF Owner, Kind, IsCut, head
<1>8. first \in Nodes /\ Owner(nd, {}, first) = head /\ (nd[p].next = Null => first # p)
  <2>1. Owner(nd, {}, head) = head
    BY <1>5 DEF Owner
  <2>2. first \in Nodes /\ Owner(nd, {}, first) = head
    <3> HIDE DEF head
    <3> QED
      BY <1>5, <1>6, <2>1, ListsKnow
  <2> QED
    BY <1>5, <1>7, <2>2
<1> HIDE DEF head, first
<1> DEFINE back == nd[p].next = Null
<1>9. /\ Typed(listed) /\ Same(nd[p], listed[p])
      /\ listed[p].next = IF back THEN first ELSE nd[p].next
      /\ listed[p].prev = IF back THEN head ELSE nd[p].prev
      /\ \A x \in Nodes \ {p} : /\ Same(nd[x], listed[x])
                                /\ listed[x].next = IF back /\ x = head THEN p ELSE nd[x].next
                                /\ listed[x].prev = IF back /\ x = first THEN p ELSE nd[x].prev
  <2>1. CASE back
    <3>1. listed = Relisted(nd, p, head)
      BY <2>1
    <3>2. nd[head].next \in Nodes /\ nd[head].next # p /\ p \in Pages
      BY <1>1, <1>8, <2>1 DEF first
    <3>3. /\ Typed(listed) /\ Same(nd[p], listed[p])
          /\ listed[p].next = nd[head].next /\ listed[p].prev = head
          /\ \A x \in Nodes \ {p} : /\ Same(nd[x], listed[x])
                                    /\ listed[x].next = IF x = head THEN p ELSE nd[x].next
                                    /\ listed[x].prev = IF x = nd[head].next THEN p ELSE nd[x].prev
      <4> HIDE DEF listed
      <4> QED
        BY <1>5, <1>6, <3>1, <3>2, RelistedIs
    <3> HIDE DEF listed
    <3> QED
      BY <2>1, <3>3 DEF first
  <2>2. CASE ~back
    <3>1. listed = nd
      BY <2>2
    <3> QED
      BY <1>6, <2>2, <3>1 DEF Same
  <2> QED
    BY <2>1, <2>2
<1>10. taken \subseteq Nat
  BY <1>3, <1>2, ChunkSizes DEF CutRight
<1> HIDE DEF listed, taken
<1>11. /\ Typed(cd) /\ cd[p].taken = taken /\ cd[p].slab = shift /\ cd[p].type = nd[p].type
       /\ cd[p].next = listed[p].next /\ cd[p].prev = listed[p].prev
       /\ \A x \in Nodes \ {p} : cd[x] = listed[x]
  <2>1. listed \in [Nodes -> Node]
    BY <1>9 DEF Typed
  <2>2. cd = [listed EXCEPT ![p] = [listed[p] EXCEPT !.taken = taken]]
    BY <2>1
  <2>3. [listed[p] EXCEPT !.taken = taken] \in Node
    BY <1>6, <1>10, <2>1 DEF Node
  <2> HIDE DEF cd
  <2> QED
    BY <1>3, <1>6, <1>9, <2>1, <2>2, <2>3 DEF Typed, Same, Node
<1> HIDE DEF cd
<1>12. \A x \in Pages \ {p} : x \in Nodes /\ x \notin Heads
  BY Apart
<1>13. ASSUME NEW x \in Pages \ {p} PROVE Alike(nd[x], cd[x])
  <2>1. x # head
    BY <1>5
  <2>2. x = first => nd[x].next # Null
    BY <1>5, <1>8, <1>12 DEF Owner, Kind
  <2> QED
    BY <1>9, <1>11, <1>12, <2>1, <2>2 DEF Alike, Same
<1>14. cd[p].next # Null /\ IsCut(cd, p) /\ ~IsBusy(cd, p)
  <2>1. first # Null
    BY <1>8, Apart
  <2> QED
    BY <1>2, <1>9, <1>11, <2>1 DEF IsCut, IsBusy
<1>15. Owner(cd, {}, p) = head
  BY <1>6, <1>11, <1>14 DEF Owner, Kind, IsCut, head
<1>16. Lists(cd, {})
  <2>1. \A x \in Pages \ {p} : Owner(cd, {}, x) = Owner(nd, {}, x)
    BY <1>13, KindSame DEF Owner
  <2>2. CASE back
    <3>1. Owner(nd, {}, p) = Null
      BY <1>7, <2>2
    <3>2. \A x \in Nodes : Owner(nd, {}, x) # Null => cd[x].next = IF x = head THEN p ELSE nd[x].next
      BY <1>9, <1>11, <2>2, <3>1
    <3>3. \A x \in Pages : Owner(nd, {}, x) # Null => cd[x].prev = IF x = nd[head].next THEN p ELSE nd[x].prev
      BY <1>9, <1>11, <1>12, <2>2, <3>1 DEF first
    <3>4. cd[p].next = nd[head].next /\ cd[p].prev = head
      BY <1>9, <1>11, <2>2 DEF first
    <3>5. p \in Pages /\ head \in Heads /\ Lists(nd, {})
      BY <1>1, <1>5, <1>6
    <3> HIDE DEF back, head, md
    <3> QED
      BY <1>15, <2>1, <3>1, <3>2, <3>3, <3>4, <3>5, ListsInsert
  <2>3. CASE ~back
    <3>1. \A x \in Pages : Owner(cd, {}, x) = Owner(nd, {}, x)
      BY <1>7, <1>15, <2>1, <2>3
    <3>2. \A x \in Nodes : cd[x].next = nd[x].next
      BY <1>9, <1>11, <2>3
    <3>3. \A x \in Pages : cd[x].prev = nd[x].prev
      BY <1>9, <1>11, <1>12, <2>3
    <3> HIDE DEF back
    <3> QED
      BY <1>6, <3>1, <3>2, <3>3, ListsKeep
  <2> QED
    BY <2>2, <2>3
<1>17. \A d \in held \ {b} : PageOf(d) = p => \E e : ChunkBlock(nd, p, e, d) /\ e # chunk
  <2> TAKE d \in held \ {b}
  <2> SUFFICES ASSUME PageOf(d) = p PROVE \E e : ChunkBlock(nd, p, e, d) /\ e # chunk
    OBVIOUS
  <2>1. PICK e : ChunkBlock(nd, p, e, d)
    BY <1>2 DEF HeldOn, RunBlock
  <2>2. e = chunk => d.at = b.at
    BY <1>1, <1>4, <2>1 DEF ChunkBlock
  <2>3. d.at # b.at
    BY <1>1, <1>2, <2>1 DEF HeldOn, ChunkBlock
  <2> QED
    BY <2>1, <2>2, <2>3
<1>18. \A d : PageOf(d) # p => (d \in held \ {b} <=> d \in held)
  OBVIOUS
<1>19. CASE taken \ Header(shift) # {}
  <2>1. md = cd
    BY <1>19
  <2>2. CutRight(cd[p])
    <3>1. taken # Chunks(shift) /\ taken \subseteq Chunks(shift) /\ Header(shift) \subseteq taken
      BY <1>2, <1>3, <1>4 DEF CutRight, taken
    <3> QED
      BY <1>2, <1>3, <1>11, <1>14, <1>19, <3>1 DEF CutRight
  <2>3. Sound(cd, {})
    BY <1>1, <1>2, <1>11, <1>13, <1>14, <1>16, <2>2, Recut
  <2>4. \A e, d : ChunkBlock(nd, p, e, d) /\ e # chunk => ChunkBlock(cd, p, e, d)
    BY <1>3, <1>11, <1>14 DEF ChunkBlock, taken
  <2>5. HeldOn(cd, held \ {b}, p)
    <3>1. \A d \in held \ {b} : PageOf(d) = p => \E e : ChunkBlock(cd, p, e, d)
      BY <1>17, <2>4
    <3>2. \A e \in cd[p].taken \ Header(cd[p].slab) : \E d \in held \ {b} : ChunkBlock(cd, p, e, d)
      <4> TAKE e \in cd[p].taken \ Header(cd[p].slab)
      <4>1. e \in nd[p].taken \ Header(nd[p].slab) /\ e # chunk
        BY <1>3, <1>11 DEF taken
      <4>2. PICK d \in held : ChunkBlock(nd, p, e, d)
        BY <1>2, <4>1 DEF HeldOn
      <4>3. d # b
        BY <1>1, <1>4, <4>1, <4>2 DEF ChunkBlock
      <4> QED
        BY <2>4, <4>1, <4>2, <4>3
    <3>3. \A d, e \in held \ {b} : PageOf(d) = p /\ PageOf(e) = p /\ d.at = e.at => d = e
      BY <1>2 DEF HeldOn
    <3> QED
      BY <1>14, <3>1, <3>2, <3>3 DEF HeldOn
  <2>6. \A x \in Pages \ {p} : Keeps(nd, cd, x)
    BY <1>13 DEF Keeps
  <2>7. Held(cd, held \ {b})
    BY <1>1, <1>18, <2>5, <2>6, HeldStep
  <2>8. \A x \in Pages : CutAlike(nd[x], cd[x])
    BY <1>3, <1>11, <1>13 DEF Alike, CutAlike
  <2> QED
    BY <2>1, <2>3, <2>7, <2>8 DEF cd, listed, taken, chunk, head, shift
<1>20. CASE taken \ Header(shift) = {}
  <2>1. md = FreePages(cd, p, 1)
    BY <1>20
  <2>2. p .. p + 1 - 1 = {p} /\ \A i \in p + 1 .. p + 1 - 1 : cd[i].next = Null
    BY <1>6
  <2>3. Laid(cd, {p}) /\ Joined(cd, {p})
    <3>1. {} \cup Span(nd, p) = {p}
      BY <1>2, <1>6 DEF Span
    <3> QED
      BY <1>1, <1>2, <1>13, <3>1, Grow DEF Sound
  <2>4. Given(cd, p, 1)
    <3>1. p \in Pages /\ p .. p + 1 - 1 \subseteq Pages /\ Owner(cd, {}, p) # Null
      BY <1>1, <1>5, <1>15, <2>2
    <3>2. Laid(cd, p .. p + 1 - 1) /\ Joined(cd, p .. p + 1 - 1)
      BY <2>2, <2>3
    <3>3. 1 \in Nat \ {0} /\ site.pages \in Nat /\ Typed(cd)
      BY <1>6, <1>11
    <3> QED
      BY <1>16, <2>2, <3>1, <3>2, <3>3 DEF Given
  <2>5. /\ Sound(md, {})
        /\ \A x \in Pages \ (p .. p + 1 - 1) : Keeps(cd, md, x)
        /\ \A x \in p .. p + 1 - 1 : ~IsBusy(md, x) /\ ~IsCut(md, x)
    BY <2>1, <2>4, FreePagesSound
  <2> HIDE DEF md
  <2>6. ~IsBusy(md, p) /\ ~IsCut(md, p)
    BY <2>2, <2>5
  <2>7. \A x \in Pages \ {p} : Keeps(nd, md, x)
    <3> TAKE x \in Pages \ {p}
    <3>1. Keeps(cd, md, x) /\ Alike(nd[x], cd[x])
      BY <1>13, <2>2, <2>5
    <3>2. CASE Alike(cd[x], md[x])
      BY <3>1, <3>2, AlikeTrans DEF Keeps
    <3>3. CASE ~Alike(cd[x], md[x])
      BY <3>1, <3>3, Shape DEF Keeps
    <3> QED
      BY <3>2, <3>3
  <2>8. \A d \in held \ {b} : PageOf(d) # p
    <3>1. \A e, d : ChunkBlock(nd, p, e, d) /\ e # chunk => e \in taken \ Header(shift)
      BY <1>3 DEF ChunkBlock, taken
    <3> QED
      BY <1>17, <1>20, <3>1
  <2>9. HeldOn(md, held \ {b}, p)
    BY <2>6, <2>8 DEF HeldOn
  <2>10. Held(md, held \ {b})
    BY <1>1, <1>18, <2>7, <2>9, HeldStep
  <2>11. \A x \in Pages : IsCut(md, x) => CutAlike(nd[x], md[x])
    BY <2>6, <2>7 DEF Keeps, Alike, CutAlike
  <2> QED
    BY <2>5, <2>10, <2>11 DEF md, cd, listed, taken, chunk, head, shift
<1> QED
  BY <1>19, <1>20 DEF taken, chunk, shift

----------------------------------------------------------------------------
(* Blocks lie apart                                                        *)

LEMMA TimesOrder == \A a, b \in Int, d \in Nat : a <= b => a * d <= b * d
<1> SUFFICES ASSUME NEW a \in Int, NEW b \in Int, NEW d \in Nat, a <= b PROVE a * d <= b * d
  OBVIOUS
<1>1. CASE a = b
  BY <1>1
<1>2. CASE a < b
  <2>1. a * d + d <= b * d
    BY <1>2, Times
  <2>2. a * d \in Int /\ b * d \in Int
    OBVIOUS
  <2> QED
    BY <2>1, <2>2
<1> QED
  BY <1>1, <1>2

\* A block lies in the pages of its run, or behind the map of its page.
LEMMA AreaIs ==
    ASSUME NEW nd, NEW held, Sound(nd, {}), Held(nd, held), NEW b \in held
    PROVE  LET p == PageOf(b)
           IN /\ p \in Pages /\ p \in Nat /\ First(nd, p) /\ Proper(nd, p) /\ Long(nd, p) \in Nat \ {0}
              /\ b.at \in Nat /\ b.size \in Nat \ {0}
              /\ p * PageSize <= b.at /\ b.at + b.size <= (p + Long(nd, p)) * PageSize
<1> DEFINE p == PageOf(b)
<1>1. p \in Pages /\ HeldOn(nd, held, p)
  BY DEF Held
<1> HIDE DEF p
<1>2. p \in Nat /\ PageSize \in Nat \ {0} /\ p * PageSize \in Nat
  BY <1>1, Apart, Sizes
<1>3. CASE RunBlock(nd, p, b)
  <2>1. First(nd, p) /\ Proper(nd, p)
    BY <1>1, <1>3 DEF RunBlock, First, Sound, Laid
  <2>2. /\ b.at = p * PageSize /\ b.size \in Nat /\ b.size > MaxSize /\ PagesFor(b.size) = Long(nd, p)
    BY <1>3 DEF RunBlock
  <2>3. b.size \in Nat \ {0}
    BY <2>2, Sizes
  <2>4. b.size <= Long(nd, p) * PageSize /\ Long(nd, p) \in Nat \ {0}
    BY <2>2, <2>3, PagesForIs
  <2> DEFINE l == Long(nd, p)
  <2> HIDE DEF l
  <2>5. b.size <= l * PageSize /\ l \in Nat \ {0}
    BY <2>4 DEF l
  <2>6. (p + l) * PageSize = p * PageSize + l * PageSize /\ l * PageSize \in Nat
    BY <1>2, <2>5
  <2>7. b.at + b.size <= (p + l) * PageSize
    BY <1>2, <2>2, <2>5, <2>6
  <2> QED
    BY <1>1, <1>2, <2>1, <2>2, <2>3, <2>4, <2>7 DEF l, p
<1>4. CASE \E c : ChunkBlock(nd, p, c, b)
  <2>1. PICK c : ChunkBlock(nd, p, c, b)
    BY <1>4
  <2> DEFINE s == nd[p].slab
             w == 2 ^ s
             k == 2 ^ (PageShift - s)
  <2>2. /\ First(nd, p) /\ Proper(nd, p) /\ CutRight(nd[p]) /\ Long(nd, p) = 1
    BY <1>1, <2>1 DEF ChunkBlock, First, Sound, Laid, Proper, Long
  <2>3. /\ b.at = p * PageSize + c * w /\ b.size \in Nat \ {0} /\ b.size <= MaxSize /\ Shift(b.size) = s
        /\ c \in Chunks(s) /\ s \in MinShift .. PageShift - 1
    BY <2>1, <2>2 DEF ChunkBlock, CutRight
  <2>4. b.size <= w
    BY <2>3, ShiftIs
  <2>5. w \in Nat \ {0} /\ k \in Nat /\ k * w = PageSize /\ c \in 0 .. k - 1
    BY <2>3, ChunkSizes
  <2> HIDE DEF w, k, s
  <2>6. c * w + w <= k * w /\ c * w \in Nat
    BY <2>5, Times
  <2>7. (p + 1) * PageSize = p * PageSize + PageSize
    BY <1>2
  <2>8. b.at \in Nat /\ p * PageSize <= b.at
    BY <1>2, <2>3, <2>6
  <2>9. b.at + b.size <= (p + 1) * PageSize
    <3> DEFINE base == p * PageSize
               off == c * w
    <3>1. base \in Nat /\ off \in Nat /\ off + w <= PageSize /\ b.at = base + off
      BY <1>2, <2>3, <2>5, <2>6
    <3>2. (p + 1) * PageSize = base + PageSize
      BY <2>7
    <3> HIDE DEF base, off
    <3> QED
      BY <1>2, <2>3, <2>4, <2>5, <3>1, <3>2
  <2> QED
    BY <1>1, <1>2, <2>2, <2>3, <2>8, <2>9 DEF p
<1> QED
  BY <1>1, <1>3, <1>4 DEF HeldOn, p

\* What lies on pages of different runs is apart.
LEMMA AreasApart ==
    ASSUME NEW nd, Sound(nd, {}), NEW p \in Pages, NEW q \in Pages, p # q,
           First(nd, p), First(nd, q)
    PROVE  (p + Long(nd, p)) * PageSize <= q * PageSize \/ (q + Long(nd, q)) * PageSize <= p * PageSize
<1>1. Proper(nd, p) /\ Proper(nd, q) /\ p \in Nat /\ q \in Nat /\ PageSize \in Nat
  BY Apart, Sizes DEF Sound, Laid
<1>2. Span(nd, p) \cap Span(nd, q) = {} /\ p \in Span(nd, p) /\ q \in Span(nd, q)
  BY <1>1, Disjoint, SpanIs
<1>3. Long(nd, p) \in Nat \ {0} /\ Long(nd, q) \in Nat \ {0}
  BY <1>1 DEF Proper
<1>4. p + Long(nd, p) <= q \/ q + Long(nd, q) <= p
  BY <1>1, <1>2, <1>3 DEF Span
<1> QED
  BY <1>1, <1>3, <1>4, TimesOrder

LEMMA RangesApart ==
    ASSUME NEW b, NEW c, b.at \in Nat, b.size \in Nat, c.at \in Nat, c.size \in Nat,
           b.at + b.size <= c.at \/ c.at + c.size <= b.at
    PROVE  Memory!Apart(b, c)
<1> DEFINE x == b.at
           y == c.at
           m == b.size
           n == c.size
<1>1. x \in Nat /\ y \in Nat /\ m \in Nat /\ n \in Nat /\ (x + m <= y \/ y + n <= x)
  OBVIOUS
<1>2. Memory!Apart(b, c) <=> (x .. x + m - 1) \cap (y .. y + n - 1) = {}
  BY DEF Memory!Apart, Memory!Addresses
<1> HIDE DEF x, y, m, n
<1>3. (x .. x + m - 1) \cap (y .. y + n - 1) = {}
  BY <1>1
<1> QED
  BY <1>2, <1>3

LEMMA BlocksApart ==
    ASSUME NEW nd, NEW held, Sound(nd, {}), Held(nd, held), NEW b \in held, NEW c \in held, b # c
    PROVE  Memory!Apart(b, c)
<1> DEFINE p == PageOf(b)
           q == PageOf(c)
<1>1. /\ p \in Pages /\ p \in Nat /\ First(nd, p) /\ Long(nd, p) \in Nat \ {0}
      /\ b.at \in Nat /\ b.size \in Nat \ {0}
      /\ p * PageSize <= b.at /\ b.at + b.size <= (p + Long(nd, p)) * PageSize
  BY AreaIs
<1>2. /\ q \in Pages /\ q \in Nat /\ First(nd, q) /\ Long(nd, q) \in Nat \ {0}
      /\ c.at \in Nat /\ c.size \in Nat \ {0}
      /\ q * PageSize <= c.at /\ c.at + c.size <= (q + Long(nd, q)) * PageSize
  BY AreaIs
<1>3. PageSize \in Nat
  BY Sizes
<1>4. HeldOn(nd, held, p)
  BY <1>1 DEF Held
<1> SUFFICES b.at + b.size <= c.at \/ c.at + c.size <= b.at
  BY <1>1, <1>2, RangesApart
<1>5. CASE p # q
  <2>1. (p + Long(nd, p)) * PageSize <= q * PageSize \/ (q + Long(nd, q)) * PageSize <= p * PageSize
    BY <1>1, <1>2, <1>5, AreasApart
  <2> DEFINE e == (p + Long(nd, p)) * PageSize
             f == (q + Long(nd, q)) * PageSize
             g == p * PageSize
             h == q * PageSize
  <2>2. e \in Nat /\ f \in Nat /\ g \in Nat /\ h \in Nat
    BY <1>1, <1>2, <1>3
  <2> HIDE DEF e, f, g, h
  <2>3. e <= h \/ f <= g
    BY <2>1 DEF e, f, g, h
  <2>4. b.at + b.size <= e /\ c.at + c.size <= f /\ g <= b.at /\ h <= c.at
    BY <1>1, <1>2 DEF e, f, g, h
  <2> QED
    BY <1>1, <1>2, <2>2, <2>3, <2>4
<1>6. CASE p = q
  <2>1. b.at # c.at
    BY <1>4, <1>6 DEF HeldOn
  <2>2. PICK i, j : ChunkBlock(nd, p, i, b) /\ ChunkBlock(nd, p, j, c)
    <3>1. ~(RunBlock(nd, p, b) /\ RunBlock(nd, p, c))
      BY <2>1 DEF RunBlock
    <3>2. RunBlock(nd, p, b) \/ \E i : ChunkBlock(nd, p, i, b)
      BY <1>4 DEF HeldOn
    <3>3. RunBlock(nd, p, c) \/ \E j : ChunkBlock(nd, p, j, c)
      BY <1>4, <1>6 DEF HeldOn
    <3>4. ~IsBusy(nd, p) \/ ~IsCut(nd, p)
      BY DEF IsBusy, IsCut
    <3> QED
      BY <3>1, <3>2, <3>3, <3>4 DEF RunBlock, ChunkBlock
  <2> DEFINE s == nd[p].slab
             w == 2 ^ s
             base == p * PageSize
  <2>3. CutRight(nd[p])
    BY <1>1, <2>2 DEF ChunkBlock, Sound, Laid, Proper
  <2>4. /\ b.at = base + i * w /\ b.size <= MaxSize /\ Shift(b.size) = s /\ i \in Chunks(s)
        /\ c.at = base + j * w /\ c.size <= MaxSize /\ Shift(c.size) = s /\ j \in Chunks(s)
        /\ s \in MinShift .. PageShift - 1
    BY <2>2, <2>3 DEF ChunkBlock, CutRight
  <2>5. b.size <= w /\ c.size <= w
    BY <1>1, <1>2, <2>4, ShiftIs
  <2>6. w \in Nat /\ i \in Nat /\ j \in Nat /\ i # j
    BY <2>1, <2>4, ChunkSizes
  <2>7. base \in Nat
    BY <1>1, <1>3
  <2> HIDE DEF w, base
  <2>8. i * w + w <= j * w \/ j * w + w <= i * w
    BY <2>6, Times
  <2>9. i * w \in Nat /\ j * w \in Nat
    BY <2>6
  <2> DEFINE u == i * w
             v == j * w
  <2> HIDE DEF u, v
  <2>10. u \in Nat /\ v \in Nat /\ (u + w <= v \/ v + w <= u) /\ b.at = base + u /\ c.at = base + v
    BY <2>4, <2>8, <2>9 DEF u, v
  <2> QED
    BY <1>1, <1>2, <2>5, <2>6, <2>7, <2>10
<1> QED
  BY <1>5, <1>6

MapsOf(nd) == {[at |-> p * PageSize, size |-> 2 ^ (PageShift - nd[p].slab) \div 8] :
                  p \in {q \in Pages : nd[q].type = "small"}}

\* No block lies in the map of a page.
LEMMA MapsApart ==
    ASSUME NEW nd, NEW held, Sound(nd, {}), Held(nd, held), NEW b \in held, NEW m \in MapsOf(nd)
    PROVE  Memory!Apart(b, m)
<1> DEFINE p == PageOf(b)
<1>1. /\ p \in Pages /\ p \in Nat /\ First(nd, p) /\ Long(nd, p) \in Nat \ {0}
      /\ b.at \in Nat /\ b.size \in Nat \ {0}
      /\ p * PageSize <= b.at /\ b.at + b.size <= (p + Long(nd, p)) * PageSize
  BY AreaIs
<1>2. PICK q \in Pages : nd[q].type = "small" /\ m = [at |-> q * PageSize,
                                                      size |-> 2 ^ (PageShift - nd[q].slab) \div 8]
  BY DEF MapsOf
<1> DEFINE s == nd[q].slab
           w == 2 ^ s
           n == Cardinality(Header(s))
           base == q * PageSize
<1>3. IsCut(nd, q) /\ First(nd, q) /\ Long(nd, q) = 1 /\ CutRight(nd[q])
  BY <1>2 DEF IsCut, First, Long, Sound, Laid, Proper
<1>4. s \in MinShift .. PageShift - 1 /\ Type(s) = "small"
  BY <1>2, <1>3 DEF CutRight
<1>5. /\ n \in Nat /\ Header(s) = 0 .. n - 1 /\ n + 1 < 2 ^ (PageShift - s)
      /\ 2 ^ (PageShift - s) \div 8 <= n * w
      /\ 2 ^ (PageShift - s) \div 8 \in Nat
  BY <1>4, HeaderIs
<1>6. m.at = base /\ m.size = 2 ^ (PageShift - s) \div 8
  BY <1>2
<1>7. w \in Nat \ {0} /\ 2 ^ (PageShift - s) \in Nat /\ 2 ^ (PageShift - s) * w = PageSize
  BY <1>4, ChunkSizes
<1>8. PageSize \in Nat /\ q \in Nat /\ base \in Nat /\ p * PageSize \in Nat
  BY <1>1, Sizes, Apart
<1> DEFINE k == 2 ^ (PageShift - s)
           f == n * w
<1> HIDE DEF w, n, k, base, f
<1>9. f \in Nat /\ m.size \in Nat /\ m.size <= f /\ f <= PageSize
  <2>1. n \in Nat /\ k \in Nat /\ n <= k /\ w \in Nat /\ k * w = PageSize
    BY <1>5, <1>7 DEF k
  <2>2. n * w <= k * w /\ n * w \in Nat
    BY <2>1, TimesOrder
  <2> QED
    BY <1>5, <1>6, <2>1, <2>2 DEF f
<1> SUFFICES b.at + b.size <= m.at \/ m.at + m.size <= b.at
  BY <1>1, <1>6, <1>8, <1>9, RangesApart
<1>10. CASE p # q
  <2>1. (p + Long(nd, p)) * PageSize <= q * PageSize \/ (q + 1) * PageSize <= p * PageSize
    BY <1>1, <1>3, <1>10, AreasApart
  <2>2. (q + 1) * PageSize = base + PageSize
    BY <1>8 DEF base
  <2>3. (p + Long(nd, p)) * PageSize \in Nat
    BY <1>1, <1>8
  <2> DEFINE e == (p + Long(nd, p)) * PageSize
             g == p * PageSize
  <2> HIDE DEF e, g
  <2>4. /\ e \in Nat /\ g \in Nat /\ (e <= base \/ base + PageSize <= g)
        /\ b.at + b.size <= e /\ g <= b.at
    BY <1>1, <1>8, <2>1, <2>2, <2>3 DEF e, g, base
  <2> QED
    BY <1>1, <1>6, <1>8, <1>9, <2>4
<1>11. CASE p = q
  <2>1. HeldOn(nd, held, p) /\ ~IsBusy(nd, p)
    BY <1>1, <1>3, <1>11 DEF Held, IsBusy, IsCut
  <2>2. PICK c : ChunkBlock(nd, q, c, b)
    BY <1>11, <2>1 DEF HeldOn, RunBlock
  <2>3. b.at = base + c * w /\ c \in Chunks(s) /\ c \notin Header(s)
    BY <1>3, <2>2 DEF ChunkBlock, CutRight, base, w
  <2>4. c \in Nat /\ n <= c
    <3>1. c \in Nat
      BY <1>4, <2>3, ChunkSizes
    <3> QED
      BY <1>5, <2>3, <3>1
  <2>5. f <= c * w /\ c * w \in Nat
    BY <1>5, <1>7, <2>4, TimesOrder DEF f
  <2> QED
    BY <1>1, <1>6, <1>8, <1>9, <2>3, <2>5
<1> QED
  BY <1>10, <1>11

LEMMA BlockWithin ==
    ASSUME NEW nd, NEW held, Sound(nd, {}), Held(nd, held), NEW b \in held
    PROVE  Memory!Addresses(b) \subseteq 0 .. site.pages * PageSize - 1
<1> DEFINE p == PageOf(b)
           l == Long(nd, p)
           e == (p + l) * PageSize
           g == p * PageSize
           t == site.pages * PageSize
<1>1. /\ p \in Pages /\ p \in Nat /\ l \in Nat \ {0} /\ Proper(nd, p)
      /\ b.at \in Nat /\ b.size \in Nat \ {0}
      /\ g <= b.at /\ b.at + b.size <= e
  BY AreaIs
<1>2. site.pages \in Nat /\ p + l <= site.pages /\ PageSize \in Nat
  BY <1>1, Sizes DEF Proper
<1>3. e <= t /\ e \in Nat /\ t \in Nat
  <2>1. p + l \in Int
    BY <1>1
  <2> QED
    BY <1>1, <1>2, <2>1, TimesOrder
<1> HIDE DEF e, g, t, p, l
<1>4. \A i \in b.at .. b.at + b.size - 1 : i \in 0 .. t - 1
  BY <1>1, <1>3
<1> QED
  BY <1>4 DEF Memory!Addresses, t

----------------------------------------------------------------------------
(* The pool                                                                *)

Inv == site \in Sites /\ Sound(node, {}) /\ Held(node, blocks)

LEMMA PagesAlike ==
    site' = site => /\ Pages' = Pages /\ Nodes' = Nodes /\ Maps = MapsOf(node) /\ Maps' = MapsOf(node')
BY DEF Pages, Nodes, Maps, MapsOf

LEMMA SoundNext ==
    ASSUME site' = site
    PROVE  Sound(node, {})' <=> Sound(node', {})
<1>1. Pages' = Pages /\ Nodes' = Nodes
  BY DEF Pages, Nodes
<1>2. Typed(node)' <=> Typed(node')
  BY <1>1 DEF Typed
<1>3. \A x : Span(node, x)' = Span(node', x) /\ Long(node, x)' = Long(node', x) /\ (IsFree(node, x)' <=> IsFree(node', x))
  BY DEF Span, Long, IsFree, IsCut
<1>4. \A x \in Pages : Proper(node, x)' <=> Proper(node', x)
  BY <1>1, <1>3 DEF Proper
<1>5. Joined(node, {})' <=> Joined(node', {})
  BY <1>1, <1>3 DEF Joined
<1>6. \A x : First(node, x)' <=> First(node', x)
  BY DEF First, IsFree, IsBusy, IsCut
<1>7. Laid(node, {})' <=> Laid(node', {})
  BY <1>1, <1>3, <1>4, <1>6 DEF Laid
<1>8. Own(node, {})' = Own(node', {})
  BY <1>1 DEF Own, Owner
<1>9. Lists(node, {})' <=> Lists(node', {})
  BY <1>1, <1>8 DEF Lists, Links
<1> QED
  BY <1>2, <1>5, <1>7, <1>9 DEF Sound

LEMMA HeldNext ==
    ASSUME site' = site
    PROVE  Held(node, blocks)' <=> Held(node', blocks')
BY PagesAlike DEF Held, HeldOn, RunBlock, ChunkBlock, IsBusy, IsCut, IsFree, Long, PageOf

LEMMA InvNext ==
    ASSUME Inv, site' = site, Sound(node', {}), Held(node', blocks')
    PROVE  Inv'
BY SoundNext, HeldNext DEF Inv

\* At first all pages are one free run.
LEMMA InitInv == Init => Inv
<1> SUFFICES ASSUME Init PROVE Inv
  OBVIOUS
<1> DEFINE n == site.pages
           first == [Linked(FreeHead) EXCEPT !.slab = site.pages]
<1>1. site \in Sites /\ n \in Nat \ {0} /\ blocks = {}
  BY SitesAssumption DEF Init
<1>2. /\ 0 \in Pages /\ 0 \in Nodes /\ FreeHead \in Heads /\ FreeHead \in Nodes /\ 0 \notin Heads
      /\ FreeHead < 0 /\ \A h \in Heads : h < 0 /\ h # Null /\ h \in Int
  <2>1. 0 \in Pages
    BY <1>1 DEF Pages
  <2>2. PageShift \in Nat /\ MinShift \in Nat
    BY Sizes
  <2> QED
    BY <2>1, <2>2, Apart DEF Heads, FreeHead, SlotHead, Slots, Null
<1> HIDE DEF first
<1>3. /\ DOMAIN node = Nodes /\ node[FreeHead] = [Blank EXCEPT !.next = 0] /\ node[0] = first
      /\ \A i \in Pages \ {0} : node[i] = Blank
      /\ \A h \in Heads \ {FreeHead} : node[h] = [Blank EXCEPT !.next = h]
      /\ node = [i \in Nodes |-> node[i]]
  <2>1. Nodes = Pages \cup {FreeHead} \cup {SlotHead(s) : s \in Slots}
    BY DEF Nodes, Heads
  <2>2. node = [i \in Nodes |-> IF i = FreeHead THEN [Blank EXCEPT !.next = 0]
                                ELSE IF i = 0 THEN first
                                ELSE IF i < 0 THEN [Blank EXCEPT !.next = i]
                                ELSE Blank]
    BY <2>1 DEF Init, first
  <2>3. \A i \in Pages \ {0} : i # FreeHead /\ ~(i < 0) /\ i \in Nodes
    BY <1>1, <1>2, PagesAre, Apart
  <2>4. \A h \in Heads \ {FreeHead} : h # 0 /\ h < 0 /\ h \in Nodes
    BY <1>2, Apart
  <2> QED
    BY <1>2, <2>2, <2>3, <2>4
<1>4. first \in Node /\ first.slab = n /\ first.next = FreeHead /\ first.prev = FreeHead /\ first.type = "page"
  <2>1. Linked(FreeHead) = [slab |-> 0, next |-> FreeHead, prev |-> FreeHead, type |-> "page", taken |-> {}]
    <3> DEFINE one == [Blank EXCEPT !.next = FreeHead]
    <3>1. one = [slab |-> 0, next |-> FreeHead, prev |-> Null, type |-> "page", taken |-> {}]
      BY DEF Blank
    <3>2. Linked(FreeHead) = [one EXCEPT !.prev = FreeHead]
      BY DEF Linked
    <3> HIDE DEF one
    <3> QED
      BY <3>1, <3>2
  <2>2. first = [slab |-> n, next |-> FreeHead, prev |-> FreeHead, type |-> "page", taken |-> {}]
    BY <2>1 DEF first
  <2>3. n \in Int /\ FreeHead \in Int
    BY <1>1, <1>2
  <2> HIDE DEF first
  <2>4. first \in Node
    BY <2>2, <2>3 DEF Node
  <2> QED
    BY <2>2, <2>4
<1>5. Blank \in Node /\ Blank.next = Null /\ Blank.slab = 0 /\ Blank.type = "page"
      /\ \A v : [Blank EXCEPT !.next = v].next = v
  BY DEF Blank, Node, Null
<1>6. Typed(node)
  <2>1. [Blank EXCEPT !.next = 0] \in Node /\ \A h \in Heads : [Blank EXCEPT !.next = h] \in Node
    BY <1>2, <1>5 DEF Node
  <2>2. \A x \in Nodes : node[x] \in Node
    BY <1>3, <1>4, <1>5, <2>1, Apart
  <2> QED
    BY <1>3, <2>2 DEF Typed
<1>7. \A x \in Nodes : Owner(node, {}, x) = IF x \in Heads THEN x ELSE IF x = 0 THEN FreeHead ELSE Null
  <2>1. \A x \in Pages : x \notin Heads
    BY Apart
  <2> QED
    BY <1>2, <1>3, <1>4, <1>5, <2>1, Apart DEF Owner, Kind
<1>8. Lists(node, {})
  <2> DEFINE own == Own(node, {})
             rank == [x \in Pages |-> 0]
  <2>1. \A x \in Nodes : own[x] = IF x \in Heads THEN x ELSE IF x = 0 THEN FreeHead ELSE Null
    BY <1>7, OwnIs
  <2>2. own \in [Nodes -> Heads \cup {Null}]
    <3>1. \A x \in Nodes : own[x] \in Heads \cup {Null}
      BY <1>2, <2>1
    <3> QED
      BY <3>1 DEF Own
  <2> HIDE DEF own
  <2>3. \A h \in Heads : own[h] = h /\ h \in Nodes
    BY <2>1, Apart
  <2>4. node[FreeHead].next = 0 /\ \A h \in Heads \ {FreeHead} : node[h].next = h
    BY <1>3, <1>5
  <2>5. \A x \in Nodes : own[x] # Null => x \in Heads \/ x = 0
    BY <2>1
  <2>6. \A x \in Nodes : own[x] # Null => /\ node[x].next \in Nodes /\ own[node[x].next] = own[x]
                                          /\ node[x].next \in Pages => node[node[x].next].prev = x
    <3> TAKE x \in Nodes
    <3> SUFFICES ASSUME own[x] # Null PROVE /\ node[x].next \in Nodes /\ own[node[x].next] = own[x]
                                            /\ node[x].next \in Pages => node[node[x].next].prev = x
      OBVIOUS
    <3>1. CASE x = FreeHead
      BY <1>2, <1>3, <1>4, <2>1, <2>4, <3>1
    <3>2. CASE x \in Heads \ {FreeHead}
      BY <2>3, <2>4, <3>2, Apart
    <3>3. CASE x = 0
      BY <1>2, <1>3, <1>4, <2>1, <3>3, Apart
    <3> QED
      BY <2>5, <3>1, <3>2, <3>3
  <2>7. \A x \in Pages : own[x] # Null => /\ node[x].prev \in Nodes /\ own[node[x].prev] = own[x]
                                          /\ node[node[x].prev].next = x
                                          /\ node[x].next \notin Pages
    <3> TAKE x \in Pages
    <3> SUFFICES ASSUME own[x] # Null PROVE /\ node[x].prev \in Nodes /\ own[node[x].prev] = own[x]
                                            /\ node[node[x].prev].next = x
                                            /\ node[x].next \notin Pages
      OBVIOUS
    <3>1. x = 0
      BY <2>5, Apart
    <3> QED
      BY <1>2, <1>3, <1>4, <2>1, <2>4, <3>1, Apart
  <2>8. 0 \in Nat /\ rank \in [Pages -> -0 .. 0]
    OBVIOUS
  <2> HIDE DEF rank
  <2>9. Links(node, own, rank, 0)
    BY <2>2, <2>3, <2>6, <2>7, <2>8 DEF Links
  <2> QED
    BY <2>9 DEF Lists, own
<1>9. IsFree(node, 0) /\ ~IsCut(node, 0) /\ First(node, 0) /\ Long(node, 0) = n /\ Span(node, 0) = 0 .. 0 + n - 1
  BY <1>3, <1>4 DEF IsFree, IsCut, First, Long, Span, FreeHead, Null
<1>10. \A i \in Pages \ {0} : Inner(node, i, TRUE) /\ ~First(node, i)
  <2>1. \A i \in Pages \ {0} : Inner(node, i, TRUE)
    BY <1>3, <1>5 DEF Inner, PageFree
  <2> QED
    BY <2>1, InnerIs
<1>11. Proper(node, 0)
  <2>1. \A i \in 0 + 1 .. 0 + n - 1 : i \in Pages \ {0}
    BY <1>1 DEF Pages
  <2> QED
    BY <1>1, <1>9, <1>10, <2>1 DEF Proper, Inner
<1>12. \A i \in Pages : i \in Span(node, 0)
  BY <1>1, <1>9 DEF Pages
<1>13. Laid(node, {}) /\ Joined(node, {})
  <2>1. \A p \in Pages : First(node, p) => p = 0
    BY <1>10
  <2>2. Laid(node, {})
    BY <1>2, <1>9, <1>11, <1>12, <2>1 DEF Laid
  <2>3. 0 + Long(node, 0) # 0
    BY <1>1, <1>9
  <2>4. Joined(node, {})
    BY <2>1, <2>3 DEF Joined, First
  <2> QED
    BY <2>2, <2>4
<1>14. Held(node, blocks)
  <2>1. \A p \in Pages : ~IsBusy(node, p) /\ ~IsCut(node, p)
    BY <1>9, <1>10 DEF First, IsFree, IsBusy
  <2> QED
    BY <1>1, <2>1 DEF Held, HeldOn
<1> QED
  BY <1>1, <1>6, <1>8, <1>13, <1>14 DEF Inv, Sound

\* A request that is served gets a new block.
LEMMA AllocStep ==
    ASSUME Inv, NEW size \in site.sizes, Alloc(size)
    PROVE  /\ site' = site /\ Sound(node', {}) /\ Held(node', blocks')
           /\ \E b : b \notin blocks /\ blocks' = blocks \cup {b}
<1>1. site' = site /\ size \in Nat \ {0} /\ Served(size) /\ Sound(node, {}) /\ Held(node, blocks)
  BY SitesAssumption DEF Inv, Alloc
<1>2. CASE size > MaxSize
  <2>1. /\ FirstFit(node, PagesFor(size)) # Null
        /\ node' = AllocPages(node, FirstFit(node, PagesFor(size)), PagesFor(size))
        /\ blocks' = blocks \cup {Block(FirstFit(node, PagesFor(size)), 0, 0, size)}
    BY <1>1, <1>2 DEF Alloc, Served
  <2> QED
    BY <1>1, <1>2, <2>1, RunTaken
<1>3. CASE ~(size > MaxSize)
  <2> DEFINE shift == Shift(size)
             head == SlotHead(shift - MinShift)
             p == node[head].next
  <2>1. size <= MaxSize
    BY <1>1, <1>3, Sizes
  <2>2. CASE p # head
    <3>1. TakeChunk(size, shift, p)
      BY <1>3, <2>2 DEF Alloc
    <3>2. /\ node' = Taking(node, shift, p)
          /\ blocks' = blocks \cup {Block(p, FreeChunk(node, shift, p), shift, size)}
      BY <3>1 DEF TakeChunk, Taking, FreeChunk
    <3>3. p = node[SlotHead(Shift(size) - MinShift)].next /\ p # SlotHead(Shift(size) - MinShift)
      BY <2>2
    <3> HIDE DEF p
    <3> QED
      BY <1>1, <2>1, <3>2, <3>3, ChunkTaken
  <2>3. CASE p = head
    <3>1. NewChunk(size, shift, FirstFit(node, 1)) /\ FirstFit(node, 1) # Null
      BY <1>1, <1>3, <2>3 DEF Alloc, Served
    <3> QED
      BY <1>1, <2>1, <2>3, <3>1, ChunkCut DEF NewChunk
  <2> QED
    BY <2>2, <2>3
<1> QED
  BY <1>2, <1>3

\* A block that is given back is gone, and no map is new.
LEMMA FreeStep ==
    ASSUME Inv, NEW b \in blocks, Free(b)
    PROVE  /\ site' = site /\ Sound(node', {}) /\ Held(node', blocks') /\ blocks' = blocks \ {b}
           /\ \A x \in Pages : IsCut(node', x) => CutAlike(node[x], node'[x])
<1>1. site' = site /\ blocks' = blocks \ {b} /\ Sound(node, {}) /\ Held(node, blocks)
  BY DEF Inv, Free
<1> DEFINE p == PageOf(b)
<1>2. CASE node[p].type = "page"
  <2>1. node' = FreePages(node, p, node[p].slab - PageStart)
    BY <1>2 DEF Free, PageOf
  <2> QED
    BY <1>1, <1>2, <2>1, RunGiven
<1>3. CASE node[p].type # "page"
  <2>1. GiveChunk(p, b.at)
    BY <1>3 DEF Free, PageOf
  <2> QED
    BY <1>1, <1>3, <2>1, ChunkGiven DEF GiveChunk
<1> QED
  BY <1>2, <1>3

\* The lists, the pages and the blocks stay as the code keeps them: each run has
\* its first page's number of pages and ends before the next, free neighbours are
\* joined, and every taken chunk and used run is one block of some caller: for
\* any number of pages, any requests and any sizes that MapAssumption admits.
THEOREM PoolInvariant == Spec => []Inv
<1>1. Inv /\ [Next]_vars => Inv'
  <2> SUFFICES ASSUME Inv, [Next]_vars PROVE Inv'
    OBVIOUS
  <2>1. ASSUME NEW size \in site.sizes, Alloc(size) PROVE Inv'
    BY <2>1, AllocStep, InvNext
  <2>2. ASSUME NEW b \in blocks, Free(b) PROVE Inv'
    BY <2>2, FreeStep, InvNext
  <2>3. CASE UNCHANGED vars
    <3>1. site' = site /\ node' = node /\ blocks' = blocks
      BY <2>3 DEF vars
    <3> QED
      BY <3>1, InvNext DEF Inv
  <2> QED
    BY <2>1, <2>2, <2>3 DEF Next
<1> QED
  BY <1>1, InitInv, PTL DEF Spec

\* An allocator of memory: blocks in the pool that share no byte with each other
\* or with the maps that the pages of small chunks hold, for any number of pages,
\* any requests and any sizes that MapAssumption admits (not pages of 16K with
\* chunks of 8 bytes, where the code's first map is wrong).
THEOREM Allocates == Spec => ImplementsAllocator
<1>1. Init => Memory!Init
  <2> SUFFICES ASSUME Init PROVE Memory!Init
    OBVIOUS
  <2>1. Inv /\ blocks = {} /\ site.pages * PageSize \in Nat
    BY InitInv, Sizes DEF Init, Inv, Sound
  <2>2. \A p \in Pages : node[p].type = "page"
    <3> TAKE p \in Pages
    <3>1. \/ node[p] = [Blank EXCEPT !.next = 0]
          \/ node[p] = [Linked(FreeHead) EXCEPT !.slab = site.pages]
          \/ node[p] = [Blank EXCEPT !.next = p]
          \/ node[p] = Blank
      BY DEF Init
    <3>2. /\ [Blank EXCEPT !.next = 0].type = "page" /\ [Blank EXCEPT !.next = p].type = "page"
          /\ Blank.type = "page"
      BY DEF Blank
    <3>3. [Linked(FreeHead) EXCEPT !.slab = site.pages].type = "page"
      BY DEF Blank, Linked
    <3> QED
      BY <3>1, <3>2, <3>3
  <2>3. Maps = {}
    BY <2>2 DEF Maps
  <2> QED
    BY <2>1, <2>3 DEF Memory!Init
<1>2. Inv /\ [Next]_vars => [Memory!Next]_(Memory!vars)
  <2> SUFFICES ASSUME Inv, [Next]_vars PROVE [Memory!Next]_(Memory!vars)
    OBVIOUS
  <2>1. ASSUME NEW size \in site.sizes, Alloc(size) PROVE Memory!Alloc
    <3>1. /\ site' = site /\ Sound(node', {}) /\ Held(node', blocks')
          /\ \E b : b \notin blocks /\ blocks' = blocks \cup {b}
      BY <2>1, AllocStep
    <3>2. PICK b : b \notin blocks /\ blocks' = blocks \cup {b}
      BY <3>1
    <3>3. Maps' = MapsOf(node')
      BY <3>1, PagesAlike
    <3>4. \A c \in blocks', m \in Maps' : Memory!Apart(c, m)
      BY <3>1, <3>3, MapsApart
    <3>5. \A c \in blocks : Memory!Apart(b, c)
      BY <3>1, <3>2, BlocksApart
    <3>6. Memory!Addresses(b) \subseteq 0 .. site.pages * PageSize - 1
      BY <3>1, <3>2, BlockWithin
    <3>7. b \in blocks' /\ blocks = blocks' \ {b} /\ blocks \subseteq blocks'
      BY <3>2
    <3>8. UNCHANGED (site.pages * PageSize)
      BY <3>1 DEF PageSize
    <3> QED
      BY <3>4, <3>5, <3>6, <3>7, <3>8 DEF Memory!Alloc
  <2>2. ASSUME NEW b \in blocks, Free(b) PROVE Memory!Free
    <3>1. /\ site' = site /\ blocks' = blocks \ {b} /\ Sound(node', {})
          /\ \A x \in Pages : IsCut(node', x) => CutAlike(node[x], node'[x])
      BY <2>2, FreeStep
    <3>2. Maps = MapsOf(node) /\ Maps' = MapsOf(node')
      BY <3>1, PagesAlike
    <3>3. MapsOf(node') \subseteq MapsOf(node)
      BY <3>1 DEF MapsOf, CutAlike, IsCut
    <3>4. UNCHANGED (site.pages * PageSize)
      BY <3>1 DEF PageSize
    <3> QED
      BY <3>1, <3>2, <3>3, <3>4 DEF Memory!Free
  <2>3. CASE UNCHANGED vars
    <3>1. site' = site /\ node' = node /\ blocks' = blocks
      BY <2>3 DEF vars
    <3>2. Maps' = Maps /\ (site.pages * PageSize)' = site.pages * PageSize
      BY <3>1, PagesAlike DEF PageSize
    <3> QED
      BY <3>1, <3>2 DEF Memory!vars
  <2> QED
    BY <2>1, <2>2, <2>3 DEF Next, Memory!Next
<1> QED
  BY <1>1, <1>2, PoolInvariant, PTL DEF Spec, ImplementsAllocator, Memory!Spec

----------------------------------------------------------------------------
(* What is served                                                          *)

\* The byte the block begins with lies before the end of the page, and the one
\* it ends with behind its start.
LEMMA TouchedIs ==
    ASSUME NEW p, NEW b
    PROVE  b \in Touched(p) <=> b \in blocks /\ b.at < (p + 1) * PageSize /\ b.at + b.size > p * PageSize
BY DEF Touched

\* A page that no block touches is part of a free run.
LEMMA UntouchedFree ==
    ASSUME Inv, NEW q \in Pages, Touched(q) = {}
    PROVE  \E x \in Pages : IsFree(node, x) /\ q \in Span(node, x)
<1>1. PICK x \in Pages : First(node, x) /\ q \in Span(node, x)
  BY DEF Inv, Sound, Laid
<1>2. /\ Proper(node, x) /\ HeldOn(node, blocks, x) /\ x \in Nat /\ q \in Nat
      /\ Sound(node, {}) /\ Held(node, blocks)
  BY <1>1, Apart DEF Inv, Sound, Laid, Held
<1> DEFINE l == Long(node, x)
           d == PageSize
           g == x * PageSize
           h == q * PageSize
           t == (q + 1) * PageSize
<1>3. l \in Nat \ {0} /\ d \in Nat \ {0} /\ g \in Nat /\ h \in Nat /\ t = h + d
  BY <1>2, SpanIs, Sizes
<1>4. x <= q /\ q <= x + l - 1
  BY <1>1, <1>2, <1>3 DEF Span
<1>5. CASE IsBusy(node, x)
  <2>1. PICK b \in blocks : RunBlock(node, x, b)
    BY <1>2, <1>5 DEF HeldOn
  <2>2. /\ b.at = g /\ b.size \in Nat /\ b.size > MaxSize /\ PagesFor(b.size) = l
    BY <2>1 DEF RunBlock
  <2>3. b.size \in Nat \ {0}
    BY <2>2, Sizes
  <2>4. (l - 1) * d < b.size
    BY <2>2, <2>3, PagesForIs
  <2>5. g <= h
    BY <1>2, <1>4, Sizes, TimesOrder
  <2>6. h <= g + (l - 1) * d
    <3>1. h <= (x + (l - 1)) * d
      BY <1>2, <1>3, <1>4, TimesOrder
    <3>2. (x + (l - 1)) * d = g + (l - 1) * d
      BY <1>2, <1>3
    <3> QED
      BY <3>1, <3>2
  <2>7. (l - 1) * d \in Nat
    <3>1. l - 1 \in Nat
      BY <1>3
    <3> HIDE DEF l, d
    <3> QED
      BY <1>3, <3>1
  <2> HIDE DEF l, d, g, h, t
  <2>8. b.at < t /\ b.at + b.size > h
    BY <1>3, <2>2, <2>4, <2>5, <2>6, <2>7
  <2> QED
    BY <2>8, TouchedIs DEF t, h
<1>6. CASE IsCut(node, x)
  <2>1. CutRight(node[x]) /\ l = 1
    BY <1>2, <1>6 DEF Proper, Long
  <2>2. PICK c \in node[x].taken : c \notin Header(node[x].slab)
    BY <2>1 DEF CutRight
  <2>3. PICK b \in blocks : ChunkBlock(node, x, c, b)
    BY <1>2, <1>6, <2>2 DEF HeldOn
  <2>4. PageOf(b) = x /\ q = x
    BY <1>2, <1>4, <2>1, <2>3 DEF ChunkBlock
  <2>5. b.at \in Nat /\ b.size \in Nat \ {0} /\ h <= b.at /\ b.at + b.size <= t
    BY <1>2, <2>1, <2>4, AreaIs
  <2> HIDE DEF l, d, g, h, t
  <2>6. b.at < t /\ b.at + b.size > h
    BY <1>3, <2>5
  <2> QED
    BY <2>6, TouchedIs DEF t, h
<1> QED
  BY <1>1, <1>5, <1>6 DEF First

\* Pages in a row that no block touches are part of one free run: two free runs
\* never meet.
LEMMA UntouchedRun ==
    ASSUME Inv, NEW n \in Nat \ {0}, Untouched(n)
    PROVE  FirstFit(node, n) # Null
<1>1. PICK p \in Pages : p + n <= site.pages /\ \A q \in p .. p + n - 1 : Touched(q) = {}
  BY DEF Untouched
<1>2. site.pages \in Nat /\ p \in Nat /\ Sound(node, {}) /\ Joined(node, {})
  BY Apart DEF Inv, Sound
<1>3. \A q \in p .. p + n - 1 : q \in Pages
  BY <1>1, <1>2, PagesAre
<1>4. PICK x \in Pages : IsFree(node, x) /\ p \in Span(node, x)
  BY <1>1, <1>2, UntouchedFree
<1>5. First(node, x) /\ Proper(node, x) /\ x \in Nat /\ Long(node, x) \in Nat \ {0}
  BY <1>2, <1>4, Apart, SpanIs DEF First, Sound, Laid
<1> DEFINE e == x + Long(node, x)
<1>6. e \in Nat /\ x <= p /\ p < e
  BY <1>2, <1>4, <1>5 DEF Span
<1>7. CASE p + n <= e
  <2>1. n <= Long(node, x) /\ ~(Long(node, x) < n)
    BY <1>2, <1>5, <1>6, <1>7
  <2> QED
    BY <1>2, <1>4, <2>1, FirstFitIs
<1>8. CASE ~(p + n <= e)
  <2>1. e \in p .. p + n - 1
    BY <1>2, <1>6, <1>8
  <2>2. e \in Pages
    BY <1>3, <2>1
  <2>3. PICK y \in Pages : IsFree(node, y) /\ e \in Span(node, y)
    BY <1>1, <2>1, <2>2, UntouchedFree
  <2>4. First(node, y) /\ Proper(node, y) /\ y \in Nat /\ Long(node, y) \in Nat \ {0}
    BY <1>2, <2>3, Apart, SpanIs DEF First, Sound, Laid
  <2>5. y # x
    BY <1>5, <1>6, <2>3 DEF Span
  <2>6. Span(node, x) \cap Span(node, y) = {}
    BY <1>5, <2>4, <2>5, Disjoint
  <2>7. e - 1 \in Span(node, x)
    BY <1>5 DEF Span
  <2>8. y = e
    <3>1. y <= e /\ e <= y + Long(node, y) - 1
      BY <1>6, <2>3, <2>4 DEF Span
    <3>2. y < e => e - 1 \in Span(node, y)
      BY <1>6, <2>4, <3>1 DEF Span
    <3> QED
      BY <1>6, <2>4, <2>6, <2>7, <3>1, <3>2
  <2> QED
    BY <1>2, <1>4, <2>3, <2>8 DEF Joined
<1> QED
  BY <1>7, <1>8

\* The list of a head is not empty while a page is in it.
LEMMA ListedIs ==
    ASSUME NEW nd, NEW h \in Heads, Lists(nd, {}), NEW p \in Pages, Owner(nd, {}, p) = h
    PROVE  nd[h].next # h
<1> SUFFICES ASSUME nd[h].next = h PROVE FALSE
  OBVIOUS
<1> DEFINE own == Own(nd, {})
<1>1. PICK m, rank : Links(nd, own, rank, m)
  BY DEF Lists
<1>2. own[p] = h /\ h # Null /\ \A x \in Pages : x \in Nodes
  BY OwnIs, Apart
<1> HIDE DEF own
<1>3. m \in Nat /\ \A x \in Pages : rank[x] \in -m .. m
  BY <1>1 DEF Links
<1> DEFINE S == {rank[x] + m : x \in {y \in Pages : own[y] = h}}
<1>4. S \subseteq Nat /\ S # {}
  BY <1>2, <1>3
<1>5. PICK k \in S : \A j \in S : k <= j
  BY <1>4, LeastNat
<1>6. PICK x \in Pages : own[x] = h /\ k = rank[x] + m
  BY <1>5
<1>7. /\ nd[x].prev \in Nodes /\ own[nd[x].prev] = h /\ nd[nd[x].prev].next = x
  BY <1>1, <1>2, <1>6 DEF Links
<1>8. nd[x].prev \notin Heads
  <2>1. \A g \in Heads : own[g] = g
    BY <1>1 DEF Links
  <2> QED
    BY <1>6, <1>7, <2>1, Apart
<1>9. nd[x].prev \in Pages
  BY <1>7, <1>8, Apart
<1>10. rank[nd[x].prev] < rank[x]
  BY <1>1, <1>2, <1>6, <1>7, <1>9 DEF Links
<1>11. rank[nd[x].prev] + m \in S
  BY <1>7, <1>9
<1> HIDE DEF S
<1>12. k <= rank[nd[x].prev] + m /\ rank[x] \in Int /\ rank[nd[x].prev] \in Int
  BY <1>3, <1>5, <1>6, <1>9, <1>11
<1> QED
  BY <1>3, <1>6, <1>10, <1>12

\* A page that only chunks of one size touch, and fewer than it has, is in the
\* list of that size.
LEMMA ChunkLeft ==
    ASSUME Inv, NEW shift, HasChunk(shift)
    PROVE  node[SlotHead(shift - MinShift)].next # SlotHead(shift - MinShift)
<1>1. PICK p \in Pages : /\ Cardinality(Touched(p)) \in 1 .. Capacity(shift) - 1
                         /\ \A b \in Touched(p) : b.size <= MaxSize /\ Shift(b.size) = shift
  BY DEF HasChunk
<1>2. Sound(node, {}) /\ Held(node, blocks) /\ p \in Nat
  BY Apart DEF Inv
<1>3. ASSUME NEW b \in Touched(p)
      PROVE  PageOf(b) = p /\ \E c : ChunkBlock(node, p, c, b)
  <2> DEFINE x == PageOf(b)
  <2>1. b \in blocks /\ b.at < (p + 1) * PageSize /\ b.at + b.size > p * PageSize
    BY <1>3, TouchedIs
  <2>2. /\ x \in Pages /\ x \in Nat /\ b.at \in Nat /\ b.size \in Nat
        /\ x * PageSize <= b.at /\ b.at + b.size <= (x + Long(node, x)) * PageSize
    BY <1>2, <2>1, AreaIs
  <2>3. HeldOn(node, blocks, x)
    BY <1>2, <2>2 DEF Held
  <2>4. ~RunBlock(node, x, b)
    BY <1>1, <1>3, <2>2, Sizes DEF RunBlock
  <2>5. PICK c : ChunkBlock(node, x, c, b)
    BY <2>1, <2>3, <2>4 DEF HeldOn
  <2>6. Long(node, x) = 1
    BY <2>5 DEF ChunkBlock, Long
  <2> HIDE DEF x
  <2>7. b.at + b.size <= (x + 1) * PageSize
    BY <2>2, <2>6
  <2>8. ~(p + 1 <= x)
    <3> SUFFICES ASSUME p + 1 <= x PROVE FALSE
      OBVIOUS
    <3>1. (p + 1) * PageSize <= x * PageSize
      BY <1>2, <2>2, Sizes, TimesOrder
    <3>2. (p + 1) * PageSize \in Nat /\ x * PageSize \in Nat
      BY <1>2, <2>2, Sizes
    <3> QED
      BY <2>1, <2>2, <3>1, <3>2
  <2>9. ~(x + 1 <= p)
    <3> SUFFICES ASSUME x + 1 <= p PROVE FALSE
      OBVIOUS
    <3>1. (x + 1) * PageSize <= p * PageSize
      BY <1>2, <2>2, Sizes, TimesOrder
    <3>2. (x + 1) * PageSize \in Nat /\ p * PageSize \in Nat
      BY <1>2, <2>2, Sizes
    <3> QED
      BY <2>1, <2>2, <2>7, <3>1, <3>2
  <2>10. x = p
    BY <1>2, <2>2, <2>8, <2>9
  <2> QED
    BY <2>5, <2>10 DEF x
<1>4. PICK b \in Touched(p) : TRUE
  <2>1. Touched(p) # {}
    BY <1>1, FS_EmptySet
  <2> QED
    BY <2>1
<1>5. IsCut(node, p) /\ node[p].slab = shift
  BY <1>1, <1>3, <1>4 DEF ChunkBlock
<1>6. CutRight(node[p]) /\ HeldOn(node, blocks, p)
  BY <1>2, <1>5 DEF Sound, Laid, First, Proper, Held
<1>7. shift \in MinShift .. PageShift - 1
  BY <1>5, <1>6 DEF CutRight
<1>8. node[p].next # Null
  <2> SUFFICES ASSUME node[p].next = Null PROVE FALSE
    OBVIOUS
  <2> DEFINE C == Chunks(shift) \ Header(shift)
             B == Touched(p)
             At(c) == CHOOSE a \in blocks : ChunkBlock(node, p, c, a)
             f == [c \in C |-> At(c)]
  <2>1. node[p].taken = Chunks(shift)
    BY <1>5, <1>6 DEF CutRight
  <2>2. \A c \in C : \E a \in blocks : ChunkBlock(node, p, c, a)
    BY <1>5, <1>6, <2>1 DEF HeldOn
  <2>3. \A c \in C : At(c) \in blocks /\ ChunkBlock(node, p, c, At(c))
    BY <2>2
  <2>4. \A c \in C : f[c] = At(c)
    OBVIOUS
  <2>5. ASSUME NEW c \in C PROVE f[c] \in B
    <3> DEFINE a == f[c]
    <3>1. a \in blocks /\ PageOf(a) = p /\ ChunkBlock(node, p, c, a)
      BY <2>3, <2>4 DEF ChunkBlock
    <3> HIDE DEF a, f, At
    <3>2. Long(node, p) = 1
      BY <1>5 DEF Long
    <3>3. /\ a.at \in Nat /\ a.size \in Nat \ {0}
          /\ p * PageSize <= a.at /\ a.at + a.size <= (p + 1) * PageSize
      BY <1>2, <3>1, <3>2, AreaIs
    <3>4. p * PageSize \in Nat /\ (p + 1) * PageSize \in Nat
      BY <1>2, Sizes
    <3>5. a.at < (p + 1) * PageSize /\ a.at + a.size > p * PageSize
      BY <3>3, <3>4
    <3> QED
      BY <3>1, <3>5, TouchedIs DEF a
  <2>6. \A c \in C : ChunkBlock(node, p, c, f[c])
    BY <2>3, <2>4
  <2>d. DOMAIN f = C
    OBVIOUS
  <2>f. f = [c \in C |-> f[c]]
    OBVIOUS
  <2> HIDE DEF C, f, At
  <2>7. f \in [C -> B]
    BY <2>5, <2>f
  <2>8. \A c, k \in C : f[c] = f[k] => c = k
    BY <2>6 DEF ChunkBlock
  <2>9. ASSUME NEW a \in B PROVE \E c \in C : f[c] = a
    <3>1. a \in blocks
      BY TouchedIs
    <3>2. PICK c : ChunkBlock(node, p, c, a)
      BY <1>3
    <3>3. c \in C
      BY <1>5, <2>1, <3>2 DEF ChunkBlock, C
    <3>4. f[c] \in blocks /\ PageOf(f[c]) = p /\ PageOf(a) = p /\ f[c].at = a.at
      BY <2>5, <2>6, <3>2, <3>3, TouchedIs DEF ChunkBlock
    <3>5. f[c] = a
      BY <1>6, <3>1, <3>4 DEF HeldOn
    <3> QED
      BY <3>3, <3>5
  <2>10. f \in Injection(C, B) /\ f \in Surjection(C, B)
    BY <2>7, <2>8, <2>9 DEF Injection, Surjection, IsInjective
  <2>11. IsFiniteSet(C)
    <3>1. Chunks(shift) = 0 .. 2 ^ (PageShift - shift) - 1 /\ 2 ^ (PageShift - shift) \in Nat
      BY <1>7, ChunkSizes
    <3>2. IsFiniteSet(Chunks(shift))
      BY <3>1, FS_Interval
    <3> QED
      BY <3>2, FS_Difference DEF C
  <2>12. Cardinality(B) = Cardinality(C) /\ Cardinality(C) \in Nat
    BY <2>10, <2>11, FS_Surjection, FS_CardinalityType
  <2> QED
    BY <1>1, <2>12 DEF Capacity, C
<1>9. Owner(node, {}, p) = SlotHead(shift - MinShift)
  BY <1>2, <1>5, <1>7, <1>8, OwnerIs
<1>10. SlotHead(shift - MinShift) \in Heads
  BY <1>7, SlotIs DEF Heads
<1> QED
  BY <1>2, <1>9, <1>10, ListedIs DEF Sound

\* Nothing is lost: pages are found again in whatever order they were freed, and
\* a page of chunks serves its size while one of them is free, for any number of
\* pages, any requests and any sizes that MapAssumption admits.
THEOREM RoomIsKept == Spec => []RoomKept
<1>1. Inv => RoomKept
  <2> SUFFICES ASSUME Inv, NEW size \in site.sizes,
                      IF size > MaxSize THEN Untouched(PagesFor(size))
                      ELSE Untouched(1) \/ HasChunk(Shift(size))
               PROVE  Served(size)
    BY DEF RoomKept
  <2>1. size \in Nat \ {0} /\ PagesFor(size) \in Nat \ {0}
    BY SitesAssumption, PagesForIs DEF Inv
  <2>2. CASE size > MaxSize
    BY <2>1, <2>2, UntouchedRun DEF Served
  <2>3. CASE ~(size > MaxSize)
    <3>1. CASE Untouched(1)
      <4>1. FirstFit(node, 1) # Null
        BY <3>1, UntouchedRun
      <4> QED
        BY <2>3, <4>1 DEF Served
    <3>2. CASE HasChunk(Shift(size))
      BY <2>3, <3>2, ChunkLeft DEF Served
    <3> QED
      BY <2>3, <3>1, <3>2
  <2> QED
    BY <2>2, <2>3
<1> QED
  BY <1>1, PoolInvariant, PTL
=============================================================================
