----------------------------- MODULE ShareFacts -----------------------------
(***************************************************************************)
(* What the proofs of several modules need.  About numbers: the            *)
(* least-number principle and induction in a form the provers can use (no  *)
(* operator parameter), the size of a tree, cardinalities and their parity,*)
(* and the ranges of a parallelized loop.  About the DPFs of the buckets:  *)
(* what the outputs of the two parties combine to.                         *)
(***************************************************************************)
EXTENDS DpfOutputs, FiniteSetTheorems, WellFoundedInduction, TLAPS

NatLess == {p \in Nat \X Nat : p[1] < p[2]}

\* The order of the naturals is well founded.
LEMMA NatLessWellFounded == IsWellFoundedOn(NatLess, Nat)
  <1>1. OpToRel(<, Nat) = NatLess
    BY Zenon DEF OpToRel, NatLess
  <1> QED BY <1>1, NatLessThanWellFounded, Zenon

\* A nonempty set of naturals has a least element.
THEOREM LeastElement ==
  ASSUME NEW S \in SUBSET Nat, S # {}
  PROVE  \E x \in S : \A y \in S : x <= y
  <1>1. PICK x \in S : \A y \in S : <<y, x>> \notin NatLess
    BY NatLessWellFounded, WFMin
  <1>2. \A y \in S : ~ (y < x)
    BY <1>1 DEF NatLess
  <1> QED BY <1>1, <1>2

\* A set that contains 0 and, with n, also n + 1 contains every natural.
THEOREM SetInduction ==
  ASSUME NEW S, 0 \in S, \A n \in Nat : n \in S => n + 1 \in S
  PROVE  \A n \in Nat : n \in S
  <1> SUFFICES ASSUME NEW m \in Nat, m \notin S PROVE FALSE
    OBVIOUS
  <1> DEFINE T == {n \in Nat : n \notin S}
  <1>1. PICK x \in T : \A y \in T : x <= y
    <2>1. T \in SUBSET Nat /\ T # {}
      OBVIOUS
    <2> HIDE DEF T
    <2> QED BY <2>1, LeastElement
  <1>2. x # 0
    OBVIOUS
  <1>3. x - 1 \in Nat /\ x - 1 \notin T
    BY <1>1, <1>2
  <1>4. (x - 1) + 1 \in S
    BY <1>3
  <1> QED BY <1>4

-----------------------------------------------------------------------------
(***************************************************************************)
(* The size of a tree: P are the powers of two, up to one that exceeds M.  *)
(***************************************************************************)
PowersOfTwo(P, M) ==
  /\ P \in [0 .. M + 1 -> Nat]
  /\ P[0] = 1
  /\ \A k \in 0 .. M : P[k + 1] = 2 * P[k]

\* The depth of the least tree with n leaves, from the logarithm rounded down.
DepthOf(P, M, n) ==
  LET log == CHOOSE e \in 0 .. M : P[e] <= n /\ n < P[e + 1]
  IN  log + IF P[log] < n THEN 1 ELSE 0

\* A power of two exceeds its exponent.
LEMMA PowersGrow ==
  ASSUME NEW M \in Nat, NEW P, PowersOfTwo(P, M)
  PROVE  \A k \in 0 .. M + 1 : P[k] \in Nat /\ P[k] >= k + 1
  <1> DEFINE S == {k \in Nat : k <= M + 1 => P[k] >= k + 1}
  <1>1. 0 \in S
    BY DEF PowersOfTwo
  <1>2. ASSUME NEW k \in Nat, k \in S PROVE k + 1 \in S
    BY <1>2 DEF PowersOfTwo
  <1>3. \A k \in Nat : k \in S
    <2> HIDE DEF S
    <2> QED BY <1>1, <1>2, SetInduction
  <1> QED BY <1>3 DEF PowersOfTwo

\* The tree has room for the leaves, the next smaller one has not.
THEOREM DepthFacts ==
  ASSUME NEW M \in Nat \ {0}, NEW P, PowersOfTwo(P, M), NEW n \in 1 .. M
  PROVE  /\ DepthOf(P, M, n) \in 0 .. M
         /\ n <= P[DepthOf(P, M, n)]
         /\ DepthOf(P, M, n) > 0 => P[DepthOf(P, M, n) - 1] < n
  <1> DEFINE S == {e \in 0 .. M + 1 : n < P[e]}
             L == CHOOSE e \in 0 .. M : P[e] <= n /\ n < P[e + 1]
             D == L + IF P[L] < n THEN 1 ELSE 0
  <1>0. /\ \A k \in 0 .. M + 1 : P[k] \in Nat /\ P[k] >= k + 1
        /\ P[0] = 1 /\ \A k \in 0 .. M : P[k + 1] = 2 * P[k]
    BY PowersGrow DEF PowersOfTwo
  <1>1. \E e \in 0 .. M : P[e] <= n /\ n < P[e + 1]
    <2>1. PICK m \in S : \A y \in S : m <= y
      <3>1. M \in S
        BY <1>0
      <3>2. S \in SUBSET Nat
        OBVIOUS
      <3> HIDE DEF S
      <3> QED BY <3>1, <3>2, LeastElement
    <2>2. m # 0
      BY <2>1, <1>0
    <2>3. m - 1 \in 0 .. M /\ m - 1 \notin S
      BY <2>1, <2>2
    <2>4. P[m - 1] <= n /\ n < P[(m - 1) + 1]
      BY <2>1, <2>3, <1>0
    <2> QED BY <2>3, <2>4
  <1>2. L \in 0 .. M /\ P[L] <= n /\ n < P[L + 1]
    BY <1>1
  <1>3. D = DepthOf(P, M, n)
    BY DEF DepthOf
  <1> HIDE DEF L
  <1>4. L < M
    BY <1>2, <1>0
  <1>5. D \in 0 .. M /\ n <= P[D] /\ (D > 0 => P[D - 1] < n)
    <2>1. CASE P[L] < n
      <3>1. D = L + 1 /\ (L + 1) - 1 = L
        BY <2>1, <1>2
      <3> HIDE DEF D
      <3> QED BY <3>1, <2>1, <1>2, <1>4, <1>0
    <2>2. CASE ~ (P[L] < n)
      <3>1. D = L /\ P[L] = n
        BY <2>2, <1>2, <1>0
      <3> HIDE DEF D
      <3>2. CASE L = 0
        BY <3>1, <3>2, <1>2
      <3>3. CASE L # 0
        <4>1. L - 1 \in 0 .. M /\ (L - 1) + 1 = L
          BY <1>2, <3>3
        <4>2. P[L - 1] \in Nat /\ P[L - 1] >= 1 /\ P[(L - 1) + 1] = 2 * P[L - 1]
          BY <4>1, <1>0
        <4> QED BY <3>1, <4>1, <4>2, <1>2
      <3> QED BY <3>2, <3>3
    <2> QED BY <2>1, <2>2
  <1> QED BY <1>3, <1>5

\* Halving twice.
LEMMA Halves ==
  ASSUME NEW x \in Int, NEW P \in Nat \ {0}
  PROVE  x \div P = 2 * (x \div (2 * P)) + ((x \div P) % 2)
  <1>1. (x \div P) \div 2 = x \div (2 * P)
    OBVIOUS
  <1>2. x \div P \in Int
    OBVIOUS
  <1> QED BY <1>1, <1>2

\* Halving rounds up to no less than half.
LEMMA CeilHalves ==
  ASSUME NEW x \in Nat \ {0}, NEW P \in Nat \ {0}
  PROVE  /\ (x + P - 1) \div P <= 2 * ((x + (2 * P) - 1) \div (2 * P))
         /\ (x + P - 1) \div P \in 1 .. x
  <1>1. (x + P - 1) \div P <= 2 * ((x + (2 * P) - 1) \div (2 * P))
    OBVIOUS
  <1>2. (x + P - 1) \div P >= 1
    OBVIOUS
  <1>3. (x + P - 1) \div P <= x
    OBVIOUS
  <1>4. (x + P - 1) \div P \in Int
    OBVIOUS
  <1> QED BY <1>1, <1>2, <1>3, <1>4

-----------------------------------------------------------------------------
\* Sets that differ in one element have cardinalities of different parity.
THEOREM OneMore ==
  ASSUME NEW A, IsFiniteSet(A), NEW B, IsFiniteSet(B), NEW h, (A \ B) \union (B \ A) = {h}
  PROVE  Cardinality(A) % 2 = 1 <=> Cardinality(B) % 2 # 1
  <1>1. Cardinality(A) \in Nat /\ Cardinality(B) \in Nat
    BY FS_CardinalityType
  <1>2. \/ h \notin B /\ A = B \union {h}
        \/ h \notin A /\ B = A \union {h}
    OBVIOUS
  <1>3. Cardinality(A) = Cardinality(B) + 1 \/ Cardinality(B) = Cardinality(A) + 1
    BY <1>2, FS_AddElement
  <1> QED BY <1>1, <1>3

\* The elements e of E that are in an odd number of the sets f[h].
XorOf(H, E, f) == {e \in E : Cardinality({h \in H : e \in f[h]}) % 2 = 1}

(***************************************************************************)
(* What the exclusive ors of two families of sets combine to, when the     *)
(* families differ by P: to nothing if P is empty everywhere, to P[g] if g *)
(* is the only place where it may not be.                                  *)
(***************************************************************************)
THEOREM XorOfFamilies ==
  ASSUME NEW H, IsFiniteSet(H), NEW E, NEW A, NEW B, NEW P,
         \A h \in H : (A[h] \ B[h]) \union (B[h] \ A[h]) = P[h]
  PROVE  /\ (\A h \in H : P[h] = {}) => XorOf(H, E, A) = XorOf(H, E, B)
         /\ \A g \in H : P[g] \subseteq E /\ (\A h \in H \ {g} : P[h] = {}) =>
              (XorOf(H, E, A) \ XorOf(H, E, B)) \union (XorOf(H, E, B) \ XorOf(H, E, A)) = P[g]
  <1> DEFINE In(f, e) == {h \in H : e \in f[h]}
             X(f) == {e \in E : Cardinality(In(f, e)) % 2 = 1}
  <1>1. \A e : IsFiniteSet(In(A, e)) /\ IsFiniteSet(In(B, e))
    BY FS_Subset
  <1>2. \A e : (In(A, e) \ In(B, e)) \union (In(B, e) \ In(A, e)) = {h \in H : e \in P[h]}
    OBVIOUS
  <1>3. ASSUME \A h \in H : P[h] = {} PROVE X(A) = X(B)
    <2>1. \A e : In(A, e) = In(B, e)
      BY <1>3
    <2> HIDE DEF In
    <2> QED BY <2>1
  <1>4. ASSUME NEW g \in H, P[g] \subseteq E, \A h \in H \ {g} : P[h] = {}
        PROVE  (X(A) \ X(B)) \union (X(B) \ X(A)) = P[g]
    <2>1. ASSUME NEW e \in P[g] PROVE e \in X(A) <=> e \notin X(B)
      <3>1. {h \in H : e \in P[h]} = {g}
        BY <1>4
      <3>2. (In(A, e) \ In(B, e)) \union (In(B, e) \ In(A, e)) = {g}
        BY <1>2, <3>1
      <3>3. Cardinality(In(A, e)) % 2 = 1 <=> Cardinality(In(B, e)) % 2 # 1
        <4> HIDE DEF In
        <4> QED BY <1>1, <3>2, OneMore
      <3> QED BY <1>4, <3>3
    <2>2. ASSUME NEW e, e \notin P[g] PROVE e \in X(A) <=> e \in X(B)
      <3>1. In(A, e) = In(B, e)
        BY <1>2, <1>4, <2>2
      <3> QED BY <3>1
    <2> HIDE DEF X
    <2> QED BY <2>1, <2>2
  <1>5. XorOf(H, E, A) = X(A) /\ XorOf(H, E, B) = X(B)
    BY DEF XorOf
  <1> HIDE DEF X
  <1> QED BY <1>3, <1>4, <1>5

\* f is injective on S, and what it maps S to.
InjectiveOn(f, S) == \A x, z \in S : f[x] = f[z] => x = z
ImageOf(f, S) == {f[x] : x \in S}

\* An injective function maps a finite set to one with as many elements.
THEOREM ImageSize ==
  ASSUME NEW S, IsFiniteSet(S), NEW f, InjectiveOn(f, S)
  PROVE  IsFiniteSet(ImageOf(f, S)) /\ Cardinality(ImageOf(f, S)) = Cardinality(S)
  <1> USE DEF InjectiveOn, ImageOf
  <1> DEFINE T == {f[x] : x \in S}
             g == [x \in S |-> f[x]]
  <1>1. g \in [S -> T] /\ (\A x, z \in S : g[x] = g[z] => x = z) /\ \A v \in T : \E x \in S : g[x] = v
    OBVIOUS
  <1>2. g \in Bijection(S, T)
    <2> HIDE DEF g, T
    <2> QED BY <1>1 DEF Bijection, Injection, IsInjective, Surjection
  <1> HIDE DEF g
  <1> QED BY <1>2, FS_Bijection DEF ExistsBijection

(***************************************************************************)
(* In a sorted array that contains m, the number of smaller elements leads *)
(* to the first m.                                                         *)
(***************************************************************************)
THEOREM FirstPlace ==
  ASSUME NEW n \in Nat, NEW s \in [1 .. n -> Int],
         \A x, z \in 1 .. n : x <= z => s[x] <= s[z],
         NEW m \in Int, NEW q \in 1 .. n, s[q] = m
  PROVE  LET c == Cardinality({x \in 1 .. n : s[x] < m}) IN
         c \in Nat /\ c + 1 \in 1 .. n /\ s[c + 1] = m
  <1> DEFINE S == {x \in 1 .. n : s[x] >= m}
  <1>1. S \in SUBSET Nat /\ S # {}
    OBVIOUS
  <1>2. PICK x \in S : \A z \in S : x <= z
    <2> HIDE DEF S
    <2> QED BY <1>1, LeastElement
  <1>3. s[x] = m
    BY <1>2
  <1>4. {z \in 1 .. n : s[z] < m} = 1 .. x - 1
    <2>1. x \in 1 .. n
      OBVIOUS
    <2>2. \A z \in 1 .. n : s[z] < m => z < x
      BY <1>3, <2>1
    <2>3. \A z \in 1 .. n : z < x => s[z] < m
      <3> SUFFICES ASSUME NEW z \in 1 .. n, z < x PROVE s[z] < m
        OBVIOUS
      <3>1. z \notin S
        BY <1>2, <2>1
      <3> QED BY <3>1
    <2>4. \A z : z \in 1 .. x - 1 <=> z \in 1 .. n /\ z < x
      BY <2>1
    <2>5. \A z : z \in {c \in 1 .. n : s[c] < m} <=> z \in 1 .. x - 1
      BY <2>2, <2>3, <2>4
    <2> HIDE DEF S
    <2> QED BY <2>5, Zenon
  <1>5. Cardinality(1 .. x - 1) = x - 1
    <2>1. 1 \in Int /\ x - 1 \in Int /\ x >= 1
      OBVIOUS
    <2>2. Cardinality(1 .. x - 1) = IF 1 > x - 1 THEN 0 ELSE (x - 1) - 1 + 1
      BY <2>1, FS_Interval
    <2> QED BY <2>1, <2>2
  <1>6. x \in 1 .. n /\ Cardinality({z \in 1 .. n : s[z] < m}) = x - 1
    BY <1>4, <1>5
  <1> HIDE DEF S
  <1> QED BY <1>3, <1>6

-----------------------------------------------------------------------------
(***************************************************************************)
(* parallize and parallize_naive: the end of range k when n elements are   *)
(* distributed to m threads; the first rest ranges are one element longer. *)
(***************************************************************************)
RangeEnd(n, m, k) ==
  (k + 1) * (n \div m) + IF k < n - (n \div m) * m THEN k + 1 ELSE n - (n \div m) * m

\* The product of naturals grows with either.
LEMMA Products ==
  ASSUME NEW x \in Nat, NEW z \in Nat, NEW c \in Nat, x <= z
  PROVE  x * c \in Nat /\ z * c \in Nat /\ x * c <= z * c
  OBVIOUS

\* Euclidean division.
LEMMA DivMod ==
  ASSUME NEW n \in Nat, NEW m \in Nat \ {0}
  PROVE  n \div m \in Nat /\ n - (n \div m) * m \in 0 .. m - 1
  OBVIOUS

(***************************************************************************)
(* The ranges of the threads that are used follow each other and cover all *)
(* elements.                                                               *)
(***************************************************************************)
THEOREM RangesCover ==
  ASSUME NEW n \in Nat \ {0}, NEW m \in Nat \ {0}
  PROVE  LET used == IF n < m THEN n ELSE m IN
         /\ used \in Nat \ {0}
         /\ \A k \in Nat : RangeEnd(n, m, k) \in Nat
         /\ \A k \in 0 .. used - 1 : RangeEnd(n, m, k) \in 0 .. n
         /\ \A k, c \in 0 .. used - 1 : k <= c => RangeEnd(n, m, k) <= RangeEnd(n, m, c)
         /\ \A x \in 0 .. n - 1 : \E k \in 0 .. used - 1 :
              x < RangeEnd(n, m, k) /\ (k = 0 \/ RangeEnd(n, m, k - 1) <= x)
  <1> DEFINE used == IF n < m THEN n ELSE m
             base == n \div m
             rest == n - base * m
             end(k) == (k + 1) * base + IF k < rest THEN k + 1 ELSE rest
  <1>1. used \in Nat \ {0} /\ used <= m /\ base \in Nat /\ rest \in 0 .. m - 1 /\ n = base * m + rest
    <2>1. base \in Nat /\ rest \in 0 .. m - 1
      BY DivMod
    <2>2. base * m \in Nat
      BY <2>1, Products
    <2>3. n = base * m + (n - base * m)
      <3> DEFINE z == base * m
      <3>1. z \in Nat
        BY <2>2
      <3> HIDE DEF z
      <3>2. n = z + (n - z)
        BY <3>1
      <3> QED BY <3>2 DEF z
    <2> QED BY <2>1, <2>3
  <1>2. \A k : RangeEnd(n, m, k) = end(k)
    BY DEF RangeEnd
  <1>3. end(used - 1) = n
    <2>1. CASE n < m
      <3>1. base = 0
        BY <2>1
      <3> QED BY <1>1, <2>1, <3>1
    <2>2. CASE ~ (n < m)
      <3> HIDE DEF base, rest
      <3>1. used - 1 + 1 = m /\ ~ (used - 1 < rest) /\ m * base = base * m
        BY <1>1, <2>2
      <3>2. end(used - 1) = (used - 1 + 1) * base + rest
        BY <3>1
      <3> QED BY <1>1, <3>1, <3>2
    <2> QED BY <2>1, <2>2
  <1> HIDE DEF base, rest
  <1>4. ASSUME NEW k \in Nat PROVE end(k) \in Nat
    <2>1. (k + 1) * base \in Nat
      BY <1>1, Products
    <2> DEFINE kb == (k + 1) * base
    <2>2. kb \in Nat
      BY <2>1
    <2> HIDE DEF kb
    <2>3. kb + (IF k < rest THEN k + 1 ELSE rest) \in Nat
      BY <1>1, <2>2
    <2> QED BY <2>3 DEF kb
  <1>5. ASSUME NEW k \in 0 .. used - 1, NEW c \in 0 .. used - 1, k <= c
        PROVE  end(k) <= end(c)
    <2> HIDE DEF used
    <2>1. (k + 1) * base \in Nat /\ (c + 1) * base \in Nat /\ (k + 1) * base <= (c + 1) * base
      BY <1>1, <1>5, Products
    <2>2. (IF k < rest THEN k + 1 ELSE rest) <= (IF c < rest THEN c + 1 ELSE rest)
      BY <1>1, <1>5
    <2> DEFINE kb == (k + 1) * base
               cb == (c + 1) * base
    <2>3. kb \in Nat /\ cb \in Nat /\ kb <= cb
      BY <2>1
    <2> HIDE DEF kb, cb
    <2>4. kb + (IF k < rest THEN k + 1 ELSE rest) <= cb + (IF c < rest THEN c + 1 ELSE rest)
      BY <1>1, <2>2, <2>3
    <2> QED BY <2>4 DEF kb, cb
  <1>6. ASSUME NEW k \in 0 .. used - 1 PROVE end(k) \in 0 .. n
    <2> HIDE DEF used
    <2>1. end(k) \in Nat
      BY <1>1, <1>4
    <2>2. end(k) <= end(used - 1)
      BY <1>1, <1>5
    <2> HIDE DEF end
    <2> QED BY <1>3, <2>1, <2>2
  <1> HIDE DEF used, end
  <1>7. ASSUME NEW x \in 0 .. n - 1
        PROVE  \E k \in 0 .. used - 1 : x < end(k) /\ (k = 0 \/ end(k - 1) <= x)
    <2> DEFINE S == {k \in 0 .. used - 1 : x < end(k)}
    <2>1. S \in SUBSET Nat /\ used - 1 \in S
      BY <1>1, <1>3
    <2>2. PICK k \in S : \A c \in S : k <= c
      <3> HIDE DEF S
      <3> QED BY <2>1, LeastElement
    <2>3. k = 0 \/ (k - 1 \in 0 .. used - 1 /\ k - 1 \notin S)
      BY <1>1, <2>2
    <2> QED BY <1>6, <2>3
  <1> QED BY <1>1, <1>2, <1>4, <1>5, <1>6, <1>7 DEF used

-----------------------------------------------------------------------------
\* Buckets are finitely many sorted sequences of keys.
IsBuckets(buckets) ==
  /\ IsFiniteSet(DOMAIN buckets)
  /\ \A n \in DOMAIN buckets :
       /\ buckets[n] \in Seq(Nat)
       /\ \A x, z \in DOMAIN buckets[n] : x <= z => buckets[n][x] <= buckets[n][z]

\* What the contract of the assignment says of a, for the indices S.
IsAssignment(a, S, buckets) ==
  /\ a \in [DOMAIN buckets -> S \union {-1}]
  /\ \A n \in DOMAIN buckets : a[n] # -1 => \E x \in DOMAIN buckets[n] : buckets[n][x] = a[n]
  /\ \A k \in S : \E n \in DOMAIN buckets : a[n] = k
  /\ \A n, c \in DOMAIN buckets : a[n] = a[c] /\ a[n] # -1 => n = c

\* D[1][n] and D[2][n] share the point function of bucket n.
SharedIn(D, n, buckets, a, v) ==
  \A c \in 0 .. Len(buckets[n]) - 1 :
    Xor(D[1][n][c], D[2][n][c]) = PointOf(buckets[n], a[n], v[n], Zero)[c]

\* Outputs D of the two parties for all buckets that share the points of assignment a
\* and betas v.
Complementary(D, buckets, a, v) == \A n \in DOMAIN buckets : SharedIn(D, n, buckets, a, v)

\* The betas that assignment a gets from the values of the parties.
Betas(values, a) == [n \in DOMAIN a |-> BetaOf(values, a, n)]

(***************************************************************************)
(* index_in_bucket is the place, from 0, of an index that is in the bucket.*)
(***************************************************************************)
LEMMA PlaceOfIndex ==
  ASSUME NEW bucket \in Seq(Nat), NEW k \in Nat, NEW q \in DOMAIN bucket, bucket[q] = k,
         \A x, z \in DOMAIN bucket : x <= z => bucket[x] <= bucket[z]
  PROVE  LET c == IndexInBucket(bucket, k) IN
         c \in Nat /\ c + 1 \in DOMAIN bucket /\ bucket[c + 1] = k
  <1> DEFINE len == Len(bucket)
  <1>1. /\ len \in Nat /\ bucket \in [1 .. len -> Int] /\ DOMAIN bucket = 1 .. len
        /\ k \in Int /\ k # -1
    OBVIOUS
  <1> HIDE DEF len
  <1>2. LET c == Cardinality({x \in 1 .. len : bucket[x] < k}) IN
        c \in Nat /\ c + 1 \in 1 .. len /\ bucket[c + 1] = k
    <2>1. q \in 1 .. len /\ \A x, z \in 1 .. len : x <= z => bucket[x] <= bucket[z]
      BY <1>1
    <2>2. \A n \in Nat : \A s \in [1 .. n -> Int] :
            (\A x, z \in 1 .. n : x <= z => s[x] <= s[z]) => \A v \in Int : \A w \in 1 .. n :
              s[w] = v => LET c == Cardinality({x \in 1 .. n : s[x] < v}) IN
                          c \in Nat /\ c + 1 \in 1 .. n /\ s[c + 1] = v
      BY FirstPlace
    <2> QED BY <1>1, <2>1, <2>2
  <1>3. IndexInBucket(bucket, k) = Cardinality({x \in 1 .. len : bucket[x] < k})
    BY <1>1 DEF IndexInBucket
  <1> QED BY <1>1, <1>2, <1>3

\* A key has finitely many places in the buckets.
LEMMA FiniteHits ==
  ASSUME NEW buckets, IsBuckets(buckets), NEW k
  PROVE  IsFiniteSet(Hits(buckets, k))
  <1> DEFINE Sets == {DOMAIN buckets[n] : n \in DOMAIN buckets}
             Places == UNION Sets
  <1>1. IsFiniteSet(DOMAIN buckets)
    BY DEF IsBuckets
  <1>2. IsFiniteSet(Sets)
    <2> DEFINE f == [n \in DOMAIN buckets |-> DOMAIN buckets[n]]
    <2>1. f \in Surjection(DOMAIN buckets, Sets)
      BY DEF Surjection
    <2> HIDE DEF f, Sets
    <2> QED BY <1>1, <2>1, FS_Surjection
  <1>3. ASSUME NEW S \in Sets PROVE IsFiniteSet(S)
    <2>1. PICK n \in DOMAIN buckets : S = DOMAIN buckets[n]
      BY <1>3
    <2>2. 1 \in Int /\ Len(buckets[n]) \in Int /\ S = 1 .. Len(buckets[n])
      BY <2>1 DEF IsBuckets
    <2> QED BY <2>2, FS_Interval
  <1>4. IsFiniteSet(Places)
    <2> HIDE DEF Sets
    <2> QED BY <1>2, <1>3, FS_UNION
  <1>5. IsFiniteSet((DOMAIN buckets) \X Places)
    <2> HIDE DEF Places
    <2> QED BY <1>1, <1>4, FS_Product
  <1>6. Hits(buckets, k) \subseteq (DOMAIN buckets) \X Places
    BY DEF Hits
  <1> HIDE DEF Places
  <1> QED BY <1>5, <1>6, FS_Subset

(***************************************************************************)
(* The outputs of one protocol share its point function, with the stray    *)
(* value of an unspecified last element never in it.                       *)
(***************************************************************************)
LEMMA OutputsShare ==
  ASSUME NEW buckets, NEW n, NEW a, NEW v, a[n] = -1 => v[n] = Zero,
         NEW mask, NEW stray, NEW D,
         \A p \in Party : D[p][n] = SharesOf(PointOf(buckets[n], a[n], v[n], stray), mask)[p]
  PROVE  SharedIn(D, n, buckets, a, v)
  <1> DEFINE point(z) == PointOf(buckets[n], a[n], v[n], z)
             cells == 0 .. Len(buckets[n]) - 1
  <1>1. point(stray) = point(Zero)
    BY DEF PointOf
  <1>2. DOMAIN point(Zero) = cells
    BY DEF PointOf
  <1> HIDE DEF point, cells
  <1>3. /\ D[1][n] = [c \in cells |-> mask[c + 1]]
        /\ D[2][n] = [c \in cells |-> Xor(mask[c + 1], point(Zero)[c])]
    BY <1>1, <1>2 DEF SharesOf, Party, point
  <1>4. \A c \in cells : Xor(D[1][n][c], D[2][n][c]) = point(Zero)[c]
    BY <1>3 DEF Xor
  <1> QED BY <1>4 DEF SharedIn, point, cells

\* Where the exclusive ors of D[1] and D[2] differ: at the keys of a, by the bit and v.
DifferAtMatches(D, buckets, a, v) ==
  \A k \in Nat :
    /\ (\A n \in DOMAIN buckets : a[n] # k) => XorAt(buckets, D[1], k) = XorAt(buckets, D[2], k)
    /\ \A n \in DOMAIN buckets : a[n] = k /\ v[n] \subseteq BitPos =>
         Xor(XorAt(buckets, D[1], k), XorAt(buckets, D[2], k)) = {"bit"} \union v[n]

(***************************************************************************)
(* The exclusive ors of complementary outputs at a key: they are equal at a*)
(* key that no bucket has, and differ by the bit and the beta at the key of*)
(* a bucket, whatever the other buckets contain.                           *)
(***************************************************************************)
LEMMA XorOfShares ==
  ASSUME NEW buckets, IsBuckets(buckets), NEW S \in SUBSET Nat,
         NEW a, IsAssignment(a, S, buckets),
         NEW v, \A n \in DOMAIN buckets : a[n] = -1 => v[n] = Zero,
         NEW D, Complementary(D, buckets, a, v)
  PROVE  DifferAtMatches(D, buckets, a, v)
  <1> SUFFICES ASSUME NEW k \in Nat
      PROVE  /\ (\A n \in DOMAIN buckets : a[n] # k) => XorAt(buckets, D[1], k) = XorAt(buckets, D[2], k)
             /\ \A n \in DOMAIN buckets : a[n] = k /\ v[n] \subseteq BitPos =>
                  Xor(XorAt(buckets, D[1], k), XorAt(buckets, D[2], k)) = {"bit"} \union v[n]
    BY DEF DifferAtMatches
  <1> DEFINE H == Hits(buckets, k)
             A == [h \in H |-> D[1][h[1]][h[2] - 1]]
             B == [h \in H |-> D[2][h[1]][h[2] - 1]]
             P == [h \in H |-> PointOf(buckets[h[1]], a[h[1]], v[h[1]], Zero)[h[2] - 1]]
             E == BitPos \union {"bit"}
  <1>1. IsFiniteSet(H)
    BY FiniteHits
  <1>2. ASSUME NEW h \in H
        PROVE  /\ h[1] \in DOMAIN buckets /\ h[2] \in 1 .. Len(buckets[h[1]])
               /\ h[2] - 1 \in 0 .. Len(buckets[h[1]]) - 1 /\ buckets[h[1]][h[2]] = k
               /\ h = <<h[1], h[2]>>
    <2>1. h[1] \in DOMAIN buckets /\ h[2] \in DOMAIN buckets[h[1]] /\ buckets[h[1]][h[2]] = k
      BY DEF Hits
    <2>2. h = <<h[1], h[2]>>
      BY DEF Hits
    <2>3. buckets[h[1]] \in Seq(Nat)
      BY <2>1 DEF IsBuckets
    <2> HIDE DEF H
    <2> QED BY <2>1, <2>2, <2>3
  <1> HIDE DEF H
  <1>3. \A h \in H : (A[h] \ B[h]) \union (B[h] \ A[h]) = P[h]
    <2> SUFFICES ASSUME NEW h \in H PROVE (A[h] \ B[h]) \union (B[h] \ A[h]) = P[h]
      OBVIOUS
    <2>1. Xor(D[1][h[1]][h[2] - 1], D[2][h[1]][h[2] - 1]) =
            PointOf(buckets[h[1]], a[h[1]], v[h[1]], Zero)[h[2] - 1]
      BY <1>2 DEF Complementary, SharedIn
    <2> QED BY <2>1 DEF Xor
  <1>4. ASSUME NEW h \in H
        PROVE  P[h] = IF h[2] - 1 = IndexInBucket(buckets[h[1]], a[h[1]])
                      THEN {"bit"} \union v[h[1]] ELSE {}
    BY <1>2 DEF PointOf, Zero
  <1>5. ASSUME NEW h \in H, h[2] - 1 = IndexInBucket(buckets[h[1]], a[h[1]])
        PROVE  a[h[1]] = k
    <2>1. a[h[1]] # -1
      BY <1>2, <1>5 DEF IndexInBucket
    <2>2. a[h[1]] \in Nat /\ \E x \in DOMAIN buckets[h[1]] : buckets[h[1]][x] = a[h[1]]
      BY <1>2, <2>1 DEF IsAssignment
    <2>3. buckets[h[1]][(h[2] - 1) + 1] = a[h[1]]
      BY <1>2, <2>2, <1>5, PlaceOfIndex DEF IsBuckets
    <2>4. (h[2] - 1) + 1 = h[2]
      BY <1>2
    <2> QED BY <1>2, <2>3, <2>4
  <1>6. /\ XorAt(buckets, D[1], k) = XorOf(H, E, A)
        /\ XorAt(buckets, D[2], k) = XorOf(H, E, B)
    <2>1. ASSUME NEW p \in {1, 2}, NEW F, F = [h \in H |-> D[p][h[1]][h[2] - 1]]
          PROVE  XorAt(buckets, D[p], k) = XorOf(H, E, F)
      <3>1. \A e : {h \in H : e \in F[h]} = {h \in Hits(buckets, k) : e \in D[p][h[1]][h[2] - 1]}
        BY <2>1 DEF H
      <3> QED BY <3>1 DEF XorAt, XorOf
    <2> QED BY <2>1
  <1>7. /\ (\A h \in H : P[h] = {}) => XorOf(H, E, A) = XorOf(H, E, B)
        /\ \A g \in H : P[g] \subseteq E /\ (\A h \in H \ {g} : P[h] = {}) =>
             (XorOf(H, E, A) \ XorOf(H, E, B)) \union (XorOf(H, E, B) \ XorOf(H, E, A)) = P[g]
    <2> HIDE DEF A, B, P, E
    <2> QED BY <1>1, <1>3, XorOfFamilies
  <1>8. ASSUME \A n \in DOMAIN buckets : a[n] # k
        PROVE  XorAt(buckets, D[1], k) = XorAt(buckets, D[2], k)
    <2>1. \A h \in H : P[h] = {}
      BY <1>2, <1>4, <1>5, <1>8
    <2> HIDE DEF P
    <2> QED BY <1>6, <1>7, <2>1
  <1>9. ASSUME NEW n \in DOMAIN buckets, a[n] = k, v[n] \subseteq BitPos
        PROVE  Xor(XorAt(buckets, D[1], k), XorAt(buckets, D[2], k)) = {"bit"} \union v[n]
    <2> DEFINE g == <<n, IndexInBucket(buckets[n], k) + 1>>
    <2>1. k # -1 /\ \E x \in DOMAIN buckets[n] : buckets[n][x] = k
      BY <1>9 DEF IsAssignment
    <2>2. /\ IndexInBucket(buckets[n], k) \in Nat
          /\ g[2] \in DOMAIN buckets[n] /\ buckets[n][g[2]] = k
      BY <2>1, PlaceOfIndex DEF IsBuckets
    <2>3. g \in H
      BY <2>2 DEF H, Hits
    <2>4. P[g] = {"bit"} \union v[n]
      <3>1. g[1] = n /\ g[2] - 1 = IndexInBucket(buckets[n], a[n])
        BY <1>9, <2>2
      <3> HIDE DEF P, g
      <3> QED BY <1>4, <2>3, <3>1
    <2>5. ASSUME NEW h \in H \ {g} PROVE P[h] = {}
      <3>1. SUFFICES ASSUME h[2] - 1 = IndexInBucket(buckets[h[1]], a[h[1]]) PROVE FALSE
        BY <1>4
      <3>2. a[h[1]] = k /\ h[1] = n
        BY <1>2, <1>5, <1>9, <2>1, <3>1 DEF IsAssignment
      <3>3. h[2] = IndexInBucket(buckets[n], k) + 1
        BY <1>2, <1>9, <3>1, <3>2
      <3> QED BY <1>2, <3>2, <3>3
    <2>6. P[g] \subseteq E
      BY <1>9, <2>4
    <2> HIDE DEF P, g
    <2>7. (XorOf(H, E, A) \ XorOf(H, E, B)) \union (XorOf(H, E, B) \ XorOf(H, E, A)) = P[g]
      BY <1>7, <2>3, <2>5, <2>6
    <2> QED BY <1>6, <2>4, <2>7 DEF Xor
  <1> QED BY <1>8, <1>9

\* An index has the same rank among the matches and among the indices.
SameRanks(a, idx, N) ==
  \A n \in DOMAIN a, j \in DOMAIN idx :
    a[n] = idx[j] => Rank(a, n) = Rank(idx, j) /\ Rank(idx, j) \in 0 .. N - 1

(***************************************************************************)
(* create_beta_vals counts among the matches what the driver would count   *)
(* among the indices.                                                      *)
(***************************************************************************)
LEMMA RankOfMatch ==
  ASSUME NEW buckets, IsFiniteSet(DOMAIN buckets), NEW N \in Nat \ {0}, NEW idx \in [0 .. N - 1 -> Nat],
         InjectiveOn(idx, DOMAIN idx),
         NEW a, IsAssignment(a, ImageOf(idx, DOMAIN idx), buckets)
  PROVE  SameRanks(a, idx, N)
  <1> SUFFICES ASSUME NEW n \in DOMAIN buckets, NEW j \in DOMAIN idx, a[n] = idx[j]
               PROVE  Rank(a, n) = Rank(idx, j) /\ Rank(idx, j) \in 0 .. N - 1
    BY DEF SameRanks, IsAssignment
  <1> DEFINE k == idx[j]
             S == {c \in DOMAIN buckets : a[c] # -1 /\ a[c] < k}
             T == {c \in 0 .. N - 1 : idx[c] # -1 /\ idx[c] < k}
  <1>1. DOMAIN idx = 0 .. N - 1 /\ j \in 0 .. N - 1 /\ k \in Nat
    OBVIOUS
  <1>2. IsFiniteSet(0 .. N - 1) /\ Cardinality(0 .. N - 1) = N
    <2>1. 0 \in Int /\ N - 1 \in Int
      OBVIOUS
    <2>2. Cardinality(0 .. N - 1) = IF 0 > N - 1 THEN 0 ELSE (N - 1) - 0 + 1
      BY <2>1, FS_Interval
    <2>3. IsFiniteSet(0 .. N - 1)
      BY <2>1, FS_Interval
    <2> QED BY <2>2, <2>3
  <1>3. IsFiniteSet(S) /\ IsFiniteSet(T)
    BY <1>2, FS_Subset
  <1>4. ImageOf(a, S) = ImageOf(idx, T)
    <2>1. ASSUME NEW c \in S PROVE \E d \in T : idx[d] = a[c]
      <3>1. a[c] \in {idx[d] : d \in DOMAIN idx}
        BY DEF IsAssignment, ImageOf
      <3> QED BY <1>1, <3>1
    <2>2. ASSUME NEW d \in T PROVE \E c \in S : a[c] = idx[d]
      <3>1. \E c \in DOMAIN buckets : a[c] = idx[d]
        BY <1>1 DEF IsAssignment, ImageOf
      <3> QED BY <3>1
    <2> HIDE DEF S, T
    <2> QED BY <2>1, <2>2 DEF ImageOf
  <1>5. InjectiveOn(a, S)
    BY DEF IsAssignment, InjectiveOn
  <1>6. InjectiveOn(idx, T)
    BY <1>1 DEF InjectiveOn
  <1>7. Rank(a, n) = Cardinality(S)
    BY DEF Rank, IsAssignment
  <1>8. Rank(idx, j) = Cardinality(T)
    BY <1>1 DEF Rank
  <1>9. Cardinality(T) \in 0 .. N - 1
    <2> DEFINE U == (0 .. N - 1) \ {j}
    <2>1. ASSUME NEW c \in T PROVE c \in U
      <3>1. ~ (k < k)
        <4> HIDE DEF k
        <4> QED BY <1>1
      <3> QED BY <3>1
    <2>2. IsFiniteSet(U) /\ Cardinality(U) = N - 1
      <3>1. IsFiniteSet(U) /\ Cardinality(U) = IF j \in 0 .. N - 1 THEN Cardinality(0 .. N - 1) - 1 ELSE Cardinality(0 .. N - 1)
        BY <1>2, FS_RemoveElement, Zenon
      <3> QED BY <1>1, <1>2, <3>1
    <2> HIDE DEF S, T, U
    <2>3. Cardinality(T) <= Cardinality(U)
      BY <2>1, <2>2, FS_Subset
    <2>4. Cardinality(T) \in Nat
      BY <1>3, FS_CardinalityType
    <2> QED BY <2>2, <2>3, <2>4
  <1> HIDE DEF S, T
  <1>10. Cardinality(ImageOf(a, S)) = Cardinality(S)
    BY <1>3, <1>5, ImageSize, Zenon
  <1>11. Cardinality(ImageOf(idx, T)) = Cardinality(T)
    BY <1>3, <1>6, ImageSize, Zenon
  <1> QED BY <1>4, <1>7, <1>8, <1>9, <1>10, <1>11

(***************************************************************************)
(* The two vectors of exclusive ors combine to 0 at a key that is no index,*)
(* and at an index to the bit and the values of its rank.                  *)
(***************************************************************************)
FunctionShared(buckets, D, idx, values) ==
  /\ \A k \in Nat \ ImageOf(idx, DOMAIN idx) : XorAt(buckets, D[1], k) = XorAt(buckets, D[2], k)
  /\ \A j \in DOMAIN idx :
       /\ Rank(idx, j) \in DOMAIN idx
       /\ Xor(XorAt(buckets, D[1], idx[j]), XorAt(buckets, D[2], idx[j])) =
            {"bit"} \union Xor(values[1][Rank(idx, j)], values[2][Rank(idx, j)])

\* The values are blocks.
AreBlocks(values, N) == \A p \in Party : \A r \in 0 .. N - 1 : values[p][r] \subseteq BitPos

\* What the outputs for an assignment of the indices combine to.
THEOREM FunctionOfShares ==
  ASSUME NEW buckets, IsBuckets(buckets), NEW N \in Nat \ {0}, NEW idx \in [0 .. N - 1 -> Nat],
         InjectiveOn(idx, DOMAIN idx),
         NEW a, IsAssignment(a, ImageOf(idx, DOMAIN idx), buckets),
         NEW values, AreBlocks(values, N),
         NEW D, Complementary(D, buckets, a, Betas(values, a))
  PROVE  FunctionShared(buckets, D, idx, values)
  <1> DEFINE S == ImageOf(idx, DOMAIN idx)
             v == Betas(values, a)
  <1>1. S \in SUBSET Nat /\ DOMAIN a = DOMAIN buckets
    BY DEF IsAssignment, ImageOf
  <1>2. \A n \in DOMAIN buckets : v[n] = BetaOf(values, a, n)
    BY <1>1 DEF Betas
  <1>3. \A n \in DOMAIN buckets : a[n] = -1 => v[n] = Zero
    BY <1>2 DEF BetaOf
  <1>4. IsAssignment(a, S, buckets) /\ Complementary(D, buckets, a, v)
    OBVIOUS
  <1> HIDE DEF S, v
  <1>5. DifferAtMatches(D, buckets, a, v)
    BY <1>1, <1>3, <1>4, XorOfShares, Zenon
  <1>6. ASSUME NEW k \in Nat \ S
        PROVE  XorAt(buckets, D[1], k) = XorAt(buckets, D[2], k)
    <2>1. \A n \in DOMAIN buckets : a[n] # k
      BY <1>4 DEF IsAssignment
    <2> QED BY <1>5, <2>1 DEF DifferAtMatches
  <1>7. ASSUME NEW j \in DOMAIN idx
        PROVE  /\ Rank(idx, j) \in 0 .. N - 1
               /\ Xor(XorAt(buckets, D[1], idx[j]), XorAt(buckets, D[2], idx[j])) =
                    {"bit"} \union Xor(values[1][Rank(idx, j)], values[2][Rank(idx, j)])
    <2>1. idx[j] \in Nat /\ idx[j] \in S
      BY DEF S, ImageOf
    <2>2. PICK n \in DOMAIN buckets : a[n] = idx[j]
      BY <1>4, <2>1 DEF IsAssignment
    <2>3. Rank(a, n) = Rank(idx, j) /\ Rank(idx, j) \in 0 .. N - 1
      <3>1. IsFiniteSet(DOMAIN buckets)
        BY DEF IsBuckets
      <3>2. IsAssignment(a, ImageOf(idx, DOMAIN idx), buckets)
        BY <1>4 DEF S
      <3>3. SameRanks(a, idx, N)
        BY <3>1, <3>2, RankOfMatch, Zenon
      <3> QED BY <1>1, <2>2, <3>3 DEF SameRanks
    <2>4. v[n] = Xor(values[1][Rank(idx, j)], values[2][Rank(idx, j)])
      BY <1>2, <2>1, <2>2, <2>3 DEF BetaOf
    <2>5. v[n] \subseteq BitPos
      BY <2>3, <2>4 DEF Xor, Party, AreBlocks
    <2> QED BY <1>5, <2>1, <2>2, <2>3, <2>4, <2>5 DEF DifferAtMatches
  <1> QED BY <1>6, <1>7 DEF S, FunctionShared

=============================================================================
