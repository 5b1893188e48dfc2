------------------------------- MODULE Lemmas -------------------------------
(* Facts that the proofs of several components rest on: numbers and their    *)
(* rounding, sorting and filtering, and what a recursion over a sequence     *)
(* computes.                                                                  *)
EXTENDS Sorting, FiniteSetTheorems, WellFoundedInduction, TLAPS

----------------------------------------------------------------------------
(* Induction and recursion up to a bound. *)

\* Every set of natural numbers has a least element.
LEMMA LeastNumber ==
    ASSUME NEW T \in SUBSET Nat, T # {}
    PROVE  \E x \in T : \A y \in T : x <= y
<1> DEFINE R == OpToRel(<, Nat)
<1>1. IsWellFoundedOn(R, Nat)
  BY NatLessThanWellFounded
<1>2. \A x, y \in Nat : y < x => <<y, x>> \in R
  BY DEF OpToRel
<1> HIDE DEF R
<1>3. PICK x \in T : \A y \in T : ~ (<<y, x>> \in R)
  BY <1>1, WFMin
<1>4. ASSUME NEW y \in T PROVE x <= y
  <2>1. ~ (y < x)
    BY <1>2, <1>3
  <2> QED
    BY <2>1
<1> QED
  BY <1>4

\* Induction up to a bound, as a fact about a set.
LEMMA ReachesEnd ==
    ASSUME NEW n \in Nat, NEW Good, 0 \in Good,
           \A k \in 0..n : k \in Good /\ k < n => k + 1 \in Good
    PROVE  \A k \in 0..n : k \in Good
<1> DEFINE Bad == {k \in 0..n : k \notin Good}
<1> SUFFICES ASSUME Bad # {} PROVE FALSE
  OBVIOUS
<1>0. Bad \in SUBSET Nat
  OBVIOUS
<1>1. PICK k \in Bad : \A l \in Bad : k <= l
  <2> HIDE DEF Bad
  <2> QED
    BY <1>0, LeastNumber
<1>2. k \in 0..n /\ k \notin Good /\ k # 0
  BY <1>1
<1>3. k - 1 \in 0..n /\ k - 1 < n /\ (k - 1) + 1 = k
  BY <1>2
<1>4. k - 1 \notin Bad
  BY <1>1, <1>3
<1> QED
  BY <1>2, <1>3, <1>4

\* Step after step, op leads from one element of a set to the next,
Steps(f, n, base, op) ==
    f = [k \in 0..n |-> IF k = 0 THEN base ELSE op[<<f[k - 1], k>>]]

\* so that such a sequence of steps exists.
LEMMA StepsExist ==
    ASSUME NEW D, NEW base \in D, NEW n \in Nat, NEW op, \A x \in D : \A k \in 1..n : op[<<x, k>>] \in D
    PROVE  \E f \in [0..n -> D] : Steps(f, n, base, op)
<1> DEFINE Good == {m \in 0..n : \E f \in [0..m -> D] : Steps(f, m, base, op)}
<1>1. 0 \in Good
  <2> DEFINE f == [k \in 0..0 |-> base]
  <2>1. f \in [0..0 -> D] /\ Steps(f, 0, base, op)
    BY DEF Steps
  <2> QED
    BY <2>1
<1>2. ASSUME NEW m \in 0..n, m \in Good, m < n PROVE m + 1 \in Good
  <2>1. PICK f \in [0..m -> D] : Steps(f, m, base, op)
    BY <1>2
  <2> DEFINE g == [k \in 0..m + 1 |-> IF k = m + 1 THEN op[<<f[m], m + 1>>] ELSE f[k]]
  <2>2. m \in 0..m /\ m + 1 \in 1..n
    BY <1>2
  <2>3. g \in [0..m + 1 -> D]
    BY <2>1, <2>2
  <2>4. f = [k \in 0..m |-> IF k = 0 THEN base ELSE op[<<f[k - 1], k>>]]
    BY <2>1 DEF Steps
  <2>5. ASSUME NEW k \in 0..m + 1 PROVE g[k] = IF k = 0 THEN base ELSE op[<<g[k - 1], k>>]
    <3>1. CASE k = m + 1
      <4>1. k # 0 /\ k - 1 = m /\ m \in 0..m + 1 /\ m # m + 1
        BY <3>1
      <4>2. g[m] = f[m]
        BY <4>1
      <4> QED
        BY <3>1, <4>1, <4>2
    <3>2. CASE k # m + 1
      <4>1. k \in 0..m /\ g[k] = f[k]
        BY <3>2
      <4>2. k # 0 => k - 1 \in 0..m + 1 /\ k - 1 # m + 1 /\ g[k - 1] = f[k - 1]
        BY <4>1
      <4> QED
        BY <2>4, <4>1, <4>2
    <3> QED
      BY <3>1, <3>2
  <2>6. Steps(g, m + 1, base, op)
    <3> HIDE DEF g
    <3>1. g = [k \in 0..m + 1 |-> g[k]]
      BY <2>3
    <3> QED
      BY <2>5, <3>1 DEF Steps
  <2> HIDE DEF g
  <2> QED
    BY <1>2, <2>3, <2>6
<1>3. \A m \in 0..n : m \in Good
  <2> HIDE DEF Good
  <2> QED
    BY <1>1, <1>2, ReachesEnd
<1> QED
  BY <1>3

----------------------------------------------------------------------------
(* Sorting. *)

\* One of two elements comes before the other, and what comes before it does, too.
StrictOrder(S, before) ==
    /\ \A x \in S : <<x, x>> \notin before
    /\ \A x, y \in S : x # y => <<x, y>> \in before \/ <<y, x>> \in before
    /\ \A x, y, z \in S : <<x, y>> \in before /\ <<y, z>> \in before => <<x, z>> \in before

\* The number of elements before another
Rank(S, before, x) == Cardinality({y \in S : <<y, x>> \in before})

\* tells its place.
LEMMA RankIs ==
    ASSUME NEW S, IsFiniteSet(S), NEW before, StrictOrder(S, before)
    PROVE  /\ \A x \in S : Rank(S, before, x) \in 0..Cardinality(S) - 1
           /\ \A x, y \in S : <<x, y>> \in before => Rank(S, before, x) < Rank(S, before, y)
<1> DEFINE B(x) == {y \in S : <<y, x>> \in before}
<1>0. Cardinality(S) \in Nat
  BY FS_CardinalityType
<1>1. ASSUME NEW x \in S PROVE Cardinality(B(x)) \in 0..Cardinality(S) - 1
  <2>1. B(x) \in SUBSET S /\ B(x) # S
    BY DEF StrictOrder
  <2>2. IsFiniteSet(B(x)) /\ Cardinality(B(x)) <= Cardinality(S) /\ Cardinality(B(x)) # Cardinality(S)
    BY <2>1, FS_Subset
  <2>3. Cardinality(B(x)) \in Nat
    BY <2>2, FS_CardinalityType
  <2> QED
    BY <1>0, <2>2, <2>3
<1>2. ASSUME NEW x \in S, NEW y \in S, <<x, y>> \in before
      PROVE  Cardinality(B(x)) < Cardinality(B(y))
  <2>1. B(x) \in SUBSET B(y) /\ B(x) # B(y)
    BY <1>2 DEF StrictOrder
  <2>2. IsFiniteSet(B(y))
    BY FS_Subset
  <2> HIDE DEF B
  <2>3. Cardinality(B(x)) <= Cardinality(B(y)) /\ Cardinality(B(x)) # Cardinality(B(y))
    BY <2>1, <2>2, FS_Subset
  <2> QED
    BY <1>0, <1>1, <2>3
<1> QED
  BY <1>1, <1>2 DEF Rank

\* A sequence of all elements of a set, each once and in order
Sorts(s, n, S, before) ==
    /\ n \in Nat /\ s \in [1..n -> S] /\ s \in Seq(S) /\ Len(s) = n
    /\ \A x \in S : /\ Rank(S, before, x) + 1 \in 1..n
                    /\ s[Rank(S, before, x) + 1] = x
    /\ \A i, j \in 1..n : <<s[i], s[j]>> \in before <=> i < j
    /\ \A i, j \in 1..n : s[i] = s[j] => i = j

\* is what sorting gives.
LEMMA InOrderIs ==
    ASSUME NEW S, IsFiniteSet(S), NEW before, StrictOrder(S, before),
           NEW s, s = InOrder(S, before), NEW n, n = Cardinality(S)
    PROVE  Sorts(s, n, S, before)
<1> DEFINE f == [x \in S |-> Rank(S, before, x) + 1]
<1>0. n \in Nat
  BY FS_CardinalityType
<1>1. /\ \A x \in S : Rank(S, before, x) \in 0..n - 1
      /\ \A x, y \in S : <<x, y>> \in before => Rank(S, before, x) < Rank(S, before, y)
  BY RankIs
<1>2. \A x, y \in S : x # y => Rank(S, before, x) # Rank(S, before, y)
  <2> SUFFICES ASSUME NEW x \in S, NEW y \in S, x # y
               PROVE  Rank(S, before, x) # Rank(S, before, y)
    OBVIOUS
  <2>1. <<x, y>> \in before \/ <<y, x>> \in before
    BY DEF StrictOrder
  <2> QED
    BY <1>0, <1>1, <2>1
<1>3. f \in Injection(S, 1..n)
  BY <1>0, <1>1, <1>2 DEF Injection, IsInjective
<1>4. IsFiniteSet(1..n) /\ Cardinality(1..n) = n
  BY <1>0, FS_Interval
<1>5. f \in Surjection(S, 1..n)
  BY <1>3, <1>4, FS_Injection
<1>6. ASSUME NEW i \in 1..n PROVE \E x \in S : Rank(S, before, x) = i - 1
  <2>1. PICK x \in S : f[x] = i
    BY <1>5 DEF Surjection
  <2>2. Rank(S, before, x) + 1 = i /\ Rank(S, before, x) \in Int
    BY <1>1, <2>1
  <2> QED
    BY <2>2
<1>7. s = [i \in 1..n |-> CHOOSE x \in S : Rank(S, before, x) = i - 1]
  BY DEF InOrder, Rank
<1>8. \A i \in 1..n : s[i] \in S /\ Rank(S, before, s[i]) = i - 1
  BY <1>6, <1>7
<1>9. s \in [1..n -> S] /\ s \in Seq(S) /\ Len(s) = n
  BY <1>0, <1>7, <1>8
<1>10. \A x \in S : Rank(S, before, x) + 1 \in 1..n /\ s[Rank(S, before, x) + 1] = x
  <2> SUFFICES ASSUME NEW x \in S
               PROVE  Rank(S, before, x) + 1 \in 1..n /\ s[Rank(S, before, x) + 1] = x
    OBVIOUS
  <2>1. Rank(S, before, x) + 1 \in 1..n
    BY <1>0, <1>1
  <2>2. Rank(S, before, s[Rank(S, before, x) + 1]) = (Rank(S, before, x) + 1) - 1
    BY <1>8, <2>1
  <2>3. (Rank(S, before, x) + 1) - 1 = Rank(S, before, x)
    BY <1>1
  <2> QED
    BY <1>2, <1>8, <2>1, <2>2, <2>3
<1>11. \A i, j \in 1..n : s[i] = s[j] => i = j
  BY <1>0, <1>8
<1>12. \A i, j \in 1..n : <<s[i], s[j]>> \in before <=> i < j
  <2> SUFFICES ASSUME NEW i \in 1..n, NEW j \in 1..n
               PROVE  <<s[i], s[j]>> \in before <=> i < j
    OBVIOUS
  <2>1. s[i] \in S /\ s[j] \in S /\ Rank(S, before, s[i]) = i - 1 /\ Rank(S, before, s[j]) = j - 1
    BY <1>8
  <2>2. <<s[i], s[j]>> \in before => i < j
    BY <1>0, <1>1, <2>1
  <2>3. ASSUME i < j PROVE <<s[i], s[j]>> \in before
    <3>1. s[i] # s[j]
      BY <2>3, <1>11
    <3>2. ~ (<<s[j], s[i]>> \in before)
      <4>1. <<s[j], s[i]>> \in before => Rank(S, before, s[j]) < Rank(S, before, s[i])
        BY <1>1, <2>1
      <4> QED
        BY <1>0, <2>1, <2>3, <4>1
    <3> QED
      BY <2>1, <3>1, <3>2 DEF StrictOrder
  <2> QED
    BY <2>2, <2>3
<1> QED
  BY <1>0, <1>8, <1>9, <1>10, <1>11, <1>12 DEF Sorts

LEMMA CountUpTo ==
    ASSUME NEW n \in Nat
    PROVE  IsFiniteSet(1..n) /\ Cardinality(1..n) = n
BY FS_Interval

\* Numbers are sorted by their size,
SortsUp(s, n, S) ==
    /\ n \in Nat /\ s \in [1..n -> S] /\ s \in Seq(S) /\ Len(s) = n
    /\ \A x \in S : /\ Cardinality({y \in S : y < x}) + 1 \in 1..n
                    /\ s[Cardinality({y \in S : y < x}) + 1] = x
    /\ \A x \in S : \E i \in 1..n : s[i] = x
    /\ \A i, j \in 1..n : s[i] < s[j] <=> i < j
    /\ \A i, j \in 1..n : s[i] = s[j] => i = j

LEMMA AscendingIs ==
    ASSUME NEW S, S \subseteq Int, IsFiniteSet(S),
           NEW s, s = Ascending(S), NEW n, n = Cardinality(S)
    PROVE  SortsUp(s, n, S)
<1>0. PICK before : /\ \A x, y \in S : <<x, y>> \in before <=> x < y
                    /\ s = InOrder(S, before)
  BY DEF Ascending
<1>1. StrictOrder(S, before)
  <2>1. \A x \in S : ~ (x < x)
    OBVIOUS
  <2>2. \A x, y \in S : x # y => x < y \/ y < x
    OBVIOUS
  <2>3. \A x, y, z \in S : x < y /\ y < z => x < z
    OBVIOUS
  <2> QED
    BY <1>0, <2>1, <2>2, <2>3 DEF StrictOrder
<1>2. \A x \in S : Rank(S, before, x) = Cardinality({y \in S : y < x})
  <2> SUFFICES ASSUME NEW x \in S PROVE Rank(S, before, x) = Cardinality({y \in S : y < x})
    OBVIOUS
  <2>1. {y \in S : <<y, x>> \in before} = {y \in S : y < x}
    BY <1>0
  <2> QED
    BY <2>1 DEF Rank
<1>4. Sorts(s, n, S, before)
  BY <1>0, <1>1, InOrderIs
<1>5. \A i, j \in 1..n : s[i] < s[j] <=> i < j
  BY <1>0, <1>4 DEF Sorts
<1> QED
  BY <1>2, <1>4, <1>5 DEF Sorts, SortsUp

\* and what is picked from a sequence keeps the order it had: o are the places.
Picks(t, n, s, P, o) ==
    /\ n \in Nat /\ Len(t) = n /\ DOMAIN t = 1..n /\ n <= Len(s)
    /\ \A i \in 1..n : o[i] \in P /\ t[i] = s[o[i]]
    /\ \A i, j \in 1..n : o[i] < o[j] <=> i < j
    /\ \A x \in P : \E i \in 1..n : o[i] = x /\ t[i] = s[x]

LEMMA PickedIs ==
    ASSUME NEW S, NEW s \in Seq(S), NEW P \in SUBSET (DOMAIN s), NEW t, t = Picked(s, P),
           NEW o, o = Ascending(P), NEW n, n = Cardinality(P)
    PROVE  t \in Seq(S) /\ Picks(t, n, s, P, o)
<1>1. DOMAIN s = 1..Len(s) /\ Len(s) \in Nat
  OBVIOUS
<1>2. IsFiniteSet(1..Len(s)) /\ Cardinality(1..Len(s)) = Len(s)
  BY <1>1, CountUpTo
<1>3. IsFiniteSet(P) /\ n <= Len(s)
  BY <1>1, <1>2, FS_Subset
<1>4. P \subseteq Int
  BY <1>1
<1>5. SortsUp(o, n, P)
  BY <1>3, <1>4, AscendingIs
<1>6. t = [i \in 1..n |-> s[o[i]]]
  BY DEF Picked
<1>7. \A i \in 1..n : o[i] \in P /\ t[i] = s[o[i]] /\ t[i] \in S
  BY <1>1, <1>5, <1>6 DEF SortsUp
<1>8. t \in Seq(S) /\ Len(t) = n /\ DOMAIN t = 1..n
  BY <1>5, <1>6, <1>7 DEF SortsUp
<1> QED
  BY <1>3, <1>5, <1>7, <1>8 DEF SortsUp, Picks

----------------------------------------------------------------------------
(* Rounding. *)

\* Division by a positive number does not change the order of two numbers.
LEMMA DivMonotone ==
    ASSUME NEW d \in Nat \ {0}, NEW a \in Nat, NEW b \in Nat, a <= b
    PROVE  a \div d <= b \div d
<1> DEFINE q == a \div d
           p == b \div d
<1>1. q \in Nat /\ p \in Nat
  OBVIOUS
<1>2. d * q <= a /\ b < d * (p + 1)
  OBVIOUS
<1>3. d * q < d * (p + 1)
  BY <1>1, <1>2
<1>4. q < p + 1
  BY <1>1, <1>3
<1> QED
  BY <1>1, <1>4

\* The number of the nearest multiple of q, ties to the even one.
Nearest(q, t) ==
    LET below == t \div q
        rest  == t % q
    IN  IF 2 * rest > q \/ (2 * rest = q /\ below % 2 = 1)
        THEN below + 1 ELSE below

\* A larger number is never rounded below a smaller one, ties included,
LEMMA NearestMonotone ==
    ASSUME NEW q \in Nat \ {0}, NEW a \in Nat, NEW b \in Nat, a <= b
    PROVE  /\ Nearest(q, a) \in Nat
           /\ Nearest(q, a) <= Nearest(q, b)
<1> DEFINE p == a \div q
           v == b \div q
           r == a % q
           s == b % q
<1>1. q \in Nat \ {0}
  OBVIOUS
<1>2. p \in Nat /\ v \in Nat /\ r \in Nat /\ s \in Nat
  BY <1>1
<1>3. p <= v
  BY <1>1, DivMonotone
<1>4. Nearest(q, a) \in {p, p + 1} /\ Nearest(q, b) \in {v, v + 1}
  BY DEF Nearest
<1>5. CASE p < v
  BY <1>2, <1>4, <1>5
<1>6. CASE p = v
  <2>1. r <= s
    <3>1. a = q * p + r /\ b = q * v + s
      BY <1>1
    <3> QED
      BY <1>1, <1>2, <1>6, <3>1
  <2>2. p % 2 \in {0, 1}
    BY <1>2
  <2> HIDE DEF p, v, r, s
  <2>3. /\ Nearest(q, a) = IF 2 * r > q \/ (2 * r = q /\ p % 2 = 1)
                       THEN p + 1 ELSE p
        /\ Nearest(q, b) = IF 2 * s > q \/ (2 * s = q /\ v % 2 = 1)
                       THEN v + 1 ELSE v
    BY DEF Nearest, p, v, r, s
  <2> QED
    BY <1>1, <1>2, <1>6, <2>1, <2>2, <2>3
<1> QED
  BY <1>2, <1>3, <1>4, <1>5, <1>6

\* and a number is rounded by half the distance of two multiples at most.
LEMMA NearestNear ==
    ASSUME NEW q \in Nat \ {0}, NEW t \in Nat
    PROVE  /\ 2 * (Nearest(q, t) * q - t) <= q
           /\ 2 * (t - Nearest(q, t) * q) <= q
<1> DEFINE p == t \div q
           r == t % q
<1>1. q \in Nat \ {0}
  OBVIOUS
<1>2. p \in Nat /\ r \in 0..(q - 1) /\ t = q * p + r
  BY <1>1
<1>3. p % 2 \in {0, 1}
  BY <1>2
<1>4. Nearest(q, t) = IF 2 * r > q \/ (2 * r = q /\ p % 2 = 1)
                  THEN p + 1 ELSE p
  BY DEF Nearest
<1> HIDE DEF p, r
<1>5. CASE Nearest(q, t) = p + 1 /\ 2 * r >= q
  <2>1. Nearest(q, t) * q = q * p + q
    BY <1>1, <1>2, <1>5
  <2> QED
    BY <1>1, <1>2, <1>5, <2>1
<1>6. CASE Nearest(q, t) = p /\ 2 * r <= q
  <2>1. Nearest(q, t) * q = q * p
    BY <1>1, <1>2, <1>6
  <2> QED
    BY <1>1, <1>2, <1>6, <2>1
<1> QED
  BY <1>1, <1>2, <1>4, <1>5, <1>6
=============================================================================
