------------------------- MODULE SubsequenceProofs -------------------------
(***************************************************************************)
(* Ranks in a finite set, and what Subsequence returns.                    *)
(***************************************************************************)
EXTENDS Subsequences, Integers, Functions, FunctionTheorems, FiniteSetTheorems, TLAPS

\* How many elements of S are not above x in the order that f gives them.
Rank(S, f, x) == Cardinality({y \in S : f[y] <= f[x]})

\* Different values rank the elements of a finite set from 1 to its size.
LEMMA RankSpec ==
  ASSUME NEW S, IsFiniteSet(S), NEW f \in [S -> Int],
         \A x, y \in S : f[x] = f[y] => x = y
  PROVE  /\ Cardinality(S) \in Nat
         /\ \A x \in S : Rank(S, f, x) \in 1 .. Cardinality(S)
         /\ \A x, y \in S : f[x] < f[y] => Rank(S, f, x) < Rank(S, f, y)
         /\ \A k \in 1 .. Cardinality(S) : \E x \in S : Rank(S, f, x) = k
<1> DEFINE n == Cardinality(S)
           Below(x) == {y \in S : f[y] <= f[x]}
<1>1. n \in Nat
  BY FS_CardinalityType
<1>2. ASSUME NEW x \in S PROVE IsFiniteSet(Below(x)) /\ Cardinality(Below(x)) \in 1 .. n
  <2>1. Below(x) \in SUBSET S /\ x \in Below(x)
    OBVIOUS
  <2>2. IsFiniteSet(Below(x)) /\ Cardinality(Below(x)) <= n
    BY <2>1, FS_Subset
  <2>3. Cardinality(Below(x)) \in Nat /\ Cardinality(Below(x)) # 0
    BY <2>1, <2>2, FS_CardinalityType, FS_EmptySet
  <2> HIDE DEF n, Below
  <2>4. QED
    BY <1>1, <2>2, <2>3
<1> HIDE DEF Below
<1>3. ASSUME NEW x \in S, NEW y \in S, f[x] < f[y]
      PROVE  Cardinality(Below(x)) < Cardinality(Below(y))
  <2>1. Below(x) \in SUBSET Below(y) /\ y \in Below(y) /\ y \notin Below(x)
    BY <1>3 DEF Below
  <2>2. Cardinality(Below(x)) <= Cardinality(Below(y)) /\ Cardinality(Below(y)) # Cardinality(Below(x))
    BY <1>2, <2>1, FS_Subset
  <2>3. Cardinality(Below(x)) \in Nat /\ Cardinality(Below(y)) \in Nat
    BY <1>1, <1>2
  <2>4. QED
    BY <2>2, <2>3
<1> DEFINE r == [x \in S |-> Cardinality(Below(x))]
<1>4. r \in Injection(S, 1 .. n)
  <2>1. r \in [S -> 1 .. n]
    BY <1>2
  <2>2. ASSUME NEW x \in S, NEW y \in S, r[x] = r[y] PROVE x = y
    <3>1. Cardinality(Below(x)) = Cardinality(Below(y))
      BY <2>2
    <3>2. Cardinality(Below(x)) \in Nat
      BY <1>2
    <3>3. ~(f[x] < f[y]) /\ ~(f[y] < f[x])
      BY <1>3, <3>1, <3>2
    <3>4. QED
      BY <3>3
  <2> HIDE DEF r, n
  <2>3. QED
    BY <2>1, <2>2 DEF Injection, IsInjective
<1>5. IsFiniteSet(1 .. n) /\ Cardinality(1 .. n) = n
  BY <1>1, FS_Interval
<1>6. r \in Surjection(S, 1 .. n)
  <2> HIDE DEF r
  <2>1. QED
    BY <1>4, <1>5, FS_Injection
<1>7. \A k \in 1 .. n : \E x \in S : r[x] = k
  BY <1>6 DEF Surjection
<1>8. QED
  BY <1>1, <1>2, <1>3, <1>7 DEF Rank, Below

\* Nth enumerates a finite set of numbers in ascending order.
LEMMA NthSpec ==
  ASSUME NEW S \in SUBSET Int, IsFiniteSet(S)
  PROVE  /\ Cardinality(S) \in Nat
         /\ \A k \in 1 .. Cardinality(S) : Nth(S, k) \in S
         /\ \A j, k \in 1 .. Cardinality(S) : j < k => Nth(S, j) < Nth(S, k)
         /\ \A i \in S : \E k \in 1 .. Cardinality(S) : Nth(S, k) = i
<1> DEFINE f == [i \in S |-> i]
           n == Cardinality(S)
           Up(i) == Cardinality({j \in S : j <= i})
<1>1. f \in [S -> Int] /\ \A i, j \in S : f[i] = f[j] => i = j
  OBVIOUS
<1>2. \A i \in S : Rank(S, f, i) = Up(i)
  <2>1. ASSUME NEW i \in S PROVE {j \in S : f[j] <= f[i]} = {j \in S : j <= i}
    OBVIOUS
  <2>2. QED
    BY <2>1 DEF Rank
<1>3. /\ n \in Nat
      /\ \A i \in S : Up(i) \in 1 .. n
      /\ \A i, j \in S : i < j => Up(i) < Up(j)
      /\ \A k \in 1 .. n : \E i \in S : Up(i) = k
  <2> HIDE DEF f
  <2>1. /\ n \in Nat
        /\ \A i \in S : Rank(S, f, i) \in 1 .. n
        /\ \A i, j \in S : f[i] < f[j] => Rank(S, f, i) < Rank(S, f, j)
        /\ \A k \in 1 .. n : \E i \in S : Rank(S, f, i) = k
    BY <1>1, RankSpec
  <2>2. \A i \in S : f[i] = i
    BY DEF f
  <2> HIDE DEF Up, n
  <2>3. QED
    BY <1>2, <2>1, <2>2
<1>4. \A k : Nth(S, k) = CHOOSE i \in S : Up(i) = k
  BY DEF Nth
<1> HIDE DEF Up, n, f
<1>5. \A k \in 1 .. n : Nth(S, k) \in S /\ Up(Nth(S, k)) = k
  BY <1>3, <1>4
<1>6. ASSUME NEW j \in 1 .. n, NEW k \in 1 .. n, j < k PROVE Nth(S, j) < Nth(S, k)
  <2>1. Nth(S, j) \in S /\ Nth(S, k) \in S /\ Nth(S, j) \in Int /\ Nth(S, k) \in Int
    BY <1>5
  <2>2. Up(Nth(S, j)) = j /\ Up(Nth(S, k)) = k
    BY <1>5
  <2>3. CASE Nth(S, k) < Nth(S, j)
    <3>1. k < j
      BY <1>3, <2>1, <2>2, <2>3
    <3>2. QED
      BY <1>3, <1>6, <3>1
  <2>4. Nth(S, j) # Nth(S, k)
    BY <1>3, <1>6, <2>2
  <2>5. QED
    BY <2>1, <2>3, <2>4
<1>7. ASSUME NEW i \in S PROVE \E k \in 1 .. n : Nth(S, k) = i
  <2>1. Up(i) \in 1 .. n
    BY <1>3
  <2>2. Nth(S, Up(i)) \in S /\ Up(Nth(S, Up(i))) = Up(i)
    BY <1>5, <2>1
  <2>3. \A x, y \in S : Up(x) = Up(y) => x = y
    <3> SUFFICES ASSUME NEW x \in S, NEW y \in S, Up(x) = Up(y) PROVE x = y
      OBVIOUS
    <3>1. Up(x) \in Int /\ x \in Int /\ y \in Int
      BY <1>3
    <3>2. ~(x < y) /\ ~(y < x)
      BY <1>3, <3>1
    <3>3. QED
      BY <3>1, <3>2
  <2>4. QED
    BY <2>1, <2>2, <2>3
<1>8. QED
  BY <1>3, <1>5, <1>6, <1>7 DEF n

\* A subsequence has the kept elements in the order they had.
LEMMA SubsequenceSpec ==
  ASSUME NEW T, NEW s \in Seq(T), NEW keep \in SUBSET (DOMAIN s)
  PROVE  /\ Subsequence(s, keep) \in Seq(T)
         /\ Len(Subsequence(s, keep)) = Cardinality(keep)
         /\ Cardinality(keep) \in 0 .. Len(s)
         /\ \A k \in 1 .. Cardinality(keep) :
              Nth(keep, k) \in keep /\ Subsequence(s, keep)[k] = s[Nth(keep, k)]
         /\ \A j, k \in 1 .. Cardinality(keep) : j < k => Nth(keep, j) < Nth(keep, k)
         /\ \A i \in keep : \E k \in 1 .. Cardinality(keep) : Nth(keep, k) = i
<1>1. DOMAIN s = 1 .. Len(s) /\ Len(s) \in Nat
  OBVIOUS
<1>2. IsFiniteSet(1 .. Len(s)) /\ Cardinality(1 .. Len(s)) = Len(s)
  <2>1. 1 \in Int /\ Len(s) \in Int
    BY <1>1
  <2>2. IsFiniteSet(1 .. Len(s)) /\ Cardinality(1 .. Len(s)) = IF 1 > Len(s) THEN 0 ELSE Len(s) - 1 + 1
    BY <2>1, FS_Interval
  <2>3. QED
    BY <1>1, <2>2
<1>3. IsFiniteSet(keep) /\ Cardinality(keep) <= Len(s)
  BY <1>1, <1>2, FS_Subset
<1>4. keep \in SUBSET Int
  BY <1>1
<1> DEFINE n == Cardinality(keep)
<1>5. /\ n \in Nat
      /\ \A k \in 1 .. n : Nth(keep, k) \in keep
      /\ \A j, k \in 1 .. n : j < k => Nth(keep, j) < Nth(keep, k)
      /\ \A i \in keep : \E k \in 1 .. n : Nth(keep, k) = i
  BY <1>3, <1>4, NthSpec
<1>6. Subsequence(s, keep) = [k \in 1 .. n |-> s[Nth(keep, k)]]
  BY DEF Subsequence
<1>7. n <= Len(s)
  BY <1>3
<1> HIDE DEF n
<1>8. \A k \in 1 .. n : s[Nth(keep, k)] \in T
  BY <1>1, <1>5
<1>9. Subsequence(s, keep) \in Seq(T) /\ Len(Subsequence(s, keep)) = n
  BY <1>5, <1>6, <1>8
<1>10. \A k \in 1 .. n : Subsequence(s, keep)[k] = s[Nth(keep, k)]
  BY <1>6
<1>11. n \in 0 .. Len(s)
  BY <1>1, <1>5, <1>7
<1>12. QED
  BY <1>5, <1>9, <1>10, <1>11 DEF n

\* The elements of a subsequence are those at the positions kept.
COROLLARY SubsequenceRange ==
  ASSUME NEW T, NEW s \in Seq(T), NEW keep \in SUBSET (DOMAIN s)
  PROVE  Range(Subsequence(s, keep)) = {s[i] : i \in keep}
<1> DEFINE q == Subsequence(s, keep)
<1>1. DOMAIN q = 1 .. Cardinality(keep)
  BY SubsequenceSpec
<1>2. \A k \in DOMAIN q : Nth(keep, k) \in keep /\ q[k] = s[Nth(keep, k)]
  BY <1>1, SubsequenceSpec
<1>3. \A i \in keep : \E k \in DOMAIN q : Nth(keep, k) = i
  BY <1>1, SubsequenceSpec
<1> HIDE DEF q
<1>4. QED
  BY <1>2, <1>3 DEF Range, q

\* Each element kept is at one position, and the order is the same.
COROLLARY SubsequenceMap ==
  ASSUME NEW T, NEW s \in Seq(T), NEW keep \in SUBSET (DOMAIN s)
  PROVE  LET q == Subsequence(s, keep) IN
         \E pos \in [DOMAIN q -> keep] :
           /\ \A k \in DOMAIN q : q[k] = s[pos[k]]
           /\ \A j, k \in DOMAIN q : j < k => pos[j] < pos[k]
           /\ \A i \in keep : \E k \in DOMAIN q : pos[k] = i
<1> DEFINE q == Subsequence(s, keep)
           pos == [k \in DOMAIN q |-> Nth(keep, k)]
<1>1. DOMAIN q = 1 .. Cardinality(keep)
  BY SubsequenceSpec
<1>2. \A k \in DOMAIN q : Nth(keep, k) \in keep /\ q[k] = s[Nth(keep, k)]
  BY <1>1, SubsequenceSpec
<1>3. \A j, k \in DOMAIN q : j < k => Nth(keep, j) < Nth(keep, k)
  BY <1>1, SubsequenceSpec
<1>4. \A i \in keep : \E k \in DOMAIN q : Nth(keep, k) = i
  BY <1>1, SubsequenceSpec
<1> HIDE DEF q
<1>5. /\ pos \in [DOMAIN q -> keep]
      /\ \A k \in DOMAIN q : q[k] = s[pos[k]]
      /\ \A j, k \in DOMAIN q : j < k => pos[j] < pos[k]
      /\ \A i \in keep : \E k \in DOMAIN q : pos[k] = i
  BY <1>2, <1>3, <1>4
<1> HIDE DEF pos
<1>6. QED
  BY <1>5 DEF q
=============================================================================
