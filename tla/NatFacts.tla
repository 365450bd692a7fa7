------------------------------ MODULE NatFacts ------------------------------
(* Least and greatest elements of sets of numbers, and subsequences. *)
EXTENDS Naturals, Sequences, FiniteSets, Subsequences, FiniteSetTheorems, WellFoundedInduction, TLAPS

(* Every inhabited set of naturals has a least element. *)
LEMMA LeastNatural ==
  ASSUME NEW T, T \subseteq Nat, T # {}
  PROVE  \E m \in T : \A k \in T : m <= k
<1> DEFINE R == OpToRel(<, Nat)
<1>1. IsWellFoundedOn(R, Nat) BY NatLessThanWellFounded, Zenon
<1>2. \A x, y \in Nat : x < y => <<x, y>> \in R BY DEF OpToRel
<1> HIDE DEF R
<1>3. \E x \in T : \A y \in T : ~ (<<y, x>> \in R) BY <1>1, WFMin, Zenon
<1>4. PICK x \in T : \A y \in T : ~ (<<y, x>> \in R) BY <1>3
<1>5. \A y \in T : ~(y < x) BY <1>2, <1>4, Zenon
<1>6. \A y \in T : x <= y BY <1>5
<1> QED BY <1>6

(* Every inhabited bounded set of naturals has a greatest element. *)
LEMMA GreatestNatural ==
  ASSUME NEW n \in Nat, NEW T, T \subseteq 0..n, T # {}
  PROVE  \E m \in T : \A k \in T : k <= m
<1> DEFINE D == {n - t : t \in T}
<1>1. D \subseteq Nat OBVIOUS
<1>2. D # {} OBVIOUS
<1> HIDE DEF D
<1>3. PICK d \in D : \A k \in D : d <= k BY <1>1, <1>2, LeastNatural
<1>4. PICK m \in T : d = n - m BY <1>3 DEF D
<1>5. \A k \in T : n - k \in D BY DEF D
<1>6. ASSUME NEW k \in T PROVE k <= m BY <1>3, <1>4, <1>5
<1> QED BY <1>6

(* A finite inhabited set has an element of greatest measure. *)
LEMMA GreatestMeasure ==
  ASSUME NEW S, IsFiniteSet(S), S # {}, NEW f \in [S -> Nat]
  PROVE  \E x \in S : \A y \in S : f[y] <= f[x]
<1> DEFINE n == Cardinality(S)
<1>1. n \in Nat /\ ExistsBijection(1 .. n, S) BY FS_CardinalityType
<1>2. PICK e : e \in Surjection(1 .. n, S) BY <1>1 DEF ExistsBijection, Bijection
<1>3. /\ \A i \in 1 .. n : e[i] \in S
      /\ \A x \in S : \E i \in 1 .. n : e[i] = x
  BY <1>2 DEF Surjection
<1> HIDE DEF n
<1> DEFINE Bound(k) == \E x \in S : \A i \in 1 .. k : f[e[i]] <= f[x]
           B == {k \in 0 .. n : ~Bound(k)}
<1> HIDE DEF Bound
<1>4. CASE B = {}
  <2>1. Bound(n) BY <1>1, <1>4
  <2> QED BY <1>3, <2>1 DEF Bound
<1>5. CASE B # {}
  <2>0. B \subseteq Nat BY <1>1
  <2> HIDE DEF B
  <2>1. PICK k \in B : \A j \in B : k <= j BY <1>5, <2>0, LeastNatural
  <2> USE DEF B
  <2>2. k # 0
    <3>1. Bound(0) BY DEF Bound
    <3> QED BY <2>1, <3>1
  <2>3. k - 1 \in 0 .. n /\ k - 1 \notin B BY <1>1, <2>1, <2>2
  <2>4. PICK x \in S : \A i \in 1 .. k - 1 : f[e[i]] <= f[x] BY <2>3 DEF Bound
  <2>5. k \in 1 .. n /\ e[k] \in S BY <1>1, <1>3, <2>1, <2>2
  <2>6. \A i \in 1 .. k : e[i] \in S /\ (i \in 1 .. k - 1 \/ i = k) BY <1>1, <1>3, <2>5
  <2>7. f[x] \in Nat /\ f[e[k]] \in Nat /\ \A i \in 1 .. k : f[e[i]] \in Nat BY <2>5, <2>6
  <2>8. CASE f[e[k]] <= f[x]
    <3>1. \A i \in 1 .. k : f[e[i]] <= f[x] BY <2>4, <2>6, <2>8
    <3>2. Bound(k) BY <3>1 DEF Bound
    <3> QED BY <2>1, <3>2
  <2>9. CASE f[x] < f[e[k]]
    <3>1. \A i \in 1 .. k : f[e[i]] <= f[e[k]] BY <2>4, <2>6, <2>7, <2>9
    <3>2. Bound(k) BY <2>5, <3>1 DEF Bound
    <3> QED BY <2>1, <3>2
  <2> QED BY <2>7, <2>8, <2>9
<1> QED BY <1>4, <1>5

(* The elements of a finite set of naturals are numbered by their order. *)
LEMMA Ranks ==
  ASSUME NEW n \in Nat, NEW ps \in SUBSET (1 .. n)
  PROVE  /\ IsFiniteSet(ps) /\ Cardinality(ps) \in Nat
         /\ \A i \in ps : Cardinality({j \in ps : j <= i}) \in 1 .. Cardinality(ps)
         /\ \A i, k \in ps :
              Cardinality({j \in ps : j <= i}) = Cardinality({j \in ps : j <= k}) => i = k
         /\ \A k \in 1 .. Cardinality(ps) : \E i \in ps : Cardinality({j \in ps : j <= i}) = k
<1> DEFINE m == Cardinality(ps)
           upto(i) == {j \in ps : j <= i}
           R(i) == Cardinality(upto(i))
           rank == [i \in ps |-> R(i)]
<1>1. IsFiniteSet(1 .. n) BY FS_Interval
<1>2. IsFiniteSet(ps) /\ m \in Nat BY <1>1, FS_Subset, FS_CardinalityType
<1>3. ASSUME NEW i \in ps
      PROVE  IsFiniteSet(upto(i)) /\ R(i) \in Nat /\ R(i) <= m /\ R(i) # 0
  <2>1. upto(i) \in SUBSET ps OBVIOUS
  <2>2. IsFiniteSet(upto(i)) /\ R(i) <= m BY <1>2, <2>1, FS_Subset
  <2>3. R(i) \in Nat BY <2>2, FS_CardinalityType
  <2>4. upto(i) # {} OBVIOUS
  <2> QED BY <2>2, <2>3, <2>4, FS_EmptySet
<1>4. ASSUME NEW i \in ps, NEW j \in ps, R(i) = R(j), i < j PROVE FALSE
  <2>0. i \in Nat /\ j \in Nat /\ \A k \in ps : k \in Nat OBVIOUS
  <2>1. upto(i) \in SUBSET upto(j)
    <3>1. \A k \in upto(i) : k \in upto(j) BY <1>4, <2>0
    <3> QED BY <3>1
  <2>2. upto(i) = upto(j) BY <1>3, <1>4, <2>1, FS_Subset
  <2>3. j \in upto(j) OBVIOUS
  <2> QED BY <1>4, <2>2, <2>3
<1> HIDE DEF m, R
<1>6. ASSUME NEW i \in ps PROVE R(i) \in 1 .. m
  <2>1. R(i) \in Nat /\ R(i) <= m /\ R(i) # 0 BY <1>3
  <2> QED BY <1>2, <2>1
<1>7. \A i, j \in ps : R(i) = R(j) => i = j BY <1>4
<1>8. rank \in Injection(ps, 1 .. m) BY <1>6, <1>7 DEF Injection, IsInjective
<1>9. IsFiniteSet(1 .. m) /\ Cardinality(1 .. m) = m BY <1>2, FS_Interval
<1>10. rank \in Surjection(ps, 1 .. m)
  <2>1. Cardinality(ps) = Cardinality(1 .. m) BY <1>9 DEF m
  <2> HIDE DEF rank
  <2> QED BY <1>8, <1>9, <2>1, FS_Injection
<1>11. \A k \in 1 .. m : \E i \in ps : R(i) = k BY <1>10 DEF Surjection
<1> QED BY <1>2, <1>6, <1>7, <1>11 DEF m, R

(* A subsequence takes the elements at the positions, and no others. *)
LEMMA SubsequenceType ==
  ASSUME NEW s, NEW n \in Nat, NEW ps \in SUBSET (1 .. n),
         NEW X, \A i \in ps : s[i] \in X
  PROVE  Subsequence(s, ps) \in Seq(X)
<1> DEFINE R(i) == Cardinality({j \in ps : j <= i})
           at(k) == CHOOSE i \in ps : R(i) = k
           m == Cardinality(ps)
<1>1. Subsequence(s, ps) = [k \in 1 .. m |-> s[at(k)]] BY DEF Subsequence
<1>2. m \in Nat /\ \A k \in 1 .. m : \E i \in ps : R(i) = k BY Ranks
<1> HIDE DEF m, R
<1>3. \A k \in 1 .. m : at(k) \in ps BY <1>2
<1> HIDE DEF at
<1>4. \A k \in 1 .. m : s[at(k)] \in X BY <1>3
<1> QED BY <1>1, <1>2, <1>4

LEMMA SubsequenceHolds ==
  ASSUME NEW s, NEW n \in Nat, NEW ps \in SUBSET (1 .. n), NEW i \in ps
  PROVE  \E k \in DOMAIN Subsequence(s, ps) : Subsequence(s, ps)[k] = s[i]
<1> DEFINE R(j) == Cardinality({l \in ps : l <= j})
           at(k) == CHOOSE j \in ps : R(j) = k
           m == Cardinality(ps)
<1>1. Subsequence(s, ps) = [k \in 1 .. m |-> s[at(k)]] BY DEF Subsequence
<1>2. R(i) \in 1 .. m /\ \A j, k \in ps : R(j) = R(k) => j = k BY Ranks
<1> HIDE DEF m, R
<1>3. at(R(i)) \in ps /\ R(at(R(i))) = R(i) OBVIOUS
<1> HIDE DEF at
<1>4. at(R(i)) = i BY <1>2, <1>3
<1> QED BY <1>1, <1>2, <1>4

-----------------------------------------------------------------------------
(* Induction and recursion over the numbers up to n, for facts that are set *)
(* memberships: the induction theorems of the library take an operator.     *)

LEMMA BoundsUpTo ==
  ASSUME NEW n \in Nat
  PROVE  /\ 0 \in 0 .. n /\ n \in 0 .. n
         /\ \A i \in 1 .. n : i - 1 \in 0 .. n /\ i \in 0 .. n
         /\ \A i \in 0 .. n : i = 0 \/ i \in 1 .. n
OBVIOUS

LEMMA InductionUpTo ==
  ASSUME NEW n \in Nat, NEW T, 0 \in T, \A i \in 1 .. n : i - 1 \in T => i \in T
  PROVE  \A i \in 0 .. n : i \in T
<1> DEFINE B == {i \in 0 .. n : i \notin T}
<1>1. SUFFICES ASSUME B # {} PROVE FALSE OBVIOUS
<1>2. B \subseteq Nat OBVIOUS
<1> HIDE DEF B
<1>3. PICK k \in B : \A j \in B : k <= j BY <1>1, <1>2, LeastNatural
<1>4. k \in 1 .. n /\ k \notin T BY <1>3 DEF B
<1>5. k - 1 \in 0 .. n /\ k - 1 \in T BY <1>3, <1>4 DEF B
<1> QED BY <1>4, <1>5

(* A function on 0 .. n can be defined by its first value and a step. *)
Steps(n, S) == [1 .. n -> [S -> S]]
Iterates(r, n, S, base, F) ==
  /\ r \in [0 .. n -> S]
  /\ r[0] = base
  /\ \A i \in 1 .. n : r[i] = F[i][r[i - 1]]

LEMMA RecursionUpTo ==
  ASSUME NEW n \in Nat, NEW S, NEW base \in S, NEW F \in Steps(n, S)
  PROVE  \E r : Iterates(r, n, S, base, F)
<1> USE DEF Steps
<1> DEFINE Starts(k) == \E r \in [0 .. k -> S] :
                          r[0] = base /\ \A i \in 1 .. k : r[i] = F[i][r[i - 1]]
           T == {k \in 0 .. n : Starts(k)}
<1>1. 0 \in T
  <2> DEFINE r == [i \in 0 .. 0 |-> base]
  <2>1. r \in [0 .. 0 -> S] /\ r[0] = base /\ \A i \in 1 .. 0 : r[i] = F[i][r[i - 1]] OBVIOUS
  <2> HIDE DEF r
  <2>2. Starts(0) BY <2>1
  <2> HIDE DEF Starts
  <2> QED BY <2>2
<1>2. ASSUME NEW k \in 1 .. n, k - 1 \in T PROVE k \in T
  <2>1. PICK r \in [0 .. k - 1 -> S] :
          r[0] = base /\ \A i \in 1 .. k - 1 : r[i] = F[i][r[i - 1]]
    BY <1>2
  <2> DEFINE q == [i \in 0 .. k |-> IF i = k THEN F[k][r[k - 1]] ELSE r[i]]
  <2>2. k - 1 \in 0 .. k - 1 /\ r[k - 1] \in S BY <2>1
  <2>3. F[k][r[k - 1]] \in S BY <2>2
  <2>4. q \in [0 .. k -> S] BY <2>1, <2>3
  <2>5. q[0] = base BY <2>1
  <2>6. \A i \in 1 .. k : q[i] = F[i][q[i - 1]] BY <2>1, <2>2
  <2> HIDE DEF q
  <2>7. Starts(k) BY <2>4, <2>5, <2>6
  <2> HIDE DEF Starts
  <2> QED BY <2>7
<1> HIDE DEF Starts
<1>3. \A i \in 0 .. n : i \in T
  <2> HIDE DEF T
  <2> QED BY <1>1, <1>2, InductionUpTo
<1>4. n \in 0 .. n OBVIOUS
<1>5. Starts(n) BY <1>3, <1>4
<1> QED BY <1>5, Zenon DEF Starts, Iterates

(* The elements of a finite set can be listed. *)
LEMMA ListingFacts ==
  ASSUME NEW S, IsFiniteSet(S)
  PROVE  /\ Listing(S) \in Seq(S)
         /\ \A x \in S : \E i \in 1 .. Len(Listing(S)) : Listing(S)[i] = x
<1> DEFINE n == Cardinality(S)
           Lists(f) == \A x \in S : \E i \in 1 .. n : f[i] = x
<1>1. n \in Nat /\ ExistsBijection(1 .. n, S) BY FS_CardinalityType
<1>2. PICK e : e \in Surjection(1 .. n, S) BY <1>1 DEF ExistsBijection, Bijection
<1>3. e \in [1 .. n -> S] /\ Lists(e) BY <1>2 DEF Surjection
<1>4. Listing(S) = CHOOSE f \in [1 .. n -> S] : Lists(f) BY DEF Listing
<1>5. Listing(S) \in [1 .. n -> S] /\ Lists(Listing(S))
  <2> HIDE DEF n, Lists
  <2> QED BY <1>3, <1>4, Zenon
<1>6. Listing(S) \in Seq(S) /\ Len(Listing(S)) = n BY <1>1, <1>5
<1> QED BY <1>5, <1>6

(* The image of a finite set is finite. *)
LEMMA FiniteImage ==
  ASSUME NEW S, IsFiniteSet(S), NEW f
  PROVE  IsFiniteSet({f[x] : x \in S})
<1> DEFINE T == {f[x] : x \in S}
           h == [x \in S |-> f[x]]
<1>1. h \in [S -> T] /\ \A y \in T : \E x \in S : h[x] = y OBVIOUS
<1> HIDE DEF h, T
<1>2. h \in Surjection(S, T) BY <1>1 DEF Surjection
<1>3. IsFiniteSet(T) BY <1>2, FS_Surjection
<1> QED BY <1>3 DEF T
=============================================================================
