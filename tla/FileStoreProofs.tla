-------------------------- MODULE FileStoreProofs ---------------------------
(***************************************************************************)
(* The file store for every set of changesets, every size of them and any  *)
(* number of writes, crashes and recoveries.                               *)
(***************************************************************************)
EXTENDS FileStore, SequenceTheorems, NatFacts

Value == Seq(Changeset \cup {Bogus})
Cell == [value : Value, at : Nat]

-----------------------------------------------------------------------------
(* The size of a record. *)

LEMMA SizeRecursion ==
  ASSUME NEW v \in Value
  PROVE  \E sum \in [0 .. Len(v) -> Nat] :
           /\ Size(v) = sum[Len(v)]
           /\ sum[0] = 0
           /\ \A i \in 1 .. Len(v) : sum[i] = sum[i - 1] + Cells[v[i]]
<1> DEFINE n == Len(v)
           F == [i \in 1 .. n |-> [m \in Nat |-> m + Cells[v[i]]]]
           Step(q) == [i \in 0 .. n |-> IF i = 0 THEN 0 ELSE q[i - 1] + Cells[v[i]]]
           sum == CHOOSE q : q = Step(q)
<1>1. n \in Nat /\ \A i \in 1 .. n : Cells[v[i]] \in Nat
  BY FileStoreAssumption DEF Value
<1>2. F \in [1 .. n -> [Nat -> Nat]] BY <1>1
<1>3. \A i \in 1 .. n : \A m \in Nat : F[i][m] = m + Cells[v[i]] OBVIOUS
<1>4. Size(v) = sum[n] BY Zenon DEF Size
<1> HIDE DEF n
<1>5. \A q : /\ DOMAIN Step(q) = 0 .. n
             /\ Step(q)[0] = 0
             /\ \A i \in 1 .. n : Step(q)[i] = q[i - 1] + Cells[v[i]]
             /\ Step(q) = [i \in 0 .. n |-> Step(q)[i]]
  BY <1>1
<1> HIDE DEF F, Step, sum
<1>6. PICK r \in [0 .. n -> Nat] : r[0] = 0 /\ \A i \in 1 .. n : r[i] = F[i][r[i - 1]]
  <2>1. 0 \in Nat /\ F \in Steps(n, Nat) BY <1>2 DEF Steps
  <2>2. \E r : Iterates(r, n, Nat, 0, F) BY <1>1, <2>1, RecursionUpTo, Zenon
  <2> QED BY <2>2, Zenon DEF Iterates
<1>7. \A i \in 1 .. n : i - 1 \in 0 .. n /\ r[i - 1] \in Nat /\ r[i] = r[i - 1] + Cells[v[i]]
  BY <1>1, <1>3, <1>6, BoundsUpTo, Zenon
<1>8. \A i \in 0 .. n : r[i] = Step(r)[i]
  BY <1>1, <1>5, <1>6, <1>7, BoundsUpTo, Zenon
<1>9. r = Step(r) BY <1>5, <1>8
<1>10. sum = Step(sum) BY <1>9, Zenon DEF sum
<1>11. sum[0] = 0 /\ \A i \in 1 .. n : sum[i] = sum[i - 1] + Cells[v[i]] BY <1>5, <1>10, Zenon
<1>12. \A i \in 0 .. n : sum[i] \in Nat
  <2> DEFINE T == {i \in 0 .. n : sum[i] \in Nat}
  <2>1. 0 \in T BY <1>1, <1>11
  <2>2. ASSUME NEW i \in 1 .. n, i - 1 \in T PROVE i \in T
    <3>1. sum[i - 1] \in Nat /\ sum[i] = sum[i - 1] + Cells[v[i]] BY <1>11, <2>2
    <3>2. sum[i] \in Nat BY <1>1, <3>1
    <3> QED BY <1>1, <3>2
  <2> HIDE DEF T
  <2>3. \A i \in 0 .. n : i \in T BY <1>1, <2>1, <2>2, InductionUpTo
  <2> QED BY <2>3 DEF T
<1>13. sum \in [0 .. n -> Nat]
  <2>1. DOMAIN sum = 0 .. n /\ sum = [i \in 0 .. n |-> sum[i]] BY <1>5, <1>10, Zenon
  <2> QED BY <1>12, <2>1
<1> QED BY <1>4, <1>11, <1>13 DEF n

(* Only the empty record takes no cell, and one changeset takes its own. *)
LEMMA SizeFacts ==
  /\ \A v \in Value : Size(v) \in Nat
  /\ \A v \in Value : v # << >> => Size(v) > 0
  /\ Size(<< >>) = 0
  /\ \A c \in Changeset : Size(<<c>>) = Cells[c] /\ Cells[c] \in Nat \ {0}
<1>1. ASSUME NEW v \in Value PROVE Size(v) \in Nat /\ (v # << >> => Size(v) > 0)
  <2>1. PICK sum \in [0 .. Len(v) -> Nat] :
          /\ Size(v) = sum[Len(v)]
          /\ \A i \in 1 .. Len(v) : sum[i] = sum[i - 1] + Cells[v[i]]
    BY SizeRecursion
  <2>2. Len(v) \in Nat /\ (v # << >> => Len(v) > 0) BY DEF Value
  <2>3. Size(v) \in Nat BY <2>1, <2>2
  <2>4. ASSUME v # << >> PROVE Size(v) > 0
    <3>1. Len(v) \in 1 .. Len(v) /\ Len(v) - 1 \in 0 .. Len(v) BY <2>2, <2>4
    <3>2. Cells[v[Len(v)]] \in Nat \ {0} BY <3>1, FileStoreAssumption DEF Value
    <3>3. sum[Len(v)] = sum[Len(v) - 1] + Cells[v[Len(v)]] /\ sum[Len(v) - 1] \in Nat BY <2>1, <3>1
    <3> QED BY <2>1, <3>2, <3>3
  <2> QED BY <2>3, <2>4
<1>2. Size(<< >>) = 0
  <2>1. << >> \in Value /\ Len(<< >>) = 0 BY DEF Value
  <2> QED BY <2>1, SizeRecursion
<1>3. ASSUME NEW c \in Changeset PROVE Size(<<c>>) = Cells[c] /\ Cells[c] \in Nat \ {0}
  <2>1. <<c>> \in Value /\ Len(<<c>>) = 1 /\ <<c>>[1] = c BY DEF Value
  <2>2. Cells[c] \in Nat \ {0} BY FileStoreAssumption
  <2>3. PICK sum \in [0 .. Len(<<c>>) -> Nat] :
          /\ Size(<<c>>) = sum[Len(<<c>>)]
          /\ sum[0] = 0
          /\ \A i \in 1 .. Len(<<c>>) : sum[i] = sum[i - 1] + Cells[<<c>>[i]]
    BY <2>1, SizeRecursion
  <2>4. sum[1] = sum[0] + Cells[c] BY <2>1, <2>3
  <2> QED BY <2>1, <2>2, <2>3, <2>4
<1> QED BY <1>1, <1>2, <1>3

-----------------------------------------------------------------------------
(* Reading the first cells of a file. *)

Starts(cell) == IF cell.at = 1 THEN cell.value ELSE << >>

LEMMA ReadRecursion ==
  ASSUME NEW f \in Seq(Cell), NEW n \in 0 .. Len(f)
  PROVE  \E read \in [0 .. n -> Value] :
           /\ ValuesUpTo(f, n) = read[n]
           /\ read[0] = << >>
           /\ \A i \in 1 .. n : read[i] = read[i - 1] \o Starts(f[i])
<1> DEFINE F == [i \in 1 .. n |-> [w \in Value |-> w \o Starts(f[i])]]
           Step(q) == [i \in 0 .. n |-> IF i = 0 THEN << >>
                         ELSE q[i - 1] \o (IF f[i].at = 1 THEN f[i].value ELSE << >>)]
           read == CHOOSE q : q = Step(q)
<1>1. n \in Nat /\ \A i \in 1 .. n : i \in 1 .. Len(f) OBVIOUS
<1>2. \A i \in 1 .. n : Starts(f[i]) \in Value
  <2>1. \A i \in 1 .. n : f[i] \in Cell BY <1>1
  <2>2. << >> \in Value BY DEF Value
  <2> QED BY <2>1, <2>2 DEF Cell, Starts
<1>3. \A w, x \in Value : w \o x \in Value BY DEF Value
<1>4. F \in [1 .. n -> [Value -> Value]] BY <1>2, <1>3
<1>5. \A i \in 1 .. n : \A w \in Value : F[i][w] = w \o Starts(f[i]) OBVIOUS
<1>6. ValuesUpTo(f, n) = read[n] BY Zenon DEF ValuesUpTo
<1>7. \A q : /\ DOMAIN Step(q) = 0 .. n
             /\ Step(q)[0] = << >>
             /\ \A i \in 1 .. n : Step(q)[i] = q[i - 1] \o Starts(f[i])
             /\ Step(q) = [i \in 0 .. n |-> Step(q)[i]]
  <2>1. SUFFICES ASSUME NEW q
                 PROVE  /\ DOMAIN Step(q) = 0 .. n
                        /\ Step(q)[0] = << >>
                        /\ \A i \in 1 .. n : Step(q)[i] = q[i - 1] \o Starts(f[i])
                        /\ Step(q) = [i \in 0 .. n |-> Step(q)[i]]
    BY Zenon
  <2>2. \A i \in 1 .. n : Step(q)[i] = q[i - 1] \o Starts(f[i])
    <3>1. ASSUME NEW i \in 1 .. n PROVE Step(q)[i] = q[i - 1] \o Starts(f[i])
      <4>1. i \in 0 .. n /\ i # 0 BY <1>1
      <4> QED BY <4>1, Zenon DEF Starts
    <3> QED BY <3>1
  <2>3. Step(q)[0] = << >> BY <1>1
  <2> QED BY <2>2, <2>3
<1> HIDE DEF F, Step, read
<1>8. << >> \in Value BY DEF Value
<1>9. PICK r \in [0 .. n -> Value] : r[0] = << >> /\ \A i \in 1 .. n : r[i] = F[i][r[i - 1]]
  <2>1. F \in Steps(n, Value) BY <1>4 DEF Steps
  <2>2. \E r : Iterates(r, n, Value, << >>, F) BY <1>1, <1>8, <2>1, RecursionUpTo, Zenon
  <2> QED BY <2>2, Zenon DEF Iterates
<1>10. \A i \in 1 .. n : i - 1 \in 0 .. n /\ r[i - 1] \in Value /\ r[i] = r[i - 1] \o Starts(f[i])
  BY <1>1, <1>5, <1>9, BoundsUpTo, Zenon
<1>11. \A i \in 0 .. n : r[i] = Step(r)[i]
  BY <1>1, <1>7, <1>9, <1>10, BoundsUpTo, Zenon
<1>12. r = Step(r) BY <1>7, <1>11
<1>13. read = Step(read) BY <1>12, Zenon DEF read
<1>14. read[0] = << >> /\ \A i \in 1 .. n : read[i] = read[i - 1] \o Starts(f[i])
  BY <1>7, <1>13, Zenon
<1>15. \A i \in 0 .. n : read[i] \in Value
  <2> DEFINE T == {i \in 0 .. n : read[i] \in Value}
  <2>1. 0 \in T BY <1>1, <1>8, <1>14
  <2>2. \A i \in 1 .. n : i - 1 \in T => i \in T
    <3>1. ASSUME NEW i \in 1 .. n, i - 1 \in T PROVE i \in T
      <4>1. read[i - 1] \in Value BY <3>1
      <4>2. read[i] \in Value BY <1>2, <1>3, <1>14, <4>1, Zenon
      <4>3. i \in 0 .. n BY <1>1
      <4> QED BY <4>2, <4>3
    <3> QED BY <3>1
  <2> HIDE DEF T
  <2>3. \A i \in 0 .. n : i \in T BY <1>1, <2>1, <2>2, InductionUpTo
  <2> QED BY <2>3 DEF T
<1>16. read \in [0 .. n -> Value]
  <2>1. DOMAIN read = 0 .. n /\ read = [i \in 0 .. n |-> read[i]] BY <1>7, <1>13, Zenon
  <2> QED BY <1>15, <2>1
<1> QED BY <1>6, <1>14, <1>16

LEMMA ReadNothing ==
  ASSUME NEW f \in Seq(Cell)
  PROVE  ValuesUpTo(f, 0) = << >>
<1>1. 0 \in 0 .. Len(f) OBVIOUS
<1> QED BY <1>1, ReadRecursion

LEMMA ReadType ==
  ASSUME NEW f \in Seq(Cell), NEW n \in 0 .. Len(f)
  PROVE  ValuesUpTo(f, n) \in Value
<1>1. n \in Nat /\ n \in 0 .. n OBVIOUS
<1>2. PICK read \in [0 .. n -> Value] : ValuesUpTo(f, n) = read[n] BY ReadRecursion
<1> QED BY <1>1, <1>2

(* A further cell adds the changesets of the record it starts. *)
LEMMA ReadStep ==
  ASSUME NEW f \in Seq(Cell), NEW n \in 1 .. Len(f)
  PROVE  ValuesUpTo(f, n) = ValuesUpTo(f, n - 1) \o Starts(f[n])
<1> DEFINE m == n - 1
<1>1. m \in Nat /\ n \in Nat /\ m \in 0 .. Len(f) /\ n \in 0 .. Len(f) /\ m \in 0 .. m OBVIOUS
<1>2. \A i \in 0 .. m : i \in 0 .. n OBVIOUS
<1>3. \A i \in 1 .. m : i \in 1 .. n OBVIOUS
<1>4. n \in 1 .. n /\ n - 1 = m OBVIOUS
<1> HIDE DEF m
<1>5. PICK a \in [0 .. n -> Value] :
        /\ ValuesUpTo(f, n) = a[n]
        /\ a[0] = << >>
        /\ \A i \in 1 .. n : a[i] = a[i - 1] \o Starts(f[i])
  BY <1>1, ReadRecursion
<1>6. PICK b \in [0 .. m -> Value] :
        /\ ValuesUpTo(f, m) = b[m]
        /\ b[0] = << >>
        /\ \A i \in 1 .. m : b[i] = b[i - 1] \o Starts(f[i])
  BY <1>1, ReadRecursion
<1> DEFINE T == {i \in 0 .. m : a[i] = b[i]}
<1>7. 0 \in T BY <1>1, <1>5, <1>6
<1>8. ASSUME NEW i \in 1 .. m, i - 1 \in T PROVE i \in T
  <2>1. a[i - 1] = b[i - 1] BY <1>8
  <2>2. a[i] = b[i] BY <1>3, <1>5, <1>6, <2>1, Zenon
  <2> QED BY <1>1, <2>2
<1>9. \A i \in 0 .. m : i \in T
  <2> HIDE DEF T
  <2> QED BY <1>1, <1>7, <1>8, InductionUpTo
<1>10. a[m] = b[m] BY <1>1, <1>9
<1> QED BY <1>4, <1>5, <1>6, <1>10 DEF m

(* What is read depends on the cells read only. *)
LEMMA ReadSame ==
  ASSUME NEW f \in Seq(Cell), NEW g \in Seq(Cell),
         NEW n \in Nat, n <= Len(f), n <= Len(g), \A i \in 1 .. n : f[i] = g[i]
  PROVE  ValuesUpTo(f, n) = ValuesUpTo(g, n)
<1> DEFINE T == {i \in 0 .. n : ValuesUpTo(f, i) = ValuesUpTo(g, i)}
<1>1. 0 \in T BY ReadNothing
<1>2. ASSUME NEW i \in 1 .. n, i - 1 \in T PROVE i \in T
  <2>1. i \in 1 .. Len(f) /\ i \in 1 .. Len(g) /\ i \in 0 .. n OBVIOUS
  <2>2. f[i] = g[i] /\ ValuesUpTo(f, i - 1) = ValuesUpTo(g, i - 1) BY <1>2
  <2>3. ValuesUpTo(f, i) = ValuesUpTo(g, i) BY <2>1, <2>2, ReadStep
  <2> QED BY <2>1, <2>3
<1> HIDE DEF T
<1>3. \A i \in 0 .. n : i \in T BY <1>1, <1>2, InductionUpTo
<1> QED BY <1>3, BoundsUpTo DEF T

(* Reading on only adds. *)
LEMMA ReadPrefix ==
  ASSUME NEW f \in Seq(Cell), NEW n \in 0 .. Len(f), NEW m \in 0 .. n
  PROVE  IsPrefix(ValuesUpTo(f, m), ValuesUpTo(f, n))
<1> DEFINE S == Changeset \cup {Bogus}
           a == ValuesUpTo(f, m)
           Longer(j) == \E w \in Seq(S) : ValuesUpTo(f, m + j) = a \o w
           T == {j \in 0 .. n - m : Longer(j)}
<1>1. Value = Seq(S) BY DEF Value
<1>2. m \in 0 .. Len(f) /\ n - m \in Nat /\ m \in Nat OBVIOUS
<1>3. a \in Seq(S) BY <1>1, <1>2, ReadType
<1> HIDE DEF S, a
<1>4. 0 \in T
  <2>1. << >> \in Seq(S) OBVIOUS
  <2>2. a \o << >> = a BY <1>3, ConcatEmptySeq
  <2>3. m + 0 = m BY <1>2
  <2>4. Longer(0) BY <2>1, <2>2, <2>3 DEF a
  <2> HIDE DEF Longer
  <2> QED BY <1>2, <2>4
<1>5. ASSUME NEW j \in 1 .. n - m, j - 1 \in T PROVE j \in T
  <2>1. PICK w \in Seq(S) : ValuesUpTo(f, m + (j - 1)) = a \o w BY <1>5
  <2>2. m + j \in 1 .. Len(f) /\ (m + j) - 1 = m + (j - 1) BY <1>2
  <2>3. f[m + j] \in Cell BY <2>2
  <2>4. Starts(f[m + j]) \in Seq(S) BY <1>1, <2>3 DEF Cell, Starts
  <2>5. ValuesUpTo(f, m + j) = (a \o w) \o Starts(f[m + j]) BY <2>1, <2>2, ReadStep
  <2>6. @ = a \o (w \o Starts(f[m + j])) BY <1>3, <2>1, <2>4, ConcatAssociative, SMTT(30)
  <2>7. w \o Starts(f[m + j]) \in Seq(S) BY <2>1, <2>4, ConcatProperties
  <2>8. Longer(j) BY <2>5, <2>6, <2>7, Zenon
  <2> HIDE DEF Longer
  <2> QED BY <2>8
<1>6. \A j \in 0 .. n - m : j \in T
  <2> HIDE DEF T
  <2> QED BY <1>2, <1>4, <1>5, InductionUpTo
<1>7. n - m \in 0 .. n - m /\ m + (n - m) = n BY <1>2
<1>8. PICK w \in Seq(S) : ValuesUpTo(f, n) = a \o w BY <1>6, <1>7
<1>9. Len(a) <= Len(a \o w) /\ SubSeq(a, 1, Len(a)) = SubSeq(a \o w, 1, Len(a))
  <2>1. Len(a) \in Nat /\ Len(w) \in Nat /\ Len(a \o w) = Len(a) + Len(w)
    BY <1>3, <1>8, ConcatProperties
  <2>2. SubSeq(a \o w, 1, Len(a)) = a BY <1>3, <1>8, SubSeqOfConcat1, SubSeqFull
  <2>3. SubSeq(a, 1, Len(a)) = a BY <1>3, SubSeqFull
  <2> QED BY <2>1, <2>2, <2>3
<1> QED BY <1>8, <1>9, Zenon DEF IsPrefix, a

(* A record, or the beginning of one, adds its changesets once. *)
LEMMA ReadRecord ==
  ASSUME NEW f \in Seq(Cell), NEW n \in Nat, NEW k \in Nat \ {0}, n + k <= Len(f),
         NEW v \in Value, \A i \in 1 .. k : f[n + i] = [value |-> v, at |-> i]
  PROVE  ValuesUpTo(f, n + k) = ValuesUpTo(f, n) \o v
<1> DEFINE S == Changeset \cup {Bogus}
           a == ValuesUpTo(f, n) \o v
           T == {j \in 0 .. k - 1 : ValuesUpTo(f, n + 1 + j) = a}
<1>1. Value = Seq(S) BY DEF Value
<1>2. k - 1 \in Nat /\ n \in 0 .. Len(f) OBVIOUS
<1>3. ValuesUpTo(f, n) \in Seq(S) /\ v \in Seq(S) BY <1>1, <1>2, ReadType
<1> HIDE DEF S
<1>4. a \in Seq(S) BY <1>3, ConcatProperties
<1>5. 0 \in T
  <2>1. n + 1 \in 1 .. Len(f) /\ (n + 1) - 1 = n /\ n + 1 + 0 = n + 1 /\ 1 \in 1 .. k OBVIOUS
  <2>a. f[n + 1] = [value |-> v, at |-> 1] BY <2>1, Zenon
  <2>2. Starts(f[n + 1]) = v BY <2>a DEF Starts
  <2>3. ValuesUpTo(f, n + 1) = a BY <2>1, <2>2, ReadStep
  <2> HIDE DEF a
  <2> QED BY <1>2, <2>1, <2>3
<1> HIDE DEF a
<1>6. ASSUME NEW j \in 1 .. k - 1, j - 1 \in T PROVE j \in T
  <2>1. n + 1 + j \in 1 .. Len(f) /\ (n + 1 + j) - 1 = n + 1 + (j - 1) OBVIOUS
  <2>2. 1 + j \in 1 .. k /\ 1 + j # 1 /\ n + (1 + j) = n + 1 + j OBVIOUS
  <2>a. f[n + 1 + j] = [value |-> v, at |-> 1 + j] BY <2>2, Zenon
  <2>3. Starts(f[n + 1 + j]) = << >> BY <2>2, <2>a DEF Starts
  <2>b. ValuesUpTo(f, n + 1 + (j - 1)) = a BY <1>6
  <2>4. ValuesUpTo(f, n + 1 + j) = a \o << >> BY <2>1, <2>3, <2>b, ReadStep, Zenon
  <2>5. a \o << >> = a BY <1>4, ConcatEmptySeq
  <2> QED BY <2>4, <2>5
<1>7. \A j \in 0 .. k - 1 : j \in T
  <2> HIDE DEF T
  <2> QED BY <1>2, <1>5, <1>6, InductionUpTo
<1>8. k - 1 \in 0 .. k - 1 /\ n + 1 + (k - 1) = n + k BY <1>2
<1> QED BY <1>7, <1>8 DEF a

-----------------------------------------------------------------------------
(* Where reading ends. *)

LEMMA EndFacts ==
  ASSUME NEW f, NEW p \in Nat
  PROVE  /\ EndBefore(f, p) \in 0 .. p
         /\ WholeRecords(f, EndBefore(f, p))
         /\ \A m \in 0 .. p : WholeRecords(f, m) => m <= EndBefore(f, p)
<1> DEFINE T == {n \in 0 .. p : WholeRecords(f, n)}
<1>1. 0 \in T
  <2>1. WholeRecords(f, 0) BY DEF WholeRecords
  <2> QED BY <2>1
<1>2. T \subseteq 0 .. p OBVIOUS
<1> HIDE DEF T
<1>3. PICK n \in T : \A m \in T : m <= n BY <1>1, <1>2, GreatestNatural
<1>4. n \in 0 .. p /\ WholeRecords(f, n) /\ \A m \in 0 .. p : WholeRecords(f, m) => m <= n
  BY <1>3 DEF T
<1> QED BY <1>4, Zenon DEF EndBefore

LEMMA EndIs ==
  ASSUME NEW f, NEW p \in Nat, NEW n \in 0 .. p, WholeRecords(f, n),
         \A m \in 0 .. p : WholeRecords(f, m) => m <= n
  PROVE  EndBefore(f, p) = n
<1>1. EndBefore(f, p) \in 0 .. p /\ n <= EndBefore(f, p) /\ EndBefore(f, p) <= n BY EndFacts
<1> QED BY <1>1

LEMMA WholeSame ==
  ASSUME NEW f, NEW g, NEW n \in Nat, \A i \in 1 .. n : f[i] = g[i], WholeRecords(f, n)
  PROVE  WholeRecords(g, n)
<1>1. n > 0 => 1 \in 1 .. n /\ n \in 1 .. n OBVIOUS
<1>2. \A i \in 1 .. (n - 1) : i \in 1 .. n /\ i + 1 \in 1 .. n OBVIOUS
<1>3. n > 0 => f[1] = g[1] /\ f[n] = g[n] BY <1>1
<1>4. \A i \in 1 .. (n - 1) : f[i] = g[i] /\ f[i + 1] = g[i + 1] BY <1>2
<1> QED BY <1>3, <1>4, Zenon DEF WholeRecords

(* A record after whole records. *)
LEMMA WholeRecord ==
  ASSUME NEW f \in Seq(Cell), NEW n \in Nat, NEW v \in Value, n + Size(v) <= Len(f),
         WholeRecords(f, n), Size(v) > 0,
         \A i \in 1 .. Size(v) : f[n + i] = [value |-> v, at |-> i]
  PROVE  WholeRecords(f, n + Size(v))
<1> DEFINE k == Size(v)
<1>1. k \in Nat BY SizeFacts
<1>2. 1 \in 1 .. k /\ k \in 1 .. k BY <1>1
<1> HIDE DEF k
<1>3. ASSUME NEW i \in 1 .. k PROVE f[n + i].at = i /\ f[n + i].value = v
  <2>1. f[n + i] = [value |-> v, at |-> i] BY Zenon DEF k
  <2> QED BY <2>1
<1>4. \A i \in 1 .. k : IsLast(f[n + i]) <=> i = k BY <1>3 DEF IsLast, k
<1>5. f[1].at = 1
  <2>1. CASE n = 0 BY <1>2, <1>3, <2>1
  <2>2. CASE n > 0 BY <2>2 DEF WholeRecords
  <2> QED BY <2>1, <2>2
<1>6. IsLast(f[n + k]) BY <1>2, <1>4
<1>7. ASSUME NEW i \in 1 .. ((n + k) - 1)
      PROVE  Continues(f[i], f[i + 1])
  <2>1. CASE i < n
    <3>1. i \in 1 .. (n - 1) BY <1>1, <2>1
    <3> QED BY <3>1 DEF WholeRecords
  <2>2. CASE i = n
    <3>1. IsLast(f[n]) BY <2>2 DEF WholeRecords
    <3>2. f[n + 1].at = 1 BY <1>2, <1>3
    <3> QED BY <2>2, <3>1, <3>2 DEF Continues
  <2>3. CASE i > n
    <3> DEFINE j == i - n
    <3>1. j \in 1 .. k /\ j + 1 \in 1 .. k /\ n + j = i /\ n + (j + 1) = i + 1 /\ j # k
      BY <1>1, <2>3
    <3>2. ~IsLast(f[i]) BY <1>4, <3>1
    <3>3. f[i] = [value |-> v, at |-> j] /\ f[i + 1] = [value |-> v, at |-> j + 1]
      BY <3>1 DEF k
    <3> HIDE DEF j
    <3> QED BY <3>2, <3>3 DEF Continues
  <2> QED BY <1>1, <2>1, <2>2, <2>3
<1> DEFINE m == n + k
<1>8. /\ f[1].at = 1 /\ IsLast(f[m])
      /\ \A i \in 1 .. (m - 1) : Continues(f[i], f[i + 1])
  BY <1>5, <1>6, <1>7, Zenon
<1> HIDE DEF m
<1>9. WholeRecords(f, m) BY <1>8, Zenon DEF WholeRecords
<1> QED BY <1>9 DEF m, k

-----------------------------------------------------------------------------
(* Writing. *)

LEMMA RecordFacts ==
  ASSUME NEW v \in Value
  PROVE  /\ Record(v) \in Seq(Cell)
         /\ Len(Record(v)) = Size(v)
         /\ \A i \in 1 .. Size(v) : Record(v)[i] = [value |-> v, at |-> i]
<1>1. Size(v) \in Nat BY SizeFacts
<1>2. \A i \in 1 .. Size(v) : [value |-> v, at |-> i] \in Cell BY <1>1 DEF Cell
<1> QED BY <1>1, <1>2 DEF Record

(* The first k cells of the record of one changeset. *)
LEMMA BeginningFacts ==
  ASSUME NEW c \in Changeset, NEW k \in 0 .. Cells[c]
  PROVE  /\ SubSeq(Record(<<c>>), 1, k) \in Seq(Cell)
         /\ Len(SubSeq(Record(<<c>>), 1, k)) = k
         /\ \A i \in 1 .. k : SubSeq(Record(<<c>>), 1, k)[i] = [value |-> <<c>>, at |-> i]
<1>1. <<c>> \in Value /\ Size(<<c>>) = Cells[c] /\ Cells[c] \in Nat /\ k \in Nat
  <2>1. Size(<<c>>) = Cells[c] /\ Cells[c] \in Nat BY SizeFacts
  <2> QED BY <2>1 DEF Value
<1> DEFINE r == Record(<<c>>)
<1>2. r \in Seq(Cell) /\ Len(r) = Cells[c]
  BY <1>1, RecordFacts
<1>3. ASSUME NEW i \in 1 .. k PROVE r[i] = [value |-> <<c>>, at |-> i]
  <2>1. i \in 1 .. Size(<<c>>) BY <1>1
  <2> QED BY <1>1, <2>1, RecordFacts
<1> HIDE DEF r
<1>4. SubSeq(r, 1, k) \in Seq(Cell) /\ Len(SubSeq(r, 1, k)) = k
      /\ \A i \in 1 .. k : SubSeq(r, 1, k)[i] = r[i]
  BY <1>1, <1>2
<1> QED BY <1>3, <1>4 DEF r

LEMMA WriteFacts ==
  ASSUME NEW f \in Seq(Cell), NEW p \in 0 .. Len(f), NEW cells \in Seq(Cell)
  PROVE  /\ Write(f, p, cells) \in Seq(Cell)
         /\ p + Len(cells) <= Len(Write(f, p, cells))
         /\ p = Len(f) => Len(Write(f, p, cells)) = p + Len(cells)
         /\ \A i \in 1 .. p : Write(f, p, cells)[i] = f[i]
         /\ \A i \in 1 .. Len(cells) : Write(f, p, cells)[p + i] = cells[i]
<1> DEFINE n == IF p + Len(cells) > Len(f) THEN p + Len(cells) ELSE Len(f)
           At(i) == IF p < i /\ i <= p + Len(cells) THEN cells[i - p] ELSE f[i]
<1>1. Write(f, p, cells) = [i \in 1 .. n |-> At(i)] BY DEF Write
<1>2. n \in Nat /\ p + Len(cells) <= n /\ p <= n /\ (p = Len(f) => n = p + Len(cells)) OBVIOUS
<1>3. \A i \in 1 .. n : At(i) \in Cell
  <2>1. ASSUME NEW i \in 1 .. n PROVE At(i) \in Cell
    <3>1. CASE p < i /\ i <= p + Len(cells)
      <4>1. i - p \in 1 .. Len(cells) BY <3>1
      <4> QED BY <3>1, <4>1
    <3>2. CASE ~(p < i /\ i <= p + Len(cells))
      <4>1. i \in 1 .. Len(f) BY <3>2
      <4> QED BY <3>2, <4>1
    <3> QED BY <3>1, <3>2
  <2> QED BY <2>1
<1>4. \A i \in 1 .. p : At(i) = f[i] /\ i \in 1 .. n BY <1>2
<1>5. \A i \in 1 .. Len(cells) : At(p + i) = cells[i] /\ p + i \in 1 .. n
  <2>1. ASSUME NEW i \in 1 .. Len(cells) PROVE At(p + i) = cells[i] /\ p + i \in 1 .. n
    <3>1. p < p + i /\ p + i <= p + Len(cells) /\ (p + i) - p = i OBVIOUS
    <3>2. p + i \in 1 .. n BY <1>2
    <3> QED BY <3>1, <3>2
  <2> QED BY <2>1
<1> HIDE DEF n, At
<1>6. Write(f, p, cells) \in Seq(Cell) /\ Len(Write(f, p, cells)) = n BY <1>1, <1>2, <1>3
<1>7. \A i \in 1 .. p : Write(f, p, cells)[i] = f[i] BY <1>1, <1>4
<1>8. \A i \in 1 .. Len(cells) : Write(f, p, cells)[p + i] = cells[i] BY <1>1, <1>5
<1> QED BY <1>2, <1>6, <1>7, <1>8

(* Whole records before an offset stay readable when a file agrees with it up *)
(* to there.                                                                  *)
LEMMA KeptBefore ==
  ASSUME NEW f \in Seq(Cell), NEW p \in 0 .. Len(f), NEW g \in Seq(Cell),
         p <= Len(g), \A i \in 1 .. p : f[i] = g[i]
  PROVE  IsPrefix(ValuesUpTo(f, EndBefore(f, p)), Values(g))
<1> DEFINE k == EndBefore(f, p)
           e == EndBefore(g, Len(g))
<1>1. p \in Nat /\ Len(g) \in Nat OBVIOUS
<1>2. k \in 0 .. p /\ WholeRecords(f, k) BY <1>1, EndFacts
<1>3. e \in 0 .. Len(g) /\ \A m \in 0 .. Len(g) : WholeRecords(g, m) => m <= e BY <1>1, EndFacts
<1>4. Values(g) = ValuesUpTo(g, e) BY DEF Values, DecodableEnd
<1> HIDE DEF k, e
<1>5. k \in Nat /\ k <= Len(f) /\ k <= Len(g) /\ \A i \in 1 .. k : f[i] = g[i] BY <1>1, <1>2
<1>6. WholeRecords(g, k) BY <1>2, <1>5, WholeSame
<1>7. k \in 0 .. e BY <1>3, <1>5, <1>6
<1>8. ValuesUpTo(f, k) = ValuesUpTo(g, k) BY <1>5, ReadSame
<1>9. IsPrefix(ValuesUpTo(g, k), ValuesUpTo(g, e)) BY <1>3, <1>7, ReadPrefix
<1> QED BY <1>4, <1>8, <1>9 DEF k

LEMMA EndOfFile ==
  ASSUME NEW f \in Seq(Cell)
  PROVE  /\ DecodableEnd(f) \in 0 .. Len(f)
         /\ WholeRecords(f, DecodableEnd(f))
         /\ WholeRecords(f, Len(f)) => DecodableEnd(f) = Len(f)
         /\ Values(f) = ValuesUpTo(f, DecodableEnd(f))
         /\ Values(f) \in Value
<1>1. Len(f) \in Nat /\ Len(f) \in 0 .. Len(f) OBVIOUS
<1>2. DecodableEnd(f) \in 0 .. Len(f) /\ WholeRecords(f, DecodableEnd(f))
  BY <1>1, EndFacts DEF DecodableEnd
<1>3. WholeRecords(f, Len(f)) => Len(f) <= DecodableEnd(f) BY <1>1, EndFacts DEF DecodableEnd
<1>4. WholeRecords(f, Len(f)) => DecodableEnd(f) = Len(f) BY <1>1, <1>2, <1>3
<1>5. Values(f) = ValuesUpTo(f, DecodableEnd(f)) BY DEF Values
<1>6. Values(f) \in Value BY <1>2, <1>5, ReadType
<1> QED BY <1>2, <1>4, <1>5, <1>6

(* A file that is one record reads as that record. *)
LEMMA ReadRecovered ==
  ASSUME NEW v \in Value
  PROVE  /\ DecodableEnd(Record(v)) = Len(Record(v))
         /\ Values(Record(v)) = v
<1> DEFINE f == Record(v)
<1>1. f \in Seq(Cell) /\ Len(f) = Size(v) /\ Size(v) \in Nat
      /\ \A i \in 1 .. Size(v) : f[i] = [value |-> v, at |-> i]
  BY RecordFacts, SizeFacts
<1>2. WholeRecords(f, 0) BY DEF WholeRecords
<1> HIDE DEF f
<1>3. CASE v = << >>
  <2>1. Len(f) = 0 BY <1>1, <1>3, SizeFacts
  <2>2. DecodableEnd(f) = 0 BY <1>1, <1>2, <2>1, EndOfFile
  <2>3. Values(f) = << >> BY <1>1, <2>2, EndOfFile, ReadNothing
  <2> QED BY <1>3, <2>1, <2>2, <2>3 DEF f
<1>4. CASE v # << >>
  <2>1. Size(v) > 0 BY <1>4, SizeFacts
  <2>2. Size(v) \in Nat \ {0} /\ 0 \in Nat /\ 0 + Size(v) = Size(v) /\ 0 + Size(v) <= Len(f) BY <1>1, <2>1
  <2>3. ASSUME NEW i \in 1 .. Size(v) PROVE f[0 + i] = [value |-> v, at |-> i]
    <3>1. 0 + i = i BY <1>1
    <3> QED BY <1>1, <3>1
  <2>4. WholeRecords(f, 0 + Size(v)) BY <1>1, <1>2, <2>1, <2>2, <2>3, WholeRecord
  <2>5. DecodableEnd(f) = Size(v) BY <1>1, <2>2, <2>4, EndOfFile
  <2>6. ValuesUpTo(f, 0 + Size(v)) = ValuesUpTo(f, 0) \o v BY <1>1, <2>2, <2>3, ReadRecord
  <2>7. ValuesUpTo(f, 0) \o v = v
    <3>1. ValuesUpTo(f, 0) = << >> BY <1>1, ReadNothing
    <3>2. << >> \o v = v BY ConcatEmptySeq DEF Value
    <3> QED BY <3>1, <3>2
  <2>8. Values(f) = v BY <1>1, <2>2, <2>5, <2>6, <2>7, EndOfFile
  <2> QED BY <1>1, <2>5, <2>8 DEF f
<1> QED BY <1>3, <1>4

(* A whole record written at the end of a readable file is read after it. *)
LEMMA AppendWhole ==
  ASSUME NEW f \in Seq(Cell), DecodableEnd(f) = Len(f), NEW c \in Changeset, NEW cells \in Seq(Cell),
         Len(cells) = Cells[c], \A i \in 1 .. Cells[c] : cells[i] = [value |-> <<c>>, at |-> i],
         NEW g, g = Write(f, Len(f), cells)
  PROVE  /\ g \in Seq(Cell) /\ Len(g) = Len(f) + Cells[c]
         /\ DecodableEnd(g) = Len(g)
         /\ Values(g) = Append(Values(f), c)
<1> DEFINE n == Len(f)
<1>1. n \in Nat /\ n \in 0 .. Len(f) OBVIOUS
<1>2. <<c>> \in Value BY DEF Value
<1>3. Size(<<c>>) = Cells[c] /\ Cells[c] \in Nat \ {0} BY SizeFacts
<1>4. g \in Seq(Cell) /\ Len(g) = n + Cells[c] BY <1>1, WriteFacts
<1>5. \A i \in 1 .. n : f[i] = g[i] BY <1>1, WriteFacts
<1>6. \A i \in 1 .. Cells[c] : g[n + i] = [value |-> <<c>>, at |-> i]
  <2>1. \A i \in 1 .. Len(cells) : g[n + i] = cells[i] BY <1>1, WriteFacts
  <2> QED BY <2>1
<1>7. WholeRecords(f, n) BY EndOfFile
<1>8. Values(f) = ValuesUpTo(f, n) /\ Values(f) \in Value BY EndOfFile
<1> HIDE DEF n
<1>9. WholeRecords(g, n) BY <1>1, <1>5, <1>7, WholeSame
<1>10. n + Cells[c] <= Len(g) /\ Cells[c] > 0 BY <1>1, <1>3, <1>4
<1>11. WholeRecords(g, n + Size(<<c>>)) BY <1>1, <1>2, <1>3, <1>4, <1>6, <1>9, <1>10, WholeRecord
<1>12. DecodableEnd(g) = Len(g) BY <1>3, <1>4, <1>11, EndOfFile
<1>13. ValuesUpTo(g, n + Cells[c]) = ValuesUpTo(g, n) \o <<c>>
  BY <1>1, <1>2, <1>3, <1>4, <1>6, <1>10, ReadRecord
<1>14. ValuesUpTo(g, n) = ValuesUpTo(f, n)
  <2>1. n <= Len(f) /\ n <= Len(g) BY <1>1, <1>3, <1>4
  <2> QED BY <1>1, <1>4, <1>5, <2>1, ReadSame
<1>15. Values(f) \o <<c>> = Append(Values(f), c) BY <1>8 DEF Value
<1> QED BY <1>4, <1>8, <1>12, <1>13, <1>14, <1>15, EndOfFile DEF n

(* A torn one is not, and what it leaves ends in the middle of a record. *)
LEMMA AppendTorn ==
  ASSUME NEW f \in Seq(Cell), DecodableEnd(f) = Len(f), NEW c \in Changeset,
         NEW k \in Nat, k < Cells[c], NEW cells \in Seq(Cell),
         Len(cells) = k, \A i \in 1 .. k : cells[i] = [value |-> <<c>>, at |-> i],
         NEW g, g = Write(f, Len(f), cells)
  PROVE  /\ g \in Seq(Cell)
         /\ Values(g) = Values(f)
         /\ DecodableEnd(g) < Len(g) => IsTruncated(g)
<1> DEFINE n == Len(f)
<1>1. n \in Nat /\ n \in 0 .. Len(f) OBVIOUS
<1>3. Size(<<c>>) = Cells[c] /\ Cells[c] \in Nat \ {0} BY SizeFacts
<1>4. g \in Seq(Cell) /\ Len(g) = n + k BY <1>1, WriteFacts
<1>5. \A i \in 1 .. n : f[i] = g[i] BY <1>1, WriteFacts
<1>6. \A i \in 1 .. k : g[n + i] = [value |-> <<c>>, at |-> i]
  <2>1. \A i \in 1 .. Len(cells) : g[n + i] = cells[i] BY <1>1, WriteFacts
  <2> QED BY <2>1
<1>7. WholeRecords(f, n) BY EndOfFile
<1>8. Values(f) = ValuesUpTo(f, n) BY EndOfFile
<1> HIDE DEF n
<1>9. WholeRecords(g, n) BY <1>1, <1>5, <1>7, WholeSame
<1>10. ASSUME NEW m \in 0 .. Len(g), WholeRecords(g, m) PROVE m <= n
  <2>1. SUFFICES ASSUME m > n PROVE FALSE BY <1>1, <1>4
  <2>2. m - n \in 1 .. k /\ n + (m - n) = m /\ m > 0 BY <1>1, <1>4, <2>1
  <2>3. g[m] = [value |-> <<c>>, at |-> m - n] BY <1>6, <2>2
  <2>4. IsLast(g[m]) BY <1>10, <2>2 DEF WholeRecords
  <2>5. m - n = Cells[c] BY <1>3, <2>3, <2>4 DEF IsLast
  <2> QED BY <1>1, <1>3, <2>2, <2>5
<1>11. DecodableEnd(g) = n
  <2>1. Len(g) \in Nat /\ n \in 0 .. Len(g) BY <1>1, <1>4
  <2> QED BY <1>9, <1>10, <2>1, EndIs DEF DecodableEnd
<1>12. Values(g) = Values(f)
  <2>1. n <= Len(f) /\ n <= Len(g) BY <1>1, <1>4
  <2>2. ValuesUpTo(g, n) = ValuesUpTo(f, n) BY <1>1, <1>4, <1>5, <2>1, ReadSame
  <2> QED BY <1>8, <1>11, <2>2 DEF Values
<1>13. ASSUME n < Len(g) PROVE IsTruncated(g)
  <2>1. 1 \in 1 .. k BY <1>1, <1>4, <1>13
  <2>2. g[n + 1] = [value |-> <<c>>, at |-> 1] BY <1>6, <2>1
  <2>3. g[n + 1].at = 1 /\ g[n + 1].value = <<c>> BY <2>2
  <2>4. ASSUME NEW i \in (n + 1) .. Len(g)
        PROVE  g[i] = [value |-> g[n + 1].value, at |-> i - n]
    <3>1. i - n \in 1 .. k /\ n + (i - n) = i BY <1>1, <1>4
    <3>2. g[n + (i - n)] = [value |-> <<c>>, at |-> i - n] BY <1>6, <3>1, Zenon
    <3> QED BY <2>3, <3>1, <3>2
  <2> QED BY <1>11, <1>13, <2>3, <2>4 DEF IsTruncated
<1> QED BY <1>4, <1>11, <1>12, <1>13

(* What a dump returns and where it leaves the offset. *)
LEMMA DumpFacts ==
  ASSUME NEW f \in Seq(Cell), NEW r \in DumpOutcomes(f)
  PROVE  /\ r.end \in 0 .. Len(f)
         /\ r.error \in BOOLEAN
         /\ r.values = Values(f) \/ r.values = Append(Values(f), Bogus)
         /\ DecodableEnd(f) = Len(f) => r.values = Values(f) /\ r.end = Len(f) /\ ~r.error
         /\ IsTruncated(f) => r.values = Values(f) /\ r.error
<1> DEFINE n == DecodableEnd(f)
<1>1. n \in 0 .. Len(f) BY EndOfFile
<1>2. IsTruncated(f) => n # Len(f) BY <1>1 DEF IsTruncated
<1>3. CASE n = Len(f)
  <2>1. r = [values |-> Values(f), end |-> n, error |-> FALSE] BY <1>3 DEF DumpOutcomes
  <2> QED BY <1>1, <1>2, <1>3, <2>1
<1>4. CASE n # Len(f) /\ r = [values |-> Values(f), end |-> n, error |-> TRUE]
  BY <1>1, <1>4
<1>5. CASE n # Len(f) /\ r # [values |-> Values(f), end |-> n, error |-> TRUE]
  <2>1. ~IsTruncated(f) /\ r \in {[values |-> Append(Values(f), Bogus), end |-> e, error |-> e < Len(f)] :
                                    e \in (n+1)..Len(f)}
    BY <1>5 DEF DumpOutcomes
  <2>2. PICK e \in (n+1)..Len(f) :
          r = [values |-> Append(Values(f), Bogus), end |-> e, error |-> e < Len(f)]
    BY <2>1
  <2>3. e \in 0 .. Len(f) BY <1>1
  <2> QED BY <1>5, <2>1, <2>2, <2>3
<1> QED BY <1>3, <1>4, <1>5

-----------------------------------------------------------------------------
(* The inductive invariant. *)

TypeOK ==
  /\ disk \in {"absent", "short", "store"}
  /\ file \in Seq(Cell)
  /\ open \in BOOLEAN
  /\ pos \in Nat
  /\ dump # None => dump \in Value
  /\ done \in Seq(Changeset)
  /\ failed \in BOOLEAN

(* The offset of an open Store is in its file, and only a file with its magic *)
(* bytes holds anything.                                                      *)
Placed ==
  /\ open => pos \in 0 .. Len(file) /\ disk = "store"
  /\ disk # "store" => file = << >>
  /\ disk = "absent" => dump = None

(* An error that is not handled yet holds what the file gives, and after a    *)
(* failed append perhaps a bogus changeset besides.                           *)
DumpHolds ==
  dump # None =>
    /\ ~open
    /\ dump = Values(file) \/ (failed /\ dump = Append(Values(file), Bogus))

(* Without failed appends an open Store is at the end of a readable file, and *)
(* a file of no Store ends in whole records or in the beginning of one.       *)
Sound(f, o, p) ==
  /\ o => p = Len(f) /\ DecodableEnd(f) = Len(f)
  /\ DecodableEnd(f) < Len(f) => IsTruncated(f)

IInv ==
  /\ TypeOK /\ Placed /\ DumpHolds
  /\ ~failed => Values(file) = done /\ Sound(file, open, pos)

LEMMA EmptyFile ==
  << >> \in Seq(Cell) /\ DecodableEnd(<< >>) = 0 /\ Values(<< >>) = << >> /\ Len(<< >>) = 0
<1> DEFINE f == << >>
<1>1. f \in Seq(Cell) /\ Len(f) = 0 OBVIOUS
<1> HIDE DEF f
<1>2. DecodableEnd(f) = 0
  <2>1. DecodableEnd(f) \in 0 .. Len(f) BY <1>1, EndOfFile
  <2> QED BY <1>1, <2>1
<1>3. Values(f) = << >>
  <2>1. Values(f) = ValuesUpTo(f, 0) BY <1>1, <1>2, EndOfFile
  <2> QED BY <1>1, <2>1, ReadNothing
<1> QED BY <1>1, <1>2, <1>3 DEF f

LEMMA InitIInv == Init => IInv
<1> SUFFICES ASSUME Init PROVE IInv OBVIOUS
<1> USE DEF Init
<1>1. << >> \in Seq(Changeset) OBVIOUS
<1>2. TypeOK BY <1>1, EmptyFile DEF TypeOK
<1>3. Placed /\ DumpHolds BY DEF Placed, DumpHolds
<1>4. Values(file) = done /\ Sound(file, open, pos) BY EmptyFile DEF Sound
<1> QED BY <1>2, <1>3, <1>4 DEF IInv

LEMMA NextIInv == IInv /\ [Next]_vars => IInv'
<1> SUFFICES ASSUME IInv, [Next]_vars PROVE IInv' OBVIOUS
<1>1. TypeOK /\ Placed /\ DumpHolds /\ (~failed => Values(file) = done /\ Sound(file, open, pos))
  BY DEF IInv
<1>0. /\ file \in Seq(Cell) /\ Len(file) \in Nat /\ Len(file) \in 0 .. Len(file)
      /\ Values(file) \in Value
  BY <1>1, EndOfFile DEF TypeOK
<1>2. CASE Create
  <2>1. file' = file BY <1>1, <1>2 DEF Create, Placed
  <2>2. TypeOK' BY <1>1, <1>2, <2>1 DEF Create, TypeOK
  <2>3. Placed' /\ DumpHolds' BY <1>1, <1>2, <2>1 DEF Create, Placed, DumpHolds
  <2>4. Values(file') = Values(file) /\ Sound(file', open', pos')
    <3>1. open' = TRUE /\ pos' = 0 /\ file' = << >> BY <1>2 DEF Create
    <3>2. Len(file') = 0 /\ DecodableEnd(file') = 0 BY <3>1, EmptyFile
    <3> QED BY <2>1, <3>1, <3>2 DEF Sound
  <2> QED BY <1>1, <1>2, <2>1, <2>2, <2>3, <2>4 DEF Create, IInv
<1>3. CASE CrashInCreate
  BY <1>1, <1>3 DEF CrashInCreate, IInv, TypeOK, Placed, DumpHolds
<1>4. ASSUME NEW c \in Changeset, AppendOk(c) PROVE IInv'
  <2> DEFINE cells == Record(<<c>>)
  <2>1. <<c>> \in Value BY DEF Value
  <2>2. Size(<<c>>) = Cells[c] /\ Cells[c] \in Nat BY SizeFacts
  <2>3. /\ cells \in Seq(Cell) /\ Len(cells) = Cells[c]
        /\ \A i \in 1 .. Cells[c] : cells[i] = [value |-> <<c>>, at |-> i]
    BY <2>1, <2>2, RecordFacts
  <2>4. pos \in 0 .. Len(file) /\ disk = "store" /\ dump = None
    BY <1>1, <1>4 DEF AppendOk, Placed, DumpHolds
  <2>5. file' = Write(file, pos, cells) BY <1>4 DEF AppendOk
  <2> HIDE DEF cells
  <2>6. file' \in Seq(Cell) /\ pos + Cells[c] <= Len(file') BY <1>0, <2>3, <2>4, <2>5, WriteFacts
  <2>7. pos' \in Nat /\ pos' \in 0 .. Len(file') BY <1>0, <1>4, <2>2, <2>4, <2>6 DEF AppendOk
  <2>8. done' \in Seq(Changeset) /\ done' = Append(done, c) BY <1>1, <1>4 DEF AppendOk, TypeOK
  <2>9. TypeOK' /\ Placed' /\ DumpHolds'
    BY <1>1, <1>4, <2>4, <2>6, <2>7, <2>8 DEF AppendOk, TypeOK, Placed, DumpHolds
  <2>10. ASSUME ~failed' PROVE Values(file') = done' /\ Sound(file', open', pos')
    <3>1. Values(file) = done /\ pos = Len(file) /\ DecodableEnd(file) = Len(file)
      BY <1>1, <1>4, <2>10 DEF AppendOk, Sound
    <3>2. /\ Len(file') = Len(file) + Cells[c]
          /\ DecodableEnd(file') = Len(file')
          /\ Values(file') = Append(Values(file), c)
      BY <1>0, <2>3, <2>5, <3>1, AppendWhole
    <3>3. pos' = Len(file') BY <1>4, <3>1, <3>2 DEF AppendOk
    <3>4. Sound(file', open', pos') BY <2>6, <3>2, <3>3 DEF Sound
    <3> QED BY <2>8, <3>1, <3>2, <3>4
  <2> QED BY <2>9, <2>10 DEF IInv
<1>5. ASSUME NEW c \in Changeset, NEW k \in 0 .. Cells[c], AppendFails(c, k) PROVE IInv'
  <2> DEFINE cells == SubSeq(Record(<<c>>), 1, k)
  <2>1. k \in Nat BY SizeFacts
  <2>2. cells \in Seq(Cell) /\ Len(cells) = k BY BeginningFacts
  <2>4. pos \in 0 .. Len(file) /\ disk = "store" /\ dump = None
    BY <1>1, <1>5 DEF AppendFails, Placed, DumpHolds
  <2>5. file' = Write(file, pos, cells) BY <1>5 DEF AppendFails
  <2> HIDE DEF cells
  <2>6. file' \in Seq(Cell) /\ pos + k <= Len(file') BY <1>0, <2>2, <2>4, <2>5, WriteFacts
  <2>7. pos' \in Nat /\ pos' \in 0 .. Len(file') BY <1>0, <1>5, <2>1, <2>4, <2>6 DEF AppendFails
  <2>8. failed' = TRUE BY <1>5 DEF AppendFails
  <2>9. TypeOK' /\ Placed' /\ DumpHolds'
    BY <1>1, <1>5, <2>4, <2>6, <2>7 DEF AppendFails, TypeOK, Placed, DumpHolds
  <2> QED BY <2>8, <2>9 DEF IInv
<1>6. ASSUME NEW c \in Changeset, NEW k \in 0 .. Cells[c], CrashInAppend(c, k) PROVE IInv'
  <2> DEFINE cells == SubSeq(Record(<<c>>), 1, k)
  <2>0. Cells[c] \in Nat BY SizeFacts
  <2>1. k \in Nat /\ Cells[c] \in Nat BY <2>0
  <2>2. /\ cells \in Seq(Cell) /\ Len(cells) = k
        /\ \A i \in 1 .. k : cells[i] = [value |-> <<c>>, at |-> i]
    BY BeginningFacts
  <2>4. pos \in 0 .. Len(file) /\ disk = "store" /\ dump = None
    BY <1>1, <1>6 DEF CrashInAppend, Placed, DumpHolds
  <2>5. file' = Write(file, pos, cells) BY <1>6 DEF CrashInAppend
  <2> HIDE DEF cells
  <2>6. file' \in Seq(Cell) BY <1>0, <2>2, <2>4, <2>5, WriteFacts
  <2>7. done' \in Seq(Changeset) BY <1>1, <1>6 DEF CrashInAppend, TypeOK
  <2>8. TypeOK' /\ Placed' /\ DumpHolds'
    BY <1>1, <1>6, <2>4, <2>6, <2>7 DEF CrashInAppend, TypeOK, Placed, DumpHolds
  <2>9. ASSUME ~failed' PROVE Values(file') = done' /\ Sound(file', open', pos')
    <3>1. Values(file) = done /\ pos = Len(file) /\ DecodableEnd(file) = Len(file)
      BY <1>1, <1>6, <2>9 DEF CrashInAppend, Sound
    <3>2. open' = FALSE BY <1>6 DEF CrashInAppend
    <3>3. CASE k = Cells[c]
      <4>1. DecodableEnd(file') = Len(file') /\ Values(file') = Append(Values(file), c)
        BY <1>0, <2>2, <2>5, <3>1, <3>3, AppendWhole
      <4>2. done' = Append(done, c) BY <1>6, <3>3 DEF CrashInAppend
      <4>3. Sound(file', open', pos') BY <2>6, <3>2, <4>1 DEF Sound
      <4> QED BY <3>1, <4>1, <4>2, <4>3
    <3>4. CASE k # Cells[c]
      <4>1. k < Cells[c] BY <2>1, <3>4
      <4>2. Values(file') = Values(file) /\ (DecodableEnd(file') < Len(file') => IsTruncated(file'))
        BY <1>0, <2>1, <2>2, <2>5, <3>1, <4>1, AppendTorn
      <4>3. done' = done BY <1>6, <3>4 DEF CrashInAppend
      <4>4. Sound(file', open', pos') BY <3>2, <4>2 DEF Sound
      <4> QED BY <3>1, <4>2, <4>3, <4>4
    <3> QED BY <3>3, <3>4
  <2> QED BY <2>8, <2>9 DEF IInv
<1>7. CASE Close
  BY <1>1, <1>7 DEF Close, IInv, TypeOK, Placed, DumpHolds, Sound
<1>8. ASSUME NEW r \in DumpOutcomes(file), Dump(r) PROVE IInv'
  <2>1. r.end \in 0 .. Len(file) /\ (DecodableEnd(file) = Len(file) => r.end = Len(file))
    BY <1>0, DumpFacts
  <2>2. pos' \in Nat /\ pos' = r.end /\ UNCHANGED <<disk, file, open, dump, done, failed, writes>>
    BY <1>0, <1>8, <2>1 DEF Dump
  <2>3. TypeOK' /\ Placed' /\ DumpHolds'
    BY <1>1, <1>8, <2>1, <2>2 DEF Dump, TypeOK, Placed, DumpHolds
  <2>4. ~failed => Sound(file', open', pos')
    BY <1>1, <1>8, <2>1, <2>2 DEF Dump, Sound
  <2> QED BY <1>1, <2>2, <2>3, <2>4 DEF IInv
<1>9. ASSUME NEW r \in DumpOutcomes(file), Load(r) PROVE IInv'
  <2>1. /\ r.end \in 0 .. Len(file)
        /\ r.error \in BOOLEAN
        /\ r.values = Values(file) \/ r.values = Append(Values(file), Bogus)
        /\ DecodableEnd(file) = Len(file) => r.values = Values(file) /\ r.end = Len(file) /\ ~r.error
        /\ IsTruncated(file) => r.values = Values(file) /\ r.error
    BY <1>0, DumpFacts
  <2>2. r.values \in Value
    <3>1. Append(Values(file), Bogus) \in Value BY <1>0 DEF Value
    <3> QED BY <1>0, <2>1, <3>1
  <2>3. /\ pos' \in Nat /\ pos' = r.end /\ open' = ~r.error /\ disk = "store"
        /\ dump' = (IF r.error THEN r.values ELSE None)
        /\ UNCHANGED <<disk, file, done, failed, writes>>
    BY <1>0, <1>9, <2>1 DEF Load
  <2>4. TypeOK' BY <1>1, <2>1, <2>2, <2>3 DEF TypeOK
  <2>5. Placed' BY <1>1, <2>1, <2>3 DEF Placed
  <2>6. DecodableEnd(file) \in 0 .. Len(file) BY <1>0, EndOfFile
  <2>7. ~failed => DecodableEnd(file) = Len(file) \/ IsTruncated(file)
    BY <1>0, <1>1, <2>6 DEF Sound
  <2>8. DumpHolds' BY <1>1, <2>1, <2>3, <2>7 DEF DumpHolds, TypeOK
  <2>9. ~failed => Sound(file', open', pos') BY <1>1, <2>1, <2>3, <2>7 DEF Sound
  <2> QED BY <1>1, <2>3, <2>4, <2>5, <2>8, <2>9 DEF IInv
<1>10. CASE LoadShort
  <2>1. file = << >> /\ Values(file) = << >> BY <1>1, <1>10, EmptyFile DEF LoadShort, Placed
  <2>2. << >> \in Value BY DEF Value
  <2>3. TypeOK' BY <1>1, <1>10, <2>2 DEF LoadShort, TypeOK
  <2>4. Placed' /\ DumpHolds' BY <1>1, <1>10, <2>1 DEF LoadShort, Placed, DumpHolds
  <2> QED BY <1>1, <1>10, <2>3, <2>4 DEF LoadShort, IInv
<1>11. CASE Recover
  <2>1. dump # None /\ dump \in Value /\ ~open BY <1>1, <1>11 DEF Recover, TypeOK
  <2>2. /\ file' = Record(dump) /\ file' \in Seq(Cell) /\ Len(file') = Size(dump)
        /\ Size(dump) \in Nat
    BY <1>11, <2>1, RecordFacts, SizeFacts DEF Recover
  <2>3. DecodableEnd(file') = Len(file') /\ Values(file') = dump
    BY <2>1, <2>2, ReadRecovered
  <2>4. /\ pos' = Size(dump) /\ open' = TRUE /\ disk' = "store" /\ dump' = None
        /\ UNCHANGED <<done, failed, writes>>
    BY <1>11 DEF Recover
  <2>5. TypeOK' BY <1>1, <2>2, <2>4 DEF TypeOK
  <2>6. Placed' /\ DumpHolds' BY <2>2, <2>4 DEF Placed, DumpHolds
  <2>7. ~failed => Values(file') = done BY <1>1, <2>1, <2>3 DEF DumpHolds
  <2>8. Sound(file', open', pos') BY <2>2, <2>3, <2>4 DEF Sound
  <2> QED BY <2>4, <2>5, <2>6, <2>7, <2>8 DEF IInv
<1>12. CASE UNCHANGED vars
  BY <1>1, <1>12 DEF vars, IInv, TypeOK, Placed, DumpHolds
<1> QED BY <1>2, <1>3, <1>4, <1>5, <1>6, <1>7, <1>8, <1>9, <1>10, <1>11, <1>12 DEF Next

(* Whatever crashes in the middle of an append and however often the file is  *)
(* recovered: as long as no append reported an error, the file gives exactly  *)
(* the changesets that were written.                                          *)
THEOREM AlwaysNothingLostByCrashes == Spec => []NothingLostByCrashes
<1>1. IInv => NothingLostByCrashes BY DEF IInv, NothingLostByCrashes
<1> QED BY <1>1, InitIInv, NextIInv, PTL DEF Spec

(* No step makes unreadable what lies before the offset of the open Store, or *)
(* anything that is readable while no Store is open.                          *)
THEOREM AlwaysReadableStaysReadable == Spec => ReadableStaysReadable
<1> DEFINE Kept == ValuesUpTo(file, EndBefore(file, IF open THEN pos ELSE Len(file)))
<1>1. ASSUME IInv, [Next]_vars PROVE IsPrefix(Kept, Values(file'))
  <2> DEFINE p == IF open THEN pos ELSE Len(file)
  <2>1. TypeOK /\ Placed /\ DumpHolds BY <1>1 DEF IInv
  <2>2. file \in Seq(Cell) /\ Len(file) \in Nat BY <2>1 DEF TypeOK
  <2>3. p \in 0 .. Len(file) BY <2>1, <2>2 DEF TypeOK, Placed
  <2>4. Kept = ValuesUpTo(file, EndBefore(file, p)) OBVIOUS
  <2> HIDE DEF Kept
  <2>5. CASE file' = file
    <3> HIDE DEF p
    <3>1. p <= Len(file) BY <2>2, <2>3
    <3>2. IsPrefix(Kept, Values(file)) BY <2>2, <2>3, <2>4, <3>1, KeptBefore
    <3> QED BY <2>5, <3>2
  <2>6. ASSUME open, NEW cells \in Seq(Cell), file' = Write(file, pos, cells)
        PROVE  IsPrefix(Kept, Values(file'))
    <3>1. p = pos BY <2>6
    <3> HIDE DEF p
    <3>2. /\ file' \in Seq(Cell) /\ pos + Len(cells) <= Len(file')
          /\ \A i \in 1 .. pos : file[i] = file'[i]
      BY <2>2, <2>3, <2>6, <3>1, WriteFacts
    <3>3. p <= Len(file') BY <2>3, <3>1, <3>2
    <3> QED BY <2>2, <2>3, <2>4, <3>1, <3>2, <3>3, KeptBefore
  <2>7. CASE Recover
    <3>1. dump # None /\ dump \in Value /\ ~open /\ file' = Record(dump)
      BY <2>1, <2>7 DEF Recover, TypeOK
    <3>2. Values(file') = dump BY <3>1, ReadRecovered
    <3>3. Kept = Values(file) BY <2>4, <3>1 DEF Values, DecodableEnd
    <3>4. Values(file) \in Value BY <2>2, EndOfFile
    <3>5. dump = Values(file) \/ dump = Append(Values(file), Bogus) BY <2>1, <3>1 DEF DumpHolds
    <3> DEFINE v == Values(file)
    <3> HIDE DEF v
    <3>6. v \in Seq(Changeset \cup {Bogus}) BY <3>4 DEF v, Value
    <3>7. IsPrefix(v, v) BY <3>6 DEF IsPrefix
    <3>8. IsPrefix(v, Append(v, Bogus)) BY <3>6 DEF IsPrefix
    <3> QED BY <3>2, <3>3, <3>5, <3>7, <3>8 DEF v
  <2>8. ASSUME NEW c \in Changeset, AppendOk(c) PROVE IsPrefix(Kept, Values(file'))
    <3>1. <<c>> \in Value BY DEF Value
    <3>2. Record(<<c>>) \in Seq(Cell) BY <3>1, RecordFacts
    <3> QED BY <2>6, <2>8, <3>2 DEF AppendOk
  <2>9. ASSUME NEW c \in Changeset, NEW k \in 0 .. Cells[c], AppendFails(c, k) \/ CrashInAppend(c, k)
        PROVE  IsPrefix(Kept, Values(file'))
    <3>1. SubSeq(Record(<<c>>), 1, k) \in Seq(Cell) BY BeginningFacts
    <3> QED BY <2>6, <2>9, <3>1 DEF AppendFails, CrashInAppend
  <2>10. CASE Create BY <2>1, <2>5, <2>10 DEF Create, Placed
  <2>11. CASE UNCHANGED vars BY <2>5, <2>11 DEF vars
  <2>12. CASE CrashInCreate \/ Close \/ LoadShort BY <2>5, <2>12 DEF CrashInCreate, Close, LoadShort
  <2>13. ASSUME NEW r, Dump(r) \/ Load(r) PROVE IsPrefix(Kept, Values(file'))
    BY <2>5, <2>13 DEF Dump, Load
  <2> QED BY <1>1, <2>7, <2>8, <2>9, <2>10, <2>11, <2>12, <2>13 DEF Next
<1>2. IInv /\ [Next]_vars => [IsPrefix(Kept, Values(file'))]_vars BY <1>1
<1> QED BY <1>2, InitIInv, NextIInv, PTL DEF Spec, ReadableStaysReadable
=============================================================================
