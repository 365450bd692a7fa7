---------------------------- MODULE WalletProofs ----------------------------
(***************************************************************************)
(* The wallet for any transactions, batches, updates and keychains.  Each  *)
(* operation of the index keeps the index in order and reports what it     *)
(* reveals, each operation of the graph reports what it learns; so the     *)
(* stage and the stores always add up to what is in memory.                *)
(***************************************************************************)
EXTENDS Wallet, NatFacts

-----------------------------------------------------------------------------
(* The loops, iteration by iteration: what they start from, that they stay   *)
(* in a set which every iteration keeps to, and where they end.              *)

(* index_tx: output by output. *)
LEMMA IndexOutputsLoop ==
  ASSUME NEW ix, NEW X, NEW s \in Seq(X), NEW S, Start(ix) \in S,
         \A r \in S, x \in X : IndexOutput(r, x[1], x[2]) \in S
  PROVE  \E e \in S : IndexOutputs(ix, s) = EmptyStage(e)
<1> DEFINE n == Len(s)
           F == [i \in 1 .. n |-> [r \in S |-> IndexOutput(r, s[i][1], s[i][2])]]
           Step(q) == [i \in 0 .. n |-> IF i = 0 THEN Start(ix) ELSE IndexOutput(q[i - 1], s[i][1], s[i][2])]
           c == CHOOSE q : q = Step(q)
<1>1. n \in Nat /\ \A i \in 1 .. n : s[i] \in X OBVIOUS
<1>2. F \in Steps(n, S) /\ \A i \in 1 .. n : \A r \in S : F[i][r] = IndexOutput(r, s[i][1], s[i][2]) BY <1>1, Zenon DEF Steps
<1>3. IndexOutputs(ix, s) = EmptyStage(c[n]) BY Zenon DEF IndexOutputs, Fold
<1>4. \A i \in 1 .. n : i \in 0 .. n /\ i # 0 BY <1>1
<1>5. 0 \in 0 .. n BY <1>1
<1>6. \A q : /\ Step(q) = [i \in 0 .. n |-> Step(q)[i]]
              /\ Step(q)[0] = Start(ix)
              /\ \A i \in 1 .. n : Step(q)[i] = IndexOutput(q[i - 1], s[i][1], s[i][2])
  BY <1>4, <1>5, Zenon
<1> HIDE DEF F, Step, c, n
<1>7. PICK r : Iterates(r, n, S, Start(ix), F)
  <2>1. Start(ix) \in S OBVIOUS
  <2> QED BY <1>1, <1>2, <2>1, RecursionUpTo
<1>8. \A i \in 0 .. n : r[i] \in S BY <1>7 DEF Iterates
<1>9. \A i \in 1 .. n : i - 1 \in 0 .. n BY <1>1
<1>10. \A i \in 1 .. n : r[i] = IndexOutput(r[i - 1], s[i][1], s[i][2]) BY <1>2, <1>7, <1>8, <1>9, Zenon DEF Iterates
<1>11. \A i \in 0 .. n : i = 0 \/ i \in 1 .. n BY <1>1
<1>12. \A i \in 0 .. n : r[i] = Step(r)[i] BY <1>6, <1>7, <1>10, <1>11, Zenon DEF Iterates
<1>13. r = [i \in 0 .. n |-> r[i]] BY <1>7, Zenon DEF Iterates
<1>14. r = Step(r) BY <1>6, <1>12, <1>13, Zenon
<1>15. c = Step(c) BY <1>14, Zenon DEF c
<1>16. c[0] = Start(ix) /\ \A i \in 1 .. n : c[i] = IndexOutput(c[i - 1], s[i][1], s[i][2]) BY <1>6, <1>15, Zenon
<1> DEFINE T == {i \in 0 .. n : c[i] \in S}
<1>17. 0 \in T BY <1>5, <1>16
<1>18. ASSUME NEW i \in 1 .. n, i - 1 \in T PROVE i \in T BY <1>1, <1>4, <1>16, <1>18, Zenon
<1> HIDE DEF T
<1>19. \A i \in 0 .. n : i \in T BY <1>1, <1>17, <1>18, InductionUpTo
<1>20. \A i \in 0 .. n : c[i] \in S BY <1>19 DEF T
<1>21. n \in 0 .. n BY <1>1
<1> QED BY <1>3, <1>20, <1>21, Zenon

(* index_tx_graph_changeset and reindex: one list of outputs after the other. *)
LEMMA IndexAllLoop ==
  ASSUME NEW ix, NEW X, NEW s \in Seq(X), NEW S, Start(ix) \in S,
         \A r \in S, x \in X : Then(r, IndexOutputs(r.ix, x)) \in S
  PROVE  \E e \in S : IndexAll(ix, s) = e
<1> DEFINE n == Len(s)
           F == [i \in 1 .. n |-> [r \in S |-> Then(r, IndexOutputs(r.ix, s[i]))]]
           Step(q) == [i \in 0 .. n |-> IF i = 0 THEN Start(ix) ELSE Then(q[i - 1], IndexOutputs(q[i - 1].ix, s[i]))]
           c == CHOOSE q : q = Step(q)
<1>1. n \in Nat /\ \A i \in 1 .. n : s[i] \in X OBVIOUS
<1>2. F \in Steps(n, S) /\ \A i \in 1 .. n : \A r \in S : F[i][r] = Then(r, IndexOutputs(r.ix, s[i])) BY <1>1, Zenon DEF Steps
<1>3. IndexAll(ix, s) = c[n] BY Zenon DEF IndexAll, Fold
<1>4. \A i \in 1 .. n : i \in 0 .. n /\ i # 0 BY <1>1
<1>5. 0 \in 0 .. n BY <1>1
<1>6. \A q : /\ Step(q) = [i \in 0 .. n |-> Step(q)[i]]
              /\ Step(q)[0] = Start(ix)
              /\ \A i \in 1 .. n : Step(q)[i] = Then(q[i - 1], IndexOutputs(q[i - 1].ix, s[i]))
  BY <1>4, <1>5, Zenon
<1> HIDE DEF F, Step, c, n
<1>7. PICK r : Iterates(r, n, S, Start(ix), F)
  <2>1. Start(ix) \in S OBVIOUS
  <2> QED BY <1>1, <1>2, <2>1, RecursionUpTo
<1>8. \A i \in 0 .. n : r[i] \in S BY <1>7 DEF Iterates
<1>9. \A i \in 1 .. n : i - 1 \in 0 .. n BY <1>1
<1>10. \A i \in 1 .. n : r[i] = Then(r[i - 1], IndexOutputs(r[i - 1].ix, s[i])) BY <1>2, <1>7, <1>8, <1>9, Zenon DEF Iterates
<1>11. \A i \in 0 .. n : i = 0 \/ i \in 1 .. n BY <1>1
<1>12. \A i \in 0 .. n : r[i] = Step(r)[i] BY <1>6, <1>7, <1>10, <1>11, Zenon DEF Iterates
<1>13. r = [i \in 0 .. n |-> r[i]] BY <1>7, Zenon DEF Iterates
<1>14. r = Step(r) BY <1>6, <1>12, <1>13, Zenon
<1>15. c = Step(c) BY <1>14, Zenon DEF c
<1>16. c[0] = Start(ix) /\ \A i \in 1 .. n : c[i] = Then(c[i - 1], IndexOutputs(c[i - 1].ix, s[i])) BY <1>6, <1>15, Zenon
<1> DEFINE T == {i \in 0 .. n : c[i] \in S}
<1>17. 0 \in T BY <1>5, <1>16
<1>18. ASSUME NEW i \in 1 .. n, i - 1 \in T PROVE i \in T BY <1>1, <1>4, <1>16, <1>18, Zenon
<1> HIDE DEF T
<1>19. \A i \in 0 .. n : i \in T BY <1>1, <1>17, <1>18, InductionUpTo
<1>20. \A i \in 0 .. n : c[i] \in S BY <1>19 DEF T
<1>21. n \in 0 .. n BY <1>1
<1> QED BY <1>3, <1>20, <1>21, Zenon

(* _reveal_to_target: one script after the other. *)
LEMMA RevealLoop ==
  ASSUME NEW ix, NEW k, NEW target, NEW X, Rounds(target) \in Seq(X), NEW S, Start(ix) \in S,
         \A r \in S, x \in X : RevealUpTo(r, k, x) \in S
  PROVE  \E e \in S : RevealToTarget(ix, k, target) = EmptyStage(e)
<1> DEFINE n == Len(Rounds(target))
           F == [i \in 1 .. n |-> [r \in S |-> RevealUpTo(r, k, Rounds(target)[i])]]
           Step(q) == [i \in 0 .. n |-> IF i = 0 THEN Start(ix) ELSE RevealUpTo(q[i - 1], k, Rounds(target)[i])]
           c == CHOOSE q : q = Step(q)
<1>1. n \in Nat /\ \A i \in 1 .. n : Rounds(target)[i] \in X OBVIOUS
<1>2. F \in Steps(n, S) /\ \A i \in 1 .. n : \A r \in S : F[i][r] = RevealUpTo(r, k, Rounds(target)[i]) BY <1>1, Zenon DEF Steps
<1>3. RevealToTarget(ix, k, target) = EmptyStage(c[n]) BY Zenon DEF RevealToTarget, Fold
<1>4. \A i \in 1 .. n : i \in 0 .. n /\ i # 0 BY <1>1
<1>5. 0 \in 0 .. n BY <1>1
<1>6. \A q : /\ Step(q) = [i \in 0 .. n |-> Step(q)[i]]
              /\ Step(q)[0] = Start(ix)
              /\ \A i \in 1 .. n : Step(q)[i] = RevealUpTo(q[i - 1], k, Rounds(target)[i])
  BY <1>4, <1>5, Zenon
<1> HIDE DEF F, Step, c, n
<1>7. PICK r : Iterates(r, n, S, Start(ix), F)
  <2>1. Start(ix) \in S OBVIOUS
  <2> QED BY <1>1, <1>2, <2>1, RecursionUpTo
<1>8. \A i \in 0 .. n : r[i] \in S BY <1>7 DEF Iterates
<1>9. \A i \in 1 .. n : i - 1 \in 0 .. n BY <1>1
<1>10. \A i \in 1 .. n : r[i] = RevealUpTo(r[i - 1], k, Rounds(target)[i]) BY <1>2, <1>7, <1>8, <1>9, Zenon DEF Iterates
<1>11. \A i \in 0 .. n : i = 0 \/ i \in 1 .. n BY <1>1
<1>12. \A i \in 0 .. n : r[i] = Step(r)[i] BY <1>6, <1>7, <1>10, <1>11, Zenon DEF Iterates
<1>13. r = [i \in 0 .. n |-> r[i]] BY <1>7, Zenon DEF Iterates
<1>14. r = Step(r) BY <1>6, <1>12, <1>13, Zenon
<1>15. c = Step(c) BY <1>14, Zenon DEF c
<1>16. c[0] = Start(ix) /\ \A i \in 1 .. n : c[i] = RevealUpTo(c[i - 1], k, Rounds(target)[i]) BY <1>6, <1>15, Zenon
<1> DEFINE T == {i \in 0 .. n : c[i] \in S}
<1>17. 0 \in T BY <1>5, <1>16
<1>18. ASSUME NEW i \in 1 .. n, i - 1 \in T PROVE i \in T BY <1>1, <1>4, <1>16, <1>18, Zenon
<1> HIDE DEF T
<1>19. \A i \in 0 .. n : i \in T BY <1>1, <1>17, <1>18, InductionUpTo
<1>20. \A i \in 0 .. n : c[i] \in S BY <1>19 DEF T
<1>21. n \in 0 .. n BY <1>1
<1> QED BY <1>3, <1>20, <1>21, Zenon

(* KeychainTxOutIndex::apply_changeset: keychain by keychain. *)
LEMMA ApplyIndexLoop ==
  ASSUME NEW ix, NEW cs, NEW X, Listing(Keychain) \in Seq(X), NEW S, Raised(ix, cs) \in S,
         \A r \in S, x \in X : ReplenishNamed(r, x, cs) \in S
  PROVE  \E e \in S : ApplyIndexChangeset(ix, cs) = e
<1> DEFINE n == Len(Listing(Keychain))
           F == [i \in 1 .. n |-> [r \in S |-> ReplenishNamed(r, Listing(Keychain)[i], cs)]]
           Step(q) == [i \in 0 .. n |-> IF i = 0 THEN Raised(ix, cs) ELSE ReplenishNamed(q[i - 1], Listing(Keychain)[i], cs)]
           c == CHOOSE q : q = Step(q)
<1>1. n \in Nat /\ \A i \in 1 .. n : Listing(Keychain)[i] \in X OBVIOUS
<1>2. F \in Steps(n, S) /\ \A i \in 1 .. n : \A r \in S : F[i][r] = ReplenishNamed(r, Listing(Keychain)[i], cs) BY <1>1, Zenon DEF Steps
<1>3. ApplyIndexChangeset(ix, cs) = c[n] BY Zenon DEF ApplyIndexChangeset, Fold
<1>4. \A i \in 1 .. n : i \in 0 .. n /\ i # 0 BY <1>1
<1>5. 0 \in 0 .. n BY <1>1
<1>6. \A q : /\ Step(q) = [i \in 0 .. n |-> Step(q)[i]]
              /\ Step(q)[0] = Raised(ix, cs)
              /\ \A i \in 1 .. n : Step(q)[i] = ReplenishNamed(q[i - 1], Listing(Keychain)[i], cs)
  BY <1>4, <1>5, Zenon
<1> HIDE DEF F, Step, c, n
<1>7. PICK r : Iterates(r, n, S, Raised(ix, cs), F)
  <2>1. Raised(ix, cs) \in S OBVIOUS
  <2> QED BY <1>1, <1>2, <2>1, RecursionUpTo
<1>8. \A i \in 0 .. n : r[i] \in S BY <1>7 DEF Iterates
<1>9. \A i \in 1 .. n : i - 1 \in 0 .. n BY <1>1
<1>10. \A i \in 1 .. n : r[i] = ReplenishNamed(r[i - 1], Listing(Keychain)[i], cs) BY <1>2, <1>7, <1>8, <1>9, Zenon DEF Iterates
<1>11. \A i \in 0 .. n : i = 0 \/ i \in 1 .. n BY <1>1
<1>12. \A i \in 0 .. n : r[i] = Step(r)[i] BY <1>6, <1>7, <1>10, <1>11, Zenon DEF Iterates
<1>13. r = [i \in 0 .. n |-> r[i]] BY <1>7, Zenon DEF Iterates
<1>14. r = Step(r) BY <1>6, <1>12, <1>13, Zenon
<1>15. c = Step(c) BY <1>14, Zenon DEF c
<1>16. c[0] = Raised(ix, cs) /\ \A i \in 1 .. n : c[i] = ReplenishNamed(c[i - 1], Listing(Keychain)[i], cs) BY <1>6, <1>15, Zenon
<1> DEFINE T == {i \in 0 .. n : c[i] \in S}
<1>17. 0 \in T BY <1>5, <1>16
<1>18. ASSUME NEW i \in 1 .. n, i - 1 \in T PROVE i \in T BY <1>1, <1>4, <1>16, <1>18, Zenon
<1> HIDE DEF T
<1>19. \A i \in 0 .. n : i \in T BY <1>1, <1>17, <1>18, InductionUpTo
<1>20. \A i \in 0 .. n : c[i] \in S BY <1>19 DEF T
<1>21. n \in 0 .. n BY <1>1
<1> QED BY <1>3, <1>20, <1>21, Zenon

(* Loading: one descriptor after the other. *)
LEMMA DescriptorLoop ==
  ASSUME NEW ix, NEW X, Listing(Keychain) \in Seq(X), NEW S, ix \in S,
         \A r \in S, x \in X : InsertDescriptor(r, x, DescriptorOf[x]) \in S
  PROVE  \E c :
           /\ c[0] = ix /\ WithDescriptors(ix) = c[Len(Listing(Keychain))]
           /\ \A i \in 0 .. Len(Listing(Keychain)) : c[i] \in S
           /\ \A i \in 1 .. Len(Listing(Keychain)) : Listing(Keychain)[i] \in X /\ c[i] = InsertDescriptor(c[i - 1], Listing(Keychain)[i], DescriptorOf[Listing(Keychain)[i]])
<1> DEFINE n == Len(Listing(Keychain))
           F == [i \in 1 .. n |-> [r \in S |-> InsertDescriptor(r, Listing(Keychain)[i], DescriptorOf[Listing(Keychain)[i]])]]
           Step(q) == [i \in 0 .. n |-> IF i = 0 THEN ix ELSE InsertDescriptor(q[i - 1], Listing(Keychain)[i], DescriptorOf[Listing(Keychain)[i]])]
           c == CHOOSE q : q = Step(q)
<1>1. n \in Nat /\ \A i \in 1 .. n : Listing(Keychain)[i] \in X OBVIOUS
<1>2. F \in Steps(n, S) /\ \A i \in 1 .. n : \A r \in S : F[i][r] = InsertDescriptor(r, Listing(Keychain)[i], DescriptorOf[Listing(Keychain)[i]]) BY <1>1, Zenon DEF Steps
<1>3. WithDescriptors(ix) = c[n] BY Zenon DEF WithDescriptors, Fold
<1>4. \A i \in 1 .. n : i \in 0 .. n /\ i # 0 BY <1>1
<1>5. 0 \in 0 .. n BY <1>1
<1>6. \A q : /\ Step(q) = [i \in 0 .. n |-> Step(q)[i]]
              /\ Step(q)[0] = ix
              /\ \A i \in 1 .. n : Step(q)[i] = InsertDescriptor(q[i - 1], Listing(Keychain)[i], DescriptorOf[Listing(Keychain)[i]])
  BY <1>4, <1>5, Zenon
<1> HIDE DEF F, Step, c, n
<1>7. PICK r : Iterates(r, n, S, ix, F)
  <2>1. ix \in S OBVIOUS
  <2> QED BY <1>1, <1>2, <2>1, RecursionUpTo
<1>8. \A i \in 0 .. n : r[i] \in S BY <1>7 DEF Iterates
<1>9. \A i \in 1 .. n : i - 1 \in 0 .. n BY <1>1
<1>10. \A i \in 1 .. n : r[i] = InsertDescriptor(r[i - 1], Listing(Keychain)[i], DescriptorOf[Listing(Keychain)[i]]) BY <1>2, <1>7, <1>8, <1>9, Zenon DEF Iterates
<1>11. \A i \in 0 .. n : i = 0 \/ i \in 1 .. n BY <1>1
<1>12. \A i \in 0 .. n : r[i] = Step(r)[i] BY <1>6, <1>7, <1>10, <1>11, Zenon DEF Iterates
<1>13. r = [i \in 0 .. n |-> r[i]] BY <1>7, Zenon DEF Iterates
<1>14. r = Step(r) BY <1>6, <1>12, <1>13, Zenon
<1>15. c = Step(c) BY <1>14, Zenon DEF c
<1>16. c[0] = ix /\ \A i \in 1 .. n : c[i] = InsertDescriptor(c[i - 1], Listing(Keychain)[i], DescriptorOf[Listing(Keychain)[i]]) BY <1>6, <1>15, Zenon
<1> DEFINE T == {i \in 0 .. n : c[i] \in S}
<1>17. 0 \in T BY <1>5, <1>16
<1>18. ASSUME NEW i \in 1 .. n, i - 1 \in T PROVE i \in T BY <1>1, <1>4, <1>16, <1>18, Zenon
<1> HIDE DEF T
<1>19. \A i \in 0 .. n : i \in T BY <1>1, <1>17, <1>18, InductionUpTo
<1>20. \A i \in 0 .. n : c[i] \in S BY <1>19 DEF T
<1> QED BY <1>1, <1>3, <1>16, <1>20, Zenon DEF n

(* The insertions of an update or a batch. *)
LEMMA InsertLoop ==
  ASSUME NEW g, NEW X, NEW s \in Seq(X), NEW S, Untouched(g) \in S,
         \A r \in S, x \in X : Merged(r, Insert(r.g, x[1], x[2])) \in S
  PROVE  \E c :
           /\ c[0] = Untouched(g) /\ InsertAll(g, s) = c[Len(s)]
           /\ \A i \in 0 .. Len(s) : c[i] \in S
           /\ \A i \in 1 .. Len(s) : s[i] \in X /\ c[i] = Merged(c[i - 1], Insert(c[i - 1].g, s[i][1], s[i][2]))
<1> DEFINE n == Len(s)
           F == [i \in 1 .. n |-> [r \in S |-> Merged(r, Insert(r.g, s[i][1], s[i][2]))]]
           Step(q) == [i \in 0 .. n |-> IF i = 0 THEN Untouched(g) ELSE Merged(q[i - 1], Insert(q[i - 1].g, s[i][1], s[i][2]))]
           c == CHOOSE q : q = Step(q)
<1>1. n \in Nat /\ \A i \in 1 .. n : s[i] \in X OBVIOUS
<1>2. F \in Steps(n, S) /\ \A i \in 1 .. n : \A r \in S : F[i][r] = Merged(r, Insert(r.g, s[i][1], s[i][2])) BY <1>1, Zenon DEF Steps
<1>3. InsertAll(g, s) = c[n] BY Zenon DEF InsertAll, Fold
<1>4. \A i \in 1 .. n : i \in 0 .. n /\ i # 0 BY <1>1
<1>5. 0 \in 0 .. n BY <1>1
<1>6. \A q : /\ Step(q) = [i \in 0 .. n |-> Step(q)[i]]
              /\ Step(q)[0] = Untouched(g)
              /\ \A i \in 1 .. n : Step(q)[i] = Merged(q[i - 1], Insert(q[i - 1].g, s[i][1], s[i][2]))
  BY <1>4, <1>5, Zenon
<1> HIDE DEF F, Step, c, n
<1>7. PICK r : Iterates(r, n, S, Untouched(g), F)
  <2>1. Untouched(g) \in S OBVIOUS
  <2> QED BY <1>1, <1>2, <2>1, RecursionUpTo
<1>8. \A i \in 0 .. n : r[i] \in S BY <1>7 DEF Iterates
<1>9. \A i \in 1 .. n : i - 1 \in 0 .. n BY <1>1
<1>10. \A i \in 1 .. n : r[i] = Merged(r[i - 1], Insert(r[i - 1].g, s[i][1], s[i][2])) BY <1>2, <1>7, <1>8, <1>9, Zenon DEF Iterates
<1>11. \A i \in 0 .. n : i = 0 \/ i \in 1 .. n BY <1>1
<1>12. \A i \in 0 .. n : r[i] = Step(r)[i] BY <1>6, <1>7, <1>10, <1>11, Zenon DEF Iterates
<1>13. r = [i \in 0 .. n |-> r[i]] BY <1>7, Zenon DEF Iterates
<1>14. r = Step(r) BY <1>6, <1>12, <1>13, Zenon
<1>15. c = Step(c) BY <1>14, Zenon DEF c
<1>16. c[0] = Untouched(g) /\ \A i \in 1 .. n : c[i] = Merged(c[i - 1], Insert(c[i - 1].g, s[i][1], s[i][2])) BY <1>6, <1>15, Zenon
<1> DEFINE T == {i \in 0 .. n : c[i] \in S}
<1>17. 0 \in T BY <1>5, <1>16
<1>18. ASSUME NEW i \in 1 .. n, i - 1 \in T PROVE i \in T BY <1>1, <1>4, <1>16, <1>18, Zenon
<1> HIDE DEF T
<1>19. \A i \in 0 .. n : i \in T BY <1>1, <1>17, <1>18, InductionUpTo
<1>20. \A i \in 0 .. n : c[i] \in S BY <1>19 DEF T
<1> QED BY <1>1, <1>3, <1>16, <1>20, Zenon DEF n

(* batch_insert_relevant: transaction by transaction. *)
LEMMA RelevantLoop ==
  ASSUME NEW g, NEW ix, NEW block, NEW X, NEW s \in Seq(X), NEW S, Untouched(g) \in S,
         \A r \in S, x \in X : AddRelevant(r, ix, x, block) \in S
  PROVE  \E e \in S : AddAllRelevant(g, ix, s, block) = e
<1> DEFINE n == Len(s)
           F == [i \in 1 .. n |-> [r \in S |-> AddRelevant(r, ix, s[i], block)]]
           Step(q) == [i \in 0 .. n |-> IF i = 0 THEN Untouched(g) ELSE AddRelevant(q[i - 1], ix, s[i], block)]
           c == CHOOSE q : q = Step(q)
<1>1. n \in Nat /\ \A i \in 1 .. n : s[i] \in X OBVIOUS
<1>2. F \in Steps(n, S) /\ \A i \in 1 .. n : \A r \in S : F[i][r] = AddRelevant(r, ix, s[i], block) BY <1>1, Zenon DEF Steps
<1>3. AddAllRelevant(g, ix, s, block) = c[n] BY Zenon DEF AddAllRelevant, Fold
<1>4. \A i \in 1 .. n : i \in 0 .. n /\ i # 0 BY <1>1
<1>5. 0 \in 0 .. n BY <1>1
<1>6. \A q : /\ Step(q) = [i \in 0 .. n |-> Step(q)[i]]
              /\ Step(q)[0] = Untouched(g)
              /\ \A i \in 1 .. n : Step(q)[i] = AddRelevant(q[i - 1], ix, s[i], block)
  BY <1>4, <1>5, Zenon
<1> HIDE DEF F, Step, c, n
<1>7. PICK r : Iterates(r, n, S, Untouched(g), F)
  <2>1. Untouched(g) \in S OBVIOUS
  <2> QED BY <1>1, <1>2, <2>1, RecursionUpTo
<1>8. \A i \in 0 .. n : r[i] \in S BY <1>7 DEF Iterates
<1>9. \A i \in 1 .. n : i - 1 \in 0 .. n BY <1>1
<1>10. \A i \in 1 .. n : r[i] = AddRelevant(r[i - 1], ix, s[i], block) BY <1>2, <1>7, <1>8, <1>9, Zenon DEF Iterates
<1>11. \A i \in 0 .. n : i = 0 \/ i \in 1 .. n BY <1>1
<1>12. \A i \in 0 .. n : r[i] = Step(r)[i] BY <1>6, <1>7, <1>10, <1>11, Zenon DEF Iterates
<1>13. r = [i \in 0 .. n |-> r[i]] BY <1>7, Zenon DEF Iterates
<1>14. r = Step(r) BY <1>6, <1>12, <1>13, Zenon
<1>15. c = Step(c) BY <1>14, Zenon DEF c
<1>16. c[0] = Untouched(g) /\ \A i \in 1 .. n : c[i] = AddRelevant(c[i - 1], ix, s[i], block) BY <1>6, <1>15, Zenon
<1> DEFINE T == {i \in 0 .. n : c[i] \in S}
<1>17. 0 \in T BY <1>5, <1>16
<1>18. ASSUME NEW i \in 1 .. n, i - 1 \in T PROVE i \in T BY <1>1, <1>4, <1>16, <1>18, Zenon
<1> HIDE DEF T
<1>19. \A i \in 0 .. n : i \in T BY <1>1, <1>17, <1>18, InductionUpTo
<1>20. \A i \in 0 .. n : c[i] \in S BY <1>19 DEF T
<1>21. n \in 0 .. n BY <1>1
<1> QED BY <1>3, <1>20, <1>21, Zenon

(* apply_block_relevant: transaction by transaction. *)
LEMMA BlockLoop ==
  ASSUME NEW w, NEW block, NEW X, NEW s \in Seq(X), NEW S, [w |-> w, cs |-> EmptyWalletChangeSet] \in S,
         \A r \in S, x \in X : AndThen(r, ApplyTxRelevant(r.w, x, block)) \in S
  PROVE  \E e \in S : ApplyBlockRelevant(w, s, block) = e
<1> DEFINE n == Len(s)
           F == [i \in 1 .. n |-> [r \in S |-> AndThen(r, ApplyTxRelevant(r.w, s[i], block))]]
           Step(q) == [i \in 0 .. n |-> IF i = 0 THEN [w |-> w, cs |-> EmptyWalletChangeSet] ELSE AndThen(q[i - 1], ApplyTxRelevant(q[i - 1].w, s[i], block))]
           c == CHOOSE q : q = Step(q)
<1>1. n \in Nat /\ \A i \in 1 .. n : s[i] \in X OBVIOUS
<1>2. F \in Steps(n, S) /\ \A i \in 1 .. n : \A r \in S : F[i][r] = AndThen(r, ApplyTxRelevant(r.w, s[i], block)) BY <1>1, Zenon DEF Steps
<1>3. ApplyBlockRelevant(w, s, block) = c[n] BY Zenon DEF ApplyBlockRelevant, Fold
<1>4. \A i \in 1 .. n : i \in 0 .. n /\ i # 0 BY <1>1
<1>5. 0 \in 0 .. n BY <1>1
<1>6. \A q : /\ Step(q) = [i \in 0 .. n |-> Step(q)[i]]
              /\ Step(q)[0] = [w |-> w, cs |-> EmptyWalletChangeSet]
              /\ \A i \in 1 .. n : Step(q)[i] = AndThen(q[i - 1], ApplyTxRelevant(q[i - 1].w, s[i], block))
  BY <1>4, <1>5, Zenon
<1> HIDE DEF F, Step, c, n
<1>7. PICK r : Iterates(r, n, S, [w |-> w, cs |-> EmptyWalletChangeSet], F)
  <2>1. [w |-> w, cs |-> EmptyWalletChangeSet] \in S OBVIOUS
  <2> QED BY <1>1, <1>2, <2>1, RecursionUpTo
<1>8. \A i \in 0 .. n : r[i] \in S BY <1>7 DEF Iterates
<1>9. \A i \in 1 .. n : i - 1 \in 0 .. n BY <1>1
<1>10. \A i \in 1 .. n : r[i] = AndThen(r[i - 1], ApplyTxRelevant(r[i - 1].w, s[i], block)) BY <1>2, <1>7, <1>8, <1>9, Zenon DEF Iterates
<1>11. \A i \in 0 .. n : i = 0 \/ i \in 1 .. n BY <1>1
<1>12. \A i \in 0 .. n : r[i] = Step(r)[i] BY <1>6, <1>7, <1>10, <1>11, Zenon DEF Iterates
<1>13. r = [i \in 0 .. n |-> r[i]] BY <1>7, Zenon DEF Iterates
<1>14. r = Step(r) BY <1>6, <1>12, <1>13, Zenon
<1>15. c = Step(c) BY <1>14, Zenon DEF c
<1>16. c[0] = [w |-> w, cs |-> EmptyWalletChangeSet] /\ \A i \in 1 .. n : c[i] = AndThen(c[i - 1], ApplyTxRelevant(c[i - 1].w, s[i], block)) BY <1>6, <1>15, Zenon
<1> DEFINE T == {i \in 0 .. n : c[i] \in S}
<1>17. 0 \in T BY <1>5, <1>16
<1>18. ASSUME NEW i \in 1 .. n, i - 1 \in T PROVE i \in T BY <1>1, <1>4, <1>16, <1>18, Zenon
<1> HIDE DEF T
<1>19. \A i \in 0 .. n : i \in T BY <1>1, <1>17, <1>18, InductionUpTo
<1>20. \A i \in 0 .. n : c[i] \in S BY <1>19 DEF T
<1>21. n \in 0 .. n BY <1>1
<1> QED BY <1>3, <1>20, <1>21, Zenon

-----------------------------------------------------------------------------
(* Optional numbers. *)

Optional == Nat \cup {None}
AtMost(m, n) == m = None \/ (n # None /\ m <= n)

LEMMA LatestFacts ==
  ASSUME NEW m \in Optional, NEW n \in Optional
  PROVE  /\ Latest(m, n) \in {m, n} /\ Latest(m, n) \in Optional
         /\ AtMost(m, Latest(m, n)) /\ AtMost(n, Latest(m, n))
         /\ Latest(m, None) = m /\ Latest(None, n) = n
         /\ AtMost(m, n) => Latest(m, n) = n
         /\ AtMost(n, m) => Latest(m, n) = m
BY KeychainAssumption DEF Optional, AtMost, Latest

LEMMA LatestAssociative ==
  ASSUME NEW l \in Optional, NEW m \in Optional, NEW n \in Optional
  PROVE  Latest(Latest(l, m), n) = Latest(l, Latest(m, n))
BY KeychainAssumption DEF Optional, Latest

LEMMA AtMostTransitive ==
  ASSUME NEW l \in Optional, NEW m \in Optional, NEW n \in Optional, AtMost(l, m), AtMost(m, n)
  PROVE  AtMost(l, n)
BY KeychainAssumption DEF Optional, AtMost

-----------------------------------------------------------------------------
(* The index. *)

Script == Descriptor \X (0 .. BIP32_MAX_INDEX)
LastRevealed == [Descriptor -> (0 .. BIP32_MAX_INDEX) \cup {None}]
Assignment == [Keychain -> Descriptor \cup {None}]
Payments == [OutPoint -> Position \cup {None}]

Index ==
  [descriptor : Assignment, last_revealed : LastRevealed, spks : SUBSET Position,
   unused : SUBSET Position, txouts : Payments,
   spk_cache : SUBSET Script, spk_cache_stage : SUBSET Script]
IndexChange == [last_revealed : LastRevealed, spk_cache : SUBSET Script]
IndexResult == [ix : Index, cs : IndexChange]

(* No descriptor is given to two keychains. *)
Unique(ix) ==
  \A j, k \in Keychain : ix.descriptor[j] # None /\ ix.descriptor[j] = ix.descriptor[k] => j = k

(* The derived scripts are those of assigned keychains, without gaps. *)
Derived(ix) ==
  \A k \in Keychain, i \in Nat : <<k, i>> \in ix.spks =>
    ix.descriptor[k] # None /\ \A j \in 0 .. i : <<k, j>> \in ix.spks

(* They reach as far as the lookahead says. *)
AheadOf(ix, k) ==
  \A i \in Nat : i < StopIndex(ix, ix.descriptor[k], Lookahead) => <<k, i>> \in ix.spks
Ahead(ix) == \A k \in Keychain : ix.descriptor[k] # None => AheadOf(ix, k)

(* A position that is paid is derived and used, and revealed unless it is    *)
(* the one about to be.                                                      *)
PaidBut(ix, k, i) ==
  \A op \in OutPoint : ix.txouts[op] # None =>
    /\ ix.txouts[op] \in ix.spks /\ ix.txouts[op] \notin ix.unused
    /\ \/ ix.txouts[op][2] < NextReveal(ix, ix.descriptor[ix.txouts[op][1]])
       \/ ix.txouts[op][1] = k /\ ix.txouts[op][2] <= i
Paid(ix) ==
  \A op \in OutPoint : ix.txouts[op] # None =>
    /\ ix.txouts[op] \in ix.spks /\ ix.txouts[op] \notin ix.unused
    /\ ix.txouts[op][2] < NextReveal(ix, ix.descriptor[ix.txouts[op][1]])

IndexInv(ix) == ix \in Index /\ Unique(ix) /\ Derived(ix) /\ Ahead(ix) /\ Paid(ix)

(* r comes of an operation on ix: it says in the change set all that was     *)
(* revealed, and nothing else.                                               *)
Reported(ix, r) ==
  \A d \in Descriptor :
    /\ r.ix.last_revealed[d] = Latest(ix.last_revealed[d], r.cs.last_revealed[d])
    /\ r.cs.last_revealed[d] \in {None, r.ix.last_revealed[d]}
IndexStep(ix, r) ==
  /\ r \in IndexResult /\ IndexInv(r.ix)
  /\ r.ix.descriptor = ix.descriptor /\ Reported(ix, r)

LEMMA Revealable ==
  ASSUME NEW ix \in Index, NEW d \in Descriptor
  PROVE  /\ ix.last_revealed[d] \in (0 .. BIP32_MAX_INDEX) \cup {None}
         /\ ix.last_revealed[d] \in Optional
         /\ NextReveal(ix, d) \in 0 .. BIP32_MAX_INDEX + 1
<1>1. ix.last_revealed[d] \in (0 .. BIP32_MAX_INDEX) \cup {None} BY DEF Index, LastRevealed
<1>2. BIP32_MAX_INDEX \in Nat /\ None \notin Nat BY IndexAssumption, KeychainAssumption
<1> QED BY <1>1, <1>2 DEF Optional, NextReveal

LEMMA StopIndexType ==
  ASSUME NEW ix \in Index, NEW d \in Descriptor, NEW lookahead \in Nat
  PROVE  StopIndex(ix, d, lookahead) \in 0 .. BIP32_MAX_INDEX + 1
<1>1. NextReveal(ix, d) \in Nat /\ BIP32_MAX_INDEX \in Nat BY Revealable, IndexAssumption
<1> HIDE DEF NextReveal
<1> QED BY <1>1 DEF StopIndex

(* NextSpkIndex is the end of the derived scripts. *)
LEMMA NextSpkIndexFacts ==
  ASSUME NEW ix \in Index, Derived(ix), NEW k \in Keychain
  PROVE  /\ NextSpkIndex(ix, k) \in 0 .. BIP32_MAX_INDEX + 1
         /\ \A i \in Nat : <<k, i>> \in ix.spks <=> i < NextSpkIndex(ix, k)
<1> DEFINE H == {p[2] + 1 : p \in {q \in ix.spks : q[1] = k}} \cup {0}
           n == NextSpkIndex(ix, k)
<1>0. BIP32_MAX_INDEX \in Nat BY IndexAssumption
<1>1. ix.spks \subseteq Position BY DEF Index
<1>2. H \subseteq 0 .. BIP32_MAX_INDEX + 1 BY <1>0, <1>1 DEF Position
<1>3. H # {} OBVIOUS
<1>4. \A i \in Nat : <<k, i>> \in ix.spks => i + 1 \in H OBVIOUS
<1>5. \A x \in H : x = 0 \/ \E i \in Nat : x = i + 1 /\ <<k, i>> \in ix.spks BY <1>0, <1>1 DEF Position
<1>6. n = CHOOSE x \in H : \A y \in H : x >= y BY DEF NextSpkIndex, Max
<1> HIDE DEF H, n
<1>7. PICK m \in H : \A x \in H : x <= m
  <2>1. BIP32_MAX_INDEX + 1 \in Nat BY <1>0
  <2> QED BY <1>2, <1>3, <2>1, GreatestNatural
<1>8. \A x \in H : x \in Nat BY <1>0, <1>2
<1>9. \A x \in H : m >= x BY <1>7, <1>8
<1>10. n \in H /\ \A x \in H : n >= x BY <1>6, <1>7, <1>9, Zenon
<1>11. n \in 0 .. BIP32_MAX_INDEX + 1 BY <1>2, <1>10
<1>12. ASSUME NEW i \in Nat, <<k, i>> \in ix.spks PROVE i < n
  <2>1. i + 1 \in H BY <1>4, <1>12
  <2> QED BY <1>0, <1>10, <1>11, <2>1
<1>13. ASSUME NEW i \in Nat, i < n PROVE <<k, i>> \in ix.spks
  <2>1. n # 0 BY <1>13, <1>0, <1>11
  <2>2. PICK j \in Nat : n = j + 1 /\ <<k, j>> \in ix.spks BY <1>5, <1>10, <2>1
  <2>3. i \in 0 .. j BY <1>13, <2>2
  <2> QED BY <2>2, <2>3 DEF Derived
<1> QED BY <1>11, <1>12, <1>13 DEF n

Fresh(ix, k, lookahead) == NextSpkIndex(ix, k) .. StopIndex(ix, ix.descriptor[k], lookahead) - 1

(* Deriving scripts adds the missing ones of the range, unused, and no other. *)
LEMMA ReplenishFields ==
  ASSUME NEW ix \in Index, Unique(ix), Derived(ix),
         NEW k \in Keychain, ix.descriptor[k] # None, NEW lookahead \in Nat,
         NEW r, r = Replenish(ix, k, lookahead)
  PROVE  /\ r \in Index
         /\ r.descriptor = ix.descriptor /\ r.last_revealed = ix.last_revealed /\ r.txouts = ix.txouts
         /\ r.spks = ix.spks \cup ({k} \X Fresh(ix, k, lookahead)) /\ r.unused = ix.unused \cup ({k} \X Fresh(ix, k, lookahead))
<1> DEFINE d == ix.descriptor[k]
           n == NextSpkIndex(ix, k)
           stop == StopIndex(ix, d, lookahead)
           fresh == Fresh(ix, k, lookahead)
           ps == {k} \X fresh
<1>1. d \in Descriptor BY DEF Index, Assignment
<1>2. /\ n \in 0 .. BIP32_MAX_INDEX + 1
      /\ \A i \in Nat : <<k, i>> \in ix.spks <=> i < n
  BY NextSpkIndexFacts
<1>3. stop \in 0 .. BIP32_MAX_INDEX + 1 /\ BIP32_MAX_INDEX \in Nat BY <1>1, StopIndexType, IndexAssumption
<1>4. fresh = n .. stop - 1 BY DEF Fresh
<1> HIDE DEF n, stop, fresh
<1>5. fresh \subseteq 0 .. BIP32_MAX_INDEX /\ \A i \in fresh : i \in Nat /\ <<k, i>> \notin ix.spks
  <2>1. \A i \in n .. stop - 1 : i \in 0 .. BIP32_MAX_INDEX /\ i \in Nat /\ ~(i < n) BY <1>2, <1>3
  <2> QED BY <1>2, <1>4, <2>1, Zenon
<1>6. ix.spks \subseteq Position /\ ix.unused \subseteq Position BY DEF Index
<1>7. ps \subseteq Position BY <1>5 DEF Position
<1>8. ASSUME NEW p \in ps, NEW q \in ix.spks, ScriptAt(ix, q) = ScriptAt(ix, p) PROVE FALSE
  <2>1. PICK i \in fresh : p = <<k, i>> OBVIOUS
  <2>2. PICK j \in Keychain, h \in 0 .. BIP32_MAX_INDEX : q = <<j, h>> BY <1>6 DEF Position
  <2>3. ix.descriptor[j] = ix.descriptor[k] /\ h = i BY <1>8, <2>1, <2>2 DEF ScriptAt
  <2>4. j = k BY <2>3 DEF Unique
  <2> QED BY <1>5, <2>1, <2>2, <2>3, <2>4
<1>9. {p \in ps : IndexOfSpk(ix, ScriptAt(ix, p)) = {}} = ps BY <1>8 DEF IndexOfSpk
<1>10. InsertSpks(ix, ps) = [ix EXCEPT !.spks = @ \cup ps, !.unused = @ \cup ps]
  BY <1>9, Zenon DEF InsertSpks
<1> DEFINE grown == InsertSpks(ix, ps)
<1>11. r = IF ~PersistSpks THEN grown
           ELSE [grown EXCEPT !.spk_cache = @ \cup ({d} \X fresh),
                              !.spk_cache_stage = @ \cup (({d} \X fresh) \ ix.spk_cache)]
  BY Zenon DEF Replenish, n, stop, d, ps, fresh, Fresh
<1>12. {d} \X fresh \subseteq Script BY <1>1, <1>5 DEF Script
<1> HIDE DEF d, ps
<1>13. /\ grown \in Index
       /\ grown.descriptor = ix.descriptor /\ grown.last_revealed = ix.last_revealed /\ grown.txouts = ix.txouts
       /\ grown.spks = ix.spks \cup ps /\ grown.unused = ix.unused \cup ps
  <2>1. ix.spks \cup ps \in SUBSET Position /\ ix.unused \cup ps \in SUBSET Position BY <1>6, <1>7
  <2> QED BY <1>10, <2>1 DEF Index
<1> HIDE DEF grown
<1>14. CASE ~PersistSpks BY <1>11, <1>13, <1>14 DEF ps, fresh
<1>15. CASE PersistSpks
  <2> DEFINE more == {d} \X fresh
  <2>1. r = [grown EXCEPT !.spk_cache = @ \cup more, !.spk_cache_stage = @ \cup (more \ ix.spk_cache)]
    BY <1>11, <1>15
  <2>2. more \in SUBSET Script BY <1>12
  <2> HIDE DEF more
  <2>3. /\ grown.spk_cache \cup more \in SUBSET Script
        /\ grown.spk_cache_stage \cup (more \ ix.spk_cache) \in SUBSET Script
    BY <1>13, <2>2 DEF Index
  <2> QED BY <1>13, <2>1, <2>3 DEF Index, ps, fresh
<1> QED BY <1>14, <1>15

LEMMA ReplenishFacts ==
  ASSUME NEW ix \in Index, Unique(ix), Derived(ix),
         NEW k \in Keychain, ix.descriptor[k] # None, NEW lookahead \in Nat,
         NEW r, r = Replenish(ix, k, lookahead)
  PROVE  /\ r \in Index
         /\ r.descriptor = ix.descriptor /\ r.last_revealed = ix.last_revealed /\ r.txouts = ix.txouts
         /\ ix.spks \subseteq r.spks
         /\ \A p \in ix.spks : p \in r.unused => p \in ix.unused
         /\ Derived(r)
         /\ \A i \in Nat : i < StopIndex(ix, ix.descriptor[k], lookahead) => <<k, i>> \in r.spks
<1> DEFINE n == NextSpkIndex(ix, k)
           stop == StopIndex(ix, ix.descriptor[k], lookahead)
           fresh == Fresh(ix, k, lookahead)
<1>0. fresh = n .. stop - 1 BY DEF Fresh
<1>1. ix.descriptor[k] \in Descriptor BY DEF Index, Assignment
<1>2. /\ n \in 0 .. BIP32_MAX_INDEX + 1
      /\ \A i \in Nat : <<k, i>> \in ix.spks <=> i < n
  BY NextSpkIndexFacts
<1>3. stop \in 0 .. BIP32_MAX_INDEX + 1 /\ BIP32_MAX_INDEX \in Nat BY <1>1, StopIndexType, IndexAssumption
<1> HIDE DEF n, stop, fresh
<1>4. \A i \in Nat : i < stop => i < n \/ i \in fresh BY <1>0, <1>2, <1>3
<1>5. \A i \in fresh : i \in Nat /\ ~(i < n) /\ \A j \in 0 .. i : j < n \/ j \in fresh BY <1>0, <1>2, <1>3
<1>6. \A i \in Nat : i < n => \A j \in 0 .. i : j < n BY <1>2, <1>3
<1>7. /\ r \in Index
      /\ r.descriptor = ix.descriptor /\ r.last_revealed = ix.last_revealed /\ r.txouts = ix.txouts
      /\ r.spks = ix.spks \cup ({k} \X fresh) /\ r.unused = ix.unused \cup ({k} \X fresh)
  BY ReplenishFields DEF fresh
<1>8. ASSUME NEW p \in ix.spks, p \in r.unused PROVE p \in ix.unused BY <1>2, <1>5, <1>7, <1>8
<1>9. ASSUME NEW j \in Keychain, NEW i \in Nat, <<j, i>> \in r.spks
      PROVE  r.descriptor[j] # None /\ \A h \in 0 .. i : <<j, h>> \in r.spks
  <2>1. CASE <<j, i>> \in ix.spks BY <2>1, <1>7 DEF Derived
  <2>2. CASE j = k /\ i \in fresh BY <1>2, <1>5, <1>7, <2>2
  <2> QED BY <1>7, <1>9, <2>1, <2>2
<1>10. Derived(r) BY <1>9 DEF Derived
<1>11. \A i \in Nat : i < stop => <<k, i>> \in r.spks BY <1>2, <1>4, <1>7
<1> QED BY <1>7, <1>8, <1>10, <1>11 DEF stop

LEMMA StopIndexSame ==
  ASSUME NEW a, NEW b, NEW d, NEW lookahead, a.last_revealed[d] = b.last_revealed[d]
  PROVE  StopIndex(a, d, lookahead) = StopIndex(b, d, lookahead) /\ NextReveal(a, d) = NextReveal(b, d)
BY DEF StopIndex, NextReveal

LEMMA ResultParts ==
  ASSUME NEW r \in IndexResult
  PROVE  r.ix \in Index /\ r.cs \in IndexChange /\ r.cs.last_revealed \in LastRevealed
BY DEF IndexResult, IndexChange

LEMMA LastRevealedType ==
  ASSUME NEW last \in LastRevealed, NEW d \in Descriptor
  PROVE  last[d] \in (0 .. BIP32_MAX_INDEX) \cup {None} /\ last[d] \in Optional
BY IndexAssumption DEF LastRevealed, Optional

(* set_last_revealed, then deriving the scripts this calls for. *)
LEMMA RaiseFacts ==
  ASSUME NEW ix \in Index, Unique(ix), Derived(ix), Ahead(ix),
         NEW k \in Keychain, ix.descriptor[k] # None, NEW i \in 0 .. BIP32_MAX_INDEX,
         ix.last_revealed[ix.descriptor[k]] = None \/ ix.last_revealed[ix.descriptor[k]] < i,
         PaidBut(ix, k, i),
         NEW r, r = Replenish([ix EXCEPT !.last_revealed[ix.descriptor[k]] = i], k, Lookahead)
  PROVE  /\ IndexInv(r) /\ r.descriptor = ix.descriptor
         /\ r.last_revealed = [ix.last_revealed EXCEPT ![ix.descriptor[k]] = i]
<1> DEFINE d == ix.descriptor[k]
           last == [ix.last_revealed EXCEPT ![d] = i]
           raised == [ix EXCEPT !.last_revealed[d] = i]
<1>1. d \in Descriptor /\ Lookahead \in Nat /\ BIP32_MAX_INDEX \in Nat BY IndexAssumption DEF Index, Assignment
<1>2. ix.last_revealed \in LastRevealed BY DEF Index
<1>3. last \in LastRevealed /\ last[d] = i /\ \A e \in Descriptor : e # d => last[e] = ix.last_revealed[e]
  BY <1>1, <1>2 DEF LastRevealed
<1>4. raised = [ix EXCEPT !.last_revealed = last] BY <1>2 DEF Index, LastRevealed
<1>5. r = Replenish(raised, k, Lookahead) OBVIOUS
<1> HIDE DEF d, last, raised
<1>6. /\ raised \in Index /\ raised.descriptor = ix.descriptor /\ raised.last_revealed = last
      /\ raised.txouts = ix.txouts /\ raised.spks = ix.spks /\ raised.unused = ix.unused
  BY <1>3, <1>4 DEF Index
<1>7. Unique(raised) /\ Derived(raised) BY <1>6 DEF Unique, Derived
<1>8. /\ r \in Index
      /\ r.descriptor = raised.descriptor /\ r.last_revealed = raised.last_revealed /\ r.txouts = raised.txouts
      /\ raised.spks \subseteq r.spks
      /\ \A p \in raised.spks : p \in r.unused => p \in raised.unused
      /\ Derived(r)
      /\ \A j \in Nat : j < StopIndex(raised, raised.descriptor[k], Lookahead) => <<k, j>> \in r.spks
  <2>1. raised.descriptor[k] # None BY <1>6
  <2> QED BY <1>1, <1>5, <1>6, <1>7, <2>1, ReplenishFacts
<1>9. Unique(r) BY <1>6, <1>8 DEF Unique
<1>10. ASSUME NEW j \in Keychain, r.descriptor[j] # None PROVE AheadOf(r, j)
  <2>1. CASE j = k
    <3>1. StopIndex(r, r.descriptor[k], Lookahead) = StopIndex(raised, raised.descriptor[k], Lookahead)
      BY <1>8, StopIndexSame
    <3> QED BY <1>8, <2>1, <3>1 DEF AheadOf
  <2>2. CASE j # k
    <3> DEFINE e == ix.descriptor[j]
    <3>1. e # d /\ e \in Descriptor /\ r.descriptor[j] = e
      BY <1>6, <1>8, <1>10, <2>2 DEF Unique, d, Index, Assignment
    <3>2. AheadOf(ix, j) BY <1>6, <1>8, <1>10 DEF Ahead
    <3> HIDE DEF e
    <3>3. r.last_revealed[e] = ix.last_revealed[e] BY <1>3, <1>6, <1>8, <3>1
    <3>4. StopIndex(r, e, Lookahead) = StopIndex(ix, e, Lookahead) BY <3>3, StopIndexSame
    <3>5. ix.descriptor[j] = e BY DEF e
    <3> QED BY <1>6, <1>8, <3>1, <3>2, <3>4, <3>5 DEF AheadOf
  <2> QED BY <2>1, <2>2
<1>11. ASSUME NEW op \in OutPoint, r.txouts[op] # None
       PROVE  /\ r.txouts[op] \in r.spks /\ r.txouts[op] \notin r.unused
              /\ r.txouts[op][2] < NextReveal(r, r.descriptor[r.txouts[op][1]])
  <2> DEFINE p == ix.txouts[op]
  <2>1. r.txouts[op] = p /\ p # None BY <1>6, <1>8, <1>11
  <2>2. p \in ix.spks /\ p \notin ix.unused BY <2>1 DEF PaidBut
  <2>3. p[2] < NextReveal(ix, ix.descriptor[p[1]]) \/ (p[1] = k /\ p[2] <= i) BY <2>1 DEF PaidBut
  <2> HIDE DEF p
  <2>4. p[1] \in Keychain /\ p[2] \in 0 .. BIP32_MAX_INDEX /\ p = <<p[1], p[2]>> BY <2>2 DEF Index, Position
  <2>5. ix.descriptor[p[1]] # None
    <3>1. p[2] \in Nat BY <1>1, <2>4
    <3> QED BY <2>2, <2>4, <3>1 DEF Derived
  <2>6. ix.descriptor[p[1]] \in Descriptor BY <2>4, <2>5 DEF Index, Assignment
  <2>7. r.descriptor[p[1]] = ix.descriptor[p[1]] BY <1>6, <1>8
  <2>8. p[2] < NextReveal(r, ix.descriptor[p[1]])
    <3>1. CASE p[1] = k
      <4>1. NextReveal(r, d) = i + 1 BY <1>3, <1>6, <1>8, KeychainAssumption DEF NextReveal
      <4>2. ix.descriptor[p[1]] = d BY <3>1 DEF d
      <4>3. ix.last_revealed[d] = None \/ ix.last_revealed[d] < i BY DEF d
      <4>4. NextReveal(ix, d) <= i /\ NextReveal(ix, d) \in Nat
        <5>1. ix.last_revealed[d] \in (0 .. BIP32_MAX_INDEX) \cup {None} BY <1>1, Revealable
        <5> QED BY <1>1, <4>3, <5>1, KeychainAssumption DEF NextReveal
      <4> QED BY <1>1, <2>3, <2>4, <3>1, <4>1, <4>2, <4>4
    <3>2. CASE p[1] # k
      <4>1. ix.descriptor[p[1]] # d BY <2>4, <2>5, <3>2 DEF Unique, d
      <4>2. r.last_revealed[ix.descriptor[p[1]]] = ix.last_revealed[ix.descriptor[p[1]]]
        BY <1>3, <1>6, <1>8, <2>6, <4>1
      <4>3. NextReveal(r, ix.descriptor[p[1]]) = NextReveal(ix, ix.descriptor[p[1]]) BY <4>2, StopIndexSame
      <4> QED BY <2>3, <3>2, <4>3
    <3> QED BY <3>1, <3>2
  <2> QED BY <1>6, <1>8, <2>1, <2>2, <2>7, <2>8
<1>12. Paid(r) BY <1>11 DEF Paid
<1>13. Ahead(r) BY <1>10 DEF Ahead
<1> QED BY <1>6, <1>8, <1>9, <1>12, <1>13 DEF IndexInv, last, d

LEMMA RevealStep ==
  ASSUME NEW ix \in Index, NEW r \in IndexResult,
         Unique(r.ix), Derived(r.ix), Ahead(r.ix), r.ix.descriptor = ix.descriptor, Reported(ix, r),
         NEW k \in Keychain, r.ix.descriptor[k] # None, NEW i \in 0 .. BIP32_MAX_INDEX,
         \/ r.ix.last_revealed[r.ix.descriptor[k]] = None
         \/ r.ix.last_revealed[r.ix.descriptor[k]] < i,
         PaidBut(r.ix, k, i)
  PROVE  IndexStep(ix, Reveal(r, k, i))
<1> DEFINE d == r.ix.descriptor[k]
           next == Replenish([r.ix EXCEPT !.last_revealed[d] = i], k, Lookahead)
           cs == [r.cs EXCEPT !.last_revealed[d] = i]
           last == [r.cs.last_revealed EXCEPT ![d] = i]
           s == Reveal(r, k, i)
<1>1. r.ix \in Index /\ r.cs \in IndexChange /\ r.cs.last_revealed \in LastRevealed BY ResultParts
<1>2. d \in Descriptor BY <1>1 DEF Index, Assignment
<1>3. s = [ix |-> next, cs |-> cs] BY DEF Reveal
<1>4. /\ IndexInv(next) /\ next.descriptor = r.ix.descriptor
      /\ next.last_revealed = [r.ix.last_revealed EXCEPT ![d] = i]
  BY <1>1, RaiseFacts
<1>5. last \in LastRevealed BY <1>1, <1>2 DEF LastRevealed
<1>6. cs \in IndexChange /\ cs.last_revealed = last BY <1>1, <1>5 DEF IndexChange
<1>7. next.last_revealed[d] = i /\ \A e \in Descriptor : e # d => next.last_revealed[e] = r.ix.last_revealed[e]
  BY <1>1, <1>2, <1>4 DEF Index, LastRevealed
<1>8. last[d] = i /\ \A e \in Descriptor : e # d => last[e] = r.cs.last_revealed[e]
  BY <1>1, <1>2 DEF LastRevealed
<1> HIDE DEF next, cs, last, s
<1>9. s \in IndexResult /\ s.ix = next /\ s.cs = cs BY <1>3, <1>4, <1>6 DEF IndexResult, IndexInv
<1>10. ASSUME NEW e \in Descriptor
       PROVE  /\ next.last_revealed[e] = Latest(ix.last_revealed[e], last[e])
              /\ last[e] \in {None, next.last_revealed[e]}
  <2>1. CASE e # d BY <1>7, <1>8, <2>1 DEF Reported
  <2>2. CASE e = d
    <3>1. /\ ix.last_revealed[d] \in Optional /\ r.cs.last_revealed[d] \in Optional
          /\ r.ix.last_revealed[d] \in (0 .. BIP32_MAX_INDEX) \cup {None} /\ i \in Nat
      BY <1>1, <1>2, Revealable, LastRevealedType, IndexAssumption
    <3>2. r.ix.last_revealed[d] = Latest(ix.last_revealed[d], r.cs.last_revealed[d]) BY <1>2 DEF Reported
    <3>3. AtMost(ix.last_revealed[d], r.ix.last_revealed[d]) BY <3>1, <3>2, LatestFacts
    <3>4. r.ix.last_revealed[d] = None \/ r.ix.last_revealed[d] < i OBVIOUS
    <3> HIDE DEF d
    <3>5. AtMost(ix.last_revealed[d], i)
      BY <3>1, <3>3, <3>4, IndexAssumption, KeychainAssumption DEF AtMost, Optional
    <3>6. i \in Optional BY <3>1 DEF Optional
    <3>7. Latest(ix.last_revealed[d], i) = i BY <3>1, <3>5, <3>6, LatestFacts
    <3> QED BY <1>7, <1>8, <2>2, <3>7
  <2> QED BY <2>1, <2>2
<1>11. Reported(ix, s) BY <1>6, <1>9, <1>10 DEF Reported
<1> QED BY <1>4, <1>9, <1>11 DEF IndexStep, s

LEMMA StartStep ==
  ASSUME NEW ix \in Index, NEW jx, IndexInv(jx),
         jx.descriptor = ix.descriptor, jx.last_revealed = ix.last_revealed
  PROVE  IndexStep(ix, Start(jx))
<1>1. [d \in Descriptor |-> None] \in LastRevealed BY DEF LastRevealed
<1>2. EmptyIndexChangeSet \in IndexChange BY <1>1 DEF EmptyIndexChangeSet, IndexChange
<1>3. Start(jx) \in IndexResult /\ Start(jx).ix = jx /\ Start(jx).cs = EmptyIndexChangeSet
  BY <1>2 DEF Start, IndexResult, IndexInv
<1>4. \A d \in Descriptor : EmptyIndexChangeSet.last_revealed[d] = None BY DEF EmptyIndexChangeSet
<1>5. \A d \in Descriptor : Latest(ix.last_revealed[d], None) = ix.last_revealed[d]
  <2> TAKE d \in Descriptor
  <2>1. ix.last_revealed[d] \in Optional /\ None \in Optional BY Revealable DEF Optional
  <2> QED BY <2>1, LatestFacts
<1>6. Reported(ix, Start(jx)) BY <1>3, <1>4, <1>5, Zenon DEF Reported
<1> QED BY <1>3, <1>6 DEF IndexStep

LEMMA EmptyStageStep ==
  ASSUME NEW ix \in Index, NEW r, IndexStep(ix, r)
  PROVE  IndexStep(ix, EmptyStage(r))
<1> DEFINE jx == [r.ix EXCEPT !.spk_cache_stage = {}]
           cs == [r.cs EXCEPT !.spk_cache = @ \cup r.ix.spk_cache_stage]
           s == EmptyStage(r)
<1>1. CASE ~PersistSpks BY <1>1 DEF EmptyStage
<1>2. CASE PersistSpks
  <2>1. s = [ix |-> jx, cs |-> cs] BY <1>2 DEF EmptyStage
  <2>2. r \in IndexResult /\ IndexInv(r.ix) /\ r.ix.descriptor = ix.descriptor /\ Reported(ix, r) BY DEF IndexStep
  <2>3. r.ix \in Index /\ r.cs \in IndexChange BY <2>2, ResultParts
  <2>4. /\ jx \in Index /\ jx.descriptor = r.ix.descriptor /\ jx.last_revealed = r.ix.last_revealed
        /\ jx.spks = r.ix.spks /\ jx.unused = r.ix.unused /\ jx.txouts = r.ix.txouts
    BY <2>3 DEF Index
  <2>5. r.cs.spk_cache \cup r.ix.spk_cache_stage \in SUBSET Script BY <2>3 DEF Index, IndexChange
  <2>6. cs \in IndexChange /\ cs.last_revealed = r.cs.last_revealed BY <2>3, <2>5 DEF IndexChange
  <2> HIDE DEF jx, cs, s
  <2>7. s \in IndexResult /\ s.ix = jx /\ s.cs = cs BY <2>1, <2>4, <2>6 DEF IndexResult
  <2>8. \A d : /\ StopIndex(jx, d, Lookahead) = StopIndex(r.ix, d, Lookahead)
               /\ NextReveal(jx, d) = NextReveal(r.ix, d)
    BY <2>4, StopIndexSame
  <2>9. Unique(jx) /\ Derived(jx) BY <2>2, <2>4 DEF IndexInv, Unique, Derived
  <2>10. Ahead(jx) BY <2>2, <2>4, <2>8, Zenon DEF IndexInv, Ahead, AheadOf
  <2>11. Paid(jx) BY <2>2, <2>4, <2>8, Zenon DEF IndexInv, Paid
  <2>12. Reported(ix, s) BY <2>2, <2>4, <2>6, <2>7, Zenon DEF Reported
  <2> QED BY <2>2, <2>4, <2>7, <2>9, <2>10, <2>11, <2>12 DEF IndexStep, IndexInv, s
<1> QED BY <1>1, <1>2

(* scan_txout marks the position used whose script is paid. *)
LEMMA ScanFacts ==
  ASSUME NEW ix, IndexInv(ix), NEW op \in OutPoint, NEW spk, Matches(ix, spk) # {},
         NEW jx, jx = ScanTxOut(ix, op, spk)
  PROVE  /\ jx \in Index /\ Unique(jx) /\ Derived(jx) /\ Ahead(jx)
         /\ jx.descriptor = ix.descriptor /\ jx.last_revealed = ix.last_revealed
         /\ jx.txouts[op] \in Position /\ jx.descriptor[jx.txouts[op][1]] # None
         /\ PaidBut(jx, jx.txouts[op][1], jx.txouts[op][2])
<1> DEFINE hit == Matches(ix, spk)
           p == CHOOSE q \in hit : TRUE
           rest == ix.unused \ hit
           paid == [ix.txouts EXCEPT ![op] = p]
<1>1. ix \in Index /\ Unique(ix) /\ Derived(ix) /\ Ahead(ix) /\ Paid(ix) BY DEF IndexInv
<1>2. hit \subseteq ix.spks /\ ix.spks \subseteq Position /\ p \in hit BY <1>1 DEF Matches, IndexOfSpk, Index
<1>3. jx = [ix EXCEPT !.txouts[op] = p, !.unused = rest] BY DEF ScanTxOut
<1>4. jx = [ix EXCEPT !.txouts = paid, !.unused = rest] BY <1>1, <1>3 DEF Index
<1> HIDE DEF hit, p
<1>5. ix.txouts \in Payments BY <1>1 DEF Index
<1>6. paid \in Payments /\ paid[op] = p /\ \A o \in OutPoint : o # op => paid[o] = ix.txouts[o]
  BY <1>2, <1>5 DEF Payments
<1>7. rest \in SUBSET Position BY <1>1 DEF Index
<1> HIDE DEF rest, paid
<1>8. /\ jx \in Index /\ jx.descriptor = ix.descriptor /\ jx.last_revealed = ix.last_revealed
      /\ jx.spks = ix.spks /\ jx.txouts = paid /\ jx.unused = rest
  BY <1>1, <1>4, <1>6, <1>7 DEF Index
<1>9. \A d : /\ StopIndex(jx, d, Lookahead) = StopIndex(ix, d, Lookahead)
             /\ NextReveal(jx, d) = NextReveal(ix, d)
  BY <1>8, StopIndexSame
<1>10. Unique(jx) /\ Derived(jx) BY <1>1, <1>8 DEF Unique, Derived
<1>11. Ahead(jx) BY <1>1, <1>8, <1>9, Zenon DEF Ahead, AheadOf
<1>12. p \in ix.spks /\ p \in Position /\ p \notin rest BY <1>2 DEF rest
<1>13. p[1] \in Keychain /\ p[2] \in 0 .. BIP32_MAX_INDEX /\ p = <<p[1], p[2]>> BY <1>12 DEF Position
<1>14. p[2] \in Nat BY <1>13, IndexAssumption
<1>15. ix.descriptor[p[1]] # None BY <1>1, <1>12, <1>13, <1>14 DEF Derived
<1>16. ASSUME NEW o \in OutPoint, jx.txouts[o] # None
       PROVE  /\ jx.txouts[o] \in jx.spks /\ jx.txouts[o] \notin jx.unused
              /\ \/ jx.txouts[o][2] < NextReveal(jx, jx.descriptor[jx.txouts[o][1]])
                 \/ jx.txouts[o][1] = p[1] /\ jx.txouts[o][2] <= p[2]
  <2>1. CASE o = op BY <1>6, <1>8, <1>12, <1>14, <2>1
  <2>2. CASE o # op
    <3>1. jx.txouts[o] = ix.txouts[o] /\ ix.txouts[o] # None BY <1>6, <1>8, <1>16, <2>2
    <3>2. /\ ix.txouts[o] \in ix.spks /\ ix.txouts[o] \notin ix.unused
          /\ ix.txouts[o][2] < NextReveal(ix, ix.descriptor[ix.txouts[o][1]])
      BY <1>1, <3>1 DEF Paid
    <3>3. rest \subseteq ix.unused BY DEF rest
    <3> QED BY <1>8, <1>9, <3>1, <3>2, <3>3
  <2> QED BY <2>1, <2>2
<1>17. PaidBut(jx, p[1], p[2]) BY <1>16 DEF PaidBut
<1> QED BY <1>6, <1>8, <1>10, <1>11, <1>12, <1>15, <1>17

LEMMA IndexOutputStep ==
  ASSUME NEW ix \in Index, NEW r, IndexStep(ix, r), NEW op \in OutPoint, NEW spk
  PROVE  IndexStep(ix, IndexOutput(r, op, spk))
<1> DEFINE jx == ScanTxOut(r.ix, op, spk)
           s == [r EXCEPT !.ix = jx]
           p == jx.txouts[op]
           last == r.ix.last_revealed[r.ix.descriptor[p[1]]]
<1>0. r \in IndexResult /\ IndexInv(r.ix) /\ r.ix.descriptor = ix.descriptor /\ Reported(ix, r) BY DEF IndexStep
<1>1. CASE Matches(r.ix, spk) = {} BY <1>1 DEF IndexOutput
<1>2. CASE Matches(r.ix, spk) # {}
  <2>1. r.ix \in Index /\ r.cs \in IndexChange BY <1>0, ResultParts
  <2>2. /\ jx \in Index /\ Unique(jx) /\ Derived(jx) /\ Ahead(jx)
        /\ jx.descriptor = r.ix.descriptor /\ jx.last_revealed = r.ix.last_revealed
        /\ p \in Position /\ jx.descriptor[p[1]] # None
        /\ PaidBut(jx, p[1], p[2])
    BY <1>0, <1>2, ScanFacts
  <2>3. r = [ix |-> r.ix, cs |-> r.cs] BY <1>0 DEF IndexResult
  <2>4. IndexOutput(r, op, spk) = IF last = None \/ last < p[2] THEN Reveal(s, p[1], p[2]) ELSE s
    <3>1. s.ix = jx BY <2>3
    <3>2. IndexOutput(r, op, spk) =
            LET q == s.ix.txouts[op]
                top == r.ix.last_revealed[r.ix.descriptor[q[1]]]
            IN IF top = None \/ top < q[2] THEN Reveal(s, q[1], q[2]) ELSE s
      BY <1>2, Zenon DEF IndexOutput
    <3> HIDE DEF s, jx
    <3> QED BY <3>1, <3>2, Zenon
  <2> HIDE DEF jx, p
  <2>5. s = [ix |-> jx, cs |-> r.cs] BY <2>3
  <2> HIDE DEF s
  <2>6. s \in IndexResult /\ s.ix = jx /\ s.cs = r.cs BY <2>1, <2>2, <2>5 DEF IndexResult
  <2>7. Reported(ix, s) BY <1>0, <2>2, <2>6 DEF Reported
  <2>8. p[1] \in Keychain /\ p[2] \in 0 .. BIP32_MAX_INDEX BY <2>2 DEF Position
  <2>9. CASE last = None \/ last < p[2]
    <3>1. IndexStep(ix, Reveal(s, p[1], p[2]))
      BY <1>0, <2>2, <2>6, <2>7, <2>8, <2>9, RevealStep
    <3> QED BY <2>4, <2>9, <3>1
  <2>10. CASE ~(last = None \/ last < p[2])
    <3>0. r.ix.descriptor[p[1]] \in Descriptor BY <2>1, <2>2, <2>8 DEF Index, Assignment
    <3>1. last \in 0 .. BIP32_MAX_INDEX /\ BIP32_MAX_INDEX \in Nat /\ None \notin Nat
      BY <2>1, <2>10, <3>0, Revealable, IndexAssumption, KeychainAssumption
    <3>2. NextReveal(jx, jx.descriptor[p[1]]) = last + 1 BY <2>2, <3>1 DEF NextReveal
    <3> HIDE DEF last
    <3>3. p[2] < NextReveal(jx, jx.descriptor[p[1]]) BY <2>8, <2>10, <3>1, <3>2
    <3>5. ASSUME NEW o \in OutPoint, jx.txouts[o] # None
          PROVE  jx.txouts[o][2] < NextReveal(jx, jx.descriptor[jx.txouts[o][1]])
      <4> DEFINE q == jx.txouts[o]
      <4>1. q \in Position BY <2>2, <3>5 DEF Index, Payments
      <4>2. q[2] \in Nat BY <4>1, IndexAssumption DEF Position
      <4>3. q[2] < NextReveal(jx, jx.descriptor[q[1]]) \/ (q[1] = p[1] /\ q[2] <= p[2])
        BY <2>2, <3>5 DEF PaidBut
      <4> HIDE DEF q
      <4>4. NextReveal(jx, jx.descriptor[p[1]]) \in Nat BY <3>1, <3>2
      <4>5. q[2] < NextReveal(jx, jx.descriptor[q[1]])
        BY <2>8, <3>3, <4>2, <4>3, <4>4, IndexAssumption
      <4> QED BY <4>5 DEF q
    <3>6. Paid(jx) BY <2>2, <3>5 DEF Paid, PaidBut
    <3>7. IndexInv(jx) BY <2>2, <3>6 DEF IndexInv
    <3>8. IndexStep(ix, s) BY <1>0, <2>2, <2>6, <2>7, <3>7 DEF IndexStep
    <3> QED BY <2>4, <2>10, <3>8
  <2> QED BY <2>9, <2>10
<1> QED BY <1>1, <1>2

(* The outputs of transactions, and outputs on their own. *)
TxOut == OutPoint \X Spk

LEMMA IndexOutputsStep ==
  ASSUME NEW ix, IndexInv(ix), NEW txouts \in Seq(TxOut)
  PROVE  IndexStep(ix, IndexOutputs(ix, txouts))
<1> DEFINE S == {r \in IndexResult : IndexStep(ix, r)}
<1>1. ix \in Index BY DEF IndexInv
<1>2. Start(ix) \in S BY <1>1, StartStep DEF IndexStep
<1>3. ASSUME NEW r \in S, NEW x \in TxOut PROVE IndexOutput(r, x[1], x[2]) \in S
  <2>1. x[1] \in OutPoint BY DEF TxOut
  <2>2. IndexStep(ix, IndexOutput(r, x[1], x[2])) BY <1>1, <1>3, <2>1, IndexOutputStep
  <2> QED BY <2>2 DEF IndexStep
<1> HIDE DEF S
<1>4. PICK e \in S : IndexOutputs(ix, txouts) = EmptyStage(e) BY <1>2, <1>3, IndexOutputsLoop
<1>5. IndexStep(ix, e) BY DEF S
<1> QED BY <1>1, <1>4, <1>5, EmptyStageStep

LEMMA ThenStep ==
  ASSUME NEW ix \in Index, NEW r, IndexStep(ix, r), NEW s, IndexStep(r.ix, s)
  PROVE  IndexStep(ix, Then(r, s))
<1> DEFINE q == Then(r, s)
           last == [d \in Descriptor |-> Latest(r.cs.last_revealed[d], s.cs.last_revealed[d])]
<1>1. /\ r \in IndexResult /\ r.ix.descriptor = ix.descriptor /\ Reported(ix, r)
      /\ s \in IndexResult /\ IndexInv(s.ix) /\ s.ix.descriptor = r.ix.descriptor /\ Reported(r.ix, s)
  BY DEF IndexStep
<1>2. /\ r.ix \in Index /\ r.cs \in IndexChange /\ r.cs.last_revealed \in LastRevealed
      /\ s.ix \in Index /\ s.cs \in IndexChange /\ s.cs.last_revealed \in LastRevealed
  BY <1>1, ResultParts
<1>3. ASSUME NEW d \in Descriptor
      PROVE  /\ Latest(r.cs.last_revealed[d], s.cs.last_revealed[d]) \in (0 .. BIP32_MAX_INDEX) \cup {None}
             /\ s.ix.last_revealed[d]
                  = Latest(ix.last_revealed[d], Latest(r.cs.last_revealed[d], s.cs.last_revealed[d]))
             /\ Latest(r.cs.last_revealed[d], s.cs.last_revealed[d]) \in {None, s.ix.last_revealed[d]}
  <2> DEFINE i == ix.last_revealed[d]
             a == r.ix.last_revealed[d]
             b == s.ix.last_revealed[d]
             m == r.cs.last_revealed[d]
             n == s.cs.last_revealed[d]
  <2>1. /\ m \in (0 .. BIP32_MAX_INDEX) \cup {None} /\ n \in (0 .. BIP32_MAX_INDEX) \cup {None}
        /\ m \in Optional /\ n \in Optional /\ i \in Optional /\ a \in Optional /\ b \in Optional
    BY <1>2, LastRevealedType, Revealable
  <2>2. a = Latest(i, m) /\ m \in {None, a} /\ b = Latest(a, n) /\ n \in {None, b} BY <1>1 DEF Reported
  <2> HIDE DEF i, a, b, m, n
  <2>3. Latest(m, n) \in {m, n} BY <2>1, LatestFacts
  <2>4. b = Latest(i, Latest(m, n)) BY <2>1, <2>2, LatestAssociative
  <2>5. Latest(m, n) \in {None, b} BY <2>1, <2>2, KeychainAssumption DEF Latest, Optional
  <2> QED BY <2>1, <2>3, <2>4, <2>5 DEF i, a, b, m, n
<1>4. last \in LastRevealed BY <1>3 DEF LastRevealed
<1>5. r.cs.spk_cache \cup s.cs.spk_cache \in SUBSET Script BY <1>2 DEF IndexChange
<1>6. q = [ix |-> s.ix, cs |-> [last_revealed |-> last, spk_cache |-> r.cs.spk_cache \cup s.cs.spk_cache]]
  BY DEF Then, MergeIndexChangesets
<1>7. q \in IndexResult /\ q.ix = s.ix /\ q.cs.last_revealed = last
  BY <1>2, <1>4, <1>5, <1>6 DEF IndexResult, IndexChange
<1>8. Reported(ix, q) BY <1>3, <1>7 DEF Reported
<1> HIDE DEF q
<1> QED BY <1>1, <1>7, <1>8 DEF IndexStep, q

LEMMA IndexAllStep ==
  ASSUME NEW ix, IndexInv(ix), NEW lists \in Seq(Seq(TxOut))
  PROVE  IndexStep(ix, IndexAll(ix, lists))
<1> DEFINE S == {r \in IndexResult : IndexStep(ix, r)}
           X == Seq(TxOut)
<1>1. ix \in Index BY DEF IndexInv
<1>2. Start(ix) \in S BY <1>1, StartStep DEF IndexStep
<1>3. ASSUME NEW r \in S, NEW x \in X PROVE Then(r, IndexOutputs(r.ix, x)) \in S
  <2>1. IndexInv(r.ix) BY <1>3 DEF IndexStep
  <2>2. IndexStep(r.ix, IndexOutputs(r.ix, x)) BY <2>1, IndexOutputsStep
  <2>3. IndexStep(ix, Then(r, IndexOutputs(r.ix, x))) BY <1>1, <1>3, <2>2, ThenStep
  <2> QED BY <2>3 DEF IndexStep
<1>4. lists \in Seq(X) OBVIOUS
<1> HIDE DEF S, X
<1>5. IndexAll(ix, lists) \in S BY <1>2, <1>3, <1>4, IndexAllLoop
<1> QED BY <1>5 DEF S

-----------------------------------------------------------------------------
(* Revealing. *)

Assigned(ix) == \A k \in Keychain : ix.descriptor[k] # None

LEMMA NextIndexFacts ==
  ASSUME NEW ix \in Index, NEW k \in Keychain, ix.descriptor[k] # None
  PROVE  /\ NextIndex(ix, k).index \in 0 .. BIP32_MAX_INDEX /\ NextIndex(ix, k).new \in BOOLEAN
         /\ NextIndex(ix, k).new =>
              \/ ix.last_revealed[ix.descriptor[k]] = None
              \/ ix.last_revealed[ix.descriptor[k]] < NextIndex(ix, k).index
         /\ ix.descriptor[k] \in Wildcard /\ ix.last_revealed[ix.descriptor[k]] # BIP32_MAX_INDEX =>
              NextIndex(ix, k).index = NextReveal(ix, ix.descriptor[k])
<1> DEFINE d == ix.descriptor[k]
           last == ix.last_revealed[d]
<1>1. d \in Descriptor BY DEF Index, Assignment
<1>2. last \in (0 .. BIP32_MAX_INDEX) \cup {None} /\ BIP32_MAX_INDEX \in Nat /\ None \notin Nat
  BY <1>1, Revealable, IndexAssumption, KeychainAssumption
<1>3. CASE last = None
  <2>1. NextIndex(ix, k) = [index |-> 0, new |-> TRUE] BY <1>3 DEF NextIndex
  <2> QED BY <1>2, <1>3, <2>1 DEF NextReveal
<1>4. CASE last # None /\ d \notin Wildcard
  <2>1. NextIndex(ix, k) = [index |-> 0, new |-> FALSE] BY <1>4 DEF NextIndex
  <2> QED BY <1>2, <1>4, <2>1
<1>5. CASE last # None /\ d \in Wildcard
  <2>1. NextIndex(ix, k) = IF last = BIP32_MAX_INDEX THEN [index |-> last, new |-> FALSE]
                           ELSE [index |-> last + 1, new |-> TRUE]
    BY <1>5 DEF NextIndex
  <2>2. CASE last = BIP32_MAX_INDEX BY <1>2, <1>5, <2>1, <2>2
  <2>3. CASE last # BIP32_MAX_INDEX
    <3>1. NextIndex(ix, k) = [index |-> last + 1, new |-> TRUE] BY <2>1, <2>3
    <3>2. NextReveal(ix, d) = last + 1 BY <1>5 DEF NextReveal
    <3> QED BY <1>2, <1>5, <2>3, <3>1, <3>2
  <2> QED BY <2>2, <2>3
<1> QED BY <1>3, <1>4, <1>5

LEMMA RevealNextStep ==
  ASSUME NEW ix \in Index, NEW r, IndexStep(ix, r), NEW k \in Keychain, ix.descriptor[k] # None
  PROVE  IndexStep(ix, RevealNext(r, k))
<1> DEFINE next == NextIndex(r.ix, k)
<1>1. /\ r \in IndexResult /\ r.ix.descriptor = ix.descriptor /\ Reported(ix, r)
      /\ r.ix \in Index /\ Unique(r.ix) /\ Derived(r.ix) /\ Ahead(r.ix) /\ Paid(r.ix)
  BY DEF IndexStep, IndexInv
<1>2. /\ next.index \in 0 .. BIP32_MAX_INDEX /\ next.new \in BOOLEAN
      /\ next.new => \/ r.ix.last_revealed[r.ix.descriptor[k]] = None
                     \/ r.ix.last_revealed[r.ix.descriptor[k]] < next.index
  BY <1>1, NextIndexFacts
<1>3. RevealNext(r, k) = IF next.new THEN Reveal(r, k, next.index) ELSE r BY DEF RevealNext
<1> HIDE DEF next
<1>4. CASE next.new
  <2>1. PaidBut(r.ix, k, next.index) BY <1>1, Zenon DEF Paid, PaidBut
  <2>2. IndexStep(ix, Reveal(r, k, next.index)) BY <1>1, <1>2, <1>4, <2>1, RevealStep
  <2> QED BY <1>3, <1>4, <2>2
<1>5. CASE ~next.new BY <1>3, <1>5
<1> QED BY <1>4, <1>5

LEMMA RevealNextSpkStep ==
  ASSUME NEW ix, IndexInv(ix), NEW k \in Keychain, ix.descriptor[k] # None
  PROVE  IndexStep(ix, RevealNext(Start(ix), k)) /\ IndexStep(ix, RevealNextSpk(ix, k))
<1>1. ix \in Index BY DEF IndexInv
<1>2. IndexStep(ix, Start(ix)) BY <1>1, StartStep
<1>3. IndexStep(ix, RevealNext(Start(ix), k)) BY <1>1, <1>2, RevealNextStep
<1> QED BY <1>1, <1>3, EmptyStageStep DEF RevealNextSpk

LEMMA NextUnusedStep ==
  ASSUME NEW ix, IndexInv(ix), NEW k \in Keychain, ix.descriptor[k] # None
  PROVE  IndexStep(ix, NextUnusedSpk(ix, k))
<1>1. ix \in Index BY DEF IndexInv
<1>2. IndexStep(ix, EmptyStage(Start(ix))) BY <1>1, StartStep, EmptyStageStep
<1> QED BY <1>2, RevealNextSpkStep DEF NextUnusedSpk

LEMMA RevealToTargetStep ==
  ASSUME NEW ix, IndexInv(ix), NEW k \in Keychain, ix.descriptor[k] # None, NEW target \in Nat
  PROVE  IndexStep(ix, RevealToTarget(ix, k, target))
<1> DEFINE S == {r \in IndexResult : IndexStep(ix, r)}
<1>1. ix \in Index BY DEF IndexInv
<1>2. Start(ix) \in S BY <1>1, StartStep DEF IndexStep
<1>3. ASSUME NEW r \in S, NEW x \in Nat PROVE RevealUpTo(r, k, x) \in S
  <2>1. IndexStep(ix, RevealNext(r, k)) BY <1>1, <1>3, RevealNextStep
  <2>2. RevealNext(r, k) \in S BY <2>1 DEF IndexStep
  <2> QED BY <1>3, <2>2 DEF RevealUpTo
<1>4. Rounds(target) \in Seq(Nat) BY DEF Rounds
<1> HIDE DEF S
<1>5. PICK e \in S : RevealToTarget(ix, k, target) = EmptyStage(e) BY <1>2, <1>3, <1>4, RevealLoop
<1>6. IndexStep(ix, e) BY DEF S
<1> QED BY <1>1, <1>5, <1>6, EmptyStageStep

(* Deriving more scripts than the lookahead asks for. *)
LEMMA ReplenishInv ==
  ASSUME NEW ix, IndexInv(ix), NEW k \in Keychain, ix.descriptor[k] # None, NEW lookahead \in Nat
  PROVE  /\ IndexInv(Replenish(ix, k, lookahead))
         /\ Replenish(ix, k, lookahead).descriptor = ix.descriptor
         /\ Replenish(ix, k, lookahead).last_revealed = ix.last_revealed
<1> DEFINE r == Replenish(ix, k, lookahead)
<1>1. ix \in Index /\ Unique(ix) /\ Derived(ix) /\ Ahead(ix) /\ Paid(ix) BY DEF IndexInv
<1>2. /\ r \in Index
      /\ r.descriptor = ix.descriptor /\ r.last_revealed = ix.last_revealed /\ r.txouts = ix.txouts
      /\ ix.spks \subseteq r.spks
      /\ \A p \in ix.spks : p \in r.unused => p \in ix.unused
      /\ Derived(r)
  BY <1>1, ReplenishFacts
<1> HIDE DEF r
<1>3. \A d : /\ StopIndex(r, d, Lookahead) = StopIndex(ix, d, Lookahead)
             /\ NextReveal(r, d) = NextReveal(ix, d)
  BY <1>2, StopIndexSame
<1>4. Unique(r) BY <1>1, <1>2 DEF Unique
<1>5. Ahead(r) BY <1>1, <1>2, <1>3, Zenon DEF Ahead, AheadOf
<1>6. Paid(r) BY <1>1, <1>2, <1>3, Zenon DEF Paid
<1> QED BY <1>2, <1>4, <1>5, <1>6 DEF IndexInv, r

LEMMA LookaheadStep ==
  ASSUME NEW ix, IndexInv(ix), NEW k \in Keychain, ix.descriptor[k] # None, NEW target \in Nat
  PROVE  IndexStep(ix, LookaheadToTarget(ix, k, target))
<1> DEFINE next == NextIndex(ix, k).index
           more == target + 1 - next
           jx == IF target + 1 > next THEN Replenish(ix, k, more) ELSE ix
<1>1. ix \in Index BY DEF IndexInv
<1>2. next \in 0 .. BIP32_MAX_INDEX /\ BIP32_MAX_INDEX \in Nat BY <1>1, NextIndexFacts, IndexAssumption
<1>3. LookaheadToTarget(ix, k, target) = EmptyStage(Start(jx)) BY DEF LookaheadToTarget
<1> HIDE DEF next
<1>4. target + 1 > next => more \in Nat BY <1>2
<1> HIDE DEF more
<1>5. IndexInv(jx) /\ jx.descriptor = ix.descriptor /\ jx.last_revealed = ix.last_revealed
  BY <1>4, ReplenishInv
<1> HIDE DEF jx
<1> QED BY <1>1, <1>3, <1>5, StartStep, EmptyStageStep

LEMMA MarkStep ==
  ASSUME NEW ix, IndexInv(ix), NEW p \in Position
  PROVE  IndexStep(ix, Start(MarkUsed(ix, p))) /\ IndexStep(ix, Start(UnmarkUsed(ix, p)))
<1>1. ix \in Index /\ Unique(ix) /\ Derived(ix) /\ Ahead(ix) /\ Paid(ix) BY DEF IndexInv
<1>2. ASSUME NEW jx, NEW unused \in SUBSET Position, jx = [ix EXCEPT !.unused = unused],
             \A op \in OutPoint : ix.txouts[op] # None => ix.txouts[op] \notin unused
      PROVE  IndexStep(ix, Start(jx))
  <2>1. /\ jx \in Index /\ jx.descriptor = ix.descriptor /\ jx.last_revealed = ix.last_revealed
        /\ jx.spks = ix.spks /\ jx.txouts = ix.txouts /\ jx.unused = unused
    BY <1>1, <1>2 DEF Index
  <2>2. \A d : /\ StopIndex(jx, d, Lookahead) = StopIndex(ix, d, Lookahead)
               /\ NextReveal(jx, d) = NextReveal(ix, d)
    BY <2>1, StopIndexSame
  <2>3. Unique(jx) /\ Derived(jx) BY <1>1, <2>1 DEF Unique, Derived
  <2>4. Ahead(jx) BY <1>1, <2>1, <2>2, Zenon DEF Ahead, AheadOf
  <2>5. Paid(jx) BY <1>1, <1>2, <2>1, <2>2, Zenon DEF Paid
  <2>6. IndexInv(jx) BY <2>1, <2>3, <2>4, <2>5 DEF IndexInv
  <2> QED BY <1>1, <2>1, <2>6, StartStep
<1>3. \A op \in OutPoint : ix.txouts[op] # None => ix.txouts[op] \notin ix.unused BY <1>1 DEF Paid
<1>4. ix.unused \in SUBSET Position BY <1>1 DEF Index
<1>5. IndexStep(ix, Start(MarkUsed(ix, p)))
  <2>1. ix.unused \ {p} \in SUBSET Position BY <1>4
  <2>2. MarkUsed(ix, p) = [ix EXCEPT !.unused = ix.unused \ {p}] BY DEF MarkUsed
  <2>3. \A op \in OutPoint : ix.txouts[op] # None => ix.txouts[op] \notin ix.unused \ {p} BY <1>3
  <2> QED BY <1>2, <2>1, <2>2, <2>3
<1>6. IndexStep(ix, Start(UnmarkUsed(ix, p)))
  <2>1. CASE p \notin ix.spks \/ OutputsAt(ix, p) # {}
    <3>1. UnmarkUsed(ix, p) = ix BY <2>1 DEF UnmarkUsed
    <3> QED BY <1>1, <3>1, StartStep
  <2>2. CASE ~(p \notin ix.spks \/ OutputsAt(ix, p) # {})
    <3>1. UnmarkUsed(ix, p) = [ix EXCEPT !.unused = ix.unused \cup {p}] BY <2>2 DEF UnmarkUsed
    <3>2. ix.unused \cup {p} \in SUBSET Position BY <1>4
    <3>3. \A op \in OutPoint : ix.txouts[op] # None => ix.txouts[op] \notin ix.unused \cup {p}
      BY <1>3, <2>2 DEF OutputsAt
    <3> QED BY <1>2, <3>1, <3>2, <3>3
  <2> QED BY <2>1, <2>2
<1> QED BY <1>5, <1>6

-----------------------------------------------------------------------------
(* Loading the index. *)

LEMMA RaisedEmpty ==
  ASSUME NEW cs \in IndexChange, NEW r, r = Raised(EmptyIndex, cs)
  PROVE  /\ IndexInv(r) /\ r.last_revealed = cs.last_revealed
         /\ \A k \in Keychain : r.descriptor[k] = None
<1> DEFINE none == [k \in Keychain |-> None]
           unpaid == [op \in OutPoint |-> None]
           last == [d \in Descriptor |-> Latest(EmptyIndex.last_revealed[d], cs.last_revealed[d])]
           cache == IF PersistSpks THEN EmptyIndex.spk_cache \cup cs.spk_cache ELSE EmptyIndex.spk_cache
<1>1. cs.last_revealed \in LastRevealed /\ cs.spk_cache \in SUBSET Script BY DEF IndexChange
<1>2. last = [d \in Descriptor |-> cs.last_revealed[d]]
  <2>1. \A d \in Descriptor : EmptyIndex.last_revealed[d] = None BY DEF EmptyIndex
  <2>2. \A d \in Descriptor : Latest(None, cs.last_revealed[d]) = cs.last_revealed[d] BY DEF Latest
  <2> QED BY <2>1, <2>2
<1>3. last = cs.last_revealed BY <1>1, <1>2 DEF LastRevealed
<1>4. cache \in SUBSET Script BY <1>1 DEF EmptyIndex
<1>5. r = [EmptyIndex EXCEPT !.spk_cache = cache, !.last_revealed = last] BY DEF Raised
<1>6. none \in Assignment /\ unpaid \in Payments BY DEF Assignment, Payments
<1>7. \A k \in Keychain : none[k] = None OBVIOUS
<1>8. \A op \in OutPoint : unpaid[op] = None OBVIOUS
<1>9. /\ EmptyIndex.descriptor = none /\ EmptyIndex.spks = {} /\ EmptyIndex.unused = {}
      /\ EmptyIndex.txouts = unpaid /\ EmptyIndex.spk_cache_stage = {}
  BY DEF EmptyIndex
<1> HIDE DEF none, unpaid, last, cache
<1>10. r = [descriptor |-> none, last_revealed |-> last, spks |-> {}, unused |-> {}, txouts |-> unpaid,
            spk_cache |-> cache, spk_cache_stage |-> {}]
  BY <1>5 DEF EmptyIndex, none, unpaid
<1>11. /\ r \in Index /\ r.descriptor = none /\ r.last_revealed = last /\ r.spks = {} /\ r.txouts = unpaid
  BY <1>1, <1>3, <1>4, <1>6, <1>10 DEF Index
<1>12. Unique(r) /\ Derived(r) /\ Ahead(r) /\ Paid(r)
  BY <1>7, <1>8, <1>11 DEF Unique, Derived, Ahead, Paid
<1> QED BY <1>3, <1>7, <1>11, <1>12 DEF IndexInv

(* On an index without descriptors, apply_changeset derives nothing. *)
LEMMA AppliedEmpty ==
  ASSUME NEW cs \in IndexChange
  PROVE  ApplyIndexChangeset(EmptyIndex, cs) = Raised(EmptyIndex, cs)
<1> DEFINE raised == Raised(EmptyIndex, cs)
           S == {raised}
<1>1. \A k \in Keychain : raised.descriptor[k] = None BY RaisedEmpty
<1>2. Listing(Keychain) \in Seq(Keychain) BY KeychainAssumption, ListingFacts
<1>3. raised \in S OBVIOUS
<1>4. \A r \in S, k \in Keychain : ReplenishNamed(r, k, cs) \in S BY <1>1 DEF ReplenishNamed
<1> HIDE DEF S
<1>5. ApplyIndexChangeset(EmptyIndex, cs) \in S BY <1>2, <1>3, <1>4, ApplyIndexLoop
<1> QED BY <1>5 DEF S

LEMMA AssignFacts ==
  ASSUME NEW ix, IndexInv(ix), NEW k \in Keychain, NEW d \in Descriptor, CanAssign(ix, k, d),
         NEW r, r = InsertDescriptor(ix, k, d)
  PROVE  /\ IndexInv(r) /\ r.last_revealed = ix.last_revealed
         /\ r.descriptor = [ix.descriptor EXCEPT ![k] = d]
<1> DEFINE assigned == [ix.descriptor EXCEPT ![k] = d]
           jx == [ix EXCEPT !.descriptor[k] = d]
<1>1. ix \in Index /\ Unique(ix) /\ Derived(ix) /\ Ahead(ix) /\ Paid(ix) BY DEF IndexInv
<1>2. ix.descriptor \in Assignment /\ ix.descriptor[k] = None /\ \A j \in Keychain : ix.descriptor[j] # d
  BY <1>1 DEF Index, CanAssign
<1>3. assigned \in Assignment /\ assigned[k] = d /\ \A j \in Keychain : j # k => assigned[j] = ix.descriptor[j]
  BY <1>2 DEF Assignment
<1>4. jx = [ix EXCEPT !.descriptor = assigned] BY <1>1 DEF Index
<1>5. r = Replenish(jx, k, Lookahead) BY DEF InsertDescriptor
<1>6. d # None /\ Lookahead \in Nat BY KeychainAssumption, IndexAssumption
<1> HIDE DEF assigned, jx
<1>7. /\ jx \in Index /\ jx.descriptor = assigned /\ jx.last_revealed = ix.last_revealed
      /\ jx.spks = ix.spks /\ jx.unused = ix.unused /\ jx.txouts = ix.txouts
  BY <1>1, <1>3, <1>4 DEF Index
<1>8. \A i \in Nat : <<k, i>> \notin ix.spks BY <1>1, <1>2 DEF Derived
<1>9. Unique(jx)
  <2> SUFFICES ASSUME NEW i \in Keychain, NEW j \in Keychain,
                      assigned[i] # None, assigned[i] = assigned[j]
               PROVE  i = j
    BY <1>7 DEF Unique
  <2>1. CASE i = k BY <1>2, <1>3, <2>1
  <2>2. CASE j = k BY <1>2, <1>3, <2>2
  <2>3. CASE i # k /\ j # k BY <1>1, <1>3, <2>3 DEF Unique
  <2> QED BY <2>1, <2>2, <2>3
<1>10. Derived(jx)
  <2> SUFFICES ASSUME NEW j \in Keychain, NEW i \in Nat, <<j, i>> \in ix.spks
               PROVE  assigned[j] # None /\ \A h \in 0 .. i : <<j, h>> \in ix.spks
    BY <1>7 DEF Derived
  <2>1. j # k BY <1>8
  <2> QED BY <1>1, <1>3, <2>1 DEF Derived
<1>11. /\ r \in Index
       /\ r.descriptor = jx.descriptor /\ r.last_revealed = jx.last_revealed /\ r.txouts = jx.txouts
       /\ jx.spks \subseteq r.spks
       /\ \A p \in jx.spks : p \in r.unused => p \in jx.unused
       /\ Derived(r)
       /\ \A i \in Nat : i < StopIndex(jx, jx.descriptor[k], Lookahead) => <<k, i>> \in r.spks
  <2>1. jx.descriptor[k] # None BY <1>3, <1>6, <1>7
  <2> QED BY <1>5, <1>6, <1>7, <1>9, <1>10, <2>1, ReplenishFacts
<1>12. Unique(r) BY <1>9, <1>11 DEF Unique
<1>13. \A e : /\ StopIndex(r, e, Lookahead) = StopIndex(ix, e, Lookahead)
              /\ StopIndex(r, e, Lookahead) = StopIndex(jx, e, Lookahead)
              /\ NextReveal(r, e) = NextReveal(ix, e)
  BY <1>7, <1>11, StopIndexSame
<1>14. ASSUME NEW j \in Keychain, r.descriptor[j] # None PROVE AheadOf(r, j)
  <2>1. CASE j = k BY <1>11, <1>13, <2>1 DEF AheadOf
  <2>2. CASE j # k
    <3>1. r.descriptor[j] = ix.descriptor[j] BY <1>3, <1>7, <1>11, <2>2
    <3>2. AheadOf(ix, j) BY <1>1, <1>14, <3>1 DEF Ahead
    <3> QED BY <1>7, <1>11, <1>13, <3>1, <3>2 DEF AheadOf
  <2> QED BY <2>1, <2>2
<1>15. ASSUME NEW op \in OutPoint, r.txouts[op] # None
       PROVE  /\ r.txouts[op] \in r.spks /\ r.txouts[op] \notin r.unused
              /\ r.txouts[op][2] < NextReveal(r, r.descriptor[r.txouts[op][1]])
  <2> DEFINE p == ix.txouts[op]
  <2>1. r.txouts[op] = p /\ p # None BY <1>7, <1>11, <1>15
  <2>2. p \in ix.spks /\ p \notin ix.unused /\ p[2] < NextReveal(ix, ix.descriptor[p[1]])
    BY <1>1, <2>1 DEF Paid
  <2> HIDE DEF p
  <2>3. p[1] \in Keychain /\ p[2] \in Nat /\ p = <<p[1], p[2]>> BY <1>1, <2>2, IndexAssumption DEF Index, Position
  <2>4. p[1] # k BY <1>8, <2>2, <2>3
  <2>5. r.descriptor[p[1]] = ix.descriptor[p[1]] BY <1>3, <1>7, <1>11, <2>3, <2>4
  <2> QED BY <1>7, <1>11, <1>13, <2>1, <2>2, <2>5
<1>16. Ahead(r) /\ Paid(r) BY <1>14, <1>15 DEF Ahead, Paid
<1> QED BY <1>7, <1>11, <1>12, <1>16 DEF IndexInv, assigned

(* Once loaded every keychain has its descriptor. *)
LEMMA DescriptorsAssigned ==
  ASSUME NEW ix, IndexInv(ix), \A k \in Keychain : ix.descriptor[k] = None
  PROVE  /\ IndexInv(WithDescriptors(ix)) /\ Assigned(WithDescriptors(ix))
         /\ WithDescriptors(ix).last_revealed = ix.last_revealed
<1> DEFINE Partly(jx) == /\ IndexInv(jx) /\ jx.last_revealed = ix.last_revealed
                         /\ \A k \in Keychain : jx.descriptor[k] \in {None, DescriptorOf[k]}
           S == {jx \in Index : Partly(jx)}
           ks == Listing(Keychain)
           n == Len(ks)
           Add(jx, k) == InsertDescriptor(jx, k, DescriptorOf[k])
<1>1. ix \in S BY DEF IndexInv
<1>2. \A k \in Keychain : DescriptorOf[k] \in Descriptor /\ DescriptorOf[k] # None BY KeychainAssumption
<1>3. ASSUME NEW jx \in S, NEW k \in Keychain
      PROVE  /\ Add(jx, k) \in S /\ Add(jx, k).descriptor[k] = DescriptorOf[k]
             /\ \A j \in Keychain : jx.descriptor[j] = DescriptorOf[j] => Add(jx, k).descriptor[j] = DescriptorOf[j]
  <2> DEFINE r == Add(jx, k)
  <2>1. Partly(jx) /\ jx \in Index OBVIOUS
  <2>2. CASE jx.descriptor[k] = DescriptorOf[k]
    <3>1. r = jx BY <1>2, <2>2 DEF InsertDescriptor, CanAssign
    <3> QED BY <2>1, <2>2, <3>1
  <2>3. CASE jx.descriptor[k] # DescriptorOf[k]
    <3>1. jx.descriptor[k] = None BY <2>1, <2>3
    <3>2. \A j \in Keychain : jx.descriptor[j] # DescriptorOf[k]
      BY <1>2, <2>1, <2>3, KeychainAssumption
    <3>3. CanAssign(jx, k, DescriptorOf[k]) BY <3>1, <3>2 DEF CanAssign
    <3>4. /\ IndexInv(r) /\ r.last_revealed = jx.last_revealed
          /\ r.descriptor = [jx.descriptor EXCEPT ![k] = DescriptorOf[k]]
      BY <1>2, <2>1, <3>3, AssignFacts
    <3> HIDE DEF r
    <3>5. jx.descriptor \in Assignment BY <2>1 DEF Index
    <3>6. \A j \in Keychain : r.descriptor[j] = IF j = k THEN DescriptorOf[k] ELSE jx.descriptor[j]
      BY <3>4, <3>5 DEF Assignment
    <3>7. Partly(r) BY <2>1, <3>4, <3>6
    <3>8. r \in S BY <3>4, <3>7 DEF IndexInv
    <3> QED BY <3>6, <3>8 DEF r
  <2> QED BY <2>2, <2>3
<1>4. /\ ks \in Seq(Keychain) /\ \A k \in Keychain : \E i \in 1 .. n : ks[i] = k
  BY KeychainAssumption, ListingFacts
<1>5. \A jx \in S, k \in Keychain : InsertDescriptor(jx, k, DescriptorOf[k]) \in S BY <1>3
<1> HIDE DEF S
<1>6. PICK c :
        /\ c[0] = ix /\ WithDescriptors(ix) = c[Len(Listing(Keychain))]
        /\ \A i \in 0 .. Len(Listing(Keychain)) : c[i] \in S
        /\ \A i \in 1 .. Len(Listing(Keychain)) :
             /\ Listing(Keychain)[i] \in Keychain
             /\ c[i] = InsertDescriptor(c[i - 1], Listing(Keychain)[i], DescriptorOf[Listing(Keychain)[i]])
  <2>1. Listing(Keychain) \in Seq(Keychain) BY <1>4
  <2> QED BY <1>1, <1>5, <2>1, DescriptorLoop
<1>7. n \in Nat BY <1>4
<1>8. /\ WithDescriptors(ix) = c[n] /\ \A i \in 0 .. n : c[i] \in S
      /\ \A i \in 1 .. n : ks[i] \in Keychain /\ c[i] = Add(c[i - 1], ks[i])
  BY <1>6
<1> HIDE DEF n, ks, Add
<1> DEFINE T == {i \in 0 .. n : \A j \in 1 .. i : c[i].descriptor[ks[j]] = DescriptorOf[ks[j]]}
<1>9. 0 \in T BY <1>7
<1>10. ASSUME NEW i \in 1 .. n, i - 1 \in T PROVE i \in T
  <2>1. i - 1 \in 0 .. n /\ i \in 0 .. n BY <1>7
  <2>2. c[i - 1] \in S /\ ks[i] \in Keychain /\ c[i] = Add(c[i - 1], ks[i]) BY <1>8, <2>1
  <2>3. ASSUME NEW j \in 1 .. i PROVE c[i].descriptor[ks[j]] = DescriptorOf[ks[j]]
    <3>1. CASE j = i BY <1>3, <2>2, <3>1
    <3>2. CASE j # i
      <4>1. j \in 1 .. i - 1 /\ j \in 1 .. n BY <1>7, <3>2
      <4>2. c[i - 1].descriptor[ks[j]] = DescriptorOf[ks[j]] BY <1>10, <4>1
      <4>3. ks[j] \in Keychain BY <1>8, <4>1
      <4> QED BY <1>3, <2>2, <4>2, <4>3
    <3> QED BY <3>1, <3>2
  <2> QED BY <2>1, <2>3
<1>11. \A i \in 0 .. n : i \in T
  <2> HIDE DEF T
  <2> QED BY <1>7, <1>9, <1>10, InductionUpTo
<1>12. n \in 0 .. n BY <1>7
<1>13. c[n] \in S /\ n \in T BY <1>8, <1>11, <1>12
<1>14. \A k \in Keychain : c[n].descriptor[k] = DescriptorOf[k]
  <2> TAKE k \in Keychain
  <2>1. PICK i \in 1 .. n : ks[i] = k BY <1>4
  <2> QED BY <1>13, <2>1
<1>15. Partly(c[n]) BY <1>13 DEF S
<1> QED BY <1>2, <1>8, <1>14, <1>15 DEF Assigned

LEMMA IndexLoaded ==
  ASSUME NEW cs \in IndexChange, NEW ix, ix = WithDescriptors(ApplyIndexChangeset(EmptyIndex, cs))
  PROVE  IndexInv(ix) /\ Assigned(ix) /\ ix.last_revealed = cs.last_revealed
<1> DEFINE raised == Raised(EmptyIndex, cs)
<1>1. ix = WithDescriptors(raised) BY AppliedEmpty
<1>2. /\ IndexInv(raised) /\ raised.last_revealed = cs.last_revealed
      /\ \A k \in Keychain : raised.descriptor[k] = None
  BY RaisedEmpty
<1> HIDE DEF raised
<1> QED BY <1>1, <1>2, DescriptorsAssigned

-----------------------------------------------------------------------------
(* The graph.  All versions of a transaction have the same outputs, and an   *)
(* output that is told of on its own is one of them.                         *)

Times == [Txid -> Time \cup {None}]
Floats == [OutPoint -> Spk \cup {None}]
Anchors == [Txid -> SUBSET Block]
Txs == [Txid -> Tx \cup {None}]
Heights == Nat \cup {TopHeight(anchors) : anchors \in SUBSET Block}

Versions(t) ==
  {v \in Tx : \E u \in TxOf[t] :
     v.input = u.input /\ v.output = u.output /\ DOMAIN v.witness = DOMAIN u.witness}
Versioned == {x \in Txid \X Tx : x[2] \in Versions(x[1])}
OutputsOf(t) == {x \in TxOut : \E v \in TxOf[t] : \E i \in DOMAIN v.output : x = Outputs(t, v)[i]}

Graph ==
  [txs : Txs, txouts : Floats, anchors : Anchors, first_seen : Times, last_seen : Times,
   last_evicted : Times, by_conf_height : SUBSET (Heights \X Txid), by_last_seen : SUBSET (Time \X Txid)]
Change ==
  [txs : SUBSET (Txid \X Tx), txouts : Floats, anchors : SUBSET (Block \X Txid),
   first_seen : Times, last_seen : Times, last_evicted : Times]

ToldOnly(txouts) == \A op \in OutPoint : txouts[op] # None => <<op, txouts[op]>> \in Told
GraphInv(g) ==
  /\ g \in Graph /\ ToldOnly(g.txouts)
  /\ \A t \in Txid : g.txs[t] # None => g.txs[t] \in Versions(t)
ChangeInv(cs) ==
  /\ cs \in Change /\ ToldOnly(cs.txouts)
  /\ cs.txs \subseteq Versioned /\ IsFiniteSet(cs.txs)

(* What a change set says, but for witnesses and first sightings: unions and *)
(* later times add up what several say.                                      *)
Spoken(ids, floats) == (UNION {OutputsOf(t) : t \in ids}) \cup Entries(floats)
Ids(cs) == {x[1] : x \in cs.txs}
Digest(cs) ==
  [ids |-> Ids(cs), outs |-> Spoken(Ids(cs), cs.txouts),
   anchors |-> cs.anchors, seen |-> cs.last_seen, evicted |-> cs.last_evicted]
Held(g) ==
  [ids |-> Whole(g), outs |-> Spoken(Whole(g), g.txouts),
   anchors |-> UNION {g.anchors[t] \X {t} : t \in Txid}, seen |-> g.last_seen, evicted |-> g.last_evicted]

Digests ==
  [ids : SUBSET Txid, outs : SUBSET TxOut, anchors : SUBSET (Block \X Txid), seen : Times, evicted : Times]
LatestOf(m, n) == [t \in Txid |-> Latest(m[t], n[t])]
Join(d, e) ==
  [ids |-> d.ids \cup e.ids, outs |-> d.outs \cup e.outs, anchors |-> d.anchors \cup e.anchors,
   seen |-> LatestOf(d.seen, e.seen), evicted |-> LatestOf(d.evicted, e.evicted)]
Before(m, n) == \A t \in Txid : AtMost(m[t], n[t])
Within(d, e) ==
  /\ d.ids \subseteq e.ids /\ d.outs \subseteq e.outs /\ d.anchors \subseteq e.anchors
  /\ Before(d.seen, e.seen) /\ Before(d.evicted, e.evicted)

LEMMA TimesType ==
  ASSUME NEW m \in Times, NEW t \in Txid
  PROVE  m[t] \in Time \cup {None} /\ m[t] \in Optional
BY GraphAssumption DEF Times, Optional

LEMMA LatestOfFacts ==
  ASSUME NEW m \in Times, NEW n \in Times
  PROVE  /\ LatestOf(m, n) \in Times
         /\ Before(m, LatestOf(m, n)) /\ Before(n, LatestOf(m, n))
         /\ \A t \in Txid : LatestOf(m, n)[t] = Latest(m[t], n[t])
<1>1. \A t \in Txid : LatestOf(m, n)[t] = Latest(m[t], n[t]) BY DEF LatestOf
<1>2. ASSUME NEW t \in Txid
      PROVE  /\ Latest(m[t], n[t]) \in Time \cup {None}
             /\ AtMost(m[t], LatestOf(m, n)[t]) /\ AtMost(n[t], LatestOf(m, n)[t])
  <2>1. m[t] \in Time \cup {None} /\ n[t] \in Time \cup {None} /\ m[t] \in Optional /\ n[t] \in Optional
    BY TimesType
  <2>2. /\ Latest(m[t], n[t]) \in {m[t], n[t]}
        /\ AtMost(m[t], Latest(m[t], n[t])) /\ AtMost(n[t], Latest(m[t], n[t]))
    BY <2>1, LatestFacts
  <2> QED BY <1>1, <2>1, <2>2
<1>3. LatestOf(m, n) \in Times BY <1>2 DEF LatestOf, Times
<1> QED BY <1>1, <1>2, <1>3 DEF Before

LEMMA TimesEqual ==
  ASSUME NEW m \in Times, NEW n \in Times, \A t \in Txid : m[t] = n[t]
  PROVE  m = n
BY DEF Times

LEMMA LatestOfAssociative ==
  ASSUME NEW l \in Times, NEW m \in Times, NEW n \in Times
  PROVE  LatestOf(LatestOf(l, m), n) = LatestOf(l, LatestOf(m, n))
<1>1. /\ LatestOf(l, m) \in Times /\ \A t \in Txid : LatestOf(l, m)[t] = Latest(l[t], m[t])
      /\ LatestOf(m, n) \in Times /\ \A t \in Txid : LatestOf(m, n)[t] = Latest(m[t], n[t])
  BY LatestOfFacts
<1>2. /\ LatestOf(LatestOf(l, m), n) \in Times
      /\ \A t \in Txid : LatestOf(LatestOf(l, m), n)[t] = Latest(LatestOf(l, m)[t], n[t])
      /\ LatestOf(l, LatestOf(m, n)) \in Times
      /\ \A t \in Txid : LatestOf(l, LatestOf(m, n))[t] = Latest(l[t], LatestOf(m, n)[t])
  BY <1>1, LatestOfFacts
<1>3. ASSUME NEW t \in Txid
      PROVE  LatestOf(LatestOf(l, m), n)[t] = LatestOf(l, LatestOf(m, n))[t]
  <2>1. l[t] \in Optional /\ m[t] \in Optional /\ n[t] \in Optional BY TimesType
  <2>2. Latest(Latest(l[t], m[t]), n[t]) = Latest(l[t], Latest(m[t], n[t])) BY <2>1, LatestAssociative
  <2> QED BY <1>1, <1>2, <2>2, Zenon
<1> QED BY <1>2, <1>3, TimesEqual

LEMMA BeforeTransitive ==
  ASSUME NEW l \in Times, NEW m \in Times, NEW n \in Times, Before(l, m), Before(m, n)
  PROVE  Before(l, n)
<1>1. SUFFICES ASSUME NEW t \in Txid PROVE AtMost(l[t], n[t]) BY DEF Before
<1>2. l[t] \in Optional /\ m[t] \in Optional /\ n[t] \in Optional BY TimesType
<1>3. AtMost(l[t], m[t]) /\ AtMost(m[t], n[t]) BY DEF Before
<1> QED BY <1>2, <1>3, AtMostTransitive

LEMMA BeforeJoined ==
  ASSUME NEW l \in Times, NEW m \in Times, NEW n \in Times, Before(l, n), Before(m, n)
  PROVE  Before(LatestOf(l, m), n)
<1>1. SUFFICES ASSUME NEW t \in Txid PROVE AtMost(LatestOf(l, m)[t], n[t]) BY DEF Before
<1>2. l[t] \in Optional /\ m[t] \in Optional BY TimesType
<1>3. Latest(l[t], m[t]) \in {l[t], m[t]} BY <1>2, LatestFacts
<1>4. LatestOf(l, m)[t] = Latest(l[t], m[t]) BY LatestOfFacts
<1>5. AtMost(l[t], n[t]) /\ AtMost(m[t], n[t]) BY DEF Before
<1> QED BY <1>3, <1>4, <1>5

LEMMA BeforeBoth ==
  ASSUME NEW m \in Times, NEW n \in Times, Before(m, n), Before(n, m)
  PROVE  m = n
<1>1. ASSUME NEW t \in Txid PROVE m[t] = n[t]
  <2>1. m[t] \in Optional /\ n[t] \in Optional BY TimesType
  <2>2. AtMost(m[t], n[t]) /\ AtMost(n[t], m[t]) BY DEF Before
  <2> QED BY <2>1, <2>2, KeychainAssumption DEF AtMost, Optional
<1> QED BY <1>1, TimesEqual

(* The digests: adding up is associative, and contains what is added. *)
LEMMA JoinFacts ==
  ASSUME NEW d \in Digests, NEW e \in Digests
  PROVE  Join(d, e) \in Digests /\ Within(d, Join(d, e)) /\ Within(e, Join(d, e))
<1>1. d.seen \in Times /\ e.seen \in Times /\ d.evicted \in Times /\ e.evicted \in Times BY DEF Digests
<1>2. /\ LatestOf(d.seen, e.seen) \in Times /\ LatestOf(d.evicted, e.evicted) \in Times
      /\ Before(d.seen, LatestOf(d.seen, e.seen)) /\ Before(e.seen, LatestOf(d.seen, e.seen))
      /\ Before(d.evicted, LatestOf(d.evicted, e.evicted)) /\ Before(e.evicted, LatestOf(d.evicted, e.evicted))
  BY <1>1, LatestOfFacts
<1> QED BY <1>2 DEF Digests, Join, Within

LEMMA JoinAssociative ==
  ASSUME NEW c \in Digests, NEW d \in Digests, NEW e \in Digests
  PROVE  Join(Join(c, d), e) = Join(c, Join(d, e))
<1>1. /\ c.seen \in Times /\ d.seen \in Times /\ e.seen \in Times
      /\ c.evicted \in Times /\ d.evicted \in Times /\ e.evicted \in Times
  BY DEF Digests
<1>2. /\ LatestOf(LatestOf(c.seen, d.seen), e.seen) = LatestOf(c.seen, LatestOf(d.seen, e.seen))
      /\ LatestOf(LatestOf(c.evicted, d.evicted), e.evicted) = LatestOf(c.evicted, LatestOf(d.evicted, e.evicted))
  BY <1>1, LatestOfAssociative
<1> QED BY <1>2 DEF Join

LEMMA WithinFacts ==
  ASSUME NEW c \in Digests, NEW d \in Digests, NEW e \in Digests
  PROVE  /\ Within(c, d) /\ Within(d, e) => Within(c, e)
         /\ Within(c, e) /\ Within(d, e) => Within(Join(c, d), e)
         /\ Within(c, d) /\ Within(d, c) => c = d
<1>1. /\ c.seen \in Times /\ d.seen \in Times /\ e.seen \in Times
      /\ c.evicted \in Times /\ d.evicted \in Times /\ e.evicted \in Times
  BY DEF Digests
<1>2. Within(c, d) /\ Within(d, e) => Within(c, e)
  BY <1>1, BeforeTransitive DEF Within
<1>3. Within(c, e) /\ Within(d, e) => Within(Join(c, d), e)
  BY <1>1, BeforeJoined DEF Within, Join
<1>4. ASSUME Within(c, d), Within(d, c) PROVE c = d
  <2>1. c.seen = d.seen /\ c.evicted = d.evicted BY <1>1, <1>4, BeforeBoth DEF Within
  <2>2. c.ids = d.ids /\ c.outs = d.outs /\ c.anchors = d.anchors BY <1>4 DEF Within
  <2> QED BY <2>1, <2>2 DEF Digests
<1> QED BY <1>2, <1>3, <1>4

-----------------------------------------------------------------------------
(* Change sets and what they say. *)

LEMMA VersionOutputs ==
  ASSUME NEW t \in Txid, NEW v \in Versions(t)
  PROVE  /\ Outputs(t, v) \in Seq(TxOut) /\ DOMAIN v.output = 1 .. Len(v.output) /\ Len(v.output) \in Nat
         /\ v \in Tx /\ v # None
         /\ OutputsOf(t) = {Outputs(t, v)[i] : i \in DOMAIN v.output}
<1>1. PICK u \in TxOf[t] : v.input = u.input /\ v.output = u.output /\ DOMAIN v.witness = DOMAIN u.witness
  BY DEF Versions
<1>2. v \in Tx /\ TxOf[t] \subseteq Tx BY TxAssumption DEF Versions
<1>3. v.output \in Seq(Spk) BY <1>2 DEF Tx
<1>4. DOMAIN v.output = 1 .. Len(v.output) /\ Len(v.output) \in Nat /\ \A i \in DOMAIN v.output : v.output[i] \in Spk
  BY <1>3
<1>5. \A i \in DOMAIN v.output : i - 1 \in Vout BY <1>1, TxAssumption
<1>6. \A i \in DOMAIN v.output : << <<t, i - 1>>, v.output[i]>> \in TxOut BY <1>4, <1>5 DEF TxOut, OutPoint
<1>7. Outputs(t, v) \in Seq(TxOut)
  <2> DEFINE n == Len(v.output)
             Of(i) == << <<t, i - 1>>, v.output[i]>>
  <2>1. Outputs(t, v) = [i \in 1 .. n |-> Of(i)] BY <1>4 DEF Outputs
  <2>2. n \in Nat /\ \A i \in 1 .. n : Of(i) \in TxOut BY <1>4, <1>6
  <2> HIDE DEF n, Of
  <2>3. [i \in 1 .. n |-> Of(i)] \in Seq(TxOut) BY <2>2
  <2> QED BY <2>1, <2>3
<1>8. \A w \in TxOf[t] : Outputs(t, w) = Outputs(t, v) /\ DOMAIN w.output = DOMAIN v.output
  BY <1>1, TxAssumption DEF Outputs
<1>9. \A i \in DOMAIN v.output : Outputs(t, v)[i] \in TxOut BY <1>6 DEF Outputs
<1>10. OutputsOf(t) = {Outputs(t, v)[i] : i \in DOMAIN v.output} BY <1>1, <1>8, <1>9, Zenon DEF OutputsOf
<1> QED BY <1>2, <1>4, <1>7, <1>10, TxAssumption

LEMMA ToldOutput ==
  ASSUME NEW x \in Told, NEW t \in Txid, x[1][1] = t, NEW v \in Versions(t)
  PROVE  x \in OutputsOf(t)
<1>1. PICK u \in TxOf[t] : TRUE BY DEF Versions
<1>2. x \in OutPoint \X Spk BY TxAssumption
<1>3. \E i \in DOMAIN u.output : x = Outputs(t, u)[i] BY <1>1, TxAssumption
<1> QED BY <1>1, <1>2, <1>3 DEF OutputsOf, TxOut

LEMMA FloatEntries ==
  ASSUME NEW m \in Floats
  PROVE  /\ \A x : x \in Entries(m) <=> \E op \in OutPoint : m[op] # None /\ x = <<op, m[op]>>
         /\ Entries(m) \subseteq TxOut
<1>1. DOMAIN m = OutPoint /\ \A op \in OutPoint : m[op] # None => m[op] \in Spk BY DEF Floats
<1>2. \A x : x \in Entries(m) <=> \E op \in OutPoint : m[op] # None /\ x = <<op, m[op]>>
  BY <1>1, Zenon DEF Entries
<1> QED BY <1>1, <1>2 DEF TxOut

LEMMA SpokenFacts ==
  ASSUME NEW ids \in SUBSET Txid, NEW floats \in Floats
  PROVE  /\ Spoken(ids, floats) \in SUBSET TxOut
         /\ \A x : x \in Spoken(ids, floats) <=>
              (\E t \in ids : x \in OutputsOf(t)) \/ (\E op \in OutPoint : floats[op] # None /\ x = <<op, floats[op]>>)
<1>1. \A t \in ids : OutputsOf(t) \subseteq TxOut BY DEF OutputsOf
<1>2. \A x : x \in Spoken(ids, floats) <=> (\E t \in ids : x \in OutputsOf(t)) \/ x \in Entries(floats)
  <2> DEFINE all == UNION {OutputsOf(t) : t \in ids}
  <2>1. \A x : x \in all <=> \E t \in ids : x \in OutputsOf(t) OBVIOUS
  <2>2. Spoken(ids, floats) = all \cup Entries(floats) BY Zenon DEF Spoken
  <2> HIDE DEF all
  <2> QED BY <2>1, <2>2
<1>3. \A x : x \in Entries(floats) <=> \E op \in OutPoint : floats[op] # None /\ x = <<op, floats[op]>>
  BY FloatEntries
<1>4. Entries(floats) \subseteq TxOut BY FloatEntries
<1>5. Spoken(ids, floats) \in SUBSET TxOut BY <1>1, <1>2, <1>4
<1> QED BY <1>2, <1>3, <1>5, Zenon

LEMMA ChangeParts ==
  ASSUME NEW cs \in Change
  PROVE  /\ cs.txouts \in Floats /\ cs.first_seen \in Times /\ cs.last_seen \in Times /\ cs.last_evicted \in Times
         /\ cs.anchors \in SUBSET (Block \X Txid)
         /\ cs.txs \in SUBSET (Txid \X Tx) /\ Ids(cs) \in SUBSET Txid
BY DEF Change, Ids

LEMMA GraphParts ==
  ASSUME NEW g \in Graph
  PROVE  /\ g.txs \in Txs /\ g.txouts \in Floats /\ g.anchors \in Anchors
         /\ g.first_seen \in Times /\ g.last_seen \in Times /\ g.last_evicted \in Times
         /\ g.by_conf_height \in SUBSET (Heights \X Txid) /\ g.by_last_seen \in SUBSET (Time \X Txid)
         /\ Whole(g) \in SUBSET Txid
BY DEF Graph, Whole

LEMMA DigestType ==
  ASSUME NEW cs \in Change
  PROVE  Digest(cs) \in Digests
<1>1. Spoken(Ids(cs), cs.txouts) \in SUBSET TxOut BY ChangeParts, SpokenFacts
<1> QED BY <1>1, ChangeParts DEF Digest, Digests

LEMMA HeldType ==
  ASSUME NEW g \in Graph
  PROVE  /\ Held(g) \in Digests
         /\ \A x : x \in Held(g).anchors <=> x \in Block \X Txid /\ x[1] \in g.anchors[x[2]]
<1>1. Spoken(Whole(g), g.txouts) \in SUBSET TxOut BY GraphParts, SpokenFacts
<1>2. \A t \in Txid : g.anchors[t] \subseteq Block BY GraphParts DEF Anchors
<1>3. \A x : x \in UNION {g.anchors[t] \X {t} : t \in Txid} <=> x \in Block \X Txid /\ x[1] \in g.anchors[x[2]]
  BY <1>2
<1> DEFINE filed == UNION {g.anchors[t] \X {t} : t \in Txid}
<1>4. filed \in SUBSET (Block \X Txid) BY <1>3
<1> HIDE DEF filed
<1>5. Held(g) = [ids |-> Whole(g), outs |-> Spoken(Whole(g), g.txouts), anchors |-> filed,
                 seen |-> g.last_seen, evicted |-> g.last_evicted]
  BY DEF Held, filed
<1>6. Held(g) \in Digests BY <1>1, <1>4, <1>5, GraphParts DEF Digests
<1>7. Held(g).anchors = filed BY <1>5
<1> QED BY <1>3, <1>6, <1>7 DEF filed

(* What the merge of two change sets says. *)
LEMMA MergedChange ==
  ASSUME NEW cs, ChangeInv(cs), NEW other, ChangeInv(other), NEW m, m = MergeChangeSets(cs, other)
  PROVE  ChangeInv(m) /\ Digest(m) = Join(Digest(cs), Digest(other))
<1>1. cs \in Change /\ other \in Change BY DEF ChangeInv
<1>2. /\ cs.txouts \in Floats /\ cs.first_seen \in Times /\ cs.last_seen \in Times /\ cs.last_evicted \in Times
      /\ other.txouts \in Floats /\ other.first_seen \in Times /\ other.last_seen \in Times
      /\ other.last_evicted \in Times
  BY <1>1, ChangeParts
<1> DEFINE floats == [op \in OutPoint |-> IF other.txouts[op] # None THEN other.txouts[op] ELSE cs.txouts[op]]
           first == [t \in Txid |-> Earliest(cs.first_seen[t], other.first_seen[t])]
<1>3. m = [txs |-> cs.txs \cup other.txs, txouts |-> floats, anchors |-> cs.anchors \cup other.anchors,
           first_seen |-> first, last_seen |-> LatestOf(cs.last_seen, other.last_seen),
           last_evicted |-> LatestOf(cs.last_evicted, other.last_evicted)]
  BY DEF MergeChangeSets, LatestOf
<1>4. floats \in Floats /\ \A op \in OutPoint : floats[op] = IF other.txouts[op] # None THEN other.txouts[op] ELSE cs.txouts[op]
  BY <1>2 DEF Floats
<1>5. first \in Times
  <2>1. ASSUME NEW t \in Txid PROVE Earliest(cs.first_seen[t], other.first_seen[t]) \in Time \cup {None}
    <3>1. cs.first_seen[t] \in Time \cup {None} /\ other.first_seen[t] \in Time \cup {None} BY <1>2, TimesType
    <3> QED BY <3>1 DEF Earliest
  <2> QED BY <2>1 DEF Times
<1>6. LatestOf(cs.last_seen, other.last_seen) \in Times /\ LatestOf(cs.last_evicted, other.last_evicted) \in Times
  BY <1>2, LatestOfFacts
<1>7. cs.txs \cup other.txs \in SUBSET (Txid \X Tx) /\ cs.anchors \cup other.anchors \in SUBSET (Block \X Txid)
  BY <1>1 DEF Change
<1> HIDE DEF floats, first
<1>8. m \in Change BY <1>3, <1>4, <1>5, <1>6, <1>7 DEF Change
<1>9. ToldOnly(floats)
  <2>1. ToldOnly(cs.txouts) /\ ToldOnly(other.txouts) BY DEF ChangeInv
  <2> QED BY <1>4, <2>1 DEF ToldOnly
<1>10. cs.txs \cup other.txs \subseteq Versioned /\ IsFiniteSet(cs.txs \cup other.txs) BY FS_Union DEF ChangeInv
<1>11. ChangeInv(m) BY <1>3, <1>8, <1>9, <1>10 DEF ChangeInv
<1> DEFINE a == Ids(cs)
           b == Ids(other)
<1>12. Ids(m) = a \cup b BY <1>3 DEF Ids
<1>13. a \in SUBSET Txid /\ b \in SUBSET Txid /\ a \cup b \in SUBSET Txid BY <1>1, ChangeParts
<1>14. Digest(cs).outs = Spoken(a, cs.txouts) /\ Digest(other).outs = Spoken(b, other.txouts) BY DEF Digest
<1> HIDE DEF a, b
<1>15. Spoken(a \cup b, floats) = Spoken(a, cs.txouts) \cup Spoken(b, other.txouts)
  <2>1. \A op \in OutPoint : cs.txouts[op] # None /\ other.txouts[op] # None => cs.txouts[op] = other.txouts[op]
    <3>1. SUFFICES ASSUME NEW op \in OutPoint, cs.txouts[op] # None, other.txouts[op] # None
                   PROVE  cs.txouts[op] = other.txouts[op]
      OBVIOUS
    <3>2. <<op, cs.txouts[op]>> \in Told /\ <<op, other.txouts[op]>> \in Told BY <3>1 DEF ChangeInv, ToldOnly
    <3> QED BY <3>2, TxAssumption
  <2>2. \A x : (\E op \in OutPoint : floats[op] # None /\ x = <<op, floats[op]>>) <=>
                 \/ \E op \in OutPoint : cs.txouts[op] # None /\ x = <<op, cs.txouts[op]>>
                 \/ \E op \in OutPoint : other.txouts[op] # None /\ x = <<op, other.txouts[op]>>
    BY <1>4, <2>1
  <2>3. \A x : x \in Spoken(a \cup b, floats) <=>
                 \/ \E t \in a \cup b : x \in OutputsOf(t)
                 \/ \E op \in OutPoint : floats[op] # None /\ x = <<op, floats[op]>>
    BY <1>4, <1>13, SpokenFacts
  <2>4. \A x : x \in Spoken(a, cs.txouts) <=>
                 \/ \E t \in a : x \in OutputsOf(t)
                 \/ \E op \in OutPoint : cs.txouts[op] # None /\ x = <<op, cs.txouts[op]>>
    BY <1>2, <1>13, SpokenFacts
  <2>5. \A x : x \in Spoken(b, other.txouts) <=>
                 \/ \E t \in b : x \in OutputsOf(t)
                 \/ \E op \in OutPoint : other.txouts[op] # None /\ x = <<op, other.txouts[op]>>
    BY <1>2, <1>13, SpokenFacts
  <2>6. \A x : (\E t \in a \cup b : x \in OutputsOf(t)) <=> (\E t \in a : x \in OutputsOf(t)) \/ (\E t \in b : x \in OutputsOf(t))
    OBVIOUS
  <2>7. \A x : x \in Spoken(a \cup b, floats) <=> x \in Spoken(a, cs.txouts) \/ x \in Spoken(b, other.txouts)
    BY <2>2, <2>3, <2>4, <2>5, <2>6, Zenon
  <2> QED BY <2>7
<1>16. Digest(m) = [ids |-> a \cup b, outs |-> Spoken(a \cup b, floats), anchors |-> cs.anchors \cup other.anchors,
                    seen |-> LatestOf(cs.last_seen, other.last_seen),
                    evicted |-> LatestOf(cs.last_evicted, other.last_evicted)]
  BY <1>3, <1>12, SMTT(30) DEF Digest
<1>17. Digest(cs).ids = a /\ Digest(other).ids = b BY DEF Digest, a, b
<1> QED BY <1>11, <1>14, <1>15, <1>16, <1>17 DEF Digest, Join

LEMMA NothingSaid ==
  /\ ChangeInv(EmptyChangeSet)
  /\ \A d \in Digests : Join(d, Digest(EmptyChangeSet)) = d
  /\ \A t \in Txid : EmptyChangeSet.last_seen[t] = None /\ EmptyChangeSet.last_evicted[t] = None
<1> DEFINE none == [t \in Txid |-> None]
           floats == [op \in OutPoint |-> None]
<1>1. none \in Times /\ floats \in Floats /\ \A op \in OutPoint : floats[op] = None BY DEF Times, Floats
<1>2. \A t \in Txid : none[t] = None OBVIOUS
<1>3. EmptyChangeSet = [txs |-> {}, txouts |-> floats, anchors |-> {}, first_seen |-> none,
                        last_seen |-> none, last_evicted |-> none]
  BY DEF EmptyChangeSet
<1> HIDE DEF none, floats
<1>4. EmptyChangeSet \in Change BY <1>1, <1>3 DEF Change
<1>5. ChangeInv(EmptyChangeSet) BY <1>1, <1>3, <1>4, FS_EmptySet DEF ChangeInv, ToldOnly
<1>6. Spoken({}, floats) = {} BY <1>1, SpokenFacts
<1>10. Ids(EmptyChangeSet) = {} BY <1>3 DEF Ids
<1>7. Digest(EmptyChangeSet) = [ids |-> {}, outs |-> {}, anchors |-> {}, seen |-> none, evicted |-> none]
  BY <1>3, <1>6, <1>10 DEF Digest
<1>8. ASSUME NEW m \in Times PROVE LatestOf(m, none) = m
  <2>1. LatestOf(m, none) \in Times /\ \A t \in Txid : LatestOf(m, none)[t] = Latest(m[t], none[t])
    BY <1>1, LatestOfFacts
  <2>2. \A t \in Txid : Latest(m[t], None) = m[t] BY TimesType, LatestFacts DEF Optional
  <2> QED BY <1>2, <2>1, <2>2, TimesEqual
<1>9. ASSUME NEW d \in Digests PROVE Join(d, Digest(EmptyChangeSet)) = d
  <2>1. LatestOf(d.seen, none) = d.seen /\ LatestOf(d.evicted, none) = d.evicted BY <1>8 DEF Digests
  <2> QED BY <1>7, <2>1 DEF Join, Digests
<1> QED BY <1>2, <1>3, <1>5, <1>9

(* initial_changeset says what the graph holds. *)
LEMMA InitialSaid ==
  ASSUME NEW g, GraphInv(g)
  PROVE  ChangeInv(InitialChangeSet(g)) /\ Digest(InitialChangeSet(g)) = Held(g)
<1>1. g \in Graph BY DEF GraphInv
<1>2. /\ g.txs \in Txs /\ g.txouts \in Floats /\ g.first_seen \in Times /\ g.last_seen \in Times
      /\ g.last_evicted \in Times
  BY <1>1, GraphParts
<1> DEFINE txs == Entries(g.txs)
           anchors == UNION {g.anchors[t] \X {t} : t \in Txid}
<1>3. txs = {<<t, g.txs[t]>> : t \in Whole(g)} BY <1>2, Zenon DEF Entries, Whole, Txs
<1>4. \A t \in Whole(g) : t \in Txid /\ g.txs[t] \in Versions(t) /\ g.txs[t] \in Tx
  BY DEF Whole, GraphInv, Versions
<1>5. txs \subseteq Versioned /\ txs \subseteq Txid \X Tx BY <1>3, <1>4 DEF Versioned
<1>6. IsFiniteSet(txs)
  <2>1. IsFiniteSet(Whole(g)) BY FS_Subset, TxAssumption DEF Whole
  <2>2. IsFiniteSet({<<t, g.txs[t]>> : t \in Whole(g)}) 
    <3> DEFINE f == [t \in Whole(g) |-> <<t, g.txs[t]>>]
    <3>1. {f[t] : t \in Whole(g)} = {<<t, g.txs[t]>> : t \in Whole(g)} OBVIOUS
    <3>2. IsFiniteSet({f[t] : t \in Whole(g)})
      <4> HIDE DEF f
      <4> QED BY <2>1, FiniteImage
    <3> QED BY <3>1, <3>2
  <2> QED BY <1>3, <2>2
<1>7. Ids(InitialChangeSet(g)) = Whole(g)
  <2>1. \A x \in txs : x[1] \in Whole(g) BY <1>3
  <2>2. \A t \in Whole(g) : <<t, g.txs[t]>> \in txs /\ <<t, g.txs[t]>>[1] = t BY <1>3
  <2>3. InitialChangeSet(g).txs = txs BY DEF InitialChangeSet
  <2> HIDE DEF txs
  <2> QED BY <2>1, <2>2, <2>3 DEF Ids
<1>8. Held(g).anchors = anchors BY DEF Held
<1>9. anchors \in SUBSET (Block \X Txid) BY <1>1, <1>8, HeldType DEF Digests
<1>10. InitialChangeSet(g) = [txs |-> txs, txouts |-> g.txouts, anchors |-> anchors, first_seen |-> g.first_seen,
                              last_seen |-> g.last_seen, last_evicted |-> g.last_evicted]
  BY DEF InitialChangeSet
<1>11. Held(g) = [ids |-> Whole(g), outs |-> Spoken(Whole(g), g.txouts), anchors |-> anchors,
                  seen |-> g.last_seen, evicted |-> g.last_evicted]
  BY DEF Held
<1> HIDE DEF txs, anchors
<1>12. InitialChangeSet(g) \in Change BY <1>2, <1>5, <1>9, <1>10 DEF Change
<1>13. ChangeInv(InitialChangeSet(g)) BY <1>5, <1>6, <1>10, <1>12 DEF ChangeInv, GraphInv
<1> QED BY <1>7, <1>10, <1>11, <1>13 DEF Digest

-----------------------------------------------------------------------------
(* The facts of a change set are a function of its digest. *)

FactsOf(d) ==
  {<<"tx", t>> : t \in d.ids} \cup {<<"txout", x[1], x[2]>> : x \in d.outs}
    \cup {<<"anchor", x[2], x[1]>> : x \in d.anchors} \cup Until("seen", d.seen) \cup Until("evicted", d.evicted)

LEMMA FactsSaid ==
  ASSUME NEW cs, ChangeInv(cs)
  PROVE  Facts(cs) = FactsOf(Digest(cs))
<1> DEFINE whole == Ids(cs)
           of == UNION {{<<"txout", <<x[1], i - 1>>, x[2].output[i]>> : i \in DOMAIN x[2].output} : x \in cs.txs}
           alone == {<<"txout", x[1], x[2]>> : x \in {y \in Entries(cs.txouts) : y[1][1] \notin whole}}
           outs == {<<"txout", x[1], x[2]>> : x \in Spoken(whole, cs.txouts)}
<1>1. cs \in Change /\ cs.txs \subseteq Versioned /\ ToldOnly(cs.txouts) BY DEF ChangeInv
<1>2. cs.txouts \in Floats /\ whole \in SUBSET Txid BY <1>1, ChangeParts
<1>3. \A x : x \in Spoken(whole, cs.txouts) <=>
               (\E t \in whole : x \in OutputsOf(t)) \/ (\E op \in OutPoint : cs.txouts[op] # None /\ x = <<op, cs.txouts[op]>>)
  BY <1>2, SpokenFacts
<1>4. \A x : x \in Entries(cs.txouts) <=> \E op \in OutPoint : cs.txouts[op] # None /\ x = <<op, cs.txouts[op]>>
  BY <1>2, FloatEntries
<1>5. \A t \in whole : \E v \in Versions(t) : <<t, v>> \in cs.txs
  <2>1. \A x \in cs.txs : x = <<x[1], x[2]>> /\ x[2] \in Versions(x[1]) BY <1>1 DEF Versioned
  <2> QED BY <2>1 DEF Ids
<1>6. \A x \in cs.txs : x[1] \in Txid /\ x[1] \in whole /\ x[2] \in Versions(x[1]) BY <1>1 DEF Versioned, Ids
<1>7. ASSUME NEW x \in cs.txs, NEW i \in DOMAIN x[2].output
      PROVE  /\ <<"txout", <<x[1], i - 1>>, x[2].output[i]>> \in outs
             /\ <<"txout", <<x[1], i - 1>>, x[2].output[i]>> = <<"txout", Outputs(x[1], x[2])[i][1], Outputs(x[1], x[2])[i][2]>>
  <2>1. Outputs(x[1], x[2])[i] = << <<x[1], i - 1>>, x[2].output[i]>> BY DEF Outputs
  <2>2. Outputs(x[1], x[2])[i] \in OutputsOf(x[1]) BY <1>6, VersionOutputs
  <2>3. Outputs(x[1], x[2])[i] \in Spoken(whole, cs.txouts) BY <1>3, <1>6, <2>2
  <2> QED BY <2>1, <2>3
<1>8. of \subseteq outs
  <2>1. \A f \in of : \E x \in cs.txs : \E i \in DOMAIN x[2].output : f = <<"txout", <<x[1], i - 1>>, x[2].output[i]>>
    OBVIOUS
  <2> HIDE DEF of, outs
  <2> QED BY <1>7, <2>1
<1>9. alone \subseteq outs BY <1>3, <1>4
<1>10. ASSUME NEW t \in whole, NEW x \in OutputsOf(t) PROVE <<"txout", x[1], x[2]>> \in of
  <2>1. PICK v \in Versions(t) : <<t, v>> \in cs.txs BY <1>5
  <2>2. PICK i \in DOMAIN v.output : x = Outputs(t, v)[i] BY <1>2, <2>1, VersionOutputs
  <2>3. x = << <<t, i - 1>>, v.output[i]>> BY <2>2 DEF Outputs
  <2>4. <<"txout", <<t, i - 1>>, v.output[i]>> \in of
    <3>1. {<<"txout", << <<t, v>>[1], j - 1>>, <<t, v>>[2].output[j]>> : j \in DOMAIN <<t, v>>[2].output} \subseteq of
      BY <2>1
    <3> QED BY <3>1
  <2> QED BY <2>3, <2>4
<1>11. ASSUME NEW op \in OutPoint, cs.txouts[op] # None PROVE <<"txout", op, cs.txouts[op]>> \in of \cup alone
  <2>1. CASE op[1] \in whole
    <3>1. <<op, cs.txouts[op]>> \in Told BY <1>1, <1>11 DEF ToldOnly
    <3>2. PICK v \in Versions(op[1]) : TRUE BY <1>5, <2>1
    <3>3. <<op, cs.txouts[op]>> \in OutputsOf(op[1]) BY <1>2, <2>1, <3>1, <3>2, ToldOutput
    <3> QED BY <1>10, <2>1, <3>3
  <2>2. CASE op[1] \notin whole
    <3>1. <<op, cs.txouts[op]>> \in Entries(cs.txouts) BY <1>4, <1>11
    <3> QED BY <2>2, <3>1
  <2> QED BY <2>1, <2>2
<1>12. outs \subseteq of \cup alone
  <2>1. SUFFICES ASSUME NEW x \in Spoken(whole, cs.txouts) PROVE <<"txout", x[1], x[2]>> \in of \cup alone
    OBVIOUS
  <2>2. CASE \E t \in whole : x \in OutputsOf(t) BY <1>10, <2>2
  <2>3. CASE \E op \in OutPoint : cs.txouts[op] # None /\ x = <<op, cs.txouts[op]>> BY <1>11, <2>3
  <2> HIDE DEF of, alone
  <2> QED BY <1>3, <2>2, <2>3
<1>13. of \cup alone = outs BY <1>8, <1>9, <1>12
<1>14. Facts(cs) = {<<"tx", t>> : t \in whole} \cup of \cup alone \cup {<<"anchor", x[2], x[1]>> : x \in cs.anchors}
                     \cup Until("seen", cs.last_seen) \cup Until("evicted", cs.last_evicted)
  BY Zenon DEF Facts, Ids
<1>15. FactsOf(Digest(cs)) = {<<"tx", t>> : t \in whole} \cup outs \cup {<<"anchor", x[2], x[1]>> : x \in cs.anchors}
                               \cup Until("seen", cs.last_seen) \cup Until("evicted", cs.last_evicted)
  <2>1. /\ Digest(cs).ids = whole /\ Digest(cs).outs = Spoken(whole, cs.txouts) /\ Digest(cs).anchors = cs.anchors
        /\ Digest(cs).seen = cs.last_seen /\ Digest(cs).evicted = cs.last_evicted
    BY DEF Digest
  <2> QED BY <2>1, Zenon DEF FactsOf
<1> HIDE DEF of, alone, outs, whole
<1> QED BY <1>13, <1>14, <1>15

LEMMA FactsGrow ==
  ASSUME NEW d \in Digests, NEW e \in Digests, Within(d, e)
  PROVE  FactsOf(d) \subseteq FactsOf(e)
<1>1. ASSUME NEW m \in Times, NEW n \in Times, Before(m, n), NEW tag PROVE Until(tag, m) \subseteq Until(tag, n)
  <2>1. SUFFICES ASSUME NEW t \in Txid, NEW at \in Time, m[t] # None, at <= m[t]
                 PROVE  n[t] # None /\ at <= n[t]
    <3>1. \A l, f : f \in Until(tag, l) <=>
                     \E t \in Txid : \E at \in Time : l[t] # None /\ at <= l[t] /\ f = <<tag, t, at>>
      BY DEF Until
    <3> QED BY <3>1
  <2>2. m[t] \in Optional /\ n[t] \in Optional BY <1>1, TimesType
  <2>3. AtMost(m[t], n[t]) BY <1>1 DEF Before
  <2>4. at \in Nat BY GraphAssumption
  <2> QED BY <2>1, <2>2, <2>3, <2>4, KeychainAssumption DEF AtMost, Optional
<1>2. Until("seen", d.seen) \subseteq Until("seen", e.seen) /\ Until("evicted", d.evicted) \subseteq Until("evicted", e.evicted)
  BY <1>1 DEF Digests, Within
<1>3. d.ids \subseteq e.ids /\ d.outs \subseteq e.outs /\ d.anchors \subseteq e.anchors BY DEF Within
<1>4. {<<"tx", t>> : t \in d.ids} \subseteq {<<"tx", t>> : t \in e.ids} BY <1>3
<1>5. {<<"txout", x[1], x[2]>> : x \in d.outs} \subseteq {<<"txout", x[1], x[2]>> : x \in e.outs} BY <1>3
<1>6. {<<"anchor", x[2], x[1]>> : x \in d.anchors} \subseteq {<<"anchor", x[2], x[1]>> : x \in e.anchors} BY <1>3
<1> QED BY <1>2, <1>4, <1>5, <1>6 DEF FactsOf

-----------------------------------------------------------------------------
(* Change sets that say one thing. *)

NoTimes == [t \in Txid |-> None]
NoFloats == [op \in OutPoint |-> None]
Only(t, at) == [x \in Txid |-> IF x = t THEN at ELSE None]
SaidTx(t, tx) == [EmptyChangeSet EXCEPT !.txs = {<<t, tx>>}]
SaidTxOut(op, spk) == [EmptyChangeSet EXCEPT !.txouts[op] = spk]
SaidAnchor(b, t) == [EmptyChangeSet EXCEPT !.anchors = {<<b, t>>}]
SaidSeen(t, first, last) == [EmptyChangeSet EXCEPT !.first_seen[t] = first, !.last_seen[t] = last]
SaidEvicted(t, at) == [EmptyChangeSet EXCEPT !.last_evicted[t] = at]

LEMMA NoneFacts ==
  /\ NoTimes \in Times /\ \A t \in Txid : NoTimes[t] = None
  /\ NoFloats \in Floats /\ \A op \in OutPoint : NoFloats[op] = None
  /\ ToldOnly(NoFloats)
  /\ EmptyChangeSet = [txs |-> {}, txouts |-> NoFloats, anchors |-> {}, first_seen |-> NoTimes,
                       last_seen |-> NoTimes, last_evicted |-> NoTimes]
  /\ \A m \in Times : LatestOf(m, NoTimes) = m
<1>1. NoTimes \in Times /\ \A t \in Txid : NoTimes[t] = None BY DEF Times, NoTimes
<1>2. NoFloats \in Floats /\ \A op \in OutPoint : NoFloats[op] = None BY DEF Floats, NoFloats
<1>3. EmptyChangeSet = [txs |-> {}, txouts |-> NoFloats, anchors |-> {}, first_seen |-> NoTimes,
                        last_seen |-> NoTimes, last_evicted |-> NoTimes]
  BY DEF EmptyChangeSet, NoFloats, NoTimes
<1>4. ASSUME NEW m \in Times PROVE LatestOf(m, NoTimes) = m
  <2>1. LatestOf(m, NoTimes) \in Times /\ \A t \in Txid : LatestOf(m, NoTimes)[t] = Latest(m[t], NoTimes[t])
    BY <1>1, LatestOfFacts
  <2>2. \A t \in Txid : Latest(m[t], None) = m[t] BY TimesType, LatestFacts DEF Optional
  <2> QED BY <1>1, <2>1, <2>2, TimesEqual
<1> QED BY <1>1, <1>2, <1>3, <1>4 DEF ToldOnly

LEMMA SaidTxFacts ==
  ASSUME NEW t \in Txid, NEW tx \in Versions(t)
  PROVE  /\ ChangeInv(SaidTx(t, tx))
         /\ Digest(SaidTx(t, tx)) = [ids |-> {t}, outs |-> OutputsOf(t), anchors |-> {},
                                     seen |-> NoTimes, evicted |-> NoTimes]
         /\ SaidTx(t, tx).last_seen = NoTimes /\ SaidTx(t, tx).last_evicted = NoTimes
<1>1. SaidTx(t, tx) = [txs |-> {<<t, tx>>}, txouts |-> NoFloats, anchors |-> {}, first_seen |-> NoTimes,
                       last_seen |-> NoTimes, last_evicted |-> NoTimes]
  BY NoneFacts DEF SaidTx
<1>2. <<t, tx>> \in Txid \X Tx BY DEF Versions
<1>3. SaidTx(t, tx) \in Change BY <1>1, <1>2, NoneFacts DEF Change
<1>4. <<t, tx>> \in Versioned BY <1>2 DEF Versioned
<1>5. ChangeInv(SaidTx(t, tx)) 
  <2>1. IsFiniteSet({<<t, tx>>}) BY FS_Singleton
  <2>2. SaidTx(t, tx).txs = {<<t, tx>>} /\ SaidTx(t, tx).txouts = NoFloats BY <1>1
  <2> QED BY <1>3, <1>4, <2>1, <2>2, NoneFacts DEF ChangeInv
<1>6. Ids(SaidTx(t, tx)) = {t} BY <1>1 DEF Ids
<1>7. Spoken({t}, NoFloats) = OutputsOf(t)
  <2>1. \A x : x \in Spoken({t}, NoFloats) <=> x \in OutputsOf(t) BY NoneFacts, SpokenFacts
  <2> QED BY <2>1
<1> QED BY <1>1, <1>5, <1>6, <1>7, SMTT(30) DEF Digest

LEMMA SaidTxOutFacts ==
  ASSUME NEW op \in OutPoint, NEW spk \in Spk, <<op, spk>> \in Told
  PROVE  /\ ChangeInv(SaidTxOut(op, spk))
         /\ Digest(SaidTxOut(op, spk)) = [ids |-> {}, outs |-> {<<op, spk>>}, anchors |-> {},
                                          seen |-> NoTimes, evicted |-> NoTimes]
         /\ SaidTxOut(op, spk).last_seen = NoTimes /\ SaidTxOut(op, spk).last_evicted = NoTimes
<1> DEFINE floats == [NoFloats EXCEPT ![op] = spk]
<1>1. SaidTxOut(op, spk) = [txs |-> {}, txouts |-> floats, anchors |-> {}, first_seen |-> NoTimes,
                            last_seen |-> NoTimes, last_evicted |-> NoTimes]
  BY NoneFacts DEF SaidTxOut
<1>2. floats \in Floats /\ floats[op] = spk /\ \A o \in OutPoint : o # op => floats[o] = None BY NoneFacts DEF Floats
<1> HIDE DEF floats
<1>3. SaidTxOut(op, spk) \in Change BY <1>1, <1>2, NoneFacts DEF Change
<1>4. ToldOnly(floats) BY <1>2 DEF ToldOnly
<1>5. ChangeInv(SaidTxOut(op, spk)) BY <1>1, <1>3, <1>4, FS_EmptySet DEF ChangeInv
<1>6. Ids(SaidTxOut(op, spk)) = {} BY <1>1 DEF Ids
<1>7. Spoken({}, floats) = {<<op, spk>>}
  <2>1. \A x : x \in Spoken({}, floats) <=> \E o \in OutPoint : floats[o] # None /\ x = <<o, floats[o]>>
    BY <1>2, SpokenFacts
  <2>2. spk # None BY GraphAssumption
  <2> QED BY <1>2, <2>1, <2>2
<1> QED BY <1>1, <1>5, <1>6, <1>7 DEF Digest

LEMMA NothingSpoken == Spoken({}, NoFloats) = {}
BY NoneFacts, SpokenFacts

LEMMA SaidAnchorFacts ==
  ASSUME NEW b \in Block, NEW t \in Txid
  PROVE  /\ ChangeInv(SaidAnchor(b, t))
         /\ Digest(SaidAnchor(b, t)) = [ids |-> {}, outs |-> {}, anchors |-> {<<b, t>>},
                                        seen |-> NoTimes, evicted |-> NoTimes]
         /\ SaidAnchor(b, t).last_seen = NoTimes /\ SaidAnchor(b, t).last_evicted = NoTimes
<1>1. SaidAnchor(b, t) = [txs |-> {}, txouts |-> NoFloats, anchors |-> {<<b, t>>}, first_seen |-> NoTimes,
                          last_seen |-> NoTimes, last_evicted |-> NoTimes]
  BY NoneFacts DEF SaidAnchor
<1>2. SaidAnchor(b, t) \in Change BY <1>1, NoneFacts DEF Change
<1>3. ChangeInv(SaidAnchor(b, t)) BY <1>1, <1>2, NoneFacts, FS_EmptySet DEF ChangeInv
<1>4. Ids(SaidAnchor(b, t)) = {} BY <1>1 DEF Ids
<1> QED BY <1>1, <1>3, <1>4, NothingSpoken DEF Digest

LEMMA OnlyFacts ==
  ASSUME NEW t \in Txid, NEW at \in Time \cup {None}
  PROVE  [NoTimes EXCEPT ![t] = at] = Only(t, at) /\ Only(t, at) \in Times
BY DEF NoTimes, Only, Times

LEMMA SaidSeenFacts ==
  ASSUME NEW t \in Txid, NEW first \in Time \cup {None}, NEW last \in Time \cup {None}
  PROVE  /\ ChangeInv(SaidSeen(t, first, last))
         /\ Digest(SaidSeen(t, first, last)) = [ids |-> {}, outs |-> {}, anchors |-> {},
                                                seen |-> Only(t, last), evicted |-> NoTimes]
         /\ SaidSeen(t, first, last).last_seen = Only(t, last) /\ SaidSeen(t, first, last).last_evicted = NoTimes
<1>1. SaidSeen(t, first, last) = [txs |-> {}, txouts |-> NoFloats, anchors |-> {}, first_seen |-> Only(t, first),
                                  last_seen |-> Only(t, last), last_evicted |-> NoTimes]
  <2>1. [NoTimes EXCEPT ![t] = first] = Only(t, first) /\ [NoTimes EXCEPT ![t] = last] = Only(t, last) BY OnlyFacts
  <2>2. EmptyChangeSet.first_seen = NoTimes /\ EmptyChangeSet.last_seen = NoTimes BY NoneFacts
  <2>3. SaidSeen(t, first, last) = [EmptyChangeSet EXCEPT !.first_seen = Only(t, first), !.last_seen = Only(t, last)]
    BY <2>1, <2>2 DEF SaidSeen
  <2> QED BY <2>3, NoneFacts
<1>2. Only(t, first) \in Times /\ Only(t, last) \in Times BY OnlyFacts
<1>3. SaidSeen(t, first, last) \in Change BY <1>1, <1>2, NoneFacts DEF Change
<1>4. ChangeInv(SaidSeen(t, first, last)) BY <1>1, <1>3, NoneFacts, FS_EmptySet DEF ChangeInv
<1>5. Ids(SaidSeen(t, first, last)) = {} BY <1>1 DEF Ids
<1> QED BY <1>1, <1>4, <1>5, NothingSpoken DEF Digest

LEMMA SaidEvictedFacts ==
  ASSUME NEW t \in Txid, NEW at \in Time \cup {None}
  PROVE  /\ ChangeInv(SaidEvicted(t, at))
         /\ Digest(SaidEvicted(t, at)) = [ids |-> {}, outs |-> {}, anchors |-> {},
                                          seen |-> NoTimes, evicted |-> Only(t, at)]
         /\ SaidEvicted(t, at).last_seen = NoTimes /\ SaidEvicted(t, at).last_evicted = Only(t, at)
<1>1. SaidEvicted(t, at) = [txs |-> {}, txouts |-> NoFloats, anchors |-> {}, first_seen |-> NoTimes,
                            last_seen |-> NoTimes, last_evicted |-> Only(t, at)]
  <2>1. [NoTimes EXCEPT ![t] = at] = Only(t, at) BY OnlyFacts
  <2> QED BY <2>1, NoneFacts DEF SaidEvicted
<1>2. Only(t, at) \in Times BY OnlyFacts
<1>3. SaidEvicted(t, at) \in Change BY <1>1, <1>2, NoneFacts DEF Change
<1>4. ChangeInv(SaidEvicted(t, at)) BY <1>1, <1>3, NoneFacts, FS_EmptySet DEF ChangeInv
<1>5. Ids(SaidEvicted(t, at)) = {} BY <1>1 DEF Ids
<1> QED BY <1>1, <1>4, <1>5, NothingSpoken DEF Digest

(* A time that goes up, and what is said of it. *)
LEMMA TimeRaised ==
  ASSUME NEW m \in Times, NEW t \in Txid, NEW at \in Time
  PROVE  LET last == Latest(m[t], at)
             said == IF last = m[t] THEN None ELSE last
             raised == [m EXCEPT ![t] = last]
         IN /\ last \in Time /\ said \in Time \cup {None} /\ raised \in Times
            /\ raised = LatestOf(m, Only(t, at)) /\ raised = LatestOf(m, Only(t, said))
            /\ \A x \in Txid : Only(t, said)[x] \in {None, raised[x]}
<1> DEFINE last == Latest(m[t], at)
           said == IF last = m[t] THEN None ELSE last
           raised == [m EXCEPT ![t] = last]
<1>1. m[t] \in Time \cup {None} /\ m[t] \in Optional BY TimesType
<1>2. at \in Optional /\ None \notin Nat /\ None \notin Time BY GraphAssumption, KeychainAssumption DEF Optional
<1>3. last \in Time BY <1>1, <1>2 DEF Latest
<1>4. said \in Time \cup {None} /\ said \in Optional BY <1>3, GraphAssumption DEF Optional
<1>5. Latest(m[t], said) = last
  <2>1. AtMost(m[t], last) /\ Latest(m[t], None) = m[t] BY <1>1, <1>2, LatestFacts
  <2>2. last \in Optional BY <1>3, GraphAssumption DEF Optional
  <2>3. Latest(m[t], last) = last BY <1>1, <2>1, <2>2, LatestFacts
  <2> QED BY <2>1, <2>3
<1>6. raised \in Times /\ raised[t] = last /\ \A x \in Txid : x # t => raised[x] = m[x] BY <1>3 DEF Times
<1>7. \A a : Only(t, a)[t] = a /\ \A x \in Txid : x # t => Only(t, a)[x] = None BY DEF Only
<1>8. ASSUME NEW a \in Time \cup {None}, Latest(m[t], a) = last PROVE raised = LatestOf(m, Only(t, a))
  <2>1. LatestOf(m, Only(t, a)) \in Times /\ \A x \in Txid : LatestOf(m, Only(t, a))[x] = Latest(m[x], Only(t, a)[x])
    BY OnlyFacts, LatestOfFacts
  <2>2. \A x \in Txid : Latest(m[x], None) = m[x] BY TimesType, LatestFacts DEF Optional
  <2>3. \A x \in Txid : raised[x] = LatestOf(m, Only(t, a))[x] BY <1>6, <1>7, <1>8, <2>1, <2>2
  <2> QED BY <1>6, <2>1, <2>3, TimesEqual
<1>9. raised = LatestOf(m, Only(t, at)) BY <1>8
<1>10. raised = LatestOf(m, Only(t, said)) BY <1>4, <1>5, <1>8
<1>11. \A x \in Txid : Only(t, said)[x] \in {None, raised[x]} BY <1>6, <1>7
<1> QED BY <1>3, <1>4, <1>6, <1>9, <1>10, <1>11

-----------------------------------------------------------------------------
(* The insertions: r comes of one on g.  The graph holds what it held and    *)
(* what the change set says, and a time is said as the graph now has it.     *)

Timely(r) ==
  \A t \in Txid : /\ r.cs.last_seen[t] \in {None, r.g.last_seen[t]}
                  /\ r.cs.last_evicted[t] \in {None, r.g.last_evicted[t]}
Learnt(g, r) ==
  /\ r \in [g : Graph, cs : Change] /\ GraphInv(r.g) /\ ChangeInv(r.cs)
  /\ Held(r.g) = Join(Held(g), Digest(r.cs)) /\ Timely(r)

LEMMA UntouchedLearnt ==
  ASSUME NEW g, GraphInv(g)
  PROVE  Learnt(g, Untouched(g))
<1>1. g \in Graph /\ EmptyChangeSet \in Change /\ ChangeInv(EmptyChangeSet) BY NothingSaid DEF GraphInv, ChangeInv
<1>2. Held(g) \in Digests BY <1>1, HeldType
<1>3. Join(Held(g), Digest(EmptyChangeSet)) = Held(g) BY <1>2, NothingSaid
<1>4. \A t \in Txid : EmptyChangeSet.last_seen[t] = None /\ EmptyChangeSet.last_evicted[t] = None BY NothingSaid
<1> DEFINE r == Untouched(g)
<1>5. r = [g |-> g, cs |-> EmptyChangeSet] BY DEF Untouched
<1> HIDE DEF r
<1>6. r.g = g /\ r.cs = EmptyChangeSet /\ r \in [g : Graph, cs : Change] BY <1>1, <1>5
<1>7. Timely(r) BY <1>4, <1>6 DEF Timely
<1>8. Learnt(g, r) BY <1>1, <1>3, <1>6, <1>7 DEF Learnt
<1> QED BY <1>8 DEF r

(* What two insertions say is, merged, what they say together. *)
LEMMA TimelyMerged ==
  ASSUME NEW a \in Optional, NEW m \in Optional, NEW n \in Optional, NEW b \in Optional,
         a \in {None, m}, b \in {None, n}, n = Latest(m, b)
  PROVE  Latest(a, b) \in {None, n}
BY KeychainAssumption DEF Latest, Optional

LEMMA MergedType ==
  ASSUME NEW cs \in Change, NEW other \in Change
  PROVE  MergeChangeSets(cs, other) \in Change
<1>1. /\ cs.txouts \in Floats /\ cs.first_seen \in Times /\ cs.last_seen \in Times /\ cs.last_evicted \in Times
      /\ other.txouts \in Floats /\ other.first_seen \in Times /\ other.last_seen \in Times
      /\ other.last_evicted \in Times
  BY ChangeParts
<1> DEFINE floats == [op \in OutPoint |-> IF other.txouts[op] # None THEN other.txouts[op] ELSE cs.txouts[op]]
           first == [t \in Txid |-> Earliest(cs.first_seen[t], other.first_seen[t])]
<1>2. MergeChangeSets(cs, other) =
        [txs |-> cs.txs \cup other.txs, txouts |-> floats, anchors |-> cs.anchors \cup other.anchors,
         first_seen |-> first, last_seen |-> LatestOf(cs.last_seen, other.last_seen),
         last_evicted |-> LatestOf(cs.last_evicted, other.last_evicted)]
  BY DEF MergeChangeSets, LatestOf
<1>3. floats \in Floats BY <1>1 DEF Floats
<1>4. first \in Times
  <2>1. ASSUME NEW t \in Txid PROVE Earliest(cs.first_seen[t], other.first_seen[t]) \in Time \cup {None}
    <3>1. cs.first_seen[t] \in Time \cup {None} /\ other.first_seen[t] \in Time \cup {None} BY <1>1, TimesType
    <3> QED BY <3>1 DEF Earliest
  <2> QED BY <2>1 DEF Times
<1>5. LatestOf(cs.last_seen, other.last_seen) \in Times /\ LatestOf(cs.last_evicted, other.last_evicted) \in Times
  BY <1>1, LatestOfFacts
<1>6. cs.txs \cup other.txs \in SUBSET (Txid \X Tx) /\ cs.anchors \cup other.anchors \in SUBSET (Block \X Txid)
  BY DEF Change
<1> HIDE DEF floats, first
<1> QED BY <1>2, <1>3, <1>4, <1>5, <1>6 DEF Change

LEMMA MergedLearnt ==
  ASSUME NEW g, GraphInv(g), NEW r, Learnt(g, r), NEW s, Learnt(r.g, s)
  PROVE  Learnt(g, Merged(r, s))
<1>1. /\ ChangeInv(r.cs) /\ ChangeInv(s.cs) /\ GraphInv(r.g) /\ GraphInv(s.g)
      /\ Held(r.g) = Join(Held(g), Digest(r.cs)) /\ Held(s.g) = Join(Held(r.g), Digest(s.cs))
      /\ Timely(r) /\ Timely(s)
  BY DEF Learnt
<1> DEFINE m == MergeChangeSets(r.cs, s.cs)
           q == Merged(r, s)
<1>2. ChangeInv(m) /\ Digest(m) = Join(Digest(r.cs), Digest(s.cs)) BY <1>1, MergedChange
<1>3. g \in Graph /\ r.g \in Graph /\ s.g \in Graph /\ r.cs \in Change /\ s.cs \in Change /\ m \in Change
  BY <1>1, <1>2 DEF GraphInv, ChangeInv
<1>4. Held(g) \in Digests /\ Digest(r.cs) \in Digests /\ Digest(s.cs) \in Digests BY <1>3, HeldType, DigestType
<1>5. Held(s.g) = Join(Held(g), Digest(m)) BY <1>1, <1>2, <1>4, JoinAssociative
<1>6. /\ m.last_seen = LatestOf(r.cs.last_seen, s.cs.last_seen)
      /\ m.last_evicted = LatestOf(r.cs.last_evicted, s.cs.last_evicted)
  BY DEF MergeChangeSets, LatestOf
<1>7. q = [g |-> s.g, cs |-> m] BY DEF Merged
<1> HIDE DEF m, q
<1>8. q.g = s.g /\ q.cs = m /\ q \in [g : Graph, cs : Change] BY <1>3, <1>7
<1>9. /\ r.cs.last_seen \in Times /\ s.cs.last_seen \in Times /\ r.g.last_seen \in Times /\ s.g.last_seen \in Times
      /\ r.cs.last_evicted \in Times /\ s.cs.last_evicted \in Times /\ r.g.last_evicted \in Times
      /\ s.g.last_evicted \in Times
  BY <1>3, ChangeParts, GraphParts
<1>10. /\ s.g.last_seen = LatestOf(r.g.last_seen, s.cs.last_seen)
       /\ s.g.last_evicted = LatestOf(r.g.last_evicted, s.cs.last_evicted)
  BY <1>1 DEF Held, Join, Digest
<1>11. ASSUME NEW t \in Txid
       PROVE  m.last_seen[t] \in {None, s.g.last_seen[t]} /\ m.last_evicted[t] \in {None, s.g.last_evicted[t]}
  <2>1. /\ m.last_seen[t] = Latest(r.cs.last_seen[t], s.cs.last_seen[t])
        /\ m.last_evicted[t] = Latest(r.cs.last_evicted[t], s.cs.last_evicted[t])
        /\ s.g.last_seen[t] = Latest(r.g.last_seen[t], s.cs.last_seen[t])
        /\ s.g.last_evicted[t] = Latest(r.g.last_evicted[t], s.cs.last_evicted[t])
    BY <1>6, <1>9, <1>10, LatestOfFacts
  <2>2. /\ r.cs.last_seen[t] \in Optional /\ s.cs.last_seen[t] \in Optional /\ r.g.last_seen[t] \in Optional
        /\ s.g.last_seen[t] \in Optional
        /\ r.cs.last_evicted[t] \in Optional /\ s.cs.last_evicted[t] \in Optional /\ r.g.last_evicted[t] \in Optional
        /\ s.g.last_evicted[t] \in Optional
    BY <1>9, TimesType
  <2>3. /\ r.cs.last_seen[t] \in {None, r.g.last_seen[t]} /\ s.cs.last_seen[t] \in {None, s.g.last_seen[t]}
        /\ r.cs.last_evicted[t] \in {None, r.g.last_evicted[t]} /\ s.cs.last_evicted[t] \in {None, s.g.last_evicted[t]}
    BY <1>1, Zenon DEF Timely
  <2> QED BY <2>1, <2>2, <2>3, TimelyMerged, SMTT(30)
<1>12. Timely(q) BY <1>8, <1>11 DEF Timely
<1>13. Learnt(g, q) BY <1>1, <1>2, <1>5, <1>8, <1>12 DEF Learnt
<1> QED BY <1>13 DEF q

(* A graph that differs in what is given, and what it then holds. *)
LEMMA HeldFields ==
  ASSUME NEW g \in Graph
  PROVE  /\ Held(g).ids = Whole(g) /\ Held(g).outs = Spoken(Whole(g), g.txouts)
         /\ Held(g).seen = g.last_seen /\ Held(g).evicted = g.last_evicted
         /\ Held(g) \in Digests
BY HeldType DEF Held

LEMMA DigestEqual ==
  ASSUME NEW d \in Digests, NEW e \in Digests, d.ids = e.ids, d.outs = e.outs, d.anchors = e.anchors,
         d.seen = e.seen, d.evicted = e.evicted
  PROVE  d = e
BY DEF Digests

LEMMA WitnessesMerged ==
  ASSUME NEW t \in Txid, NEW v \in Versions(t), NEW u \in Versions(t)
  PROVE  MergeWitnesses(v, u) \in Versions(t)
<1>1. PICK a \in TxOf[t] : v.input = a.input /\ v.output = a.output /\ DOMAIN v.witness = DOMAIN a.witness
  BY DEF Versions
<1>2. PICK b \in TxOf[t] : u.input = b.input /\ u.output = b.output /\ DOMAIN u.witness = DOMAIN b.witness
  BY DEF Versions
<1>3. v \in Tx /\ u \in Tx BY DEF Versions
<1>4. DOMAIN u.witness = DOMAIN v.witness BY <1>1, <1>2, TxAssumption
<1> DEFINE w == [i \in DOMAIN v.witness |-> BestWitness(v.witness[i], u.witness[i])]
<1>5. v.witness \in Seq(Nat) /\ u.witness \in Seq(Nat) BY <1>3 DEF Tx
<1>6. w \in Seq(Nat) /\ DOMAIN w = DOMAIN v.witness
  <2>1. DOMAIN v.witness = 1 .. Len(v.witness) /\ Len(v.witness) \in Nat BY <1>5
  <2>2. \A i \in 1 .. Len(v.witness) : v.witness[i] \in Nat /\ u.witness[i] \in Nat BY <1>4, <1>5, <2>1
  <2>3. \A i \in 1 .. Len(v.witness) : BestWitness(v.witness[i], u.witness[i]) \in Nat BY <2>2 DEF BestWitness
  <2>4. w = [i \in 1 .. Len(v.witness) |-> BestWitness(v.witness[i], u.witness[i])] BY <2>1
  <2>5. w \in [1 .. Len(v.witness) -> Nat] BY <2>3, <2>4
  <2> HIDE DEF w
  <2>6. w \in Seq(Nat) BY <2>1, <2>5
  <2> QED BY <2>1, <2>5, <2>6
<1>7. MergeWitnesses(v, u) = [v EXCEPT !.witness = w] BY DEF MergeWitnesses
<1> HIDE DEF w
<1> DEFINE m == [v EXCEPT !.witness = w]
<1>8. m \in Tx /\ m.input = v.input /\ m.output = v.output /\ m.witness = w BY <1>3, <1>6 DEF Tx
<1> HIDE DEF m
<1>9. m \in Versions(t) BY <1>1, <1>6, <1>8 DEF Versions
<1> QED BY <1>7, <1>9 DEF m

(* insert_tx. *)
LEMMA InsertTxLearnt ==
  ASSUME NEW g, GraphInv(g), NEW t \in Txid, NEW tx \in Versions(t), NEW r, r = InsertTx(g, t, tx)
  PROVE  Learnt(g, r) /\ Held(r.g) = Join(Held(g), Digest(SaidTx(t, tx)))
<1> DEFINE merged == IF t \in Whole(g) THEN MergeWitnesses(g.txs[t], tx) ELSE tx
<1>1. g \in Graph /\ ToldOnly(g.txouts) BY DEF GraphInv
<1>2. /\ g.txs \in Txs /\ g.txouts \in Floats /\ Whole(g) \in SUBSET Txid
      /\ g.last_seen \in Times /\ g.last_evicted \in Times
  BY <1>1, GraphParts
<1>3. merged \in Versions(t)
  <2>1. t \in Whole(g) => g.txs[t] \in Versions(t) BY DEF GraphInv, Whole
  <2> QED BY <2>1, WitnessesMerged
<1>4. merged \in Tx /\ merged # None BY <1>3, VersionOutputs
<1> DEFINE said == Digest(SaidTx(t, tx))
<1>5. /\ said = [ids |-> {t}, outs |-> OutputsOf(t), anchors |-> {}, seen |-> NoTimes, evicted |-> NoTimes]
      /\ Digest(SaidTx(t, merged)) = said /\ ChangeInv(SaidTx(t, merged))
      /\ SaidTx(t, merged).last_seen = NoTimes /\ SaidTx(t, merged).last_evicted = NoTimes
  BY <1>3, SaidTxFacts
<1>6. said \in Digests
  <2>1. ChangeInv(SaidTx(t, tx)) BY SaidTxFacts
  <2> QED BY <2>1, DigestType DEF ChangeInv
<1>7. /\ Held(g).ids = Whole(g) /\ Held(g).outs = Spoken(Whole(g), g.txouts)
      /\ Held(g).seen = g.last_seen /\ Held(g).evicted = g.last_evicted /\ Held(g) \in Digests
  BY <1>1, HeldFields
<1>8. \A x : x \in Spoken(Whole(g), g.txouts) <=>
               (\E u \in Whole(g) : x \in OutputsOf(u)) \/ (\E op \in OutPoint : g.txouts[op] # None /\ x = <<op, g.txouts[op]>>)
  BY <1>2, SpokenFacts
<1> DEFINE sum == Join(Held(g), said)
<1>9. sum \in Digests BY <1>6, <1>7, JoinFacts
<1>10. /\ sum.ids = Whole(g) \cup {t} /\ sum.outs = Spoken(Whole(g), g.txouts) \cup OutputsOf(t)
       /\ sum.anchors = Held(g).anchors /\ sum.seen = g.last_seen /\ sum.evicted = g.last_evicted
  <2>1. LatestOf(g.last_seen, NoTimes) = g.last_seen /\ LatestOf(g.last_evicted, NoTimes) = g.last_evicted
    BY <1>2, NoneFacts
  <2> HIDE DEF said
  <2> QED BY <1>5, <1>7, <2>1 DEF Join
<1>11. CASE g.txs[t] = merged
  <2>1. r = Untouched(g) BY <1>11 DEF InsertTx, Untouched
  <2>2. Learnt(g, r) /\ r.g = g BY <2>1, UntouchedLearnt DEF Untouched
  <2>3. t \in Whole(g) BY <1>4, <1>11 DEF Whole
  <2>4. sum.ids = Whole(g) /\ sum.outs = Spoken(Whole(g), g.txouts)
    <3> HIDE DEF sum
    <3> QED BY <1>8, <1>10, <2>3
  <2> HIDE DEF sum
  <2>5. sum = Held(g) BY <1>7, <1>9, <1>10, <2>4, DigestEqual
  <2> QED BY <2>2, <2>5 DEF sum
<1>12. CASE g.txs[t] # merged
  <2> DEFINE floats == [op \in OutPoint |-> IF op[1] = t THEN None ELSE g.txouts[op]]
             txs == [g.txs EXCEPT ![t] = merged]
             h == [g EXCEPT !.txs = txs, !.txouts = floats]
  <2>1. r = [g |-> h, cs |-> SaidTx(t, merged)] BY <1>12 DEF InsertTx, SaidTx
  <2> HIDE DEF merged
  <2>2. txs \in Txs /\ txs[t] = merged /\ \A u \in Txid : u # t => txs[u] = g.txs[u] BY <1>2, <1>4 DEF Txs
  <2>3. floats \in Floats /\ \A op \in OutPoint : floats[op] = IF op[1] = t THEN None ELSE g.txouts[op]
    BY <1>2 DEF Floats
  <2> HIDE DEF txs, floats
  <2>4. /\ h \in Graph /\ h.txs = txs /\ h.txouts = floats /\ h.anchors = g.anchors
        /\ h.last_seen = g.last_seen /\ h.last_evicted = g.last_evicted
    BY <1>1, <2>2, <2>3 DEF Graph
  <2> HIDE DEF h
  <2>5. GraphInv(h)
    <3>1. ToldOnly(floats) BY <1>1, <2>3 DEF ToldOnly
    <3>2. \A u \in Txid : txs[u] # None => txs[u] \in Versions(u) BY <1>3, <2>2 DEF GraphInv
    <3> QED BY <2>4, <3>1, <3>2 DEF GraphInv
  <2>6. Whole(h) = Whole(g) \cup {t} BY <1>4, <2>2, <2>4 DEF Whole
  <2>7. Spoken(Whole(h), floats) = Spoken(Whole(g), g.txouts) \cup OutputsOf(t)
    <3>1. \A x : x \in Spoken(Whole(h), floats) <=>
                   (\E u \in Whole(h) : x \in OutputsOf(u)) \/ (\E op \in OutPoint : floats[op] # None /\ x = <<op, floats[op]>>)
      BY <1>2, <2>3, <2>6, SpokenFacts
    <3>2. \A op \in OutPoint : op[1] = t /\ g.txouts[op] # None => <<op, g.txouts[op]>> \in OutputsOf(t)
      <4>1. SUFFICES ASSUME NEW op \in OutPoint, op[1] = t, g.txouts[op] # None
                     PROVE  <<op, g.txouts[op]>> \in OutputsOf(t)
        OBVIOUS
      <4>2. <<op, g.txouts[op]>> \in Told BY <1>1, <4>1 DEF ToldOnly
      <4> QED BY <4>1, <4>2, ToldOutput
    <3>3. ASSUME NEW x \in Spoken(Whole(h), floats) PROVE x \in Spoken(Whole(g), g.txouts) \cup OutputsOf(t)
      <4>1. CASE \E u \in Whole(h) : x \in OutputsOf(u) BY <1>8, <2>6, <4>1
      <4>2. CASE \E op \in OutPoint : floats[op] # None /\ x = <<op, floats[op]>> BY <1>8, <2>3, <4>2
      <4> QED BY <3>1, <3>3, <4>1, <4>2
    <3>4. ASSUME NEW x \in Spoken(Whole(g), g.txouts) \cup OutputsOf(t) PROVE x \in Spoken(Whole(h), floats)
      <4>1. CASE x \in OutputsOf(t) BY <2>6, <3>1, <4>1
      <4>2. CASE \E u \in Whole(g) : x \in OutputsOf(u) BY <2>6, <3>1, <4>2
      <4>3. ASSUME NEW op \in OutPoint, g.txouts[op] # None, x = <<op, g.txouts[op]>>
            PROVE  x \in Spoken(Whole(h), floats)
        <5>1. CASE op[1] = t BY <3>2, <4>1, <4>3, <5>1
        <5>2. CASE op[1] # t BY <2>3, <3>1, <4>3, <5>2
        <5> QED BY <5>1, <5>2
      <4> QED BY <1>8, <3>4, <4>1, <4>2, <4>3
    <3> QED BY <3>3, <3>4
  <2>8. /\ Held(h).ids = Whole(h) /\ Held(h).outs = Spoken(Whole(h), floats)
        /\ Held(h).seen = g.last_seen /\ Held(h).evicted = g.last_evicted /\ Held(h) \in Digests
    BY <2>4, HeldFields
  <2>9. Held(h).anchors = Held(g).anchors BY <2>4 DEF Held
  <2> HIDE DEF sum
  <2>10. Held(h) = sum BY <1>9, <1>10, <2>6, <2>7, <2>8, <2>9, DigestEqual, ZenonT(30)
  <2>11. r.g = h /\ r.cs = SaidTx(t, merged) /\ r \in [g : Graph, cs : Change] BY <1>5, <2>1, <2>4 DEF ChangeInv
  <2>12. Timely(r)
    <3>1. \A x \in Txid : r.cs.last_seen[x] = None /\ r.cs.last_evicted[x] = None BY <1>5, <2>11, NoneFacts
    <3> QED BY <3>1 DEF Timely
  <2>13. Held(r.g) = Join(Held(g), Digest(r.cs)) BY <1>5, <2>10, <2>11 DEF sum
  <2> QED BY <1>5, <2>5, <2>10, <2>11, <2>12, <2>13 DEF Learnt, sum
<1> QED BY <1>11, <1>12

(* insert_txout. *)
LEMMA InsertTxOutLearnt ==
  ASSUME NEW g, GraphInv(g), NEW op \in OutPoint, NEW spk \in Spk, <<op, spk>> \in Told,
         NEW r, r = InsertTxOut(g, op, spk)
  PROVE  Learnt(g, r) /\ Held(r.g) = Join(Held(g), Digest(SaidTxOut(op, spk)))
<1>1. g \in Graph /\ ToldOnly(g.txouts) BY DEF GraphInv
<1>2. /\ g.txouts \in Floats /\ Whole(g) \in SUBSET Txid /\ g.last_seen \in Times /\ g.last_evicted \in Times
  BY <1>1, GraphParts
<1> DEFINE said == Digest(SaidTxOut(op, spk))
<1>3. /\ said = [ids |-> {}, outs |-> {<<op, spk>>}, anchors |-> {}, seen |-> NoTimes, evicted |-> NoTimes]
      /\ ChangeInv(SaidTxOut(op, spk))
      /\ SaidTxOut(op, spk).last_seen = NoTimes /\ SaidTxOut(op, spk).last_evicted = NoTimes
  BY SaidTxOutFacts
<1>4. said \in Digests BY <1>3, DigestType DEF ChangeInv
<1>5. /\ Held(g).ids = Whole(g) /\ Held(g).outs = Spoken(Whole(g), g.txouts)
      /\ Held(g).seen = g.last_seen /\ Held(g).evicted = g.last_evicted /\ Held(g) \in Digests
  BY <1>1, HeldFields
<1>6. \A x : x \in Spoken(Whole(g), g.txouts) <=>
               (\E u \in Whole(g) : x \in OutputsOf(u)) \/ (\E o \in OutPoint : g.txouts[o] # None /\ x = <<o, g.txouts[o]>>)
  BY <1>2, SpokenFacts
<1> DEFINE sum == Join(Held(g), said)
<1>7. sum \in Digests BY <1>4, <1>5, JoinFacts
<1>8. /\ sum.ids = Whole(g) /\ sum.outs = Spoken(Whole(g), g.txouts) \cup {<<op, spk>>}
      /\ sum.anchors = Held(g).anchors /\ sum.seen = g.last_seen /\ sum.evicted = g.last_evicted
  <2>1. LatestOf(g.last_seen, NoTimes) = g.last_seen /\ LatestOf(g.last_evicted, NoTimes) = g.last_evicted
    BY <1>2, NoneFacts
  <2> HIDE DEF said
  <2> QED BY <1>3, <1>5, <2>1 DEF Join
<1>9. CASE op[1] \in Whole(g) \/ g.txouts[op] # None
  <2>1. r = Untouched(g) BY <1>9 DEF InsertTxOut, Untouched
  <2>2. Learnt(g, r) /\ r.g = g BY <2>1, UntouchedLearnt DEF Untouched
  <2>3. <<op, spk>> \in Spoken(Whole(g), g.txouts)
    <3>1. CASE op[1] \in Whole(g)
      <4>1. g.txs[op[1]] \in Versions(op[1]) BY <3>1 DEF GraphInv, Whole
      <4>2. <<op, spk>> \in OutputsOf(op[1]) BY <1>2, <3>1, <4>1, ToldOutput
      <4> QED BY <1>6, <3>1, <4>2
    <3>2. CASE g.txouts[op] # None
      <4>1. <<op, g.txouts[op]>> \in Told BY <1>1, <3>2 DEF ToldOnly
      <4>2. g.txouts[op] = spk BY <4>1, TxAssumption
      <4> QED BY <1>6, <3>2, <4>2
    <3> QED BY <1>9, <3>1, <3>2
  <2>4. sum.outs = Spoken(Whole(g), g.txouts)
    <3> HIDE DEF sum
    <3> QED BY <1>8, <2>3
  <2> HIDE DEF sum
  <2>5. sum = Held(g) BY <1>5, <1>7, <1>8, <2>4, DigestEqual
  <2> QED BY <2>2, <2>5 DEF sum
<1>10. CASE ~(op[1] \in Whole(g) \/ g.txouts[op] # None)
  <2> DEFINE floats == [g.txouts EXCEPT ![op] = spk]
             h == [g EXCEPT !.txouts = floats]
  <2>1. r = [g |-> h, cs |-> SaidTxOut(op, spk)] BY <1>10 DEF InsertTxOut, SaidTxOut
  <2>2. floats \in Floats /\ floats[op] = spk /\ \A o \in OutPoint : o # op => floats[o] = g.txouts[o]
    BY <1>2 DEF Floats
  <2> HIDE DEF floats
  <2>3. /\ h \in Graph /\ h.txs = g.txs /\ h.txouts = floats /\ h.anchors = g.anchors
        /\ h.last_seen = g.last_seen /\ h.last_evicted = g.last_evicted
    BY <1>1, <2>2 DEF Graph
  <2> HIDE DEF h
  <2>4. GraphInv(h)
    <3>1. ToldOnly(floats) BY <1>1, <2>2 DEF ToldOnly
    <3> QED BY <2>3, <3>1 DEF GraphInv
  <2>5. Whole(h) = Whole(g) BY <2>3 DEF Whole
  <2>6. Spoken(Whole(h), floats) = Spoken(Whole(g), g.txouts) \cup {<<op, spk>>}
    <3>1. \A x : x \in Spoken(Whole(h), floats) <=>
                   (\E u \in Whole(h) : x \in OutputsOf(u)) \/ (\E o \in OutPoint : floats[o] # None /\ x = <<o, floats[o]>>)
      BY <1>2, <2>2, <2>5, SpokenFacts
    <3>2. spk # None BY GraphAssumption
    <3> QED BY <1>6, <1>10, <2>2, <2>5, <3>1, <3>2
  <2>7. /\ Held(h).ids = Whole(h) /\ Held(h).outs = Spoken(Whole(h), floats)
        /\ Held(h).seen = g.last_seen /\ Held(h).evicted = g.last_evicted /\ Held(h) \in Digests
    BY <2>3, HeldFields
  <2>8. Held(h).anchors = Held(g).anchors BY <2>3 DEF Held
  <2> HIDE DEF sum
  <2>9. Held(h) = sum BY <1>7, <1>8, <2>5, <2>6, <2>7, <2>8, DigestEqual
  <2>10. r.g = h /\ r.cs = SaidTxOut(op, spk) /\ r \in [g : Graph, cs : Change] BY <1>3, <2>1, <2>3 DEF ChangeInv
  <2>11. Timely(r)
    <3>1. \A x \in Txid : r.cs.last_seen[x] = None /\ r.cs.last_evicted[x] = None BY <1>3, <2>10, NoneFacts
    <3> QED BY <3>1 DEF Timely
  <2>12. Held(r.g) = Join(Held(g), Digest(r.cs)) BY <2>9, <2>10 DEF sum
  <2> QED BY <1>3, <2>4, <2>10, <2>11, <2>12 DEF Learnt
<1> QED BY <1>9, <1>10

(* insert_anchor. *)
LEMMA InsertAnchorLearnt ==
  ASSUME NEW g, GraphInv(g), NEW t \in Txid, NEW b \in Block, NEW r, r = InsertAnchor(g, t, b)
  PROVE  Learnt(g, r) /\ Held(r.g) = Join(Held(g), Digest(SaidAnchor(b, t)))
<1>1. g \in Graph BY DEF GraphInv
<1>2. /\ g.anchors \in Anchors /\ g.last_seen \in Times /\ g.last_evicted \in Times
      /\ g.by_conf_height \in SUBSET (Heights \X Txid)
  BY <1>1, GraphParts
<1> DEFINE said == Digest(SaidAnchor(b, t))
<1>3. /\ said = [ids |-> {}, outs |-> {}, anchors |-> {<<b, t>>}, seen |-> NoTimes, evicted |-> NoTimes]
      /\ ChangeInv(SaidAnchor(b, t))
      /\ SaidAnchor(b, t).last_seen = NoTimes /\ SaidAnchor(b, t).last_evicted = NoTimes
  BY SaidAnchorFacts
<1>4. said \in Digests BY <1>3, DigestType DEF ChangeInv
<1>5. /\ Held(g).seen = g.last_seen /\ Held(g).evicted = g.last_evicted /\ Held(g) \in Digests BY <1>1, HeldFields
<1>6. \A x : x \in Held(g).anchors <=> x \in Block \X Txid /\ x[1] \in g.anchors[x[2]] BY <1>1, HeldType
<1> DEFINE sum == Join(Held(g), said)
<1>7. sum \in Digests BY <1>4, <1>5, JoinFacts
<1>8. /\ sum.ids = Held(g).ids /\ sum.outs = Held(g).outs /\ sum.anchors = Held(g).anchors \cup {<<b, t>>}
      /\ sum.seen = g.last_seen /\ sum.evicted = g.last_evicted
  <2>1. LatestOf(g.last_seen, NoTimes) = g.last_seen /\ LatestOf(g.last_evicted, NoTimes) = g.last_evicted
    BY <1>2, NoneFacts
  <2> HIDE DEF said
  <2> QED BY <1>3, <1>5, <2>1 DEF Join
<1>9. CASE b \in g.anchors[t]
  <2>1. r = Untouched(g) BY <1>9 DEF InsertAnchor, Untouched
  <2>2. Learnt(g, r) /\ r.g = g BY <2>1, UntouchedLearnt DEF Untouched
  <2>3. sum.anchors = Held(g).anchors
    <3>1. <<b, t>> \in Held(g).anchors BY <1>6, <1>9
    <3> HIDE DEF sum
    <3> QED BY <1>8, <3>1
  <2> HIDE DEF sum
  <2>4. sum = Held(g) BY <1>5, <1>7, <1>8, <2>3, DigestEqual
  <2> QED BY <2>2, <2>4 DEF sum
<1>10. CASE b \notin g.anchors[t]
  <2> DEFINE old == g.anchors[t]
             top == IF old # {} /\ TopHeight(old) > Height(b) THEN TopHeight(old) ELSE Height(b)
             filed == IF old = {} THEN {} ELSE {<<TopHeight(old), t>>}
             anchors == [g.anchors EXCEPT ![t] = old \cup {b}]
             heights == (g.by_conf_height \ filed) \cup {<<top, t>>}
             h == [g EXCEPT !.anchors = anchors, !.by_conf_height = heights]
  <2>1. r = [g |-> h, cs |-> SaidAnchor(b, t)] BY <1>10 DEF InsertAnchor, SaidAnchor
  <2>2. anchors \in Anchors /\ anchors[t] = g.anchors[t] \cup {b} /\ \A u \in Txid : u # t => anchors[u] = g.anchors[u]
    BY <1>2 DEF Anchors
  <2>3. heights \in SUBSET (Heights \X Txid)
    <3>1. old \in SUBSET Block BY <1>2 DEF Anchors
    <3>2. TopHeight(old) \in Heights BY <3>1 DEF Heights
    <3>3. Height(b) \in Heights BY GraphAssumption DEF Heights, Height
    <3>4. top \in Heights BY <3>2, <3>3
    <3> HIDE DEF top, filed
    <3> QED BY <1>2, <3>4
  <2> HIDE DEF anchors, heights
  <2>4. /\ h \in Graph /\ h.txs = g.txs /\ h.txouts = g.txouts /\ h.anchors = anchors
        /\ h.last_seen = g.last_seen /\ h.last_evicted = g.last_evicted
    BY <1>1, <2>2, <2>3 DEF Graph
  <2> HIDE DEF h
  <2>5. GraphInv(h) BY <2>4 DEF GraphInv
  <2>6. Whole(h) = Whole(g) BY <2>4 DEF Whole
  <2>7. Held(h).ids = Held(g).ids /\ Held(h).outs = Held(g).outs BY <2>4, <2>6 DEF Held
  <2>8. Held(h).anchors = Held(g).anchors \cup {<<b, t>>}
    <3>1. \A x : x \in Held(h).anchors <=> x \in Block \X Txid /\ x[1] \in anchors[x[2]] BY <2>4, HeldType
    <3>2. \A x \in Block \X Txid : x[1] \in anchors[x[2]] <=> x[1] \in g.anchors[x[2]] \/ x = <<b, t>> BY <2>2
    <3> QED BY <1>6, <3>1, <3>2
  <2>9. Held(h).seen = g.last_seen /\ Held(h).evicted = g.last_evicted /\ Held(h) \in Digests BY <2>4, HeldFields
  <2> HIDE DEF sum
  <2>10. Held(h) = sum BY <1>7, <1>8, <2>7, <2>8, <2>9, DigestEqual
  <2>11. r.g = h /\ r.cs = SaidAnchor(b, t) /\ r \in [g : Graph, cs : Change] BY <1>3, <2>1, <2>4 DEF ChangeInv
  <2>12. Timely(r)
    <3>1. \A x \in Txid : r.cs.last_seen[x] = None /\ r.cs.last_evicted[x] = None BY <1>3, <2>11, NoneFacts
    <3> QED BY <3>1 DEF Timely
  <2>13. Held(r.g) = Join(Held(g), Digest(r.cs)) BY <2>10, <2>11 DEF sum
  <2> QED BY <1>3, <2>5, <2>11, <2>12, <2>13 DEF Learnt
<1> QED BY <1>9, <1>10

(* insert_seen_at. *)
LEMMA InsertSeenLearnt ==
  ASSUME NEW g, GraphInv(g), NEW t \in Txid, NEW at \in Time, NEW r, r = InsertSeenAt(g, t, at)
  PROVE  Learnt(g, r) /\ Held(r.g) = Join(Held(g), Digest(SaidSeen(t, None, at)))
<1>1. g \in Graph BY DEF GraphInv
<1>2. /\ g.first_seen \in Times /\ g.last_seen \in Times /\ g.last_evicted \in Times
      /\ g.by_last_seen \in SUBSET (Time \X Txid)
  BY <1>1, GraphParts
<1> DEFINE first == Earliest(g.first_seen[t], at)
           last == Latest(g.last_seen[t], at)
           newFirst == IF first = g.first_seen[t] THEN None ELSE first
           newLast == IF last = g.last_seen[t] THEN None ELSE last
           filed == {<<x, t>> : x \in Present(g.last_seen[t])}
           firsts == [g.first_seen EXCEPT ![t] = first]
           lasts == [g.last_seen EXCEPT ![t] = last]
           seen == (g.by_last_seen \ filed) \cup {<<last, t>>}
           h == [g EXCEPT !.first_seen = firsts, !.last_seen = lasts, !.by_last_seen = seen]
<1>3. r = [g |-> h, cs |-> SaidSeen(t, newFirst, newLast)] BY DEF InsertSeenAt, SaidSeen
<1>4. first \in Time /\ newFirst \in Time \cup {None} /\ firsts \in Times
  <2>1. g.first_seen[t] \in Time \cup {None} BY <1>2, TimesType
  <2>2. first \in Time BY <2>1 DEF Earliest
  <2> HIDE DEF first
  <2> QED BY <1>2, <2>2 DEF Times
<1>5. /\ last \in Time /\ newLast \in Time \cup {None} /\ lasts \in Times
      /\ lasts = LatestOf(g.last_seen, Only(t, at)) /\ lasts = LatestOf(g.last_seen, Only(t, newLast))
      /\ \A x \in Txid : Only(t, newLast)[x] \in {None, lasts[x]}
  BY <1>2, TimeRaised, Zenon
<1> HIDE DEF first, last, newFirst, newLast, firsts, lasts, filed
<1>6. seen \in SUBSET (Time \X Txid) BY <1>2, <1>5
<1> HIDE DEF seen
<1>7. /\ h \in Graph /\ h.txs = g.txs /\ h.txouts = g.txouts /\ h.anchors = g.anchors
      /\ h.last_seen = lasts /\ h.last_evicted = g.last_evicted
  BY <1>1, <1>4, <1>5, <1>6 DEF Graph
<1> HIDE DEF h
<1>8. GraphInv(h) BY <1>7 DEF GraphInv
<1>9. Whole(h) = Whole(g) BY <1>7 DEF Whole
<1>10. /\ Held(h).ids = Held(g).ids /\ Held(h).outs = Held(g).outs /\ Held(h).anchors = Held(g).anchors
       /\ Held(h).seen = lasts /\ Held(h).evicted = Held(g).evicted
  BY <1>7, <1>9 DEF Held
<1>11. Held(g) \in Digests /\ Held(h) \in Digests BY <1>1, <1>7, HeldType
<1>12. ASSUME NEW f \in Time \cup {None}, NEW l \in Time \cup {None}, lasts = LatestOf(g.last_seen, Only(t, l))
       PROVE  Held(h) = Join(Held(g), Digest(SaidSeen(t, f, l)))
  <2> DEFINE said == Digest(SaidSeen(t, f, l))
             sum == Join(Held(g), said)
  <2>1. /\ said = [ids |-> {}, outs |-> {}, anchors |-> {}, seen |-> Only(t, l), evicted |-> NoTimes]
        /\ ChangeInv(SaidSeen(t, f, l))
    BY SaidSeenFacts
  <2>2. said \in Digests BY <2>1, DigestType DEF ChangeInv
  <2> HIDE DEF said
  <2>3. sum \in Digests BY <1>11, <2>2, JoinFacts
  <2>4. LatestOf(g.last_evicted, NoTimes) = g.last_evicted BY <1>2, NoneFacts
  <2>5. /\ sum.ids = Held(g).ids /\ sum.outs = Held(g).outs /\ sum.anchors = Held(g).anchors
        /\ sum.seen = LatestOf(g.last_seen, Only(t, l)) /\ sum.evicted = Held(g).evicted
    <3>1. Held(g).seen = g.last_seen /\ Held(g).evicted = g.last_evicted BY DEF Held
    <3> QED BY <2>1, <2>4, <3>1 DEF Join
  <2> HIDE DEF sum
  <2>6. Held(h) = sum BY <1>10, <1>11, <1>12, <2>3, <2>5, DigestEqual
  <2> QED BY <2>6 DEF sum, said
<1>13. /\ Held(h) = Join(Held(g), Digest(SaidSeen(t, None, at)))
       /\ Held(h) = Join(Held(g), Digest(SaidSeen(t, newFirst, newLast)))
  BY <1>4, <1>5, <1>12
<1>14. /\ ChangeInv(SaidSeen(t, newFirst, newLast))
       /\ SaidSeen(t, newFirst, newLast).last_seen = Only(t, newLast)
       /\ SaidSeen(t, newFirst, newLast).last_evicted = NoTimes
  BY <1>4, <1>5, SaidSeenFacts
<1>15. r.g = h /\ r.cs = SaidSeen(t, newFirst, newLast) /\ r \in [g : Graph, cs : Change]
  BY <1>3, <1>7, <1>14 DEF ChangeInv
<1>16. Timely(r)
  <2>1. \A x \in Txid : r.cs.last_seen[x] \in {None, r.g.last_seen[x]} BY <1>5, <1>7, <1>14, <1>15
  <2>2. \A x \in Txid : r.cs.last_evicted[x] = None BY <1>14, <1>15, NoneFacts
  <2> QED BY <2>1, <2>2 DEF Timely
<1> QED BY <1>8, <1>13, <1>14, <1>15, <1>16 DEF Learnt

(* insert_evicted_at. *)
LEMMA InsertEvictedLearnt ==
  ASSUME NEW g, GraphInv(g), NEW t \in Txid, NEW at \in Time, NEW r, r = InsertEvictedAt(g, t, at)
  PROVE  Learnt(g, r) /\ Held(r.g) = Join(Held(g), Digest(SaidEvicted(t, at)))
<1>1. g \in Graph BY DEF GraphInv
<1>2. g.last_seen \in Times /\ g.last_evicted \in Times BY <1>1, GraphParts
<1> DEFINE last == Latest(g.last_evicted[t], at)
           new == IF last = g.last_evicted[t] THEN None ELSE last
           lasts == [g.last_evicted EXCEPT ![t] = last]
           h == [g EXCEPT !.last_evicted = lasts]
<1>3. r = [g |-> h, cs |-> SaidEvicted(t, new)] BY DEF InsertEvictedAt, SaidEvicted
<1>4. /\ last \in Time /\ new \in Time \cup {None} /\ lasts \in Times
      /\ lasts = LatestOf(g.last_evicted, Only(t, at)) /\ lasts = LatestOf(g.last_evicted, Only(t, new))
      /\ \A x \in Txid : Only(t, new)[x] \in {None, lasts[x]}
  BY <1>2, TimeRaised, Zenon
<1> HIDE DEF last, new, lasts
<1>5. /\ h \in Graph /\ h.txs = g.txs /\ h.txouts = g.txouts /\ h.anchors = g.anchors
      /\ h.last_seen = g.last_seen /\ h.last_evicted = lasts
  BY <1>1, <1>4 DEF Graph
<1> HIDE DEF h
<1>6. GraphInv(h) BY <1>5 DEF GraphInv
<1>7. Whole(h) = Whole(g) BY <1>5 DEF Whole
<1>8. /\ Held(h).ids = Held(g).ids /\ Held(h).outs = Held(g).outs /\ Held(h).anchors = Held(g).anchors
      /\ Held(h).seen = Held(g).seen /\ Held(h).evicted = lasts
  BY <1>5, <1>7 DEF Held
<1>9. Held(g) \in Digests /\ Held(h) \in Digests BY <1>1, <1>5, HeldType
<1>10. ASSUME NEW l \in Time \cup {None}, lasts = LatestOf(g.last_evicted, Only(t, l))
       PROVE  Held(h) = Join(Held(g), Digest(SaidEvicted(t, l)))
  <2> DEFINE said == Digest(SaidEvicted(t, l))
             sum == Join(Held(g), said)
  <2>1. /\ said = [ids |-> {}, outs |-> {}, anchors |-> {}, seen |-> NoTimes, evicted |-> Only(t, l)]
        /\ ChangeInv(SaidEvicted(t, l))
    BY SaidEvictedFacts
  <2>2. said \in Digests BY <2>1, DigestType DEF ChangeInv
  <2> HIDE DEF said
  <2>3. sum \in Digests BY <1>9, <2>2, JoinFacts
  <2>4. LatestOf(g.last_seen, NoTimes) = g.last_seen BY <1>2, NoneFacts
  <2>5. /\ sum.ids = Held(g).ids /\ sum.outs = Held(g).outs /\ sum.anchors = Held(g).anchors
        /\ sum.seen = Held(g).seen /\ sum.evicted = LatestOf(g.last_evicted, Only(t, l))
    <3>1. Held(g).seen = g.last_seen /\ Held(g).evicted = g.last_evicted BY DEF Held
    <3> QED BY <2>1, <2>4, <3>1 DEF Join
  <2> HIDE DEF sum
  <2>6. Held(h) = sum BY <1>8, <1>9, <1>10, <2>3, <2>5, DigestEqual
  <2> QED BY <2>6 DEF sum, said
<1>11. /\ Held(h) = Join(Held(g), Digest(SaidEvicted(t, at)))
       /\ Held(h) = Join(Held(g), Digest(SaidEvicted(t, new)))
  BY <1>4, <1>10
<1>12. /\ ChangeInv(SaidEvicted(t, new)) /\ SaidEvicted(t, new).last_seen = NoTimes
       /\ SaidEvicted(t, new).last_evicted = Only(t, new)
  BY <1>4, SaidEvictedFacts
<1>13. r.g = h /\ r.cs = SaidEvicted(t, new) /\ r \in [g : Graph, cs : Change] BY <1>3, <1>5, <1>12 DEF ChangeInv
<1>14. Timely(r)
  <2>1. \A x \in Txid : r.cs.last_evicted[x] \in {None, r.g.last_evicted[x]} BY <1>4, <1>5, <1>12, <1>13
  <2>2. \A x \in Txid : r.cs.last_seen[x] = None BY <1>12, <1>13, NoneFacts
  <2> QED BY <2>1, <2>2 DEF Timely
<1> QED BY <1>6, <1>11, <1>12, <1>13, <1>14 DEF Learnt

-----------------------------------------------------------------------------
(* Any insertion, and any sequence of them. *)

Insertion ==
  ({"tx"} \X Versioned) \cup ({"txout"} \X Told) \cup ({"anchor"} \X (Block \X Txid))
    \cup ({"seen"} \X (Txid \X Time)) \cup ({"evicted"} \X (Txid \X Time))
SaidBy(x) ==
  CASE x[1] = "tx" -> SaidTx(x[2][1], x[2][2])
    [] x[1] = "txout" -> SaidTxOut(x[2][1], x[2][2])
    [] x[1] = "anchor" -> SaidAnchor(x[2][1], x[2][2])
    [] x[1] = "seen" -> SaidSeen(x[2][1], None, x[2][2])
    [] x[1] = "evicted" -> SaidEvicted(x[2][1], x[2][2])

LEMMA InsertLearnt ==
  ASSUME NEW g, GraphInv(g), NEW x \in Insertion, NEW r, r = Insert(g, x[1], x[2])
  PROVE  /\ Learnt(g, r) /\ Held(r.g) = Join(Held(g), Digest(SaidBy(x)))
         /\ Digest(SaidBy(x)) \in Digests
<1>1. CASE x \in {"tx"} \X Versioned
  <2>1. x[1] = "tx" /\ x[2] \in Versioned BY <1>1
  <2>2. x[2][1] \in Txid /\ x[2][2] \in Versions(x[2][1]) BY <2>1 DEF Versioned
  <2>3. r = InsertTx(g, x[2][1], x[2][2]) /\ SaidBy(x) = SaidTx(x[2][1], x[2][2]) BY <2>1 DEF Insert, SaidBy
  <2>4. SaidBy(x) \in Change BY <2>2, <2>3, SaidTxFacts DEF ChangeInv
  <2> QED BY <2>2, <2>3, <2>4, InsertTxLearnt, DigestType
<1>2. CASE x \in {"txout"} \X Told
  <2>1. x[1] = "txout" /\ x[2] \in Told BY <1>2
  <2>2. x[2][1] \in OutPoint /\ x[2][2] \in Spk /\ <<x[2][1], x[2][2]>> \in Told BY <2>1, TxAssumption
  <2>3. r = InsertTxOut(g, x[2][1], x[2][2]) /\ SaidBy(x) = SaidTxOut(x[2][1], x[2][2]) BY <2>1 DEF Insert, SaidBy
  <2>4. SaidBy(x) \in Change BY <2>2, <2>3, SaidTxOutFacts DEF ChangeInv
  <2> QED BY <2>2, <2>3, <2>4, InsertTxOutLearnt, DigestType
<1>3. CASE x \in {"anchor"} \X (Block \X Txid)
  <2>1. x[1] = "anchor" /\ x[2] \in Block \X Txid BY <1>3
  <2>2. x[2][1] \in Block /\ x[2][2] \in Txid BY <2>1
  <2>3. r = InsertAnchor(g, x[2][2], x[2][1]) /\ SaidBy(x) = SaidAnchor(x[2][1], x[2][2]) BY <2>1 DEF Insert, SaidBy
  <2>4. SaidBy(x) \in Change BY <2>2, <2>3, SaidAnchorFacts DEF ChangeInv
  <2> QED BY <2>2, <2>3, <2>4, InsertAnchorLearnt, DigestType
<1>4. CASE x \in {"seen"} \X (Txid \X Time)
  <2>1. x[1] = "seen" /\ x[2] \in Txid \X Time BY <1>4
  <2>2. x[2][1] \in Txid /\ x[2][2] \in Time BY <2>1
  <2>3. r = InsertSeenAt(g, x[2][1], x[2][2]) /\ SaidBy(x) = SaidSeen(x[2][1], None, x[2][2]) BY <2>1 DEF Insert, SaidBy
  <2>4. SaidBy(x) \in Change
    <3>1. None \in Time \cup {None} /\ x[2][2] \in Time \cup {None} BY <2>2
    <3>2. ChangeInv(SaidSeen(x[2][1], None, x[2][2])) BY <2>2, <3>1, SaidSeenFacts
    <3> QED BY <2>3, <3>2 DEF ChangeInv
  <2> QED BY <2>2, <2>3, <2>4, InsertSeenLearnt, DigestType
<1>5. CASE x \in {"evicted"} \X (Txid \X Time)
  <2>1. x[1] = "evicted" /\ x[2] \in Txid \X Time BY <1>5
  <2>2. x[2][1] \in Txid /\ x[2][2] \in Time BY <2>1
  <2>3. r = InsertEvictedAt(g, x[2][1], x[2][2]) /\ SaidBy(x) = SaidEvicted(x[2][1], x[2][2]) BY <2>1 DEF Insert, SaidBy
  <2>4. SaidBy(x) \in Change BY <2>2, <2>3, SaidEvictedFacts DEF ChangeInv
  <2> QED BY <2>2, <2>3, <2>4, InsertEvictedLearnt, DigestType
<1> QED BY <1>1, <1>2, <1>3, <1>4, <1>5 DEF Insertion

LEMMA LearntParts ==
  ASSUME NEW g, GraphInv(g), NEW r, Learnt(g, r)
  PROVE  /\ GraphInv(r.g) /\ ChangeInv(r.cs) /\ Held(g) \in Digests /\ Held(r.g) \in Digests
         /\ Digest(r.cs) \in Digests /\ Within(Held(g), Held(r.g))
<1>1. g \in Graph /\ r.g \in Graph /\ r.cs \in Change /\ Held(r.g) = Join(Held(g), Digest(r.cs))
  BY DEF Learnt, GraphInv, ChangeInv
<1>2. Held(g) \in Digests /\ Held(r.g) \in Digests /\ Digest(r.cs) \in Digests BY <1>1, HeldType, DigestType
<1>3. Within(Held(g), Held(r.g)) BY <1>1, <1>2, JoinFacts
<1> QED BY <1>2, <1>3 DEF Learnt

LEMMA InsertAllLearnt ==
  ASSUME NEW g, GraphInv(g), NEW s \in Seq(Insertion)
  PROVE  Learnt(g, InsertAll(g, s))
<1> DEFINE S == {r \in [g : Graph, cs : Change] : Learnt(g, r)}
           X == Insertion
<1>1. Untouched(g) \in S
  <2>1. Learnt(g, Untouched(g)) BY UntouchedLearnt
  <2> QED BY <2>1 DEF Learnt
<1>2. ASSUME NEW r \in S, NEW x \in X PROVE Merged(r, Insert(r.g, x[1], x[2])) \in S
  <2>1. Learnt(g, r) /\ GraphInv(r.g) BY DEF Learnt
  <2>2. Learnt(r.g, Insert(r.g, x[1], x[2])) BY <2>1, InsertLearnt
  <2>3. Learnt(g, Merged(r, Insert(r.g, x[1], x[2]))) BY <2>1, <2>2, MergedLearnt
  <2> QED BY <2>3 DEF Learnt
<1>3. s \in Seq(X) OBVIOUS
<1> HIDE DEF S, X
<1>4. PICK c : /\ c[0] = Untouched(g) /\ InsertAll(g, s) = c[Len(s)]
               /\ \A i \in 0 .. Len(s) : c[i] \in S
               /\ \A i \in 1 .. Len(s) : s[i] \in X /\ c[i] = Merged(c[i - 1], Insert(c[i - 1].g, s[i][1], s[i][2]))
  BY <1>1, <1>2, <1>3, InsertLoop
<1>5. Len(s) \in 0 .. Len(s) BY <1>3
<1>6. InsertAll(g, s) \in S BY <1>4, <1>5
<1> QED BY <1>6 DEF S

(* A sequence of insertions that say nothing beyond d, on a graph that holds *)
(* nothing beyond d: what the graph then holds, and that it holds them all.  *)
LEMMA InsertAllHolds ==
  ASSUME NEW g, GraphInv(g), NEW s \in Seq(Insertion), NEW d \in Digests, Within(Held(g), d),
         \A i \in 1 .. Len(s) : Within(Digest(SaidBy(s[i])), d)
  PROVE  /\ Within(Held(InsertAll(g, s).g), d)
         /\ \A i \in 1 .. Len(s) : Within(Digest(SaidBy(s[i])), Held(InsertAll(g, s).g))
<1> DEFINE S == {r \in [g : Graph, cs : Change] : GraphInv(r.g) /\ Within(Held(r.g), d)}
           X == {x \in Insertion : Within(Digest(SaidBy(x)), d)}
<1>1. Untouched(g) \in S
  <2>1. Learnt(g, Untouched(g)) /\ Untouched(g).g = g BY UntouchedLearnt DEF Untouched
  <2> QED BY <2>1 DEF Learnt
<1>2. ASSUME NEW r \in S, NEW x \in X
      PROVE  /\ Merged(r, Insert(r.g, x[1], x[2])) \in S
             /\ Merged(r, Insert(r.g, x[1], x[2])).g = Insert(r.g, x[1], x[2]).g
             /\ Digest(SaidBy(x)) \in Digests /\ Held(r.g) \in Digests
             /\ Held(Insert(r.g, x[1], x[2]).g) = Join(Held(r.g), Digest(SaidBy(x)))
  <2> DEFINE q == Insert(r.g, x[1], x[2])
  <2>1. GraphInv(r.g) /\ r.g \in Graph /\ r.cs \in Change /\ Within(Held(r.g), d) OBVIOUS
  <2>2. x \in Insertion /\ Within(Digest(SaidBy(x)), d) OBVIOUS
  <2>3. /\ Learnt(r.g, q) /\ Held(q.g) = Join(Held(r.g), Digest(SaidBy(x))) /\ Digest(SaidBy(x)) \in Digests
    BY <2>1, <2>2, InsertLearnt
  <2> HIDE DEF q
  <2>4. Held(r.g) \in Digests BY <2>1, HeldType
  <2>5. Within(Held(q.g), d) BY <2>1, <2>2, <2>3, <2>4, WithinFacts
  <2>6. GraphInv(q.g) /\ q.g \in Graph BY <2>3 DEF Learnt, GraphInv
  <2> DEFINE m == Merged(r, q)
  <2>7. m = [g |-> q.g, cs |-> MergeChangeSets(r.cs, q.cs)] BY DEF Merged
  <2>8. m.g = q.g BY <2>7
  <2>9. m \in S
    <3>1. q.cs \in Change BY <2>3 DEF Learnt
    <3>2. MergeChangeSets(r.cs, q.cs) \in Change BY <2>1, <3>1, MergedType
    <3> HIDE DEF m
    <3>3. m \in [g : Graph, cs : Change] BY <2>6, <2>7, <3>2
    <3> QED BY <2>5, <2>6, <2>8, <3>3
  <2> QED BY <2>3, <2>4, <2>8, <2>9 DEF q
<1>3. s \in Seq(X)
  <2>1. Len(s) \in Nat /\ s = [i \in 1 .. Len(s) |-> s[i]] /\ \A i \in 1 .. Len(s) : s[i] \in X OBVIOUS
  <2> HIDE DEF X
  <2> QED BY <2>1
<1>4. PICK c : /\ c[0] = Untouched(g) /\ InsertAll(g, s) = c[Len(s)]
               /\ \A i \in 0 .. Len(s) : c[i] \in S
               /\ \A i \in 1 .. Len(s) : s[i] \in X /\ c[i] = Merged(c[i - 1], Insert(c[i - 1].g, s[i][1], s[i][2]))
  <2> HIDE DEF S, X
  <2>1. \A r \in S, x \in X : Merged(r, Insert(r.g, x[1], x[2])) \in S BY <1>2
  <2> QED BY <1>1, <1>3, <2>1, InsertLoop
<1> DEFINE n == Len(s)
           T == {i \in 0 .. n : \A j \in 1 .. n : j <= i => Within(Digest(SaidBy(s[j])), Held(c[i].g))}
<1>5. n \in Nat OBVIOUS
<1>6. 0 \in T BY <1>5
<1>7. ASSUME NEW i \in 1 .. n, i - 1 \in T PROVE i \in T
  <2>1. i - 1 \in 0 .. n /\ i \in 0 .. n BY <1>5
  <2>2. c[i - 1] \in S /\ s[i] \in X BY <1>4, <2>1
  <2>3. c[i] = Merged(c[i - 1], Insert(c[i - 1].g, s[i][1], s[i][2])) BY <1>4
  <2> HIDE DEF S
  <2>4. /\ Held(c[i].g) = Join(Held(c[i - 1].g), Digest(SaidBy(s[i])))
        /\ Held(c[i - 1].g) \in Digests /\ Digest(SaidBy(s[i])) \in Digests
    <3> HIDE DEF X
    <3> QED BY <1>2, <2>2, <2>3
  <2>5. /\ Within(Held(c[i - 1].g), Held(c[i].g)) /\ Within(Digest(SaidBy(s[i])), Held(c[i].g))
        /\ Held(c[i].g) \in Digests
    BY <2>4, JoinFacts
  <2>6. ASSUME NEW j \in 1 .. n, j <= i PROVE Within(Digest(SaidBy(s[j])), Held(c[i].g))
    <3>1. CASE j = i BY <2>5, <3>1
    <3>2. CASE j # i
      <4>1. j <= i - 1 BY <1>5, <2>6, <3>2
      <4>2. Within(Digest(SaidBy(s[j])), Held(c[i - 1].g)) BY <1>7, <4>1
      <4>3. s[j] \in X BY <1>4
      <4>4. Digest(SaidBy(s[j])) \in Digests
        <5> HIDE DEF X
        <5> QED BY <1>2, <2>2, <4>3
      <4> QED BY <2>4, <2>5, <4>2, <4>4, WithinFacts
    <3> QED BY <3>1, <3>2
  <2> QED BY <2>1, <2>6
<1>8. \A i \in 0 .. n : i \in T
  <2> HIDE DEF T, n
  <2> QED BY <1>5, <1>6, <1>7, InductionUpTo
<1>9. n \in T /\ n \in 0 .. n BY <1>5, <1>8
<1>10. \A j \in 1 .. n : Within(Digest(SaidBy(s[j])), Held(c[n].g)) BY <1>5, <1>9
<1>11. c[n] \in S BY <1>4, <1>9
<1> QED BY <1>4, <1>10, <1>11

-----------------------------------------------------------------------------
(* The insertions of an update or a change set, and loading a change set.    *)

Enumerates(s, A) == s \in Seq(A) /\ \A x \in A : \E i \in 1 .. Len(s) : s[i] = x

LEMMA EachEnumerates ==
  ASSUME NEW A, NEW s, Enumerates(s, A), NEW kind
  PROVE  Enumerates(Each(kind, s), {kind} \X A)
<1> DEFINE e == Each(kind, s)
           n == Len(s)
<1>1. s \in Seq(A) /\ \A x \in A : \E i \in 1 .. n : s[i] = x BY DEF Enumerates
<1>2. n \in Nat /\ DOMAIN s = 1 .. n /\ \A i \in 1 .. n : s[i] \in A BY <1>1
<1>3. e = [i \in 1 .. n |-> <<kind, s[i]>>] BY <1>2 DEF Each
<1> HIDE DEF e, n
<1>4. e \in [1 .. n -> {kind} \X A] /\ \A i \in 1 .. n : e[i] = <<kind, s[i]>> BY <1>2, <1>3
<1>5. e \in Seq({kind} \X A) /\ Len(e) = n BY <1>2, <1>4
<1>6. \A x \in {kind} \X A : \E i \in 1 .. n : e[i] = x BY <1>1, <1>4
<1> QED BY <1>5, <1>6 DEF Enumerates, e

LEMMA ConcatEnumerates ==
  ASSUME NEW A, NEW s, Enumerates(s, A), NEW B, NEW t, Enumerates(t, B)
  PROVE  Enumerates(s \o t, A \cup B)
<1>1. /\ s \in Seq(A) /\ \A x \in A : \E i \in 1 .. Len(s) : s[i] = x
      /\ t \in Seq(B) /\ \A x \in B : \E i \in 1 .. Len(t) : t[i] = x
  BY DEF Enumerates
<1> DEFINE m == Len(s)
           n == Len(t)
           c == s \o t
<1>2. m \in Nat /\ n \in Nat BY <1>1
<1>3. s \in Seq(A \cup B) /\ t \in Seq(A \cup B)
  <2>1. \A i \in 1 .. m : s[i] \in A \cup B BY <1>1
  <2>2. \A i \in 1 .. n : t[i] \in A \cup B BY <1>1
  <2>3. s = [i \in 1 .. m |-> s[i]] /\ t = [i \in 1 .. n |-> t[i]] BY <1>1
  <2> HIDE DEF m, n
  <2> QED BY <1>2, <2>1, <2>2, <2>3
<1>4. c \in Seq(A \cup B) /\ Len(c) = m + n BY <1>3
<1>5. \A i \in 1 .. m : c[i] = s[i] BY <1>1
<1>6. \A i \in 1 .. n : c[m + i] = t[i] BY <1>1
<1> HIDE DEF m, n, c
<1>7. ASSUME NEW x \in A PROVE \E i \in 1 .. Len(c) : c[i] = x
  <2>1. PICK i \in 1 .. m : s[i] = x BY <1>1 DEF m
  <2>2. i \in 1 .. m + n BY <1>2
  <2> QED BY <1>4, <1>5, <2>1, <2>2
<1>8. ASSUME NEW x \in B PROVE \E i \in 1 .. Len(c) : c[i] = x
  <2>1. PICK i \in 1 .. n : t[i] = x BY <1>1 DEF n
  <2>2. m + i \in 1 .. m + n BY <1>2
  <2> QED BY <1>4, <1>6, <2>1, <2>2
<1> QED BY <1>4, <1>7, <1>8 DEF Enumerates, c

LEMMA InTurnsType ==
  ASSUME NEW X, NEW s \in Seq(X), NEW t \in Seq(X), Len(t) = Len(s)
  PROVE  InTurns(s, t) \in Seq(X)
<1> DEFINE n == Len(s)
           Of(i) == IF i % 2 = 1 THEN s[(i + 1) \div 2] ELSE t[(i + 1) \div 2]
<1>1. n \in Nat /\ \A i \in 1 .. n : s[i] \in X /\ t[i] \in X OBVIOUS
<1>2. InTurns(s, t) = [i \in 1 .. 2 * n |-> Of(i)] BY DEF InTurns
<1>3. ASSUME NEW i \in 1 .. 2 * n PROVE Of(i) \in X
  <2>1. (i + 1) \div 2 \in 1 .. n
    <3> HIDE DEF n
    <3> QED BY <1>1
  <2> QED BY <1>1, <2>1
<1>4. 2 * n \in Nat BY <1>1
<1> HIDE DEF n, Of
<1>5. [i \in 1 .. 2 * n |-> Of(i)] \in Seq(X) BY <1>3, <1>4
<1> QED BY <1>2, <1>5

LEMMA Finiteness ==
  /\ IsFiniteSet(OutPoint) /\ IsFiniteSet(Told)
  /\ IsFiniteSet(Block \X Txid) /\ IsFiniteSet(Txid \X Time)
<1>1. IsFiniteSet(Txid) /\ IsFiniteSet(Vout) /\ IsFiniteSet(Block) /\ IsFiniteSet(Time) BY TxAssumption
<1>2. IsFiniteSet(OutPoint) BY <1>1, FS_Product DEF OutPoint
<1>3. IsFiniteSet(Block \X Txid) /\ IsFiniteSet(Txid \X Time) BY <1>1, FS_Product
<1> DEFINE f == [op \in OutPoint |-> CHOOSE x \in Told : x[1] = op]
<1>4. \A x \in Told : x[1] \in OutPoint /\ f[x[1]] = x
  <2>1. SUFFICES ASSUME NEW x \in Told PROVE x[1] \in OutPoint /\ f[x[1]] = x OBVIOUS
  <2>2. Told \subseteq OutPoint \X Spk BY TxAssumption
  <2>3. x[1] \in OutPoint BY <2>2
  <2>4. f[x[1]] \in Told /\ f[x[1]][1] = x[1] BY <2>3
  <2>5. f[x[1]][2] = x[2] BY <2>4, TxAssumption
  <2>6. f[x[1]] = <<f[x[1]][1], f[x[1]][2]>> /\ x = <<x[1], x[2]>> BY <2>2, <2>4
  <2> QED BY <2>3, <2>4, <2>5, <2>6
<1> HIDE DEF f
<1>5. Told \in SUBSET {f[op] : op \in OutPoint} BY <1>4
<1>6. IsFiniteSet({f[op] : op \in OutPoint}) BY <1>2, FiniteImage
<1>7. IsFiniteSet(Told) BY <1>5, <1>6, FS_Subset
<1> QED BY <1>2, <1>3, <1>7

(* The insertions apply_update makes. *)
Items(u) ==
  ({"tx"} \X u.txs) \cup ({"txout"} \X u.txouts) \cup ({"anchor"} \X u.anchors)
    \cup ({"seen"} \X u.seen_ats) \cup ({"evicted"} \X u.evicted_ats)
InsertionsOf(u) ==
  Each("tx", Listing(u.txs)) \o Each("txout", Listing(u.txouts)) \o Each("anchor", Listing(u.anchors))
    \o Each("seen", Listing(u.seen_ats)) \o Each("evicted", Listing(u.evicted_ats))
UpdateInv(u) ==
  /\ u.txs \subseteq Versioned /\ IsFiniteSet(u.txs) /\ u.txouts \subseteq Told
  /\ u.anchors \subseteq Block \X Txid /\ u.seen_ats \subseteq Txid \X Time /\ u.evicted_ats \subseteq Txid \X Time

LEMMA InsertionsListed ==
  ASSUME NEW u, UpdateInv(u)
  PROVE  /\ Enumerates(InsertionsOf(u), Items(u)) /\ InsertionsOf(u) \in Seq(Insertion)
         /\ \A g : ApplyTxUpdate(g, u) = InsertAll(g, InsertionsOf(u))
<1>1. /\ IsFiniteSet(u.txs) /\ IsFiniteSet(u.txouts) /\ IsFiniteSet(u.anchors) /\ IsFiniteSet(u.seen_ats)
      /\ IsFiniteSet(u.evicted_ats)
  BY Finiteness, FS_Subset DEF UpdateInv
<1>2. ASSUME NEW A, IsFiniteSet(A), NEW kind PROVE Enumerates(Each(kind, Listing(A)), {kind} \X A)
  <2>1. Enumerates(Listing(A), A) BY <1>2, ListingFacts DEF Enumerates
  <2> QED BY <2>1, EachEnumerates
<1> DEFINE a == Each("tx", Listing(u.txs))
           b == Each("txout", Listing(u.txouts))
           c == Each("anchor", Listing(u.anchors))
           d == Each("seen", Listing(u.seen_ats))
           e == Each("evicted", Listing(u.evicted_ats))
           A == {"tx"} \X u.txs
           B == {"txout"} \X u.txouts
           C == {"anchor"} \X u.anchors
           D == {"seen"} \X u.seen_ats
           E == {"evicted"} \X u.evicted_ats
<1>3. Enumerates(a, A) /\ Enumerates(b, B) /\ Enumerates(c, C) /\ Enumerates(d, D) /\ Enumerates(e, E)
  BY <1>1, <1>2
<1>4. InsertionsOf(u) = a \o b \o c \o d \o e /\ Items(u) = A \cup B \cup C \cup D \cup E
  BY DEF InsertionsOf, Items
<1> HIDE DEF a, b, c, d, e, A, B, C, D, E
<1>5. Enumerates(a \o b, A \cup B) BY <1>3, ConcatEnumerates
<1>6. Enumerates(a \o b \o c, A \cup B \cup C) BY <1>3, <1>5, ConcatEnumerates
<1>7. Enumerates(a \o b \o c \o d, A \cup B \cup C \cup D) BY <1>3, <1>6, ConcatEnumerates
<1>8. Enumerates(a \o b \o c \o d \o e, A \cup B \cup C \cup D \cup E) BY <1>3, <1>7, ConcatEnumerates
<1>9. Enumerates(InsertionsOf(u), Items(u)) BY <1>4, <1>8
<1>10. Items(u) \subseteq Insertion BY DEF Items, Insertion, UpdateInv
<1>11. InsertionsOf(u) \in Seq(Insertion)
  <2>1. InsertionsOf(u) \in Seq(Items(u)) BY <1>9 DEF Enumerates
  <2> DEFINE s == InsertionsOf(u)
             n == Len(s)
  <2>2. n \in Nat /\ s = [i \in 1 .. n |-> s[i]] /\ \A i \in 1 .. n : s[i] \in Insertion BY <1>10, <2>1
  <2> HIDE DEF s, n
  <2>3. s \in Seq(Insertion) BY <2>2
  <2> QED BY <2>3 DEF s
<1> QED BY <1>9, <1>11, Zenon DEF ApplyTxUpdate, InsertionsOf

LEMMA EmptyHeld ==
  /\ GraphInv(EmptyGraph) /\ EmptyGraph \in Graph
  /\ Held(EmptyGraph) = [ids |-> {}, outs |-> {}, anchors |-> {}, seen |-> NoTimes, evicted |-> NoTimes]
  /\ \A d \in Digests : Within(Held(EmptyGraph), d)
<1> DEFINE txs == [t \in Txid |-> None]
           anchors == [t \in Txid |-> {}]
<1>1. EmptyGraph = [txs |-> txs, txouts |-> NoFloats, anchors |-> anchors, first_seen |-> NoTimes,
                    last_seen |-> NoTimes, last_evicted |-> NoTimes, by_conf_height |-> {}, by_last_seen |-> {}]
  BY DEF EmptyGraph, NoFloats, NoTimes
<1>2. txs \in Txs /\ anchors \in Anchors /\ \A t \in Txid : txs[t] = None /\ anchors[t] = {} BY DEF Txs, Anchors
<1> HIDE DEF txs, anchors
<1>3. EmptyGraph \in Graph BY <1>1, <1>2, NoneFacts DEF Graph
<1>4. GraphInv(EmptyGraph) BY <1>1, <1>2, <1>3, NoneFacts DEF GraphInv
<1>5. Whole(EmptyGraph) = {} BY <1>1, <1>2 DEF Whole
<1>6. /\ Held(EmptyGraph).ids = {} /\ Held(EmptyGraph).outs = {}
      /\ Held(EmptyGraph).seen = NoTimes /\ Held(EmptyGraph).evicted = NoTimes /\ Held(EmptyGraph) \in Digests
  BY <1>1, <1>3, <1>5, HeldFields, NothingSpoken
<1>7. Held(EmptyGraph).anchors = {}
  <2>1. \A x : x \in Held(EmptyGraph).anchors <=> x \in Block \X Txid /\ x[1] \in anchors[x[2]] BY <1>1, <1>3, HeldType
  <2> QED BY <1>2, <2>1
<1>8. Held(EmptyGraph) = [ids |-> {}, outs |-> {}, anchors |-> {}, seen |-> NoTimes, evicted |-> NoTimes]
  BY <1>6, <1>7 DEF Digests
<1>9. \A m : Before(NoTimes, m) BY NoneFacts DEF Before, AtMost
<1>10. \A d \in Digests : Within(Held(EmptyGraph), d) BY <1>8, <1>9 DEF Within
<1> QED BY <1>3, <1>4, <1>8, <1>10

LEMMA TimeEntries ==
  ASSUME NEW m \in Times
  PROVE  /\ \A x : x \in Entries(m) <=> \E t \in Txid : m[t] # None /\ x = <<t, m[t]>>
         /\ Entries(m) \subseteq Txid \X Time
<1>1. DOMAIN m = Txid /\ \A t \in Txid : m[t] # None => m[t] \in Time BY DEF Times
<1>2. \A x : x \in Entries(m) <=> \E t \in Txid : m[t] # None /\ x = <<t, m[t]>> BY <1>1, Zenon DEF Entries
<1> QED BY <1>1, <1>2

LEMMA BeforeOnly ==
  ASSUME NEW t \in Txid, NEW m \in Times, NEW at \in Time
  PROVE  /\ Before(Only(t, at), m) <=> AtMost(at, m[t])
         /\ Before(NoTimes, m) /\ AtMost(at, at) /\ at # None
<1>1. Only(t, at)[t] = at /\ \A x \in Txid : x # t => Only(t, at)[x] = None BY DEF Only
<1>2. \A n : AtMost(None, n) BY DEF AtMost
<1>3. Before(NoTimes, m) BY <1>2, NoneFacts DEF Before
<1>4. at \in Nat /\ at # None BY GraphAssumption
<1>5. AtMost(at, at) BY <1>4 DEF AtMost
<1> QED BY <1>1, <1>2, <1>3, <1>4, <1>5 DEF Before

(* Loading: a graph made of a change set holds exactly what it says. *)
LEMMA GraphLoaded ==
  ASSUME NEW cs, ChangeInv(cs), NEW g, g = ApplyChangeSet(EmptyGraph, cs)
  PROVE  GraphInv(g) /\ Held(g) = Digest(cs)
<1> DEFINE u == [txs |-> cs.txs, txouts |-> Entries(cs.txouts), anchors |-> cs.anchors,
                 seen_ats |-> Entries(cs.last_seen), evicted_ats |-> Entries(cs.last_evicted)]
           d == Digest(cs)
<1>1. cs \in Change /\ ToldOnly(cs.txouts) /\ cs.txs \subseteq Versioned /\ IsFiniteSet(cs.txs) BY DEF ChangeInv
<1>2. /\ cs.txouts \in Floats /\ cs.last_seen \in Times /\ cs.last_evicted \in Times
      /\ cs.anchors \in SUBSET (Block \X Txid) /\ Ids(cs) \in SUBSET Txid
  BY <1>1, ChangeParts
<1>3. \A x : x \in Entries(cs.txouts) <=> \E op \in OutPoint : cs.txouts[op] # None /\ x = <<op, cs.txouts[op]>>
  BY <1>2, FloatEntries
<1>4. /\ \A x : x \in Entries(cs.last_seen) <=> \E t \in Txid : cs.last_seen[t] # None /\ x = <<t, cs.last_seen[t]>>
      /\ Entries(cs.last_seen) \subseteq Txid \X Time
  BY <1>2, TimeEntries
<1>5. /\ \A x : x \in Entries(cs.last_evicted) <=> \E t \in Txid : cs.last_evicted[t] # None /\ x = <<t, cs.last_evicted[t]>>
      /\ Entries(cs.last_evicted) \subseteq Txid \X Time
  BY <1>2, TimeEntries
<1>6. Entries(cs.txouts) \subseteq Told BY <1>1, <1>3 DEF ToldOnly
<1>7. /\ u.txs = cs.txs /\ u.txouts = Entries(cs.txouts) /\ u.anchors = cs.anchors
      /\ u.seen_ats = Entries(cs.last_seen) /\ u.evicted_ats = Entries(cs.last_evicted)
  OBVIOUS
<1>8. g = ApplyTxUpdate(EmptyGraph, u).g BY Zenon DEF ApplyChangeSet
<1> HIDE DEF u
<1>9. UpdateInv(u) BY <1>1, <1>2, <1>4, <1>5, <1>6, <1>7 DEF UpdateInv
<1> DEFINE s == InsertionsOf(u)
<1>10. Enumerates(s, Items(u)) /\ s \in Seq(Insertion) /\ g = InsertAll(EmptyGraph, s).g
  BY <1>8, <1>9, InsertionsListed
<1>11. /\ d \in Digests /\ d.ids = Ids(cs) /\ d.outs = Spoken(Ids(cs), cs.txouts) /\ d.anchors = cs.anchors
       /\ d.seen = cs.last_seen /\ d.evicted = cs.last_evicted
  BY <1>1, DigestType DEF Digest
<1>12. \A x : x \in d.outs <=>
                (\E t \in Ids(cs) : x \in OutputsOf(t)) \/ (\E op \in OutPoint : cs.txouts[op] # None /\ x = <<op, cs.txouts[op]>>)
  BY <1>2, <1>11, SpokenFacts
<1> HIDE DEF s, d
<1>13. ASSUME NEW x \in cs.txs, NEW e, e = Digest(SaidBy(<<"tx", x>>))
       PROVE  /\ x[1] \in Ids(cs) /\ e.ids = {x[1]} /\ e.outs = OutputsOf(x[1]) /\ e.anchors = {}
              /\ e.seen = NoTimes /\ e.evicted = NoTimes
  <2>1. x[1] \in Txid /\ x[2] \in Versions(x[1]) /\ x[1] \in Ids(cs) BY <1>1 DEF Versioned, Ids
  <2>2. SaidBy(<<"tx", x>>) = SaidTx(x[1], x[2]) BY DEF SaidBy
  <2>3. e = [ids |-> {x[1]}, outs |-> OutputsOf(x[1]), anchors |-> {}, seen |-> NoTimes, evicted |-> NoTimes]
    BY <1>13, <2>1, <2>2, SaidTxFacts
  <2> QED BY <2>1, <2>3
<1>14. ASSUME NEW x \in Entries(cs.txouts), NEW e, e = Digest(SaidBy(<<"txout", x>>))
       PROVE  /\ e.ids = {} /\ e.outs = {x} /\ e.anchors = {} /\ e.seen = NoTimes /\ e.evicted = NoTimes
  <2>1. x[1] \in OutPoint /\ x[2] \in Spk /\ x = <<x[1], x[2]>> /\ x \in Told BY <1>6, TxAssumption
  <2>2. SaidBy(<<"txout", x>>) = SaidTxOut(x[1], x[2]) BY DEF SaidBy
  <2>3. e = [ids |-> {}, outs |-> {<<x[1], x[2]>>}, anchors |-> {}, seen |-> NoTimes, evicted |-> NoTimes]
    BY <1>14, <2>1, <2>2, SaidTxOutFacts
  <2> QED BY <2>1, <2>3
<1>15. ASSUME NEW x \in cs.anchors, NEW e, e = Digest(SaidBy(<<"anchor", x>>))
       PROVE  /\ e.ids = {} /\ e.outs = {} /\ e.anchors = {x} /\ e.seen = NoTimes /\ e.evicted = NoTimes
  <2>1. x[1] \in Block /\ x[2] \in Txid /\ x = <<x[1], x[2]>> BY <1>2
  <2>2. SaidBy(<<"anchor", x>>) = SaidAnchor(x[1], x[2]) BY DEF SaidBy
  <2>3. e = [ids |-> {}, outs |-> {}, anchors |-> {<<x[1], x[2]>>}, seen |-> NoTimes, evicted |-> NoTimes]
    BY <1>15, <2>1, <2>2, SaidAnchorFacts
  <2> QED BY <2>1, <2>3
<1>16. ASSUME NEW x \in Txid \X Time, NEW e, e = Digest(SaidBy(<<"seen", x>>)),
              NEW f, f = Digest(SaidBy(<<"evicted", x>>))
       PROVE  /\ e.ids = {} /\ e.outs = {} /\ e.anchors = {} /\ e.seen = Only(x[1], x[2]) /\ e.evicted = NoTimes
              /\ f.ids = {} /\ f.outs = {} /\ f.anchors = {} /\ f.seen = NoTimes /\ f.evicted = Only(x[1], x[2])
  <2>1. SaidBy(<<"seen", x>>) = SaidSeen(x[1], None, x[2]) /\ SaidBy(<<"evicted", x>>) = SaidEvicted(x[1], x[2])
    BY DEF SaidBy
  <2>2. x[1] \in Txid /\ None \in Time \cup {None} /\ x[2] \in Time \cup {None} OBVIOUS
  <2>3. e = [ids |-> {}, outs |-> {}, anchors |-> {}, seen |-> Only(x[1], x[2]), evicted |-> NoTimes]
    BY <1>16, <2>1, <2>2, SaidSeenFacts, ZenonT(30)
  <2>4. f = [ids |-> {}, outs |-> {}, anchors |-> {}, seen |-> NoTimes, evicted |-> Only(x[1], x[2])]
    BY <1>16, <2>1, <2>2, SaidEvictedFacts, ZenonT(30)
  <2> QED BY <2>3, <2>4
<1>17. \A m : Before(NoTimes, m) BY NoneFacts DEF Before, AtMost
<1>18. ASSUME NEW y \in Items(u) PROVE Within(Digest(SaidBy(y)), d)
  <2>1. ASSUME NEW x \in cs.txs, y = <<"tx", x>> PROVE Within(Digest(SaidBy(y)), d)
    <3> DEFINE e == Digest(SaidBy(y))
    <3>1. OutputsOf(x[1]) \subseteq d.outs /\ x[1] \in Ids(cs) BY <1>12, <1>13
    <3>9. e.ids = {x[1]} /\ e.outs = OutputsOf(x[1]) /\ e.anchors = {} /\ e.seen = NoTimes /\ e.evicted = NoTimes BY <1>13, <2>1
    <3> HIDE DEF e
    <3>10. Within(e, d) BY <1>11, <1>17, <3>9, <3>1 DEF Within
    <3> QED BY <3>10 DEF e
  <2>2. ASSUME NEW x \in Entries(cs.txouts), y = <<"txout", x>> PROVE Within(Digest(SaidBy(y)), d)
    <3> DEFINE e == Digest(SaidBy(y))
    <3>1. {x} \subseteq d.outs BY <1>3, <1>12
    <3>9. e.ids = {} /\ e.outs = {x} /\ e.anchors = {} /\ e.seen = NoTimes /\ e.evicted = NoTimes BY <1>14, <2>2
    <3> HIDE DEF e
    <3>10. Within(e, d) BY <1>11, <1>17, <3>9, <3>1 DEF Within
    <3> QED BY <3>10 DEF e
  <2>3. ASSUME NEW x \in cs.anchors, y = <<"anchor", x>> PROVE Within(Digest(SaidBy(y)), d)
    <3> DEFINE e == Digest(SaidBy(y))
    <3>9. e.ids = {} /\ e.outs = {} /\ e.anchors = {x} /\ e.seen = NoTimes /\ e.evicted = NoTimes BY <1>15, <2>3
    <3> HIDE DEF e
    <3>10. Within(e, d) BY <1>11, <1>17, <3>9 DEF Within
    <3> QED BY <3>10 DEF e
  <2>4. ASSUME NEW x \in Entries(cs.last_seen), y = <<"seen", x>> PROVE Within(Digest(SaidBy(y)), d)
    <3> DEFINE e == Digest(SaidBy(y))
    <3>8. x[1] \in Txid /\ x[2] \in Time /\ x[2] = cs.last_seen[x[1]] /\ x \in Txid \X Time BY <1>4
    <3>1. Before(Only(x[1], x[2]), cs.last_seen) BY <1>2, <3>8, BeforeOnly
    <3>9. e.ids = {} /\ e.outs = {} /\ e.anchors = {} /\ e.seen = Only(x[1], x[2]) /\ e.evicted = NoTimes BY <1>16, <3>8, <2>4
    <3> HIDE DEF e
    <3>10. Within(e, d) BY <1>11, <1>17, <3>9, <3>1 DEF Within
    <3> QED BY <3>10 DEF e
  <2>5. ASSUME NEW x \in Entries(cs.last_evicted), y = <<"evicted", x>> PROVE Within(Digest(SaidBy(y)), d)
    <3> DEFINE e == Digest(SaidBy(y))
    <3>8. x[1] \in Txid /\ x[2] \in Time /\ x[2] = cs.last_evicted[x[1]] /\ x \in Txid \X Time BY <1>5
    <3>1. Before(Only(x[1], x[2]), cs.last_evicted) BY <1>2, <3>8, BeforeOnly
    <3>9. e.ids = {} /\ e.outs = {} /\ e.anchors = {} /\ e.seen = NoTimes /\ e.evicted = Only(x[1], x[2]) BY <1>16, <3>8, <2>5
    <3> HIDE DEF e
    <3>10. Within(e, d) BY <1>11, <1>17, <3>9, <3>1 DEF Within
    <3> QED BY <3>10 DEF e
  <2>6. \/ \E x \in cs.txs : y = <<"tx", x>>
        \/ \E x \in Entries(cs.txouts) : y = <<"txout", x>>
        \/ \E x \in cs.anchors : y = <<"anchor", x>>
        \/ \E x \in Entries(cs.last_seen) : y = <<"seen", x>>
        \/ \E x \in Entries(cs.last_evicted) : y = <<"evicted", x>>
    BY <1>7, <1>18 DEF Items
  <2> QED BY <2>1, <2>2, <2>3, <2>4, <2>5, <2>6
<1>19. \A i \in 1 .. Len(s) : Within(Digest(SaidBy(s[i])), d) BY <1>10, <1>18 DEF Enumerates
<1>20. /\ Within(Held(g), d) /\ \A i \in 1 .. Len(s) : Within(Digest(SaidBy(s[i])), Held(g))
  BY <1>10, <1>11, <1>19, EmptyHeld, InsertAllHolds
<1>21. ASSUME NEW y \in Items(u) PROVE Within(Digest(SaidBy(y)), Held(g)) BY <1>10, <1>20 DEF Enumerates
<1>22. GraphInv(g) /\ Held(g) \in Digests
  <2>1. Learnt(EmptyGraph, InsertAll(EmptyGraph, s)) BY <1>10, EmptyHeld, InsertAllLearnt
  <2>2. GraphInv(g) BY <1>10, <2>1 DEF Learnt
  <2> QED BY <2>2, HeldType DEF GraphInv
<1>23. /\ \A x \in cs.txs : <<"tx", x>> \in Items(u)
       /\ \A x \in Entries(cs.txouts) : <<"txout", x>> \in Items(u)
       /\ \A x \in cs.anchors : <<"anchor", x>> \in Items(u)
       /\ \A x \in Entries(cs.last_seen) : <<"seen", x>> \in Items(u)
       /\ \A x \in Entries(cs.last_evicted) : <<"evicted", x>> \in Items(u)
  BY <1>7 DEF Items
<1>24. \A t \in Ids(cs) : t \in Held(g).ids /\ OutputsOf(t) \subseteq Held(g).outs
  <2>1. ASSUME NEW x \in cs.txs PROVE x[1] \in Held(g).ids /\ OutputsOf(x[1]) \subseteq Held(g).outs
    <3> DEFINE e == Digest(SaidBy(<<"tx", x>>))
    <3>1. Within(e, Held(g)) BY <1>21, <1>23
    <3>2. e.ids = {x[1]} /\ e.outs = OutputsOf(x[1]) BY <1>13
    <3> HIDE DEF e
    <3> QED BY <3>1, <3>2 DEF Within
  <2> QED BY <2>1 DEF Ids
<1>25. ASSUME NEW x \in Entries(cs.txouts) PROVE x \in Held(g).outs
  <2> DEFINE e == Digest(SaidBy(<<"txout", x>>))
  <2>1. Within(e, Held(g)) BY <1>21, <1>23
  <2>2. e.outs = {x} BY <1>14
  <2> HIDE DEF e
  <2> QED BY <2>1, <2>2 DEF Within
<1>26. ASSUME NEW x \in cs.anchors PROVE x \in Held(g).anchors
  <2> DEFINE e == Digest(SaidBy(<<"anchor", x>>))
  <2>1. Within(e, Held(g)) BY <1>21, <1>23
  <2>2. e.anchors = {x} BY <1>15
  <2> HIDE DEF e
  <2> QED BY <2>1, <2>2 DEF Within
<1>27. Held(g).seen \in Times /\ Held(g).evicted \in Times BY <1>22 DEF Digests
<1>28. Before(cs.last_seen, Held(g).seen)
  <2>1. SUFFICES ASSUME NEW t \in Txid, cs.last_seen[t] # None PROVE AtMost(cs.last_seen[t], Held(g).seen[t])
    BY DEF Before, AtMost
  <2> DEFINE x == <<t, cs.last_seen[t]>>
  <2>2. x \in Entries(cs.last_seen) /\ x \in Txid \X Time /\ x[1] = t /\ x[2] = cs.last_seen[t] BY <1>4, <2>1
  <2> HIDE DEF x
  <2>3. Before(Only(x[1], x[2]), Held(g).seen)
    <3> DEFINE e == Digest(SaidBy(<<"seen", x>>))
    <3>1. Within(e, Held(g)) BY <1>21, <1>23, <2>2
    <3>2. e.seen = Only(x[1], x[2]) BY <1>16, <2>2
    <3> HIDE DEF e
    <3> QED BY <3>1, <3>2 DEF Within
  <2>4. x[2] \in Time BY <2>2
  <2> QED BY <1>27, <2>2, <2>3, <2>4, BeforeOnly
<1>29. Before(cs.last_evicted, Held(g).evicted)
  <2>1. SUFFICES ASSUME NEW t \in Txid, cs.last_evicted[t] # None PROVE AtMost(cs.last_evicted[t], Held(g).evicted[t])
    BY DEF Before, AtMost
  <2> DEFINE x == <<t, cs.last_evicted[t]>>
  <2>2. x \in Entries(cs.last_evicted) /\ x \in Txid \X Time /\ x[1] = t /\ x[2] = cs.last_evicted[t] BY <1>5, <2>1
  <2> HIDE DEF x
  <2>3. Before(Only(x[1], x[2]), Held(g).evicted)
    <3> DEFINE e == Digest(SaidBy(<<"evicted", x>>))
    <3>1. Within(e, Held(g)) BY <1>21, <1>23, <2>2
    <3>2. e.evicted = Only(x[1], x[2]) BY <1>16, <2>2
    <3> HIDE DEF e
    <3> QED BY <3>1, <3>2 DEF Within
  <2>4. x[2] \in Time BY <2>2
  <2> QED BY <1>27, <2>2, <2>3, <2>4, BeforeOnly
<1>30. d.outs \subseteq Held(g).outs BY <1>3, <1>12, <1>24, <1>25
<1>31. Within(d, Held(g)) BY <1>11, <1>24, <1>26, <1>28, <1>29, <1>30 DEF Within
<1>32. Held(g) = d BY <1>11, <1>20, <1>22, <1>31, WithinFacts
<1> QED BY <1>22, <1>32 DEF d

-----------------------------------------------------------------------------
(* The operations of the graph that insert several things. *)
LEMMA TxVersion ==
  ASSUME NEW t \in Txid, NEW tx \in TxOf[t]
  PROVE  tx \in Versions(t) /\ <<t, tx>> \in Versioned
<1>1. tx \in Tx BY TxAssumption
<1>2. tx \in Versions(t) BY <1>1 DEF Versions
<1> QED BY <1>1, <1>2 DEF Versioned

LEMMA EachInsertion ==
  ASSUME NEW A, NEW s \in Seq(A), NEW kind, {kind} \X A \subseteq Insertion
  PROVE  Each(kind, s) \in Seq(Insertion) /\ Len(Each(kind, s)) = Len(s)
<1> DEFINE e == Each(kind, s)
           n == Len(s)
<1>1. e = [i \in 1 .. n |-> <<kind, s[i]>>] /\ n \in Nat BY DEF Each
<1>2. \A i \in 1 .. n : <<kind, s[i]>> \in Insertion OBVIOUS
<1> HIDE DEF e, n
<1>3. e \in Seq(Insertion) /\ Len(e) = n BY <1>1, <1>2
<1> QED BY <1>3 DEF e, n

LEMMA Kinds ==
  /\ {"tx"} \X Versioned \subseteq Insertion /\ {"anchor"} \X (Block \X Txid) \subseteq Insertion
  /\ {"seen"} \X (Txid \X Time) \subseteq Insertion /\ {"evicted"} \X (Txid \X Time) \subseteq Insertion
BY DEF Insertion


LEMMA AppendedAt ==
  ASSUME NEW Y, NEW p \in Seq(Y), NEW at \in Y
  PROVE  Append(p, at)[Len(p) + 1] = at /\ \A j \in 1 .. Len(p) : Append(p, at)[j] = p[j]
OBVIOUS

LEMMA AppendedPair ==
  ASSUME NEW a, NEW b, NEW c, NEW q, q = Append(<<a, b>>, c)
  PROVE  q[1] = a /\ q[2] = b /\ q[3] = c
<1> DEFINE p == <<a, b>>
           Y == {a, b, c}
<1>1. p \in Seq(Y) /\ Len(p) = 2 /\ p[1] = a /\ p[2] = b /\ c \in Y OBVIOUS
<1> HIDE DEF p, Y
<1>2. Append(p, c)[Len(p) + 1] = c /\ \A j \in 1 .. Len(p) : Append(p, c)[j] = p[j] BY <1>1, AppendedAt, ZenonT(30)
<1>3. 1 \in 1 .. Len(p) /\ 2 \in 1 .. Len(p) /\ Len(p) + 1 = 3 BY <1>1
<1>4. Append(p, c)[1] = p[1] /\ Append(p, c)[2] = p[2] BY <1>2, <1>3, Zenon
<1>5. Append(p, c)[3] = c BY <1>2, <1>3, Zenon
<1> QED BY <1>1, <1>4, <1>5 DEF p

LEMMA UpdateLearnt ==
  ASSUME NEW g, GraphInv(g), NEW u \in Updates
  PROVE  Learnt(g, ApplyTxUpdate(g, u))
<1>1. u.txouts \subseteq Told BY DEF Told
<1>2. u.txs \subseteq Versioned
  <2>1. ASSUME NEW x \in u.txs PROVE x \in Versioned
    <3>1. x \in Txid \X Tx /\ x[2] \in TxOf[x[1]] BY <2>1, InputAssumption
    <3>2. x[1] \in Txid /\ x = <<x[1], x[2]>> BY <3>1
    <3> QED BY <3>1, <3>2, TxVersion
  <2> QED BY <2>1
<1>3. UpdateInv(u) BY <1>1, <1>2, InputAssumption DEF UpdateInv
<1>4. ApplyTxUpdate(g, u) = InsertAll(g, InsertionsOf(u)) /\ InsertionsOf(u) \in Seq(Insertion)
  BY <1>3, InsertionsListed
<1> QED BY <1>4, InsertAllLearnt

LEMMA UnconfirmedLearnt ==
  ASSUME NEW g, GraphInv(g), NEW txs \in Seq(Versioned), NEW at \in Time
  PROVE  Learnt(g, BatchInsertUnconfirmed(g, [i \in DOMAIN txs |-> Append(txs[i], at)]))
<1> DEFINE n == Len(txs)
           batch == [i \in DOMAIN txs |-> Append(txs[i], at)]
           ss == [i \in 1 .. n |-> <<txs[i][1], at>>]
           ts == [i \in 1 .. n |-> <<txs[i][1], txs[i][2]>>]
<1>1. n \in Nat /\ DOMAIN txs = 1 .. n /\ \A i \in 1 .. n : txs[i] \in Versioned OBVIOUS
<1>2. \A i \in 1 .. n : txs[i] = <<txs[i][1], txs[i][2]>> /\ txs[i][1] \in Txid BY <1>1 DEF Versioned
<1>3. ASSUME NEW i \in 1 .. n PROVE batch[i][1] = txs[i][1] /\ batch[i][2] = txs[i][2] /\ batch[i][3] = at
  <2> DEFINE a == txs[i][1]
             b == txs[i][2]
             p == Append(<<a, b>>, at)
  <2>1. batch[i] = p BY <1>1, <1>2
  <2> HIDE DEF a, b, batch
  <2>2. p[1] = a /\ p[2] = b /\ p[3] = at BY AppendedPair
  <2> HIDE DEF p
  <2>3. batch[i][1] = a /\ batch[i][2] = b /\ batch[i][3] = at BY <2>1, <2>2, Zenon
  <2> QED BY <2>3 DEF a, b
<1>4. DOMAIN batch = 1 .. n BY <1>1
<1>5. [i \in DOMAIN batch |-> <<batch[i][1], batch[i][3]>>] = ss BY <1>3, <1>4
<1>6. [i \in DOMAIN batch |-> <<batch[i][1], batch[i][2]>>] = ts BY <1>3, <1>4
<1>7. ss \in Seq(Txid \X Time) /\ Len(ss) = n BY <1>1, <1>2
<1>8. ts \in Seq(Versioned) /\ Len(ts) = n BY <1>1, <1>2, SMTT(30)
<1> HIDE DEF ss, ts, batch, n
<1> DEFINE s == Each("seen", ss)
           t == Each("tx", ts)
<1>9. s \in Seq(Insertion) /\ Len(s) = n BY <1>7, Kinds, EachInsertion
<1>10. t \in Seq(Insertion) /\ Len(t) = n BY <1>8, Kinds, EachInsertion
<1>11. BatchInsertUnconfirmed(g, batch) = InsertAll(g, InTurns(s, t))
  BY <1>5, <1>6 DEF BatchInsertUnconfirmed
<1> HIDE DEF s, t
<1>12. InTurns(s, t) \in Seq(Insertion) BY <1>9, <1>10, InTurnsType
<1>13. Learnt(g, BatchInsertUnconfirmed(g, batch)) BY <1>11, <1>12, InsertAllLearnt
<1> QED BY <1>13 DEF batch

LEMMA EvictedLearnt ==
  ASSUME NEW g, GraphInv(g), NEW at \in Time
  PROVE  Learnt(g, BatchInsertRelevantEvictedAt(g, Txid, at))
<1> DEFINE A == (Txid \cap Tracked(g)) \X {at}
<1>1. A \subseteq Txid \X Time OBVIOUS
<1>2. IsFiniteSet(A) BY <1>1, Finiteness, FS_Subset
<1>3. BatchInsertRelevantEvictedAt(g, Txid, at) = InsertAll(g, Each("evicted", Listing(A)))
  BY DEF BatchInsertRelevantEvictedAt
<1> HIDE DEF A
<1>4. Listing(A) \in Seq(A) BY <1>2, ListingFacts
<1>5. {"evicted"} \X A \subseteq Insertion BY <1>1, Kinds
<1>6. Each("evicted", Listing(A)) \in Seq(Insertion) BY <1>4, <1>5, EachInsertion
<1> QED BY <1>3, <1>6, InsertAllLearnt

LEMMA MinedLearnt ==
  ASSUME NEW g, GraphInv(g), NEW x \in Versioned, NEW block \in Block
  PROVE  Learnt(g, InsertMined(g, x[1], x[2], block))
<1>1. x = <<x[1], x[2]>> /\ x[1] \in Txid BY DEF Versioned
<1> DEFINE a == <<"tx", <<x[1], x[2]>> >>
           b == <<"anchor", <<block, x[1]>> >>
<1>2. a \in Insertion BY <1>1 DEF Insertion
<1>3. b \in Insertion BY <1>1 DEF Insertion
<1>4. InsertMined(g, x[1], x[2], block) = InsertAll(g, <<a, b>>) BY DEF InsertMined
<1> HIDE DEF a, b
<1>5. <<a, b>> \in Seq(Insertion) BY <1>2, <1>3
<1> QED BY <1>4, <1>5, InsertAllLearnt

LEMMA RelevantLearnt ==
  ASSUME NEW g, GraphInv(g), NEW r, Learnt(g, r), NEW ix, NEW x \in Versioned, NEW block \in Block
  PROVE  Learnt(g, AddRelevant(r, ix, x, block))
<1>1. GraphInv(r.g) BY DEF Learnt
<1>2. Learnt(r.g, InsertMined(r.g, x[1], x[2], block)) BY <1>1, MinedLearnt
<1>3. Learnt(g, Merged(r, InsertMined(r.g, x[1], x[2], block))) BY <1>2, MergedLearnt
<1> QED BY <1>3 DEF AddRelevant

LEMMA AllRelevantLearnt ==
  ASSUME NEW g, GraphInv(g), NEW ix, NEW txs \in Seq(Versioned), NEW block \in Block
  PROVE  Learnt(g, AddAllRelevant(g, ix, txs, block))
<1> DEFINE S == {r \in [g : Graph, cs : Change] : Learnt(g, r)}
           X == Versioned
<1>1. Untouched(g) \in S
  <2>1. Learnt(g, Untouched(g)) BY UntouchedLearnt
  <2> QED BY <2>1 DEF Learnt
<1>2. ASSUME NEW r \in S, NEW x \in X PROVE AddRelevant(r, ix, x, block) \in S
  <2>1. Learnt(g, AddRelevant(r, ix, x, block)) BY RelevantLearnt
  <2> QED BY <2>1 DEF Learnt
<1>3. txs \in Seq(X) OBVIOUS
<1> HIDE DEF S, X
<1>4. \E e \in S : AddAllRelevant(g, ix, txs, block) = e BY <1>1, <1>2, <1>3, RelevantLoop
<1> QED BY <1>4 DEF S

LEMMA BlockLearnt ==
  ASSUME NEW g, GraphInv(g), NEW txs \in Seq(Versioned), NEW block \in Block
  PROVE  Learnt(g, InsertAll(g, InTurns(Each("anchor", [i \in DOMAIN txs |-> <<block, txs[i][1]>>]), Each("tx", txs))))
<1> DEFINE n == Len(txs)
           as == [i \in DOMAIN txs |-> <<block, txs[i][1]>>]
<1>1. n \in Nat /\ DOMAIN txs = 1 .. n /\ \A i \in 1 .. n : txs[i] \in Versioned OBVIOUS
<1>2. \A i \in 1 .. n : txs[i][1] \in Txid BY <1>1 DEF Versioned
<1>3. as \in Seq(Block \X Txid) /\ Len(as) = n BY <1>1, <1>2
<1> HIDE DEF as, n
<1> DEFINE s == Each("anchor", as)
           t == Each("tx", txs)
<1>4. s \in Seq(Insertion) /\ Len(s) = n BY <1>3, Kinds, EachInsertion
<1>5. t \in Seq(Insertion) /\ Len(t) = n BY Kinds, EachInsertion DEF n
<1> HIDE DEF s, t
<1>6. InTurns(s, t) \in Seq(Insertion) BY <1>4, <1>5, InTurnsType
<1>7. Learnt(g, InsertAll(g, InTurns(s, t))) BY <1>6, InsertAllLearnt
<1> QED BY <1>7 DEF as, s, t

-----------------------------------------------------------------------------
(* Indexing what the graph was told of. *)
LEMMA TxsOutputs ==
  ASSUME NEW txs \in Seq(Versioned)
  PROVE  OutputsOfTxs(txs) \in Seq(Seq(TxOut))
<1> DEFINE n == Len(txs)
           S == Seq(TxOut)
           f == [i \in 1 .. n |-> Outputs(txs[i][1], txs[i][2])]
<1>1. n \in Nat /\ DOMAIN txs = 1 .. n OBVIOUS
<1>2. ASSUME NEW i \in 1 .. n PROVE Outputs(txs[i][1], txs[i][2]) \in S
  <2>1. txs[i] \in Versioned OBVIOUS
  <2>2. txs[i][1] \in Txid /\ txs[i][2] \in Versions(txs[i][1]) BY <2>1 DEF Versioned
  <2> QED BY <2>2, VersionOutputs
<1>3. OutputsOfTxs(txs) = f BY <1>1 DEF OutputsOfTxs
<1> HIDE DEF n, S
<1>4. f \in Seq(S) BY <1>1, <1>2
<1> QED BY <1>3, <1>4 DEF S

LEMMA SingleOutputs ==
  ASSUME NEW xs \in Seq(TxOut)
  PROVE  Singly(xs) \in Seq(Seq(TxOut))
<1> DEFINE n == Len(xs)
           S == Seq(TxOut)
           f == [i \in 1 .. n |-> <<xs[i]>>]
<1>1. n \in Nat /\ DOMAIN xs = 1 .. n OBVIOUS
<1>2. ASSUME NEW i \in 1 .. n PROVE <<xs[i]>> \in S
  <2>1. xs[i] \in TxOut OBVIOUS
  <2> QED BY <2>1
<1>3. Singly(xs) = f BY <1>1 DEF Singly
<1> HIDE DEF n, S
<1>4. f \in Seq(S) BY <1>1, <1>2
<1> QED BY <1>3, <1>4 DEF S

LEMMA EntriesFinite ==
  ASSUME NEW m, IsFiniteSet(DOMAIN m)
  PROVE  IsFiniteSet(Entries(m))
<1> DEFINE A == {k \in DOMAIN m : m[k] # None}
           f == [k \in A |-> <<k, m[k]>>]
<1>1. IsFiniteSet(A) BY FS_Subset
<1>2. Entries(m) = {f[k] : k \in A} BY DEF Entries
<1> HIDE DEF A, f
<1>3. IsFiniteSet({f[k] : k \in A}) BY <1>1, FiniteImage
<1> QED BY <1>2, <1>3

LEMMA FloatsListed ==
  ASSUME NEW floats \in Floats
  PROVE  Singly(Listing(Entries(floats))) \in Seq(Seq(TxOut))
<1> DEFINE E == Entries(floats)
<1>1. E \subseteq TxOut BY FloatEntries
<1>2. IsFiniteSet(E)
  <2>1. DOMAIN floats = OutPoint BY DEF Floats
  <2> QED BY <2>1, Finiteness, EntriesFinite
<1>3. Listing(E) \in Seq(E) BY <1>2, ListingFacts
<1> HIDE DEF E
<1>4. Listing(E) \in Seq(TxOut) BY <1>1, <1>3
<1>5. Singly(Listing(E)) \in Seq(Seq(TxOut)) BY <1>4, SingleOutputs
<1> QED BY <1>5 DEF E

LEMMA ListsAppended ==
  ASSUME NEW S, NEW a \in Seq(S), NEW b \in Seq(S)
  PROVE  a \o b \in Seq(S)
OBVIOUS

LEMMA IndexTxsStep ==
  ASSUME NEW ix, IndexInv(ix), NEW txs \in Seq(Versioned)
  PROVE  IndexStep(ix, IndexTxs(ix, txs))
<1>1. OutputsOfTxs(txs) \in Seq(Seq(TxOut)) BY TxsOutputs
<1>2. IndexStep(ix, IndexAll(ix, OutputsOfTxs(txs))) BY <1>1, IndexAllStep
<1> QED BY <1>2 DEF IndexTxs

LEMMA IndexTxStep ==
  ASSUME NEW ix, IndexInv(ix), NEW x \in Versioned
  PROVE  IndexStep(ix, IndexTx(ix, x[1], x[2]))
<1>1. x[1] \in Txid /\ x[2] \in Versions(x[1]) BY DEF Versioned
<1>2. Outputs(x[1], x[2]) \in Seq(TxOut) BY <1>1, VersionOutputs
<1>3. IndexStep(ix, IndexOutputs(ix, Outputs(x[1], x[2]))) BY <1>2, IndexOutputsStep
<1> QED BY <1>3 DEF IndexTx

(* index_tx_graph_changeset. *)
LEMMA IndexAddedStep ==
  ASSUME NEW ix, IndexInv(ix), NEW cs, ChangeInv(cs)
  PROVE  IndexStep(ix, IndexAdded(ix, cs))
<1>1. cs.txs \subseteq Versioned /\ IsFiniteSet(cs.txs) /\ cs \in Change BY DEF ChangeInv
<1>2. cs.txouts \in Floats BY <1>1, ChangeParts
<1>3. Listing(cs.txs) \in Seq(cs.txs) BY <1>1, ListingFacts
<1>4. Listing(cs.txs) \in Seq(Versioned) BY <1>1, <1>3
<1> DEFINE a == OutputsOfTxs(Listing(cs.txs))
           b == Singly(Listing(Entries(cs.txouts)))
           S == Seq(TxOut)
<1>5. a \in Seq(S) BY <1>4, TxsOutputs
<1>6. b \in Seq(S) BY <1>2, FloatsListed
<1>7. IndexAdded(ix, cs) = IndexAll(ix, a \o b) BY DEF IndexAdded
<1> HIDE DEF a, b, S
<1>8. a \o b \in Seq(S) BY <1>5, <1>6, ListsAppended
<1>9. IndexStep(ix, IndexAll(ix, a \o b)) BY <1>8, IndexAllStep DEF S
<1> QED BY <1>7, <1>9

-----------------------------------------------------------------------------
(* Operations of the wallet: r comes of one on w. *)
GraphPart(r) == [g |-> r.w.graph, cs |-> r.cs.tx_graph]
IndexPart(r) == [ix |-> r.w.index, cs |-> r.cs.indexer]
Result ==
  [w : [graph : Graph, index : Index], cs : [tx_graph : Change, indexer : IndexChange]]
Advances(w, r) == r \in Result /\ Learnt(w.graph, GraphPart(r)) /\ IndexStep(w.index, IndexPart(r))
Sound(w) == GraphInv(w.graph) /\ IndexInv(w.index)

LEMMA ResultOf ==
  ASSUME NEW w, NEW gr, Learnt(w.graph, gr), NEW ir, IndexStep(w.index, ir),
         NEW r, r = [w |-> [graph |-> gr.g, index |-> ir.ix], cs |-> [tx_graph |-> gr.cs, indexer |-> ir.cs]]
  PROVE  Advances(w, r)
<1>1. gr \in [g : Graph, cs : Change] BY DEF Learnt
<1>2. ir \in [ix : Index, cs : IndexChange] BY DEF IndexStep, IndexResult
<1>3. r \in Result BY <1>1, <1>2 DEF Result
<1>4. GraphPart(r) = gr BY <1>1 DEF GraphPart
<1>5. IndexPart(r) = ir BY <1>2 DEF IndexPart
<1> QED BY <1>3, <1>4, <1>5 DEF Advances

LEMMA IndexedAdvances ==
  ASSUME NEW w, Sound(w), NEW step, Learnt(w.graph, step)
  PROVE  Advances(w, Indexed(w, step))
<1>1. ChangeInv(step.cs) /\ IndexInv(w.index) BY DEF Learnt, Sound
<1> DEFINE ir == IndexAdded(w.index, step.cs)
<1>2. IndexStep(w.index, ir) BY <1>1, IndexAddedStep
<1>3. Indexed(w, step) = [w |-> [graph |-> step.g, index |-> ir.ix], cs |-> [tx_graph |-> step.cs, indexer |-> ir.cs]]
  BY DEF Indexed
<1> HIDE DEF ir
<1> QED BY <1>2, <1>3, ResultOf

LEMMA GraphOnlyAdvances ==
  ASSUME NEW w \in [graph : Graph, index : Index], Sound(w), NEW step, Learnt(w.graph, step)
  PROVE  Advances(w, GraphOnly(w, step))
<1> DEFINE ir == Start(w.index)
<1>1. w.index \in Index /\ IndexInv(w.index) BY DEF Sound
<1>2. IndexStep(w.index, ir) BY <1>1, StartStep
<1>3. GraphOnly(w, step) = [w |-> [graph |-> step.g, index |-> ir.ix], cs |-> [tx_graph |-> step.cs, indexer |-> ir.cs]]
  BY DEF GraphOnly, EmptyWalletChangeSet, Start
<1> HIDE DEF ir
<1> QED BY <1>2, <1>3, ResultOf

LEMMA IndexOnlyAdvances ==
  ASSUME NEW w \in [graph : Graph, index : Index], Sound(w), NEW step, IndexStep(w.index, step)
  PROVE  Advances(w, IndexOnly(w, step))
<1> DEFINE gr == Untouched(w.graph)
<1>1. Learnt(w.graph, gr) BY UntouchedLearnt DEF Sound
<1>2. IndexOnly(w, step) = [w |-> [graph |-> gr.g, index |-> step.ix], cs |-> [tx_graph |-> gr.cs, indexer |-> step.cs]]
  BY DEF IndexOnly, EmptyWalletChangeSet, Untouched
<1> HIDE DEF gr
<1> QED BY <1>1, <1>2, ResultOf

LEMMA AdvancedSound ==
  ASSUME NEW w, NEW r, Advances(w, r)
  PROVE  /\ Sound(r.w) /\ r.w \in [graph : Graph, index : Index] /\ r.w.index.descriptor = w.index.descriptor
         /\ ChangeInv(r.cs.tx_graph) /\ r.cs.indexer \in IndexChange
<1>1. GraphInv(r.w.graph) /\ ChangeInv(r.cs.tx_graph) BY DEF Advances, Learnt, GraphPart
<1>2. IndexInv(r.w.index) /\ r.w.index.descriptor = w.index.descriptor BY DEF Advances, IndexStep, IndexPart
<1>3. r \in Result BY DEF Advances
<1> QED BY <1>1, <1>2, <1>3 DEF Sound, Result

(* batch_insert_relevant and batch_insert_relevant_unconfirmed. *)
LEMMA BatchRelevantAdvances ==
  ASSUME NEW w, Sound(w), NEW txs \in Seq(Versioned), NEW block \in Block
  PROVE  Advances(w, BatchInsertRelevant(w, txs, block))
<1> DEFINE ir == IndexTxs(w.index, txs)
           gr == AddAllRelevant(w.graph, ir.ix, txs, block)
<1>1. IndexStep(w.index, ir) BY IndexTxsStep DEF Sound
<1>2. Learnt(w.graph, gr) BY AllRelevantLearnt DEF Sound
<1>3. BatchInsertRelevant(w, txs, block)
        = [w |-> [graph |-> gr.g, index |-> ir.ix], cs |-> [tx_graph |-> gr.cs, indexer |-> ir.cs]]
  BY DEF BatchInsertRelevant
<1> HIDE DEF ir, gr
<1> QED BY <1>1, <1>2, <1>3, ResultOf

LEMMA BatchUnconfirmedAdvances ==
  ASSUME NEW w, Sound(w), NEW txs \in Seq(Versioned), NEW at \in Time
  PROVE  Advances(w, BatchInsertRelevantUnconfirmed(w, txs, at))
<1> DEFINE ir == IndexTxs(w.index, txs)
           judged == [w EXCEPT !.index = ir.ix]
           ps == {i \in DOMAIN txs : IsRelevant(judged, txs[i][1], txs[i][2])}
           relevant == Subsequence(txs, ps)
           gr == BatchInsertUnconfirmed(w.graph, [i \in DOMAIN relevant |-> Append(relevant[i], at)])
<1>1. IndexStep(w.index, ir) BY IndexTxsStep DEF Sound
<1>2. relevant \in Seq(Versioned)
  <2>1. Len(txs) \in Nat /\ ps \in SUBSET (1 .. Len(txs)) /\ \A i \in ps : txs[i] \in Versioned OBVIOUS
  <2> HIDE DEF ps
  <2> QED BY <2>1, SubsequenceType
<1>3. BatchInsertRelevantUnconfirmed(w, txs, at)
        = [w |-> [graph |-> gr.g, index |-> ir.ix], cs |-> [tx_graph |-> gr.cs, indexer |-> ir.cs]]
  BY DEF BatchInsertRelevantUnconfirmed
<1> HIDE DEF relevant
<1>4. Learnt(w.graph, gr) BY <1>2, UnconfirmedLearnt DEF Sound
<1> HIDE DEF ir, gr
<1> QED BY <1>1, <1>3, <1>4, ResultOf

(* apply_block. *)
LEMMA BlockAdvances ==
  ASSUME NEW w, Sound(w), NEW txs \in Seq(Versioned), NEW block \in Block
  PROVE  Advances(w, ApplyBlock(w, txs, block))
<1> DEFINE gr == InsertAll(w.graph, InTurns(Each("anchor", [i \in DOMAIN txs |-> <<block, txs[i][1]>>]), Each("tx", txs)))
<1>1. Learnt(w.graph, gr) BY BlockLearnt DEF Sound
<1>2. ApplyBlock(w, txs, block) = Indexed(w, gr) BY DEF ApplyBlock
<1> HIDE DEF gr
<1> QED BY <1>1, <1>2, IndexedAdvances

(* apply_block_relevant, transaction by transaction. *)
LEMMA TxRelevantAdvances ==
  ASSUME NEW w, Sound(w), NEW x \in Versioned, NEW block \in Block
  PROVE  Advances(w, ApplyTxRelevant(w, x, block))
<1> DEFINE ir == IndexTx(w.index, x[1], x[2])
           gr == AddRelevant(Untouched(w.graph), ir.ix, x, block)
<1>1. IndexStep(w.index, ir) BY IndexTxStep DEF Sound
<1>2. Learnt(w.graph, gr) BY UntouchedLearnt, RelevantLearnt DEF Sound
<1>3. ApplyTxRelevant(w, x, block)
        = [w |-> [graph |-> gr.g, index |-> ir.ix], cs |-> [tx_graph |-> gr.cs, indexer |-> ir.cs]]
  BY DEF ApplyTxRelevant
<1> HIDE DEF ir, gr
<1> QED BY <1>1, <1>2, <1>3, ResultOf

LEMMA AndThenAdvances ==
  ASSUME NEW w, Sound(w), NEW r, Advances(w, r), NEW s, Advances(r.w, s)
  PROVE  Advances(w, AndThen(r, s))
<1> DEFINE gr == Merged(GraphPart(r), GraphPart(s))
           ir == Then(IndexPart(r), IndexPart(s))
<1>1. Learnt(w.graph, GraphPart(r)) /\ IndexStep(w.index, IndexPart(r)) BY DEF Advances
<1>2. Learnt(r.w.graph, GraphPart(s)) /\ IndexStep(r.w.index, IndexPart(s)) BY DEF Advances
<1>3. GraphPart(r).g = r.w.graph /\ IndexPart(r).ix = r.w.index BY DEF GraphPart, IndexPart
<1>4. GraphInv(w.graph) /\ w.index \in Index BY DEF Sound, IndexInv
<1>5. Learnt(w.graph, gr) BY <1>1, <1>2, <1>3, <1>4, MergedLearnt
<1>6. IndexStep(w.index, ir) BY <1>1, <1>2, <1>3, <1>4, ThenStep
<1>7. s \in Result BY DEF Advances
<1>8. AndThen(r, s) = [w |-> [graph |-> gr.g, index |-> ir.ix], cs |-> [tx_graph |-> gr.cs, indexer |-> ir.cs]]
  BY <1>7 DEF AndThen, MergeWalletChangeSets, Merged, Then, GraphPart, IndexPart, Result
<1> HIDE DEF ir, gr
<1> QED BY <1>5, <1>6, <1>8, ResultOf

LEMMA BlockRelevantAdvances ==
  ASSUME NEW w \in [graph : Graph, index : Index], Sound(w), NEW txs \in Seq(Versioned), NEW block \in Block
  PROVE  Advances(w, ApplyBlockRelevant(w, txs, block))
<1> DEFINE S == {r \in Result : Advances(w, r)}
           X == Versioned
           start == [w |-> w, cs |-> EmptyWalletChangeSet]
<1>1. start \in S
  <2>1. Learnt(w.graph, Untouched(w.graph)) BY UntouchedLearnt DEF Sound
  <2>2. w.index \in Index /\ IndexInv(w.index) BY DEF Sound
  <2>3. IndexStep(w.index, Start(w.index)) BY <2>2, StartStep
  <2> DEFINE gr == Untouched(w.graph)
             ir == Start(w.index)
  <2>4. start = [w |-> [graph |-> gr.g, index |-> ir.ix], cs |-> [tx_graph |-> gr.cs, indexer |-> ir.cs]]
    BY DEF EmptyWalletChangeSet, Untouched, Start
  <2> HIDE DEF gr, ir, start
  <2>5. Advances(w, start) BY <2>1, <2>3, <2>4, ResultOf DEF gr, ir
  <2> QED BY <2>5 DEF Advances
<1>2. ASSUME NEW r \in S, NEW x \in X PROVE AndThen(r, ApplyTxRelevant(r.w, x, block)) \in S
  <2>1. Advances(w, r) OBVIOUS
  <2>2. Sound(r.w) BY <2>1, AdvancedSound
  <2>3. Advances(r.w, ApplyTxRelevant(r.w, x, block)) BY <2>2, TxRelevantAdvances
  <2>4. Advances(w, AndThen(r, ApplyTxRelevant(r.w, x, block))) BY <2>1, <2>3, AndThenAdvances
  <2> QED BY <2>4 DEF Advances
<1>3. txs \in Seq(X) /\ [w |-> w, cs |-> EmptyWalletChangeSet] \in S BY <1>1
<1> HIDE DEF S, X
<1>4. \E e \in S : ApplyBlockRelevant(w, txs, block) = e BY <1>2, <1>3, BlockLoop
<1> QED BY <1>4 DEF S

-----------------------------------------------------------------------------
(* The stores, the stage and the memory.  A store holds a well-formed change *)
(* set; what it says and what is staged add up to what is in memory, and a   *)
(* time or an index in the stage is the one in memory.                       *)
StoreInv(cs) == ChangeInv(cs.tx_graph) /\ cs.indexer \in IndexChange

WalletInv(w) == w \in [graph : Graph, index : Index] /\ Sound(w) /\ Assigned(w.index)

AddsUp(w, stored, staged) ==
  /\ Held(w.graph) = Join(Digest(stored.tx_graph), Digest(staged.tx_graph))
  /\ Timely([g |-> w.graph, cs |-> staged.tx_graph])
  /\ Reported(stored.indexer, [ix |-> w.index, cs |-> staged.indexer])

LEMMA IndexChangeParts ==
  ASSUME NEW cs \in IndexChange
  PROVE  /\ cs.last_revealed \in LastRevealed /\ cs.spk_cache \in SUBSET Script
         /\ cs = [last_revealed |-> cs.last_revealed, spk_cache |-> cs.spk_cache]
BY DEF IndexChange

LEMMA MergedIndexChange ==
  ASSUME NEW cs \in IndexChange, NEW other \in IndexChange, NEW m, m = MergeIndexChangesets(cs, other)
  PROVE  /\ m \in IndexChange
         /\ \A d \in Descriptor : m.last_revealed[d] = Latest(cs.last_revealed[d], other.last_revealed[d])
<1> DEFINE a == cs.last_revealed
           b == other.last_revealed
           l == [d \in Descriptor |-> Latest(a[d], b[d])]
<1>1. a \in LastRevealed /\ b \in LastRevealed BY IndexChangeParts
<1>2. m.last_revealed = l /\ m.spk_cache = cs.spk_cache \cup other.spk_cache
  /\ m = [last_revealed |-> l, spk_cache |-> cs.spk_cache \cup other.spk_cache]
  BY DEF MergeIndexChangesets
<1>3. ASSUME NEW d \in Descriptor PROVE Latest(a[d], b[d]) \in (0 .. BIP32_MAX_INDEX) \cup {None}
  <2> HIDE DEF a, b
  <2>1. /\ a[d] \in (0 .. BIP32_MAX_INDEX) \cup {None} /\ a[d] \in Optional
        /\ b[d] \in (0 .. BIP32_MAX_INDEX) \cup {None} /\ b[d] \in Optional
    BY <1>1, LastRevealedType
  <2>2. Latest(a[d], b[d]) \in {a[d], b[d]} BY <2>1, LatestFacts
  <2> QED BY <2>1, <2>2
<1>4. l \in LastRevealed BY <1>3 DEF LastRevealed
<1>5. cs.spk_cache \cup other.spk_cache \in SUBSET Script BY IndexChangeParts
<1>6. \A d \in Descriptor : l[d] = Latest(a[d], b[d]) OBVIOUS
<1> HIDE DEF l
<1>7. m \in IndexChange BY <1>2, <1>4, <1>5 DEF IndexChange
<1> QED BY <1>2, <1>6, <1>7

LEMMA NothingIndexed ==
  EmptyIndexChangeSet \in IndexChange /\ \A d \in Descriptor : EmptyIndexChangeSet.last_revealed[d] = None
<1> DEFINE n == [d \in Descriptor |-> None]
<1>1. n \in LastRevealed BY DEF LastRevealed
<1>2. EmptyIndexChangeSet = [last_revealed |-> n, spk_cache |-> {}] BY DEF EmptyIndexChangeSet
<1>3. \A d \in Descriptor : n[d] = None OBVIOUS
<1> HIDE DEF n
<1> QED BY <1>1, <1>2, <1>3 DEF IndexChange

LEMMA MergedStore ==
  ASSUME NEW cs, StoreInv(cs), NEW other, StoreInv(other), NEW m, m = MergeWalletChangeSets(cs, other)
  PROVE  /\ StoreInv(m) /\ Digest(m.tx_graph) = Join(Digest(cs.tx_graph), Digest(other.tx_graph))
         /\ m.tx_graph = MergeChangeSets(cs.tx_graph, other.tx_graph)
         /\ m.indexer = MergeIndexChangesets(cs.indexer, other.indexer)
         /\ \A d \in Descriptor :
              m.indexer.last_revealed[d] = Latest(cs.indexer.last_revealed[d], other.indexer.last_revealed[d])
<1>1. m.tx_graph = MergeChangeSets(cs.tx_graph, other.tx_graph)
  /\ m.indexer = MergeIndexChangesets(cs.indexer, other.indexer)
  BY DEF MergeWalletChangeSets
<1>2. ChangeInv(cs.tx_graph) /\ ChangeInv(other.tx_graph) /\ cs.indexer \in IndexChange /\ other.indexer \in IndexChange
  BY DEF StoreInv
<1>3. ChangeInv(m.tx_graph) /\ Digest(m.tx_graph) = Join(Digest(cs.tx_graph), Digest(other.tx_graph))
  BY <1>1, <1>2, MergedChange
<1>4. /\ m.indexer \in IndexChange
      /\ \A d \in Descriptor :
           m.indexer.last_revealed[d] = Latest(cs.indexer.last_revealed[d], other.indexer.last_revealed[d])
  BY <1>1, <1>2, MergedIndexChange
<1> QED BY <1>1, <1>3, <1>4 DEF StoreInv

LEMMA StoreDigest ==
  ASSUME NEW cs, StoreInv(cs)
  PROVE  /\ Digest(cs.tx_graph) \in Digests /\ cs.tx_graph \in Change
         /\ cs.tx_graph.last_seen \in Times /\ cs.tx_graph.last_evicted \in Times
         /\ cs.indexer.last_revealed \in LastRevealed
<1>1. cs.tx_graph \in Change /\ cs.indexer \in IndexChange BY DEF StoreInv, ChangeInv
<1> QED BY <1>1, DigestType, ChangeParts, IndexChangeParts

-----------------------------------------------------------------------------
(* An operation, its change set merged into the stage. *)
LEMMA StagedTimes ==
  ASSUME NEW g, GraphInv(g), NEW r, Learnt(g, r), NEW cs, ChangeInv(cs), Timely([g |-> g, cs |-> cs])
  PROVE  Timely([g |-> r.g, cs |-> MergeChangeSets(cs, r.cs)])
<1> DEFINE m == MergeChangeSets(cs, r.cs)
<1>1. r.g \in Graph /\ r.cs \in Change /\ g \in Graph /\ cs \in Change BY DEF Learnt, GraphInv, ChangeInv
<1>2. Held(r.g).seen = LatestOf(Held(g).seen, Digest(r.cs).seen) /\ Held(r.g).evicted = LatestOf(Held(g).evicted, Digest(r.cs).evicted)
  BY DEF Learnt, Join
<1>3. Digest(r.cs).seen = r.cs.last_seen /\ Digest(r.cs).evicted = r.cs.last_evicted BY DEF Digest
<1>4. r.g.last_seen = LatestOf(g.last_seen, r.cs.last_seen) /\ r.g.last_evicted = LatestOf(g.last_evicted, r.cs.last_evicted)
  BY <1>1, <1>2, <1>3, HeldFields
<1>5. /\ g.last_seen \in Times /\ g.last_evicted \in Times /\ r.g.last_seen \in Times /\ r.g.last_evicted \in Times
      /\ cs.last_seen \in Times /\ cs.last_evicted \in Times /\ r.cs.last_seen \in Times /\ r.cs.last_evicted \in Times
  BY <1>1, GraphParts, ChangeParts
<1>6. m.last_seen = LatestOf(cs.last_seen, r.cs.last_seen) /\ m.last_evicted = LatestOf(cs.last_evicted, r.cs.last_evicted)
  BY DEF MergeChangeSets, LatestOf
<1>7. Timely(r) BY DEF Learnt
<1>8. ASSUME NEW a \in Times, NEW b \in Times, NEW x \in Times, NEW y \in Times, y = LatestOf(x, b),
             NEW t \in Txid, a[t] \in {None, x[t]}, b[t] \in {None, y[t]}
      PROVE  LatestOf(a, b)[t] \in {None, y[t]}
  <2>1. a[t] \in Optional /\ b[t] \in Optional /\ x[t] \in Optional /\ y[t] \in Optional BY <1>8, TimesType
  <2>2. y[t] = Latest(x[t], b[t]) /\ LatestOf(a, b)[t] = Latest(a[t], b[t]) BY <1>8, LatestOfFacts
  <2> QED BY <1>8, <2>1, <2>2, TimelyMerged
<1>9. ASSUME NEW t \in Txid PROVE m.last_seen[t] \in {None, r.g.last_seen[t]}
  <2>1. cs.last_seen[t] \in {None, g.last_seen[t]} /\ r.cs.last_seen[t] \in {None, r.g.last_seen[t]} BY <1>7 DEF Timely
  <2>2. LatestOf(cs.last_seen, r.cs.last_seen)[t] \in {None, r.g.last_seen[t]} BY <1>4, <1>5, <1>8, <2>1
  <2> QED BY <1>6, <2>2
<1>10. ASSUME NEW t \in Txid PROVE m.last_evicted[t] \in {None, r.g.last_evicted[t]}
  <2>1. cs.last_evicted[t] \in {None, g.last_evicted[t]} /\ r.cs.last_evicted[t] \in {None, r.g.last_evicted[t]} BY <1>7 DEF Timely
  <2>2. LatestOf(cs.last_evicted, r.cs.last_evicted)[t] \in {None, r.g.last_evicted[t]} BY <1>4, <1>5, <1>8, <2>1
  <2> QED BY <1>6, <2>2
<1> HIDE DEF m
<1>11. Timely([g |-> r.g, cs |-> m]) BY <1>9, <1>10 DEF Timely
<1> QED BY <1>11 DEF m

LEMMA StagedIndex ==
  ASSUME NEW stored \in IndexChange, NEW staged \in IndexChange, NEW ix \in Index,
         Reported(stored, [ix |-> ix, cs |-> staged]), NEW r, IndexStep(ix, r)
  PROVE  Reported(stored, [ix |-> r.ix, cs |-> MergeIndexChangesets(staged, r.cs)])
<1> DEFINE m == MergeIndexChangesets(staged, r.cs)
<1>1. r.ix \in Index /\ r.cs \in IndexChange BY DEF IndexStep, IndexResult
<1>2. \A d \in Descriptor : m.last_revealed[d] = Latest(staged.last_revealed[d], r.cs.last_revealed[d])
  BY <1>1, MergedIndexChange
<1>3. /\ stored.last_revealed \in LastRevealed /\ staged.last_revealed \in LastRevealed
      /\ r.cs.last_revealed \in LastRevealed /\ ix.last_revealed \in LastRevealed
      /\ r.ix.last_revealed \in LastRevealed
  BY <1>1, IndexChangeParts DEF Index
<1> HIDE DEF m
<1>4. ASSUME NEW d \in Descriptor
      PROVE  /\ r.ix.last_revealed[d] = Latest(stored.last_revealed[d], m.last_revealed[d])
             /\ m.last_revealed[d] \in {None, r.ix.last_revealed[d]}
  <2> DEFINE f == stored.last_revealed[d]
             s == staged.last_revealed[d]
             c == r.cs.last_revealed[d]
             i == ix.last_revealed[d]
             j == r.ix.last_revealed[d]
  <2>1. f \in Optional /\ s \in Optional /\ c \in Optional /\ i \in Optional /\ j \in Optional
    BY <1>3, LastRevealedType
  <2>2. i = Latest(f, s) /\ s \in {None, i} BY DEF Reported
  <2>3. j = Latest(i, c) /\ c \in {None, j} BY DEF IndexStep, Reported
  <2>4. m.last_revealed[d] = Latest(s, c) BY <1>2
  <2> HIDE DEF f, s, c, i, j
  <2>5. j = Latest(f, Latest(s, c)) BY <2>1, <2>2, <2>3, LatestAssociative
  <2>6. Latest(s, c) \in {None, j} BY <2>1, <2>2, <2>3, TimelyMerged
  <2> QED BY <2>4, <2>5, <2>6 DEF f, j
<1>5. Reported(stored, [ix |-> r.ix, cs |-> m]) BY <1>4 DEF Reported
<1> QED BY <1>5 DEF m

LEMMA Operated ==
  ASSUME NEW w, WalletInv(w), NEW stored, StoreInv(stored), NEW staged, StoreInv(staged),
         AddsUp(w, stored, staged), NEW r, Advances(w, r),
         NEW m, m = MergeWalletChangeSets(staged, r.cs)
  PROVE  WalletInv(r.w) /\ StoreInv(m) /\ AddsUp(r.w, stored, m)
<1>1. /\ Sound(r.w) /\ r.w \in [graph : Graph, index : Index] /\ r.w.index.descriptor = w.index.descriptor
      /\ StoreInv(r.cs)
  BY AdvancedSound DEF StoreInv
<1>2. WalletInv(r.w) BY <1>1 DEF WalletInv, Assigned
<1>3. /\ StoreInv(m) /\ Digest(m.tx_graph) = Join(Digest(staged.tx_graph), Digest(r.cs.tx_graph))
      /\ m.tx_graph = MergeChangeSets(staged.tx_graph, r.cs.tx_graph)
      /\ m.indexer = MergeIndexChangesets(staged.indexer, r.cs.indexer)
  BY <1>1, MergedStore
<1> DEFINE gr == GraphPart(r)
           ir == IndexPart(r)
<1>4. Learnt(w.graph, gr) /\ IndexStep(w.index, ir) BY DEF Advances
<1>5. gr.g = r.w.graph /\ gr.cs = r.cs.tx_graph /\ ir.ix = r.w.index /\ ir.cs = r.cs.indexer
  BY DEF GraphPart, IndexPart
<1> HIDE DEF gr, ir
<1>6. Held(r.w.graph) = Join(Digest(stored.tx_graph), Digest(m.tx_graph))
  <2>1. Held(r.w.graph) = Join(Held(w.graph), Digest(r.cs.tx_graph)) BY <1>4, <1>5 DEF Learnt
  <2>2. Held(w.graph) = Join(Digest(stored.tx_graph), Digest(staged.tx_graph)) BY DEF AddsUp
  <2>3. Digest(stored.tx_graph) \in Digests /\ Digest(staged.tx_graph) \in Digests /\ Digest(r.cs.tx_graph) \in Digests
    BY <1>1, StoreDigest
  <2> QED BY <1>3, <2>1, <2>2, <2>3, JoinAssociative
<1>7. Timely([g |-> r.w.graph, cs |-> m.tx_graph])
  <2>1. GraphInv(w.graph) BY DEF WalletInv, Sound
  <2>2. ChangeInv(staged.tx_graph) /\ Timely([g |-> w.graph, cs |-> staged.tx_graph]) BY DEF StoreInv, AddsUp
  <2>3. Timely([g |-> gr.g, cs |-> MergeChangeSets(staged.tx_graph, gr.cs)]) BY <1>4, <2>1, <2>2, StagedTimes
  <2> QED BY <1>3, <1>5, <2>3
<1>8. Reported(stored.indexer, [ix |-> r.w.index, cs |-> m.indexer])
  <2>1. stored.indexer \in IndexChange /\ staged.indexer \in IndexChange /\ w.index \in Index
    BY DEF StoreInv, WalletInv
  <2>2. Reported(stored.indexer, [ix |-> w.index, cs |-> staged.indexer]) BY DEF AddsUp
  <2>3. Reported(stored.indexer, [ix |-> ir.ix, cs |-> MergeIndexChangesets(staged.indexer, ir.cs)])
    BY <1>4, <2>1, <2>2, StagedIndex
  <2> QED BY <1>3, <1>5, <2>3
<1> QED BY <1>2, <1>3, <1>6, <1>7, <1>8 DEF AddsUp

-----------------------------------------------------------------------------
(* Loading: nothing is staged but the addresses that indexing the graph      *)
(* again finds revealed.                                                     *)
LEMMA Loaded ==
  ASSUME NEW cs, StoreInv(cs), NEW order \in LoadOrders(cs), NEW r, r = FromChangeset(cs, order)
  PROVE  WalletInv(r.w) /\ StoreInv(r.cs) /\ AddsUp(r.w, cs, r.cs) /\ Held(r.w.graph) = Digest(cs.tx_graph)
<1> DEFINE g == ApplyChangeSet(EmptyGraph, cs.tx_graph)
           ix == WithDescriptors(ApplyIndexChangeset(EmptyIndex, cs.indexer))
           w == [graph |-> g, index |-> ix]
           txs == [i \in DOMAIN order |-> <<order[i], g.txs[order[i]]>>]
           a == OutputsOfTxs(txs)
           b == Singly(Listing(Entries(g.txouts)))
           S == Seq(TxOut)
           step == IndexAll(ix, a \o b)
<1>1. ChangeInv(cs.tx_graph) /\ cs.indexer \in IndexChange BY DEF StoreInv
<1>2. GraphInv(g) /\ Held(g) = Digest(cs.tx_graph) BY <1>1, GraphLoaded
<1>3. IndexInv(ix) /\ Assigned(ix) /\ ix.last_revealed = cs.indexer.last_revealed BY <1>1, IndexLoaded
<1>4. r = IndexOnly(w, step) BY DEF FromChangeset, Reindex
<1>5. g \in Graph /\ ix \in Index BY <1>2, <1>3 DEF GraphInv, IndexInv
<1>6. w.graph = g /\ w.index = ix /\ w \in [graph : Graph, index : Index] /\ Sound(w)
  BY <1>2, <1>3, <1>5 DEF Sound
<1>7. txs \in Seq(Versioned)
  <2> DEFINE ids == Ids(cs.tx_graph)
             n == Cardinality(ids)
  <2>1. ids = Whole(g)
    <3>1. Held(g).ids = Whole(g) BY DEF Held
    <3>2. Digest(cs.tx_graph).ids = Ids(cs.tx_graph) BY DEF Digest
    <3> QED BY <1>2, <3>1, <3>2
  <2>2. order \in [1 .. n -> ids] BY DEF LoadOrders, Ids
  <2>3. IsFiniteSet(ids) BY <2>1, FS_Subset, TxAssumption DEF Whole
  <2>4. n \in Nat BY <2>3, FS_CardinalityType
  <2>5. ASSUME NEW t \in ids PROVE <<t, g.txs[t]>> \in Versioned
    <3>1. t \in Txid /\ g.txs[t] # None BY <2>1 DEF Whole
    <3>2. g.txs[t] \in Versions(t) BY <1>2, <3>1 DEF GraphInv
    <3>3. g.txs[t] \in Tx BY <3>1, <3>2, VersionOutputs
    <3> QED BY <3>1, <3>2, <3>3 DEF Versioned
  <2> HIDE DEF ids, n, g
  <2>6. \A i \in 1 .. n : order[i] \in ids BY <2>2
  <2>7. txs = [i \in 1 .. n |-> <<order[i], g.txs[order[i]]>>] BY <2>2
  <2>8. \A i \in 1 .. n : <<order[i], g.txs[order[i]]>> \in Versioned BY <2>5, <2>6
  <2> QED BY <2>4, <2>7, <2>8
<1>8. g.txouts \in Floats BY <1>5, GraphParts
<1> HIDE DEF txs, g, ix
<1>9. a \in Seq(S) BY <1>7, TxsOutputs
<1>10. b \in Seq(S) BY <1>8, FloatsListed
<1> HIDE DEF a, b, S
<1>11. a \o b \in Seq(S) BY <1>9, <1>10, ListsAppended
<1>12. IndexStep(ix, step) BY <1>3, <1>11, IndexAllStep DEF S
<1> HIDE DEF step, w
<1>13. Advances(w, r) BY <1>4, <1>6, <1>12, IndexOnlyAdvances
<1>14. /\ Sound(r.w) /\ r.w \in [graph : Graph, index : Index] /\ r.w.index.descriptor = ix.descriptor
       /\ StoreInv(r.cs)
  BY <1>6, <1>13, AdvancedSound DEF StoreInv
<1>15. WalletInv(r.w) BY <1>3, <1>14 DEF WalletInv, Assigned
<1>16. Learnt(g, GraphPart(r)) /\ IndexStep(ix, IndexPart(r)) BY <1>6, <1>13 DEF Advances
<1>17. AddsUp(r.w, cs, r.cs)
  <2>1. Held(r.w.graph) = Join(Digest(cs.tx_graph), Digest(r.cs.tx_graph)) BY <1>2, <1>16 DEF Learnt, GraphPart
  <2>2. Timely([g |-> r.w.graph, cs |-> r.cs.tx_graph]) BY <1>16 DEF Learnt, GraphPart
  <2>3. Reported(cs.indexer, [ix |-> r.w.index, cs |-> r.cs.indexer])
    BY <1>3, <1>16 DEF IndexStep, IndexPart, Reported
  <2> QED BY <2>1, <2>2, <2>3 DEF AddsUp
<1>18. r.w.graph = g BY <1>4, <1>6 DEF IndexOnly
<1> QED BY <1>2, <1>14, <1>15, <1>17, <1>18

-----------------------------------------------------------------------------
(* The SQLite tables say what the file says. *)
TablesInv(tables, cs) ==
  /\ StoreInv(FromSqlite(tables))
  /\ Digest(FromSqlite(tables).tx_graph) = Digest(cs.tx_graph)
  /\ FromSqlite(tables).indexer = cs.indexer

(* A row's time overwritten is the later of the two: what is staged is       *)
(* nothing, or as late as anything stored.                                   *)
LEMMA OverwrittenIsLatest ==
  ASSUME NEW old \in Optional, NEW new \in Optional, NEW now \in Optional,
         now = Latest(old, new), new \in {None, now}
  PROVE  Written(new, old) = Latest(old, new)
BY LatestFacts DEF Written

(* What is written over the rows, read back. *)
Raws(rows) == [t \in Txid |-> rows[t].raw_tx]
RowsOver(raw, rows) == [t \in Txid |-> Written(raw[t], rows[t].raw_tx)]
TimesOver(new, old) == [t \in Txid |-> Written(new[t], old[t])]
FloatsOver(new, old) == [op \in OutPoint |-> Written(new[op], old[op])]
IndexOver(new, old) == [d \in Descriptor |-> Written(new[d], old[d])]

LEMMA WrittenParts ==
  ASSUME NEW tables, NEW cs, NEW raw, NEW tab, tab = PersistToSqlite(tables, cs, raw), NEW new, new = FromSqlite(tab),
         NEW old, old = FromSqlite(tables)
  PROVE  /\ new.tx_graph.txs = Entries(RowsOver(raw, tables.txs))
         /\ new.tx_graph.txouts = FloatsOver(cs.tx_graph.txouts, old.tx_graph.txouts)
         /\ new.tx_graph.anchors = old.tx_graph.anchors \cup cs.tx_graph.anchors
         /\ new.tx_graph.first_seen = TimesOver(cs.tx_graph.first_seen, old.tx_graph.first_seen)
         /\ new.tx_graph.last_seen = TimesOver(cs.tx_graph.last_seen, old.tx_graph.last_seen)
         /\ new.tx_graph.last_evicted = TimesOver(cs.tx_graph.last_evicted, old.tx_graph.last_evicted)
         /\ new.indexer.last_revealed = IndexOver(cs.indexer.last_revealed, old.indexer.last_revealed)
         /\ new.indexer.spk_cache = old.indexer.spk_cache \cup cs.indexer.spk_cache
         /\ new.indexer = [last_revealed |-> new.indexer.last_revealed, spk_cache |-> new.indexer.spk_cache]
         /\ new.tx_graph = [txs |-> new.tx_graph.txs, txouts |-> new.tx_graph.txouts, anchors |-> new.tx_graph.anchors,
                            first_seen |-> new.tx_graph.first_seen, last_seen |-> new.tx_graph.last_seen,
                            last_evicted |-> new.tx_graph.last_evicted]
<1>1. /\ tab.txouts = FloatsOver(cs.tx_graph.txouts, tables.txouts)
      /\ tab.anchors = tables.anchors \cup cs.tx_graph.anchors
      /\ tab.last_revealed = IndexOver(cs.indexer.last_revealed, tables.last_revealed)
      /\ tab.derived_spks = tables.derived_spks \cup cs.indexer.spk_cache
  BY DEF PersistToSqlite, FloatsOver, IndexOver
<1>2. ASSUME NEW t \in Txid
      PROVE  /\ tab.txs[t].raw_tx = Written(raw[t], tables.txs[t].raw_tx)
             /\ tab.txs[t].first_seen = Written(cs.tx_graph.first_seen[t], tables.txs[t].first_seen)
             /\ tab.txs[t].last_seen = Written(cs.tx_graph.last_seen[t], tables.txs[t].last_seen)
             /\ tab.txs[t].last_evicted = Written(cs.tx_graph.last_evicted[t], tables.txs[t].last_evicted)
  BY DEF PersistToSqlite
<1>4. /\ new.tx_graph.txs = Entries(Raws(tab.txs))
      /\ new.tx_graph.txouts = tab.txouts /\ new.tx_graph.anchors = tab.anchors
      /\ new.tx_graph.first_seen = [t \in Txid |-> tab.txs[t].first_seen]
      /\ new.tx_graph.last_seen = [t \in Txid |-> tab.txs[t].last_seen]
      /\ new.tx_graph.last_evicted = [t \in Txid |-> tab.txs[t].last_evicted]
      /\ new.indexer.last_revealed = tab.last_revealed /\ new.indexer.spk_cache = tab.derived_spks
  BY DEF FromSqlite, Raws
<1>5. /\ old.tx_graph.txouts = tables.txouts /\ old.tx_graph.anchors = tables.anchors
      /\ old.tx_graph.first_seen = [t \in Txid |-> tables.txs[t].first_seen]
      /\ old.tx_graph.last_seen = [t \in Txid |-> tables.txs[t].last_seen]
      /\ old.tx_graph.last_evicted = [t \in Txid |-> tables.txs[t].last_evicted]
      /\ old.indexer.last_revealed = tables.last_revealed /\ old.indexer.spk_cache = tables.derived_spks
  BY DEF FromSqlite
<1>6. Raws(tab.txs) = RowsOver(raw, tables.txs) BY <1>2 DEF Raws, RowsOver
<1>7. new.tx_graph.first_seen = TimesOver(cs.tx_graph.first_seen, old.tx_graph.first_seen)
  BY <1>2, <1>4, <1>5 DEF TimesOver
<1>8. new.tx_graph.last_seen = TimesOver(cs.tx_graph.last_seen, old.tx_graph.last_seen)
  BY <1>2, <1>4, <1>5 DEF TimesOver
<1>9. new.tx_graph.last_evicted = TimesOver(cs.tx_graph.last_evicted, old.tx_graph.last_evicted)
  BY <1>2, <1>4, <1>5 DEF TimesOver
<1>10. /\ new.indexer = [last_revealed |-> new.indexer.last_revealed, spk_cache |-> new.indexer.spk_cache]
       /\ new.tx_graph = [txs |-> new.tx_graph.txs, txouts |-> new.tx_graph.txouts, anchors |-> new.tx_graph.anchors,
                          first_seen |-> new.tx_graph.first_seen, last_seen |-> new.tx_graph.last_seen,
                          last_evicted |-> new.tx_graph.last_evicted]
  BY DEF FromSqlite
<1> QED BY <1>1, <1>4, <1>5, <1>6, <1>7, <1>8, <1>9, <1>10

LEMMA OverwrittenTimes ==
  ASSUME NEW a \in Times, NEW b \in Times, NEW now \in Times, now = LatestOf(a, b),
         \A t \in Txid : b[t] \in {None, now[t]}
  PROVE  TimesOver(b, a) = LatestOf(a, b)
<1>1. ASSUME NEW t \in Txid PROVE Written(b[t], a[t]) = Latest(a[t], b[t])
  <2>1. a[t] \in Optional /\ b[t] \in Optional /\ now[t] \in Optional BY TimesType
  <2>2. now[t] = Latest(a[t], b[t]) BY LatestOfFacts
  <2> QED BY <2>1, <2>2, OverwrittenIsLatest
<1> QED BY <1>1 DEF LatestOf, TimesOver

LEMMA WrittenTimes ==
  ASSUME NEW a \in Times, NEW b \in Times
  PROVE  TimesOver(b, a) \in Times
<1>1. ASSUME NEW t \in Txid PROVE Written(b[t], a[t]) \in Time \cup {None} BY TimesType DEF Written
<1> QED BY <1>1 DEF Times, TimesOver

(* The rows of transactions: after writing there is one for every            *)
(* transaction there was one for and every one in the change set.            *)
LEMMA RowsWritten ==
  ASSUME NEW rows, NEW old, old = Entries(Raws(rows)), old \subseteq Versioned,
         NEW cs, ChangeInv(cs), NEW raw \in RawChoices(cs),
         NEW new, new = Entries(RowsOver(raw, rows))
  PROVE  /\ new \subseteq Versioned /\ IsFiniteSet(new)
         /\ {x[1] : x \in new} = {x[1] : x \in old} \cup Ids(cs)
<1> DEFINE W(t) == Written(raw[t], rows[t].raw_tx)
<1>1. \A x : x \in new <=> \E t \in Txid : W(t) # None /\ x = <<t, W(t)>> BY DEF Entries, RowsOver
<1>2. \A x : x \in old <=> \E t \in Txid : rows[t].raw_tx # None /\ x = <<t, rows[t].raw_tx>> BY DEF Entries, Raws
<1>3. cs.txs \subseteq Versioned BY DEF ChangeInv
<1>4. \A t \in Txid : IF \E x \in cs.txs : x[1] = t THEN <<t, raw[t]>> \in cs.txs ELSE raw[t] = None
  BY DEF RawChoices
<1>5. ASSUME NEW t \in Txid, W(t) # None PROVE <<t, W(t)>> \in Versioned /\ (t \in Ids(cs) \/ rows[t].raw_tx # None)
  <2>1. CASE raw[t] = None
    <3>1. W(t) = rows[t].raw_tx BY <2>1 DEF Written
    <3>2. <<t, W(t)>> \in old BY <1>2, <1>5, <3>1
    <3> QED BY <1>5, <3>1, <3>2
  <2>2. CASE raw[t] # None
    <3>1. W(t) = raw[t] BY <2>2 DEF Written
    <3>2. <<t, raw[t]>> \in cs.txs BY <1>4, <2>2
    <3>3. t \in Ids(cs) BY <3>2 DEF Ids
    <3> QED BY <1>3, <3>1, <3>2, <3>3
  <2> QED BY <2>1, <2>2
<1>6. ASSUME NEW t \in Ids(cs) PROVE t \in Txid /\ W(t) # None
  <2>1. PICK x \in cs.txs : x[1] = t BY DEF Ids
  <2>2. x[1] \in Txid BY <1>3 DEF Versioned
  <2>3. <<t, raw[t]>> \in cs.txs BY <1>4, <2>1, <2>2
  <2>4. raw[t] \in Tx BY <1>3, <2>3 DEF Versioned
  <2>5. raw[t] # None BY <2>4, TxAssumption
  <2> QED BY <2>1, <2>2, <2>5 DEF Written
<1>7. ASSUME NEW t \in Txid, rows[t].raw_tx # None PROVE W(t) # None BY <1>7 DEF Written
<1>8. IsFiniteSet(new)
  <2> DEFINE m == [t \in Txid |-> W(t)]
  <2>1. DOMAIN m = Txid /\ new = Entries(m) BY DEF RowsOver
  <2> HIDE DEF m
  <2> QED BY <2>1, EntriesFinite, TxAssumption
<1> HIDE DEF W
<1>9. new \subseteq Versioned BY <1>1, <1>5
<1>10. ASSUME NEW t \in {x[1] : x \in new} PROVE t \in {x[1] : x \in old} \cup Ids(cs)
  <2>1. t \in Txid /\ W(t) # None BY <1>1
  <2>2. CASE t \in Ids(cs) BY <2>2
  <2>3. CASE rows[t].raw_tx # None
    <3> DEFINE v == rows[t].raw_tx
    <3>1. <<t, v>> \in old BY <1>2, <2>1, <2>3
    <3> HIDE DEF v
    <3>2. <<t, v>>[1] = t OBVIOUS
    <3>3. t \in {x[1] : x \in old} BY <3>1, <3>2
    <3> QED BY <3>3
  <2> QED BY <1>5, <2>1, <2>2, <2>3
<1>11. ASSUME NEW t \in {x[1] : x \in old} \cup Ids(cs) PROVE t \in {x[1] : x \in new}
  <2>1. t \in Txid /\ W(t) # None BY <1>2, <1>6, <1>7
  <2>2. <<t, W(t)>> \in new BY <1>1, <2>1
  <2> QED BY <2>2
<1> QED BY <1>8, <1>9, <1>10, <1>11

(* Persisting: the merge and the tables take in the stage alike, and then    *)
(* hold all that is in memory.                                               *)
LEMMA TablesWritten ==
  ASSUME NEW w, WalletInv(w), NEW stored, StoreInv(stored), NEW staged, StoreInv(staged),
         AddsUp(w, stored, staged), NEW tables, TablesInv(tables, stored),
         NEW raw \in RawChoices(staged.tx_graph), NEW m, m = MergeWalletChangeSets(stored, staged),
         NEW tab, tab = PersistToSqlite(tables, staged, raw)
  PROVE  TablesInv(tab, m)
<1> DEFINE old == FromSqlite(tables)
           new == FromSqlite(tab)
           p == MergeChangeSets(old.tx_graph, staged.tx_graph)
<1>0. new = FromSqlite(tab) /\ old = FromSqlite(tables) OBVIOUS
<1>1. StoreInv(old) /\ Digest(old.tx_graph) = Digest(stored.tx_graph) /\ old.indexer = stored.indexer
  BY DEF TablesInv
<1>3. old.tx_graph.txs = Entries(Raws(tables.txs)) BY DEF FromSqlite, Raws
<1> HIDE DEF old, new
<1>2. /\ new.tx_graph.txs = Entries(RowsOver(raw, tables.txs))
      /\ new.tx_graph.txouts = FloatsOver(staged.tx_graph.txouts, old.tx_graph.txouts)
      /\ new.tx_graph.anchors = old.tx_graph.anchors \cup staged.tx_graph.anchors
      /\ new.tx_graph.first_seen = TimesOver(staged.tx_graph.first_seen, old.tx_graph.first_seen)
      /\ new.tx_graph.last_seen = TimesOver(staged.tx_graph.last_seen, old.tx_graph.last_seen)
      /\ new.tx_graph.last_evicted = TimesOver(staged.tx_graph.last_evicted, old.tx_graph.last_evicted)
      /\ new.indexer.last_revealed = IndexOver(staged.indexer.last_revealed, old.indexer.last_revealed)
      /\ new.indexer.spk_cache = old.indexer.spk_cache \cup staged.indexer.spk_cache
      /\ new.indexer = [last_revealed |-> new.indexer.last_revealed, spk_cache |-> new.indexer.spk_cache]
      /\ new.tx_graph = [txs |-> new.tx_graph.txs, txouts |-> new.tx_graph.txouts, anchors |-> new.tx_graph.anchors,
                         first_seen |-> new.tx_graph.first_seen, last_seen |-> new.tx_graph.last_seen,
                         last_evicted |-> new.tx_graph.last_evicted]
  BY <1>0, WrittenParts
<1>4. ChangeInv(old.tx_graph) /\ ChangeInv(staged.tx_graph) /\ old.tx_graph.txs \subseteq Versioned
  BY <1>1 DEF StoreInv, ChangeInv
<1>5. ChangeInv(p) /\ Digest(p) = Join(Digest(old.tx_graph), Digest(staged.tx_graph)) BY <1>4, MergedChange
<1>6. Digest(m.tx_graph) = Digest(p)
  <2>1. Digest(m.tx_graph) = Join(Digest(stored.tx_graph), Digest(staged.tx_graph)) BY MergedStore
  <2> QED BY <1>1, <1>5, <2>1
<1>7. /\ new.tx_graph.txs \subseteq Versioned /\ IsFiniteSet(new.tx_graph.txs)
      /\ Ids(new.tx_graph) = Ids(old.tx_graph) \cup Ids(staged.tx_graph)
  <2> DEFINE a == old.tx_graph.txs
             b == new.tx_graph.txs
             rows == tables.txs
  <2>1. a = Entries(Raws(rows)) /\ b = Entries(RowsOver(raw, rows))
    BY <1>2, <1>3
  <2>2. a \subseteq Versioned BY <1>4
  <2> HIDE DEF a, b, rows
  <2>3. /\ b \subseteq Versioned /\ IsFiniteSet(b)
        /\ {x[1] : x \in b} = {x[1] : x \in a} \cup Ids(staged.tx_graph)
    BY <1>4, <2>1, <2>2, RowsWritten
  <2> QED BY <2>3 DEF a, b, Ids
<1>8. old.tx_graph \in Change /\ staged.tx_graph \in Change BY <1>4 DEF ChangeInv
<1>9. /\ old.tx_graph.first_seen \in Times /\ old.tx_graph.last_seen \in Times /\ old.tx_graph.last_evicted \in Times
      /\ staged.tx_graph.first_seen \in Times /\ staged.tx_graph.last_seen \in Times /\ staged.tx_graph.last_evicted \in Times
  BY <1>8, ChangeParts
<1>10. /\ p.last_seen = LatestOf(old.tx_graph.last_seen, staged.tx_graph.last_seen)
       /\ p.last_evicted = LatestOf(old.tx_graph.last_evicted, staged.tx_graph.last_evicted)
       /\ p.anchors = old.tx_graph.anchors \cup staged.tx_graph.anchors
       /\ p.txs = old.tx_graph.txs \cup staged.tx_graph.txs
  BY DEF MergeChangeSets, LatestOf
<1>11. new.tx_graph.txouts = p.txouts BY <1>2 DEF MergeChangeSets, Written, FloatsOver
<1>12. /\ old.tx_graph.last_seen = stored.tx_graph.last_seen
       /\ old.tx_graph.last_evicted = stored.tx_graph.last_evicted
  <2>1. Digest(old.tx_graph).seen = old.tx_graph.last_seen /\ Digest(old.tx_graph).evicted = old.tx_graph.last_evicted
    BY DEF Digest
  <2>2. Digest(stored.tx_graph).seen = stored.tx_graph.last_seen /\ Digest(stored.tx_graph).evicted = stored.tx_graph.last_evicted
    BY DEF Digest
  <2> QED BY <1>1, <2>1, <2>2
<1>13. /\ w.graph.last_seen = LatestOf(old.tx_graph.last_seen, staged.tx_graph.last_seen)
       /\ w.graph.last_evicted = LatestOf(old.tx_graph.last_evicted, staged.tx_graph.last_evicted)
  <2>1. Held(w.graph) = Join(Digest(old.tx_graph), Digest(staged.tx_graph)) BY <1>1 DEF AddsUp
  <2>2. Held(w.graph).seen = w.graph.last_seen /\ Held(w.graph).evicted = w.graph.last_evicted BY DEF Held
  <2>3. /\ Join(Digest(old.tx_graph), Digest(staged.tx_graph)).seen
             = LatestOf(old.tx_graph.last_seen, staged.tx_graph.last_seen)
        /\ Join(Digest(old.tx_graph), Digest(staged.tx_graph)).evicted
             = LatestOf(old.tx_graph.last_evicted, staged.tx_graph.last_evicted)
    BY DEF Join, Digest
  <2> QED BY <2>1, <2>2, <2>3
<1>14. w.graph.last_seen \in Times /\ w.graph.last_evicted \in Times BY GraphParts DEF WalletInv
<1>15. \A t \in Txid : /\ staged.tx_graph.last_seen[t] \in {None, w.graph.last_seen[t]}
                       /\ staged.tx_graph.last_evicted[t] \in {None, w.graph.last_evicted[t]}
  BY DEF AddsUp, Timely
<1>16. new.tx_graph.last_seen = p.last_seen BY <1>2, <1>9, <1>10, <1>13, <1>14, <1>15, OverwrittenTimes
<1>17. new.tx_graph.last_evicted = p.last_evicted BY <1>2, <1>9, <1>10, <1>13, <1>14, <1>15, OverwrittenTimes
<1>18. new.tx_graph.first_seen \in Times BY <1>2, <1>9, WrittenTimes
<1>19. Ids(p) = Ids(old.tx_graph) \cup Ids(staged.tx_graph) BY <1>10 DEF Ids
<1> HIDE DEF p
<1>20. p \in Change /\ ToldOnly(p.txouts) BY <1>5 DEF ChangeInv
<1>21. p.txouts \in Floats /\ p.last_seen \in Times /\ p.last_evicted \in Times /\ p.anchors \in SUBSET (Block \X Txid)
  BY <1>20, ChangeParts
<1>22. new.tx_graph.anchors = p.anchors BY <1>2, <1>10
<1>23. new.tx_graph \in Change
  <2>1. new.tx_graph.txs \in SUBSET (Txid \X Tx) BY <1>7 DEF Versioned
  <2> QED BY <1>2, <1>11, <1>16, <1>17, <1>18, <1>21, <1>22, <2>1 DEF Change
<1>24. ChangeInv(new.tx_graph) BY <1>7, <1>11, <1>20, <1>23 DEF ChangeInv
<1>25. Digest(new.tx_graph) = Digest(p) BY <1>7, <1>11, <1>16, <1>17, <1>19, <1>22 DEF Digest
<1>26. new.indexer = m.indexer
  <2> DEFINE a == stored.indexer.last_revealed
             b == staged.indexer.last_revealed
  <2>1. stored.indexer \in IndexChange /\ staged.indexer \in IndexChange BY DEF StoreInv
  <2>2. a \in LastRevealed /\ b \in LastRevealed /\ w.index.last_revealed \in LastRevealed
    BY <2>1, IndexChangeParts DEF WalletInv, Index
  <2>3. ASSUME NEW d \in Descriptor PROVE Written(b[d], a[d]) = Latest(a[d], b[d])
    <3> DEFINE j == w.index.last_revealed[d]
    <3>1. j = Latest(a[d], b[d]) /\ b[d] \in {None, j} BY DEF AddsUp, Reported
    <3> HIDE DEF a, b, j
    <3>2. a[d] \in Optional /\ b[d] \in Optional /\ j \in Optional BY <2>2, LastRevealedType DEF j
    <3> QED BY <3>1, <3>2, OverwrittenIsLatest
  <2>4. m.indexer = MergeIndexChangesets(stored.indexer, staged.indexer) BY MergedStore
  <2>5. m.indexer = [last_revealed |-> [d \in Descriptor |-> Latest(a[d], b[d])],
                     spk_cache |-> stored.indexer.spk_cache \cup staged.indexer.spk_cache]
    BY <2>4 DEF MergeIndexChangesets
  <2>6. new.indexer.last_revealed = IndexOver(b, a) BY <1>1, <1>2
  <2>7. new.indexer.spk_cache = stored.indexer.spk_cache \cup staged.indexer.spk_cache BY <1>1, <1>2
  <2>8. IndexOver(b, a) = [d \in Descriptor |-> Latest(a[d], b[d])] BY <2>3 DEF IndexOver
  <2> QED BY <1>2, <2>5, <2>6, <2>7, <2>8
<1>27. m.indexer \in IndexChange
  <2>1. StoreInv(m) BY MergedStore
  <2> QED BY <2>1 DEF StoreInv
<1>28. StoreInv(new) BY <1>24, <1>26, <1>27 DEF StoreInv
<1>29. Digest(new.tx_graph) = Digest(m.tx_graph) BY <1>6, <1>25
<1> QED BY <1>26, <1>28, <1>29 DEF TablesInv, new

LEMMA Persisted ==
  ASSUME NEW w, WalletInv(w), NEW stored, StoreInv(stored), NEW staged, StoreInv(staged),
         AddsUp(w, stored, staged), NEW m, m = MergeWalletChangeSets(stored, staged)
  PROVE  /\ StoreInv(m) /\ StoreInv(EmptyWalletChangeSet) /\ AddsUp(w, m, EmptyWalletChangeSet)
         /\ Held(w.graph) = Digest(m.tx_graph)
         /\ w.index.last_revealed = m.indexer.last_revealed
<1> DEFINE e == EmptyWalletChangeSet
<1>1. e.tx_graph = EmptyChangeSet /\ e.indexer = EmptyIndexChangeSet BY DEF EmptyWalletChangeSet
<1>2. StoreInv(e) BY <1>1, NothingSaid, NothingIndexed DEF StoreInv
<1>3. /\ StoreInv(m) /\ Digest(m.tx_graph) = Join(Digest(stored.tx_graph), Digest(staged.tx_graph))
      /\ \A d \in Descriptor :
           m.indexer.last_revealed[d] = Latest(stored.indexer.last_revealed[d], staged.indexer.last_revealed[d])
  BY MergedStore
<1>4. Held(w.graph) = Digest(m.tx_graph) BY <1>3 DEF AddsUp
<1>5. Digest(m.tx_graph) \in Digests /\ m.indexer.last_revealed \in LastRevealed BY <1>3, StoreDigest
<1>6. w.index.last_revealed \in LastRevealed BY DEF WalletInv, Index
<1>7. \A d \in Descriptor : w.index.last_revealed[d] = m.indexer.last_revealed[d] BY <1>3 DEF AddsUp, Reported
<1>8. w.index.last_revealed = m.indexer.last_revealed BY <1>5, <1>6, <1>7 DEF LastRevealed
<1> HIDE DEF e
<1>9. Held(w.graph) = Join(Digest(m.tx_graph), Digest(e.tx_graph)) BY <1>1, <1>4, <1>5, NothingSaid
<1>10. Timely([g |-> w.graph, cs |-> e.tx_graph]) BY <1>1, NothingSaid DEF Timely
<1>11. Reported(m.indexer, [ix |-> w.index, cs |-> e.indexer])
  <2>1. ASSUME NEW d \in Descriptor
        PROVE  /\ w.index.last_revealed[d] = Latest(m.indexer.last_revealed[d], e.indexer.last_revealed[d])
               /\ e.indexer.last_revealed[d] \in {None, w.index.last_revealed[d]}
    <3>1. e.indexer.last_revealed[d] = None BY <1>1, NothingIndexed
    <3>2. m.indexer.last_revealed[d] \in Optional BY <1>5, LastRevealedType
    <3>3. Latest(m.indexer.last_revealed[d], None) = m.indexer.last_revealed[d] BY DEF Latest
    <3> QED BY <1>7, <3>1, <3>3
  <2> QED BY <2>1 DEF Reported
<1>12. AddsUp(w, m, e) BY <1>9, <1>10, <1>11 DEF AddsUp
<1> QED BY <1>2, <1>3, <1>4, <1>8, <1>12 DEF e

-----------------------------------------------------------------------------
(* The invariant. *)
Migrated(base) ==
  /\ base = [tables |-> base.tables, version |-> base.version, executed |-> base.executed]
  /\ base.version \in {None} \cup (0 .. LastScript)
  /\ base.executed = [i \in 0 .. LastScript |-> IF base.version # None /\ i <= base.version THEN 1 ELSE 0]

StoresAgree == StoreInv(file) /\ TablesInv(db.tables, file) /\ Migrated(db)
MemoryAgrees ==
  running = "open" =>
    /\ db.version = LastScript
    /\ WalletInv(wallet) /\ StoreInv(stage) /\ AddsUp(wallet, file, stage)
IInv == StoresAgree /\ MemoryAgrees

LEMMA EmptyStore ==
  /\ StoreInv(EmptyWalletChangeSet) /\ TablesInv(EmptyTables, EmptyWalletChangeSet)
  /\ EmptyWalletChangeSet.tx_graph = EmptyChangeSet /\ EmptyWalletChangeSet.indexer = EmptyIndexChangeSet
<1> DEFINE e == EmptyWalletChangeSet
<1>1. e.tx_graph = EmptyChangeSet /\ e.indexer = EmptyIndexChangeSet BY DEF EmptyWalletChangeSet
<1>2. StoreInv(e) BY <1>1, NothingSaid, NothingIndexed DEF StoreInv
<1>3. FromSqlite(EmptyTables) = e
  <2> DEFINE n == [t \in Txid |-> EmptyTables.txs[t].raw_tx]
  <2>1. \A t \in Txid : EmptyTables.txs[t] = NoRow BY DEF EmptyTables
  <2>2. NoRow.raw_tx = None /\ NoRow.first_seen = None /\ NoRow.last_seen = None /\ NoRow.last_evicted = None
    BY DEF NoRow
  <2>3. DOMAIN n = Txid /\ \A t \in Txid : n[t] = None BY <2>1, <2>2
  <2>4. Entries(n) = {}
    <3> HIDE DEF n
    <3> QED BY <2>3 DEF Entries
  <2>5. /\ [t \in Txid |-> EmptyTables.txs[t].first_seen] = NoTimes
        /\ [t \in Txid |-> EmptyTables.txs[t].last_seen] = NoTimes
        /\ [t \in Txid |-> EmptyTables.txs[t].last_evicted] = NoTimes
    BY <2>1, <2>2 DEF NoTimes
  <2>6. /\ EmptyTables.txouts = NoFloats /\ EmptyTables.anchors = {}
        /\ EmptyTables.last_revealed = EmptyIndexChangeSet.last_revealed /\ EmptyTables.derived_spks = {}
    BY DEF EmptyTables, NoFloats, EmptyIndexChangeSet
  <2>7. FromSqlite(EmptyTables).tx_graph = EmptyChangeSet BY <2>4, <2>5, <2>6, NoneFacts DEF FromSqlite
  <2>8. FromSqlite(EmptyTables).indexer = EmptyIndexChangeSet BY <2>6 DEF FromSqlite, EmptyIndexChangeSet
  <2>9. FromSqlite(EmptyTables) = [tx_graph |-> FromSqlite(EmptyTables).tx_graph, indexer |-> FromSqlite(EmptyTables).indexer]
    BY DEF FromSqlite
  <2> QED BY <2>7, <2>8, <2>9 DEF EmptyWalletChangeSet
<1> HIDE DEF e
<1>4. TablesInv(EmptyTables, e) BY <1>2, <1>3 DEF TablesInv
<1> QED BY <1>1, <1>2, <1>4 DEF e

LEMMA InitEstablishes == Init => IInv
<1> SUFFICES ASSUME Init PROVE IInv OBVIOUS
<1>1. file = EmptyWalletChangeSet /\ running = "closed" BY DEF Init
<1>2. PICK v \in {None} \cup (0 .. LastScript) :
        db = [tables |-> EmptyTables, version |-> v,
              executed |-> [i \in 0 .. LastScript |-> IF v # None /\ i <= v THEN 1 ELSE 0]]
  BY DEF Init
<1>3. Migrated(db) BY <1>2 DEF Migrated
<1>4. db.tables = EmptyTables BY <1>2
<1> QED BY <1>1, <1>3, <1>4, EmptyStore DEF IInv, StoresAgree, MemoryAgrees

(* migrate_schema runs each script once. *)
LEMMA MigratedSchema ==
  ASSUME NEW base, Migrated(base), NEW new, new = MigrateSchema(base)
  PROVE  Migrated(new) /\ new.version = LastScript /\ new.tables = base.tables
         /\ \A i \in 0 .. LastScript : new.executed[i] = 1
<1> DEFINE done == [i \in 0 .. LastScript |-> IF i \in ScriptsToExec(base) THEN base.executed[i] + 1 ELSE base.executed[i]]
<1>1. None \notin Nat BY KeychainAssumption
<1>2. ASSUME NEW i \in 0 .. LastScript PROVE done[i] = 1
  <2>1. base.executed[i] = IF base.version # None /\ i <= base.version THEN 1 ELSE 0 BY DEF Migrated
  <2>2. base.version \in {None} \cup (0 .. LastScript) BY DEF Migrated
  <2>3. i \in ScriptsToExec(base) <=> ~(base.version # None /\ i <= base.version)
    BY <1>1, <2>2 DEF ScriptsToExec, LastScript
  <2> QED BY <2>1, <2>3
<1>3. new = [base EXCEPT !.version = LastScript, !.executed = done] BY DEF MigrateSchema
<1> HIDE DEF done
<1>4. new.version = LastScript /\ new.executed = done /\ new.tables = base.tables
  /\ new = [tables |-> new.tables, version |-> new.version, executed |-> new.executed]
  BY <1>3 DEF Migrated
<1>5. done = [i \in 0 .. LastScript |-> IF new.version # None /\ i <= new.version THEN 1 ELSE 0]
  BY <1>1, <1>2, <1>4 DEF LastScript, done
<1>6. LastScript \in {None} \cup (0 .. LastScript) BY DEF LastScript
<1> QED BY <1>2, <1>4, <1>5, <1>6 DEF Migrated

(* What a step of the running wallet is: an operation, its change set        *)
(* staged, or one that panics before its change set is handed out.           *)
Operates ==
  \E r \in Result :
    /\ Advances(wallet, r) /\ wallet' = r.w /\ stage' = MergeWalletChangeSets(stage, r.cs)
    /\ UNCHANGED <<file, db, running>>
Panics ==
  \E r \in Result :
    /\ Advances(wallet, r) /\ wallet' = r.w /\ running' = "panicked"
    /\ UNCHANGED <<stage, file, db>>

LEMMA OperateIs ==
  ASSUME NEW STATE result, Advances(wallet, result), Operate(result)
  PROVE  Operates
<1>1. result \in Result BY DEF Advances
<1>2. wallet' = result.w /\ stage' = MergeWalletChangeSets(stage, result.cs) /\ UNCHANGED <<file, db, running>>
  BY DEF Operate
<1> QED BY <1>1, <1>2 DEF Operates

LEMMA AddressSteps ==
  ASSUME WalletInv(wallet), Active, AddressStep
  PROVE  Operates \/ Panics
<1> DEFINE ix == wallet.index
<1>1. /\ wallet \in [graph : Graph, index : Index] /\ Sound(wallet) /\ IndexInv(ix)
      /\ \A k \in Keychain : ix.descriptor[k] # None
  BY DEF WalletInv, Sound, Assigned
<1>2. ASSUME NEW STATE step, IndexStep(ix, step), Operate(IndexOnly(wallet, step)) PROVE Operates
  <2>1. Advances(wallet, IndexOnly(wallet, step)) BY <1>1, <1>2, IndexOnlyAdvances
  <2> QED BY <1>2, <2>1, OperateIs
<1>3. ASSUME NEW k \in Keychain, RevealNextAddress(k) PROVE Operates \/ Panics
  <2>1. ix.descriptor[k] # None BY <1>1
  <2>2. IndexStep(ix, RevealNext(Start(ix), k)) /\ IndexStep(ix, RevealNextSpk(ix, k)) BY <1>1, <2>1, RevealNextSpkStep
  <2>3. CASE RevealPanics(ix, k)
    <3> DEFINE r == IndexOnly(wallet, RevealNext(Start(ix), k))
    <3>1. Advances(wallet, r) BY <1>1, <2>2, IndexOnlyAdvances
    <3>2. wallet' = r.w /\ running' = "panicked" /\ UNCHANGED <<stage, file, db>>
      BY <1>3, <2>3 DEF RevealNextAddress
    <3> HIDE DEF r
    <3>3. r \in Result BY <3>1 DEF Advances
    <3> QED BY <3>1, <3>2, <3>3 DEF Panics
  <2>4. CASE ~RevealPanics(ix, k)
    <3>1. Operate(IndexOnly(wallet, RevealNextSpk(ix, k))) BY <1>3, <2>4 DEF RevealNextAddress
    <3> QED BY <1>2, <2>2, <3>1
  <2> QED BY <2>3, <2>4
<1>4. ASSUME NEW k \in Keychain, NextUnusedAddress(k) PROVE Operates \/ Panics
  <2>1. CASE UnusedSpks(ix, k) = {} BY <1>3, <1>4, <2>1 DEF NextUnusedAddress
  <2>2. CASE UnusedSpks(ix, k) # {}
    <3>1. IndexStep(ix, NextUnusedSpk(ix, k)) BY <1>1, NextUnusedStep
    <3>2. Operate(IndexOnly(wallet, NextUnusedSpk(ix, k))) BY <1>4, <2>2 DEF NextUnusedAddress
    <3> QED BY <1>2, <3>1, <3>2
  <2> QED BY <2>1, <2>2
<1>5. ASSUME NEW k \in Keychain, NEW i \in 0 .. BIP32_MAX_INDEX, RevealTo(k, i) PROVE Operates
  <2>1. i \in Nat BY IndexAssumption
  <2>2. IndexStep(ix, RevealToTarget(ix, k, i)) BY <1>1, <2>1, RevealToTargetStep
  <2>3. Operate(IndexOnly(wallet, RevealToTarget(ix, k, i))) BY <1>5 DEF RevealTo
  <2> QED BY <1>2, <2>2, <2>3
<1>6. ASSUME NEW k \in Keychain, NEW i \in 0 .. BIP32_MAX_INDEX, LookaheadTo(k, i) PROVE Operates
  <2>1. i \in Nat BY IndexAssumption
  <2>2. IndexStep(ix, LookaheadToTarget(ix, k, i)) BY <1>1, <2>1, LookaheadStep
  <2>3. Operate(IndexOnly(wallet, LookaheadToTarget(ix, k, i))) BY <1>6 DEF LookaheadTo
  <2> QED BY <1>2, <2>2, <2>3
<1>7. ASSUME NEW p \in Position, MarkAddressUsed(p) PROVE Operates
  <2>1. IndexStep(ix, Start(MarkUsed(ix, p))) BY <1>1, MarkStep
  <2>2. Operate(IndexOnly(wallet, Start(MarkUsed(ix, p)))) BY <1>7 DEF MarkAddressUsed
  <2> QED BY <1>2, <2>1, <2>2
<1>8. ASSUME NEW p \in Position, UnmarkAddressUsed(p) PROVE Operates
  <2>1. IndexStep(ix, Start(UnmarkUsed(ix, p))) BY <1>1, MarkStep
  <2>2. Operate(IndexOnly(wallet, Start(UnmarkUsed(ix, p)))) BY <1>8 DEF UnmarkAddressUsed
  <2> QED BY <1>2, <2>1, <2>2
<1> QED BY <1>3, <1>4, <1>5, <1>6, <1>7, <1>8 DEF AddressStep

LEMMA GraphSteps ==
  ASSUME WalletInv(wallet), Active, GraphStep
  PROVE  Operates
<1> DEFINE g == wallet.graph
<1>1. wallet \in [graph : Graph, index : Index] /\ Sound(wallet) /\ GraphInv(g) BY DEF WalletInv, Sound
<1>2. ASSUME NEW STATE step, Learnt(g, step), Operate(Indexed(wallet, step)) PROVE Operates
  <2>1. Advances(wallet, Indexed(wallet, step)) BY <1>1, <1>2, IndexedAdvances
  <2> QED BY <1>2, <2>1, OperateIs
<1>3. ASSUME NEW STATE step, Learnt(g, step), Operate(GraphOnly(wallet, step)) PROVE Operates
  <2>1. Advances(wallet, GraphOnly(wallet, step)) BY <1>1, <1>3, GraphOnlyAdvances
  <2> QED BY <1>3, <2>1, OperateIs
<1>4. ASSUME NEW t \in Txid, NEW tx \in TxOf[t], InsertTransaction(t, tx) PROVE Operates
  <2>1. tx \in Versions(t) BY TxVersion
  <2>2. Learnt(g, InsertTx(g, t, tx)) BY <1>1, <2>1, InsertTxLearnt
  <2> QED BY <1>2, <1>4, <2>2 DEF InsertTransaction
<1>5. ASSUME NEW x \in Floating, InsertOutput(x[1], x[2]) PROVE Operates
  <2>1. x \in Told /\ x \in OutPoint \X Spk BY TxAssumption DEF Told
  <2>2. x[1] \in OutPoint /\ x[2] \in Spk /\ <<x[1], x[2]>> \in Told BY <2>1
  <2>3. Learnt(g, InsertTxOut(g, x[1], x[2])) BY <1>1, <2>2, InsertTxOutLearnt
  <2> QED BY <1>2, <1>5, <2>3 DEF InsertOutput
<1>6. ASSUME NEW t \in Txid, NEW b \in Block, AnchorTransaction(t, b) PROVE Operates
  <2>1. Learnt(g, InsertAnchor(g, t, b)) BY <1>1, InsertAnchorLearnt
  <2> QED BY <1>3, <1>6, <2>1 DEF AnchorTransaction
<1>7. ASSUME NEW t \in Txid, NEW at \in Time, SeeTransaction(t, at) PROVE Operates
  <2>1. Learnt(g, InsertSeenAt(g, t, at)) BY <1>1, InsertSeenLearnt
  <2> QED BY <1>3, <1>7, <2>1 DEF SeeTransaction
<1>8. ASSUME NEW t \in Txid, NEW at \in Time, EvictTransaction(t, at) PROVE Operates
  <2>1. Learnt(g, InsertEvictedAt(g, t, at)) BY <1>1, InsertEvictedLearnt
  <2> QED BY <1>3, <1>8, <2>1 DEF EvictTransaction
<1>9. ASSUME NEW at \in Time, EvictRelevant(Txid, at) PROVE Operates
  <2>1. Learnt(g, BatchInsertRelevantEvictedAt(g, Txid, at)) BY <1>1, EvictedLearnt
  <2> QED BY <1>3, <1>9, <2>1 DEF EvictRelevant
<1>10. ASSUME NEW update \in Updates, ApplyUpdate(update) PROVE Operates
  <2>1. Learnt(g, ApplyTxUpdate(g, update)) BY <1>1, UpdateLearnt
  <2> QED BY <1>2, <1>10, <2>1 DEF ApplyUpdate
<1> QED BY <1>4, <1>5, <1>6, <1>7, <1>8, <1>9, <1>10 DEF GraphStep

LEMMA BatchSteps ==
  ASSUME WalletInv(wallet), Active, BatchStep
  PROVE  Operates
<1>1. wallet \in [graph : Graph, index : Index] /\ Sound(wallet) /\ GraphInv(wallet.graph) BY DEF WalletInv, Sound
<1>2. PICK batch \in Batches : \E tx \in [DOMAIN batch -> UNION {TxOf[t] : t \in Txid}] :
        LET txs == [i \in DOMAIN batch |-> <<batch[i], tx[i]>>]
        IN /\ \A i \in DOMAIN batch : tx[i] \in TxOf[batch[i]]
           /\ \/ \E at \in Time : InsertUnconfirmed(txs, at) \/ InsertRelevantUnconfirmed(txs, at)
              \/ \E b \in Block : InsertRelevant(txs, b) \/ ApplyRelevantBlock(txs, b) \/ ApplyWholeBlock(txs, b)
  BY DEF BatchStep
<1>3. PICK tx \in [DOMAIN batch -> UNION {TxOf[t] : t \in Txid}] :
        LET txs == [i \in DOMAIN batch |-> <<batch[i], tx[i]>>]
        IN /\ \A i \in DOMAIN batch : tx[i] \in TxOf[batch[i]]
           /\ \/ \E at \in Time : InsertUnconfirmed(txs, at) \/ InsertRelevantUnconfirmed(txs, at)
              \/ \E b \in Block : InsertRelevant(txs, b) \/ ApplyRelevantBlock(txs, b) \/ ApplyWholeBlock(txs, b)
  BY <1>2
<1> DEFINE txs == [i \in DOMAIN batch |-> <<batch[i], tx[i]>>]
<1>4. txs \in Seq(Versioned)
  <2> DEFINE n == Len(batch)
  <2>1. batch \in Seq(Txid) BY InputAssumption
  <2>2. n \in Nat /\ DOMAIN batch = 1 .. n /\ \A i \in 1 .. n : batch[i] \in Txid BY <2>1
  <2>3. ASSUME NEW i \in 1 .. n PROVE <<batch[i], tx[i]>> \in Versioned
    <3>1. tx[i] \in TxOf[batch[i]] BY <1>3, <2>2
    <3> QED BY <2>2, <3>1, TxVersion
  <2>4. txs = [i \in 1 .. n |-> <<batch[i], tx[i]>>] BY <2>2
  <2> HIDE DEF n
  <2> QED BY <2>2, <2>3, <2>4
<1>5. \/ \E at \in Time : InsertUnconfirmed(txs, at) \/ InsertRelevantUnconfirmed(txs, at)
      \/ \E b \in Block : InsertRelevant(txs, b) \/ ApplyRelevantBlock(txs, b) \/ ApplyWholeBlock(txs, b)
  BY <1>3
<1> HIDE DEF txs
<1>6. ASSUME NEW at \in Time, InsertUnconfirmed(txs, at) PROVE Operates
  <2> DEFINE step == BatchInsertUnconfirmed(wallet.graph, [i \in DOMAIN txs |-> Append(txs[i], at)])
  <2>1. Learnt(wallet.graph, step) BY <1>1, <1>4, UnconfirmedLearnt
  <2>2. Operate(Indexed(wallet, step)) BY <1>6 DEF InsertUnconfirmed
  <2> HIDE DEF step
  <2>3. Advances(wallet, Indexed(wallet, step)) BY <1>1, <2>1, IndexedAdvances
  <2> QED BY <2>2, <2>3, OperateIs
<1>7. ASSUME NEW at \in Time, InsertRelevantUnconfirmed(txs, at) PROVE Operates
  <2>1. Advances(wallet, BatchInsertRelevantUnconfirmed(wallet, txs, at)) BY <1>1, <1>4, BatchUnconfirmedAdvances
  <2> QED BY <1>7, <2>1, OperateIs DEF InsertRelevantUnconfirmed
<1>8. ASSUME NEW b \in Block, InsertRelevant(txs, b) PROVE Operates
  <2>1. Advances(wallet, BatchInsertRelevant(wallet, txs, b)) BY <1>1, <1>4, BatchRelevantAdvances
  <2> QED BY <1>8, <2>1, OperateIs DEF InsertRelevant
<1>9. ASSUME NEW b \in Block, ApplyRelevantBlock(txs, b) PROVE Operates
  <2>1. Advances(wallet, ApplyBlockRelevant(wallet, txs, b)) BY <1>1, <1>4, BlockRelevantAdvances
  <2> QED BY <1>9, <2>1, OperateIs DEF ApplyRelevantBlock
<1>10. ASSUME NEW b \in Block, ApplyWholeBlock(txs, b) PROVE Operates
  <2>1. Advances(wallet, ApplyBlock(wallet, txs, b)) BY <1>1, <1>4, BlockAdvances
  <2> QED BY <1>10, <2>1, OperateIs DEF ApplyWholeBlock
<1> QED BY <1>5, <1>6, <1>7, <1>8, <1>9, <1>10

-----------------------------------------------------------------------------
(* Every step keeps the invariant. *)
LEMMA OperateKeeps ==
  ASSUME IInv, running = "open", Operates
  PROVE  IInv'
<1>1. PICK r \in Result :
        /\ Advances(wallet, r) /\ wallet' = r.w /\ stage' = MergeWalletChangeSets(stage, r.cs)
        /\ UNCHANGED <<file, db, running>>
  BY DEF Operates
<1>2. /\ StoreInv(file) /\ WalletInv(wallet) /\ StoreInv(stage) /\ AddsUp(wallet, file, stage)
      /\ db.version = LastScript
  BY DEF IInv, StoresAgree, MemoryAgrees
<1> DEFINE m == MergeWalletChangeSets(stage, r.cs)
<1>3. WalletInv(r.w) /\ StoreInv(m) /\ AddsUp(r.w, file, m) BY <1>1, <1>2, Operated
<1>4. WalletInv(wallet') /\ StoreInv(stage') /\ AddsUp(wallet', file', stage') /\ db'.version = LastScript
  BY <1>1, <1>2, <1>3
<1>5. StoreInv(file') /\ TablesInv(db'.tables, file') /\ Migrated(db') BY <1>1 DEF IInv, StoresAgree
<1> QED BY <1>4, <1>5 DEF IInv, StoresAgree, MemoryAgrees

LEMMA PanicKeeps ==
  ASSUME IInv, Panics
  PROVE  IInv'
<1>1. running' = "panicked" /\ UNCHANGED <<stage, file, db>> BY DEF Panics
<1>2. StoreInv(file') /\ TablesInv(db'.tables, file') /\ Migrated(db') BY <1>1 DEF IInv, StoresAgree
<1> QED BY <1>1, <1>2 DEF IInv, StoresAgree, MemoryAgrees

(* Both stores load to the same. *)
LEMMA LoadIs ==
  ASSUME IInv, Load
  PROVE  /\ WalletInv(wallet') /\ StoreInv(stage') /\ AddsUp(wallet', file, stage')
         /\ Held(wallet'.graph) = Digest(file.tx_graph)
<1>1. StoreInv(file) /\ TablesInv(db.tables, file) BY DEF IInv, StoresAgree
<1>2. PICK cs \in {file, FromSqlite(db.tables)} : \E order \in LoadOrders(cs) :
        \E loaded \in {FromChangeset(cs, order)} : wallet' = loaded.w /\ stage' = loaded.cs
  BY DEF Load
<1>3. PICK order \in LoadOrders(cs) :
        \E loaded \in {FromChangeset(cs, order)} : wallet' = loaded.w /\ stage' = loaded.cs
  BY <1>2
<1> DEFINE r == FromChangeset(cs, order)
<1>4. wallet' = r.w /\ stage' = r.cs BY <1>3
<1>5. StoreInv(cs) /\ Digest(cs.tx_graph) = Digest(file.tx_graph) /\ cs.indexer = file.indexer
  BY <1>1, <1>2 DEF TablesInv
<1>6. WalletInv(r.w) /\ StoreInv(r.cs) /\ AddsUp(r.w, cs, r.cs) /\ Held(r.w.graph) = Digest(cs.tx_graph)
  BY <1>5, Loaded
<1> HIDE DEF r
<1>7. AddsUp(r.w, file, r.cs) BY <1>5, <1>6 DEF AddsUp
<1> QED BY <1>4, <1>5, <1>6, <1>7

LEMMA LoadKeeps ==
  ASSUME IInv, Load
  PROVE  IInv'
<1>1. StoreInv(file) /\ TablesInv(db.tables, file) /\ Migrated(db) BY DEF IInv, StoresAgree
<1>2. db' = MigrateSchema(db) /\ file' = file BY DEF Load
<1>3. Migrated(db') /\ db'.version = LastScript /\ db'.tables = db.tables BY <1>1, <1>2, MigratedSchema
<1>4. WalletInv(wallet') /\ StoreInv(stage') /\ AddsUp(wallet', file', stage') BY <1>2, LoadIs
<1>5. StoreInv(file') /\ TablesInv(db'.tables, file') BY <1>1, <1>2, <1>3
<1> QED BY <1>3, <1>4, <1>5 DEF IInv, StoresAgree, MemoryAgrees

LEMMA PersistKeeps ==
  ASSUME IInv, Persist
  PROVE  IInv'
<1>1. /\ StoreInv(file) /\ TablesInv(db.tables, file) /\ Migrated(db) /\ WalletInv(wallet) /\ StoreInv(stage)
      /\ AddsUp(wallet, file, stage) /\ db.version = LastScript
  BY DEF IInv, StoresAgree, MemoryAgrees, Persist
<1>2. PICK raw \in RawChoices(stage.tx_graph) : db' = [db EXCEPT !.tables = PersistToSqlite(db.tables, stage, raw)]
  BY DEF Persist
<1> DEFINE m == MergeWalletChangeSets(file, stage)
           tab == PersistToSqlite(db.tables, stage, raw)
<1>3. file' = m /\ stage' = EmptyWalletChangeSet /\ wallet' = wallet BY DEF Persist
<1>4. TablesInv(tab, m) BY <1>1, TablesWritten
<1>5. StoreInv(m) /\ StoreInv(EmptyWalletChangeSet) /\ AddsUp(wallet, m, EmptyWalletChangeSet) BY <1>1, Persisted
<1>6. /\ db'.tables = tab /\ db'.version = db.version /\ db'.executed = db.executed
      /\ db' = [tables |-> db'.tables, version |-> db'.version, executed |-> db'.executed]
  <2>1. db = [tables |-> db.tables, version |-> db.version, executed |-> db.executed] BY <1>1 DEF Migrated
  <2> HIDE DEF tab
  <2>2. db' = [db EXCEPT !.tables = tab] BY <1>2 DEF tab
  <2> QED BY <2>1, <2>2
<1> HIDE DEF m, tab
<1>7. Migrated(db') BY <1>1, <1>6 DEF Migrated
<1> QED BY <1>1, <1>3, <1>4, <1>5, <1>6, <1>7 DEF IInv, StoresAgree, MemoryAgrees

LEMMA StepIs ==
  ASSUME IInv, Next
  PROVE  (running = "open" /\ (Operates \/ Panics)) \/ Load \/ Persist
<1>1. CASE Open \/ Restart BY <1>1 DEF Open, Restart
<1>2. CASE Persist BY <1>2
<1>3. CASE Active /\ (AddressStep \/ GraphStep \/ BatchStep)
  <2>1. running = "open" /\ Active BY <1>3 DEF Active
  <2>2. WalletInv(wallet) BY <2>1 DEF IInv, MemoryAgrees
  <2> QED BY <1>3, <2>1, <2>2, AddressSteps, GraphSteps, BatchSteps
<1> QED BY <1>1, <1>2, <1>3 DEF Next

LEMMA NextKeeps == IInv /\ [Next]_vars => IInv'
<1> SUFFICES ASSUME IInv, [Next]_vars PROVE IInv' OBVIOUS
<1>1. CASE Next BY <1>1, StepIs, OperateKeeps, PanicKeeps, LoadKeeps, PersistKeeps
<1>2. CASE UNCHANGED vars BY <1>2 DEF vars, IInv, StoresAgree, MemoryAgrees
<1> QED BY <1>1, <1>2

(* In every state the stores hold well-formed change sets that say the same, *)
(* and while the wallet runs they add up, with the stage, to what the graph  *)
(* and the index have in memory.                                             *)
THEOREM AlwaysAddsUp == Spec => []IInv
BY InitEstablishes, NextKeeps, PTL DEF Spec

-----------------------------------------------------------------------------
(* What the invariant says of a running wallet. *)
LEMMA Encodings == IInv => EncodingsAgree
<1> SUFFICES ASSUME IInv PROVE EncodingsAgree OBVIOUS
<1> DEFINE read == FromSqlite(db.tables)
<1>1. StoreInv(file) /\ TablesInv(db.tables, file) /\ Migrated(db) BY DEF IInv, StoresAgree
<1>2. ChangeInv(file.tx_graph) /\ ChangeInv(read.tx_graph) /\ Digest(read.tx_graph) = Digest(file.tx_graph)
      /\ read.indexer = file.indexer
  BY <1>1 DEF TablesInv, StoreInv
<1>3. Facts(read.tx_graph) = Facts(file.tx_graph)
  <2>1. Facts(read.tx_graph) = FactsOf(Digest(read.tx_graph)) /\ Facts(file.tx_graph) = FactsOf(Digest(file.tx_graph))
    BY <1>2, FactsSaid
  <2> QED BY <1>2, <2>1
<1>4. ASSUME running = "open"
      PROVE  /\ \A i \in 0 .. LastScript : db.executed[i] = 1
             /\ Facts(InitialWalletChangeSet(wallet).tx_graph) = Facts(MergeWalletChangeSets(file, stage).tx_graph)
  <2>1. db.version = LastScript /\ WalletInv(wallet) /\ StoreInv(stage) /\ AddsUp(wallet, file, stage)
    BY <1>4 DEF IInv, MemoryAgrees
  <2>2. \A i \in 0 .. LastScript : db.executed[i] = 1
    <3>1. LastScript # None BY KeychainAssumption DEF LastScript
    <3>2. db.executed = [i \in 0 .. LastScript |-> IF LastScript # None /\ i <= LastScript THEN 1 ELSE 0]
      BY <1>1, <2>1 DEF Migrated
    <3> QED BY <3>1, <3>2 DEF LastScript
  <2> DEFINE m == MergeWalletChangeSets(file, stage)
             now == InitialChangeSet(wallet.graph)
  <2>3. GraphInv(wallet.graph) BY <2>1 DEF WalletInv, Sound
  <2>4. ChangeInv(now) /\ Digest(now) = Held(wallet.graph) BY <2>3, InitialSaid
  <2>5. StoreInv(m) /\ Held(wallet.graph) = Digest(m.tx_graph) BY <1>1, <2>1, Persisted
  <2>6. ChangeInv(m.tx_graph) BY <2>5 DEF StoreInv
  <2>7. InitialWalletChangeSet(wallet).tx_graph = now BY DEF InitialWalletChangeSet
  <2> HIDE DEF m, now
  <2>8. Facts(now) = FactsOf(Digest(now)) /\ Facts(m.tx_graph) = FactsOf(Digest(m.tx_graph)) BY <2>4, <2>6, FactsSaid
  <2>9. Facts(now) = Facts(m.tx_graph) BY <2>4, <2>5, <2>8
  <2> QED BY <2>2, <2>7, <2>9 DEF m
<1> QED BY <1>2, <1>3, <1>4 DEF EncodingsAgree

(* A position that has an output is revealed and used. *)
LEMMA FreshFacts ==
  ASSUME NEW ix, IndexInv(ix), NEW k \in Keychain, ix.descriptor[k] # None,
         ix.descriptor[k] \in Wildcard, ix.last_revealed[ix.descriptor[k]] # BIP32_MAX_INDEX
  PROVE  OutputsAt(ix, NextUnusedPosition(ix, k)) = {}
<1> DEFINE p == NextUnusedPosition(ix, k)
           d == ix.descriptor[k]
<1>1. ix \in Index /\ Paid(ix) BY DEF IndexInv
<1>2. ASSUME NEW op \in OutPoint, ix.txouts[op] = p PROVE FALSE
  <2>1. CASE UnusedSpks(ix, k) # {}
    <3> DEFINE T == {q[2] : q \in UnusedSpks(ix, k)}
    <3>1. UnusedSpks(ix, k) \subseteq Position /\ \A q \in UnusedSpks(ix, k) : q[1] = k /\ q \in ix.unused
      BY <1>1 DEF UnusedSpks, RevealedSpks, Index
    <3>2. T \subseteq Nat /\ T # {}
      <4>1. \A q \in UnusedSpks(ix, k) : q[2] \in 0 .. BIP32_MAX_INDEX BY <3>1 DEF Position
      <4>2. \A q \in UnusedSpks(ix, k) : q[2] \in Nat BY <4>1, IndexAssumption
      <4> QED BY <2>1, <4>2
    <3> HIDE DEF T
    <3>3. \E m \in T : \A n \in T : m <= n BY <3>2, LeastNatural
    <3>4. Min(T) \in T BY <3>3 DEF Min
    <3>5. p = <<k, Min(T)>> BY <2>1 DEF NextUnusedPosition, T
    <3>6. PICK q \in UnusedSpks(ix, k) : q[2] = Min(T) BY <3>4 DEF T
    <3>7. q = <<k, Min(T)>> /\ q \in ix.unused BY <3>1, <3>6 DEF Position
    <3>8. p \in ix.unused BY <3>5, <3>7
    <3>9. p # None BY <3>5, <3>7, <3>1, KeychainAssumption
    <3> QED BY <1>1, <1>2, <3>8, <3>9 DEF Paid
  <2>2. CASE UnusedSpks(ix, k) = {}
    <3> DEFINE i == NextIndex(ix, k).index
    <3>1. p = <<k, i>> BY <2>2 DEF NextUnusedPosition
    <3>2. i \in 0 .. BIP32_MAX_INDEX /\ i = NextReveal(ix, d) BY <1>1, NextIndexFacts
    <3> HIDE DEF i
    <3>3. p \in Position BY <3>1, <3>2 DEF Position
    <3>4. p # None BY <3>3, KeychainAssumption
    <3>5. ix.txouts[op][2] < NextReveal(ix, ix.descriptor[ix.txouts[op][1]]) BY <1>1, <1>2, <3>4 DEF Paid
    <3>6. ix.txouts[op][1] = k /\ ix.txouts[op][2] = i BY <1>2, <3>1
    <3>7. i < NextReveal(ix, d) BY <3>5, <3>6
    <3> QED BY <3>2, <3>7
  <2> QED BY <2>1, <2>2
<1> QED BY <1>2 DEF OutputsAt

LEMMA Unpaid == IInv => FreshAddressUnpaid
<1> SUFFICES ASSUME IInv, running = "open" PROVE FreshAddressUnpaid BY DEF FreshAddressUnpaid
<1>1. IndexInv(wallet.index) /\ \A k \in Keychain : wallet.index.descriptor[k] # None
  BY DEF IInv, MemoryAgrees, WalletInv, Sound, Assigned
<1>2. ASSUME NEW k \in Keychain, wallet.index.descriptor[k] \in Wildcard,
             wallet.index.last_revealed[wallet.index.descriptor[k]] # BIP32_MAX_INDEX
      PROVE  OutputsAt(wallet.index, NextUnusedPosition(wallet.index, k)) = {}
  BY <1>1, <1>2, FreshFacts
<1> QED BY <1>2 DEF FreshAddressUnpaid

LEMMA Watched == IInv => LookaheadWatched
<1> SUFFICES ASSUME IInv, running = "open" PROVE LookaheadWatched BY DEF LookaheadWatched
<1> DEFINE ix == wallet.index
<1>1. ix \in Index /\ Ahead(ix) /\ \A k \in Keychain : ix.descriptor[k] # None
  BY DEF IInv, MemoryAgrees, WalletInv, Sound, Assigned, IndexInv
<1>2. ASSUME NEW k \in Keychain, NEW i \in 0 .. BIP32_MAX_INDEX - 1,
             IF ix.descriptor[k] \in Wildcard THEN i < NextReveal(ix, ix.descriptor[k]) + Lookahead ELSE i = 0
      PROVE  <<k, i>> \in ix.spks
  <2> DEFINE d == ix.descriptor[k]
  <2>1. AheadOf(ix, k) BY <1>1 DEF Ahead
  <2>2. d \in Descriptor BY <1>1 DEF Index, Assignment
  <2>3. NextReveal(ix, d) \in 0 .. BIP32_MAX_INDEX + 1 BY <1>1, <2>2, Revealable
  <2>4. i \in Nat /\ i < BIP32_MAX_INDEX BY IndexAssumption
  <2>5. i < StopIndex(ix, d, Lookahead) BY <1>2, <2>3, <2>4, IndexAssumption DEF StopIndex
  <2> QED BY <2>1, <2>4, <2>5 DEF AheadOf
<1> QED BY <1>2 DEF LookaheadWatched

(* The SQLite tables, the merged change sets of a file store and the memory  *)
(* with what is staged always say the same of transactions, outputs, blocks, *)
(* times and revealed addresses, and a schema script is run once.            *)
THEOREM AlwaysEncodingsAgree == Spec => []EncodingsAgree
BY AlwaysAddsUp, Encodings, PTL

(* next_unused_spk never hands out an address the index knows an output of.  *)
THEOREM AlwaysFreshAddressUnpaid == Spec => []FreshAddressUnpaid
BY AlwaysAddsUp, Unpaid, PTL

(* All revealed scripts and the lookahead beyond them are always watched.    *)
THEOREM AlwaysLookaheadWatched == Spec => []LookaheadWatched
BY AlwaysAddsUp, Watched, PTL

-----------------------------------------------------------------------------
(* The wallet implements DurableWallet. *)
LEMMA AddressesGrow ==
  ASSUME NEW a \in LastRevealed, NEW b \in LastRevealed, \A d \in Descriptor : AtMost(a[d], b[d])
  PROVE  Addresses(a) \subseteq Addresses(b)
<1> SUFFICES ASSUME NEW x \in Addresses(a) PROVE x \in Addresses(b) OBVIOUS
<1>1. x \in Descriptor \X (0 .. BIP32_MAX_INDEX) /\ a[x[1]] # None /\ x[2] <= a[x[1]] BY DEF Addresses
<1>2. x[1] \in Descriptor /\ x[2] \in 0 .. BIP32_MAX_INDEX BY <1>1
<1> DEFINE m == a[x[1]]
           n == b[x[1]]
           i == x[2]
<1>3. m \in Optional /\ n \in Optional /\ AtMost(m, n) BY <1>2, LastRevealedType
<1>4. i \in Nat /\ m # None /\ i <= m BY <1>1, <1>2, IndexAssumption
<1> HIDE DEF m, n, i
<1>5. n # None /\ i <= n BY <1>3, <1>4 DEF AtMost, Optional
<1> QED BY <1>1, <1>5 DEF Addresses, n, i

LEMMA FactsHeld ==
  ASSUME NEW g, GraphInv(g)
  PROVE  Facts(InitialChangeSet(g)) = FactsOf(Held(g))
<1>1. ChangeInv(InitialChangeSet(g)) /\ Digest(InitialChangeSet(g)) = Held(g) BY InitialSaid
<1>2. Facts(InitialChangeSet(g)) = FactsOf(Digest(InitialChangeSet(g))) BY <1>1, FactsSaid
<1> QED BY <1>1, <1>2

LEMMA NothingKnown ==
  /\ Facts(InitialChangeSet(EmptyGraph)) = {} /\ Facts(EmptyChangeSet) = {}
  /\ Addresses(EmptyIndex.last_revealed) = {} /\ Addresses(EmptyIndexChangeSet.last_revealed) = {}
<1> DEFINE none == [ids |-> {}, outs |-> {}, anchors |-> {}, seen |-> NoTimes, evicted |-> NoTimes]
<1>1. Until("seen", NoTimes) = {} /\ Until("evicted", NoTimes) = {} BY NoneFacts DEF Until
<1>2. FactsOf(none) = {} BY <1>1 DEF FactsOf
<1>3. Facts(InitialChangeSet(EmptyGraph)) = {}
  <2>1. GraphInv(EmptyGraph) /\ Held(EmptyGraph) = none BY EmptyHeld
  <2> HIDE DEF none
  <2> QED BY <1>2, <2>1, FactsHeld
<1>4. Facts(EmptyChangeSet) = {}
  <2> DEFINE e == EmptyChangeSet
  <2>1. e.txs = {} /\ e.txouts = NoFloats /\ e.anchors = {} /\ e.last_seen = NoTimes /\ e.last_evicted = NoTimes
    BY NoneFacts
  <2>2. ChangeInv(e) BY NothingSaid
  <2>3. Ids(e) = {} BY <2>1 DEF Ids
  <2>4. Digest(e) = none BY <2>1, <2>3, NothingSpoken DEF Digest
  <2> HIDE DEF e, none
  <2>5. Facts(e) = FactsOf(Digest(e)) BY <2>2, FactsSaid
  <2> QED BY <1>2, <2>4, <2>5 DEF e
<1>5. \A d \in Descriptor : EmptyIndex.last_revealed[d] = None /\ EmptyIndexChangeSet.last_revealed[d] = None
  BY DEF EmptyIndex, EmptyIndexChangeSet
<1>6. Addresses(EmptyIndex.last_revealed) = {} /\ Addresses(EmptyIndexChangeSet.last_revealed) = {}
  BY <1>5 DEF Addresses
<1> QED BY <1>3, <1>4, <1>6

LEMMA InitImplements == Init => Durable!DInit
<1> SUFFICES ASSUME Init PROVE Durable!DInit OBVIOUS
<1>1. wallet.graph = EmptyGraph /\ wallet.index = EmptyIndex
  /\ file.tx_graph = EmptyChangeSet /\ file.indexer = EmptyIndexChangeSet
  BY DEF Init, EmptyWallet, EmptyWalletChangeSet
<1> QED BY <1>1, NothingKnown DEF Durable!DInit

(* An operation teaches the wallet facts and takes none away. *)
LEMMA AdvancesTeaches ==
  ASSUME NEW w, WalletInv(w), NEW r, Advances(w, r)
  PROVE  /\ Facts(InitialChangeSet(w.graph)) \subseteq Facts(InitialChangeSet(r.w.graph))
         /\ Addresses(w.index.last_revealed) \subseteq Addresses(r.w.index.last_revealed)
<1> DEFINE gr == GraphPart(r)
           ir == IndexPart(r)
<1>1. gr.g = r.w.graph /\ ir.ix = r.w.index BY DEF GraphPart, IndexPart
<1>2. Learnt(w.graph, gr) /\ IndexStep(w.index, ir) /\ GraphInv(w.graph) BY DEF Advances, WalletInv, Sound
<1> HIDE DEF gr, ir
<1>3. GraphInv(gr.g) /\ Held(w.graph) \in Digests /\ Held(gr.g) \in Digests /\ Within(Held(w.graph), Held(gr.g))
  BY <1>2, LearntParts
<1>4. FactsOf(Held(w.graph)) \subseteq FactsOf(Held(gr.g)) BY <1>3, FactsGrow
<1>5. Facts(InitialChangeSet(w.graph)) \subseteq Facts(InitialChangeSet(r.w.graph))
  <2>1. Facts(InitialChangeSet(w.graph)) = FactsOf(Held(w.graph)) BY <1>2, FactsHeld
  <2>2. Facts(InitialChangeSet(gr.g)) = FactsOf(Held(gr.g)) BY <1>3, FactsHeld
  <2> QED BY <1>1, <1>4, <2>1, <2>2
<1>6. ir \in IndexResult /\ Reported(w.index, ir) BY <1>2 DEF IndexStep
<1>7. w.index.last_revealed \in LastRevealed /\ ir.ix.last_revealed \in LastRevealed /\ ir.cs.last_revealed \in LastRevealed
  BY <1>6, ResultParts DEF WalletInv, Index
<1>8. ASSUME NEW d \in Descriptor PROVE AtMost(w.index.last_revealed[d], ir.ix.last_revealed[d])
  <2>1. ir.ix.last_revealed[d] = Latest(w.index.last_revealed[d], ir.cs.last_revealed[d]) BY <1>6 DEF Reported
  <2>2. w.index.last_revealed[d] \in Optional /\ ir.cs.last_revealed[d] \in Optional BY <1>7, LastRevealedType
  <2> QED BY <2>1, <2>2, LatestFacts
<1>9. Addresses(w.index.last_revealed) \subseteq Addresses(ir.ix.last_revealed) BY <1>7, <1>8, AddressesGrow
<1> QED BY <1>1, <1>5, <1>9

LEMMA OperateLearns ==
  ASSUME IInv, running = "open", Operates \/ Panics
  PROVE  Durable!Learn
<1>1. PICK r \in Result : Advances(wallet, r) /\ wallet' = r.w /\ file' = file BY DEF Operates, Panics
<1>2. WalletInv(wallet) BY DEF IInv, MemoryAgrees
<1>3. /\ Facts(InitialChangeSet(wallet.graph)) \subseteq Facts(InitialChangeSet(r.w.graph))
      /\ Addresses(wallet.index.last_revealed) \subseteq Addresses(r.w.index.last_revealed)
  BY <1>1, <1>2, AdvancesTeaches
<1> QED BY <1>1, <1>3 DEF Durable!Learn

(* Persisting makes all of it durable. *)
LEMMA PersistSaves ==
  ASSUME IInv, Persist
  PROVE  Durable!Save
<1>1. /\ StoreInv(file) /\ WalletInv(wallet) /\ StoreInv(stage) /\ AddsUp(wallet, file, stage)
  BY DEF IInv, StoresAgree, MemoryAgrees, Persist
<1> DEFINE m == MergeWalletChangeSets(file, stage)
<1>2. file' = m /\ wallet' = wallet BY DEF Persist
<1>3. StoreInv(m) /\ Held(wallet.graph) = Digest(m.tx_graph) /\ wallet.index.last_revealed = m.indexer.last_revealed
  BY <1>1, Persisted
<1> HIDE DEF m
<1>4. Facts(m.tx_graph) = FactsOf(Digest(m.tx_graph)) BY <1>3, FactsSaid DEF StoreInv
<1>5. Facts(InitialChangeSet(wallet.graph)) = FactsOf(Held(wallet.graph)) BY <1>1, FactsHeld DEF WalletInv, Sound
<1>6. Facts(m.tx_graph) = Facts(InitialChangeSet(wallet.graph)) BY <1>3, <1>4, <1>5
<1>7. Addresses(m.indexer.last_revealed) = Addresses(wallet.index.last_revealed) BY <1>3
<1> QED BY <1>2, <1>6, <1>7 DEF Durable!Save

(* After a restart the wallet knows the durable facts. *)
LEMMA LoadRecovers ==
  ASSUME IInv, Load
  PROVE  Durable!Crash
<1>1. /\ WalletInv(wallet') /\ StoreInv(stage') /\ AddsUp(wallet', file, stage')
      /\ Held(wallet'.graph) = Digest(file.tx_graph)
  BY LoadIs
<1>2. StoreInv(file) /\ file' = file BY DEF IInv, StoresAgree, Load
<1>3. Facts(InitialChangeSet(wallet'.graph)) = FactsOf(Held(wallet'.graph)) BY <1>1, FactsHeld DEF WalletInv, Sound
<1>4. Facts(file.tx_graph) = FactsOf(Digest(file.tx_graph)) BY <1>2, FactsSaid DEF StoreInv
<1>5. Facts(InitialChangeSet(wallet'.graph)) = Facts(file.tx_graph) BY <1>1, <1>3, <1>4
<1> DEFINE a == file.indexer.last_revealed
           b == wallet'.index.last_revealed
           c == stage'.indexer.last_revealed
<1>6. a \in LastRevealed /\ c \in LastRevealed BY <1>1, <1>2, StoreDigest
<1>7. b \in LastRevealed BY <1>1 DEF WalletInv, Index
<1>8. ASSUME NEW d \in Descriptor PROVE AtMost(a[d], b[d])
  <2>1. b[d] = Latest(a[d], c[d]) BY <1>1 DEF AddsUp, Reported
  <2> HIDE DEF a, b, c
  <2>2. a[d] \in Optional /\ c[d] \in Optional BY <1>6, LastRevealedType
  <2> QED BY <2>1, <2>2, LatestFacts
<1> HIDE DEF a, b, c
<1>9. Addresses(a) \subseteq Addresses(b) BY <1>6, <1>7, <1>8, AddressesGrow
<1> QED BY <1>2, <1>5, <1>9 DEF Durable!Crash, a, b

LEMMA StepImplements ==
  IInv /\ [Next]_vars => [Durable!Learn \/ Durable!Save \/ Durable!Crash]_Durable!dvars
<1> SUFFICES ASSUME IInv, [Next]_vars PROVE [Durable!Learn \/ Durable!Save \/ Durable!Crash]_Durable!dvars OBVIOUS
<1>1. CASE Next BY <1>1, StepIs, OperateLearns, PersistSaves, LoadRecovers
<1>2. CASE UNCHANGED vars BY <1>2 DEF vars, Durable!dvars
<1> QED BY <1>1, <1>2

(* The wallet with its stage, its two stores, its operations, its crashes    *)
(* and its reloads implements DurableWallet: it never forgets while it runs, *)
(* saving makes all it knows durable, and a reload of either store knows     *)
(* exactly the saved facts and at least the saved addresses.                 *)
THEOREM WalletImplementsDurable == Spec => ImplementsDurable
BY AlwaysAddsUp, InitImplements, StepImplements, PTL DEF Spec, ImplementsDurable, Durable!DSpec

=============================================================================
