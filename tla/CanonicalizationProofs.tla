----------------------- MODULE CanonicalizationProofs -----------------------
(***************************************************************************)
(* Canonicalization accepts no double spend, the view reports what the     *)
(* chain backs, and the balance counts every coin once, whatever the       *)
(* graph, the chain and the assumed transactions are.  What mark_canonical *)
(* has staged may clash with what it prunes until the walk reaches the     *)
(* clashing ancestor; MarkInv says that such an ancestor is still waiting  *)
(* in the queue.  TraceInv says what the reasons stand for, StageInv what  *)
(* each stage has decided and what the second task has checked.            *)
(***************************************************************************)
EXTENDS Canonicalization, NatFacts

(* The state of the call of mark_canonical under way, if there is one. *)
Unsettled == IF mark = None THEN {} ELSE Staged
Undoing == IF mark = None THEN {} ELSE mark.undo
Elements(s) == {s[i] : i \in DOMAIN s}
Waiting == IF mark = None THEN {} ELSE Elements(mark.queue)
FoundClash == mark # None /\ mark.double_spend
Settled == Chosen \ Unsettled

TypesHold ==
  /\ setup \in Setups
  /\ canonical \in [Txid -> Reason \cup {None}]
  /\ not_canonical \subseteq Whole(graph)
  /\ mark \in Call \cup {None}

QueuesHold ==
  /\ assumed \in Seq(Whole(graph))
  /\ \A q \in {anchored, seen, leftover} : IsFiniteSet(q) /\ q \subseteq Nat \X Whole(graph)

(* The conflicts of what is canonical are out, and stay out of what the call *)
(* may take back.                                                            *)
ConflictsAreOut ==
  /\ Chosen \subseteq Whole(graph)
  /\ Unsettled \subseteq Chosen
  /\ \A t \in Chosen : DirectConflicts(graph, t) \subseteq not_canonical
  /\ \A t \in Settled : DirectConflicts(graph, t) \subseteq not_canonical \ Undoing
  /\ Settled \cap (not_canonical \ Undoing) = {}

(* Parents are canonical or will be visited. *)
ParentsAreIn ==
  /\ Waiting \subseteq Whole(graph)
  /\ \A t \in Settled : Parents(graph, t) \subseteq Settled
  /\ ~FoundClash => \A t \in Chosen : Parents(graph, t) \subseteq Chosen \cup Waiting
  /\ ~FoundClash /\ mark # None => mark.visited \cap Whole(graph) \subseteq Chosen \cup Waiting

(* A staged transaction that was pruned is noticed before the walk ends. *)
ClashesAwaited ==
  ~FoundClash =>
    \A x \in Chosen \cap not_canonical : \E q \in Waiting : q \in not_canonical \ Chosen

WalkInv == TypesHold /\ ConflictsAreOut /\ ParentsAreIn /\ ClashesAwaited

MarkInv == QueuesHold /\ WalkInv

-----------------------------------------------------------------------------
(* Queues. *)

(* The front of a queue is one of its elements, and none comes before it. *)
LEMMA FrontFacts ==
  ASSUME NEW q, IsFiniteSet(q), q # {}, q \subseteq Nat \X Nat
  PROVE  Front(q) \in q /\ \A p \in q : Before(Front(q), p)
<1>1. PICK x \in q : \A y \in q : y[1] <= x[1]
  <2> DEFINE f == [y \in q |-> y[1]]
  <2>1. f \in [q -> Nat] OBVIOUS
  <2>2. \E x \in q : \A y \in q : f[y] <= f[x] BY <2>1, GreatestMeasure
  <2> QED BY <2>2
<1> DEFINE top == {y \in q : y[1] = x[1]}
<1>2. IsFiniteSet(top) /\ top # {} BY <1>1, FS_Subset
<1>3. PICK z \in top : \A y \in top : y[2] <= z[2]
  <2> DEFINE f == [y \in top |-> y[2]]
  <2>1. f \in [top -> Nat] OBVIOUS
  <2>2. \E x2 \in top : \A y \in top : f[y] <= f[x2] BY <1>2, <2>1, GreatestMeasure
  <2> QED BY <2>2
<1>4. z \in q /\ \A p \in q : Before(z, p) BY <1>1, <1>3 DEF Before
<1> QED BY <1>4 DEF Front

-----------------------------------------------------------------------------
(* The graph. *)

(* The descendants are closed, and the least such set. *)
LEMMA DescendantFacts ==
  ASSUME NEW g, NEW roots, NEW skip
  PROVE  LET open == Whole(g) \ skip
             D == Descendants(g, roots, skip)
         IN /\ D \subseteq open
            /\ roots \cap open \subseteq D
            /\ \A x \in D : Children(g, x) \cap open \subseteq D
            /\ \A S \in SUBSET open :
                 (/\ roots \cap open \subseteq S
                  /\ \A x \in S : Children(g, x) \cap open \subseteq S) => D \subseteq S
BY DEF Descendants

LEMMA ConflictMeans ==
  ASSUME NEW g, NEW t, NEW c
  PROVE  c \in DirectConflicts(g, t) <=>
           /\ c # t /\ c \in Whole(g)
           /\ \E op \in Prevouts(g.txs[t]) : op \in Prevouts(g.txs[c])
<1>1. c \in UNION {OutspendsOf(g, op) : op \in Prevouts(g.txs[t])} <=>
        \E op \in Prevouts(g.txs[t]) : c \in OutspendsOf(g, op)
  BY Zenon
<1>2. \A op : c \in OutspendsOf(g, op) <=> c \in Whole(g) /\ op \in Prevouts(g.txs[c])
  BY DEF OutspendsOf
<1> QED BY <1>1, <1>2, Zenon DEF DirectConflicts

LEMMA ConflictIsMutual ==
  ASSUME NEW g, NEW t \in Whole(g), NEW c \in DirectConflicts(g, t)
  PROVE  c \in Whole(g) /\ c # t /\ t \in DirectConflicts(g, c)
BY ConflictMeans, Zenon

(* The walk goes on to every known parent it has not come by before. *)
LEMMA PopulateFacts ==
  ASSUME setup \in Setups, NEW t \in Whole(graph), NEW visited
  PROVE  /\ Populate(t, visited) \in Seq(Whole(graph))
         /\ \A p \in Whole(graph) \ visited :
              (\E op \in Prevouts(graph.txs[t]) : op[1] = p) =>
                \E k \in DOMAIN Populate(t, visited) : Populate(t, visited)[k] = p
<1> DEFINE in == graph.txs[t].input
           ids == [i \in DOMAIN in |-> in[i][1]]
           ps == {i \in DOMAIN in : /\ in[i][1] \in Whole(graph) \ visited
                                    /\ \A j \in 1 .. i - 1 : in[j][1] # in[i][1]}
           P == Populate(t, visited)
<1>1. in \in Seq(OutPoint \cup {Null}) BY SetupAssumption DEF IsGraph, graph
<1>2. PICK n \in Nat : DOMAIN in = 1 .. n BY <1>1
<1>3. P = Subsequence(ids, ps) BY DEF Populate
<1>4. ps \in SUBSET (1 .. n) BY <1>2
<1>5. \A i \in ps : ids[i] \in Whole(graph) BY <1>2
<1> HIDE DEF ps, P, ids
<1>6. P \in Seq(Whole(graph)) BY <1>3, <1>4, <1>5, SubsequenceType
<1>7. \A i \in ps : \E k \in DOMAIN P : P[k] = ids[i] BY <1>3, <1>4, SubsequenceHolds
<1>8. ASSUME NEW p \in Whole(graph) \ visited, NEW op \in Prevouts(graph.txs[t]), op[1] = p
      PROVE  \E k \in DOMAIN P : P[k] = p
  <2> DEFINE T == {i \in 1 .. n : in[i][1] = p}
  <2>1. T # {} BY <1>2, <1>8 DEF Prevouts
  <2>2. T \subseteq Nat OBVIOUS
  <2>3. PICK i \in T : \A j \in T : i <= j BY <2>1, <2>2, LeastNatural
  <2>4. \A j \in 1 .. i - 1 : in[j][1] # p BY <2>3
  <2>5. i \in ps BY <1>2, <1>8, <2>3, <2>4 DEF ps
  <2>6. ids[i] = p BY <1>2, <2>3 DEF ids
  <2> QED BY <1>7, <2>5, <2>6
<1> QED BY <1>6, <1>8 DEF P

-----------------------------------------------------------------------------
(* The initial states, and the steps that leave the result alone. *)

LEMMA WholeIsTxid ==
  ASSUME NEW g
  PROVE  Whole(g) \subseteq Txid /\ Whole(g) \subseteq Nat
BY GraphAssumption DEF Whole

LEMMA InitMarkInv ==
  ASSUME Init
  PROVE  MarkInv
<1>1. /\ setup \in Setups /\ canonical = [t \in Txid |-> None]
      /\ not_canonical = {} /\ mark = None /\ leftover = {}
  BY DEF Init
<1>2. Chosen = {} BY <1>1 DEF Chosen
<1>3. TypesHold BY <1>1 DEF TypesHold
<1>4. WalkInv
  BY <1>1, <1>2, <1>3 DEF WalkInv, ConflictsAreOut, ParentsAreIn, ClashesAwaited, Settled,
     Unsettled, Waiting, FoundClash
<1>5. assumed \in Seq(Whole(graph))
  <2> DEFINE ps == {i \in DOMAIN setup.assume : setup.assume[i] \in Whole(graph)}
  <2>1. setup.assume \in Seq(Txid) BY <1>1, SetupAssumption
  <2>2. PICK n \in Nat : DOMAIN setup.assume = 1 .. n BY <2>1
  <2>3. ps \in SUBSET (1 .. n) BY <2>2
  <2>4. \A i \in ps : setup.assume[i] \in Whole(graph) OBVIOUS
  <2>5. assumed = Subsequence(setup.assume, ps) BY DEF Init
  <2> HIDE DEF ps
  <2> QED BY <2>3, <2>4, <2>5, SubsequenceType
<1>6. IsGraph(graph) BY <1>1, SetupAssumption DEF graph
<1>7. anchored \in SUBSET graph.by_conf_height /\ seen \in SUBSET graph.by_last_seen
  BY DEF Init
<1>8. IsFiniteSet(anchored) /\ IsFiniteSet(seen) /\ IsFiniteSet(leftover)
  BY <1>1, <1>6, <1>7, FS_Subset, FS_EmptySet DEF IsGraph
<1>9. anchored \subseteq Nat \X Whole(graph)
  <2>1. graph.by_conf_height \subseteq Nat \X Txid BY <1>6 DEF IsGraph
  <2>2. \A p \in anchored : p \in graph.by_conf_height /\ p[2] \in Whole(graph) BY DEF Init
  <2> QED BY <2>1, <2>2
<1>10. seen \subseteq Nat \X Whole(graph)
  <2>1. graph.by_last_seen \subseteq Nat \X Txid BY <1>6 DEF IsGraph
  <2>2. \A p \in seen : p \in graph.by_last_seen /\ p[2] \in Whole(graph) BY DEF Init
  <2> QED BY <2>1, <2>2
<1>11. QueuesHold BY <1>1, <1>5, <1>8, <1>9, <1>10 DEF QueuesHold
<1> QED BY <1>4, <1>11 DEF MarkInv

LEMMA QueuesStay ==
  ASSUME QueuesHold, setup' = setup, UNCHANGED queues
  PROVE  QueuesHold'
BY DEF QueuesHold, queues, graph

LEMMA ResultStays ==
  ASSUME WalkInv, setup' = setup, UNCHANGED result
  PROVE  WalkInv'
BY DEF WalkInv, result, TypesHold, ConflictsAreOut, ParentsAreIn, ClashesAwaited, Settled,
   Unsettled, Undoing, Waiting, Elements, FoundClash, Staged, Chosen, graph

(* A call of mark_canonical begins. *)
LEMMA MarkBegins ==
  ASSUME WalkInv, mark = None, setup' = setup,
         NEW t \in Whole(graph), NEW reason \in Reason, MarkUnlessCanonicalized(t, reason)
  PROVE  WalkInv'
<1>1. CASE UNCHANGED result BY <1>1, ResultStays
<1>2. CASE MarkCanonical(t, reason)
  <2> DEFINE call == [root |-> t, reason |-> reason, queue |-> <<t>>, visited |-> {},
                      staged |-> << >>, undo |-> {}, double_spend |-> FALSE]
  <2>1. /\ mark' = call /\ canonical' = canonical /\ not_canonical' = not_canonical
    BY <1>2 DEF MarkCanonical
  <2>2. t \in Txid BY WholeIsTxid
  <2>3. call \in Call BY <2>2 DEF Call
  <2>4. mark' # None BY <2>1, <2>3, NoneAssumption
  <2>5. Chosen' = Chosen BY <2>1 DEF Chosen
  <2>6. /\ Unsettled' = {} /\ Undoing' = {} /\ Waiting' = {t} /\ ~FoundClash'
        /\ mark.visited' = {}
    BY <2>1, <2>4 DEF Unsettled, Undoing, Waiting, Elements, FoundClash, Staged
  <2>7. Unsettled = {} /\ Undoing = {} /\ Waiting = {} /\ ~FoundClash
    BY DEF Unsettled, Undoing, Waiting, FoundClash
  <2>8. Settled' = Settled /\ Settled = Chosen BY <2>5, <2>6, <2>7 DEF Settled
  <2>9. graph' = graph BY DEF graph
  <2>10. TypesHold' BY <2>1, <2>3, <2>9 DEF WalkInv, TypesHold
  <2>11. ConflictsAreOut'
    BY <2>1, <2>5, <2>6, <2>7, <2>8, <2>9 DEF WalkInv, ConflictsAreOut
  <2>12. ParentsAreIn' BY <2>5, <2>6, <2>7, <2>8, <2>9 DEF WalkInv, ParentsAreIn
  <2>13. ClashesAwaited' BY <2>1, <2>5, <2>6, <2>7 DEF WalkInv, ClashesAwaited
  <2> QED BY <2>10, <2>11, <2>12, <2>13 DEF WalkInv
<1> QED BY <1>1, <1>2 DEF MarkUnlessCanonicalized

-----------------------------------------------------------------------------
(* The walk. *)

LEMMA HeadAndTail ==
  ASSUME NEW X, NEW q \in Seq(X), q # << >>
  PROVE  /\ Head(q) \in X /\ Tail(q) \in Seq(X)
         /\ Head(q) \in Elements(q) /\ Elements(Tail(q)) \subseteq Elements(q)
         /\ \A x \in Elements(q) : x = Head(q) \/ x \in Elements(Tail(q))
<1>1. Len(q) \in Nat /\ Len(q) > 0 /\ DOMAIN q = 1 .. Len(q) OBVIOUS
<1>2. Head(q) = q[1] /\ Tail(q) \in Seq(X) /\ DOMAIN Tail(q) = 1 .. Len(q) - 1
      /\ \A i \in 1 .. Len(q) - 1 : Tail(q)[i] = q[i + 1]
  BY <1>1
<1>3. ASSUME NEW i \in 1 .. Len(q) PROVE i = 1 \/ (i - 1 \in 1 .. Len(q) - 1 /\ q[i] = Tail(q)[i - 1])
  BY <1>1, <1>2
<1>4. ASSUME NEW x \in Elements(q) PROVE x = Head(q) \/ x \in Elements(Tail(q))
  <2>1. PICK i \in 1 .. Len(q) : x = q[i] BY <1>1 DEF Elements
  <2>2. CASE i = 1 BY <1>2, <2>1, <2>2
  <2>3. CASE i # 1
    <3>1. i - 1 \in DOMAIN Tail(q) /\ x = Tail(q)[i - 1] BY <1>2, <1>3, <2>1, <2>3
    <3> QED BY <3>1 DEF Elements
  <2> QED BY <2>2, <2>3
<1>5. Elements(Tail(q)) \subseteq Elements(q)
  <2>1. \A i \in 1 .. Len(q) - 1 : i + 1 \in 1 .. Len(q) BY <1>1
  <2> QED BY <1>1, <1>2, <2>1 DEF Elements
<1>6. Head(q) \in Elements(q) BY <1>1, <1>2 DEF Elements
<1> QED BY <1>1, <1>2, <1>4, <1>5, <1>6

LEMMA ElementsOfConcat ==
  ASSUME NEW X, NEW q \in Seq(X), NEW r \in Seq(X)
  PROVE  q \o r \in Seq(X) /\ Elements(q \o r) = Elements(q) \cup Elements(r)
<1>1. /\ q \o r \in Seq(X) /\ Len(q) \in Nat /\ Len(r) \in Nat
      /\ DOMAIN q = 1 .. Len(q) /\ DOMAIN r = 1 .. Len(r)
      /\ DOMAIN (q \o r) = 1 .. Len(q) + Len(r)
      /\ \A i \in 1 .. Len(q) + Len(r) : (q \o r)[i] = IF i <= Len(q) THEN q[i] ELSE r[i - Len(q)]
  OBVIOUS
<1>2. Elements(q \o r) \subseteq Elements(q) \cup Elements(r)
  <2>1. \A i \in 1 .. Len(q) + Len(r) : i \in 1 .. Len(q) \/ i - Len(q) \in 1 .. Len(r) BY <1>1
  <2> QED BY <1>1, <2>1 DEF Elements
<1>3. Elements(q) \subseteq Elements(q \o r)
  <2>1. \A i \in 1 .. Len(q) : i \in 1 .. Len(q) + Len(r) /\ (q \o r)[i] = q[i] BY <1>1
  <2> QED BY <1>1, <2>1 DEF Elements
<1>4. Elements(r) \subseteq Elements(q \o r)
  <2>1. \A i \in 1 .. Len(r) : i + Len(q) \in 1 .. Len(q) + Len(r) /\ (q \o r)[i + Len(q)] = r[i]
    BY <1>1
  <2> QED BY <1>1, <2>1 DEF Elements
<1> QED BY <1>1, <1>2, <1>3, <1>4

LEMMA ElementsOfAppend ==
  ASSUME NEW X, NEW q \in Seq(X), NEW x \in X
  PROVE  Append(q, x) \in Seq(X) /\ Elements(Append(q, x)) = Elements(q) \cup {x}
<1>1. /\ Append(q, x) \in Seq(X) /\ Len(q) \in Nat
      /\ DOMAIN q = 1 .. Len(q) /\ DOMAIN Append(q, x) = 1 .. Len(q) + 1
      /\ \A i \in 1 .. Len(q) + 1 : Append(q, x)[i] = IF i <= Len(q) THEN q[i] ELSE x
  OBVIOUS
<1>2. \A i \in 1 .. Len(q) + 1 : i \in 1 .. Len(q) \/ i = Len(q) + 1 BY <1>1
<1>3. Len(q) + 1 \in 1 .. Len(q) + 1 /\ ~(Len(q) + 1 <= Len(q)) BY <1>1
<1>4. \A i \in 1 .. Len(q) : i \in 1 .. Len(q) + 1 /\ i <= Len(q) BY <1>1
<1> QED BY <1>1, <1>2, <1>3, <1>4 DEF Elements

LEMMA CallFacts ==
  ASSUME WalkInv, mark # None
  PROVE  /\ mark \in Call /\ mark.queue \in Seq(Whole(graph))
         /\ Waiting = Elements(mark.queue) /\ Undoing = mark.undo
         /\ Unsettled = Elements(mark.staged) /\ FoundClash = mark.double_spend
<1>1. mark \in Call BY DEF WalkInv, TypesHold
<1>2. /\ Waiting = Elements(mark.queue) /\ Undoing = mark.undo
      /\ Unsettled = Elements(mark.staged) /\ FoundClash = mark.double_spend
  BY <1>1 DEF Waiting, Undoing, Unsettled, FoundClash, Staged, Elements, Call
<1>3. mark.queue \in Seq(Txid) BY <1>1 DEF Call
<1>4. \A i \in DOMAIN mark.queue : mark.queue[i] \in Whole(graph)
  BY <1>2 DEF WalkInv, ParentsAreIn, Elements
<1>5. mark.queue \in Seq(Whole(graph)) BY <1>3, <1>4
<1> QED BY <1>1, <1>2, <1>5

(* The walk drops a transaction that is canonical already. *)
LEMMA VisitKnownFacts ==
  ASSUME WalkInv, VisitKnown
  PROVE  /\ mark # None /\ mark' # None /\ mark' \in Call /\ setup' = setup /\ graph' = graph
         /\ mark' = [mark EXCEPT !.queue = Tail(@)]
         /\ canonical' = canonical /\ not_canonical' = not_canonical
         /\ Head(mark.queue) \in Waiting /\ Head(mark.queue) \in Chosen
         /\ Waiting' \subseteq Waiting /\ \A x \in Waiting : x = Head(mark.queue) \/ x \in Waiting'
         /\ Undoing' = Undoing /\ Unsettled' = Unsettled /\ FoundClash' = FoundClash
         /\ Chosen' = Chosen /\ Settled' = Settled
<1> DEFINE t == Head(mark.queue)
<1>1. /\ mark # None /\ mark.queue # << >> /\ canonical[t] # None
      /\ mark' = [mark EXCEPT !.queue = Tail(@)]
      /\ setup' = setup /\ canonical' = canonical /\ not_canonical' = not_canonical
  BY DEF VisitKnown
<1>2. /\ mark \in Call /\ mark.queue \in Seq(Whole(graph))
      /\ Waiting = Elements(mark.queue) /\ Undoing = mark.undo
      /\ Unsettled = Elements(mark.staged) /\ FoundClash = mark.double_spend
  BY <1>1, CallFacts
<1>3. /\ t \in Whole(graph) /\ Tail(mark.queue) \in Seq(Whole(graph))
      /\ t \in Elements(mark.queue) /\ Elements(Tail(mark.queue)) \subseteq Elements(mark.queue)
      /\ \A x \in Elements(mark.queue) : x = t \/ x \in Elements(Tail(mark.queue))
  BY <1>1, <1>2, HeadAndTail
<1>4. t \in Chosen BY <1>1, <1>3, WholeIsTxid DEF Chosen
<1>5. Tail(mark.queue) \in Seq(Txid) BY <1>3, WholeIsTxid
<1>6. mark' \in Call BY <1>1, <1>2, <1>5 DEF Call
<1>7. mark' # None BY <1>6, NoneAssumption
<1>8. /\ Waiting' = Elements(Tail(mark.queue)) /\ Undoing' = Undoing /\ Unsettled' = Unsettled
      /\ FoundClash' = FoundClash
  BY <1>1, <1>2, <1>6, <1>7 DEF Waiting, Undoing, Unsettled, FoundClash, Staged, Elements, Call
<1>9. Chosen' = Chosen /\ Settled' = Settled /\ graph' = graph
  BY <1>1, <1>8 DEF Chosen, Settled, graph
<1> QED BY <1>1, <1>2, <1>3, <1>4, <1>6, <1>7, <1>8, <1>9

LEMMA VisitKnownKeeps ==
  ASSUME WalkInv, VisitKnown
  PROVE  WalkInv'
<1>1. mark'.visited = mark.visited
  <2>1. mark \in Call /\ mark' = [mark EXCEPT !.queue = Tail(@)] BY VisitKnownFacts, CallFacts
  <2> QED BY <2>1 DEF Call
<1>2. TypesHold' BY VisitKnownFacts DEF WalkInv, TypesHold
<1>3. ConflictsAreOut' BY VisitKnownFacts DEF WalkInv, ConflictsAreOut
<1>4. ParentsAreIn' BY <1>1, VisitKnownFacts DEF WalkInv, ParentsAreIn
<1>5. ClashesAwaited' BY VisitKnownFacts DEF WalkInv, ClashesAwaited
<1> QED BY <1>2, <1>3, <1>4, <1>5 DEF WalkInv

(* What every visit of a transaction that is not canonical yet begins with. *)
LEMMA VisitFacts ==
  ASSUME WalkInv, VisitNew
  PROVE  LET t == Head(mark.queue)
         IN /\ mark # None /\ mark.queue # << >> /\ canonical[t] = None /\ setup' = setup
            /\ t \in Whole(graph) /\ t \in Txid /\ t \notin Chosen
            /\ Tail(mark.queue) \in Seq(Whole(graph))
            /\ \A x \in Waiting : x = t \/ x \in Elements(Tail(mark.queue))
            /\ Elements(Tail(mark.queue)) \subseteq Waiting
            /\ Pruned(t) \subseteq Whole(graph) \ not_canonical
            /\ not_canonical' = not_canonical \cup Pruned(t)
            /\ DirectConflicts(graph, t) \subseteq not_canonical'
<1> DEFINE t == Head(mark.queue)
           P == Pruned(t)
<1>1. /\ mark # None /\ mark.queue # << >> /\ canonical[t] = None /\ setup' = setup
      /\ not_canonical' = not_canonical \cup P
  BY DEF VisitNew
<1>2. mark.queue \in Seq(Whole(graph)) /\ Waiting = Elements(mark.queue) BY <1>1, CallFacts
<1>3. /\ t \in Whole(graph) /\ Tail(mark.queue) \in Seq(Whole(graph))
      /\ Elements(Tail(mark.queue)) \subseteq Elements(mark.queue)
      /\ \A x \in Elements(mark.queue) : x = t \/ x \in Elements(Tail(mark.queue))
  BY <1>1, <1>2, HeadAndTail
<1>4. t \in Txid /\ t \notin Chosen BY <1>1, <1>3, WholeIsTxid DEF Chosen
<1>5. /\ P \subseteq Whole(graph) \ not_canonical
      /\ DirectConflicts(graph, t) \cap (Whole(graph) \ not_canonical) \subseteq P
  BY DescendantFacts DEF Pruned
<1>6. DirectConflicts(graph, t) \subseteq Whole(graph) BY ConflictMeans
<1>7. DirectConflicts(graph, t) \subseteq not_canonical \cup P BY <1>5, <1>6
<1> QED BY <1>1, <1>2, <1>3, <1>4, <1>5, <1>7

(* The visited transaction is ruled out by what the walk has met. *)
LEMMA VisitClashFacts ==
  ASSUME WalkInv, VisitNew, Head(mark.queue) \in not_canonical'
  PROVE  /\ mark' # None /\ mark' \in Call /\ graph' = graph /\ canonical' = canonical
         /\ mark' = [mark EXCEPT !.queue = Tail(@), !.undo = @ \cup Pruned(Head(mark.queue)),
                                 !.double_spend = TRUE]
         /\ Waiting' \subseteq Waiting /\ Undoing' = Undoing \cup Pruned(Head(mark.queue))
         /\ Unsettled' = Unsettled /\ FoundClash'
         /\ Chosen' = Chosen /\ Settled' = Settled
         /\ not_canonical' \ Undoing' = not_canonical \ Undoing
<1> DEFINE t == Head(mark.queue)
           P == Pruned(t)
<1>1. /\ mark # None /\ setup' = setup /\ Tail(mark.queue) \in Seq(Whole(graph))
      /\ Elements(Tail(mark.queue)) \subseteq Waiting
      /\ P \subseteq Whole(graph) \ not_canonical /\ not_canonical' = not_canonical \cup P
  BY VisitFacts
<1>2. /\ canonical' = canonical
      /\ mark' = [mark EXCEPT !.queue = Tail(@), !.undo = @ \cup P, !.double_spend = TRUE]
  BY DEF VisitNew
<1>3. /\ mark \in Call /\ Undoing = mark.undo /\ Unsettled = Elements(mark.staged)
  BY <1>1, CallFacts
<1>4. Tail(mark.queue) \in Seq(Txid) /\ P \subseteq Txid BY <1>1, WholeIsTxid
<1>5. mark' \in Call BY <1>2, <1>3, <1>4 DEF Call
<1>6. mark' # None BY <1>5, NoneAssumption
<1>7. /\ Waiting' = Elements(Tail(mark.queue)) /\ Undoing' = Undoing \cup P
      /\ Unsettled' = Unsettled /\ FoundClash'
  BY <1>2, <1>3, <1>6 DEF Waiting, Undoing, Unsettled, FoundClash, Staged, Elements, Call
<1>8. Chosen' = Chosen /\ Settled' = Settled /\ graph' = graph
  BY <1>1, <1>2, <1>7 DEF Chosen, Settled, graph
<1> HIDE DEF P
<1>9. not_canonical' \ Undoing' = not_canonical \ Undoing BY <1>1, <1>7
<1> QED BY <1>1, <1>2, <1>5, <1>6, <1>7, <1>8, <1>9 DEF P

LEMMA VisitClashKeeps ==
  ASSUME WalkInv, VisitNew, Head(mark.queue) \in not_canonical'
  PROVE  WalkInv'
<1> DEFINE P == Pruned(Head(mark.queue))
<1>1. /\ setup' = setup /\ not_canonical' = not_canonical \cup P
      /\ P \subseteq Whole(graph)
  BY VisitFacts
<1> HIDE DEF P
<1>2. TypesHold' BY <1>1, VisitClashFacts DEF WalkInv, TypesHold
<1>3. ConflictsAreOut' BY <1>1, VisitClashFacts DEF WalkInv, ConflictsAreOut
<1>4. ParentsAreIn' BY VisitClashFacts DEF WalkInv, ParentsAreIn
<1>5. ClashesAwaited' BY VisitClashFacts DEF ClashesAwaited
<1> QED BY <1>2, <1>3, <1>4, <1>5 DEF WalkInv

LEMMA ReasonFacts ==
  ASSUME NEW r \in Reason, NEW t \in Txid
  PROVE  ToTransitive(r, t) \in Reason /\ r # None /\ ToTransitive(r, t) # None
<1>1. ToTransitive(r, t) \in Reason BY DEF ToTransitive, Reason
<1> QED BY <1>1, NoneAssumption

(* The reason that mark_canonical gives: the root's own, or one through the root. *)
GivenReason ==
  IF mark.staged = << >> THEN mark.reason ELSE ToTransitive(mark.reason, mark.root)

(* The visited transaction is accepted for now. *)
LEMMA VisitAcceptFacts ==
  ASSUME WalkInv, VisitNew, Head(mark.queue) \notin not_canonical'
  PROVE  LET t == Head(mark.queue)
             more == Populate(t, mark.visited)
         IN /\ mark' # None /\ mark' \in Call /\ graph' = graph /\ setup \in Setups
            /\ mark'.root = mark.root /\ mark'.reason = mark.reason
            /\ mark'.staged = Append(mark.staged, t) /\ mark'.double_spend = mark.double_spend
            /\ mark'.visited = mark.visited \cup {op[1] : op \in Prevouts(graph.txs[t])}
            /\ canonical' = [canonical EXCEPT ![t] = GivenReason] /\ GivenReason \in Reason
            /\ canonical' \in [Txid -> Reason \cup {None}]
            /\ more \in Seq(Whole(graph))
            /\ Waiting' = Elements(Tail(mark.queue)) \cup Elements(more)
            /\ Undoing' = Undoing \cup Pruned(t) /\ Unsettled' = Unsettled \cup {t}
            /\ FoundClash' = FoundClash
            /\ Chosen' = Chosen \cup {t} /\ Settled' = Settled
            /\ not_canonical' \ Undoing' = not_canonical \ Undoing
<1> DEFINE t == Head(mark.queue)
           P == Pruned(t)
           more == Populate(t, mark.visited)
           met == {op[1] : op \in Prevouts(graph.txs[t])}
           reason == GivenReason
<1>1. /\ mark # None /\ setup' = setup /\ Tail(mark.queue) \in Seq(Whole(graph))
      /\ t \in Whole(graph) /\ t \in Txid /\ t \notin Chosen
      /\ \A x \in Waiting : x = t \/ x \in Elements(Tail(mark.queue))
      /\ Elements(Tail(mark.queue)) \subseteq Waiting
      /\ P \subseteq Whole(graph) \ not_canonical /\ not_canonical' = not_canonical \cup P
      /\ DirectConflicts(graph, t) \subseteq not_canonical'
  BY VisitFacts
<1>2. /\ canonical' = [canonical EXCEPT ![t] = reason]
      /\ mark' = [mark EXCEPT !.queue = Tail(@) \o more, !.visited = @ \cup met,
                              !.undo = @ \cup P, !.staged = Append(@, t)]
  BY DEF VisitNew, GivenReason
<1>3. /\ mark \in Call /\ Undoing = mark.undo /\ Unsettled = Elements(mark.staged)
      /\ FoundClash = mark.double_spend
  BY <1>1, CallFacts
<1>4. reason \in Reason /\ reason # None
  BY <1>3, ReasonFacts DEF Call, GivenReason
<1>5. setup \in Setups BY DEF WalkInv, TypesHold
<1>6. more \in Seq(Whole(graph))
  <2>1. t \in Whole(graph) BY <1>1
  <2> HIDE DEF t
  <2> QED BY <1>5, <2>1, PopulateFacts
<1> HIDE DEF more, reason
<1>7. /\ Tail(mark.queue) \o more \in Seq(Whole(graph))
      /\ Elements(Tail(mark.queue) \o more) = Elements(Tail(mark.queue)) \cup Elements(more)
  <2> DEFINE rest == Tail(mark.queue)
  <2>1. rest \in Seq(Whole(graph)) /\ more \in Seq(Whole(graph)) BY <1>1, <1>6
  <2> HIDE DEF rest
  <2>2. rest \o more \in Seq(Whole(graph)) /\ Elements(rest \o more) = Elements(rest) \cup Elements(more)
    BY <2>1, ElementsOfConcat
  <2> QED BY <2>2 DEF rest
<1>8. mark.staged \in Seq(Txid) BY <1>3 DEF Call
<1>9. Append(mark.staged, t) \in Seq(Txid) /\ Elements(Append(mark.staged, t)) = Unsettled \cup {t}
  BY <1>1, <1>3, <1>8, ElementsOfAppend
<1>10. met \subseteq Txid \cup {0}
  <2>1. graph.txs[t].input \in Seq(OutPoint \cup {Null})
    BY <1>1, <1>5, SetupAssumption DEF IsGraph, graph
  <2>2. \A op \in Prevouts(graph.txs[t]) : op \in OutPoint BY <2>1 DEF Prevouts
  <2> QED BY <2>2 DEF OutPoint
<1> HIDE DEF met
<1>11. Tail(mark.queue) \o more \in Seq(Txid) /\ P \subseteq Txid BY <1>1, <1>7, WholeIsTxid
<1> HIDE DEF P, t
<1>12. mark' \in Call BY <1>2, <1>3, <1>9, <1>10, <1>11 DEF Call
<1>13. mark' # None BY <1>12, NoneAssumption
<1>14. /\ mark'.queue = Tail(mark.queue) \o more /\ mark'.staged = Append(mark.staged, t)
       /\ mark'.undo = mark.undo \cup P /\ mark'.double_spend = mark.double_spend
       /\ mark'.visited = mark.visited \cup met
       /\ mark'.root = mark.root /\ mark'.reason = mark.reason
  BY <1>2, <1>3 DEF Call
<1>15. /\ Waiting' = Elements(Tail(mark.queue)) \cup Elements(more)
       /\ Undoing' = Undoing \cup P /\ Unsettled' = Unsettled \cup {t}
       /\ FoundClash' = FoundClash
  <2>1. Elements(mark.queue)' = Elements(Tail(mark.queue) \o more) BY <1>14 DEF Elements
  <2>2. Staged' = Elements(Append(mark.staged, t)) BY <1>14 DEF Elements, Staged
  <2>3. FoundClash' = mark'.double_spend BY <1>12, <1>13 DEF FoundClash, Call
  <2> QED BY <1>3, <1>7, <1>9, <1>13, <1>14, <2>1, <2>2, <2>3 DEF Waiting, Undoing, Unsettled
<1>16. canonical' \in [Txid -> Reason \cup {None}] BY <1>1, <1>2, <1>4 DEF WalkInv, TypesHold
<1>17. Chosen' = Chosen \cup {t}
  BY <1>1, <1>2, <1>4 DEF WalkInv, TypesHold, Chosen
<1>18. graph' = graph BY <1>1 DEF graph
<1>19. Settled' = Settled BY <1>1, <1>15, <1>17 DEF Settled
<1>20. not_canonical' \ Undoing' = not_canonical \ Undoing BY <1>1, <1>15
<1> QED
  BY <1>1, <1>2, <1>4, <1>5, <1>6, <1>12, <1>13, <1>14, <1>15, <1>16, <1>17, <1>18, <1>19, <1>20
  DEF t, P, more, met, reason

LEMMA VisitAcceptKeeps ==
  ASSUME WalkInv, VisitNew, Head(mark.queue) \notin not_canonical'
  PROVE  WalkInv'
<1> DEFINE t == Head(mark.queue)
           P == Pruned(t)
           more == Populate(t, mark.visited)
           met == {op[1] : op \in Prevouts(graph.txs[t])}
<1>1. /\ mark # None /\ setup' = setup
      /\ t \in Whole(graph) /\ t \notin Chosen
      /\ \A x \in Waiting : x = t \/ x \in Elements(Tail(mark.queue))
      /\ Elements(Tail(mark.queue)) \subseteq Waiting
      /\ P \subseteq Whole(graph) \ not_canonical /\ not_canonical' = not_canonical \cup P
      /\ DirectConflicts(graph, t) \subseteq not_canonical'
  BY VisitFacts
<1>2. /\ mark' # None /\ mark' \in Call /\ setup \in Setups
      /\ canonical' \in [Txid -> Reason \cup {None}] /\ more \in Seq(Whole(graph))
  BY VisitAcceptFacts
<1>3. mark'.visited = mark.visited \cup met BY VisitAcceptFacts
<1>4. /\ Waiting' = Elements(Tail(mark.queue)) \cup Elements(more)
       /\ Undoing' = Undoing \cup P /\ Unsettled' = Unsettled \cup {t}
       /\ FoundClash' = FoundClash
  BY VisitAcceptFacts
<1>5. Chosen' = Chosen \cup {t} BY VisitAcceptFacts
<1>6. graph' = graph BY VisitAcceptFacts
<1>7. Settled' = Settled BY VisitAcceptFacts
<1>8. not_canonical' \ Undoing' = not_canonical \ Undoing BY VisitAcceptFacts
<1>9. \A p \in Whole(graph) \ mark.visited :
        (\E op \in Prevouts(graph.txs[t]) : op[1] = p) => p \in Elements(more)
  <2>1. t \in Whole(graph) BY <1>1
  <2> HIDE DEF t
  <2>2. \A p \in Whole(graph) \ mark.visited :
          (\E op \in Prevouts(graph.txs[t]) : op[1] = p) => \E k \in DOMAIN more : more[k] = p
    BY <1>2, <2>1, PopulateFacts
  <2> HIDE DEF more
  <2> QED BY <2>2 DEF Elements
<1> HIDE DEF t, P, more, met
<1>10. TypesHold' BY <1>1, <1>2, <1>6 DEF WalkInv, TypesHold
<1>11. ConflictsAreOut'
  BY <1>1, <1>4, <1>5, <1>6, <1>7, <1>8 DEF WalkInv, ConflictsAreOut
<1>12. Waiting \subseteq Chosen' \cup Waiting' BY <1>1, <1>4, <1>5
<1>13. ~FoundClash => mark.visited \cap Whole(graph) \subseteq Chosen' \cup Waiting'
  BY <1>1, <1>5, <1>12 DEF WalkInv, ParentsAreIn
<1>14. ~FoundClash => met \cap Whole(graph) \subseteq Chosen' \cup Waiting'
  BY <1>9, <1>4, <1>13 DEF met
<1>15. Parents(graph, t) \subseteq met BY DEF Parents, Children, met
<1>16. ParentsAreIn'
  <2>1. Waiting' \subseteq Whole(graph')
    <3>1. Elements(more) \subseteq Whole(graph) BY <1>2 DEF Elements
    <3> QED BY <1>1, <1>4, <1>6, <3>1 DEF WalkInv, ParentsAreIn
  <2>2. \A x \in Settled' : Parents(graph', x) \subseteq Settled'
    BY <1>6, <1>7 DEF WalkInv, ParentsAreIn
  <2>3. ASSUME ~FoundClash', NEW x \in Chosen' PROVE Parents(graph', x) \subseteq Chosen' \cup Waiting'
    <3>1. CASE x \in Chosen BY <1>4, <1>5, <1>6, <1>12, <2>3, <3>1 DEF WalkInv, ParentsAreIn
    <3>2. CASE x = t
      <4>1. Parents(graph, t) \subseteq Whole(graph) BY DEF Parents
      <4> QED BY <1>4, <1>6, <1>14, <1>15, <2>3, <3>2, <4>1
    <3> QED BY <1>5, <3>1, <3>2
  <2>4. ~FoundClash' => mark'.visited \cap Whole(graph') \subseteq Chosen' \cup Waiting'
    BY <1>3, <1>4, <1>6, <1>13, <1>14
  <2> QED BY <2>1, <2>2, <2>3, <2>4 DEF ParentsAreIn
<1>17. ClashesAwaited'
  <2> SUFFICES ASSUME ~FoundClash, NEW x \in Chosen', x \in not_canonical',
                      \A q \in Waiting' : q \notin not_canonical' \ Chosen'
               PROVE  FALSE
    BY <1>4 DEF ClashesAwaited
  <2>1. x # t /\ x \in Chosen BY <1>5 DEF t
  <2>2. x \notin not_canonical
    <3> SUFFICES ASSUME x \in not_canonical PROVE FALSE OBVIOUS
    <3>1. PICK q \in Waiting : q \in not_canonical \ Chosen
      BY <2>1 DEF WalkInv, ClashesAwaited
    <3>2. q # t BY <1>1, <3>1 DEF t
    <3>3. q \in Waiting' /\ q \in not_canonical' \ Chosen' BY <1>1, <1>4, <1>5, <3>1, <3>2
    <3> QED BY <3>3
  <2>3. x \in P BY <1>1, <2>2
  <2> DEFINE S == P \ Chosen'
             open == Whole(graph) \ not_canonical
  <2>4. ASSUME NEW c \in DirectConflicts(graph, t), c \in open PROVE c \in S
    <3>1. c \in P BY <1>1, <2>4
    <3>2. c # t /\ t \in DirectConflicts(graph, c) BY <1>1, ConflictIsMutual
    <3>3. c \notin Chosen
      <4> SUFFICES ASSUME c \in Chosen PROVE FALSE OBVIOUS
      <4>1. t \in not_canonical BY <3>2 DEF WalkInv, ConflictsAreOut
      <4> QED BY <1>1, <4>1 DEF t
    <3> QED BY <1>5, <3>1, <3>2, <3>3
  <2>5. ASSUME NEW y \in S, NEW z \in Children(graph, y), z \in open PROVE z \in S
    <3>1. z \in P BY <2>5, DescendantFacts DEF P, Pruned
    <3>2. z \notin Chosen'
      <4> SUFFICES ASSUME z \in Chosen' PROVE FALSE OBVIOUS
      <4>1. y \in Parents(graph, z) BY <1>1 DEF Parents
      <4>2. y \in Waiting' BY <1>4, <1>6, <1>16, <4>1 DEF ParentsAreIn
      <4> QED BY <1>1, <4>2
    <3> QED BY <3>1, <3>2
  <2>6. S \in SUBSET open BY <1>1
  <2> HIDE DEF S
  <2>7. P \subseteq S BY <2>4, <2>5, <2>6, DescendantFacts DEF P, Pruned
  <2> QED BY <2>3, <2>7 DEF S
<1> QED BY <1>10, <1>11, <1>16, <1>17 DEF WalkInv

(* The walk is over and has met no conflict: nothing clashes any more. *)
LEMMA CommitFacts ==
  ASSUME WalkInv, Commit
  PROVE  /\ mark # None /\ mark' = None /\ setup' = setup /\ graph' = graph
         /\ canonical' = canonical /\ not_canonical' = not_canonical
         /\ Waiting = {} /\ ~FoundClash
         /\ Unsettled' = {} /\ Undoing' = {} /\ Waiting' = {} /\ ~FoundClash'
         /\ Chosen' = Chosen /\ Settled' = Chosen
<1>1. /\ mark # None /\ mark.queue = << >> /\ ~mark.double_spend /\ mark' = None
      /\ setup' = setup /\ canonical' = canonical /\ not_canonical' = not_canonical
  BY DEF Commit
<1>2. Waiting = {} /\ ~FoundClash BY <1>1 DEF Waiting, Elements, FoundClash
<1>3. Unsettled' = {} /\ Undoing' = {} /\ Waiting' = {} /\ ~FoundClash'
  BY <1>1 DEF Unsettled, Undoing, Waiting, FoundClash
<1>4. Chosen' = Chosen /\ graph' = graph BY <1>1 DEF Chosen, graph
<1>5. Settled' = Chosen BY <1>3, <1>4 DEF Settled
<1> QED BY <1>1, <1>2, <1>3, <1>4, <1>5

LEMMA CommitKeeps ==
  ASSUME WalkInv, Commit
  PROVE  WalkInv'
<1>1. Chosen \cap not_canonical = {} BY CommitFacts DEF WalkInv, ClashesAwaited
<1>2. TypesHold' BY CommitFacts DEF WalkInv, TypesHold
<1>3. ConflictsAreOut' BY <1>1, CommitFacts DEF WalkInv, ConflictsAreOut
<1>4. ParentsAreIn' BY CommitFacts DEF WalkInv, ParentsAreIn
<1>5. ClashesAwaited' BY <1>1, CommitFacts DEF ClashesAwaited
<1> QED BY <1>2, <1>3, <1>4, <1>5 DEF WalkInv

(* The walk has met a conflict: what it did is taken back. *)
LEMMA UndoFacts ==
  ASSUME WalkInv, Undo
  PROVE  /\ mark # None /\ mark.double_spend /\ mark' = None /\ setup' = setup /\ graph' = graph
         /\ canonical' \in [Txid -> Reason \cup {None}]
         /\ \A t \in Settled : canonical'[t] = canonical[t]
         /\ not_canonical' = not_canonical \ Undoing
         /\ Unsettled' = {} /\ Undoing' = {} /\ Waiting' = {} /\ ~FoundClash'
         /\ Chosen' = Settled /\ Settled' = Settled
<1>1. /\ mark # None /\ mark.double_spend /\ mark' = None /\ setup' = setup
      /\ canonical' = [t \in Txid |-> IF t \in Staged THEN None ELSE canonical[t]]
      /\ not_canonical' = not_canonical \ mark.undo
  BY DEF Undo
<1>2. Unsettled = Staged /\ Undoing = mark.undo BY <1>1 DEF Unsettled, Undoing
<1>3. Unsettled' = {} /\ Undoing' = {} /\ Waiting' = {} /\ ~FoundClash'
  BY <1>1 DEF Unsettled, Undoing, Waiting, FoundClash
<1>4. Chosen' = Settled /\ graph' = graph BY <1>1, <1>2 DEF Chosen, Settled, graph
<1>5. Settled' = Settled BY <1>3, <1>4 DEF Settled
<1>6. canonical' \in [Txid -> Reason \cup {None}] BY <1>1 DEF WalkInv, TypesHold
<1>7. \A t \in Settled : canonical'[t] = canonical[t] BY <1>1, <1>2 DEF Settled, Chosen
<1> QED BY <1>1, <1>2, <1>3, <1>4, <1>5, <1>6, <1>7

LEMMA UndoKeeps ==
  ASSUME WalkInv, Undo
  PROVE  WalkInv'
<1>1. TypesHold' BY UndoFacts DEF WalkInv, TypesHold
<1>2. Settled \subseteq Chosen BY DEF Settled
<1>3. ConflictsAreOut' BY <1>2, UndoFacts DEF WalkInv, ConflictsAreOut
<1>4. ParentsAreIn' BY UndoFacts DEF WalkInv, ParentsAreIn
<1>5. ClashesAwaited' BY UndoFacts DEF WalkInv, ConflictsAreOut, ClashesAwaited
<1> QED BY <1>1, <1>3, <1>4, <1>5 DEF WalkInv

-----------------------------------------------------------------------------
(* The stages. *)

(* The chain's answer is one of the transaction's anchors in the chain. *)
LEMMA BestAnchorFacts ==
  ASSUME setup \in Setups, NEW t \in Txid, BestAnchor(t) # None
  PROVE  /\ BestAnchor(t) \in graph.anchors[t] /\ BestAnchor(t) \in Block
         /\ IsBlockInChain(BestAnchor(t))
<1> DEFINE hits == {b \in graph.anchors[t] : IsBlockInChain(b)}
           hs == {Height(b) : b \in hits}
<1>1. graph.anchors[t] \subseteq Block BY SetupAssumption DEF IsGraph, graph
<1>2. hits # {} BY DEF BestAnchor
<1>3. hs \subseteq Nat /\ hs # {} BY <1>1, <1>2, GraphAssumption DEF Height
<1> HIDE DEF hs
<1>4. PICK h \in hs : \A k \in hs : h <= k BY <1>3, LeastNatural
<1>5. PICK b \in hits : Height(b) = h BY <1>4 DEF hs
<1>6. \A c \in hits : Height(b) <= Height(c) BY <1>4, <1>5 DEF hs
<1> DEFINE best == CHOOSE x \in hits : \A c \in hits : Height(x) <= Height(c)
<1>7. BestAnchor(t) = best BY <1>2 DEF BestAnchor
<1>8. best \in hits BY <1>6
<1> QED BY <1>1, <1>7, <1>8

LEMMA QueueFront ==
  ASSUME QueuesHold, NEW q \in {anchored, seen, leftover}, q # {}
  PROVE  /\ Front(q) \in q /\ Front(q) \in Nat \X Whole(graph)
         /\ IsFiniteSet(q \ {Front(q)}) /\ q \ {Front(q)} \subseteq Nat \X Whole(graph)
<1>1. IsFiniteSet(q) /\ q \subseteq Nat \X Whole(graph) BY DEF QueuesHold
<1>2. q \subseteq Nat \X Nat BY <1>1, WholeIsTxid
<1>3. Front(q) \in q BY <1>1, <1>2, FrontFacts
<1>4. IsFiniteSet(q \ {Front(q)})
  <2>1. q \ {Front(q)} \in SUBSET q OBVIOUS
  <2> QED BY <1>1, <2>1, FS_Subset
<1> QED BY <1>1, <1>3, <1>4

LEMMA NextAssumedKeeps ==
  ASSUME MarkInv, NextAssumed
  PROVE  MarkInv'
<1>1. /\ mark = None /\ assumed # << >> /\ setup' = setup
      /\ assumed' = SubSeq(assumed, 1, Len(assumed) - 1)
      /\ anchored' = anchored /\ seen' = seen /\ leftover' = leftover
      /\ MarkUnlessCanonicalized(assumed[Len(assumed)], NewReason("Assumed", None))
  BY DEF NextAssumed
<1>2. assumed \in Seq(Whole(graph)) BY DEF MarkInv, QueuesHold
<1>3. Len(assumed) \in DOMAIN assumed BY <1>1, <1>2
<1>4. assumed[Len(assumed)] \in Whole(graph) BY <1>2, <1>3
<1>5. NewReason("Assumed", None) \in Reason BY DEF NewReason, Reason
<1>6. WalkInv' BY <1>1, <1>4, <1>5, MarkBegins DEF MarkInv
<1>7. assumed' \in Seq(Whole(graph)) BY <1>1, <1>2, <1>3
<1>8. QueuesHold' BY <1>1, <1>7 DEF MarkInv, QueuesHold, graph
<1> QED BY <1>6, <1>8 DEF MarkInv

LEMMA NextAnchoredKeeps ==
  ASSUME MarkInv, NextAnchored
  PROVE  MarkInv'
<1> DEFINE front == Front(anchored)
           best == BestAnchor(front[2])
<1>1. /\ mark = None /\ anchored # {} /\ setup' = setup /\ anchored' = anchored \ {front}
      /\ assumed' = assumed /\ seen' = seen
      /\ \/ leftover' = leftover \cup {front} /\ UNCHANGED result
         \/ best # None /\ MarkUnlessCanonicalized(front[2], NewReason("Anchor", best))
            /\ leftover' = leftover
  BY DEF NextAnchored
<1>2. /\ front \in Nat \X Whole(graph)
      /\ IsFiniteSet(anchored') /\ anchored' \subseteq Nat \X Whole(graph)
  BY <1>1, QueueFront DEF MarkInv
<1>3. front[2] \in Whole(graph) /\ front[2] \in Txid BY <1>2, WholeIsTxid
<1> HIDE DEF front
<1>4. CASE leftover' = leftover \cup {front} /\ UNCHANGED result
  <2>1. IsFiniteSet(leftover') /\ leftover' \subseteq Nat \X Whole(graph)
    BY <1>2, <1>4, FS_AddElement DEF MarkInv, QueuesHold
  <2>2. QueuesHold' BY <1>1, <1>2, <2>1 DEF MarkInv, QueuesHold, graph
  <2>3. WalkInv' BY <1>1, <1>4, ResultStays DEF MarkInv
  <2> QED BY <2>2, <2>3 DEF MarkInv
<1>5. CASE best # None /\ MarkUnlessCanonicalized(front[2], NewReason("Anchor", best))
           /\ leftover' = leftover
  <2>1. setup \in Setups BY DEF MarkInv, WalkInv, TypesHold
  <2>2. best \in Block BY <1>3, <1>5, <2>1, BestAnchorFacts
  <2> HIDE DEF best
  <2>3. NewReason("Anchor", best) \in Reason BY <2>2 DEF NewReason, Reason
  <2>4. WalkInv' BY <1>1, <1>3, <1>5, <2>3, MarkBegins DEF MarkInv
  <2>5. QueuesHold' BY <1>1, <1>2, <1>5 DEF MarkInv, QueuesHold, graph
  <2> QED BY <2>4, <2>5 DEF MarkInv
<1> QED BY <1>1, <1>4, <1>5

LEMMA NextSeenKeeps ==
  ASSUME MarkInv, NextSeen
  PROVE  MarkInv'
<1> DEFINE front == Front(seen)
<1>1. /\ mark = None /\ seen # {} /\ setup' = setup /\ seen' = seen \ {front}
      /\ assumed' = assumed /\ anchored' = anchored /\ leftover' = leftover
      /\ MarkUnlessCanonicalized(front[2], NewReason("Mempool", front[1]))
  BY DEF NextSeen
<1>2. /\ front \in Nat \X Whole(graph)
      /\ IsFiniteSet(seen') /\ seen' \subseteq Nat \X Whole(graph)
  BY <1>1, QueueFront DEF MarkInv
<1> HIDE DEF front
<1>3. front[2] \in Whole(graph) /\ front[1] \in Nat BY <1>2
<1>4. NewReason("Mempool", front[1]) \in Reason BY <1>3 DEF NewReason, Reason
<1>5. WalkInv' BY <1>1, <1>3, <1>4, MarkBegins DEF MarkInv
<1>6. QueuesHold' BY <1>1, <1>2 DEF MarkInv, QueuesHold, graph
<1> QED BY <1>5, <1>6 DEF MarkInv

LEMMA NextLeftOverKeeps ==
  ASSUME MarkInv, NextLeftOver
  PROVE  MarkInv'
<1> DEFINE front == Front(leftover)
<1>1. /\ mark = None /\ leftover # {} /\ setup' = setup /\ leftover' = leftover \ {front}
      /\ assumed' = assumed /\ anchored' = anchored /\ seen' = seen
      /\ UNCHANGED result \/ MarkUnlessCanonicalized(front[2], NewReason("Block", front[1]))
  BY DEF NextLeftOver
<1>2. /\ front \in Nat \X Whole(graph)
      /\ IsFiniteSet(leftover') /\ leftover' \subseteq Nat \X Whole(graph)
  BY <1>1, QueueFront DEF MarkInv
<1> HIDE DEF front
<1>3. front[2] \in Whole(graph) /\ front[1] \in Nat BY <1>2
<1>4. NewReason("Block", front[1]) \in Reason BY <1>3 DEF NewReason, Reason
<1>5. WalkInv' BY <1>1, <1>3, <1>4, MarkBegins, ResultStays DEF MarkInv
<1>6. QueuesHold' BY <1>1, <1>2 DEF MarkInv, QueuesHold, graph
<1> QED BY <1>5, <1>6 DEF MarkInv

LEMMA NextMarkInv ==
  ASSUME MarkInv, [Next]_vars
  PROVE  MarkInv'
<1>1. ASSUME setup' = setup, UNCHANGED queues, UNCHANGED result PROVE MarkInv'
  BY <1>1, QueuesStay, ResultStays DEF MarkInv
<1>2. ASSUME setup' = setup, UNCHANGED queues, WalkInv' PROVE MarkInv'
  BY <1>2, QueuesStay DEF MarkInv
<1>3. CASE NextAssumed BY <1>3, NextAssumedKeeps
<1>4. CASE NextAnchored BY <1>4, NextAnchoredKeeps
<1>5. CASE NextSeen BY <1>5, NextSeenKeeps
<1>6. CASE NextLeftOver BY <1>6, NextLeftOverKeeps
<1>7. CASE Advance BY <1>1, <1>7 DEF Advance
<1>8. CASE VisitKnown BY <1>2, <1>8, VisitKnownKeeps DEF VisitKnown, MarkInv
<1>9. CASE VisitNew
  <2>1. WalkInv' BY <1>9, VisitClashKeeps, VisitAcceptKeeps DEF MarkInv
  <2> QED BY <1>2, <1>9, <2>1 DEF VisitNew
<1>10. CASE Commit BY <1>2, <1>10, CommitKeeps DEF Commit, MarkInv
<1>11. CASE Undo BY <1>2, <1>11, UndoKeeps DEF Undo, MarkInv
<1>12. CASE UpdateChain BY <1>1, <1>12 DEF UpdateChain
<1>13. CASE StartView BY <1>1, <1>13 DEF StartView
<1>14. CASE ResolveCheck BY <1>1, <1>14 DEF ResolveCheck
<1>15. CASE Resolve BY <1>1, <1>15 DEF Resolve
<1>16. CASE Done BY <1>1, <1>16 DEF Done, vars
<1>17. CASE UNCHANGED vars BY <1>1, <1>17 DEF vars
<1> QED
  BY <1>3, <1>4, <1>5, <1>6, <1>7, <1>8, <1>9, <1>10, <1>11, <1>12, <1>13, <1>14, <1>15, <1>16,
     <1>17 DEF Next

(* The invariant of CanonicalTask and of mark_canonical's walk. *)
THEOREM AlwaysMarkInv == Spec => []MarkInv
<1>1. Init => MarkInv BY InitMarkInv
<1>2. MarkInv /\ [Next]_vars => MarkInv' BY NextMarkInv
<1> QED BY <1>1, <1>2, PTL DEF Spec

(* Whatever the graph, the chain and the assumed transactions are, the       *)
(* canonical transactions spend no output twice once mark_canonical returns. *)
THEOREM AlwaysNoDoubleSpend == Spec => []NoDoubleSpend
<1>1. MarkInv => NoDoubleSpend
  <2> SUFFICES ASSUME MarkInv, mark = None, NEW t \in Chosen, NEW u \in Chosen, t # u,
                      NEW op \in Prevouts(graph.txs[t]), op \in Prevouts(graph.txs[u])
               PROVE  FALSE
    BY DEF NoDoubleSpend
  <2>1. u \in Whole(graph) BY DEF MarkInv, WalkInv, ConflictsAreOut
  <2>2. u \in DirectConflicts(graph, t) BY <2>1, ConflictMeans
  <2>3. Settled = Chosen /\ Undoing = {} BY DEF Settled, Unsettled, Undoing
  <2> QED BY <2>2, <2>3 DEF MarkInv, WalkInv, ConflictsAreOut
<1> QED BY <1>1, AlwaysMarkInv, PTL

-----------------------------------------------------------------------------
(***************************************************************************)
(* The positions of the view.  A second invariant traces every reason back *)
(* to what supports it, and follows the transactions of the chain through  *)
(* the stages: their calls of mark_canonical never fail.                   *)
(***************************************************************************)

(* A transaction and its descendants. *)
Below(t) == Descendants(graph, {t}, {})

(* A reason that lets CanonicalViewTask look for anchors. *)
Strong(reason) == reason.kind \in {"Assumed", "Anchor"}

(* The reason names the transaction or a descendant, and its anchor. *)
Supports(t, reason) ==
  LET by == IF reason.descendant = None THEN t ELSE reason.descendant
  IN /\ by \in Below(t)
     /\ reason.kind = "Anchor" => reason.at \in graph.anchors[by] \cap setup.chain

ReasonsHold ==
  /\ \A t \in Chosen : Supports(t, canonical[t])
  /\ \A t \in Settled : canonical[t].descendant \in Settled \cup {None}

(* What is out takes its descendants with it. *)
OutIsClosed ==
  /\ \A a \in not_canonical : Children(graph, a) \subseteq not_canonical
  /\ \A a \in not_canonical \ Undoing : Children(graph, a) \subseteq not_canonical \ Undoing

(* The call walks over ancestors of its root, the root first; one for a      *)
(* transaction of the chain meets nothing that is out.                       *)
CallHolds ==
  mark # None =>
    /\ mark.root \in Whole(graph) /\ mark.reason.descendant = None
    /\ Supports(mark.root, mark.reason)
    /\ \A q \in Waiting : mark.root \in Below(q)
    /\ \A t \in Unsettled : /\ canonical[t].kind = mark.reason.kind
                            /\ canonical[t].descendant \in {None, mark.root}
    /\ mark.staged = << >> => /\ Waiting \subseteq {mark.root} /\ mark.root \notin Chosen
                              /\ ~mark.double_spend => mark.root \in Waiting
    /\ mark.staged # << >> => mark.root \in Unsettled
    /\ mark.reason.kind = "Anchor" => /\ ~mark.double_spend
                                      /\ \A a \in not_canonical : mark.root \notin Below(a)

TraceInv == ReasonsHold /\ OutIsClosed /\ CallHolds

Early == {"AssumedTxs", "AnchoredTxs"}
Late == {"Finished", "ResolvingPositions"}

StageHolds ==
  /\ stage \in Early \cup {"SeenTxs", "LeftOverTxs"} \cup Late
  /\ tip = Tip(setup.chain)
  /\ chain \in {setup.chain} \cup setup.later
  /\ stage \notin Late => chain = setup.chain
  /\ stage \in Late => mark = None
  /\ stage # "ResolvingPositions" =>
       view = << >> /\ checks = << >> /\ direct_anchors = [t \in Txid |-> None]

(* Strong reasons come first, and ancestors have them too. *)
KindsHold ==
  /\ stage \in Early => \A t \in Chosen : Strong(canonical[t])
  /\ mark # None => (Strong(mark.reason) <=> stage \in Early)
  /\ mark # None /\ stage = "AnchoredTxs" => mark.reason.kind = "Anchor"
  /\ \A t \in Settled : Strong(canonical[t]) => \A p \in Parents(graph, t) : Strong(canonical[p])

Decided(t) == t \in not_canonical \ Undoing \/ (t \in Settled /\ Strong(canonical[t]))
Queued(t) == \E p \in anchored : p[2] = t

(* The transactions of the chain are decided when their stage is over. *)
MinedDecided ==
  \A t \in MinedIn(graph, setup.chain) :
    /\ stage = "AssumedTxs" => Queued(t)
    /\ stage = "AnchoredTxs" => Decided(t) \/ Queued(t) \/ (mark # None /\ t = mark.root)
    /\ stage \notin Early => Decided(t)

OrderHolds ==
  /\ canonical_order \in Seq(Txid)
  /\ Elements(canonical_order) \subseteq Settled

(* A position is what the answers of the chain so far make of the reason. *)
ViewHolds ==
  stage = "ResolvingPositions" =>
    /\ DOMAIN direct_anchors = Txid
    /\ \A t \in Txid : direct_anchors[t] \in {None, BestAnchor(t)}
    /\ checks \in Seq(Txid)
    /\ \A t \in Elements(canonical_order) :
         NeedsCheck(t) => t \in Elements(checks) \/ direct_anchors[t] = BestAnchor(t)
    /\ view \in Seq(UNION {Positions(t) : t \in Elements(canonical_order)})
    /\ Len(view) <= Len(canonical_order)
    /\ checks # << >> => view = << >>
    /\ \A i \in DOMAIN view : view[i] \in Positions(canonical_order[i])

StageInv == StageHolds /\ KindsHold /\ MinedDecided /\ OrderHolds /\ ViewHolds

-----------------------------------------------------------------------------
(* Descendants and ancestors. *)

LEMMA BelowFacts ==
  ASSUME NEW t \in Whole(graph)
  PROVE  /\ t \in Below(t) /\ Below(t) \subseteq Whole(graph)
         /\ \A x \in Below(t) : Children(graph, x) \subseteq Below(t)
         /\ \A S \in SUBSET Whole(graph) :
              t \in S /\ (\A x \in S : Children(graph, x) \subseteq S) => Below(t) \subseteq S
<1>1. Whole(graph) \ {} = Whole(graph) OBVIOUS
<1>2. \A x : Children(graph, x) \subseteq Whole(graph) BY DEF Children
<1> QED BY <1>1, <1>2, DescendantFacts DEF Below

LEMMA BelowIsTransitive ==
  ASSUME NEW t \in Whole(graph), NEW x \in Below(t)
  PROVE  Below(x) \subseteq Below(t)
<1>1. x \in Whole(graph) /\ Below(t) \in SUBSET Whole(graph) BY BelowFacts
<1>2. \A y \in Below(t) : Children(graph, y) \subseteq Below(t) BY BelowFacts
<1> QED BY <1>1, <1>2, BelowFacts

LEMMA BelowParent ==
  ASSUME NEW t \in Whole(graph), NEW p \in Parents(graph, t)
  PROVE  p \in Whole(graph) /\ Below(t) \subseteq Below(p)
<1>1. p \in Whole(graph) /\ t \in Children(graph, p) BY DEF Parents
<1>2. t \in Below(p) BY <1>1, BelowFacts
<1> QED BY <1>1, <1>2, BelowIsTransitive

(* A proper descendant descends from a child. *)
LEMMA BelowChildren ==
  ASSUME NEW t \in Whole(graph), NEW x \in Below(t), x # t
  PROVE  x \in Descendants(graph, Children(graph, t), {})
<1> DEFINE D == Descendants(graph, Children(graph, t), {})
           S == D \cup {t}
<1>1. Whole(graph) \ {} = Whole(graph) OBVIOUS
<1>2. \A y : Children(graph, y) \subseteq Whole(graph) BY DEF Children
<1>3. /\ D \subseteq Whole(graph) /\ Children(graph, t) \subseteq D
      /\ \A y \in D : Children(graph, y) \subseteq D
  BY <1>1, <1>2, DescendantFacts
<1> HIDE DEF D
<1>4. S \in SUBSET Whole(graph) /\ t \in S /\ \A y \in S : Children(graph, y) \subseteq S BY <1>3
<1> HIDE DEF S
<1>5. Below(t) \subseteq S BY <1>4, BelowFacts
<1> QED BY <1>5 DEF S, D

(* The walk goes on to parents only. *)
LEMMA PopulateParents ==
  ASSUME setup \in Setups, NEW t \in Whole(graph), NEW visited
  PROVE  Elements(Populate(t, visited)) \subseteq Parents(graph, t)
<1> DEFINE in == graph.txs[t].input
           ids == [i \in DOMAIN in |-> in[i][1]]
           ps == {i \in DOMAIN in : /\ in[i][1] \in Whole(graph) \ visited
                                    /\ \A j \in 1 .. i - 1 : in[j][1] # in[i][1]}
           P == Populate(t, visited)
<1>1. in \in Seq(OutPoint \cup {Null}) BY SetupAssumption DEF IsGraph, graph
<1>2. PICK n \in Nat : DOMAIN in = 1 .. n BY <1>1
<1>3. P = Subsequence(ids, ps) BY DEF Populate
<1>4. ps \in SUBSET (1 .. n) BY <1>2
<1>5. ASSUME NEW i \in ps PROVE ids[i] \in Parents(graph, t)
  <2>1. ids[i] = in[i][1] /\ in[i][1] \in Whole(graph) BY <1>2
  <2>2. in[i] # Null BY <2>1, WholeIsTxid, GraphAssumption DEF Null, Whole
  <2>3. in[i] \in Prevouts(graph.txs[t]) BY <2>2 DEF Prevouts
  <2> QED BY <2>1, <2>3 DEF Parents, Children
<1> HIDE DEF ps, P, ids
<1>6. P \in Seq(Parents(graph, t)) BY <1>3, <1>4, <1>5, SubsequenceType
<1> QED BY <1>6 DEF Elements, P

(* Nothing that a transaction of the chain descends from is pruned on its    *)
(* account: the chain would hold a double spend.                             *)
LEMMA PrunedMissesHistory ==
  ASSUME setup \in Setups, NEW root \in MinedIn(graph, setup.chain),
         NEW t \in Whole(graph), root \in Below(t), NEW a \in Pruned(t)
  PROVE  root \notin Below(a)
<1> DEFINE open == Whole(graph) \ not_canonical
           P == Pruned(t)
           S == {x \in P : root \notin Below(x)}
           H == History(graph, setup.chain)
<1>1. ConflictFree(graph, H) BY SetupAssumption DEF graph
<1>2. \A x \in Whole(graph) : root \in Below(x) => x \in H BY DEF History, Below
<1>3. P \subseteq open BY DescendantFacts DEF Pruned
<1>4. ASSUME NEW c \in DirectConflicts(graph, t), c \in open PROVE c \in S
  <2>1. c \in P BY <1>4, DescendantFacts DEF Pruned
  <2>2. c \in Whole(graph) BY ConflictMeans
  <2>3. c \notin H BY <1>1, <1>2 DEF ConflictFree
  <2> QED BY <1>2, <2>1, <2>2, <2>3
<1>5. ASSUME NEW y \in S, NEW z \in Children(graph, y), z \in open PROVE z \in S
  <2>1. z \in P BY <1>5, DescendantFacts DEF Pruned
  <2>2. z \in Whole(graph) /\ y \in Parents(graph, z) BY <1>3 DEF Parents, Children
  <2>3. Below(z) \subseteq Below(y) BY <2>2, BelowParent
  <2> QED BY <2>1, <2>3
<1>6. S \in SUBSET open BY <1>3
<1> HIDE DEF S
<1>7. P \subseteq S BY <1>4, <1>5, <1>6, DescendantFacts DEF P, Pruned
<1> QED BY <1>7 DEF S

-----------------------------------------------------------------------------
(* The calls of mark_canonical. *)

LEMMA TraceStays ==
  ASSUME TraceInv, setup' = setup, UNCHANGED result
  PROVE  TraceInv'
<1>1. /\ graph' = graph /\ canonical' = canonical /\ not_canonical' = not_canonical /\ mark' = mark
  BY DEF result, graph
<1>2. Chosen' = Chosen /\ Unsettled' = Unsettled /\ Undoing' = Undoing /\ Waiting' = Waiting
  BY <1>1 DEF Chosen, Unsettled, Undoing, Waiting, Elements, Staged
<1>3. Settled' = Settled BY <1>2 DEF Settled
<1>4. \A x, r : Supports(x, r)' <=> Supports(x, r) BY <1>1 DEF Supports, Below
<1>5. \A x : Below(x)' = Below(x) BY <1>1 DEF Below
<1>6. ReasonsHold' BY <1>1, <1>2, <1>3, <1>4 DEF TraceInv, ReasonsHold
<1>7. OutIsClosed' BY <1>1, <1>2 DEF TraceInv, OutIsClosed
<1>8. CallHolds' BY <1>1, <1>2, <1>4, <1>5 DEF TraceInv, CallHolds
<1> QED BY <1>6, <1>7, <1>8 DEF TraceInv

(* Out is closed, so a transaction that is not out has no ancestor there. *)
LEMMA OutHoldsBelow ==
  ASSUME WalkInv, OutIsClosed, NEW a \in not_canonical
  PROVE  Below(a) \subseteq not_canonical
<1>1. a \in Whole(graph) /\ not_canonical \in SUBSET Whole(graph) BY DEF WalkInv, TypesHold
<1> QED BY <1>1, BelowFacts DEF OutIsClosed

LEMMA TraceBegins ==
  ASSUME WalkInv, TraceInv, mark = None, setup' = setup,
         NEW t \in Whole(graph), NEW reason \in Reason, reason.descendant = None,
         Supports(t, reason), MarkUnlessCanonicalized(t, reason)
  PROVE  TraceInv'
<1>1. CASE UNCHANGED result BY <1>1, TraceStays
<1>2. CASE ~IsCanonicalized(t) /\ MarkCanonical(t, reason)
  <2> DEFINE call == [root |-> t, reason |-> reason, queue |-> <<t>>, visited |-> {},
                      staged |-> << >>, undo |-> {}, double_spend |-> FALSE]
  <2>1. /\ mark' = call /\ canonical' = canonical /\ not_canonical' = not_canonical
    BY <1>2 DEF MarkCanonical
  <2>2. t \in Txid /\ t \notin Chosen /\ t \notin not_canonical
    BY <1>2, WholeIsTxid DEF IsCanonicalized, Chosen
  <2>3. call \in Call BY <2>2 DEF Call
  <2>4. mark' # None BY <2>1, <2>3, NoneAssumption
  <2>5. Chosen' = Chosen /\ graph' = graph BY <2>1 DEF Chosen, graph
  <2>6. /\ Unsettled' = {} /\ Undoing' = {} /\ Waiting' = {t}
        /\ mark'.root = t /\ mark'.reason = reason /\ mark'.staged = << >> /\ ~mark'.double_spend
    BY <2>1, <2>4 DEF Unsettled, Undoing, Waiting, Elements, Staged
  <2>7. Unsettled = {} /\ Undoing = {} BY DEF Unsettled, Undoing
  <2>8. Settled' = Settled BY <2>5, <2>6, <2>7 DEF Settled
  <2>9. \A x, r : Supports(x, r)' <=> Supports(x, r) BY <2>5 DEF Supports, Below
  <2>10. \A x : Below(x)' = Below(x) BY <2>5 DEF Below
  <2>11. ReasonsHold' BY <2>1, <2>5, <2>8, <2>9 DEF TraceInv, ReasonsHold
  <2>12. OutIsClosed' BY <2>1, <2>5, <2>6, <2>7 DEF TraceInv, OutIsClosed
  <2>13. \A a \in not_canonical : t \notin Below(a) BY <2>2, OutHoldsBelow DEF TraceInv
  <2>14. t \in Below(t) BY BelowFacts
  <2>15. CallHolds'
    BY <2>1, <2>2, <2>4, <2>5, <2>6, <2>9, <2>10, <2>13, <2>14 DEF CallHolds
  <2> QED BY <2>11, <2>12, <2>15 DEF TraceInv
<1> QED BY <1>1, <1>2 DEF MarkUnlessCanonicalized

LEMMA TraceKnown ==
  ASSUME WalkInv, TraceInv, VisitKnown
  PROVE  TraceInv'
<1>1. /\ mark # None /\ graph' = graph /\ setup' = setup /\ canonical' = canonical
      /\ not_canonical' = not_canonical /\ Undoing' = Undoing /\ Unsettled' = Unsettled
      /\ Chosen' = Chosen /\ Settled' = Settled /\ Waiting' \subseteq Waiting
      /\ Head(mark.queue) \in Waiting /\ Head(mark.queue) \in Chosen
  BY VisitKnownFacts
<1>2. /\ mark'.root = mark.root /\ mark'.reason = mark.reason /\ mark'.staged = mark.staged
      /\ mark'.double_spend = mark.double_spend
  <2>1. mark \in Call /\ mark' = [mark EXCEPT !.queue = Tail(@)] BY VisitKnownFacts, CallFacts
  <2> QED BY <2>1 DEF Call
<1>3. \A x, r : Supports(x, r)' <=> Supports(x, r) BY <1>1 DEF Supports, Below
<1>4. \A x : Below(x)' = Below(x) BY <1>1 DEF Below
<1>5. mark.staged # << >> BY <1>1 DEF TraceInv, CallHolds
<1>6. ReasonsHold' BY <1>1, <1>3 DEF TraceInv, ReasonsHold
<1>7. OutIsClosed' BY <1>1 DEF TraceInv, OutIsClosed
<1>8. CallHolds' BY <1>1, <1>2, <1>3, <1>4, <1>5 DEF TraceInv, CallHolds
<1> QED BY <1>6, <1>7, <1>8 DEF TraceInv

(* What a visit prunes is closed, and spares the history of the chain. *)
LEMMA PrunedTrace ==
  ASSUME WalkInv, TraceInv, VisitNew
  PROVE  /\ \A a \in not_canonical' : Children(graph, a) \subseteq not_canonical'
         /\ mark.reason.kind = "Anchor" =>
              /\ \A a \in not_canonical' : mark.root \notin Below(a)
              /\ Head(mark.queue) \notin not_canonical'
<1> DEFINE t == Head(mark.queue)
           P == Pruned(t)
<1>1. /\ mark # None /\ t \in Whole(graph) /\ not_canonical' = not_canonical \cup P
  BY VisitFacts
<1>2. /\ \A x \in P : Children(graph, x) \cap (Whole(graph) \ not_canonical) \subseteq P
  BY DescendantFacts DEF Pruned
<1>3. \A x : Children(graph, x) \subseteq Whole(graph) BY DEF Children
<1>4. t \in Waiting
  <2>1. mark.queue # << >> BY DEF VisitNew
  <2> QED BY <1>1, <2>1, CallFacts, HeadAndTail
<1>5. mark.root \in Below(t) BY <1>1, <1>4 DEF TraceInv, CallHolds
<1> HIDE DEF t
<1>6. ASSUME mark.reason.kind = "Anchor", NEW a \in not_canonical' PROVE mark.root \notin Below(a)
  <2>1. CASE a \in not_canonical BY <1>1, <1>6, <2>1 DEF TraceInv, CallHolds
  <2>2. CASE a \in P
    <3>1. setup \in Setups BY DEF WalkInv, TypesHold
    <3>2. mark.root \in MinedIn(graph, setup.chain)
      BY <1>1, <1>6 DEF TraceInv, CallHolds, Supports, MinedIn
    <3> QED BY <1>1, <1>5, <2>2, <3>1, <3>2, PrunedMissesHistory
  <2> QED BY <1>1, <2>1, <2>2
<1>7. mark.reason.kind = "Anchor" => t \notin not_canonical' BY <1>5, <1>6
<1> HIDE DEF P
<1>8. \A a \in not_canonical' : Children(graph, a) \subseteq not_canonical'
  BY <1>1, <1>2, <1>3 DEF TraceInv, OutIsClosed
<1> QED BY <1>6, <1>7, <1>8 DEF t

LEMMA TraceClash ==
  ASSUME WalkInv, TraceInv, VisitNew, Head(mark.queue) \in not_canonical'
  PROVE  TraceInv'
<1>1. /\ mark # None /\ setup' = setup BY VisitFacts
<1>2. /\ graph' = graph /\ canonical' = canonical /\ Waiting' \subseteq Waiting
      /\ Unsettled' = Unsettled /\ Chosen' = Chosen /\ Settled' = Settled
      /\ not_canonical' \ Undoing' = not_canonical \ Undoing
  BY VisitClashFacts
<1>3. /\ mark'.root = mark.root /\ mark'.reason = mark.reason /\ mark'.staged = mark.staged
      /\ mark'.double_spend
  <2>1. mark' = [mark EXCEPT !.queue = Tail(@), !.undo = @ \cup Pruned(Head(mark.queue)),
                             !.double_spend = TRUE]
    BY VisitClashFacts
  <2>2. mark \in Call BY <1>1, CallFacts
  <2> QED BY <2>1, <2>2 DEF Call
<1>4. \A x, r : Supports(x, r)' <=> Supports(x, r) BY <1>1, <1>2 DEF Supports, Below
<1>5. \A x : Below(x)' = Below(x) BY <1>2 DEF Below
<1>6. mark.reason.kind # "Anchor" BY PrunedTrace
<1>7. ReasonsHold' BY <1>2, <1>4 DEF TraceInv, ReasonsHold
<1>8. OutIsClosed'
  <2>1. \A a \in not_canonical' : Children(graph, a) \subseteq not_canonical' BY PrunedTrace
  <2> QED BY <1>2, <2>1 DEF TraceInv, OutIsClosed
<1>9. CallHolds' BY <1>1, <1>2, <1>3, <1>4, <1>5, <1>6 DEF TraceInv, CallHolds
<1> QED BY <1>7, <1>8, <1>9 DEF TraceInv

LEMMA TraceAccept ==
  ASSUME WalkInv, TraceInv, VisitNew, Head(mark.queue) \notin not_canonical'
  PROVE  TraceInv'
<1> DEFINE t == Head(mark.queue)
           more == Populate(t, mark.visited)
<1>1. /\ mark # None /\ setup' = setup /\ t \in Whole(graph) /\ t \in Txid /\ t \notin Chosen
      /\ Elements(Tail(mark.queue)) \subseteq Waiting
  BY VisitFacts
<1>2. /\ mark' # None /\ graph' = graph /\ setup \in Setups
      /\ mark'.root = mark.root /\ mark'.reason = mark.reason
      /\ mark'.staged = Append(mark.staged, t) /\ mark'.double_spend = mark.double_spend
      /\ canonical' = [canonical EXCEPT ![t] = GivenReason]
  BY VisitAcceptFacts
<1>3. /\ Waiting' = Elements(Tail(mark.queue)) \cup Elements(more)
      /\ Unsettled' = Unsettled \cup {t}
      /\ Chosen' = Chosen \cup {t} /\ Settled' = Settled
      /\ not_canonical' \ Undoing' = not_canonical \ Undoing
  BY VisitAcceptFacts
<1>4. mark \in Call /\ mark.root \in Txid /\ mark.reason \in Reason /\ mark.staged \in Seq(Txid)
  BY <1>1, CallFacts DEF Call
<1>5. t \in Waiting
  <2>1. mark.queue # << >> BY DEF VisitNew
  <2> QED BY <1>1, <2>1, CallFacts, HeadAndTail
<1>6. mark.root \in Below(t) BY <1>1, <1>5 DEF TraceInv, CallHolds
<1>7. \A q \in Elements(more) : Below(t) \subseteq Below(q)
  <2>1. t \in Whole(graph) BY <1>1
  <2> HIDE DEF t
  <2>2. Elements(more) \subseteq Parents(graph, t) BY <1>2, <2>1, PopulateParents
  <2> HIDE DEF more
  <2> QED BY <2>1, <2>2, BelowParent
<1> HIDE DEF t, more
<1>8. \A x, r : Supports(x, r)' <=> Supports(x, r) BY <1>1, <1>2 DEF Supports, Below
<1>9. \A x : Below(x)' = Below(x) BY <1>2 DEF Below
<1>10. /\ Supports(t, GivenReason) /\ GivenReason.kind = mark.reason.kind
       /\ GivenReason.descendant \in {None, mark.root}
  <2>1. mark.reason.descendant = None /\ Supports(mark.root, mark.reason)
    BY <1>1 DEF TraceInv, CallHolds
  <2>2. CASE mark.staged = << >>
    <3>1. t = mark.root BY <1>1, <1>5, <2>2 DEF TraceInv, CallHolds
    <3> QED BY <2>1, <2>2, <3>1 DEF GivenReason
  <2>3. CASE mark.staged # << >>
    <3> DEFINE r == ToTransitive(mark.reason, mark.root)
    <3>1. /\ r.kind = mark.reason.kind /\ r.at = mark.reason.at /\ r.descendant = mark.root
      BY <1>4 DEF ToTransitive, Reason
    <3>2. GivenReason = r BY <2>3 DEF GivenReason
    <3> HIDE DEF r
    <3>3. mark.root # None BY <1>4, NoneAssumption
    <3>4. Supports(t, r) BY <1>6, <2>1, <3>1, <3>3 DEF Supports
    <3> QED BY <3>1, <3>2, <3>4
  <2> QED BY <2>2, <2>3
<1> HIDE DEF GivenReason
<1>11. /\ canonical'[t] = GivenReason /\ \A x \in Chosen : canonical'[x] = canonical[x]
  <2>1. canonical \in [Txid -> Reason \cup {None}] BY DEF WalkInv, TypesHold
  <2> QED BY <1>1, <1>2, <2>1 DEF Chosen
<1>12. Settled \subseteq Chosen BY DEF Settled
<1>13. ReasonsHold'
  BY <1>3, <1>8, <1>10, <1>11, <1>12 DEF TraceInv, ReasonsHold
<1>14. OutIsClosed'
  <2>1. \A a \in not_canonical' : Children(graph, a) \subseteq not_canonical' BY PrunedTrace
  <2> QED BY <1>2, <1>3, <2>1 DEF TraceInv, OutIsClosed
<1>15. mark'.staged # << >>
  <2>1. Append(mark.staged, t) # << >> BY <1>1, <1>4
  <2> QED BY <1>2, <2>1
<1>16. mark.root \in Unsettled'
  BY <1>1, <1>3, <1>5 DEF TraceInv, CallHolds
<1>17. \A q \in Waiting' : mark.root \in Below(q)
  BY <1>1, <1>3, <1>6, <1>7 DEF TraceInv, CallHolds
<1>18. \A x \in Unsettled' : /\ canonical'[x].kind = mark.reason.kind
                            /\ canonical'[x].descendant \in {None, mark.root}
  <2>1. Unsettled \subseteq Chosen BY DEF WalkInv, ConflictsAreOut
  <2> QED BY <1>1, <1>3, <1>10, <1>11, <2>1 DEF TraceInv, CallHolds
<1>19. mark.reason.kind = "Anchor" =>
         ~mark.double_spend /\ \A a \in not_canonical' : mark.root \notin Below(a)
  BY <1>1, PrunedTrace DEF TraceInv, CallHolds
<1>20. /\ mark.root \in Whole(graph) /\ mark.reason.descendant = None
       /\ Supports(mark.root, mark.reason)
  BY <1>1 DEF TraceInv, CallHolds
<1>21. CallHolds'
  BY <1>2, <1>8, <1>9, <1>15, <1>16, <1>17, <1>18, <1>19, <1>20 DEF CallHolds
<1> QED BY <1>13, <1>14, <1>21 DEF TraceInv

LEMMA TraceCommit ==
  ASSUME WalkInv, TraceInv, Commit
  PROVE  TraceInv'
<1>1. /\ mark # None /\ mark' = None /\ setup' = setup /\ graph' = graph
      /\ canonical' = canonical /\ not_canonical' = not_canonical
      /\ Undoing' = {} /\ Chosen' = Chosen /\ Settled' = Chosen
  BY CommitFacts
<1>2. \A x, r : Supports(x, r)' <=> Supports(x, r) BY <1>1 DEF Supports, Below
<1>3. \A t \in Chosen : canonical[t].descendant \in Chosen \cup {None}
  <2>1. \A t \in Settled : canonical[t].descendant \in Settled \cup {None}
    BY DEF TraceInv, ReasonsHold
  <2>2. ASSUME NEW t \in Unsettled PROVE canonical[t].descendant \in Chosen \cup {None}
    <3>1. mark.staged # << >> BY <1>1, <2>2, CallFacts DEF Elements
    <3>2. mark.root \in Unsettled /\ canonical[t].descendant \in {None, mark.root}
      BY <1>1, <3>1 DEF TraceInv, CallHolds
    <3> QED BY <3>2 DEF WalkInv, ConflictsAreOut
  <2> QED BY <2>1, <2>2 DEF Settled
<1>4. ReasonsHold' BY <1>1, <1>2, <1>3 DEF TraceInv, ReasonsHold
<1>5. OutIsClosed' BY <1>1 DEF TraceInv, OutIsClosed
<1>6. CallHolds' BY <1>1 DEF CallHolds
<1> QED BY <1>4, <1>5, <1>6 DEF TraceInv

LEMMA TraceUndo ==
  ASSUME WalkInv, TraceInv, Undo
  PROVE  TraceInv'
<1>1. /\ mark # None /\ mark' = None /\ setup' = setup /\ graph' = graph
      /\ \A t \in Settled : canonical'[t] = canonical[t]
      /\ not_canonical' = not_canonical \ Undoing
      /\ Undoing' = {} /\ Chosen' = Settled /\ Settled' = Settled
  BY UndoFacts
<1>2. \A x, r : Supports(x, r)' <=> Supports(x, r) BY <1>1 DEF Supports, Below
<1>3. Settled \subseteq Chosen BY DEF Settled
<1>4. ReasonsHold' BY <1>1, <1>2, <1>3 DEF TraceInv, ReasonsHold
<1>5. OutIsClosed' BY <1>1 DEF TraceInv, OutIsClosed
<1>6. CallHolds' BY <1>1 DEF CallHolds
<1> QED BY <1>4, <1>5, <1>6 DEF TraceInv

-----------------------------------------------------------------------------
(* The stages go on while the calls run. *)

FullInv == MarkInv /\ TraceInv /\ StageInv

WalkStep == VisitKnown \/ VisitNew \/ Commit \/ Undo

(* What is settled stays as it is. *)
LEMMA SettledStays ==
  ASSUME WalkInv, WalkStep
  PROVE  /\ Settled \subseteq Settled'
         /\ \A t \in Settled : canonical'[t] = canonical[t]
         /\ not_canonical \ Undoing \subseteq not_canonical' \ Undoing'
<1>1. Settled \subseteq Chosen BY DEF Settled
<1>2. CASE VisitKnown BY <1>2, VisitKnownFacts
<1>3. CASE VisitNew /\ Head(mark.queue) \in not_canonical' BY <1>3, VisitClashFacts
<1>4. CASE VisitNew /\ Head(mark.queue) \notin not_canonical'
  <2>1. Head(mark.queue) \notin Chosen /\ Head(mark.queue) \in Txid BY <1>4, VisitFacts
  <2>2. canonical' = [canonical EXCEPT ![Head(mark.queue)] = GivenReason] BY <1>4, VisitAcceptFacts
  <2>3. \A t \in Chosen : canonical'[t] = canonical[t]
    <3>1. canonical \in [Txid -> Reason \cup {None}] BY DEF WalkInv, TypesHold
    <3> QED BY <2>1, <2>2, <3>1 DEF Chosen
  <2>4. Settled' = Settled /\ not_canonical' \ Undoing' = not_canonical \ Undoing
    BY <1>4, VisitAcceptFacts
  <2> QED BY <1>1, <2>3, <2>4
<1>5. CASE Commit BY <1>1, <1>5, CommitFacts
<1>6. CASE Undo BY <1>6, UndoFacts
<1> QED BY <1>2, <1>3, <1>4, <1>5, <1>6 DEF WalkStep

LEMMA WalkFrame ==
  ASSUME WalkInv, WalkStep
  PROVE  /\ mark # None /\ setup' = setup /\ graph' = graph /\ chain' = chain /\ tip' = tip
         /\ stage' = stage /\ UNCHANGED queues /\ UNCHANGED views
BY DEF WalkStep, VisitKnown, VisitNew, Commit, Undo, graph

(* What a call accepts has the kind of the call's reason. *)
LEMMA AcceptedKind ==
  ASSUME WalkInv, TraceInv, VisitNew, Head(mark.queue) \notin not_canonical'
  PROVE  /\ canonical'[Head(mark.queue)].kind = mark.reason.kind
         /\ \A t \in Chosen : canonical'[t] = canonical[t]
<1> DEFINE t == Head(mark.queue)
<1>1. mark # None /\ t \in Txid /\ t \notin Chosen BY VisitFacts
<1>2. canonical' = [canonical EXCEPT ![t] = GivenReason] BY VisitAcceptFacts
<1>3. canonical \in [Txid -> Reason \cup {None}] BY DEF WalkInv, TypesHold
<1>4. GivenReason.kind = mark.reason.kind
  <2>1. mark.reason \in Reason /\ mark.root \in Txid BY <1>1, CallFacts DEF Call
  <2> QED BY <2>1 DEF GivenReason, ToTransitive, Reason
<1> HIDE DEF t, GivenReason
<1>5. \A x \in Chosen : canonical'[x] = canonical[x] BY <1>1, <1>2, <1>3 DEF Chosen
<1> QED BY <1>1, <1>2, <1>3, <1>4, <1>5 DEF t

LEMMA KindsWalk ==
  ASSUME WalkInv, TraceInv, KindsHold, WalkStep
  PROVE  KindsHold'
<1>1. /\ mark # None /\ graph' = graph /\ stage' = stage BY WalkFrame
<1>2. /\ Settled \subseteq Settled' /\ \A t \in Settled : canonical'[t] = canonical[t]
  BY SettledStays
<1>3. \A t \in Settled : Parents(graph, t) \subseteq Settled BY DEF WalkInv, ParentsAreIn
<1>4. Settled \subseteq Chosen BY DEF Settled
<1>5. ASSUME Settled' = Settled
      PROVE  \A t \in Settled' : Strong(canonical'[t]) => \A p \in Parents(graph', t) : Strong(canonical'[p])
  BY <1>1, <1>2, <1>3, <1>5 DEF KindsHold
<1>6. CASE VisitKnown
  <2>1. mark'.reason = mark.reason
    <3>1. mark \in Call /\ mark' = [mark EXCEPT !.queue = Tail(@)]
      BY <1>6, VisitKnownFacts, CallFacts
    <3> QED BY <3>1 DEF Call
  <2> QED BY <1>1, <1>5, <1>6, <2>1, VisitKnownFacts DEF KindsHold
<1>7. CASE VisitNew /\ Head(mark.queue) \in not_canonical'
  <2>1. mark'.reason = mark.reason
    <3>1. mark' = [mark EXCEPT !.queue = Tail(@), !.undo = @ \cup Pruned(Head(mark.queue)),
                               !.double_spend = TRUE]
      BY <1>7, VisitClashFacts
    <3>2. mark \in Call BY <1>1, CallFacts
    <3> QED BY <3>1, <3>2 DEF Call
  <2> QED BY <1>1, <1>5, <1>7, <2>1, VisitClashFacts DEF KindsHold
<1>8. CASE VisitNew /\ Head(mark.queue) \notin not_canonical'
  <2> DEFINE t == Head(mark.queue)
  <2>1. /\ mark'.reason = mark.reason /\ Settled' = Settled /\ Chosen' = Chosen \cup {t}
    BY <1>8, VisitAcceptFacts
  <2>2. /\ canonical'[t].kind = mark.reason.kind
        /\ \A x \in Chosen : canonical'[x] = canonical[x]
    BY <1>8, AcceptedKind
  <2> HIDE DEF t
  <2>3. stage \in Early => \A x \in Chosen' : Strong(canonical'[x])
    BY <1>1, <2>1, <2>2 DEF KindsHold, Strong
  <2> QED BY <1>1, <1>5, <2>1, <2>3 DEF KindsHold
<1>9. CASE Commit
  <2>1. /\ mark' = None /\ canonical' = canonical /\ Chosen' = Chosen /\ Settled' = Chosen
        /\ Waiting = {} /\ ~FoundClash
    BY <1>9, CommitFacts
  <2>2. \A t \in Chosen : Parents(graph, t) \subseteq Chosen BY <2>1 DEF WalkInv, ParentsAreIn
  <2>3. ASSUME NEW t \in Chosen, Strong(canonical[t]), NEW p \in Parents(graph, t)
        PROVE  Strong(canonical[p])
    <3>1. CASE stage \in Early BY <2>2, <3>1 DEF KindsHold
    <3>2. CASE stage \notin Early
      <4>1. t \notin Unsettled BY <1>1, <2>3, <3>2 DEF KindsHold, TraceInv, CallHolds, Strong
      <4> QED BY <2>3, <4>1 DEF KindsHold, Settled
    <3> QED BY <3>1, <3>2
  <2> QED BY <1>1, <2>1, <2>3 DEF KindsHold
<1>10. CASE Undo
  <2>1. /\ mark' = None /\ Chosen' = Settled /\ Settled' = Settled BY <1>10, UndoFacts
  <2> QED BY <1>1, <1>2, <1>4, <1>5, <2>1 DEF KindsHold
<1> QED BY <1>6, <1>7, <1>8, <1>9, <1>10 DEF WalkStep

LEMMA MinedWalk ==
  ASSUME WalkInv, TraceInv, KindsHold, MinedDecided, WalkStep
  PROVE  MinedDecided'
<1>1. /\ mark # None /\ setup' = setup /\ graph' = graph /\ stage' = stage /\ anchored' = anchored
  BY WalkFrame DEF queues
<1>2. \A t : Decided(t) => Decided(t)' BY SettledStays DEF Decided
<1>3. \A t : Queued(t)' <=> Queued(t) BY <1>1 DEF Queued
<1>4. ASSUME stage = "AnchoredTxs", NEW t, t = mark.root
      PROVE  Decided(t)' \/ (mark' # None /\ t = mark'.root)
  <2>1. mark.reason.kind = "Anchor" /\ ~mark.double_spend
    BY <1>1, <1>4 DEF KindsHold, TraceInv, CallHolds
  <2>2. CASE VisitKnown
    <3>1. mark \in Call /\ mark' # None /\ mark' = [mark EXCEPT !.queue = Tail(@)]
      BY <2>2, VisitKnownFacts, CallFacts
    <3> QED BY <1>4, <3>1 DEF Call
  <2>3. CASE VisitNew
    <3>1. Head(mark.queue) \notin not_canonical' BY <2>1, <2>3, PrunedTrace
    <3>2. mark' # None /\ mark'.root = mark.root BY <2>3, <3>1, VisitAcceptFacts
    <3> QED BY <1>4, <3>2
  <2>4. CASE Commit
    <3>1. Waiting = {} /\ canonical' = canonical /\ Settled' = Chosen BY <2>4, CommitFacts
    <3>2. mark.root \in Unsettled BY <1>1, <2>1, <3>1 DEF TraceInv, CallHolds
    <3>3. t \in Chosen BY <1>4, <3>2 DEF WalkInv, ConflictsAreOut
    <3>4. Strong(canonical[t]) BY <1>4, <3>3 DEF KindsHold, Early
    <3> QED BY <3>1, <3>3, <3>4 DEF Decided
  <2>5. CASE Undo BY <2>1, <2>5, UndoFacts
  <2> QED BY <2>2, <2>3, <2>4, <2>5 DEF WalkStep
<1> QED BY <1>1, <1>2, <1>3, <1>4 DEF MinedDecided

LEMMA OrderWalk ==
  ASSUME WalkInv, OrderHolds, WalkStep
  PROVE  OrderHolds'
<1>1. Settled \subseteq Settled' BY SettledStays
<1>2. CASE canonical_order' = canonical_order BY <1>1, <1>2 DEF OrderHolds, Elements
<1>3. CASE Commit
  <2>1. /\ mark # None /\ Settled' = Chosen BY <1>3, CommitFacts
  <2>2. mark.staged \in Seq(Txid) /\ Unsettled = Elements(mark.staged) BY <2>1, CallFacts DEF Call
  <2>3. canonical_order' = canonical_order \o mark.staged BY <1>3 DEF Commit
  <2>4. canonical_order \in Seq(Txid) /\ Elements(canonical_order) \subseteq Settled BY DEF OrderHolds
  <2>5. /\ canonical_order \o mark.staged \in Seq(Txid)
        /\ Elements(canonical_order \o mark.staged) = Elements(canonical_order) \cup Unsettled
    BY <2>2, <2>4, ElementsOfConcat
  <2>6. Settled \subseteq Chosen /\ Unsettled \subseteq Chosen
    BY DEF Settled, WalkInv, ConflictsAreOut
  <2>7. Elements(canonical_order)' = Elements(canonical_order \o mark.staged) BY <2>3 DEF Elements
  <2> QED BY <2>1, <2>3, <2>4, <2>5, <2>6, <2>7 DEF OrderHolds
<1> QED BY <1>2, <1>3 DEF WalkStep, VisitKnown, VisitNew, Undo

LEMMA StageWalk ==
  ASSUME WalkInv, TraceInv, StageInv, WalkStep
  PROVE  StageInv'
<1>1. /\ mark # None /\ setup' = setup /\ chain' = chain /\ tip' = tip /\ stage' = stage
      /\ UNCHANGED views
  BY WalkFrame
<1>2. stage \notin Late BY <1>1 DEF StageInv, StageHolds
<1>3. StageHolds' BY <1>1, <1>2 DEF StageInv, StageHolds, views
<1>4. ViewHolds' BY <1>1, <1>2 DEF ViewHolds, Late
<1> QED BY <1>3, <1>4, KindsWalk, MinedWalk, OrderWalk DEF StageInv

-----------------------------------------------------------------------------
(* The stages take the next transaction of their queue. *)

LEMMA BeginFacts ==
  ASSUME WalkInv, mark = None, setup' = setup,
         NEW t \in Whole(graph), NEW reason \in Reason, MarkUnlessCanonicalized(t, reason)
  PROVE  /\ graph' = graph /\ canonical' = canonical /\ not_canonical' = not_canonical
         /\ canonical_order' = canonical_order
         /\ Chosen' = Chosen /\ Settled' = Chosen /\ Settled = Chosen
         /\ Undoing' = {} /\ Undoing = {}
         /\ \/ mark' = None /\ IsCanonicalized(t)
            \/ mark' # None /\ mark'.root = t /\ mark'.reason = reason
<1> DEFINE call == [root |-> t, reason |-> reason, queue |-> <<t>>, visited |-> {},
                    staged |-> << >>, undo |-> {}, double_spend |-> FALSE]
<1>1. /\ canonical' = canonical /\ not_canonical' = not_canonical
      /\ canonical_order' = canonical_order
      /\ (mark' = None /\ IsCanonicalized(t)) \/ mark' = call
  BY DEF MarkUnlessCanonicalized, MarkCanonical, result
<1>2. graph' = graph /\ Chosen' = Chosen BY <1>1 DEF graph, Chosen
<1>3. call \in Call BY WholeIsTxid DEF Call
<1>4. call # None /\ call.root = t /\ call.reason = reason /\ call.staged = << >> /\ call.undo = {}
  BY <1>3, NoneAssumption
<1> HIDE DEF call
<1>5. Unsettled = {} /\ Undoing = {} BY DEF Unsettled, Undoing
<1>6. Unsettled' = {} /\ Undoing' = {} BY <1>1, <1>4 DEF Unsettled, Undoing, Staged
<1> QED BY <1>1, <1>2, <1>4, <1>5, <1>6 DEF Settled

LEMMA SupportsItself ==
  ASSUME NEW t \in Whole(graph), NEW kind, NEW at,
         kind = "Anchor" => at \in graph.anchors[t] \cap setup.chain
  PROVE  Supports(t, NewReason(kind, at)) /\ NewReason(kind, at).descendant = None
BY BelowFacts DEF Supports, NewReason

(* The parts of the invariant about the stage when a call begins or nothing happens. *)
LEMMA StageBegins ==
  ASSUME WalkInv, StageInv, mark = None, setup' = setup, chain' = chain, tip' = tip, stage' = stage,
         UNCHANGED views, stage \notin Late,
         NEW t \in Whole(graph), NEW reason \in Reason, MarkUnlessCanonicalized(t, reason),
         Strong(reason) <=> stage \in Early,
         stage = "AnchoredTxs" => reason.kind = "Anchor"
  PROVE  StageHolds' /\ KindsHold' /\ OrderHolds' /\ ViewHolds' /\ \A x : Decided(x)' <=> Decided(x)
<1>1. /\ graph' = graph /\ canonical' = canonical /\ not_canonical' = not_canonical
      /\ canonical_order' = canonical_order
      /\ Chosen' = Chosen /\ Settled' = Chosen /\ Settled = Chosen
      /\ Undoing' = {} /\ Undoing = {}
      /\ mark' = None \/ mark'.reason = reason
  BY BeginFacts
<1>2. StageHolds' BY DEF StageInv, StageHolds, views
<1>3. KindsHold' BY <1>1 DEF StageInv, KindsHold
<1>4. OrderHolds' BY <1>1 DEF StageInv, OrderHolds, Elements
<1>5. ViewHolds' BY DEF ViewHolds, Late
<1>6. \A x : Decided(x)' <=> Decided(x) BY <1>1 DEF Decided
<1> QED BY <1>2, <1>3, <1>4, <1>5, <1>6

(* The same when the transaction is passed over. *)
LEMMA StageSkips ==
  ASSUME StageInv, setup' = setup, chain' = chain, tip' = tip, stage' = stage,
         UNCHANGED result, UNCHANGED views
  PROVE  /\ StageHolds' /\ KindsHold' /\ OrderHolds' /\ ViewHolds'
         /\ graph' = graph /\ mark' = mark /\ \A x : Decided(x)' <=> Decided(x)
<1>1. /\ graph' = graph /\ canonical' = canonical /\ not_canonical' = not_canonical
      /\ canonical_order' = canonical_order /\ mark' = mark
      /\ checks' = checks /\ direct_anchors' = direct_anchors /\ view' = view
  BY DEF graph, result, views
<1>2. Chosen' = Chosen /\ Unsettled' = Unsettled /\ Undoing' = Undoing
  BY <1>1 DEF Chosen, Unsettled, Undoing, Staged
<1>3. Settled' = Settled BY <1>2 DEF Settled
<1>4. StageHolds' BY <1>1 DEF StageInv, StageHolds
<1>5. KindsHold' BY <1>1, <1>2, <1>3 DEF StageInv, KindsHold
<1>6. OrderHolds' BY <1>1, <1>3 DEF StageInv, OrderHolds, Elements
<1>7. \A t : BestAnchor(t)' = BestAnchor(t) BY <1>1 DEF BestAnchor, IsBlockInChain
<1>8. \A t : Positions(t)' = Positions(t)
  BY <1>1 DEF Positions, AnchoredDescendants
<1>9. \A t : NeedsCheck(t)' <=> NeedsCheck(t) BY <1>1 DEF NeedsCheck
<1>10. ViewHolds' BY <1>1, <1>7, <1>8, <1>9 DEF StageInv, ViewHolds, Elements
<1>11. \A x : Decided(x)' <=> Decided(x) BY <1>1, <1>2, <1>3 DEF Decided
<1> QED BY <1>1, <1>4, <1>5, <1>6, <1>10, <1>11

LEMMA StageAssumed ==
  ASSUME FullInv, NextAssumed
  PROVE  TraceInv' /\ StageInv'
<1> DEFINE t == assumed[Len(assumed)]
           reason == NewReason("Assumed", None)
<1>1. /\ mark = None /\ stage = "AssumedTxs" /\ assumed # << >> /\ setup' = setup
      /\ chain' = chain /\ tip' = tip /\ stage' = stage /\ anchored' = anchored /\ UNCHANGED views
      /\ MarkUnlessCanonicalized(t, reason)
  BY DEF NextAssumed
<1>2. assumed \in Seq(Whole(graph)) BY DEF FullInv, MarkInv, QueuesHold
<1>3. t \in Whole(graph)
  <2>1. Len(assumed) \in DOMAIN assumed BY <1>1, <1>2
  <2> QED BY <1>2, <2>1
<1>4. reason \in Reason /\ reason.kind = "Assumed" BY DEF NewReason, Reason
<1>5. Supports(t, reason) /\ reason.descendant = None BY <1>3, SupportsItself
<1> HIDE DEF t, reason
<1>6. WalkInv /\ TraceInv /\ StageInv BY DEF FullInv, MarkInv
<1>7. TraceInv' BY <1>1, <1>3, <1>4, <1>5, <1>6, TraceBegins
<1>8. Strong(reason) /\ stage \in Early /\ stage \notin Late BY <1>1, <1>4 DEF Strong, Early, Late
<1>9. StageHolds' /\ KindsHold' /\ OrderHolds' /\ ViewHolds'
  BY <1>1, <1>3, <1>4, <1>6, <1>8, StageBegins
<1>10. MinedDecided' BY <1>1, <1>8 DEF FullInv, StageInv, MinedDecided, Queued, graph
<1> QED BY <1>7, <1>9, <1>10 DEF StageInv

(* The tip is a highest block of the chain the task was created on. *)
LEMMA TipFacts ==
  ASSUME setup \in Setups, tip = Tip(setup.chain)
  PROVE  /\ tip \in setup.chain /\ Height(tip) \in Nat
         /\ \A b \in setup.chain : b \in Block /\ Height(b) \in Nat /\ Height(b) <= Height(tip)
<1>1. IsFiniteSet(setup.chain) /\ setup.chain # {} /\ setup.chain \subseteq Block BY SetupAssumption
<1>2. \A b \in setup.chain : Height(b) \in Nat BY <1>1, GraphAssumption DEF Height
<1> DEFINE f == [b \in setup.chain |-> Height(b)]
<1>3. f \in [setup.chain -> Nat] BY <1>2
<1>4. \E b \in setup.chain : \A c \in setup.chain : f[c] <= f[b] BY <1>1, <1>3, GreatestMeasure
<1>5. \E b \in setup.chain : \A c \in setup.chain : Height(c) <= Height(b) BY <1>4
<1>6. tip \in setup.chain /\ \A c \in setup.chain : Height(c) <= Height(tip) BY <1>5 DEF Tip
<1> QED BY <1>1, <1>2, <1>6

LEMMA MinedHasAnchor ==
  ASSUME setup \in Setups, tip = Tip(setup.chain), chain = setup.chain,
         NEW t \in MinedIn(graph, setup.chain)
  PROVE  BestAnchor(t) # None
<1>1. PICK b : b \in graph.anchors[t] /\ b \in setup.chain BY DEF MinedIn
<1>2. IsBlockInChain(b) BY <1>1, TipFacts DEF IsBlockInChain
<1> DEFINE hits == {x \in graph.anchors[t] : IsBlockInChain(x)}
           hs == {Height(x) : x \in hits}
<1>3. b \in hits BY <1>1, <1>2
<1>4. t \in Txid BY WholeIsTxid DEF MinedIn
<1>5. hits \subseteq Block BY <1>4, SetupAssumption DEF IsGraph, graph
<1>6. hs \subseteq Nat /\ hs # {} BY <1>3, <1>5, GraphAssumption DEF Height
<1> HIDE DEF hs
<1>7. PICK h \in hs : \A k \in hs : h <= k BY <1>6, LeastNatural
<1>8. PICK x \in hits : Height(x) = h BY <1>7 DEF hs
<1>9. \A c \in hits : Height(x) <= Height(c) BY <1>7, <1>8 DEF hs
<1> DEFINE best == CHOOSE y \in hits : \A c \in hits : Height(y) <= Height(c)
<1>10. BestAnchor(t) = best BY <1>3 DEF BestAnchor
<1>11. best \in hits BY <1>9
<1> QED BY <1>5, <1>10, <1>11, NoneAssumption

LEMMA StageAnchored ==
  ASSUME FullInv, NextAnchored
  PROVE  TraceInv' /\ StageInv'
<1> DEFINE front == Front(anchored)
           t == front[2]
           best == BestAnchor(t)
           reason == NewReason("Anchor", best)
<1>1. /\ mark = None /\ stage = "AnchoredTxs" /\ anchored # {} /\ setup' = setup
      /\ chain' = chain /\ tip' = tip /\ stage' = stage /\ UNCHANGED views
      /\ anchored' = anchored \ {front}
      /\ \/ best = None /\ UNCHANGED result
         \/ best # None /\ MarkUnlessCanonicalized(t, reason)
  BY DEF NextAnchored
<1>2. WalkInv /\ TraceInv /\ StageInv /\ setup \in Setups
  BY DEF FullInv, MarkInv, WalkInv, TypesHold
<1>3. front \in Nat \X Whole(graph) BY <1>1, QueueFront DEF FullInv, MarkInv
<1>4. t \in Whole(graph) /\ t \in Txid BY <1>3, WholeIsTxid
<1>5. stage \notin Late /\ stage \in Early BY <1>1 DEF Early, Late
<1>6. chain = setup.chain /\ tip = Tip(setup.chain) BY <1>2, <1>5 DEF StageInv, StageHolds
<1>7. t \in MinedIn(graph, setup.chain) => best # None BY <1>2, <1>6, MinedHasAnchor
<1>8. \A x : Queued(x) => x = t \/ Queued(x)' BY <1>1 DEF Queued
<1> HIDE DEF front
<1>9. CASE best = None /\ UNCHANGED result
  <2>1. TraceInv' BY <1>1, <1>2, <1>9, TraceStays
  <2>2. /\ StageHolds' /\ KindsHold' /\ OrderHolds' /\ ViewHolds'
        /\ graph' = graph /\ mark' = mark /\ \A x : Decided(x)' <=> Decided(x)
    BY <1>1, <1>2, <1>9, StageSkips
  <2>3. MinedDecided'
    BY <1>1, <1>2, <1>7, <1>8, <1>9, <2>2 DEF StageInv, MinedDecided, Early
  <2> QED BY <2>1, <2>2, <2>3 DEF StageInv
<1>10. CASE best # None /\ MarkUnlessCanonicalized(t, reason)
  <2>1. best \in graph.anchors[t] /\ best \in Block /\ best \in setup.chain
    BY <1>2, <1>4, <1>6, <1>10, BestAnchorFacts DEF IsBlockInChain
  <2>2. reason \in Reason /\ reason.kind = "Anchor" BY <2>1 DEF NewReason, Reason
  <2>3. Supports(t, reason) /\ reason.descendant = None BY <1>4, <2>1, SupportsItself
  <2> HIDE DEF t, best, reason
  <2>4. TraceInv' BY <1>1, <1>2, <1>4, <1>10, <2>2, <2>3, TraceBegins
  <2>5. Strong(reason) BY <2>2 DEF Strong
  <2>6. /\ StageHolds' /\ KindsHold' /\ OrderHolds' /\ ViewHolds'
        /\ \A x : Decided(x)' <=> Decided(x)
    BY <1>1, <1>2, <1>4, <1>5, <1>10, <2>2, <2>5, StageBegins
  <2>7. graph' = graph /\ (Decided(t) \/ (mark' # None /\ mark'.root = t))
    <3>1. /\ graph' = graph /\ Settled = Chosen /\ Undoing = {}
          /\ \/ mark' = None /\ IsCanonicalized(t)
             \/ mark' # None /\ mark'.root = t
      BY <1>1, <1>2, <1>4, <1>10, <2>2, BeginFacts
    <3>2. IsCanonicalized(t) => Decided(t)
      BY <1>2, <1>4, <1>5, <3>1 DEF IsCanonicalized, Decided, Chosen, StageInv, KindsHold
    <3> QED BY <3>1, <3>2
  <2>8. MinedDecided'
    BY <1>1, <1>2, <1>8, <2>6, <2>7 DEF StageInv, MinedDecided, Early
  <2> QED BY <2>4, <2>6, <2>8 DEF StageInv
<1> QED BY <1>1, <1>9, <1>10

(* The later stages, whose reasons are weak. *)
LEMMA StageWeak ==
  ASSUME FullInv, mark = None, stage \in {"SeenTxs", "LeftOverTxs"}, setup' = setup, chain' = chain,
         tip' = tip, stage' = stage, UNCHANGED views, NEW p \in Nat \X Whole(graph),
         NEW kind \in {"Mempool", "Block"}, MarkUnlessCanonicalized(p[2], NewReason(kind, p[1]))
  PROVE  TraceInv' /\ StageInv'
<1> DEFINE t == p[2]
           reason == NewReason(kind, p[1])
<1>1. MarkUnlessCanonicalized(t, reason) OBVIOUS
<1>2. WalkInv /\ TraceInv /\ StageInv BY DEF FullInv, MarkInv
<1>3. t \in Whole(graph) /\ p[1] \in Nat OBVIOUS
<1>4. reason \in Reason /\ reason.kind = kind BY <1>3 DEF NewReason, Reason
<1>5. Supports(t, reason) /\ reason.descendant = None BY <1>3, SupportsItself
<1> HIDE DEF t, reason
<1>6. TraceInv' BY <1>1, <1>2, <1>3, <1>4, <1>5, TraceBegins
<1>7. ~Strong(reason) /\ stage \notin Early /\ stage \notin Late BY <1>4 DEF Strong, Early, Late
<1>8. /\ StageHolds' /\ KindsHold' /\ OrderHolds' /\ ViewHolds'
      /\ \A x : Decided(x)' <=> Decided(x)
  BY <1>1, <1>2, <1>3, <1>4, <1>7, StageBegins
<1>9. MinedDecided' BY <1>2, <1>7, <1>8 DEF StageInv, MinedDecided, Early, graph
<1> QED BY <1>6, <1>8, <1>9 DEF StageInv

LEMMA StageSeen ==
  ASSUME FullInv, NextSeen
  PROVE  TraceInv' /\ StageInv'
<1> DEFINE front == Front(seen)
<1>1. /\ mark = None /\ stage = "SeenTxs" /\ seen # {} /\ setup' = setup
      /\ chain' = chain /\ tip' = tip /\ stage' = stage /\ UNCHANGED views
      /\ MarkUnlessCanonicalized(front[2], NewReason("Mempool", front[1]))
  BY DEF NextSeen
<1>2. front \in Nat \X Whole(graph) BY <1>1, QueueFront DEF FullInv, MarkInv
<1> HIDE DEF front
<1> QED BY <1>1, <1>2, StageWeak

LEMMA StageLeftOver ==
  ASSUME FullInv, NextLeftOver
  PROVE  TraceInv' /\ StageInv'
<1> DEFINE front == Front(leftover)
<1>1. /\ mark = None /\ stage = "LeftOverTxs" /\ leftover # {} /\ setup' = setup
      /\ chain' = chain /\ tip' = tip /\ stage' = stage /\ UNCHANGED views
      /\ UNCHANGED result \/ MarkUnlessCanonicalized(front[2], NewReason("Block", front[1]))
  BY DEF NextLeftOver
<1>2. front \in Nat \X Whole(graph) BY <1>1, QueueFront DEF FullInv, MarkInv
<1> HIDE DEF front
<1>3. CASE UNCHANGED result
  <2>1. TraceInv' BY <1>1, <1>3, TraceStays DEF FullInv
  <2>2. /\ StageHolds' /\ KindsHold' /\ OrderHolds' /\ ViewHolds'
        /\ graph' = graph /\ \A x : Decided(x)' <=> Decided(x)
    BY <1>1, <1>3, StageSkips DEF FullInv
  <2>3. MinedDecided' BY <1>1, <2>2 DEF FullInv, StageInv, MinedDecided, Early
  <2> QED BY <2>1, <2>2, <2>3 DEF StageInv
<1>4. CASE MarkUnlessCanonicalized(front[2], NewReason("Block", front[1]))
  BY <1>1, <1>2, <1>4, StageWeak
<1> QED BY <1>1, <1>3, <1>4

LEMMA StageAdvance ==
  ASSUME FullInv, Advance
  PROVE  StageInv'
<1>1. /\ mark = None /\ mark' = None /\ setup' = setup /\ graph' = graph /\ chain' = chain
      /\ tip' = tip /\ canonical' = canonical /\ not_canonical' = not_canonical
      /\ canonical_order' = canonical_order /\ anchored' = anchored /\ UNCHANGED views
      /\ \/ stage = "AssumedTxs" /\ stage' = "AnchoredTxs"
         \/ stage = "AnchoredTxs" /\ stage' = "SeenTxs" /\ anchored = {}
         \/ stage = "SeenTxs" /\ stage' = "LeftOverTxs"
         \/ stage = "LeftOverTxs" /\ stage' = "Finished"
  BY DEF Advance, NextStage, result, queues, graph
<1>2. StageInv BY DEF FullInv
<1>3. Chosen' = Chosen /\ Unsettled' = Unsettled /\ Undoing' = Undoing
  BY <1>1 DEF Chosen, Unsettled, Undoing
<1>4. Settled' = Settled BY <1>3 DEF Settled
<1>5. StageHolds' BY <1>1, <1>2 DEF StageInv, StageHolds, Early, Late, views
<1>6. KindsHold' BY <1>1, <1>2, <1>3, <1>4 DEF StageInv, KindsHold, Early
<1>7. OrderHolds' BY <1>1, <1>2, <1>4 DEF StageInv, OrderHolds, Elements
<1>8. ViewHolds' BY <1>1 DEF ViewHolds
<1>9. /\ \A x : Decided(x)' <=> Decided(x)
      /\ \A x : Queued(x)' <=> Queued(x)
      /\ anchored = {} => \A x : ~Queued(x)
  BY <1>1, <1>3, <1>4 DEF Decided, Queued
<1>10. MinedDecided' BY <1>1, <1>2, <1>9 DEF StageInv, MinedDecided, Early
<1> QED BY <1>5, <1>6, <1>7, <1>8, <1>10 DEF StageInv

-----------------------------------------------------------------------------
(* The view. *)

(* In the last two stages the first task's result stands. *)
LEMMA LateFacts ==
  ASSUME StageInv, setup' = setup, UNCHANGED queues, UNCHANGED result, tip' = tip,
         stage \in Late, stage' \in Late
  PROVE  /\ KindsHold' /\ MinedDecided' /\ OrderHolds'
         /\ graph' = graph /\ mark = None /\ mark' = None
         /\ canonical' = canonical /\ canonical_order' = canonical_order
         /\ Chosen' = Chosen
<1>1. /\ graph' = graph /\ canonical' = canonical /\ not_canonical' = not_canonical
      /\ canonical_order' = canonical_order /\ mark' = mark /\ mark = None
  BY DEF graph, result, StageInv, StageHolds
<1>2. Chosen' = Chosen /\ Unsettled' = Unsettled /\ Undoing' = Undoing
  BY <1>1 DEF Chosen, Unsettled, Undoing
<1>3. Settled' = Settled BY <1>2 DEF Settled
<1>4. stage \notin Early /\ stage' \notin Early BY DEF Early, Late
<1>5. stage # "AssumedTxs" /\ stage # "AnchoredTxs" /\ stage' # "AssumedTxs" /\ stage' # "AnchoredTxs"
  BY DEF Late
<1>6. KindsHold' BY <1>1, <1>3, <1>4 DEF StageInv, KindsHold
<1>7. OrderHolds' BY <1>1, <1>3 DEF StageInv, OrderHolds, Elements
<1>8. \A x : Decided(x)' <=> Decided(x) BY <1>1, <1>2, <1>3 DEF Decided
<1>9. MinedDecided' BY <1>1, <1>4, <1>5, <1>8 DEF StageInv, MinedDecided
<1> QED BY <1>1, <1>2, <1>6, <1>7, <1>9

LEMMA StageUpdateChain ==
  ASSUME FullInv, UpdateChain
  PROVE  StageInv'
<1>1. /\ stage = "Finished" /\ stage' = stage /\ chain' \in setup.later /\ setup' = setup
      /\ tip' = tip /\ UNCHANGED queues /\ UNCHANGED result /\ UNCHANGED views
  BY DEF UpdateChain
<1>2. stage \in Late /\ stage' \in Late /\ StageInv BY <1>1 DEF Late, FullInv
<1>3. KindsHold' /\ MinedDecided' /\ OrderHolds' /\ mark' = None BY <1>1, <1>2, LateFacts
<1>4. StageHolds' BY <1>1, <1>2, <1>3 DEF StageInv, StageHolds, views
<1>5. ViewHolds' BY <1>1 DEF ViewHolds
<1> QED BY <1>3, <1>4, <1>5 DEF StageInv

LEMMA StageStartView ==
  ASSUME FullInv, StartView
  PROVE  StageInv'
<1> DEFINE ps == {i \in DOMAIN canonical_order : NeedsCheck(canonical_order[i])}
<1>1. /\ stage = "Finished" /\ stage' = "ResolvingPositions" /\ setup' = setup /\ chain' = chain
      /\ tip' = tip /\ UNCHANGED queues /\ UNCHANGED result
      /\ checks' = Subsequence(canonical_order, ps)
      /\ direct_anchors' = direct_anchors /\ view' = view
  BY DEF StartView
<1>2. stage \in Late /\ stage' \in Late /\ StageInv BY <1>1 DEF Late, FullInv
<1>3. /\ KindsHold' /\ MinedDecided' /\ OrderHolds' /\ mark' = None
      /\ graph' = graph /\ canonical' = canonical /\ canonical_order' = canonical_order
  BY <1>1, <1>2, LateFacts
<1>4. StageHolds' BY <1>1, <1>2, <1>3 DEF StageInv, StageHolds, Late
<1>5. direct_anchors = [t \in Txid |-> None] /\ view = << >> BY <1>1, <1>2 DEF StageInv, StageHolds
<1>6. canonical_order \in Seq(Txid) BY <1>2 DEF StageInv, OrderHolds
<1>7. PICK n \in Nat : DOMAIN canonical_order = 1 .. n BY <1>6
<1>8. ps \in SUBSET (1 .. n) /\ \A i \in ps : canonical_order[i] \in Txid BY <1>6, <1>7
<1>9. \A t \in Elements(canonical_order) : NeedsCheck(t) => \E i \in ps : t = canonical_order[i]
  BY DEF Elements
<1> HIDE DEF ps
<1>10. checks' \in Seq(Txid) BY <1>1, <1>8, SubsequenceType
<1>11. \A i \in ps : canonical_order[i] \in Elements(checks)'
  <2>1. \A i \in ps : \E k \in DOMAIN checks' : checks'[k] = canonical_order[i]
    BY <1>1, <1>8, SubsequenceHolds
  <2> QED BY <2>1 DEF Elements
<1>12. \A t : NeedsCheck(t)' <=> NeedsCheck(t) BY <1>3 DEF NeedsCheck
<1>13. Elements(canonical_order)' = Elements(canonical_order) BY <1>3 DEF Elements
<1>14. \A t \in Elements(canonical_order)' : NeedsCheck(t)' => t \in Elements(checks)'
  BY <1>9, <1>11, <1>12, <1>13
<1>15. view' = << >> /\ Len(view') = 0 /\ DOMAIN view' = {} BY <1>1, <1>5
<1>16. Len(canonical_order') >= 0 BY <1>3, <1>6
<1>17. ViewHolds' BY <1>1, <1>3, <1>5, <1>10, <1>14, <1>15, <1>16 DEF ViewHolds
<1> QED BY <1>3, <1>4, <1>17 DEF StageInv

LEMMA StageResolveCheck ==
  ASSUME FullInv, ResolveCheck
  PROVE  StageInv'
<1> DEFINE h == Head(checks)
<1>1. /\ stage = "ResolvingPositions" /\ stage' = stage /\ checks # << >> /\ setup' = setup
      /\ chain' = chain /\ tip' = tip /\ UNCHANGED queues /\ UNCHANGED result
      /\ checks' = Tail(checks) /\ view' = view
      /\ direct_anchors' = [direct_anchors EXCEPT ![h] = BestAnchor(h)]
  BY DEF ResolveCheck
<1>2. stage \in Late /\ stage' \in Late /\ StageInv BY <1>1 DEF Late, FullInv
<1>3. /\ KindsHold' /\ MinedDecided' /\ OrderHolds' /\ mark' = None
      /\ graph' = graph /\ canonical' = canonical /\ canonical_order' = canonical_order
  BY <1>1, <1>2, LateFacts
<1>4. StageHolds' BY <1>1, <1>2, <1>3 DEF StageInv, StageHolds
<1>5. /\ DOMAIN direct_anchors = Txid
      /\ \A t \in Txid : direct_anchors[t] \in {None, BestAnchor(t)}
      /\ checks \in Seq(Txid)
      /\ \A t \in Elements(canonical_order) :
           NeedsCheck(t) => t \in Elements(checks) \/ direct_anchors[t] = BestAnchor(t)
      /\ view = << >>
  BY <1>1, <1>2 DEF StageInv, ViewHolds
<1>6. /\ h \in Txid /\ Tail(checks) \in Seq(Txid)
      /\ \A x \in Elements(checks) : x = h \/ x \in Elements(Tail(checks))
  BY <1>1, <1>5, HeadAndTail
<1> HIDE DEF h
<1>7. \A t : BestAnchor(t)' = BestAnchor(t) BY <1>1, <1>3 DEF BestAnchor, IsBlockInChain
<1>8. \A t : NeedsCheck(t)' <=> NeedsCheck(t) BY <1>3 DEF NeedsCheck
<1>9. /\ Elements(canonical_order)' = Elements(canonical_order)
      /\ Elements(checks)' = Elements(Tail(checks))
  BY <1>1, <1>3 DEF Elements
<1>10. /\ DOMAIN direct_anchors' = Txid
       /\ direct_anchors'[h] = BestAnchor(h)
       /\ \A t \in Txid \ {h} : direct_anchors'[t] = direct_anchors[t]
  BY <1>1, <1>5, <1>6
<1>11. Elements(canonical_order) \subseteq Txid BY <1>2 DEF StageInv, OrderHolds, Elements
<1>12. \A t \in Elements(canonical_order)' :
         NeedsCheck(t)' => t \in Elements(checks)' \/ direct_anchors'[t] = BestAnchor(t)'
  BY <1>5, <1>6, <1>7, <1>8, <1>9, <1>10, <1>11
<1>13. view' = << >> /\ Len(view') = 0 /\ DOMAIN view' = {} BY <1>1, <1>5
<1>14. Len(canonical_order') >= 0 BY <1>2, <1>3 DEF StageInv, OrderHolds
<1>15. \A t \in Txid : direct_anchors'[t] \in {None, BestAnchor(t)'} BY <1>5, <1>7, <1>10
<1>16. ViewHolds' BY <1>1, <1>6, <1>10, <1>12, <1>13, <1>14, <1>15 DEF ViewHolds
<1> QED BY <1>3, <1>4, <1>16 DEF StageInv

LEMMA StageResolve ==
  ASSUME FullInv, Resolve
  PROVE  StageInv'
<1> DEFINE k == Len(view) + 1
           X == UNION {Positions(t) : t \in Elements(canonical_order)}
<1>1. /\ stage = "ResolvingPositions" /\ stage' = stage /\ checks = << >> /\ setup' = setup
      /\ chain' = chain /\ tip' = tip /\ UNCHANGED queues /\ UNCHANGED result
      /\ checks' = checks /\ direct_anchors' = direct_anchors
      /\ Len(view) < Len(canonical_order)
      /\ \E pos \in Positions(canonical_order[k]) : view' = Append(view, pos)
  BY DEF Resolve
<1>2. stage \in Late /\ stage' \in Late /\ StageInv BY <1>1 DEF Late, FullInv
<1>3. /\ KindsHold' /\ MinedDecided' /\ OrderHolds' /\ mark' = None
      /\ graph' = graph /\ canonical' = canonical /\ canonical_order' = canonical_order
  BY <1>1, <1>2, LateFacts
<1>4. StageHolds' BY <1>1, <1>2, <1>3 DEF StageInv, StageHolds
<1>5. /\ view \in Seq(X) /\ Len(view) <= Len(canonical_order)
      /\ \A i \in DOMAIN view : view[i] \in Positions(canonical_order[i])
  BY <1>1, <1>2 DEF StageInv, ViewHolds
<1>6. PICK pos \in Positions(canonical_order[k]) : view' = Append(view, pos) BY <1>1
<1>7. canonical_order \in Seq(Txid) BY <1>2 DEF StageInv, OrderHolds
<1>8. k \in DOMAIN canonical_order BY <1>1, <1>5, <1>7
<1>9. canonical_order[k] \in Elements(canonical_order) BY <1>8 DEF Elements
<1>10. pos \in X BY <1>9
<1>11. \A t : Positions(t)' = Positions(t) BY <1>1, <1>3 DEF Positions, AnchoredDescendants
<1>12. \A t : BestAnchor(t)' = BestAnchor(t) BY <1>1, <1>3 DEF BestAnchor, IsBlockInChain
<1>13. \A t : NeedsCheck(t)' <=> NeedsCheck(t) BY <1>3 DEF NeedsCheck
<1>14. Elements(canonical_order)' = Elements(canonical_order) /\ Elements(checks)' = Elements(checks)
  BY <1>1, <1>3 DEF Elements
<1>15. X' = X BY <1>11, <1>14
<1> HIDE DEF X
<1>16. /\ view' \in Seq(X) /\ Len(view') = k /\ DOMAIN view' = 1 .. k /\ view'[k] = pos
       /\ DOMAIN view = 1 .. k - 1 /\ k \in Nat \ {0}
       /\ \A i \in 1 .. k - 1 : view'[i] = view[i]
  BY <1>5, <1>6, <1>10
<1> HIDE DEF k
<1>17. \A i \in DOMAIN view' : view'[i] \in Positions(canonical_order[i])
  <2>1. \A i \in 1 .. k : i \in 1 .. k - 1 \/ i = k BY <1>16
  <2> QED BY <1>5, <1>6, <1>16, <2>1
<1>18. Len(view') <= Len(canonical_order) BY <1>1, <1>5, <1>7, <1>16 DEF k
<1>19. view' \in Seq(UNION {Positions(t) : t \in Elements(canonical_order)})'
  BY <1>15, <1>16 DEF X
<1>20. ViewHolds'
  BY <1>1, <1>2, <1>3, <1>11, <1>12, <1>13, <1>14, <1>17, <1>18, <1>19 DEF StageInv, ViewHolds
<1> QED BY <1>3, <1>4, <1>20 DEF StageInv

LEMMA StageStays ==
  ASSUME FullInv, UNCHANGED vars
  PROVE  StageInv'
<1>1. /\ setup' = setup /\ chain' = chain /\ tip' = tip /\ stage' = stage /\ anchored' = anchored
      /\ UNCHANGED result /\ UNCHANGED views
  BY DEF vars, queues
<1>2. /\ StageHolds' /\ KindsHold' /\ OrderHolds' /\ ViewHolds'
      /\ graph' = graph /\ mark' = mark /\ \A x : Decided(x)' <=> Decided(x)
  BY <1>1, StageSkips DEF FullInv
<1>3. \A x : Queued(x)' <=> Queued(x) BY <1>1 DEF Queued
<1>4. MinedDecided' BY <1>1, <1>2, <1>3 DEF FullInv, StageInv, MinedDecided
<1> QED BY <1>2, <1>4 DEF StageInv

LEMMA InitFullInv ==
  ASSUME Init
  PROVE  FullInv
<1>1. /\ setup \in Setups /\ canonical = [t \in Txid |-> None] /\ not_canonical = {}
      /\ mark = None /\ canonical_order = << >> /\ stage = "AssumedTxs"
      /\ chain = setup.chain /\ tip = Tip(setup.chain)
      /\ view = << >> /\ checks = << >> /\ direct_anchors = [t \in Txid |-> None]
      /\ anchored = {p \in graph.by_conf_height : p[2] \in Whole(graph)}
  BY DEF Init
<1>2. Chosen = {} BY <1>1 DEF Chosen
<1>3. Settled = {} BY <1>2 DEF Settled
<1>4. TraceInv BY <1>1, <1>2, <1>3 DEF TraceInv, ReasonsHold, OutIsClosed, CallHolds
<1>5. StageHolds BY <1>1 DEF StageHolds, Early, Late
<1>6. KindsHold BY <1>1, <1>2, <1>3 DEF KindsHold
<1>7. OrderHolds BY <1>1 DEF OrderHolds, Elements
<1>8. ViewHolds BY <1>1 DEF ViewHolds
<1>9. ASSUME NEW t \in MinedIn(graph, setup.chain) PROVE Queued(t)
  <2>1. t \in Whole(graph) /\ graph.anchors[t] # {} BY DEF MinedIn
  <2>2. PICK p \in graph.by_conf_height : p[2] = t BY <1>1, <2>1, SetupAssumption DEF IsGraph, graph
  <2> QED BY <1>1, <2>1, <2>2 DEF Queued
<1>10. MinedDecided BY <1>1, <1>9 DEF MinedDecided, Early
<1> QED BY <1>4, <1>5, <1>6, <1>7, <1>8, <1>10, InitMarkInv DEF FullInv, StageInv

LEMMA NextFullInv ==
  ASSUME FullInv, [Next]_vars
  PROVE  FullInv'
<1>1. MarkInv' BY NextMarkInv DEF FullInv
<1>2. ASSUME setup' = setup, UNCHANGED result PROVE TraceInv' BY <1>2, TraceStays DEF FullInv
<1>3. TraceInv' /\ StageInv'
  <2>1. CASE NextAssumed BY <2>1, StageAssumed
  <2>2. CASE NextAnchored BY <2>2, StageAnchored
  <2>3. CASE NextSeen BY <2>3, StageSeen
  <2>4. CASE NextLeftOver BY <2>4, StageLeftOver
  <2>5. CASE Advance BY <1>2, <2>5, StageAdvance DEF Advance
  <2>6. CASE VisitKnown
    BY <2>6, TraceKnown, StageWalk DEF FullInv, MarkInv, WalkStep
  <2>7. CASE VisitNew
    BY <2>7, TraceClash, TraceAccept, StageWalk DEF FullInv, MarkInv, WalkStep
  <2>8. CASE Commit
    BY <2>8, TraceCommit, StageWalk DEF FullInv, MarkInv, WalkStep
  <2>9. CASE Undo
    BY <2>9, TraceUndo, StageWalk DEF FullInv, MarkInv, WalkStep
  <2>10. CASE UpdateChain BY <1>2, <2>10, StageUpdateChain DEF UpdateChain
  <2>11. CASE StartView BY <1>2, <2>11, StageStartView DEF StartView
  <2>12. CASE ResolveCheck BY <1>2, <2>12, StageResolveCheck DEF ResolveCheck
  <2>13. CASE Resolve BY <1>2, <2>13, StageResolve DEF Resolve
  <2>14. CASE Done
    <3>1. UNCHANGED vars BY <2>14 DEF Done
    <3>2. setup' = setup /\ UNCHANGED result BY <3>1 DEF vars
    <3> QED BY <1>2, <3>1, <3>2, StageStays
  <2>15. CASE UNCHANGED vars BY <1>2, <2>15, StageStays DEF vars
  <2> QED
    BY <2>1, <2>2, <2>3, <2>4, <2>5, <2>6, <2>7, <2>8, <2>9, <2>10, <2>11, <2>12, <2>13, <2>14,
       <2>15 DEF Next
<1> QED BY <1>1, <1>3 DEF FullInv

(* The invariant of both tasks: every reason is supported, the transactions  *)
(* of the chain are decided by the time their stage is over, and the view    *)
(* holds what the chain's answers make of the reasons.                       *)
THEOREM AlwaysFullInv == Spec => []FullInv
<1>1. Init => FullInv BY InitFullInv
<1>2. FullInv /\ [Next]_vars => FullInv' BY NextFullInv
<1> QED BY <1>1, <1>2, PTL DEF Spec

(* What mark_canonical has settled is not changed again: a transaction stays *)
(* canonical for the same reason, and one that is out stays out.             *)
THEOREM SettledForGood ==
  Spec => [][/\ \A t \in Settled : t \in Settled' /\ canonical'[t] = canonical[t]
             /\ not_canonical \ Undoing \subseteq not_canonical' \ Undoing']_vars
<1> DEFINE A == /\ \A t \in Settled : t \in Settled' /\ canonical'[t] = canonical[t]
                /\ not_canonical \ Undoing \subseteq not_canonical' \ Undoing'
<1>1. ASSUME MarkInv, [Next]_vars PROVE [A]_vars
  <2>1. CASE WalkStep BY <1>1, <2>1, SettledStays DEF MarkInv
  <2>2. ASSUME UNCHANGED result PROVE A
    <3>1. canonical' = canonical /\ not_canonical' = not_canonical /\ mark' = mark BY <2>2 DEF result
    <3> QED BY <3>1 DEF Settled, Chosen, Unsettled, Undoing, Staged
  <2>3. ASSUME mark = None, NEW t \in Whole(graph), NEW reason \in Reason, setup' = setup,
               MarkUnlessCanonicalized(t, reason)
        PROVE  A
    <3>1. /\ canonical' = canonical /\ not_canonical' = not_canonical
          /\ Settled' = Chosen /\ Settled = Chosen /\ Undoing' = {} /\ Undoing = {}
      BY <1>1, <2>3, BeginFacts DEF MarkInv
    <3> QED BY <3>1
  <2>4. CASE NextAssumed
    <3>1. /\ mark = None /\ assumed # << >> /\ setup' = setup
          /\ MarkUnlessCanonicalized(assumed[Len(assumed)], NewReason("Assumed", None))
      BY <2>4 DEF NextAssumed
    <3>2. assumed \in Seq(Whole(graph)) BY <1>1 DEF MarkInv, QueuesHold
    <3>3. assumed[Len(assumed)] \in Whole(graph)
      <4>1. Len(assumed) \in DOMAIN assumed BY <3>1, <3>2
      <4> QED BY <3>2, <4>1
    <3>4. NewReason("Assumed", None) \in Reason BY DEF NewReason, Reason
    <3> HIDE DEF A
    <3> QED BY <2>3, <3>1, <3>3, <3>4
  <2>5. CASE NextAnchored
    <3> DEFINE front == Front(anchored)
               best == BestAnchor(front[2])
    <3>1. /\ mark = None /\ anchored # {} /\ setup' = setup
          /\ \/ UNCHANGED result
             \/ best # None /\ MarkUnlessCanonicalized(front[2], NewReason("Anchor", best))
      BY <2>5 DEF NextAnchored
    <3>2. front \in Nat \X Whole(graph) /\ setup \in Setups
      BY <1>1, <3>1, QueueFront DEF MarkInv, WalkInv, TypesHold
    <3>3. front[2] \in Whole(graph) /\ front[2] \in Txid BY <3>2, WholeIsTxid
    <3>4. best # None => best \in Block BY <3>2, <3>3, BestAnchorFacts
    <3>5. best # None => NewReason("Anchor", best) \in Reason BY <3>4 DEF NewReason, Reason
    <3> HIDE DEF A, best, front
    <3> QED BY <2>2, <2>3, <3>1, <3>3, <3>5
  <2>6. CASE NextSeen
    <3> DEFINE front == Front(seen)
    <3>1. /\ mark = None /\ seen # {} /\ setup' = setup
          /\ MarkUnlessCanonicalized(front[2], NewReason("Mempool", front[1]))
      BY <2>6 DEF NextSeen
    <3>2. front \in Nat \X Whole(graph) BY <1>1, <3>1, QueueFront DEF MarkInv
    <3>3. front[2] \in Whole(graph) /\ front[1] \in Nat BY <3>2
    <3>4. NewReason("Mempool", front[1]) \in Reason BY <3>3 DEF NewReason, Reason
    <3> HIDE DEF A, front
    <3> QED BY <2>3, <3>1, <3>3, <3>4
  <2>7. CASE NextLeftOver
    <3> DEFINE front == Front(leftover)
    <3>1. /\ mark = None /\ leftover # {} /\ setup' = setup
          /\ UNCHANGED result \/ MarkUnlessCanonicalized(front[2], NewReason("Block", front[1]))
      BY <2>7 DEF NextLeftOver
    <3>2. front \in Nat \X Whole(graph) BY <1>1, <3>1, QueueFront DEF MarkInv
    <3>3. front[2] \in Whole(graph) /\ front[1] \in Nat BY <3>2
    <3>4. NewReason("Block", front[1]) \in Reason BY <3>3 DEF NewReason, Reason
    <3> HIDE DEF A, front
    <3> QED BY <2>2, <2>3, <3>1, <3>3, <3>4
  <2>8. CASE Advance \/ UpdateChain \/ StartView \/ ResolveCheck \/ Resolve \/ Done \/ UNCHANGED vars
    <3>1. UNCHANGED result
      BY <2>8 DEF Advance, UpdateChain, StartView, ResolveCheck, Resolve, Done, vars
    <3> HIDE DEF A
    <3> QED BY <2>2, <3>1
  <2> HIDE DEF A
  <2> QED BY <1>1, <2>1, <2>4, <2>5, <2>6, <2>7, <2>8 DEF Next, WalkStep, A
<1> QED BY <1>1, AlwaysMarkInv, PTL DEF Spec

-----------------------------------------------------------------------------
(* What the positions say. *)

LEMMA ReasonKinds ==
  ASSUME NEW r \in Reason
  PROVE  /\ r.kind \in {"Assumed", "Anchor", "Mempool", "Block"}
         /\ r.kind = "Anchor" => r.at \in Block
         /\ r.descendant \in Txid \cup {None}
BY DEF Reason

LEMMA ListedFacts ==
  ASSUME FullInv, stage = "ResolvingPositions", NEW t \in Elements(canonical_order)
  PROVE  /\ t \in Chosen /\ t \in Settled /\ t \in Whole(graph) /\ t \in Txid
         /\ canonical[t] \in Reason /\ setup \in Setups /\ tip = Tip(setup.chain)
         /\ mark = None /\ Settled = Chosen /\ Undoing = {}
<1>1. mark = None BY DEF FullInv, StageInv, StageHolds, Late
<1>2. Settled = Chosen /\ Undoing = {} BY <1>1 DEF Settled, Unsettled, Undoing
<1>3. t \in Settled BY DEF FullInv, StageInv, OrderHolds
<1>4. t \in Whole(graph) /\ t \in Txid
  BY <1>2, <1>3 DEF FullInv, MarkInv, WalkInv, ConflictsAreOut, Chosen
<1>5. setup \in Setups /\ canonical \in [Txid -> Reason \cup {None}]
  BY DEF FullInv, MarkInv, WalkInv, TypesHold
<1>6. canonical[t] # None BY <1>2, <1>3 DEF Chosen
<1>7. tip = Tip(setup.chain) BY DEF FullInv, StageInv, StageHolds
<1> QED BY <1>1, <1>2, <1>3, <1>4, <1>5, <1>6, <1>7

LEMMA DirectAnchorFacts ==
  ASSUME FullInv, stage = "ResolvingPositions", NEW d \in Txid, direct_anchors[d] # None
  PROVE  /\ direct_anchors[d] \in graph.anchors[d] /\ direct_anchors[d] \in Block
         /\ IsBlockInChain(direct_anchors[d]) /\ Height(direct_anchors[d]) <= Height(tip)
<1>1. direct_anchors[d] = BestAnchor(d) BY DEF FullInv, StageInv, ViewHolds
<1>2. setup \in Setups BY DEF FullInv, MarkInv, WalkInv, TypesHold
<1> QED BY <1>1, <1>2, BestAnchorFacts DEF IsBlockInChain

(* The anchor of a strong reason is in the chain as long as the tip is. *)
LEMMA ReasonAnchorFacts ==
  ASSUME FullInv, stage = "ResolvingPositions", NEW t \in Elements(canonical_order),
         canonical[t].kind = "Anchor"
  PROVE  LET r == canonical[t]
             by == IF r.descendant = None THEN t ELSE r.descendant
         IN /\ r.at \in graph.anchors[by] /\ r.at \in Block /\ Height(r.at) <= Height(tip)
            /\ tip \in chain => IsBlockInChain(r.at)
            /\ by \in Chosen /\ by \in Below(t)
<1> DEFINE r == canonical[t]
           by == IF r.descendant = None THEN t ELSE r.descendant
<1>1. /\ t \in Chosen /\ setup \in Setups /\ tip = Tip(setup.chain) /\ Settled = Chosen
  BY ListedFacts
<1>2. Supports(t, r) /\ r.descendant \in Chosen \cup {None}
  BY <1>1 DEF FullInv, TraceInv, ReasonsHold
<1>3. by \in Below(t) /\ r.at \in graph.anchors[by] /\ r.at \in setup.chain BY <1>2 DEF Supports
<1>4. by \in Chosen BY <1>1, <1>2
<1>5. r.at \in Block /\ Height(r.at) <= Height(tip) BY <1>1, <1>3, TipFacts
<1>6. tip \in chain => setup.chain \subseteq chain
  BY <1>1, SetupAssumption DEF FullInv, StageInv, StageHolds
<1> HIDE DEF r, by
<1>7. tip \in chain => IsBlockInChain(r.at) BY <1>3, <1>5, <1>6 DEF IsBlockInChain
<1> QED BY <1>3, <1>4, <1>5, <1>7 DEF r, by

(* The canonical descendants that CanonicalViewTask searches. *)
LEMMA AnchoredDescendantFacts ==
  ASSUME NEW t, NEW d \in AnchoredDescendants(t)
  PROVE  /\ d \in Chosen /\ d \in Txid /\ direct_anchors[d] # None
         /\ d \in Descendants(graph, Children(graph, t), {})
<1> DEFINE skip == {x \in Txid : canonical[x] = None}
           D == Descendants(graph, Children(graph, t), {})
           E == Descendants(graph, Children(graph, t), skip)
<1>1. d \in E /\ direct_anchors[d] # None BY DEF AnchoredDescendants
<1>2. E \subseteq Whole(graph) \ skip BY DescendantFacts
<1>3. d \in Txid /\ d \in Chosen BY <1>1, <1>2, WholeIsTxid DEF Chosen
<1>4. /\ D \subseteq Whole(graph) /\ Children(graph, t) \cap Whole(graph) \subseteq D
      /\ \A x \in D : Children(graph, x) \cap Whole(graph) \subseteq D
  <2>1. Whole(graph) \ {} = Whole(graph) OBVIOUS
  <2> QED BY <2>1, DescendantFacts
<1> DEFINE S == D \cap (Whole(graph) \ skip)
<1> HIDE DEF D, skip
<1>5. /\ S \in SUBSET (Whole(graph) \ skip)
      /\ Children(graph, t) \cap (Whole(graph) \ skip) \subseteq S
      /\ \A x \in S : Children(graph, x) \cap (Whole(graph) \ skip) \subseteq S
  BY <1>4
<1> HIDE DEF S
<1>6. E \subseteq S BY <1>5, DescendantFacts
<1> QED BY <1>1, <1>3, <1>6 DEF S, D

(* What a position claims of the transaction, if it is confirmed and if not. *)
Backed(t, pos) ==
  LET by == IF pos.transitively = None THEN t ELSE pos.transitively
  IN /\ pos.anchor \in graph.anchors[by] /\ pos.anchor \in Block
     /\ Height(pos.anchor) <= Height(tip)
     /\ tip \in chain => IsBlockInChain(pos.anchor)
     /\ by # t => by \in Chosen \cap Descendants(graph, Children(graph, t), {})

Unbacked(t) ==
  \/ canonical[t].kind = "Assumed" /\ direct_anchors[t] = None
  \/ canonical[t].kind \in {"Mempool", "Block"}

LEMMA PositionFacts ==
  ASSUME FullInv, stage = "ResolvingPositions", NEW t \in Elements(canonical_order),
         NEW pos \in Positions(t)
  PROVE  /\ pos.confirmed \in BOOLEAN
         /\ pos.confirmed => Backed(t, pos)
         /\ ~pos.confirmed => Unbacked(t)
<1> DEFINE r == canonical[t]
           own == direct_anchors[t]
<1>1. /\ t \in Chosen /\ t \in Whole(graph) /\ t \in Txid /\ r \in Reason BY ListedFacts
<1>2. /\ r.kind \in {"Assumed", "Anchor", "Mempool", "Block"} /\ r.descendant \in Txid \cup {None}
  BY <1>1, ReasonKinds
<1>3. own # None => Backed(t, Confirmed(own, None))
  BY <1>1, DirectAnchorFacts DEF Backed, Confirmed
<1>4. CASE r.kind = "Assumed"
  <2>1. CASE own # None
    <3>1. pos = Confirmed(own, None) BY <1>4, <2>1 DEF Positions
    <3> QED BY <1>3, <2>1, <3>1 DEF Confirmed
  <2>2. CASE own = None /\ AnchoredDescendants(t) # {}
    <3>1. PICK d \in AnchoredDescendants(t) : pos = Confirmed(direct_anchors[d], d)
      BY <1>4, <2>2 DEF Positions
    <3>2. /\ d \in Chosen /\ d \in Txid /\ direct_anchors[d] # None
          /\ d \in Descendants(graph, Children(graph, t), {})
      BY AnchoredDescendantFacts
    <3>3. /\ direct_anchors[d] \in graph.anchors[d] /\ direct_anchors[d] \in Block
          /\ IsBlockInChain(direct_anchors[d]) /\ Height(direct_anchors[d]) <= Height(tip)
      BY <3>2, DirectAnchorFacts
    <3>4. d # None BY <3>2, NoneAssumption
    <3>5. pos.confirmed = TRUE /\ pos.anchor = direct_anchors[d] /\ pos.transitively = d
      BY <3>1 DEF Confirmed
    <3>6. Backed(t, pos) BY <3>2, <3>3, <3>4, <3>5 DEF Backed
    <3> QED BY <3>5, <3>6
  <2>3. CASE own = None /\ AnchoredDescendants(t) = {}
    <3>1. pos = Unconfirmed(graph.first_seen[t], graph.last_seen[t])
      BY <1>4, <2>3 DEF Positions
    <3>2. pos.confirmed = FALSE BY <3>1 DEF Unconfirmed
    <3> QED BY <1>4, <2>3, <3>2 DEF Unbacked
  <2> QED BY <2>1, <2>2, <2>3
<1>5. CASE r.kind = "Anchor"
  <2>1. CASE r.descendant # None /\ own # None
    <3>1. pos = Confirmed(own, None) BY <1>5, <2>1 DEF Positions
    <3> QED BY <1>3, <2>1, <3>1 DEF Confirmed
  <2>2. CASE ~(r.descendant # None /\ own # None)
    <3>1. pos = Confirmed(r.at, r.descendant) BY <1>5, <2>2 DEF Positions
    <3>2. pos.confirmed = TRUE /\ pos.anchor = r.at /\ pos.transitively = r.descendant
      BY <3>1 DEF Confirmed
    <3> DEFINE by == IF r.descendant = None THEN t ELSE r.descendant
    <3>3. /\ r.at \in graph.anchors[by] /\ r.at \in Block /\ Height(r.at) <= Height(tip)
          /\ tip \in chain => IsBlockInChain(r.at)
          /\ by \in Chosen /\ by \in Below(t)
      BY <1>5, ReasonAnchorFacts
    <3>4. by # t => by \in Descendants(graph, Children(graph, t), {})
      BY <1>1, <3>3, BelowChildren
    <3> HIDE DEF r
    <3>5. Backed(t, pos) BY <3>2, <3>3, <3>4 DEF Backed
    <3> QED BY <3>2, <3>5
  <2> QED BY <2>1, <2>2
<1>6. CASE r.kind = "Mempool"
  <2>1. pos = Unconfirmed(graph.first_seen[t], r.at) BY <1>6 DEF Positions
  <2> QED BY <1>6, <2>1 DEF Unconfirmed, Unbacked
<1>7. CASE r.kind = "Block"
  <2>1. pos = Unconfirmed(graph.first_seen[t], None) BY <1>7 DEF Positions
  <2> QED BY <1>7, <2>1 DEF Unconfirmed, Unbacked
<1> QED BY <1>2, <1>4, <1>5, <1>6, <1>7

(* A strong reason is given to all ancestors. *)
LEMMA StrongAbove ==
  ASSUME FullInv, mark = None, NEW t \in Whole(graph), ~Strong(canonical[t]),
         NEW d \in Descendants(graph, Children(graph, t), {}), d \in Chosen
  PROVE  ~Strong(canonical[d])
<1> DEFINE S == {x \in Whole(graph) : x \in Chosen => ~Strong(canonical[x])}
           D == Descendants(graph, Children(graph, t), {})
<1>1. Settled = Chosen BY DEF Settled, Unsettled
<1>2. \A x \in Chosen : Parents(graph, x) \subseteq Chosen
  BY <1>1 DEF FullInv, MarkInv, WalkInv, ParentsAreIn
<1>3. \A x \in Chosen : Strong(canonical[x]) => \A p \in Parents(graph, x) : Strong(canonical[p])
  BY <1>1 DEF FullInv, StageInv, KindsHold
<1>4. \A x \in Whole(graph) : \A z \in Children(graph, x) : z \in Whole(graph) /\ x \in Parents(graph, z)
  BY DEF Children, Parents
<1>5. \A z \in Children(graph, t) : z \in S BY <1>3, <1>4
<1>6. \A x \in S : \A z \in Children(graph, x) : z \in S BY <1>2, <1>3, <1>4
<1>7. S \in SUBSET (Whole(graph) \ {}) OBVIOUS
<1> HIDE DEF S
<1>8. D \subseteq S BY <1>5, <1>6, <1>7, DescendantFacts
<1> QED BY <1>8 DEF S

(* Whatever the chain anchors is canonical for a strong reason, or out. *)
LEMMA WeakIsUnanchored ==
  ASSUME FullInv, stage = "ResolvingPositions", chain = setup.chain, NEW t \in Chosen,
         ~Strong(canonical[t])
  PROVE  BestAnchor(t) = None
<1>1. mark = None BY DEF FullInv, StageInv, StageHolds, Late
<1>2. Settled = Chosen /\ Undoing = {} BY <1>1 DEF Settled, Unsettled, Undoing
<1>3. t \in Whole(graph) /\ t \in Txid /\ setup \in Setups
  BY DEF FullInv, MarkInv, WalkInv, TypesHold, ConflictsAreOut, Chosen
<1>4. t \notin not_canonical BY <1>2 DEF FullInv, MarkInv, WalkInv, ConflictsAreOut
<1>5. ~Decided(t) BY <1>4 DEF Decided
<1>6. t \notin MinedIn(graph, setup.chain) BY <1>5 DEF FullInv, StageInv, MinedDecided, Early
<1>7. BestAnchor(t) # None => BestAnchor(t) \in graph.anchors[t] \cap setup.chain
  BY <1>3, BestAnchorFacts DEF IsBlockInChain
<1> QED BY <1>3, <1>6, <1>7 DEF MinedIn

LEMMA ViewEntry ==
  ASSUME FullInv, NEW i \in DOMAIN view
  PROVE  /\ stage = "ResolvingPositions" /\ checks = << >>
         /\ i \in DOMAIN canonical_order /\ canonical_order[i] \in Elements(canonical_order)
         /\ view[i] \in Positions(canonical_order[i])
<1>1. stage = "ResolvingPositions"
  <2>1. view = << >> => DOMAIN view = {} OBVIOUS
  <2> QED BY <2>1 DEF FullInv, StageInv, StageHolds
<1>2. /\ view \in Seq(UNION {Positions(t) : t \in Elements(canonical_order)})
      /\ Len(view) <= Len(canonical_order) /\ (checks # << >> => view = << >>)
      /\ view[i] \in Positions(canonical_order[i])
  BY <1>1 DEF FullInv, StageInv, ViewHolds
<1>3. canonical_order \in Seq(Txid) BY DEF FullInv, StageInv, OrderHolds
<1>4. i \in DOMAIN canonical_order BY <1>2, <1>3
<1>5. view # << >> BY <1>2
<1> QED BY <1>1, <1>2, <1>4, <1>5 DEF Elements

LEMMA UncheckedIsUnanchored ==
  ASSUME FullInv, stage = "ResolvingPositions", checks = << >>, NEW t \in Elements(canonical_order),
         canonical[t].kind = "Assumed", direct_anchors[t] = None
  PROVE  BestAnchor(t) = None
<1>1. CASE NeedsCheck(t)
  <2>1. Elements(checks) = {} BY DEF Elements
  <2> QED BY <1>1, <2>1 DEF FullInv, StageInv, ViewHolds
<1>2. CASE ~NeedsCheck(t)
  <2>1. graph.anchors[t] = {} BY <1>2 DEF NeedsCheck
  <2> QED BY <2>1 DEF BestAnchor
<1> QED BY <1>1, <1>2

(* Whatever the graph and the chain are, a confirmed position of the view    *)
(* names a block of the chain that anchors the transaction or the canonical  *)
(* descendant it names, and an unconfirmed one belongs to a transaction that *)
(* the chain does not anchor.                                                *)
THEOREM AlwaysPositionsAreBacked == Spec => []PositionsAreBacked
<1>1. FullInv => ConfirmedIsBacked
  <2> SUFFICES ASSUME FullInv, tip \in chain, NEW i \in DOMAIN view, view[i].confirmed
               PROVE  LET t == canonical_order[i]
                          by == IF view[i].transitively = None THEN t ELSE view[i].transitively
                      IN /\ view[i].anchor \in graph.anchors[by] /\ IsBlockInChain(view[i].anchor)
                         /\ by # t => by \in Chosen \cap Descendants(graph, Children(graph, t), {})
    BY DEF ConfirmedIsBacked
  <2> DEFINE t == canonical_order[i]
  <2>1. /\ stage = "ResolvingPositions" /\ t \in Elements(canonical_order) /\ view[i] \in Positions(t)
    BY ViewEntry
  <2>2. Backed(t, view[i]) BY <2>1, PositionFacts
  <2> QED BY <2>2 DEF Backed
<1>2. FullInv => UnconfirmedIsUnanchored
  <2> SUFFICES ASSUME FullInv, chain = setup.chain, NEW i \in DOMAIN view, ~view[i].confirmed
               PROVE  LET t == canonical_order[i]
                      IN /\ BestAnchor(t) = None
                         /\ canonical[t].kind # "Assumed" =>
                              \A d \in Chosen \cap Descendants(graph, Children(graph, t), {}) :
                                BestAnchor(d) = None
    BY DEF UnconfirmedIsUnanchored
  <2> DEFINE t == canonical_order[i]
  <2>1. /\ stage = "ResolvingPositions" /\ checks = << >>
        /\ t \in Elements(canonical_order) /\ view[i] \in Positions(t)
    BY ViewEntry
  <2>2. Unbacked(t) BY <2>1, PositionFacts
  <2>3. t \in Chosen /\ t \in Whole(graph) /\ mark = None BY <2>1, ListedFacts
  <2> HIDE DEF t
  <2>4. CASE canonical[t].kind = "Assumed" /\ direct_anchors[t] = None
    <3>1. BestAnchor(t) = None BY <2>1, <2>4, UncheckedIsUnanchored
    <3> QED BY <2>4, <3>1 DEF t
  <2>5. CASE canonical[t].kind \in {"Mempool", "Block"}
    <3>1. ~Strong(canonical[t]) BY <2>5 DEF Strong
    <3>2. BestAnchor(t) = None BY <2>1, <2>3, <3>1, WeakIsUnanchored
    <3>3. ASSUME NEW d \in Chosen, d \in Descendants(graph, Children(graph, t), {})
          PROVE  BestAnchor(d) = None
      <4>1. ~Strong(canonical[d]) BY <2>3, <3>1, <3>3, StrongAbove
      <4> QED BY <2>1, <4>1, WeakIsUnanchored
    <3> QED BY <3>2, <3>3 DEF t
  <2> QED BY <2>2, <2>4, <2>5 DEF Unbacked
<1>3. FullInv => PositionsAreBacked BY <1>1, <1>2 DEF PositionsAreBacked
<1> QED BY <1>3, AlwaysFullInv, PTL

(* Whatever the graph, the chain and the assumed transactions are, every     *)
(* unspent output counts in exactly one class of the balance, and as many    *)
(* confirmations as were asked for, or as a coinbase needs, are there.       *)
THEOREM AlwaysBalanceAddsUp == Spec => []BalanceAddsUp
<1>1. FullInv => BalanceAddsUp
  <2> SUFFICES ASSUME FullInv, Finished, NEW op \in FilterUnspent,
                      NEW trusted \in {{}, FilterUnspent}
               PROVE  LET Class(m) == BalanceClass(op, trusted, m)
                          depths == 0 .. Height(tip) + 2
                      IN \A m \in depths :
                           /\ Class(m) # "none"
                           /\ \A n \in depths :
                                m <= n => (Class(n) \in {"confirmed", "immature"} => Class(m) = Class(n))
                           /\ Class(m) = "confirmed" =>
                                /\ Height(Position(op[1]).anchor) + m <= Height(tip) + 1
                                /\ IsCoinbase(graph.txs[op[1]]) =>
                                     Height(Position(op[1]).anchor) + COINBASE_MATURITY <= Height(tip) + 1
    BY DEF BalanceAddsUp
  <2> DEFINE t == op[1]
             pos == Position(t)
             H == Height(tip)
             a == Height(pos.anchor)
             mature == IsCoinbase(graph.txs[t]) => pos.confirmed /\ H - a + 1 >= COINBASE_MATURITY
             pending == IF op \in trusted THEN "trusted_pending" ELSE "untrusted_pending"
             Class(m) == BalanceClass(op, trusted, m)
  <2>1. stage = "ResolvingPositions" /\ Len(view) = Len(canonical_order) BY DEF Finished
  <2>2. t \in Elements(canonical_order) /\ SpentBy(op) = {}
    BY DEF FilterUnspent, TxOuts, Listed, Elements
  <2>3. /\ canonical_order \in Seq(Txid)
        /\ view \in Seq(UNION {Positions(x) : x \in Elements(canonical_order)})
    BY <2>1 DEF FullInv, StageInv, OrderHolds, ViewHolds
  <2>4. DOMAIN view = DOMAIN canonical_order BY <2>1, <2>3
  <2>5. PICK i \in DOMAIN canonical_order : canonical_order[i] = t /\ pos = view[i]
    BY <2>2 DEF Elements, Position
  <2>6. pos \in Positions(t) BY <2>4, <2>5, ViewEntry
  <2>7. pos.confirmed \in BOOLEAN /\ (pos.confirmed => Backed(t, pos))
    BY <2>1, <2>2, <2>6, PositionFacts
  <2>8. pos.confirmed => pos.anchor \in Block /\ a <= H BY <2>7 DEF Backed
  <2>9. H \in Nat BY <2>1, <2>2, ListedFacts, TipFacts
  <2>10. pos.confirmed => a \in Nat BY <2>8, GraphAssumption DEF Height
  <2>11. pos.confirmed => Minus(H, a) = H - a BY <2>8, <2>9, <2>10 DEF Minus
  <2>12. IsMature(op, H) <=> mature BY <2>11 DEF IsMature
  <2>13. IsConfirmedAndSpendable(op, H) <=> mature /\ pos.confirmed
    BY <2>2, <2>8, <2>12 DEF IsConfirmedAndSpendable
  <2>14. ASSUME NEW m \in Nat
         PROVE  Class(m) = IF pos.confirmed /\ H - a + 1 >= m /\ H - a + 1 >= 1
                           THEN IF mature THEN "confirmed" ELSE "immature"
                           ELSE pending
    <3> DEFINE needed == IF m < 1 THEN 1 ELSE m
    <3>1. Class(m) = IF ~pos.confirmed THEN pending
                     ELSE IF Minus(H, a) + 1 < needed THEN pending
                     ELSE IF IsConfirmedAndSpendable(op, H) THEN "confirmed"
                     ELSE IF ~IsMature(op, H) THEN "immature" ELSE "none"
      BY DEF BalanceClass
    <3> HIDE DEF pos, H, mature, pending, Class
    <3>2. CASE ~pos.confirmed BY <3>1, <3>2
    <3>3. CASE pos.confirmed
      <4>1. a \in Nat /\ a <= H /\ Minus(H, a) = H - a BY <2>8, <2>10, <2>11, <3>3
      <4> HIDE DEF a
      <4>2. Minus(H, a) + 1 < needed <=> ~(H - a + 1 >= m /\ H - a + 1 >= 1)
        BY <2>9, <4>1
      <4>3. /\ IsConfirmedAndSpendable(op, H) <=> mature
            /\ IsMature(op, H) <=> mature
        BY <2>12, <2>13, <3>3
      <4> HIDE DEF needed
      <4> QED BY <3>1, <3>3, <4>2, <4>3
    <3> QED BY <3>2, <3>3
  <2>15. pending # "none" /\ pending # "confirmed" /\ pending # "immature" OBVIOUS
  <2>16. COINBASE_MATURITY \in Nat BY MaturityAssumption
  <2>17. mature /\ pos.confirmed => (IsCoinbase(graph.txs[t]) => H - a + 1 >= COINBASE_MATURITY)
    OBVIOUS
  <2> HIDE DEF Class, mature, pending, pos, H
  <2>18. ASSUME NEW m \in 0 .. H + 2
         PROVE  /\ Class(m) # "none"
                /\ \A n \in 0 .. H + 2 :
                     m <= n => (Class(n) \in {"confirmed", "immature"} => Class(m) = Class(n))
                /\ Class(m) = "confirmed" => /\ a + m <= H + 1
                                             /\ IsCoinbase(graph.txs[t]) => a + COINBASE_MATURITY <= H + 1
    <3>1. m \in Nat BY <2>9
    <3>2. Class(m) # "none" BY <2>14, <2>15, <3>1
    <3>3. ASSUME NEW n \in 0 .. H + 2, m <= n, Class(n) \in {"confirmed", "immature"}
          PROVE  Class(m) = Class(n)
      <4>1. n \in Nat BY <2>9
      <4>2. pos.confirmed /\ H - a + 1 >= n /\ H - a + 1 >= 1
        BY <2>14, <2>15, <3>3, <4>1
      <4>3. a \in Nat BY <2>10, <4>2
      <4> HIDE DEF a
      <4>4. H - a + 1 >= m BY <2>9, <3>1, <3>3, <4>1, <4>2, <4>3
      <4> QED BY <2>14, <3>1, <4>1, <4>2, <4>4
    <3>4. ASSUME Class(m) = "confirmed"
          PROVE  a + m <= H + 1 /\ (IsCoinbase(graph.txs[t]) => a + COINBASE_MATURITY <= H + 1)
      <4>1. pos.confirmed /\ H - a + 1 >= m /\ mature BY <2>14, <2>15, <3>1, <3>4
      <4>2. a \in Nat BY <2>10, <4>1
      <4>3. IsCoinbase(graph.txs[t]) => H - a + 1 >= COINBASE_MATURITY BY <2>17, <4>1
      <4> HIDE DEF a
      <4> QED BY <2>9, <2>16, <3>1, <4>1, <4>2, <4>3
    <3> QED BY <3>2, <3>3, <3>4
  <2> QED BY <2>18 DEF Class, pos, H
<1> QED BY <1>1, AlwaysFullInv, PTL
=============================================================================
