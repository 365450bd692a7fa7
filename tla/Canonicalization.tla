-------------------------- MODULE Canonicalization --------------------------
(***************************************************************************)
(* Which transactions of a graph count, and where they are in the chain:   *)
(* CanonicalTask (canonical_task.rs) and then CanonicalViewTask            *)
(* (canonical_view_task.rs), driven by LocalChain::canonicalize.  A step   *)
(* takes one transaction from the stage's queue, or visits one transaction *)
(* of the ancestor walk inside mark_canonical, or answers one chain query. *)
(* The queues of the anchored, seen and left-over transactions are sets of *)
(* <<height or time, txid>> whose front is the greatest pair.              *)
(***************************************************************************)
EXTENDS TxGraph, Subsequences

CONSTANTS
  COINBASE_MATURITY,  \* confirmations a coinbase output needs to be spent
  Setups   \* records [graph, assume, chain, later]: `later` are the chains that
           \* the LocalChain can hold by the time the second task runs

(* What a TxGraph can hold: the indices are those of its anchors and sightings. *)
IsGraph(g) ==
  /\ \A t \in Whole(g) : g.txs[t].input \in Seq(OutPoint \cup {Null})
  /\ \A t \in Txid : g.anchors[t] \subseteq Block
  /\ \A t \in Whole(g) : g.anchors[t] # {} => \E p \in g.by_conf_height : p[2] = t
  /\ IsFiniteSet(g.by_conf_height) /\ g.by_conf_height \subseteq Nat \X Txid
  /\ IsFiniteSet(g.by_last_seen) /\ g.by_last_seen \subseteq Nat \X Txid

Tip(blocks) == CHOOSE b \in blocks : \A c \in blocks : Height(c) <= Height(b)

(* The transactions with an anchor in a chain, and their ancestors in the graph. *)
MinedIn(g, blocks) == {t \in Whole(g) : g.anchors[t] \cap blocks # {}}
History(g, blocks) == {t \in Whole(g) : Descendants(g, {t}, {}) \cap MinedIn(g, blocks) # {}}

ConflictFree(g, S) == \A t \in S : DirectConflicts(g, t) \cap S = {}

(* A chain holds no double spend, and as long as it keeps a block it keeps the *)
(* blocks below: they are removed from a height upwards.                       *)
ASSUME SetupAssumption ==
  \A x \in Setups :
    /\ IsGraph(x.graph)
    /\ x.assume \in Seq(Txid)
    /\ IsFiniteSet(x.chain) /\ x.chain # {} /\ x.chain \subseteq Block
    /\ ConflictFree(x.graph, History(x.graph, x.chain))
    /\ \A blocks \in x.later : Tip(x.chain) \in blocks => x.chain \subseteq blocks

ASSUME MaturityAssumption == COINBASE_MATURITY \in Nat

VARIABLES
  setup,          \* the setup of this behaviour
  chain,          \* the blocks of the LocalChain
  tip,            \* chain_tip: the chain's tip when the task was created
  stage,          \* current_stage of the task that runs
  assumed,        \* unprocessed_assumed_txs
  anchored,       \* unprocessed_anchored_txs
  seen,           \* unprocessed_seen_txs
  leftover,       \* unprocessed_leftover_txs
  canonical,      \* reason of every canonical transaction
  not_canonical,
  canonical_order,
  mark,           \* the call of mark_canonical under way, or None
  checks,         \* unprocessed_anchor_checks
  direct_anchors,
  view            \* the chain positions, in the order they are resolved

queues == <<assumed, anchored, seen, leftover>>
result == <<canonical, not_canonical, canonical_order, mark>>
views == <<checks, direct_anchors, view>>
vars == <<setup, chain, tip, stage, queues, result, views>>

graph == setup.graph

(* A CanonicalReason: `at` is the anchor, the last_seen or the height. *)
Reason ==
  [kind : {"Assumed"}, at : {None}, descendant : Txid \cup {None}]
    \cup [kind : {"Anchor"}, at : Block, descendant : Txid \cup {None}]
    \cup [kind : {"Mempool", "Block"}, at : Nat, descendant : Txid \cup {None}]
NewReason(kind, at) == [kind |-> kind, at |-> at, descendant |-> None]
ToTransitive(reason, t) == [reason EXCEPT !.descendant = t]

(* The front of a queue in descending order. *)
Before(p, q) == p[1] > q[1] \/ (p[1] = q[1] /\ p[2] >= q[2])
Front(queue) == CHOOSE p \in queue : \A q \in queue : Before(p, q)

(* LocalChain::is_block_in_chain(block, chain_tip) = Some(true). *)
IsBlockInChain(b) == tip \in chain /\ b \in chain /\ Height(b) <= Height(tip)

(* LocalChain::canonicalize: the lowest of the transaction's anchors in the chain. *)
BestAnchor(t) ==
  LET hits == {b \in graph.anchors[t] : IsBlockInChain(b)}
  IN IF hits = {} THEN None ELSE CHOOSE b \in hits : \A c \in hits : Height(b) <= Height(c)

(* CanonicalTask::new. *)
Init ==
  /\ setup \in Setups
  /\ chain = setup.chain
  /\ tip = Tip(setup.chain)
  /\ stage = "AssumedTxs"
  /\ assumed = Subsequence(setup.assume,
                           {i \in DOMAIN setup.assume : setup.assume[i] \in Whole(graph)})
  /\ anchored = {p \in graph.by_conf_height : p[2] \in Whole(graph)}
  /\ seen = {p \in graph.by_last_seen : p[2] \in Whole(graph) /\ ~IsEvicted(graph, p[2])}
  /\ leftover = {}
  /\ canonical = [t \in Txid |-> None]
  /\ not_canonical = {}
  /\ canonical_order = << >>
  /\ mark = None
  /\ checks = << >>
  /\ direct_anchors = [t \in Txid |-> None]
  /\ view = << >>

IsCanonicalized(t) == canonical[t] # None \/ t \in not_canonical

-----------------------------------------------------------------------------
(* mark_canonical *)

(* The variables of a call: the ancestor walk's queue and visited set, and   *)
(* what is to be kept or taken back at its end.                              *)
Call ==
  [root : Txid, reason : Reason, queue : Seq(Txid), visited : SUBSET (Txid \cup {0}),
   staged : Seq(Txid), undo : SUBSET Txid, double_spend : BOOLEAN]

ASSUME NoneAssumption == None \notin Txid /\ None \notin Block /\ None \notin Reason \cup Call

(* The call begins with the transaction itself in the queue of TxAncestors. *)
MarkCanonical(t, reason) ==
  /\ mark' = [root |-> t, reason |-> reason, queue |-> <<t>>, visited |-> {},
              staged |-> << >>, undo |-> {}, double_spend |-> FALSE]
  /\ UNCHANGED <<canonical, not_canonical, canonical_order>>

MarkUnlessCanonicalized(t, reason) ==
  IF IsCanonicalized(t) THEN UNCHANGED result ELSE MarkCanonical(t, reason)

(* populate_queue: the known parents, once each, in the order of the inputs. *)
Populate(t, visited) ==
  LET input == graph.txs[t].input
  IN Subsequence([i \in DOMAIN input |-> input[i][1]],
                 {i \in DOMAIN input :
                    /\ input[i][1] \in Whole(graph) \ visited
                    /\ \A j \in 1 .. i - 1 : input[j][1] # input[i][1]})

(* The walk meets a transaction that is canonical already. *)
VisitKnown ==
  /\ mark # None /\ mark.queue # << >>
  /\ canonical[Head(mark.queue)] # None
  /\ mark' = [mark EXCEPT !.queue = Tail(@)]
  /\ UNCHANGED <<setup, chain, tip, stage, queues, canonical, not_canonical, canonical_order, views>>

(* Faulty variant: the descendants of the conflicts without the conflicts. *)
PrunedExcludingRoots(t) ==
  Descendants(graph, UNION {Children(graph, c) : c \in DirectConflicts(graph, t)}, not_canonical)

Pruned(t) == Descendants(graph, DirectConflicts(graph, t), not_canonical)

(* The conflicts of the visited transaction, and all that descends from      *)
(* them, are out; if that is so of the transaction itself, the root spends   *)
(* some output twice.                                                        *)
VisitNew ==
  /\ mark # None /\ mark.queue # << >>
  /\ LET t == Head(mark.queue)
         pruned == Pruned(t)
         reason == IF mark.staged = << >> THEN mark.reason ELSE ToTransitive(mark.reason, mark.root)
     IN /\ canonical[t] = None
        /\ not_canonical' = not_canonical \cup pruned
        /\ IF t \in not_canonical'
           THEN /\ mark' = [mark EXCEPT !.queue = Tail(@), !.undo = @ \cup pruned,
                                        !.double_spend = TRUE]
                /\ UNCHANGED canonical
           ELSE /\ mark' = [mark EXCEPT !.queue = Tail(@) \o Populate(t, mark.visited),
                                        !.visited = @ \cup {op[1] : op \in Prevouts(graph.txs[t])},
                                        !.undo = @ \cup pruned,
                                        !.staged = Append(@, t)]
                /\ canonical' = [canonical EXCEPT ![t] = reason]
  /\ UNCHANGED <<setup, chain, tip, stage, queues, canonical_order, views>>

Staged == {mark.staged[i] : i \in DOMAIN mark.staged}

Commit ==
  /\ mark # None /\ mark.queue = << >> /\ ~mark.double_spend
  /\ canonical_order' = canonical_order \o mark.staged
  /\ mark' = None
  /\ UNCHANGED <<setup, chain, tip, stage, queues, canonical, not_canonical, views>>

(* Faulty variant: what the failed walk ruled out stays ruled out. *)
UndoCanonicalOnly ==
  /\ mark # None /\ mark.queue = << >> /\ mark.double_spend
  /\ canonical' = [t \in Txid |-> IF t \in Staged THEN None ELSE canonical[t]]
  /\ mark' = None
  /\ UNCHANGED <<setup, chain, tip, stage, queues, not_canonical, canonical_order, views>>

Undo ==
  /\ mark # None /\ mark.queue = << >> /\ mark.double_spend
  /\ canonical' = [t \in Txid |-> IF t \in Staged THEN None ELSE canonical[t]]
  /\ not_canonical' = not_canonical \ mark.undo
  /\ mark' = None
  /\ UNCHANGED <<setup, chain, tip, stage, queues, canonical_order, views>>

-----------------------------------------------------------------------------
(* The stages of CanonicalTask *)

(* assume_canonical is read from its end. *)
NextAssumed ==
  /\ mark = None /\ stage = "AssumedTxs" /\ assumed # << >>
  /\ assumed' = SubSeq(assumed, 1, Len(assumed) - 1)
  /\ MarkUnlessCanonicalized(assumed[Len(assumed)], NewReason("Assumed", None))
  /\ UNCHANGED <<setup, chain, tip, stage, anchored, seen, leftover, views>>

(* next_query, the chain's answer and resolve_query. *)
NextAnchored ==
  /\ mark = None /\ stage = "AnchoredTxs" /\ anchored # {}
  /\ LET front == Front(anchored)
         best == BestAnchor(front[2])
     IN /\ anchored' = anchored \ {front}
        /\ IF best = None
           THEN leftover' = leftover \cup {front} /\ UNCHANGED result
           ELSE MarkUnlessCanonicalized(front[2], NewReason("Anchor", best)) /\ UNCHANGED leftover
  /\ UNCHANGED <<setup, chain, tip, stage, assumed, seen, views>>

NextSeen ==
  /\ mark = None /\ stage = "SeenTxs" /\ seen # {}
  /\ LET front == Front(seen)
     IN /\ seen' = seen \ {front}
        /\ MarkUnlessCanonicalized(front[2], NewReason("Mempool", front[1]))
  /\ UNCHANGED <<setup, chain, tip, stage, assumed, anchored, leftover, views>>

(* A transaction that was in a block of another chain. *)
NextLeftOver ==
  /\ mark = None /\ stage = "LeftOverTxs" /\ leftover # {}
  /\ LET front == Front(leftover)
         t == front[2]
     IN /\ leftover' = leftover \ {front}
        /\ IF IsCoinbase(graph.txs[t]) \/ IsEvicted(graph, t)
           THEN UNCHANGED result
           ELSE MarkUnlessCanonicalized(t, NewReason("Block", front[1]))
  /\ UNCHANGED <<setup, chain, tip, stage, assumed, anchored, seen, views>>

NextStage ==
  [AssumedTxs |-> "AnchoredTxs", AnchoredTxs |-> "SeenTxs", SeenTxs |-> "LeftOverTxs",
   LeftOverTxs |-> "Finished"]

Advance ==
  /\ mark = None
  /\ \/ stage = "AssumedTxs" /\ assumed = << >>
     \/ stage = "AnchoredTxs" /\ anchored = {}
     \/ stage = "SeenTxs" /\ seen = {}
     \/ stage = "LeftOverTxs" /\ leftover = {}
  /\ stage' = NextStage[stage]
  /\ UNCHANGED <<setup, chain, tip, queues, result, views>>

-----------------------------------------------------------------------------
(* CanonicalViewTask *)

(* The chain is updated after the first task has finished. *)
UpdateChain ==
  /\ stage = "Finished" /\ chain = setup.chain
  /\ chain' \in setup.later
  /\ UNCHANGED <<setup, tip, stage, queues, result, views>>

(* Faulty variant: only transitive reasons are checked. *)
NeedsCheckTransitive(t) ==
  /\ canonical[t].kind \in {"Assumed", "Anchor"}
  /\ canonical[t].descendant # None
  /\ graph.anchors[t] # {}

(* CanonicalViewTask::new: the own anchors of what is canonical through a     *)
(* descendant or by assumption are to be asked for.                           *)
NeedsCheck(t) ==
  /\ canonical[t].kind \in {"Assumed", "Anchor"}
  /\ canonical[t].descendant # None \/ canonical[t].kind = "Assumed"
  /\ graph.anchors[t] # {}

StartView ==
  /\ stage = "Finished"
  /\ stage' = "ResolvingPositions"
  /\ checks' = Subsequence(canonical_order,
                           {i \in DOMAIN canonical_order : NeedsCheck(canonical_order[i])})
  /\ UNCHANGED <<setup, chain, tip, queues, result, direct_anchors, view>>

(* Faulty variant: an unanswered query stays at the front. *)
ResolveAnswered ==
  /\ stage = "ResolvingPositions" /\ checks # << >>
  /\ LET best == BestAnchor(Head(checks))
     IN IF best = None THEN UNCHANGED <<checks, direct_anchors>>
        ELSE checks' = Tail(checks) /\ direct_anchors' = [direct_anchors EXCEPT ![Head(checks)] = best]
  /\ UNCHANGED <<setup, chain, tip, stage, queues, result, view>>

ResolveCheck ==
  /\ stage = "ResolvingPositions" /\ checks # << >>
  /\ checks' = Tail(checks)
  /\ direct_anchors' = [direct_anchors EXCEPT ![Head(checks)] = BestAnchor(Head(checks))]
  /\ UNCHANGED <<setup, chain, tip, stage, queues, result, view>>

Confirmed(b, via) == [confirmed |-> TRUE, anchor |-> b, transitively |-> via]
Unconfirmed(first, last) == [confirmed |-> FALSE, first_seen |-> first, last_seen |-> last]

(* The canonical descendants of t that have an entry in direct_anchors. *)
AnchoredDescendants(t) ==
  {d \in Descendants(graph, Children(graph, t), {x \in Txid : canonical[x] = None}) :
     direct_anchors[d] # None}

(* The position that CanonicalViewTask::finish gives to t.  Which of several  *)
(* anchored descendants the walk finds first is left open.                    *)
Positions(t) ==
  LET reason == canonical[t]
      own == direct_anchors[t]
  IN CASE reason.kind = "Assumed" ->
            IF own # None THEN {Confirmed(own, None)}
            ELSE IF AnchoredDescendants(t) # {}
                 THEN {Confirmed(direct_anchors[d], d) : d \in AnchoredDescendants(t)}
                 ELSE {Unconfirmed(graph.first_seen[t], graph.last_seen[t])}
       [] reason.kind = "Anchor" ->
            IF reason.descendant # None /\ own # None THEN {Confirmed(own, None)}
            ELSE {Confirmed(reason.at, reason.descendant)}
       [] reason.kind = "Mempool" -> {Unconfirmed(graph.first_seen[t], reason.at)}
       [] reason.kind = "Block" -> {Unconfirmed(graph.first_seen[t], None)}

Resolve ==
  /\ stage = "ResolvingPositions" /\ checks = << >>
  /\ Len(view) < Len(canonical_order)
  /\ \E pos \in Positions(canonical_order[Len(view) + 1]) : view' = Append(view, pos)
  /\ UNCHANGED <<setup, chain, tip, stage, queues, result, checks, direct_anchors>>

Done ==
  /\ stage = "ResolvingPositions" /\ checks = << >> /\ Len(view) = Len(canonical_order)
  /\ UNCHANGED vars

Next ==
  \/ NextAssumed \/ NextAnchored \/ NextSeen \/ NextLeftOver \/ Advance
  \/ VisitKnown \/ VisitNew \/ Commit \/ Undo
  \/ UpdateChain \/ StartView \/ ResolveCheck \/ Resolve \/ Done

Spec == Init /\ [][Next]_vars /\ WF_vars(Next)

-----------------------------------------------------------------------------
(* Reading the view (canonical.rs) *)

Finished == stage = "ResolvingPositions" /\ Len(view) = Len(canonical_order)

Position(t) == view[CHOOSE i \in DOMAIN canonical_order : canonical_order[i] = t]
Listed == {canonical_order[i] : i \in DOMAIN canonical_order}

(* The outputs of canonical transactions, and those that none of them spends. *)
TxOuts == {op \in Listed \X Vout : op[2] + 1 \in DOMAIN graph.txs[op[1]].output}
SpentBy(op) == {t \in Listed : op \in Prevouts(graph.txs[t])}
FilterUnspent == {op \in TxOuts : SpentBy(op) = {}}

Minus(m, n) == IF m < n THEN 0 ELSE m - n

(* In a release build an unconfirmed coinbase is just not mature. *)
IsMature(op, at) ==
  IsCoinbase(graph.txs[op[1]]) =>
    /\ Position(op[1]).confirmed
    /\ Minus(at, Height(Position(op[1]).anchor)) + 1 >= COINBASE_MATURITY

(* Faulty variant: a coin of the tip's own block is not spendable yet. *)
SpendableBelowTip(op, at) ==
  /\ IsMature(op, at)
  /\ Position(op[1]).confirmed /\ Height(Position(op[1]).anchor) < at
  /\ \A t \in SpentBy(op) : Position(t).confirmed => Height(Position(t).anchor) > at

IsConfirmedAndSpendable(op, at) ==
  /\ IsMature(op, at)
  /\ Position(op[1]).confirmed /\ Height(Position(op[1]).anchor) <= at
  /\ \A t \in SpentBy(op) : Position(t).confirmed => Height(Position(t).anchor) > at

(* balance: the class that the value of an unspent output is added to. *)
BalanceClass(op, trusted, min_confirmations) ==
  LET pos == Position(op[1])
      needed == IF min_confirmations < 1 THEN 1 ELSE min_confirmations
      pending == IF op \in trusted THEN "trusted_pending" ELSE "untrusted_pending"
  IN IF ~pos.confirmed THEN pending
     ELSE IF Minus(Height(tip), Height(pos.anchor)) + 1 < needed THEN pending
     ELSE IF IsConfirmedAndSpendable(op, Height(tip)) THEN "confirmed"
     ELSE IF ~IsMature(op, Height(tip)) THEN "immature" ELSE "none"

-----------------------------------------------------------------------------
(* Properties *)

Chosen == {t \in Txid : canonical[t] # None}

(* The canonical transactions spend no output twice: mark_canonical prunes    *)
(* the conflicts of everything it accepts and takes back an acceptance that   *)
(* turns out to contain a conflict.                                           *)
NoDoubleSpend ==
  mark = None =>
    \A t, u \in Chosen : t # u => Prevouts(graph.txs[t]) \cap Prevouts(graph.txs[u]) = {}

(* t and all its known ancestors. *)
Closure(t) ==
  {a \in Whole(graph) :
     \A S \in SUBSET Whole(graph) :
       (t \in S /\ \A x \in S : Parents(graph, x) \subseteq S) => a \in S}

(* Why t may claim to be canonical: assumed (the last in the list first),     *)
(* anchored in the chain (the highest first), in the mempool (the last seen   *)
(* first), or formerly in a block.                                            *)
Claims(t) ==
  {<<4, i, 0>> : i \in {j \in DOMAIN setup.assume : setup.assume[j] = t}}
    \cup {<<3, TopHeight(graph.anchors[t]), t>> : b \in {BestAnchor(t)} \ {None}}
    \cup {<<2, at, t>> : at \in {a \in Present(graph.last_seen[t]) : ~IsEvicted(graph, t)}}
    \cup {<<1, TopHeight(graph.anchors[t]), t>> :
            b \in {c \in graph.anchors[t] : ~IsCoinbase(graph.txs[t]) /\ ~IsEvicted(graph, t)}}

Outranks(p, q) ==
  p[1] > q[1] \/ (p[1] = q[1] /\ (p[2] > q[2] \/ (p[2] = q[2] /\ p[3] > q[3])))

Precedes(t, u) == \E p \in Claims(t) : \A q \in Claims(u) : Outranks(p, q)

(* The result is that of deciding the claims in order of precedence: a claim  *)
(* is granted iff the transaction and its ancestors conflict neither with     *)
(* each other nor with what was granted before, and nothing else is           *)
(* canonical.                                                                 *)
DecidedByPrecedence ==
  stage = "Finished" /\ chain = setup.chain =>
    LET claimants == {t \in Whole(graph) : Claims(t) # {}}
        granted == claimants \cap Chosen
        before(t) == UNION {Closure(u) : u \in {v \in granted : Precedes(v, t)}}
    IN /\ \A t \in claimants : t \in Chosen <=> ConflictFree(graph, Closure(t) \cup before(t))
       /\ Chosen = UNION {Closure(t) : t \in granted}

(* Every unspent output counts in exactly one class of the balance; asking    *)
(* for more confirmations only moves value from the settled classes to the    *)
(* pending ones, and a confirmed coin is at least as deep as was asked for.   *)
BalanceAddsUp ==
  Finished =>
    \A op \in FilterUnspent, trusted \in {{}, FilterUnspent} :
      LET Class(m) == BalanceClass(op, trusted, m)
          depths == 0 .. Height(tip) + 2
      IN \A m \in depths :
           /\ Class(m) # "none"
           /\ \A n \in depths :
                m <= n => (Class(n) \in {"confirmed", "immature"} => Class(m) = Class(n))
           /\ Class(m) = "confirmed" =>
                /\ Height(Position(op[1]).anchor) + m <= Height(tip) + 1
                /\ IsCoinbase(graph.txs[op[1]]) =>
                     Height(Position(op[1]).anchor) + COINBASE_MATURITY <= Height(tip) + 1

(* A confirmed position names a block of the chain that anchors the           *)
(* transaction itself or the canonical descendant it names, also when the     *)
(* chain has grown since the first task.                                      *)
ConfirmedIsBacked ==
  tip \in chain =>
    \A i \in DOMAIN view :
      view[i].confirmed =>
        LET t == canonical_order[i]
            by == IF view[i].transitively = None THEN t ELSE view[i].transitively
        IN /\ view[i].anchor \in graph.anchors[by] /\ IsBlockInChain(view[i].anchor)
           /\ by # t => by \in Chosen \cap Descendants(graph, Children(graph, t), {})

(* What CanonicalViewTask leaves unconfirmed is not anchored in the chain,    *)
(* and, unless it was assumed, nothing canonical that descends from it is.    *)
UnconfirmedIsUnanchored ==
  chain = setup.chain =>
    \A i \in DOMAIN view :
      LET t == canonical_order[i]
      IN ~view[i].confirmed =>
           /\ BestAnchor(t) = None
           /\ canonical[t].kind # "Assumed" =>
                \A d \in Chosen \cap Descendants(graph, Children(graph, t), {}) : BestAnchor(d) = None

(* The positions of the view are those of the chain it was computed against. *)
PositionsAreBacked == ConfirmedIsBacked /\ UnconfirmedIsUnanchored

(* Both tasks come to an end: every walk runs out of transactions. *)
Terminates == <>(stage = "ResolvingPositions" /\ checks = << >> /\ Len(view) = Len(canonical_order))

=============================================================================
