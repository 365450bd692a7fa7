------------------------------ MODULE ChainNode ------------------------------
(***************************************************************************)
(* What the chain sources of the repository stand between: a node, whose   *)
(* best chain and mempool change at any moment, and the wallet's           *)
(* LocalChain and TxGraph.  The node is external: its tip only moves to a  *)
(* greater height (most work), along its branch or to another one, and the *)
(* transactions of a block that leaves the best chain go back to the       *)
(* mempool.  Checkpoints are of BlockHash data (Linked is empty).          *)
(***************************************************************************)
EXTENDS ChainMerge, Sequences, FiniteSetsExt
LOCAL INSTANCE SequencesExt

CONSTANTS
  Tx,
  TxsIn,      \* the transactions of each block
  SpksOf,     \* the script indices each transaction pays or spends from
  SpenderOf,  \* the transaction that spends a transaction's output, or None
  StartTip,   \* height of the node's tip at the start, on StartBranch
  StartBranch,
  InMempool,  \* the mempool at the start
  MaxMoves,   \* bound on the changes of the node
  MaxJobs     \* bound on the sources that are put to work

ASSUME NodeAssumption ==
  /\ TxsIn \in [Block -> SUBSET Tx]
  /\ SpenderOf \in [Tx -> Tx \cup {None}]
  /\ StartTip \in Height /\ StartBranch \in Branches /\ StartBranch[StartTip] # None
  /\ InMempool \subseteq Tx

(* A block commits to its parent, and so to its height. *)
ASSUME OneHeightAssumption ==
  \A b, c \in Branches, h, i \in Height : (b[h] = c[i] /\ b[h] # None) => h = i

VARIABLES
  node,     \* [branch, height, mempool, moves, left, returned]: left are the blocks that
            \* left the best chain, returned whether one came back (history)
  chain,    \* the wallet's LocalChain
  graph,    \* [txs, anchors, live]: anchors are <<tx, height, block>>; live are the
            \* transactions seen later than they were evicted
  job,      \* the source at work, [kind |-> "none"] if there is none
  client,   \* the Electrum client's caches, which outlive a call
  calm,     \* what has not changed at the node since the job marked it (history)
  jobs      \* number of jobs started

Best(h) == IF h <= node.height THEN node.branch[h] ELSE None
OnBest(b) == b # None /\ \E h \in Height : Best(h) = b
HeightOf(b) == CHOOSE h \in Height : \E br \in Branches : br[h] = b

(* Where a transaction is confirmed: its height, or None. *)
ConfirmedAt(t) ==
  IF \E h \in Height : Best(h) # None /\ t \in TxsIn[Best(h)]
  THEN CHOOSE h \in Height : Best(h) # None /\ t \in TxsIn[Best(h)] ELSE None
IsKnown(t) == ConfirmedAt(t) # None \/ t \in node.mempool

MoveTip ==
  /\ node.moves < MaxMoves
  /\ \E branch \in Branches, height \in Height :
       /\ height > node.height /\ branch[height] # None
       /\ LET old == UNION {TxsIn[Best(h)] : h \in 0 .. node.height}
              new == UNION {TxsIn[branch[h]] : h \in 0 .. height}
              best == {branch[h] : h \in 0 .. height}
          IN node' = [branch |-> branch, height |-> height, moves |-> node.moves + 1,
                      mempool |-> (node.mempool \cup old) \ new,
                      left |-> (node.left \cup {Best(h) : h \in 0 .. node.height}) \ best,
                      returned |-> node.returned \/ node.left \cap best # {}]
       /\ calm' = [calm EXCEPT !.tip = FALSE, !.pool = FALSE, !.branch = @ /\ branch[node.height] = Best(node.height)]
  /\ UNCHANGED <<chain, graph, job, client, jobs>>

ChangeMempool ==
  /\ node.moves < MaxMoves
  /\ \E t \in {t \in Tx : ConfirmedAt(t) = None} :
       /\ IF t \in node.mempool THEN SpenderOf[t] \notin node.mempool
          ELSE \A p \in Tx : SpenderOf[p] = t => IsKnown(p)
       /\ node' = [node EXCEPT !.moves = @ + 1,
                               !.mempool = IF t \in @ THEN @ \ {t} ELSE @ \cup {t}]
  /\ calm' = [calm EXCEPT !.pool = FALSE]
  /\ UNCHANGED <<chain, graph, job, client, jobs>>

Calm == [tip |-> TRUE, branch |-> TRUE, pool |-> TRUE]

(* A step of a job that reads from the node and leaves it alone. *)
NodeStays == UNCHANGED <<node, jobs>>
Begins == job.kind \in {"none", "done"} /\ jobs < MaxJobs /\ jobs' = jobs + 1 /\ calm' = Calm

-----------------------------------------------------------------------------
(* Lists of checkpoints. *)

TipHeight(c) == Max({h \in Height : c[h] # None})
UpTo(c, top) == [h \in Height |-> IF h <= top THEN c[h] ELSE None]
(* The next node at or below a height. *)
NodeBelow(c, h) == Max({i \in 0 .. h : c[i] # None})
InsertAll(c, blocks) ==
  FoldLeft(LAMBDA acc, h : IF blocks[h] = None THEN acc ELSE Insert(acc, h, blocks[h]), c,
           [i \in 1 .. MaxHeight + 1 |-> i - 1])
SharedHeight(o, u) ==
  LET shared == {h \in Height : SharesNodes(o, u, h)} IN IF shared = {} THEN None ELSE Max(shared)

-----------------------------------------------------------------------------
(* The wallet. *)

InChain(t) == \E a \in graph.anchors : a[1] = t /\ chain[a[2]] = a[3]
(* The canonical transactions, as far as no two conflict: an anchor, even a   *)
(* stale one, is enough.                                                      *)
IsCanonical(t) == t \in graph.txs /\ (t \in graph.live \/ \E a \in graph.anchors : a[1] = t)

(* list_expected_spk_txids. *)
Expected(spk) == {t \in Tx : spk \in SpksOf[t] /\ IsCanonical(t)}

NoUpdate == [txs |-> {}, anchors |-> {}, seen |-> {}, evicted |-> {}]

(* TxGraph::apply_update, the times of an update being later than all before. *)
ApplyTxs(g, u) ==
  [txs |-> g.txs \cup u.txs, anchors |-> g.anchors \cup u.anchors,
   live |-> (g.live \cup u.seen) \ u.evicted]

(* The wallet applies the checkpoint and the transactions it was given, or    *)
(* LocalChain::apply_update fails.                                            *)
Deliver(cp, update, next) ==
  \E refused \in {CannotConnect(chain, cp)} :
    /\ job' = IF refused THEN [kind |-> "refused", src |-> job.kind, cp |-> cp] ELSE next
    /\ chain' = IF refused THEN chain ELSE MergedChain(chain, cp, SharedHeight(chain, cp))
    /\ graph' = IF refused THEN graph ELSE ApplyTxs(graph, update)

=============================================================================
