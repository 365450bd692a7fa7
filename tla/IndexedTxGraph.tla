--------------------------- MODULE IndexedTxGraph ---------------------------
(***************************************************************************)
(* The graph and the index together (crates/chain, indexed_tx_graph.rs) as *)
(* operators on a wallet [graph, index].  Each returns the wallet and the  *)
(* change set [tx_graph, indexer] as a record [w, cs].                     *)
(***************************************************************************)
EXTENDS KeychainIndex

EmptyWallet == [graph |-> EmptyGraph, index |-> EmptyIndex]
EmptyWalletChangeSet == [tx_graph |-> EmptyChangeSet, indexer |-> EmptyIndexChangeSet]

MergeWalletChangeSets(cs, other) ==
  [tx_graph |-> MergeChangeSets(cs.tx_graph, other.tx_graph),
   indexer |-> MergeIndexChangesets(cs.indexer, other.indexer)]

(* Index operations in sequence: their change sets are merged. *)
Then(r, s) == [ix |-> s.ix, cs |-> MergeIndexChangesets(r.cs, s.cs)]

(* Lists of outputs, those of a transaction or a single one, in turn. *)
IndexAll(ix, lists) ==
  Fold(LAMBDA r, txouts : Then(r, IndexOutputs(r.ix, txouts)), Start(ix), lists)

OutputsOfTxs(txs) == [i \in DOMAIN txs |-> Outputs(txs[i][1], txs[i][2])]
Singly(xs) == [i \in DOMAIN xs |-> <<xs[i]>>]

IndexTxs(ix, txs) == IndexAll(ix, OutputsOfTxs(txs))

(* index_tx_graph_changeset: the transactions and outputs the graph added.   *)
(* The set of transactions is walked in the order of their bytes, which says *)
(* nothing of when they arrived.                                             *)
IndexAdded(ix, cs) ==
  IndexAll(ix, OutputsOfTxs(Listing(cs.txs)) \o Singly(Listing(Entries(cs.txouts))))

(* A step of the graph whose additions are indexed afterwards. *)
Indexed(w, step) ==
  LET r == IndexAdded(w.index, step.cs)
  IN [w |-> [graph |-> step.g, index |-> r.ix], cs |-> [tx_graph |-> step.cs, indexer |-> r.cs]]

(* A step of the graph that adds no output, and one of the index alone. *)
GraphOnly(w, step) ==
  [w |-> [w EXCEPT !.graph = step.g], cs |-> [EmptyWalletChangeSet EXCEPT !.tx_graph = step.cs]]
IndexOnly(w, step) ==
  [w |-> [w EXCEPT !.index = step.ix], cs |-> [EmptyWalletChangeSet EXCEPT !.indexer = step.cs]]

(* is_tx_or_conflict_relevant: a rival of a relevant transaction is, too. *)
ConflictsWith(g, t, tx) == (UNION {OutspendsOf(g, op) : op \in Prevouts(tx)}) \ {t}
IsRelevant(w, t, tx) ==
  \/ IsTxRelevant(w.index, tx)
  \/ \E c \in ConflictsWith(w.graph, t, tx) : IsTxRelevant(w.index, w.graph.txs[c])

(* A transaction of a block, and one that is put in only if it is relevant. *)
InsertMined(g, t, tx, block) == InsertAll(g, <<<<"tx", <<t, tx>> >>, <<"anchor", <<block, t>> >> >>)
AddRelevant(r, ix, x, block) ==
  IF IsRelevant([graph |-> r.g, index |-> ix], x[1], x[2])
  THEN Merged(r, InsertMined(r.g, x[1], x[2], block)) ELSE r

AddAllRelevant(g, ix, txs, block) ==
  Fold(LAMBDA r, x : AddRelevant(r, ix, x, block), Untouched(g), txs)

(* batch_insert_relevant: all are indexed before the first is judged. *)
BatchInsertRelevant(w, txs, block) ==
  LET indexed == IndexTxs(w.index, txs)
      grown == AddAllRelevant(w.graph, indexed.ix, txs, block)
  IN [w |-> [graph |-> grown.g, index |-> indexed.ix],
      cs |-> [tx_graph |-> grown.cs, indexer |-> indexed.cs]]

(* batch_insert_relevant_unconfirmed: likewise, judged against the graph as  *)
(* it was before the batch.                                                  *)
BatchInsertRelevantUnconfirmed(w, txs, at) ==
  LET indexed == IndexTxs(w.index, txs)
      judged == [w EXCEPT !.index = indexed.ix]
      relevant == Subsequence(txs, {i \in DOMAIN txs : IsRelevant(judged, txs[i][1], txs[i][2])})
      grown == BatchInsertUnconfirmed(w.graph, [i \in DOMAIN relevant |-> Append(relevant[i], at)])
  IN [w |-> [graph |-> grown.g, index |-> indexed.ix],
      cs |-> [tx_graph |-> grown.cs, indexer |-> indexed.cs]]

(* apply_block_relevant: each is indexed and judged before the next. *)
ApplyTxRelevant(w, x, block) ==
  LET indexed == IndexTx(w.index, x[1], x[2])
      grown == AddRelevant(Untouched(w.graph), indexed.ix, x, block)
  IN [w |-> [graph |-> grown.g, index |-> indexed.ix],
      cs |-> [tx_graph |-> grown.cs, indexer |-> indexed.cs]]
AndThen(r, s) == [w |-> s.w, cs |-> MergeWalletChangeSets(r.cs, s.cs)]
ApplyBlockRelevant(w, txs, block) ==
  Fold(LAMBDA r, x : AndThen(r, ApplyTxRelevant(r.w, x, block)),
       [w |-> w, cs |-> EmptyWalletChangeSet], txs)

(* apply_block: anchors and transactions all go in, then they are indexed. *)
ApplyBlock(w, txs, block) ==
  Indexed(w, InsertAll(w.graph, InTurns(Each("anchor", [i \in DOMAIN txs |-> <<block, txs[i][1]>>]),
                                        Each("tx", txs))))

(* reindex, walking the whole transactions in a given order. *)
Reindex(w, order) ==
  LET txs == [i \in DOMAIN order |-> <<order[i], w.graph.txs[order[i]]>>]
  IN IndexOnly(w, IndexAll(w.index, OutputsOfTxs(txs) \o Singly(Listing(Entries(w.graph.txouts)))))

(* IndexedTxGraph::apply_changeset: what indexing reveals is not reported. *)
ApplyWalletChangeSet(w, cs) ==
  [graph |-> ApplyChangeSet(w.graph, cs.tx_graph),
   index |-> IndexAdded(ApplyIndexChangeset(w.index, cs.indexer), cs.tx_graph).ix]

InitialWalletChangeSet(w) ==
  [tx_graph |-> InitialChangeSet(w.graph), indexer |-> InitialIndexChangeset(w.index)]

=============================================================================
