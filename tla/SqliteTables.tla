---------------------------- MODULE SqliteTables ----------------------------
(***************************************************************************)
(* The SQLite form of the wallet's change set (crates/chain,               *)
(* rusqlite_impl.rs): what persist_to_sqlite writes over the rows that are *)
(* there, and what from_sqlite reads back.  Rows are overwritten, where    *)
(* merging change sets keeps the earliest or the latest time.  A schema is *)
(* brought up to date by running the scripts above its version.            *)
(***************************************************************************)
EXTENDS IndexedTxGraph

LastScript == 3   \* schema_v0 .. schema_v3 of the graph's tables

NoRow == [raw_tx |-> None, first_seen |-> None, last_seen |-> None, last_evicted |-> None]

EmptyTables ==
  [txs |-> [t \in Txid |-> NoRow], txouts |-> [op \in OutPoint |-> None], anchors |-> {},
   last_revealed |-> [d \in Descriptor |-> None], derived_spks |-> {}]

(* migrate_schema: the scripts from the version after the recorded one, the  *)
(* version being recorded before each.                                       *)
ScriptsToExec(db) == (IF db.version = None THEN 0 ELSE db.version + 1) .. LastScript
MigrateSchema(db) ==
  [db EXCEPT !.version = LastScript,
             !.executed = [i \in 0 .. LastScript |-> IF i \in ScriptsToExec(db) THEN @[i] + 1 ELSE @[i]]]

Written(new, old) == IF new = None THEN old ELSE new

(* Of a change set with several versions of a transaction the last in the    *)
(* order of their bytes stays in the row: any of them, as far as the model   *)
(* can tell.                                                                 *)
RawChoices(cs) ==
  {raw \in [Txid -> {x[2] : x \in cs.txs} \cup {None}] :
     \A t \in Txid : IF \E x \in cs.txs : x[1] = t THEN <<t, raw[t]>> \in cs.txs ELSE raw[t] = None}

(* Faulty variant: a row that is there keeps its last_seen. *)
PersistKeepingSeen(tables, cs, raw) ==
  [txs |-> [t \in Txid |->
              [raw_tx |-> Written(raw[t], tables.txs[t].raw_tx),
               first_seen |-> Written(cs.tx_graph.first_seen[t], tables.txs[t].first_seen),
               last_seen |-> Written(tables.txs[t].last_seen, cs.tx_graph.last_seen[t]),
               last_evicted |-> Written(cs.tx_graph.last_evicted[t], tables.txs[t].last_evicted)]],
   txouts |-> [op \in OutPoint |-> Written(cs.tx_graph.txouts[op], tables.txouts[op])],
   anchors |-> tables.anchors \cup cs.tx_graph.anchors,
   last_revealed |-> [d \in Descriptor |-> Written(cs.indexer.last_revealed[d], tables.last_revealed[d])],
   derived_spks |-> tables.derived_spks \cup cs.indexer.spk_cache]

PersistToSqlite(tables, cs, raw) ==
  [txs |-> [t \in Txid |->
              [raw_tx |-> Written(raw[t], tables.txs[t].raw_tx),
               first_seen |-> Written(cs.tx_graph.first_seen[t], tables.txs[t].first_seen),
               last_seen |-> Written(cs.tx_graph.last_seen[t], tables.txs[t].last_seen),
               last_evicted |-> Written(cs.tx_graph.last_evicted[t], tables.txs[t].last_evicted)]],
   txouts |-> [op \in OutPoint |-> Written(cs.tx_graph.txouts[op], tables.txouts[op])],
   anchors |-> tables.anchors \cup cs.tx_graph.anchors,
   last_revealed |-> [d \in Descriptor |-> Written(cs.indexer.last_revealed[d], tables.last_revealed[d])],
   derived_spks |-> tables.derived_spks \cup cs.indexer.spk_cache]

FromSqlite(tables) ==
  [tx_graph |->
     [txs |-> Entries([t \in Txid |-> tables.txs[t].raw_tx]),
      txouts |-> tables.txouts, anchors |-> tables.anchors,
      first_seen |-> [t \in Txid |-> tables.txs[t].first_seen],
      last_seen |-> [t \in Txid |-> tables.txs[t].last_seen],
      last_evicted |-> [t \in Txid |-> tables.txs[t].last_evicted]],
   indexer |-> [last_revealed |-> tables.last_revealed, spk_cache |-> tables.derived_spks]]

=============================================================================
