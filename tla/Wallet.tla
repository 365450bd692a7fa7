------------------------------- MODULE Wallet -------------------------------
(***************************************************************************)
(* A wallet as an application keeps it: an IndexedTxGraph with a           *)
(* KeychainTxOutIndex, the change sets of its operations merged into a     *)
(* stage, and now and then the stage persisted.  Two stores are fed the    *)
(* same change sets so that they can be compared: `file` is the merge of   *)
(* all of them (what a file store aggregates), `db` the SQLite tables.     *)
(* The process may stop between any two operations; it then loads one of   *)
(* the stores, in the way the documentation of from_changeset gives.       *)
(***************************************************************************)
EXTENDS SqliteTables

CONSTANTS
  DescriptorOf,   \* the descriptor the application gives to each keychain
  TxOf,           \* the versions of the transaction with an id
  Batches,        \* sequences of txids that arrive together
  Updates,        \* updates of chain sources
  Floating,       \* outputs <<outpoint, script>> inserted without their transaction
  MaxOps          \* bound on the operations of a behaviour

(* A transaction, and the outputs an application is told of on their own. *)
Tx == [input : Seq(Nat \X Nat), output : Seq(Spk), witness : Seq(Nat)]
Told == Floating \cup (UNION {u.txouts : u \in Updates})

(* An id commits to all of its transaction but the witnesses, so that what   *)
(* an application is told of an output is what the transaction says of it.   *)
ASSUME TxAssumption ==
  /\ IsFiniteSet(Txid) /\ IsFiniteSet(Vout) /\ IsFiniteSet(Block) /\ IsFiniteSet(Time)
  /\ None \notin Tx
  /\ TxOf \in [Txid -> SUBSET Tx]
  /\ \A t \in Txid : \A v, u \in TxOf[t] :
       v.input = u.input /\ v.output = u.output /\ DOMAIN v.witness = DOMAIN u.witness
  /\ \A t \in Txid : \A v \in TxOf[t] : \A i \in DOMAIN v.output : i - 1 \in Vout
  /\ Told \subseteq OutPoint \X Spk
  /\ \A x, y \in Told : x[1] = y[1] => x[2] = y[2]
  /\ \A x \in Told : \A v \in TxOf[x[1][1]] :
       \E i \in DOMAIN v.output : x = Outputs(x[1][1], v)[i]

ASSUME InputAssumption ==
  /\ Batches \subseteq Seq(Txid)
  /\ \A u \in Updates :
       /\ u.txs \subseteq Txid \X Tx /\ \A x \in u.txs : x[2] \in TxOf[x[1]]
       /\ u.anchors \subseteq Block \X Txid
       /\ u.seen_ats \subseteq Txid \X Time /\ u.evicted_ats \subseteq Txid \X Time
       /\ IsFiniteSet(u.txs)
  /\ MaxOps \in Nat

(* No two keychains share a descriptor: insert_descriptor refuses that. *)
ASSUME KeychainAssumption ==
  /\ IsFiniteSet(Keychain)
  /\ None \notin Descriptor /\ None \notin Nat /\ None \notin Position
  /\ DescriptorOf \in [Keychain -> Descriptor]
  /\ \A j, k \in Keychain : DescriptorOf[j] = DescriptorOf[k] => j = k

VARIABLES
  wallet,   \* the graph and the index in memory
  stage,    \* merged change sets not persisted yet
  file,     \* the change sets persisted, merged
  db,       \* the SQLite tables and their schema
  running,  \* "closed" until loaded, "open", or "panicked"
  ops       \* operations so far

vars == <<wallet, stage, file, db, running, ops>>

(* The database may have been created by an older release. *)
Init ==
  /\ wallet = EmptyWallet /\ stage = EmptyWalletChangeSet /\ file = EmptyWalletChangeSet
  /\ \E v \in {None} \cup (0 .. LastScript) :
       db = [tables |-> EmptyTables, version |-> v,
             executed |-> [i \in 0 .. LastScript |-> IF v # None /\ i <= v THEN 1 ELSE 0]]
  /\ running = "closed" /\ ops = 0

(* Loading: the index takes its change set, then the descriptors, then the   *)
(* graph is indexed again in the order of a hash map.  What that reveals is  *)
(* handed out as a change set.                                               *)
WithDescriptors(index) ==
  Fold(LAMBDA ix, k : InsertDescriptor(ix, k, DescriptorOf[k]), index, Listing(Keychain))

FromChangeset(cs, order) ==
  Reindex([graph |-> ApplyChangeSet(EmptyGraph, cs.tx_graph),
           index |-> WithDescriptors(ApplyIndexChangeset(EmptyIndex, cs.indexer))], order)

LoadOrders(cs) ==
  LET ids == {x[1] : x \in cs.tx_graph.txs}
  IN {order \in [1 .. Cardinality(ids) -> ids] : \A t \in ids : \E i \in DOMAIN order : order[i] = t}

Load ==
  /\ db' = MigrateSchema(db)
  /\ \E cs \in {file, FromSqlite(db.tables)} : \E order \in LoadOrders(cs) :
       \E loaded \in {FromChangeset(cs, order)} : wallet' = loaded.w /\ stage' = loaded.cs
  /\ running' = "open"
  /\ UNCHANGED <<file, ops>>

Open == running = "closed" /\ Load

(* The process stops and starts again. *)
Restart == running # "closed" /\ Load

Persist ==
  /\ running = "open"
  /\ stage # EmptyWalletChangeSet
  /\ file' = MergeWalletChangeSets(file, stage)
  /\ \E raw \in RawChoices(stage.tx_graph) :
       db' = [db EXCEPT !.tables = PersistToSqlite(@, stage, raw)]
  /\ stage' = EmptyWalletChangeSet
  /\ UNCHANGED <<wallet, running, ops>>

(* An operation: its change set goes to the stage.  One that changes nothing *)
(* is left out: it would only use up the bound.                              *)
Active == running = "open" /\ ops < MaxOps
Operate(result) ==
  /\ Active
  /\ \E r \in {result} :
       /\ r.w # wallet
       /\ wallet' = r.w
       /\ stage' = MergeWalletChangeSets(stage, r.cs)
  /\ ops' = ops + 1
  /\ UNCHANGED <<file, db, running>>

(* Revealing the greatest index panics after the index was marked revealed. *)
RevealNextAddress(k) ==
  IF RevealPanics(wallet.index, k)
  THEN /\ Active
       /\ wallet' = IndexOnly(wallet, RevealNext(Start(wallet.index), k)).w
       /\ running' = "panicked"
       /\ UNCHANGED <<stage, file, db, ops>>
  ELSE Operate(IndexOnly(wallet, RevealNextSpk(wallet.index, k)))

NextUnusedAddress(k) ==
  IF UnusedSpks(wallet.index, k) = {} THEN RevealNextAddress(k)
  ELSE Operate(IndexOnly(wallet, NextUnusedSpk(wallet.index, k)))

RevealTo(k, i) ==
  /\ i < BIP32_MAX_INDEX
  /\ Operate(IndexOnly(wallet, RevealToTarget(wallet.index, k, i)))

LookaheadTo(k, i) == Operate(IndexOnly(wallet, LookaheadToTarget(wallet.index, k, i)))

MarkAddressUsed(p) == Operate(IndexOnly(wallet, Start(MarkUsed(wallet.index, p))))
UnmarkAddressUsed(p) == Operate(IndexOnly(wallet, Start(UnmarkUsed(wallet.index, p))))

InsertTransaction(t, tx) == Operate(Indexed(wallet, InsertTx(wallet.graph, t, tx)))
InsertOutput(op, spk) == Operate(Indexed(wallet, InsertTxOut(wallet.graph, op, spk)))
AnchorTransaction(t, b) == Operate(GraphOnly(wallet, InsertAnchor(wallet.graph, t, b)))
SeeTransaction(t, at) == Operate(GraphOnly(wallet, InsertSeenAt(wallet.graph, t, at)))
EvictTransaction(t, at) == Operate(GraphOnly(wallet, InsertEvictedAt(wallet.graph, t, at)))
EvictRelevant(ts, at) == Operate(GraphOnly(wallet, BatchInsertRelevantEvictedAt(wallet.graph, ts, at)))
ApplyUpdate(update) == Operate(Indexed(wallet, ApplyTxUpdate(wallet.graph, update)))

InsertUnconfirmed(txs, at) ==
  Operate(Indexed(wallet, BatchInsertUnconfirmed(wallet.graph, [i \in DOMAIN txs |-> Append(txs[i], at)])))
InsertRelevant(txs, b) == Operate(BatchInsertRelevant(wallet, txs, b))
InsertRelevantUnconfirmed(txs, at) == Operate(BatchInsertRelevantUnconfirmed(wallet, txs, at))
ApplyRelevantBlock(txs, b) == Operate(ApplyBlockRelevant(wallet, txs, b))
ApplyWholeBlock(txs, b) == Operate(ApplyBlock(wallet, txs, b))

AddressStep ==
  \/ \E k \in Keychain :
       \/ RevealNextAddress(k)
       \/ NextUnusedAddress(k)
       \/ \E i \in 0 .. BIP32_MAX_INDEX : RevealTo(k, i) \/ LookaheadTo(k, i)
  \/ \E p \in Position : MarkAddressUsed(p) \/ UnmarkAddressUsed(p)

GraphStep ==
  \/ \E t \in Txid : \E tx \in TxOf[t] : InsertTransaction(t, tx)
  \/ \E x \in Floating : InsertOutput(x[1], x[2])
  \/ \E t \in Txid, b \in Block : AnchorTransaction(t, b)
  \/ \E t \in Txid, at \in Time : SeeTransaction(t, at) \/ EvictTransaction(t, at)
  \/ \E at \in Time : EvictRelevant(Txid, at)
  \/ \E update \in Updates : ApplyUpdate(update)

BatchStep ==
  \E batch \in Batches : \E tx \in [DOMAIN batch -> UNION {TxOf[t] : t \in Txid}] :
    LET txs == [i \in DOMAIN batch |-> <<batch[i], tx[i]>>]
    IN /\ \A i \in DOMAIN batch : tx[i] \in TxOf[batch[i]]
       /\ \/ \E at \in Time : InsertUnconfirmed(txs, at) \/ InsertRelevantUnconfirmed(txs, at)
          \/ \E b \in Block : InsertRelevant(txs, b) \/ ApplyRelevantBlock(txs, b) \/ ApplyWholeBlock(txs, b)

Next ==
  \/ Open \/ Restart \/ Persist
  \/ Active /\ (AddressStep \/ GraphStep \/ BatchStep)
Spec == Init /\ [][Next]_vars

-----------------------------------------------------------------------------
(* The facts a change set states.  A time stands for all the earlier ones;   *)
(* an output is the same fact with and without its transaction.              *)
Until(tag, times) ==
  UNION {{<<tag, t, at>> : at \in {x \in Time : times[t] # None /\ x <= times[t]}} : t \in Txid}
Facts(cs) ==
  LET whole == {x[1] : x \in cs.txs}
  IN {<<"tx", t>> : t \in whole}
       \cup (UNION {{<<"txout", <<x[1], i - 1>>, x[2].output[i]>> : i \in DOMAIN x[2].output} : x \in cs.txs})
       \cup {<<"txout", x[1], x[2]>> : x \in {y \in Entries(cs.txouts) : y[1][1] \notin whole}}
       \cup {<<"anchor", x[2], x[1]>> : x \in cs.anchors}
       \cup Until("seen", cs.last_seen) \cup Until("evicted", cs.last_evicted)

Addresses(last_revealed) ==
  {a \in Descriptor \X (0 .. BIP32_MAX_INDEX) :
     last_revealed[a[1]] # None /\ a[2] <= last_revealed[a[1]]}

(* The wallet with its stores keeps the promises of DurableWallet: every     *)
(* operation's change set carries all that the operation changed, so that    *)
(* saving makes it durable and a crash loses only what was still staged.     *)
Durable == INSTANCE DurableWallet WITH
  known <- Facts(InitialChangeSet(wallet.graph)),
  revealed <- Addresses(wallet.index.last_revealed),
  saved <- Facts(file.tx_graph), savedRevealed <- Addresses(file.indexer.last_revealed)
ImplementsDurable == Durable!DSpec

(* The SQLite tables, whose rows are overwritten, say the same as the merge  *)
(* of all change sets, and with the stage the same as initial_changeset says *)
(* of the running wallet.  Not compared: the witness of a transaction, of    *)
(* which a row keeps another version than memory does, and the first         *)
(* sighting, which no reload reads.                                          *)
EncodingsAgree ==
  /\ Facts(FromSqlite(db.tables).tx_graph) = Facts(file.tx_graph)
  /\ FromSqlite(db.tables).indexer = file.indexer
  /\ running = "open" =>
       /\ \A i \in 0 .. LastScript : db.executed[i] = 1
       /\ Facts(InitialWalletChangeSet(wallet).tx_graph)
            = Facts(MergeWalletChangeSets(file, stage).tx_graph)

(* An address that next_unused_spk hands out has no output the index knows,  *)
(* whatever was marked, unmarked, revealed, received and reloaded before     *)
(* (a descriptor without a wildcard has one address for all).                *)
FreshAddressUnpaid ==
  running = "open" =>
    \A k \in Keychain :
      /\ wallet.index.descriptor[k] \in Wildcard
      /\ wallet.index.last_revealed[wallet.index.descriptor[k]] # BIP32_MAX_INDEX
      => OutputsAt(wallet.index, NextUnusedPosition(wallet.index, k)) = {}

(* The scripts of all revealed addresses, and of as many beyond as the       *)
(* lookahead says, are watched, whichever way the addresses were revealed    *)
(* and also after a reload.  The greatest index is the exception: it is      *)
(* never derived.                                                            *)
LookaheadWatched ==
  running = "open" =>
    \A k \in Keychain :
      LET d == wallet.index.descriptor[k]
      IN \A i \in 0 .. BIP32_MAX_INDEX - 1 :
           (IF d \in Wildcard THEN i < NextReveal(wallet.index, d) + Lookahead ELSE i = 0)
             => <<k, i>> \in wallet.index.spks

=============================================================================
