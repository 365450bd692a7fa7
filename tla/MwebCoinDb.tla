----------------------------- MODULE MwebCoinDb -----------------------------
(***************************************************************************)
(* MwebCoinDatabase (crates/mweb, coin_db.rs) with the store it is written *)
(* to, either a bdk_file_store, whose records are merged on load, or the   *)
(* SQLite table.  memory is the database in memory, staged what changed   *)
(* since the last write, stored what loading gives.                        *)
(***************************************************************************)
EXTENDS CoinDb

CONSTANTS
  Backend,     \* "file" or "sqlite"
  MayUnspend   \* whether a scan may meet an output that was marked spent before

ASSUME BackendAssumption ==
  /\ Backend \in {"file", "sqlite"}
  /\ MayUnspend \in BOOLEAN

VARIABLES memory, staged, stored

bookVars == <<memory, staged, stored>>

BookInit == memory = EmptyBook /\ staged = EmptyBook /\ stored = EmptyBook

(* MwebCoinDatabase::insert: a scanned output (scan_outputs_at,              *)
(* scan_utxo_entries_at).  After a reorg the output may be one marked spent. *)
Insert(id, coin) ==
  /\ ~MayUnspend => memory.spent[id] = None
  /\ memory' = PutUnspent(memory, id, coin)
  /\ staged' = PutUnspent(staged, id, coin)
  /\ UNCHANGED stored

(* MwebCoinDatabase::mark_spent. *)
MarkSpent(id) ==
  /\ memory.coins[id] # None
  /\ memory' = PutSpent(memory, id, memory.coins[id])
  /\ staged' = PutSpent(staged, id, memory.coins[id])
  /\ UNCHANGED stored

(* MwebCoinDatabase::mark_spent_by_leaf_index; with several coins at the leaf *)
(* it takes the first in the order of the ids, which are hashes.              *)
MarkSpentByLeafIndex(leaf) ==
  \E id \in OutputId :
    /\ memory.coins[id] # None
    /\ memory.coins[id].leaf_index = leaf
    /\ MarkSpent(id)

(* Faulty variant: a disconnect is not staged. *)
StagedNothing(side, stagedSide, height) == stagedSide

(* MwebCoinDatabase::disconnect_from. *)
StagedByDisconnect(side, stagedSide, height) ==
  [id \in OutputId |-> IF IsAtOrAbove(side[id], height) THEN Undated(side[id])
                       ELSE stagedSide[id]]

DisconnectFrom(height) ==
  /\ memory' = Disconnect(memory, height)
  /\ staged' = [coins |-> StagedByDisconnect(memory.coins, staged.coins, height),
                spent |-> StagedByDisconnect(memory.spent, staged.spent, height)]
  /\ UNCHANGED stored

(* The rest of set_block_height and set_leaf_index. *)
Retag(id, coin) ==
  /\ memory' = [memory EXCEPT !.coins[id] = coin]
  /\ staged' = [staged EXCEPT !.coins[id] = coin]
  /\ UNCHANGED stored

SetBlockHeight(id, height) ==
  /\ memory.coins[id] # None
  /\ Retag(id, [memory.coins[id] EXCEPT !.block_height = height])

SetLeafIndex(id, leaf) ==
  /\ memory.coins[id] # None
  /\ Retag(id, [memory.coins[id] EXCEPT !.leaf_index = leaf])

(* take_staged, then Store::append or persist_to_sqlite. *)
Save(book, cs) ==
  IF Backend = "file" THEN MergeChangeSets(book, cs) ELSE PersistToSqlite(book, cs)
Persist ==
  /\ stored' = Save(stored, staged)
  /\ staged' = EmptyBook
  /\ UNCHANGED memory

(* The process stops at any moment and loads what was written. *)
Reload ==
  /\ memory' = FromChangeset(stored)
  /\ staged' = EmptyBook
  /\ UNCHANGED stored

BookNext ==
  \/ \E id \in OutputId, coin \in Coin : Insert(id, coin)
  \/ \E id \in OutputId : MarkSpent(id)
  \/ \E leaf \in Leaf : MarkSpentByLeafIndex(leaf)
  \/ \E height \in CoinHeight : DisconnectFrom(height)
  \/ \E id \in OutputId, height \in CoinHeight : SetBlockHeight(id, height)
  \/ \E id \in OutputId, leaf \in Leaf : SetLeafIndex(id, leaf)
  \/ Persist
  \/ Reload

BookSpec == BookInit /\ [][BookNext]_bookVars

-----------------------------------------------------------------------------
(* Properties. *)

TypeOK == memory \in Book /\ staged \in Book /\ stored \in Book

(* Every coin is on one side only, in memory, staged and stored: a balance    *)
(* never counts an output that is also marked spent.                          *)
NeverOnBothSides == Disjoint(memory) /\ Disjoint(staged) /\ Disjoint(stored)

(* Writing what is staged now and loading the store again would give the      *)
(* database in memory: every mutation stages what it changes, and the store   *)
(* merges it as the database did.                                             *)
ReloadMatches == FromChangeset(Save(stored, staged)) = memory
=============================================================================
