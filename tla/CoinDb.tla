------------------------------- MODULE CoinDb -------------------------------
(***************************************************************************)
(* The MWEB coin database (crates/mweb, coin_db.rs) and its changeset      *)
(* (changeset.rs, sqlite.rs) as operators.  A book of coins has an unspent *)
(* and a spent side, each a partial map from output ids to coins; the      *)
(* database, the staged changeset, a merged changeset and the SQLite table *)
(* are all books.  Of a coin only the two fields that change after the     *)
(* scan are kept: its block_height and its leaf_index.                     *)
(***************************************************************************)
EXTENDS Naturals

CONSTANTS
  OutputId,    \* ids of the outputs the wallet owns
  CoinHeight,  \* block heights a coin can be tagged with
  Leaf,        \* PMMR leaf indices
  None         \* Option::None, no entry

ASSUME CoinAssumption ==
  /\ CoinHeight \subseteq Nat
  /\ None \notin CoinHeight \cup Leaf

Coin == [block_height : CoinHeight \cup {None}, leaf_index : Leaf \cup {None}]

(* A coin is a record, so no coin is None. *)
ASSUME NoneIsNoCoin == None \notin Coin

Side == [OutputId -> Coin \cup {None}]
Book == [coins : Side, spent : Side]
EmptyBook == [coins |-> [id \in OutputId |-> None], spent |-> [id \in OutputId |-> None]]

(* An output is spent or unspent, not both. *)
Disjoint(b) == \A id \in OutputId : b.coins[id] = None \/ b.spent[id] = None

-----------------------------------------------------------------------------
(* MwebCoinDatabase: the effect of each mutation on a book. *)

(* insert, on the database and on what is staged. *)
PutUnspent(b, id, coin) ==
  [coins |-> [b.coins EXCEPT ![id] = coin], spent |-> [b.spent EXCEPT ![id] = None]]

(* mark_spent, on the database and on what is staged. *)
PutSpent(b, id, coin) ==
  [coins |-> [b.coins EXCEPT ![id] = None], spent |-> [b.spent EXCEPT ![id] = coin]]

(* The entries that disconnect_from(height) touches. *)
IsAtOrAbove(coin, height) ==
  coin # None /\ coin.block_height # None /\ coin.block_height >= height

Undated(coin) == [coin EXCEPT !.block_height = None]

ClearHeights(side, height) ==
  [id \in OutputId |-> IF IsAtOrAbove(side[id], height) THEN Undated(side[id])
                       ELSE side[id]]
Disconnect(b, height) ==
  [coins |-> ClearHeights(b.coins, height), spent |-> ClearHeights(b.spent, height)]

-----------------------------------------------------------------------------
(* ChangeSet. *)

(* Merge: a later unspent entry does not undo a spend, a later spend wins. *)
MergeChangeSets(b, other) ==
  [coins |-> [id \in OutputId |->
                IF other.spent[id] # None THEN None
                ELSE IF other.coins[id] # None /\ b.spent[id] = None THEN other.coins[id]
                ELSE b.coins[id]],
   spent |-> [id \in OutputId |->
                IF other.spent[id] # None THEN other.spent[id] ELSE b.spent[id]]]

(* from_changeset: apply_changeset on an empty database. *)
FromChangeset(cs) ==
  [coins |-> [id \in OutputId |-> IF cs.spent[id] # None THEN None ELSE cs.coins[id]],
   spent |-> cs.spent]

(* persist_to_sqlite: one row per output id, replaced by whatever comes last. *)
PersistToSqlite(table, cs) ==
  [coins |-> [id \in OutputId |->
                IF cs.spent[id] # None THEN None
                ELSE IF cs.coins[id] # None THEN cs.coins[id] ELSE table.coins[id]],
   spent |-> [id \in OutputId |->
                IF cs.spent[id] # None THEN cs.spent[id]
                ELSE IF cs.coins[id] # None THEN None ELSE table.spent[id]]]
=============================================================================
