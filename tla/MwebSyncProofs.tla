--------------------------- MODULE MwebSyncProofs ---------------------------
(***************************************************************************)
(* MwebSyncer::run_once for every block tree, every batch size and every   *)
(* window.  A pass is right because of what earlier passes, also those     *)
(* that broke off, have left in the sync state and in the database: the    *)
(* invariant says what the leafset and the cursor stand for.               *)
(***************************************************************************)
EXTENDS MwebSync, MwebCoinDb, NatFacts

(* Where a pass works, or where the next one will. *)
Resting == pc \in {"idle", "done"}
Underway == pc \in {"sample", "leafset", "fetch"}
Here == IF Resting THEN best ELSE tip

(* b is a or a block above it. *)
Extends(a, b) ==
  /\ a \in Blocks /\ b \in Blocks
  /\ HeightOf(a) <= HeightOf(b) /\ BlockAt(b, HeightOf(a)) = a

SyncState ==
  [tip_hash : Blocks \cup {None}, tip_height : Nat \cup {None},
   leafset : {Unspent[b] : b \in Blocks} \cup {None},
   height_map : [Heights -> Nat \cup {None}],
   pending_tip_hash : Blocks \cup {None}, utxo_cursor : Leaf \cup {None}]

TypesHold ==
  /\ setup \in Setups /\ best \in Blocks
  /\ hashes \in [Heights -> Blocks \cup {None}]
  /\ st \in SyncState /\ db \in Book
  /\ pc \in {"idle", "prepare", "sample", "leafset", "fetch", "done"}
  /\ ~Resting => tip \in Blocks
  /\ todo \subseteq Leaf /\ resume \in Leaf \cup {None}
  /\ fetched \subseteq Leaf /\ withheld \subseteq Leaf
  /\ saved \in [st : SyncState, db : Book, withheld : SUBSET Leaf]

(* A fixed provider knows nothing but blocks of its tip's branch, because it  *)
(* is renewed where the chain reorganises.                                    *)
HashesHold == ~Live => \A i \in Heights : hashes[i] \in {None, BlockAt(best, i)}

(* The leaf at which a book has an unspent coin. *)
LeafAt(book, id) == IF book.coins[id] = None THEN None ELSE book.coins[id].leaf_index

(* If the output at a leaf of b is owned, the book has it at that leaf. *)
Held(book, b, leaf) == OutputAt(b, leaf) \in OutputId => LeafAt(book, OutputAt(b, leaf)) = leaf

(* The leafset is that of the last tip. *)
BaselineHolds(s) ==
  IF s.tip_hash = None THEN s.leafset = None
  ELSE s.tip_height = HeightOf(s.tip_hash) /\ s.leafset = Leafset(s.tip_hash)

(* What the leafset and the cursor say was fetched is in the book, except the *)
(* leaves that were passed over and what an attempt has found to be spent     *)
(* since.                                                                     *)
Progress(s, book, b, tried, passed) ==
  /\ BaselineHolds(s)
  /\ \A leaf \in LeavesOf(s.leafset) :
       Held(book, s.tip_hash, leaf) \/ leaf \in passed \/ (tried /\ leaf \notin Unspent[b])
  /\ s.utxo_cursor # None =>
       /\ tried /\ s.utxo_cursor < MmrSize(b)
       /\ \A leaf \in Unspent[b] :
            leaf <= s.utxo_cursor => Held(book, b, leaf) \/ leaf \in passed

(* b is on the branch of the last tip. *)
Rooted(s, b) == s.tip_hash # None => Extends(s.tip_hash, b)

ProgressHolds ==
  /\ Progress(st, db, Here, setup.fail \/ pc = "fetch", withheld)
  /\ setup.forks = {} => Rooted(st, Here)
  /\ setup.fail =>
       Progress(saved.st, saved.db, best, TRUE, saved.withheld) /\ Rooted(saved.st, best)

(* A pass works on the branch of the provider, above the last tip unless it   *)
(* has dropped the leafset, and has what it need not fetch any more and was   *)
(* not refused.                                                               *)
PassHolds ==
  /\ setup.forks = {} /\ ~Resting => Extends(tip, best)
  /\ ~Live /\ ~Resting => tip = best
  /\ Underway => Rooted(st, tip)
  /\ pc = "fetch" =>
       /\ todo \subseteq Added
       /\ \A leaf \in Unspent[tip] : leaf \in todo \/ Held(db, tip, leaf) \/ leaf \in withheld
  /\ pc = "done" =>
       /\ st.tip_hash # None
       /\ \A leaf \in Unspent[st.tip_hash] : Held(db, st.tip_hash, leaf) \/ leaf \in withheld

FetchInv == TypesHold /\ HashesHold /\ ProgressHolds /\ PassHolds

-----------------------------------------------------------------------------
(* Blocks. *)

LEMMA BlockFacts ==
  ASSUME NEW b \in Blocks
  PROVE  /\ b # None /\ HeightOf(b) \in Nat /\ HeightOf(b) \in Heights
         /\ MmrSize(b) \in Nat
         /\ \A leaf \in Unspent[b] : leaf \in Leaf /\ leaf \in Nat /\ leaf < MmrSize(b)
         /\ LeavesOf(Leafset(b)) = Unspent[b]
         /\ Leafset(b) \in {Unspent[c] : c \in Blocks} \cup {None}
         /\ Leafset(b) = None <=> MmrSize(b) = 0
<1>1. /\ b # None /\ HeightOf(b) \in Nat /\ MmrSize(b) \in Nat /\ Unspent[b] # None
      /\ Unspent[b] \subseteq {leaf \in Leaf : leaf < MmrSize(b)}
      /\ Leaf \subseteq Nat
  BY ChainAssumption
<1>2. HeightOf(b) \in Heights BY DEF Heights
<1>3. MmrSize(b) = 0 => Unspent[b] = {}
  <2> SUFFICES ASSUME MmrSize(b) = 0, NEW leaf \in Unspent[b] PROVE FALSE OBVIOUS
  <2>1. leaf \in Nat /\ leaf < 0 BY <1>1
  <2> QED BY <2>1
<1> QED BY <1>1, <1>2, <1>3 DEF LeavesOf, Leafset

(* None is nothing else. *)
LEMMA NoneFacts ==
  /\ None \notin Blocks /\ None \notin Nat /\ None \notin Leaf /\ Leaf \subseteq Nat
  /\ Heights \subseteq Nat /\ Heights \subseteq CoinHeight
  /\ \A b \in Blocks : Unspent[b] # None
<1>1. /\ None \notin Blocks /\ None \notin Nat /\ Leaf \subseteq Nat /\ Heights \subseteq CoinHeight
      /\ \A b \in Blocks : Unspent[b] # None
  BY ChainAssumption
<1>2. \A b \in Blocks : HeightOf(b) \in Nat BY BlockFacts
<1>3. Heights \subseteq Nat BY <1>2 DEF Heights
<1> QED BY <1>1, <1>3

(* The owned unspent outputs of a block are distinct. *)
LEMMA IdsAreUnique ==
  ASSUME NEW b \in Blocks, NEW l \in Unspent[b], NEW m \in Unspent[b],
         OutputAt(b, l) = OutputAt(b, m), OutputAt(b, l) \in OutputId
  PROVE  l = m
BY ChainAssumption

LEMMA ExtendsItself ==
  ASSUME NEW b \in Blocks
  PROVE  Extends(b, b)
BY BlockFacts, ChainAssumption DEF Extends

LEMMA ExtendsFacts ==
  ASSUME NEW a, NEW b, Extends(a, b)
  PROVE  /\ a \in Blocks /\ b \in Blocks /\ HeightOf(a) <= HeightOf(b)
         /\ MmrSize(a) <= MmrSize(b)
         /\ \A leaf \in Nat : leaf < MmrSize(a) =>
              /\ OutputAt(a, leaf) = OutputAt(b, leaf)
              /\ leaf \in Unspent[b] => leaf \in Unspent[a]
         /\ \A i \in Nat : i <= HeightOf(a) => BlockAt(b, i) = BlockAt(a, i)
<1> DEFINE h == HeightOf(a)
<1>1. /\ a \in Blocks /\ b \in Blocks /\ h <= HeightOf(b) /\ BlockAt(b, h) = a BY DEF Extends
<1>2. h \in Nat /\ HeightOf(b) \in Nat /\ MmrSize(a) \in Nat /\ MmrSize(b) \in Nat BY <1>1, BlockFacts
<1> HIDE DEF h
<1>3. h \in 0 .. HeightOf(b) BY <1>1, <1>2
<1>4. LET x == BlockAt(b, h)
      IN /\ \A j \in 0 .. h : BlockAt(x, j) = BlockAt(b, j)
         /\ MmrSize(x) <= MmrSize(b)
         /\ \A leaf \in 0 .. MmrSize(x) - 1 :
              /\ OutputAt(x, leaf) = OutputAt(b, leaf)
              /\ leaf \in Unspent[b] => leaf \in Unspent[x]
  BY <1>1, <1>3, ChainAssumption
<1>5. /\ \A j \in 0 .. h : BlockAt(a, j) = BlockAt(b, j)
      /\ MmrSize(a) <= MmrSize(b)
      /\ \A leaf \in 0 .. MmrSize(a) - 1 :
           /\ OutputAt(a, leaf) = OutputAt(b, leaf)
           /\ leaf \in Unspent[b] => leaf \in Unspent[a]
  BY <1>1, <1>4
<1>6. \A leaf \in Nat : leaf < MmrSize(a) => leaf \in 0 .. MmrSize(a) - 1 BY <1>2
<1>7. \A i \in Nat : i <= h => i \in 0 .. h BY <1>2
<1> QED BY <1>1, <1>5, <1>6, <1>7 DEF h

LEMMA ExtendsIsTransitive ==
  ASSUME NEW a, NEW b, NEW c, Extends(a, b), Extends(b, c)
  PROVE  Extends(a, c)
<1>1. /\ a \in Blocks /\ b \in Blocks /\ c \in Blocks
      /\ HeightOf(a) <= HeightOf(b) /\ HeightOf(b) <= HeightOf(c)
      /\ \A i \in Nat : i <= HeightOf(b) => BlockAt(c, i) = BlockAt(b, i)
  BY ExtendsFacts
<1>2. HeightOf(a) \in Nat /\ HeightOf(b) \in Nat /\ HeightOf(c) \in Nat BY <1>1, BlockFacts
<1>3. BlockAt(b, HeightOf(a)) = a BY DEF Extends
<1> QED BY <1>1, <1>2, <1>3 DEF Extends

-----------------------------------------------------------------------------
(* Books. *)

LEMMA LeafAtType ==
  ASSUME NEW book \in Book, NEW id \in OutputId
  PROVE  /\ book.coins[id] \in Coin \cup {None} /\ book.spent[id] \in Coin \cup {None}
         /\ LeafAt(book, id) \in Leaf \cup {None}
         /\ book.coins[id] # None => book.coins[id].leaf_index = LeafAt(book, id)
<1>1. book.coins[id] \in Coin \cup {None} /\ book.spent[id] \in Coin \cup {None}
  BY DEF Book, Side
<1> QED BY <1>1 DEF LeafAt, Coin

LEMMA SpendAllFacts ==
  ASSUME NEW book \in Book, NEW ids \in SUBSET OutputId
  PROVE  /\ SpendAll(book, ids) \in Book
         /\ \A id \in OutputId :
              LeafAt(SpendAll(book, ids), id) = IF id \in ids THEN None ELSE LeafAt(book, id)
<1>1. book.coins \in [OutputId -> Coin \cup {None}] /\ book.spent \in [OutputId -> Coin \cup {None}]
  BY DEF Book, Side
<1> QED BY <1>1 DEF SpendAll, Book, Side, LeafAt

LEMMA ClearHeightsFacts ==
  ASSUME NEW side \in Side, NEW h \in Nat
  PROVE  /\ ClearHeights(side, h) \in Side
         /\ \A id \in OutputId :
              /\ ClearHeights(side, h)[id] = None <=> side[id] = None
              /\ side[id] # None => ClearHeights(side, h)[id].leaf_index = side[id].leaf_index
<1>1. ASSUME NEW id \in OutputId, IsAtOrAbove(side[id], h)
      PROVE  /\ Undated(side[id]) \in Coin /\ Undated(side[id]) # None /\ side[id] # None
             /\ Undated(side[id]).leaf_index = side[id].leaf_index
  <2>1. side[id] \in Coin BY <1>1 DEF Side, IsAtOrAbove
  <2>2. Undated(side[id]) \in Coin /\ Undated(side[id]).leaf_index = side[id].leaf_index
    BY <2>1 DEF Undated, Coin
  <2> QED BY <1>1, <2>2, NoneIsNoCoin DEF IsAtOrAbove
<1>2. \A id \in OutputId : ClearHeights(side, h)[id] =
        IF IsAtOrAbove(side[id], h) THEN Undated(side[id]) ELSE side[id]
  BY DEF ClearHeights
<1>3. \A id \in OutputId : side[id] \in Coin \cup {None} BY DEF Side
<1>4. ClearHeights(side, h) \in Side BY <1>1, <1>3 DEF ClearHeights, Side
<1> QED BY <1>1, <1>2, <1>4

LEMMA DisconnectFacts ==
  ASSUME NEW book \in Book, NEW h \in Nat
  PROVE  /\ Disconnect(book, h) \in Book
         /\ \A id \in OutputId : LeafAt(Disconnect(book, h), id) = LeafAt(book, id)
<1>1. book.coins \in Side /\ book.spent \in Side BY DEF Book
<1>2. ClearHeights(book.coins, h) \in Side /\ ClearHeights(book.spent, h) \in Side
  BY <1>1, ClearHeightsFacts
<1>3. Disconnect(book, h).coins = ClearHeights(book.coins, h) BY DEF Disconnect
<1>4. Disconnect(book, h) \in Book BY <1>2 DEF Disconnect, Book
<1>5. ASSUME NEW id \in OutputId PROVE LeafAt(Disconnect(book, h), id) = LeafAt(book, id)
  BY <1>1, <1>3, ClearHeightsFacts DEF LeafAt
<1> QED BY <1>4, <1>5

(* A block height in the map that tells the leaf apart, or the given one. *)
LEMMA DateFacts ==
  ASSUME NEW map \in [Heights -> Nat \cup {None}], NEW leaf \in Leaf, NEW h \in Heights
  PROVE  LET d == DateLeafIndex(map, leaf, h)
         IN d \in Heights /\ (d = h \/ (map[d] # None /\ map[d] > leaf))
<1> DEFINE above == {i \in Heights : map[i] # None /\ map[i] > leaf}
<1>1. CASE above = {} BY <1>1 DEF DateLeafIndex
<1>2. CASE above # {}
  <2>1. above \subseteq Nat BY NoneFacts
  <2>2. \E m \in above : \A k \in above : m <= k BY <1>2, <2>1, LeastNatural
  <2>3. Min(above) \in above BY <2>2 DEF Min
  <2>4. DateLeafIndex(map, leaf, h) = Min(above) BY <1>2 DEF DateLeafIndex
  <2> QED BY <2>3, <2>4
<1> QED BY <1>1, <1>2

LEMMA ScanFacts ==
  ASSUME NEW book \in Book, NEW leaves, tip \in Blocks, leaves \subseteq Unspent[tip],
         st.height_map \in [Heights -> Nat \cup {None}]
  PROVE  /\ Scan(book, leaves) \in Book
         /\ \A l \in leaves : OutputAt(tip, l) \in OutputId =>
              LeafAt(Scan(book, leaves), OutputAt(tip, l)) = l
         /\ \A id \in OutputId :
              (\A l \in leaves : OutputAt(tip, l) # id) => LeafAt(Scan(book, leaves), id) = LeafAt(book, id)
<1> DEFINE LeafOf(id) == {l \in leaves : OutputAt(tip, l) = id}
           h == HeightOf(tip)
           Entry(id) == [leaf_index |-> Max(LeafOf(id)),
                         block_height |-> DateLeafIndex(st.height_map, Max(LeafOf(id)), h)]
           new == [id \in OutputId |-> IF LeafOf(id) # {} THEN Entry(id) ELSE book.coins[id]]
           old == [id \in OutputId |-> IF LeafOf(id) # {} THEN None ELSE book.spent[id]]
<1>1. Scan(book, leaves) = [coins |-> new, spent |-> old] BY DEF Scan
<1>2. h \in Heights /\ \A l \in leaves : l \in Leaf /\ l \in Nat BY BlockFacts
<1>3. ASSUME NEW id \in OutputId, NEW l \in LeafOf(id)
      PROVE  Max(LeafOf(id)) = l
  <2>1. LeafOf(id) = {l} BY <1>3, IdsAreUnique
  <2>2. l \in Nat BY <1>2
  <2> HIDE DEF LeafOf
  <2> QED BY <2>1, <2>2 DEF Max
<1>4. ASSUME NEW id \in OutputId, NEW l \in LeafOf(id)
      PROVE  Entry(id) \in Coin /\ Entry(id).leaf_index = l /\ Entry(id) # None
  <2>1. Max(LeafOf(id)) = l /\ l \in Leaf BY <1>2, <1>3
  <2>2. DateLeafIndex(st.height_map, l, h) \in CoinHeight BY <1>2, <2>1, DateFacts, NoneFacts
  <2>3. Entry(id) \in Coin BY <2>1, <2>2 DEF Coin
  <2> QED BY <2>1, <2>3, NoneIsNoCoin
<1> HIDE DEF Entry
<1>5. \A id \in OutputId : book.coins[id] \in Coin \cup {None} /\ book.spent[id] \in Coin \cup {None}
  BY LeafAtType
<1>6. new \in Side /\ old \in Side BY <1>4, <1>5 DEF Side
<1>7. Scan(book, leaves) \in Book BY <1>1, <1>6 DEF Book
<1>8. ASSUME NEW l \in leaves, OutputAt(tip, l) \in OutputId
      PROVE  LeafAt(Scan(book, leaves), OutputAt(tip, l)) = l
  <2>1. l \in LeafOf(OutputAt(tip, l)) OBVIOUS
  <2>2. new[OutputAt(tip, l)] = Entry(OutputAt(tip, l)) BY <1>8, <2>1
  <2> QED BY <1>1, <1>4, <1>8, <2>1, <2>2 DEF LeafAt
<1>9. ASSUME NEW id \in OutputId, \A l \in leaves : OutputAt(tip, l) # id
      PROVE  LeafAt(Scan(book, leaves), id) = LeafAt(book, id)
  <2>1. LeafOf(id) = {} BY <1>9
  <2>2. new[id] = book.coins[id] BY <2>1
  <2> QED BY <1>1, <2>2 DEF LeafAt
<1> QED BY <1>7, <1>8, <1>9

LEMMA RedatedFacts ==
  ASSUME NEW book \in Book, tip \in Blocks, st.height_map \in [Heights -> Nat \cup {None}]
  PROVE  /\ Redated(book) \in Book
         /\ \A id \in OutputId : LeafAt(Redated(book), id) = LeafAt(book, id)
         /\ \A id \in OutputId : LeafAt(book, id) # None =>
              /\ Redated(book).coins[id] # None
              /\ Redated(book).coins[id].block_height
                   = DateLeafIndex(st.height_map, LeafAt(book, id), HeightOf(tip))
<1> DEFINE c == book.coins
           Dated(id) == [c[id] EXCEPT !.block_height =
                           DateLeafIndex(st.height_map, c[id].leaf_index, HeightOf(tip))]
           new == [id \in OutputId |->
                     IF c[id] # None /\ c[id].leaf_index # None THEN Dated(id) ELSE c[id]]
<1>1. Redated(book) = [book EXCEPT !.coins = new] BY DEF Redated
<1>2. c \in Side /\ book.spent \in Side BY DEF Book
<1>3. Redated(book) = [coins |-> new, spent |-> book.spent] BY <1>1 DEF Book
<1>4. ASSUME NEW id \in OutputId, c[id] # None, c[id].leaf_index # None
      PROVE  /\ Dated(id) \in Coin /\ Dated(id) # None
             /\ Dated(id).leaf_index = c[id].leaf_index
             /\ Dated(id).block_height = DateLeafIndex(st.height_map, c[id].leaf_index, HeightOf(tip))
  <2>1. c[id] \in Coin BY <1>2, <1>4 DEF Side
  <2>2. c[id].leaf_index \in Leaf BY <1>4, <2>1 DEF Coin
  <2>3. DateLeafIndex(st.height_map, c[id].leaf_index, HeightOf(tip)) \in CoinHeight
    BY <2>2, BlockFacts, DateFacts, NoneFacts
  <2>4. /\ Dated(id) \in Coin /\ Dated(id).leaf_index = c[id].leaf_index
        /\ Dated(id).block_height = DateLeafIndex(st.height_map, c[id].leaf_index, HeightOf(tip))
    BY <2>1, <2>3 DEF Coin
  <2> QED BY <2>4, NoneIsNoCoin
<1> HIDE DEF Dated
<1>5. \A id \in OutputId : c[id] \in Coin \cup {None} BY <1>2 DEF Side
<1>6. new \in Side BY <1>4, <1>5 DEF Side
<1>7. Redated(book) \in Book BY <1>2, <1>3, <1>6 DEF Book
<1>8. ASSUME NEW id \in OutputId PROVE LeafAt(Redated(book), id) = LeafAt(book, id)
  BY <1>3, <1>4, <1>5 DEF LeafAt
<1>9. ASSUME NEW id \in OutputId, LeafAt(book, id) # None
      PROVE  /\ Redated(book).coins[id] # None
             /\ Redated(book).coins[id].block_height
                  = DateLeafIndex(st.height_map, LeafAt(book, id), HeightOf(tip))
  <2>1. c[id] # None /\ c[id].leaf_index # None /\ LeafAt(book, id) = c[id].leaf_index
    BY <1>9 DEF LeafAt
  <2> QED BY <1>3, <1>4, <2>1
<1> QED BY <1>7, <1>8, <1>9

-----------------------------------------------------------------------------
(* What is known of a state and a book. *)

LEMMA StateFacts ==
  ASSUME NEW s \in SyncState, BaselineHolds(s)
  PROVE  /\ s.tip_hash \in Blocks \cup {None} /\ s.tip_height \in Nat \cup {None}
         /\ s.height_map \in [Heights -> Nat \cup {None}] /\ s.utxo_cursor \in Leaf \cup {None}
         /\ s.tip_hash # None => /\ s.tip_hash \in Blocks
                                 /\ s.tip_height = HeightOf(s.tip_hash)
                                 /\ s.leafset = Leafset(s.tip_hash)
                                 /\ LeavesOf(s.leafset) = Unspent[s.tip_hash]
         /\ s.tip_hash = None => s.leafset = None /\ LeavesOf(s.leafset) = {}
<1>1. /\ s.tip_hash \in Blocks \cup {None} /\ s.tip_height \in Nat \cup {None}
      /\ s.height_map \in [Heights -> Nat \cup {None}] /\ s.utxo_cursor \in Leaf \cup {None}
  BY DEF SyncState
<1>2. ASSUME s.tip_hash # None
      PROVE  /\ s.tip_hash \in Blocks
             /\ s.tip_height = HeightOf(s.tip_hash)
             /\ s.leafset = Leafset(s.tip_hash)
             /\ LeavesOf(s.leafset) = Unspent[s.tip_hash]
  <2>1. s.tip_hash \in Blocks BY <1>1, <1>2
  <2>2. s.tip_height = HeightOf(s.tip_hash) /\ s.leafset = Leafset(s.tip_hash)
    BY <1>2 DEF BaselineHolds
  <2> QED BY <2>1, <2>2, BlockFacts
<1>3. s.tip_hash = None => s.leafset = None /\ LeavesOf(s.leafset) = {}
  BY DEF BaselineHolds, LeavesOf
<1> QED BY <1>1, <1>2, <1>3

(* Progress survives the growth of the chain. *)
LEMMA ProgressMoves ==
  ASSUME NEW s \in SyncState, NEW book, NEW a, NEW b, NEW tried, NEW passed,
         Progress(s, book, a, tried, passed), Rooted(s, a), Extends(a, b)
  PROVE  Progress(s, book, b, tried, passed) /\ Rooted(s, b)
<1>1. BaselineHolds(s) BY DEF Progress
<1>2. /\ a \in Blocks /\ b \in Blocks /\ MmrSize(a) <= MmrSize(b)
      /\ \A leaf \in Nat : leaf < MmrSize(a) =>
           /\ OutputAt(a, leaf) = OutputAt(b, leaf)
           /\ leaf \in Unspent[b] => leaf \in Unspent[a]
  BY ExtendsFacts
<1>3. MmrSize(a) \in Nat /\ MmrSize(b) \in Nat BY <1>2, BlockFacts
<1>4. Rooted(s, b) BY ExtendsIsTransitive DEF Rooted
<1>5. ASSUME NEW leaf \in LeavesOf(s.leafset)
      PROVE  Held(book, s.tip_hash, leaf) \/ leaf \in passed \/ (tried /\ leaf \notin Unspent[b])
  <2>1. s.tip_hash # None /\ s.tip_hash \in Blocks /\ leaf \in Unspent[s.tip_hash]
    BY <1>1, <1>5, StateFacts
  <2>2. leaf \in Nat /\ leaf < MmrSize(s.tip_hash) /\ MmrSize(s.tip_hash) \in Nat BY <2>1, BlockFacts
  <2>3. MmrSize(s.tip_hash) <= MmrSize(a) BY <2>1, ExtendsFacts DEF Rooted
  <2>4. leaf < MmrSize(a) BY <1>3, <2>2, <2>3
  <2>5. leaf \in Unspent[b] => leaf \in Unspent[a] BY <1>2, <2>2, <2>4
  <2>6. Held(book, s.tip_hash, leaf) \/ leaf \in passed \/ (tried /\ leaf \notin Unspent[a])
    BY <1>5 DEF Progress
  <2> QED BY <2>5, <2>6
<1>6. ASSUME s.utxo_cursor # None
      PROVE  /\ tried /\ s.utxo_cursor < MmrSize(b)
             /\ \A leaf \in Unspent[b] :
                  leaf <= s.utxo_cursor => Held(book, b, leaf) \/ leaf \in passed
  <2>1. /\ tried /\ s.utxo_cursor < MmrSize(a)
        /\ \A leaf \in Unspent[a] :
             leaf <= s.utxo_cursor => Held(book, a, leaf) \/ leaf \in passed
    BY <1>6 DEF Progress
  <2>2. s.utxo_cursor \in Nat BY <1>1, <1>6, StateFacts, NoneFacts
  <2>3. ASSUME NEW leaf \in Unspent[b], leaf <= s.utxo_cursor
        PROVE  Held(book, b, leaf) \/ leaf \in passed
    <3>1. leaf \in Nat /\ leaf < MmrSize(a) BY <1>2, <1>3, <2>1, <2>2, <2>3, BlockFacts
    <3>2. leaf \in Unspent[a] /\ OutputAt(a, leaf) = OutputAt(b, leaf) BY <1>2, <2>3, <3>1
    <3>3. Held(book, a, leaf) \/ leaf \in passed BY <2>1, <2>3, <3>2
    <3> QED BY <3>2, <3>3 DEF Held
  <2> QED BY <1>2, <1>3, <2>1, <2>2, <2>3
<1> QED BY <1>1, <1>4, <1>5, <1>6 DEF Progress

(* Before any attempt the branch makes no difference. *)
LEMMA ProgressIsFree ==
  ASSUME NEW s, NEW book, NEW a, NEW b, NEW passed, Progress(s, book, a, FALSE, passed)
  PROVE  Progress(s, book, b, FALSE, passed)
BY DEF Progress

(* Progress is about the leaves, whatever the heights are. *)
LEMMA ProgressIsAboutLeaves ==
  ASSUME NEW s \in SyncState, NEW t, NEW book, NEW copy, NEW b \in Blocks, NEW tried, NEW passed,
         Progress(s, book, b, tried, passed),
         t.tip_hash = s.tip_hash, t.tip_height = s.tip_height, t.leafset = s.leafset,
         t.utxo_cursor = s.utxo_cursor,
         \A id \in OutputId : LeafAt(copy, id) = LeafAt(book, id)
  PROVE  Progress(t, copy, b, tried, passed)
<1>1. \A c, leaf : Held(book, c, leaf) => Held(copy, c, leaf) BY DEF Held
<1>2. BaselineHolds(t) BY DEF Progress, BaselineHolds
<1> QED BY <1>1, <1>2 DEF Progress

LEMMA FailingIsGrowing ==
  ASSUME ReorgsAreCalm, setup \in Setups
  PROVE  /\ setup.fail => setup.forks = {}
         /\ setup.fail \in BOOLEAN /\ setup.window \in Nat \ {0}
         /\ setup.provider \in {"live", "set_tip", "renewed"}
         /\ setup.forks # {} => setup.provider = "renewed" /\ ~Live /\ ~setup.fail
BY SetupAssumption DEF ReorgsAreCalm, Live

LEMMA BlockAtFacts ==
  ASSUME NEW b \in Blocks, NEW i \in Nat, i <= HeightOf(b)
  PROVE  BlockAt(b, i) \in Blocks /\ HeightOf(BlockAt(b, i)) = i /\ Extends(BlockAt(b, i), b)
<1>1. HeightOf(b) \in Nat BY BlockFacts
<1>2. i \in 0 .. HeightOf(b) BY <1>1
<1>3. BlockAt(b, i) \in Blocks /\ HeightOf(BlockAt(b, i)) = i BY <1>2, ChainAssumption
<1> QED BY <1>3 DEF Extends

LEMMA BlockAtType ==
  ASSUME NEW b \in Blocks, NEW i \in Heights
  PROVE  BlockAt(b, i) \in Blocks \cup {None} /\ (BlockAt(b, i) # None => i <= HeightOf(b))
<1>1. i \in Nat BY NoneFacts
<1>2. CASE i <= HeightOf(b) BY <1>1, <1>2, BlockAtFacts
<1>3. CASE ~(i <= HeightOf(b)) BY <1>3 DEF BlockAt
<1> QED BY <1>2, <1>3

(* What either provider answers is on the branch of its tip. *)
LEMMA HashIsOnBranch ==
  ASSUME HashesHold, NEW i \in Heights, HashAt(i) # None
  PROVE  HashAt(i) = BlockAt(best, i)
BY DEF HashesHold, HashAt

(* The map that a provider is made with. *)
LEMMA HashesOfFacts ==
  ASSUME NEW b \in Blocks, NEW known
  PROVE  /\ HashesOf(b, known) \in [Heights -> Blocks \cup {None}]
         /\ \A i \in Heights : HashesOf(b, known)[i] \in {None, BlockAt(b, i)}
BY BlockAtType DEF HashesOf

-----------------------------------------------------------------------------
(* The steps of a pass. *)

LEMMA InitFetchInv ==
  ASSUME Init
  PROVE  FetchInv
<1>1. NoState \in SyncState BY NoneFacts DEF NoState, SyncState
<1>2. EmptyBook \in Book BY DEF EmptyBook, Book, Side
<1>3. best \in Blocks BY DEF Init
<1>4. Progress(NoState, EmptyBook, best, setup.fail \/ FALSE, {})
  BY DEF NoState, Progress, BaselineHolds, LeavesOf
<1>5. Progress(NoState, EmptyBook, best, TRUE, {})
  BY DEF NoState, Progress, BaselineHolds, LeavesOf
<1>6. Rooted(NoState, best) BY DEF NoState, Rooted
<1>7. /\ hashes \in [Heights -> Blocks \cup {None}]
      /\ \A i \in Heights : hashes[i] \in {None, BlockAt(best, i)}
  BY <1>3, HashesOfFacts DEF Init
<1>8. TypesHold /\ HashesHold BY <1>1, <1>2, <1>3, <1>7 DEF Init, TypesHold, HashesHold, Resting
<1>9. Here = best BY DEF Init, Here, Resting
<1>10. ProgressHolds BY <1>4, <1>5, <1>6, <1>9 DEF Init, ProgressHolds
<1>11. PassHolds BY DEF Init, PassHolds, Resting, Underway
<1> QED BY <1>8, <1>10, <1>11 DEF FetchInv

LEMMA NewTipGrows ==
  ASSUME TypesHold, NEW b \in Blocks, NEW known, NewTip(b, known), setup.forks = {}
  PROVE  Extends(best, b)
<1>1. best \in Blocks /\ best # None BY NoneFacts DEF TypesHold
<1>2. BlockAt(b, HeightOf(best)) = best BY DEF NewTip
<1>3. HeightOf(best) <= HeightOf(b) BY <1>1, <1>2 DEF BlockAt
<1> QED BY <1>1, <1>2, <1>3 DEF Extends

(* The other heights of a fixed provider stay right while the chain grows; a  *)
(* reorganisation comes with a new provider.                                  *)
LEMMA NewTipHashes ==
  ASSUME ReorgsAreCalm, TypesHold, HashesHold, NEW b \in Blocks, NEW known, NewTip(b, known)
  PROVE  HashesHold' /\ hashes' \in [Heights -> Blocks \cup {None}]
<1>1. setup' = setup /\ best' = b /\ setup \in Setups /\ hashes \in [Heights -> Blocks \cup {None}]
  BY DEF NewTip, TypesHold
<1>2. setup.provider \in {"live", "set_tip", "renewed"} BY <1>1, FailingIsGrowing
<1>3. CASE setup.provider = "live"
  <2>1. hashes' = hashes BY <1>3 DEF NewTip
  <2> QED BY <1>1, <1>3, <2>1 DEF HashesHold, Live
<1>4. CASE setup.provider = "renewed"
  <2>1. hashes' = HashesOf(b, known) BY <1>4 DEF NewTip
  <2> QED BY <1>1, <2>1, HashesOfFacts DEF HashesHold
<1>5. CASE setup.provider = "set_tip"
  <2>1. hashes' = [hashes EXCEPT ![HeightOf(b)] = b] BY <1>5 DEF NewTip, SetTip
  <2>2. BlockAt(b, HeightOf(b)) = b BY ChainAssumption
  <2>3. Extends(best, b) BY <1>1, <1>5, FailingIsGrowing, NewTipGrows
  <2>4. ASSUME NEW i \in Heights PROVE hashes'[i] \in {None, BlockAt(b, i)}
    <3>1. CASE i = HeightOf(b) BY <1>1, <2>1, <2>2, <3>1
    <3>2. CASE i # HeightOf(b) /\ hashes[i] # None
      <4>1. hashes'[i] = hashes[i] BY <1>1, <2>1, <3>2
      <4>2. hashes[i] = BlockAt(best, i) BY <1>5, <3>2 DEF HashesHold, Live
      <4>3. i \in Nat /\ i <= HeightOf(best) BY <3>2, <4>2, BlockAtType, NoneFacts DEF TypesHold
      <4>4. BlockAt(b, i) = BlockAt(best, i) BY <2>3, <4>3, ExtendsFacts
      <4> QED BY <4>1, <4>2, <4>4
    <3>3. CASE i # HeightOf(b) /\ hashes[i] = None BY <1>1, <2>1, <3>3
    <3> QED BY <3>1, <3>2, <3>3
  <2>5. hashes' \in [Heights -> Blocks \cup {None}] BY <1>1, <2>1
  <2> QED BY <1>1, <2>4, <2>5 DEF HashesHold
<1> QED BY <1>2, <1>3, <1>4, <1>5

LEMMA NewTipKeeps ==
  ASSUME ReorgsAreCalm, FetchInv, NEW b \in Blocks, NEW known, NewTip(b, known)
  PROVE  FetchInv'
<1>0. TypesHold /\ HashesHold /\ ProgressHolds /\ PassHolds BY DEF FetchInv
<1>1. /\ setup' = setup /\ best' = b /\ st' = st /\ db' = db /\ pc' = pc
      /\ tip' = tip /\ todo' = todo /\ resume' = resume /\ saved' = saved
      /\ fetched' = fetched /\ withheld' = withheld
      /\ Live \/ Resting
  BY DEF NewTip, pass, Resting
<1>2. TypesHold' /\ HashesHold' BY <1>0, <1>1, NewTipHashes DEF TypesHold, Resting
<1>3. setup.forks = {} => Extends(best, b) BY <1>0, NewTipGrows
<1>4. setup \in Setups /\ st \in SyncState /\ saved.st \in SyncState BY <1>0 DEF TypesHold
<1>5. Here' = IF Resting THEN b ELSE tip BY <1>1 DEF Here, Resting
<1>6. setup.fail => Progress(saved.st, saved.db, b, TRUE, saved.withheld) /\ Rooted(saved.st, b)
  BY <1>0, <1>3, <1>4, ProgressMoves, FailingIsGrowing DEF ProgressHolds
<1>7. /\ Progress(st, db, Here', setup.fail \/ pc = "fetch", withheld)
      /\ setup.forks = {} => Rooted(st, Here')
  <2>1. CASE ~Resting BY <1>0, <1>5, <2>1 DEF ProgressHolds, Here
  <2>2. CASE Resting /\ setup.forks = {}
    <3>1. Progress(st, db, best, setup.fail \/ pc = "fetch", withheld) /\ Rooted(st, best)
      BY <1>0, <2>2 DEF ProgressHolds, Here
    <3>2. Progress(st, db, b, setup.fail \/ pc = "fetch", withheld) /\ Rooted(st, b)
      BY <1>3, <1>4, <2>2, <3>1, ProgressMoves
    <3> QED BY <1>5, <2>2, <3>2
  <2>3. CASE Resting /\ setup.forks # {}
    <3>1. (setup.fail \/ pc = "fetch") = FALSE BY <1>4, <2>3, FailingIsGrowing DEF Resting
    <3>2. Progress(st, db, best, FALSE, withheld) BY <1>0, <2>3, <3>1 DEF ProgressHolds, Here
    <3> QED BY <1>5, <2>3, <3>1, <3>2, ProgressIsFree
  <2> QED BY <2>1, <2>2, <2>3
<1>8. ProgressHolds' BY <1>1, <1>6, <1>7 DEF ProgressHolds
<1>9. PassHolds'
  <2>1. (setup.forks = {} /\ ~Resting => Extends(tip, best))'
    BY <1>0, <1>1, <1>3, ExtendsIsTransitive DEF PassHolds, Resting
  <2>2. (~Live /\ ~Resting => tip = best)' BY <1>1 DEF Resting, Live
  <2> QED BY <1>0, <1>1, <2>1, <2>2 DEF PassHolds, Underway, Added, Rooted
<1> QED BY <1>2, <1>8, <1>9 DEF FetchInv

LEMMA ReadTipKeeps ==
  ASSUME FetchInv, ReadTip
  PROVE  FetchInv'
<1>0. TypesHold /\ HashesHold /\ ProgressHolds /\ PassHolds BY DEF FetchInv
<1>1. /\ setup' = setup /\ best' = best /\ hashes' = hashes /\ st' = st /\ db' = db
      /\ pc' = "prepare" /\ tip' = best /\ todo' = todo /\ resume' = resume
      /\ fetched' = fetched /\ withheld' = withheld /\ saved' = saved /\ Resting
  BY DEF ReadTip, env, Resting
<1>2. TypesHold' /\ HashesHold' BY <1>0, <1>1 DEF TypesHold, HashesHold, Live, Resting
<1>3. Here' = Here BY <1>1 DEF Here, Resting
<1>4. (setup.fail \/ pc = "fetch")' = (setup.fail \/ pc = "fetch") BY <1>1 DEF Resting
<1>5. ProgressHolds' BY <1>0, <1>1, <1>3, <1>4 DEF ProgressHolds
<1>6. best \in Blocks BY <1>0 DEF TypesHold
<1>7. PassHolds' BY <1>1, <1>6, ExtendsItself DEF PassHolds, Underway
<1> QED BY <1>2, <1>5, <1>7 DEF FetchInv

(* A pass that does not drop the leafset works above the last tip. *)
LEMMA KeepingIsRooted ==
  ASSUME ReorgsAreCalm, FetchInv, NEW hashFails \in BOOLEAN, pc = "prepare", ~ReorgFound(hashFails)
  PROVE  Rooted(st, tip)
<1>0. TypesHold /\ HashesHold /\ ProgressHolds /\ PassHolds BY DEF FetchInv
<1>1. Here = tip /\ tip \in Blocks /\ setup \in Setups /\ ~Resting /\ st \in SyncState
  BY <1>0 DEF Here, Resting, TypesHold
<1>2. CASE setup.forks = {} BY <1>0, <1>1, <1>2 DEF ProgressHolds
<1>3. CASE setup.forks # {}
  <2>1. tip = best BY <1>0, <1>1, <1>3, FailingIsGrowing DEF PassHolds
  <2> SUFFICES ASSUME st.tip_hash # None PROVE Extends(st.tip_hash, tip) BY DEF Rooted
  <2>2. st.tip_hash \in Blocks /\ st.tip_height = HeightOf(st.tip_hash)
    BY <1>0, <1>1, StateFacts DEF ProgressHolds, Progress
  <2>3. st.tip_hash = tip \/ ExtendsPrev(hashFails) BY DEF ReorgFound, TipChanged
  <2>4. CASE st.tip_hash = tip BY <1>1, <2>4, ExtendsItself
  <2>5. CASE ExtendsPrev(hashFails)
    <3>1. HeightOf(st.tip_hash) \in Heights /\ st.tip_hash # None BY <2>2, BlockFacts
    <3>2. HashAt(HeightOf(st.tip_hash)) = st.tip_hash /\ HeightOf(st.tip_hash) <= HeightOf(tip)
      BY <2>2, <2>5 DEF ExtendsPrev
    <3>3. BlockAt(best, HeightOf(st.tip_hash)) = st.tip_hash BY <1>0, <3>1, <3>2, HashIsOnBranch
    <3> QED BY <1>1, <2>1, <2>2, <3>2, <3>3 DEF Extends
  <2> QED BY <2>3, <2>4, <2>5
<1> QED BY <1>2, <1>3

LEMMA PrepareFacts ==
  ASSUME TypesHold, NEW hashFails \in BOOLEAN, Prepare(hashFails), ReorgFound(hashFails)
  PROVE  /\ db' \in Book /\ \A id \in OutputId : LeafAt(db', id) = LeafAt(db, id)
         /\ st' \in SyncState /\ st'.tip_hash = None /\ st'.leafset = None /\ st'.utxo_cursor = None
         /\ st'.height_map = RetainBelow(st.height_map, HeightOf(tip))
<1>1. /\ st \in SyncState /\ db \in Book /\ tip \in Blocks BY DEF TypesHold, Prepare, Resting
<1>2. HeightOf(tip) \in Nat /\ Rewind \in Nat BY <1>1, BlockFacts, SetupAssumption
<1>3. RewindHeight \in Nat BY <1>2 DEF RewindHeight
<1>4. db' = Disconnect(db, RewindHeight) BY DEF Prepare
<1>5. st' = [InvalidateLeafset(st) EXCEPT !.height_map = RetainBelow(st.height_map, HeightOf(tip))]
  BY DEF Prepare
<1>6. st.height_map \in [Heights -> Nat \cup {None}] BY <1>1 DEF SyncState
<1>7. RetainBelow(st.height_map, HeightOf(tip)) \in [Heights -> Nat \cup {None}]
  BY <1>6 DEF RetainBelow
<1>8. /\ st' \in SyncState /\ st'.tip_hash = None /\ st'.leafset = None /\ st'.utxo_cursor = None
      /\ st'.height_map = RetainBelow(st.height_map, HeightOf(tip))
  BY <1>1, <1>5, <1>7 DEF InvalidateLeafset, SyncState
<1> QED BY <1>1, <1>3, <1>4, <1>8, DisconnectFacts

LEMMA PrepareKeeps ==
  ASSUME ReorgsAreCalm, FetchInv, NEW hashFails \in BOOLEAN, Prepare(hashFails)
  PROVE  FetchInv'
<1>0. TypesHold /\ HashesHold /\ ProgressHolds /\ PassHolds BY DEF FetchInv
<1>1. /\ setup' = setup /\ best' = best /\ hashes' = hashes /\ pc = "prepare" /\ pc' = "sample"
      /\ tip' = tip /\ todo' = todo /\ resume' = resume /\ fetched' = fetched
      /\ withheld' = withheld /\ saved' = saved
  BY DEF Prepare, env, pass
<1>2. Here' = tip /\ Here = tip BY <1>1 DEF Here, Resting
<1>3. (setup.fail \/ pc = "fetch")' = (setup.fail \/ pc = "fetch") BY <1>1
<1>4. /\ st' \in SyncState /\ db' \in Book /\ Rooted(st', tip)
      /\ Progress(st', db', tip, setup.fail \/ pc = "fetch", withheld)
  <2>1. CASE ReorgFound(hashFails)
    <3>1. /\ st' \in SyncState /\ db' \in Book
          /\ st'.tip_hash = None /\ st'.leafset = None /\ st'.utxo_cursor = None
      BY <1>0, <2>1, PrepareFacts
    <3>2. LeavesOf(st'.leafset) = {} BY <3>1 DEF LeavesOf
    <3> QED BY <3>1, <3>2 DEF Rooted, Progress, BaselineHolds
  <2>2. CASE ~ReorgFound(hashFails)
    <3>1. st' = st /\ db' = db BY <2>2 DEF Prepare
    <3>2. Rooted(st, tip) BY <1>1, <2>2, KeepingIsRooted
    <3> QED BY <1>0, <1>2, <3>1, <3>2 DEF TypesHold, ProgressHolds
  <2> QED BY <2>1, <2>2
<1>5. TypesHold' /\ HashesHold' BY <1>0, <1>1, <1>4 DEF TypesHold, HashesHold, Live, Resting
<1>6. ProgressHolds' BY <1>0, <1>1, <1>2, <1>3, <1>4 DEF ProgressHolds
<1>7. PassHolds' BY <1>0, <1>1, <1>4 DEF PassHolds, Live, Resting, Underway
<1> QED BY <1>5, <1>6, <1>7 DEF FetchInv

(* The sizes a pass samples are those of the provider's branch. *)
LEMMA SampleFacts ==
  ASSUME TypesHold, HashesHold, NEW failing, NEW tipFails \in BOOLEAN,
         SampleFineHeaders(failing, tipFails)
  PROVE  /\ st' \in SyncState /\ st'.tip_hash = st.tip_hash /\ st'.tip_height = st.tip_height
         /\ st'.leafset = st.leafset /\ st'.utxo_cursor = st.utxo_cursor
         /\ \A i \in Heights : \/ st'.height_map[i] = st.height_map[i]
                               \/ i = HeightOf(tip) /\ st'.height_map[i] = MmrSize(best)
                               \/ /\ i <= HeightOf(best) /\ i <= HeightOf(tip)
                                  /\ st'.height_map[i] = MmrSize(BlockAt(best, i))
<1> DEFINE h == HeightOf(tip)
           sampled == {i \in FineSampleHeights(h) \ failing :
                         st.height_map[i] = None /\ HashAt(i) # None}
           map == [i \in Heights |-> IF i = h /\ ~tipFails THEN MmrSize(best)
                                     ELSE IF i \in sampled THEN MmrSize(HashAt(i))
                                     ELSE st.height_map[i]]
<1>1. st' = [st EXCEPT !.height_map = map] BY DEF SampleFineHeaders
<1>2. st \in SyncState /\ best \in Blocks BY DEF TypesHold
<1>3. st.height_map \in [Heights -> Nat \cup {None}] BY <1>2 DEF SyncState
<1>4. ASSUME NEW i \in sampled
      PROVE  /\ i \in Heights /\ i <= h /\ i <= HeightOf(best)
             /\ HashAt(i) = BlockAt(best, i) /\ MmrSize(HashAt(i)) \in Nat
  <2>1. i \in Heights /\ i <= h /\ HashAt(i) # None BY DEF FineSampleHeights
  <2>2. HashAt(i) = BlockAt(best, i) BY <2>1, HashIsOnBranch
  <2>3. i <= HeightOf(best) /\ HashAt(i) \in Blocks BY <1>2, <2>1, <2>2, BlockAtType
  <2> QED BY <2>1, <2>2, <2>3, BlockFacts
<1>5. MmrSize(best) \in Nat BY <1>2, BlockFacts
<1> HIDE DEF sampled
<1>6. map \in [Heights -> Nat \cup {None}] BY <1>3, <1>4, <1>5
<1>7. /\ st' \in SyncState /\ st'.tip_hash = st.tip_hash /\ st'.tip_height = st.tip_height
      /\ st'.leafset = st.leafset /\ st'.utxo_cursor = st.utxo_cursor /\ st'.height_map = map
  <2> HIDE DEF map
  <2> QED BY <1>1, <1>2, <1>6 DEF SyncState
<1>8. \A i \in Heights : \/ map[i] = st.height_map[i]
                         \/ i = h /\ map[i] = MmrSize(best)
                         \/ i <= HeightOf(best) /\ i <= h /\ map[i] = MmrSize(BlockAt(best, i))
  BY <1>4
<1> QED BY <1>7, <1>8

LEMMA SampleKeeps ==
  ASSUME FetchInv, NEW failing, NEW tipFails \in BOOLEAN, SampleFineHeaders(failing, tipFails)
  PROVE  FetchInv'
<1>0. TypesHold /\ HashesHold /\ ProgressHolds /\ PassHolds BY DEF FetchInv
<1>1. /\ setup' = setup /\ best' = best /\ hashes' = hashes /\ db' = db
      /\ pc = "sample" /\ pc' = "leafset" /\ tip' = tip /\ todo' = todo /\ resume' = resume
      /\ fetched' = fetched /\ withheld' = withheld /\ saved' = saved
  BY DEF SampleFineHeaders, env, pass
<1>2. /\ st' \in SyncState /\ st'.tip_hash = st.tip_hash /\ st'.tip_height = st.tip_height
      /\ st'.leafset = st.leafset /\ st'.utxo_cursor = st.utxo_cursor
  BY <1>0, SampleFacts
<1>3. Here' = tip /\ Here = tip BY <1>1 DEF Here, Resting
<1>4. (setup.fail \/ pc = "fetch")' = (setup.fail \/ pc = "fetch") BY <1>1
<1>5. TypesHold' /\ HashesHold' BY <1>0, <1>1, <1>2 DEF TypesHold, HashesHold, Live, Resting
<1>6. st \in SyncState /\ tip \in Blocks BY <1>0, <1>1 DEF TypesHold, Resting
<1>7. Progress(st, db, tip, setup.fail \/ pc = "fetch", withheld) BY <1>0, <1>3 DEF ProgressHolds
<1>8. Progress(st', db, tip, setup.fail \/ pc = "fetch", withheld)
  BY <1>2, <1>6, <1>7, ProgressIsAboutLeaves
<1>9. Rooted(st, tip) /\ Rooted(st', tip) BY <1>0, <1>1, <1>2 DEF PassHolds, Underway, Rooted
<1>10. ProgressHolds' BY <1>0, <1>1, <1>3, <1>4, <1>8, <1>9 DEF ProgressHolds
<1>11. PassHolds' BY <1>0, <1>1, <1>9 DEF PassHolds, Live, Resting, Underway
<1> QED BY <1>5, <1>10, <1>11 DEF FetchInv

(* A leaf of the last tip is the same leaf of a block above it. *)
LEMMA HeldAbove ==
  ASSUME NEW a, NEW b, Extends(a, b), NEW leaf \in Unspent[a], NEW book
  PROVE  Held(book, a, leaf) <=> Held(book, b, leaf)
<1>1. a \in Blocks BY ExtendsFacts
<1>2. leaf \in Nat /\ leaf < MmrSize(a) BY <1>1, BlockFacts
<1>3. OutputAt(a, leaf) = OutputAt(b, leaf) BY <1>2, ExtendsFacts
<1> QED BY <1>3 DEF Held

(* The coins that go are at leaves that are not in the new leafset, and every *)
(* coin at a removed leaf is among them when it is alone at its leaf.         *)
LEMMA DiffFacts ==
  ASSUME TypesHold, NEW ids \in SUBSET OutputId, DiffLeafset(ids)
  PROVE  /\ db' \in Book /\ st' \in SyncState
         /\ st'.tip_hash = st.tip_hash /\ st'.tip_height = st.tip_height
         /\ st'.leafset = st.leafset /\ st'.utxo_cursor = st.utxo_cursor
         /\ st'.height_map = [st.height_map EXCEPT ![HeightOf(tip)] = MmrSize(tip)]
         /\ \A id \in OutputId : LeafAt(db', id) = IF id \in ids THEN None ELSE LeafAt(db, id)
         /\ \A id \in ids : LeafAt(db, id) \in Removed
<1>1. st \in SyncState /\ db \in Book /\ tip \in Blocks BY DEF TypesHold, DiffLeafset, Resting
<1>2. HeightOf(tip) \in Heights /\ MmrSize(tip) \in Nat BY <1>1, BlockFacts
<1>3. st' = [st EXCEPT !.height_map[HeightOf(tip)] = MmrSize(tip), !.pending_tip_hash = tip]
  BY DEF DiffLeafset
<1>4. /\ st' \in SyncState
      /\ st'.tip_hash = st.tip_hash /\ st'.tip_height = st.tip_height
      /\ st'.leafset = st.leafset /\ st'.utxo_cursor = st.utxo_cursor
      /\ st'.height_map = [st.height_map EXCEPT ![HeightOf(tip)] = MmrSize(tip)]
  BY <1>1, <1>2, <1>3 DEF SyncState
<1>5. db' = SpendAll(db, ids) BY DEF DiffLeafset
<1>6. ASSUME NEW id \in ids PROVE LeafAt(db, id) \in Removed
  <2>1. PICK leaf \in Removed : id \in AtLeaf(leaf) BY DEF DiffLeafset, IsSpentByRemoved
  <2> QED BY <2>1 DEF AtLeaf, LeafAt
<1> QED BY <1>1, <1>4, <1>5, <1>6, SpendAllFacts

LEMMA DiffKeeps ==
  ASSUME FetchInv, NEW ids \in SUBSET OutputId, DiffLeafset(ids)
  PROVE  FetchInv'
<1>0. TypesHold /\ HashesHold /\ ProgressHolds /\ PassHolds BY DEF FetchInv
<1>1. /\ setup' = setup /\ best' = best /\ hashes' = hashes /\ pc = "leafset" /\ pc' = "fetch"
      /\ tip' = tip /\ saved' = saved /\ resume' = ResumeCursor /\ fetched' = {}
      /\ withheld' = IF st.leafset = None /\ ResumeCursor = None THEN {} ELSE withheld
      /\ todo' = {leaf \in Added : ResumeCursor # None => leaf > ResumeCursor}
  BY DEF DiffLeafset, env
<1>2. /\ db' \in Book /\ st' \in SyncState
      /\ st'.tip_hash = st.tip_hash /\ st'.tip_height = st.tip_height
      /\ st'.leafset = st.leafset /\ st'.utxo_cursor = st.utxo_cursor
      /\ \A id \in OutputId : LeafAt(db', id) = IF id \in ids THEN None ELSE LeafAt(db, id)
      /\ \A id \in ids : LeafAt(db, id) \in Removed
  BY <1>0, DiffFacts
<1>3. tip \in Blocks /\ st \in SyncState /\ Here = tip /\ Here' = tip
  BY <1>0, <1>1 DEF TypesHold, Here, Resting
<1>4. Progress(st, db, tip, setup.fail, withheld)
  <2>1. setup.fail \in BOOLEAN BY <1>0, SetupAssumption DEF TypesHold
  <2>2. (setup.fail \/ pc = "fetch") = setup.fail BY <1>1, <2>1
  <2> QED BY <1>0, <1>3, <2>2 DEF ProgressHolds
<1>5. BaselineHolds(st) /\ Rooted(st, tip) BY <1>0, <1>1, <1>4 DEF PassHolds, Underway, Progress
<1>6. \A leaf \in Unspent[tip] : leaf \in Leaf /\ leaf \in Nat /\ leaf < MmrSize(tip)
  BY <1>3, BlockFacts
<1>7. st.utxo_cursor \in Leaf \cup {None} BY <1>3 DEF SyncState
<1>8. ASSUME NEW b, NEW leaf \in Unspent[tip], Held(db, b, leaf) PROVE Held(db', b, leaf)
  BY <1>2, <1>8 DEF Held, Removed
<1>9. BaselineHolds(st') BY <1>2, <1>5 DEF BaselineHolds
<1>10. ASSUME NEW leaf \in LeavesOf(st.leafset)
       PROVE  Held(db', st.tip_hash, leaf) \/ leaf \in withheld' \/ leaf \notin Unspent[tip]
  <2>1. withheld' = withheld BY <1>1, <1>10 DEF LeavesOf
  <2> QED BY <1>4, <1>8, <2>1 DEF Progress
<1>11. ASSUME st.utxo_cursor # None
       PROVE  /\ st.utxo_cursor < MmrSize(tip)
              /\ \A leaf \in Unspent[tip] :
                   leaf <= st.utxo_cursor => Held(db', tip, leaf) \/ leaf \in withheld'
  <2>1. withheld' = withheld BY <1>1, <1>11 DEF ResumeCursor
  <2> QED BY <1>4, <1>8, <1>11, <2>1 DEF Progress
<1>12. Progress(st', db', tip, TRUE, withheld') BY <1>2, <1>9, <1>10, <1>11 DEF Progress
<1>13. Rooted(st', tip) BY <1>2, <1>5 DEF Rooted
<1>14. Added' = Added BY <1>1, <1>2 DEF Added
<1>15. ASSUME NEW leaf \in Unspent[tip], leaf \notin todo'
       PROVE  Held(db', tip, leaf) \/ leaf \in withheld'
  <2>1. CASE leaf \in LeavesOf(st.leafset)
    <3>1. st.tip_hash # None /\ leaf \in Unspent[st.tip_hash] BY <1>3, <1>5, <2>1, StateFacts
    <3>2. Extends(st.tip_hash, tip) BY <1>5, <3>1 DEF Rooted
    <3>3. Held(db', st.tip_hash, leaf) \/ leaf \in withheld' BY <1>10, <1>15, <2>1
    <3> QED BY <3>1, <3>2, <3>3, HeldAbove
  <2>2. CASE leaf \notin LeavesOf(st.leafset)
    <3>1. leaf \in Added BY <2>2 DEF Added
    <3>2. ResumeCursor # None /\ ~(leaf > ResumeCursor) BY <1>1, <1>15, <3>1
    <3>3. ResumeCursor = st.utxo_cursor /\ st.utxo_cursor # None BY <3>2 DEF ResumeCursor
    <3>4. leaf \in Nat /\ st.utxo_cursor \in Nat BY <1>6, <1>7, <3>3, NoneFacts
    <3>5. leaf <= st.utxo_cursor BY <3>2, <3>3, <3>4
    <3> QED BY <1>11, <3>3, <3>5
  <2> QED BY <2>1, <2>2
<1>16. todo' \subseteq Added /\ todo' \subseteq Leaf BY <1>1, <1>6 DEF Added
<1>17. resume' \in Leaf \cup {None} BY <1>1, <1>7 DEF ResumeCursor
<1>18. TypesHold' /\ HashesHold'
  BY <1>0, <1>1, <1>2, <1>3, <1>16, <1>17 DEF TypesHold, HashesHold, Live, Resting
<1>19. (setup.fail \/ pc = "fetch")' BY <1>1
<1>20. ProgressHolds' BY <1>0, <1>1, <1>3, <1>12, <1>13, <1>19 DEF ProgressHolds
<1>21. PassHolds' BY <1>0, <1>1, <1>13, <1>14, <1>15, <1>16 DEF PassHolds, Live, Resting, Underway
<1> QED BY <1>18, <1>20, <1>21 DEF FetchInv

LEMMA FetchFacts ==
  ASSUME TypesHold, NEW first \in Leaf, NEW last \in Leaf, NEW save \in BOOLEAN,
         FetchBatch(first, last, save)
  PROVE  /\ db' \in Book /\ st' \in SyncState
         /\ st'.tip_hash = st.tip_hash /\ st'.tip_height = st.tip_height
         /\ st'.leafset = st.leafset /\ st'.utxo_cursor = last /\ st'.height_map = st.height_map
         /\ last \in Unspent[tip] /\ todo' = {leaf \in todo : leaf > last}
         /\ \A leaf \in Unspent[tip] : Held(db, tip, leaf) => Held(db', tip, leaf)
         /\ \A id \in OutputId : \/ LeafAt(db', id) = LeafAt(db, id)
                                 \/ LeafAt(db', id) \in Unspent[tip] /\ OutputAt(tip, LeafAt(db', id)) = id
         /\ fetched' \subseteq Leaf /\ withheld' \subseteq Leaf
         /\ \A leaf \in withheld : leaf \in withheld' \/ (leaf \in Added /\ Held(db', tip, leaf))
         /\ todo \subseteq Added =>
              \A leaf \in todo : leaf \notin todo' => Held(db', tip, leaf) \/ leaf \in withheld'
<1> DEFINE batch == {leaf \in Unspent[tip] : first <= leaf /\ leaf <= last}
           new == batch \cap Added
           passed == {leaf \in todo : leaf < first}
<1>1. /\ st \in SyncState /\ db \in Book /\ tip \in Blocks /\ todo \subseteq Leaf
      /\ fetched \subseteq Leaf /\ withheld \subseteq Leaf
  BY DEF TypesHold, FetchBatch, Resting
<1>2. st' = [st EXCEPT !.utxo_cursor = last] BY DEF FetchBatch
<1>3. /\ st' \in SyncState
      /\ st'.tip_hash = st.tip_hash /\ st'.tip_height = st.tip_height
      /\ st'.leafset = st.leafset /\ st'.utxo_cursor = last /\ st'.height_map = st.height_map
      /\ st.height_map \in [Heights -> Nat \cup {None}]
  BY <1>1, <1>2 DEF SyncState
<1>4. /\ db' = Scan(db, new) /\ todo # {} /\ last \in Unspent[tip]
      /\ todo' = {leaf \in todo : leaf > last}
      /\ fetched' = fetched \cup new /\ withheld' = (withheld \ new) \cup passed
  BY DEF FetchBatch
<1>5. new \subseteq Unspent[tip] /\ new \subseteq Leaf /\ new \subseteq Added BY <1>1, BlockFacts
<1>6. /\ db' \in Book
      /\ \A l \in new : OutputAt(tip, l) \in OutputId => LeafAt(db', OutputAt(tip, l)) = l
      /\ \A id \in OutputId : (\A l \in new : OutputAt(tip, l) # id) => LeafAt(db', id) = LeafAt(db, id)
  <2> HIDE DEF new
  <2> QED BY <1>1, <1>3, <1>4, <1>5, ScanFacts
<1>7. \A l \in new : Held(db', tip, l) BY <1>6 DEF Held
<1>8. ASSUME NEW leaf \in Unspent[tip], Held(db, tip, leaf) PROVE Held(db', tip, leaf)
  <2> SUFFICES ASSUME OutputAt(tip, leaf) \in OutputId PROVE LeafAt(db', OutputAt(tip, leaf)) = leaf
    BY DEF Held
  <2>1. CASE \E l \in new : OutputAt(tip, l) = OutputAt(tip, leaf)
    <3>1. PICK l \in new : OutputAt(tip, l) = OutputAt(tip, leaf) BY <2>1
    <3>2. l = leaf BY <1>1, <1>5, <3>1, IdsAreUnique
    <3> QED BY <1>6, <3>1, <3>2
  <2>2. CASE \A l \in new : OutputAt(tip, l) # OutputAt(tip, leaf)
    BY <1>6, <1>8, <2>2 DEF Held
  <2> QED BY <2>1, <2>2
<1>9. ASSUME todo \subseteq Added, NEW leaf \in todo, leaf \notin todo'
      PROVE  Held(db', tip, leaf) \/ leaf \in withheld'
  <2>1. leaf \in Nat /\ first \in Nat /\ last \in Nat BY <1>1, NoneFacts
  <2>2. leaf <= last BY <1>4, <1>9, <2>1
  <2>3. CASE leaf < first BY <1>4, <2>3
  <2>4. CASE first <= leaf
    <3>1. leaf \in new BY <1>9, <2>2, <2>4 DEF Added
    <3> QED BY <1>7, <3>1
  <2> QED BY <2>1, <2>3, <2>4
<1>10. ASSUME NEW id \in OutputId
       PROVE  \/ LeafAt(db', id) = LeafAt(db, id)
              \/ LeafAt(db', id) \in Unspent[tip] /\ OutputAt(tip, LeafAt(db', id)) = id
  <2>1. CASE \E l \in new : OutputAt(tip, l) = id BY <1>5, <1>6, <2>1
  <2>2. CASE \A l \in new : OutputAt(tip, l) # id BY <1>6, <2>2
  <2> QED BY <2>1, <2>2
<1>11. \A leaf \in withheld : leaf \in withheld' \/ (leaf \in Added /\ Held(db', tip, leaf))
  BY <1>4, <1>5, <1>7
<1>12. fetched' \subseteq Leaf /\ withheld' \subseteq Leaf BY <1>1, <1>4, <1>5
<1> QED BY <1>3, <1>4, <1>6, <1>8, <1>9, <1>10, <1>11, <1>12

LEMMA FetchKeeps ==
  ASSUME ReorgsAreCalm, FetchInv, NEW first \in Leaf, NEW last \in Leaf, NEW save \in BOOLEAN,
         FetchBatch(first, last, save)
  PROVE  FetchInv'
<1>0. TypesHold /\ HashesHold /\ ProgressHolds /\ PassHolds BY DEF FetchInv
<1>1. /\ setup' = setup /\ best' = best /\ hashes' = hashes /\ pc = "fetch" /\ pc' = "fetch"
      /\ tip' = tip /\ resume' = resume
      /\ saved' = IF save THEN [st |-> st', db |-> db', withheld |-> withheld'] ELSE saved
  BY DEF FetchBatch, env, Checkpoint
<1>2. /\ db' \in Book /\ st' \in SyncState
      /\ st'.tip_hash = st.tip_hash /\ st'.tip_height = st.tip_height
      /\ st'.leafset = st.leafset /\ st'.utxo_cursor = last
      /\ last \in Unspent[tip] /\ todo' = {leaf \in todo : leaf > last}
      /\ \A leaf \in Unspent[tip] : Held(db, tip, leaf) => Held(db', tip, leaf)
      /\ fetched' \subseteq Leaf /\ withheld' \subseteq Leaf
      /\ \A leaf \in withheld : leaf \in withheld' \/ (leaf \in Added /\ Held(db', tip, leaf))
      /\ todo \subseteq Added =>
           \A leaf \in todo : leaf \notin todo' => Held(db', tip, leaf) \/ leaf \in withheld'
  BY <1>0, FetchFacts
<1>3. tip \in Blocks /\ st \in SyncState /\ Here = tip /\ Here' = tip /\ setup \in Setups
  BY <1>0, <1>1 DEF TypesHold, Here, Resting
<1>4. /\ (setup.fail \/ pc = "fetch") = TRUE /\ (setup.fail \/ pc = "fetch")' = TRUE BY <1>1
<1>5. Progress(st, db, tip, TRUE, withheld) BY <1>0, <1>3, <1>4 DEF ProgressHolds
<1>6. /\ BaselineHolds(st) /\ Rooted(st, tip) /\ todo \subseteq Added
      /\ \A leaf \in Unspent[tip] : leaf \in todo \/ Held(db, tip, leaf) \/ leaf \in withheld
  BY <1>0, <1>1, <1>5 DEF PassHolds, Underway, Progress
<1>7. \A leaf \in Unspent[tip] : leaf \in Leaf /\ leaf \in Nat /\ leaf < MmrSize(tip)
  BY <1>3, BlockFacts
<1>8. \A leaf \in Unspent[tip] : leaf \in todo' \/ Held(db', tip, leaf) \/ leaf \in withheld'
  BY <1>2, <1>6
<1>9. BaselineHolds(st') BY <1>2, <1>6 DEF BaselineHolds
<1>10. ASSUME NEW leaf \in LeavesOf(st.leafset), leaf \in Unspent[tip]
       PROVE  Held(db', st.tip_hash, leaf) \/ leaf \in withheld'
  <2>1. st.tip_hash # None /\ leaf \in Unspent[st.tip_hash] BY <1>3, <1>6, <1>10, StateFacts
  <2>2. Extends(st.tip_hash, tip) BY <1>6, <2>1 DEF Rooted
  <2>3. Held(db, st.tip_hash, leaf) \/ leaf \in withheld BY <1>5, <1>10 DEF Progress
  <2>4. CASE Held(db, st.tip_hash, leaf)
    <3>1. Held(db, tip, leaf) BY <2>1, <2>2, <2>4, HeldAbove
    <3>2. Held(db', tip, leaf) BY <1>2, <1>10, <3>1
    <3> QED BY <2>1, <2>2, <3>2, HeldAbove
  <2>5. CASE leaf \in withheld
    <3>1. leaf \notin Added BY <1>10 DEF Added
    <3> QED BY <1>2, <2>5, <3>1
  <2> QED BY <2>3, <2>4, <2>5
<1>11. \A leaf \in Unspent[tip] : leaf <= last => Held(db', tip, leaf) \/ leaf \in withheld'
  <2> SUFFICES ASSUME NEW leaf \in Unspent[tip], leaf <= last PROVE leaf \notin todo' BY <1>8
  <2>1. leaf \in Nat /\ last \in Nat BY <1>2, <1>7
  <2> QED BY <1>2, <2>1
<1>12. Progress(st', db', tip, TRUE, withheld') BY <1>2, <1>7, <1>9, <1>10, <1>11 DEF Progress
<1>13. Rooted(st', tip) BY <1>2, <1>6 DEF Rooted
<1>14. setup.fail =>
         Progress(saved'.st, saved'.db, best, TRUE, saved'.withheld) /\ Rooted(saved'.st, best)
  <2>1. CASE ~save BY <1>0, <1>1, <2>1 DEF ProgressHolds
  <2>2. CASE save /\ setup.fail
    <3>1. Extends(tip, best) BY <1>0, <1>1, <1>3, <2>2, FailingIsGrowing DEF PassHolds, Resting
    <3>2. saved'.st = st' /\ saved'.db = db' /\ saved'.withheld = withheld' BY <1>1, <2>2
    <3> QED BY <1>2, <1>12, <1>13, <3>1, <3>2, ProgressMoves
  <2> QED BY <2>1, <2>2
<1>15. saved' \in [st : SyncState, db : Book, withheld : SUBSET Leaf]
  BY <1>0, <1>1, <1>2 DEF TypesHold
<1>16. todo' \subseteq todo /\ todo' \subseteq Leaf BY <1>0, <1>2 DEF TypesHold
<1>17. TypesHold' /\ HashesHold'
  BY <1>0, <1>1, <1>2, <1>3, <1>15, <1>16 DEF TypesHold, HashesHold, Live, Resting
<1>18. ProgressHolds' BY <1>1, <1>3, <1>4, <1>12, <1>13, <1>14 DEF ProgressHolds
<1>19. Added' = Added BY <1>1, <1>2 DEF Added
<1>20. PassHolds'
  BY <1>0, <1>1, <1>6, <1>8, <1>13, <1>16, <1>19 DEF PassHolds, Live, Resting, Underway
<1> QED BY <1>17, <1>18, <1>20 DEF FetchInv

LEMMA FetchNothingKeeps ==
  ASSUME FetchInv, FetchNothing
  PROVE  FetchInv'
<1>0. TypesHold /\ HashesHold /\ ProgressHolds /\ PassHolds BY DEF FetchInv
<1> DEFINE leaf == Min(todo)
<1>1. /\ setup' = setup /\ best' = best /\ hashes' = hashes /\ st' = st /\ db' = db
      /\ pc = "fetch" /\ pc' = "fetch" /\ tip' = tip /\ resume' = resume /\ fetched' = fetched
      /\ saved' = saved /\ todo # {}
      /\ todo' = todo \ {leaf} /\ withheld' = withheld \cup {leaf}
  BY DEF FetchNothing, env
<1>2. leaf \in todo
  <2>1. todo \subseteq Nat BY <1>0, NoneFacts DEF TypesHold
  <2>2. \E m \in todo : \A k \in todo : m <= k BY <1>1, <2>1, LeastNatural
  <2> QED BY <2>2 DEF Min
<1> HIDE DEF leaf
<1>3. Here' = tip /\ Here = tip /\ Added' = Added BY <1>1 DEF Here, Resting, Added
<1>4. TypesHold' /\ HashesHold'
  BY <1>0, <1>1, <1>2 DEF TypesHold, HashesHold, Live, Resting
<1>5. Progress(st, db, tip, TRUE, withheld) BY <1>0, <1>1, <1>3 DEF ProgressHolds
<1>6. Progress(st, db, tip, TRUE, withheld') BY <1>1, <1>5 DEF Progress
<1>7. ProgressHolds' BY <1>0, <1>1, <1>3, <1>6 DEF ProgressHolds
<1>8. PassHolds' BY <1>0, <1>1, <1>3 DEF PassHolds, Live, Resting, Underway
<1> QED BY <1>4, <1>7, <1>8 DEF FetchInv

(* What the end of a pass does to the book. *)
LEMMA FinishFacts ==
  ASSUME TypesHold, NEW save \in BOOLEAN, Finish(save)
  PROVE  /\ db' \in Book /\ st' \in SyncState /\ tip \in Blocks
         /\ st'.tip_hash = tip /\ st'.tip_height = HeightOf(tip) /\ st'.leafset = Leafset(tip)
         /\ st'.utxo_cursor = None /\ st'.height_map = st.height_map
         /\ \A id \in OutputId : LeafAt(db', id) = IF Gone(id) THEN None ELSE LeafAt(db, id)
         /\ \A id \in OutputId : LeafAt(db', id) # None =>
              /\ db'.coins[id] # None
              /\ db'.coins[id].block_height
                   = DateLeafIndex(st.height_map, LeafAt(db', id), HeightOf(tip))
<1> DEFINE ids == {id \in OutputId : Gone(id)}
<1>1. st \in SyncState /\ db \in Book /\ tip \in Blocks BY DEF TypesHold, Finish, Resting
<1>2. st.height_map \in [Heights -> Nat \cup {None}] BY <1>1 DEF SyncState
<1>3. db' = SpendAll(Redated(db), ids) BY DEF Finish
<1>4. /\ Redated(db) \in Book
      /\ \A id \in OutputId : LeafAt(Redated(db), id) = LeafAt(db, id)
      /\ \A id \in OutputId : LeafAt(db, id) # None =>
           /\ Redated(db).coins[id] # None
           /\ Redated(db).coins[id].block_height
                = DateLeafIndex(st.height_map, LeafAt(db, id), HeightOf(tip))
  BY <1>1, <1>2, RedatedFacts
<1>5. ids \in SUBSET OutputId OBVIOUS
<1>6. /\ db' \in Book
      /\ \A id \in OutputId : LeafAt(db', id) = IF id \in ids THEN None ELSE LeafAt(Redated(db), id)
  <2> HIDE DEF ids
  <2> QED BY <1>3, <1>4, <1>5, SpendAllFacts
<1>7. \A id \in OutputId : LeafAt(db', id) = IF Gone(id) THEN None ELSE LeafAt(db, id)
  BY <1>4, <1>6
<1>8. ASSUME NEW id \in OutputId, LeafAt(db', id) # None
      PROVE  /\ db'.coins[id] # None
             /\ db'.coins[id].block_height
                  = DateLeafIndex(st.height_map, LeafAt(db', id), HeightOf(tip))
  <2>1. id \notin ids /\ LeafAt(db', id) = LeafAt(db, id) BY <1>7, <1>8
  <2> HIDE DEF ids
  <2>2. db'.coins[id] = Redated(db).coins[id] BY <1>3, <2>1 DEF SpendAll
  <2> QED BY <1>4, <1>8, <2>1, <2>2
<1>9. /\ st'.tip_hash = tip /\ st'.tip_height = HeightOf(tip) /\ st'.leafset = Leafset(tip)
      /\ st'.utxo_cursor = None /\ st'.height_map = st.height_map /\ st'.pending_tip_hash = None
      /\ st' = [tip_hash |-> tip, tip_height |-> HeightOf(tip), leafset |-> Leafset(tip),
                height_map |-> st.height_map, pending_tip_hash |-> None, utxo_cursor |-> None]
  BY DEF Finish
<1>10. HeightOf(tip) \in Nat /\ Leafset(tip) \in {Unspent[c] : c \in Blocks} \cup {None}
  BY <1>1, BlockFacts
<1>11. st' \in SyncState BY <1>1, <1>2, <1>9, <1>10 DEF SyncState
<1> QED BY <1>1, <1>6, <1>7, <1>8, <1>9, <1>11

LEMMA FinishKeeps ==
  ASSUME ReorgsAreCalm, FetchInv, NEW save \in BOOLEAN, Finish(save)
  PROVE  FetchInv'
<1>0. TypesHold /\ HashesHold /\ ProgressHolds /\ PassHolds BY DEF FetchInv
<1>1. /\ setup' = setup /\ best' = best /\ hashes' = hashes /\ pc = "fetch" /\ pc' = "done"
      /\ tip' = None /\ todo = {} /\ todo' = {} /\ resume' = None /\ fetched' = {}
      /\ withheld' = withheld
      /\ saved' = IF save THEN [st |-> st', db |-> db', withheld |-> withheld'] ELSE saved
  BY DEF Finish, env, Checkpoint
<1>2. /\ db' \in Book /\ st' \in SyncState /\ tip \in Blocks
      /\ st'.tip_hash = tip /\ st'.tip_height = HeightOf(tip) /\ st'.leafset = Leafset(tip)
      /\ st'.utxo_cursor = None
      /\ \A id \in OutputId : LeafAt(db', id) = IF Gone(id) THEN None ELSE LeafAt(db, id)
  BY <1>0, FinishFacts
<1>3. Here' = best /\ setup \in Setups /\ db \in Book BY <1>0, <1>1 DEF Here, Resting, TypesHold
<1>4. ASSUME NEW leaf \in Unspent[tip] PROVE Held(db', tip, leaf) \/ leaf \in withheld
  <2> SUFFICES ASSUME leaf \notin withheld, OutputAt(tip, leaf) \in OutputId PROVE LeafAt(db', OutputAt(tip, leaf)) = leaf
    BY DEF Held
  <2> DEFINE id == OutputAt(tip, leaf)
  <2>1. LeafAt(db, id) = leaf BY <1>0, <1>1 DEF PassHolds, Held
  <2>2. leaf # None BY <1>2, BlockFacts, NoneFacts
  <2>3. db.coins[id] # None /\ db.coins[id].leaf_index = leaf BY <2>1, <2>2 DEF LeafAt
  <2>4. ~Gone(id) BY <2>2, <2>3 DEF Gone
  <2> QED BY <1>2, <2>1, <2>4
<1>5. LeavesOf(st'.leafset) = Unspent[tip] /\ tip # None BY <1>2, BlockFacts
<1>6. BaselineHolds(st') BY <1>2, <1>5 DEF BaselineHolds
<1>7. \A b, tried : Progress(st', db', b, tried, withheld) BY <1>2, <1>4, <1>5, <1>6 DEF Progress
<1>8. setup.forks = {} => Rooted(st', best) BY <1>0, <1>1, <1>2 DEF PassHolds, Resting, Rooted
<1>9. setup.fail =>
        Progress(saved'.st, saved'.db, best, TRUE, saved'.withheld) /\ Rooted(saved'.st, best)
  BY <1>0, <1>1, <1>3, <1>7, <1>8, FailingIsGrowing DEF ProgressHolds
<1>10. saved' \in [st : SyncState, db : Book, withheld : SUBSET Leaf]
  BY <1>0, <1>1, <1>2 DEF TypesHold
<1>11. TypesHold' /\ HashesHold'
  BY <1>0, <1>1, <1>2, <1>10 DEF TypesHold, HashesHold, Live, Resting
<1>12. ProgressHolds' BY <1>1, <1>3, <1>7, <1>8, <1>9 DEF ProgressHolds
<1>13. PassHolds' BY <1>1, <1>2, <1>4, <1>5 DEF PassHolds, Resting, Underway
<1> QED BY <1>11, <1>12, <1>13 DEF FetchInv

LEMMA FailKeeps ==
  ASSUME ReorgsAreCalm, FetchInv, Fail
  PROVE  FetchInv'
<1>0. TypesHold /\ HashesHold /\ ProgressHolds /\ PassHolds BY DEF FetchInv
<1>1. /\ setup' = setup /\ best' = best /\ hashes' = hashes /\ pc' = "idle" /\ tip' = None
      /\ todo' = {} /\ resume' = None /\ fetched' = {} /\ withheld' = withheld
      /\ st' = st /\ db' = db /\ saved' = saved /\ setup.fail /\ ~Resting
  BY DEF Fail, env, Resting
<1>2. setup \in Setups /\ st \in SyncState /\ Here = tip /\ Here' = best
  BY <1>0, <1>1 DEF TypesHold, Here, Resting
<1>3. setup.forks = {} BY <1>1, <1>2, FailingIsGrowing
<1>4. (setup.fail \/ pc = "fetch") = TRUE /\ (setup.fail \/ pc = "fetch")' = TRUE BY <1>1
<1>5. Progress(st, db, tip, TRUE, withheld) /\ Rooted(st, tip) BY <1>0, <1>2, <1>3, <1>4 DEF ProgressHolds
<1>6. Extends(tip, best) BY <1>0, <1>1, <1>3 DEF PassHolds
<1>7. Progress(st, db, best, TRUE, withheld) /\ Rooted(st, best) BY <1>2, <1>5, <1>6, ProgressMoves
<1>8. TypesHold' /\ HashesHold' BY <1>0, <1>1 DEF TypesHold, HashesHold, Live, Resting
<1>9. ProgressHolds' BY <1>0, <1>1, <1>2, <1>4, <1>7 DEF ProgressHolds
<1>10. PassHolds' BY <1>1 DEF PassHolds, Resting, Underway
<1> QED BY <1>8, <1>9, <1>10 DEF FetchInv

LEMMA RestartKeeps ==
  ASSUME FetchInv, Restart
  PROVE  FetchInv'
<1>0. TypesHold /\ HashesHold /\ ProgressHolds /\ PassHolds BY DEF FetchInv
<1>1. /\ setup' = setup /\ best' = best /\ hashes' = hashes /\ pc' = "idle" /\ tip' = None
      /\ todo' = {} /\ resume' = None /\ fetched' = {} /\ withheld' = saved.withheld
      /\ st' = saved.st /\ db' = saved.db /\ saved' = saved /\ setup.fail
  BY DEF Restart, env
<1>2. Here' = best BY <1>1 DEF Here, Resting
<1>3. (setup.fail \/ pc = "fetch")' = TRUE BY <1>1
<1>4. TypesHold' /\ HashesHold' BY <1>0, <1>1 DEF TypesHold, HashesHold, Live, Resting
<1>5. ProgressHolds' BY <1>0, <1>1, <1>2, <1>3 DEF ProgressHolds
<1>6. PassHolds' BY <1>1 DEF PassHolds, Resting, Underway
<1> QED BY <1>4, <1>5, <1>6 DEF FetchInv

LEMMA ScanOutputsFacts ==
  ASSUME TypesHold, NEW id \in Pending, ScanOutputs(id)
  PROVE  db' \in Book /\ \A i \in OutputId : LeafAt(db', i) = LeafAt(db, i)
<1> DEFINE coin == [block_height |-> None, leaf_index |-> None]
<1>1. coin \in Coin BY DEF Coin
<1>2. db \in Book /\ id \in OutputId /\ db.coins[id] = None
  BY SetupAssumption DEF TypesHold, ScanOutputs
<1>3. db' = PutUnspent(db, id, coin) BY DEF ScanOutputs
<1>4. db.coins \in [OutputId -> Coin \cup {None}] /\ db.spent \in [OutputId -> Coin \cup {None}]
  BY <1>2 DEF Book, Side
<1>5. db' \in Book BY <1>1, <1>2, <1>3, <1>4 DEF PutUnspent, Book, Side
<1>6. ASSUME NEW i \in OutputId PROVE LeafAt(db', i) = LeafAt(db, i)
  <2>1. db'.coins = [db.coins EXCEPT ![id] = coin] BY <1>3 DEF PutUnspent
  <2>2. coin # None BY <1>1, NoneIsNoCoin
  <2> QED BY <1>2, <1>4, <2>1, <2>2 DEF LeafAt
<1> QED BY <1>5, <1>6

LEMMA ScanOutputsKeeps ==
  ASSUME FetchInv, NEW id \in Pending, ScanOutputs(id)
  PROVE  FetchInv'
<1>0. TypesHold /\ HashesHold /\ ProgressHolds /\ PassHolds BY DEF FetchInv
<1>1. /\ setup' = setup /\ best' = best /\ hashes' = hashes /\ pc' = "idle" /\ tip' = tip
      /\ todo' = todo /\ resume' = resume /\ fetched' = fetched /\ withheld' = withheld
      /\ st' = st /\ saved' = saved /\ Resting
  BY DEF ScanOutputs, env, pass, Resting
<1>2. db' \in Book /\ \A i \in OutputId : LeafAt(db', i) = LeafAt(db, i)
  BY <1>0, ScanOutputsFacts
<1>3. Here = best /\ Here' = best BY <1>1 DEF Here, Resting
<1>4. (setup.fail \/ pc = "fetch")' = (setup.fail \/ pc = "fetch") BY <1>1 DEF Resting
<1>5. st \in SyncState /\ best \in Blocks BY <1>0 DEF TypesHold
<1>6. Progress(st, db, best, setup.fail \/ pc = "fetch", withheld) BY <1>0, <1>3 DEF ProgressHolds
<1>7. Progress(st, db', best, setup.fail \/ pc = "fetch", withheld)
  BY <1>2, <1>5, <1>6, ProgressIsAboutLeaves
<1>8. TypesHold' /\ HashesHold' BY <1>0, <1>1, <1>2 DEF TypesHold, HashesHold, Live, Resting
<1>9. ProgressHolds' BY <1>0, <1>1, <1>3, <1>4, <1>7 DEF ProgressHolds
<1>10. PassHolds' BY <1>1 DEF PassHolds, Resting, Underway
<1> QED BY <1>8, <1>9, <1>10 DEF FetchInv

LEMMA NextFetchInv ==
  ASSUME ReorgsAreCalm, FetchInv, [Next]_vars
  PROVE  FetchInv'
<1>1. CASE \E b \in Blocks, known \in setup.known : NewTip(b, known) BY <1>1, NewTipKeeps
<1>2. CASE ReadTip BY <1>2, ReadTipKeeps
<1>3. CASE \E hashFails \in BOOLEAN : Prepare(hashFails) BY <1>3, PrepareKeeps
<1>4. CASE \E failing \in SUBSET Heights, tipFails \in BOOLEAN : SampleFineHeaders(failing, tipFails)
  BY <1>4, SampleKeeps
<1>5. CASE \E ids \in SUBSET OutputId : DiffLeafset(ids) BY <1>5, DiffKeeps
<1>6. CASE \E first, last \in Leaf, save \in BOOLEAN : FetchBatch(first, last, save)
  BY <1>6, FetchKeeps
<1>7. CASE \E save \in BOOLEAN : Finish(save) BY <1>7, FinishKeeps
<1>8. CASE Fail BY <1>8, FailKeeps
<1>9. CASE Restart BY <1>9, RestartKeeps
<1>10. CASE \E id \in Pending : ScanOutputs(id) BY <1>10, ScanOutputsKeeps
<1>11. CASE FetchNothing BY <1>11, FetchNothingKeeps
<1>12. CASE UNCHANGED vars
  <2>1. /\ setup' = setup /\ best' = best /\ hashes' = hashes /\ pc' = pc /\ tip' = tip
        /\ todo' = todo /\ resume' = resume /\ fetched' = fetched /\ st' = st /\ db' = db
        /\ withheld' = withheld /\ saved' = saved
    BY <1>12 DEF vars, env, pass
  <2> QED BY <2>1 DEF FetchInv, TypesHold, HashesHold, ProgressHolds, PassHolds,
                      Here, Live, Resting, Underway, Added
<1> QED BY <1>1, <1>2, <1>3, <1>4, <1>5, <1>6, <1>7, <1>8, <1>9, <1>10, <1>11, <1>12 DEF Next

(* What leafset and cursor stand for holds throughout: passes that fail at any *)
(* request, restarts from any checkpoint and a chain that moves meanwhile      *)
(* leave nothing marked as fetched that is not in the database, but for the    *)
(* leaves that the peer passed over.  Where the chain reorganises, the header  *)
(* provider is renewed between passes (with set_tip this fails).               *)
THEOREM AlwaysFetchInv ==
  ASSUME ReorgsAreCalm
  PROVE  Spec => []FetchInv
<1>1. Init => FetchInv BY InitFetchInv
<1>2. FetchInv /\ [Next]_vars => FetchInv' BY NextFetchInv
<1> QED BY <1>1, <1>2, PTL DEF Spec

LEMMA FetchedIsNotMissed ==
  ASSUME FetchInv
  PROVE  NoCoinMissed
<1> SUFFICES ASSUME pc = "done", NEW id \in OwnedIn(st.tip_hash, Unspent[st.tip_hash] \ withheld)
             PROVE  id \in Confirmed
  BY DEF NoCoinMissed
<1>1. /\ st.tip_hash # None /\ st \in SyncState
      /\ \A leaf \in Unspent[st.tip_hash] : Held(db, st.tip_hash, leaf) \/ leaf \in withheld
  BY DEF FetchInv, PassHolds, TypesHold
<1>2. st.tip_hash \in Blocks BY <1>1 DEF SyncState
<1>3. PICK leaf \in Unspent[st.tip_hash] \ withheld : id = OutputAt(st.tip_hash, leaf) BY DEF OwnedIn
<1>4. id \in OutputId BY DEF OwnedIn
<1>5. LeafAt(db, id) = leaf BY <1>1, <1>3, <1>4 DEF Held
<1>6. leaf # None BY <1>2, <1>3, BlockFacts, NoneFacts
<1> QED BY <1>4, <1>5, <1>6 DEF LeafAt, Confirmed

(* run_once misses no coin that the peer does not withhold: after a pass every *)
(* owned output that is unspent at the synced tip is in the database, unless   *)
(* its leaf was passed over since the last full download began.                *)
THEOREM AlwaysNoCoinMissed ==
  ASSUME ReorgsAreCalm
  PROVE  Spec => []NoCoinMissed
<1>1. FetchInv => NoCoinMissed BY FetchedIsNotMissed
<1> QED BY <1>1, AlwaysFetchInv, PTL

-----------------------------------------------------------------------------
(* No coin too many, while the chain only grows. *)

(* The unspent coins of the book are outputs of b, at their leaves. *)
Genuine(book, b) ==
  \A id \in OutputId : LeafAt(book, id) # None =>
    LeafAt(book, id) < MmrSize(b) /\ OutputAt(b, LeafAt(book, id)) = id

LeavesIn(book, leaves) ==
  \A id \in OutputId : LeafAt(book, id) # None => LeafAt(book, id) \in leaves

LeavesBelow(book, n) ==
  \A id \in OutputId : LeafAt(book, id) # None => LeafAt(book, id) < n

(* Every unspent coin was created on the chain; without failures those that   *)
(* were spent since the last pass are the only ones too many, unless the      *)
(* leafset is dropped and the next pass downloads everything.                 *)
GrowthHolds ==
  setup.forks = {} =>
    /\ Genuine(db, Here) /\ Genuine(saved.db, best)
    /\ pc = "done" => LeavesBelow(db, MmrSize(st.tip_hash))
    /\ ~setup.fail /\ st.leafset # None =>
         LeavesIn(db, IF pc = "fetch" THEN Unspent[tip] ELSE LeavesOf(st.leafset))

LEMMA GenuineMoves ==
  ASSUME NEW book \in Book, NEW a, NEW b, Extends(a, b), Genuine(book, a)
  PROVE  Genuine(book, b)
<1> SUFFICES ASSUME NEW id \in OutputId, LeafAt(book, id) # None
             PROVE  LeafAt(book, id) < MmrSize(b) /\ OutputAt(b, LeafAt(book, id)) = id
  BY DEF Genuine
<1> DEFINE leaf == LeafAt(book, id)
<1>1. leaf \in Nat BY LeafAtType, NoneFacts
<1>2. leaf < MmrSize(a) /\ OutputAt(a, leaf) = id BY DEF Genuine
<1>3. a \in Blocks /\ b \in Blocks /\ MmrSize(a) <= MmrSize(b) BY ExtendsFacts
<1>4. MmrSize(a) \in Nat /\ MmrSize(b) \in Nat BY <1>3, BlockFacts
<1>5. OutputAt(a, leaf) = OutputAt(b, leaf) BY <1>1, <1>2, ExtendsFacts
<1>6. leaf < MmrSize(b)
  <2> HIDE DEF leaf
  <2> QED BY <1>1, <1>2, <1>3, <1>4
<1> QED BY <1>2, <1>5, <1>6

(* A book with no other coins is as good. *)
LEMMA FewerCoins ==
  ASSUME NEW book, NEW copy,
         \A id \in OutputId : LeafAt(copy, id) = None \/ LeafAt(copy, id) = LeafAt(book, id)
  PROVE  /\ \A b : Genuine(book, b) => Genuine(copy, b)
         /\ \A leaves : LeavesIn(book, leaves) => LeavesIn(copy, leaves)
         /\ \A n : LeavesBelow(book, n) => LeavesBelow(copy, n)
BY DEF Genuine, LeavesIn, LeavesBelow

LEMMA GrowthStarts ==
  ASSUME Init
  PROVE  GrowthHolds
<1>1. \A id \in OutputId : LeafAt(EmptyBook, id) = None BY DEF LeafAt, EmptyBook
<1>2. /\ \A b : Genuine(EmptyBook, b)
      /\ \A leaves : LeavesIn(EmptyBook, leaves)
  BY <1>1 DEF Genuine, LeavesIn
<1>3. db = EmptyBook /\ saved.db = EmptyBook /\ pc # "done" BY DEF Init
<1> QED BY <1>2, <1>3 DEF GrowthHolds

LEMMA NewTipGrowth ==
  ASSUME FetchInv, GrowthHolds, NEW b \in Blocks, NEW known, NewTip(b, known)
  PROVE  GrowthHolds'
<1>1. /\ setup' = setup /\ best' = b /\ st' = st /\ db' = db /\ pc' = pc /\ tip' = tip /\ saved' = saved
  BY DEF NewTip, pass
<1> SUFFICES ASSUME setup.forks = {} PROVE GrowthHolds' BY <1>1 DEF GrowthHolds
<1>2. TypesHold BY DEF FetchInv
<1>3. Extends(best, b) BY <1>2, NewTipGrows
<1>4. db \in Book /\ saved.db \in Book BY <1>2 DEF TypesHold
<1>5. Genuine(saved.db, b) BY <1>3, <1>4, GenuineMoves DEF GrowthHolds
<1>6. Here' = IF Resting THEN b ELSE tip BY <1>1 DEF Here, Resting
<1>7. Genuine(db, Here') BY <1>3, <1>4, <1>6, GenuineMoves DEF GrowthHolds, Here
<1> QED BY <1>1, <1>5, <1>7 DEF GrowthHolds

LEMMA ReadTipGrowth ==
  ASSUME GrowthHolds, ReadTip
  PROVE  GrowthHolds'
<1>1. /\ setup' = setup /\ best' = best /\ st' = st /\ db' = db /\ pc' = "prepare"
      /\ tip' = best /\ saved' = saved /\ Resting
  BY DEF ReadTip, env, Resting
<1>2. Here' = Here /\ pc # "fetch" BY <1>1 DEF Here, Resting
<1> QED BY <1>1, <1>2 DEF GrowthHolds

LEMMA PrepareGrowth ==
  ASSUME FetchInv, GrowthHolds, NEW hashFails \in BOOLEAN, Prepare(hashFails)
  PROVE  GrowthHolds'
<1>1. /\ setup' = setup /\ best' = best /\ pc = "prepare" /\ pc' = "sample" /\ tip' = tip /\ saved' = saved
  BY DEF Prepare, env, pass
<1>2. TypesHold BY DEF FetchInv
<1>3. Here' = Here BY <1>1 DEF Here, Resting
<1>4. CASE ~ReorgFound(hashFails)
  <2>1. st' = st /\ db' = db BY <1>4 DEF Prepare
  <2> QED BY <1>1, <1>3, <2>1 DEF GrowthHolds
<1>5. CASE ReorgFound(hashFails)
  <2>1. /\ \A id \in OutputId : LeafAt(db', id) = LeafAt(db, id)
        /\ st'.leafset = None
    BY <1>2, <1>5, PrepareFacts
  <2>2. \A b : Genuine(db, b) => Genuine(db', b) BY <2>1, FewerCoins
  <2> QED BY <1>1, <1>3, <2>1, <2>2 DEF GrowthHolds
<1> QED BY <1>4, <1>5

LEMMA SampleGrowth ==
  ASSUME FetchInv, GrowthHolds, NEW failing, NEW tipFails \in BOOLEAN,
         SampleFineHeaders(failing, tipFails)
  PROVE  GrowthHolds'
<1>1. /\ setup' = setup /\ best' = best /\ db' = db /\ pc = "sample" /\ pc' = "leafset"
      /\ tip' = tip /\ saved' = saved
  BY DEF SampleFineHeaders, env, pass
<1>2. st'.leafset = st.leafset BY SampleFacts DEF FetchInv
<1>3. Here' = Here BY <1>1 DEF Here, Resting
<1> QED BY <1>1, <1>2, <1>3 DEF GrowthHolds

LEMMA DiffGrowth ==
  ASSUME FetchInv, GrowthHolds, NEW ids \in SUBSET OutputId, DiffLeafset(ids)
  PROVE  GrowthHolds'
<1>1. /\ setup' = setup /\ best' = best /\ pc = "leafset" /\ pc' = "fetch" /\ tip' = tip /\ saved' = saved
      /\ IsSpentByRemoved(ids)
  BY DEF DiffLeafset, env
<1>2. /\ st'.leafset = st.leafset
      /\ \A id \in OutputId : LeafAt(db', id) = IF id \in ids THEN None ELSE LeafAt(db, id)
      /\ \A id \in ids : LeafAt(db, id) \in Removed
  BY DiffFacts DEF FetchInv
<1>3. Here' = tip /\ Here = tip BY <1>1 DEF Here, Resting
<1>4. \A b : Genuine(db, b) => Genuine(db', b) BY <1>2, FewerCoins
<1>5. ASSUME setup.forks = {}, ~setup.fail, st.leafset # None PROVE LeavesIn(db', Unspent[tip])
  <2> SUFFICES ASSUME NEW id \in OutputId, LeafAt(db', id) # None, LeafAt(db', id) \notin Unspent[tip]
               PROVE  FALSE
    BY DEF LeavesIn
  <2> DEFINE leaf == LeafAt(db, id)
  <2>1. id \notin ids /\ LeafAt(db', id) = leaf /\ leaf # None BY <1>2
  <2>2. LeavesIn(db, LeavesOf(st.leafset)) /\ Genuine(db, tip) BY <1>1, <1>3, <1>5 DEF GrowthHolds
  <2>3. leaf \in Removed BY <2>1, <2>2 DEF LeavesIn, Removed
  <2>4. id \in AtLeaf(leaf) BY <2>1 DEF AtLeaf, LeafAt
  <2>5. Cardinality(ids \cap AtLeaf(leaf)) = 1 BY <1>1, <2>3, <2>4 DEF IsSpentByRemoved
  <2>6. ids \cap AtLeaf(leaf) # {} BY <2>5, FS_EmptySet
  <2>7. PICK j \in ids : j \in AtLeaf(leaf) BY <2>6
  <2>8. j \in OutputId /\ LeafAt(db, j) = leaf BY <2>7 DEF AtLeaf, LeafAt
  <2>9. OutputAt(tip, leaf) = id /\ OutputAt(tip, leaf) = j BY <2>1, <2>2, <2>8 DEF Genuine
  <2> QED BY <2>1, <2>9
<1> QED BY <1>1, <1>2, <1>3, <1>4, <1>5 DEF GrowthHolds

LEMMA FetchNothingGrowth ==
  ASSUME GrowthHolds, FetchNothing
  PROVE  GrowthHolds'
<1>1. /\ setup' = setup /\ best' = best /\ st' = st /\ db' = db /\ pc = "fetch" /\ pc' = "fetch"
      /\ tip' = tip /\ saved' = saved
  BY DEF FetchNothing, env
<1>2. Here' = Here BY <1>1 DEF Here, Resting
<1> QED BY <1>1, <1>2 DEF GrowthHolds

LEMMA FetchGrowth ==
  ASSUME FetchInv, GrowthHolds, NEW first \in Leaf, NEW last \in Leaf, NEW save \in BOOLEAN,
         FetchBatch(first, last, save)
  PROVE  GrowthHolds'
<1>1. /\ setup' = setup /\ best' = best /\ pc = "fetch" /\ pc' = "fetch" /\ tip' = tip
      /\ saved' = IF save THEN [st |-> st', db |-> db', withheld |-> withheld'] ELSE saved
  BY DEF FetchBatch, env, Checkpoint
<1>2. TypesHold /\ PassHolds BY DEF FetchInv
<1>3. /\ db' \in Book /\ st'.leafset = st.leafset
      /\ \A id \in OutputId : \/ LeafAt(db', id) = LeafAt(db, id)
                              \/ LeafAt(db', id) \in Unspent[tip] /\ OutputAt(tip, LeafAt(db', id)) = id
  BY <1>2, FetchFacts
<1>4. Here' = tip /\ Here = tip /\ tip \in Blocks BY <1>1, <1>2 DEF Here, Resting, TypesHold
<1>5. \A leaf \in Unspent[tip] : leaf < MmrSize(tip) BY <1>4, BlockFacts
<1>6. Genuine(db, tip) => Genuine(db', tip) BY <1>3, <1>5 DEF Genuine
<1>7. LeavesIn(db, Unspent[tip]) => LeavesIn(db', Unspent[tip]) BY <1>3 DEF LeavesIn
<1>8. setup.forks = {} => Extends(tip, best) BY <1>1, <1>2 DEF PassHolds, Resting
<1>9. setup.forks = {} => Genuine(db', best) BY <1>3, <1>4, <1>6, <1>8, GenuineMoves DEF GrowthHolds
<1> QED BY <1>1, <1>3, <1>4, <1>6, <1>7, <1>9 DEF GrowthHolds

(* What the end of a pass leaves is unspent at the tip: a full download drops *)
(* what is not, and a difference is complete unless a pass broke off.         *)
LEMMA FinishIsExact ==
  ASSUME FetchInv, GrowthHolds, NEW save \in BOOLEAN, Finish(save), setup.forks = {}
  PROVE  /\ Genuine(db', tip)
         /\ st.leafset = None \/ ~setup.fail => LeavesIn(db', Unspent[tip])
<1>1. TypesHold /\ pc = "fetch" BY DEF FetchInv, Finish
<1>2. \A id \in OutputId : LeafAt(db', id) = IF Gone(id) THEN None ELSE LeafAt(db, id)
  BY <1>1, FinishFacts
<1>3. Here = tip BY <1>1 DEF Here, Resting
<1>4. Genuine(db, tip) BY <1>3 DEF GrowthHolds
<1>5. Genuine(db', tip) BY <1>2, <1>4, FewerCoins
<1>6. CASE ~setup.fail /\ st.leafset # None
  <2>1. LeavesIn(db, Unspent[tip]) BY <1>1, <1>6 DEF GrowthHolds
  <2> QED BY <1>2, <1>5, <2>1, FewerCoins
<1>7. CASE st.leafset = None
  <2> SUFFICES ASSUME NEW id \in OutputId, LeafAt(db', id) # None PROVE LeafAt(db', id) \in Unspent[tip]
    BY <1>5 DEF LeavesIn
  <2>1. ~Gone(id) /\ LeafAt(db', id) = LeafAt(db, id) BY <1>2
  <2> QED BY <1>7, <2>1 DEF Gone, LeafAt
<1> QED BY <1>5, <1>6, <1>7

LEMMA FinishGrowth ==
  ASSUME FetchInv, GrowthHolds, NEW save \in BOOLEAN, Finish(save)
  PROVE  GrowthHolds'
<1>1. /\ setup' = setup /\ best' = best /\ pc = "fetch" /\ pc' = "done"
      /\ saved' = IF save THEN [st |-> st', db |-> db', withheld |-> withheld'] ELSE saved
  BY DEF Finish, env, Checkpoint
<1>2. TypesHold /\ PassHolds BY DEF FetchInv
<1> SUFFICES ASSUME setup.forks = {} PROVE GrowthHolds' BY <1>1 DEF GrowthHolds
<1>3. /\ db' \in Book /\ tip \in Blocks /\ st'.tip_hash = tip /\ st'.leafset = Leafset(tip)
  BY <1>2, FinishFacts
<1>4. Genuine(db', tip) /\ (~setup.fail => LeavesIn(db', Unspent[tip])) BY FinishIsExact
<1>5. Here' = best BY <1>1 DEF Here, Resting
<1>6. Extends(tip, best) BY <1>1, <1>2 DEF PassHolds, Resting
<1>7. Genuine(db', best) BY <1>3, <1>4, <1>6, GenuineMoves
<1>8. LeavesBelow(db', MmrSize(st'.tip_hash)) BY <1>3, <1>4 DEF Genuine, LeavesBelow
<1>9. LeavesOf(st'.leafset) = Unspent[tip] BY <1>3, BlockFacts
<1>10. Genuine(saved'.db, best) BY <1>1, <1>7 DEF GrowthHolds
<1> QED BY <1>1, <1>4, <1>5, <1>7, <1>8, <1>9, <1>10 DEF GrowthHolds

LEMMA BreakingOffGrowth ==
  ASSUME FetchInv, GrowthHolds, Fail \/ Restart
  PROVE  GrowthHolds'
<1>1. /\ setup' = setup /\ best' = best /\ pc' = "idle" /\ saved' = saved /\ setup.fail
      /\ (db' = db /\ ~Resting) \/ db' = saved.db
  BY DEF Fail, Restart, env, Resting
<1>2. TypesHold /\ PassHolds BY DEF FetchInv
<1>3. Here' = best BY <1>1 DEF Here, Resting
<1> SUFFICES ASSUME setup.forks = {} PROVE GrowthHolds' BY <1>1 DEF GrowthHolds
<1>4. Genuine(db', best)
  <2>1. CASE db' = saved.db BY <2>1 DEF GrowthHolds
  <2>2. CASE db' = db /\ ~Resting
    <3>1. Extends(tip, best) /\ Here = tip /\ db \in Book BY <1>2, <2>2 DEF PassHolds, Here, TypesHold
    <3> QED BY <2>2, <3>1, GenuineMoves DEF GrowthHolds
  <2> QED BY <1>1, <2>1, <2>2
<1> QED BY <1>1, <1>3, <1>4 DEF GrowthHolds

LEMMA ScanOutputsGrowth ==
  ASSUME FetchInv, GrowthHolds, NEW id \in Pending, ScanOutputs(id)
  PROVE  GrowthHolds'
<1>1. /\ setup' = setup /\ best' = best /\ pc' = "idle" /\ tip' = tip /\ st' = st /\ saved' = saved
      /\ Resting
  BY DEF ScanOutputs, env, pass, Resting
<1>2. \A i \in OutputId : LeafAt(db', i) = LeafAt(db, i) BY ScanOutputsFacts DEF FetchInv
<1>3. /\ \A b : Genuine(db, b) => Genuine(db', b)
      /\ \A leaves : LeavesIn(db, leaves) => LeavesIn(db', leaves)
  BY <1>2, FewerCoins
<1>4. Here' = Here /\ pc # "fetch" BY <1>1 DEF Here, Resting
<1> QED BY <1>1, <1>3, <1>4 DEF GrowthHolds

LEMMA NextGrowth ==
  ASSUME FetchInv, GrowthHolds, [Next]_vars
  PROVE  GrowthHolds'
<1>1. CASE \E b \in Blocks, known \in setup.known : NewTip(b, known) BY <1>1, NewTipGrowth
<1>2. CASE ReadTip BY <1>2, ReadTipGrowth
<1>3. CASE \E hashFails \in BOOLEAN : Prepare(hashFails) BY <1>3, PrepareGrowth
<1>4. CASE \E failing \in SUBSET Heights, tipFails \in BOOLEAN : SampleFineHeaders(failing, tipFails)
  BY <1>4, SampleGrowth
<1>5. CASE \E ids \in SUBSET OutputId : DiffLeafset(ids) BY <1>5, DiffGrowth
<1>6. CASE \E first, last \in Leaf, save \in BOOLEAN : FetchBatch(first, last, save)
  BY <1>6, FetchGrowth
<1>7. CASE \E save \in BOOLEAN : Finish(save) BY <1>7, FinishGrowth
<1>8. CASE Fail \/ Restart BY <1>8, BreakingOffGrowth
<1>9. CASE \E id \in Pending : ScanOutputs(id) BY <1>9, ScanOutputsGrowth
<1>10. CASE FetchNothing BY <1>10, FetchNothingGrowth
<1>11. CASE UNCHANGED vars
  <2>1. /\ setup' = setup /\ best' = best /\ pc' = pc /\ tip' = tip
        /\ st' = st /\ db' = db /\ saved' = saved
    BY <1>11 DEF vars, env, pass
  <2> QED BY <2>1 DEF GrowthHolds, Here, Resting
<1> QED BY <1>1, <1>2, <1>3, <1>4, <1>5, <1>6, <1>7, <1>8, <1>9, <1>10, <1>11 DEF Next

(* A pass is over after its last step, and while the tip moves on. *)
LEMMA DoneAfter ==
  ASSUME Next, pc' = "done"
  PROVE  \/ \E save \in BOOLEAN : Finish(save)
         \/ \E b \in Blocks, known \in setup.known : NewTip(b, known) /\ pc = "done"
BY DEF Next, NewTip, ReadTip, Prepare, SampleFineHeaders, DiffLeafset, FetchBatch, FetchNothing,
       Fail, Restart, ScanOutputs

LEMMA NoPhantomStep ==
  ASSUME FetchInv, FetchInv', GrowthHolds, Next, setup.forks = {}, st.leafset = None \/ ~setup.fail
  PROVE  NoPhantomCoin'
<1> SUFFICES ASSUME pc' = "done", NEW id \in Confirmed' PROVE id \in OwnedAt(st'.tip_hash)
  BY DEF NoPhantomCoin
<1> DEFINE leaf == LeafAt(db', id)
<1>1. id \in OutputId /\ leaf # None BY DEF Confirmed, LeafAt
<1>2. TypesHold /\ PassHolds /\ ProgressHolds /\ db' \in Book BY DEF FetchInv, TypesHold
<1>3. leaf \in Nat BY <1>1, <1>2, LeafAtType, NoneFacts
<1>4. leaf \in Unspent[st'.tip_hash] /\ OutputAt(st'.tip_hash, leaf) = id
  <2>1. CASE \E save \in BOOLEAN : Finish(save)
    <3>1. PICK save \in BOOLEAN : Finish(save) BY <2>1
    <3>2. Genuine(db', tip) /\ LeavesIn(db', Unspent[tip]) BY <3>1, FinishIsExact
    <3>3. st'.tip_hash = tip BY <3>1 DEF Finish
    <3> QED BY <1>1, <3>2, <3>3 DEF Genuine, LeavesIn
  <2>2. CASE \E b \in Blocks, known \in setup.known : NewTip(b, known) /\ pc = "done"
    <3>1. db' = db /\ st' = st /\ pc = "done" BY <2>2 DEF NewTip
    <3>2. Here = best /\ st \in SyncState /\ st.tip_hash # None
      BY <1>2, <3>1 DEF Here, Resting, TypesHold, PassHolds
    <3>3. Genuine(db, best) /\ Rooted(st, best) /\ BaselineHolds(st)
      BY <1>2, <3>2 DEF GrowthHolds, ProgressHolds, Progress
    <3>4. Extends(st.tip_hash, best) /\ LeavesOf(st.leafset) = Unspent[st.tip_hash]
          /\ st.tip_hash \in Blocks /\ st.leafset = Leafset(st.tip_hash)
      BY <3>2, <3>3, StateFacts DEF Rooted
    <3>5. leaf < MmrSize(st.tip_hash) BY <1>1, <3>1 DEF GrowthHolds, LeavesBelow
    <3>6. OutputAt(st.tip_hash, leaf) = OutputAt(best, leaf) BY <1>3, <3>4, <3>5, ExtendsFacts
    <3>7. OutputAt(best, leaf) = id BY <1>1, <3>1, <3>3 DEF Genuine
    <3>8. leaf \in Unspent[st.tip_hash]
      <4>1. CASE st.leafset = None
        <5>1. MmrSize(st.tip_hash) = 0 BY <3>4, <4>1, BlockFacts
        <5>2. leaf < 0 BY <3>5, <5>1
        <5> HIDE DEF leaf
        <5> QED BY <1>3, <5>2
      <4>2. CASE ~setup.fail /\ st.leafset # None
        <5>1. LeavesIn(db, LeavesOf(st.leafset)) BY <3>1, <4>2 DEF GrowthHolds
        <5> QED BY <1>1, <3>1, <3>4, <5>1 DEF LeavesIn
      <4> QED BY <4>1, <4>2
    <3> QED BY <3>1, <3>6, <3>7, <3>8
  <2> QED BY <2>1, <2>2, DoneAfter
<1> QED BY <1>1, <1>4 DEF OwnedAt, OwnedIn

(* While the chain only grows, a pass of run_once leaves no coin that the tip *)
(* does not have, if it downloads everything or no pass has broken off.       *)
THEOREM AlwaysNoPhantomCoin ==
  ASSUME ReorgsAreCalm
  PROVE  Spec => NoPhantomCoinOnGrowingChain
<1>1. Init => FetchInv /\ GrowthHolds BY InitFetchInv, GrowthStarts
<1>2. FetchInv /\ GrowthHolds /\ [Next]_vars => (FetchInv /\ GrowthHolds)'
  BY NextFetchInv, NextGrowth
<1>3. FetchInv /\ FetchInv' /\ GrowthHolds /\ [Next]_vars =>
        [setup.forks = {} /\ (st.leafset = None \/ ~setup.fail) => NoPhantomCoin']_vars
  BY NoPhantomStep
<1> QED BY <1>1, <1>2, <1>3, PTL DEF Spec, NoPhantomCoinOnGrowingChain

-----------------------------------------------------------------------------
(* No coin too old. *)

(* The sizes in the map are those of the blocks up to b. *)
Sized(map, b) ==
  \A i \in Heights : map[i] # None => i <= HeightOf(b) /\ map[i] = MmrSize(BlockAt(b, i))

(* Between passes the map follows the last tip, during a pass the new one; a  *)
(* coin that may be of an abandoned branch goes with the full download.       *)
BranchHolds ==
  IF Underway
    THEN Sized(st.height_map, tip) /\ (st.leafset = None \/ LeavesBelow(db, MmrSize(tip)))
    ELSE IF st.tip_hash = None THEN \A i \in Heights : st.height_map[i] = None
         ELSE Sized(st.height_map, st.tip_hash) /\ LeavesBelow(db, MmrSize(st.tip_hash))

DatingHolds ==
  ~Live =>
    /\ setup.forks = {} => Sized(st.height_map, Here) /\ Sized(saved.st.height_map, best)
    /\ setup.forks # {} => BranchHolds
    /\ NeverDatedEarly

LEMMA SizedMoves ==
  ASSUME NEW map, NEW a, NEW b, Extends(a, b), Sized(map, a)
  PROVE  Sized(map, b)
<1> SUFFICES ASSUME NEW i \in Heights, map[i] # None
             PROVE  i <= HeightOf(b) /\ map[i] = MmrSize(BlockAt(b, i))
  BY DEF Sized
<1>1. i <= HeightOf(a) /\ map[i] = MmrSize(BlockAt(a, i)) BY DEF Sized
<1>2. i \in Nat BY NoneFacts
<1>3. a \in Blocks /\ b \in Blocks /\ HeightOf(a) <= HeightOf(b) BY ExtendsFacts
<1>4. HeightOf(a) \in Nat /\ HeightOf(b) \in Nat BY <1>3, BlockFacts
<1>5. BlockAt(b, i) = BlockAt(a, i) BY <1>1, <1>2, ExtendsFacts
<1> QED BY <1>1, <1>2, <1>3, <1>4, <1>5

LEMMA FewerSizes ==
  ASSUME NEW map, NEW copy, NEW b, Sized(map, b),
         \A i \in Heights : copy[i] = None \/ copy[i] = map[i]
  PROVE  Sized(copy, b)
BY DEF Sized

LEMMA BelowMoves ==
  ASSUME NEW book \in Book, NEW n \in Nat, NEW m \in Nat, n <= m, LeavesBelow(book, n)
  PROVE  LeavesBelow(book, m)
<1>1. \A id \in OutputId : LeafAt(book, id) # None => LeafAt(book, id) \in Nat
  BY LeafAtType, NoneFacts
<1> QED BY <1>1 DEF LeavesBelow

(* With true sizes, the date of a leaf is not before the block that made it. *)
LEMMA DateIsNotEarly ==
  ASSUME NEW b \in Blocks, NEW map \in [Heights -> Nat \cup {None}], Sized(map, b),
         NEW leaf \in Leaf, leaf < MmrSize(b)
  PROVE  LET d == DateLeafIndex(map, leaf, HeightOf(b))
         IN d <= HeightOf(b) /\ MmrSize(BlockAt(b, d)) > leaf
<1> DEFINE h == HeightOf(b)
           d == DateLeafIndex(map, leaf, h)
<1>1. h \in Nat /\ h \in Heights /\ MmrSize(b) \in Nat /\ leaf \in Nat BY BlockFacts, NoneFacts
<1>2. d \in Heights /\ (d = h \/ (map[d] # None /\ map[d] > leaf)) BY <1>1, DateFacts
<1>3. BlockAt(b, h) = b BY ExtendsItself DEF Extends
<1> HIDE DEF d
<1>4. CASE d = h BY <1>1, <1>3, <1>4 DEF d
<1>5. CASE map[d] # None /\ map[d] > leaf
  <2>1. d <= h /\ map[d] = MmrSize(BlockAt(b, d)) BY <1>2, <1>5 DEF Sized
  <2> QED BY <1>5, <2>1 DEF d
<1> QED BY <1>2, <1>4, <1>5

LEMMA DatingStarts ==
  ASSUME Init
  PROVE  DatingHolds
<1>1. \A i \in Heights : NoState.height_map[i] = None BY DEF NoState
<1>2. \A b : Sized(NoState.height_map, b) BY <1>1 DEF Sized
<1>3. st = NoState /\ saved.st = NoState /\ pc = "idle" BY DEF Init
<1>4. ~Underway /\ NeverDatedEarly BY <1>3 DEF Underway, NeverDatedEarly
<1>5. st.tip_hash = None BY <1>3 DEF NoState
<1> QED BY <1>1, <1>2, <1>3, <1>4, <1>5 DEF DatingHolds, BranchHolds

LEMMA NewTipDating ==
  ASSUME ReorgsAreCalm, FetchInv, DatingHolds, NEW b \in Blocks, NEW known, NewTip(b, known)
  PROVE  DatingHolds'
<1>1. /\ setup' = setup /\ best' = b /\ st' = st /\ db' = db /\ pc' = pc /\ tip' = tip /\ saved' = saved
      /\ Live \/ Resting
  BY DEF NewTip, pass, Resting
<1> SUFFICES ASSUME ~Live PROVE DatingHolds' BY <1>1 DEF DatingHolds, Live
<1>2. TypesHold BY DEF FetchInv
<1>3. NeverDatedEarly' BY <1>1 DEF DatingHolds, NeverDatedEarly, Confirmed, Live
<1>4. setup.forks # {} => BranchHolds' BY <1>1 DEF DatingHolds, BranchHolds, Underway
<1>5. Here = best /\ Here' = b BY <1>1 DEF Here, Resting
<1>6. ASSUME setup.forks = {} PROVE Sized(st.height_map, b) /\ Sized(saved.st.height_map, b)
  <2>1. Extends(best, b) BY <1>2, <1>6, NewTipGrows
  <2> QED BY <1>5, <1>6, <2>1, SizedMoves DEF DatingHolds
<1> QED BY <1>1, <1>3, <1>4, <1>5, <1>6 DEF DatingHolds

LEMMA ReadTipDating ==
  ASSUME DatingHolds, ReadTip
  PROVE  DatingHolds'
<1>1. /\ setup' = setup /\ best' = best /\ st' = st /\ db' = db /\ pc' = "prepare"
      /\ tip' = best /\ saved' = saved /\ Resting
  BY DEF ReadTip, env, Resting
<1>2. Here' = Here /\ ~Underway /\ ~Underway' BY <1>1 DEF Here, Resting, Underway
<1>3. NeverDatedEarly' BY <1>1 DEF NeverDatedEarly
<1>4. ~Live /\ setup.forks # {} => BranchHolds' BY <1>1, <1>2 DEF DatingHolds, BranchHolds
<1> QED BY <1>1, <1>2, <1>3, <1>4 DEF DatingHolds, Live

(* What a reorganisation leaves of the map is common to both branches. *)
LEMMA RetainedIsShared ==
  ASSUME setup \in Setups, tip \in Blocks, pc = "prepare", ReorgsAreShallow,
         st.tip_hash # None, st.tip_hash \in Blocks, Sized(st.height_map, st.tip_hash)
  PROVE  Sized(RetainBelow(st.height_map, HeightOf(tip)), tip)
<1> DEFINE kept == RetainBelow(st.height_map, HeightOf(tip))
<1> SUFFICES ASSUME NEW i \in Heights, kept[i] # None
             PROVE  i <= HeightOf(tip) /\ kept[i] = MmrSize(BlockAt(tip, i))
  BY DEF Sized
<1>1. i + setup.window < HeightOf(tip) /\ kept[i] = st.height_map[i] BY DEF RetainBelow
<1> HIDE DEF kept
<1>2. i <= HeightOf(st.tip_hash) /\ st.height_map[i] = MmrSize(BlockAt(st.tip_hash, i))
  BY <1>1 DEF Sized
<1>3. BlockAt(tip, i) = BlockAt(st.tip_hash, i) BY <1>1, <1>2 DEF ReorgsAreShallow
<1>4. i \in Nat /\ HeightOf(tip) \in Nat /\ setup.window \in Nat
  BY BlockFacts, NoneFacts, SetupAssumption
<1>5. i <= HeightOf(tip) BY <1>1, <1>4
<1> QED BY <1>1, <1>2, <1>3, <1>5

LEMMA PrepareDating ==
  ASSUME ReorgsAreCalm, FetchInv, DatingHolds, ReorgsAreShallow,
         NEW hashFails \in BOOLEAN, Prepare(hashFails)
  PROVE  DatingHolds'
<1>1. /\ setup' = setup /\ best' = best /\ pc = "prepare" /\ pc' = "sample" /\ tip' = tip /\ saved' = saved
  BY DEF Prepare, env, pass
<1> SUFFICES ASSUME ~Live PROVE DatingHolds' BY <1>1 DEF DatingHolds, Live
<1>2. TypesHold /\ ProgressHolds BY DEF FetchInv
<1>3. Here = tip /\ Here' = tip /\ tip \in Blocks /\ setup \in Setups /\ st \in SyncState /\ db \in Book
  BY <1>1, <1>2 DEF Here, Resting, TypesHold
<1>4. BaselineHolds(st) BY <1>2 DEF ProgressHolds, Progress
<1>5. NeverDatedEarly' BY <1>1 DEF NeverDatedEarly
<1>6. ~Underway /\ Underway' BY <1>1 DEF Underway
<1> DEFINE kept == RetainBelow(st.height_map, HeightOf(tip))
<1>7. \A i \in Heights : kept[i] = None \/ kept[i] = st.height_map[i] BY DEF RetainBelow
<1>8. \/ st' = st /\ db' = db /\ Rooted(st, tip)
      \/ st'.leafset = None /\ st'.height_map = kept
  <2>1. CASE ReorgFound(hashFails) BY <1>2, <2>1, PrepareFacts
  <2>2. CASE ~ReorgFound(hashFails)
    <3>1. st' = st /\ db' = db BY <2>2 DEF Prepare
    <3>2. Rooted(st, tip) BY <1>1, <2>2, KeepingIsRooted
    <3> QED BY <3>1, <3>2
  <2> QED BY <2>1, <2>2
<1> HIDE DEF kept
<1>9. setup.forks = {} => Sized(st'.height_map, tip)
  <2> SUFFICES ASSUME setup.forks = {} PROVE Sized(st'.height_map, tip) OBVIOUS
  <2>1. Sized(st.height_map, tip) BY <1>3 DEF DatingHolds
  <2>2. Sized(kept, tip) BY <1>7, <2>1, FewerSizes
  <2> QED BY <1>8, <2>1, <2>2
<1>10. ASSUME setup.forks # {}
       PROVE  Sized(st'.height_map, tip) /\ (st'.leafset = None \/ LeavesBelow(db', MmrSize(tip)))
  <2>1. BranchHolds BY <1>10 DEF DatingHolds
  <2>2. CASE st.tip_hash = None
    <3>1. \A i \in Heights : st.height_map[i] = None BY <1>6, <2>1, <2>2 DEF BranchHolds
    <3>2. \A i \in Heights : st'.height_map[i] = None BY <1>7, <1>8, <3>1
    <3>3. st.leafset = None BY <1>4, <2>2 DEF BaselineHolds
    <3> QED BY <1>8, <3>2, <3>3 DEF Sized
  <2>3. CASE st.tip_hash # None
    <3>1. Sized(st.height_map, st.tip_hash) /\ LeavesBelow(db, MmrSize(st.tip_hash))
      BY <1>6, <2>1, <2>3 DEF BranchHolds
    <3>2. st.tip_hash \in Blocks BY <1>3, <1>4, <2>3, StateFacts
    <3>3. CASE st' = st /\ db' = db /\ Rooted(st, tip)
      <4>1. Extends(st.tip_hash, tip) BY <2>3, <3>3 DEF Rooted
      <4>2. Sized(st.height_map, tip) BY <3>1, <4>1, SizedMoves
      <4>3. MmrSize(st.tip_hash) <= MmrSize(tip) BY <4>1, ExtendsFacts
      <4>4. MmrSize(st.tip_hash) \in Nat /\ MmrSize(tip) \in Nat BY <1>3, <3>2, BlockFacts
      <4>5. LeavesBelow(db, MmrSize(tip)) BY <1>3, <3>1, <4>3, <4>4, BelowMoves
      <4> QED BY <3>3, <4>2, <4>5
    <3>4. CASE st'.leafset = None /\ st'.height_map = kept
      <4>1. Sized(kept, tip) BY <1>1, <1>3, <2>3, <3>1, <3>2, RetainedIsShared DEF kept
      <4> QED BY <3>4, <4>1
    <3> QED BY <1>8, <3>3, <3>4
  <2> QED BY <2>2, <2>3
<1>11. setup.forks # {} => BranchHolds' BY <1>1, <1>6, <1>10 DEF BranchHolds
<1> QED BY <1>1, <1>3, <1>5, <1>9, <1>11 DEF DatingHolds

(* A request of a pass that adds only true sizes, and only leaves of the tip. *)
LEMMA RequestDating ==
  ASSUME FetchInv, DatingHolds, Underway, Underway',
         setup' = setup, best' = best, tip' = tip, st'.leafset = st.leafset,
         saved' = saved \/ saved' = [st |-> st', db |-> db', withheld |-> withheld'],
         ~Live /\ Sized(st.height_map, tip) => Sized(st'.height_map, tip),
         LeavesBelow(db, MmrSize(tip)) => LeavesBelow(db', MmrSize(tip))
  PROVE  DatingHolds'
<1> SUFFICES ASSUME ~Live PROVE DatingHolds' BY DEF DatingHolds, Live
<1>1. ~Resting /\ ~Resting' /\ pc' # "done" BY DEF Resting, Underway
<1>2. tip = best BY <1>1 DEF FetchInv, PassHolds
<1>3. Here = tip /\ Here' = tip BY <1>1 DEF Here
<1>4. Sized(st.height_map, tip) BY <1>3 DEF DatingHolds, BranchHolds
<1>5. Sized(st'.height_map, tip) BY <1>4
<1>6. setup.forks = {} => Sized(saved'.st.height_map, best) BY <1>2, <1>5 DEF DatingHolds
<1>7. setup.forks # {} => BranchHolds' BY <1>5 DEF DatingHolds, BranchHolds
<1>8. NeverDatedEarly' BY <1>1 DEF NeverDatedEarly
<1> QED BY <1>3, <1>5, <1>6, <1>7, <1>8 DEF DatingHolds

LEMMA SampleDating ==
  ASSUME FetchInv, DatingHolds, NEW failing, NEW tipFails \in BOOLEAN,
         SampleFineHeaders(failing, tipFails)
  PROVE  DatingHolds'
<1>1. /\ setup' = setup /\ best' = best /\ db' = db /\ pc = "sample" /\ pc' = "leafset"
      /\ tip' = tip /\ saved' = saved
  BY DEF SampleFineHeaders, env, pass
<1>2. TypesHold /\ HashesHold /\ PassHolds BY DEF FetchInv
<1>3. /\ st'.leafset = st.leafset
      /\ \A i \in Heights : \/ st'.height_map[i] = st.height_map[i]
                            \/ i = HeightOf(tip) /\ st'.height_map[i] = MmrSize(best)
                            \/ /\ i <= HeightOf(best) /\ i <= HeightOf(tip)
                               /\ st'.height_map[i] = MmrSize(BlockAt(best, i))
  BY <1>2, SampleFacts
<1>4. Underway /\ Underway' BY <1>1 DEF Underway
<1>5. ASSUME ~Live, Sized(st.height_map, tip) PROVE Sized(st'.height_map, tip)
  <2>1. tip = best /\ tip \in Blocks BY <1>1, <1>2, <1>5 DEF PassHolds, TypesHold, Resting
  <2>2. BlockAt(tip, HeightOf(tip)) = tip /\ HeightOf(tip) <= HeightOf(tip)
    BY <2>1, ExtendsItself DEF Extends
  <2> QED BY <1>3, <1>5, <2>1, <2>2 DEF Sized
<1> QED BY <1>1, <1>3, <1>4, <1>5, RequestDating

LEMMA DiffDating ==
  ASSUME FetchInv, DatingHolds, NEW ids \in SUBSET OutputId, DiffLeafset(ids)
  PROVE  DatingHolds'
<1>1. /\ setup' = setup /\ best' = best /\ pc = "leafset" /\ pc' = "fetch" /\ tip' = tip /\ saved' = saved
  BY DEF DiffLeafset, env
<1>2. TypesHold BY DEF FetchInv
<1>3. /\ st'.leafset = st.leafset
      /\ st'.height_map = [st.height_map EXCEPT ![HeightOf(tip)] = MmrSize(tip)]
      /\ \A id \in OutputId : LeafAt(db', id) = IF id \in ids THEN None ELSE LeafAt(db, id)
  BY <1>2, DiffFacts
<1>4. Underway /\ Underway' BY <1>1 DEF Underway
<1>5. LeavesBelow(db, MmrSize(tip)) => LeavesBelow(db', MmrSize(tip)) BY <1>3, FewerCoins
<1>6. ASSUME Sized(st.height_map, tip) PROVE Sized(st'.height_map, tip)
  <2>1. tip \in Blocks /\ st.height_map \in [Heights -> Nat \cup {None}]
    BY <1>1, <1>2 DEF TypesHold, Resting, SyncState
  <2>2. BlockAt(tip, HeightOf(tip)) = tip /\ HeightOf(tip) <= HeightOf(tip)
    BY <2>1, ExtendsItself DEF Extends
  <2>3. \A i \in Heights : st'.height_map[i] = IF i = HeightOf(tip) THEN MmrSize(tip) ELSE st.height_map[i]
    BY <1>3, <2>1
  <2> QED BY <1>6, <2>2, <2>3 DEF Sized
<1> QED BY <1>1, <1>3, <1>4, <1>5, <1>6, RequestDating

LEMMA FetchNothingDating ==
  ASSUME FetchInv, DatingHolds, FetchNothing
  PROVE  DatingHolds'
<1>1. /\ setup' = setup /\ best' = best /\ st' = st /\ db' = db /\ pc = "fetch" /\ pc' = "fetch"
      /\ tip' = tip /\ saved' = saved
  BY DEF FetchNothing, env
<1>2. Underway /\ Underway' BY <1>1 DEF Underway
<1> QED BY <1>1, <1>2, RequestDating

LEMMA FetchDating ==
  ASSUME FetchInv, DatingHolds, NEW first \in Leaf, NEW last \in Leaf, NEW save \in BOOLEAN,
         FetchBatch(first, last, save)
  PROVE  DatingHolds'
<1>1. /\ setup' = setup /\ best' = best /\ pc = "fetch" /\ pc' = "fetch" /\ tip' = tip
      /\ saved' = saved \/ saved' = [st |-> st', db |-> db', withheld |-> withheld']
  BY DEF FetchBatch, env, Checkpoint
<1>2. TypesHold BY DEF FetchInv
<1>3. /\ st'.leafset = st.leafset /\ st'.height_map = st.height_map
      /\ \A id \in OutputId : \/ LeafAt(db', id) = LeafAt(db, id)
                              \/ LeafAt(db', id) \in Unspent[tip] /\ OutputAt(tip, LeafAt(db', id)) = id
  BY <1>2, FetchFacts
<1>4. Underway /\ Underway' /\ tip \in Blocks BY <1>1, <1>2 DEF Underway, TypesHold, Resting
<1>5. \A leaf \in Unspent[tip] : leaf < MmrSize(tip) BY <1>4, BlockFacts
<1>6. LeavesBelow(db, MmrSize(tip)) => LeavesBelow(db', MmrSize(tip)) BY <1>3, <1>5 DEF LeavesBelow
<1> QED BY <1>1, <1>3, <1>4, <1>6, RequestDating

LEMMA FinishDating ==
  ASSUME ReorgsAreCalm, FetchInv, GrowthHolds, DatingHolds, NEW save \in BOOLEAN, Finish(save)
  PROVE  DatingHolds'
<1>1. /\ setup' = setup /\ best' = best /\ pc = "fetch" /\ pc' = "done"
      /\ saved' = IF save THEN [st |-> st', db |-> db', withheld |-> withheld'] ELSE saved
  BY DEF Finish, env, Checkpoint
<1> SUFFICES ASSUME ~Live PROVE DatingHolds' BY <1>1 DEF DatingHolds, Live
<1>2. TypesHold /\ PassHolds BY DEF FetchInv
<1>3. /\ db' \in Book /\ st' \in SyncState /\ tip \in Blocks
      /\ st'.tip_hash = tip /\ st'.height_map = st.height_map
      /\ \A id \in OutputId : LeafAt(db', id) = IF Gone(id) THEN None ELSE LeafAt(db, id)
      /\ \A id \in OutputId : LeafAt(db', id) # None =>
           /\ db'.coins[id] # None
           /\ db'.coins[id].block_height
                = DateLeafIndex(st.height_map, LeafAt(db', id), HeightOf(tip))
  BY <1>2, FinishFacts
<1>4. tip = best /\ Here = tip /\ Here' = best BY <1>1, <1>2 DEF PassHolds, Resting, Here
<1>5. Underway /\ ~Underway' BY <1>1 DEF Underway
<1>6. Sized(st.height_map, tip) BY <1>4, <1>5 DEF DatingHolds, BranchHolds
<1>7. LeavesBelow(db', MmrSize(tip))
  <2>1. CASE st.leafset = None
    <3> SUFFICES ASSUME NEW id \in OutputId, LeafAt(db', id) # None
                 PROVE  LeafAt(db', id) < MmrSize(tip)
      BY DEF LeavesBelow
    <3>1. ~Gone(id) /\ LeafAt(db', id) = LeafAt(db, id) BY <1>3
    <3>2. LeafAt(db', id) \in Unspent[tip] BY <2>1, <3>1 DEF Gone, LeafAt
    <3> QED BY <1>3, <3>2, BlockFacts
  <2>2. CASE st.leafset # None
    <3>1. LeavesBelow(db, MmrSize(tip))
      BY <1>4, <1>5, <2>2 DEF DatingHolds, BranchHolds, GrowthHolds, Genuine, LeavesBelow
    <3> QED BY <1>3, <3>1, FewerCoins
  <2> QED BY <2>1, <2>2
<1>8. tip # None /\ st.height_map \in [Heights -> Nat \cup {None}]
  BY <1>2, <1>3, BlockFacts DEF TypesHold, SyncState
<1>9. NeverDatedEarly'
  <2> SUFFICES ASSUME NEW id \in Confirmed'
               PROVE  LET h == db'.coins[id].block_height
                      IN /\ h <= HeightOf(st'.tip_hash)
                         /\ MmrSize(BlockAt(st'.tip_hash, h)) > db'.coins[id].leaf_index
    BY DEF NeverDatedEarly
  <2> DEFINE leaf == LeafAt(db', id)
  <2>1. id \in OutputId /\ leaf # None /\ db'.coins[id].leaf_index = leaf BY DEF Confirmed, LeafAt
  <2>2. leaf \in Leaf BY <1>3, <2>1, LeafAtType
  <2>3. leaf < MmrSize(tip) BY <1>7, <2>1 DEF LeavesBelow
  <2>4. db'.coins[id].block_height = DateLeafIndex(st.height_map, leaf, HeightOf(tip)) BY <1>3, <2>1
  <2> HIDE DEF leaf
  <2>5. LET d == DateLeafIndex(st.height_map, leaf, HeightOf(tip))
        IN d <= HeightOf(tip) /\ MmrSize(BlockAt(tip, d)) > leaf
    BY <1>3, <1>6, <1>8, <2>2, <2>3, DateIsNotEarly
  <2> QED BY <1>3, <2>1, <2>4, <2>5
<1>10. setup.forks = {} => Sized(saved'.st.height_map, best)
  BY <1>1, <1>3, <1>4, <1>6 DEF DatingHolds
<1>11. BranchHolds' BY <1>3, <1>5, <1>6, <1>7, <1>8 DEF BranchHolds
<1> QED BY <1>1, <1>3, <1>4, <1>6, <1>9, <1>10, <1>11 DEF DatingHolds

LEMMA BreakingOffDating ==
  ASSUME ReorgsAreCalm, FetchInv, DatingHolds, Fail \/ Restart
  PROVE  DatingHolds'
<1>1. /\ setup' = setup /\ best' = best /\ pc' = "idle" /\ saved' = saved /\ setup.fail
      /\ (st' = st /\ ~Resting) \/ st' = saved.st
  BY DEF Fail, Restart, env, Resting
<1> SUFFICES ASSUME ~Live PROVE DatingHolds' BY <1>1 DEF DatingHolds, Live
<1>2. setup.forks = {} BY <1>1, FailingIsGrowing DEF FetchInv, TypesHold
<1>3. Here' = best /\ NeverDatedEarly' BY <1>1 DEF Here, Resting, NeverDatedEarly
<1>4. ~Resting => Here = best BY DEF FetchInv, PassHolds, Here
<1>5. Sized(st'.height_map, best) BY <1>1, <1>2, <1>4 DEF DatingHolds
<1> QED BY <1>1, <1>2, <1>3, <1>5 DEF DatingHolds

LEMMA ScanOutputsDating ==
  ASSUME FetchInv, DatingHolds, NEW id \in Pending, ScanOutputs(id)
  PROVE  DatingHolds'
<1>1. /\ setup' = setup /\ best' = best /\ pc' = "idle" /\ tip' = tip /\ st' = st /\ saved' = saved
      /\ Resting
  BY DEF ScanOutputs, env, pass, Resting
<1>2. \A i \in OutputId : LeafAt(db', i) = LeafAt(db, i) BY ScanOutputsFacts DEF FetchInv
<1>3. \A n : LeavesBelow(db, n) => LeavesBelow(db', n) BY <1>2, FewerCoins
<1>4. Here' = Here /\ ~Underway /\ ~Underway' BY <1>1 DEF Here, Resting, Underway
<1>5. NeverDatedEarly' BY <1>1 DEF NeverDatedEarly
<1>6. ~Live /\ setup.forks # {} => BranchHolds' BY <1>1, <1>3, <1>4 DEF DatingHolds, BranchHolds
<1> QED BY <1>1, <1>4, <1>5, <1>6 DEF DatingHolds, Live

LEMMA NextDating ==
  ASSUME ReorgsAreCalm, ReorgsAreShallow, FetchInv, GrowthHolds, DatingHolds, [Next]_vars
  PROVE  DatingHolds'
<1>1. CASE \E b \in Blocks, known \in setup.known : NewTip(b, known) BY <1>1, NewTipDating
<1>2. CASE ReadTip BY <1>2, ReadTipDating
<1>3. CASE \E hashFails \in BOOLEAN : Prepare(hashFails) BY <1>3, PrepareDating
<1>4. CASE \E failing \in SUBSET Heights, tipFails \in BOOLEAN : SampleFineHeaders(failing, tipFails)
  BY <1>4, SampleDating
<1>5. CASE \E ids \in SUBSET OutputId : DiffLeafset(ids) BY <1>5, DiffDating
<1>6. CASE \E first, last \in Leaf, save \in BOOLEAN : FetchBatch(first, last, save)
  BY <1>6, FetchDating
<1>7. CASE \E save \in BOOLEAN : Finish(save) BY <1>7, FinishDating
<1>8. CASE Fail \/ Restart BY <1>8, BreakingOffDating
<1>9. CASE \E id \in Pending : ScanOutputs(id) BY <1>9, ScanOutputsDating
<1>10. CASE FetchNothing BY <1>10, FetchNothingDating
<1>11. CASE UNCHANGED vars
  <2>1. /\ setup' = setup /\ best' = best /\ pc' = pc /\ tip' = tip
        /\ st' = st /\ db' = db /\ saved' = saved
    BY <1>11 DEF vars, env, pass
  <2> QED BY <2>1 DEF DatingHolds, BranchHolds, NeverDatedEarly, Confirmed, Here, Live, Resting, Underway
<1> QED BY <1>1, <1>2, <1>3, <1>4, <1>5, <1>6, <1>7, <1>8, <1>9, <1>10, <1>11 DEF Next

(* With a FixedHeaderProvider no coin is dated before the block that created *)
(* it, whatever the window, the chain and the heights the provider knows,     *)
(* through failed passes, restarts and reorganisations that are not deeper    *)
(* than the window; for a reorganisation the provider is renewed, because the *)
(* hashes that set_tip leaves are those of the abandoned branch.              *)
THEOREM NotDatedEarly ==
  ASSUME ReorgsAreCalm
  PROVE  Spec /\ []ReorgsAreShallow => []NeverDatedEarly
<1> DEFINE Inv == FetchInv /\ GrowthHolds /\ DatingHolds
<1>1. Init => Inv BY InitFetchInv, GrowthStarts, DatingStarts
<1>2. Inv /\ ReorgsAreShallow /\ [Next]_vars => Inv' BY NextFetchInv, NextGrowth, NextDating
<1>3. Inv => NeverDatedEarly BY DEF DatingHolds, NeverDatedEarly
<1> QED BY <1>1, <1>2, <1>3, PTL DEF Spec

-----------------------------------------------------------------------------
(* The coin database, for any outputs, heights and leaves: what is stored    *)
(* and what is staged always add up to the database in memory, with SQLite   *)
(* always, with a file store as long as no output marked spent is scanned    *)
(* again.                                                                    *)

(* The condition under which Merge for ChangeSet repeats what the database did. *)
SpendsAreFinal == Backend = "file" => ~MayUnspend

(* Reloading, output by output. *)
ReloadedCoin(id) ==
  IF staged.spent[id] # None THEN None
  ELSE IF staged.coins[id] # None THEN staged.coins[id] ELSE stored.coins[id]
ReloadedSpent(id) ==
  IF staged.spent[id] # None THEN staged.spent[id]
  ELSE IF staged.coins[id] # None THEN None ELSE stored.spent[id]

(* With a file store, an unspent entry is staged only over an unspent one. *)
NoStagedUnspend ==
  Backend = "file" =>
    \A id \in OutputId : staged.coins[id] # None => stored.spent[id] = None

Reloads ==
  \A id \in OutputId : memory.coins[id] = ReloadedCoin(id) /\ memory.spent[id] = ReloadedSpent(id)

(* The inductive invariant. *)
BookInv == TypeOK /\ NeverOnBothSides /\ NoStagedUnspend /\ Reloads

-----------------------------------------------------------------------------

(* A book is determined by its two sides. *)
LEMMA BookEquality ==
  ASSUME NEW a \in Book, NEW b \in Book,
         \A id \in OutputId : a.coins[id] = b.coins[id] /\ a.spent[id] = b.spent[id]
  PROVE  a = b
<1>1. a.coins = b.coins /\ a.spent = b.spent
  BY DEF Book, Side
<1>. QED BY <1>1 DEF Book

(* What is written and read again is a book. *)
LEMMA SaveType ==
  ASSUME NEW a \in Book, NEW b \in Book
  PROVE  Save(a, b) \in Book /\ FromChangeset(a) \in Book
BY DEF Save, MergeChangeSets, PersistToSqlite, FromChangeset, Book, Side

(* The operations on a book yield books. *)
LEMMA PutType ==
  ASSUME NEW b \in Book, NEW id \in OutputId, NEW coin \in Coin
  PROVE  /\ PutUnspent(b, id, coin) \in Book
         /\ PutSpent(b, id, coin) \in Book
         /\ [b EXCEPT !.coins[id] = coin] \in Book
BY DEF PutUnspent, PutSpent, Book, Side

LEMMA UndatedIsCoin ==
  ASSUME NEW coin \in Coin \cup {None}, NEW height \in CoinHeight, IsAtOrAbove(coin, height)
  PROVE  Undated(coin) \in Coin /\ Undated(coin) # None
<1>1. coin \in Coin
  BY DEF IsAtOrAbove
<1>2. Undated(coin) \in Coin
  BY <1>1 DEF Undated, Coin
<1>. QED BY <1>2, NoneIsNoCoin

(* The invariant says that writing and loading gives the database. *)
LEMMA IInvReloads == BookInv => ReloadMatches
<1>. SUFFICES ASSUME BookInv PROVE ReloadMatches
  OBVIOUS
<1>. DEFINE r == FromChangeset(Save(stored, staged))
<1>1. r \in Book /\ memory \in Book
  BY SaveType DEF BookInv, TypeOK
<1>2. ASSUME NEW id \in OutputId
      PROVE  r.coins[id] = memory.coins[id] /\ r.spent[id] = memory.spent[id]
  <2>1. memory.coins[id] = ReloadedCoin(id) /\ memory.spent[id] = ReloadedSpent(id)
    BY DEF BookInv, Reloads
  <2>2. /\ staged.coins[id] = None \/ staged.spent[id] = None
        /\ stored.coins[id] = None \/ stored.spent[id] = None
    BY DEF BookInv, NeverOnBothSides, Disjoint
  <2>3. CASE Backend = "file"
    <3>1. staged.coins[id] # None => stored.spent[id] = None
      BY <2>3 DEF BookInv, NoStagedUnspend
    <3>. QED BY <2>1, <2>2, <2>3, <3>1
         DEF FromChangeset, Save, MergeChangeSets, ReloadedCoin, ReloadedSpent
  <2>4. CASE Backend # "file"
    BY <2>1, <2>2, <2>4
    DEF FromChangeset, Save, PersistToSqlite, ReloadedCoin, ReloadedSpent
  <2>. QED BY <2>3, <2>4
<1>3. r = memory
  BY <1>1, <1>2, BookEquality
<1>. QED BY <1>3 DEF ReloadMatches

-----------------------------------------------------------------------------

LEMMA InitIInv == BookInit => BookInv
BY DEF BookInit, BookInv, TypeOK, NeverOnBothSides, Disjoint, NoStagedUnspend, Reloads,
       ReloadedCoin, ReloadedSpent, EmptyBook, Book, Side

LEMMA InsertIInv ==
  ASSUME SpendsAreFinal, BookInv, NEW id \in OutputId, NEW coin \in Coin, Insert(id, coin)
  PROVE  BookInv'
<1>1. TypeOK'
  BY PutType DEF BookInv, TypeOK, Insert
<1>2. coin # None
  BY NoneIsNoCoin
<1>3. NeverOnBothSides'
  BY DEF BookInv, TypeOK, NeverOnBothSides, Disjoint, Insert, PutUnspent, Book, Side
<1>4. NoStagedUnspend'
  BY DEF BookInv, TypeOK, NeverOnBothSides, Disjoint, NoStagedUnspend, Reloads,
         ReloadedSpent, Insert, PutUnspent, SpendsAreFinal, Book, Side
<1>5. Reloads'
  BY <1>2 DEF BookInv, TypeOK, Reloads, ReloadedCoin, ReloadedSpent, Insert, PutUnspent, Book, Side
<1>. QED BY <1>1, <1>3, <1>4, <1>5 DEF BookInv

LEMMA MarkSpentIInv ==
  ASSUME BookInv, NEW id \in OutputId, MarkSpent(id)
  PROVE  BookInv'
<1>1. memory.coins[id] \in Coin /\ memory.coins[id] # None
  BY DEF BookInv, TypeOK, MarkSpent, Book, Side
<1>2. TypeOK'
  BY <1>1, PutType DEF BookInv, TypeOK, MarkSpent
<1>3. NeverOnBothSides'
  BY DEF BookInv, TypeOK, NeverOnBothSides, Disjoint, MarkSpent, PutSpent, Book, Side
<1>4. NoStagedUnspend'
  BY DEF BookInv, TypeOK, NoStagedUnspend, MarkSpent, PutSpent, Book, Side
<1>5. Reloads'
  BY <1>1 DEF BookInv, TypeOK, Reloads, ReloadedCoin, ReloadedSpent, MarkSpent, PutSpent, Book, Side
<1>. QED BY <1>2, <1>3, <1>4, <1>5 DEF BookInv

LEMMA DisconnectIInv ==
  ASSUME BookInv, NEW height \in CoinHeight, DisconnectFrom(height)
  PROVE  BookInv'
<1>1. ASSUME NEW id \in OutputId
      PROVE  /\ IsAtOrAbove(memory.coins[id], height) =>
                  Undated(memory.coins[id]) \in Coin /\ Undated(memory.coins[id]) # None
             /\ IsAtOrAbove(memory.spent[id], height) =>
                  Undated(memory.spent[id]) \in Coin /\ Undated(memory.spent[id]) # None
  BY UndatedIsCoin DEF BookInv, TypeOK, Book, Side
<1>2. ASSUME NEW id \in OutputId
      PROVE  /\ IsAtOrAbove(memory.coins[id], height) => memory.coins[id] # None
             /\ IsAtOrAbove(memory.spent[id], height) => memory.spent[id] # None
  BY DEF IsAtOrAbove
<1>3. TypeOK'
  BY <1>1 DEF BookInv, TypeOK, DisconnectFrom, Disconnect, ClearHeights, StagedByDisconnect,
              Book, Side
<1>4. NeverOnBothSides'
  <2>1. Disjoint(memory)'
    BY <1>2 DEF BookInv, NeverOnBothSides, Disjoint, DisconnectFrom, Disconnect, ClearHeights
  <2>2. Disjoint(staged)'
    BY <1>2 DEF BookInv, NeverOnBothSides, Disjoint, Reloads, ReloadedCoin, ReloadedSpent,
                DisconnectFrom, StagedByDisconnect
  <2>3. Disjoint(stored)'
    BY DEF BookInv, NeverOnBothSides, Disjoint, DisconnectFrom
  <2>. QED BY <2>1, <2>2, <2>3 DEF NeverOnBothSides
<1>5. NoStagedUnspend'
  BY <1>2 DEF BookInv, NeverOnBothSides, Disjoint, NoStagedUnspend, Reloads, ReloadedCoin,
              ReloadedSpent, DisconnectFrom, StagedByDisconnect
<1>6. Reloads'
  <2>. SUFFICES ASSUME NEW id \in OutputId
                PROVE  (memory.coins[id] = ReloadedCoin(id) /\ memory.spent[id] = ReloadedSpent(id))'
    BY DEF Reloads
  <2>1. /\ memory.coins[id] = ReloadedCoin(id) /\ memory.spent[id] = ReloadedSpent(id)
        /\ memory.coins[id] = None \/ memory.spent[id] = None
        /\ staged.coins[id] = None \/ staged.spent[id] = None
        /\ stored.coins[id] = None \/ stored.spent[id] = None
    BY DEF BookInv, Reloads, NeverOnBothSides, Disjoint
  <2>2. /\ memory'.coins[id] = IF IsAtOrAbove(memory.coins[id], height) THEN Undated(memory.coins[id])
                           ELSE memory.coins[id]
        /\ memory'.spent[id] = IF IsAtOrAbove(memory.spent[id], height) THEN Undated(memory.spent[id])
                           ELSE memory.spent[id]
        /\ staged'.coins[id] = IF IsAtOrAbove(memory.coins[id], height)
                               THEN Undated(memory.coins[id]) ELSE staged.coins[id]
        /\ staged'.spent[id] = IF IsAtOrAbove(memory.spent[id], height)
                               THEN Undated(memory.spent[id]) ELSE staged.spent[id]
        /\ stored' = stored
    BY DEF DisconnectFrom, Disconnect, ClearHeights, StagedByDisconnect
  <2>. QED BY <1>1, <1>2, <2>1, <2>2 DEF ReloadedCoin, ReloadedSpent
<1>. QED BY <1>3, <1>4, <1>5, <1>6 DEF BookInv

LEMMA RetagIInv ==
  ASSUME BookInv, NEW id \in OutputId, memory.coins[id] # None, NEW coin \in Coin, Retag(id, coin)
  PROVE  BookInv'
<1>1. TypeOK'
  BY PutType DEF BookInv, TypeOK, Retag
<1>2. coin # None
  BY NoneIsNoCoin
<1>3. staged.spent[id] = None
  BY DEF BookInv, Reloads, ReloadedCoin
<1>4. NeverOnBothSides'
  BY <1>3 DEF BookInv, TypeOK, NeverOnBothSides, Disjoint, Retag, Book, Side
<1>5. NoStagedUnspend'
  BY <1>3 DEF BookInv, TypeOK, NeverOnBothSides, Disjoint, NoStagedUnspend, Reloads,
              ReloadedCoin, ReloadedSpent, Retag, Book, Side
<1>6. Reloads'
  BY <1>2, <1>3 DEF BookInv, TypeOK, NeverOnBothSides, Disjoint, Reloads, ReloadedCoin,
                    ReloadedSpent, Retag, Book, Side
<1>. QED BY <1>1, <1>4, <1>5, <1>6 DEF BookInv

LEMMA PersistIInv ==
  ASSUME BookInv, Persist
  PROVE  BookInv'
<1>0. EmptyBook \in Book
  BY DEF EmptyBook, Book, Side
<1>1. TypeOK'
  BY <1>0, SaveType DEF BookInv, TypeOK, Persist
<1>2. ASSUME NEW id \in OutputId
      PROVE  /\ stored'.coins[id] = memory.coins[id]
             /\ stored'.spent[id] = memory.spent[id]
             /\ staged'.coins[id] = None /\ staged'.spent[id] = None
             /\ memory' = memory
  <2>1. FromChangeset(stored') = memory
    BY IInvReloads DEF ReloadMatches, Persist
  <2>2. stored'.spent[id] = memory.spent[id]
    BY <2>1 DEF FromChangeset
  <2>3. stored'.spent[id] # None => stored'.coins[id] = None
    BY DEF BookInv, NeverOnBothSides, Disjoint, Persist, Save, MergeChangeSets, PersistToSqlite
  <2>4. stored'.coins[id] = memory.coins[id]
    BY <2>1, <2>3 DEF FromChangeset
  <2>. QED BY <2>2, <2>4 DEF Persist, EmptyBook
<1>3. NeverOnBothSides'
  BY <1>2 DEF BookInv, NeverOnBothSides, Disjoint
<1>4. NoStagedUnspend'
  BY <1>2 DEF NoStagedUnspend
<1>5. Reloads'
  BY <1>2 DEF Reloads, ReloadedCoin, ReloadedSpent
<1>. QED BY <1>1, <1>3, <1>4, <1>5 DEF BookInv

LEMMA RestartIInv ==
  ASSUME BookInv, Reload
  PROVE  BookInv'
<1>0. EmptyBook \in Book
  BY DEF EmptyBook, Book, Side
<1>1. TypeOK'
  BY <1>0, SaveType DEF BookInv, TypeOK, Reload
<1>2. ASSUME NEW id \in OutputId
      PROVE  /\ memory'.coins[id] = stored.coins[id]
             /\ memory'.spent[id] = stored.spent[id]
             /\ staged'.coins[id] = None /\ staged'.spent[id] = None
             /\ stored' = stored
  BY DEF BookInv, NeverOnBothSides, Disjoint, Reload, FromChangeset, EmptyBook
<1>3. NeverOnBothSides'
  BY <1>2 DEF BookInv, NeverOnBothSides, Disjoint
<1>4. NoStagedUnspend'
  BY <1>2 DEF NoStagedUnspend
<1>5. Reloads'
  BY <1>2 DEF Reloads, ReloadedCoin, ReloadedSpent
<1>. QED BY <1>1, <1>3, <1>4, <1>5 DEF BookInv

LEMMA NextIInv ==
  ASSUME SpendsAreFinal, BookInv, [BookNext]_bookVars
  PROVE  BookInv'
<1>1. ASSUME NEW id \in OutputId, NEW coin \in Coin, Insert(id, coin) PROVE BookInv'
  BY <1>1, InsertIInv
<1>2. ASSUME NEW id \in OutputId, MarkSpent(id) PROVE BookInv'
  BY <1>2, MarkSpentIInv
<1>3. ASSUME NEW leaf \in Leaf, MarkSpentByLeafIndex(leaf) PROVE BookInv'
  BY <1>3, MarkSpentIInv DEF MarkSpentByLeafIndex
<1>4. ASSUME NEW height \in CoinHeight, DisconnectFrom(height) PROVE BookInv'
  BY <1>4, DisconnectIInv
<1>5. ASSUME NEW id \in OutputId, NEW height \in CoinHeight, SetBlockHeight(id, height)
      PROVE  BookInv'
  <2>1. [memory.coins[id] EXCEPT !.block_height = height] \in Coin
    BY <1>5 DEF SetBlockHeight, BookInv, TypeOK, Book, Side, Coin
  <2>. QED BY <1>5, <2>1, RetagIInv DEF SetBlockHeight
<1>6. ASSUME NEW id \in OutputId, NEW leaf \in Leaf, SetLeafIndex(id, leaf)
      PROVE  BookInv'
  <2>1. [memory.coins[id] EXCEPT !.leaf_index = leaf] \in Coin
    BY <1>6 DEF SetLeafIndex, BookInv, TypeOK, Book, Side, Coin
  <2>. QED BY <1>6, <2>1, RetagIInv DEF SetLeafIndex
<1>7. CASE UNCHANGED bookVars
  BY <1>7 DEF bookVars, BookInv, TypeOK, NeverOnBothSides, Disjoint, NoStagedUnspend, Reloads,
              ReloadedCoin, ReloadedSpent
<1>. QED BY <1>1, <1>2, <1>3, <1>4, <1>5, <1>6, <1>7, PersistIInv, RestartIInv DEF BookNext

(* The invariant holds of every reachable state. *)
THEOREM AlwaysIInv ==
  ASSUME SpendsAreFinal
  PROVE  BookSpec => []BookInv
<1>1. BookInit => BookInv
  BY InitIInv
<1>2. BookInv /\ [BookNext]_bookVars => BookInv'
  BY NextIInv
<1>. QED BY <1>1, <1>2, PTL DEF BookSpec

(* No output is ever both spent and unspent. *)
THEOREM OneSideOnly ==
  ASSUME SpendsAreFinal
  PROVE  BookSpec => []NeverOnBothSides
<1>1. BookInv => NeverOnBothSides
  BY DEF BookInv
<1>. QED BY <1>1, AlwaysIInv, PTL

(* Whatever was scanned, spent, disconnected and retagged, and wherever the   *)
(* process was stopped, writing the staged changeset and loading the store    *)
(* gives the database in memory.                                              *)
THEOREM AlwaysReloads ==
  ASSUME SpendsAreFinal
  PROVE  BookSpec => []ReloadMatches
BY IInvReloads, AlwaysIInv, PTL
=============================================================================
