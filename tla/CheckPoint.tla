----------------------------- MODULE CheckPoint -----------------------------
(***************************************************************************)
(* The sparse chain of checkpoints of crates/core (checkpoint.rs,          *)
(* checkpoint_entry.rs).  A CheckPoint<D> is a linked list whose nodes     *)
(* have strictly decreasing heights, so it is modelled by the function     *)
(* from heights to the block stored there, None where the list has no      *)
(* node.  A block stands for its data and for its hash at once             *)
(* (ToBlockHash::to_blockhash is injective on real data).                  *)
(*                                                                         *)
(* Blocks come from a block tree, given by its branches.  Linked is the    *)
(* set of blocks whose data knows prev_blockhash: everything for           *)
(* CheckPoint<Header>, nothing for CheckPoint<BlockHash>.                  *)
(***************************************************************************)
EXTENDS Naturals

CONSTANTS
  MaxHeight,   \* the highest block height considered
  Block,       \* block data / block hashes
  None,        \* Option::None
  Parent,      \* the hash each block's header commits to
  Linked,      \* the blocks whose data reports prev_blockhash
  Branches     \* the branches of the block tree, each a function on heights

Height == 0..MaxHeight

ASSUME HeightAssumption == MaxHeight \in Nat

ASSUME BlockAssumption ==
  /\ None \notin Block
  /\ Linked \subseteq Block
  /\ Parent \in [Block -> Block \cup {None}]

(* A branch is an unbroken run of blocks from the genesis block upwards, each *)
(* the child of the one below, and a block belongs to one position of the tree. *)
ASSUME BranchAssumption ==
  /\ Branches \subseteq [Height -> Block \cup {None}]
  /\ \A b \in Branches, h \in Height :
       (h > 0 /\ b[h] # None) => (b[h-1] # None /\ Parent[b[h]] = b[h-1])
  /\ \A b, c \in Branches, h, i \in Height :
       (b[h] = c[h] /\ b[h] # None /\ i <= h) => b[i] = c[i]

-----------------------------------------------------------------------------

(* BlockId: a block of the tree with its height. *)
BlockIds == {id \in Height \X Block : \E b \in Branches : b[id[1]] = id[2]}

SparseChain == [Height -> Block \cup {None}]

(* ToBlockHash::prev_blockhash. *)
PrevBlockhash(b) == IF b \in Linked THEN Parent[b] ELSE None

(* A link from the block at height h+1 down to height h is known and is broken. *)
BrokenLink(c, h) ==
  /\ h + 1 \in Height
  /\ c[h] # None
  /\ c[h+1] # None
  /\ PrevBlockhash(c[h+1]) # None
  /\ PrevBlockhash(c[h+1]) # c[h]

(* What CheckPoint::push enforces on every pair of adjacent nodes. *)
IsLinked(c) == \A h \in Height : ~BrokenLink(c, h)

IsEmpty(c) == \A h \in Height : c[h] = None

(* c is a chain of some branch of the tree: what an honest source hands out. *)
OnBranch(c, b) == \A h \in Height : c[h] # None => c[h] = b[h]
OneBranch(c) == \E b \in Branches : OnBranch(c, b)

(* CheckPointEntry::Placeholder: no node at h, but the node right above names *)
(* the block there through its prev_blockhash.                                *)
Placeholder(c, h) ==
  /\ c[h] = None
  /\ h + 1 \in Height
  /\ c[h+1] # None
  /\ PrevBlockhash(c[h+1]) # None

(* CheckPointEntry::hash of the entry the entry iterator yields at h, None when *)
(* it yields none.                                                             *)
EntryHash(c, h) == IF Placeholder(c, h) THEN PrevBlockhash(c[h+1]) ELSE c[h]

(* CheckPoint::extend of the nodes of c below a height by those of ext from it *)
(* upwards: push stops at the first broken link, everything above is dropped. *)
ExtendUpTo(c) ==
  [h \in Height |-> IF \E i \in Height : i < h /\ BrokenLink(c, i) THEN None ELSE c[h]]

(* CheckPoint::push succeeds. *)
CanPush(c, h, b) ==
  /\ \A i \in Height : i >= h => c[i] = None
  /\ (h > 0 /\ c[h-1] # None /\ PrevBlockhash(b) # None) => PrevBlockhash(b) = c[h-1]

-----------------------------------------------------------------------------
(* CheckPoint::insert. *)

(* The inserted data disagrees, through prev_blockhash, with the node below. *)
Displaces(c, h, b) ==
  /\ h > 0
  /\ c[h-1] # None
  /\ PrevBlockhash(b) # None
  /\ PrevBlockhash(b) # c[h-1]

(* The assert_eq of the genesis check: the data implies another genesis. *)
InsertPanics(c, h, b) ==
  /\ c[h] # b
  /\ c[0] # None
  /\ h = 0 \/ (h = 1 /\ Displaces(c, h, b))

(* The list before the re-insertion of the nodes above: those are forgotten  *)
(* when the node at h has another hash or the one at h-1 is displaced.       *)
Insert(c, h, b) ==
  LET clear == (c[h] # None) \/ Displaces(c, h, b)
      spliced == [i \in Height |->
                    CASE i = h -> b
                      [] i > h -> IF clear THEN None ELSE c[i]
                      [] i < h -> IF i = h - 1 /\ Displaces(c, h, b) THEN None ELSE c[i]]
  IN IF c[h] = b THEN c ELSE ExtendUpTo(spliced)
=============================================================================
