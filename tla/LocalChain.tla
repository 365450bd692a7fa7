----------------------------- MODULE LocalChain -----------------------------
(***************************************************************************)
(* LocalChain of crates/chain (local_chain.rs) with the changesets it      *)
(* hands to the caller's store.  chain is the live list of checkpoints,    *)
(* stage the merge of the changesets returned and not yet written,         *)
(* persisted the merge of those written.  An operation that returns an     *)
(* error leaves everything as it was, so only successes are steps.         *)
(***************************************************************************)
EXTENDS ChainMerge

CONSTANT MayShare    \* TRUE when updates are built on the chain's own nodes

ASSUME MayShareAssumption == MayShare \in BOOLEAN

VARIABLES chain, stage, persisted

vars == <<chain, stage, persisted>>

-----------------------------------------------------------------------------
(* Operations. *)

Init ==
  /\ chain = OnlyGenesis(Genesis)
  /\ stage = [EmptyChangeSet EXCEPT ![0] = Genesis]
  /\ persisted = EmptyChangeSet

(* Faulty variant: the changeset is dropped. *)
RecordNothing(cs) == UNCHANGED <<stage, persisted>>

Record(cs) ==
  /\ stage' = MergeChangeSets(stage, cs)
  /\ UNCHANGED persisted

(* LocalChain::apply_update. *)
ApplyUpdate(u, s) ==
  /\ s # None => (MayShare /\ SharesNodes(chain, u, s))
  /\ ~CannotConnect(chain, u)
  /\ ~TakesUpdateTip(chain, u, s) => CanApply(chain, MergeChangeset(chain, u))
  /\ chain' = MergedChain(chain, u, s)
  /\ Record(MergeChangeset(chain, u))

(* LocalChain::insert_block at a height that has no checkpoint yet (at one that *)
(* has, the call returns an error or the empty changeset).                     *)
InsertBlock(h, b) ==
  LET cs == [EmptyChangeSet EXCEPT ![h] = b] IN
  /\ chain[h] = None
  /\ CanApply(chain, cs)
  /\ chain' = ApplyChangeset(chain, cs)
  /\ Record(cs)

(* LocalChain::disconnect_from a block that is in the chain. *)
DisconnectFrom(h, b) ==
  LET cs == [i \in Height |-> IF i >= h /\ chain[i] # None THEN None ELSE Keep] IN
  /\ chain[h] = b
  /\ h > 0
  /\ chain' = [i \in Height |-> IF i >= h THEN None ELSE chain[i]]
  /\ Record(cs)

(* LocalChain<BlockHash>::apply_header_connected_to; apply_header is the call *)
(* with the previous block, or the block itself at height 0, as conn.         *)
HeaderUpdate(h, b, ch, cb) ==
  [i \in Height |-> IF i = h THEN b
                    ELSE IF i = ch /\ i < h THEN cb
                    ELSE IF i + 1 = h THEN Parent[b] ELSE None]

ConsistentHeader(h, b, ch, cb) ==
  \/ ch = h /\ cb = b
  \/ ch + 1 = h /\ cb = Parent[b]
  \/ ch + 1 < h

ApplyHeaderConnectedTo(h, b, ch, cb) ==
  /\ Linked = {}
  /\ ConsistentHeader(h, b, ch, cb)
  /\ LET u == HeaderUpdate(h, b, ch, cb) IN
       /\ ~CannotConnect(chain, u)
       /\ CanApply(chain, MergeChangeset(chain, u))
       /\ chain' = MergedChain(chain, u, None)
       /\ Record(MergeChangeset(chain, u))

(* Faulty variant: what was written before is not kept. *)
PersistOverwriting ==
  /\ stage # EmptyChangeSet
  /\ persisted' = stage
  /\ stage' = EmptyChangeSet
  /\ UNCHANGED chain

(* The caller writes what it has staged (Merge::take, then Store::append). *)
Persist ==
  /\ stage # EmptyChangeSet
  /\ persisted' = MergeChangeSets(persisted, stage)
  /\ stage' = EmptyChangeSet
  /\ UNCHANGED chain

(* The process stops at any moment after the first write and loads again. *)
Restart ==
  /\ CanLoad(persisted)
  /\ chain' = FromChangeset(persisted)
  /\ stage' = EmptyChangeSet
  /\ UNCHANGED persisted

Next ==
  \/ \E u \in Updates, s \in Height \cup {None} : ApplyUpdate(u, s)
  \/ \E id \in BlockIds : InsertBlock(id[1], id[2])
  \/ \E id \in BlockIds : DisconnectFrom(id[1], id[2])
  \/ \E id, conn \in BlockIds :
       ApplyHeaderConnectedTo(id[1], id[2], conn[1], conn[2])
  \/ Persist
  \/ Restart

Spec == Init /\ [][Next]_vars

-----------------------------------------------------------------------------
(* Properties. *)

TypeOK ==
  /\ chain \in SparseChain
  /\ stage \in ChangeSet
  /\ persisted \in ChangeSet

(* The changesets handed out so far, replayed by from_changeset, rebuild the  *)
(* live chain: no operation changes the list without recording the change.    *)
ReplayMatches ==
  LET all == MergeChangeSets(persisted, stage) IN
    CanLoad(all) /\ FromChangeset(all) = chain

(* Wherever the process stops after the first write, what was written loads,  *)
(* and it loads to a chain with the same genesis block.                       *)
RestartLoads ==
  persisted # EmptyChangeSet =>
    CanLoad(persisted) /\ FromChangeset(persisted)[0] = Genesis

(* The genesis block stays and every known prev_blockhash link holds.         *)
ChainWellFormed == chain[0] = Genesis /\ IsLinked(chain)

(* The debug_assert of finish in merge_chains is never reached: an update that *)
(* connects always leaves a list that can be rebuilt.                          *)
NoUnresolvedMismatch == \A u \in HonestUpdates : Resolved(chain, u)

(* An update that connects is taken over whole and leaves no orphan, and one  *)
(* from a source on the same branch costs the chain no block.                 *)
MergeSound ==
  \A u \in HonestUpdates :
    ~CannotConnect(chain, u) =>
      TakenOver(chain, u, ApplyChangeset(chain, MergeChangeset(chain, u)))

(* A refused update is told a height the chain has a block at and the update  *)
(* does not: a client that follows try_include_height makes progress.         *)
SuggestionIsNew ==
  \A u \in HonestUpdates :
    CannotConnect(chain, u) => HintIsNew(chain, u, TryIncludeHeight(chain, u))
=============================================================================
