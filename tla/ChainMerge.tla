----------------------------- MODULE ChainMerge -----------------------------
(***************************************************************************)
(* The pure part of local_chain.rs: changesets, what applying one to a     *)
(* list of checkpoints gives (apply_changeset_to_checkpoint), and what     *)
(* merge_chains returns for an original list o and an update u, stated as  *)
(* a function of where the two have entries and agree.  MergeLoop holds    *)
(* the loop itself and shows that it computes this function.               *)
(***************************************************************************)
EXTENDS CheckPoint

CONSTANTS
  Keep,       \* marks a height that is not a key of a changeset
  Genesis,    \* the genesis block of the network
  Foreign     \* the genesis block of another network

ASSUME GenesisAssumption ==
  /\ Genesis \in Block /\ Foreign \in Block
  /\ Linked \subseteq Block \ {Genesis, Foreign}
  /\ Keep \notin Block \cup {None}
  /\ \A b \in Branches : b[0] = Genesis

(* local_chain::ChangeSet: a block is inserted, None removes, Keep is no key. *)
ChangeSet == [Height -> Block \cup {None, Keep}]
EmptyChangeSet == [h \in Height |-> Keep]

(* Merge for ChangeSet: BTreeMap::extend, the later value wins. *)
MergeChangeSets(cs, other) ==
  [h \in Height |-> IF other[h] = Keep THEN cs[h] ELSE other[h]]

-----------------------------------------------------------------------------
(* apply_changeset_to_checkpoint: the resulting blocks, and whether the list *)
(* can be rebuilt from them (genesis present, no prev_blockhash mismatch).  *)

ApplyChangeset(c, cs) == [h \in Height |-> IF cs[h] = Keep THEN c[h] ELSE cs[h]]

CanApply(c, cs) ==
  LET r == ApplyChangeset(c, cs) IN r[0] # None /\ IsLinked(r)

OnlyGenesis(g) == [h \in Height |-> IF h = 0 THEN g ELSE None]

(* LocalChain::from_changeset. *)
FromChangeset(cs) == ApplyChangeset(OnlyGenesis(cs[0]), cs)
CanLoad(cs) == cs[0] \notin {None, Keep} /\ CanApply(OnlyGenesis(cs[0]), cs)

-----------------------------------------------------------------------------
(* merge_chains.  The loop walks the entries of both lists from the top; what *)
(* it computes is a matter of where the two have an entry and agree on it.    *)

InBoth(o, u, h) == EntryHash(o, h) # None /\ EntryHash(u, h) # None
Agrees(o, u, h) == InBoth(o, u, h) /\ EntryHash(o, h) = EntryHash(u, h)
Conflicts(o, u, h) == InBoth(o, u, h) /\ EntryHash(o, h) # EntryHash(u, h)

(* The highest height at which the lists agree: the point of agreement. *)
IsAgreementPoint(o, u, h) ==
  Agrees(o, u, h) /\ \A i \in Height : i > h => ~Agrees(o, u, i)

(* p is the entry of the original the walk met right before reaching h. *)
IsEntryAbove(o, h, p) ==
  /\ p > h
  /\ EntryHash(o, p) # None
  /\ \A i \in Height : (h < i /\ i < p) => EntryHash(o, i) = None

(* At the point of agreement original and update both continue above, and the *)
(* original's next block p was not invalidated by the update.                 *)
AmbiguousAt(o, u, p) ==
  \E h \in Height :
    /\ IsEntryAbove(o, h, p)
    /\ ~Conflicts(o, u, p)
    /\ IsAgreementPoint(o, u, h)
    /\ \E i \in Height : i > h /\ EntryHash(u, i) # None

(* With no point of agreement at all, p is the entry of the original at which *)
(* the walk stops because the update has no entry left.                       *)
DisjointAt(o, u, p) ==
  /\ EntryHash(o, p) # None
  /\ \A h \in Height : EntryHash(u, h) # None => h > p
  /\ \A h \in Height : (h > p /\ EntryHash(o, h) # None) =>
        \E i \in Height : i <= h /\ EntryHash(u, i) # None
  /\ \A h \in Height : ~Agrees(o, u, h)

ReplacesGenesis(o, u) == Conflicts(o, u, 0) /\ o[0] # None

CannotConnect(o, u) ==
  \/ \E p \in Height : AmbiguousAt(o, u, p) \/ DisjointAt(o, u, p)
  \/ ReplacesGenesis(o, u)

(* Faulty variant: the hint is the point of agreement. *)
HintAtAgreement(o, u) ==
  IF \E p \in Height : IsAgreementPoint(o, u, p)
    THEN CHOOSE p \in Height : IsAgreementPoint(o, u, p) ELSE 0

(* CannotConnectError::try_include_height, in the order the walk finds them. *)
TryIncludeHeight(o, u) ==
  IF \E p \in Height : AmbiguousAt(o, u, p)
    THEN CHOOSE p \in Height : AmbiguousAt(o, u, p)
  ELSE IF ReplacesGenesis(o, u) THEN 0
  ELSE CHOOSE p \in Height : DisjointAt(o, u, p)

(* The update's nodes go into the changeset where the original has none, and  *)
(* where the two conflict (there a placeholder of the update just removes).   *)
Introduces(o, u, h) == Conflicts(o, u, h) \/ (o[h] = None /\ u[h] # None)

(* The original's other nodes above a conflict are removed. *)
Purges(o, u, h) ==
  /\ o[h] # None
  /\ EntryHash(u, h) = None
  /\ \E i \in Height : i < h /\ Conflicts(o, u, i)

(* Faulty variant: the blocks above an invalidated one stay. *)
MergeWithoutPurge(o, u) == [h \in Height |-> IF Introduces(o, u, h) THEN u[h] ELSE Keep]

MergeChangeset(o, u) ==
  [h \in Height |-> IF Introduces(o, u, h) THEN u[h]
                    ELSE IF Purges(o, u, h) THEN None ELSE Keep]

(* The update's nodes at and below s are the very nodes of the original. *)
SharesNodes(o, u, s) ==
  /\ s \in Height
  /\ o[s] # None
  /\ \A h \in Height : h <= s => u[h] = o[h]

(* is_update_height_superset_of_original when the walk stops at s. *)
CoversOriginal(o, u, s) ==
  \A h \in Height : (h > s /\ EntryHash(o, h) # None) => EntryHash(u, h) # None

(* The walk stops at s, the highest shared node (None: nothing is shared), and *)
(* the update's tip is returned as it is.                                      *)
TakesUpdateTip(o, u, s) == s # None /\ CoversOriginal(o, u, s)

(* The new tip. *)
MergedChain(o, u, s) ==
  IF TakesUpdateTip(o, u, s) THEN u ELSE ApplyChangeset(o, MergeChangeset(o, u))

(* The lists a caller can build with CheckPoint::push and pass as an update. *)
Updates ==
  {u \in SparseChain :
     /\ ~IsEmpty(u)
     /\ IsLinked(u)
     /\ \A h \in Height : u[h] # None =>
          <<h, u[h]>> \in BlockIds \cup {<<0, Foreign>>}}

(* What an honest source sends: some of the blocks of one branch. *)
Sample(b, hs) == [h \in Height |-> IF h \in hs THEN b[h] ELSE None]
HonestUpdates ==
  {Sample(b, hs) : b \in Branches, hs \in SUBSET Height} \ {[h \in Height |-> None]}

-----------------------------------------------------------------------------
(* What a merge of o and u promises. *)

(* The merged list can be rebuilt from the changeset. *)
Resolved(o, u) == ~CannotConnect(o, u) => CanApply(o, MergeChangeset(o, u))

(* The update is taken over whole; one branch stays one branch, so no orphan *)
(* of the old one stays below, between or above the new blocks; and a source *)
(* on the same branch makes the list lose nothing.                           *)
TakenOver(o, u, m) ==
  /\ \A h \in Height : u[h] # None => m[h] = u[h]
  /\ OneBranch(o) => OneBranch(m)
  /\ (\E b \in Branches : OnBranch(o, b) /\ OnBranch(u, b)) =>
       \A h \in Height : o[h] # None => m[h] = o[h]

(* The hint is a height the original has an entry at and the update has not. *)
HintIsNew(o, u, p) == EntryHash(o, p) # None /\ EntryHash(u, p) = None
=============================================================================
