----------------------------- MODULE MergeLoop ------------------------------
(***************************************************************************)
(* The loop of merge_chains (local_chain.rs), one action per arm of its    *)
(* match and one per way out.  It walks the entries of the original tip    *)
(* and of the update from the top in tandem.  The iterators always hold    *)
(* the next entry: fetching at the top of an iteration or at the end of    *)
(* the one before is the same.                                             *)
(***************************************************************************)
EXTENDS ChainMerge

ASSUME LoopAssumption == None \notin Nat

VARIABLES
  orig, upd,     \* original_tip and update_tip
  shared,        \* the highest node the two lists share, None when they share none
  pc,            \* "loop", "check" (after the loop) or "done"
  currO, currU,  \* curr_orig and curr_update: heights, None when exhausted
  prevO, prevU,  \* prev_orig and prev_update
  agreed,        \* point_of_agreement_found
  invalidated,   \* prev_orig_was_invalidated
  pending,       \* potentially_invalidated_heights
  superset,      \* is_update_height_superset_of_original
  changes,       \* the changeset so far
  result         \* what merge_chains returns

input == <<orig, upd, shared>>
cursors == <<currO, currU, prevO, prevU>>
flags == <<agreed, invalidated, pending, superset>>
loopVars == <<input, pc, cursors, flags, changes, result>>

(* CheckPoint::entry_iter: the highest entry of c below a height. *)
IsEntry(c, h) == EntryHash(c, h) # None
NextEntry(c, below) ==
  IF \E h \in Height : h < below /\ IsEntry(c, h)
    THEN CHOOSE h \in Height :
           /\ h < below /\ IsEntry(c, h)
           /\ \A i \in Height : (i < below /\ IsEntry(c, i)) => i <= h
    ELSE None

(* Lists a LocalChain can hold. *)
Originals ==
  {c \in SparseChain :
     /\ c[0] = Genesis
     /\ IsLinked(c)
     /\ \A h \in Height : c[h] # None => <<h, c[h]>> \in BlockIds}

LoopInit ==
  /\ orig \in Originals
  /\ upd \in Updates
  /\ shared \in {None} \cup {h \in Height : SharesNodes(orig, upd, h)}
  /\ pc = "loop"
  /\ currO = NextEntry(orig, MaxHeight + 1)
  /\ currU = NextEntry(upd, MaxHeight + 1)
  /\ prevO = None /\ prevU = None
  /\ agreed = FALSE /\ invalidated = FALSE
  /\ pending = {} /\ superset = TRUE
  /\ changes = EmptyChangeSet
  /\ result = None

CannotConnectError(h) == [error |-> TRUE, height |-> h]
Merged(c) == [error |-> FALSE, chain |-> c, changeset |-> changes]

Return(r) ==
  /\ pc' = "done"
  /\ result' = r
  /\ UNCHANGED <<input, cursors, flags, changes>>

(* finish: a prev_blockhash mismatch would trip its debug_assert. *)
Mismatch == [error |-> TRUE, height |-> None]
Finish == IF CanApply(orig, changes) THEN Merged(ApplyChangeset(orig, changes)) ELSE Mismatch

(* Option<u32> comparison: None is below every height. *)
Above(x, y) == x # None /\ (y # None => x > y)

StepO == prevO' = currO /\ currO' = NextEntry(orig, currO)

(* Faulty variant: the cursor of the update does not move. *)
StepUInPlace == prevU' = currU /\ UNCHANGED currU

StepU == prevU' = currU /\ currU' = NextEntry(upd, currU)

(* Update block that does not exist in the original chain. *)
UpdateOnly ==
  /\ pc = "loop"
  /\ Above(currU, currO)
  /\ changes' = IF upd[currU] # None THEN [changes EXCEPT ![currU] = upd[currU]] ELSE changes
  /\ StepU
  /\ UNCHANGED <<input, pc, currO, prevO, flags, result>>

(* Faulty variant: prev_orig_was_invalidated is not reset. *)
OriginalOnlyKeepingFlag ==
  /\ pc = "loop"
  /\ Above(currO, currU)
  /\ pending' = IF orig[currO] # None THEN pending \cup {currO} ELSE pending
  /\ superset' = FALSE
  /\ StepO
  /\ pc' = IF currU = None THEN "check" ELSE "loop"
  /\ UNCHANGED <<input, currU, prevU, agreed, invalidated, changes, result>>

(* Original block that is not in the update; the last one looked at when the *)
(* update has run out.                                                       *)
OriginalOnly ==
  /\ pc = "loop"
  /\ Above(currO, currU)
  /\ pending' = IF orig[currO] # None THEN pending \cup {currO} ELSE pending
  /\ invalidated' = FALSE
  /\ superset' = FALSE
  /\ StepO
  /\ pc' = IF currU = None THEN "check" ELSE "loop"
  /\ UNCHANGED <<input, currU, prevU, agreed, changes, result>>

AtSameHeight == pc = "loop" /\ currO # None /\ currO = currU
SameHash == EntryHash(orig, currO) = EntryHash(upd, currU)
Ambiguous == ~invalidated /\ ~agreed /\ prevO # None /\ prevU # None

(* A point of agreement that does not settle which blocks above are valid. *)
RefuseAmbiguous ==
  /\ AtSameHeight /\ SameHash /\ Ambiguous
  /\ Return(CannotConnectError(prevO))

(* A point of agreement at the node the lists share: nothing older differs. *)
AgreeOnShared ==
  /\ AtSameHeight /\ SameHash /\ ~Ambiguous
  /\ currO = shared
  /\ Return(IF superset THEN Merged(upd) ELSE Finish)

(* Another point of agreement; the original's placeholder gets its data. *)
Agree ==
  /\ AtSameHeight /\ SameHash /\ ~Ambiguous
  /\ currO # shared
  /\ agreed' = TRUE
  /\ invalidated' = FALSE
  /\ changes' = IF upd[currU] # None /\ orig[currO] = None
             THEN [changes EXCEPT ![currU] = upd[currU]] ELSE changes
  /\ StepO /\ StepU
  /\ UNCHANGED <<input, pc, pending, superset, result>>

RefuseGenesis ==
  /\ AtSameHeight /\ ~SameHash
  /\ currO = 0 /\ orig[0] # None
  /\ Return(CannotConnectError(0))

(* Faulty variant: the blocks above are not removed. *)
InvalidateWithoutPurge ==
  /\ AtSameHeight /\ ~SameHash
  /\ ~(currO = 0 /\ orig[0] # None)
  /\ changes' = [changes EXCEPT ![currU] = upd[currU]]
  /\ pending' = {}
  /\ invalidated' = TRUE
  /\ StepO /\ StepU
  /\ UNCHANGED <<input, pc, agreed, superset, result>>

(* An invalidation: the update's block replaces the original's, and the      *)
(* original's blocks above are purged.                                       *)
Invalidate ==
  /\ AtSameHeight /\ ~SameHash
  /\ ~(currO = 0 /\ orig[0] # None)
  /\ changes' = [h \in Height |-> IF h = currU THEN upd[h]
                             ELSE IF h \in pending THEN None ELSE changes[h]]
  /\ pending' = {}
  /\ invalidated' = TRUE
  /\ StepO /\ StepU
  /\ UNCHANGED <<input, pc, agreed, superset, result>>

Exhausted ==
  /\ pc = "loop"
  /\ currO = None /\ currU = None
  /\ pc' = "check"
  /\ UNCHANGED <<input, cursors, flags, changes, result>>

(* Without a point of agreement the whole original must be invalidated. *)
FinalCheck ==
  /\ pc = "check"
  /\ Return(IF ~invalidated /\ ~agreed /\ prevO # None
              THEN CannotConnectError(prevO) ELSE Finish)

LoopNext ==
  \/ UpdateOnly \/ OriginalOnly
  \/ RefuseAmbiguous \/ AgreeOnShared \/ Agree
  \/ RefuseGenesis \/ Invalidate
  \/ Exhausted \/ FinalCheck

(* merge_chains is a plain function call: it runs until it returns. *)
LoopSpec == LoopInit /\ [][LoopNext]_loopVars /\ WF_loopVars(LoopNext)

-----------------------------------------------------------------------------

(* What ChainMerge says merge_chains returns. *)
Outcome ==
  IF CannotConnect(orig, upd)
    THEN CannotConnectError(TryIncludeHeight(orig, upd))
  ELSE IF TakesUpdateTip(orig, upd, shared) \/ CanApply(orig, MergeChangeset(orig, upd))
    THEN [error |-> FALSE, chain |-> MergedChain(orig, upd, shared),
          changeset |-> MergeChangeset(orig, upd)]
  ELSE Mismatch

(* The loop, with its flags, early returns and short cuts, returns the list,  *)
(* the changeset and the hint that ChainMerge defines.                        *)
LoopComputesMerge == pc = "done" => result = Outcome

(* No update of an honest source drives finish into its debug_assert, merged  *)
(* lists hold the update and one branch only, and refusals hint at a height   *)
(* that the update lacks: the promises of a merge, on what the loop returns.  *)
LoopKeepsPromises ==
  (pc = "done" /\ upd \in HonestUpdates) =>
    /\ result # Mismatch
    /\ ~result.error => TakenOver(orig, upd, ApplyChangeset(orig, result.changeset))
    /\ result.error => HintIsNew(orig, upd, result.height)

(* Both cursors strictly descend, so merge_chains returns. *)
Terminates == <>(pc = "done")
=============================================================================
