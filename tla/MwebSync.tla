------------------------------ MODULE MwebSync ------------------------------
(***************************************************************************)
(* MwebSyncer::run_once (crates/mweb, mweb_sync.rs): a differential pass   *)
(* that brings the coin database to the MWEB UTXO set of the current tip.  *)
(* A pass is broken up where it asks the header provider or the peer, so   *)
(* the chain may move, a request may fail and the process may stop between *)
(* any two requests.  The peer's answers are verified against the anchored *)
(* header and are modelled as true; it may answer with fewer or more       *)
(* outputs than asked for, with none, or with outputs behind the one asked *)
(* for first, and may fail.                                                *)
(***************************************************************************)
EXTENDS CoinDb, Sequences, FiniteSets, FiniteSetsExt

CONSTANTS
  Blocks,      \* blocks of the transparent chain
  Chain,       \* for each block, the blocks from height 0 up to it
  Outputs,     \* for each block, the outputs of its PMMR in leaf order
  Unspent,     \* for each block, the set bits of its leafset
  Pending,     \* owned outputs the wallet may scan before they are mined
  Rewind,      \* how far a reorg clears dated heights (10 in the code)
  Setups       \* the environments and settings to start in, records of
               \*   forks:    pairs of tips between which the chain may reorganise
               \*   provider: "live" is a LiveHeaderProvider; a FixedHeaderProvider
               \*             gets a new tip by set_tip, or is "renewed"
               \*   known:    sets of heights that a renewed provider may know
               \*   fail:     whether requests fail and the process stops
               \*   withhold: whether the peer passes over leaves it was asked for
               \*   window:   MwebSyncer::fine_window (1 with DatingMode::TipOnly)
               \*   moves:    bound on how often the tip changes

VARIABLES
  setup,        \* the setup of this behaviour
  best, moves,  \* the header provider's tip, and how often it changed
  hashes,       \* the height to hash map of a FixedHeaderProvider
  st,           \* SyncState
  db,           \* the coin database
  pc,           \* where the pass is; "done" after a pass that succeeded
  tip,          \* the tip the pass works at
  todo,         \* the added leaves that are not fetched yet
  resume,       \* resume_cursor
  fetched,      \* the added leaves that were fetched (all_fetched_ids)
  withheld,     \* the leaves that the peer passed over (history)
  saved         \* state and database as last persisted by the caller, with withheld

pass == <<tip, todo, resume, fetched>>
env == <<setup, best, moves, hashes>>
vars == <<env, st, db, pc, pass, withheld, saved>>

HeightOf(b) == Len(Chain[b]) - 1
BlockAt(b, h) == IF h <= HeightOf(b) THEN Chain[b][h + 1] ELSE None
MmrSize(b) == Len(Outputs[b])
OutputAt(b, leaf) == Outputs[b][leaf + 1]
Heights == {HeightOf(b) : b \in Blocks}

(* The blocks below a block are its own chain; the PMMR only grows, a spent   *)
(* output stays spent, and no two unspent outputs have the same id.           *)
ASSUME ChainAssumption ==
  /\ None \notin Blocks \cup Nat \cup {Unspent[b] : b \in Blocks}
  /\ Leaf \subseteq Nat /\ Heights \subseteq CoinHeight
  /\ \A b \in Blocks :
       /\ HeightOf(b) \in Nat /\ BlockAt(b, HeightOf(b)) = b
       /\ MmrSize(b) \in Nat /\ Unspent[b] \subseteq {leaf \in Leaf : leaf < MmrSize(b)}
       /\ \A l, m \in Unspent[b] : OutputAt(b, l) = OutputAt(b, m) /\ l # m => OutputAt(b, l) \notin OutputId
       /\ \A i \in 0 .. HeightOf(b) :
            LET a == BlockAt(b, i)
            IN /\ a \in Blocks /\ HeightOf(a) = i
               /\ \A j \in 0 .. i : BlockAt(a, j) = BlockAt(b, j)
               /\ MmrSize(a) <= MmrSize(b)
               /\ \A leaf \in 0 .. MmrSize(a) - 1 :
                    /\ OutputAt(a, leaf) = OutputAt(b, leaf)
                    /\ leaf \in Unspent[b] => leaf \in Unspent[a]

ASSUME SetupAssumption ==
  /\ Rewind \in Nat /\ Pending \subseteq OutputId
  /\ \A x \in Setups :
       /\ x.window \in Nat \ {0} /\ x.fail \in BOOLEAN /\ x.withhold \in BOOLEAN
       /\ x.provider \in {"live", "set_tip", "renewed"} /\ x.known \subseteq SUBSET Heights

(* The leafset blob of a block: no bytes at all while its PMMR is empty. *)
Leafset(b) == IF MmrSize(b) = 0 THEN None ELSE Unspent[b]
LeavesOf(leafset) == IF leafset = None THEN {} ELSE leafset

-----------------------------------------------------------------------------
(* Helpers of the pass. *)

(* date_leaf_index. *)
DateLeafIndex(map, leaf, h) ==
  LET above == {i \in Heights : map[i] # None /\ map[i] > leaf} IN
    IF above = {} THEN h ELSE Min(above)

(* fine_sample_heights, with u32::saturating_sub. *)
FineSampleHeights(h) == {i \in Heights : i <= h /\ i + setup.window > h}

(* diff_leafsets against the snapshot: bits that flipped. *)
Added == Unspent[tip] \ LeavesOf(st.leafset)
Removed == LeavesOf(st.leafset) \ Unspent[tip]

NoState == [tip_hash |-> None, tip_height |-> None, leafset |-> None,
            height_map |-> [h \in Heights |-> None],
            pending_tip_hash |-> None, utxo_cursor |-> None]

(* Faulty variant: the old leafset stays the baseline. *)
InvalidateKeepingLeafset(s) ==
  [s EXCEPT !.tip_hash = None, !.pending_tip_hash = None, !.utxo_cursor = None]

(* SyncState::invalidate_leafset. *)
InvalidateLeafset(s) ==
  [s EXCEPT !.leafset = None, !.tip_hash = None,
            !.pending_tip_hash = None, !.utxo_cursor = None]

(* Faulty variant: the sizes of the abandoned branch stay. *)
RetainAll(map, h) == map

(* What of the height map a reorg detected at height h leaves. *)
RetainBelow(map, h) == [i \in Heights |-> IF i + setup.window < h THEN map[i] ELSE None]

-----------------------------------------------------------------------------
(* The header provider. *)

Live == setup.provider = "live"

(* The map of a provider that was made for b: tip_only knows the tip, the     *)
(* application may fill in other heights.                                     *)
HashesOf(b, known) ==
  [h \in Heights |-> IF h = HeightOf(b) \/ h \in known THEN BlockAt(b, h) ELSE None]

(* FixedHeaderProvider::set_tip: the other heights keep what they had. *)
SetTip(b) == [hashes EXCEPT ![HeightOf(b)] = b]

(* block_hash_at, of either provider. *)
HashAt(h) == IF Live THEN BlockAt(best, h) ELSE hashes[h]

-----------------------------------------------------------------------------

Init ==
  /\ setup \in Setups
  /\ best \in {b \in Blocks : HeightOf(b) = 0} /\ moves = 0
  /\ hashes = HashesOf(best, {})
  /\ st = NoState /\ db = EmptyBook
  /\ pc = "idle" /\ tip = None /\ todo = {} /\ resume = None /\ fetched = {}
  /\ withheld = {}
  /\ saved = [st |-> NoState, db |-> EmptyBook, withheld |-> {}]

(* The transparent chain grows, or is reorganised.  A FixedHeaderProvider is *)
(* given the new tip, or replaced by one with the hashes of some heights of   *)
(* the new chain, between passes only.                                        *)
NewTip(b, known) ==
  /\ moves < setup.moves
  /\ Live \/ pc \in {"idle", "done"}
  /\ BlockAt(b, HeightOf(best)) = best \/ <<best, b>> \in setup.forks
  /\ b # best
  /\ best' = b
  /\ moves' = moves + 1
  /\ hashes' = CASE setup.provider = "set_tip" -> SetTip(b)
                 [] setup.provider = "renewed" -> HashesOf(b, known)
                 [] OTHER -> hashes
  /\ UNCHANGED <<setup, st, db, pc, pass, withheld, saved>>

(* headers.tip(). *)
ReadTip ==
  /\ pc \in {"idle", "done"}
  /\ tip' = best
  /\ pc' = "prepare"
  /\ UNCHANGED <<env, st, db, todo, resume, fetched, withheld, saved>>

(* The reorg check; headers.block_hash_at is asked now, and when it fails or  *)
(* does not know the height the previous tip counts as not extended.          *)
TipChanged == st.tip_hash # None /\ st.tip_hash # tip
TipShorter == st.tip_height # None /\ HeightOf(tip) + 1 < st.tip_height
ExtendsPrev(hashFails) ==
  /\ ~TipShorter /\ ~hashFails
  /\ st.tip_hash # None /\ st.tip_height # None
  /\ st.tip_height <= HeightOf(tip)
  /\ HashAt(st.tip_height) = st.tip_hash
ReorgFound(hashFails) == (TipShorter \/ TipChanged) /\ ~ExtendsPrev(hashFails)

RewindHeight ==
  IF TipShorter THEN HeightOf(tip) + 1
  ELSE IF HeightOf(tip) > Rewind THEN HeightOf(tip) - Rewind + 1 ELSE 1

Prepare(hashFails) ==
  /\ pc = "prepare"
  /\ pc' = "sample"
  /\ hashFails => Live /\ setup.fail
  /\ IF ReorgFound(hashFails)
       THEN /\ db' = Disconnect(db, RewindHeight)
            /\ st' = [InvalidateLeafset(st) EXCEPT
                        !.height_map = RetainBelow(st.height_map, HeightOf(tip))]
       ELSE UNCHANGED <<db, st>>
  /\ UNCHANGED <<env, pass, withheld, saved>>

(* sample_fine_headers: asks for the headers of the window, skipping heights  *)
(* it knows, those the provider does not have and those whose request fails   *)
(* (a peer need not have a block that was reorganised away), and for the tip  *)
(* once more.                                                                 *)
SampleFineHeaders(failing, tipFails) ==
  LET h == HeightOf(tip)
      sampled == {i \in FineSampleHeights(h) \ failing : st.height_map[i] = None /\ HashAt(i) # None}
  IN
  /\ pc = "sample"
  /\ pc' = "leafset"
  /\ tipFails => setup.fail
  /\ failing \subseteq {i \in FineSampleHeights(h) : setup.fail \/ HashAt(i) # BlockAt(best, i)}
  /\ st' = [st EXCEPT !.height_map =
              [i \in Heights |-> IF i = h /\ ~tipFails THEN MmrSize(best)
                                 ELSE IF i \in sampled THEN MmrSize(HashAt(i))
                                 ELSE st.height_map[i]]]
  /\ UNCHANGED <<env, db, pass, withheld, saved>>

(* The coins that leave with the removed leaves, one for each leaf that has any *)
(* (mark_spent_by_leaf_index takes the first in the order of the ids).          *)
AtLeaf(leaf) ==
  {id \in OutputId : db.coins[id] # None /\ db.coins[id].leaf_index = leaf}

(* Faulty variant: the removed leaves are ignored. *)
RemovedIgnored(ids) == ids = {}

IsSpentByRemoved(ids) ==
  /\ \A id \in ids : \E leaf \in Removed : id \in AtLeaf(leaf)
  /\ \A leaf \in Removed : AtLeaf(leaf) # {} => Cardinality(ids \cap AtLeaf(leaf)) = 1

SpendAll(b, ids) ==
  [coins |-> [id \in OutputId |-> IF id \in ids THEN None ELSE b.coins[id]],
   spent |-> [id \in OutputId |-> IF id \in ids THEN b.coins[id] ELSE b.spent[id]]]

(* The verified tip header and leafset, the diff, and where to resume.  A full *)
(* download that begins anew asks again for what was withheld.                 *)
ResumeCursor ==
  IF st.utxo_cursor # None /\ (st.pending_tip_hash = tip \/ st.leafset = None)
    THEN st.utxo_cursor ELSE None

DiffLeafset(ids) ==
  /\ pc = "leafset"
  /\ pc' = "fetch"
  /\ IsSpentByRemoved(ids)
  /\ db' = SpendAll(db, ids)
  /\ resume' = ResumeCursor
  /\ todo' = {leaf \in Added : ResumeCursor # None => leaf > ResumeCursor}
  /\ fetched' = {}
  /\ withheld' = IF st.leafset = None /\ ResumeCursor = None THEN {} ELSE withheld
  /\ st' = [st EXCEPT !.height_map[HeightOf(tip)] = MmrSize(tip),
                      !.pending_tip_hash = tip]
  /\ UNCHANGED <<env, tip, saved>>

(* The caller's checkpoint callback, when it has one and this batch is due. *)
Checkpoint(save) ==
  saved' = IF save THEN [st |-> st', db |-> db', withheld |-> withheld'] ELSE saved

(* scan_utxo_entries_at: the owned outputs at the given leaves. *)
Scan(b, leaves) ==
  LET LeafOf(id) == {leaf \in leaves : OutputAt(tip, leaf) = id}
      Found(id) == LeafOf(id) # {}
      Entry(id) == LET leaf == Max(LeafOf(id)) IN
                     [leaf_index |-> leaf,
                      block_height |-> DateLeafIndex(st.height_map, leaf, HeightOf(tip))]
  IN [coins |-> [id \in OutputId |-> IF Found(id) THEN Entry(id) ELSE b.coins[id]],
      spent |-> [id \in OutputId |-> IF Found(id) THEN None ELSE b.spent[id]]]

(* One verified batch, pipelined or not: the unspent leaves from first to     *)
(* last; known ones are skipped.  It must not begin before the next leaf to   *)
(* fetch; it may begin behind it, and its length is not checked.              *)
FetchBatch(first, last, save) ==
  LET batch == {leaf \in Unspent[tip] : first <= leaf /\ leaf <= last}
      passed == {leaf \in todo : leaf < first}
  IN
  /\ pc = "fetch" /\ todo # {}
  /\ first \in batch /\ last \in batch /\ Min(todo) <= first
  /\ passed # {} => setup.withhold
  /\ db' = Scan(db, batch \cap Added)
  /\ todo' = {leaf \in todo : leaf > last}
  /\ fetched' = fetched \cup (batch \cap Added)
  /\ withheld' = (withheld \ (batch \cap Added)) \cup passed
  /\ st' = [st EXCEPT !.utxo_cursor = last]
  /\ Checkpoint(save)
  /\ UNCHANGED <<env, pc, tip, resume>>

(* An empty batch, which needs no proof: the next leaf is skipped, and the    *)
(* cursor stays.                                                              *)
FetchNothing ==
  /\ pc = "fetch" /\ todo # {}
  /\ setup.withhold
  /\ todo' = todo \ {Min(todo)}
  /\ withheld' = withheld \cup {Min(todo)}
  /\ UNCHANGED <<env, st, db, pc, tip, resume, fetched, saved>>

(* The end of the pass: coins are dated again, and after a full download those *)
(* that are not in the UTXO set are marked spent.                              *)
Redated(b) ==
  [b EXCEPT !.coins = [id \in OutputId |->
     IF b.coins[id] # None /\ b.coins[id].leaf_index # None
       THEN [b.coins[id] EXCEPT !.block_height =
               DateLeafIndex(st.height_map, b.coins[id].leaf_index, HeightOf(tip))]
       ELSE b.coins[id]]]

FetchedIds == {OutputAt(tip, leaf) : leaf \in fetched}
Gone(id) ==
  /\ st.leafset = None
  /\ db.coins[id] # None
  /\ IF db.coins[id].leaf_index # None
       THEN db.coins[id].leaf_index \notin Unspent[tip]
       ELSE id \notin FetchedIds /\ resume = None

Finish(save) ==
  /\ pc = "fetch" /\ todo = {}
  /\ pc' = "done"
  /\ db' = SpendAll(Redated(db), {id \in OutputId : Gone(id)})
  /\ st' = [tip_hash |-> tip, tip_height |-> HeightOf(tip), leafset |-> Leafset(tip),
            height_map |-> st.height_map, pending_tip_hash |-> None, utxo_cursor |-> None]
  /\ tip' = None /\ resume' = None /\ fetched' = {}
  /\ UNCHANGED <<env, todo, withheld>>
  /\ Checkpoint(save)

(* A request fails: run_once returns the error, what it changed stays. *)
Fail ==
  /\ setup.fail
  /\ pc \in {"sample", "leafset"} \/ (pc = "fetch" /\ todo # {})
  /\ pc' = "idle"
  /\ tip' = None /\ todo' = {} /\ resume' = None /\ fetched' = {}
  /\ UNCHANGED <<env, st, db, withheld, saved>>

(* The process stops and starts again from what the caller persisted. *)
Restart ==
  /\ setup.fail
  /\ st' = saved.st /\ db' = saved.db /\ withheld' = saved.withheld
  /\ pc' = "idle"
  /\ tip' = None /\ todo' = {} /\ resume' = None /\ fetched' = {}
  /\ UNCHANGED <<env, saved>>

(* scan_outputs between passes: the wallet's own new output, not mined yet. *)
ScanOutputs(id) ==
  /\ pc \in {"idle", "done"}
  /\ db.coins[id] = None /\ db.spent[id] = None
  /\ db' = PutUnspent(db, id, [block_height |-> None, leaf_index |-> None])
  /\ pc' = "idle"
  /\ UNCHANGED <<env, st, pass, withheld, saved>>

Next ==
  \/ \E b \in Blocks, known \in setup.known : NewTip(b, known)
  \/ ReadTip
  \/ \E hashFails \in BOOLEAN : Prepare(hashFails)
  \/ \E failing \in SUBSET Heights, tipFails \in BOOLEAN : SampleFineHeaders(failing, tipFails)
  \/ \E ids \in SUBSET OutputId : DiffLeafset(ids)
  \/ \E first, last \in Leaf, save \in BOOLEAN : FetchBatch(first, last, save)
  \/ FetchNothing
  \/ \E save \in BOOLEAN : Finish(save)
  \/ Fail \/ Restart
  \/ \E id \in Pending : ScanOutputs(id)

Spec == Init /\ [][Next]_vars

-----------------------------------------------------------------------------
(* Properties. *)

(* Where the chain reorganises, the provider is renewed between passes and     *)
(* passes do not fail.  Otherwise a pass may see two branches (live), a        *)
(* download go on where another branch was left (failures), or the             *)
(* reorganisation go unnoticed, because set_tip keeps the hash of the previous *)
(* tip's height (README, observations).                                        *)
ReorgsAreCalm == \A x \in Setups : x.forks = {} \/ (x.provider = "renewed" /\ ~x.fail)

(* A pass finds no reorganisation that is deeper than the window. *)
ReorgsAreShallow ==
  pc = "prepare" /\ st.tip_hash # None =>
    \A i \in Heights :
      i + setup.window < HeightOf(tip) /\ i <= HeightOf(st.tip_hash) =>
        BlockAt(tip, i) = BlockAt(st.tip_hash, i)

(* The owned outputs at the given leaves of b. *)
OwnedIn(b, leaves) == {OutputAt(b, leaf) : leaf \in leaves} \cap OutputId
OwnedAt(b) == OwnedIn(b, Unspent[b])
Confirmed == {id \in OutputId : db.coins[id] # None /\ db.coins[id].leaf_index # None}

(* After a pass, every owned output that is unspent at the synced tip is in   *)
(* the database, through failures, resumed downloads, restarts and, as far as *)
(* ReorgsAreCalm allows them, reorganisations; but for those that the peer    *)
(* withheld (run_once accepts empty batches and batches that begin later)     *)
(* since the last full download began and that no later pass fetched.         *)
NoCoinMissed ==
  pc = "done" => OwnedIn(st.tip_hash, Unspent[st.tip_hash] \ withheld) \subseteq Confirmed

(* After a pass, the database holds no output as confirmed and unspent that   *)
(* the synced tip does not have ...                                           *)
NoPhantomCoin == pc = "done" => Confirmed \subseteq OwnedAt(st.tip_hash)

(* ... if the chain only grows, and the pass downloads everything or no pass *)
(* before it broke off.                                                       *)
NoPhantomCoinOnGrowingChain ==
  [][setup.forks = {} /\ (st.leafset = None \/ ~setup.fail) => NoPhantomCoin']_vars

(* With a fixed header provider, no coin is dated before the block that       *)
(* created it, after reorgs if the provider is renewed: it is never taken for *)
(* mature too early.                                                          *)
NeverDatedEarly ==
  pc = "done" /\ ~Live =>
    \A id \in Confirmed :
      LET h == db.coins[id].block_height IN
        h <= HeightOf(st.tip_hash) /\
          MmrSize(BlockAt(st.tip_hash, h)) > db.coins[id].leaf_index
=============================================================================
