--------------------------- MODULE KeychainIndex ---------------------------
(***************************************************************************)
(* The script index of a wallet (crates/chain, indexer/spk_txout.rs and    *)
(* indexer/keychain_txout.rs) and its change set, as operators.  An index  *)
(* is a record: `descriptor` assigns descriptors to keychains, `spks` is   *)
(* the set of derived positions <<keychain, index>>, `unused` those not    *)
(* marked used, and `txouts` gives the position an outpoint pays.  The     *)
(* script of a position is the pair <<descriptor, index>>: deriving        *)
(* (external: miniscript) is injective.  `spk_cache_stage` holds the       *)
(* scripts derived since the last change set was handed out.               *)
(***************************************************************************)
EXTENDS TxGraph, FiniteSetsExt

CONSTANTS
  Keychain,        \* keychains
  Descriptor,      \* descriptors
  Wildcard,        \* the descriptors that have a wildcard
  BIP32_MAX_INDEX, \* the greatest derivation index
  Lookahead,       \* scripts derived beyond the last revealed one
  PersistSpks,     \* whether derived scripts are cached and persisted
  BridgeSpk        \* the scripts of MWEB bridge outputs

ASSUME IndexAssumption ==
  /\ Wildcard \subseteq Descriptor
  /\ BIP32_MAX_INDEX \in Nat /\ Lookahead \in Nat
  /\ PersistSpks \in BOOLEAN
  /\ Descriptor \X (0 .. BIP32_MAX_INDEX) \subseteq Spk
  /\ BridgeSpk \cap (Descriptor \X (0 .. BIP32_MAX_INDEX)) = {}

Position == Keychain \X (0 .. BIP32_MAX_INDEX)

EmptyIndex ==
  [descriptor |-> [k \in Keychain |-> None],
   last_revealed |-> [d \in Descriptor |-> None],
   spks |-> {}, unused |-> {},
   txouts |-> [op \in OutPoint |-> None],
   spk_cache |-> {}, spk_cache_stage |-> {}]

EmptyIndexChangeSet == [last_revealed |-> [d \in Descriptor |-> None], spk_cache |-> {}]

-----------------------------------------------------------------------------
(* SpkTxOutIndex. *)

ScriptAt(ix, p) == <<ix.descriptor[p[1]], p[2]>>

(* index_of_spk: the position of a script, as a set of at most one. *)
IndexOfSpk(ix, spk) == {p \in ix.spks : ScriptAt(ix, p) = spk}

(* What scan_txout looks up: bridge outputs match nothing. *)
Matches(ix, spk) == IF spk \in BridgeSpk THEN {} ELSE IndexOfSpk(ix, spk)

ScanTxOut(ix, op, spk) ==
  LET hit == Matches(ix, spk)
  IN IF hit = {} THEN ix
     ELSE [ix EXCEPT !.txouts[op] = CHOOSE p \in hit : TRUE, !.unused = @ \ hit]

InsertSpks(ix, ps) ==
  LET new == {p \in ps : IndexOfSpk(ix, ScriptAt(ix, p)) = {}}
  IN [ix EXCEPT !.spks = @ \cup new, !.unused = @ \cup new]

OutputsAt(ix, p) == {op \in OutPoint : ix.txouts[op] = p}

MarkUsed(ix, p) == [ix EXCEPT !.unused = @ \ {p}]

(* Faulty variant: a script that has outputs can be made unused. *)
UnmarkAlways(ix, p) == IF p \notin ix.spks THEN ix ELSE [ix EXCEPT !.unused = @ \cup {p}]

UnmarkUsed(ix, p) ==
  IF p \notin ix.spks \/ OutputsAt(ix, p) # {} THEN ix ELSE [ix EXCEPT !.unused = @ \cup {p}]

IsTxRelevant(ix, tx) ==
  \/ \E op \in Prevouts(tx) : op \in OutPoint /\ ix.txouts[op] # None
  \/ \E i \in DOMAIN tx.output : Matches(ix, tx.output[i]) # {}

(* relevant_spks_of_tx: the positions a transaction spends from or pays to. *)
RelevantSpksOfTx(ix, tx) ==
  ({ix.txouts[op] : op \in Prevouts(tx) \cap OutPoint} \ {None})
    \cup (UNION {Matches(ix, tx.output[i]) : i \in DOMAIN tx.output})

-----------------------------------------------------------------------------
(* KeychainTxOutIndex. *)

NextReveal(ix, d) == IF ix.last_revealed[d] = None THEN 0 ELSE ix.last_revealed[d] + 1

(* Faulty variant: the lookahead is counted from the last revealed index. *)
StopIndexShort(ix, d, lookahead) ==
  IF d \notin Wildcard THEN 1
  ELSE IF ix.last_revealed[d] # None /\ ix.last_revealed[d] + lookahead < BIP32_MAX_INDEX
       THEN ix.last_revealed[d] + lookahead ELSE BIP32_MAX_INDEX

(* The exclusive end of the range replenish_inner_index derives. *)
StopIndex(ix, d, lookahead) ==
  IF d \notin Wildcard THEN 1
  ELSE IF NextReveal(ix, d) + lookahead < BIP32_MAX_INDEX
       THEN NextReveal(ix, d) + lookahead ELSE BIP32_MAX_INDEX

NextSpkIndex(ix, k) == Max({p[2] + 1 : p \in {q \in ix.spks : q[1] = k}} \cup {0})

(* replenish_inner_index, with and without the cache of derived scripts. *)
Replenish(ix, k, lookahead) ==
  LET d == ix.descriptor[k]
      fresh == NextSpkIndex(ix, k) .. StopIndex(ix, d, lookahead) - 1
      grown == InsertSpks(ix, {k} \X fresh)
  IN IF ~PersistSpks THEN grown
     ELSE [grown EXCEPT !.spk_cache = @ \cup ({d} \X fresh),
                        !.spk_cache_stage = @ \cup (({d} \X fresh) \ ix.spk_cache)]

(* The operations below take and return [ix, cs]: the index and the change *)
(* set under construction.                                                 *)
Start(ix) == [ix |-> ix, cs |-> EmptyIndexChangeSet]

(* _empty_stage_into_changeset. *)
EmptyStage(r) ==
  IF ~PersistSpks THEN r
  ELSE [ix |-> [r.ix EXCEPT !.spk_cache_stage = {}],
        cs |-> [r.cs EXCEPT !.spk_cache = @ \cup r.ix.spk_cache_stage]]

(* Faulty variant: the revealed index is not reported in the change set. *)
RevealUnreported(r, k, i) ==
  [r EXCEPT !.ix = Replenish([@ EXCEPT !.last_revealed[@.descriptor[k]] = i], k, Lookahead)]

Reveal(r, k, i) ==
  LET d == r.ix.descriptor[k]
  IN [ix |-> Replenish([r.ix EXCEPT !.last_revealed[d] = i], k, Lookahead),
      cs |-> [r.cs EXCEPT !.last_revealed[d] = i]]

(* _index_txout: an output to a script beyond the last revealed reveals it. *)
IndexOutput(r, op, spk) ==
  LET scanned == [r EXCEPT !.ix = ScanTxOut(r.ix, op, spk)]
      p == scanned.ix.txouts[op]
      last == r.ix.last_revealed[r.ix.descriptor[p[1]]]
  IN IF Matches(r.ix, spk) = {} THEN r
     ELSE IF last = None \/ last < p[2] THEN Reveal(scanned, p[1], p[2]) ELSE scanned

(* index_txout for one output, index_tx for those of a transaction. *)
IndexOutputs(ix, txouts) ==
  EmptyStage(Fold(LAMBDA r, x : IndexOutput(r, x[1], x[2]), Start(ix), txouts))

IndexTx(ix, t, tx) == IndexOutputs(ix, Outputs(t, tx))

(* insert_descriptor: refused when either side is assigned already. *)
CanAssign(ix, k, d) == ix.descriptor[k] = None /\ \A j \in Keychain : ix.descriptor[j] # d
InsertDescriptor(ix, k, d) ==
  IF CanAssign(ix, k, d) THEN Replenish([ix EXCEPT !.descriptor[k] = d], k, Lookahead) ELSE ix

(* next_index: the index and whether it is a new one. *)
NextIndex(ix, k) ==
  LET d == ix.descriptor[k]
      last == ix.last_revealed[d]
  IN CASE last = None -> [index |-> 0, new |-> TRUE]
       [] last # None /\ d \notin Wildcard -> [index |-> 0, new |-> FALSE]
       [] OTHER -> IF last = BIP32_MAX_INDEX THEN [index |-> last, new |-> FALSE]
                   ELSE [index |-> last + 1, new |-> TRUE]

(* _reveal_next_spk ends in an expect on the script it just revealed. *)
RevealNext(r, k) ==
  LET next == NextIndex(r.ix, k) IN IF next.new THEN Reveal(r, k, next.index) ELSE r
RevealPanics(ix, k) == <<k, NextIndex(ix, k).index>> \notin RevealNext(Start(ix), k).ix.spks

RevealNextSpk(ix, k) == EmptyStage(RevealNext(Start(ix), k))

RevealUpTo(r, k, target) ==
  LET next == NextIndex(r.ix, k)
  IN IF next.new /\ next.index <= target THEN RevealNext(r, k) ELSE r
(* The loop ends at the target: after target + 1 rounds at the latest. *)
Rounds(target) == [i \in 1 .. target + 1 |-> target]
RevealToTarget(ix, k, target) ==
  EmptyStage(Fold(LAMBDA r, goal : RevealUpTo(r, k, goal), Start(ix), Rounds(target)))

RevealedSpks(ix, k) ==
  {p \in ix.spks : p[1] = k /\ p[2] < NextReveal(ix, ix.descriptor[k])}
UnusedSpks(ix, k) == RevealedSpks(ix, k) \cap ix.unused

(* next_unused_spk: an unused one that is revealed already, or the next. *)
NextUnusedSpk(ix, k) ==
  IF UnusedSpks(ix, k) # {} THEN EmptyStage(Start(ix)) ELSE RevealNextSpk(ix, k)
NextUnusedPosition(ix, k) ==
  IF UnusedSpks(ix, k) # {} THEN <<k, Min({p[2] : p \in UnusedSpks(ix, k)})>>
  ELSE <<k, NextIndex(ix, k).index>>

LookaheadToTarget(ix, k, target) ==
  LET next == NextIndex(ix, k).index
  IN EmptyStage(Start(IF target + 1 > next THEN Replenish(ix, k, target + 1 - next) ELSE ix))

InitialIndexChangeset(ix) == [last_revealed |-> ix.last_revealed, spk_cache |-> ix.spk_cache]

(* apply_changeset: a keychain is replenished if its descriptor is there. *)
Raised(ix, cs) ==
  [ix EXCEPT !.spk_cache = IF PersistSpks THEN @ \cup cs.spk_cache ELSE @,
             !.last_revealed = [d \in Descriptor |-> Latest(@[d], cs.last_revealed[d])]]
ReplenishNamed(ix, k, cs) ==
  IF ix.descriptor[k] # None /\ cs.last_revealed[ix.descriptor[k]] # None
  THEN Replenish(ix, k, Lookahead) ELSE ix
ApplyIndexChangeset(ix, cs) ==
  Fold(LAMBDA x, k : ReplenishNamed(x, k, cs), Raised(ix, cs), Listing(Keychain))

MergeIndexChangesets(cs, other) ==
  [last_revealed |-> [d \in Descriptor |-> Latest(cs.last_revealed[d], other.last_revealed[d])],
   spk_cache |-> cs.spk_cache \cup other.spk_cache]

=============================================================================
