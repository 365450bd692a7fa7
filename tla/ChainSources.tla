---------------------------- MODULE ChainSources ----------------------------
(***************************************************************************)
(* A wallet that is kept up to date by the sources of the repository, one  *)
(* after the other, while the node they all read from goes on: blocks are  *)
(* mined, branches replace each other and transactions enter and leave the *)
(* mempool between any two requests.                                       *)
(***************************************************************************)
EXTENDS SpkSources, BlockSources

CONSTANT
  Wallets   \* the [chain, graph] the wallet may start with

ASSUME SourcesAssumption == StartHeights \subseteq Nat /\ \A w \in Wallets : w.chain[0] # None

vars == <<node, chain, graph, job, client, calm, jobs>>

Init ==
  /\ node = [branch |-> StartBranch, height |-> StartTip, mempool |-> InMempool, moves |-> 0,
             left |-> {}, returned |-> FALSE]
  /\ \E w \in Wallets : chain = w.chain /\ graph = w.graph
  /\ job = [kind |-> "none"]
  /\ client = [txs |-> {}, headers |-> NoBlocks, anchors |-> {}]
  /\ calm = Calm
  /\ jobs = 0

Fails == RequestFails \/ EmitterError \/ FilterError
Starts == StartEsplora \/ StartElectrum \/ NewEmitter \/ NewFilterIter
Calls == CallNextBlock \/ CallMempool \/ StopEmitter \/ CallNext \/ StopFilter

Next == MoveTip \/ ChangeMempool \/ Starts \/ Calls \/ SpkStep \/ BlockStep \/ Fails

(* Every RPC of a call of the block sources is answered, be it by an error;   *)
(* nobody has to call again.                                                  *)
Spec == Init /\ [][Next]_vars /\ WF_vars(BlockStep \/ EmitterError \/ FilterError)

-----------------------------------------------------------------------------
(* What the sources promise. *)

Dense(c) == \A h \in 0 .. TipHeight(c) : c[h] # None

(* Whatever changes while a source works, the wallet can apply what it gets   *)
(* (conflicts are part of the update, agreement comes first, push must        *)
(* succeed).  Three exceptions: a wallet of another network; an emitter that  *)
(* goes back below a checkpoint with a gap under it: it emits the blocks of   *)
(* the gap before the one that invalidates the checkpoint; and a server that  *)
(* is behind the wallet, whose tip lies in a gap of the wallet's chain.       *)
UpdatesConnect ==
  /\ job.kind # "panicked"
  /\ job.kind = "refused" =>
       \/ chain[0] # Genesis
       \/ job.src = "emitter" /\ ~Dense(chain)
       \/ TipHeight(job.cp) < TipHeight(chain) /\ chain[TipHeight(job.cp)] = None

(* The scripts below which no gap of StopGap unused ones lies, used being the *)
(* scripts of the transactions in txs.                                        *)
Reached(txs) ==
  LET used == UNION {SpksOf[t] : t \in txs}
  IN {i \in 0 .. LastSpk :
        ~\E j \in LastRevealed + 1 .. i - StopGap : \A k \in j .. j + StopGap - 1 : k \notin used}

(* What a sync or a full scan is about, of the transactions in txs. *)
Asked(txs) ==
  IF job.full THEN {t \in txs : SpksOf[t] \cap Reached(txs) # {}}
  ELSE {t \in txs : \/ SpksOf[t] \cap 0 .. LastRevealed # {}
                    \/ t \in AskedTxs
                    \/ ~job.lost /\ (t \in AskedOuts \/ \E p \in AskedOuts : SpenderOf[p] = t)}

(* Confirmed at one height on two branches: the Electrum client's anchor      *)
(* cache does not notice the second one.                                      *)
AtOneHeightTwice(t) ==
  \E b, c \in Block : b # c /\ t \in TxsIn[b] \cap TxsIn[c] /\ HeightOf(b) = HeightOf(c)
Reliable(t) == job.src = "electrum" => ~AtOneHeightTwice(t)

Known == {t \in Tx : IsKnown(t)}

(* A job through which nothing changed: the wallet's chain ends at the        *)
(* server's tip and holds nothing of another branch, the asked transactions   *)
(* have the server's status, expected ones the server does not know are gone  *)
(* and the last active index is right, whatever the wallet and the client's   *)
(* caches knew before.                                                        *)
QuietRunIsExact ==
  (job.kind = "done" /\ calm.tip /\ calm.pool /\ OneBranch(job.start) /\ TipHeight(job.start) <= node.height
     /\ \A t \in Tx : Reliable(t)) =>
    /\ \A h \in Height : chain[h] \in {None, Best(h)}
    /\ chain[node.height] = Best(node.height)
    /\ \A t \in Asked(Known) : IF t \in node.mempool THEN t \in graph.live ELSE InChain(t)
    /\ ~job.full => \A t \in Tx \ Known :
         SpksOf[t] \cap 0 .. LastRevealed # {} => t \notin graph.live \cap graph.txs
    /\ job.full => job.active = LET used == {i \in Reached(Known) : \E t \in Known : i \in SpksOf[t]}
                                IN IF used = {} THEN None ELSE Max(used)

(* A job through which the chain only grew: no asked transaction that is      *)
(* confirmed at or below the wallet's new tip is left without its anchor, so  *)
(* a block-based source may go on from there.                                 *)
GrowingRunMissesNothing ==
  (job.kind = "done" /\ calm.branch /\ OneBranch(job.start)) =>
    \A t \in Asked({t \in Tx : ConfirmedAt(t) # None /\ ConfirmedAt(t) <= TipHeight(chain)}) :
      Reliable(t) => InChain(t)

(* The height up to which the list is the node's. *)
CommonHeight(c) == Max({h \in Height : c[h] # None /\ c[h] = Best(h)})

(* The heights of the first gap of a list above the agreement at height a.    *)
GapAbove(c, a) == {h \in a + 1 .. TipHeight(c) : \A k \in a + 1 .. h : c[k] = None}

(* No gap lies between the list's agreement with a branch and its tip. *)
NoGapOver(c, branch) == GapAbove(c, Max({h \in Height : c[h] # None /\ c[h] = branch[h]})) = {}

(* An emitter that has no more blocks, or a filter scan that has ended, has   *)
(* brought the wallet to the node's tip and has handed over every block from  *)
(* the start height on, anchored at its own height; after a reorganisation    *)
(* also those below the start height that replace blocks the wallet had.  Two *)
(* exceptions.  An emitter that jumps to its start height promises this only  *)
(* as long as no block comes back to the best chain (see                      *)
(* EmitterKeepsOneBranch).  A filter scan from a sparse list whose blocks     *)
(* above a gap were reorganised away keeps the stale tip, because             *)
(* CheckPoint::insert does over a gap: the blocks in the gap are anchored at  *)
(* that tip's height (Event::height, documented as the height of the event),  *)
(* and if the stale branch becomes the best one during the scan, the list     *)
(* ends with blocks of both.                                                  *)
CaughtUpIsExact ==
  (/\ job.kind \in {"emitter", "filter"} /\ job.result \in {"no more", "end"} /\ calm.tip
   /\ OneBranch(job.base) /\ TipHeight(job.base) <= node.height
   /\ IF job.kind = "emitter" THEN ~node.returned
      ELSE node.left = {} \/ \A b \in Branches : NoGapOver(job.base, b)) =>
    /\ \A h \in Height : chain[h] \in {None, Best(h)}
    /\ chain[node.height] = Best(node.height)
    /\ \A t \in Tx :
         LET h == ConfirmedAt(t)
             agreement == CommonHeight(job.base)
         IN (h # None /\ h > agreement
               /\ IF job.kind = "emitter" THEN h >= job.asked \/ TipHeight(job.base) > agreement
                  ELSE h \notin GapAbove(job.base, agreement))
            => InChain(t)

(* "These blocks are guaranteed to be of the same chain": the checkpoints of  *)
(* an emitter stay on one branch, also when the start height makes it jump    *)
(* and the chain is reorganised meanwhile.  The hash at the start height is   *)
(* asked for before the last block is looked at again, so that this needs     *)
(* that no block comes back to the best chain after it has left it.           *)
EmitterKeepsOneBranch ==
  (job.kind = "emitter" /\ OneBranch(job.base) /\ ~node.returned) => OneBranch(job.last_cp)

(* After a mempool call at the tip the wallet's unconfirmed transactions are  *)
(* the node's mempool, those apart that were in a block once.                 *)
MempoolIsMirrored ==
  (job.kind = "emitter" /\ job.result = "mempool" /\ calm.pool) =>
    /\ node.mempool \subseteq graph.live
    /\ \A t \in (graph.live \cap graph.txs) \ node.mempool : \E a \in graph.anchors : a[1] = t

(* A transaction the emitter reports as evicted is not in the mempool, nor in *)
(* a block that is still to be emitted.                                       *)
EvictionsAreReal ==
  [][(job.kind = "emitter" /\ calm.pool) =>
       \A t \in graph.live \ graph'.live :
         /\ t \notin node.mempool
         /\ ConfirmedAt(t) # None => ConfirmedAt(t) <= TipHeight(job.last_cp)]_vars

(* A call of an emitter or a filter scan returns: poll and mempool_at loop    *)
(* while the chain moves, and end once it rests.                              *)
InCall == job.kind \in {"emitter", "filter"} /\ job.call # "idle"
CallsEnd == InCall ~> ~InCall

(* What the comment of test_batch_fetch_anchors_reorg_uses_new_hash says:      *)
(* "Reorgs should cause the anchor to point to the new block instead of the   *)
(* stale one."  Nothing having changed since a job began, an asked            *)
(* transaction that is confirmed is so by the block it is in.                 *)
AnchorsAreCurrent ==
  (job.kind = "done" /\ job.src = "electrum" /\ calm.tip) =>
    \A t \in Asked(Known) : ConfirmedAt(t) # None =>
      <<t, ConfirmedAt(t), Best(ConfirmedAt(t))>> \in graph.anchors

=============================================================================
