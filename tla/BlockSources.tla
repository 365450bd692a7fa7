---------------------------- MODULE BlockSources ----------------------------
(***************************************************************************)
(* The sources that walk the blocks of a node (crates/bitcoind_rpc): the   *)
(* Emitter, with its mempool calls, and the compact-filter FilterIter.     *)
(* Every RPC is a step of its own and the node may change between two.     *)
(* The receiver does what the crate's documentation and its example do: it *)
(* applies every event's checkpoint to its LocalChain and anchors every    *)
(* block at the event's height.                                            *)
(***************************************************************************)
EXTENDS ChainNode

CONSTANTS
  StartHeights   \* the start_height arguments of Emitter::new

(* GetBlockResult, GetBlockHeaderResult: nextblockhash exists on the best     *)
(* chain only.  A block that left the best chain has negative confirmations.  *)
BlockInfo(b) ==
  LET h == HeightOf(b)
  IN [height |-> h, hash |-> b, next |-> IF OnBest(b) /\ h < node.height THEN Best(h + 1) ELSE None]

BlockUpdate(b, h) == [NoUpdate EXCEPT !.txs = TxsIn[b], !.anchors = {<<t, h, b>> : t \in TxsIn[b]}]

-----------------------------------------------------------------------------
(* Emitter. *)

(* Faulty variant: nothing is expected to be in the mempool. *)
NewEmitterEmpty ==
  /\ Begins
  /\ \E start \in StartHeights :
       job' = [kind |-> "emitter", call |-> "idle", asked |-> start, base |-> chain,
               start_height |-> start, last_cp |-> chain, last_block |-> None,
               snapshot |-> {},
               at |-> None, read |-> None, pool |-> {}, result |-> "none"]
  /\ UNCHANGED <<node, chain, graph, client>>

(* Emitter::new, with the wallet's unconfirmed transactions as the expected   *)
(* mempool.                                                                   *)
NewEmitter ==
  /\ Begins
  /\ \E start \in StartHeights :
       job' = [kind |-> "emitter", call |-> "idle", asked |-> start, base |-> chain,
               start_height |-> start, last_cp |-> chain, last_block |-> None,
               snapshot |-> {t \in graph.txs : IsCanonical(t) /\ ~InChain(t)},
               at |-> None, read |-> None, pool |-> {}, result |-> "none"]
  /\ UNCHANGED <<node, chain, graph, client>>

(* One of the emitter's own steps: only the job changes. *)
EmitterDoes(call) == job.kind = "emitter" /\ job.call = call
OnlyJob == UNCHANGED <<chain, graph, client, calm>> /\ NodeStays

CallNextBlock == EmitterDoes("idle") /\ job' = [job EXCEPT !.call = "poll", !.result = "none"] /\ OnlyJob
StopEmitter == EmitterDoes("idle") /\ job' = [kind |-> "none"] /\ OnlyJob

Again(j) == [j EXCEPT !.call = "poll", !.read = None, !.at = None]
Return(j, result) == [j EXCEPT !.call = "idle", !.read = None, !.at = None, !.pool = {}, !.result = result]

(* poll_once, beginning: the next block's hash is cached, or is asked for at  *)
(* the start height, or the last block has to be found again.                 *)
PollOnce ==
  /\ EmitterDoes("poll")
  /\ job' = IF job.last_block = None THEN [job EXCEPT !.call = "walk", !.at = TipHeight(job.last_cp)]
            ELSE IF job.last_block.height + 1 < job.start_height
            THEN IF job.start_height > node.height THEN Return(job, "error")
                 ELSE [job EXCEPT !.call = "recheck", !.read = Best(job.start_height)]
            ELSE IF job.last_block.next = None THEN Return([job EXCEPT !.last_block = None], "no more")
            ELSE [job EXCEPT !.call = "info", !.read = job.last_block.next]
  /\ OnlyJob

(* Faulty variant: the last emission is not looked at again. *)
RecheckNothing == EmitterDoes("recheck") /\ job' = [job EXCEPT !.call = "info"] /\ OnlyJob

(* The last emission must still be in the best chain. *)
RecheckLast ==
  /\ EmitterDoes("recheck")
  /\ job' = IF Best(job.last_block.height) # job.last_block.hash
            THEN Again([job EXCEPT !.last_block = None]) ELSE [job EXCEPT !.call = "info"]
  /\ OnlyJob

GetBlockInfo ==
  /\ EmitterDoes("info")
  /\ IF OnBest(job.read)
     THEN job' = [job EXCEPT !.call = "block", !.read = BlockInfo(@)] /\ calm' = Calm
     ELSE job' = Again([job EXCEPT !.last_block = None]) /\ UNCHANGED calm
  /\ UNCHANGED <<chain, graph, client>> /\ NodeStays

(* Faulty variant: the start height stays where the caller put it. *)
AgreementFoundKeepingStart(j, res) ==
  Again([j EXCEPT !.last_block = res, !.last_cp = UpTo(@, res.height)])

(* The checkpoints from the emitter's last one down, until one is in the best *)
(* chain; a reorganisation makes the emitter revisit what it invalidated.     *)
AgreementFound(j, res) ==
  Again([j EXCEPT !.last_block = res, !.last_cp = UpTo(@, res.height),
                  !.start_height = IF res.height < @ /\ res.height < TipHeight(j.last_cp) THEN res.height ELSE @])

(* Faulty variant: the node's genesis block is not taken for a start. *)
WalkLastCpOnly ==
  /\ EmitterDoes("walk")
  /\ LET b == job.last_cp[job.at]
     IN IF OnBest(b) THEN job' = AgreementFound(job, BlockInfo(b)) /\ calm' = Calm
        ELSE /\ job' = IF job.at > 0 THEN [job EXCEPT !.at = NodeBelow(job.last_cp, job.at - 1)]
                       ELSE Again([job EXCEPT !.last_block = None])
             /\ UNCHANGED calm
  /\ UNCHANGED <<chain, graph, client>> /\ NodeStays

WalkLastCp ==
  /\ EmitterDoes("walk")
  /\ LET b == job.last_cp[job.at]
     IN IF OnBest(b) THEN job' = AgreementFound(job, BlockInfo(b)) /\ calm' = Calm
        ELSE /\ job' = IF job.at > 0 THEN [job EXCEPT !.at = NodeBelow(job.last_cp, job.at - 1)]
                       ELSE Again([job EXCEPT !.last_cp = OnlyGenesis(Best(0)), !.last_block = None])
             /\ UNCHANGED calm
  /\ UNCHANGED <<chain, graph, client>> /\ NodeStays

(* The block itself; next_block stops tracking what it confirms, and the      *)
(* receiver applies the event.                                                *)
EmitBlock ==
  /\ EmitterDoes("block")
  /\ LET res == job.read
         cp == [job.last_cp EXCEPT ![res.height] = res.hash]
     IN IF ~CanPush(job.last_cp, res.height, res.hash)
        THEN job' = [kind |-> "panicked"] /\ UNCHANGED <<chain, graph>>
        ELSE Deliver(cp, BlockUpdate(res.hash, res.height),
                     Return([job EXCEPT !.last_cp = cp, !.last_block = res, !.snapshot = @ \ TxsIn[res.hash]], "block"))
  /\ UNCHANGED <<client, calm>> /\ NodeStays

(* Any RPC of a call may fail; what the call has stored stays, the mempool    *)
(* transactions fetched before the failing one included.                      *)
EmitterError ==
  /\ job.kind = "emitter" /\ job.call # "idle"
  /\ \E found \in IF job.call = "txs" THEN SUBSET (job.pool \ job.snapshot) ELSE {{}} :
       /\ \A t \in found : IsKnown(t)
       /\ job' = Return([job EXCEPT !.snapshot = @ \cup found], "error")
  /\ OnlyJob

-----------------------------------------------------------------------------
(* mempool_at. *)

CallMempool ==
  /\ EmitterDoes("idle")
  /\ job' = [job EXCEPT !.call = "count", !.result = "none"]
  /\ calm' = [calm EXCEPT !.pool = TRUE]
  /\ UNCHANGED <<chain, graph, client>> /\ NodeStays

(* A mempool that belongs to one tip: height and hash of the tip are read     *)
(* before and after it.                                                       *)
ReadMempool ==
  /\ job.kind = "emitter"
  /\ \/ job.call = "count" /\ job' = [job EXCEPT !.call = "hash", !.at = node.height]
     \/ job.call = "hash" /\ job' = [job EXCEPT !.call = "pool", !.read = Best(job.at)]
     \/ job.call = "pool" /\ job' = [job EXCEPT !.call = "rehash", !.pool = node.mempool]
     \/ job.call = "rehash" /\ job' = [job EXCEPT !.call = IF Best(job.at) = job.read THEN "recount" ELSE "count"]
     \/ job.call = "recount" /\ job' = [job EXCEPT !.call = IF node.height = job.at THEN "txs" ELSE "count"]
  /\ OnlyJob

(* Transactions that are not in the snapshot are fetched: those that left the *)
(* mempool are found only if they were confirmed and the node has an index.   *)
Found(j) ==
  {found \in SUBSET (j.pool \ j.snapshot) :
     /\ (j.pool \ j.snapshot) \cap node.mempool \subseteq found
     /\ \A t \in found : IsKnown(t)}

(* Faulty variant: evictions are reported before the tip is reached. *)
AtTipAlways(j) == TRUE

AtTip(j) == TipHeight(j.last_cp) = j.at /\ j.last_cp[j.at] = j.read

(* Evictions are told only when the tip is emitted. *)
EmitMempool ==
  /\ EmitterDoes("txs")
  /\ \E found \in Found(job) :
       LET update == job.pool \cap (job.snapshot \cup found)
           evicted == IF AtTip(job) THEN (job.snapshot \cup found) \ job.pool ELSE {}
           snapshot == IF AtTip(job) THEN update ELSE job.snapshot \cup found
       IN /\ graph' = ApplyTxs(graph, [NoUpdate EXCEPT !.txs = update, !.seen = update, !.evicted = evicted])
          /\ job' = Return([job EXCEPT !.snapshot = snapshot], IF AtTip(job) THEN "mempool" ELSE "catching up")
  /\ UNCHANGED <<chain, client, calm>> /\ NodeStays

-----------------------------------------------------------------------------
(* FilterIter. *)

NewFilterIter ==
  /\ Begins
  /\ job' = [kind |-> "filter", call |-> "idle", base |-> chain, cp |-> chain, header |-> None,
             at |-> None, read |-> None, result |-> "none"]
  /\ UNCHANGED <<node, chain, graph, client>>

FilterDoes(call) == job.kind = "filter" /\ job.call = call
Yield(j, result) == [j EXCEPT !.call = "idle", !.at = None, !.read = None, !.result = result]

StopFilter == FilterDoes("idle") /\ job' = [kind |-> "none"] /\ OnlyJob

(* next: the cached header is taken; it names the next block. *)
Follow(j, header) ==
  IF header.next = None THEN Yield([j EXCEPT !.header = None], "end")
  ELSE [j EXCEPT !.call = "header", !.header = None, !.at = None, !.read = header.next]

CallNext ==
  /\ FilterDoes("idle")
  /\ job' = IF job.header = None THEN [job EXCEPT !.call = "base", !.at = TipHeight(job.cp), !.result = "none"]
            ELSE Follow([job EXCEPT !.result = "none"], job.header)
  /\ OnlyJob

(* find_base. *)
FindBase ==
  /\ FilterDoes("base")
  /\ LET b == job.cp[job.at]
     IN IF OnBest(b) THEN job' = Follow(job, BlockInfo(b)) /\ calm' = Calm
        ELSE /\ job' = IF job.at > 0 THEN [job EXCEPT !.at = NodeBelow(job.cp, job.at - 1)]
                       ELSE Yield(job, "reorg depth exceeded")
             /\ UNCHANGED calm
  /\ UNCHANGED <<chain, graph, client>> /\ NodeStays

(* Faulty variant: a block that left the best chain is scanned all the same. *)
GetHeaderNoRewind ==
  /\ FilterDoes("header")
  /\ job' = [job EXCEPT !.call = "filter", !.read = BlockInfo(@)] /\ calm' = Calm
  /\ UNCHANGED <<chain, graph, client>> /\ NodeStays

(* The next header, rewound to one in the best chain. *)
GetHeader ==
  /\ FilterDoes("header")
  /\ IF OnBest(job.read)
     THEN job' = [job EXCEPT !.call = "filter", !.read = BlockInfo(@)] /\ calm' = Calm
     ELSE job' = [job EXCEPT !.read = Parent[@]] /\ UNCHANGED calm
  /\ UNCHANGED <<chain, graph, client>> /\ NodeStays

(* The filter, and the block if it matches; the event's height is that of the *)
(* checkpoint's tip.                                                          *)
YieldEvent ==
  /\ FilterDoes("filter")
  /\ \E cp \in {Insert(job.cp, job.read.height, job.read.hash)} :
       Deliver(cp, BlockUpdate(job.read.hash, TipHeight(cp)),
               Yield([job EXCEPT !.cp = cp, !.header = job.read], "event"))
  /\ UNCHANGED <<client, calm>> /\ NodeStays

FilterError ==
  /\ job.kind = "filter" /\ job.call # "idle"
  /\ job' = Yield(job, "error")
  /\ OnlyJob

-----------------------------------------------------------------------------

BlockStep ==
  \/ PollOnce \/ RecheckLast \/ GetBlockInfo \/ WalkLastCp \/ EmitBlock
  \/ ReadMempool \/ EmitMempool
  \/ FindBase \/ GetHeader \/ YieldEvent

=============================================================================
