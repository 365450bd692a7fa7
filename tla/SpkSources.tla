----------------------------- MODULE SpkSources -----------------------------
(***************************************************************************)
(* The sources that ask a server about scripts: the Esplora client         *)
(* (crates/esplora: blocking_ext.rs and async_ext.rs hold the same         *)
(* algorithm, one with threads, one with futures) and the Electrum client  *)
(* (crates/electrum).  A sync or a full scan is a job of many requests,    *)
(* and the node may change between any two of them: every answer is a step *)
(* of its own, the answers of one batch coming in any order.  A history is *)
(* a set of <<tx, height, block>>, height and block None in the mempool.   *)
(* Left out: floating previous outputs (insert_prevouts, fetch_prev_txout) *)
(* and the pages of a long history.                                        *)
(***************************************************************************)
EXTENDS ChainNode, TLC
LOCAL INSTANCE SequencesExt

CONSTANTS
  LastSpk,              \* the full scan's iterator is cut off here
  LastRevealed,         \* a sync asks for the scripts up to here
  StopGap,
  BatchSize,            \* parallel_requests, batch_size
  CHAIN_SUFFIX_LENGTH,
  AskedTxs,             \* the txids of a sync request
  AskedOuts             \* the transactions whose output a sync request names

NoBlocks == [h \in Height |-> None]
NoAnswers == <<>>

(* SyncRequest and FullScanRequest: what the job still asks for. *)
Request(src, full) ==
  [kind |-> src, full |-> full, pc |-> "tip", latest |-> NoBlocks, cp |-> NoBlocks,
   at |-> TipHeight(chain), top |-> None, todo |-> {}, got |-> NoAnswers, unused |-> 0, active |-> None,
   upd |-> NoUpdate, pend |-> {}, lost |-> FALSE]

StartEsplora ==
  /\ Begins
  /\ \E full \in BOOLEAN : job' = Request("esplora", full)
  /\ UNCHANGED <<node, chain, graph, client>>

(* populate_tx_cache and populate_anchor_cache may come first. *)
StartElectrum ==
  /\ Begins
  /\ \E full \in BOOLEAN : job' = Request("electrum", full)
  /\ \E known \in {client, [client EXCEPT !.txs = @ \cup graph.txs, !.anchors = @ \cup graph.anchors]} :
       client' = known
  /\ UNCHANGED <<node, chain, graph>>

-----------------------------------------------------------------------------
(* Requests and answers. *)

Ask(j, pc, items) == [j EXCEPT !.pc = pc, !.todo = items, !.got = NoAnswers]
Answers == UNION {job.got[i] : i \in DOMAIN job.got}

LastAsked(j) == IF j.full THEN LastSpk ELSE LastRevealed
AskSpks(j, first) == Ask(j, "spks", first .. Min({first + BatchSize - 1, LastAsked(j)}))

Entry(t) ==
  IF t = None \/ ~IsKnown(t) THEN {}
  ELSE LET h == ConfirmedAt(t) IN {<<t, h, IF h = None THEN None ELSE Best(h)>>}

History(spk) == UNION {Entry(t) : t \in {t \in Tx : spk \in SpksOf[t]}}

(* BdkElectrumClient::fetch_tx: the cache, or else the server. *)
Fetchable(t) == t \in client.txs \/ IsKnown(t)

(* The server's answer to a request of the phase the job is in.  A failing    *)
(* fetch_tx of an outpoint's transaction only makes the outpoint be skipped.  *)
EsploraAnswers(i) ==
  CASE job.pc = "spks" -> {History(i)}
    [] job.pc \in {"txids", "outs", "missing"} -> {Entry(i)}
    [] job.pc = "spends" -> {Entry(SpenderOf[i])}
    [] OTHER -> {}

ElectrumAnswers(i) ==
  CASE job.pc = "spks" -> {History(i)}
    [] job.pc = "txids" -> {Entry(i)}
    [] job.pc = "outs" -> {Entry(i) \cup Entry(SpenderOf[i])}
    [] job.pc = "fetch" -> {IF Fetchable(i) THEN {i} ELSE {}}
    [] job.pc = "fetchouts" -> {{}} \cup (IF Fetchable(i) THEN {{i}} ELSE {})
    [] job.pc = "headers" -> {{Best(i)}}
    [] job.pc = "proofs" -> IF i[1] \in TxsIn[Best(i[2])] THEN {{Best(i[2])}} ELSE {}
    [] OTHER -> {}

ReadAnswer ==
  /\ job.kind \in {"esplora", "electrum"}
  /\ \E i \in job.todo :
     \E answer \in IF job.kind = "esplora" THEN EsploraAnswers(i) ELSE ElectrumAnswers(i) :
       /\ job' = [job EXCEPT !.todo = @ \ {i}, !.got = (i :> answer) @@ @,
                             !.lost = @ \/ (job.pc = "fetchouts" /\ answer = {} /\ Fetchable(i))]
       /\ client' = IF job.pc \in {"fetch", "fetchouts"} THEN [client EXCEPT !.txs = @ \cup answer] ELSE client
  /\ UNCHANGED <<chain, graph, calm>> /\ NodeStays

(* Any request may fail, and the whole call with it. *)
RequestFails ==
  /\ job.kind \in {"esplora", "electrum"}
  /\ job' = [kind |-> "none"]
  /\ UNCHANGED <<chain, graph, client, calm>> /\ NodeStays

(* insert_anchor_or_seen_at_from_status; Electrum's anchors wait for a proof. *)
TakeStatus(j, entries) ==
  LET confirmed == {e \in entries : e[2] # None}
  IN [j EXCEPT !.upd.seen = @ \cup {e[1] : e \in entries \ confirmed},
               !.upd.anchors = IF j.kind = "esplora" THEN @ \cup confirmed ELSE @,
               !.pend = IF j.kind = "electrum" THEN @ \cup {<<e[1], e[2]>> : e \in confirmed} ELSE @]

Take(j, entries) == [TakeStatus(j, entries) EXCEPT !.upd.txs = @ \cup {e[1] : e \in entries}]

-----------------------------------------------------------------------------
(* fetch_txs_with_keychain_spks, populate_with_spks: the answers of a batch   *)
(* are processed in the order of the indices.                                 *)

(* Faulty variant: a script below the last revealed index widens the gap too. *)
CountAlways(j, i) == j.got[i] = {}

CountsAsUnused(j, i) == j.got[i] = {} /\ (~j.full \/ i > LastRevealed)
ReachesGap(j, unused) == j.full /\ unused >= Max({StopGap, 1})

ScanSpk(j, i) ==
  LET unused == IF j.got[i] # {} THEN 0 ELSE IF CountsAsUnused(j, i) THEN j.unused + 1 ELSE j.unused
      evicted == IF j.full THEN {} ELSE Expected(i) \ {e[1] : e \in j.got[i]}
  IN [Take(j, j.got[i]) EXCEPT !.unused = unused, !.active = IF j.got[i] # {} THEN i ELSE @,
                               !.upd.evicted = @ \cup evicted]

(* Esplora counts the gap after a whole batch, Electrum after every script. *)
ScanBatch(j) ==
  LET Scan(acc, i) == IF j.kind = "electrum" /\ ReachesGap(j, acc.unused) THEN acc ELSE ScanSpk(acc, i)
      end == FoldLeft(Scan, j, SetToSortSeq(DOMAIN j.got, <))
  IN [j EXCEPT !.upd = end.upd, !.pend = end.pend, !.unused = end.unused, !.active = end.active]

EndsScan(j) == ReachesGap(j, j.unused) \/ Max(DOMAIN j.got) = LastAsked(j)

-----------------------------------------------------------------------------
(* Esplora. *)

(* fetch_latest_blocks: one request, before any other. *)
LatestBlocks == [h \in Height |-> IF h + CHAIN_SUFFIX_LENGTH > node.height THEN Best(h) ELSE None]

FetchLatestBlocks ==
  /\ job.kind = "esplora" /\ job.pc = "tip"
  /\ job' = AskSpks([job EXCEPT !.latest = LatestBlocks], 0)
  /\ UNCHANGED <<chain, graph, client, calm>> /\ NodeStays

(* Faulty variant: the latest blocks are fetched after the histories. *)
EsploraScanThenTip ==
  /\ job.kind = "esplora" /\ job.pc = "spks" /\ job.todo = {}
  /\ \E j \in {[ScanBatch(job) EXCEPT !.latest = LatestBlocks]} :
       job' = IF ~EndsScan(j) THEN AskSpks(j, Max(DOMAIN j.got) + 1)
              ELSE IF j.full THEN [j EXCEPT !.pc = "walk"]
              ELSE Ask(j, "txids", AskedTxs \ j.upd.txs)
  /\ UNCHANGED <<chain, graph, client, calm>> /\ NodeStays

(* sync: scripts, then txids, then outpoints; what is inserted is not fetched *)
(* again.  full_scan: scripts only.                                           *)
EsploraScan ==
  /\ job.kind = "esplora" /\ job.pc = "spks" /\ job.todo = {}
  /\ \E j \in {ScanBatch(job)} :
       job' = IF ~EndsScan(j) THEN AskSpks(j, Max(DOMAIN j.got) + 1)
              ELSE IF j.full THEN [j EXCEPT !.pc = "walk"]
              ELSE Ask(j, "txids", AskedTxs \ j.upd.txs)
  /\ UNCHANGED <<chain, graph, client, calm>> /\ NodeStays

(* fetch_txs_with_txids, then the first half of fetch_txs_with_outpoints. *)
EsploraTxids ==
  /\ job.kind = "esplora" /\ job.pc = "txids" /\ job.todo = {}
  /\ \E j \in {Take(job, Answers)} : job' = Ask(j, "outs", AskedOuts \ j.upd.txs)
  /\ UNCHANGED <<chain, graph, client, calm>> /\ NodeStays

(* fetch_txs_with_outpoints: the status of the spends, then the transactions  *)
(* that spend and are missing.                                                *)
EsploraOutpoints ==
  /\ job.kind = "esplora" /\ job.todo = {}
  /\ \/ job.pc = "outs" /\ job' = Ask(Take(job, Answers), "spends", AskedOuts)
     \/ job.pc = "spends" /\ job' = Ask(TakeStatus(job, Answers), "missing", {e[1] : e \in Answers} \ job.upd.txs)
     \/ job.pc = "missing" /\ job' = [Take(job, Answers) EXCEPT !.pc = "walk"]
  /\ UNCHANGED <<chain, graph, client, calm>> /\ NodeStays

(* fetch_block: never a block above the latest ones. *)
FetchBlock(latest, h) ==
  IF latest[h] # None THEN latest[h] ELSE IF h > TipHeight(latest) THEN None ELSE Best(h)

(* chain_update, first loop: one checkpoint of the wallet after the other     *)
(* until one is the server's too; those that are not are conflicts.           *)
WalkCheckpoints ==
  /\ job.kind = "esplora" /\ job.pc = "walk"
  /\ \E remote \in {FetchBlock(job.latest, job.at)} :
       job' = IF remote = chain[job.at]
              THEN [job EXCEPT !.pc = "anchors", !.todo = {a[2] : a \in job.upd.anchors},
                               !.cp = [h \in Height |-> IF h <= job.at THEN chain[h] ELSE @[h]]]
              ELSE IF job.at = 0 THEN [kind |-> "none"]
              ELSE [job EXCEPT !.cp[job.at] = remote, !.at = NodeBelow(chain, job.at - 1)]
  /\ UNCHANGED <<chain, graph, client, calm>> /\ NodeStays

(* chain_update, second loop: a checkpoint for every anchor's height. *)
InsertAnchorHeight ==
  /\ job.kind = "esplora" /\ job.pc = "anchors" /\ job.todo # {}
  /\ LET h == Min(job.todo)
     IN \E hash \in {IF job.cp[h] # None THEN None ELSE FetchBlock(job.latest, h)} :
          job' = [job EXCEPT !.todo = @ \ {h}, !.cp = IF hash = None THEN @ ELSE Insert(@, h, hash)]
  /\ UNCHANGED <<chain, graph, client, calm>> /\ NodeStays

Done(start) ==
  [kind |-> "done", src |-> job.kind, full |-> job.full, start |-> start, active |-> job.active, lost |-> job.lost]

(* The latest blocks go in last, and the response is applied. *)
EsploraResponse ==
  /\ job.kind = "esplora" /\ job.pc = "anchors" /\ job.todo = {}
  /\ Deliver(InsertAll(job.cp, job.latest), job.upd, Done(chain))
  /\ UNCHANGED <<client, calm>> /\ NodeStays

-----------------------------------------------------------------------------
(* Electrum. *)

(* fetch_tip_and_latest_blocks: the tip's height; a lower one than the        *)
(* wallet's leaves its checkpoints as they are.                               *)
SubscribeHeaders ==
  /\ job.kind = "electrum" /\ job.pc = "tip"
  /\ job' = IF node.height < TipHeight(chain) THEN AskSpks([job EXCEPT !.cp = chain], 0)
            ELSE [job EXCEPT !.pc = "suffix", !.top = node.height]
  /\ UNCHANGED <<chain, graph, client, calm>> /\ NodeStays

(* The headers of the chain's end, in one request. *)
FetchSuffix ==
  /\ job.kind = "electrum" /\ job.pc = "suffix"
  /\ LET start == IF job.top < CHAIN_SUFFIX_LENGTH THEN 0 ELSE job.top - CHAIN_SUFFIX_LENGTH + 1
     IN job' = [job EXCEPT !.pc = "agree", !.top = None,
                           !.latest = [h \in Height |-> IF h \in start .. start + CHAIN_SUFFIX_LENGTH - 1 THEN Best(h) ELSE None]]
  /\ UNCHANGED <<chain, graph, client, calm>> /\ NodeStays

(* The point of agreement; the headers read on the way become blocks of the   *)
(* update.                                                                    *)
AgreeWithServer ==
  /\ job.kind = "electrum" /\ job.pc = "agree"
  /\ \E latest \in {IF job.latest[job.at] # None THEN job.latest ELSE [job.latest EXCEPT ![job.at] = Best(job.at)]} :
       job' = IF latest[job.at] = chain[job.at]
              THEN AskSpks([job EXCEPT !.latest = latest,
                                       !.cp = [h \in Height |-> IF h <= job.at THEN chain[h] ELSE latest[h]]], 0)
              ELSE IF job.at = 0 THEN [kind |-> "none"]
              ELSE [job EXCEPT !.latest = latest, !.at = NodeBelow(chain, job.at - 1)]
  /\ UNCHANGED <<chain, graph, client, calm>> /\ NodeStays

(* The heights whose headers batch_fetch_anchors has to read. *)
AskHeaders(j) == Ask(j, "headers", {p[2] : p \in j.pend} \ {h \in Height : client.headers[h] # None})

(* Every transaction of a history is fetched, or the call fails. *)
FetchesTxs(j) ==
  /\ \A t \in j.upd.txs : Fetchable(t)
  /\ client' = [client EXCEPT !.txs = @ \cup j.upd.txs]

(* populate_with_spks. *)
ElectrumScan ==
  /\ job.kind = "electrum" /\ job.pc = "spks" /\ job.todo = {}
  /\ \E j \in {ScanBatch(job)} :
       /\ FetchesTxs(j)
       /\ job' = IF ~EndsScan(j) THEN AskSpks(j, Max(DOMAIN j.got) + 1)
                 ELSE IF j.full THEN AskHeaders(j)
                 ELSE Ask(j, "fetch", AskedTxs)
  /\ UNCHANGED <<chain, graph, calm>> /\ NodeStays

(* populate_with_txids: the transactions the server or the cache has, then    *)
(* their status from the history of one of their scripts.                     *)
ElectrumTxids ==
  /\ job.kind = "electrum" /\ job.todo = {}
  /\ \/ job.pc = "fetch" /\ job' = Ask([job EXCEPT !.upd.txs = @ \cup Answers], "txids", Answers)
     \/ job.pc = "txids" /\ job' = Ask(Take(job, Answers), "fetchouts", AskedOuts)
  /\ UNCHANGED <<chain, graph, client, calm>> /\ NodeStays

(* populate_with_outpoints: from the history of the output's script, the      *)
(* transaction it resides in and the one that spends it.                      *)
ElectrumOutpoints ==
  /\ job.kind = "electrum" /\ job.todo = {}
  /\ \/ job.pc = "fetchouts" /\ job' = Ask(job, "outs", Answers) /\ UNCHANGED client
     \/ /\ job.pc = "outs"
        /\ \E j \in {Take(job, Answers)} : FetchesTxs(j) /\ job' = AskHeaders(j)
  /\ UNCHANGED <<chain, graph, calm>> /\ NodeStays

(* batch_fetch_anchors: an anchor in the cache of the cached header's block   *)
(* is taken as it is, the others need a proof.                                *)
CheckAnchorCache ==
  /\ job.kind = "electrum" /\ job.pc = "headers" /\ job.todo = {}
  /\ LET headers == [h \in Height |-> IF h \in DOMAIN job.got THEN CHOOSE b \in job.got[h] : TRUE ELSE client.headers[h]]
         cached == {p \in job.pend : <<p[1], p[2], headers[p[2]]>> \in client.anchors}
     IN /\ client' = [client EXCEPT !.headers = headers]
        /\ job' = Ask([job EXCEPT !.upd.anchors = @ \cup {<<p[1], p[2], headers[p[2]]>> : p \in cached}],
                      "proofs", job.pend \ cached)
  /\ UNCHANGED <<chain, graph, calm>> /\ NodeStays

(* A proof that does not fit the cached header is tried once more with the    *)
(* header read afresh.                                                        *)
ValidateProof ==
  /\ job.kind = "electrum" /\ job.pc = "proofs" /\ job.todo = {} /\ DOMAIN job.got # {}
  /\ \E p \in DOMAIN job.got :
     \E header \in {IF job.got[p] = {client.headers[p[2]]} THEN client.headers[p[2]] ELSE Best(p[2])} :
       LET anchors == IF job.got[p] = {header} THEN {<<p[1], p[2], header>>} ELSE {}
       IN /\ client' = [client EXCEPT !.headers[p[2]] = header, !.anchors = @ \cup anchors]
          /\ job' = [job EXCEPT !.got = [q \in DOMAIN @ \ {p} |-> @[q]], !.upd.anchors = @ \cup anchors]
  /\ UNCHANGED <<chain, graph, calm>> /\ NodeStays

(* chain_update: a checkpoint for every anchor's height up to the tip. *)
AnchorHeights == {h \in {a[2] : a \in job.upd.anchors} : job.cp[h] = None /\ h <= TipHeight(job.cp)}
AnchorBlocks(h) == IF job.latest[h] # None THEN {job.latest[h]} ELSE {a[3] : a \in {x \in job.upd.anchors : x[2] = h}}

ElectrumResponse ==
  /\ job.kind = "electrum" /\ job.pc = "proofs" /\ job.todo = {} /\ DOMAIN job.got = {}
  /\ \E pick \in {f \in [AnchorHeights -> Block] : \A h \in AnchorHeights : f[h] \in AnchorBlocks(h)} :
       Deliver([h \in Height |-> IF h \in AnchorHeights THEN pick[h] ELSE job.cp[h]], job.upd, Done(chain))
  /\ UNCHANGED <<client, calm>> /\ NodeStays

-----------------------------------------------------------------------------

SpkStep ==
  \/ ReadAnswer \/ FetchLatestBlocks \/ EsploraScan \/ EsploraTxids \/ EsploraOutpoints
  \/ WalkCheckpoints \/ InsertAnchorHeight \/ EsploraResponse
  \/ SubscribeHeaders \/ FetchSuffix \/ AgreeWithServer \/ ElectrumScan \/ ElectrumTxids
  \/ ElectrumOutpoints \/ CheckAnchorCache \/ ValidateProof \/ ElectrumResponse

=============================================================================
