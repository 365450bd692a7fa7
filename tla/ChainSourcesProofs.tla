------------------------ MODULE ChainSourcesProofs ------------------------
(***************************************************************************)
(* What the emitter promises, for every block tree, every node and every   *)
(* sequence of sources that work on the wallet before it: its checkpoints  *)
(* stay on one branch, and its view of the mempool is the node's.          *)
(***************************************************************************)
EXTENDS ChainSources, NatFacts

-----------------------------------------------------------------------------
(* The inductive invariant. *)

BestBlocks == {Best(h) : h \in 0 .. node.height}

EmitterFields ==
  {"kind", "call", "asked", "base", "start_height", "last_cp", "last_block", "snapshot", "at",
   "read", "pool", "result"}

(* The node and the history variables; the wallet's list has its first block  *)
(* and an emitter all its fields.                                             *)
TypeOK ==
  /\ node \in [branch : Branches, height : Height, mempool : SUBSET Tx, moves : Nat,
               left : SUBSET Block, returned : BOOLEAN]
  /\ node.branch[node.height] # None
  /\ calm \in [tip : BOOLEAN, branch : BOOLEAN, pool : BOOLEAN]
  /\ chain[0] # None
  /\ "kind" \in DOMAIN job
  /\ job.kind = "emitter" => DOMAIN job = EmitterFields

(* A block is on the best chain or is counted as one that left it, not both. *)
LeftIsGone == node.left \cap BestBlocks = {}

(* An unconfirmed transaction the wallet counts is one the emitter watches,   *)
(* and what a mempool call has read is still so if nothing changed.           *)
MempoolTracked ==
  job.kind = "emitter" =>
    /\ \A t \in graph.live \cap graph.txs : t \in job.snapshot \/ \E a \in graph.anchors : a[1] = t
    /\ calm.pool =>
         /\ job.call \in {"rehash", "recount", "txs"} => job.pool = node.mempool
         /\ job.call \in {"hash", "pool", "rehash", "recount", "txs"} => job.at = node.height
    /\ job.result = "mempool" => job.call = "idle"

(* What was read of a block when it was on the best chain. *)
WasRead(res) ==
  /\ res.height \in Height /\ res.hash # None
  /\ res.hash \in BestBlocks \cup node.left
  /\ \E b \in Branches : b[res.height] = res.hash
  /\ res.next # None =>
       /\ res.height + 1 \in Height
       /\ \E b \in Branches : b[res.height] = res.hash /\ b[res.height + 1] = res.next

(* The block at height h lies above res on a branch. *)
Above(res, hash, h) ==
  /\ hash # None /\ h \in Height /\ h > res.height
  /\ \E b \in Branches : b[res.height] = res.hash /\ b[h] = hash

(* The last block is the end of the emitter's checkpoints and was on the best *)
(* chain; what is to follow lies above it on a branch.  Between the hash at   *)
(* the start height and the second look at the last block, that one may have  *)
(* left the best chain.                                                       *)
OnOneBranch ==
  /\ OneBranch(job.last_cp) /\ job.last_cp[0] # None
  /\ job.start_height \in Nat
  /\ job.last_block # None =>
       /\ WasRead(job.last_block)
       /\ DOMAIN job.last_cp = Height
       /\ job.last_cp[job.last_block.height] = job.last_block.hash
       /\ \A h \in Height : h > job.last_block.height => job.last_cp[h] = None
  /\ job.call = "walk" => job.at \in Height
  /\ job.call \in {"recheck", "info", "block"} => job.last_block # None
  /\ job.call = "recheck" =>
       \/ job.last_block.hash \in node.left
       \/ Above(job.last_block, job.read, job.start_height)
  /\ job.call = "info" => \E h \in Height : Above(job.last_block, job.read, h)
  /\ job.call = "block" => WasRead(job.read) /\ Above(job.last_block, job.read.hash, job.read.height)

EmitterFollows ==
  (job.kind = "emitter" /\ OneBranch(job.base) /\ ~node.returned) => OnOneBranch

IInv == TypeOK /\ LeftIsGone /\ MempoolTracked /\ MempoolIsMirrored /\ EmitterFollows

-----------------------------------------------------------------------------
(* The tree and the lists. *)

(* Below a block of a branch there is a block at every height. *)
LEMMA Unbroken ==
  ASSUME NEW b \in Branches, NEW h \in Height, b[h] # None
  PROVE  \A i \in 0 .. h : i \in Height /\ b[i] # None /\ b[i] \in Block
<1> DEFINE T == {k \in 0 .. h : b[h - k] # None}
<1>1. h \in Nat /\ \A i \in 0 .. h : i \in Height BY HeightAssumption DEF Height
<1>2. 0 \in T BY <1>1
<1>3. ASSUME NEW k \in 1 .. h, k - 1 \in T PROVE k \in T
  <2>1. h - (k - 1) \in Height /\ h - (k - 1) > 0 /\ (h - (k - 1)) - 1 = h - k BY <1>1, <1>3 DEF T
  <2>2. b[h - (k - 1)] # None BY <1>3 DEF T
  <2>3. b[(h - (k - 1)) - 1] # None BY <2>1, <2>2, BranchAssumption
  <2> QED BY <1>1, <2>1, <2>3
<1> HIDE DEF T
<1>4. \A k \in 0 .. h : k \in T BY <1>1, <1>2, <1>3, InductionUpTo
<1>5. ASSUME NEW i \in 0 .. h PROVE b[i] # None
  <2>1. h - i \in 0 .. h /\ h - (h - i) = i BY <1>1
  <2> QED BY <1>4, <2>1 DEF T
<1>6. \A i \in Height : b[i] \in Block \cup {None} BY BranchAssumption
<1> QED BY <1>1, <1>5, <1>6

(* The height of a block is the one at which a branch has it. *)
LEMMA HeightOfBlock ==
  ASSUME NEW b \in Branches, NEW h \in Height, b[h] # None
  PROVE  HeightOf(b[h]) = h
<1>1. \A i \in Height : (\E c \in Branches : c[i] = b[h]) => i = h BY OneHeightAssumption
<1>2. HeightOf(b[h]) \in Height /\ \E c \in Branches : c[HeightOf(b[h])] = b[h] BY Zenon DEF HeightOf
<1> QED BY <1>1, <1>2

LEMMA OneHeight ==
  ASSUME NEW b \in Branches, NEW c \in Branches, NEW h \in Height, NEW i \in Height,
         b[h] = c[i], b[h] # None
  PROVE  h = i
BY OneHeightAssumption

(* Two branches with one block in common are the same below it. *)
LEMMA SameBelow ==
  ASSUME NEW b \in Branches, NEW c \in Branches, NEW h \in Height, b[h] = c[h], b[h] # None
  PROVE  \A i \in Height : i <= h => b[i] = c[i]
BY BranchAssumption

(* The best chain is a branch up to the node's height. *)
LEMMA BestFacts ==
  ASSUME TypeOK
  PROVE  /\ node.branch \in Branches /\ node.height \in Height /\ node.height \in Nat
         /\ \A h \in 0 .. node.height : h \in Height /\ Best(h) = node.branch[h] /\ Best(h) # None /\ Best(h) \in Block
         /\ \A h \in Height : Best(h) # None => h \in 0 .. node.height
         /\ \A b : OnBest(b) => b # None /\ \E h \in 0 .. node.height : Best(h) = b
<1>1. node.branch \in Branches /\ node.height \in Height /\ node.branch[node.height] # None BY DEF TypeOK
<1>2. \A h \in 0 .. node.height : h \in Height /\ node.branch[h] # None /\ node.branch[h] \in Block BY <1>1, Unbroken
<1>3. node.height \in Nat /\ Height \subseteq Nat BY <1>1, HeightAssumption DEF Height
<1>4. \A h \in 0 .. node.height : h <= node.height BY <1>3
<1>5. \A h \in 0 .. node.height : Best(h) = node.branch[h] BY <1>4 DEF Best
<1>6. \A h \in Height : Best(h) # None => h <= node.height BY DEF Best
<1>7. \A h \in Height : Best(h) # None => h \in 0 .. node.height BY <1>3, <1>6
<1>8. ASSUME NEW b, OnBest(b) PROVE b # None /\ \E h \in 0 .. node.height : Best(h) = b BY <1>7, <1>8 DEF OnBest
<1> QED BY <1>1, <1>2, <1>3, <1>5, <1>7, <1>8

(* A list with a first node has a last one, and one below every height. *)
LEMMA Highest ==
  ASSUME NEW n \in Nat, NEW S, S \subseteq 0 .. n, S # {}
  PROVE  Max(S) \in S /\ \A i \in S : i <= Max(S)
<1>1. PICK m \in S : \A k \in S : k <= m BY GreatestNatural
<1>2. \A k \in S : m >= k BY <1>1
<1>3. Max(S) \in S /\ \A k \in S : Max(S) >= k BY <1>2, Zenon DEF Max
<1> QED BY <1>3

LEMMA TipInHeight ==
  ASSUME NEW c, c[0] # None
  PROVE  TipHeight(c) \in Height /\ c[TipHeight(c)] # None
<1> DEFINE S == {h \in Height : c[h] # None}
<1>1. MaxHeight \in Nat /\ S \subseteq 0 .. MaxHeight /\ 0 \in S BY HeightAssumption DEF Height
<1> HIDE DEF S
<1>2. Max(S) \in S BY <1>1, Highest
<1> QED BY <1>2 DEF TipHeight, S

LEMMA NodeBelowInHeight ==
  ASSUME NEW c, c[0] # None, NEW h \in Height, h > 0
  PROVE  NodeBelow(c, h - 1) \in Height
<1> DEFINE S == {i \in 0 .. h - 1 : c[i] # None}
<1>1. h - 1 \in Nat /\ S \subseteq 0 .. h - 1 /\ 0 \in S /\ 0 .. h - 1 \subseteq Height BY HeightAssumption DEF Height
<1> HIDE DEF S
<1>2. Max(S) \in S BY <1>1, Highest
<1> QED BY <1>1, <1>2 DEF NodeBelow, S

(* What is read of a block on the best chain. *)
LEMMA ReadsBlock ==
  ASSUME TypeOK, NEW b \in Branches, NEW h \in Height, NEW x, x = b[h], OnBest(x)
  PROVE  BlockInfo(x).height = h /\ BlockInfo(x).hash = x /\ WasRead(BlockInfo(x))
<1> DEFINE next == IF OnBest(x) /\ HeightOf(x) < node.height THEN Best(HeightOf(x) + 1) ELSE None
<1>1. BlockInfo(x).height = HeightOf(x) /\ BlockInfo(x).hash = x /\ BlockInfo(x).next = next BY DEF BlockInfo
<1>2. PICK i \in 0 .. node.height : Best(i) = x /\ x # None BY BestFacts
<1>3. HeightOf(x) = h BY <1>2, HeightOfBlock
<1>4. i \in Height /\ node.branch \in Branches /\ node.branch[i] = x BY <1>2, BestFacts
<1>5. h = i
  <2>1. b[h] = node.branch[i] /\ b[h] # None BY <1>2, <1>4
  <2> QED BY <1>4, <2>1, OneHeight
<1>6. x \in BestBlocks BY <1>2 DEF BestBlocks
<1>7. next # None => h + 1 \in 0 .. node.height /\ next = Best(h + 1) BY <1>2, <1>3, <1>5, BestFacts
<1> HIDE DEF next
<1>8. next # None => h + 1 \in Height /\ node.branch[h + 1] = next BY <1>7, BestFacts
<1> QED BY <1>1, <1>2, <1>3, <1>4, <1>5, <1>6, <1>8 DEF WasRead

-----------------------------------------------------------------------------
(* The other sources leave no emitter behind and keep the wallet's first      *)
(* block.                                                                     *)

(* What apply_update leaves: the first block stays. *)
LEMMA MergeKeepsGenesis ==
  ASSUME NEW o, NEW u, o[0] # None, ~CannotConnect(o, u)
  PROVE  MergedChain(o, u, SharedHeight(o, u))[0] # None
<1> DEFINE s == SharedHeight(o, u)
<1>1. 0 \in Height /\ \A h \in Height : ~(h < 0) /\ 0 <= h BY HeightAssumption DEF Height
<1>2. CASE TakesUpdateTip(o, u, s)
  <2> DEFINE S == {h \in Height : SharesNodes(o, u, h)}
  <2>1. S # {} /\ s = Max(S) BY <1>2 DEF TakesUpdateTip, SharedHeight
  <2>2. MaxHeight \in Nat /\ S \subseteq 0 .. MaxHeight BY HeightAssumption DEF Height
  <2> HIDE DEF S
  <2>3. s \in S BY <2>1, <2>2, Highest
  <2>4. u[0] = o[0] BY <1>1, <2>3 DEF S, SharesNodes
  <2> QED BY <1>2, <2>4 DEF MergedChain
<1>3. CASE ~TakesUpdateTip(o, u, s)
  <2>1. ~Conflicts(o, u, 0) BY DEF CannotConnect, ReplacesGenesis
  <2>2. MergeChangeset(o, u)[0] = Keep BY <1>1, <2>1 DEF MergeChangeset, Introduces, Purges
  <2>3. ApplyChangeset(o, MergeChangeset(o, u))[0] = o[0] BY <1>1, <2>2 DEF ApplyChangeset
  <2> QED BY <1>3, <2>3 DEF MergedChain
<1> QED BY <1>2, <1>3

LEMMA DeliverFacts ==
  ASSUME chain[0] # None, NEW cp, NEW u, NEW next, Deliver(cp, u, next)
  PROVE  /\ chain'[0] # None
         /\ \/ DOMAIN job' = {"kind", "src", "cp"} /\ job'.kind = "refused"
            \/ job' = next /\ graph' = ApplyTxs(graph, u)
<1>1. PICK refused \in {CannotConnect(chain, cp)} :
        /\ job' = IF refused THEN [kind |-> "refused", src |-> job.kind, cp |-> cp] ELSE next
        /\ chain' = IF refused THEN chain ELSE MergedChain(chain, cp, SharedHeight(chain, cp))
        /\ graph' = IF refused THEN graph ELSE ApplyTxs(graph, u)
  BY Zenon DEF Deliver
<1>2. CASE refused
  <2>1. job' = [kind |-> "refused", src |-> job.kind, cp |-> cp] /\ chain' = chain BY <1>1, <1>2
  <2> QED BY <2>1
<1>3. CASE ~refused
  <2>1. ~CannotConnect(chain, cp) BY <1>1, <1>3
  <2>2. job' = next /\ graph' = ApplyTxs(graph, u) /\ chain' = MergedChain(chain, cp, SharedHeight(chain, cp)) BY <1>1, <1>3
  <2> QED BY <2>1, <2>2, MergeKeepsGenesis
<1> QED BY <1>2, <1>3

(* A step of another source. *)
Elsewhere == "kind" \in DOMAIN job' /\ job'.kind # "emitter"

(* The fields a record keeps when others are changed. *)
LEMMA TakeKeepsKind ==
  ASSUME NEW j, "kind" \in DOMAIN j, NEW e
  PROVE  /\ "kind" \in DOMAIN TakeStatus(j, e) /\ TakeStatus(j, e).kind = j.kind
         /\ "kind" \in DOMAIN Take(j, e) /\ Take(j, e).kind = j.kind
<1>1. "kind" \in DOMAIN TakeStatus(j, e) /\ TakeStatus(j, e).kind = j.kind BY Zenon DEF TakeStatus
<1>2. "kind" \in DOMAIN Take(j, e) /\ Take(j, e).kind = TakeStatus(j, e).kind BY <1>1, Zenon DEF Take
<1> QED BY <1>1, <1>2

LEMMA AskKeepsKind ==
  ASSUME NEW j, "kind" \in DOMAIN j, NEW pc, NEW items
  PROVE  "kind" \in DOMAIN Ask(j, pc, items) /\ Ask(j, pc, items).kind = j.kind
BY Zenon DEF Ask

LEMMA ScanKeepsKind ==
  ASSUME NEW j, "kind" \in DOMAIN j
  PROVE  "kind" \in DOMAIN ScanBatch(j) /\ ScanBatch(j).kind = j.kind
BY Zenon DEF ScanBatch

(* The requests of Esplora and Electrum. *)
LEMMA SpkElsewhere ==
  ASSUME TypeOK, SpkStep \/ RequestFails
  PROVE  Elsewhere /\ chain'[0] # None /\ UNCHANGED <<node, calm>>
<1>1. "kind" \in DOMAIN job /\ chain[0] # None BY DEF TypeOK
<1> DEFINE Same(j) == "kind" \in DOMAIN j /\ j.kind \in {"esplora", "electrum"}
           Quiet == chain' = chain /\ UNCHANGED <<node, calm>>
<1>2. \A j, e : Same(j) => Same(TakeStatus(j, e)) /\ Same(Take(j, e)) BY TakeKeepsKind
<1>3. \A j, pc, items : Same(j) => Same(Ask(j, pc, items)) BY AskKeepsKind
<1>4. \A j, first : Same(j) => Same(AskSpks(j, first)) BY <1>3 DEF AskSpks
<1>5. \A j : Same(j) => Same(ScanBatch(j)) BY ScanKeepsKind
<1>6. \A j : Same(j) => Same(AskHeaders(j)) BY <1>3 DEF AskHeaders
<1>7. \A j : Same(j) => "kind" \in DOMAIN j /\ j.kind # "emitter" OBVIOUS
<1>8. job.kind \in {"esplora", "electrum"} => Same(job) BY <1>1
<1>9. \A j, v : Same(j) => Same([j EXCEPT !.pc = v]) /\ Same([j EXCEPT !.latest = v]) /\ Same([j EXCEPT !.cp = v]) BY Zenon
<1>10. DOMAIN [kind |-> "none"] = {"kind"} /\ [kind |-> "none"].kind = "none" OBVIOUS
<1>11. ASSUME NEW start PROVE "kind" \in DOMAIN Done(start) /\ Done(start).kind = "done" BY DEF Done
<1> HIDE DEF Same
<1>12. CASE ReadAnswer
  <2>1. PICK i, answer :
          job' = [job EXCEPT !.todo = @ \ {i}, !.got = (i :> answer) @@ @,
                             !.lost = @ \/ (job.pc = "fetchouts" /\ answer = {} /\ Fetchable(i))]
    BY <1>12, Zenon DEF ReadAnswer
  <2>2. Quiet /\ job.kind \in {"esplora", "electrum"} BY <1>12 DEF ReadAnswer, NodeStays
  <2>3. "kind" \in DOMAIN job' /\ job'.kind = job.kind BY <1>1, <2>1, Zenon
  <2> QED BY <1>1, <2>2, <2>3 DEF Elsewhere
<1>13. CASE FetchLatestBlocks
  <2>1. Same(job') BY <1>4, <1>8, <1>9, <1>13 DEF FetchLatestBlocks
  <2> QED BY <1>1, <1>7, <1>13, <2>1 DEF FetchLatestBlocks, NodeStays, Elsewhere
<1>14. CASE EsploraScan
  <2>1. Same(ScanBatch(job)) BY <1>5, <1>8, <1>14 DEF EsploraScan
  <2>2. Same([ScanBatch(job) EXCEPT !.pc = "walk"]) BY <1>9, <2>1
  <2>3. \/ job' = [ScanBatch(job) EXCEPT !.pc = "walk"]
        \/ \E items : job' = Ask(ScanBatch(job), "txids", items)
        \/ \E first : job' = AskSpks(ScanBatch(job), first)
    BY <1>14, Zenon DEF EsploraScan
  <2>4. Same(job') BY <1>3, <1>4, <2>1, <2>2, <2>3
  <2> QED BY <1>1, <1>7, <1>14, <2>4 DEF EsploraScan, NodeStays, Elsewhere
<1>15. CASE EsploraTxids
  <2>1. Same(Take(job, Answers)) BY <1>2, <1>8, <1>15 DEF EsploraTxids
  <2>2. Same(job') BY <1>3, <1>15, <2>1 DEF EsploraTxids
  <2> QED BY <1>1, <1>7, <1>15, <2>2 DEF EsploraTxids, NodeStays, Elsewhere
<1>16. CASE EsploraOutpoints
  <2>1. Same(Take(job, Answers)) /\ Same(TakeStatus(job, Answers)) BY <1>2, <1>8, <1>16 DEF EsploraOutpoints
  <2>2. Same([Take(job, Answers) EXCEPT !.pc = "walk"]) BY <1>9, <2>1
  <2>3. \/ job' = [Take(job, Answers) EXCEPT !.pc = "walk"]
        \/ \E pc, items : job' = Ask(Take(job, Answers), pc, items) \/ job' = Ask(TakeStatus(job, Answers), pc, items)
    BY <1>16, Zenon DEF EsploraOutpoints
  <2>4. Same(job') BY <1>3, <2>1, <2>2, <2>3
  <2> QED BY <1>1, <1>7, <1>16, <2>4 DEF EsploraOutpoints, NodeStays, Elsewhere
<1>17. CASE WalkCheckpoints
  <2>1. job.kind = "esplora" /\ Quiet BY <1>17 DEF WalkCheckpoints, NodeStays
  <2>2. job' = [kind |-> "none"] \/ ("kind" \in DOMAIN job' /\ job'.kind = job.kind) BY <1>1, <1>17, Zenon DEF WalkCheckpoints
  <2> QED BY <1>1, <1>10, <2>1, <2>2 DEF Elsewhere
<1>18. CASE InsertAnchorHeight
  <2>1. job.kind = "esplora" /\ Quiet BY <1>18 DEF InsertAnchorHeight, NodeStays
  <2>2. "kind" \in DOMAIN job' /\ job'.kind = job.kind BY <1>1, <1>18, Zenon DEF InsertAnchorHeight
  <2> QED BY <1>1, <2>1, <2>2 DEF Elsewhere
<1>19. CASE EsploraResponse
  <2>1. Deliver(InsertAll(job.cp, job.latest), job.upd, Done(chain)) /\ UNCHANGED <<node, calm>>
    BY <1>19 DEF EsploraResponse, NodeStays
  <2>2. chain'[0] # None /\ (("kind" \in DOMAIN job' /\ job'.kind = "refused") \/ job' = Done(chain)) BY <1>1, <2>1, DeliverFacts
  <2> QED BY <1>11, <2>1, <2>2 DEF Elsewhere
<1>20. CASE SubscribeHeaders
  <2>1. job.kind = "electrum" /\ Quiet BY <1>20 DEF SubscribeHeaders, NodeStays
  <2>2. Same(AskSpks([job EXCEPT !.cp = chain], 0)) BY <1>4, <1>8, <1>9, <2>1
  <2>3. "kind" \in DOMAIN [job EXCEPT !.pc = "suffix", !.top = node.height]
        /\ [job EXCEPT !.pc = "suffix", !.top = node.height].kind = job.kind BY <1>1, Zenon
  <2>4. Elsewhere BY <1>7, <1>20, <2>1, <2>2, <2>3 DEF SubscribeHeaders, Elsewhere
  <2> QED BY <1>1, <2>1, <2>4
<1>21. CASE FetchSuffix
  <2>1. job.kind = "electrum" /\ Quiet BY <1>21 DEF FetchSuffix, NodeStays
  <2>2. "kind" \in DOMAIN job' /\ job'.kind = job.kind BY <1>1, <1>21, Zenon DEF FetchSuffix
  <2> QED BY <1>1, <2>1, <2>2 DEF Elsewhere
<1>22. CASE AgreeWithServer
  <2>1. job.kind = "electrum" /\ Quiet BY <1>22 DEF AgreeWithServer, NodeStays
  <2>2. PICK latest :
          job' = IF latest[job.at] = chain[job.at]
                 THEN AskSpks([job EXCEPT !.latest = latest,
                                          !.cp = [h \in Height |-> IF h <= job.at THEN chain[h] ELSE latest[h]]], 0)
                 ELSE IF job.at = 0 THEN [kind |-> "none"]
                 ELSE [job EXCEPT !.latest = latest, !.at = NodeBelow(chain, job.at - 1)]
    BY <1>22, Zenon DEF AgreeWithServer
  <2>3. \A cp : Same([job EXCEPT !.latest = latest, !.cp = cp]) BY <1>8, <1>1, <2>1, Zenon DEF Same
  <2>4. Same([job EXCEPT !.latest = latest, !.at = NodeBelow(chain, job.at - 1)]) BY <1>8, <1>1, <2>1, Zenon DEF Same
  <2>5. Same(job') \/ job' = [kind |-> "none"] BY <1>4, <2>2, <2>3, <2>4, Zenon
  <2> QED BY <1>1, <1>7, <1>10, <2>1, <2>5 DEF Elsewhere
<1>23. CASE ElectrumScan
  <2>1. Same(ScanBatch(job)) BY <1>5, <1>8, <1>23 DEF ElectrumScan
  <2>2. Same(job') BY <1>3, <1>4, <1>6, <1>23, <2>1 DEF ElectrumScan
  <2> QED BY <1>1, <1>7, <1>23, <2>2 DEF ElectrumScan, NodeStays, Elsewhere
<1>24. CASE ElectrumTxids
  <2>1. job.kind = "electrum" /\ Quiet BY <1>24 DEF ElectrumTxids, NodeStays
  <2>2. Same(Take(job, Answers)) BY <1>2, <1>8, <2>1
  <2>3. Same([job EXCEPT !.upd.txs = @ \cup Answers]) BY <1>1, <1>8, <2>1, Zenon DEF Same
  <2>4. Same(job') BY <1>3, <1>24, <2>2, <2>3, Zenon DEF ElectrumTxids
  <2> QED BY <1>1, <1>7, <2>1, <2>4 DEF Elsewhere
<1>25. CASE ElectrumOutpoints
  <2>1. Same(Take(job, Answers)) /\ Same(job) BY <1>2, <1>8, <1>25 DEF ElectrumOutpoints
  <2>2. Same(job') BY <1>3, <1>6, <1>25, <2>1 DEF ElectrumOutpoints
  <2> QED BY <1>1, <1>7, <1>25, <2>2 DEF ElectrumOutpoints, NodeStays, Elsewhere
<1>26. CASE CheckAnchorCache
  <2>1. job.kind = "electrum" /\ Quiet BY <1>26 DEF CheckAnchorCache, NodeStays
  <2>2. \A f : Same([job EXCEPT !.upd.anchors = @ \cup f]) BY <1>1, <1>8, <2>1, Zenon DEF Same
  <2>3. Same(job') BY <1>3, <1>26, <2>2, Zenon DEF CheckAnchorCache
  <2> QED BY <1>1, <1>7, <2>1, <2>3 DEF Elsewhere
<1>27. CASE ValidateProof
  <2>1. job.kind = "electrum" /\ Quiet BY <1>27 DEF ValidateProof, NodeStays
  <2>2. "kind" \in DOMAIN job' /\ job'.kind = job.kind BY <1>1, <1>27, Zenon DEF ValidateProof
  <2> QED BY <1>1, <2>1, <2>2 DEF Elsewhere
<1>28. CASE ElectrumResponse
  <2>1. PICK cp : Deliver(cp, job.upd, Done(chain)) BY <1>28, Zenon DEF ElectrumResponse
  <2>2. UNCHANGED <<node, calm>> BY <1>28 DEF ElectrumResponse, NodeStays
  <2>3. chain'[0] # None /\ (("kind" \in DOMAIN job' /\ job'.kind = "refused") \/ job' = Done(chain)) BY <1>1, <2>1, DeliverFacts
  <2> QED BY <1>11, <2>2, <2>3 DEF Elsewhere
<1>29. CASE RequestFails BY <1>1, <1>10, <1>29 DEF RequestFails, NodeStays, Elsewhere
<1> QED BY <1>12, <1>13, <1>14, <1>15, <1>16, <1>17, <1>18, <1>19, <1>20, <1>21, <1>22, <1>23, <1>24,
           <1>25, <1>26, <1>27, <1>28, <1>29 DEF SpkStep

(* The steps of the filter scan. *)
LEMMA FilterElsewhere ==
  ASSUME TypeOK, CallNext \/ FindBase \/ GetHeader \/ YieldEvent \/ FilterError
  PROVE  Elsewhere /\ chain'[0] # None /\ node' = node /\ calm' \in {calm, Calm}
<1>1. "kind" \in DOMAIN job /\ chain[0] # None BY DEF TypeOK
<1> DEFINE Same(j) == "kind" \in DOMAIN j /\ j.kind = "filter"
           Quiet == chain' = chain /\ node' = node /\ calm' \in {calm, Calm}
<1>2. job.kind = "filter"
  BY DEF CallNext, FindBase, GetHeader, YieldEvent, FilterError, FilterDoes
<1>3. Same(job) BY <1>1, <1>2
<1>4. \A j, r : Same(j) => Same(Yield(j, r)) BY Zenon DEF Yield
<1>5. \A j, v : Same(j) => Same([j EXCEPT !.header = v]) /\ Same([j EXCEPT !.result = v]) BY Zenon
<1>6. \A j, a, b, c, d : Same(j) => Same([j EXCEPT !.call = a, !.header = b, !.at = c, !.read = d]) BY Zenon
<1>7. ASSUME NEW j, NEW hd, Same(j) PROVE Same(Follow(j, hd))
  <2> DEFINE k == [j EXCEPT !.call = "header", !.header = None, !.at = None, !.read = hd.next]
  <2>1. Same(Yield([j EXCEPT !.header = None], "end")) BY <1>4, <1>5, <1>7
  <2>2. Same(k) BY <1>6, <1>7
  <2>3. Follow(j, hd) = IF hd.next = None THEN Yield([j EXCEPT !.header = None], "end") ELSE k BY Zenon DEF Follow
  <2> HIDE DEF k, Same
  <2> QED BY <2>1, <2>2, <2>3, Zenon
<1>8. \A a, b, c : Same([job EXCEPT !.call = a, !.at = b, !.result = c]) /\ Same([job EXCEPT !.call = a, !.read = b])
                   /\ Same([job EXCEPT !.at = a]) /\ Same([job EXCEPT !.read = a])
                   /\ Same([job EXCEPT !.cp = a, !.header = b]) BY <1>3, Zenon
<1>9. Same(job') => Elsewhere BY DEF Elsewhere
<1> HIDE DEF Same
<1>10. CASE CallNext
  <2>1. Same(job') BY <1>3, <1>5, <1>7, <1>8, <1>10, Zenon DEF CallNext
  <2>2. Quiet BY <1>10 DEF CallNext, OnlyJob, NodeStays
  <2> QED BY <1>1, <1>9, <2>1, <2>2
<1>11. CASE FindBase
  <2>1. Same(job') BY <1>3, <1>4, <1>7, <1>8, <1>11, Zenon DEF FindBase
  <2>2. Quiet BY <1>11 DEF FindBase, NodeStays
  <2> QED BY <1>1, <1>9, <2>1, <2>2
<1>12. CASE GetHeader
  <2>1. PICK v : job' = [job EXCEPT !.call = "filter", !.read = v] \/ job' = [job EXCEPT !.read = v]
    BY <1>12, Zenon DEF GetHeader
  <2>2. Quiet BY <1>12 DEF GetHeader, NodeStays
  <2>3. Same([job EXCEPT !.call = "filter", !.read = v]) /\ Same([job EXCEPT !.read = v]) BY <1>8
  <2>4. Same(job') BY <2>1, <2>3, Zenon
  <2> QED BY <1>1, <1>9, <2>2, <2>4
<1>13. CASE YieldEvent
  <2>1. PICK cp, u : Deliver(cp, u, Yield([job EXCEPT !.cp = cp, !.header = job.read], "event"))
    BY <1>13, Zenon DEF YieldEvent
  <2>2. Same(Yield([job EXCEPT !.cp = cp, !.header = job.read], "event")) BY <1>4, <1>8
  <2>3. chain'[0] # None /\ (("kind" \in DOMAIN job' /\ job'.kind = "refused")
                             \/ job' = Yield([job EXCEPT !.cp = cp, !.header = job.read], "event"))
    BY <1>1, <2>1, DeliverFacts
  <2>4. node' = node /\ calm' = calm BY <1>13 DEF YieldEvent, NodeStays
  <2> QED BY <1>9, <2>2, <2>3, <2>4 DEF Elsewhere
<1>14. CASE FilterError
  <2>1. Same(job') BY <1>3, <1>4, <1>14 DEF FilterError
  <2>2. Quiet BY <1>14 DEF FilterError, OnlyJob, NodeStays
  <2> QED BY <1>1, <1>9, <2>1, <2>2
<1> QED BY <1>10, <1>11, <1>12, <1>13, <1>14

(* Beginnings and ends. *)
LEMMA OthersElsewhere ==
  ASSUME TypeOK, StartEsplora \/ StartElectrum \/ NewFilterIter \/ StopEmitter \/ StopFilter
  PROVE  Elsewhere /\ chain'[0] # None /\ node' = node /\ calm' \in {calm, Calm}
<1>1. chain[0] # None BY DEF TypeOK
<1>2. \A src, full : "kind" \in DOMAIN Request(src, full) /\ Request(src, full).kind = src BY DEF Request
<1>3. CASE StartEsplora BY <1>1, <1>2, <1>3 DEF StartEsplora, Begins, Elsewhere
<1>4. CASE StartElectrum BY <1>1, <1>2, <1>4 DEF StartElectrum, Begins, Elsewhere
<1>5. CASE NewFilterIter BY <1>1, <1>5 DEF NewFilterIter, Begins, Elsewhere
<1>6. CASE StopEmitter BY <1>1, <1>6 DEF StopEmitter, OnlyJob, NodeStays, Elsewhere
<1>7. CASE StopFilter BY <1>1, <1>7 DEF StopFilter, OnlyJob, NodeStays, Elsewhere
<1> QED BY <1>3, <1>4, <1>5, <1>6, <1>7

(* So a step of another source keeps the invariant. *)
LEMMA ElsewhereIInv ==
  ASSUME IInv, Elsewhere, chain'[0] # None, node' = node, calm' \in {calm, Calm}
  PROVE  IInv'
<1>1. Calm \in [tip : BOOLEAN, branch : BOOLEAN, pool : BOOLEAN] BY DEF Calm
<1>2. TypeOK' BY <1>1 DEF IInv, TypeOK, Elsewhere
<1>3. LeftIsGone' BY DEF IInv, LeftIsGone, BestBlocks, Best
<1> QED BY <1>2, <1>3 DEF IInv, Elsewhere, MempoolTracked, MempoolIsMirrored, EmitterFollows

-----------------------------------------------------------------------------
(* The node. *)

(* What the emitter knows stays true while no block comes back: a block that  *)
(* was on the best chain is there still or has left it.                       *)
LEMMA FollowsStays ==
  ASSUME OnOneBranch, job' = job, node.left \subseteq node'.left,
         BestBlocks \subseteq BestBlocks' \cup node'.left
  PROVE  OnOneBranch'
<1>1. \A res : WasRead(res) => WasRead(res)' BY DEF WasRead
<1>2. \A res, hash, h : Above(res, hash, h) => Above(res, hash, h)' BY DEF Above
<1> QED BY <1>1, <1>2 DEF OnOneBranch

LEMMA MoveTipFacts ==
  ASSUME TypeOK, MoveTip
  PROVE  /\ TypeOK' /\ UNCHANGED <<chain, graph, job>> /\ ~calm'.pool
         /\ node'.left = (node.left \cup BestBlocks) \ BestBlocks'
         /\ node'.returned = (node.returned \/ node.left \cap BestBlocks' # {})
<1>1. PICK branch \in Branches, height \in Height :
        /\ height > node.height /\ branch[height] # None
        /\ node' = [branch |-> branch, height |-> height, moves |-> node.moves + 1,
                    mempool |-> (node.mempool \cup UNION {TxsIn[Best(h)] : h \in 0 .. node.height})
                                  \ UNION {TxsIn[branch[h]] : h \in 0 .. height},
                    left |-> (node.left \cup BestBlocks) \ {branch[h] : h \in 0 .. height},
                    returned |-> node.returned \/ node.left \cap {branch[h] : h \in 0 .. height} # {}]
        /\ calm' = [calm EXCEPT !.tip = FALSE, !.pool = FALSE, !.branch = @ /\ branch[node.height] = Best(node.height)]
  BY Zenon DEF MoveTip, BestBlocks
<1> DEFINE old == UNION {TxsIn[Best(h)] : h \in 0 .. node.height}
           new == UNION {TxsIn[branch[h]] : h \in 0 .. height}
           best == {branch[h] : h \in 0 .. height}
<1>2. old \subseteq Tx BY BestFacts, NodeAssumption
<1>3. BestBlocks \subseteq Block BY BestFacts DEF BestBlocks
<1>4. node'.branch = branch /\ node'.height = height /\ node'.moves = node.moves + 1
      /\ node'.mempool = (node.mempool \cup old) \ new /\ node'.left = (node.left \cup BestBlocks) \ best
      /\ node'.returned = (node.returned \/ node.left \cap best # {})
  BY <1>1, Zenon
<1>5. BestBlocks' = best
  <2>1. height \in Nat /\ \A h \in 0 .. height : h <= height BY HeightAssumption DEF Height
  <2>2. \A h \in 0 .. height : (Best(h))' = branch[h] BY <1>4, <2>1 DEF Best
  <2> QED BY <1>4, <2>2 DEF BestBlocks
<1>6. node.moves \in Nat /\ node.mempool \subseteq Tx /\ node.left \subseteq Block /\ node.returned \in BOOLEAN BY DEF TypeOK
<1>7. node' \in [branch : Branches, height : Height, mempool : SUBSET Tx, moves : Nat, left : SUBSET Block, returned : BOOLEAN]
  <2> DEFINE M == (node.mempool \cup old) \ new
             L == (node.left \cup BestBlocks) \ best
             R == node.returned \/ node.left \cap best # {}
  <2>1. M \in SUBSET Tx /\ L \in SUBSET Block /\ R \in BOOLEAN /\ node.moves + 1 \in Nat BY <1>2, <1>3, <1>6
  <2>2. node' = [branch |-> branch, height |-> height, moves |-> node.moves + 1, mempool |-> M, left |-> L, returned |-> R]
    BY <1>1, Zenon
  <2> HIDE DEF M, L, R
  <2> QED BY <2>1, <2>2
<1>8. calm' \in [tip : BOOLEAN, branch : BOOLEAN, pool : BOOLEAN] /\ ~calm'.pool BY <1>1 DEF TypeOK
<1>9. UNCHANGED <<chain, graph, job>> BY DEF MoveTip
<1>10. TypeOK' BY <1>1, <1>4, <1>7, <1>8, <1>9 DEF TypeOK
<1> QED BY <1>4, <1>5, <1>8, <1>9, <1>10

LEMMA MoveTipIInv ==
  ASSUME IInv, MoveTip
  PROVE  IInv'
<1>1. /\ TypeOK' /\ UNCHANGED <<chain, graph, job>> /\ ~calm'.pool
      /\ node'.left = (node.left \cup BestBlocks) \ BestBlocks'
      /\ node'.returned = (node.returned \/ node.left \cap BestBlocks' # {})
  BY MoveTipFacts DEF IInv
<1>2. LeftIsGone' BY <1>1 DEF LeftIsGone
<1>3. MempoolTracked' /\ MempoolIsMirrored' BY <1>1 DEF IInv, MempoolTracked, MempoolIsMirrored
<1>4. EmitterFollows'
  <2>1. SUFFICES ASSUME job.kind = "emitter", OneBranch(job.base), ~node'.returned PROVE OnOneBranch'
    BY <1>1 DEF EmitterFollows, OneBranch, OnBranch
  <2>2. ~node.returned /\ node.left \cap BestBlocks' = {} BY <1>1, <2>1
  <2>3. OnOneBranch BY <2>1, <2>2 DEF IInv, EmitterFollows
  <2>4. node.left \subseteq node'.left /\ BestBlocks \subseteq BestBlocks' \cup node'.left BY <1>1, <2>2
  <2> QED BY <1>1, <2>3, <2>4, FollowsStays
<1> QED BY <1>1, <1>2, <1>3, <1>4 DEF IInv

LEMMA ChangeMempoolIInv ==
  ASSUME IInv, ChangeMempool
  PROVE  IInv'
<1>1. PICK t \in Tx :
        node' = [node EXCEPT !.moves = @ + 1, !.mempool = IF t \in @ THEN @ \ {t} ELSE @ \cup {t}]
  BY Zenon DEF ChangeMempool
<1>2. calm' = [calm EXCEPT !.pool = FALSE] /\ UNCHANGED <<chain, graph, job>> BY DEF ChangeMempool
<1>3. /\ node' \in [branch : Branches, height : Height, mempool : SUBSET Tx, moves : Nat, left : SUBSET Block, returned : BOOLEAN]
      /\ node'.branch = node.branch /\ node'.height = node.height
      /\ node'.left = node.left /\ node'.returned = node.returned
  <2> DEFINE M == IF t \in node.mempool THEN node.mempool \ {t} ELSE node.mempool \cup {t}
  <2>1. node' = [node EXCEPT !.moves = node.moves + 1, !.mempool = M] BY <1>1, Zenon
  <2>2. M \in SUBSET Tx BY DEF IInv, TypeOK
  <2> HIDE DEF M
  <2>3. node \in [branch : Branches, height : Height, mempool : SUBSET Tx, moves : Nat, left : SUBSET Block, returned : BOOLEAN]
    BY DEF IInv, TypeOK
  <2>4. node.moves + 1 \in Nat BY <2>3
  <2>5. node' \in [branch : Branches, height : Height, mempool : SUBSET Tx, moves : Nat, left : SUBSET Block, returned : BOOLEAN]
    BY <2>1, <2>2, <2>3, <2>4
  <2>6. /\ node'.branch = node.branch /\ node'.height = node.height
        /\ node'.left = node.left /\ node'.returned = node.returned
    BY <2>1, <2>3
  <2> QED BY <2>5, <2>6
<1>4. calm' \in [tip : BOOLEAN, branch : BOOLEAN, pool : BOOLEAN] /\ ~calm'.pool BY <1>2 DEF IInv, TypeOK
<1>5. TypeOK' BY <1>2, <1>3, <1>4 DEF IInv, TypeOK
<1>6. BestBlocks' = BestBlocks BY <1>3 DEF BestBlocks, Best
<1>7. LeftIsGone' BY <1>3, <1>6 DEF IInv, LeftIsGone
<1>8. MempoolTracked' /\ MempoolIsMirrored' BY <1>2, <1>4 DEF IInv, MempoolTracked, MempoolIsMirrored
<1>9. EmitterFollows'
  <2>1. SUFFICES ASSUME job.kind = "emitter", OneBranch(job.base), ~node'.returned PROVE OnOneBranch'
    BY <1>2 DEF EmitterFollows, OneBranch, OnBranch
  <2>2. OnOneBranch BY <1>3, <2>1 DEF IInv, EmitterFollows
  <2> QED BY <1>2, <1>3, <1>6, <2>2, FollowsStays
<1> QED BY <1>5, <1>7, <1>8, <1>9 DEF IInv

-----------------------------------------------------------------------------
(* The emitter.  A step that is not of the mempool leaves alone what is said  *)
(* of the mempool, and one of the mempool what is said of the branch.         *)

LEMMA BlockSide ==
  ASSUME IInv, job.kind = "emitter", DOMAIN job' = EmitterFields, job'.kind = "emitter",
         job.snapshot \subseteq job'.snapshot, job'.result # "mempool",
         job'.call \in {"idle", "poll", "walk", "recheck", "info", "block", "count"},
         UNCHANGED <<chain, graph, node>>, calm' \in [tip : BOOLEAN, branch : BOOLEAN, pool : BOOLEAN]
  PROVE  TypeOK' /\ LeftIsGone' /\ MempoolTracked' /\ MempoolIsMirrored'
<1>1. TypeOK' BY DEF IInv, TypeOK, EmitterFields
<1>2. LeftIsGone' BY DEF IInv, LeftIsGone, BestBlocks, Best
<1>3. MempoolTracked' BY DEF IInv, MempoolTracked
<1>4. MempoolIsMirrored' BY DEF MempoolIsMirrored
<1> QED BY <1>1, <1>2, <1>3, <1>4

LEMMA BranchSide ==
  ASSUME IInv, job.kind = "emitter", node' = node,
         job'.base = job.base, job'.start_height = job.start_height, job'.last_cp = job.last_cp,
         job'.last_block \in {job.last_block, None},
         job'.call \notin {"walk", "recheck", "info", "block"}
  PROVE  EmitterFollows'
<1>1. SUFFICES ASSUME OneBranch(job.base), ~node.returned PROVE OnOneBranch'
  BY DEF EmitterFollows, OneBranch, OnBranch
<1>2. OnOneBranch BY <1>1 DEF IInv, EmitterFollows
<1>3. BestBlocks' = BestBlocks BY DEF BestBlocks, Best
<1>4. \A res : WasRead(res) => WasRead(res)' BY <1>3 DEF WasRead
<1>5. OneBranch(job.last_cp) => OneBranch(job.last_cp)' BY DEF OneBranch, OnBranch
<1> QED BY <1>2, <1>4, <1>5 DEF OnOneBranch

(* The record that Return and Again leave. *)
LEMMA ReturnFields ==
  ASSUME NEW j, DOMAIN j = EmitterFields, NEW r
  PROVE  LET k == Return(j, r) IN
         /\ DOMAIN k = EmitterFields /\ k.kind = j.kind /\ k.call = "idle" /\ k.result = r
         /\ k.base = j.base /\ k.start_height = j.start_height /\ k.last_cp = j.last_cp
         /\ k.last_block = j.last_block /\ k.snapshot = j.snapshot
BY Zenon DEF Return, EmitterFields

LEMMA AgainFields ==
  ASSUME NEW j, DOMAIN j = EmitterFields
  PROVE  LET k == Again(j) IN
         /\ DOMAIN k = EmitterFields /\ k.kind = j.kind /\ k.call = "poll" /\ k.result = j.result
         /\ k.base = j.base /\ k.start_height = j.start_height /\ k.last_cp = j.last_cp
         /\ k.last_block = j.last_block /\ k.snapshot = j.snapshot
BY Zenon DEF Again, EmitterFields

(* Emitter::new. *)
LEMMA NewEmitterIInv ==
  ASSUME IInv, NewEmitter
  PROVE  IInv'
<1>1. PICK start \in StartHeights :
        job' = [kind |-> "emitter", call |-> "idle", asked |-> start, base |-> chain,
                start_height |-> start, last_cp |-> chain, last_block |-> None,
                snapshot |-> {t \in graph.txs : IsCanonical(t) /\ ~InChain(t)},
                at |-> None, read |-> None, pool |-> {}, result |-> "none"]
  BY Zenon DEF NewEmitter
<1>2. UNCHANGED <<node, chain, graph>> /\ calm' = Calm BY DEF NewEmitter, Begins
<1>3. /\ DOMAIN job' = EmitterFields /\ job'.kind = "emitter" /\ job'.call = "idle" /\ job'.base = chain
      /\ job'.start_height = start /\ job'.last_cp = chain /\ job'.last_block = None /\ job'.result = "none"
      /\ job'.snapshot = {t \in graph.txs : IsCanonical(t) /\ ~InChain(t)}
  BY <1>1 DEF EmitterFields
<1>4. Calm \in [tip : BOOLEAN, branch : BOOLEAN, pool : BOOLEAN] BY DEF Calm
<1>5. TypeOK' BY <1>2, <1>3, <1>4 DEF IInv, TypeOK, EmitterFields
<1>6. LeftIsGone' BY <1>2 DEF IInv, LeftIsGone, BestBlocks, Best
<1>7. \A t \in graph.live \cap graph.txs : t \in job'.snapshot \/ \E a \in graph.anchors : a[1] = t
  BY <1>3 DEF IsCanonical, InChain
<1>8. MempoolTracked' /\ MempoolIsMirrored' BY <1>2, <1>3, <1>7 DEF MempoolTracked, MempoolIsMirrored
<1>9. EmitterFollows'
  <2>1. SUFFICES ASSUME OneBranch(chain)' PROVE OnOneBranch' BY <1>2, <1>3 DEF EmitterFollows, OneBranch, OnBranch
  <2>2. chain'[0] # None BY <1>5 DEF TypeOK
  <2>3. start \in Nat BY SourcesAssumption
  <2> QED BY <1>2, <1>3, <2>1, <2>2, <2>3 DEF OnOneBranch, OneBranch, OnBranch
<1> QED BY <1>5, <1>6, <1>8, <1>9 DEF IInv

(* The caller calls, or a call fails. *)
LEMMA CallIInv ==
  ASSUME IInv, CallNextBlock \/ CallMempool \/ EmitterError
  PROVE  IInv'
<1>1. job.kind = "emitter" /\ DOMAIN job = EmitterFields BY DEF IInv, TypeOK, CallNextBlock, CallMempool, EmitterError, EmitterDoes
<1>2. UNCHANGED <<chain, graph, node>> BY DEF CallNextBlock, CallMempool, EmitterError, OnlyJob, NodeStays
<1>3. calm' \in [tip : BOOLEAN, branch : BOOLEAN, pool : BOOLEAN]
  BY DEF CallNextBlock, CallMempool, EmitterError, OnlyJob, IInv, TypeOK
<1>4. \A j, c : j = [job EXCEPT !.call = c, !.result = "none"] =>
        /\ DOMAIN j = EmitterFields /\ j.kind = "emitter" /\ j.call = c /\ j.result = "none"
        /\ j.base = job.base /\ j.start_height = job.start_height /\ j.last_cp = job.last_cp
        /\ j.last_block = job.last_block /\ j.snapshot = job.snapshot
  BY <1>1, Zenon DEF EmitterFields
<1>5. CASE CallNextBlock \/ CallMempool
  <2>1. PICK c \in {"poll", "count"} : job' = [job EXCEPT !.call = c, !.result = "none"]
    BY <1>5, Zenon DEF CallNextBlock, CallMempool
  <2>2. /\ DOMAIN job' = EmitterFields /\ job'.kind = "emitter" /\ job'.call = c /\ job'.result = "none"
        /\ job'.base = job.base /\ job'.start_height = job.start_height /\ job'.last_cp = job.last_cp
        /\ job'.last_block = job.last_block /\ job'.snapshot = job.snapshot
    BY <1>4, <2>1, Zenon
  <2>3. EmitterFollows' BY <1>1, <1>2, <2>2, BranchSide
  <2> QED BY <1>1, <1>2, <1>3, <2>2, <2>3, BlockSide DEF IInv
<1>6. CASE EmitterError
  <2>1. PICK found : job' = Return([job EXCEPT !.snapshot = @ \cup found], "error")
    BY <1>6, Zenon DEF EmitterError
  <2> DEFINE j == [job EXCEPT !.snapshot = @ \cup found]
  <2>2. /\ DOMAIN j = EmitterFields /\ j.kind = job.kind /\ j.base = job.base /\ j.start_height = job.start_height
        /\ j.last_cp = job.last_cp /\ j.last_block = job.last_block /\ j.snapshot = job.snapshot \cup found
    BY <1>1, Zenon DEF EmitterFields
  <2> HIDE DEF j
  <2>3. job' = Return(j, "error") BY <2>1 DEF j
  <2>4. /\ DOMAIN job' = EmitterFields /\ job'.kind = j.kind /\ job'.call = "idle" /\ job'.result = "error"
        /\ job'.base = j.base /\ job'.start_height = j.start_height /\ job'.last_cp = j.last_cp
        /\ job'.last_block = j.last_block /\ job'.snapshot = j.snapshot
    BY <2>2, <2>3, ReturnFields
  <2>5. EmitterFollows' BY <1>1, <1>2, <2>2, <2>4, BranchSide
  <2> QED BY <1>1, <1>2, <1>3, <2>2, <2>4, <2>5, BlockSide DEF IInv
<1> QED BY <1>5, <1>6

(* A step of next_block that leaves the emitter's checkpoints as they are. *)
LEMMA PollIInv ==
  ASSUME IInv, PollOnce
  PROVE  IInv'
<1>1. job.kind = "emitter" /\ DOMAIN job = EmitterFields /\ job.call = "poll" /\ job.result # "mempool"
  BY DEF IInv, TypeOK, MempoolTracked, PollOnce, EmitterDoes
<1>2. UNCHANGED <<chain, graph, node, calm>> BY DEF PollOnce, OnlyJob, NodeStays
<1>3. calm' \in [tip : BOOLEAN, branch : BOOLEAN, pool : BOOLEAN] BY <1>2 DEF IInv, TypeOK
<1> DEFINE Kept(k) == /\ DOMAIN k = EmitterFields /\ k.kind = "emitter" /\ k.result = job.result
                      /\ k.base = job.base /\ k.start_height = job.start_height /\ k.last_cp = job.last_cp
                      /\ k.last_block = job.last_block /\ k.snapshot = job.snapshot
<1>4. ASSUME Kept(job'), job'.call \in {"walk", "recheck", "info"}, OnOneBranch => OnOneBranch' PROVE IInv'
  <2>1. EmitterFollows' BY <1>1, <1>2, <1>4 DEF IInv, EmitterFollows, OneBranch, OnBranch
  <2> QED BY <1>1, <1>2, <1>3, <1>4, <2>1, BlockSide DEF IInv
<1>5. ASSUME NEW j, DOMAIN j = EmitterFields, j.kind = "emitter", j.base = job.base, j.start_height = job.start_height,
             j.last_cp = job.last_cp, j.last_block \in {job.last_block, None}, j.snapshot = job.snapshot,
             NEW r, r # "mempool", job' = Return(j, r)
      PROVE  IInv'
  <2>1. /\ DOMAIN job' = EmitterFields /\ job'.kind = "emitter" /\ job'.call = "idle" /\ job'.result = r
        /\ job'.base = job.base /\ job'.start_height = job.start_height /\ job'.last_cp = job.last_cp
        /\ job'.last_block \in {job.last_block, None} /\ job'.snapshot = job.snapshot
    BY <1>5, ReturnFields
  <2>2. EmitterFollows' BY <1>1, <1>2, <2>1, BranchSide
  <2> QED BY <1>1, <1>2, <1>3, <1>5, <2>1, <2>2, BlockSide DEF IInv
<1>6. BestBlocks' = BestBlocks /\ \A res : WasRead(res) => WasRead(res)' BY <1>2 DEF BestBlocks, Best, WasRead
<1>7. CASE job.last_block = None
  <2>1. job' = [job EXCEPT !.call = "walk", !.at = TipHeight(job.last_cp)] BY <1>7 DEF PollOnce
  <2>2. Kept(job') /\ job'.call = "walk" /\ job'.at = TipHeight(job.last_cp) BY <1>1, <2>1, Zenon DEF EmitterFields
  <2>3. ASSUME OnOneBranch PROVE OnOneBranch'
    <3>1. job'.at \in Height BY <2>2, <2>3, TipInHeight DEF OnOneBranch
    <3> QED BY <1>7, <2>2, <2>3, <3>1 DEF OnOneBranch, OneBranch, OnBranch
  <2> QED BY <1>4, <2>2, <2>3
<1>8. CASE job.last_block # None /\ job.last_block.height + 1 < job.start_height /\ job.start_height > node.height
  <2>1. job' = Return(job, "error") BY <1>8, Zenon DEF PollOnce
  <2> QED BY <1>1, <1>5, <2>1
<1>9. CASE job.last_block # None /\ job.last_block.height + 1 < job.start_height /\ ~(job.start_height > node.height)
  <2>1. job' = [job EXCEPT !.call = "recheck", !.read = Best(job.start_height)] BY <1>9, Zenon DEF PollOnce
  <2>2. Kept(job') /\ job'.call = "recheck" /\ job'.read = Best(job.start_height) BY <1>1, <2>1, Zenon DEF EmitterFields
  <2>3. ASSUME OnOneBranch PROVE OnOneBranch'
    <3> DEFINE lb == job.last_block
    <3>1. /\ WasRead(lb) /\ DOMAIN job.last_cp = Height /\ job.last_cp[lb.height] = lb.hash
          /\ \A h \in Height : h > lb.height => job.last_cp[h] = None
      BY <1>9, <2>3 DEF OnOneBranch
    <3>2. TypeOK BY DEF IInv
    <3>3. lb.height \in Height /\ lb.hash # None /\ lb.hash \in BestBlocks \cup node.left BY <3>1 DEF WasRead
    <3>4. job.start_height \in 0 .. node.height /\ job.start_height > lb.height
      BY <1>9, <2>3, <3>2, <3>3, BestFacts, HeightAssumption DEF OnOneBranch, Height
    <3>5. lb.hash \in node.left \/ Above(lb, job'.read, job.start_height)
      <4>1. SUFFICES ASSUME lb.hash \in BestBlocks PROVE Above(lb, job'.read, job.start_height) BY <3>3
      <4>2. PICK i \in 0 .. node.height : Best(i) = lb.hash BY <4>1 DEF BestBlocks
      <4>3. node.branch \in Branches /\ i \in Height /\ node.branch[i] = lb.hash BY <3>2, <4>2, BestFacts
      <4>4. PICK b \in Branches : b[lb.height] = lb.hash BY <3>1 DEF WasRead
      <4>5. i = lb.height
        <5>1. b[lb.height] = node.branch[i] /\ b[lb.height] # None BY <3>3, <4>3, <4>4
        <5> HIDE DEF lb
        <5> QED BY <3>3, <4>3, <4>4, <5>1, OneHeight
      <4>6. /\ job.start_height \in Height /\ Best(job.start_height) # None
            /\ node.branch[job.start_height] = Best(job.start_height)
        BY <3>2, <3>4, BestFacts
      <4> QED BY <2>2, <3>4, <4>3, <4>5, <4>6 DEF Above
    <3>6. (job.last_block.hash \in node.left \/ Above(job.last_block, job.read, job.start_height))'
      BY <1>2, <2>2, <3>5 DEF Above
    <3>7. (job.last_block # None => WasRead(job.last_block))' BY <1>6, <2>2, <3>1
    <3> QED BY <1>9, <2>2, <2>3, <3>1, <3>6, <3>7 DEF OnOneBranch, OneBranch, OnBranch
  <2> QED BY <1>4, <2>2, <2>3
<1>10. CASE job.last_block # None /\ ~(job.last_block.height + 1 < job.start_height) /\ job.last_block.next = None
  <2> DEFINE j == [job EXCEPT !.last_block = None]
  <2>1. job' = Return(j, "no more") BY <1>10, Zenon DEF PollOnce
  <2>2. /\ DOMAIN j = EmitterFields /\ j.kind = "emitter" /\ j.base = job.base /\ j.start_height = job.start_height
        /\ j.last_cp = job.last_cp /\ j.last_block \in {job.last_block, None} /\ j.snapshot = job.snapshot
    BY <1>1, Zenon DEF EmitterFields
  <2> HIDE DEF j
  <2> QED BY <1>5, <2>1, <2>2
<1>11. CASE job.last_block # None /\ ~(job.last_block.height + 1 < job.start_height) /\ job.last_block.next # None
  <2>1. job' = [job EXCEPT !.call = "info", !.read = job.last_block.next] BY <1>11, Zenon DEF PollOnce
  <2>2. Kept(job') /\ job'.call = "info" /\ job'.read = job.last_block.next BY <1>1, <2>1, Zenon DEF EmitterFields
  <2>3. ASSUME OnOneBranch PROVE OnOneBranch'
    <3> DEFINE lb == job.last_block
    <3>1. /\ WasRead(lb) /\ DOMAIN job.last_cp = Height /\ job.last_cp[lb.height] = lb.hash
          /\ \A h \in Height : h > lb.height => job.last_cp[h] = None
      BY <1>11, <2>3 DEF OnOneBranch
    <3>2. lb.height + 1 \in Height /\ lb.height + 1 > lb.height /\ \E b \in Branches : b[lb.height] = lb.hash /\ b[lb.height + 1] = lb.next
      BY <1>11, <3>1, HeightAssumption DEF WasRead, Height
    <3>3. \E h \in Height : Above(lb, lb.next, h) BY <1>11, <3>2 DEF Above
    <3>4. (\E h \in Height : Above(job.last_block, job.read, h))' BY <2>2, <3>3 DEF Above
    <3> QED BY <1>6, <1>11, <2>2, <2>3, <3>1, <3>4 DEF OnOneBranch, OneBranch, OnBranch
  <2> QED BY <1>4, <2>2, <2>3
<1> QED BY <1>7, <1>8, <1>9, <1>10, <1>11

(* A call that has to look for the agreement again. *)
LEMMA LookAgainIInv ==
  ASSUME IInv, job.kind = "emitter", job.call # "idle", job' = Again([job EXCEPT !.last_block = None]),
         UNCHANGED <<chain, graph, node, calm>>
  PROVE  IInv'
<1>1. DOMAIN job = EmitterFields /\ job.result # "mempool" /\ calm' \in [tip : BOOLEAN, branch : BOOLEAN, pool : BOOLEAN]
  BY DEF IInv, TypeOK, MempoolTracked
<1> DEFINE j == [job EXCEPT !.last_block = None]
<1>2. /\ DOMAIN j = EmitterFields /\ j.kind = "emitter" /\ j.base = job.base /\ j.start_height = job.start_height
      /\ j.last_cp = job.last_cp /\ j.last_block = None /\ j.snapshot = job.snapshot /\ j.result = job.result
  BY <1>1, Zenon DEF EmitterFields
<1> HIDE DEF j
<1>3. job' = Again(j) BY DEF j
<1>4. /\ DOMAIN job' = EmitterFields /\ job'.kind = "emitter" /\ job'.call = "poll" /\ job'.result = job.result
      /\ job'.base = job.base /\ job'.start_height = job.start_height /\ job'.last_cp = job.last_cp
      /\ job'.last_block = None /\ job'.snapshot = job.snapshot
  BY <1>2, <1>3, AgainFields
<1>5. EmitterFollows' BY <1>4, BranchSide
<1> QED BY <1>1, <1>4, <1>5, BlockSide DEF IInv

LEMMA RecheckIInv ==
  ASSUME IInv, RecheckLast
  PROVE  IInv'
<1>1. job.kind = "emitter" /\ DOMAIN job = EmitterFields /\ job.call = "recheck" /\ job.result # "mempool"
  BY DEF IInv, TypeOK, MempoolTracked, RecheckLast, EmitterDoes
<1>2. UNCHANGED <<chain, graph, node, calm>> BY DEF RecheckLast, OnlyJob, NodeStays
<1>3. calm' \in [tip : BOOLEAN, branch : BOOLEAN, pool : BOOLEAN] BY <1>2 DEF IInv, TypeOK
<1>4. CASE Best(job.last_block.height) # job.last_block.hash
  <2>1. job' = Again([job EXCEPT !.last_block = None]) BY <1>4, Zenon DEF RecheckLast
  <2> QED BY <1>1, <1>2, <2>1, LookAgainIInv
<1>5. CASE Best(job.last_block.height) = job.last_block.hash
  <2>1. job' = [job EXCEPT !.call = "info"] BY <1>5, Zenon DEF RecheckLast
  <2>2. /\ DOMAIN job' = EmitterFields /\ job'.kind = "emitter" /\ job'.result = job.result /\ job'.call = "info"
        /\ job'.base = job.base /\ job'.start_height = job.start_height /\ job'.last_cp = job.last_cp
        /\ job'.last_block = job.last_block /\ job'.snapshot = job.snapshot /\ job'.read = job.read
    BY <1>1, <2>1, Zenon DEF EmitterFields
  <2>3. ASSUME OnOneBranch PROVE OnOneBranch'
    <3> DEFINE lb == job.last_block
    <3>1. /\ lb # None /\ WasRead(lb) /\ DOMAIN job.last_cp = Height /\ job.last_cp[lb.height] = lb.hash
          /\ \A h \in Height : h > lb.height => job.last_cp[h] = None
          /\ lb.hash \in node.left \/ Above(lb, job.read, job.start_height)
      BY <1>1, <2>3 DEF OnOneBranch
    <3>2. lb.hash \in BestBlocks
      <4>1. lb.height \in Height /\ lb.hash # None BY <3>1 DEF WasRead
      <4>2. lb.height \in 0 .. node.height BY <1>5, <4>1, BestFacts DEF IInv
      <4> QED BY <1>5, <4>2 DEF BestBlocks
    <3>3. lb.hash \notin node.left BY <3>2 DEF IInv, LeftIsGone
    <3>4. job.start_height \in Height /\ Above(lb, job.read, job.start_height) BY <3>1, <3>3 DEF Above
    <3>5. (\E h \in Height : Above(job.last_block, job.read, h))' BY <2>2, <3>4 DEF Above
    <3>6. BestBlocks' = BestBlocks BY <1>2 DEF BestBlocks, Best
    <3>7. (job.last_block # None => WasRead(job.last_block))' BY <1>2, <2>2, <3>1, <3>6 DEF WasRead
    <3> QED BY <2>2, <2>3, <3>1, <3>5, <3>7 DEF OnOneBranch, OneBranch, OnBranch
  <2>4. EmitterFollows' BY <1>1, <1>2, <2>2, <2>3 DEF IInv, EmitterFollows, OneBranch, OnBranch
  <2> QED BY <1>1, <1>2, <1>3, <2>2, <2>4, BlockSide DEF IInv
<1> QED BY <1>4, <1>5

LEMMA GetBlockInfoIInv ==
  ASSUME IInv, GetBlockInfo
  PROVE  IInv'
<1>1. job.kind = "emitter" /\ DOMAIN job = EmitterFields /\ job.call = "info" /\ job.result # "mempool"
  BY DEF IInv, TypeOK, MempoolTracked, GetBlockInfo, EmitterDoes
<1>2. UNCHANGED <<chain, graph, node>> BY DEF GetBlockInfo, NodeStays
<1>3. CASE ~OnBest(job.read)
  <2>1. job' = Again([job EXCEPT !.last_block = None]) /\ calm' = calm BY <1>3, Zenon DEF GetBlockInfo
  <2> QED BY <1>1, <1>2, <2>1, LookAgainIInv
<1>4. CASE OnBest(job.read)
  <2>1. job' = [job EXCEPT !.call = "block", !.read = BlockInfo(job.read)] /\ calm' = Calm BY <1>4, Zenon DEF GetBlockInfo
  <2>2. /\ DOMAIN job' = EmitterFields /\ job'.kind = "emitter" /\ job'.result = job.result /\ job'.call = "block"
        /\ job'.base = job.base /\ job'.start_height = job.start_height /\ job'.last_cp = job.last_cp
        /\ job'.last_block = job.last_block /\ job'.snapshot = job.snapshot /\ job'.read = BlockInfo(job.read)
    BY <1>1, <2>1, Zenon DEF EmitterFields
  <2>3. ASSUME OnOneBranch PROVE OnOneBranch'
    <3> DEFINE lb == job.last_block
    <3>1. /\ lb # None /\ WasRead(lb) /\ DOMAIN job.last_cp = Height /\ job.last_cp[lb.height] = lb.hash
          /\ \A h \in Height : h > lb.height => job.last_cp[h] = None
          /\ \E h \in Height : Above(lb, job.read, h)
      BY <1>1, <2>3 DEF OnOneBranch
    <3>2. PICK h \in Height : Above(lb, job.read, h) BY <3>1
    <3>3. PICK b \in Branches : b[lb.height] = lb.hash /\ b[h] = job.read BY <3>2 DEF Above
    <3>4. /\ BlockInfo(job.read).height = h /\ BlockInfo(job.read).hash = job.read /\ WasRead(BlockInfo(job.read))
      BY <1>4, <3>3, ReadsBlock DEF IInv
    <3>5. BestBlocks' = BestBlocks BY <1>2 DEF BestBlocks, Best
    <3>6. \A res : WasRead(res) => WasRead(res)' BY <1>2, <3>5 DEF WasRead
    <3>7. (WasRead(job.last_block) /\ WasRead(job.read))' BY <2>2, <3>1, <3>4, <3>6
    <3>8. Above(lb, BlockInfo(job.read).hash, BlockInfo(job.read).height) BY <3>2, <3>4
    <3>9. Above(job.last_block, job.read.hash, job.read.height)' BY <2>2, <3>8 DEF Above
    <3> QED BY <2>2, <2>3, <3>1, <3>7, <3>9 DEF OnOneBranch, OneBranch, OnBranch
  <2>4. EmitterFollows' BY <1>1, <1>2, <2>2, <2>3 DEF IInv, EmitterFollows, OneBranch, OnBranch
  <2>5. calm' \in [tip : BOOLEAN, branch : BOOLEAN, pool : BOOLEAN] BY <2>1 DEF Calm
  <2> QED BY <1>1, <1>2, <2>2, <2>4, <2>5, BlockSide DEF IInv
<1> QED BY <1>3, <1>4

(* The walk down the checkpoints to one on the best chain. *)
LEMMA WalkIInv ==
  ASSUME IInv, WalkLastCp
  PROVE  IInv'
<1>1. job.kind = "emitter" /\ DOMAIN job = EmitterFields /\ job.call = "walk" /\ job.result # "mempool"
  BY DEF IInv, TypeOK, MempoolTracked, WalkLastCp, EmitterDoes
<1>2. UNCHANGED <<chain, graph, node>> BY DEF WalkLastCp, NodeStays
<1>3. calm \in [tip : BOOLEAN, branch : BOOLEAN, pool : BOOLEAN] /\ Calm \in [tip : BOOLEAN, branch : BOOLEAN, pool : BOOLEAN]
  BY DEF IInv, TypeOK, Calm
<1>4. BestBlocks' = BestBlocks BY <1>2 DEF BestBlocks, Best
<1>5. \A res : WasRead(res) => WasRead(res)' BY <1>2, <1>4 DEF WasRead
<1> DEFINE b == job.last_cp[job.at]
<1>6. CASE OnBest(b)
  <2> DEFINE res == BlockInfo(b)
             start == IF res.height < job.start_height /\ res.height < TipHeight(job.last_cp) THEN res.height ELSE job.start_height
             j == [job EXCEPT !.last_block = res, !.last_cp = UpTo(job.last_cp, res.height), !.start_height = start]
  <2>1. job' = Again(j) /\ calm' = Calm BY <1>6, Zenon DEF WalkLastCp, AgreementFound
  <2> HIDE DEF start
  <2>2. /\ DOMAIN j = EmitterFields /\ j.kind = "emitter" /\ j.base = job.base /\ j.start_height = start
        /\ j.last_cp = UpTo(job.last_cp, res.height) /\ j.last_block = res /\ j.snapshot = job.snapshot /\ j.result = job.result
    BY <1>1, Zenon DEF EmitterFields
  <2> HIDE DEF j, res
  <2>3. /\ DOMAIN job' = EmitterFields /\ job'.kind = "emitter" /\ job'.call = "poll" /\ job'.result = job.result
        /\ job'.base = job.base /\ job'.start_height = start /\ job'.last_cp = UpTo(job.last_cp, res.height)
        /\ job'.last_block = res /\ job'.snapshot = job.snapshot
    BY <2>1, <2>2, AgainFields
  <2>4. ASSUME OnOneBranch PROVE OnOneBranch'
    <3>1. job.at \in Height /\ b # None BY <1>1, <1>6, <2>4 DEF OnOneBranch, OnBest
    <3>2. PICK br \in Branches : OnBranch(job.last_cp, br) BY <2>4 DEF OnOneBranch, OneBranch
    <3>3. b = br[job.at] BY <3>1, <3>2 DEF OnBranch
    <3>4. res.height = job.at /\ res.hash = b /\ WasRead(res) BY <1>6, <3>1, <3>3, ReadsBlock DEF IInv, res
    <3>5. DOMAIN UpTo(job.last_cp, res.height) = Height
          /\ \A h \in Height : UpTo(job.last_cp, res.height)[h] = IF h <= res.height THEN job.last_cp[h] ELSE None
      BY DEF UpTo
    <3>6. OneBranch(UpTo(job.last_cp, res.height)) BY <3>2, <3>5 DEF OneBranch, OnBranch
    <3>7. 0 \in Height /\ Height \subseteq Nat BY HeightAssumption DEF Height
    <3> HIDE DEF b
    <3>8. res.height \in Nat /\ 0 <= res.height /\ res.height <= res.height
           /\ \A h \in Height : h > res.height => ~(h <= res.height)
      <4>1. res.height \in Height BY <3>1, <3>4
      <4> QED BY <4>1, HeightAssumption DEF Height
    <3>9. UpTo(job.last_cp, res.height)[0] # None BY <2>4, <3>5, <3>7, <3>8 DEF OnOneBranch
    <3>10. UpTo(job.last_cp, res.height)[res.height] = res.hash BY <3>1, <3>4, <3>5, <3>8 DEF b
    <3>11. \A h \in Height : h > res.height => UpTo(job.last_cp, res.height)[h] = None BY <3>5, <3>8
    <3>12. start \in Nat BY <2>4, <3>1, <3>4, <3>7 DEF start, OnOneBranch
    <3>13. WasRead(job.last_block)' BY <1>5, <2>3, <3>4
    <3> QED BY <2>3, <3>5, <3>6, <3>9, <3>10, <3>11, <3>12, <3>13 DEF OnOneBranch, OneBranch, OnBranch
  <2>5. EmitterFollows' BY <1>1, <1>2, <2>3, <2>4 DEF IInv, EmitterFollows, OneBranch, OnBranch
  <2> QED BY <1>1, <1>2, <1>3, <2>1, <2>3, <2>5, BlockSide DEF IInv
<1>7. CASE ~OnBest(b) /\ job.at > 0
  <2>1. job' = [job EXCEPT !.at = NodeBelow(job.last_cp, job.at - 1)] /\ calm' = calm BY <1>7, Zenon DEF WalkLastCp
  <2>2. /\ DOMAIN job' = EmitterFields /\ job'.kind = "emitter" /\ job'.result = job.result /\ job'.call = "walk"
        /\ job'.base = job.base /\ job'.start_height = job.start_height /\ job'.last_cp = job.last_cp
        /\ job'.last_block = job.last_block /\ job'.snapshot = job.snapshot /\ job'.at = NodeBelow(job.last_cp, job.at - 1)
    BY <1>1, <2>1, Zenon DEF EmitterFields
  <2>3. ASSUME OnOneBranch PROVE OnOneBranch'
    <3>1. job'.at \in Height BY <1>1, <1>7, <2>2, <2>3, NodeBelowInHeight DEF OnOneBranch
    <3>2. (job.last_block # None => WasRead(job.last_block))' BY <1>5, <2>2, <2>3 DEF OnOneBranch
    <3> QED BY <2>2, <2>3, <3>1, <3>2 DEF OnOneBranch, OneBranch, OnBranch
  <2>4. EmitterFollows' BY <1>1, <1>2, <2>2, <2>3 DEF IInv, EmitterFollows, OneBranch, OnBranch
  <2> QED BY <1>1, <1>2, <1>3, <2>1, <2>2, <2>4, BlockSide DEF IInv
<1>8. CASE ~OnBest(b) /\ ~(job.at > 0)
  <2> DEFINE j == [job EXCEPT !.last_cp = OnlyGenesis(Best(0)), !.last_block = None]
  <2>1. job' = Again(j) /\ calm' = calm BY <1>8, Zenon DEF WalkLastCp
  <2>2. /\ DOMAIN j = EmitterFields /\ j.kind = "emitter" /\ j.base = job.base /\ j.start_height = job.start_height
        /\ j.last_cp = OnlyGenesis(Best(0)) /\ j.last_block = None /\ j.snapshot = job.snapshot /\ j.result = job.result
    BY <1>1, Zenon DEF EmitterFields
  <2> HIDE DEF j
  <2>3. /\ DOMAIN job' = EmitterFields /\ job'.kind = "emitter" /\ job'.call = "poll" /\ job'.result = job.result
        /\ job'.base = job.base /\ job'.start_height = job.start_height /\ job'.last_cp = OnlyGenesis(Best(0))
        /\ job'.last_block = None /\ job'.snapshot = job.snapshot
    BY <2>1, <2>2, AgainFields
  <2>4. ASSUME OnOneBranch PROVE OnOneBranch'
    <3>1. node.height \in Nat /\ node.branch \in Branches BY BestFacts DEF IInv
    <3>2. 0 \in 0 .. node.height BY <3>1
    <3>3. 0 \in Height /\ Best(0) = node.branch[0] /\ Best(0) # None BY <3>2, BestFacts DEF IInv
    <3>4. \A h \in Height : OnlyGenesis(Best(0))[h] = IF h = 0 THEN Best(0) ELSE None BY DEF OnlyGenesis
    <3>5. OneBranch(OnlyGenesis(Best(0))) BY <3>1, <3>3, <3>4 DEF OneBranch, OnBranch
    <3> QED BY <2>3, <2>4, <3>3, <3>4, <3>5 DEF OnOneBranch, OneBranch, OnBranch
  <2>5. EmitterFollows' BY <1>1, <1>2, <2>3, <2>4 DEF IInv, EmitterFollows, OneBranch, OnBranch
  <2> QED BY <1>1, <1>2, <1>3, <2>1, <2>3, <2>5, BlockSide DEF IInv
<1> QED BY <1>6, <1>7, <1>8

(* The block is pushed onto the checkpoints and handed over. *)
LEMMA EmitBlockIInv ==
  ASSUME IInv, EmitBlock
  PROVE  IInv'
<1>1. /\ job.kind = "emitter" /\ DOMAIN job = EmitterFields /\ job.call = "block" /\ chain[0] # None
      /\ calm \in [tip : BOOLEAN, branch : BOOLEAN, pool : BOOLEAN]
  BY DEF IInv, TypeOK, EmitBlock, EmitterDoes
<1>2. UNCHANGED <<node, calm>> BY DEF EmitBlock, NodeStays
<1> DEFINE res == job.read
           cp == [job.last_cp EXCEPT ![res.height] = res.hash]
           txs == TxsIn[res.hash]
           j == [job EXCEPT !.last_cp = cp, !.last_block = res, !.snapshot = @ \ txs]
           u == BlockUpdate(res.hash, res.height)
<1>3. CASE ~CanPush(job.last_cp, res.height, res.hash)
  <2>1. job' = [kind |-> "panicked"] /\ chain' = chain BY <1>3, Zenon DEF EmitBlock
  <2>2. Elsewhere BY <2>1 DEF Elsewhere
  <2> QED BY <1>1, <1>2, <2>1, <2>2, ElsewhereIInv
<1>4. CASE CanPush(job.last_cp, res.height, res.hash)
  <2>1. Deliver(cp, u, Return(j, "block")) BY <1>4, Zenon DEF EmitBlock
  <2>2. /\ DOMAIN j = EmitterFields /\ j.kind = "emitter" /\ j.base = job.base /\ j.start_height = job.start_height
        /\ j.last_cp = cp /\ j.last_block = res /\ j.snapshot = job.snapshot \ txs
    BY <1>1, Zenon DEF EmitterFields
  <2>3. u.txs = txs /\ u.anchors = {<<t, res.height, res.hash>> : t \in txs} /\ u.seen = {} /\ u.evicted = {}
    BY DEF BlockUpdate, NoUpdate
  <2> HIDE DEF j, u, txs, cp
  <2>4. /\ chain'[0] # None
        /\ \/ DOMAIN job' = {"kind", "src", "cp"} /\ job'.kind = "refused"
           \/ job' = Return(j, "block") /\ graph' = ApplyTxs(graph, u)
    BY <1>1, <2>1, DeliverFacts
  <2>5. CASE DOMAIN job' = {"kind", "src", "cp"} /\ job'.kind = "refused"
    <3>1. Elsewhere BY <2>5 DEF Elsewhere
    <3> QED BY <1>2, <2>4, <3>1, ElsewhereIInv
  <2>6. CASE job' = Return(j, "block") /\ graph' = ApplyTxs(graph, u)
    <3>1. /\ DOMAIN job' = EmitterFields /\ job'.kind = "emitter" /\ job'.call = "idle" /\ job'.result = "block"
          /\ job'.base = job.base /\ job'.start_height = job.start_height /\ job'.last_cp = cp
          /\ job'.last_block = res /\ job'.snapshot = job.snapshot \ txs
      BY <2>2, <2>6, ReturnFields
    <3>2. TypeOK' BY <1>1, <1>2, <2>4, <3>1 DEF IInv, TypeOK, EmitterFields
    <3>3. LeftIsGone' BY <1>2 DEF IInv, LeftIsGone, BestBlocks, Best
    <3>4. graph'.live = graph.live /\ graph'.txs = graph.txs \cup txs
          /\ graph'.anchors = graph.anchors \cup {<<t, res.height, res.hash>> : t \in txs}
      <4>1. graph'.live = (graph.live \cup u.seen) \ u.evicted /\ graph'.txs = graph.txs \cup u.txs
            /\ graph'.anchors = graph.anchors \cup u.anchors
        BY <2>6 DEF ApplyTxs
      <4> QED BY <2>3, <4>1
    <3>5. \A t \in txs : <<t, res.height, res.hash>> \in graph'.anchors /\ <<t, res.height, res.hash>>[1] = t BY <3>4
    <3>6. MempoolTracked'
      <4>1. ASSUME NEW t \in graph'.live \cap graph'.txs
            PROVE  t \in job'.snapshot \/ \E a \in graph'.anchors : a[1] = t
        <5>1. CASE t \in txs BY <3>5, <5>1
        <5>2. CASE t \notin txs
          <6>1. t \in graph.live \cap graph.txs BY <3>4, <4>1, <5>2
          <6>2. t \in job.snapshot \/ \E a \in graph.anchors : a[1] = t BY <1>1, <6>1 DEF IInv, MempoolTracked
          <6> QED BY <3>1, <3>4, <5>2, <6>2
        <5> QED BY <5>1, <5>2
      <4> QED BY <3>1, <4>1 DEF MempoolTracked
    <3>7. MempoolIsMirrored' BY <3>1 DEF MempoolIsMirrored
    <3>8. ASSUME OnOneBranch PROVE OnOneBranch'
      <4> DEFINE lb == job.last_block
      <4>1. /\ lb # None /\ WasRead(lb) /\ DOMAIN job.last_cp = Height /\ job.last_cp[lb.height] = lb.hash
            /\ \A h \in Height : h > lb.height => job.last_cp[h] = None
            /\ WasRead(res) /\ Above(lb, res.hash, res.height)
        BY <1>1, <3>8 DEF OnOneBranch
      <4>2. lb.height \in Height /\ lb.hash # None /\ res.height \in Height /\ res.height > lb.height /\ res.hash # None
        BY <4>1 DEF WasRead, Above
      <4>3. PICK b \in Branches : b[lb.height] = lb.hash /\ b[res.height] = res.hash BY <4>1 DEF Above
      <4>4. PICK c \in Branches : OnBranch(job.last_cp, c) BY <3>8 DEF OnOneBranch, OneBranch
      <4>5. c[lb.height] = lb.hash BY <4>1, <4>2, <4>4 DEF OnBranch
      <4>6. \A h \in Height : h <= lb.height => b[h] = c[h] BY <4>2, <4>3, <4>5, BranchAssumption
      <4>7. DOMAIN cp = Height /\ \A h \in Height : cp[h] = IF h = res.height THEN res.hash ELSE job.last_cp[h]
        BY <4>1, Zenon DEF cp
      <4>8. ASSUME NEW h \in Height, cp[h] # None PROVE cp[h] = b[h]
        <5>1. CASE h = res.height BY <4>3, <4>7, <5>1
        <5>2. CASE h # res.height
          <6>1. cp[h] = job.last_cp[h] BY <4>7, <5>2
          <6>2. ~(h > lb.height) BY <4>1, <4>8, <6>1
          <6>3. h <= lb.height BY <4>2, <6>2, HeightAssumption DEF Height
          <6>4. job.last_cp[h] = c[h] BY <4>4, <4>8, <6>1 DEF OnBranch
          <6> QED BY <4>6, <6>1, <6>3, <6>4
        <5> QED BY <5>1, <5>2
      <4>9. OneBranch(cp) BY <4>3, <4>8 DEF OneBranch, OnBranch
      <4>10. cp[0] # None
        <5>1. 0 \in Height /\ res.height # 0 BY <4>2, HeightAssumption DEF Height
        <5> QED BY <3>8, <4>7, <5>1 DEF OnOneBranch
      <4>11. \A h \in Height : h > res.height => cp[h] = None
        <5> TAKE h \in Height
        <5> HAVE h > res.height
        <5>1. h > lb.height /\ h # res.height BY <4>2, HeightAssumption DEF Height
        <5> QED BY <4>1, <4>7, <5>1
      <4>12. cp[res.height] = res.hash BY <4>2, <4>7
      <4>13. BestBlocks' = BestBlocks BY <1>2 DEF BestBlocks, Best
      <4>14. WasRead(job.last_block)' BY <1>2, <3>1, <4>1, <4>13 DEF WasRead
      <4>15. job.start_height \in Nat BY <3>8 DEF OnOneBranch
      <4> HIDE DEF res
      <4> QED BY <3>1, <4>7, <4>9, <4>10, <4>11, <4>12, <4>14, <4>15 DEF OnOneBranch, OneBranch, OnBranch
    <3>9. EmitterFollows' BY <1>1, <1>2, <3>1, <3>8 DEF IInv, EmitterFollows, OneBranch, OnBranch
    <3> QED BY <3>2, <3>3, <3>6, <3>7, <3>9 DEF IInv
  <2> QED BY <2>4, <2>5, <2>6
<1> QED BY <1>3, <1>4

(* mempool_at reads. *)
LEMMA ReadMempoolIInv ==
  ASSUME IInv, ReadMempool
  PROVE  IInv'
<1>1. /\ job.kind = "emitter" /\ DOMAIN job = EmitterFields /\ job.call \in {"count", "hash", "pool", "rehash", "recount"}
      /\ job.result # "mempool"
  BY DEF IInv, TypeOK, MempoolTracked, ReadMempool
<1>2. UNCHANGED <<chain, graph, node, calm>> BY DEF ReadMempool, OnlyJob, NodeStays
<1> DEFINE Kept == /\ DOMAIN job' = EmitterFields /\ job'.kind = "emitter" /\ job'.result = job.result
                   /\ job'.base = job.base /\ job'.start_height = job.start_height /\ job'.last_cp = job.last_cp
                   /\ job'.last_block = job.last_block /\ job'.snapshot = job.snapshot
<1>3. Kept /\ \/ job.call = "count" /\ job'.call = "hash" /\ job'.at = node.height
              \/ job.call = "hash" /\ job'.call = "pool" /\ job'.at = job.at
              \/ job.call = "pool" /\ job'.call = "rehash" /\ job'.at = job.at /\ job'.pool = node.mempool
              \/ job.call = "rehash" /\ job'.call \in {"recount", "count"} /\ job'.at = job.at /\ job'.pool = job.pool
              \/ job.call = "recount" /\ job'.call \in {"txs", "count"} /\ job'.at = job.at /\ job'.pool = job.pool
  <2>1. CASE job.call = "count"
    <3>1. job' = [job EXCEPT !.call = "hash", !.at = node.height] BY <2>1 DEF ReadMempool
    <3> QED BY <1>1, <2>1, <3>1, Zenon DEF EmitterFields
  <2>2. CASE job.call = "hash"
    <3>1. job' = [job EXCEPT !.call = "pool", !.read = Best(job.at)] BY <2>2 DEF ReadMempool
    <3> QED BY <1>1, <2>2, <3>1, Zenon DEF EmitterFields
  <2>3. CASE job.call = "pool"
    <3>1. job' = [job EXCEPT !.call = "rehash", !.pool = node.mempool] BY <2>3 DEF ReadMempool
    <3> QED BY <1>1, <2>3, <3>1, Zenon DEF EmitterFields
  <2>4. CASE job.call = "rehash"
    <3>1. PICK c \in {"recount", "count"} : job' = [job EXCEPT !.call = c] BY <2>4 DEF ReadMempool
    <3> QED BY <1>1, <2>4, <3>1, Zenon DEF EmitterFields
  <2>5. CASE job.call = "recount"
    <3>1. PICK c \in {"txs", "count"} : job' = [job EXCEPT !.call = c] BY <2>5 DEF ReadMempool
    <3> QED BY <1>1, <2>5, <3>1, Zenon DEF EmitterFields
  <2> QED BY <1>1, <2>1, <2>2, <2>3, <2>4, <2>5
<1>4. TypeOK' BY <1>2, <1>3 DEF IInv, TypeOK, EmitterFields
<1>5. LeftIsGone' BY <1>2 DEF IInv, LeftIsGone, BestBlocks, Best
<1>6. MempoolTracked' BY <1>1, <1>2, <1>3 DEF IInv, MempoolTracked
<1>7. MempoolIsMirrored' BY <1>1, <1>3 DEF MempoolIsMirrored
<1>8. EmitterFollows' BY <1>1, <1>2, <1>3, BranchSide
<1> QED BY <1>4, <1>5, <1>6, <1>7, <1>8 DEF IInv

(* What a mempool call tells: at the tip everything the emitter watches and   *)
(* the mempool does not hold is evicted, and the rest is what it watches now. *)
LEMMA EmitMempoolFacts ==
  ASSUME IInv, EmitMempool
  PROVE  /\ job.kind = "emitter" /\ job.call = "txs" /\ UNCHANGED <<chain, node, calm>>
         /\ \E found \in Found(job), at \in BOOLEAN :
              LET update == job.pool \cap (job.snapshot \cup found)
                  evicted == IF at THEN (job.snapshot \cup found) \ job.pool ELSE {}
                  snapshot == IF at THEN update ELSE job.snapshot \cup found
              IN /\ at = AtTip(job)
                 /\ graph'.live = (graph.live \cup update) \ evicted
                 /\ graph'.txs = graph.txs \cup update /\ graph'.anchors = graph.anchors
                 /\ DOMAIN job' = EmitterFields /\ job'.kind = "emitter" /\ job'.call = "idle"
                 /\ job'.result = IF at THEN "mempool" ELSE "catching up"
                 /\ job'.base = job.base /\ job'.start_height = job.start_height /\ job'.last_cp = job.last_cp
                 /\ job'.last_block = job.last_block /\ job'.snapshot = snapshot
<1>1. job.kind = "emitter" /\ DOMAIN job = EmitterFields /\ job.call = "txs" BY DEF IInv, TypeOK, EmitMempool, EmitterDoes
<1>2. UNCHANGED <<chain, node, calm>> BY DEF EmitMempool, NodeStays
<1> DEFINE at == AtTip(job)
<1>3. at \in BOOLEAN BY DEF AtTip
<1>4. PICK found \in Found(job) :
        LET update == job.pool \cap (job.snapshot \cup found)
            evicted == IF at THEN (job.snapshot \cup found) \ job.pool ELSE {}
            snapshot == IF at THEN update ELSE job.snapshot \cup found
        IN /\ graph' = ApplyTxs(graph, [NoUpdate EXCEPT !.txs = update, !.seen = update, !.evicted = evicted])
           /\ job' = Return([job EXCEPT !.snapshot = snapshot], IF at THEN "mempool" ELSE "catching up")
  BY Zenon DEF EmitMempool
<1> HIDE DEF at
<1> DEFINE update == job.pool \cap (job.snapshot \cup found)
           evicted == IF at THEN (job.snapshot \cup found) \ job.pool ELSE {}
           snapshot == IF at THEN update ELSE job.snapshot \cup found
           u == [NoUpdate EXCEPT !.txs = update, !.seen = update, !.evicted = evicted]
           j == [job EXCEPT !.snapshot = snapshot]
           r == IF at THEN "mempool" ELSE "catching up"
<1>5. graph' = ApplyTxs(graph, u) /\ job' = Return(j, r) BY <1>4, Zenon
<1> HIDE DEF update, evicted, snapshot
<1>6. u.txs = update /\ u.anchors = {} /\ u.seen = update /\ u.evicted = evicted BY DEF NoUpdate
<1>7. /\ DOMAIN j = EmitterFields /\ j.kind = "emitter" /\ j.base = job.base /\ j.start_height = job.start_height
      /\ j.last_cp = job.last_cp /\ j.last_block = job.last_block /\ j.snapshot = snapshot
  BY <1>1, Zenon DEF EmitterFields
<1> HIDE DEF u, j, r
<1>8. graph'.live = (graph.live \cup update) \ evicted /\ graph'.txs = graph.txs \cup update /\ graph'.anchors = graph.anchors
  BY <1>5, <1>6 DEF ApplyTxs
<1>9. /\ DOMAIN job' = EmitterFields /\ job'.kind = "emitter" /\ job'.call = "idle"
      /\ job'.result = r
      /\ job'.base = job.base /\ job'.start_height = job.start_height /\ job'.last_cp = job.last_cp
      /\ job'.last_block = job.last_block /\ job'.snapshot = snapshot
  BY <1>5, <1>7, ReturnFields
<1> QED BY <1>1, <1>2, <1>3, <1>8, <1>9, Zenon DEF update, evicted, snapshot, at, r

LEMMA EmitMempoolIInv ==
  ASSUME IInv, EmitMempool
  PROVE  IInv'
<1>1. job.kind = "emitter" /\ job.call = "txs" /\ UNCHANGED <<chain, node, calm>> BY EmitMempoolFacts
<1>2. PICK found \in Found(job), at \in BOOLEAN :
        LET update == job.pool \cap (job.snapshot \cup found)
            evicted == IF at THEN (job.snapshot \cup found) \ job.pool ELSE {}
            snapshot == IF at THEN update ELSE job.snapshot \cup found
        IN /\ graph'.live = (graph.live \cup update) \ evicted
           /\ graph'.txs = graph.txs \cup update /\ graph'.anchors = graph.anchors
           /\ DOMAIN job' = EmitterFields /\ job'.kind = "emitter" /\ job'.call = "idle"
           /\ job'.result = IF at THEN "mempool" ELSE "catching up"
           /\ job'.base = job.base /\ job'.start_height = job.start_height /\ job'.last_cp = job.last_cp
           /\ job'.last_block = job.last_block /\ job'.snapshot = snapshot
  BY EmitMempoolFacts, Zenon
<1> DEFINE watched == job.snapshot \cup found
           update == job.pool \cap watched
           evicted == IF at THEN watched \ job.pool ELSE {}
<1>3. /\ graph'.live = (graph.live \cup update) \ evicted /\ graph'.txs = graph.txs \cup update
      /\ graph'.anchors = graph.anchors /\ job'.snapshot = IF at THEN update ELSE watched
  BY <1>2, Zenon
<1>4. /\ DOMAIN job' = EmitterFields /\ job'.kind = "emitter" /\ job'.call = "idle"
      /\ job'.base = job.base /\ job'.start_height = job.start_height /\ job'.last_cp = job.last_cp
      /\ job'.last_block = job.last_block /\ job'.result = IF at THEN "mempool" ELSE "catching up"
  BY <1>2, Zenon
<1>5. TypeOK' BY <1>1, <1>4 DEF IInv, TypeOK, EmitterFields
<1>6. LeftIsGone' BY <1>1 DEF IInv, LeftIsGone, BestBlocks, Best
<1>7. EmitterFollows' BY <1>1, <1>4, BranchSide
<1>8. \A t \in graph.live \cap graph.txs : t \in job.snapshot \/ \E a \in graph.anchors : a[1] = t
  BY <1>1 DEF IInv, MempoolTracked
<1>9. MempoolTracked'
  <2>1. \A t \in graph'.live \cap graph'.txs : t \in job'.snapshot \/ \E a \in graph'.anchors : a[1] = t
    <3> SUFFICES ASSUME NEW t \in graph'.live \cap graph'.txs, ~\E a \in graph.anchors : a[1] = t
                 PROVE  t \in job'.snapshot
      BY <1>3
    <3>1. CASE t \in update BY <1>3, <3>1
    <3>2. CASE t \notin update
      <4>1. t \in job.snapshot BY <1>3, <1>8, <3>2
      <4> QED BY <1>3, <3>2, <4>1
    <3> QED BY <3>1, <3>2
  <2> QED BY <1>4, <2>1 DEF MempoolTracked
<1>10. MempoolIsMirrored'
  <2>1. SUFFICES ASSUME at, calm.pool
                 PROVE  /\ node.mempool \subseteq graph'.live
                        /\ \A t \in (graph'.live \cap graph'.txs) \ node.mempool : \E a \in graph'.anchors : a[1] = t
    BY <1>1, <1>4 DEF MempoolIsMirrored
  <2>2. job.pool = node.mempool BY <1>1, <2>1 DEF IInv, MempoolTracked
  <2>3. (job.pool \ job.snapshot) \cap node.mempool \subseteq found BY DEF Found
  <2>4. update = node.mempool BY <2>2, <2>3
  <2>5. node.mempool \subseteq graph'.live BY <1>3, <2>2, <2>4
  <2>6. ASSUME NEW t \in (graph'.live \cap graph'.txs) \ node.mempool PROVE \E a \in graph'.anchors : a[1] = t
    <3>1. t \in graph.live \cap graph.txs /\ t \notin evicted BY <1>3, <2>4, <2>6
    <3>2. t \notin job.snapshot BY <2>1, <2>2, <2>6, <3>1
    <3> QED BY <1>3, <1>8, <3>1, <3>2
  <2> QED BY <2>5, <2>6
<1> QED BY <1>5, <1>6, <1>7, <1>9, <1>10 DEF IInv

-----------------------------------------------------------------------------
(* All steps. *)

LEMMA InitIInv == Init => IInv
<1> SUFFICES ASSUME Init PROVE IInv OBVIOUS
<1>1. node = [branch |-> StartBranch, height |-> StartTip, mempool |-> InMempool, moves |-> 0,
              left |-> {}, returned |-> FALSE]
  BY DEF Init
<1>2. job = [kind |-> "none"] /\ calm = Calm BY DEF Init
<1>3. chain[0] # None BY SourcesAssumption DEF Init
<1>4. TypeOK BY <1>1, <1>2, <1>3, NodeAssumption DEF TypeOK, Calm
<1>5. LeftIsGone BY <1>1 DEF LeftIsGone
<1>6. job.kind # "emitter" BY <1>2
<1> QED BY <1>4, <1>5, <1>6 DEF IInv, MempoolTracked, MempoolIsMirrored, EmitterFollows

LEMMA StutterIInv ==
  ASSUME IInv, UNCHANGED vars
  PROVE  IInv'
<1>1. UNCHANGED <<node, chain, graph, job, calm>> BY DEF vars
<1>2. TypeOK' BY <1>1 DEF IInv, TypeOK
<1>3. BestBlocks' = BestBlocks BY <1>1 DEF BestBlocks, Best
<1>4. LeftIsGone' BY <1>1, <1>3 DEF IInv, LeftIsGone
<1>5. MempoolTracked' /\ MempoolIsMirrored' BY <1>1 DEF IInv, MempoolTracked, MempoolIsMirrored
<1>6. EmitterFollows'
  <2>1. OnOneBranch => OnOneBranch' BY <1>1, <1>3, FollowsStays
  <2> QED BY <1>1, <2>1 DEF IInv, EmitterFollows, OneBranch, OnBranch
<1> QED BY <1>2, <1>4, <1>5, <1>6 DEF IInv

LEMMA NextIInv == IInv /\ [Next]_vars => IInv'
<1> SUFFICES ASSUME IInv, [Next]_vars PROVE IInv' OBVIOUS
<1>1. TypeOK BY DEF IInv
<1>2. CASE UNCHANGED vars BY <1>2, StutterIInv
<1>3. CASE MoveTip BY <1>3, MoveTipIInv
<1>4. CASE ChangeMempool BY <1>4, ChangeMempoolIInv
<1>5. CASE NewEmitter BY <1>5, NewEmitterIInv
<1>6. CASE StartEsplora \/ StartElectrum \/ NewFilterIter \/ StopEmitter \/ StopFilter
  BY <1>1, <1>6, OthersElsewhere, ElsewhereIInv
<1>7. CASE SpkStep \/ RequestFails BY <1>1, <1>7, SpkElsewhere, ElsewhereIInv
<1>8. CASE CallNext \/ FindBase \/ GetHeader \/ YieldEvent \/ FilterError
  BY <1>1, <1>8, FilterElsewhere, ElsewhereIInv
<1>9. CASE CallNextBlock \/ CallMempool \/ EmitterError BY <1>9, CallIInv
<1>10. CASE PollOnce BY <1>10, PollIInv
<1>11. CASE RecheckLast BY <1>11, RecheckIInv
<1>12. CASE GetBlockInfo BY <1>12, GetBlockInfoIInv
<1>13. CASE WalkLastCp BY <1>13, WalkIInv
<1>14. CASE EmitBlock BY <1>14, EmitBlockIInv
<1>15. CASE ReadMempool BY <1>15, ReadMempoolIInv
<1>16. CASE EmitMempool BY <1>16, EmitMempoolIInv
<1> QED BY <1>2, <1>3, <1>4, <1>5, <1>6, <1>7, <1>8, <1>9, <1>10, <1>11, <1>12, <1>13, <1>14, <1>15, <1>16
        DEF Next, Starts, Calls, Fails, BlockStep

(* The inductive invariant holds throughout. *)
THEOREM AlwaysIInv == Spec => []IInv
BY InitIInv, NextIInv, PTL DEF Spec

(* The checkpoints an emitter hands out with its blocks (BlockEvent) are of   *)
(* one branch, for every block tree and start height, as long as no block     *)
(* comes back to the best chain after it has left it.                         *)
THEOREM AlwaysOneBranch == Spec => []EmitterKeepsOneBranch
<1>1. IInv => EmitterKeepsOneBranch BY DEF IInv, EmitterFollows, OnOneBranch, EmitterKeepsOneBranch
<1> QED BY <1>1, AlwaysIInv, PTL

(* After Emitter::mempool at the tip the wallet's unconfirmed transactions    *)
(* are those of the node, whatever came before.                               *)
THEOREM AlwaysMirrored == Spec => []MempoolIsMirrored
<1>1. IInv => MempoolIsMirrored BY DEF IInv
<1> QED BY <1>1, AlwaysIInv, PTL

(* A transaction reported as evicted by Emitter::mempool is not in the        *)
(* mempool, nor in a block that is still to be emitted.                       *)
THEOREM AlwaysRealEvictions == Spec => EvictionsAreReal
<1> DEFINE A == (job.kind = "emitter" /\ calm.pool) =>
                  \A t \in graph.live \ graph'.live :
                    /\ t \notin node.mempool
                    /\ ConfirmedAt(t) # None => ConfirmedAt(t) <= TipHeight(job.last_cp)
<1>1. IInv /\ [Next]_vars => [A]_vars
  <2> SUFFICES ASSUME IInv, [Next]_vars, job.kind = "emitter", calm.pool, NEW t \in graph.live \ graph'.live
               PROVE  /\ t \notin node.mempool
                      /\ ConfirmedAt(t) # None => ConfirmedAt(t) <= TipHeight(job.last_cp)
    BY DEF A
  <2>1. CASE EmitMempool
    <3>1. job.call = "txs" /\ job.pool = node.mempool /\ job.at = node.height
      BY <2>1, EmitMempoolFacts DEF IInv, MempoolTracked
    <3>2. PICK found \in Found(job), at \in BOOLEAN :
            /\ at = AtTip(job)
            /\ graph'.live = (graph.live \cup (job.pool \cap (job.snapshot \cup found)))
                               \ (IF at THEN (job.snapshot \cup found) \ job.pool ELSE {})
      BY <2>1, EmitMempoolFacts, Zenon
    <3>3. at /\ t \notin job.pool BY <3>2
    <3>4. TipHeight(job.last_cp) = node.height BY <3>1, <3>2, <3>3 DEF AtTip
    <3>5. ASSUME ConfirmedAt(t) # None PROVE ConfirmedAt(t) <= node.height
      <4>1. \E h \in Height : Best(h) # None /\ t \in TxsIn[Best(h)] BY <3>5 DEF ConfirmedAt
      <4>2. ConfirmedAt(t) = CHOOSE h \in Height : Best(h) # None /\ t \in TxsIn[Best(h)] BY <4>1 DEF ConfirmedAt
      <4>3. ConfirmedAt(t) \in Height /\ Best(ConfirmedAt(t)) # None BY <4>1, <4>2, Zenon
      <4> QED BY <4>3 DEF Best
    <3> QED BY <3>1, <3>3, <3>4, <3>5
  <2>2. CASE EmitBlock
    <3>1. PICK cp, u, next : /\ graph' = graph \/ Deliver(cp, u, next)
                             /\ u.seen = {} /\ u.evicted = {}
      <4>1. BlockUpdate(job.read.hash, job.read.height).seen = {} /\ BlockUpdate(job.read.hash, job.read.height).evicted = {}
        BY DEF BlockUpdate, NoUpdate
      <4> QED BY <2>2, <4>1, Zenon DEF EmitBlock
    <3>2. graph' = graph \/ graph' = ApplyTxs(graph, u) BY <3>1, Zenon DEF Deliver
    <3>3. graph'.live = graph.live BY <3>1, <3>2 DEF ApplyTxs
    <3> QED BY <3>3
  <2>3. CASE graph' = graph BY <2>3
  <2>4. CASE UNCHANGED vars BY <2>4 DEF vars
  <2>5. ~SpkStep /\ ~RequestFails /\ ~FilterError /\ ~StartEsplora /\ ~StartElectrum /\ ~NewEmitter /\ ~NewFilterIter
        /\ ~CallNext /\ ~StopFilter /\ ~FindBase /\ ~GetHeader /\ ~YieldEvent
    BY DEF SpkStep, ReadAnswer, FetchLatestBlocks, EsploraScan, EsploraTxids, EsploraOutpoints, WalkCheckpoints,
           InsertAnchorHeight, EsploraResponse, SubscribeHeaders, FetchSuffix, AgreeWithServer, ElectrumScan,
           ElectrumTxids, ElectrumOutpoints, CheckAnchorCache, ValidateProof, ElectrumResponse, RequestFails,
           FilterError, StartEsplora, StartElectrum, NewEmitter, NewFilterIter, Begins, CallNext, StopFilter,
           FindBase, GetHeader, YieldEvent, FilterDoes
  <2>6. CASE MoveTip \/ ChangeMempool \/ CallNextBlock \/ CallMempool \/ StopEmitter \/ PollOnce \/ RecheckLast
             \/ GetBlockInfo \/ WalkLastCp \/ ReadMempool \/ EmitterError
    <3>1. graph' = graph
      BY <2>6 DEF MoveTip, ChangeMempool, CallNextBlock, CallMempool, StopEmitter, PollOnce, RecheckLast,
                  GetBlockInfo, WalkLastCp, ReadMempool, EmitterError, OnlyJob
    <3> QED BY <2>3, <3>1
  <2> QED BY <2>1, <2>2, <2>4, <2>5, <2>6 DEF Next, Starts, Calls, Fails, BlockStep
<1> HIDE DEF A
<1>2. Spec => [][A]_vars BY <1>1, AlwaysIInv, PTL DEF Spec
<1> QED BY <1>2 DEF EvictionsAreReal, A
=============================================================================
