------------------------------- MODULE Lip0006 -------------------------------
(***************************************************************************)
(* One pass of sync_mweb_utxos (crates/mweb, lip0006.rs) over a source     *)
(* that may answer anything (p2p.rs gives the messages, pmmr.rs the        *)
(* proofs).  A chain is the sequence of the ids of all outputs and the set *)
(* of the leaves that are unspent; `chain' is the one of block Tip, and    *)
(* the source serves `served', which may be another one, and may change    *)
(* any message in one place.                                               *)
(***************************************************************************)
EXTENDS Pmmr
LOCAL INSTANCE SequencesExt

CONSTANTS
  Chains,        \* the chains [ids, unspent] that are tried
  Served(_),     \* what a source may serve in place of a chain
  Mine,          \* output ids that rewind to one of the wallet's addresses
  Phantom,       \* the id of an output that never was in the chain, rewound or not
  BatchSizes,    \* values of batch_size
  MAX_BUFFERED_ENTRIES,
  Tip, Stale     \* the block asked for, and another one

ASSUME PhantomAssumption == Phantom \in Mine

VARIABLES
  chain, served,
  verify,     \* VerifyMode
  batch_size,
  pc,         \* "header", "leafset", "batches", "done" or "failed"
  header,     \* the header the batches are checked against, or Missing
  leafset,
  todo,       \* indices[i ..]
  entries,    \* the buffered <<leaf, output id>>
  db,         \* [unspent, spent], sets of output ids
  honest,     \* every answer so far was that of the chain (history)
  withheld,   \* the leaves that the accepted batches passed over (history)
  taken       \* the batch accepted last (history)

vars == <<chain, served, verify, batch_size, pc, header, leafset, todo, entries, db, honest, withheld, taken>>

NeedsHeader == verify \in {"HeaderAndPmmr", "Anchored"}

HeaderOf(c) ==
  [output_mmr_size |-> Len(c.ids), output_root |-> Root(MemMmr(c.ids)),
   leafset_root |-> LeafsetRoot(c.unspent, Len(c.ids))]

UnspentIds(c) == {c.ids[i + 1] : i \in c.unspent}

(* Coins of an earlier pass: none, or every one that ever was and another. *)
Init ==
  /\ chain \in Chains
  /\ served \in {chain} \cup Served(chain)
  /\ verify \in {"Trusted", "HeaderAndPmmr", "Anchored"}
  /\ batch_size \in BatchSizes
  /\ pc = IF NeedsHeader THEN "header" ELSE "leafset"
  /\ header = Missing /\ leafset = Missing /\ todo = << >> /\ entries = << >>
  /\ \E known \in {{}, (ToSet(chain.ids) \cap Mine) \cup {Phantom}} : db = [unspent |-> known, spent |-> {}]
  /\ honest = (served = chain) /\ withheld = {} /\ taken = << >>

Fail == pc' = "failed" /\ UNCHANGED <<chain, served, verify, batch_size, header, leafset, todo, entries, db, taken>>

-----------------------------------------------------------------------------
(* mwebheader *)

(* The merkle block is that of Tip or of another block, with a tree that is  *)
(* valid or not; the transaction is the HogEx of that block, another         *)
(* transaction of it, or one that is in no block.                            *)
HeaderMsgs ==
  [merkle : {Tip, Stale}, tree : BOOLEAN, hogex : {"real", "other", "none"}, mweb_header : {HeaderOf(served)}]

(* What the first output of the transaction commits to.  Anyone can make a   *)
(* transaction that commits to anything; the HogEx is made by consensus.     *)
Commitment(msg) ==
  IF msg.hogex # "real" THEN msg.mweb_header
  ELSE IF msg.merkle = Tip THEN HeaderOf(chain) ELSE msg.mweb_header

(* Faulty variant: the position of the transaction is not looked at. *)
VerifyAnywhere(msg, block_hash) ==
  IF msg.merkle # block_hash THEN "proof"
  ELSE IF ~msg.tree THEN "proof"
  ELSE IF msg.hogex = "none" THEN "proof"
  ELSE IF Commitment(msg) # msg.mweb_header THEN "proof"
  ELSE "ok"

(* verify_anchored *)
VerifyAnchored(msg, block_hash) ==
  IF msg.merkle # block_hash THEN "proof"
  ELSE IF ~msg.tree THEN "proof"
  ELSE IF msg.hogex = "none" THEN "proof"
  ELSE IF msg.hogex = "other" THEN "proof"
  ELSE IF Commitment(msg) # msg.mweb_header THEN "proof"
  ELSE "ok"

GetHeader ==
  /\ pc = "header"
  /\ \E msg \in HeaderMsgs :
       /\ honest' = (honest /\ msg.merkle = Tip /\ msg.tree /\ msg.hogex = "real")
       /\ IF verify = "Anchored" /\ VerifyAnchored(msg, Tip) # "ok" THEN Fail
          ELSE /\ header' = msg.mweb_header
               /\ pc' = "leafset"
               /\ UNCHANGED <<chain, served, verify, batch_size, leafset, todo, entries, db, taken>>
  /\ UNCHANGED withheld

-----------------------------------------------------------------------------
(* mwebleafset *)

HonestLeafset == [block_hash |-> Tip, bytes |-> BytesFor(Len(served.ids)), bits |-> served.unspent]

(* Of another block, cut short, one bit changed, or with a bit in one more byte. *)
Leafsets ==
  LET m == HonestLeafset
  IN {m, [m EXCEPT !.block_hash = Stale]}
       \cup (IF m.bytes = 0 THEN {} ELSE {[m EXCEPT !.bytes = @ - 1, !.bits = @ \cap (0 .. 8 * m.bytes - 9)]})
       \cup {[m EXCEPT !.bits = (@ \ {i}) \cup ({i} \ @)] : i \in 0 .. Len(served.ids) - 1}
       \cup {[m EXCEPT !.bytes = @ + 1, !.bits = @ \cup {8 * m.bytes}]}

UnspentLeafIndices(msg) == Sorted(msg.bits)

GetLeafset ==
  /\ pc = "leafset"
  /\ \E msg \in Leafsets :
       /\ honest' = (honest /\ msg = HonestLeafset)
       /\ IF msg.block_hash # Tip \/ (header # Missing /\ VerifyLeafsetAt(msg, Tip, header) # "ok") THEN Fail
          ELSE /\ leafset' = msg
               /\ todo' = UnspentLeafIndices(msg)
               /\ pc' = "batches"
               /\ UNCHANGED <<chain, served, verify, batch_size, header, entries, db, taken>>
  /\ UNCHANGED withheld

-----------------------------------------------------------------------------
(* mwebutxos *)

(* Up to `count' unspent leaves from `start' on, with their proof. *)
Segment(start, count) ==
  LET from == SelectSeq(Sorted(served.unspent), LAMBDA i : i >= start)
      leaves == SubSeq(from, 1, IF Len(from) < count THEN Len(from) ELSE count)
  IN [full |-> TRUE,
      utxos |-> [i \in DOMAIN leaves |-> <<leaves[i], served.ids[leaves[i] + 1]>>],
      parent_hashes |-> IF leaves = << >> THEN << >>
                        ELSE ParentHashes(MemMmr(served.ids), served.unspent, Len(served.ids),
                                          leaves[1], leaves[Len(leaves)])]

BatchFrom(start) == Segment(start, batch_size)

NotAHash == <<"not a hash of the tree">>

(* What becomes of a batch when the format, an entry, the order or a hash is *)
(* changed.                                                                  *)
Altered(b) ==
  LET u == b.utxos
      h == b.parent_hashes
  IN {[b EXCEPT !.full = FALSE]}
       \cup {[b EXCEPT !.utxos[i] = <<@[1], Phantom>>] : i \in DOMAIN u}
       \cup {[b EXCEPT !.utxos = RemoveAt(u, i)] : i \in DOMAIN u}
       \cup {[b EXCEPT !.utxos = InsertAt(u, i, u[i])] : i \in DOMAIN u}
       \cup {[b EXCEPT !.utxos = SelectSeq(u, LAMBDA x : x[1] < k) \o <<<<k, Phantom>>>>
                                   \o SelectSeq(u, LAMBDA x : x[1] > k)] :
               k \in (0 .. Len(served.ids)) \ {u[i][1] : i \in DOMAIN u}}
       \cup {[b EXCEPT !.utxos = Reverse(u)]}
       \cup {[b EXCEPT !.parent_hashes[i] = NotAHash] : i \in DOMAIN h}
       \cup {[b EXCEPT !.parent_hashes = RemoveAt(h, i)] : i \in DOMAIN h}
       \cup {[b EXCEPT !.parent_hashes = Append(h, NotAHash)]}

(* The honest batch, one that is altered, and the batches that a source can  *)
(* prove as well: the empty one, and those that start earlier or later or    *)
(* are of another length.                                                    *)
Batches(honestBatch) ==
  {honestBatch, [full |-> TRUE, utxos |-> << >>, parent_hashes |-> << >>]}
    \cup {Segment(k, n) : k \in served.unspent, n \in {1, batch_size, batch_size + 1}}
    \cup Altered(honestBatch)

VerifyParentHashesPresent(batch) ==
  IF batch.utxos # << >> /\ batch.parent_hashes = << >> THEN "protocol" ELSE "ok"

CheckBatchAdvances(batch, start) == IF batch.utxos[1][1] < start THEN "protocol" ELSE "ok"

(* The checks on a batch, in the order of the loop. *)
Verdict(batch, start) ==
  IF ~batch.full THEN "protocol"
  ELSE LET proof == IF header # Missing THEN VerifyUtxoBatch(batch, leafset, header)
                    ELSE VerifyParentHashesPresent(batch)
       IN IF proof # "ok" \/ batch.utxos = << >> THEN proof
          ELSE IF CheckBatchAdvances(batch, start) # "ok" THEN "protocol"
          ELSE IF Len(entries) + Len(batch.utxos) > MAX_BUFFERED_ENTRIES THEN "protocol"
          ELSE IF Last(batch.utxos)[1] < start THEN "protocol" ELSE "ok"

(* The outputs are scanned once all are there; then every coin that was not  *)
(* among them is marked spent.                                               *)
Finished(got) ==
  LET ids == {got[i][2] : i \in DOMAIN got}
      found == ids \cap Mine
      unspent == db.unspent \cup found
  IN [unspent |-> unspent \cap ids, spent |-> (db.spent \ found) \cup (unspent \ ids)]

(* An empty batch ends the download; one that starts later moves the cursor  *)
(* past the leaves before it.                                                *)
PassedOver(batch) ==
  {i \in ToSet(todo) : batch.utxos # << >> => i < batch.utxos[1][1]}

GetUtxos ==
  /\ pc = "batches" /\ todo # << >>
  /\ \E b \in {BatchFrom(Head(todo))} : \E batch \in Batches(b) :
       /\ honest' = (honest /\ batch = b)
       /\ IF Verdict(batch, Head(todo)) # "ok" THEN Fail /\ UNCHANGED withheld
          ELSE /\ withheld' = withheld \cup PassedOver(batch)
               /\ entries' = entries \o batch.utxos
               /\ todo' = IF batch.utxos = << >> THEN << >>
                          ELSE SelectSeq(todo, LAMBDA i : i > Last(batch.utxos)[1])
               /\ taken' = batch.utxos
               /\ UNCHANGED <<chain, served, verify, batch_size, pc, header, leafset, db>>

Finish ==
  /\ pc = "batches" /\ todo = << >>
  /\ db' = Finished(entries)
  /\ pc' = "done"
  /\ UNCHANGED <<chain, served, verify, batch_size, header, leafset, todo, entries, honest, withheld, taken>>

Next == GetHeader \/ GetLeafset \/ GetUtxos \/ Finish

Spec == Init /\ [][Next]_vars

-----------------------------------------------------------------------------
(* A batch that verify_utxo_batch accepts under the header and the leafset   *)
(* of the chain is true and complete: it holds exactly the unspent leaves    *)
(* between its first and its last one, each with its own output, whatever    *)
(* the source left out, put in or changed.                                   *)
AcceptedBatchIsTrue ==
  (header = HeaderOf(chain) /\ taken # << >>)
    => LET leaves == {taken[i][1] : i \in DOMAIN taken}
       IN /\ leaves = chain.unspent \cap (taken[1][1] .. Last(taken)[1])
          /\ \A i \in DOMAIN taken : taken[i][2] = chain.ids[taken[i][1] + 1]

(* An honest source is never refused, however many mountains the segment     *)
(* spans and wherever spent leaves lie; only the bound on buffered outputs   *)
(* can stop the pass, and in the trusted mode a batch that needs no parent   *)
(* hash because it is the whole output set.                                  *)
HonestIsAccepted ==
  (pc = "failed" /\ honest) =>
    \/ Cardinality(chain.unspent) > MAX_BUFFERED_ENTRIES
    \/ verify = "Trusted" /\ BatchFrom(Head(todo)).parent_hashes = << >>

(* A pass in the anchored mode leaves the wallet with exactly its unspent    *)
(* outputs of that block, from whatever it knew before and whatever the      *)
(* source serves, but for those that the source passed over by an empty      *)
(* batch or by one that starts later: they are not unspent for the wallet,   *)
(* and those it knew are marked spent.                                       *)
AnchoredPassIsExact ==
  (verify = "Anchored" /\ pc = "done")
    => db.unspent = (UnspentIds(chain) \cap Mine) \ {chain.ids[i + 1] : i \in withheld \cap chain.unspent}

=============================================================================
