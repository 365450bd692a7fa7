-------------------------------- MODULE Pmmr --------------------------------
(***************************************************************************)
(* The output PMMR and the verification of a batch of unspent outputs      *)
(* against its root (crates/mweb, pmmr.rs).  Node positions are numbered   *)
(* in post-order.  A hash is the term that was hashed, so that equal       *)
(* hashes have equal preimages; a leafset is the set of leaf indices whose *)
(* bit is set, and Missing is an absent hash.                              *)
(***************************************************************************)
EXTENDS Integers, Sequences, FiniteSets
LOCAL INSTANCE SequencesExt
LOCAL INSTANCE FiniteSetsExt

Missing == << >>

(* A set of indices in ascending order. *)
Sorted(S) == IF S = {} THEN << >> ELSE SelectSeq([i \in 1 .. Max(S) + 1 |-> i - 1], LAMBDA i : i \in S)

-----------------------------------------------------------------------------
(* Positions. *)

PopCount[n \in Nat] == IF n = 0 THEN 0 ELSE (n % 2) + PopCount[n \div 2]
BitLen[n \in Nat] == IF n = 0 THEN 0 ELSE 1 + BitLen[n \div 2]
RightmostZeros[n \in Nat] == IF n % 2 = 1 THEN 0 ELSE 1 + RightmostZeros[n \div 2]

LeafPosition(leaf) == 2 * leaf - PopCount[leaf]
NumNodes(num_leaves) == LeafPosition(num_leaves)

(* index_height: take away the perfect trees to the left, from the widest. *)
Descend[height \in Nat, k \in Nat] ==
  IF k = 0 THEN height
  ELSE Descend[IF height >= 2^k - 1 THEN height - (2^k - 1) ELSE height, k - 1]
IndexHeight(pos) == Descend[pos, BitLen[pos]]

Sibling(pos) ==
  LET span == 2^(IndexHeight(pos) + 1)
  IN IF IndexHeight(pos + 1) = IndexHeight(pos) + 1 THEN pos + 1 - span ELSE pos + span - 1
LeftChild(pos) == pos - 2^IndexHeight(pos)
RightChild(pos) == pos - 1

(* peak_indices, from left to right. *)
PeakIndices(num_nodes) ==
  LET Take(r, k) ==
        LET size == 2^k - 1
        IN IF r.left < size THEN r
           ELSE [left |-> r.left - size, sum |-> r.sum + size, peaks |-> Append(r.peaks, r.sum + size - 1)]
      widths == [i \in 1 .. BitLen[num_nodes] |-> BitLen[num_nodes] - i + 1]
  IN FoldLeft(Take, [left |-> num_nodes, sum |-> 0, peaks |-> << >>], widths).peaks

-----------------------------------------------------------------------------
(* Hashes. *)

ParentHash(pos, left, right) == <<pos, left, right>>
LeafHash(leaf, id) == <<LeafPosition(leaf), id>>

(* MemMmr::add_output_id: the leaf, and every parent it completes. *)
AddOutputId(hashes, id, num_leaves) ==
  FoldLeft(LAMBDA h, i : IF IndexHeight(Len(h)) = 0 THEN h
                         ELSE Append(h, ParentHash(Len(h), h[LeftChild(Len(h)) + 1], h[Len(h)])),
           Append(hashes, LeafHash(num_leaves, id)), [i \in 1 .. BitLen[num_leaves + 1] |-> i])

MemMmr(ids) == FoldLeftDomain(LAMBDA h, i : AddOutputId(h, ids[i], i - 1), << >>, ids)

BagPeaks(peaks, num_nodes) ==
  IF peaks = << >> THEN Missing
  ELSE FoldRight(LAMBDA peak, hash : ParentHash(num_nodes, peak, hash), Front(peaks), Last(peaks))

Root(hashes) ==
  LET peaks == PeakIndices(Len(hashes))
  IN BagPeaks([i \in DOMAIN peaks |-> hashes[peaks[i] + 1]], Len(hashes))

-----------------------------------------------------------------------------
(* Which hashes prove a segment. *)

(* The nodes of a height, by the increments of calc_pruned_parents. *)
NodeAt[height \in Nat, n \in Nat] ==
  IF n = 0 THEN 2^(height + 1) - 2
  ELSE NodeAt[height, n - 1] + (2^(height + 1) - 1) + RightmostZeros[n]

(* calc_pruned_parents: the roots of the largest subtrees that are all spent. *)
PrunedParents(unspent, num_leaves) ==
  LET last == NumNodes(num_leaves)
      Join(pruned, pos) ==
        IF {LeftChild(pos), RightChild(pos)} \subseteq pruned
        THEN (pruned \ {LeftChild(pos), RightChild(pos)}) \cup {pos} ELSE pruned
      heights == SelectSeq([h \in 1 .. BitLen[last] |-> h], LAMBDA h : 2^(h + 1) - 2 <= last)
      At(h) == SelectSeq([n \in 1 .. last |-> NodeAt[h, n - 1]], LAMBDA pos : pos <= last)
  IN FoldLeft(LAMBDA pruned, h : FoldLeft(Join, pruned, At(h)),
              {LeafPosition(i) : i \in (0 .. num_leaves - 1) \ unspent}, heights)

(* calc_hash_indices: the peaks left of the first leaf, the way from it to   *)
(* the left edge of its mountain, what is pruned in between, and the way     *)
(* from the last leaf to the right edge of its mountain.                     *)
HashIndices(unspent, num_leaves, first_leaf, last_leaf) ==
  LET num_nodes == NumNodes(num_leaves)
      peaks == PeakIndices(num_nodes)
      first == LeafPosition(first_leaf)
      last == LeafPosition(last_leaf)
      left_peaks == {p \in ToSet(peaks) : p < first}
      adjustment == Max({p + 1 : p \in left_peaks} \cup {0})
      OnLeftEdge(pos) == pos + 2 - adjustment = 2^(IndexHeight(pos) + 1)
      LeftPath[pos \in 0 .. num_nodes] ==
        IF OnLeftEdge(pos) THEN {}
        ELSE IF Sibling(pos) < pos THEN {Sibling(pos)} \cup LeftPath[pos + 1]
        ELSE LeftPath[Sibling(pos) + 1]
      peak == Min({p \in ToSet(peaks) : p >= last})
      OnRightEdge(pos) == pos >= peak - IndexHeight(peak)
      RightPath[pos \in 0 .. num_nodes] ==
        IF OnRightEdge(pos) THEN {}
        ELSE IF Sibling(pos) > pos THEN {Sibling(pos)} \cup RightPath[Sibling(pos) + 1]
        ELSE RightPath[pos + 1]
  IN left_peaks \cup LeftPath[first]
       \cup (PrunedParents(unspent, num_leaves) \cap (first .. last - 1)) \cup RightPath[last]

-----------------------------------------------------------------------------
(* Verification.  A batch is [utxos, parent_hashes] with utxos a sequence of *)
(* <<leaf index, output id>>; a header is [output_mmr_size, output_root,     *)
(* leafset_root].  The result is "ok" or the reason of the error.            *)

(* A leafset message is [block_hash, bytes, bits]: the length of the blob    *)
(* and the set of its bits.  The root covers whole bytes.                    *)
BytesFor(num_leaves) == (num_leaves + 7) \div 8
LeafsetRoot(bits, num_leaves) == bits \cap (0 .. 8 * BytesFor(num_leaves) - 1)

(* The proof hashes and the bag of the peaks to the right, or Missing. *)
SplitProof(parent_hashes, count) ==
  CASE Len(parent_hashes) = count -> [ok |-> TRUE, proof |-> parent_hashes, lower_peak |-> Missing]
    [] Len(parent_hashes) = count + 1 ->
         [ok |-> TRUE, proof |-> Front(parent_hashes), lower_peak |-> Last(parent_hashes)]
    [] OTHER -> [ok |-> FALSE, proof |-> << >>, lower_peak |-> Missing]

(* The hash of a node: given as proof, given as leaf, or made of both children. *)
NodeHashes(utxos, indices, proof, num_nodes) ==
  LET leaves == {<<LeafPosition(utxos[i][1]), i>> : i \in DOMAIN utxos}
      Hash[pos \in 0 .. num_nodes - 1] ==
        IF pos \in ToSet(indices) THEN proof[CHOOSE i \in DOMAIN indices : indices[i] = pos]
        ELSE IF \E x \in leaves : x[1] = pos
        THEN LET i == (CHOOSE x \in leaves : x[1] = pos)[2] IN LeafHash(utxos[i][1], utxos[i][2])
        ELSE IF IndexHeight(pos) = 0 THEN Missing
        ELSE LET left == Hash[LeftChild(pos)]
                 right == Hash[RightChild(pos)]
             IN IF left = Missing \/ right = Missing THEN Missing ELSE ParentHash(pos, left, right)
  IN Hash

(* Faulty variant: of the peaks up to the mountain of the last leaf only     *)
(* those left of the first leaf and that mountain itself are bagged.         *)
BaggedOutermost(peaks, first, mountain) ==
  SelectSeq(peaks, LAMBDA p : p < LeafPosition(first) \/ p = mountain)

BaggedPeaks(peaks, first, mountain) == SelectSeq(peaks, LAMBDA p : p <= mountain)

VerifySegmentRoot(utxos, parent_hashes, unspent, num_leaves, output_root) ==
  LET num_nodes == NumNodes(num_leaves)
      first == utxos[1][1]
      last == Last(utxos)[1]
      indices == Sorted(HashIndices(unspent, num_leaves, first, last))
      split == SplitProof(parent_hashes, Len(indices))
      hashes == NodeHashes(utxos, indices, split.proof, num_nodes)
      peaks == PeakIndices(num_nodes)
      mountain == Min({p \in ToSet(peaks) : p >= LeafPosition(last)})
      bagged == BaggedPeaks(peaks, first, mountain)
      beyond == SelectSeq(peaks, LAMBDA p : p > mountain)
      needed == IF split.lower_peak = Missing THEN bagged \o beyond ELSE bagged
      given == [i \in DOMAIN needed |-> hashes[needed[i]]]
      root == BagPeaks(IF split.lower_peak = Missing THEN given ELSE Append(given, split.lower_peak), num_nodes)
  IN IF ~split.ok THEN "proof"
     ELSE IF \E i \in DOMAIN given : given[i] = Missing THEN "proof"
     ELSE IF root # output_root THEN "proof" ELSE "ok"

(* Faulty variant: an output at a leaf that the leafset calls spent is taken. *)
VerifyUnlisted(batch, leafset, header) ==
  LET num_leaves == header.output_mmr_size
      bits == LeafsetRoot(leafset.bits, num_leaves)
  IN IF batch.utxos = << >> THEN "ok"
     ELSE IF \E i \in 2 .. Len(batch.utxos) : batch.utxos[i - 1][1] >= batch.utxos[i][1] THEN "protocol"
     ELSE IF \E i \in DOMAIN batch.utxos : batch.utxos[i][1] >= num_leaves THEN "protocol"
     ELSE VerifySegmentRoot(batch.utxos, batch.parent_hashes, bits, num_leaves, header.output_root)

(* verify_utxo_batch; when nothing is spent and the batch is everything, the *)
(* root may be rebuilt without parent hashes.                                *)
VerifyUtxoBatch(batch, leafset, header) ==
  LET num_leaves == header.output_mmr_size
      bits == LeafsetRoot(leafset.bits, num_leaves)
      leaves == [i \in DOMAIN batch.utxos |-> batch.utxos[i][1]]
      whole == leaves = [i \in 1 .. num_leaves |-> i - 1] /\ leafset.bits = 0 .. num_leaves - 1
  IN IF batch.utxos = << >> THEN "ok"
     ELSE IF num_leaves = 0 THEN "protocol"
     ELSE IF \E i \in 2 .. Len(leaves) : leaves[i - 1] >= leaves[i] THEN "protocol"
     ELSE IF \E i \in DOMAIN leaves : leaves[i] >= num_leaves THEN "protocol"
     ELSE IF leafset.bytes < BytesFor(num_leaves) THEN "protocol"
     ELSE IF ~(ToSet(leaves) \subseteq bits) THEN "proof"
     ELSE IF whole /\ Root(MemMmr([i \in DOMAIN leaves |-> batch.utxos[i][2]])) = header.output_root THEN "ok"
     ELSE VerifySegmentRoot(batch.utxos, batch.parent_hashes, bits, num_leaves, header.output_root)

(* verify_leafset_at; bytes beyond those of the output set are not looked at. *)
VerifyLeafsetAt(msg, block_hash, header) ==
  IF msg.block_hash # block_hash THEN "protocol"
  ELSE IF msg.bytes < BytesFor(header.output_mmr_size) THEN "protocol"
  ELSE IF LeafsetRoot(msg.bits, header.output_mmr_size) # header.leafset_root THEN "proof"
  ELSE "ok"

-----------------------------------------------------------------------------
(* The hashes a server sends with the leaves first .. last: those of         *)
(* calc_hash_indices, and the bag of the peaks to the right if there are any. *)
ParentHashes(hashes, unspent, num_leaves, first, last) ==
  LET indices == Sorted(HashIndices(unspent, num_leaves, first, last))
      peaks == PeakIndices(Len(hashes))
      mountain == Min({p \in ToSet(peaks) : p >= LeafPosition(last)})
      beyond == SelectSeq(peaks, LAMBDA p : p > mountain)
      lower_peak == BagPeaks([i \in DOMAIN beyond |-> hashes[beyond[i] + 1]], Len(hashes))
  IN [i \in DOMAIN indices |-> hashes[indices[i] + 1]]
       \o (IF beyond = << >> THEN << >> ELSE <<lower_peak>>)

=============================================================================
