------------------------------ MODULE TxGraph ------------------------------
(***************************************************************************)
(* The transaction graph (crates/chain, tx_graph.rs) and its changeset as  *)
(* operators.  A graph is a record of maps over the transaction ids;       *)
(* None stands for a missing entry.  Of a transaction are kept its         *)
(* previous outputs, the script of each output and the witness of each     *)
(* input: 0 is the empty witness and the others are numbered in the order  *)
(* (size, bytes) that insert_tx compares.  Anchors are block ids.  The     *)
(* outpoint index `spends` holds exactly the inputs of the whole           *)
(* transactions, so it is an operator and not a field.                     *)
(***************************************************************************)
EXTENDS Naturals, Sequences, FiniteSets, Subsequences

CONSTANTS
  Txid,    \* transaction ids, their order stands for the order of the hashes
  Spk,     \* output scripts
  Vout,    \* output positions
  Block,   \* block ids <<height, hash>>
  Time,    \* times at which a transaction is seen in, or missing from, a mempool
  None     \* no entry

ASSUME GraphAssumption ==
  /\ Txid \subseteq Nat \ {0}
  /\ Time \subseteq Nat
  /\ \A b \in Block : b[1] \in Nat
  /\ None \notin Time /\ None \notin Spk

OutPoint == Txid \X Vout

(* The previous output of a coinbase input: no transaction has the id 0. *)
Null == <<0, 0>>

Height(b) == b[1]

(* The present values of an optional timestamp, as a set. *)
Present(m) == {x \in {m} : x # None}
Earliest(m, n) == IF m = None \/ n = None THEN IF m = None THEN n ELSE m
                  ELSE IF n < m THEN n ELSE m
Latest(m, n) == IF m = None \/ n = None THEN IF m = None THEN n ELSE m
                ELSE IF n > m THEN n ELSE m

-----------------------------------------------------------------------------
(* Reading the graph. *)

EmptyGraph ==
  [txs |-> [t \in Txid |-> None],
   txouts |-> [op \in OutPoint |-> None],
   anchors |-> [t \in Txid |-> {}],
   first_seen |-> [t \in Txid |-> None],
   last_seen |-> [t \in Txid |-> None],
   last_evicted |-> [t \in Txid |-> None],
   by_conf_height |-> {},
   by_last_seen |-> {}]

Whole(g) == {t \in Txid : g.txs[t] # None}

Prevouts(tx) == {tx.input[i] : i \in DOMAIN tx.input} \ {Null}
IsCoinbase(tx) == tx.input = <<Null>>

(* The outputs of a transaction as pairs <<outpoint, script>>. *)
Outputs(t, tx) == [i \in DOMAIN tx.output |-> << <<t, i - 1>>, tx.output[i]>>]

OutspendsOf(g, op) == {t \in Whole(g) : op \in Prevouts(g.txs[t])}
DirectConflicts(g, t) == (UNION {OutspendsOf(g, op) : op \in Prevouts(g.txs[t])}) \ {t}
Children(g, t) == {c \in Whole(g) : \E op \in Prevouts(g.txs[c]) : op[1] = t}
Parents(g, t) == {p \in Whole(g) : t \in Children(g, p)}

IsEvicted(g, t) ==
  /\ g.last_evicted[t] # None
  /\ g.last_seen[t] # None => g.last_evicted[t] >= g.last_seen[t]

(* TxDescendants::new_include_root with a filter that turns back at `skip`: *)
(* the least set with these roots that the children outside skip do not     *)
(* leave.                                                                   *)
Descendants(g, roots, skip) ==
  LET open == Whole(g) \ skip
  IN {t \in open :
        \A S \in SUBSET open :
          (/\ roots \cap open \subseteq S
           /\ \A x \in S : Children(g, x) \cap open \subseteq S) => t \in S}

(* The height under which a transaction is filed: that of its last anchor. *)
TopHeight(anchors) ==
  LET hs == {Height(b) : b \in anchors} IN CHOOSE h \in hs : \A k \in hs : k <= h

-----------------------------------------------------------------------------
(* The changeset. *)

EmptyChangeSet ==
  [txs |-> {}, txouts |-> [op \in OutPoint |-> None], anchors |-> {},
   first_seen |-> [t \in Txid |-> None],
   last_seen |-> [t \in Txid |-> None],
   last_evicted |-> [t \in Txid |-> None]]

(* Merge: times of first sight only go down, the other times only up. *)
MergeChangeSets(cs, other) ==
  [txs |-> cs.txs \cup other.txs,
   txouts |-> [op \in OutPoint |-> IF other.txouts[op] # None THEN other.txouts[op] ELSE cs.txouts[op]],
   anchors |-> cs.anchors \cup other.anchors,
   first_seen |-> [t \in Txid |-> Earliest(cs.first_seen[t], other.first_seen[t])],
   last_seen |-> [t \in Txid |-> Latest(cs.last_seen[t], other.last_seen[t])],
   last_evicted |-> [t \in Txid |-> Latest(cs.last_evicted[t], other.last_evicted[t])]]

-----------------------------------------------------------------------------
(* Inserting.  Each operation returns the graph and the changeset. *)

BestWitness(w, v) == IF w = 0 \/ v = 0 THEN w + v ELSE IF v < w THEN v ELSE w

MergeWitnesses(tx, other) ==
  [tx EXCEPT !.witness = [i \in DOMAIN tx.witness |-> BestWitness(tx.witness[i], other.witness[i])]]

(* insert_tx: a new transaction replaces the floating outputs of its id; a   *)
(* known one takes the better witness of each input.                         *)
InsertTx(g, t, tx) ==
  LET merged == IF t \in Whole(g) THEN MergeWitnesses(g.txs[t], tx) ELSE tx
  IN IF g.txs[t] = merged THEN [g |-> g, cs |-> EmptyChangeSet]
     ELSE [g |-> [g EXCEPT !.txs[t] = merged,
                           !.txouts = [op \in OutPoint |-> IF op[1] = t THEN None ELSE @[op]]],
           cs |-> [EmptyChangeSet EXCEPT !.txs = {<<t, merged>>}]]

(* insert_txout: ignored when the whole transaction is known. *)
InsertTxOut(g, op, spk) ==
  IF op[1] \in Whole(g) \/ g.txouts[op] # None THEN [g |-> g, cs |-> EmptyChangeSet]
  ELSE [g |-> [g EXCEPT !.txouts[op] = spk], cs |-> [EmptyChangeSet EXCEPT !.txouts[op] = spk]]

(* insert_anchor: the transaction is filed under the greater of the new      *)
(* anchor's height and the one it was filed under.                           *)
InsertAnchor(g, t, b) ==
  LET old == g.anchors[t]
      top == IF old # {} /\ TopHeight(old) > Height(b) THEN TopHeight(old) ELSE Height(b)
      filed == IF old = {} THEN {} ELSE {<<TopHeight(old), t>>}
  IN IF b \in old THEN [g |-> g, cs |-> EmptyChangeSet]
     ELSE [g |-> [g EXCEPT !.anchors[t] = old \cup {b},
                           !.by_conf_height = (@ \ filed) \cup {<<top, t>>}],
           cs |-> [EmptyChangeSet EXCEPT !.anchors = {<<b, t>>}]]

(* insert_seen_at: update_first_seen and update_last_seen. *)
InsertSeenAt(g, t, at) ==
  LET first == Earliest(g.first_seen[t], at)
      last == Latest(g.last_seen[t], at)
      filed == {<<x, t>> : x \in Present(g.last_seen[t])}
      Changed(new, old) == IF new = old THEN None ELSE new
  IN [g |-> [g EXCEPT !.first_seen[t] = first, !.last_seen[t] = last,
                      !.by_last_seen = (@ \ filed) \cup {<<last, t>>}],
      cs |-> [EmptyChangeSet EXCEPT !.first_seen[t] = Changed(first, g.first_seen[t]),
                                    !.last_seen[t] = Changed(last, g.last_seen[t])]]

InsertEvictedAt(g, t, at) ==
  LET last == Latest(g.last_evicted[t], at)
  IN [g |-> [g EXCEPT !.last_evicted[t] = last],
      cs |-> [EmptyChangeSet EXCEPT !.last_evicted[t] =
                IF last = g.last_evicted[t] THEN None ELSE last]]

-----------------------------------------------------------------------------
(* Several insertions, one after the other: each merges its change set into  *)
(* the one so far.  An insertion is a pair of its kind and its arguments.    *)

Merged(r, s) == [g |-> s.g, cs |-> MergeChangeSets(r.cs, s.cs)]
Untouched(g) == [g |-> g, cs |-> EmptyChangeSet]

Insert(g, kind, x) ==
  CASE kind = "tx" -> InsertTx(g, x[1], x[2])
    [] kind = "txout" -> InsertTxOut(g, x[1], x[2])
    [] kind = "anchor" -> InsertAnchor(g, x[2], x[1])
    [] kind = "seen" -> InsertSeenAt(g, x[1], x[2])
    [] kind = "evicted" -> InsertEvictedAt(g, x[1], x[2])

InsertAll(g, insertions) ==
  Fold(LAMBDA r, x : Merged(r, Insert(r.g, x[1], x[2])), Untouched(g), insertions)

Each(kind, xs) == [i \in DOMAIN xs |-> <<kind, xs[i]>>]

(* The transactions the graph has a node for, whole or partial. *)
Tracked(g) == Whole(g) \cup {op[1] : op \in {o \in OutPoint : g.txouts[o] # None}}

(* get_txout: the script of an output of a whole or a partial transaction. *)
GetTxOut(g, op) ==
  IF op[1] \notin Whole(g) THEN g.txouts[op]
  ELSE IF op[2] + 1 \in DOMAIN g.txs[op[1]].output THEN g.txs[op[1]].output[op[2] + 1] ELSE None

(* batch_insert_unconfirmed, over a sequence of <<txid, tx, seen at>>. *)
BatchInsertUnconfirmed(g, txs) ==
  InsertAll(g, InTurns(Each("seen", [i \in DOMAIN txs |-> <<txs[i][1], txs[i][3]>>]),
                       Each("tx", [i \in DOMAIN txs |-> <<txs[i][1], txs[i][2]>>])))

(* batch_insert_relevant_evicted_at: only for transactions of the graph. *)
BatchInsertRelevantEvictedAt(g, ts, at) ==
  InsertAll(g, Each("evicted", Listing((ts \cap Tracked(g)) \X {at})))

(* apply_update: an update of a chain source, in this order of its parts. *)
ApplyTxUpdate(g, update) ==
  InsertAll(g, Each("tx", Listing(update.txs)) \o Each("txout", Listing(update.txouts))
                 \o Each("anchor", Listing(update.anchors)) \o Each("seen", Listing(update.seen_ats))
                 \o Each("evicted", Listing(update.evicted_ats)))

EmptyTxUpdate == [txs |-> {}, txouts |-> {}, anchors |-> {}, seen_ats |-> {}, evicted_ats |-> {}]

Entries(map) == {<<k, map[k]>> : k \in {j \in DOMAIN map : map[j] # None}}

(* apply_changeset: as an update, the first sightings left out. *)
ApplyChangeSet(g, cs) ==
  ApplyTxUpdate(g, [txs |-> cs.txs, txouts |-> Entries(cs.txouts), anchors |-> cs.anchors,
                    seen_ats |-> Entries(cs.last_seen), evicted_ats |-> Entries(cs.last_evicted)]).g

InitialChangeSet(g) ==
  [txs |-> Entries(g.txs), txouts |-> g.txouts,
   anchors |-> UNION {g.anchors[t] \X {t} : t \in Txid},
   first_seen |-> g.first_seen, last_seen |-> g.last_seen, last_evicted |-> g.last_evicted]

=============================================================================
