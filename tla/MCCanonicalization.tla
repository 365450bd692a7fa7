------------------------- MODULE MCCanonicalization -------------------------
(* Four transactions, 1 to 4, spending outputs of each other and of an       *)
(* unknown transaction 5, in every combination of what is known of each.     *)
EXTENDS Canonicalization
LOCAL INSTANCE FiniteSetsExt

MCBlock == {<<0, "g">>, <<1, "a">>, <<2, "a">>, <<3, "a">>, <<1, "b">>, <<2, "b">>}
MCChain == {<<0, "g">>, <<1, "a">>, <<2, "a">>}
Longer == MCChain \cup {<<3, "a">>}
Reorged == {<<0, "g">>, <<1, "b">>, <<2, "b">>}

Tx(input) == [input |-> input, output |-> <<"spk", "spk">>, witness |-> [i \in DOMAIN input |-> 0]]

(* A chain of three against one rival of its first. *)
Rivals == <<Tx(<< <<5, 0>> >>), Tx(<< <<1, 0>> >>), Tx(<< <<5, 0>> >>), Tx(<< <<2, 0>> >>)>>
(* 4 spends a transaction and the rival of that one's parent. *)
DoubleSpend == <<Tx(<< <<5, 0>> >>), Tx(<< <<1, 0>> >>), Tx(<< <<5, 0>> >>), Tx(<< <<2, 0>>, <<3, 0>> >>)>>
(* A coinbase with two rival children and a grandchild that joins branches. *)
Mined == <<Tx(<<Null>>), Tx(<< <<1, 0>> >>), Tx(<< <<1, 0>>, <<5, 0>> >>), Tx(<< <<2, 0>>, <<1, 1>> >>)>>

Topologies == {Rivals, DoubleSpend, Mined}

(* What may be known of a transaction besides its body: nothing, that it is  *)
(* in the mempool, in the chain, in a block of another chain, or in such a   *)
(* block and evicted from the mempool.                                       *)
Profile == {"bare", "mempool", "chain", "stale", "evicted"}

Anchors(t, p) ==
  CASE p \in {"bare", "mempool"} -> {}
    [] p \in {"stale", "evicted"} -> {<<1, "b">>}
    [] p = "chain" -> IF t <= 2 THEN {<<1, "a">>} ELSE {<<1, "b">>, <<2, "a">>}

LastSeen(t, p) ==
  CASE p = "mempool" -> IF t = 1 THEN 2 ELSE 1
    [] p = "evicted" -> 2
    [] OTHER -> None

LastEvicted(p) == IF p = "evicted" THEN 2 ELSE None

(* The graph after the program has inserted all this. *)
Add(g, t, tx, p) ==
  LET g1 == InsertTx(g, t, tx).g
      g2 == FoldSet(LAMBDA b, h : InsertAnchor(h, t, b).g, g1, Anchors(t, p))
      g3 == FoldSet(LAMBDA at, h : InsertSeenAt(h, t, at).g, g2, Present(LastSeen(t, p)))
  IN FoldSet(LAMBDA at, h : InsertEvictedAt(h, t, at).g, g3, Present(LastEvicted(p)))

(* Of transaction 5 an output is known, but not the transaction. *)
GraphOf(topology, p) ==
  FoldSet(LAMBDA t, g : Add(g, t, topology[t], p[t]),
          InsertTxOut(EmptyGraph, <<5, 0>>, "spk").g, 1 .. 4)

(* No chain holds a double spend, or a coinbase that was in a mempool: a       *)
(* transaction in the chain has no rival there, nor has an ancestor of it.     *)
IsPossible(g) ==
  /\ ConflictFree(g, History(g, MCChain))
  /\ \A t \in Whole(g) : IsCoinbase(g.txs[t]) => g.last_seen[t] = None

MCGraphs == {g \in {GraphOf(topology, p) : topology \in Topologies, p \in [1 .. 4 -> Profile]} : IsPossible(g)}

MCSetups ==
  {[graph |-> g, assume |-> assume, chain |-> MCChain, later |-> {Longer, Reorged}] :
     g \in MCGraphs, assume \in {<< >>, <<1, 4>>, <<3, 1>>}}

=============================================================================
