--------------------------- MODULE MCChainSources ---------------------------
(* Two branches that part above a1; t1 and t2 are on both, at different      *)
(* heights, t3 spends t2.  t2 pays script 3, behind a gap that is too wide   *)
(* unless the revealed script 1 is left out of the count.  t4, below the     *)
(* fork, pays a script that only the block sources look for.                 *)
EXTENDS ChainSources

CONSTANTS g, x, a1, a2, a3, b2, b3, b4, t1, t2, t3, t4

MCBlock == {g, x, a1, a2, a3, b2, b3, b4}
Chain(c0, c1, c2, c3, c4) == [h \in 0 .. 4 |-> <<c0, c1, c2, c3, c4>>[h + 1]]
BranchA == Chain(g, a1, a2, a3, None)
MCBranches == {BranchA, Chain(g, a1, b2, b3, b4)}
MCParent ==
  [b \in MCBlock |-> CASE b \in {g, x} -> None [] b = a1 -> g [] b \in {a2, b2} -> a1
                       [] b = a3 -> a2 [] b = b3 -> b2 [] b = b4 -> b3]
NoneLinked == {}

MCTxsIn ==
  [b \in MCBlock |-> CASE b = a1 -> {t4} [] b = a2 -> {t1} [] b = a3 -> {t2} [] b = b3 -> {t1} [] b = b4 -> {t2, t3}
                       [] OTHER -> {}]
(* t1 in blocks of the same height. *)
TxsInSameHeight ==
  [b \in MCBlock |-> CASE b \in {a2, b2} -> {t1} [] b \in {a3, b3} -> {t2} [] b = b4 -> {t3} [] OTHER -> {}]
MCSpksOf == [t \in {t1, t2, t3, t4} |-> IF t = t1 THEN {0} ELSE IF t = t4 THEN {6} ELSE {3}]
MCSpenderOf == [t \in {t1, t2, t3, t4} |-> IF t = t2 THEN t3 ELSE None]

Graph(anchors, live) == [txs |-> {a[1] : a \in anchors} \cup live, anchors |-> anchors, live |-> live]
(* A new wallet, one of another network, one that is ahead of the server and  *)
(* one left on the other branch.                                              *)
MCWallets ==
  {[chain |-> Chain(g, None, None, None, None), graph |-> Graph({}, {})],
   [chain |-> Chain(x, None, None, None, None), graph |-> Graph({}, {})],
   [chain |-> Chain(g, None, a2, a3, None), graph |-> Graph({<<t1, 2, a2>>, <<t2, 3, a3>>}, {})],
   [chain |-> Chain(g, None, b2, None, None), graph |-> Graph({}, {t1})]}
=============================================================================
