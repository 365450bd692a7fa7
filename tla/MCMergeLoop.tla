---------------------------- MODULE MCMergeLoop -----------------------------
(* Instances of MergeLoop: every pair of an original and an update over a    *)
(* block tree with forks at heights 1 and 2.                                 *)
EXTENDS MergeLoop

CONSTANTS g, x, a1, a2, a3, b1, b2, c2

MCBlock == {g, x, a1, a2, a3, b1, b2, c2}

Branch(x1, x2, x3) ==
  [h \in 0..3 |-> CASE h = 0 -> g [] h = 1 -> x1 [] h = 2 -> x2 [] h = 3 -> x3]

MCBranches == {Branch(a1, a2, a3), Branch(b1, b2, None), Branch(a1, c2, None)}

MCParent ==
  [b \in MCBlock |-> CASE b \in {g, x} -> None
                       [] b \in {a1, b1} -> g
                       [] b \in {a2, c2} -> a1
                       [] b = a3 -> a2
                       [] b = b2 -> b1]

NoneLinked == {}
Headers == MCBlock \ {g, x}
=============================================================================
