----------------------------- MODULE MCMwebPeers -----------------------------
(* Three peers, the first unlike the two others, which differ as well; the   *)
(* first tip has one batch and another in part, the second tip one leaf more. *)
EXTENDS MwebPeers

MCAddresses == <<"p", "q", "r">>
Behaviours == <<"good", "busy", "flaky", "bad", "dead", "partial">>
MCHealths ==
  {[p |-> Behaviours[i], q |-> Behaviours[j], r |-> Behaviours[k]] :
     <<i, j, k>> \in {x \in (1 .. 6) \X (1 .. 6) \X (1 .. 6) : x[1] \notin {x[2], x[3]} /\ x[2] > x[3]}}
MCLeavesAt == [h \in 0 .. 2 |-> <<0, 3, 4>>[h + 1]]
==============================================================================
