---------------------------- MODULE MCMwebVerify ----------------------------
(* Passes over every set of unspent leaves of up to three outputs, and over  *)
(* some of four, five and seven (three mountains), and of nine, where a      *)
(* second byte of the leafset begins.                                        *)
EXTENDS Lip0006

Outputs(n) == [i \in 1 .. n |-> i]

MCChains ==
  {[ids |-> Outputs(n), unspent |-> u] : n \in 0 .. 3, u \in SUBSET (0 .. 2)}
    \cup {[ids |-> Outputs(4), unspent |-> u] : u \in {{0, 2, 3}, {1, 3}, 0 .. 3}}
    \cup {[ids |-> Outputs(5), unspent |-> u] : u \in {{0, 2, 4}, {1, 3, 4}}}
    \cup {[ids |-> Outputs(7), unspent |-> u] : u \in {{0, 3, 6}, {1, 4, 5}}}
    \cup {[ids |-> Outputs(9), unspent |-> u] : u \in {{0, 5, 8}}}
WellFormed == {c \in MCChains : c.unspent \subseteq 0 .. Len(c.ids) - 1}

MCPhantom == 99

(* An output added, or the first unspent one replaced by one that never was  *)
(* or taken for spent.                                                       *)
MCServed(c) ==
  {[c EXCEPT !.ids = Append(@, MCPhantom), !.unspent = @ \cup {Len(c.ids)}]}
    \cup (IF c.unspent = {} THEN {}
          ELSE LET k == CHOOSE k \in c.unspent : \A j \in c.unspent : k <= j
               IN {[c EXCEPT !.ids[k + 1] = MCPhantom], [c EXCEPT !.unspent = @ \ {k}]})
=============================================================================
