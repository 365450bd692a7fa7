---------------------------- MODULE Subsequences ----------------------------
(* Filtering a sequence by position, going through a sequence step by step,  *)
(* and listing a set, without recursive operators.                           *)
EXTENDS Naturals, Sequences, FiniteSets

(* The elements of a sequence at the given positions, in their order. *)
Subsequence(s, positions) ==
  LET Rank(i) == Cardinality({j \in positions : j <= i})
  IN [k \in 1 .. Cardinality(positions) |-> s[CHOOSE i \in positions : Rank(i) = k]]

(* What a loop over the elements makes of its first value. *)
Fold(Step(_, _), first, s) ==
  LET value[i \in 0 .. Len(s)] == IF i = 0 THEN first ELSE Step(value[i - 1], s[i])
  IN value[Len(s)]

(* The elements of a finite set, each once, in some order. *)
Listing(S) ==
  CHOOSE f \in [1 .. Cardinality(S) -> S] : \A x \in S : \E i \in 1 .. Cardinality(S) : f[i] = x

(* The elements of two sequences of one length in turns. *)
InTurns(s, t) ==
  [i \in 1 .. 2 * Len(s) |-> IF i % 2 = 1 THEN s[(i + 1) \div 2] ELSE t[(i + 1) \div 2]]
=============================================================================
