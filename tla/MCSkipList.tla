---------------------------- MODULE MCSkipList ------------------------------
(* Lists that begin with any mix of neighbours and gaps and go on evenly:    *)
(* the first pushes choose the heights freely, the rest make the list long   *)
(* enough for skips over skips.                                              *)
EXTENDS SkipList

CONSTANTS FreeGaps, FreeNodes, EvenGap

MCGaps == [i \in 0..MaxIndex |-> IF i < FreeNodes THEN FreeGaps ELSE {EvenGap}]
=============================================================================
