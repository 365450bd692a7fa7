---------------------------- MODULE MCFileStore -----------------------------
(* A short and a longer changeset: a longer one left half written is not     *)
(* covered by a short one written over it.                                   *)
EXTENDS FileStore

CONSTANTS short, long

MCChangeset == {short, long}
MCCells == [c \in MCChangeset \cup {Bogus} |-> IF c = long THEN 3 ELSE 2]
=============================================================================
