--------------------------- MODULE CheckPointList ---------------------------
(***************************************************************************)
(* A CheckPoint list in the hands of a chain source, changed by            *)
(* CheckPoint::push and CheckPoint::insert (crates/core, checkpoint.rs) as  *)
(* electrum, esplora and bip158 do when they build an update.  A push that *)
(* is refused returns the list as it was; an insert that would replace the *)
(* genesis block panics, so it is no step.                                 *)
(***************************************************************************)
EXTENDS CheckPoint

VARIABLE list

(* CheckPoint::new at any height: the list need not hold a genesis block. *)
ListInit == \E id \in BlockIds : list = [h \in Height |-> IF h = id[1] THEN id[2] ELSE None]

Push(h, b) ==
  /\ CanPush(list, h, b)
  /\ list' = [list EXCEPT ![h] = b]

DoInsert(h, b) ==
  /\ ~InsertPanics(list, h, b)
  /\ list' = Insert(list, h, b)

ListNext == \E id \in BlockIds : Push(id[1], id[2]) \/ DoInsert(id[1], id[2])

ListSpec == ListInit /\ [][ListNext]_list

-----------------------------------------------------------------------------
(* Properties. *)

(* However pushes and inserts of blocks of several branches alternate, no     *)
(* block of the list names another predecessor than the block stored there.   *)
LinksHold == IsLinked(list)

(* A block of the branch that the list is on costs the list nothing, wherever *)
(* it is inserted.                                                            *)
InsertKeepsBranch ==
  [][\A id \in BlockIds : DoInsert(id[1], id[2]) =>
       \A b \in Branches : (OnBranch(list, b) /\ b[id[1]] = id[2]) =>
         \A h \in Height : list[h] # None => list'[h] = list[h]]_list

(* A genesis block that is in the list stays in it ("it stays immutable and   *)
(* can't be replaced").                                                       *)
GenesisStays == [][list[0] # None => list'[0] = list[0]]_list
=============================================================================
