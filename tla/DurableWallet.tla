--------------------------- MODULE DurableWallet ---------------------------
(***************************************************************************)
(* What a wallet that is saved now and then promises.  It knows facts:     *)
(* transactions, outputs, blocks and times it was told of, and addresses   *)
(* it has revealed.  It learns facts and never forgets one while it runs;  *)
(* saving makes all it knows durable; after a crash it knows the durable   *)
(* facts, and of the addresses perhaps more: the ones it finds revealed    *)
(* when it looks through the transactions again.                           *)
(***************************************************************************)
VARIABLES
  known,         \* facts of the graph the running wallet knows
  revealed,      \* addresses it has revealed
  saved,         \* facts that survive a crash
  savedRevealed  \* addresses that survive a crash

dvars == <<known, revealed, saved, savedRevealed>>

DInit == known = {} /\ revealed = {} /\ saved = {} /\ savedRevealed = {}

Learn ==
  /\ known \subseteq known' /\ revealed \subseteq revealed'
  /\ UNCHANGED <<saved, savedRevealed>>

Save ==
  /\ saved' = known /\ savedRevealed' = revealed
  /\ UNCHANGED <<known, revealed>>

Crash ==
  /\ known' = saved /\ savedRevealed \subseteq revealed'
  /\ UNCHANGED <<saved, savedRevealed>>

DSpec == DInit /\ [][Learn \/ Save \/ Crash]_dvars
=============================================================================
