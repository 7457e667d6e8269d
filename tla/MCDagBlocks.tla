----------------------------- MODULE MCDagBlocks -----------------------------
(***************************************************************************)
(* DagBlocks for two nodes and four blocks in three slots, one checkpoint. *)
(***************************************************************************)
EXTENDS DagBlocks

MCConfigs ==
  {[blocks |-> 4, slots |-> 3, cps |-> 1, forkSlotPrefixFin |-> 0, creators |-> 2]}
=============================================================================
