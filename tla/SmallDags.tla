------------------------------ MODULE SmallDags ------------------------------
(***************************************************************************)
(* Every small DAG of blocks, for the models that run on all of them.      *)
(***************************************************************************)
EXTENDS Integers, FiniteSets

CONSTANTS NBlocks, NSlots

MCBlock == 0..NBlocks

RECURSIVE AncestorsOf(_, _)
AncestorsOf(parents, b) ==
  parents[b] \cup UNION {AncestorsOf(parents, p) : p \in parents[b]}

(***************************************************************************)
(* Every DAG whose checkpoints are all the genesis: a parent is in an      *)
(* earlier slot, and a block's parents are not each other's ancestors.     *)
(* The blocks of a DAG are numbered along their slots, except that within  *)
(* a slot the number is only the hash.                                     *)
(***************************************************************************)
Slots ==
  {sl \in [MCBlock -> 0..NSlots] :
     /\ sl[0] = 0 /\ \A b \in 1..NBlocks : sl[b] > 0
     /\ \A b \in 1..NBlocks : sl[b - 1] <= sl[b]}

\* The parents of the blocks 0..n.
RECURSIVE ParentSets(_, _)
ParentSets(sl, n) ==
  IF n = 0 THEN {[b \in {0} |-> {}]}
  ELSE UNION {{[b \in 0..n |-> IF b = n THEN P ELSE ps[b]] :
                 P \in {Q \in SUBSET {p \in 0..(n - 1) : sl[p] < sl[n]} :
                          Q # {} /\ \A p, q \in Q : p \notin AncestorsOf(ps, q)}}
              : ps \in ParentSets(sl, n - 1)}

Dag(sl, ps) ==
  [slot |-> sl, parents |-> ps, cp |-> [b \in MCBlock |-> 0],
   past |-> [b \in MCBlock |-> {b} \cup AncestorsOf(ps, b)],
   height |-> [b \in MCBlock |-> Cardinality(AncestorsOf(ps, b))]]

MCDags == UNION {{Dag(sl, ps) : ps \in ParentSets(sl, NBlocks)} : sl \in Slots}

\* Those that end in the second slot, and the chain of a block in each slot.
MCFaultyDags ==
  {d \in MCDags : \/ \A b \in MCBlock : d.slot[b] <= 2
                  \/ \A b \in 1..NBlocks : d.parents[b] = {b - 1}}

(***************************************************************************)
(* The DAGs among them in which a block may stand on a later checkpoint    *)
(* than the genesis: an ancestor of the block, no older than the           *)
(* checkpoints of its parents.                                             *)
(***************************************************************************)
Checkpoints(d) ==
  {cp \in [MCBlock -> 0..(NBlocks - 1)] :
     /\ cp[0] = 0
     /\ \A b \in 1..NBlocks :
          /\ cp[b] \in d.past[b] \ {b}
          /\ \A p \in d.parents[b] : cp[p] \in d.past[cp[b]]}

MCCpDags ==
  UNION {{[d EXCEPT !.cp = cp] : cp \in Checkpoints(d)} : d \in MCDags}

=============================================================================
