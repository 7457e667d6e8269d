------------------------------ MODULE BlockDag ------------------------------
(***************************************************************************)
(* The block DAG and the order in which a spine's past is linearised.      *)
(*                                                                         *)
(* A block is identified with its hash, and hashes are compared as numbers *)
(* (common.Hash.Big().Cmp), so Block is a set of naturals.  A DAG is a     *)
(* record of header fields:                                                *)
(*   slot[b], height[b]   Header.Slot, Header.Height                       *)
(*   parents[b]           Header.ParentHashes                              *)
(*   cp[b]                Header.CpHash, the checkpoint b was built on     *)
(*   past[b]              b and its ancestors, which the parents determine *)
(* Dags is the set of DAGs the network may build.                          *)
(***************************************************************************)
EXTENDS Integers, FiniteSets

CONSTANTS
  Block,    \* hashes of all the blocks that are ever built
  Genesis,  \* the genesis block
  Dags      \* the DAGs that the creators of the network may build over Block

ASSUME BlockAssumption == Block \subseteq Nat /\ Genesis \in Block

(***************************************************************************)
(* What verifyBlockParents enforces: a block has parents, all of them in   *)
(* earlier slots and of smaller height.                                    *)
(***************************************************************************)
WellFormed(d) ==
  /\ d.slot \in [Block -> Nat]
  /\ d.height \in [Block -> Nat]
  /\ d.parents \in [Block -> SUBSET Block]
  /\ d.cp \in [Block -> Block]
  /\ d.past \in [Block -> SUBSET Block]
  /\ \A b \in Block : d.past[b] = {b} \cup UNION {d.past[p] : p \in d.parents[b]}
  /\ d.parents[Genesis] = {}
  /\ \A b \in Block \ {Genesis} : d.parents[b] # {}
  /\ \A b \in Block : \A p \in d.parents[b] :
       d.slot[p] < d.slot[b] /\ d.height[p] < d.height[b]

ASSUME DagAssumption == \A d \in Dags : WellFormed(d)

(***************************************************************************)
(* The smallest set of blocks that contains s and, with a block, those of  *)
(* its parents that are in `open': what the recursion of spineProcessBlock *)
(* collects when open is the set of blocks without a finalized number.     *)
(***************************************************************************)
PastWithin(d, s, open) ==
  {b \in Block :
     \A C \in SUBSET Block :
       /\ s \in C
       /\ \A c \in C : d.parents[c] \cap open \subseteq C
       => b \in C}

(***************************************************************************)
(* The finalization order of the blocks of one chain: by slot, and inside  *)
(* a slot the order of SpineSortBlocks: height descending, number of       *)
(* parents descending, hash ascending.                                     *)
(***************************************************************************)
Before(d, a, b) ==
  \/ d.slot[a] < d.slot[b]
  \/ /\ d.slot[a] = d.slot[b]
     /\ \/ d.height[a] > d.height[b]
        \/ /\ d.height[a] = d.height[b]
           /\ \/ Cardinality(d.parents[a]) > Cardinality(d.parents[b])
              \/ /\ Cardinality(d.parents[a]) = Cardinality(d.parents[b])
                 /\ a < b

\* Mutant: blocks of one slot in any order.
IsFirstBySlot(d, b, S) == b \in S /\ \A c \in S \ {b} : d.slot[b] <= d.slot[c]

\* b opens the chain that orders the set of blocks S.
IsFirst(d, b, S) == b \in S /\ \A c \in S \ {b} : Before(d, b, c)

=============================================================================
