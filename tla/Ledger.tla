------------------------------- MODULE Ledger -------------------------------
(***************************************************************************)
(* What finalization promises: a chain of distinct blocks, numbered from   *)
(* the genesis without gaps, that changes only at its end.  A block is     *)
(* appended only when all its parents are in the chain.                    *)
(***************************************************************************)
EXTENDS Integers

CONSTANTS Block, Genesis

VARIABLES
  parents,  \* the parents of each block, fixed
  chain     \* the block at each number

lvars == <<parents, chain>>

InChain(b) == \E n \in DOMAIN chain : chain[n] = b

Init ==
  /\ parents \in [Block -> SUBSET Block]
  /\ chain = [n \in {0} |-> Genesis]

\* A block follows its parents at the end of the chain.
Append ==
  \E n \in DOMAIN chain, b \in Block :
    /\ DOMAIN chain = 0..n
    /\ ~InChain(b)
    /\ \A p \in parents[b] : InChain(p)
    /\ chain' = [m \in 0..(n + 1) |-> IF m = n + 1 THEN b ELSE chain[m]]
    /\ UNCHANGED parents

\* The last block leaves the chain.
DropLast ==
  \E n \in DOMAIN chain :
    /\ DOMAIN chain = 0..(n + 1)
    /\ chain' = [m \in 0..n |-> chain[m]]
    /\ UNCHANGED parents

Next == Append \/ DropLast

Spec == Init /\ [][Next]_lvars

=============================================================================
