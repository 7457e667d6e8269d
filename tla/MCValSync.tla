----------------------------- MODULE MCValSync -----------------------------
(***************************************************************************)
(* ValSync for a few nodes, operations and transactions.                   *)
(***************************************************************************)
EXTENDS ValSync, TLC

CONSTANTS ConfirmedEpoch  \* every operation is confirmed for this epoch

MCConfirmed == [o \in Ops |-> {ConfirmedEpoch}]

Symmetric == Permutations(Nodes) \cup Permutations(Txs)

=============================================================================
