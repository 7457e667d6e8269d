----------------------------- MODULE MCStaking -----------------------------
(***************************************************************************)
(* Staking for two accounts.                                               *)
(***************************************************************************)
EXTENDS Staking

CONSTANTS a1, a2

\* The trial gives all of the profit to a1 and all of the stake to a2; after
\* it, the profit is shared and the stake is a1's.
MCProfitShare == [t \in BOOLEAN |-> [a \in Addr |->
  IF t THEN IF a = a1 THEN 100 ELSE 0 ELSE 50]]
MCStakeShare == [t \in BOOLEAN |-> [a \in Addr |->
  IF t = (a = a2) THEN 100 ELSE 0]]
MCExitBy == [t \in BOOLEAN |-> {a2}]
MCWithdrawalBy == [t \in BOOLEAN |-> IF t THEN {a2} ELSE {a1, a2}]

=============================================================================
