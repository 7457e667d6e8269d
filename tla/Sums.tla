-------------------------------- MODULE Sums --------------------------------
(***************************************************************************)
(* The sum of a function to natural numbers: each value is so many coins,  *)
(* and the sum is the number of all the coins.  Negative values are debts. *)
(***************************************************************************)
EXTENDS Integers, FiniteSets

Coins(f) == UNION {{a} \X (1 .. f[a]) : a \in DOMAIN f}
SumOf(f) == Cardinality(Coins(f))

Assets(f) == [a \in DOMAIN f |-> IF f[a] > 0 THEN f[a] ELSE 0]
Debts(f) == [a \in DOMAIN f |-> IF f[a] < 0 THEN -f[a] ELSE 0]
NetOf(f) == SumOf(Assets(f)) - SumOf(Debts(f))

=============================================================================
