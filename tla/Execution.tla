----------------------------- MODULE Execution ------------------------------
(***************************************************************************)
(* The execution of the transactions of finalized blocks:                  *)
(* BlockChain.CommitBlockTransactions, applyTransaction and                *)
(* StateTransition.TransitionDb with its gas purchase, refund and reward.  *)
(*                                                                         *)
(* Blocks are written in parallel, so one transaction may be in several    *)
(* blocks and a block may hold transactions that no longer fit the state;  *)
(* nothing drops such a transaction: it gets a failed receipt and the      *)
(* block goes on.  What the EVM, the token processor (Tokens) and the      *)
(* validator processor (Staking) do is abstracted to a success or a        *)
(* failure, the gas left over and the money moved.                         *)
(***************************************************************************)
EXTENDS Integers, Sums

CONSTANTS
    Account,    \* addresses
    Coinbase,   \* the address that is paid the rewards, a member of Account
    Tx,         \* transactions
    Data,       \* Data[t]: the fields of transaction t
    BaseFee,    \* base fee of the slot
    GasLimit,   \* gas limit of a block
    Money,      \* balances at the start
    MaxApplied  \* bound: how many transactions are executed

Fields ==
    [kind : {"transfer", "call", "tokenCreate", "token"}, from : Account,
     nonce : Nat, gas : Nat, cap : Nat, tip : Nat, value : Nat, to : Account,
     intrinsic : Nat, decodes : BOOLEAN]

ASSUME ExecutionAssumption ==
    /\ IsFiniteSet(Account) /\ Coinbase \in Account
    /\ Money \in [Account -> Nat]
    /\ {BaseFee, GasLimit, MaxApplied} \subseteq Nat
    /\ \A t \in Tx : Data[t] \in Fields

VARIABLES
    exact,      \* whether every execution uses all of the gas it bought
    bal,        \* StateDB balances
    nonce,      \* StateDB nonces
    gp,         \* GasPool of the block being committed
    used,       \* cumulative gas used of the block being committed
    applied,    \* number of transactions executed so far
    succeeded,  \* history: how often a transaction has succeeded
    charged     \* history: how often a transaction has been charged

vars == <<exact, bal, nonce, gp, used, applied, succeeded, charged>>

Lesser(x, y) == IF x <= y THEN x ELSE y

-----------------------------------------------------------------------------

\* AsMessage and buyGas: the price paid per unit of gas
GasPrice(d) == Lesser(d.tip + BaseFee, d.cap)

CreatorRewardAll(gas) == gas * BaseFee + 1

\* CalcCreatorReward: a third of the base fee, BurnMultiplier being 2/3
CreatorReward(gas) == (gas * BaseFee) \div 3

NonceFits(d) == nonce[d.from] = d.nonce

Affordable(d) == bal[d.from] >= d.gas * d.cap + d.value

SubGasFits(d) == gp >= d.gas

PreCheck(d) ==
    /\ NonceFits(d)
    /\ d.cap >= d.tip
    /\ d.cap >= BaseFee
    /\ Affordable(d)
    /\ SubGasFits(d)

\* The steps after buyGas that return an error, the gas being paid for
Refused(d) ==
    \/ d.gas < d.intrinsic
    \/ d.kind = "token" /\ ~ d.decodes

\* How an execution may end: ok, the gas left, the refund counter, whether
\* the nonce is advanced and the money moved from the sender to d.to.
\* Token operations use no gas of their own; a creation whose address is
\* taken is turned down before Call advances the nonce.
NonceAdvance(d) == IF d.kind = "tokenCreate" THEN {0, 1} ELSE {1}

AdvancedOrNot(o) == TRUE

Advanced(o) == o.ok => o.adv = 1

Outcomes(d) ==
    LET all == d.gas - d.intrinsic
        lefts == IF d.kind = "call" THEN {0, all} ELSE {all}
    IN  {o \in [ok : BOOLEAN, left : lefts, counter : 0 .. 1,
                adv : NonceAdvance(d), moved : 0 .. d.value] :
            /\ Advanced(o)
            /\ ~ o.ok => o.moved = 0
            /\ d.kind \in {"transfer", "call"} /\ o.ok => o.moved = d.value
            /\ d.kind = "tokenCreate" => o.moved = 0
            /\ d.kind # "call" \/ ~ o.ok => o.counter = 0
            /\ exact => o.left = 0 /\ o.counter = 0}

\* refundGas: the refund is capped to a fifth of the gas used
Returned(d, o) == o.left + Lesser((d.gas - o.left) \div 5, o.counter)

\* TransitionDb for a message that passes preCheck and is not refused
Executed(d, o) ==
    LET p == GasPrice(d)
        bought == [bal EXCEPT ![d.from] = @ - d.gas * p]
        run == [[bought EXCEPT ![d.from] = @ - o.moved]
                          EXCEPT ![d.to] = @ + o.moved]
        refunded == [run EXCEPT ![d.from] = @ + Returned(d, o) * p]
    IN  [refunded EXCEPT ![Coinbase] =
            @ + CreatorReward(d.gas) + d.gas * (p - BaseFee)]

-----------------------------------------------------------------------------

Init ==
    /\ exact \in BOOLEAN
    /\ bal = Money
    /\ nonce = [a \in Account |-> 0]
    /\ gp = GasLimit
    /\ used = 0
    /\ applied = 0
    /\ succeeded = [t \in Tx |-> 0]
    /\ charged = [t \in Tx |-> 0]

\* CommitBlockTransactions of another block
NextBlock ==
    /\ gp # GasLimit \/ used # 0
    /\ gp' = GasLimit
    /\ used' = 0
    /\ UNCHANGED <<exact, bal, nonce, applied, succeeded, charged>>

\* preCheck fails: a failed receipt, nothing else
Skip(t) ==
    /\ applied < MaxApplied
    /\ ~ PreCheck(Data[t])
    /\ applied' = applied + 1
    /\ UNCHANGED <<exact, bal, nonce, gp, used, succeeded, charged>>

\* an error after the gas is bought: applyTransaction makes the receipt with
\* no gas used and finalises the state as it is
Refuse(t) ==
    LET d == Data[t] IN
    /\ applied < MaxApplied
    /\ PreCheck(d)
    /\ Refused(d)
    /\ bal' = [bal EXCEPT ![d.from] = @ - d.gas * GasPrice(d)]
    /\ gp' = gp - d.gas
    /\ applied' = applied + 1
    /\ charged' = [charged EXCEPT ![t] = @ + 1]
    /\ UNCHANGED <<exact, nonce, used, succeeded>>

Apply(t) ==
    LET d == Data[t] IN
    /\ applied < MaxApplied
    /\ PreCheck(d)
    /\ ~ Refused(d)
    /\ \E o \in Outcomes(d) :
          /\ bal' = Executed(d, o)
          /\ nonce' = [nonce EXCEPT ![d.from] = @ + o.adv]
          /\ gp' = gp - d.gas + Returned(d, o)
          /\ used' = used + d.gas - Returned(d, o)
          /\ succeeded' = [succeeded EXCEPT ![t] = @ + IF o.ok THEN 1 ELSE 0]
    /\ applied' = applied + 1
    /\ charged' = [charged EXCEPT ![t] = @ + 1]
    /\ UNCHANGED exact

Next == NextBlock \/ \E t \in Tx : Skip(t) \/ Refuse(t) \/ Apply(t)

Spec == Init /\ [][Next]_vars

-----------------------------------------------------------------------------

(* Every figure has its type; in particular the gas pool, a uint64, never  *)
(* falls below zero, and never exceeds the block's limit.                  *)
TypeOK ==
    /\ bal \in [Account -> Int]
    /\ nonce \in [Account -> Nat]
    /\ gp \in 0 .. GasLimit
    /\ used \in Nat
    /\ applied \in 0 .. MaxApplied

(* A transaction takes effect at most once, in however many parallel       *)
(* blocks it is: the first success advances the nonce it needs.  It also   *)
(* pays for gas at most once, unless its failure leaves the nonce alone:   *)
(* too little gas for its data, token data that does not decode, or a      *)
(* token creation at an address that is taken.                             *)
ExecutedOnce ==
    \A t \in Tx : /\ succeeded[t] <= 1
                  /\ charged[t] <= 1 \/ Refused(Data[t]) \/ Data[t].kind = "tokenCreate"

(* Gas, values and fees overdraw no account, and when transactions use up  *)
(* the gas they buy no money is created: the reward is at most the fee.    *)
(* (It is computed from the gas limit, so it may exceed the fee of a       *)
(* transaction that leaves gas over.)                                      *)
NotInflated ==
    /\ \A a \in Account : bal[a] >= 0
    /\ exact => SumOf(bal) <= SumOf(Money)
=============================================================================
