------------------------------ MODULE Staking ------------------------------
(***************************************************************************)
(* The life of a validator: the state transitions of validator.Processor   *)
(* for deposits, exits, withdrawals and the operations that the            *)
(* coordinator confirms for them.                                          *)
(*                                                                         *)
(* An account deposits into the validator's record; the value is burnt     *)
(* here and credited by the coordinator.  Once the coordinator holds the   *)
(* effective balance it confirms the activation.  A withdrawal is a        *)
(* request, which the coordinator answers with a balance update that pays  *)
(* it out.  One validator is modelled: the record of another one is never  *)
(* touched by its operations.  ValSync is where a confirmed operation      *)
(* becomes a transaction that succeeds at most once.                       *)
(***************************************************************************)
EXTENDS Integers, Sums

CONSTANTS
  Addr,                   \* accounts
  WithdrawalAddress,      \* the validator's withdrawal credentials
  Funds,                  \* the balance of each account at the start
  Amounts,                \* values that deposits and withdrawals may have
  EffectiveBalance,
  ValidatorOpExpireSlots,
  SlotsPerEra,
  ForkSlotValOpTracking,  \* the first slot at which requests are tracked
  ForkSlotValSyncProc,
  Delegating,             \* the first deposit carries delegating stake rules
  TrialPeriod,            \* slots after the activation under the trial rules
  ProfitShare,            \* [trial? -> percent of the profit by account]
  StakeShare,             \* [trial? -> percent of the stake by account]
  ExitBy,                 \* [trial? -> accounts that may ask for the exit]
  WithdrawalBy,           \* [trial? -> accounts that may withdraw]
  Timely,                 \* requests are answered and answers are executed
                          \* before the requests expire
  LastSlot, MaxRewards, MaxRequests   \* bounds

\* What the settings may be.
StakingConstants ==
  /\ IsFiniteSet(Addr) /\ WithdrawalAddress \in Addr
  /\ {EffectiveBalance, SlotsPerEra, ValidatorOpExpireSlots} \subseteq Nat \ {0}
  /\ {Funds, ForkSlotValOpTracking, ForkSlotValSyncProc,
      TrialPeriod, LastSlot, MaxRewards, MaxRequests} \subseteq Nat
  /\ Amounts \subseteq Nat \ {0}
  /\ {Delegating, Timely} \subseteq BOOLEAN
  /\ ProfitShare \in [BOOLEAN -> [Addr -> 0..100]]
  /\ StakeShare \in [BOOLEAN -> [Addr -> 0..100]]
  /\ {ExitBy, WithdrawalBy} \subseteq [BOOLEAN -> SUBSET Addr]

VARIABLES
  slot,     \* of the block in execution
  val,      \* the validator's record
  balance,  \* of the accounts
  held,     \* what the coordinator holds for the validator
  rewards,  \* credited by the coordinator so far
  asked,    \* requests that the coordinator has not answered
  ops,      \* confirmed operations that have not been carried out
  next,     \* the hash of the next transaction
  given,    \* deposited by each account before the activation
  back      \* refunded to each account before the activation

hist == <<given, back>>
stakingVars == <<slot, val, balance, held, rewards, asked, ops, next, hist>>

Never == LastSlot + 10    \* math.MaxUint64
Postpone == 2
NoReq == [tx |-> 0, slot |-> 0]

Era == slot \div SlotsPerEra
Tracking(sl) == sl >= ForkSlotValOpTracking

-----------------------------------------------------------------------------
(* The validator's record.  Requests are tracked from version 1 on.         *)

NewValidator ==
  [known |-> FALSE, ver |-> 0, act |-> Never, exit |-> Never,
   stake |-> [a \in Addr |-> 0], wtx |-> NoReq, xtx |-> NoReq]

\* updateValidatorVersionBySlot; an older version has no request fields.
Versioned(v) ==
  IF Tracking(slot) THEN [v EXCEPT !.ver = 1]
  ELSE [v EXCEPT !.ver = 0, !.wtx = NoReq, !.xtx = NoReq]

SetWithdrawalTx(v, r) == IF v.ver = 0 THEN v ELSE [v EXCEPT !.wtx = r]
SetExitTx(v, r)       == IF v.ver = 0 THEN v ELSE [v EXCEPT !.xtx = r]

\* A request of a finalized transaction blocks others until it expires.
Unexpired(r) == r # NoReq /\ slot < r.slot + ValidatorOpExpireSlots

Blocked(v, r) == v.ver = 1 /\ Unexpired(r)

\* isValidatorTrialPeriod
Trial(v) ==
  LET end == v.act * SlotsPerEra + TrialPeriod
  IN  \/ v.act > Era
      \/ end >= slot
      \/ v.exit <= Era /\ v.exit * SlotsPerEra <= end

\* The deposits do not reach what the activation takes.
Insufficient(v) == v.act = Never /\ SumOf(v.stake) < EffectiveBalance

-----------------------------------------------------------------------------
StakingInit ==
  /\ slot = 0
  /\ val = NewValidator
  /\ balance = [a \in Addr |-> Funds]
  /\ held = 0 /\ rewards = 0
  /\ asked = {} /\ ops = {} /\ next = 1
  /\ given = [a \in Addr |-> 0] /\ back = [a \in Addr |-> 0]

\* Time passes; if Timely, no request or answer is left to expire.
NextSlot ==
  /\ slot < LastSlot
  /\ Timely => \A r \in asked \cup ops :
                 slot + 1 < r.slot + ValidatorOpExpireSlots
  /\ slot' = slot + 1
  /\ UNCHANGED <<val, balance, held, rewards, asked, ops, next, hist>>

Deposit(from, value) ==
  /\ balance[from] >= value
  /\ val.act = Never
  /\ ~Blocked(val, val.wtx)
  /\ val' = [Versioned(val) EXCEPT !.known = TRUE, !.stake[from] = @ + value]
  /\ balance' = [balance EXCEPT ![from] = @ - value]
  /\ held' = held + value
  /\ given' = [given EXCEPT ![from] = @ + value]
  /\ UNCHANGED <<slot, rewards, asked, ops, next, back>>

Allowed(from, by) ==
  IF Delegating THEN from \in by[Trial(val)] ELSE from = WithdrawalAddress

MakeRequest(kind, from, amount) ==
  [kind |-> kind, tx |-> next, slot |-> slot, from |-> from, amount |-> amount]

\* validatorExit
Exit(from) ==
  /\ next <= MaxRequests
  /\ val.known
  /\ val.act <= Era /\ val.exit = Never
  /\ Allowed(from, ExitBy)
  /\ ~Blocked(val, val.xtx)
  /\ val' = SetExitTx(Versioned(val), [tx |-> next, slot |-> slot])
  /\ asked' = asked \cup {MakeRequest("exit", from, 0)}
  /\ next' = next + 1
  /\ UNCHANGED <<slot, balance, held, rewards, ops, hist>>

\* Only a depositor is refunded, and of their own stake.
Refundable(stake, amount) == stake > 0 /\ stake >= amount

\* validatorWithdrawal.  An amount of 0 asks for the whole deposit; before
\* requests were tracked, a refund left the stake with its request.
Withdrawal(from, amount) ==
  LET v     == SetWithdrawalTx(Versioned(val), [tx |-> next, slot |-> slot])
      stake == val.stake[from]
      sum   == IF amount = 0 THEN stake ELSE amount
  IN  /\ next <= MaxRequests
      /\ val.known
      /\ ~Blocked(val, val.wtx)
      /\ \/ /\ Insufficient(val)
            /\ Refundable(stake, amount)
            /\ val' = IF Tracking(slot) THEN v
                      ELSE [v EXCEPT !.stake[from] = @ - sum]
            /\ asked' = asked \cup {MakeRequest("refund", from, sum)}
         \/ /\ ~Insufficient(val)
            /\ Allowed(from, WithdrawalBy)
            /\ val' = v
            /\ asked' = asked \cup {MakeRequest("withdraw", from, amount)}
      /\ next' = next + 1
      /\ UNCHANGED <<slot, balance, held, rewards, ops, hist>>

-----------------------------------------------------------------------------
(***************************************************************************)
(* The coordinator.  It is not part of this repository; from the fields of *)
(* its operations and the checks on them: it activates a validator once,   *)
(* when it holds the effective balance; it answers an exit; and it grants  *)
(* a withdrawal what it holds at most, of an active validator what exceeds *)
(* the effective balance.  An operation carries the era of its epoch.      *)
(***************************************************************************)
Confirmed(kind, r, amount, rest) ==
  [kind |-> kind, tx |-> r.tx, slot |-> r.slot, from |-> r.from, era |-> Era,
   amount |-> amount, balance |-> rest]

Activated == val.act # Never \/ \E o \in ops : o.kind = "activate"

ConfirmActivation ==
  /\ held >= EffectiveBalance /\ ~Activated
  /\ ops' = ops \cup {Confirmed("activate",
                [tx |-> 0, slot |-> slot, from |-> WithdrawalAddress], 0, 0)}
  /\ UNCHANGED <<slot, val, balance, held, rewards, asked, next, hist>>

ConfirmExit(r) ==
  /\ r.kind = "exit"
  /\ asked' = asked \ {r}
  /\ ops' = ops \cup {Confirmed("exit", r, 0, 0)}
  /\ UNCHANGED <<slot, val, balance, held, rewards, next, hist>>

Spare == IF Activated /\ val.exit > Era THEN held - EffectiveBalance ELSE held

ConfirmWithdrawal(r) ==
  /\ r.kind \in {"refund", "withdraw"}
  /\ asked' = asked \ {r}
  /\ \/ /\ r.amount > 0 /\ Spare >= r.amount
        /\ held' = held - r.amount
        /\ ops' = ops \cup {Confirmed(r.kind, r, r.amount, held - r.amount)}
     \/ /\ r.amount = 0 \/ Spare < r.amount
        /\ UNCHANGED <<held, ops>>
  /\ UNCHANGED <<slot, val, balance, rewards, next, hist>>

Reward(x) ==
  /\ Activated /\ rewards + x <= MaxRewards
  /\ held' = held + x /\ rewards' = rewards + x
  /\ UNCHANGED <<slot, val, balance, asked, ops, next, hist>>

-----------------------------------------------------------------------------
(* syncOpProcessing: a confirmed operation is executed.                     *)

\* validatorActivate
Activate(o) ==
  /\ o.kind = "activate"
  /\ Tracking(slot) => val.act = Never
  /\ val' = [Versioned(val) EXCEPT !.act = o.era + Postpone,
                                   !.stake = [a \in Addr |-> 0]]
  /\ ops' = ops \ {o}
  /\ UNCHANGED <<slot, balance, held, rewards, asked, next, hist>>

DeactivateByEpoch(o) ==
  /\ o.kind = "exit"
  /\ val.exit = Never
  /\ val.act < o.era
  /\ val' = [Versioned(val) EXCEPT !.exit = o.era + Postpone, !.xtx = NoReq]
  /\ ops' = ops \ {o}
  /\ UNCHANGED <<slot, balance, held, rewards, asked, next, hist>>

DeactivateAgain(o) ==
  /\ o.kind = "exit"
  /\ val' = [Versioned(val) EXCEPT !.exit = o.era + Postpone, !.xtx = NoReq]
  /\ ops' = ops \ {o}
  /\ UNCHANGED <<slot, balance, held, rewards, asked, next, hist>>

\* validatorDeactivate
Deactivate(o) ==
  /\ o.kind = "exit"
  /\ val.exit = Never
  /\ val.act < IF slot >= ForkSlotValSyncProc THEN Era ELSE o.era
  /\ val' = [Versioned(val) EXCEPT !.exit = o.era + Postpone, !.xtx = NoReq]
  /\ ops' = ops \ {o}
  /\ UNCHANGED <<slot, balance, held, rewards, asked, next, hist>>

\* The request of the operation is the active one, has been overtaken by one
\* that expired, or is older than the tracking of requests.
WithdrawalActive(o) ==
  \/ val.ver = 0
  \/ /\ val.wtx = NoReq
     /\ ~Tracking(IF slot > ValidatorOpExpireSlots
                  THEN slot - ValidatorOpExpireSlots ELSE 0)
     /\ ~Tracking(o.slot)
  \/ /\ val.wtx # NoReq
     /\ val.wtx.tx = o.tx \/ ~Unexpired(val.wtx)

\* The stake that a refund takes off the record, and whether it can:
\* SubtractStake fails for an account without stake.
Refunded(o) ==
  IF val.stake[o.from] < o.amount THEN val.stake[o.from] ELSE o.amount

RefundStake(o) ==
  /\ Insufficient(val)
  /\ Tracking(slot) => val.stake[o.from] > 0
  /\ val' = [SetWithdrawalTx(Versioned(val), NoReq) EXCEPT
               !.stake[o.from] = IF Tracking(slot) THEN @ - Refunded(o) ELSE @]
  /\ balance' = [balance EXCEPT ![o.from] = @ + Refunded(o)]
  /\ back' = [back EXCEPT ![o.from] = @ + Refunded(o)]

Refund(o) ==
  /\ Insufficient(val)
  /\ Tracking(slot) => val.stake[o.from] > 0
  /\ val' = [SetWithdrawalTx(Versioned(val), NoReq) EXCEPT
               !.stake[o.from] = IF Tracking(slot) THEN @ - Refunded(o) ELSE @]
  /\ balance' = [balance EXCEPT ![o.from] = @ + o.amount]
  /\ back' = [back EXCEPT ![o.from] = @ + o.amount]

PayOut(o) ==
  /\ ~Insufficient(val) /\ ~Delegating
  /\ val' = SetWithdrawalTx(Versioned(val), NoReq)
  /\ balance' = [balance EXCEPT ![WithdrawalAddress] = @ + o.amount]
  /\ UNCHANGED back

\* applyDelegatingStakeRules: the profit is what exceeds the effective
\* balance.  The record is not stored.
Profit(o) ==
  LET over == o.balance + o.amount - EffectiveBalance
  IN  IF over < 0 THEN 0 ELSE over

ProfitPart(o) ==
  IF Profit(o) - o.amount <= 0 THEN Profit(o) ELSE Profit(o) - o.amount

StakePart(o) == IF Profit(o) - o.amount <= 0 THEN o.amount - Profit(o) ELSE 0

Share(part, percent) == (part \div 100) * percent

ApplyDelegatingStakeRules(o) ==
  /\ ~Insufficient(val) /\ Delegating
  /\ balance' = [a \in Addr |-> balance[a]
                       + Share(ProfitPart(o), ProfitShare[Trial(val)][a])
                       + Share(StakePart(o), StakeShare[Trial(val)][a])]
  /\ UNCHANGED <<val, back>>

\* validatorUpdateBalance
UpdateBalance(o) ==
  /\ o.kind \in {"refund", "withdraw"}
  /\ WithdrawalActive(o)
  /\ Refund(o) \/ PayOut(o) \/ ApplyDelegatingStakeRules(o)
  /\ ops' = ops \ {o}
  /\ UNCHANGED <<slot, held, rewards, asked, next, given>>

Execute(o) == Activate(o) \/ Deactivate(o) \/ UpdateBalance(o)

StakingNext ==
  \/ NextSlot
  \/ \E a \in Addr, x \in Amounts : Deposit(a, x)
  \/ \E a \in Addr : Exit(a)
  \/ \E a \in Addr, x \in Amounts \cup {0} : Withdrawal(a, x)
  \/ ConfirmActivation
  \/ \E r \in asked : ConfirmExit(r) \/ ConfirmWithdrawal(r)
  \/ \E x \in Amounts : Reward(x)
  \/ \E o \in ops : Activate(o)
  \/ \E o \in ops : Deactivate(o)
  \/ \E o \in ops : UpdateBalance(o)

StakingSpec == StakingInit /\ [][StakingNext]_stakingVars

\* The coordinator answers every request, and a confirmed operation that can
\* be carried out is.
FairSpec ==
  /\ StakingSpec
  /\ WF_stakingVars(\E r \in asked : ConfirmExit(r) \/ ConfirmWithdrawal(r))
  /\ WF_stakingVars(NextSlot)
  /\ \A i \in 0..MaxRequests :
       WF_stakingVars(\E o \in ops : o.tx = i /\ Execute(o))

-----------------------------------------------------------------------------
(* Correctness.                                                             *)

IsRequest(r) == r.tx \in 0..next /\ r.slot \in 0..slot

\* The shape of the record and of what is in flight: at most one request of
\* each kind is remembered, and it is one that was made.
StakingTypeOK ==
  /\ slot \in 0..LastSlot
  /\ val.ver \in {0, 1} /\ {val.act, val.exit} \subseteq Nat
  /\ IsRequest(val.wtx) /\ IsRequest(val.xtx)
  /\ {held, rewards, next} \subseteq Nat
  /\ \A a \in Addr : {val.stake[a], balance[a], given[a], back[a]} \subseteq Nat
  /\ \A r \in asked \cup ops : IsRequest(r)

\* No coin is created or lost between the accounts, the coordinator and the
\* confirmed operations: what validatorDeposit burns and validatorUpdateBalance
\* mints agree.
Conserved ==
  SumOf(balance) + held + SumOf([o \in ops |-> o.amount])
    = Cardinality(Addr) * Funds + rewards

\* The eras of activation and exit are set once, the exit after the activation,
\* although an exit that expires may be asked for and confirmed again.
Lifecycle ==
  [][/\ val.act # Never => val'.act = val.act
     /\ val.exit # Never => val'.exit = val.exit
     /\ val'.exit # Never => val'.act < val'.exit]_stakingVars

\* Every confirmed operation is carried out: the requests are bounded, so the
\* set of those that wait is empty again and again.
OpsSettled == ops # {} ~> ops = {} \/ slot = LastSlot

=============================================================================
