----------------------------- MODULE NodeProofs -----------------------------
(***************************************************************************)
(* Sums over finite sets; Lifecycle and Conserved of Staking for any       *)
(* accounts, amounts, forks and periods; SemaphoreOpen and SlotsCovered of *)
(* HeadSync for any number of peers, tokens and slots.                     *)
(***************************************************************************)
EXTENDS Staking, HeadSync, FiniteSetTheorems, TLAPS

-----------------------------------------------------------------------------
(* The sum of a function over a finite set.                                 *)

\* The coins of an account: as many as its value, apart from those of others.
LEMMA CoinsOf ==
  ASSUME NEW a, NEW n \in Nat
  PROVE  IsFiniteSet({a} \X (1 .. n)) /\ Cardinality({a} \X (1 .. n)) = n
<1>1. IsFiniteSet(1 .. n) /\ Cardinality(1 .. n) = n
  BY FS_Interval
<1>2. IsFiniteSet({a}) /\ Cardinality({a}) = 1
  BY FS_Singleton
<1> QED BY SMTT(30), <1>1, <1>2, FS_Product

\* A finite number of accounts has a finite number of coins.
LEMMA CoinsFinite ==
  ASSUME NEW D, IsFiniteSet(D), NEW f \in [D -> Nat]
  PROVE  IsFiniteSet(Coins(f)) /\ SumOf(f) \in Nat
<1> DEFINE Of == [a \in D |-> {a} \X (1 .. f[a])]
           T == {{a} \X (1 .. f[a]) : a \in D}
<1>1. Of \in Surjection(D, T)
  BY Zenon DEF Surjection
<1>2. IsFiniteSet(T)
  BY <1>1, FS_Surjection
<1>3. ASSUME NEW a \in D PROVE IsFiniteSet({a} \X (1 .. f[a]))
  <2>1. f[a] \in Nat
    OBVIOUS
  <2> QED BY Zenon, <2>1, CoinsOf
<1>4. IsFiniteSet(UNION T)
  BY Zenon, <1>2, <1>3, FS_UNION
<1>5. Coins(f) = UNION T
  BY DEF Coins
<1> QED BY <1>4, <1>5, FS_CardinalityType DEF SumOf

\* The function without one of its arguments.
Without(D, f, a) == [b \in D \ {a} |-> f[b]]

\* A sum is a value and the sum of the others.
LEMMA SumRest ==
  ASSUME NEW D, IsFiniteSet(D), NEW f \in [D -> Nat], NEW a \in D
  PROVE  /\ SumOf(Without(D, f, a)) \in Nat /\ SumOf(f) \in Nat
         /\ SumOf(f) = SumOf(Without(D, f, a)) + f[a]
<1> DEFINE r == Without(D, f, a)
           C == {a} \X (1 .. f[a])
<1>1. IsFiniteSet(D \ {a}) /\ r \in [D \ {a} -> Nat] /\ f[a] \in Nat
  BY FS_Subset DEF Without
<1>2. IsFiniteSet(Coins(r)) /\ SumOf(r) \in Nat /\ SumOf(f) \in Nat
  BY <1>1, CoinsFinite
<1>3. IsFiniteSet(C) /\ Cardinality(C) = f[a]
  BY Zenon, <1>1, CoinsOf
<1>4. Coins(f) = Coins(r) \cup C
  BY DEF Coins, Without
<1>5. Coins(r) \cap C = {}
  BY DEF Coins, Without
<1>6. Cardinality(Coins(r) \cap C) = 0
  BY <1>5, FS_EmptySet
<1> HIDE DEF r, C
<1>7. Cardinality(Coins(r) \cup C)
        = Cardinality(Coins(r)) + Cardinality(C) - Cardinality(Coins(r) \cap C)
  BY <1>2, <1>3, FS_Union, Zenon
<1>8. SumOf(f) = SumOf(r) + f[a]
  BY <1>1, <1>2, <1>3, <1>4, <1>6, <1>7 DEF SumOf
<1> QED BY <1>2, <1>8 DEF r

\* g is f with another value at an account, and the sum grows by x.
Changed(D, f, g, a, v) ==
  /\ IsFiniteSet(D) /\ f \in [D -> Nat] /\ a \in D /\ v \in Nat
  /\ g = [f EXCEPT ![a] = v]

Adds(D, f, g, x) ==
  /\ g \in [D -> Nat] /\ SumOf(f) \in Nat /\ SumOf(g) \in Nat
  /\ SumOf(g) = SumOf(f) + x

\* A change at one account changes the sum by as much.
LEMMA SumChange ==
  ASSUME NEW D, NEW f, NEW g, NEW a, NEW v, Changed(D, f, g, a, v)
  PROVE  Adds(D, f, g, v - f[a])
<1>1. /\ IsFiniteSet(D) /\ f \in [D -> Nat] /\ g \in [D -> Nat] /\ a \in D
      /\ f[a] \in Nat /\ g[a] = v /\ v \in Nat
  BY DEF Changed
<1>2. Without(D, f, a) = Without(D, g, a)
  BY DEF Changed, Without
<1>3. /\ SumOf(Without(D, f, a)) \in Nat /\ SumOf(f) \in Nat /\ SumOf(g) \in Nat
      /\ SumOf(f) = SumOf(Without(D, f, a)) + f[a]
      /\ SumOf(g) = SumOf(Without(D, g, a)) + g[a]
  BY <1>1, SumRest, Zenon
<1> QED BY <1>1, <1>2, <1>3 DEF Adds

-----------------------------------------------------------------------------
(***************************************************************************)
(* Staking.  No stake is negative, and a request has a transaction of its  *)
(* own, which its answer keeps (ShapeInv).  An activation is confirmed     *)
(* once and before it no exit can be asked for, so the epoch of an exit is *)
(* not before the era of the activation (LifeInv).                         *)
(***************************************************************************)
RequestOK(r, n) == r.tx \in 1 .. n - 1 /\ r.from \in Addr /\ r.amount \in Nat

OpOK(o, n) ==
  /\ o.tx \in 0 .. n - 1 /\ o.from \in Addr /\ o.amount \in Nat
  /\ o.era \in 0 .. LastSlot
  /\ o.kind \in {"activate", "exit"} => o.amount = 0

ShapeInv ==
  /\ slot \in 0 .. LastSlot /\ held \in Nat /\ rewards \in Nat /\ next \in Nat \ {0}
  /\ {"act", "exit", "stake"} \subseteq DOMAIN val /\ val.stake \in [Addr -> Nat]
  /\ IsFiniteSet(ops)
  /\ \A r \in asked : RequestOK(r, next)
  /\ \A o \in ops : OpOK(o, next)
  /\ \A r, s \in asked : r.tx = s.tx => r = s
  /\ \A r \in asked, o \in ops : r.tx # o.tx

LifeInv ==
  /\ val.act \in 0 .. Never /\ val.exit \in 0 .. Never
  /\ val.exit # Never => val.act < val.exit
  /\ \A o, p \in ops : o.kind = "activate" /\ p.kind = "activate" => o = p
  /\ \A o \in ops : o.kind = "activate" => val.act = Never
  /\ \A r \in asked : r.kind = "exit" => val.act <= Era
  /\ \A o \in ops : o.kind = "exit" => val.act <= o.era

\* The record keeps its eras, and its stakes.
SameEras(v, w) ==
  {"act", "exit", "stake"} \subseteq DOMAIN w /\ w.act = v.act /\ w.exit = v.exit

SameRecord(v, w) == SameEras(v, w) /\ w.stake = v.stake

\* An era is not after its slot, and the next slot is not in an earlier one.
LEMMA EraBounds ==
  ASSUME NEW s \in Nat, NEW n \in Nat \ {0}
  PROVE  s \div n \in 0 .. s /\ s \div n <= (s + 1) \div n
OBVIOUS

LEMMA EraNow ==
  ASSUME StakingConstants, ShapeInv
  PROVE  Era \in 0 .. LastSlot /\ LastSlot \in Nat /\ (NextSlot => Era <= Era')
<1>1. slot \in Nat /\ slot <= LastSlot /\ LastSlot \in Nat /\ SlotsPerEra \in Nat \ {0}
  BY DEF StakingConstants, ShapeInv
<1>2. slot \div SlotsPerEra \in 0 .. slot
      /\ slot \div SlotsPerEra <= (slot + 1) \div SlotsPerEra
  BY <1>1, EraBounds
<1> QED BY <1>1, <1>2 DEF Era, NextSlot

\* The format of the record and its requests have nothing to do with the rest.
LEMMA VersionedRecord ==
  ASSUME NEW v, {"act", "exit", "stake"} \subseteq DOMAIN v, NEW r
  PROVE  /\ SameRecord(v, Versioned(v))
         /\ SameRecord(v, SetWithdrawalTx(Versioned(v), r))
         /\ SameRecord(v, SetExitTx(Versioned(v), r))
<1>1. SameRecord(v, Versioned(v))
  BY DEF SameRecord, SameEras, Versioned
<1>2. ASSUME NEW w, SameRecord(v, w)
      PROVE  SameRecord(v, SetWithdrawalTx(w, r)) /\ SameRecord(v, SetExitTx(w, r))
  BY <1>2 DEF SameRecord, SameEras, SetWithdrawalTx, SetExitTx
<1> QED BY <1>1, <1>2

\* The record with another stake of an account.
LEMMA OtherStake ==
  ASSUME NEW v, NEW w, NEW u, NEW a, NEW x \in Nat, SameRecord(v, w),
         v.stake \in [Addr -> Nat], u = [w EXCEPT !.stake[a] = x]
  PROVE  SameEras(v, u) /\ u.stake \in [Addr -> Nat]
BY Zenon DEF SameRecord, SameEras

\* Only the activation and the deactivation change the eras of the record, and
\* no refund takes more than a stake.
LEMMA ErasKept ==
  ASSUME StakingConstants, ShapeInv,
         \/ \E a \in Addr, x \in Amounts : Deposit(a, x)
         \/ \E a \in Addr : Exit(a)
         \/ \E a \in Addr, x \in Amounts \cup {0} : Withdrawal(a, x)
         \/ \E o \in ops : UpdateBalance(o)
  PROVE  SameEras(val, val') /\ val'.stake \in [Addr -> Nat]
<1> DEFINE Kept == SameEras(val, val') /\ val'.stake \in [Addr -> Nat]
<1>0. /\ {"act", "exit", "stake"} \subseteq DOMAIN val /\ val.stake \in [Addr -> Nat]
      /\ \A w : SameRecord(val, w) => SameEras(val, w) /\ w.stake \in [Addr -> Nat]
  BY DEF ShapeInv, SameRecord
<1>1. ASSUME NEW a \in Addr, NEW x \in Amounts, Deposit(a, x) PROVE Kept
  <2> DEFINE v == Versioned(val)
             w == [v EXCEPT !.known = TRUE]
  <2>1. SameRecord(val, v)
    BY <1>0, VersionedRecord
  <2>2. val' = [v EXCEPT !.known = TRUE, !.stake[a] = @ + x]
    BY Zenon, <1>1 DEF Deposit
  <2> HIDE DEF v
  <2>3. SameRecord(val, w)
    BY <2>1 DEF SameRecord, SameEras
  <2>4. val' = [w EXCEPT !.stake[a] = val.stake[a] + x]
    BY <2>1, <2>2 DEF SameRecord, SameEras
  <2>5. val.stake[a] + x \in Nat
    BY <1>0 DEF StakingConstants
  <2> HIDE DEF w
  <2> QED BY Zenon, <1>0, <2>3, <2>4, <2>5, OtherStake
<1>2. ASSUME NEW a \in Addr, Exit(a) PROVE Kept
  BY Zenon, <1>0, <1>2, VersionedRecord DEF Exit
<1>3. ASSUME NEW a \in Addr, NEW x \in Amounts \cup {0}, Withdrawal(a, x) PROVE Kept
  <2> DEFINE v == SetWithdrawalTx(Versioned(val), [tx |-> next, slot |-> slot])
             sum == IF x = 0 THEN val.stake[a] ELSE x
  <2>1. SameRecord(val, v)
    BY <1>0, VersionedRecord
  <2>2. val' = v \/ (Refundable(val.stake[a], x) /\ val' = [v EXCEPT !.stake[a] = @ - sum])
    BY Zenon, <1>3 DEF Withdrawal
  <2>3. CASE Refundable(val.stake[a], x) /\ val' = [v EXCEPT !.stake[a] = @ - sum]
    <3>1. val.stake[a] - sum \in Nat
      BY <1>0, <2>3 DEF Refundable, StakingConstants
    <3> HIDE DEF v, sum
    <3>2. val' = [v EXCEPT !.stake[a] = val.stake[a] - sum]
      BY <2>1, <2>3 DEF SameRecord, SameEras
    <3> QED BY Zenon, <1>0, <2>1, <3>1, <3>2, OtherStake
  <2> HIDE DEF v, sum
  <2> QED BY Zenon, <1>0, <2>1, <2>2, <2>3
<1>4. ASSUME NEW o \in ops, UpdateBalance(o) PROVE Kept
  <2> DEFINE v == SetWithdrawalTx(Versioned(val), NoReq)
  <2>1. SameRecord(val, v) /\ SameRecord(val, val)
    BY <1>0, VersionedRecord DEF SameRecord, SameEras
  <2>2. CASE Refund(o)
    <3> DEFINE x == IF Tracking(slot) THEN val.stake[o.from] - Refunded(o)
                    ELSE val.stake[o.from]
    <3>1. x \in Nat
      BY <1>0 DEF Refunded, ShapeInv, OpOK
    <3>2. val' = [v EXCEPT !.stake[o.from] = IF Tracking(slot) THEN @ - Refunded(o) ELSE @]
      BY <2>2 DEF Refund
    <3> HIDE DEF v
    <3>3. val' = [v EXCEPT !.stake[o.from] = x]
      BY <2>1, <3>2 DEF SameRecord, SameEras
    <3> HIDE DEF x
    <3> QED BY Zenon, <1>0, <2>1, <3>1, <3>3, OtherStake
  <2>3. CASE PayOut(o)
    BY <1>0, <2>1, <2>3 DEF PayOut
  <2>4. CASE ApplyDelegatingStakeRules(o)
    BY <1>0, <2>1, <2>4 DEF ApplyDelegatingStakeRules
  <2> QED BY <1>4, <2>2, <2>3, <2>4 DEF UpdateBalance
<1> QED BY Zenon, <1>1, <1>2, <1>3, <1>4

\* A new request has the next transaction.
LEMMA AskedShape ==
  ASSUME ShapeInv, NEW r, r.tx = next, r.from \in Addr, r.amount \in Nat,
         asked' = asked \cup {r}, next' = next + 1, UNCHANGED <<slot, held, rewards, ops>>,
         SameEras(val, val'), val'.stake \in [Addr -> Nat]
  PROVE  ShapeInv'
<1>1. \A q \in asked' : RequestOK(q, next')
  BY DEF ShapeInv, RequestOK
<1>2. \A o \in ops' : OpOK(o, next')
  BY DEF ShapeInv, OpOK
<1>3. \A q, s \in asked' : q.tx = s.tx => q = s
  BY DEF ShapeInv, RequestOK
<1>4. \A q \in asked', o \in ops' : q.tx # o.tx
  BY DEF ShapeInv, OpOK
<1> QED BY <1>1, <1>2, <1>3, <1>4 DEF ShapeInv, SameEras

\* An answer takes over the transaction of its request.
LEMMA AnswerShape ==
  ASSUME StakingConstants, ShapeInv, NEW r \in asked, NEW o,
         o.tx = r.tx, o.from = r.from, o.amount \in Nat, o.era = Era,
         o.kind \in {"activate", "exit"} => o.amount = 0,
         asked' = asked \ {r}, ops' = ops \cup {o}, held' \in Nat,
         UNCHANGED <<slot, val, rewards, next>>
  PROVE  ShapeInv' /\ o \notin ops
<1>1. OpOK(o, next)
  BY EraNow DEF ShapeInv, RequestOK, OpOK
<1>2. IsFiniteSet(ops')
  BY FS_AddElement DEF ShapeInv
<1>3. \A q \in asked', p \in ops' : q.tx # p.tx
  BY DEF ShapeInv
<1> QED BY Zenon, <1>1, <1>2, <1>3 DEF ShapeInv

\* An operation that is carried out.
LEMMA CarriedOutShape ==
  ASSUME ShapeInv, NEW o \in ops, ops' = ops \ {o},
         UNCHANGED <<slot, held, rewards, asked, next>>,
         {"act", "exit", "stake"} \subseteq DOMAIN val', val'.stake \in [Addr -> Nat]
  PROVE  ShapeInv'
<1>1. IsFiniteSet(ops')
  BY FS_RemoveElement DEF ShapeInv
<1> QED BY <1>1 DEF ShapeInv

\* What the activation and the deactivation write.
LEMMA ErasSet ==
  ASSUME ShapeInv, NEW o \in ops
  PROVE  /\ Activate(o) =>
              /\ {"act", "exit", "stake"} \subseteq DOMAIN val'
              /\ val'.act = o.era + Postpone /\ val'.exit = val.exit
              /\ val'.stake \in [Addr -> Nat]
         /\ Deactivate(o) =>
              /\ {"act", "exit", "stake"} \subseteq DOMAIN val'
              /\ val'.act = val.act /\ val'.exit = o.era + Postpone
              /\ val'.stake \in [Addr -> Nat]
<1> DEFINE v == Versioned(val)
<1>1. SameRecord(val, v) /\ val.stake \in [Addr -> Nat]
  BY VersionedRecord DEF ShapeInv
<1>2. Activate(o) => val' = [v EXCEPT !.act = o.era + Postpone,
                                      !.stake = [a \in Addr |-> 0]]
  BY DEF Activate
<1>3. Deactivate(o) => val' = [v EXCEPT !.exit = o.era + Postpone, !.xtx = NoReq]
  BY DEF Deactivate
<1> HIDE DEF v
<1>4. CASE Activate(o)
  <2>1. ~Deactivate(o)
    BY <1>4 DEF Activate, Deactivate
  <2> DEFINE e == o.era + Postpone
             z == [a \in Addr |-> 0]
  <2>2. val' = [v EXCEPT !.act = e, !.stake = z] /\ z \in [Addr -> Nat]
    BY <1>2, <1>4
  <2> HIDE DEF e, z
  <2>3. /\ {"act", "exit", "stake"} \subseteq DOMAIN val'
        /\ val'.act = e /\ val'.exit = val.exit /\ val'.stake = z
    BY <1>1, <2>2 DEF SameRecord, SameEras
  <2> QED BY Zenon, <2>1, <2>2, <2>3 DEF e
<1>5. CASE Deactivate(o)
  <2>1. ~Activate(o)
    BY <1>5 DEF Activate, Deactivate
  <2> QED BY Zenon, <1>1, <1>3, <1>5, <2>1 DEF SameRecord, SameEras
<1> QED BY <1>4, <1>5

\* ShapeInv is inductive.
LEMMA ShapeNext ==
  ASSUME StakingConstants, ShapeInv, [StakingNext]_stakingVars
  PROVE  ShapeInv'
<1>1. CASE UNCHANGED stakingVars
  BY <1>1 DEF stakingVars, ShapeInv
<1>2. CASE NextSlot
  <2>1. slot' \in 0 .. LastSlot
    BY <1>2 DEF NextSlot, ShapeInv, StakingConstants
  <2> QED BY <1>2, <2>1 DEF NextSlot, ShapeInv
<1>3. ASSUME NEW a \in Addr, NEW x \in Amounts, Deposit(a, x) PROVE ShapeInv'
  <2>1. SameEras(val, val') /\ val'.stake \in [Addr -> Nat]
    BY <1>3, ErasKept
  <2>2. held' \in Nat /\ UNCHANGED <<slot, rewards, asked, ops, next>>
    BY <1>3 DEF Deposit, ShapeInv, StakingConstants
  <2> QED BY <2>1, <2>2 DEF ShapeInv, SameEras
<1>4. ASSUME NEW a \in Addr, Exit(a) PROVE ShapeInv'
  <2> DEFINE r == MakeRequest("exit", a, 0)
  <2>1. SameEras(val, val') /\ val'.stake \in [Addr -> Nat]
    BY <1>4, ErasKept
  <2>2. asked' = asked \cup {r} /\ next' = next + 1 /\ UNCHANGED <<slot, held, rewards, ops>>
    BY <1>4 DEF Exit
  <2>3. r.tx = next /\ r.from \in Addr /\ r.amount \in Nat
    BY DEF MakeRequest
  <2> HIDE DEF r
  <2> QED BY <2>1, <2>2, <2>3, AskedShape
<1>5. ASSUME NEW a \in Addr, NEW x \in Amounts \cup {0}, Withdrawal(a, x)
      PROVE  ShapeInv'
  <2>1. SameEras(val, val') /\ val'.stake \in [Addr -> Nat]
    BY <1>5, ErasKept
  <2>2. PICK k \in {"refund", "withdraw"}, y \in Nat :
           asked' = asked \cup {MakeRequest(k, a, y)}
    <3> DEFINE sum == IF x = 0 THEN val.stake[a] ELSE x
    <3>1. sum \in Nat /\ x \in Nat
      BY DEF ShapeInv, StakingConstants
    <3>2. \/ asked' = asked \cup {MakeRequest("refund", a, sum)}
          \/ asked' = asked \cup {MakeRequest("withdraw", a, x)}
      BY <1>5 DEF Withdrawal
    <3> HIDE DEF sum
    <3>3. CASE asked' = asked \cup {MakeRequest("refund", a, sum)}
      BY Zenon, <3>1, <3>3
    <3>4. CASE asked' = asked \cup {MakeRequest("withdraw", a, x)}
      BY Zenon, <3>1, <3>4
    <3> QED BY Zenon, <3>2, <3>3, <3>4
  <2> DEFINE r == MakeRequest(k, a, y)
  <2>3. next' = next + 1 /\ UNCHANGED <<slot, held, rewards, ops>>
    BY <1>5 DEF Withdrawal
  <2>4. r.tx = next /\ r.from \in Addr /\ r.amount \in Nat
    BY DEF MakeRequest
  <2> HIDE DEF r
  <2> QED BY Zenon, <2>1, <2>2, <2>3, <2>4, AskedShape DEF r
<1>6. CASE ConfirmActivation
  <2> DEFINE o == Confirmed("activate",
                    [tx |-> 0, slot |-> slot, from |-> WithdrawalAddress], 0, 0)
  <2>1. ops' = ops \cup {o} /\ UNCHANGED <<slot, val, held, rewards, asked, next>>
    BY ZenonT(60), <1>6 DEF ConfirmActivation
  <2>2. OpOK(o, next) /\ o.tx = 0
    BY EraNow DEF OpOK, Confirmed, ShapeInv, StakingConstants
  <2> HIDE DEF o
  <2>3. IsFiniteSet(ops')
    BY Zenon, <2>1, FS_AddElement DEF ShapeInv
  <2>4. \A r \in asked' : \A p \in ops' : r.tx # p.tx
    BY <2>1, <2>2 DEF ShapeInv, RequestOK
  <2> QED BY Zenon, <2>1, <2>2, <2>3, <2>4 DEF ShapeInv
<1>7. ASSUME NEW r \in asked, ConfirmExit(r) PROVE ShapeInv'
  <2> DEFINE o == Confirmed("exit", r, 0, 0)
  <2>1. /\ asked' = asked \ {r} /\ ops' = ops \cup {o}
        /\ UNCHANGED <<slot, val, held, rewards, next>>
    BY <1>7 DEF ConfirmExit
  <2>2. o.tx = r.tx /\ o.from = r.from /\ o.amount = 0 /\ o.era = Era
    BY DEF Confirmed
  <2>3. held' \in Nat
    BY <2>1 DEF ShapeInv
  <2> HIDE DEF o
  <2> QED BY <2>1, <2>2, <2>3, AnswerShape
<1>8. ASSUME NEW r \in asked, ConfirmWithdrawal(r) PROVE ShapeInv'
  <2> DEFINE o == Confirmed(r.kind, r, r.amount, held - r.amount)
  <2>1. CASE r.amount > 0 /\ Spare >= r.amount /\ held' = held - r.amount
             /\ ops' = ops \cup {o}
    <3>1. r.amount \in Nat /\ held \in Nat /\ EffectiveBalance \in Nat
      BY DEF ShapeInv, RequestOK, StakingConstants
    <3>2. held' \in Nat
      BY <2>1, <3>1 DEF Spare
    <3>3. /\ o.tx = r.tx /\ o.from = r.from /\ o.amount \in Nat /\ o.era = Era
          /\ o.kind \notin {"activate", "exit"}
      BY <1>8, <3>1 DEF Confirmed, ConfirmWithdrawal
    <3>4. asked' = asked \ {r} /\ UNCHANGED <<slot, val, rewards, next>>
      BY Zenon, <1>8 DEF ConfirmWithdrawal
    <3> HIDE DEF o
    <3> QED BY Zenon, <2>1, <3>2, <3>3, <3>4, AnswerShape
  <2>2. CASE UNCHANGED <<held, ops>>
    BY ZenonT(60), <1>8, <2>2 DEF ConfirmWithdrawal, ShapeInv
  <2> QED BY Zenon, <1>8, <2>1, <2>2 DEF ConfirmWithdrawal
<1>9. ASSUME NEW x \in Amounts, Reward(x) PROVE ShapeInv'
  <2>1. held' \in Nat /\ rewards' \in Nat
    BY <1>9 DEF Reward, ShapeInv, StakingConstants
  <2> QED BY <1>9, <2>1 DEF Reward, ShapeInv
<1>10. ASSUME NEW o \in ops, Activate(o) PROVE ShapeInv'
  BY Zenon, <1>10, ErasSet, CarriedOutShape DEF Activate
<1>11. ASSUME NEW o \in ops, Deactivate(o) PROVE ShapeInv'
  BY Zenon, <1>11, ErasSet, CarriedOutShape DEF Deactivate
<1>12. ASSUME NEW o \in ops, UpdateBalance(o) PROVE ShapeInv'
  <2>1. SameEras(val, val') /\ val'.stake \in [Addr -> Nat]
    BY <1>12, ErasKept
  <2> QED BY Zenon, <1>12, <2>1, CarriedOutShape DEF UpdateBalance, SameEras
<1> QED
  BY ZenonT(60), <1>1, <1>2, <1>3, <1>4, <1>5, <1>6, <1>7, <1>8, <1>9, <1>10, <1>11, <1>12
  DEF StakingNext

\* What Lifecycle asks of a step.
LifeStep ==
  /\ val.act # Never => val'.act = val.act
  /\ val.exit # Never => val'.exit = val.exit
  /\ val'.exit # Never => val'.act < val'.exit

\* A step that leaves the eras of the record, and at which an exit is asked for
\* or confirmed not before the era of the activation.
LEMMA LifeKept ==
  ASSUME LifeInv, UNCHANGED <<val.act, val.exit>>, Era \in Int, Era' \in Int, Era <= Era',
         \A r \in asked' : r \in asked \/ (r.kind = "exit" => val.act <= Era),
         \A o \in ops' : o \in ops \/ (o.kind # "activate" /\ (o.kind = "exit" => val.act <= o.era))
  PROVE  LifeInv' /\ LifeStep
<1>1. val.act \in Int /\ UNCHANGED Never
  BY DEF LifeInv, Never
<1>2. \A r \in asked' : r.kind = "exit" => val.act <= Era'
  BY <1>1 DEF LifeInv
<1>3. \A o \in ops' : (o.kind = "exit" => val.act <= o.era)
                      /\ (o.kind = "activate" => o \in ops /\ val.act = Never)
  BY DEF LifeInv
<1> QED BY Zenon, <1>1, <1>2, <1>3 DEF LifeInv, LifeStep

\* LifeInv is inductive, and its steps are those of Lifecycle.
LEMMA LifeNext ==
  ASSUME StakingConstants, ShapeInv, LifeInv, [StakingNext]_stakingVars
  PROVE  LifeInv' /\ LifeStep
<1>0. /\ Era \in 0 .. LastSlot /\ LastSlot \in Nat /\ Never = LastSlot + 10
      /\ UNCHANGED slot => Era' = Era
  BY EraNow DEF Era, Never
<1>1. CASE UNCHANGED stakingVars
  <2>1. UNCHANGED <<slot, val, asked, ops>>
    BY <1>1 DEF stakingVars
  <2> QED BY <1>0, <2>1, LifeKept
<1>2. CASE NextSlot
  <2>1. Era' \in Int /\ Era <= Era'
    <3>1. ShapeInv'
      BY <1>2, ShapeNext DEF StakingNext
    <3>2. (slot \in 0 .. LastSlot)' /\ SlotsPerEra \in Nat \ {0}
      BY Zenon, <3>1 DEF ShapeInv, StakingConstants
    <3>3. Era' \in 0 .. slot'
      <4>1. slot' \in Nat /\ Era' = slot' \div SlotsPerEra
        BY <3>2 DEF Era
      <4>2. slot' \div SlotsPerEra \in 0 .. slot'
        BY Zenon, <3>2, <4>1, EraBounds
      <4> QED BY <4>1, <4>2
    <3> QED BY <1>2, <3>2, <3>3, EraNow
  <2> QED BY <1>0, <1>2, <2>1, LifeKept DEF NextSlot
<1>3. ASSUME NEW a \in Addr, NEW x \in Amounts, Deposit(a, x) PROVE LifeInv' /\ LifeStep
  <2>1. SameEras(val, val')
    BY <1>3, ErasKept
  <2> QED BY <1>0, <1>3, <2>1, LifeKept DEF Deposit, SameEras
<1>4. ASSUME NEW a \in Addr, Exit(a) PROVE LifeInv' /\ LifeStep
  <2>1. SameEras(val, val')
    BY <1>4, ErasKept
  <2> QED BY SMTT(30), <1>0, <1>4, <2>1, LifeKept DEF Exit, SameEras
<1>5. ASSUME NEW a \in Addr, NEW x \in Amounts \cup {0}, Withdrawal(a, x)
      PROVE  LifeInv' /\ LifeStep
  <2>1. SameEras(val, val')
    BY <1>5, ErasKept
  <2>2. UNCHANGED <<slot, ops>> /\ \A r \in asked' : r \in asked \/ r.kind # "exit"
    BY <1>5 DEF Withdrawal, MakeRequest
  <2> QED BY SMTT(30), <1>0, <2>1, <2>2, LifeKept DEF SameEras
<1>6. CASE ConfirmActivation
  <2> DEFINE o == Confirmed("activate",
                    [tx |-> 0, slot |-> slot, from |-> WithdrawalAddress], 0, 0)
  <2>1. /\ ops' = ops \cup {o} /\ UNCHANGED <<slot, val, asked>> /\ o.kind = "activate"
        /\ val.act = Never /\ \A p \in ops : p.kind # "activate"
    BY <1>6 DEF ConfirmActivation, Activated, Confirmed
  <2> HIDE DEF o
  <2>2. UNCHANGED Never
    BY DEF Never
  <2> QED BY ZenonT(60), <1>0, <2>1, <2>2 DEF LifeInv, LifeStep
<1>7. ASSUME NEW r \in asked, ConfirmExit(r) PROVE LifeInv' /\ LifeStep
  <2> DEFINE o == Confirmed("exit", r, 0, 0)
  <2>1. asked' = asked \ {r} /\ ops' = ops \cup {o} /\ UNCHANGED <<slot, val>>
    BY SMTT(30), <1>7 DEF ConfirmExit
  <2>2. o.kind = "exit" /\ val.act <= o.era
    BY <1>7 DEF Confirmed, ConfirmExit, LifeInv
  <2> HIDE DEF o
  <2> QED BY <1>0, <2>1, <2>2, LifeKept
<1>8. ASSUME NEW r \in asked, ConfirmWithdrawal(r) PROVE LifeInv' /\ LifeStep
  <2>1. UNCHANGED <<slot, val>> /\ asked' \subseteq asked
    BY <1>8 DEF ConfirmWithdrawal
  <2>2. \A o \in ops' : o \in ops \/ o.kind \notin {"activate", "exit"}
    BY <1>8 DEF ConfirmWithdrawal, Confirmed
  <2> QED BY SMTT(30), <1>0, <2>1, <2>2, LifeKept
<1>9. ASSUME NEW x \in Amounts, Reward(x) PROVE LifeInv' /\ LifeStep
  BY <1>0, <1>9, LifeKept DEF Reward
<1>10. ASSUME NEW o \in ops, Activate(o) PROVE LifeInv' /\ LifeStep
  <2>1. o.kind = "activate" /\ ops' = ops \ {o} /\ UNCHANGED <<slot, asked>>
    BY <1>10 DEF Activate
  <2>2. val'.act = o.era + 2 /\ val'.exit = val.exit /\ o.era \in 0 .. LastSlot
    BY Zenon, <1>10, ErasSet DEF Postpone, ShapeInv, OpOK
  <2>3. val.act = Never /\ val.exit = Never /\ UNCHANGED Never
    BY SMTT(30), <1>0, <2>1 DEF LifeInv, Never
  <2>4. /\ \A r \in asked : r.kind # "exit"
        /\ \A p \in ops : p.kind # "exit" /\ (p.kind = "activate" => p = o)
    BY SMTT(30), <1>0, <2>1, <2>3 DEF LifeInv, ShapeInv, OpOK
  <2> QED BY <1>0, <2>1, <2>2, <2>3, <2>4 DEF LifeInv, LifeStep
<1>11. ASSUME NEW o \in ops, Deactivate(o) PROVE LifeInv' /\ LifeStep
  <2>1. /\ o.kind = "exit" /\ val.exit = Never /\ ops' = ops \ {o}
        /\ UNCHANGED <<slot, asked>>
    BY SMTT(30), <1>11 DEF Deactivate
  <2>2. val'.act = val.act /\ val'.exit = o.era + 2 /\ o.era \in 0 .. LastSlot
    BY <1>11, ErasSet DEF Postpone, ShapeInv, OpOK
  <2>3. val.act <= o.era /\ val.act \in Nat /\ UNCHANGED Never
    BY <2>1 DEF LifeInv, Never
  <2> QED BY <1>0, <2>1, <2>2, <2>3 DEF LifeInv, LifeStep
<1>12. ASSUME NEW o \in ops, UpdateBalance(o) PROVE LifeInv' /\ LifeStep
  <2>1. SameEras(val, val')
    BY SMTT(30), <1>12, ErasKept
  <2> QED BY SMTT(30), <1>0, <1>12, <2>1, LifeKept DEF UpdateBalance, SameEras
<1> QED
  BY ZenonT(60), <1>1, <1>2, <1>3, <1>4, <1>5, <1>6, <1>7, <1>8, <1>9, <1>10, <1>11, <1>12
  DEF StakingNext

\* At the start.
LEMMA StakingStart ==
  ASSUME StakingConstants, StakingInit
  PROVE  ShapeInv /\ LifeInv
<1>1. LastSlot \in Nat
  BY DEF StakingConstants
<1>2. /\ slot = 0 /\ held = 0 /\ rewards = 0 /\ asked = {} /\ ops = {} /\ next = 1
      /\ val = NewValidator
  BY SMTT(30) DEF StakingInit
<1>3. /\ {"act", "exit", "stake"} \subseteq DOMAIN val /\ val.stake \in [Addr -> Nat]
      /\ val.act = Never /\ val.exit = Never
  BY <1>2 DEF NewValidator
<1>4. IsFiniteSet(ops)
  BY <1>2, FS_EmptySet
<1> QED BY <1>1, <1>2, <1>3, <1>4 DEF ShapeInv, LifeInv, Never

\* The eras of activation and exit are set once, the exit after the activation,
\* for any accounts, amounts and forks, although an exit that expires is asked for
\* and confirmed again and validatorActivate checks nothing before the fork.
THEOREM LifecycleCorrect ==
  ASSUME StakingConstants
  PROVE  StakingSpec => Lifecycle
<1>1. StakingInit => ShapeInv /\ LifeInv
  BY StakingStart
<1>2. ShapeInv /\ LifeInv /\ [StakingNext]_stakingVars => (ShapeInv /\ LifeInv)'
  BY ShapeNext, LifeNext
<1>3. ShapeInv /\ LifeInv /\ [StakingNext]_stakingVars => [LifeStep]_stakingVars
  BY LifeNext
<1>4. StakingSpec => [][LifeStep]_stakingVars
  BY <1>1, <1>2, <1>3, PTL DEF StakingSpec
<1> QED BY <1>4 DEF Lifecycle, LifeStep

-----------------------------------------------------------------------------
(* The coins of the accounts, of the coordinator and of its answers.        *)

Owed(S) == [o \in S |-> o.amount]

\* An answer that is confirmed or carried out.
LEMMA OwedMore ==
  ASSUME NEW S, IsFiniteSet(S), NEW o, o \notin S, \A p \in S \cup {o} : p.amount \in Nat
  PROVE  /\ SumOf(Owed(S)) \in Nat /\ SumOf(Owed(S \cup {o})) \in Nat
         /\ SumOf(Owed(S \cup {o})) = SumOf(Owed(S)) + o.amount
<1> DEFINE T == S \cup {o}
           f == Owed(T)
<1>1. IsFiniteSet(T) /\ o \in T
  BY FS_AddElement
<1>2. f \in [T -> Nat] /\ f[o] = o.amount
  BY DEF Owed
<1>3. Without(T, f, o) = Owed(S)
  BY DEF Without, Owed
<1> HIDE DEF T, f
<1>4. /\ SumOf(Without(T, f, o)) \in Nat /\ SumOf(f) \in Nat
      /\ SumOf(f) = SumOf(Without(T, f, o)) + f[o]
  BY <1>1, <1>2, SumRest, Zenon
<1> QED BY Zenon, <1>2, <1>3, <1>4 DEF T, f

Total == Cardinality(Addr) * Funds

\* Conserved, of the values that it is about.
Balanced(b, h, S, w) ==
  /\ b \in [Addr -> Nat] /\ SumOf(b) \in Nat /\ SumOf(Owed(S)) \in Nat
  /\ SumOf(b) + h + SumOf(Owed(S)) = Total + w

CoinInv == Balanced(balance, held, ops, rewards)

\* The accounts have the same funds at the start.
LEMMA CoinStart ==
  ASSUME StakingConstants, StakingInit
  PROVE  CoinInv
<1> DEFINE f == [a \in Addr |-> Funds]
<1>1. IsFiniteSet(Addr) /\ Funds \in Nat /\ Cardinality(Addr) \in Nat
  BY FS_CardinalityType DEF StakingConstants
<1>2. balance = f /\ held = 0 /\ rewards = 0 /\ ops = {}
  BY DEF StakingInit
<1>3. SumOf(f) = Total /\ SumOf(f) \in Nat
  <2>1. Coins(f) = Addr \X (1 .. Funds)
    BY DEF Coins
  <2>2. IsFiniteSet(1 .. Funds) /\ Cardinality(1 .. Funds) = Funds
    BY SMTT(30), <1>1, FS_Interval
  <2>3. Cardinality(Addr \X (1 .. Funds)) = Cardinality(Addr) * Cardinality(1 .. Funds)
    BY Zenon, <1>1, <2>2, FS_Product
  <2>4. f \in [Addr -> Nat]
    BY <1>1
  <2> QED BY ZenonT(60), <1>1, <2>1, <2>2, <2>3, <2>4, CoinsFinite DEF SumOf, Total
<1>4. SumOf(Owed({})) = 0
  <2>1. Coins(Owed({})) = {}
    BY Zenon DEF Coins, Owed
  <2> QED BY <2>1, FS_EmptySet DEF SumOf
<1>5. f \in [Addr -> Nat]
  BY <1>1
<1> HIDE DEF f
<1> QED BY SMTT(30), <1>2, <1>3, <1>4, <1>5 DEF CoinInv, Balanced

\* A confirmed answer takes its amount from what the coordinator holds.
LEMMA CoinsConfirmed ==
  ASSUME ShapeInv, CoinInv, NEW o, o \notin ops, o.amount \in Nat,
         ops' = ops \cup {o}, held' = held - o.amount, UNCHANGED <<balance, rewards>>
  PROVE  CoinInv'
<1>1. IsFiniteSet(ops) /\ held \in Nat /\ \A p \in ops : p.amount \in Nat
  BY Zenon DEF ShapeInv, OpOK
<1>2. /\ SumOf(Owed(ops')) \in Nat
      /\ SumOf(Owed(ops')) = SumOf(Owed(ops)) + o.amount
  BY <1>1, OwedMore
<1>3. Balanced(balance', held', ops', rewards')
  BY <1>1, <1>2 DEF CoinInv, Balanced
<1> QED BY Zenon, <1>3 DEF CoinInv, Balanced, Total, Owed, SumOf, Coins

\* An operation that is carried out gives its amount to an account.
LEMMA CoinsPaid ==
  ASSUME StakingConstants, ShapeInv, CoinInv, NEW o \in ops, NEW a \in Addr,
         ops' = ops \ {o}, balance' = [balance EXCEPT ![a] = @ + o.amount],
         UNCHANGED <<held, rewards>>
  PROVE  CoinInv'
<1>1. /\ IsFiniteSet(ops') /\ IsFiniteSet(Addr) /\ held \in Nat
      /\ \A p \in ops : p.amount \in Nat
  BY Zenon, FS_RemoveElement DEF ShapeInv, OpOK, StakingConstants
<1>2. ops = ops' \cup {o} /\ o \notin ops'
  BY Zenon
<1>3. /\ SumOf(Owed(ops')) \in Nat
      /\ SumOf(Owed(ops)) = SumOf(Owed(ops')) + o.amount
  <2>1. \A p \in ops' \cup {o} : p.amount \in Nat
    BY <1>1, <1>2
  <2> QED BY Zenon, <1>1, <1>2, <2>1, OwedMore
<1> DEFINE v == balance[a] + o.amount
<1>4. v \in Nat /\ v - balance[a] = o.amount /\ balance' = [balance EXCEPT ![a] = v]
  BY <1>1 DEF CoinInv, Balanced
<1> HIDE DEF v
<1>5. Changed(Addr, balance, balance', a, v)
  BY Zenon, <1>1, <1>4 DEF Changed, CoinInv, Balanced
<1>6. Adds(Addr, balance, balance', v - balance[a])
  BY ZenonT(60), <1>5, SumChange
<1>7. Balanced(balance', held', ops', rewards')
  BY <1>1, <1>3, <1>4, <1>6 DEF Adds, CoinInv, Balanced
<1> QED BY Zenon, <1>7 DEF CoinInv, Balanced, Total, Owed, SumOf, Coins

\* CoinInv is inductive without delegation.
LEMMA CoinNext ==
  ASSUME StakingConstants, ~Delegating, ShapeInv, CoinInv, [StakingNext]_stakingVars
  PROVE  CoinInv'
<1>0. held \in Nat /\ rewards \in Nat /\ Total \in Nat
  BY SMTT(30), FS_CardinalityType DEF ShapeInv, Total, StakingConstants
<1>q. ASSUME UNCHANGED <<balance, held, ops, rewards>> PROVE CoinInv'
  BY <1>q DEF CoinInv, Balanced, Total, Owed, SumOf, Coins
<1>1. CASE UNCHANGED stakingVars
  BY <1>1, <1>q DEF stakingVars
<1>2. CASE NextSlot
  BY Zenon, <1>2, <1>q DEF NextSlot
<1>3. ASSUME NEW a \in Addr, NEW x \in Amounts, Deposit(a, x) PROVE CoinInv'
  <2> DEFINE v == balance[a] - x
  <2>1. /\ x \in Nat /\ IsFiniteSet(Addr) /\ balance[a] >= x
        /\ held' = held + x /\ balance' = [balance EXCEPT ![a] = v]
        /\ UNCHANGED <<ops, rewards>>
    BY Zenon, <1>3 DEF Deposit, StakingConstants
  <2>2. v \in Nat /\ v - balance[a] = -x
    BY <2>1 DEF CoinInv, Balanced
  <2> HIDE DEF v
  <2>3. Changed(Addr, balance, balance', a, v)
    BY <2>1, <2>2 DEF Changed, CoinInv, Balanced
  <2>4. Adds(Addr, balance, balance', v - balance[a])
    BY <2>3, SumChange, Zenon
  <2>5. Balanced(balance', held', ops', rewards')
    BY <1>0, <2>1, <2>2, <2>4 DEF Adds, CoinInv, Balanced
  <2> QED BY Zenon, <2>5 DEF CoinInv, Balanced, Total, Owed, SumOf, Coins
<1>4. ASSUME NEW a \in Addr, Exit(a) PROVE CoinInv'
  BY <1>4, <1>q DEF Exit
<1>5. ASSUME NEW a \in Addr, NEW x \in Amounts \cup {0}, Withdrawal(a, x) PROVE CoinInv'
  BY <1>5, <1>q DEF Withdrawal
<1>6. CASE ConfirmActivation
  <2> DEFINE o == Confirmed("activate",
                    [tx |-> 0, slot |-> slot, from |-> WithdrawalAddress], 0, 0)
  <2>1. ops' = ops \cup {o} /\ UNCHANGED <<balance, held, rewards>>
    BY Zenon, <1>6 DEF ConfirmActivation
  <2>2. o.amount = 0 /\ o \notin ops
    BY <1>6 DEF ConfirmActivation, Confirmed, Activated
  <2> HIDE DEF o
  <2>3. held' = held - o.amount /\ o.amount \in Nat
    BY <1>0, <2>1, <2>2
  <2> QED BY Zenon, <2>1, <2>2, <2>3, CoinsConfirmed
<1>7. ASSUME NEW r \in asked, ConfirmExit(r) PROVE CoinInv'
  <2> DEFINE o == Confirmed("exit", r, 0, 0)
  <2>1. ops' = ops \cup {o} /\ UNCHANGED <<balance, held, rewards>>
    BY Zenon, <1>7 DEF ConfirmExit
  <2>2. o.amount = 0 /\ o \notin ops
    BY Zenon DEF Confirmed, ShapeInv
  <2> HIDE DEF o
  <2>3. held' = held - o.amount /\ o.amount \in Nat
    BY <1>0, <2>1, <2>2
  <2> QED BY Zenon, <2>1, <2>2, <2>3, CoinsConfirmed
<1>8. ASSUME NEW r \in asked, ConfirmWithdrawal(r) PROVE CoinInv'
  <2> DEFINE o == Confirmed(r.kind, r, r.amount, held - r.amount)
  <2>1. CASE held' = held - r.amount /\ ops' = ops \cup {o}
    <3>1. o.amount = r.amount /\ r.amount \in Nat /\ o \notin ops
      BY Zenon DEF Confirmed, ShapeInv, RequestOK
    <3>2. UNCHANGED <<balance, rewards>>
      BY <1>8 DEF ConfirmWithdrawal
    <3> HIDE DEF o
    <3> QED BY Zenon, <2>1, <3>1, <3>2, CoinsConfirmed
  <2>2. CASE UNCHANGED <<held, ops>>
    BY Zenon, <1>8, <1>q, <2>2 DEF ConfirmWithdrawal
  <2> QED BY Zenon, <1>8, <2>1, <2>2 DEF ConfirmWithdrawal
<1>9. ASSUME NEW x \in Amounts, Reward(x) PROVE CoinInv'
  <2>1. /\ x \in Nat /\ held' = held + x /\ rewards' = rewards + x
        /\ UNCHANGED <<balance, ops>>
    BY Zenon, <1>9 DEF Reward, StakingConstants
  <2>2. Balanced(balance', held', ops', rewards')
    BY <1>0, <2>1 DEF CoinInv, Balanced
  <2> QED BY Zenon, <2>2 DEF CoinInv, Balanced, Total, Owed, SumOf, Coins
<1>10. ASSUME NEW o \in ops, Activate(o) \/ Deactivate(o) PROVE CoinInv'
  <2>1. /\ ops' = ops \ {o} /\ UNCHANGED <<balance, held, rewards>>
        /\ o.kind \in {"activate", "exit"}
    BY Zenon, <1>10 DEF Activate, Deactivate
  <2>2. o.amount = 0 /\ WithdrawalAddress \in Addr
    BY Zenon, <2>1 DEF ShapeInv, OpOK, StakingConstants
  <2>3. balance' = [balance EXCEPT ![WithdrawalAddress] = @ + o.amount]
    BY <2>1, <2>2 DEF CoinInv, Balanced
  <2> QED BY Zenon, <2>1, <2>2, <2>3, CoinsPaid
<1>11. ASSUME NEW o \in ops, UpdateBalance(o) PROVE CoinInv'
  <2>1. ops' = ops \ {o} /\ UNCHANGED <<held, rewards>>
    BY <1>11 DEF UpdateBalance
  <2>2. PICK a \in Addr : balance' = [balance EXCEPT ![a] = @ + o.amount]
    <3>1. o.from \in Addr /\ WithdrawalAddress \in Addr
      BY Zenon DEF ShapeInv, OpOK, StakingConstants
    <3>2. \/ balance' = [balance EXCEPT ![o.from] = @ + o.amount]
          \/ balance' = [balance EXCEPT ![WithdrawalAddress] = @ + o.amount]
      BY Zenon, <1>11 DEF UpdateBalance, Refund, PayOut, ApplyDelegatingStakeRules
    <3> QED BY Zenon, <3>1, <3>2
  <2> QED BY Zenon, <2>1, <2>2, CoinsPaid
<1> QED
  BY ZenonT(60), <1>1, <1>2, <1>3, <1>4, <1>5, <1>6, <1>7, <1>8, <1>9, <1>10, <1>11
  DEF StakingNext

\* Without delegation no coin is created or lost by deposits, refunds and payments,
\* for any accounts, amounts and forks, whatever requests expire and are repeated:
\* an answer is paid once.
THEOREM ConservedCorrect ==
  ASSUME StakingConstants, ~Delegating
  PROVE  StakingSpec => []Conserved
<1>1. StakingInit => ShapeInv /\ CoinInv
  BY StakingStart, CoinStart
<1>2. ShapeInv /\ CoinInv /\ [StakingNext]_stakingVars => (ShapeInv /\ CoinInv)'
  BY ShapeNext, CoinNext
<1>3. CoinInv => Conserved
  BY DEF CoinInv, Balanced, Conserved, Owed, Total
<1> QED BY <1>1, <1>2, <1>3, PTL DEF StakingSpec

-----------------------------------------------------------------------------
(* HeadSync: SemaphoreOpen and SlotsCovered.                                *)

PCs == {"none", "check", "range", "result", "test", "classify", "release",
        "count", "add", "done"}

Routine == [pc : PCs, from : Nat, began : Nat, result : {"nil", "timeout", "bad"}, read : Nat]

\* The goroutines that run, each with a token.
Active == {p \in HeadPeers : routine[p].pc \notin {"none", "done"}}

\* The tokens that no goroutine keeps: those in the semaphore or in use.
Held == sem + Cardinality(Active)

(***************************************************************************)
(* A token is in the semaphore, with a goroutine that runs, or kept by one *)
(* that succeeded.  The goroutines overwrite each other's count, but the   *)
(* values that they read and write stay within the number of tokens kept.  *)
(* So when count reaches MaxPeerCon every token is kept, and no goroutine  *)
(* is left to return one.                                                  *)
(***************************************************************************)
SemInv ==
    /\ routine \in [HeadPeers -> Routine] /\ current \in Nat
    /\ sem \in Nat /\ count \in Nat
    /\ untried \subseteq HeadPeers /\ \A p \in untried : routine[p].pc = "none"
    /\ Held + count <= MaxPeerCon
    /\ \A p \in HeadPeers : routine[p].pc = "add" => Held + routine[p].read <= MaxPeerCon
    /\ cancelled => Held = 0
    /\ semClosed => cancelled
    /\ ~panicked

\* Active is finite.
LEMMA ActiveFinite ==
  ASSUME HeadSyncConstants
  PROVE  IsFiniteSet(Active) /\ Cardinality(Active) \in Nat
<1>1. IsFiniteSet(HeadPeers)
  BY FS_Interval DEF HeadPeers, HeadSyncConstants
<1>2. Active \in SUBSET HeadPeers
  BY DEF Active
<1>3. IsFiniteSet(Active)
  BY <1>1, <1>2, FS_Subset
<1> QED BY <1>3, FS_CardinalityType

\* No token is held exactly when the semaphore is empty and no goroutine runs.
LEMMA HeldNone ==
  ASSUME HeadSyncConstants, sem \in Nat
  PROVE  Held \in Nat /\ (Held = 0 => sem = 0 /\ Active = {})
<1>1. IsFiniteSet(Active) /\ Cardinality(Active) \in Nat
  BY ActiveFinite
<1>2. Cardinality(Active) = 0 => Active = {}
  BY Zenon, <1>1, FS_EmptySet
<1> QED BY <1>1, <1>2 DEF Held

\* SemInv holds when all tokens are in the semaphore.
LEMMA SemInit ==
  ASSUME HeadSyncConstants PROVE HeadInit => SemInv
<1> SUFFICES ASSUME HeadInit PROVE SemInv
  BY Zenon
<1>1. routine \in [HeadPeers -> Routine] /\ current \in Nat /\ \A p \in HeadPeers : routine[p].pc = "none"
  BY DEF HeadInit, NotStarted, Routine, PCs, HeadSyncConstants
<1>2. Active = {}
  BY <1>1 DEF Active
<1>3. Held = MaxPeerCon
  BY <1>2, FS_EmptySet DEF Held, HeadInit, HeadSyncConstants
<1>4. untried \subseteq HeadPeers
  BY DEF HeadInit, HeadPeers, HeadSyncConstants
<1> QED BY <1>1, <1>3, <1>4 DEF SemInv, HeadInit, HeadSyncConstants

\* A goroutine that goes on keeps its token.
LEMMA SemGoesOn ==
  ASSUME HeadSyncConstants, SemInv, NEW p \in Active, NEW r \in Routine,
         routine' = [routine EXCEPT ![p] = r], r.pc \notin {"none", "done"},
         r.pc = "add" => r.read = count,
         UNCHANGED <<untried, sem, semClosed, cancelled, count, current, panicked>>
  PROVE  SemInv'
<1>1. p \in HeadPeers /\ routine \in [HeadPeers -> Routine] /\ routine[p].pc \notin {"none", "done"}
  BY DEF Active, SemInv
<1>2. \A q \in HeadPeers : routine'[q] = IF q = p THEN r ELSE routine[q]
  BY <1>1
<1>3. Active' = Active
  BY Zenon, <1>1, <1>2 DEF Active
<1>4. Held' = Held
  BY <1>3 DEF Held
<1>5. routine' \in [HeadPeers -> Routine]
  BY <1>1
<1>6. \A q \in untried : routine'[q].pc = "none"
  BY Zenon, <1>1, <1>2 DEF SemInv
<1>7. \A q \in HeadPeers : routine'[q].pc = "add" => Held + routine'[q].read <= MaxPeerCon
  BY <1>1, <1>2 DEF SemInv
<1> QED BY Zenon, <1>4, <1>5, <1>6, <1>7 DEF SemInv

\* A goroutine that ends leaves its token or keeps it.
LEMMA SemEnds ==
  ASSUME HeadSyncConstants, SemInv, NEW p \in Active,
         RoutineGoto(p, "done")
  PROVE  /\ routine' \in [HeadPeers -> Routine]
         /\ Cardinality(Active') = Cardinality(Active) - 1
         /\ Cardinality(Active') \in Nat /\ Cardinality(Active) \in Nat
         /\ \A q \in HeadPeers : routine'[q].pc # "done" => routine'[q] = routine[q]
         /\ \A q \in untried : routine'[q].pc = "none"
<1>1. p \in HeadPeers /\ routine \in [HeadPeers -> Routine] /\ routine[p].pc \notin {"none", "done"}
  BY DEF Active, SemInv
<1>2. routine' \in [HeadPeers -> Routine] /\ routine'[p].pc = "done"
      /\ \A q \in HeadPeers \ {p} : routine'[q] = routine[q]
  BY <1>1 DEF RoutineGoto, Routine, PCs
<1>3. Active' = Active \ {p}
  BY Zenon, <1>1, <1>2 DEF Active
<1>4. IsFiniteSet(Active) /\ Cardinality(Active) \in Nat
  BY ActiveFinite
<1>5. Cardinality(Active \ {p}) = Cardinality(Active) - 1
  BY Zenon, <1>4, FS_RemoveElement
<1>6. Cardinality(Active \ {p}) \in Nat
  BY Zenon, <1>4, FS_RemoveElement, FS_CardinalityType
<1>7. p \notin untried
  BY <1>1 DEF SemInv
<1> QED BY Zenon, <1>2, <1>3, <1>4, <1>5, <1>6, <1>7 DEF SemInv

\* Every step of a goroutine keeps SemInv.
LEMMA SemRoutine ==
  ASSUME HeadSyncConstants, SemInv, NEW p \in HeadPeers, RoutineStep(p)
  PROVE  SemInv'
<1> DEFINE r == routine[p]
<1> r \in Routine /\ current \in Nat /\ count \in Nat /\ sem \in Nat
  BY DEF SemInv
<1> USE DEF RoutineAt
<1>1. ASSUME NEW q \in Routine, routine' = [routine EXCEPT ![p] = q],
             r.pc \notin {"none", "done"}, q.pc \notin {"none", "done"},
             q.pc = "add" => q.read = count,
             UNCHANGED <<untried, sem, semClosed, cancelled, count, current, panicked>>
      PROVE  SemInv'
  <2>1. p \in Active
    BY <1>1 DEF Active
  <2> QED BY Zenon, <1>1, <2>1, SemGoesOn
<1>2. CASE Checked(p)
  <2>1. PICK e \in {"nil", "timeout", "bad"} :
          routine' = [routine EXCEPT ![p].pc = IF e = "nil" THEN "range" ELSE "result",
                                     ![p].result = e, ![p].began = current]
    BY Zenon, <1>2 DEF Checked
  <2> DEFINE q == [r EXCEPT !.pc = IF e = "nil" THEN "range" ELSE "result",
                            !.result = e, !.began = current]
  <2>2. q \in Routine /\ q.pc \in {"range", "result"}
    BY Zenon DEF Routine, PCs
  <2>3. routine' = [routine EXCEPT ![p] = q]
    BY Zenon, <2>1 DEF SemInv
  <2>4. r.pc = "check" /\ UNCHANGED <<untried, sem, semClosed, cancelled, count, current, panicked>>
    BY <1>2 DEF Checked
  <2> HIDE DEF q, r
  <2> QED BY Zenon, <1>1, <2>2, <2>3, <2>4
<1>3. CASE FetchRange(p) \/ RangeFails(p) \/ RangesDone(p)
  <2>1. PICK q \in Routine : routine' = [routine EXCEPT ![p] = q] /\ q.pc \in {"range", "result"}
    <3>1. CASE FetchRange(p)
      <4> DEFINE q == [r EXCEPT !.from = r.from + RangeLimit]
      <4>1. q \in Routine /\ q.pc \in {"range", "result"}
        BY <3>1 DEF FetchRange, Routine, PCs, HeadSyncConstants
      <4>2. routine' = [routine EXCEPT ![p] = q]
        BY <3>1 DEF FetchRange, SemInv
      <4> QED BY Zenon, <4>1, <4>2
    <3>2. CASE RangeFails(p)
      <4> DEFINE q == [r EXCEPT !.pc = "result", !.result = "timeout"]
      <4>1. q \in Routine /\ q.pc \in {"range", "result"}
        BY Zenon DEF Routine, PCs
      <4>2. routine' = [routine EXCEPT ![p] = q]
        BY Zenon, <3>2 DEF RangeFails, SemInv
      <4> QED BY Zenon, <4>1, <4>2
    <3>3. CASE RangesDone(p)
      <4> DEFINE q == [r EXCEPT !.pc = "result"]
      <4>1. q \in Routine /\ q.pc \in {"range", "result"}
        BY DEF Routine, PCs
      <4>2. routine' = [routine EXCEPT ![p] = q]
        BY <3>3 DEF RangesDone, RoutineGoto, SemInv
      <4> QED BY Zenon, <4>1, <4>2
    <3> QED BY Zenon, <1>3, <3>1, <3>2, <3>3
  <2>2. r.pc = "range" /\ UNCHANGED <<untried, sem, semClosed, cancelled, count, current, panicked>>
    BY Zenon, <1>3 DEF FetchRange, RangeFails, RangesDone
  <2> HIDE DEF r
  <2> QED BY Zenon, <1>1, <2>1, <2>2
<1>4. CASE AssignErr(p) \/ TestErr(p) \/ Classify(p)
  <2>1. PICK c \in {"test", "count", "classify", "release"} : RoutineGoto(p, c)
    BY Zenon, <1>4 DEF AssignErr, TestErr, Classify
  <2> DEFINE q == [r EXCEPT !.pc = c]
  <2>2. q \in Routine /\ q.pc = c
    BY DEF Routine, PCs
  <2>3. routine' = [routine EXCEPT ![p] = q]
    BY Zenon, <2>1 DEF RoutineGoto, SemInv
  <2>4. /\ r.pc \in {"result", "test", "classify"}
        /\ UNCHANGED <<untried, sem, semClosed, cancelled, count, current, panicked>>
    BY Zenon, <1>4 DEF AssignErr, TestErr, Classify
  <2> HIDE DEF q, r
  <2> QED BY Zenon, <1>1, <2>2, <2>3, <2>4
<1>5. CASE ReadCount(p)
  <2> DEFINE q == [r EXCEPT !.pc = "add", !.read = count]
  <2>1. q \in Routine /\ q.pc = "add" /\ q.read = count
    BY Zenon DEF Routine, PCs
  <2>2. routine' = [routine EXCEPT ![p] = q]
    BY Zenon, <1>5 DEF ReadCount, SemInv
  <2>3. r.pc = "count" /\ UNCHANGED <<untried, sem, semClosed, cancelled, count, current, panicked>>
    BY Zenon, <1>5 DEF ReadCount
  <2> HIDE DEF q, r
  <2> QED BY Zenon, <1>1, <2>1, <2>2, <2>3
<1>6. CASE Release(p)
  <2>1. p \in Active
    BY <1>6 DEF Release, Active
  <2>2. ~semClosed
    BY Zenon, <2>1, HeldNone DEF SemInv
  <2>3. sem' = sem + 1 /\ RoutineGoto(p, "done") /\ panicked' = panicked
        /\ UNCHANGED <<untried, semClosed, cancelled, count, current>>
    BY Zenon, <1>6, <2>2 DEF Release
  <2>4. /\ routine' \in [HeadPeers -> Routine]
        /\ Cardinality(Active') = Cardinality(Active) - 1
        /\ Cardinality(Active') \in Nat /\ Cardinality(Active) \in Nat
        /\ \A q \in HeadPeers : routine'[q].pc # "done" => routine'[q] = routine[q]
        /\ \A q \in untried : routine'[q].pc = "none"
    BY ZenonT(60), <2>1, <2>3, SemEnds
  <2>5. Held' = Held
    BY <2>3, <2>4 DEF Held
  <2>6. \A q \in HeadPeers : routine'[q].pc = "add" => Held + routine'[q].read <= MaxPeerCon
    BY Zenon, <2>4 DEF SemInv
  <2> QED BY <2>3, <2>4, <2>5, <2>6 DEF SemInv
<1>7. CASE WriteCount(p)
  <2>1. p \in Active /\ r.pc = "add" /\ r.read \in Nat
    BY <1>7 DEF WriteCount, Active, Routine
  <2>2. /\ count' = r.read + 1 /\ RoutineGoto(p, "done")
        /\ cancelled' = (cancelled \/ r.read + 1 = MaxPeerCon)
        /\ UNCHANGED <<untried, sem, semClosed, current, panicked>>
    BY Zenon, <1>7 DEF WriteCount, EnoughPeers
  <2>3. /\ routine' \in [HeadPeers -> Routine]
        /\ Cardinality(Active') = Cardinality(Active) - 1
        /\ Cardinality(Active') \in Nat /\ Cardinality(Active) \in Nat
        /\ \A q \in HeadPeers : routine'[q].pc # "done" => routine'[q] = routine[q]
        /\ \A q \in untried : routine'[q].pc = "none"
    BY ZenonT(60), <2>1, <2>2, SemEnds
  <2>4. Held' = Held - 1 /\ Held \in Nat /\ Held' \in Nat
    <3>1. sem' = sem /\ sem \in Nat
      BY <2>2 DEF SemInv
    <3> QED BY <2>3, <3>1, SMT DEF Held
  <2>5. Held + r.read <= MaxPeerCon
    BY <2>1 DEF SemInv
  <2>6. Held' + count' <= MaxPeerCon
    BY <2>1, <2>2, <2>4, <2>5 DEF HeadSyncConstants
  <2>7. \A q \in HeadPeers : routine'[q].pc = "add" => Held' + routine'[q].read <= MaxPeerCon
    <3>1. ASSUME NEW q \in HeadPeers, routine'[q].pc = "add" PROVE Held' + routine'[q].read <= MaxPeerCon
      <4>1. routine'[q] = routine[q] /\ routine[q].read \in Nat
        BY Zenon, <2>3, <3>1 DEF SemInv, Routine
      <4>2. Held + routine[q].read <= MaxPeerCon
        BY Zenon, <3>1, <4>1 DEF SemInv
      <4> QED BY <2>4, <4>1, <4>2 DEF HeadSyncConstants
    <3> QED BY SMTT(30), <3>1
  <2>8. cancelled' => Held' = 0
    <3>1. ~cancelled
      BY Zenon, <2>1, HeldNone DEF SemInv
    <3>2. cancelled' => r.read + 1 = MaxPeerCon
      BY Zenon, <2>2, <3>1
    <3>3. r.read + 1 = MaxPeerCon => Held' = 0
      BY <2>1, <2>4, <2>5, SMT DEF HeadSyncConstants
    <3> QED BY Zenon, <3>2, <3>3
  <2>9. semClosed' => cancelled'
    BY Zenon, <2>2 DEF SemInv
  <2>10. count' \in Nat
    BY <2>1, <2>2
  <2> QED BY ZenonT(60), <2>2, <2>3, <2>6, <2>7, <2>8, <2>9, <2>10 DEF SemInv
<1> QED BY Zenon, <1>2, <1>3, <1>4, <1>5, <1>6, <1>7 DEF RoutineStep

\* The loop over the peers and the clock keep SemInv: Spawn moves a token
\* from the semaphore to a goroutine, which needs one to be there.
LEMMA SemSpawn ==
  ASSUME HeadSyncConstants, SemInv, NEW p \in HeadPeers, Spawn(p)
  PROVE  SemInv'
<1> DEFINE q == [routine[p] EXCEPT !.pc = "check"]
<1>1. routine[p] \in Routine /\ routine[p].pc = "none" /\ sem \in Nat /\ sem > 0
  BY DEF SemInv, Spawn
<1>2. q \in Routine /\ q.pc = "check"
  BY <1>1 DEF Routine, PCs
<1>3. /\ routine' = [routine EXCEPT ![p] = q] /\ sem' = sem - 1
      /\ untried' = untried \ {p}
      /\ UNCHANGED <<semClosed, cancelled, count, current, panicked>>
  BY DEF Spawn, RoutineGoto, SemInv
<1> HIDE DEF q
<1>4. routine' \in [HeadPeers -> Routine]
      /\ \A x \in HeadPeers : routine'[x] = IF x = p THEN q ELSE routine[x]
  BY Zenon, <1>2, <1>3 DEF SemInv
<1>5. p \notin Active
  BY Zenon, <1>1 DEF Active
<1>6. Active' = Active \cup {p}
  BY <1>2, <1>4 DEF Active
<1>7. IsFiniteSet(Active) /\ Cardinality(Active) \in Nat
  BY ActiveFinite
<1>8. Cardinality(Active') = Cardinality(Active) + 1
  BY Zenon, <1>5, <1>6, <1>7, FS_AddElement
<1>9. Held' = Held /\ sem' \in Nat
  BY <1>1, <1>3, <1>7, <1>8 DEF Held
<1>10. \A x \in untried' : routine'[x].pc = "none"
  BY Zenon, <1>3, <1>4 DEF SemInv
<1>11. \A x \in HeadPeers : routine'[x].pc = "add" => Held' + routine'[x].read <= MaxPeerCon
  BY Zenon, <1>2, <1>4, <1>9 DEF SemInv
<1> QED BY Zenon, <1>3, <1>4, <1>9, <1>10, <1>11 DEF SemInv

\* SemInv is inductive.
LEMMA SemNext ==
  ASSUME HeadSyncConstants PROVE SemInv /\ [HeadNext]_headVars => SemInv'
<1> SUFFICES ASSUME SemInv, [HeadNext]_headVars PROVE SemInv'
  OBVIOUS
<1>1. CASE Enough \/ AllTried \/ Wait \/ ClockTick \/ UNCHANGED headVars
  <2>1. UNCHANGED <<untried, sem, cancelled, count, routine, panicked>>
        /\ (semClosed' = semClosed \/ (semClosed' = TRUE /\ cancelled))
        /\ current' \in Nat
    BY <1>1 DEF Enough, AllTried, Wait, ClockTick, headVars, SemInv
  <2>2. Held' = Held
    BY <2>1 DEF Held, Active
  <2> QED BY SMTT(30), <2>1, <2>2 DEF SemInv
<1>2. ASSUME NEW p \in HeadPeers, Spawn(p) PROVE SemInv'
  BY <1>2, SemSpawn
<1>3. ASSUME NEW p \in HeadPeers, RoutineStep(p) PROVE SemInv'
  BY <1>3, SemRoutine
<1> QED BY <1>1, <1>2, <1>3 DEF HeadNext, Loop

\* No goroutine of multiPeersHeadSync sends its token on the closed channel,
\* however the goroutines overwrite each other's err and count.
THEOREM SemaphoreOpenCorrect ==
  ASSUME HeadSyncConstants PROVE HeadSpec => []SemaphoreOpen
<1>1. HeadInit => SemInv
  BY SemInit
<1>2. SemInv /\ [HeadNext]_headVars => SemInv'
  BY SemNext
<1>3. SemInv => SemaphoreOpen
  BY Zenon DEF SemInv, SemaphoreOpen
<1> QED BY <1>1, <1>2, <1>3, PTL DEF HeadSpec

-----------------------------------------------------------------------------
(***************************************************************************)
(* What a goroutine has of the slots: everything below the next range, as  *)
(* long as no request failed.                                              *)
(***************************************************************************)
Covered(p) ==
    LET r == routine[p] IN
    /\ r.pc \in {"none", "check"} => r.from = Base
    /\ r.pc = "range" => r.began <= current
    /\ r.pc = "range" \/ (r.pc = "result" /\ r.result = "nil")
         => \A s \in Base..r.began : s < r.from => s \in peerSlots[p]
    /\ r.pc = "result" /\ r.result = "nil" => r.began < r.from

CoverInv == SemInv /\ peerSlots \in [HeadPeers -> SUBSET Nat] /\ \A p \in HeadPeers : Covered(p)

\* A goroutine that does not step keeps what it has.
LEMMA CoverOther ==
  ASSUME SemInv, SemInv', NEW p \in HeadPeers, Covered(p),
         routine'[p] = routine[p], peerSlots'[p] = peerSlots[p], current <= current'
  PROVE  Covered(p)'
<1>1. routine[p].began \in Nat /\ current \in Nat /\ current' \in Nat
  BY Zenon DEF SemInv, Routine
<1> QED BY <1>1 DEF Covered

\* A range that is answered covers the slots up to the next one.
LEMMA CoverRange ==
  ASSUME HeadSyncConstants, CoverInv, NEW p \in HeadPeers, FetchRange(p)
  PROVE  Covered(p)'
<1> DEFINE r == routine[p]
<1>1. r \in Routine /\ r.from \in Nat /\ r.began \in Nat /\ current \in Nat
  BY DEF CoverInv, SemInv, Routine
<1>2. /\ r.pc = "range" /\ current' = current
      /\ routine'[p] = [r EXCEPT !.from = r.from + RangeLimit]
      /\ peerSlots'[p] = peerSlots[p] \cup ServedSlots(r.from, r.from + RangeLimit)
  BY DEF FetchRange, RoutineAt, CoverInv, SemInv
<1>3. /\ r.began <= current
      /\ \A s \in Base..r.began : s < r.from => s \in peerSlots[p]
  BY Zenon, <1>2 DEF CoverInv, Covered
<1>4. /\ routine'[p].pc = "range" /\ routine'[p].began = r.began
      /\ routine'[p].from = r.from + RangeLimit
  BY Zenon, <1>1, <1>2 DEF Routine
<1>5. ASSUME NEW s \in Base..r.began, s < r.from + RangeLimit PROVE s \in peerSlots'[p]
  <2>1. s \in Nat /\ s <= current
    BY <1>1, <1>3, <1>5 DEF HeadSyncConstants
  <2>2. CASE s < r.from
    BY Zenon, <1>2, <1>3, <2>2
  <2>3. CASE r.from <= s
    <3>1. s \in ServedSlots(r.from, r.from + RangeLimit)
      BY <1>1, <1>5, <2>1, <2>3 DEF ServedSlots, HeadSyncConstants
    <3> QED BY <1>2, <3>1
  <2> QED BY <1>1, <2>1, <2>2, <2>3
<1> HIDE DEF r
<1> QED BY Zenon, <1>2, <1>3, <1>4, <1>5 DEF Covered

\* The other steps of a goroutine.
LEMMA CoverRoutine ==
  ASSUME HeadSyncConstants, CoverInv, NEW p \in HeadPeers, RoutineStep(p), ~FetchRange(p), SemInv'
  PROVE  Covered(p)'
<1> DEFINE r == routine[p]
<1>1. r \in Routine /\ r.from \in Nat /\ r.began \in Nat /\ current \in Nat
  BY DEF CoverInv, SemInv, Routine
<1>2. routine \in [HeadPeers -> Routine] /\ Covered(p)
  BY Zenon DEF CoverInv, SemInv
<1> USE DEF RoutineAt
<1>3. CASE Checked(p)
  <2>1. PICK e \in {"nil", "timeout", "bad"} :
          routine' = [routine EXCEPT ![p].pc = IF e = "nil" THEN "range" ELSE "result",
                                     ![p].result = e, ![p].began = current]
    BY Zenon, <1>3 DEF Checked
  <2>2. /\ routine'[p].pc = IF e = "nil" THEN "range" ELSE "result"
        /\ routine'[p].result = e /\ routine'[p].began = current
        /\ routine'[p].from = r.from /\ current' = current
    BY Zenon, <1>1, <1>2, <1>3, <2>1 DEF Checked, Routine
  <2>3. r.from = Base
    BY Zenon, <1>2, <1>3 DEF Checked, Covered
  <2>4. \A s \in Base..current : ~(s < Base)
    BY <1>1 DEF HeadSyncConstants
  <2> QED BY <1>1, <2>2, <2>3, <2>4 DEF Covered
<1>4. CASE RangeFails(p)
  <2>1. routine'[p].pc = "result" /\ routine'[p].result = "timeout"
    BY Zenon, <1>1, <1>2, <1>4 DEF RangeFails, Routine
  <2> QED BY <2>1 DEF Covered
<1>5. CASE RangesDone(p)
  <2>1. /\ routine'[p].pc = "result" /\ routine'[p].result = r.result
        /\ routine'[p].from = r.from /\ routine'[p].began = r.began
        /\ peerSlots' = peerSlots
    BY Zenon, <1>1, <1>2, <1>5 DEF RangesDone, RoutineGoto, Routine
  <2>2. /\ r.began <= current /\ ~(r.from <= current)
        /\ \A s \in Base..r.began : s < r.from => s \in peerSlots[p]
    BY Zenon, <1>2, <1>5 DEF RangesDone, RangesLeft, Covered
  <2>3. r.began < r.from
    BY <1>1, <2>2
  <2> HIDE DEF r
  <2> QED BY <2>1, <2>2, <2>3 DEF Covered
<1>6. CASE AssignErr(p) \/ TestErr(p) \/ Classify(p) \/ Release(p) \/ ReadCount(p) \/ WriteCount(p)
  <2>1. routine'[p].pc \in {"test", "count", "classify", "release", "done", "add"}
    <3>1. ~panicked'
      BY Zenon DEF SemInv
    <3> QED
      BY <1>1, <1>2, <1>6, <3>1
         DEF AssignErr, TestErr, Classify, Release, ReadCount, WriteCount, RoutineGoto, Routine
  <2> QED BY Zenon, <2>1 DEF Covered
<1> QED BY Zenon, <1>3, <1>4, <1>5, <1>6 DEF RoutineStep

\* CoverInv is inductive.
LEMMA CoverNext ==
  ASSUME HeadSyncConstants PROVE CoverInv /\ [HeadNext]_headVars => CoverInv'
<1> SUFFICES ASSUME CoverInv, [HeadNext]_headVars PROVE CoverInv'
  OBVIOUS
<1>1. SemInv /\ SemInv' /\ current \in Nat
  BY SemNext DEF CoverInv, SemInv
<1>2. routine \in [HeadPeers -> Routine] /\ peerSlots \in [HeadPeers -> SUBSET Nat]
  BY DEF CoverInv, SemInv
<1>3. \A q \in HeadPeers : Covered(q)
  BY DEF CoverInv
<1>4. CASE Enough \/ AllTried \/ Wait \/ ClockTick \/ UNCHANGED headVars
  <2>1. routine' = routine /\ peerSlots' = peerSlots /\ current <= current'
    <3>1. routine' = routine /\ peerSlots' = peerSlots /\ current' \in {current, current + 1}
      BY Zenon, <1>4 DEF Enough, AllTried, Wait, ClockTick, headVars
    <3> QED BY <1>1, <3>1, SMT
  <2>2. ASSUME NEW q \in HeadPeers PROVE Covered(q)'
    BY Zenon, <1>1, <1>3, <2>1, CoverOther
  <2> QED BY Zenon, <1>1, <1>2, <2>1, <2>2 DEF CoverInv
<1>5. ASSUME NEW p \in HeadPeers, Spawn(p) PROVE CoverInv'
  <2>1. /\ routine' = [routine EXCEPT ![p].pc = "check"] /\ peerSlots' = peerSlots
        /\ current' = current /\ routine[p].pc = "none"
    BY Zenon, <1>1, <1>5 DEF Spawn, RoutineGoto, SemInv
  <2>2. ASSUME NEW q \in HeadPeers PROVE Covered(q)'
    <3>1. CASE q = p
      <4>1. routine[p].from = Base
        BY Zenon, <1>3, <2>1 DEF Covered
      <4>2. routine[p] \in Routine
        BY <1>2
      <4>3. routine'[p].pc = "check" /\ routine'[p].from = Base
        BY Zenon, <1>2, <2>1, <4>1, <4>2 DEF Routine
      <4> QED BY <3>1, <4>3 DEF Covered
    <3>2. CASE q # p
      <4>1. routine'[q] = routine[q] /\ current <= current'
        BY <1>1, <1>2, <2>1, <3>2
      <4> QED BY Zenon, <1>1, <1>3, <2>1, <4>1, CoverOther
    <3> QED BY Zenon, <3>1, <3>2
  <2> QED BY Zenon, <1>1, <1>2, <2>1, <2>2 DEF CoverInv
<1>6. ASSUME NEW p \in HeadPeers, RoutineStep(p) PROVE CoverInv'
  <2>1. Covered(p)'
    BY Zenon, <1>1, <1>6, CoverRange, CoverRoutine
  <2>2. /\ current' = current
        /\ \A q \in HeadPeers : q # p => routine'[q] = routine[q]
    BY Zenon, <1>2, <1>6
       DEF RoutineStep, Checked, FetchRange, RangeFails, RangesDone, AssignErr, TestErr, Classify,
           Release, ReadCount, WriteCount, RoutineGoto
  <2>3. peerSlots' \in [HeadPeers -> SUBSET Nat] /\ \A q \in HeadPeers : q # p => peerSlots'[q] = peerSlots[q]
    <3>1. CASE FetchRange(p)
      <4> DEFINE new == ServedSlots(routine[p].from, routine[p].from + RangeLimit)
      <4>1. routine[p].from \in Nat
        BY <1>2 DEF Routine
      <4>2. new \subseteq Nat
        BY <4>1 DEF ServedSlots, HeadSyncConstants
      <4>3. peerSlots' = [peerSlots EXCEPT ![p] = peerSlots[p] \cup new]
        BY <1>2, <3>1 DEF FetchRange
      <4> HIDE DEF new
      <4> QED BY Zenon, <1>2, <4>2, <4>3
    <3>2. CASE ~FetchRange(p)
      <4>1. peerSlots' = peerSlots
        BY Zenon, <1>6, <3>2
           DEF RoutineStep, Checked, RangeFails, RangesDone, AssignErr, TestErr, Classify,
               Release, ReadCount, WriteCount
      <4> QED BY Zenon, <1>2, <4>1
    <3> QED BY Zenon, <3>1, <3>2
  <2>4. ASSUME NEW q \in HeadPeers, q # p PROVE Covered(q)'
    <3>1. current <= current'
      BY <1>1, <2>2
    <3> QED BY Zenon, <1>1, <1>3, <2>2, <2>3, <2>4, <3>1, CoverOther
  <2> QED BY Zenon, <1>1, <2>1, <2>3, <2>4 DEF CoverInv
<1> QED BY Zenon, <1>4, <1>5, <1>6 DEF HeadNext, Loop

\* A goroutine that comes to the end of its ranges without an error has the
\* hashes of every slot from the base spine to the slot at which it began,
\* however long the ranges are and however the clock goes on meanwhile.
THEOREM SlotsCoveredCorrect ==
  ASSUME HeadSyncConstants PROVE HeadSpec => []SlotsCovered
<1>1. HeadInit => CoverInv
  <2> SUFFICES ASSUME HeadInit PROVE CoverInv
    OBVIOUS
  <2>1. SemInv
    BY SemInit
  <2>2. \A p \in HeadPeers : routine[p].pc = "none" /\ routine[p].from = Base
    BY DEF HeadInit, NotStarted
  <2> QED BY Zenon, <2>1, <2>2 DEF CoverInv, Covered, HeadInit
<1>2. CoverInv /\ [HeadNext]_headVars => CoverInv'
  BY CoverNext
<1>3. CoverInv => SlotsCovered
  <2> SUFFICES ASSUME CoverInv, NEW p \in HeadPeers, routine[p].pc = "result",
                      routine[p].result = "nil", NEW s \in Base..routine[p].began
               PROVE  s \in peerSlots[p]
    BY DEF SlotsCovered
  <2>1. routine[p].began \in Nat /\ routine[p].from \in Nat
    BY DEF CoverInv, SemInv, Routine
  <2>2. /\ routine[p].began < routine[p].from
        /\ s < routine[p].from => s \in peerSlots[p]
    BY Zenon DEF CoverInv, Covered
  <2>3. s < routine[p].from
    BY <2>1, <2>2
  <2> QED BY <2>2, <2>3
<1> QED BY <1>1, <1>2, <1>3, PTL DEF HeadSpec
=============================================================================
