--------------------------- MODULE ExecutionProofs --------------------------
(***************************************************************************)
(* ExecutedOnce and NotInflated of Execution for any accounts, any         *)
(* transactions, any fees and any order of execution; TokensConserved and  *)
(* MovedWithConsent of Tokens, whose operations are executed there, for any*)
(* holders, amounts, prices and width of the numbers.                      *)
(***************************************************************************)
EXTENDS Execution, Tokens, FiniteSetTheorems, TLAPS

-----------------------------------------------------------------------------
(* The sum of a function over a finite set.                                 *)

\* The coins of an account: as many as its value, apart from those of others.
LEMMA CoinsOf ==
  ASSUME NEW a, NEW n \in Nat
  PROVE  IsFiniteSet({a} \X (1 .. n)) /\ Cardinality({a} \X (1 .. n)) = n
<1>1. IsFiniteSet(1 .. n) /\ Cardinality(1 .. n) = n
  BY FS_Interval
<1>2. IsFiniteSet({a}) /\ Cardinality({a}) = 1
  BY FS_Singleton
<1> QED BY SMTT(30), <1>1, <1>2, FS_Product

\* A finite number of accounts has a finite number of coins.
LEMMA CoinsFinite ==
  ASSUME NEW D, IsFiniteSet(D), NEW f \in [D -> Nat]
  PROVE  IsFiniteSet(Coins(f)) /\ SumOf(f) \in Nat
<1> DEFINE Of == [a \in D |-> {a} \X (1 .. f[a])]
           T == {{a} \X (1 .. f[a]) : a \in D}
<1>1. Of \in Surjection(D, T)
  BY Zenon DEF Surjection
<1>2. IsFiniteSet(T)
  BY <1>1, FS_Surjection
<1>3. ASSUME NEW a \in D PROVE IsFiniteSet({a} \X (1 .. f[a]))
  <2>1. f[a] \in Nat
    OBVIOUS
  <2> QED BY Zenon, <2>1, CoinsOf
<1>4. IsFiniteSet(UNION T)
  BY Zenon, <1>2, <1>3, FS_UNION
<1>5. Coins(f) = UNION T
  BY DEF Coins
<1> QED BY <1>4, <1>5, FS_CardinalityType DEF SumOf

\* The function without one of its arguments.
Without(D, f, a) == [b \in D \ {a} |-> f[b]]

\* A sum is a value and the sum of the others.
LEMMA SumRest ==
  ASSUME NEW D, IsFiniteSet(D), NEW f \in [D -> Nat], NEW a \in D
  PROVE  /\ SumOf(Without(D, f, a)) \in Nat /\ SumOf(f) \in Nat
         /\ SumOf(f) = SumOf(Without(D, f, a)) + f[a]
<1> DEFINE r == Without(D, f, a)
           C == {a} \X (1 .. f[a])
<1>1. IsFiniteSet(D \ {a}) /\ r \in [D \ {a} -> Nat] /\ f[a] \in Nat
  BY FS_Subset DEF Without
<1>2. IsFiniteSet(Coins(r)) /\ SumOf(r) \in Nat /\ SumOf(f) \in Nat
  BY <1>1, CoinsFinite
<1>3. IsFiniteSet(C) /\ Cardinality(C) = f[a]
  BY Zenon, <1>1, CoinsOf
<1>4. Coins(f) = Coins(r) \cup C
  BY DEF Coins, Without
<1>5. Coins(r) \cap C = {}
  BY DEF Coins, Without
<1>6. Cardinality(Coins(r) \cap C) = 0
  BY <1>5, FS_EmptySet
<1> HIDE DEF r, C
<1>7. Cardinality(Coins(r) \cup C)
        = Cardinality(Coins(r)) + Cardinality(C) - Cardinality(Coins(r) \cap C)
  BY <1>2, <1>3, FS_Union, Zenon
<1>8. SumOf(f) = SumOf(r) + f[a]
  BY <1>1, <1>2, <1>3, <1>4, <1>6, <1>7 DEF SumOf
<1> QED BY <1>2, <1>8 DEF r

\* g is f with another value at an account, and the sum grows by x.
Changed(D, f, g, a, v) ==
  /\ IsFiniteSet(D) /\ f \in [D -> Nat] /\ a \in D /\ v \in Nat
  /\ g = [f EXCEPT ![a] = v]

Adds(D, f, g, x) ==
  /\ g \in [D -> Nat] /\ SumOf(f) \in Nat /\ SumOf(g) \in Nat
  /\ SumOf(g) = SumOf(f) + x

\* A change at one account changes the sum by as much.
LEMMA SumChange ==
  ASSUME NEW D, NEW f, NEW g, NEW a, NEW v, Changed(D, f, g, a, v)
  PROVE  Adds(D, f, g, v - f[a])
<1>1. /\ IsFiniteSet(D) /\ f \in [D -> Nat] /\ g \in [D -> Nat] /\ a \in D
      /\ f[a] \in Nat /\ g[a] = v /\ v \in Nat
  BY DEF Changed
<1>2. Without(D, f, a) = Without(D, g, a)
  BY DEF Changed, Without
<1>3. /\ SumOf(Without(D, f, a)) \in Nat /\ SumOf(f) \in Nat /\ SumOf(g) \in Nat
      /\ SumOf(f) = SumOf(Without(D, f, a)) + f[a]
      /\ SumOf(g) = SumOf(Without(D, g, a)) + g[a]
  BY <1>1, SumRest, Zenon
<1> QED BY <1>1, <1>2, <1>3 DEF Adds


-----------------------------------------------------------------------------
(***************************************************************************)
(* The invariants.  A success, and a charge after which the nonce moves,   *)
(* leave the sender's nonce above the transaction's, where preCheck never  *)
(* lets it pass again.                                                     *)
(***************************************************************************)
Past(t) == nonce[Data[t].from] > Data[t].nonce

Repeatable(t) == Refused(Data[t]) \/ Data[t].kind = "tokenCreate"

ExecInv ==
  /\ bal \in [Account -> Nat] /\ nonce \in [Account -> Nat]
  /\ gp \in 0 .. GasLimit /\ used \in Nat /\ applied \in 0 .. MaxApplied
  /\ succeeded \in [Tx -> Nat] /\ charged \in [Tx -> Nat]
  /\ \A t \in Tx :
       /\ succeeded[t] <= 1 /\ (succeeded[t] > 0 => Past(t))
       /\ ~Repeatable(t) => charged[t] <= 1 /\ (charged[t] > 0 => Past(t))

MoneyInv == exact => SumOf(bal) <= SumOf(Money)

\* A product grows with its factor.
LEMMA TimesMonotone ==
  ASSUME NEW n \in Nat, NEW x \in Nat, NEW y \in Nat, x <= y
  PROVE  n * x \in Nat /\ n * y \in Nat /\ n * x <= n * y
<1>1. y - x \in Nat /\ n * y = n * x + n * (y - x) /\ n * (y - x) \in Nat
  OBVIOUS
<1> QED BY <1>1

\* buyGas: the price is between the base fee and the fee cap, and the sender has
\* the gas and the value.
LEMMA Bought ==
  ASSUME NEW t \in Tx, PreCheck(Data[t]), ExecInv
  PROVE  LET d == Data[t] IN
         /\ GasPrice(d) \in Nat /\ BaseFee <= GasPrice(d)
         /\ d.gas * GasPrice(d) \in Nat /\ d.gas * BaseFee \in Nat
         /\ d.gas * (GasPrice(d) - BaseFee) \in Nat
         /\ d.gas * GasPrice(d) = d.gas * BaseFee + d.gas * (GasPrice(d) - BaseFee)
         /\ d.gas * GasPrice(d) + d.value <= bal[d.from]
         /\ d.gas <= gp /\ nonce[d.from] = d.nonce
<1> DEFINE d == Data[t]
           p == GasPrice(d)
<1>1. /\ d.gas \in Nat /\ d.cap \in Nat /\ d.tip \in Nat /\ d.value \in Nat
      /\ d.from \in Account /\ BaseFee \in Nat
  BY ExecutionAssumption DEF Fields
<1>2. /\ nonce[d.from] = d.nonce /\ d.gas <= gp
      /\ d.gas * d.cap + d.value <= bal[d.from]
      /\ BaseFee <= d.cap /\ d.tip <= d.cap
  <2>1. gp \in Int /\ bal[d.from] \in Int
    BY <1>1 DEF ExecInv
  <2>2. d.gas * d.cap + d.value \in Int
    BY <1>1
  <2> QED BY <1>1, <2>1, <2>2 DEF PreCheck, NonceFits, Affordable, SubGasFits
<1>3. p \in Nat /\ BaseFee <= p /\ p <= d.cap /\ p - BaseFee \in Nat
  BY <1>1, <1>2 DEF GasPrice, Lesser
<1> HIDE DEF d, p
<1>4. d.gas * p \in Nat /\ d.gas * d.cap \in Nat /\ d.gas * p <= d.gas * d.cap
  BY <1>1, <1>3, TimesMonotone
<1>5. /\ d.gas * BaseFee \in Nat /\ d.gas * (p - BaseFee) \in Nat
      /\ d.gas * p = d.gas * BaseFee + d.gas * (p - BaseFee)
  BY <1>1, <1>3
<1>6. bal[d.from] \in Nat
  BY <1>1 DEF ExecInv
<1>7. d.gas * p + d.value <= bal[d.from]
  BY <1>1, <1>2, <1>4, <1>6
<1> QED BY Zenon, <1>2, <1>3, <1>4, <1>5, <1>7 DEF d, p

\* refundGas gives back no more than the gas that was bought.
LEMMA ReturnedBound ==
  ASSUME NEW t \in Tx, ~Refused(Data[t]), NEW o \in Outcomes(Data[t])
  PROVE  /\ Returned(Data[t], o) \in 0 .. Data[t].gas
         /\ exact => Returned(Data[t], o) = 0
         /\ o.moved \in 0 .. Data[t].value
         /\ o.adv \in {0, 1} /\ (o.ok => o.adv = 1)
         /\ Data[t].kind # "tokenCreate" => o.adv = 1
<1> DEFINE d == Data[t]
<1>1. d.gas \in Nat /\ d.intrinsic \in Nat /\ d.intrinsic <= d.gas
  BY ExecutionAssumption DEF Fields, Refused
<1>2. /\ o.left \in 0 .. d.gas /\ o.counter \in 0 .. 1
      /\ exact => o.left = 0 /\ o.counter = 0
      /\ o.moved \in 0 .. d.value
      /\ o.adv \in NonceAdvance(d) /\ (o.ok => o.adv = 1)
  BY <1>1 DEF Outcomes, Advanced
<1>3. (d.gas - o.left) \div 5 \in 0 .. (d.gas - o.left)
  BY <1>1, <1>2
<1>4. Returned(d, o) \in 0 .. d.gas /\ (exact => Returned(d, o) = 0)
  BY <1>1, <1>2, <1>3 DEF Returned, Lesser
<1> QED BY <1>2, <1>4 DEF NonceAdvance

\* TransitionDb overdraws no account, and creates no money if it uses up the gas:
\* the creator's reward is a third of the base fee, and the tip is paid for.
LEMMA ExecutedMoney ==
  ASSUME ExecInv, NEW t \in Tx, PreCheck(Data[t]), ~Refused(Data[t]),
         NEW o \in Outcomes(Data[t])
  PROVE  /\ Executed(Data[t], o) \in [Account -> Nat]
         /\ exact => SumOf(Executed(Data[t], o)) <= SumOf(bal)
         /\ SumOf(Executed(Data[t], o)) \in Nat /\ SumOf(bal) \in Nat
<1> DEFINE d == Data[t]
           p == GasPrice(d)
           fee == d.gas * p
           ret == Returned(d, o) * p
           tip == d.gas * (p - BaseFee)
           b1 == [bal EXCEPT ![d.from] = @ - fee]
           b2 == [b1 EXCEPT ![d.from] = @ - o.moved]
           b3 == [b2 EXCEPT ![d.to] = @ + o.moved]
           b4 == [b3 EXCEPT ![d.from] = @ + ret]
           b5 == [b4 EXCEPT ![Coinbase] = @ + CreatorReward(d.gas) + tip]
<1>1. Executed(d, o) = b5
  BY Zenon DEF Executed
<1>2. d.from \in Account /\ d.to \in Account /\ d.value \in Nat /\ Coinbase \in Account
      /\ d.gas \in Nat /\ bal \in [Account -> Nat]
  BY ExecutionAssumption DEF Fields, ExecInv
<1>3. /\ p \in Nat /\ fee \in Nat /\ tip \in Nat /\ fee = d.gas * BaseFee + tip
      /\ d.gas * BaseFee \in Nat /\ fee + d.value <= bal[d.from]
  BY Bought
<1>4. o.moved \in Nat /\ o.moved <= d.value /\ Returned(d, o) \in Nat
      /\ (exact => Returned(d, o) = 0)
  BY <1>2, ReturnedBound
<1>5. ret \in Nat /\ (exact => ret = 0)
  BY <1>3, <1>4
<1>6. CreatorReward(d.gas) \in Nat /\ CreatorReward(d.gas) <= d.gas * BaseFee
  BY <1>3 DEF CreatorReward
<1> HIDE DEF d, p, fee, ret, tip
<1> DEFINE v1 == bal[d.from] - fee
           v2 == b1[d.from] - o.moved
           v3 == b2[d.to] + o.moved
           v4 == b3[d.from] + ret
           v5 == b4[Coinbase] + CreatorReward(d.gas) + tip
<1>a. /\ b1 = [bal EXCEPT ![d.from] = v1] /\ b2 = [b1 EXCEPT ![d.from] = v2]
      /\ b3 = [b2 EXCEPT ![d.to] = v3] /\ b4 = [b3 EXCEPT ![d.from] = v4]
      /\ b5 = [b4 EXCEPT ![Coinbase] = v5]
  BY Zenon
<1> HIDE DEF b1, b2, b3, b4, b5
<1>7. /\ b1 \in [Account -> Nat] /\ SumOf(b1) = SumOf(bal) - fee
      /\ SumOf(bal) \in Nat /\ SumOf(b1) \in Nat /\ d.value <= b1[d.from]
  <2>1. v1 \in Nat /\ d.value <= v1 /\ v1 - bal[d.from] = -fee
    BY <1>2, <1>3
  <2> HIDE DEF v1
  <2>2. Changed(Account, bal, b1, d.from, v1)
    BY Zenon, <1>2, <1>a, <2>1, ExecutionAssumption DEF Changed
  <2>3. Adds(Account, bal, b1, v1 - bal[d.from])
    BY Zenon, <2>2, SumChange, Zenon
  <2>4. b1[d.from] = v1
    BY Zenon, <1>2, <1>a
  <2> QED BY Zenon, <1>3, <2>1, <2>3, <2>4 DEF Adds
<1>8. b2 \in [Account -> Nat] /\ SumOf(b2) = SumOf(b1) - o.moved /\ SumOf(b2) \in Nat
  <2>1. v2 \in Nat /\ v2 - b1[d.from] = -o.moved
    BY <1>2, <1>4, <1>7
  <2> HIDE DEF v2
  <2>2. Changed(Account, b1, b2, d.from, v2)
    BY Zenon, <1>2, <1>7, <1>a, <2>1, ExecutionAssumption DEF Changed
  <2>3. Adds(Account, b1, b2, v2 - b1[d.from])
    BY <2>2, SumChange, Zenon
  <2> QED BY Zenon, <1>4, <1>7, <2>1, <2>3 DEF Adds
<1>9. b3 \in [Account -> Nat] /\ SumOf(b3) = SumOf(b2) + o.moved /\ SumOf(b3) \in Nat
  <2>1. v3 \in Nat /\ v3 - b2[d.to] = o.moved
    BY <1>2, <1>4, <1>8
  <2> HIDE DEF v3
  <2>2. Changed(Account, b2, b3, d.to, v3)
    BY Zenon, <1>2, <1>8, <1>a, <2>1, ExecutionAssumption DEF Changed
  <2>3. Adds(Account, b2, b3, v3 - b2[d.to])
    BY <2>2, SumChange, Zenon
  <2> QED BY <2>1, <2>3 DEF Adds
<1>10. b4 \in [Account -> Nat] /\ SumOf(b4) = SumOf(b3) + ret /\ SumOf(b4) \in Nat
  <2>1. v4 \in Nat /\ v4 - b3[d.from] = ret
    BY <1>2, <1>5, <1>9
  <2> HIDE DEF v4
  <2>2. Changed(Account, b3, b4, d.from, v4)
    BY Zenon, <1>2, <1>9, <1>a, <2>1, ExecutionAssumption DEF Changed
  <2>3. Adds(Account, b3, b4, v4 - b3[d.from])
    BY <2>2, SumChange, Zenon
  <2> QED BY <2>1, <2>3 DEF Adds
<1>11. /\ b5 \in [Account -> Nat] /\ SumOf(b5) \in Nat
       /\ SumOf(b5) = SumOf(b4) + (CreatorReward(d.gas) + tip)
  <2>1. v5 \in Nat /\ v5 - b4[Coinbase] = CreatorReward(d.gas) + tip
    BY <1>2, <1>3, <1>6, <1>10
  <2> HIDE DEF v5
  <2>2. Changed(Account, b4, b5, Coinbase, v5)
    BY Zenon, <1>2, <1>10, <1>a, <2>1, ExecutionAssumption DEF Changed
  <2>3. Adds(Account, b4, b5, v5 - b4[Coinbase])
    BY <2>2, SumChange, Zenon
  <2> QED BY Zenon, <2>1, <2>3 DEF Adds
<1>12. SumOf(b5) = SumOf(bal) - fee + ret + CreatorReward(d.gas) + tip
  BY <1>3, <1>4, <1>5, <1>6, <1>7, <1>8, <1>9, <1>10, <1>11
<1>13. exact => SumOf(b5) <= SumOf(bal)
  BY <1>3, <1>5, <1>6, <1>7, <1>12
<1> QED BY Zenon, <1>1, <1>7, <1>11, <1>13 DEF d

\* Both invariants are inductive.
LEMMA ExecNext ==
  ASSUME ExecInv, MoneyInv, [Next]_vars
  PROVE  ExecInv' /\ MoneyInv'
<1>1. CASE UNCHANGED vars
  BY Zenon, <1>1 DEF vars, ExecInv, MoneyInv, Past, Repeatable, Refused
<1>2. CASE NextBlock
  <2>1. gp' \in 0 .. GasLimit /\ used' \in Nat
        /\ UNCHANGED <<exact, bal, nonce, applied, succeeded, charged>>
    BY <1>2, ExecutionAssumption DEF NextBlock
  <2> QED BY Zenon, <2>1 DEF ExecInv, MoneyInv, Past, Repeatable, Refused
<1>3. ASSUME NEW t \in Tx, Skip(t) PROVE ExecInv' /\ MoneyInv'
  <2>1. applied' \in 0 .. MaxApplied
        /\ UNCHANGED <<exact, bal, nonce, gp, used, succeeded, charged>>
    BY <1>3, ExecutionAssumption DEF Skip, ExecInv
  <2> QED BY Zenon, <2>1 DEF ExecInv, MoneyInv, Past, Repeatable, Refused
<1>4. ASSUME NEW t \in Tx, Refuse(t) PROVE ExecInv' /\ MoneyInv'
  <2> DEFINE d == Data[t]
             fee == d.gas * GasPrice(d)
  <2>1. /\ applied < MaxApplied /\ applied' = applied + 1 /\ Repeatable(t)
        /\ bal' = [bal EXCEPT ![d.from] = @ - fee] /\ gp' = gp - d.gas
        /\ charged' = [charged EXCEPT ![t] = @ + 1]
        /\ UNCHANGED <<exact, nonce, used, succeeded>>
    BY Zenon, <1>4 DEF Refuse, Repeatable
  <2>2. /\ d.from \in Account /\ d.gas \in Nat /\ d.value \in Nat
        /\ bal \in [Account -> Nat] /\ gp \in 0 .. GasLimit
    BY Zenon, ExecutionAssumption DEF Fields, ExecInv
  <2>3. fee \in Nat /\ fee + d.value <= bal[d.from] /\ d.gas <= gp
    BY Zenon, <1>4, Bought DEF Refuse
  <2> HIDE DEF d, fee
  <2>4. bal' \in [Account -> Nat] /\ SumOf(bal') = SumOf(bal) - fee /\ SumOf(bal) \in Nat
    <3> DEFINE v == bal[d.from] - fee
    <3>1. v \in Nat /\ v - bal[d.from] = -fee /\ bal' = [bal EXCEPT ![d.from] = v]
      BY <2>1, <2>2, <2>3
    <3> HIDE DEF v
    <3>2. Changed(Account, bal, bal', d.from, v)
      BY Zenon, <2>2, <3>1, ExecutionAssumption DEF Changed
    <3>3. Adds(Account, bal, bal', v - bal[d.from])
      BY <3>2, SumChange, Zenon
    <3> QED BY Zenon, <2>3, <3>1, <3>3 DEF Adds
  <2>5. MoneyInv'
    <3>1. SumOf(Money) \in Nat
      BY Zenon, ExecutionAssumption, CoinsFinite
    <3>2. SumOf(bal)' <= SumOf(bal)
      <4>1. SumOf(bal)' = SumOf(bal')
        BY DEF SumOf, Coins
      <4> QED BY <2>3, <2>4, <4>1
    <3> QED BY <2>1, <2>3, <2>4, <3>1, <3>2 DEF MoneyInv, SumOf, Coins
  <2>6. gp' \in 0 .. GasLimit /\ applied' \in 0 .. MaxApplied
    BY <2>1, <2>2, <2>3, ExecutionAssumption DEF ExecInv
  <2>7. charged' \in [Tx -> Nat] /\ \A u \in Tx : ~Repeatable(u) => charged'[u] = charged[u]
    BY <2>1 DEF ExecInv
  <2> QED BY Zenon, <2>1, <2>4, <2>5, <2>6, <2>7 DEF ExecInv, Past, Repeatable, Refused
<1>5. ASSUME NEW t \in Tx, Apply(t) PROVE ExecInv' /\ MoneyInv'
  <2> DEFINE d == Data[t]
  <2>1. PICK o \in Outcomes(d) :
          /\ bal' = Executed(d, o)
          /\ nonce' = [nonce EXCEPT ![d.from] = @ + o.adv]
          /\ gp' = gp - d.gas + Returned(d, o)
          /\ used' = used + d.gas - Returned(d, o)
          /\ succeeded' = [succeeded EXCEPT ![t] = @ + IF o.ok THEN 1 ELSE 0]
    BY Zenon, <1>5 DEF Apply
  <2>2. /\ applied < MaxApplied /\ applied' = applied + 1 /\ PreCheck(d) /\ ~Refused(d)
        /\ charged' = [charged EXCEPT ![t] = @ + 1] /\ exact' = exact
    BY Zenon, <1>5 DEF Apply
  <2>3. /\ d.from \in Account /\ d.gas \in Nat /\ d.nonce \in Nat
        /\ gp \in 0 .. GasLimit /\ used \in Nat /\ GasLimit \in Nat
    BY Zenon, ExecutionAssumption DEF Fields, ExecInv
  <2>4. /\ Returned(d, o) \in 0 .. d.gas /\ o.adv \in {0, 1} /\ (o.ok => o.adv = 1)
        /\ d.kind # "tokenCreate" => o.adv = 1
    BY Zenon, <2>1, <2>2, ReturnedBound
  <2>5. d.gas <= gp /\ nonce[d.from] = d.nonce
    BY Zenon, <2>2, Bought
  <2>6. bal' \in [Account -> Nat] /\ (exact => SumOf(bal') <= SumOf(bal))
        /\ SumOf(bal') \in Nat /\ SumOf(bal) \in Nat
    BY Zenon, <2>1, <2>2, ExecutedMoney
  <2> HIDE DEF d
  <2>7. gp' \in 0 .. GasLimit /\ used' \in Nat /\ applied' \in 0 .. MaxApplied
    BY <2>1, <2>2, <2>3, <2>4, <2>5, ExecutionAssumption DEF ExecInv
  <2>8. /\ nonce' \in [Account -> Nat]
        /\ \A u \in Tx : Past(u) => Past(u)'
        /\ o.adv = 1 => Past(t)'
    <3>1. nonce' \in [Account -> Nat] /\ \A a \in Account : nonce[a] <= nonce'[a]
      BY <2>1, <2>3, <2>4 DEF ExecInv
    <3>2. \A u \in Tx : Data[u].from \in Account /\ Data[u].nonce \in Nat
      BY Zenon, ExecutionAssumption DEF Fields
    <3>3. \A u \in Tx : Past(u) => Past(u)'
      BY <3>1, <3>2 DEF Past, ExecInv
    <3>4. o.adv = 1 => nonce'[d.from] = d.nonce + 1
      BY Zenon, <2>1, <2>3, <2>5 DEF ExecInv
    <3> QED BY <2>3, <3>1, <3>3, <3>4 DEF Past, d
  <2>9. ~Past(t)
    BY <2>3, <2>5 DEF Past, d
  <2>10. /\ succeeded' \in [Tx -> Nat]
         /\ \A u \in Tx : succeeded'[u] <= 1 /\ (succeeded'[u] > 0 => Past(u)')
    BY <2>1, <2>4, <2>8, <2>9 DEF ExecInv
  <2>11. /\ charged' \in [Tx -> Nat]
         /\ \A u \in Tx : ~Repeatable(u) =>
              charged'[u] <= 1 /\ (charged'[u] > 0 => Past(u)')
    BY <2>2, <2>4, <2>8, <2>9 DEF ExecInv, Repeatable, d
  <2>12. MoneyInv'
    <3>1. SumOf(Money) \in Nat
      BY Zenon, ExecutionAssumption, CoinsFinite
    <3> QED BY <2>2, <2>6, <3>1 DEF MoneyInv, SumOf, Coins
  <2> QED BY Zenon, <2>6, <2>7, <2>8, <2>10, <2>11, <2>12 DEF ExecInv, Repeatable, Refused
<1> QED BY Zenon, <1>1, <1>2, <1>3, <1>4, <1>5 DEF Next

\* At the start.
LEMMA ExecInit == Init => ExecInv /\ MoneyInv
<1>1. SumOf(Money) \in Nat
  BY ExecutionAssumption, CoinsFinite
<1> QED BY <1>1, ExecutionAssumption DEF Init, ExecInv, MoneyInv

\* A transaction takes effect at most once, in however many blocks it is and in
\* whatever order CommitBlockTransactions meets them, and pays for gas at most
\* once unless its failure leaves the nonce alone.
THEOREM ExecutedOnceCorrect == Spec => []ExecutedOnce
<1>1. ExecInv => ExecutedOnce
  BY DEF ExecInv, ExecutedOnce, Repeatable
<1> QED BY <1>1, ExecInit, ExecNext, PTL DEF Spec

\* No account is overdrawn by gas, values and fees, and the transactions that use
\* up the gas they buy create no money.
THEOREM NotInflatedCorrect == Spec => []NotInflated
<1>1. ExecInv /\ MoneyInv => NotInflated
  BY DEF ExecInv, MoneyInv, NotInflated
<1> QED BY <1>1, ExecInit, ExecNext, PTL DEF Spec

\* The gas pool, a uint64, stays between zero and the block's limit.
THEOREM GasPoolCorrect == Spec => []TypeOK
<1>1. ExecInv => TypeOK
  BY DEF ExecInv, TypeOK
<1> QED BY <1>1, ExecInit, ExecNext, PTL DEF Spec

-----------------------------------------------------------------------------

\* The same of values that may be negative.
Altered(D, f, g, a, v) ==
  /\ IsFiniteSet(D) /\ f \in [D -> Int] /\ a \in D /\ v \in Int
  /\ g = [f EXCEPT ![a] = v]

NetAdds(D, f, g, x) ==
  /\ g \in [D -> Int] /\ NetOf(f) \in Int /\ NetOf(g) \in Int
  /\ NetOf(g) = NetOf(f) + x

LEMMA NetChange ==
  ASSUME NEW D, NEW f, NEW g, NEW a, NEW v, Altered(D, f, g, a, v)
  PROVE  NetAdds(D, f, g, v - f[a])
<1> DEFINE up == IF v > 0 THEN v ELSE 0
           down == IF v < 0 THEN -v ELSE 0
<1> USE DEF Altered
<1>1. Changed(D, Assets(f), Assets(g), a, up)
  <2>1. Assets(f) \in [D -> Nat] /\ Assets(g) \in [D -> Nat] /\ up \in Nat
    BY DEF Assets
  <2>2. Assets(g) = [Assets(f) EXCEPT ![a] = up]
    <3>1. \A e \in D : Assets(g)[e] = IF e = a THEN up ELSE Assets(f)[e]
      BY DEF Assets
    <3> HIDE DEF up
    <3> QED BY Zenon, <2>1, <3>1
  <2> QED BY Zenon, <2>1, <2>2 DEF Changed
<1>2. Changed(D, Debts(f), Debts(g), a, down)
  <2>1. Debts(f) \in [D -> Nat] /\ Debts(g) \in [D -> Nat] /\ down \in Nat
    BY DEF Debts
  <2>2. Debts(g) = [Debts(f) EXCEPT ![a] = down]
    <3>1. \A e \in D : Debts(g)[e] = IF e = a THEN down ELSE Debts(f)[e]
      BY DEF Debts
    <3> HIDE DEF down
    <3> QED BY Zenon, <2>1, <3>1
  <2> QED BY Zenon, <2>1, <2>2 DEF Changed
<1>3. Adds(D, Assets(f), Assets(g), up - Assets(f)[a])
  BY <1>1, SumChange, Zenon
<1>4. Adds(D, Debts(f), Debts(g), down - Debts(f)[a])
  BY <1>2, SumChange, Zenon
<1>5. Assets(f)[a] - Debts(f)[a] = f[a] /\ up - down = v
      /\ {Assets(f)[a], Debts(f)[a], f[a], up, down} \subseteq Int
  BY DEF Assets, Debts
<1>6. g \in [D -> Int]
  OBVIOUS
<1> HIDE DEF up, down
<1> QED BY <1>3, <1>4, <1>5, <1>6 DEF Adds, NetAdds, NetOf

\* The remainder is determined.
LEMMA Residue ==
  ASSUME NEW n \in Nat \ {0}, NEW q \in Int, NEW r \in 0 .. n - 1
  PROVE  (n * q + r) % n = r
<1> DEFINE x == n * q + r
           p == x \div n
<1>1. x \in Int /\ p \in Int /\ x % n \in 0 .. n - 1 /\ x = n * p + (x % n)
  OBVIOUS
<1>2. ASSUME NEW y \in Int, NEW z \in Int, y < z PROVE n * y + n <= n * z
  <2>1. PICK d \in Nat : z = y + 1 + d
    <3>1. z - (y + 1) \in Nat /\ z = y + 1 + (z - (y + 1))
      BY <1>2
    <3> QED BY <3>1
  <2>2. n * z = n * y + n + n * d /\ n * d \in Nat /\ n * y \in Int
    BY <2>1
  <2> QED BY <2>2
<1>3. n * q \in Int /\ n * p \in Int
  BY <1>1
<1>4. ~(p < q) /\ ~(q < p)
  <2> HIDE DEF p
  <2> QED BY <1>1, <1>2, <1>3
<1>5. p = q
  BY <1>1, <1>4
<1> QED BY <1>1, <1>3, <1>5

-----------------------------------------------------------------------------

\* transfer: the balances stay below 2^256 and their sum is kept.
LEMMA TransferredSum ==
  ASSUME NEW b \in [Holder -> 0 .. W - 1], NEW from \in Holder, NEW to \in Holder,
         NEW v \in Nat, CanTransfer(b, from, to, v)
  PROVE  /\ Transferred(b, from, to, v) \in [Holder -> 0 .. W - 1]
         /\ SumOf(Transferred(b, from, to, v)) = SumOf(b)
<1> DEFINE d == Debited(b, from, v)
           t == Transferred(b, from, to, v)
<1>1. IsFiniteSet(Holder) /\ W \in Nat
  <2>1. IsFiniteSet({Zero})
    BY Zenon, FS_Singleton
  <2> QED BY Zenon, <2>1, TokenAssumption, FS_Union DEF Holder
<1>2. d \in [Holder -> 0 .. W - 1] /\ d[to] + v \in 0 .. W - 1 /\ b[from] - v \in Nat
  BY <1>1 DEF CanTransfer, Debited
<1>3. Changed(Holder, b, d, from, b[from] - v)
  BY <1>1, <1>2 DEF Changed, Debited
<1>4. t = [d EXCEPT ![to] = d[to] + v]
  BY <1>2 DEF Transferred
<1>5. Changed(Holder, d, t, to, d[to] + v)
  <2> HIDE DEF d, t
  <2> QED BY <1>1, <1>2, <1>4 DEF Changed
<1>6. Adds(Holder, b, d, b[from] - v - b[from])
  BY <1>3, SumChange, Zenon
<1>7. Adds(Holder, d, t, (d[to] + v) - d[to])
  <2> HIDE DEF d, t
  <2> QED BY <1>5, SumChange, Zenon
<1>8. b[from] \in Int /\ d[to] \in Int
  BY <1>2
<1> HIDE DEF d, t
<1>9. t \in [Holder -> 0 .. W - 1]
  BY <1>1, <1>2, <1>4
<1>10. SumOf(t) = SumOf(b)
  BY <1>6, <1>7, <1>8 DEF Adds
<1> QED BY <1>9, <1>10 DEF t

\* Holders, users and the values that a call gives.
LEMMA TokenConstants ==
  /\ IsFiniteSet(User) /\ IsFiniteSet(Id) /\ User \subseteq Holder /\ Zero \in Holder
  /\ Zero \notin User /\ W \in Nat \ {0, 1}
  /\ Supplies \subseteq Nat /\ Fees \subseteq Nat /\ Quantities \subseteq Nat
  /\ Prices \subseteq Nat /\ Values \subseteq Nat /\ Purses \in [User -> Int]
BY TokenAssumption DEF Holder

\* WriteToMap writes an address.
LEMMA WrittenAddress ==
  ASSUME NEW m, NEW k, NEW h \in Holder
  PROVE  WriteToMap(m, k, h) = [m EXCEPT ![k] = h]
BY TokenAssumption DEF WriteToMap

\* n of the money of c goes to another account.
Pay(f, c, to, n) == [[f EXCEPT ![c] = @ - n] EXCEPT ![to] = @ + n]

PaidOver(f, g, c, to, n) ==
  /\ f \in [User -> Int] /\ g \in [User -> Int] /\ NetOf(g) = NetOf(f)
  /\ \A a \in User :
       g[a] = f[a] - (IF a = c THEN n ELSE 0) + (IF a = to THEN n ELSE 0)

LEMMA PayKeeps ==
  ASSUME NEW f \in [User -> Int], NEW c \in User, NEW to \in User, NEW n \in Int
  PROVE  PaidOver(f, Pay(f, c, to, n), c, to, n)
<1> DEFINE e == [f EXCEPT ![c] = f[c] - n]
           g == Pay(f, c, to, n)
<1>1. e \in [User -> Int] /\ f[c] \in Int /\ e[to] \in Int
  OBVIOUS
<1>2. g = [e EXCEPT ![to] = e[to] + n]
  BY DEF Pay
<1>3. \A a \in User :
        g[a] = f[a] - (IF a = c THEN n ELSE 0) + (IF a = to THEN n ELSE 0)
  BY DEF Pay
<1>4. Altered(User, f, e, c, f[c] - n)
  BY <1>1, TokenConstants DEF Altered
<1>5. NetAdds(User, f, e, (f[c] - n) - f[c])
  BY <1>4, NetChange, Zenon
<1> HIDE DEF e, g
<1>6. Altered(User, e, g, to, e[to] + n)
  BY <1>1, <1>2, TokenConstants DEF Altered
<1>7. NetAdds(User, e, g, (e[to] + n) - e[to])
  BY <1>6, NetChange, Zenon
<1>8. PaidOver(f, g, c, to, n)
  BY <1>1, <1>3, <1>5, <1>7 DEF NetAdds, PaidOver
<1> QED BY <1>8 DEF g

\* makePayment: money only changes hands, and what owner and minter get.
Settles(p, c, o, v, fee) ==
  /\ p \in [User -> Int] /\ NetOf(p) = NetOf(native)
  /\ c # o => p[o] - native[o] = v - fee
  /\ c # o /\ c # tok.minter /\ fee > 0
       => p[tok.minter] - native[tok.minter] = fee
  /\ \A a \in User \ {c, o} : fee = 0 => p[a] = native[a]

LEMMA PaidMoney ==
  ASSUME native \in [User -> Int], NEW c \in User, NEW o \in User, NEW v \in Int,
         Fee(o, v) \in Nat, Fee(o, v) > 0 => tok.minter \in User \ {o}
  PROVE  Settles(Paid(native, c, o, v), c, o, v, Fee(o, v))
<1> DEFINE m == tok.minter
           fee == Fee(o, v)
           f == IF fee > 0 THEN Pay(native, c, m, fee) ELSE native
           p == Pay(f, c, o, v - fee)
<1>1. Paid(native, c, o, v) = p
  BY DEF Paid, Pay
<1> HIDE DEF fee
<1>0. fee \in Nat /\ (fee > 0 => m \in User \ {o})
  BY DEF fee
<1>2. CASE fee > 0
  <2>1. PaidOver(native, f, c, m, fee)
    <3>1. PaidOver(native, Pay(native, c, m, fee), c, m, fee)
      BY <1>0, <1>2, PayKeeps
    <3> QED BY <1>2, <3>1
  <2>2. f \in [User -> Int] /\ v - fee \in Int
    BY <1>0, <2>1 DEF PaidOver
  <2> HIDE DEF f
  <2>3. PaidOver(f, p, c, o, v - fee)
    BY <2>2, PayKeeps
  <2> HIDE DEF p
  <2> QED BY <1>0, <1>1, <1>2, <2>1, <2>3 DEF PaidOver, Settles, fee
<1>3. CASE fee = 0
  <2>1. f = native
    BY <1>3
  <2>2. PaidOver(native, p, c, o, v - fee)
    <3> HIDE DEF f
    <3> QED BY <1>0, <2>1, PayKeeps
  <2> HIDE DEF p
  <2> QED BY <1>1, <1>3, <2>2 DEF PaidOver, Settles, fee
<1> QED BY SMTT(30), <1>0, <1>2, <1>3

-----------------------------------------------------------------------------
(***************************************************************************)
(* The invariant of a token.  Balances of a WRC-721 token wrap around, so  *)
(* they count the ids of an account less its burns up to multiples of W.   *)
(***************************************************************************)
Words == 0 .. W - 1

Fungible ==
  [std : {"wrc20"}, creator : User, totalSupply : Words, cost : Words,
   balances : [Holder -> Words], allowances : [User \X User -> Words]]

Unique ==
  [std : {"wrc721"}, minter : User, percentFee : Nat,
   balances : [Holder -> Words], owners : [Id -> Holder],
   tokenApprovals : [Id -> Holder],
   operatorApprovals : [User \X User -> BOOLEAN], costs : [Id -> Words]]

Owned(o, a) == {i \in Id : o[i] = a}

Counted(b, o, n) ==
  \A a \in User : \E k \in Int : b[a] = Cardinality(Owned(o, a)) - n[a] + W * k

TokenInv ==
  /\ native \in [User -> Int] /\ NetOf(native) = NetOf(Purses)
  /\ burns \in [User -> Nat]
  /\ \/ tok = NoToken /\ burns = [a \in User |-> 0]
     \/ tok \in Fungible /\ SumOf(tok.balances) = tok.totalSupply
     \/ tok \in Unique /\ Counted(tok.balances, tok.owners, burns)

\* An id that changes hands counts for the new owner and not for the old one.
LEMMA OwnedMoved ==
  ASSUME NEW o \in [Id -> Holder], NEW i \in Id, NEW h \in Holder, o[i] # h
  PROVE  LET n == [o EXCEPT ![i] = h] IN
         /\ \A a \in Holder : Cardinality(Owned(o, a)) \in Nat
         /\ Cardinality(Owned(n, h)) = Cardinality(Owned(o, h)) + 1
         /\ Cardinality(Owned(n, o[i])) = Cardinality(Owned(o, o[i])) - 1
         /\ \A a \in Holder \ {h, o[i]} : Owned(n, a) = Owned(o, a)
<1> DEFINE n == [o EXCEPT ![i] = h]
<1>1. \A a : IsFiniteSet(Owned(o, a)) /\ IsFiniteSet(Owned(n, a))
  BY Zenon, TokenConstants, FS_Subset DEF Owned
<1>2. \A a \in Holder : Cardinality(Owned(o, a)) \in Nat
  BY Zenon, <1>1, FS_CardinalityType
<1>3. Owned(n, h) = Owned(o, h) \cup {i} /\ i \notin Owned(o, h)
  BY DEF Owned
<1>4. Owned(n, o[i]) = Owned(o, o[i]) \ {i} /\ i \in Owned(o, o[i])
  BY DEF Owned
<1>5. \A a \in Holder \ {h, o[i]} : Owned(n, a) = Owned(o, a)
  BY DEF Owned
<1> HIDE DEF n
<1>6. Cardinality(Owned(n, h)) = Cardinality(Owned(o, h)) + 1
  BY Zenon, <1>1, <1>3, FS_AddElement
<1>7. Cardinality(Owned(n, o[i])) = Cardinality(Owned(o, o[i])) - 1
  BY ZenonT(60), <1>1, <1>4, FS_RemoveElement
<1> QED BY Zenon, <1>2, <1>5, <1>6, <1>7 DEF n

\* wrc721TransferFrom and buy: the balances follow the owners.
LEMMA CountedMoved ==
  ASSUME NEW b \in [Holder -> Words], NEW o \in [Id -> Holder],
         NEW n \in [User -> Nat], Counted(b, o, n),
         NEW i \in Id, o[i] \in User, NEW to \in User, CanTransfer(b, o[i], to, 1)
  PROVE  Counted(Transferred(b, o[i], to, 1), [o EXCEPT ![i] = to], n)
<1> DEFINE from == o[i]
           t == Transferred(b, from, to, 1)
           p == [o EXCEPT ![i] = to]
<1>1. User \subseteq Holder /\ W \in Nat
  BY TokenConstants
<1>2. \A a \in Holder : t[a] = b[a] - (IF a = from THEN 1 ELSE 0)
                                   + (IF a = to THEN 1 ELSE 0)
  BY <1>1 DEF Transferred, Debited, Words
<1>3. CASE from = to
  <2>1. p = o
    BY <1>3
  <2>2. \A a \in User : t[a] = b[a]
    BY <1>1, <1>2, <1>3 DEF Words
  <2> HIDE DEF p, t
  <2> QED BY Zenon, <2>1, <2>2 DEF Counted, t, p
<1>4. CASE from # to
  <2>1. /\ \A a \in Holder : Cardinality(Owned(o, a)) \in Nat
        /\ Cardinality(Owned(p, to)) = Cardinality(Owned(o, to)) + 1
        /\ Cardinality(Owned(p, from)) = Cardinality(Owned(o, from)) - 1
        /\ \A a \in Holder \ {to, from} : Owned(p, a) = Owned(o, a)
    BY ZenonT(60), <1>1, <1>4, OwnedMoved
  <2> HIDE DEF p, t, from
  <2>2. ASSUME NEW a \in User, NEW k \in Int,
               b[a] = Cardinality(Owned(o, a)) - n[a] + W * k
        PROVE  t[a] = Cardinality(Owned(p, a)) - n[a] + W * k
    <3>1. W * k \in Int /\ b[a] \in Int /\ n[a] \in Int
          /\ Cardinality(Owned(o, a)) \in Int
      BY <1>1, <2>1 DEF Words
    <3> QED BY <1>1, <1>2, <1>4, <2>1, <2>2, <3>1
  <2> QED BY Zenon, <2>2 DEF Counted, t, p, from
<1> QED BY <1>3, <1>4

\* The sum of no tokens, and of those of the creator.
LEMMA SupplyCreated ==
  ASSUME NEW c \in User, NEW s \in Nat
  PROVE  SumOf([a \in Holder |-> IF a = c THEN s ELSE 0]) = s
<1> DEFINE z == [a \in Holder |-> 0]
           f == [a \in Holder |-> IF a = c THEN s ELSE 0]
<1>1. IsFiniteSet(Holder) /\ c \in Holder
  <2>1. IsFiniteSet({Zero})
    BY Zenon, FS_Singleton
  <2> QED BY Zenon, <2>1, TokenConstants, FS_Union DEF Holder
<1>2. Coins(z) = {}
  BY DEF Coins
<1>3. SumOf(z) = 0
  BY <1>2, FS_EmptySet DEF SumOf
<1>4. Changed(Holder, z, f, c, s) /\ z[c] = 0
  BY <1>1 DEF Changed
<1>5. Adds(Holder, z, f, s - z[c])
  <2> HIDE DEF z, f
  <2> QED BY <1>4, SumChange, Zenon
<1> HIDE DEF z, f
<1>6. SumOf(f) = s
  BY <1>3, <1>4, <1>5 DEF Adds
<1> QED BY <1>6 DEF f

\* What a call on a token of either kind may assume.
LEMMA Fungibly ==
  ASSUME TokenInv, tok.std = "wrc20"
  PROVE  tok \in Fungible /\ SumOf(tok.balances) = tok.totalSupply
BY DEF TokenInv, Unique, NoToken

LEMMA Uniquely ==
  ASSUME TokenInv, tok.std = "wrc721"
  PROVE  tok \in Unique /\ Counted(tok.balances, tok.owners, burns)
BY DEF TokenInv, Fungible, NoToken

\* The fee of a sale is a number, and goes to a minter who is not the seller.
LEMMA FeeOf ==
  ASSUME TokenInv, NEW o \in User, NEW v \in Nat, tok.std \in {"wrc20", "wrc721"}
  PROVE  Fee(o, v) \in Nat /\ (Fee(o, v) > 0 => tok.minter \in User \ {o})
<1>1. CASE tok.std = "wrc20"
  BY <1>1 DEF Fee
<1>2. CASE tok.std = "wrc721"
  <2>1. tok.percentFee \in Nat /\ tok.minter \in User
    BY <1>2, Uniquely DEF Unique
  <2>2. tok.percentFee * v \in Nat
    BY <2>1
  <2>3. (tok.percentFee * v) \div 100 \in Nat
    <3> DEFINE x == tok.percentFee * v
    <3> HIDE DEF x
    <3>1. x \in Nat => x \div 100 \in Nat
      OBVIOUS
    <3> QED BY <2>2, <3>1 DEF x
  <2> QED BY <2>1, <2>3 DEF Fee
<1> QED BY <1>1, <1>2

\* Calls on a WRC-20 token.
LEMMA FungibleStep ==
  ASSUME TokenInv, NEW c \in User, tok.std = "wrc20", Call(c)
  PROVE  TokenInv'
<1>1. /\ tok \in Fungible /\ SumOf(tok.balances) = tok.totalSupply
      /\ tok # NoToken /\ tok.std # "wrc721"
  BY Fungibly DEF NoToken
<1>2. /\ User \subseteq Holder /\ W \in Nat \ {0, 1} /\ Quantities \subseteq Nat
      /\ Prices \subseteq Nat /\ Values \subseteq Nat
  BY TokenConstants
<1>3. ASSUME NEW b, b \in [Holder -> Words], SumOf(b) = tok.totalSupply,
             NEW al \in [User \X User -> Words], NEW p \in Words,
             tok' = [tok EXCEPT !.balances = b, !.allowances = al, !.cost = p],
             native' \in [User -> Int], NetOf(native') = NetOf(native), burns' = burns
      PROVE  TokenInv'
  <2>1. tok' \in Fungible /\ tok'.balances = b /\ tok'.totalSupply = tok.totalSupply
    BY Zenon, <1>1, <1>3 DEF Fungible
  <2> QED BY <1>3, <2>1 DEF TokenInv
<1>4. ASSUME NEW from \in Holder, NEW to \in Holder, NEW v \in Nat,
             CanTransfer(tok.balances, from, to, v)
      PROVE  LET b == Transferred(tok.balances, from, to, v) IN
             b \in [Holder -> Words] /\ SumOf(b) = tok.totalSupply
  BY <1>1, <1>4, TransferredSum DEF Fungible, Words
<1>5. CASE \E to \in User, v \in Quantities : Transfer(c, to, v)
  <2>1. PICK to \in User, v \in Quantities : Transfer(c, to, v)
    BY <1>5
  <2> DEFINE b == Transferred(tok.balances, c, to, v)
  <2>2. b \in [Holder -> Words] /\ SumOf(b) = tok.totalSupply
    BY <1>2, <1>4, <2>1 DEF Transfer
  <2>3. tok' = [tok EXCEPT !.balances = b] /\ native' = native /\ burns' = burns
    BY <2>1 DEF Transfer, Flush
  <2> HIDE DEF b
  <2>4. tok' = [tok EXCEPT !.balances = b, !.allowances = tok.allowances,
                           !.cost = tok.cost]
    BY Zenon, <1>1, <2>3 DEF Fungible
  <2> QED BY Zenon, <1>1, <1>3, <2>2, <2>3, <2>4 DEF Fungible, TokenInv
<1>6. CASE \E from \in User, to \in Holder, v \in Quantities :
             TransferFromWrc20(c, from, to, v)
  <2>1. PICK from \in User, to \in Holder, v \in Quantities :
               TransferFromWrc20(c, from, to, v)
    BY <1>6
  <2> DEFINE b == Transferred(tok.balances, from, to, v)
             al == Spent(tok.allowances, from, c, v)
  <2>2. b \in [Holder -> Words] /\ SumOf(b) = tok.totalSupply
    BY <1>2, <1>4, <2>1 DEF TransferFromWrc20
  <2>3. al \in [User \X User -> Words]
    BY <1>1, <1>2, <2>1 DEF TransferFromWrc20, Spent, Fungible, Words
  <2>4. /\ tok' = [tok EXCEPT !.allowances = al, !.balances = b]
        /\ native' = native /\ burns' = burns
    BY <2>1 DEF TransferFromWrc20, Flush
  <2> HIDE DEF b, al
  <2>5. tok' = [tok EXCEPT !.balances = b, !.allowances = al, !.cost = tok.cost]
    BY Zenon, <1>1, <2>4 DEF Fungible
  <2> QED BY Zenon, <1>1, <1>3, <2>2, <2>3, <2>4, <2>5 DEF Fungible, TokenInv
<1>7. CASE \E s \in User, v \in Quantities : ApproveWrc20(c, s, v)
  <2>1. PICK s \in User, v \in Quantities : ApproveWrc20(c, s, v)
    BY <1>7
  <2> DEFINE al == [tok.allowances EXCEPT ![<<c, s>>] = v]
  <2>2. al \in [User \X User -> Words]
    BY <1>1, <1>2, <2>1 DEF ApproveWrc20, Fungible, Words
  <2>3. /\ tok' = [tok EXCEPT !.balances = tok.balances, !.allowances = al,
                              !.cost = tok.cost]
        /\ native' = native /\ burns' = burns
    BY Zenon, <1>1, <2>1 DEF ApproveWrc20, Flush, Fungible
  <2> HIDE DEF al
  <2> QED BY Zenon, <1>1, <1>3, <2>2, <2>3 DEF Fungible, TokenInv
<1>8. CASE \E p \in Prices : SetPriceWrc20(c, p)
  <2>1. PICK p \in Prices : SetPriceWrc20(c, p)
    BY <1>8
  <2>2. p \in Words
    BY <1>2, <2>1 DEF SetPriceWrc20, Words
  <2>3. /\ tok' = [tok EXCEPT !.balances = tok.balances,
                              !.allowances = tok.allowances, !.cost = p]
        /\ native' = native /\ burns' = burns
    BY Zenon, <1>1, <2>1 DEF SetPriceWrc20, Flush, Fungible
  <2> QED BY Zenon, <1>1, <1>3, <2>2, <2>3 DEF Fungible, TokenInv
<1>9. CASE \E v \in Values : BuyWrc20(c, v)
  <2>1. PICK v \in Values : BuyWrc20(c, v)
    BY <1>9
  <2> DEFINE o == tok.creator
             n == (v - (v % tok.cost)) \div tok.cost
             b == Transferred(tok.balances, o, c, n)
             d == Payment(v)
  <2>2. n \in Nat /\ d \in Nat /\ o \in User
    BY <1>1, <1>2, <2>1 DEF BuyWrc20, Payment, Fungible, Words
  <2>3. /\ CanTransfer(tok.balances, o, c, n) /\ native' = Paid(native, c, o, d)
        /\ tok' = [tok EXCEPT !.balances = b] /\ burns' = burns
    BY <2>1 DEF BuyWrc20, Flush
  <2> HIDE DEF n, d
  <2>4. b \in [Holder -> Words] /\ SumOf(b) = tok.totalSupply
    BY Zenon, <1>2, <1>4, <2>2, <2>3
  <2>5. native' \in [User -> Int] /\ NetOf(native') = NetOf(native)
    BY <2>2, <2>3, FeeOf, PaidMoney DEF TokenInv, Settles
  <2> HIDE DEF b
  <2>6. tok' = [tok EXCEPT !.balances = b, !.allowances = tok.allowances,
                           !.cost = tok.cost]
    BY Zenon, <1>1, <2>3 DEF Fungible
  <2>7. /\ burns' = burns /\ tok.allowances \in [User \X User -> Words]
        /\ tok.cost \in Words
    BY Zenon, <1>1, <2>3 DEF Fungible
  <2> QED BY Zenon, <1>3, <2>4, <2>5, <2>6, <2>7
<1> QED
  BY Zenon, <1>1, <1>5, <1>6, <1>7, <1>8, <1>9
  DEF Call, CreateWrc20, CreateWrc721, TransferFromWrc721, ApproveWrc721, Mint,
      Burn, SetApprovalForAll, SetPriceWrc721, BuyWrc721

\* A balance and a count change by as much, or the balance borrows 2^256.
Differ(w, v, x, y) == w - v = y - x \/ w - v = y - x + W

\* Counting with one balance changed: mint and burn.
LEMMA CountedOnce ==
  ASSUME NEW b \in [Holder -> Words], NEW o \in [Id -> Holder], NEW n \in [User -> Nat],
         Counted(b, o, n), NEW h \in User, NEW w \in Words, NEW p, NEW m,
         \A a \in User \ {h} : Owned(p, a) = Owned(o, a) /\ m[a] = n[a],
         Differ(w, b[h], Cardinality(Owned(o, h)) - n[h], Cardinality(Owned(p, h)) - m[h]),
         Cardinality(Owned(o, h)) \in Nat, Cardinality(Owned(p, h)) \in Nat, m[h] \in Nat
  PROVE  Counted([b EXCEPT ![h] = w], p, m)
<1>1. User \subseteq Holder /\ W \in Nat
  BY ZenonT(60), TokenConstants
<1>2. ASSUME NEW a \in User
      PROVE  \E k \in Int : [b EXCEPT ![h] = w][a]
                               = Cardinality(Owned(p, a)) - m[a] + W * k
  <2>1. PICK k \in Int : b[a] = Cardinality(Owned(o, a)) - n[a] + W * k
    BY Zenon DEF Counted
  <2>2. W * k \in Int /\ W * (k + 1) = W * k + W
    BY <1>1
  <2>3. CASE a # h
    BY Zenon, <1>1, <2>1, <2>3
  <2>4. CASE a = h
    <3>1. [b EXCEPT ![h] = w][a] = w /\ w \in Int /\ b[h] \in Int /\ n[h] \in Int
      BY <1>1, <2>4 DEF Words
    <3> DEFINE x == W * k
    <3>2. x \in Int /\ b[h] = Cardinality(Owned(o, h)) - n[h] + x
      BY Zenon, <2>1, <2>2, <2>4
    <3> HIDE DEF x
    <3>3. \/ w = Cardinality(Owned(p, h)) - m[h] + x
          \/ w = Cardinality(Owned(p, h)) - m[h] + (x + W)
      BY <1>1, <3>1, <3>2 DEF Differ
    <3>4. \/ w = Cardinality(Owned(p, a)) - m[a] + W * k
          \/ w = Cardinality(Owned(p, a)) - m[a] + W * (k + 1)
      BY Zenon, <2>2, <2>4, <3>3 DEF x
    <3> QED BY <3>1, <3>4
  <2> QED BY <2>3, <2>4
<1> QED BY <1>2 DEF Counted

\* burn: one less, modulo 2^256.
LEMMA BurnBorrows ==
  ASSUME NEW x \in Words
  PROVE  (x - 1) % W = IF x = 0 THEN W - 1 ELSE x - 1
<1>1. W \in Nat \ {0, 1}
  BY TokenConstants
<1>2. CASE x = 0
  <2>1. (W * (-1) + (W - 1)) % W = W - 1
    BY <1>1, Residue
  <2>2. W * (-1) + (W - 1) = x - 1
    BY <1>1, <1>2
  <2> QED BY Zenon, <1>2, <2>1, <2>2
<1>3. CASE x # 0
  <2>1. x - 1 \in 0 .. W - 1
    BY <1>1, <1>3 DEF Words
  <2>2. (W * 0 + (x - 1)) % W = x - 1
    BY <1>1, <2>1, Residue
  <2>3. W * 0 + (x - 1) = x - 1
    BY <1>1, <2>1
  <2> QED BY <1>3, <2>2, <2>3
<1> QED BY <1>2, <1>3

\* Calls on a WRC-721 token.
LEMMA UniqueStep ==
  ASSUME TokenInv, NEW c \in User, tok.std = "wrc721", Call(c)
  PROVE  TokenInv'
<1>1. /\ tok \in Unique /\ Counted(tok.balances, tok.owners, burns)
      /\ tok # NoToken /\ tok.std # "wrc20"
  BY Uniquely DEF NoToken
<1>2. /\ User \subseteq Holder /\ Zero \in Holder /\ W \in Nat \ {0, 1}
      /\ Zero \notin User /\ Prices \subseteq Nat /\ Holder = User \cup {Zero}
  BY TokenConstants DEF Holder
<1>3. /\ native \in [User -> Int] /\ burns \in [User -> Nat]
      /\ tok.balances \in [Holder -> Words] /\ tok.owners \in [Id -> Holder]
      /\ tok.tokenApprovals \in [Id -> Holder] /\ tok.costs \in [Id -> Words]
      /\ tok.operatorApprovals \in [User \X User -> BOOLEAN]
  BY <1>1 DEF TokenInv, Unique
<1>4. ASSUME NEW b \in [Holder -> Words], NEW o \in [Id -> Holder],
             NEW ta \in [Id -> Holder], NEW oa \in [User \X User -> BOOLEAN],
             NEW cs \in [Id -> Words],
             tok' = [tok EXCEPT !.balances = b, !.owners = o, !.tokenApprovals = ta,
                                !.operatorApprovals = oa, !.costs = cs],
             burns' \in [User -> Nat], Counted(b, o, burns'),
             native' \in [User -> Int], NetOf(native') = NetOf(native)
      PROVE  TokenInv'
  <2>1. tok' \in Unique /\ tok'.balances = b /\ tok'.owners = o
    BY Zenon, <1>1, <1>4 DEF Unique
  <2> QED BY <1>4, <2>1 DEF TokenInv
<1>5. ASSUME tok' \in Unique, tok'.balances = tok.balances,
             tok'.owners = tok.owners, native' = native, burns' = burns
      PROVE  TokenInv'
  BY Zenon, <1>1, <1>5 DEF TokenInv
<1>6. ASSUME NEW i \in Id, NEW to \in User, tok.owners[i] # Zero,
             CanTransfer(tok.balances, tok.owners[i], to, 1)
      PROVE  LET b == Transferred(tok.balances, tok.owners[i], to, 1) IN
             /\ b \in [Holder -> Words]
             /\ Counted(b, [tok.owners EXCEPT ![i] = to], burns)
  <2>1. tok.owners[i] \in User
    BY Zenon, <1>2, <1>3, <1>6
  <2>2. Transferred(tok.balances, tok.owners[i], to, 1) \in [Holder -> Words]
    BY Zenon, <1>2, <1>3, <1>6, <2>1, TransferredSum DEF Words
  <2> QED BY Zenon, <1>1, <1>3, <1>6, <2>1, <2>2, CountedMoved
<1>7. CASE \E from \in User, to \in Holder, i \in Id : TransferFromWrc721(c, from, to, i)
  <2>1. PICK from \in User, to \in Holder, i \in Id : TransferFromWrc721(c, from, to, i)
    BY <1>7
  <2> DEFINE b == Transferred(tok.balances, tok.owners[i], to, 1)
             o == [tok.owners EXCEPT ![i] = to]
             ta == [tok.tokenApprovals EXCEPT ![i] = Zero]
  <2>2. /\ to \in User /\ tok.owners[i] # Zero /\ native' = native /\ burns' = burns
        /\ CanTransfer(tok.balances, tok.owners[i], to, 1)
        /\ tok' = [tok EXCEPT !.tokenApprovals = WriteToMap(@, i, Zero),
                              !.balances = b, !.owners = WriteToMap(@, i, to)]
    BY Zenon, <1>2, <2>1 DEF TransferFromWrc721, Flush
  <2>3. /\ WriteToMap(tok.tokenApprovals, i, Zero) = ta
        /\ WriteToMap(tok.owners, i, to) = o
    BY ZenonT(60), <1>2, WrittenAddress
  <2>4. b \in [Holder -> Words] /\ Counted(b, o, burns)
    BY Zenon, <1>6, <2>2
  <2>5. o \in [Id -> Holder] /\ ta \in [Id -> Holder]
    BY <1>2, <1>3
  <2> HIDE DEF b, o, ta
  <2>6. tok' = [tok EXCEPT !.balances = b, !.owners = o, !.tokenApprovals = ta,
                  !.operatorApprovals = tok.operatorApprovals, !.costs = tok.costs]
    BY Zenon, <1>1, <2>2, <2>3 DEF Unique
  <2>7. burns' \in [User -> Nat] /\ native' \in [User -> Int]
        /\ Counted(b, o, burns') /\ NetOf(native') = NetOf(native)
    BY Zenon, <1>3, <2>2, <2>4
  <2> QED BY Zenon, <1>3, <1>4, <2>4, <2>5, <2>6, <2>7
<1>8. CASE \E s \in User, i \in Id : ApproveWrc721(c, s, i)
  <2>1. PICK s \in User, i \in Id : ApproveWrc721(c, s, i)
    BY Zenon, <1>8
  <2> DEFINE ta == [tok.tokenApprovals EXCEPT ![i] = s]
  <2>2. /\ native' = native /\ burns' = burns /\ ta \in [Id -> Holder]
        /\ tok' = [tok EXCEPT !.tokenApprovals = ta]
    BY <1>2, <1>3, <2>1, WrittenAddress DEF ApproveWrc721, Flush
  <2> HIDE DEF ta
  <2>3. tok' \in Unique /\ tok'.balances = tok.balances /\ tok'.owners = tok.owners
    BY Zenon, <1>1, <2>2 DEF Unique
  <2> QED BY Zenon, <1>5, <2>2, <2>3
<1>9. CASE \E to \in User, i \in Id : Mint(c, to, i)
  <2>1. PICK to \in User, i \in Id : Mint(c, to, i)
    BY Zenon, <1>9
  <2> DEFINE w == tok.balances[to] + 1
             b == [tok.balances EXCEPT ![to] = w]
             o == [tok.owners EXCEPT ![i] = to]
  <2>2. /\ tok.owners[i] = Zero /\ w < W /\ native' = native /\ burns' = burns
        /\ tok' = [tok EXCEPT !.balances = b, !.owners = WriteToMap(@, i, to)]
    BY Zenon, <1>1, <2>1 DEF Mint, Flush, Unique
  <2>3. w \in Words /\ b \in [Holder -> Words] /\ o \in [Id -> Holder]
        /\ WriteToMap(tok.owners, i, to) = o
    BY <1>2, <1>3, <2>2, WrittenAddress DEF Words
  <2>4. /\ \A a \in Holder : Cardinality(Owned(tok.owners, a)) \in Nat
        /\ Cardinality(Owned(o, to)) = Cardinality(Owned(tok.owners, to)) + 1
        /\ \A a \in User \ {to} : Owned(o, a) = Owned(tok.owners, a)
    BY SMTT(30), <1>2, <1>3, <2>2, OwnedMoved
  <2>5. Counted(b, o, burns)
    <3>1. burns[to] \in Nat /\ tok.balances[to] \in Int
      BY SMTT(30), <1>2, <1>3 DEF Words
    <3>2. Differ(w, tok.balances[to], Cardinality(Owned(tok.owners, to)) - burns[to],
                 Cardinality(Owned(o, to)) - burns[to])
      BY <1>2, <2>4, <3>1 DEF Differ
    <3>3. \A a \in User \ {to} : Owned(o, a) = Owned(tok.owners, a) /\ burns[a] = burns[a]
      BY Zenon, <2>4
    <3>4. Cardinality(Owned(tok.owners, to)) \in Nat /\ Cardinality(Owned(o, to)) \in Nat
      BY <1>2, <2>4
    <3> HIDE DEF w, o
    <3> QED BY Zenon, <1>1, <1>3, <2>3, <3>1, <3>2, <3>3, <3>4, CountedOnce
  <2> HIDE DEF b, o
  <2>6. tok' = [tok EXCEPT !.balances = b, !.owners = o,
                  !.tokenApprovals = tok.tokenApprovals,
                  !.operatorApprovals = tok.operatorApprovals, !.costs = tok.costs]
    BY Zenon, <1>1, <2>2, <2>3 DEF Unique
  <2>7. burns' \in [User -> Nat] /\ native' \in [User -> Int]
        /\ Counted(b, o, burns') /\ NetOf(native') = NetOf(native)
    BY Zenon, <1>3, <2>2, <2>5
  <2> QED BY Zenon, <1>3, <1>4, <2>3, <2>6, <2>7
<1>10. CASE \E i \in Id : burns[c] < W /\ Burn(c, i)
  <2>1. PICK i \in Id : Burn(c, i)
    BY <1>10
  <2> DEFINE w == (tok.balances[c] - 1) % W
             b == [tok.balances EXCEPT ![c] = w]
             n == [burns EXCEPT ![c] = @ + 1]
  <2>2. /\ native' = native /\ burns' = n
        /\ tok' = [tok EXCEPT !.balances = b, !.owners = WriteToMap(@, i, EmptyValue)]
    BY <1>1, <2>1 DEF Burn, Flush, Unique
  <2>3. WriteToMap(tok.owners, i, EmptyValue) = tok.owners
    BY DEF WriteToMap
  <2>4. w = (IF tok.balances[c] = 0 THEN W - 1 ELSE tok.balances[c] - 1)
    BY Zenon, <1>2, <1>3, BurnBorrows
  <2>5. tok.balances[c] \in 0 .. W - 1 /\ n \in [User -> Nat] /\ burns[c] \in Nat
        /\ n[c] = burns[c] + 1 /\ \A a \in User \ {c} : n[a] = burns[a]
    BY <1>2, <1>3 DEF Words
  <2> HIDE DEF w, n
  <2>6. w \in Words /\ b \in [Holder -> Words]
    <3>1. w \in Words
      BY <1>2, <2>4, <2>5 DEF Words
    <3> QED BY <1>2, <1>3, <3>1
  <2>7. Cardinality(Owned(tok.owners, c)) \in Nat
    <3>1. IsFiniteSet(Owned(tok.owners, c))
      BY TokenConstants, FS_Subset DEF Owned
    <3> QED BY Zenon, <3>1, FS_CardinalityType
  <2>8. Counted(b, tok.owners, n)
    <3> DEFINE x == Cardinality(Owned(tok.owners, c))
    <3>1. Differ(w, tok.balances[c], x - burns[c], x - n[c])
      <4> HIDE DEF x
      <4> QED BY <1>2, <2>4, <2>5, <2>7 DEF x, Differ
    <3>2. \A a \in User \ {c} :
            Owned(tok.owners, a) = Owned(tok.owners, a) /\ n[a] = burns[a]
      BY <2>5
    <3>3. n[c] \in Nat
      BY <2>5
    <3> QED BY ZenonT(60), <1>1, <1>3, <2>6, <2>7, <3>1, <3>2, <3>3, CountedOnce
  <2> HIDE DEF b
  <2>9. tok' \in Unique /\ tok'.balances = b /\ tok'.owners = tok.owners
    BY Zenon, <1>1, <2>2, <2>3, <2>6 DEF Unique
  <2>10. native' \in [User -> Int] /\ NetOf(native') = NetOf(Purses)
    BY <2>2 DEF TokenInv
  <2> QED BY Zenon, <2>2, <2>5, <2>8, <2>9, <2>10 DEF TokenInv
<1>11. CASE \E o \in User \ {c}, x \in BOOLEAN : SetApprovalForAll(c, o, x)
  <2>1. PICK o \in User \ {c}, x \in BOOLEAN : SetApprovalForAll(c, o, x)
    BY Zenon, <1>11
  <2> DEFINE oa == [tok.operatorApprovals EXCEPT ![<<c, o>>] = x]
  <2>2. /\ native' = native /\ burns' = burns /\ oa \in [User \X User -> BOOLEAN]
        /\ tok' = [tok EXCEPT !.operatorApprovals = oa]
    BY Zenon, <1>1, <1>3, <2>1 DEF SetApprovalForAll, Flush, Unique
  <2> HIDE DEF oa
  <2>3. tok' \in Unique /\ tok'.balances = tok.balances /\ tok'.owners = tok.owners
    BY Zenon, <1>1, <2>2 DEF Unique
  <2> QED BY Zenon, <1>5, <2>2, <2>3
<1>12. CASE \E i \in Id, p \in Prices : SetPriceWrc721(c, i, p)
  <2>1. PICK i \in Id, p \in Prices : SetPriceWrc721(c, i, p)
    BY Zenon, <1>12
  <2> DEFINE cs == [tok.costs EXCEPT ![i] = p]
  <2>2. /\ native' = native /\ burns' = burns /\ cs \in [Id -> Words]
        /\ tok' = [tok EXCEPT !.costs = cs]
    BY <1>1, <1>2, <1>3, <2>1 DEF SetPriceWrc721, Flush, Unique, Words
  <2> HIDE DEF cs
  <2>3. tok' \in Unique /\ tok'.balances = tok.balances /\ tok'.owners = tok.owners
    BY Zenon, <1>1, <2>2 DEF Unique
  <2> QED BY Zenon, <1>5, <2>2, <2>3
<1>13. CASE \E i \in Id, p \in Prices, v \in Values : BuyWrc721(c, i, p, v)
  <2>1. PICK i \in Id, p \in Prices, v \in Values : BuyWrc721(c, i, p, v)
    BY <1>13
  <2> DEFINE s == tok.owners[i]
             d == tok.costs[i]
             b == Transferred(tok.balances, s, c, 1)
             o == [tok.owners EXCEPT ![i] = c]
             ta == [tok.tokenApprovals EXCEPT ![i] = Zero]
             cs == [tok.costs EXCEPT ![i] = p]
  <2>2. /\ s # Zero /\ p < W /\ burns' = burns
        /\ CanTransfer(tok.balances, s, c, 1) /\ native' = Paid(native, c, s, d)
        /\ tok' = [Sold(i, c, p) EXCEPT !.balances = Transferred(@, s, c, 1)]
    BY <2>1 DEF BuyWrc721, Flush
  <2>3. Sold(i, c, p) = [tok EXCEPT !.owners = o, !.tokenApprovals = ta, !.costs = cs]
    <3>1. WriteToMap(tok.owners, i, c) = o /\ WriteToMap(tok.tokenApprovals, i, Zero) = ta
      BY <1>2, WrittenAddress
    <3> HIDE DEF o, ta
    <3>2. [tok EXCEPT !.owners = o, !.tokenApprovals = ta].costs = tok.costs
      BY <1>1 DEF Unique
    <3> QED BY <3>1, <3>2 DEF Sold
  <2>4. b \in [Holder -> Words] /\ Counted(b, o, burns)
    BY Zenon, <1>6, <2>2
  <2>5. /\ o \in [Id -> Holder] /\ ta \in [Id -> Holder] /\ cs \in [Id -> Words]
        /\ s \in User /\ d \in Nat
    BY <1>2, <1>3, <2>2 DEF Words
  <2>6. native' \in [User -> Int] /\ NetOf(native') = NetOf(native)
    <3> HIDE DEF s, d
    <3>1. Fee(s, d) \in Nat /\ (Fee(s, d) > 0 => tok.minter \in User \ {s})
      BY Zenon, <2>5, FeeOf
    <3> QED BY <1>3, <2>2, <2>5, <3>1, PaidMoney DEF Settles
  <2> HIDE DEF o, ta, cs, s
  <2>7. tok' = [tok EXCEPT !.owners = o, !.tokenApprovals = ta, !.costs = cs,
                           !.balances = b]
    BY Zenon, <1>1, <2>2, <2>3 DEF Unique
  <2> HIDE DEF b
  <2>8. tok' \in Unique /\ tok'.balances = b /\ tok'.owners = o
    BY Zenon, <1>1, <2>4, <2>5, <2>7 DEF Unique
  <2> QED BY Zenon, <2>2, <2>4, <2>6, <2>8 DEF TokenInv
<1> QED
  BY ZenonT(60), <1>1, <1>7, <1>8, <1>9, <1>10, <1>11, <1>12, <1>13
  DEF Call, CreateWrc20, CreateWrc721, Transfer, TransferFromWrc20, ApproveWrc20,
      SetPriceWrc20, BuyWrc20

\* The first call creates the token.
LEMMA CreateStep ==
  ASSUME TokenInv, NEW c \in User, tok = NoToken, Call(c)
  PROVE  TokenInv'
<1>1. /\ tok.std = "none" /\ burns = [a \in User |-> 0]
      /\ native \in [User -> Int] /\ NetOf(native) = NetOf(Purses)
  BY DEF TokenInv, NoToken, Fungible, Unique
<1>2. /\ User \subseteq Holder /\ Zero \in Holder \ User /\ W \in Nat \ {0, 1}
      /\ Supplies \subseteq Nat /\ Fees \subseteq Nat
  BY TokenConstants
<1>3. CASE \E s \in Supplies : CreateWrc20(c, s)
  <2>1. PICK s \in Supplies : CreateWrc20(c, s)
    BY <1>3
  <2>2. tok' = Wrc20(c, s) /\ native' = native /\ burns' = burns /\ s \in Words
    BY <1>2, <2>1 DEF CreateWrc20, Flush, Words
  <2>3. SumOf([a \in Holder |-> IF a = c THEN s ELSE 0]) = s
    BY Zenon, <1>2, SupplyCreated
  <2>4. 0 \in Words
    BY <1>2 DEF Words
  <2>5. tok' \in Fungible /\ SumOf(tok'.balances) = tok'.totalSupply
    BY Zenon, <1>2, <2>2, <2>3, <2>4 DEF Wrc20, Fungible
  <2> QED BY Zenon, <1>1, <2>2, <2>5 DEF TokenInv
<1>4. CASE \E f \in Fees : CreateWrc721(c, f)
  <2>1. PICK f \in Fees : CreateWrc721(c, f)
    BY Zenon, <1>4
  <2>2. tok' = Wrc721(c, f) /\ native' = native /\ burns' = burns /\ 0 \in Words
    BY <1>2, <2>1 DEF CreateWrc721, Flush, Words
  <2>3. tok' \in Unique /\ tok'.balances = [a \in Holder |-> 0]
        /\ tok'.owners = [i \in Id |-> Zero]
    BY Zenon, <1>2, <2>2 DEF Wrc721, Unique
  <2>4. ASSUME NEW a \in User
        PROVE  tok'.balances[a] = Cardinality(Owned(tok'.owners, a)) - burns'[a] + W * 0
    <3>1. Owned(tok'.owners, a) = {}
      BY <1>2, <2>3 DEF Owned
    <3>2. Cardinality(Owned(tok'.owners, a)) = 0
      BY <3>1, FS_EmptySet
    <3> QED BY <1>1, <1>2, <2>2, <2>3, <3>2
  <2>5. Counted(tok'.balances, tok'.owners, burns')
    BY <2>4 DEF Counted
  <2> QED BY Zenon, <1>1, <2>2, <2>3, <2>5 DEF TokenInv
<1> QED
  BY ZenonT(60), <1>1, <1>3, <1>4
  DEF Call, Transfer, TransferFromWrc20, ApproveWrc20, SetPriceWrc20, BuyWrc20,
      TransferFromWrc721, ApproveWrc721, Mint, Burn, SetApprovalForAll,
      SetPriceWrc721, BuyWrc721

\* TokenInv is inductive.
LEMMA TokenNextInv == TokenInv /\ [TokenNext]_tokenVars => TokenInv'
<1> SUFFICES ASSUME TokenInv, [TokenNext]_tokenVars PROVE TokenInv'
  OBVIOUS
<1>1. CASE TokenNext
  <2>1. PICK c \in User : Call(c)
    BY Zenon, <1>1 DEF TokenNext
  <2>2. tok = NoToken \/ tok.std = "wrc20" \/ tok.std = "wrc721"
    BY Zenon DEF TokenInv, Fungible, Unique
  <2> QED BY Zenon, <2>1, <2>2, CreateStep, FungibleStep, UniqueStep
<1>2. CASE UNCHANGED tokenVars
  BY <1>2 DEF tokenVars, TokenInv
<1> QED BY <1>1, <1>2

LEMMA TokenStart == TokenInit => TokenInv
BY TokenConstants DEF TokenInit, TokenInv

\* Tokens and money are conserved by every call of Processor.Call.
THEOREM TokensConservedCorrect == TokenSpec => []TokensConserved
<1>1. TokenInv => TokensConserved
  <2> SUFFICES ASSUME TokenInv PROVE TokensConserved
    OBVIOUS
  <2>1. tok.std = "wrc20" => SumOf(tok.balances) = tok.totalSupply
    BY Fungibly
  <2>2. ASSUME tok.std = "wrc721", NEW a \in User
        PROVE  tok.balances[a] = (Cardinality({i \in Id : tok.owners[i] = a}) - burns[a]) % W
    <3> DEFINE x == Cardinality(Owned(tok.owners, a)) - burns[a]
    <3>1. tok.balances \in [Holder -> Words] /\ Counted(tok.balances, tok.owners, burns)
      BY <2>2, Uniquely DEF Unique
    <3>2. W \in Nat \ {0, 1} /\ User \subseteq Holder
      BY TokenConstants
    <3>3. x \in Int
      <4>1. IsFiniteSet(Owned(tok.owners, a)) /\ burns[a] \in Nat
        BY TokenConstants, FS_Subset DEF Owned, TokenInv
      <4> QED BY <4>1, FS_CardinalityType
    <3>4. PICK k \in Int : tok.balances[a] = x + W * k
      BY <3>1 DEF Counted
    <3> HIDE DEF x
    <3>5. tok.balances[a] \in 0 .. W - 1 /\ -k \in Int /\ x = W * (-k) + tok.balances[a]
      BY <3>1, <3>2, <3>3, <3>4 DEF Words
    <3>6. x % W = tok.balances[a]
      BY Zenon, <3>2, <3>5, Residue
    <3> QED BY <3>6 DEF x, Owned
  <2> QED BY Zenon, <2>1, <2>2 DEF TokensConserved, TokenInv
<1> QED BY <1>1, TokenStart, TokenNextInv, PTL DEF TokenSpec

-----------------------------------------------------------------------------
(* MovedWithConsent.                                                        *)

FungibleConsent ==
  tok.std = "wrc20" =>
    \A a \in User : LET gone == tok.balances[a] - tok'.balances[a]
                    IN  gone > 0 => SpentBy(a, by', gone)

UniqueConsent ==
  tok.std = "wrc721" =>
    \A i \in Id : tok.owners[i] # Zero /\ tok'.owners[i] # tok.owners[i]
                    => MovedBy(i, by')

\* buy: the payment is the price of the whole tokens that are sold.
LEMMA WholeTokens ==
  ASSUME NEW v \in Nat, NEW p \in Nat \ {0}
  PROVE  LET n == (v - (v % p)) \div p IN n \in Nat /\ v - (v % p) = n * p
<1> DEFINE q == v \div p
<1>1. q \in Nat /\ v = p * q + (v % p) /\ v % p \in 0 .. p - 1
  OBVIOUS
<1>2. p * q \in Nat /\ v - (v % p) = p * q
  BY <1>1
<1>3. (p * q) \div p = q
  <2> DEFINE y == p * q
             r == y \div p
  <2>1. r \in Int /\ y = p * r + (y % p) /\ y % p = 0
    <3>1. (p * q + 0) % p = 0
      <4>1. 0 \in 0 .. p - 1 /\ q \in Int
        BY <1>1
      <4> HIDE DEF q
      <4> QED BY <4>1, Residue
    <3>2. p * q + 0 = y /\ y \in Int
      BY <1>2
    <3> HIDE DEF y
    <3> QED BY <3>1, <3>2
  <2>2. p * r = p * q
    <3> HIDE DEF r
    <3> QED BY <1>2, <2>1
  <2> HIDE DEF r, q
  <2> QED BY <1>1, <2>1, <2>2 DEF r, q
<1> HIDE DEF q
<1> QED BY <1>1, <1>2, <1>3

LEMMA FungiblyConsented ==
  ASSUME TokenInv, NEW c \in User, Call(c)
  PROVE  FungibleConsent
<1> SUFFICES ASSUME tok.std = "wrc20", NEW a \in User, NEW gone,
                    gone = tok.balances[a] - tok'.balances[a], gone > 0
             PROVE  SpentBy(a, by', gone)
  BY Zenon DEF FungibleConsent
<1>1. /\ tok \in Fungible /\ tok # NoToken /\ tok.std # "wrc721"
      /\ tok.balances \in [Holder -> Words] /\ tok.creator \in User
      /\ tok.cost \in Nat /\ native \in [User -> Int]
      /\ tok.allowances \in [User \X User -> Words]
  BY Fungibly, TokenConstants DEF NoToken, Fungible, TokenInv, Words
<1>2. /\ User \subseteq Holder /\ W \in Nat /\ Quantities \subseteq Nat
      /\ Values \subseteq Nat
  BY TokenConstants
<1>3. ASSUME NEW from \in Holder, NEW to \in Holder, NEW v \in Nat,
             tok'.balances = Transferred(tok.balances, from, to, v)
      PROVE  a = from /\ a # to /\ gone = v
  <2>1. tok'.balances[a] = tok.balances[a] - (IF a = from THEN v ELSE 0)
                                           + (IF a = to THEN v ELSE 0)
    BY <1>1, <1>2, <1>3 DEF Transferred, Debited, Words
  <2>2. tok.balances[a] \in Int
    BY <1>1, <1>2 DEF Words
  <2> QED BY <2>1, <2>2
<1>4. CASE \E to \in User, v \in Quantities : Transfer(c, to, v)
  <2>1. PICK to \in User, v \in Quantities : Transfer(c, to, v)
    BY Zenon, <1>4
  <2>2. tok'.balances = Transferred(tok.balances, c, to, v) /\ by' = c
    BY Zenon, <1>1, <2>1 DEF Transfer, Flush, Fungible
  <2>3. a = c
    BY Zenon, <1>2, <1>3, <2>2
  <2> QED BY Zenon, <2>2, <2>3 DEF SpentBy
<1>5. CASE \E from \in User, to \in Holder, v \in Quantities :
             TransferFromWrc20(c, from, to, v)
  <2>1. PICK from \in User, to \in Holder, v \in Quantities :
               TransferFromWrc20(c, from, to, v)
    BY Zenon, <1>5
  <2>2. /\ tok'.balances = Transferred(tok.balances, from, to, v) /\ by' = c
        /\ tok'.allowances = Spent(tok.allowances, from, c, v)
    BY Zenon, <1>1, <2>1 DEF TransferFromWrc20, Flush, Fungible
  <2>3. a = from /\ gone = v /\ v \in Nat
    BY Zenon, <1>2, <1>3, <2>2
  <2>4. tok'.allowances[<<from, c>>] = tok.allowances[<<from, c>>] - v
        /\ tok.allowances[<<from, c>>] \in Int
    BY <1>1, <1>2, <2>2 DEF Spent, Words
  <2>5. tok.allowances[<<a, c>>] - tok'.allowances[<<a, c>>] = gone
    BY <2>3, <2>4
  <2> QED BY Zenon, <2>2, <2>5 DEF SpentBy
<1>6. CASE \E v \in Values : BuyWrc20(c, v)
  <2>1. PICK v \in Values : BuyWrc20(c, v)
    BY Zenon, <1>6
  <2> DEFINE o == tok.creator
             n == (v - (v % tok.cost)) \div tok.cost
             d == Payment(v)
  <2>2. /\ tok'.balances = Transferred(tok.balances, o, c, n) /\ by' = c
        /\ native' = Paid(native, c, o, d) /\ tok.cost > 0
    BY Zenon, <1>1, <2>1 DEF BuyWrc20, Flush, Fungible
  <2>3. n \in Nat /\ d = n * tok.cost /\ d \in Nat
    <3>1. v \in Nat /\ tok.cost \in Nat \ {0}
      <4>1. v \in Nat /\ tok.cost \in Nat /\ tok.cost > 0
        BY Zenon, <1>1, <1>2, <2>2
      <4> HIDE DEF o, n, d
      <4> QED BY <4>1
    <3>2. n \in Nat /\ d = n * tok.cost
      BY ZenonT(30), <3>1, WholeTokens, Zenon DEF Payment
    <3> HIDE DEF n
    <3> QED BY <3>1, <3>2
  <2> HIDE DEF n, d
  <2>4. a = o /\ a # c /\ gone = n
    BY Zenon, <1>1, <1>2, <1>3, <2>2, <2>3
  <2>5. Fee(o, d) = 0
    BY Zenon, <1>1 DEF Fee
  <2>6. native'[a] - native[a] = d - 0
    <3>1. d \in Int /\ ~(0 > 0) /\ 0 \in Nat
      BY <2>3
    <3>2. Settles(native', c, o, d, 0)
      BY Zenon, <1>1, <2>2, <2>4, <2>5, <3>1, PaidMoney
    <3> QED BY Zenon, <2>4, <3>2 DEF Settles
  <2>7. native'[a] - native[a] = gone * tok.cost
    BY <2>3, <2>4, <2>6
  <2> QED BY Zenon, <2>2, <2>4, <2>7 DEF SpentBy
<1>7. CASE \/ \E s \in User, v \in Quantities : ApproveWrc20(c, s, v)
           \/ \E p \in Prices : SetPriceWrc20(c, p)
  <2>1. tok'.balances = tok.balances
    BY ZenonT(30), <1>1, <1>7 DEF ApproveWrc20, SetPriceWrc20, Flush, Fungible
  <2>2. tok.balances[a] \in Int
    BY <1>1, <1>2 DEF Words
  <2>3. \A x \in Int : ~(x - x > 0)
    OBVIOUS
  <2> QED BY Zenon, <2>1, <2>2, <2>3
<1> QED
  BY Zenon, <1>1, <1>4, <1>5, <1>6, <1>7
  DEF Call, CreateWrc20, CreateWrc721, TransferFromWrc721, ApproveWrc721, Mint,
      Burn, SetApprovalForAll, SetPriceWrc721, BuyWrc721

LEMMA UniquelyConsented ==
  ASSUME TokenInv, NEW c \in User, Call(c)
  PROVE  UniqueConsent
<1> SUFFICES ASSUME tok.std = "wrc721", NEW i \in Id, tok.owners[i] # Zero,
                    tok'.owners[i] # tok.owners[i]
             PROVE  MovedBy(i, by')
  BY ZenonT(60) DEF UniqueConsent
<1>1. /\ tok \in Unique /\ tok # NoToken /\ tok.std # "wrc20"
      /\ tok.owners \in [Id -> Holder] /\ tok.costs[i] \in Nat
      /\ tok.minter \in User /\ native \in [User -> Int]
  BY SMTT(30), Uniquely, TokenConstants DEF NoToken, Unique, TokenInv, Words
<1>2. User \subseteq Holder /\ tok.owners[i] \in User
  BY <1>1, TokenConstants DEF Holder
<1>3. CASE \E from \in User, to \in Holder, j \in Id : TransferFromWrc721(c, from, to, j)
  <2>1. PICK from \in User, to \in Holder, j \in Id : TransferFromWrc721(c, from, to, j)
    BY Zenon, <1>3
  <2>2. tok'.owners = WriteToMap(tok.owners, j, to) /\ by' = c /\ MayMove(c, j)
    BY Zenon, <1>1, <2>1 DEF TransferFromWrc721, Flush, Unique
  <2>3. j = i
    BY Zenon, <1>1, <2>2 DEF WriteToMap
  <2> QED BY ZenonT(30), <2>2, <2>3 DEF MayMove, MovedBy
<1>4. CASE \E to \in User, j \in Id : Mint(c, to, j)
  <2>1. PICK to \in User, j \in Id : Mint(c, to, j)
    BY Zenon, <1>4
  <2>2. tok'.owners = WriteToMap(tok.owners, j, to) /\ tok.owners[j] = Zero
    BY <1>1, <2>1 DEF Mint, Flush, Unique
  <2> QED BY Zenon, <1>1, <2>2 DEF WriteToMap
<1>5. CASE \E j \in Id, p \in Prices, v \in Values : BuyWrc721(c, j, p, v)
  <2>1. PICK j \in Id, p \in Prices, v \in Values : BuyWrc721(c, j, p, v)
    BY <1>5
  <2>2. /\ tok'.owners = WriteToMap(tok.owners, j, c) /\ by' = c /\ tok.costs[j] > 0
        /\ native' = Paid(native, c, tok.owners[j], tok.costs[j])
    BY Zenon, <1>1, <2>1 DEF BuyWrc721, Sold, Flush, Unique
  <2>3. j = i /\ tok'.owners[i] = c /\ tok.owners[i] # c
    BY <1>1, <1>2, <2>2, WrittenAddress
  <2> DEFINE o == tok.owners[i]
             d == tok.costs[i]
             m == tok.minter
             fee == Fee(o, d)
  <2>4. fee \in Nat /\ (fee > 0 => m \in User \ {o})
    BY Zenon, <1>1, <1>2, FeeOf
  <2>5. o = m => fee = 0
    BY Zenon DEF Fee
  <2>6. /\ native' \in [User -> Int]
        /\ native'[o] - native[o] = d - fee
        /\ c # m /\ fee > 0 => native'[m] - native[m] = fee
        /\ \A a \in User \ {c, o} : fee = 0 => native'[a] = native[a]
    <3>1. d \in Int
      BY <1>1
    <3>2. native' = Paid(native, c, o, d)
      BY Zenon, <2>2, <2>3
    <3>3. Settles(native', c, o, d, fee)
      BY Zenon, <1>1, <1>2, <2>4, <3>1, <3>2, PaidMoney
    <3> QED BY Zenon, <2>3, <3>3 DEF Settles
  <2> HIDE DEF o, d, m, fee
  <2>7. IF c = m THEN native'[o] - native[o] = d - fee
        ELSE (native'[o] - native[o]) + (IF m = o THEN 0 ELSE native'[m] - native[m]) = d
    BY SMTT(30), <1>1, <1>2, <2>4, <2>5, <2>6 DEF o, d, m
  <2> QED BY Zenon, <2>2, <2>3, <2>7 DEF MovedBy, o, d, m, fee
<1>6. CASE \/ \E s \in User, j \in Id : ApproveWrc721(c, s, j)
           \/ \E j \in Id : burns[c] < W /\ Burn(c, j)
           \/ \E o \in User \ {c}, x \in BOOLEAN : SetApprovalForAll(c, o, x)
           \/ \E j \in Id, p \in Prices : SetPriceWrc721(c, j, p)
  <2>1. tok'.owners = tok.owners
    BY Zenon, <1>1, <1>6 DEF ApproveWrc721, Burn, SetApprovalForAll, SetPriceWrc721, Flush,
                      WriteToMap, Unique
  <2> QED BY <2>1
<1> QED
  BY Zenon, <1>1, <1>3, <1>4, <1>5, <1>6
  DEF Call, CreateWrc20, CreateWrc721, Transfer, TransferFromWrc20, ApproveWrc20,
      SetPriceWrc20, BuyWrc20

\* Nobody's tokens move without their consent or their price, whatever calls of
\* other accounts come between an approval or a price and its use.
THEOREM MovedWithConsentCorrect == TokenSpec => MovedWithConsent
<1>1. TokenInv /\ [TokenNext]_tokenVars => [FungibleConsent /\ UniqueConsent]_tokenVars
  BY FungiblyConsented, UniquelyConsented DEF TokenNext
<1>2. TokenSpec => [][FungibleConsent /\ UniqueConsent]_tokenVars
  BY <1>1, TokenStart, TokenNextInv, PTL DEF TokenSpec
<1> QED BY <1>2, PTL DEF MovedWithConsent, FungibleConsent, UniqueConsent
=============================================================================
