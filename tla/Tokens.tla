------------------------------- MODULE Tokens -------------------------------
(***************************************************************************)
(* The token processor (token/processor.go): a WRC-20 or a WRC-721 token   *)
(* kept in the storage of its address, and the nine operations that        *)
(* Processor.Call carries out on it.  Tokens share nothing but the native  *)
(* balances of the accounts, so the model follows one token.               *)
(*                                                                         *)
(* A call that returns an error is reverted to the snapshot Call takes     *)
(* and its buffered slots are never flushed: it changes nothing here (the  *)
(* caller's nonce and the gas belong to Execution).  An action below is a  *)
(* call that succeeds; its guard is the conjunction of the tests that      *)
(* would have returned an error.                                           *)
(***************************************************************************)
EXTENDS Integers, Sums

CONSTANTS
    User,       \* addresses of accounts
    Zero,       \* the zero address
    Id,         \* token ids of a WRC-721 token
    W,          \* 2^256: the modulus of uint256.Int
    Supplies,   \* total supplies a WRC-20 token may be created with
    Fees,       \* percentFee of a created WRC-721 token (a uint8, not checked)
    Quantities, \* amounts of transfers and approvals
    Prices,     \* prices set, 0 meaning not for sale
    Values,     \* the value a buy transaction carries
    Purses      \* native balances at the start

VARIABLES
    tok,        \* the token's storage, NoToken before it is created
    native,     \* native balances
    by,         \* the caller of the last successful call
    burns,      \* history: how many burns an account has made
    burnt       \* history: the ids burnt since they were last minted

tokenVars == <<tok, native, by, burns, burnt>>

Holder == User \cup {Zero}

NoToken == [std |-> "none"]

EmptyValue == "empty"

ASSUME TokenAssumption ==
    /\ IsFiniteSet(User) /\ IsFiniteSet(Id)
    /\ Zero \notin User /\ EmptyValue \notin Holder
    /\ W \in Nat \ {0, 1}
    /\ UNION {Supplies, Fees, Quantities, Prices, Values} \subseteq Nat
    /\ Purses \in [User -> Nat]

-----------------------------------------------------------------------------
(* The storage fields (newFieldsDescriptors).  WriteField on a map hands    *)
(* the encoded value to ByteMap.Put and StorageStream.WriteAt, which copies *)
(* as many bytes as the value has: an empty value leaves the slot alone.    *)

WriteToMap(m, k, v) == IF v = EmptyValue THEN m ELSE [m EXCEPT ![k] = v]

Wrc20(c, supply) ==
    [std |-> "wrc20", creator |-> c, totalSupply |-> supply, cost |-> 0,
     balances |-> [a \in Holder |-> IF a = c THEN supply ELSE 0],
     allowances |-> [p \in User \X User |-> 0]]

Wrc721(c, fee) ==
    [std |-> "wrc721", minter |-> c, percentFee |-> fee,
     balances |-> [a \in Holder |-> 0],
     owners |-> [i \in Id |-> Zero],
     tokenApprovals |-> [i \in Id |-> Zero],
     operatorApprovals |-> [p \in User \X User |-> FALSE],
     costs |-> [i \in Id |-> 0]]

\* transfer: the sender's balance is written before the receiver's is read,
\* so a transfer to oneself changes nothing
Debited(b, from, v) == [b EXCEPT ![from] = @ - v]

CanTransfer(b, from, to, v) ==
    /\ b[from] >= v
    /\ Debited(b, from, v)[to] + v < W

TransferredStale(b, from, to, v) ==
    [b EXCEPT ![from] = @ - v, ![to] = b[to] + v]

Transferred(b, from, to, v) == [Debited(b, from, v) EXCEPT ![to] = @ + v]

-----------------------------------------------------------------------------

TokenInit ==
    /\ tok = NoToken
    /\ native = Purses
    /\ by = Zero
    /\ burns = [a \in User |-> 0]
    /\ burnt = {}

\* What Call leaves behind when the operation of c succeeds
Flush(c, t) == tok' = t /\ by' = c

CreateWrc20(c, supply) ==
    /\ tok = NoToken
    /\ supply < W
    /\ Flush(c, Wrc20(c, supply))
    /\ UNCHANGED <<native, burns, burnt>>

CreateWrc721(c, fee) ==
    /\ tok = NoToken
    /\ Flush(c, Wrc721(c, fee))
    /\ UNCHANGED <<native, burns, burnt>>

Transfer(c, to, v) ==
    /\ tok.std = "wrc20"
    /\ CanTransfer(tok.balances, c, to, v)
    /\ Flush(c, [tok EXCEPT !.balances = Transferred(@, c, to, v)])
    /\ UNCHANGED <<native, burns, burnt>>

\* wrc20SpendAllowance
Spent(al, owner, spender, v) == [al EXCEPT ![<<owner, spender>>] = @ - v]

TransferFromWrc20(c, from, to, v) ==
    /\ tok.std = "wrc20"
    /\ tok.allowances[<<from, c>>] >= v
    /\ CanTransfer(tok.balances, from, to, v)
    /\ Flush(c, [tok EXCEPT !.allowances = Spent(@, from, c, v),
                            !.balances = Transferred(@, from, to, v)])
    /\ UNCHANGED <<native, burns, burnt>>

MayMoveOwned(c, i) ==
    LET owner == tok.owners[i]
    IN  \/ owner = c
        \/ tok.tokenApprovals[i] = c
        \/ tok.operatorApprovals[<<c, owner>>]

MayMove(c, i) ==
    LET owner == tok.owners[i]
    IN  \/ owner = c
        \/ tok.tokenApprovals[i] = c
        \/ tok.operatorApprovals[<<owner, c>>]

\* wrc721TransferFrom: the price the old owner set is kept
TransferFromWrc721(c, from, to, i) ==
    /\ tok.std = "wrc721"
    /\ tok.owners[i] # Zero
    /\ MayMove(c, i)
    /\ to # Zero
    /\ from = tok.owners[i]
    /\ CanTransfer(tok.balances, from, to, 1)
    /\ Flush(c, [tok EXCEPT !.tokenApprovals = WriteToMap(@, i, Zero),
                            !.balances = Transferred(@, from, to, 1),
                            !.owners = WriteToMap(@, i, to)])
    /\ UNCHANGED <<native, burns, burnt>>

ApproveWrc20(c, spender, v) ==
    /\ tok.std = "wrc20"
    /\ v < W
    /\ Flush(c, [tok EXCEPT !.allowances[<<c, spender>>] = v])
    /\ UNCHANGED <<native, burns, burnt>>

\* wrc721Approve: an approved address may not pass its approval on
MayApprove(c, i) ==
    LET owner == tok.owners[i]
    IN  owner = c \/ tok.operatorApprovals[<<owner, c>>]

ApproveWrc721(c, spender, i) ==
    /\ tok.std = "wrc721"
    /\ tok.owners[i] # Zero
    /\ MayApprove(c, i)
    /\ Flush(c, [tok EXCEPT !.tokenApprovals = WriteToMap(@, i, spender)])
    /\ UNCHANGED <<native, burns, burnt>>

Mint(c, to, i) ==
    /\ tok.std = "wrc721"
    /\ c = tok.minter
    /\ tok.owners[i] = Zero
    /\ tok.balances[to] + 1 < W
    /\ Flush(c, [tok EXCEPT !.balances[to] = @ + 1,
                            !.owners = WriteToMap(@, i, to)])
    /\ burnt' = burnt \ {i}
    /\ UNCHANGED <<native, burns>>

\* burn: uint256.FromBig takes -1 for 2^256 - 1 and reports no overflow; the
\* empty value written to Owners leaves the owner in its slot
Burn(c, i) ==
    /\ tok.std = "wrc721"
    /\ c = tok.minter
    /\ tok.owners[i] = c
    /\ Flush(c, [tok EXCEPT !.balances[c] = (@ - 1) % W,
                            !.owners = WriteToMap(@, i, EmptyValue)])
    /\ burns' = [burns EXCEPT ![c] = @ + 1]
    /\ burnt' = burnt \cup {i}
    /\ UNCHANGED <<native>>

SetApprovalForAll(c, operator, approved) ==
    /\ tok.std = "wrc721"
    /\ Flush(c, [tok EXCEPT !.operatorApprovals[<<c, operator>>] = approved])
    /\ UNCHANGED <<native, burns, burnt>>

SetPriceWrc20(c, price) ==
    /\ tok.std = "wrc20"
    /\ price < W
    /\ c = tok.creator
    /\ Flush(c, [tok EXCEPT !.cost = price])
    /\ UNCHANGED <<native, burns, burnt>>

SetPriceWrc721(c, i, price) ==
    /\ tok.std = "wrc721"
    /\ price < W
    /\ tok.owners[i] = c
    /\ Flush(c, [tok EXCEPT !.costs[i] = price])
    /\ UNCHANGED <<native, burns, burnt>>

CanPay(c, v) == native[c] >= v

\* makePayment: the minter's share of a resale, then the rest to the owner
Fee(owner, v) ==
    IF tok.std = "wrc721" /\ tok.percentFee > 0 /\ owner # tok.minter
    THEN (tok.percentFee * v) \div 100 ELSE 0

Paid(b, c, owner, v) ==
    LET fee == Fee(owner, v)
        Move(m, to, n) == [[m EXCEPT ![c] = @ - n] EXCEPT ![to] = @ + n]
    IN  Move(IF fee > 0 THEN Move(b, tok.minter, fee) ELSE b, owner, v - fee)

\* buy of WRC-20 tokens: whole tokens only, the remainder stays with the buyer
Payment(v) == v - (v % tok.cost)

BuyWrc20(c, v) ==
    /\ tok.std = "wrc20"
    /\ tok.cost > 0
    /\ tok.cost <= v
    /\ LET from == tok.creator
           n == (v - (v % tok.cost)) \div tok.cost
       IN  /\ CanTransfer(tok.balances, from, c, n)
           /\ CanPay(c, Payment(v))
           /\ native' = Paid(native, c, from, Payment(v))
           /\ Flush(c, [tok EXCEPT !.balances = Transferred(@, from, c, n)])
    /\ UNCHANGED <<burns, burnt>>

\* What a sale of i to c for newCost writes besides the balances
Sold(i, c, newCost) ==
    [tok EXCEPT !.owners = WriteToMap(@, i, c),
                !.tokenApprovals = WriteToMap(@, i, Zero),
                !.costs[i] = newCost]

BuyWrc721(c, i, newCost, v) ==
    /\ tok.std = "wrc721"
    /\ tok.owners[i] # Zero
    /\ tok.costs[i] > 0
    /\ tok.costs[i] <= v
    /\ newCost < W
    /\ LET from == tok.owners[i]
       IN  /\ CanTransfer(tok.balances, from, c, 1)
           /\ CanPay(c, tok.costs[i])
           /\ native' = Paid(native, c, from, tok.costs[i])
           /\ Flush(c, [Sold(i, c, newCost) EXCEPT
                            !.balances = Transferred(@, from, c, 1)])
    /\ UNCHANGED <<burns, burnt>>

\* Processor.Call by c
Call(c) ==
    \/ \E s \in Supplies : CreateWrc20(c, s)
    \/ \E f \in Fees : CreateWrc721(c, f)
    \/ \E to \in User, v \in Quantities : Transfer(c, to, v)
    \/ \E from \in User, to \in Holder, v \in Quantities :
          TransferFromWrc20(c, from, to, v)
    \/ \E from \in User, to \in Holder, i \in Id :
          TransferFromWrc721(c, from, to, i)
    \/ \E s \in User, v \in Quantities : ApproveWrc20(c, s, v)
    \/ \E s \in User, i \in Id : ApproveWrc721(c, s, i)
    \/ \E to \in User, i \in Id : Mint(c, to, i)
    \/ \E i \in Id : burns[c] < W /\ Burn(c, i)
    \/ \E o \in User \ {c}, b \in BOOLEAN : SetApprovalForAll(c, o, b)
    \/ \E p \in Prices : SetPriceWrc20(c, p)
    \/ \E i \in Id, p \in Prices : SetPriceWrc721(c, i, p)
    \/ \E v \in Values : BuyWrc20(c, v)
    \/ \E i \in Id, p \in Prices, v \in Values : BuyWrc721(c, i, p, v)

\* an account with a negative balance cannot be encoded (rlp): the commit of
\* the block's state returns the error updateStateObject met
Encodable == \A a \in User : native[a] >= 0

TokenNext == Encodable /\ \E c \in User : Call(c)

TokenSpec == TokenInit /\ [][TokenNext]_tokenVars

-----------------------------------------------------------------------------

(* Storage has the types of its field descriptors: every uint256 is below  *)
(* 2^256 whatever the arithmetic in between, and owners are addresses.     *)
TokenTypeOK ==
    /\ by \in Holder
    /\ native \in [User -> Int]
    /\ tok.std = "none" \/ tok.balances \in [Holder -> 0 .. W - 1]
    /\ tok.std = "wrc20" =>
          /\ tok.creator \in User
          /\ tok.totalSupply \in 0 .. W - 1
          /\ tok.cost \in 0 .. W - 1
          /\ tok.allowances \in [User \X User -> 0 .. W - 1]
    /\ tok.std = "wrc721" =>
          /\ tok.minter \in User
          /\ tok.owners \in [Id -> Holder]
          /\ tok.tokenApprovals \in [Id -> Holder]
          /\ tok.operatorApprovals \in [User \X User -> BOOLEAN]
          /\ tok.costs \in [Id -> 0 .. W - 1]

(* Tokens and money are conserved.  The balances of a WRC-20 token add up  *)
(* to its supply through transfers (to oneself included), allowances and   *)
(* sales.  The balance of a WRC-721 account counts the ids recorded as its *)
(* own less the burns it made, modulo 2^256 (a burn leaves the record of   *)
(* the owner).  A sale only moves money between buyer, owner and minter.   *)
TokensConserved ==
    /\ tok.std = "wrc20" => SumOf(tok.balances) = tok.totalSupply
    /\ tok.std = "wrc721" =>
          \A a \in User : tok.balances[a] =
              (Cardinality({i \in Id : tok.owners[i] = a}) - burns[a]) % W
    /\ NetOf(native) = NetOf(Purses)

(* WRC-20 tokens leave an account in a call of its own, for an allowance   *)
(* it gave the caller that shrinks by as much, or in a sale at the         *)
(* creator's price paid in full.                                           *)
SpentBy(a, c, gone) ==
    \/ c = a
    \/ tok.allowances[<<a, c>>] - tok'.allowances[<<a, c>>] = gone
    \/ a = tok.creator /\ tok.cost > 0 /\ native'[a] - native[a] = gone * tok.cost

(* An id changes hands in a call of its owner, of an address approved for  *)
(* it or of an operator the owner chose, or in a sale in which the buyer   *)
(* is charged the price and owner and minter receive all of it.            *)
MovedBy(i, c) ==
    LET o == tok.owners[i]
        got(a) == native'[a] - native[a]
    IN  \/ c \in {o, tok.tokenApprovals[i]}
        \/ tok.operatorApprovals[<<o, c>>]
        \/ /\ tok.costs[i] > 0 /\ tok'.owners[i] = c
           /\ IF c = tok.minter
              THEN got(o) = tok.costs[i] - Fee(o, tok.costs[i])
              ELSE got(o) + (IF tok.minter = o THEN 0 ELSE got(tok.minter))
                     = tok.costs[i]

(* Nobody's tokens move without their consent or their price.              *)
MovedWithConsent ==
    [][/\ tok.std = "wrc20" =>
            \A a \in User : LET gone == tok.balances[a] - tok'.balances[a]
                            IN  gone > 0 => SpentBy(a, by', gone)
       /\ tok.std = "wrc721" =>
            \A i \in Id : tok.owners[i] # Zero /\ tok'.owners[i] # tok.owners[i]
                            => MovedBy(i, by')]_tokenVars

(* A burnt id has no owner until it is minted again.                       *)
BurntUnowned ==
    tok.std = "wrc721" => \A i \in burnt : tok.owners[i] = Zero
=============================================================================
