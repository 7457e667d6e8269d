------------------------------- MODULE MCState -------------------------------
(***************************************************************************)
(* Transactions, the state and its storage: parts of which one is active   *)
(* in a behaviour.  The parts share no state; the others stay in their     *)
(* initial state.  Execution and Tokens have their own variables.          *)
(***************************************************************************)
EXTENDS Execution, Tokens, TLC

VARIABLES
  active,   \* the part of this behaviour
  \* StateDB
  snap, obj, journal, revisions, pendingObjs, destructs, trie, flat, saved,
  \* Freezer
  config, fin, kv, tab, frozen, todo, faults,
  \* TxPool
  qConfig, pool, gasPrice, qJournal, chain, events, request, run, adds

-----------------------------------------------------------------------------
(* Tokens: two users and one id, numbers of two bits; fees of none, half    *)
(* and twice the price.                                                     *)

UserPurses == [a \in User |-> IF a = "a" THEN 2 ELSE 5]

-----------------------------------------------------------------------------
(* Execution: two senders, two transactions with the same nonce, and one    *)
(* of every kind; the creator of the blocks is a third account.             *)

TxOf(k, f, n, g, c, tp, v, to, i) ==
  [kind |-> k, from |-> f, nonce |-> n, gas |-> g, cap |-> c, tip |-> tp,
   value |-> v, to |-> to, intrinsic |-> i, decodes |-> TRUE]

TxData ==
  [t \in Tx |->
     CASE t = "pay"    -> TxOf("transfer", "a", 0, 2, 4, 1, 5, "b", 2)
       [] t = "call"   -> TxOf("call", "a", 0, 8, 4, 2, 1, "b", 3)
       [] t = "create" -> TxOf("tokenCreate", "a", 1, 4, 5, 0, 0, "a", 4)
       [] t = "buy"    -> TxOf("token", "b", 0, 4, 3, 0, 3, "a", 4)
       [] t = "short"  -> TxOf("call", "b", 0, 2, 3, 0, 0, "a", 3)
       [] t = "bad"    -> [TxOf("token", "b", 1, 4, 4, 1, 0, "a", 3)
                              EXCEPT !.decodes = FALSE]]

Purse == [a \in Account |-> IF a = Coinbase THEN 0 ELSE 38]

-----------------------------------------------------------------------------
(* StateDB: one account with one slot, with and without a snapshot.         *)

B == INSTANCE StateDB WITH
  Addr <- {"a"}, Slot <- {1}, MaxBalance <- 1, MaxNonce <- 1, Word <- {0, 1},
  MaxJournal <- 3, MaxRevisions <- 1

-----------------------------------------------------------------------------
(* Freezer: two tables whose files have room for two and three items, with  *)
(* crashes, SetHead and failing writes; and tables of one file that can     *)
(* lose what is not flushed.                                                *)

Tables == {"hash", "body"}

FreezerConfigs ==
  {[size |-> [t \in Tables |-> IF t = "hash" THEN 2 ELSE 3],
    faults |-> {"crash", "setHead", "data", "advance"}],
   [size |-> [t \in Tables |-> 9], faults |-> {"crash", "power"}]}

Z == INSTANCE Freezer WITH
  Table <- Tables, Threshold <- 1, BatchLimit <- 1, MaxNr <- 4, MaxFaults <- 2,
  Configs <- FreezerConfigs

-----------------------------------------------------------------------------
(* TxPool: three transactions of two senders and a replacement of one.      *)

PoolTx(a, n, p) == [from |-> a, nonce |-> n, price |-> p]

A0 == PoolTx("a", 0, 1)
A0Bump == PoolTx("a", 0, 2)
A1 == PoolTx("a", 1, 1)
B0 == PoolTx("b", 0, 1)

\* The pool and the chain, with room for everything.
Chain ==
  [accountSlots |-> 1, globalSlots |-> 4, accountQueue |-> 1, globalQueue |-> 4,
   blocks |-> {<<A0, B0, A1>>, <<A0Bump>>}, balances |-> {2}, locals |-> {FALSE},
   prices |-> {}, adds |-> 3, restarts |-> FALSE, syncing |-> {FALSE}]

\* The same while the node synchronises.
Sync ==
  [Chain EXCEPT !.blocks = {<<A0, B0>>}, !.adds = 2, !.syncing = BOOLEAN]

\* The balances change with a block.
Pay ==
  [Chain EXCEPT !.blocks = {<<B0>>}, !.balances = {1, 2}]

\* The node restarts with blocks that are not finalized.
Again ==
  [Chain EXCEPT !.blocks = {<<A0, B0>>, <<A0Bump>>}, !.adds = 1, !.restarts = TRUE]

\* A pool that is soon full, prices, local transactions and their journal.
Limits ==
  [accountSlots |-> 1, globalSlots |-> 1, accountQueue |-> 1, globalQueue |-> 1,
   blocks |-> {}, balances |-> {1, 2}, locals |-> BOOLEAN,
   prices |-> {1, 2}, adds |-> 5, restarts |-> TRUE, syncing |-> {FALSE}]

PoolConfigs == {Chain, Sync, Pay, Again, Limits}

Q == INSTANCE TxPool WITH
  Accounts <- {"a", "b"}, Txs <- {A0, A0Bump, A1, B0}, PriceBump <- 10,
  PriceLimit <- 1, Configs <- PoolConfigs,
  config <- qConfig, journal <- qJournal

-----------------------------------------------------------------------------
(* One part at a time.                                                      *)

bVars == <<snap, obj, journal, revisions, pendingObjs, destructs, trie, flat, saved>>
zVars == <<config, fin, kv, tab, frozen, todo, faults>>
qVars == <<qConfig, pool, gasPrice, qJournal, chain, events, request, run, adds>>
allVars == <<active, tokenVars, vars, bVars, zVars, qVars>>

\* The initial values of an active part, one of them for a part that is not.
Only(part, values) == IF active = part THEN values ELSE {CHOOSE v \in values : TRUE}

AllInit ==
  /\ active \in {"tokens", "execution", "statedb", "freezer", "pool"}
  /\ TokenInit
  /\ exact \in Only("execution", BOOLEAN) /\ Init
  /\ snap \in Only("statedb", BOOLEAN) /\ B!Init
  /\ config \in Only("freezer", FreezerConfigs) /\ Z!Init
  /\ qConfig \in Only("pool", PoolConfigs) /\ Q!Init

AllNext ==
  \/ active = "tokens" /\ TokenNext /\ UNCHANGED <<active, vars, bVars, zVars, qVars>>
  \/ active = "execution" /\ Next /\ UNCHANGED <<active, tokenVars, bVars, zVars, qVars>>
  \/ active = "statedb" /\ B!Next /\ UNCHANGED <<active, tokenVars, vars, zVars, qVars>>
  \/ active = "freezer" /\ Z!Next /\ UNCHANGED <<active, tokenVars, vars, bVars, qVars>>
  \/ active = "pool" /\ Q!Next /\ UNCHANGED <<active, tokenVars, vars, bVars, zVars>>

AllSpec == AllInit /\ [][AllNext]_allVars

-----------------------------------------------------------------------------
(* The properties of the parts, whose modules explain them; those of        *)
(* Execution and Tokens have the same names there.                          *)

\* The snapshot of a committed state equals its trie.
SnapshotAgrees == B!SnapshotAgrees
\* A StateDB behaves as a plain world of accounts with copies to go back to.
AccountsSpec == B!AccountsSpec

\* A finalized block is in the key-value store or in the tables.
NothingLost == Z!NothingLost

\* A request to promote is not lost when a reset comes with it.
PromotedBeforeReset == Q!PromotedBeforeReset
\* A transaction of an unfinalized block is in processing, not offered again.
DagInProcessing == Q!DagInProcessing
\* Journaled local transactions survive a restart.
LocalsSurvive == Q!LocalsSurvive
=============================================================================
