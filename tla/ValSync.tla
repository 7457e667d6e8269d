------------------------------ MODULE ValSync ------------------------------
(***************************************************************************)
(* The validator operations that the coordinator confirms (activation,     *)
(* deactivation, balance update) and the transactions that carry them out. *)
(*                                                                         *)
(* HandleFinalize hands the confirmed operations to a node, which queues   *)
(* them (notProcValSyncOps).  Every node that creates blocks turns queued  *)
(* operations into transactions of its own, so several transactions may    *)
(* carry one operation.  A node records the transaction of an operation    *)
(* when a block with it is inserted, and again when the block is finalized *)
(* and the transaction has succeeded.  Finalization executes the blocks in *)
(* the same order at every node, whatever the order of their insertion.    *)
(*                                                                         *)
(* A block carries at most one transaction of an operation, and the        *)
(* records of two operations do not meet, so one transaction stands for    *)
(* its block.                                                              *)
(***************************************************************************)
EXTENDS Integers, Sequences, FiniteSets, Functions

CONSTANTS
  Nodes,             \* nodes of the network, each of them a creator
  Ops,               \* operations, by the hash of their initial transaction
  Txs,               \* transactions that carry operations
  NoTx,              \* TxHash = nil
  InitTx,            \* the dummy TxHash: the operation's own InitTxHash
  Confirmed,         \* the epochs that the coordinator gives to an operation
  SlotsPerEpoch,
  ForkSlotDelegate,  \* the first slot of the Delegate fork
  MaxSlot,           \* bound: the clock stops here
  DataFirst,         \* an operation is confirmed at a node before a block
                     \* that carries it is finalized there
  Faults             \* what may go wrong, see AllFaults

AllFaults == {"restart", "tornConfirm", "tornInsert", "evict", "error", "revert",
              "rollback"}

ASSUME ValSyncAssumption ==
  /\ NoTx \notin Txs /\ InitTx \notin Txs /\ NoTx # InitTx
  /\ Confirmed \in [Ops -> SUBSET Nat]
  /\ SlotsPerEpoch \in Nat \ {0}
  /\ ForkSlotDelegate \in Nat /\ MaxSlot \in Nat
  /\ DataFirst \in BOOLEAN /\ Faults \subseteq AllFaults

VARIABLES
  slot,    \* the clock
  store,   \* the operations as each node has them, see IsStore
  block,   \* the blocks made so far, by the transaction in them
  draft,   \* the block a node has made and not yet inserted
  seen,    \* the blocks each node has inserted
  chain,   \* the order in which the blocks are finalized
  fate,    \* what executing each ordered transaction comes to
  done,    \* how far along the chain each node is
  res      \* the receipts each node has stored

net  == <<block, chain, fate>>
vars == <<slot, store, net, draft, seen, done, res>>

Entry == [epoch : Nat, tx : Txs \cup {NoTx, InitTx}]

\* f maps some of the operations to entries.
IsTable(f) == DOMAIN f \subseteq Ops /\ \A o \in DOMAIN f : f[o] \in Entry

(***************************************************************************)
(* What a node knows of the operations:                                    *)
(*   queue  notProcValSyncOps, in memory                                   *)
(*   cache  valSyncCache, in memory                                        *)
(*   rec    the records of WriteValidatorSync, in the database             *)
(*   list   the keys of WriteNotProcessedValidatorSyncOps, in the database *)
(***************************************************************************)
IsStore(s) ==
  /\ DOMAIN s = {"queue", "cache", "rec", "list"}
  /\ IsTable(s.queue) /\ IsTable(s.cache) /\ IsTable(s.rec)
  /\ s.list \subseteq Ops

Empty == [o \in {} |-> [epoch |-> 0, tx |-> NoTx]]

Put(f, o, v)  == [x \in DOMAIN f \cup {o} |-> IF x = o THEN v ELSE f[x]]
Without(f, S) == Restrict(f, DOMAIN f \ S)
Update(f, g)  ==
  [x \in DOMAIN f \cup DOMAIN g |-> IF x \in DOMAIN g THEN g[x] ELSE f[x]]

Epoch(sl)            == sl \div SlotsPerEpoch
IsForkSlotDelegate(sl) == sl >= ForkSlotDelegate

-----------------------------------------------------------------------------
(* The store of one node.                                                   *)

\* GetValidatorSyncData finds an operation in the cache or in the database.
HasSaved(s, o) == o \in DOMAIN s.cache \cup DOMAIN s.rec
Saved(s, o)    == IF o \in DOMAIN s.cache THEN s.cache[o] ELSE s.rec[o]

\* GetValidatorSyncData leaves what it finds in the cache.
Looked(s, O) ==
  [s EXCEPT !.cache = Update([o \in O \cap DOMAIN s.rec |-> s.rec[o]], @)]

\* WriteNotProcessedValidatorSyncOps: each record, then the list of keys.
SaveQueue(s) ==
  [s EXCEPT !.rec = Update(@, s.queue), !.list = DOMAIN s.queue]

SetValidatorSyncData(s, o, vs) ==
  LET s1 == [s EXCEPT !.cache = Put(@, o, vs), !.rec = Put(@, o, vs)]
  IN  IF vs.tx # NoTx /\ o \in DOMAIN s.queue
      THEN SaveQueue([s1 EXCEPT !.queue = Without(@, {o})])
      ELSE s1

\* The operations of the data that the queue lacks, or has for a later epoch.
Unqueued(s, data) ==
  {o \in DOMAIN data :
     o \notin DOMAIN s.queue \/ s.queue[o].epoch > data[o]}

\* Those of them that AppendNotProcessedValidatorSyncData takes.
Accepted(s, data) ==
  {o \in Unqueued(s, data) :
     HasSaved(s, o) => Saved(s, o).epoch > data[o] /\ Saved(s, o).tx # NoTx}

\* "rm handled operations"
Handled(s, data) ==
  {o \in DOMAIN s.queue \ (DOMAIN data) : s.queue[o].tx # NoTx}

\* The queue it leaves, before it is saved.
Queued(s, data) ==
  LET new == [o \in Accepted(s, data) |-> [epoch |-> data[o], tx |-> NoTx]]
      q   == Update(s.queue, new)
  IN  [Looked(s, Unqueued(s, data)) EXCEPT
         !.queue = Without(q, Handled(s, data))]

AppendNotProcessedValidatorSyncData(s, data) ==
  IF Accepted(s, data) \cup Handled(s, data) = {}
  THEN Queued(s, data)
  ELSE SaveQueue(Queued(s, data))

\* NewBlockChain reads the queue that the database lists.
Reloaded(s) ==
  [s EXCEPT !.queue = [o \in s.list \cap DOMAIN s.rec |-> s.rec[o]],
            !.cache = Empty]

-----------------------------------------------------------------------------
(* Which operations a node may turn into transactions.                      *)

\* A queued operation of which the node knows no transaction.
Waiting(s) ==
  {o \in DOMAIN s.queue :
     s.queue[o].tx = NoTx /\ (HasSaved(s, o) => Saved(s, o).tx = NoTx)}

\* The stale operations: an epoch is compared with the slot of the fork.
Stale(s) ==
  {o \in Waiting(s) : /\ IsForkSlotDelegate(slot)
                      /\ s.queue[o].epoch < Epoch(slot)
                      /\ s.queue[o].epoch < ForkSlotDelegate}

\* Only the operations of the current epoch, as before the fork.
PendingOnlyNow(s) == {o \in Waiting(s) : s.queue[o].epoch = Epoch(slot)}

Pending(s) ==
  {o \in Waiting(s) \ Stale(s) :
     \/ s.queue[o].epoch = Epoch(slot)
     \/ IsForkSlotDelegate(slot) /\ s.queue[o].epoch < Epoch(slot)}

\* GetPendingValidatorSyncData also takes the stale operations off the queue.
DropStale(s) ==
  LET s1    == Looked(s, {o \in DOMAIN s.queue : s.queue[o].tx = NoTx})
      stale == [o \in Stale(s) |-> [s.queue[o] EXCEPT !.tx = InitTx]]
  IN  IF Stale(s) = {} THEN s1
      ELSE SaveQueue([s1 EXCEPT !.cache = Update(@, stale),
                                !.rec = Update(@, stale),
                                !.queue = Without(@, Stale(s))])

-----------------------------------------------------------------------------
(* Validation of a transaction, at insertion and at execution.              *)

\* GetTransactionReceipt; the initial transaction has succeeded long before.
Successful(n, tx) == tx = InitTx \/ (tx \in Txs /\ res[n][tx] = "ok")

\* Any transaction of a known operation is valid.
ValidateIgnoresReceipt(n, t) == HasSaved(store[n], block[t].op)

\* Only the transaction on record is valid, as before the fork.
ValidateFirstTxOnly(n, t) ==
  LET s == store[n] o == block[t].op
  IN  HasSaved(s, o) /\ Saved(s, o).tx \in {NoTx, t}

\* ValidateValidatorSyncOp and CompareValSync.
ValidateValidatorSyncOp(n, t) ==
  LET s    == store[n]
      b    == block[t]
      fork == IsForkSlotDelegate(b.slot)
  IN  /\ HasSaved(s, b.op)
      /\ fork \/ (Epoch(b.slot) <= b.epoch /\ Saved(s, b.op).epoch <= b.epoch)
      /\ \/ Saved(s, b.op).tx \in {NoTx, t}
         \/ fork /\ ~Successful(n, Saved(s, b.op).tx)

\* RestoreValidatorSyncOp finds another transaction in the record, one that
\* has not succeeded.
HasOtherTx(n, t) ==
  LET s == store[n] o == block[t].op
  IN  Saved(s, o).tx \notin {NoTx, t} /\ ~Successful(n, Saved(s, o).tx)

\* It then writes through the queue's pointer, which is nil if there is no
\* entry.
RestorePanics(n, t) ==
  LET o == block[t].op
  IN  /\ IsForkSlotDelegate(block[t].slot) /\ HasSaved(store[n], o)
      /\ HasOtherTx(n, t) /\ o \notin DOMAIN store[n].queue

RestoreValidatorSyncOp(n, t) ==
  LET o     == block[t].op
      s     == Looked(store[n], {o})
      other == HasOtherTx(n, t)
      clear == \/ o \in DOMAIN s.queue /\ other
               \/ o \in DOMAIN s.queue /\ s.queue[o].tx = t
      reset == [s EXCEPT !.cache[o].tx = NoTx,
                         !.queue = IF clear THEN [@ EXCEPT ![o].tx = NoTx] ELSE @]
  IN  IF ~IsForkSlotDelegate(block[t].slot) THEN store[n]
      ELSE IF ~HasSaved(s, o) THEN s
      ELSE IF Saved(s, o).tx \notin {NoTx, t} /\ ~other THEN s
      ELSE AppendNotProcessedValidatorSyncData(
             reset, [x \in {o} |-> Saved(s, o).epoch])

-----------------------------------------------------------------------------
Init ==
  /\ slot = 0
  /\ store = [n \in Nodes |-> [queue |-> Empty, cache |-> Empty,
                               rec |-> Empty, list |-> {}]]
  /\ block = [t \in {} |-> 0]
  /\ draft = [n \in Nodes |-> NoTx]
  /\ seen = [n \in Nodes |-> {}]
  /\ chain = <<>>
  /\ fate = [t \in Txs |-> "none"]
  /\ done = [n \in Nodes |-> 0]
  /\ res = [n \in Nodes |-> [t \in Txs |-> "none"]]

Tick ==
  /\ slot < MaxSlot
  /\ slot' = slot + 1
  /\ UNCHANGED <<store, net, draft, seen, done, res>>

\* The validator data of one call: operations with a confirmed epoch each.
SyncData ==
  UNION {{d \in [D -> UNION {Confirmed[o] : o \in D}] :
            \A o \in D : d[o] \in Confirmed[o]} : D \in SUBSET Ops}

\* The last part of HandleFinalize, for the validator data of the call.
Confirm(n, data) ==
  /\ store' = [store EXCEPT
                 ![n] = AppendNotProcessedValidatorSyncData(@, data)]
  /\ UNCHANGED <<slot, net, draft, seen, done, res>>

(***************************************************************************)
(* createNewBlock takes the pending operations and makes the transaction   *)
(* of one of them.  The block is inserted later, see Insert: between the   *)
(* two the node may insert blocks of others.  The creation of a            *)
(* transaction can be refused (ValidateCreateTxValidatorSyncOp), and then  *)
(* only the stale operations are dropped.                                  *)
(***************************************************************************)
CreateBlock(n, o, t) ==
  /\ draft[n] = NoTx /\ t \notin DOMAIN block
  /\ o \in Pending(store[n])
  /\ draft' = [draft EXCEPT ![n] = t]
  /\ block' = [x \in DOMAIN block \cup {t} |->
                 IF x = t THEN [op |-> o, epoch |-> store[n].queue[o].epoch,
                                slot |-> slot, by |-> n]
                 ELSE block[x]]
  /\ store' = [store EXCEPT ![n] = DropStale(@)]
  /\ UNCHANGED <<slot, chain, fate, seen, done, res>>

CreateNothing(n) ==
  /\ draft[n] = NoTx
  /\ store' = [store EXCEPT ![n] = DropStale(@)]
  /\ UNCHANGED <<slot, net, draft, seen, done, res>>

\* The record that a block leaves of its operation.
TxEntry(t) == [epoch |-> block[t].epoch, tx |-> t]

\* The creator inserts its block and broadcasts it; the others follow.
Arrives(n, t) ==
  /\ t \in DOMAIN block \ seen[n]
  /\ draft[n] = t \/ t \in seen[block[t].by]

\* MoveTxsToProcessing at the end of insertBlocks.
HandleBlockValidatorSyncTxs(n, t) ==
  IF ValidateValidatorSyncOp(n, t)
  THEN SetValidatorSyncData(store[n], block[t].op, TxEntry(t))
  ELSE Looked(store[n], {block[t].op})

Insert(n, t) ==
  /\ Arrives(n, t)
  /\ store' = [store EXCEPT ![n] = HandleBlockValidatorSyncTxs(n, t)]
  /\ seen' = [seen EXCEPT ![n] = @ \cup {t}]
  /\ draft' = [draft EXCEPT ![n] = IF @ = t THEN NoTx ELSE @]
  /\ UNCHANGED <<slot, net, done, res>>

\* The coordinators agree on the next block of the chain.  The nonce and the
\* gas of a transaction and the state it meets depend on the chain alone.
Order(t, f) ==
  /\ \E n \in Nodes : t \in seen[n]
  /\ t \notin Range(chain)
  /\ chain' = Append(chain, t)
  /\ fate' = [fate EXCEPT ![t] = f]
  /\ UNCHANGED <<slot, store, block, draft, seen, done, res>>

Fates == {"apply"} \cup (Faults \cap {"error", "revert"})

\* The receipt of t: an error of the nonce or of the gas comes before the
\* validator processor is called.
Outcome(n, t) ==
  CASE fate[t] = "error" -> "error"
    [] fate[t] = "revert" -> "failed"
    [] OTHER -> IF ValidateValidatorSyncOp(n, t) THEN "ok" ELSE "failed"

\* handleBlockValidatorSyncReceipts records the transactions that succeeded.
AfterCommit(n, t) ==
  LET s == Looked(store[n], {block[t].op})
  IN  CASE Outcome(n, t) = "error" -> RestoreValidatorSyncOp(n, t)
        [] Outcome(n, t) = "ok" ->
             SetValidatorSyncData(s, block[t].op, TxEntry(t))
        [] OTHER -> s

\* CommitBlockTransactions for the next block of the chain.
Commit(n) ==
  /\ done[n] < Len(chain)
  /\ LET t == chain[done[n] + 1]
     IN  /\ t \in seen[n]
         /\ DataFirst => HasSaved(store[n], block[t].op)
         /\ ~(fate[t] = "error" /\ RestorePanics(n, t))
         /\ res' = [res EXCEPT ![n][t] = Outcome(n, t)]
         /\ store' = [store EXCEPT ![n] = AfterCommit(n, t)]
  /\ done' = [done EXCEPT ![n] = @ + 1]
  /\ UNCHANGED <<slot, net, draft, seen>>

\* rollbackBlockFinalization deletes the receipts of the last block; the
\* records of the operations stay.
Rollback(n) ==
  /\ "rollback" \in Faults
  /\ done[n] > 0
  /\ done' = [done EXCEPT ![n] = @ - 1]
  /\ res' = [res EXCEPT ![n][chain[done[n]]] = "none"]
  /\ UNCHANGED <<slot, store, net, draft, seen>>

\* The coordinators drop a block that no node has finalized any more.
Reorg ==
  /\ "rollback" \in Faults
  /\ chain # <<>> /\ \A n \in Nodes : done[n] < Len(chain)
  /\ chain' = SubSeq(chain, 1, Len(chain) - 1)
  /\ fate' = [fate EXCEPT ![chain[Len(chain)]] = "none"]
  /\ UNCHANGED <<slot, store, block, draft, seen, done, res>>

-----------------------------------------------------------------------------
(* Faults of a node.                                                        *)

\* A restart loses the memory of the node and the block it was making.
\* After a panic in RestoreValidatorSyncOp this is the only step of the node.
RestartWith(n, s, S) ==
  /\ store' = [store EXCEPT ![n] = Reloaded(s)]
  /\ seen' = [seen EXCEPT ![n] = S]
  /\ draft' = [draft EXCEPT ![n] = NoTx]
  /\ block' = Restrict(block, DOMAIN block \ ({draft[n]} \ S))
  /\ UNCHANGED <<slot, chain, fate, done, res>>

Restart(n) == "restart" \in Faults /\ RestartWith(n, store[n], seen[n])

\* The node stops inside AppendNotProcessedValidatorSyncData, with some of
\* the records written and the list not.
TornConfirm(n, data, W) ==
  LET s == Queued(store[n], data)
  IN  /\ "tornConfirm" \in Faults
      /\ Accepted(store[n], data) \cup Handled(store[n], data) # {}
      /\ W \subseteq DOMAIN s.queue
      /\ RestartWith(n, [store[n] EXCEPT !.rec = Update(@, Restrict(s.queue, W))],
                     seen[n])

\* The node stops after it has written the block: before its transactions are
\* handled, or inside SetValidatorSyncData, with the record of the operation
\* written and the queue not.
TornInsert(n, t) ==
  /\ "tornInsert" \in Faults
  /\ Arrives(n, t)
  /\ \/ RestartWith(n, store[n], seen[n] \cup {t})
     \/ /\ ValidateValidatorSyncOp(n, t)
        /\ RestartWith(n, [store[n] EXCEPT
                             !.rec = Put(@, block[t].op, TxEntry(t))],
                       seen[n] \cup {t})

\* The cache keeps the 128 entries used last.
Evict(n, o) ==
  /\ "evict" \in Faults
  /\ o \in DOMAIN store[n].cache
  /\ store' = [store EXCEPT ![n].cache = Without(@, {o})]
  /\ UNCHANGED <<slot, net, draft, seen, done, res>>

Node(n) ==
  \/ \E data \in SyncData : Confirm(n, data)
  \/ \E o \in Ops, t \in Txs : CreateBlock(n, o, t)
  \/ CreateNothing(n)
  \/ \E t \in Txs : Insert(n, t)
  \/ Commit(n)
  \/ Rollback(n)
  \/ Restart(n)
  \/ \E data \in SyncData, W \in SUBSET Ops : TornConfirm(n, data, W)
  \/ \E t \in Txs : TornInsert(n, t)
  \/ \E o \in Ops : Evict(n, o)

Next ==
  \/ Tick
  \/ \E t \in Txs, f \in Fates : Order(t, f)
  \/ Reorg
  \/ \E n \in Nodes : Node(n)

Spec == Init /\ [][Next]_vars

(***************************************************************************)
(* The clock runs; a node that may create a block does, every slot has     *)
(* creators; blocks reach every node; the coordinators order every block,  *)
(* confirm every operation and have the nodes finalize the chain.          *)
(***************************************************************************)
Fairness ==
  /\ WF_vars(Tick)
  /\ \A t \in Txs : WF_vars(\E f \in Fates : Order(t, f))
  /\ \A n \in Nodes :
       /\ WF_vars(\E d \in SyncData : DOMAIN d = Ops /\ Confirm(n, d))
       /\ \A o \in Ops : WF_vars(\E t \in Txs : CreateBlock(n, o, t))
       /\ \A t \in Txs : WF_vars(Insert(n, t))
       /\ WF_vars(Commit(n))

FairSpec == Spec /\ Fairness

-----------------------------------------------------------------------------
(***************************************************************************)
(* Types: the records name known operations and transactions, and a node   *)
(* is never further than the chain.                                        *)
(***************************************************************************)
TypeOK ==
  /\ slot \in 0..MaxSlot
  /\ DOMAIN store = Nodes /\ \A n \in Nodes : IsStore(store[n])
  /\ DOMAIN block \subseteq Txs
  /\ \A t \in DOMAIN block :
       block[t] \in [op : Ops, epoch : Nat, slot : 0..MaxSlot, by : Nodes]
  /\ draft \in [Nodes -> Txs \cup {NoTx}]
  /\ seen \in [Nodes -> SUBSET DOMAIN block]
  /\ chain \in Seq(DOMAIN block)
  /\ fate \in [Txs -> {"none", "apply", "error", "revert"}]
  /\ done \in [Nodes -> 0..Len(chain)]
  /\ res \in [Nodes -> [Txs -> {"none", "ok", "failed", "error"}]]

(***************************************************************************)
(* An operation is carried out at most once: of the transactions that      *)
(* carry it, at most one succeeds at a node.  Nothing in the state of the  *)
(* validators stops a second balance update; ValidateValidatorSyncOp must. *)
(***************************************************************************)
AtMostOnce ==
  \A n \in Nodes : \A t, u \in DOMAIN block :
    res[n][t] = "ok" /\ res[n][u] = "ok" /\ block[t].op = block[u].op => t = u

(***************************************************************************)
(* Nodes that have finalized the same block agree on whether its           *)
(* transaction succeeded, although each validates it against its own       *)
(* records, which depend on the order in which blocks reached it.  The     *)
(* state root of the block follows from it.                                *)
(***************************************************************************)
Agreement ==
  \A n, m \in Nodes : \A i \in 1..Len(chain) :
    i <= done[n] /\ i <= done[m] => res[n][chain[i]] = res[m][chain[i]]

(***************************************************************************)
(* A confirmed operation is carried out at every node in the end: after    *)
(* the Delegate fork also when its epoch has passed without a block.       *)
(***************************************************************************)
Done(n, o) == \E t \in DOMAIN block : block[t].op = o /\ res[n][t] = "ok"

OpsCarriedOut ==
  \A o \in Ops : (\E n \in Nodes : HasSaved(store[n], o))
                   ~> (\A n \in Nodes : Done(n, o))

(***************************************************************************)
(* "Skipping transaction with low nonce while commit": a transaction that  *)
(* ends with an error does not keep its block, and the blocks after it,    *)
(* from being executed.                                                    *)
(***************************************************************************)
ChainExecuted ==
  \A n \in Nodes : \A i \in 1..Cardinality(Txs) :
    Len(chain) >= i ~> done[n] >= i

=============================================================================
