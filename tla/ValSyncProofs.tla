--------------------------- MODULE ValSyncProofs ---------------------------
(***************************************************************************)
(* AtMostOnce of ValSync for any number of nodes, operations and           *)
(* transactions, under all of the faults of the model.                     *)
(*                                                                         *)
(* The argument.  A transaction that has succeeded at a node stays on      *)
(* record there, in the database and, if they have the operation, in the   *)
(* cache and in the queue (Recorded), whatever is written over them later. *)
(* So another transaction of the operation is not valid any more.  For a   *)
(* second confirmation not to put the operation back on the queue without  *)
(* its transaction, it must come with the same epoch (OneEpoch).           *)
(***************************************************************************)
EXTENDS ValSyncRecords

LEMMA CreateStep ==
  ASSUME OnceInv, NEW n \in Nodes, NEW o \in Ops, NEW t \in Txs, CreateBlock(n, o, t)
  PROVE  OnceInv'
<1> USE DEF OnceInv
<1> DEFINE r == DropStale(store[n])
<1>1. /\ draft[n] = NoTx /\ t \notin DOMAIN block /\ o \in DOMAIN store[n].queue
      /\ UNCHANGED <<slot, chain, fate, seen, done, res>>
  BY Zenon DEF CreateBlock, Pending, Waiting
<1>2. StoreOK(store[n]) /\ Keeps(store[n], r)
  BY DropStaleKeeps DEF StoresInv
<1>3. /\ DOMAIN store' = Nodes /\ store'[n] = r
      /\ \A m \in Nodes \ {n} : store'[m] = store[m]
  BY Zenon DEF TypeOK, CreateBlock
<1> HIDE DEF r
<1>4. /\ draft' \in [Nodes -> Txs \cup {NoTx}] /\ draft'[n] = t
      /\ \A m \in Nodes \ {n} : draft'[m] = draft[m]
  BY SMTT(30) DEF TypeOK, CreateBlock
<1>5. /\ DOMAIN block' = DOMAIN block \cup {t}
      /\ \A u \in DOMAIN block : block'[u] = block[u]
      /\ block'[t] = [op |-> o, epoch |-> store[n].queue[o].epoch, slot |-> slot, by |-> n]
  BY Zenon, <1>1 DEF CreateBlock
<1>6. store[n].queue[o].epoch \in Nat /\ store[n].queue[o].epoch \in Confirmed[o]
  BY Zenon, <1>1, <1>2, StoreTables DEF Table, IsTable, Entry
<1>7. StoresInv'
  BY <1>2, <1>3 DEF StoresInv, Keeps
<1>8. TypeOK'
  <2>1. \A m \in Nodes : IsStore(store'[m])
    BY Zenon, <1>7, StoreTypes DEF StoresInv
  <2>2. chain' \in Seq(DOMAIN block') /\ seen' \in [Nodes -> SUBSET DOMAIN block']
    BY <1>1, <1>5 DEF TypeOK
  <2>3. /\ DOMAIN block' \subseteq Txs
        /\ \A u \in DOMAIN block' :
             block'[u] \in [op : Ops, epoch : Nat, slot : 0..MaxSlot, by : Nodes]
    BY SMTT(30), <1>5, <1>6 DEF TypeOK
  <2> QED
    BY Zenon, <1>1, <1>3, <1>4, <2>1, <2>2, <2>3 DEF TypeOK
<1>9. BlocksInv'
  <2>1. ASSUME NEW m \in Nodes, draft'[m] # NoTx
        PROVE  /\ draft'[m] \in DOMAIN block' /\ block'[draft'[m]].by = m
               /\ draft'[m] \notin seen[m]
    <3>1. CASE m = n
      BY <1>1, <1>4, <1>5, <3>1 DEF TypeOK
    <3>2. CASE m # n
      BY <1>4, <1>5, <2>1, <3>2 DEF BlocksInv
    <3> QED
      BY <3>1, <3>2
  <2>2. ASSUME NEW m \in Nodes, NEW u \in seen[m]
        PROVE  u \in seen[block'[u].by]
    BY <1>5 DEF BlocksInv, TypeOK
  <2>3. \A u \in DOMAIN block' : block'[u].epoch \in Confirmed[block'[u].op]
    BY <1>5, <1>6 DEF BlocksInv
  <2> QED
    BY Zenon, <1>1, <2>1, <2>2, <2>3 DEF BlocksInv
<1>10. SuccessInv'
  <2> SUFFICES ASSUME NEW m \in Nodes, NEW u \in Txs, res[m][u] = "ok"
               PROVE  u \in seen[m] /\ Recorded(store'[m], block'[u].op, u)
    BY <1>1 DEF SuccessInv
  <2>1. u \in seen[m] /\ Recorded(store[m], block[u].op, u) /\ u \in DOMAIN block
    BY DEF SuccessInv, TypeOK
  <2>2. block'[u] = block[u] /\ block[u].op \in Ops
    BY SMTT(30), <1>5, <2>1, TxEntryOK
  <2> QED
    BY <1>2, <1>3, <2>1, <2>2 DEF Keeps
<1>11. OwnInv'
  <2> SUFFICES ASSUME NEW m \in Nodes, NEW p \in Ops, NEW u \in Txs, Names(store'[m], p, u)
               PROVE  u \in seen[m] /\ block'[u].op = p
    BY <1>1 DEF OwnInv, Own
  <2>1. Names(store[m], p, u)
    BY <1>2, <1>3 DEF Keeps
  <2>2. u \in seen[m] /\ block[u].op = p
    BY <2>1 DEF OwnInv, Own
  <2> QED
    BY Zenon, <1>5, <2>2 DEF TypeOK
<1> QED
  BY <1>7, <1>8, <1>9, <1>10, <1>11

LEMMA CommitStep ==
  ASSUME OneEpoch, OnceInv, NEW n \in Nodes, Commit(n)
  PROVE  OnceInv'
<1> USE DEF OnceInv
<1> DEFINE t == chain[done[n] + 1]
           r == AfterCommit(n, t)
           l == Looked(store[n], {block[t].op})
<1>1. /\ t \in seen[n] /\ t \in DOMAIN block /\ t \in Txs
      /\ done[n] + 1 \in 0..Len(chain)
      /\ UNCHANGED <<slot, net, draft, seen>> /\ UNCHANGED <<block, chain, fate>>
  BY SMTT(30) DEF Commit, net, TypeOK
<1>2. /\ DOMAIN store' = Nodes /\ store'[n] = r
      /\ \A m \in Nodes \ {n} : store'[m] = store[m]
  BY Zenon DEF TypeOK, Commit
<1>3. Outcome(n, t) \in {"ok", "failed", "error"}
  BY DEF Outcome
<1>4. /\ res' \in [Nodes -> [Txs -> {"none", "ok", "failed", "error"}]]
      /\ res'[n][t] = Outcome(n, t)
      /\ \A m \in Nodes, u \in Txs : m # n \/ u # t => res'[m][u] = res[m][u]
  <2>1. res' = [res EXCEPT ![n][t] = Outcome(n, t)]
    BY DEF Commit
  <2> HIDE DEF t
  <2> QED
    BY Zenon, <1>1, <1>3, <2>1 DEF TypeOK
<1>5. done' \in [Nodes -> 0..Len(chain)]
  BY <1>1 DEF Commit, TypeOK
<1>6. StoreOK(store[n]) /\ block[t].op \in Ops /\ Keeps(store[n], l)
  <2>1. StoreOK(store[n]) /\ block[t].op \in Ops
    BY Zenon, <1>1, TxEntryOK DEF StoresInv
  <2> QED
    BY <2>1, LookedKeeps
<1> HIDE DEF t, l
<1>7. /\ StoreOK(r)
      /\ Outcome(n, t) = "ok" => Recorded(r, block[t].op, t)
      /\ \A u \in Txs : u # t /\ res[n][u] = "ok" => Recorded(r, block[u].op, u)
      /\ Own(r, seen[n])
  <2>1. CASE Outcome(n, t) = "ok"
    <3>1. ValidateValidatorSyncOp(n, t)
      BY Zenon, <2>1 DEF Outcome
    <3>2. r = SetValidatorSyncData(l, block[t].op, TxEntry(t))
      BY Zenon, <2>1 DEF AfterCommit, l
    <3>3. seen[n] \cup {t} = seen[n]
      BY Zenon, <1>1
    <3> QED
      BY Zenon, <1>1, <1>6, <3>1, <3>2, <3>3, ValidKeeps
  <2>2. CASE Outcome(n, t) = "error"
    <3>1. r = RestoreValidatorSyncOp(n, t)
      BY SMTT(30), <2>2 DEF AfterCommit
    <3>2. /\ StoreOK(r)
          /\ \A p \in Ops, u \in Txs :
               /\ Recorded(store[n], p, u)
               /\ p = block[t].op => u # t /\ res[n][u] = "ok"
               => Recorded(r, p, u)
          /\ \A p \in Ops, u \in Txs : Names(r, p, u) => Names(store[n], p, u)
      BY <1>6, <3>1, RestoreKeeps
    <3>3. ASSUME NEW u \in Txs, u # t, res[n][u] = "ok"
          PROVE  Recorded(r, block[u].op, u)
      <4>1. u \in DOMAIN block /\ Recorded(store[n], block[u].op, u)
        BY SMTT(30), <3>3 DEF TypeOK, SuccessInv
      <4> QED
        BY Zenon, <3>2, <3>3, <4>1, TxEntryOK
    <3>4. Own(r, seen[n])
      BY SMTT(30), <3>2 DEF OwnInv, Own
    <3> QED
      BY Zenon, <2>2, <3>2, <3>3, <3>4
  <2>3. CASE Outcome(n, t) = "failed"
    <3>1. r = l
      BY <2>3 DEF AfterCommit, l
    <3>2. ASSUME NEW u \in Txs, res[n][u] = "ok" PROVE Recorded(r, block[u].op, u)
      <4>1. u \in DOMAIN block /\ Recorded(store[n], block[u].op, u)
        BY SMTT(30), <3>2 DEF TypeOK, SuccessInv
      <4> QED
        BY Zenon, <1>6, <3>1, <4>1, TxEntryOK DEF Keeps
    <3>3. Own(r, seen[n])
      BY Zenon, <1>6, <3>1 DEF Keeps, OwnInv, Own
    <3> QED
      BY Zenon, <1>6, <2>3, <3>1, <3>2, <3>3 DEF Keeps
  <2> QED
    BY Zenon, <1>3, <2>1, <2>2, <2>3
<1> HIDE DEF r
<1>8. StoresInv'
  BY <1>2, <1>7 DEF StoresInv
<1>9. TypeOK'
  <2>1. \A m \in Nodes : IsStore(store'[m])
    BY <1>8, StoreTypes DEF StoresInv
  <2> QED
    BY Zenon, <1>1, <1>2, <1>4, <1>5, <2>1 DEF TypeOK
<1>10. BlocksInv'
  BY Zenon, <1>1 DEF BlocksInv
<1>11. SuccessInv'
  <2> SUFFICES ASSUME NEW m \in Nodes, NEW u \in Txs, res'[m][u] = "ok"
               PROVE  u \in seen[m] /\ Recorded(store'[m], block[u].op, u)
    BY <1>1 DEF SuccessInv
  <2>1. CASE m # n
    BY Zenon, <1>2, <1>4, <2>1 DEF SuccessInv
  <2>2. CASE m = n /\ u # t
    BY Zenon, <1>2, <1>4, <1>7, <2>2 DEF SuccessInv
  <2>3. CASE m = n /\ u = t
    BY Zenon, <1>1, <1>2, <1>4, <1>7, <2>3
  <2> QED
    BY Zenon, <2>1, <2>2, <2>3
<1>12. OwnInv'
  BY <1>1, <1>2, <1>7 DEF OwnInv, Own
<1> QED
  BY Zenon, <1>8, <1>9, <1>10, <1>11, <1>12

\* The steps of the chain: a block is ordered, finalized or taken back.
LEMMA ChainStep ==
  ASSUME OnceInv,
         \/ \E t \in Txs, f \in Fates : Order(t, f)
         \/ Reorg
         \/ \E n \in Nodes : Rollback(n)
  PROVE  OnceInv'
<1> USE DEF OnceInv
<1>1. ASSUME NEW t \in Txs, NEW f \in Fates, Order(t, f) PROVE OnceInv'
  <2>1. /\ UNCHANGED <<slot, store, block, draft, seen, done, res>>
        /\ t \in DOMAIN block /\ \E n \in Nodes : t \in seen[n]
    BY Zenon, <1>1 DEF Order, TypeOK
  <2>2. /\ chain' \in Seq(DOMAIN block) /\ Len(chain') = Len(chain) + 1
        /\ chain'[Len(chain) + 1] = t
        /\ \A i \in 1..Len(chain) : chain'[i] = chain[i]
    BY <1>1, <2>1 DEF Order, TypeOK
  <2>3. fate' \in [Txs -> {"none", "apply", "error", "revert"}]
    BY Zenon, <1>1 DEF Order, TypeOK, Fates
  <2>4. done' \in [Nodes -> 0..Len(chain')]
    BY <2>1, <2>2 DEF TypeOK
  <2>5. TypeOK'
    BY Zenon, <2>1, <2>2, <2>3, <2>4 DEF TypeOK
  <2>6. \A i \in 1..Len(chain') : \E n \in Nodes : chain'[i] \in seen[n]
    <3> SUFFICES ASSUME NEW i \in 1..Len(chain') PROVE \E n \in Nodes : chain'[i] \in seen[n]
      OBVIOUS
    <3>1. i \in 1..Len(chain) \/ i = Len(chain) + 1
      <4>1. Len(chain) \in Nat
        BY DEF TypeOK
      <4> QED
        BY <2>2, <4>1
    <3>2. CASE i \in 1..Len(chain)
      BY Zenon, <2>2, <3>2 DEF BlocksInv
    <3>3. CASE i = Len(chain) + 1
      BY Zenon, <2>1, <2>2, <3>3
    <3> QED
      BY Zenon, <3>1, <3>2, <3>3
  <2>7. BlocksInv'
    BY Zenon, <2>1, <2>6 DEF BlocksInv
  <2> QED
    BY Zenon, <2>1, <2>5, <2>7 DEF StoresInv, SuccessInv, OwnInv, Own
<1>2. ASSUME Reorg PROVE OnceInv'
  <2>1. /\ UNCHANGED <<slot, store, block, draft, seen, done, res>>
        /\ Len(chain) > 0 /\ \A n \in Nodes : done[n] < Len(chain)
    BY <1>2 DEF Reorg, TypeOK
  <2>2. /\ chain' \in Seq(DOMAIN block) /\ Len(chain') = Len(chain) - 1
        /\ \A i \in 1..Len(chain') : chain'[i] = chain[i]
    <3>1. chain \in Seq(DOMAIN block) /\ chain' = SubSeq(chain, 1, Len(chain) - 1)
      BY Zenon, <1>2 DEF Reorg, TypeOK
    <3> QED
      BY Zenon, <2>1, <3>1, ShorterSeq
  <2>3. fate' \in [Txs -> {"none", "apply", "error", "revert"}]
    BY Zenon, <1>2 DEF Reorg, TypeOK
  <2>4. done' \in [Nodes -> 0..Len(chain')]
    BY SMTT(30), <2>1, <2>2 DEF TypeOK
  <2>5. TypeOK'
    BY Zenon, <2>1, <2>2, <2>3, <2>4 DEF TypeOK
  <2>6. \A i \in 1..Len(chain') : \E n \in Nodes : chain'[i] \in seen[n]
    <3>1. Len(chain) \in Nat
      BY DEF TypeOK
    <3>2. \A i \in 1..Len(chain') : i \in 1..Len(chain)
      BY <2>1, <2>2, <3>1
    <3> QED
      BY Zenon, <2>2, <3>2 DEF BlocksInv
  <2>7. BlocksInv'
    BY SMTT(30), <2>1, <2>6 DEF BlocksInv
  <2> QED
    BY Zenon, <2>1, <2>5, <2>7 DEF StoresInv, SuccessInv, OwnInv, Own
<1>3. ASSUME NEW n \in Nodes, Rollback(n) PROVE OnceInv'
  <2>1. UNCHANGED <<slot, store, net, draft, seen>> /\ UNCHANGED <<block, chain, fate>>
    BY SMTT(30), <1>3 DEF Rollback, net
  <2>2. done' \in [Nodes -> 0..Len(chain)] /\ chain[done[n]] \in Txs
    BY SMTT(30), <1>3 DEF Rollback, TypeOK
  <2>3. /\ res' \in [Nodes -> [Txs -> {"none", "ok", "failed", "error"}]]
        /\ \A m \in Nodes, t \in Txs : res'[m][t] = "ok" => res[m][t] = "ok"
    BY SMTT(30), <1>3, <2>2 DEF Rollback, TypeOK
  <2>4. TypeOK'
    BY Zenon, <2>1, <2>2, <2>3 DEF TypeOK
  <2>5. BlocksInv'
    BY <2>1 DEF BlocksInv
  <2>6. SuccessInv'
    BY <2>1, <2>3 DEF SuccessInv
  <2> QED
    BY <2>1, <2>4, <2>5, <2>6 DEF StoresInv, OwnInv, Own
<1> QED
  BY SMTT(30), <1>1, <1>2, <1>3

LEMMA SyncDataOK ==
  ASSUME NEW data \in SyncData
  PROVE  IsData(data)
<1>1. PICK D \in SUBSET Ops : data \in {d \in [D -> UNION {Confirmed[o] : o \in D}] :
                                          \A o \in D : d[o] \in Confirmed[o]}
  BY DEF SyncData
<1> QED
  BY <1>1 DEF IsData

\* The faults of a node.
LEMMA FaultStep ==
  ASSUME OneEpoch, OnceInv, NEW n \in Nodes,
         \/ Restart(n)
         \/ \E data \in SyncData, W \in SUBSET Ops : TornConfirm(n, data, W)
         \/ \E t \in Txs : TornInsert(n, t)
         \/ \E o \in Ops : Evict(n, o)
  PROVE  OnceInv'
<1>1. Safe(n, store[n], seen[n]) /\ StoreOK(store[n])
  BY SMTT(30), SafeStore DEF Safe
<1>2. seen[n] \in SUBSET DOMAIN block
  BY SMTT(30) DEF OnceInv, TypeOK
<1>3. CASE Restart(n)
  BY Zenon, <1>1, <1>2, <1>3, RestartStep DEF Restart
<1>4. ASSUME NEW data \in SyncData, NEW W \in SUBSET Ops, TornConfirm(n, data, W)
      PROVE  OnceInv'
  <2> DEFINE s == Queued(store[n], data)
             p == Restrict(s.queue, W)
             u == Update(store[n].rec, p)
             r == [store[n] EXCEPT !.rec = u]
  <2>1. Keeps(store[n], s) /\ StoreOK(s)
    BY <1>1, SyncDataOK, QueuedKeeps DEF Keeps
  <2>2. W \subseteq DOMAIN s.queue /\ RestartWith(n, r, seen[n])
    BY <1>4 DEF TornConfirm
  <2> HIDE DEF s
  <2>3. Table(p) /\ DOMAIN p = W /\ \A x \in W : p[x] = s.queue[x]
    BY SMTT(30), <2>1, <2>2, StoreTables, PartTable
  <2> HIDE DEF p
  <2>4. /\ Table(u) /\ DOMAIN u = DOMAIN store[n].rec \cup W
        /\ \A x \in DOMAIN store[n].rec \cup W :
             u[x] = IF x \in W THEN p[x] ELSE store[n].rec[x]
    <3>1. Table(store[n].rec)
      BY SMTT(30), <1>1, StoreTables
    <3>2. /\ Table(u) /\ DOMAIN u = DOMAIN store[n].rec \cup DOMAIN p
          /\ \A x \in DOMAIN store[n].rec \cup DOMAIN p :
               u[x] = IF x \in DOMAIN p THEN p[x] ELSE store[n].rec[x]
      BY Zenon, <2>3, <3>1, UpdateTable
    <3> QED
      BY SMTT(30), <2>3, <3>2
  <2> HIDE DEF u
  <2>5. /\ r.queue = store[n].queue /\ r.cache = store[n].cache /\ r.list = store[n].list
        /\ r.rec = u /\ DOMAIN r = {"queue", "cache", "rec", "list"}
    BY Zenon, <1>1 DEF StoreOK
  <2> HIDE DEF r
  <2>6. StoreOK(r)
    BY Zenon, <1>1, <2>4, <2>5, StoreTables DEF StoreOK
  <2>7. ASSUME NEW o \in Ops, NEW t \in Txs, Recorded(store[n], o, t)
        PROVE  Recorded(r, o, t)
    <3>1. Recorded(s, o, t)
      BY <2>1, <2>7 DEF Keeps
    <3> QED
      BY ZenonT(60), <2>2, <2>3, <2>4, <2>5, <2>7, <3>1 DEF Recorded
  <2>8. ASSUME NEW o \in Ops, NEW t \in Txs, Names(r, o, t)
        PROVE  Names(store[n], o, t)
    <3>1. Names(store[n], o, t) \/ Names(s, o, t)
      BY ZenonT(60), <2>2, <2>3, <2>4, <2>5, <2>8 DEF Names
    <3> QED
      BY Zenon, <2>1, <3>1 DEF Keeps
  <2>9. Keeps(store[n], r)
    BY <2>6, <2>7, <2>8 DEF Keeps
  <2> QED
    BY Zenon, <1>1, <1>2, <2>2, <2>9, KeepsSafe, RestartStep
<1>5. ASSUME NEW t \in Txs, TornInsert(n, t) PROVE OnceInv'
  <2> DEFINE S == seen[n] \cup {t}
             d == Put(store[n].rec, block[t].op, TxEntry(t))
             r == [store[n] EXCEPT !.rec = d]
  <2>1. /\ Arrives(n, t) /\ t \in DOMAIN block
        /\ \/ RestartWith(n, store[n], S)
           \/ ValidateValidatorSyncOp(n, t) /\ RestartWith(n, r, S)
    BY <1>5 DEF TornInsert, Arrives
  <2>2. S \in SUBSET DOMAIN block /\ seen[n] \subseteq S /\ \A u \in S \ seen[n] : Arrives(n, u)
    BY SMTT(30), <1>2, <2>1
  <2>3. CASE RestartWith(n, store[n], S)
    <3>1. Safe(n, store[n], S)
      BY SMTT(30), <1>1 DEF Safe, Own
    <3> QED
      BY SMTT(30), <2>2, <2>3, <3>1, RestartStep
  <2>4. CASE ValidateValidatorSyncOp(n, t) /\ RestartWith(n, r, S)
    <3>1. /\ Table(d) /\ DOMAIN d = DOMAIN store[n].rec \cup {block[t].op}
          /\ \A x \in DOMAIN store[n].rec \cup {block[t].op} :
               d[x] = IF x = block[t].op THEN TxEntry(t) ELSE store[n].rec[x]
      <4>1. /\ TxEntry(t) \in Entry /\ TxEntry(t).epoch \in Confirmed[block[t].op]
            /\ TxEntry(t).tx \in RecordTx /\ block[t].op \in Ops
        BY SMTT(30), <2>1, TxEntryOK DEF RecordTx
      <4>2. Table(store[n].rec)
        BY <1>1, StoreTables
      <4> QED
        BY <4>1, <4>2, PutTable
    <3> HIDE DEF d
    <3>2. /\ r.queue = store[n].queue /\ r.cache = store[n].cache /\ r.list = store[n].list
          /\ r.rec = d /\ DOMAIN r = {"queue", "cache", "rec", "list"}
      BY SMTT(30), <1>1 DEF StoreOK
    <3> HIDE DEF r
    <3>3. StoreOK(r)
      BY Zenon, <1>1, <3>1, <3>2, StoreTables DEF StoreOK
    <3>4. ASSUME NEW u \in Txs, res[n][u] = "ok" PROVE Recorded(r, block[u].op, u)
      <4>1. Recorded(store[n], block[u].op, u)
        BY <1>1, <3>4 DEF Safe
      <4>2. u # t => block[u].op # block[t].op
        BY Zenon, <2>1, <2>4, <3>4, ValidIsFirst
      <4> QED
        BY ZenonT(60), <2>1, <3>1, <3>2, <4>1, <4>2, TxEntryOK DEF Recorded
    <3>5. Own(r, S)
      <4> SUFFICES ASSUME NEW o \in Ops, NEW u \in Txs, Names(r, o, u)
                   PROVE  u \in S /\ block[u].op = o
        BY Zenon DEF Own
      <4>1. Names(store[n], o, u) \/ (o = block[t].op /\ u = t)
        <5>1. TxEntry(t).tx = t
          BY Zenon DEF TxEntry
        <5> QED
          BY <3>1, <3>2, <5>1 DEF Names
      <4> QED
        BY SMTT(30), <1>1, <4>1 DEF Safe, Own
    <3>6. Safe(n, r, S)
      BY Zenon, <3>3, <3>4, <3>5 DEF Safe
    <3> QED
      BY Zenon, <2>2, <2>4, <3>6, RestartStep
  <2> QED
    BY <2>1, <2>3, <2>4
<1>6. ASSUME NEW o \in Ops, Evict(n, o) PROVE OnceInv'
  <2> DEFINE c == Without(store[n].cache, {o})
             r == [store[n] EXCEPT !.cache = c]
  <2>1. /\ Table(c) /\ DOMAIN c = DOMAIN store[n].cache \ {o}
        /\ \A x \in DOMAIN store[n].cache \ {o} : c[x] = store[n].cache[x]
    BY Zenon, <1>1, StoreTables, WithoutTable
  <2>2. /\ store' = [store EXCEPT ![n] = r]
        /\ UNCHANGED <<slot, net, draft, seen, done, res>>
    BY <1>6 DEF Evict
  <2> HIDE DEF c
  <2>3. /\ r.queue = store[n].queue /\ r.rec = store[n].rec /\ r.list = store[n].list
        /\ r.cache = c /\ DOMAIN r = {"queue", "cache", "rec", "list"}
    BY SMTT(30), <1>1 DEF StoreOK
  <2> HIDE DEF r
  <2>4. StoreOK(r)
    BY Zenon, <1>1, <2>1, <2>3, StoreTables DEF StoreOK
  <2>5. \A p \in Ops, t \in Txs : Recorded(store[n], p, t) => Recorded(r, p, t)
    BY Zenon, <2>1, <2>3 DEF Recorded
  <2>6. \A p \in Ops, t \in Txs : Names(r, p, t) => Names(store[n], p, t)
    BY Zenon, <2>1, <2>3 DEF Names
  <2>7. Safe(n, r, seen[n])
    BY <1>1, <2>4, <2>5, <2>6, KeepsSafe DEF Keeps
  <2> QED
    BY Zenon, <2>2, <2>7, StoreStep
<1> QED
  BY Zenon, <1>3, <1>4, <1>5, <1>6

\* The passing of time does not disturb the invariant.
LEMMA OnceTime ==
  ASSUME OnceInv, slot' \in 0..MaxSlot, UNCHANGED <<store, net, draft, seen, done, res>>
  PROVE  OnceInv'
<1>1. TypeOK'
  BY DEF net, OnceInv, TypeOK
<1>2. StoresInv'
  BY DEF OnceInv, StoresInv
<1>3. BlocksInv'
  BY DEF net, OnceInv, BlocksInv
<1>4. SuccessInv'
  BY DEF net, OnceInv, SuccessInv
<1>5. OwnInv'
  BY DEF net, OnceInv, OwnInv, Own
<1> QED
  BY <1>1, <1>2, <1>3, <1>4, <1>5 DEF OnceInv

LEMMA OnceStep ==
  ASSUME OneEpoch, OnceInv, [Next]_vars
  PROVE  OnceInv'
<1>1. CASE UNCHANGED vars
  BY Zenon, <1>1, OnceTime DEF vars, OnceInv, TypeOK
<1>2. CASE Tick
  <2>1. slot' \in 0..MaxSlot /\ UNCHANGED <<store, net, draft, seen, done, res>>
    BY <1>2, ValSyncAssumption DEF Tick, OnceInv, TypeOK
  <2> QED
    BY <2>1, OnceTime
<1>3. ASSUME NEW n \in Nodes, Node(n) PROVE OnceInv'
  <2>1. Safe(n, store[n], seen[n]) /\ StoreOK(store[n])
    BY Zenon, SafeStore DEF Safe
  <2>2. ASSUME NEW data \in SyncData, Confirm(n, data) PROVE OnceInv'
    <3> DEFINE r == AppendNotProcessedValidatorSyncData(store[n], data)
    <3>1. Safe(n, r, seen[n])
      BY Zenon, <2>1, SyncDataOK, AppendKeeps, KeepsSafe
    <3>2. /\ store' = [store EXCEPT ![n] = r]
          /\ UNCHANGED <<slot, net, draft, seen, done, res>>
      BY <2>2 DEF Confirm
    <3> HIDE DEF r
    <3> QED
      BY ZenonT(30), <3>1, <3>2, StoreStep
  <2>3. CASE CreateNothing(n)
    <3> DEFINE r == DropStale(store[n])
    <3>1. Safe(n, r, seen[n])
      BY Zenon, <2>1, DropStaleKeeps, KeepsSafe
    <3>2. /\ store' = [store EXCEPT ![n] = r]
          /\ UNCHANGED <<slot, net, draft, seen, done, res>>
      BY <2>3 DEF CreateNothing
    <3> HIDE DEF r
    <3> QED
      BY ZenonT(30), <3>1, <3>2, StoreStep
  <2> QED
    BY Zenon, <1>3, <2>2, <2>3, CreateStep, InsertStep, CommitStep, ChainStep, FaultStep DEF Node
<1> QED
  BY Zenon, <1>1, <1>2, <1>3, ChainStep DEF Next

(***************************************************************************)
(* Of the transactions that carry an operation at most one succeeds at a   *)
(* node, whatever nodes create, insert, finalize and roll back, and        *)
(* wherever they stop and restart, if the coordinator confirms the         *)
(* operation for one epoch.                                                *)
(***************************************************************************)
THEOREM AtMostOnceCorrect ==
  ASSUME OneEpoch
  PROVE  Spec => []AtMostOnce
<1>1. OnceInv /\ [Next]_vars => OnceInv'
  BY OnceStep
<1> QED
  BY <1>1, OnceInit, OnceInvImplies, PTL DEF Spec

-----------------------------------------------------------------------------
(***************************************************************************)
(* Agreement of ValSync for any number of nodes, operations and            *)
(* transactions, under all of the faults of the model.                     *)
(*                                                                         *)
(* The argument.  A node validates a transaction against its own records,  *)
(* which depend on what it has inserted and in which order.  But after the *)
(* Delegate fork the answer depends only on whether a transaction of the   *)
(* same operation has succeeded, and that on the chain: the receipt of     *)
(* each block is determined by the receipts of the blocks before it        *)
(* (Determined).  So two nodes that agree so far agree on the next block.  *)
(***************************************************************************)

(***************************************************************************)
(* What the agreement rests on: the Delegate fork is there from the start  *)
(* (before it only the first transaction that a node inserts is valid), a  *)
(* block is finalized at a node after its operation is confirmed there,    *)
(* and the coordinator confirms an operation for one epoch.                *)
(***************************************************************************)
Steady == OneEpoch /\ DataFirst /\ ForkSlotDelegate = 0

\* A block is ordered once.
Distinct == \A i, j \in 1..Len(chain) : chain[i] = chain[j] => i = j

\* The receipts of a node are those of the blocks it has finalized.
Executed ==
  \A n \in Nodes : \A t \in Txs :
    res[n][t] # "none" => \E i \in 1..done[n] : t = chain[i]

\* No block before the i-th has carried out the operation of the i-th.
First(n, i) ==
  \A j \in 1..(i - 1) :
    res[n][chain[j]] = "ok" => block[chain[j]].op # block[chain[i]].op

\* The receipt of the i-th block, from the receipts before it.
Verdict(n, i) ==
  IF fate[chain[i]] = "error" THEN "error"
  ELSE IF fate[chain[i]] = "revert" THEN "failed"
  ELSE IF First(n, i) THEN "ok" ELSE "failed"

Determined ==
  \A n \in Nodes : \A i \in 1..done[n] : res[n][chain[i]] = Verdict(n, i)

AgreeInv == OnceInv /\ Distinct /\ Executed /\ Determined /\ Agreement

-----------------------------------------------------------------------------
LEMMA ChainTypes ==
  ASSUME OnceInv
  PROVE  /\ Len(chain) \in Nat
         /\ \A i \in 1..Len(chain) : chain[i] \in DOMAIN block /\ chain[i] \in Txs
         /\ \A n \in Nodes : done[n] \in 0..Len(chain)
BY SMTT(30) DEF OnceInv, TypeOK

\* ValidateValidatorSyncOp accepts a transaction exactly when none of its
\* operation has succeeded.
LEMMA ValidIff ==
  ASSUME Steady, OnceInv, NEW n \in Nodes, NEW t \in DOMAIN block,
         res[n][t] # "ok", HasSaved(store[n], block[t].op)
  PROVE  ValidateValidatorSyncOp(n, t)
           <=> \A u \in Txs : res[n][u] = "ok" => block[u].op # block[t].op
<1>1. ASSUME ValidateValidatorSyncOp(n, t), NEW u \in Txs, res[n][u] = "ok"
      PROVE  block[u].op # block[t].op
  BY <1>1, ValidIsFirst
<1>2. ASSUME \A u \in Txs : res[n][u] = "ok" => block[u].op # block[t].op
      PROVE  ValidateValidatorSyncOp(n, t)
  <2> DEFINE o == block[t].op
             x == Saved(store[n], o).tx
  <2>1. o \in Ops /\ block[t].slot \in Nat
    BY DEF OnceInv, TypeOK
  <2>2. IsForkSlotDelegate(block[t].slot)
    BY <2>1 DEF Steady, IsForkSlotDelegate
  <2>3. StoreOK(store[n])
    BY Zenon DEF OnceInv, StoresInv
  <2>4. x \in Txs \cup {NoTx}
    BY Zenon, <2>3, StoreTables DEF HasSaved, Saved, Table, RecordTx, Steady
  <2>5. CASE x = NoTx
    BY Zenon, <2>2, <2>5 DEF ValidateValidatorSyncOp
  <2>6. CASE x \in Txs
    <3>1. Names(store[n], o, x)
      BY Zenon DEF HasSaved, Saved, Names
    <3>2. block[x].op = o
      BY ZenonT(60), <2>1, <2>6, <3>1 DEF OnceInv, OwnInv, Own
    <3>3. ~Successful(n, x)
      BY Zenon, <1>2, <2>6, <3>2, ValSyncAssumption DEF Successful
    <3> QED
      BY Zenon, <2>2, <3>3 DEF ValidateValidatorSyncOp
  <2> QED
    BY <2>4, <2>5, <2>6
<1> QED
  BY <1>1, <1>2

-----------------------------------------------------------------------------
\* The i-th block and its receipt at n stay.
Same(n, i) ==
  /\ chain'[i] = chain[i]
  /\ fate'[chain[i]] = fate[chain[i]]
  /\ block'[chain[i]].op = block[chain[i]].op
  /\ res'[n][chain[i]] = res[n][chain[i]]

\* Then the verdict on a block stays, if the receipts before it do.
LEMMA VerdictStays ==
  ASSUME NEW n, NEW i \in Nat \ {0}, \A j \in 1..(i - 1) : Same(n, j),
         chain'[i] = chain[i], fate'[chain[i]] = fate[chain[i]],
         block'[chain[i]].op = block[chain[i]].op
  PROVE  Verdict(n, i)' = Verdict(n, i)
<1>1. First(n, i)' <=> First(n, i)
  BY DEF First, Same
<1> QED
  BY <1>1 DEF Verdict

\* Two nodes that agree so far have the same verdict on the next block.
LEMMA VerdictAgrees ==
  ASSUME AgreeInv, NEW n \in Nodes, NEW m \in Nodes, NEW i \in 1..Len(chain),
         i - 1 <= done[n], i - 1 <= done[m]
  PROVE  Verdict(n, i) = Verdict(m, i)
<1>1. /\ Len(chain) \in Nat /\ done[n] \in 0..Len(chain) /\ done[m] \in 0..Len(chain)
  BY ChainTypes DEF AgreeInv
<1>2. \A j \in 1..(i - 1) : j \in 1..Len(chain) /\ j <= done[n] /\ j <= done[m]
  BY <1>1
<1>3. \A j \in 1..(i - 1) : res[n][chain[j]] = res[m][chain[j]]
  BY <1>2 DEF AgreeInv, Agreement
<1>4. First(n, i) <=> First(m, i)
  BY Zenon, <1>3 DEF First
<1> QED
  BY <1>4 DEF Verdict

\* A step that leaves what has been finalized, or takes some of it back.
LEMMA KeepStep ==
  ASSUME AgreeInv, OnceInv',
         \A n \in Nodes : done'[n] <= done[n] /\ \A i \in 1..done'[n] : Same(n, i)
  PROVE  Determined' /\ Agreement'
<1>1. \A n \in Nodes : /\ done[n] \in Nat /\ done'[n] \in Nat
                       /\ done[n] <= Len(chain) /\ Len(chain) \in Nat
  <2>1. OnceInv => \A n \in Nodes : done[n] \in 0..Len(chain) /\ Len(chain) \in Nat
    BY ChainTypes
  <2>2. \A n \in Nodes : done'[n] \in 0..Len(chain')
    BY DEF OnceInv, TypeOK
  <2> QED
    BY <2>1, <2>2 DEF AgreeInv
<1>2. Determined'
  <2> SUFFICES ASSUME NEW n \in Nodes, NEW i \in 1..done'[n]
               PROVE  res'[n][chain'[i]] = Verdict(n, i)'
    BY DEF Determined
  <2>1. i \in 1..done[n] /\ res[n][chain[i]] = Verdict(n, i)
    BY <1>1 DEF AgreeInv, Determined
  <2>2. i \in Nat \ {0} /\ Same(n, i) /\ \A j \in 1..(i - 1) : Same(n, j)
    BY <1>1
  <2>3. Verdict(n, i)' = Verdict(n, i)
    BY ZenonT(60), <2>2, VerdictStays DEF Same
  <2> QED
    BY <2>1, <2>2, <2>3 DEF Same
<1>3. Agreement'
  <2> SUFFICES ASSUME NEW n \in Nodes, NEW m \in Nodes, NEW i \in 1..Len(chain'),
                      i <= done'[n], i <= done'[m]
               PROVE  res'[n][chain'[i]] = res'[m][chain'[i]]
    BY DEF Agreement
  <2>1. i \in 1..done'[n] /\ i \in 1..done'[m] /\ i \in 1..Len(chain)
    BY <1>1
  <2>2. i <= done[n] /\ i <= done[m]
    BY <1>1
  <2>3. res[n][chain[i]] = res[m][chain[i]]
    BY <2>1, <2>2 DEF AgreeInv, Agreement
  <2> QED
    BY <2>1, <2>3 DEF Same
<1> QED
  BY Zenon, <1>2, <1>3

\* The steps that do not touch the chain and the receipts.
LEMMA QuietStep ==
  ASSUME AgreeInv, OnceInv', UNCHANGED <<chain, fate, done, res>>,
         \A t \in DOMAIN block \cap DOMAIN block' : block'[t] = block[t]
  PROVE  AgreeInv'
<1>1. \A n \in Nodes : done[n] \in Nat /\ \A i \in 1..done[n] : i \in 1..Len(chain)
  BY ChainTypes DEF AgreeInv
<1>2. \A i \in 1..Len(chain) : chain[i] \in DOMAIN block /\ chain[i] \in DOMAIN block'
  BY SMTT(30) DEF AgreeInv, OnceInv, TypeOK
<1>3. \A n \in Nodes : done'[n] <= done[n] /\ \A i \in 1..done'[n] : Same(n, i)
  BY <1>1, <1>2 DEF Same
<1>4. Determined' /\ Agreement'
  BY Zenon, <1>3, KeepStep
<1>5. Distinct' /\ Executed'
  BY Zenon DEF AgreeInv, Distinct, Executed
<1> QED
  BY Zenon, <1>4, <1>5 DEF AgreeInv

LEMMA OrderStep ==
  ASSUME AgreeInv, OnceInv', NEW t \in Txs, NEW f \in Fates, Order(t, f)
  PROVE  AgreeInv'
<1>1. /\ Len(chain) \in Nat
      /\ \A i \in 1..Len(chain) : chain[i] \in DOMAIN block /\ chain[i] \in Txs
      /\ \A n \in Nodes : done[n] \in 0..Len(chain)
  BY Zenon, ChainTypes DEF AgreeInv
<1>2. /\ Len(chain') = Len(chain) + 1 /\ chain'[Len(chain) + 1] = t
      /\ \A i \in 1..Len(chain) : chain'[i] = chain[i]
  <2>1. chain \in Seq(Txs) /\ chain' = Append(chain, t)
    BY DEF Order, AgreeInv, OnceInv, TypeOK
  <2> QED
    BY <2>1
<1>3. \A i \in 1..Len(chain) : chain[i] # t
  BY SMTT(30) DEF Order, Range, AgreeInv, OnceInv, TypeOK
<1>4. UNCHANGED <<block, done, res>> /\ \A u \in Txs \ {t} : fate'[u] = fate[u]
  BY Zenon DEF Order, AgreeInv, OnceInv, TypeOK
<1>5. ASSUME NEW n \in Nodes
      PROVE  done'[n] <= done[n] /\ \A i \in 1..done'[n] : Same(n, i)
  <2>1. done'[n] = done[n] /\ done[n] \in Nat /\ \A i \in 1..done[n] : i \in 1..Len(chain)
    BY <1>1, <1>4
  <2> QED
    BY <1>1, <1>2, <1>3, <1>4, <2>1 DEF Same
<1>6. Determined' /\ Agreement'
  BY Zenon, <1>5, KeepStep
<1>7. Distinct'
  <2> SUFFICES ASSUME NEW i \in 1..Len(chain'), NEW j \in 1..Len(chain'), chain'[i] = chain'[j]
               PROVE  i = j
    BY DEF Distinct
  <2>1. /\ i \in 1..Len(chain) \/ i = Len(chain) + 1
        /\ j \in 1..Len(chain) \/ j = Len(chain) + 1
    BY <1>1, <1>2
  <2> QED
    BY <1>2, <1>3, <2>1 DEF AgreeInv, Distinct
<1>8. Executed'
  <2> SUFFICES ASSUME NEW n \in Nodes, NEW u \in Txs, res[n][u] # "none"
               PROVE  \E i \in 1..done[n] : u = chain'[i]
    BY <1>4 DEF Executed
  <2>1. PICK i \in 1..done[n] : u = chain[i]
    BY DEF AgreeInv, Executed
  <2>2. i \in 1..Len(chain)
    BY <1>1
  <2> QED
    BY <1>2, <2>1, <2>2
<1> QED
  BY <1>6, <1>7, <1>8 DEF AgreeInv

LEMMA ReorgStep ==
  ASSUME AgreeInv, OnceInv', Reorg
  PROVE  AgreeInv'
<1> DEFINE k == Len(chain)
           t == chain[k]
<1>1. /\ k \in Nat /\ \A i \in 1..k : chain[i] \in DOMAIN block /\ chain[i] \in Txs
      /\ \A n \in Nodes : done[n] \in 0..k
  BY Zenon, ChainTypes DEF AgreeInv
<1>2. k > 0 /\ \A n \in Nodes : done[n] < k
  BY DEF Reorg, AgreeInv, OnceInv, TypeOK
<1>3. Len(chain') = k - 1 /\ \A i \in 1..(k - 1) : chain'[i] = chain[i]
  <2>1. chain \in Seq(DOMAIN block) /\ chain' = SubSeq(chain, 1, k - 1)
    BY Zenon DEF Reorg, AgreeInv, OnceInv, TypeOK
  <2> QED
    BY Zenon, <1>2, <2>1, ShorterSeq
<1>4. UNCHANGED <<block, done, res>> /\ \A u \in Txs \ {t} : fate'[u] = fate[u]
  BY ZenonT(60) DEF Reorg, AgreeInv, OnceInv, TypeOK
<1>5. \A i \in 1..(k - 1) : i \in 1..k /\ chain[i] # t
  <2>1. \A i \in 1..(k - 1) : i \in 1..k /\ i # k
    BY <1>1
  <2>2. k \in 1..k
    BY <1>1, <1>2
  <2> QED
    BY Zenon, <2>1, <2>2 DEF AgreeInv, Distinct
<1> HIDE DEF k, t
<1>6. ASSUME NEW n \in Nodes
      PROVE  done'[n] <= done[n] /\ \A i \in 1..done'[n] : Same(n, i)
  <2>1. done'[n] = done[n] /\ done[n] \in Nat /\ \A i \in 1..done[n] : i \in 1..(k - 1)
    BY <1>1, <1>2, <1>4
  <2> QED
    BY <1>1, <1>3, <1>4, <1>5, <2>1 DEF Same
<1>7. Determined' /\ Agreement'
  BY <1>6, KeepStep
<1>8. Distinct'
  BY Zenon, <1>3, <1>5 DEF AgreeInv, Distinct, k
<1>9. Executed'
  <2> SUFFICES ASSUME NEW n \in Nodes, NEW u \in Txs, res[n][u] # "none"
               PROVE  \E i \in 1..done[n] : u = chain'[i]
    BY Zenon, <1>4 DEF Executed
  <2>1. PICK i \in 1..done[n] : u = chain[i]
    BY DEF AgreeInv, Executed
  <2>2. i \in 1..(k - 1)
    BY <1>1, <1>2
  <2> QED
    BY Zenon, <1>3, <2>1, <2>2
<1> QED
  BY Zenon, <1>7, <1>8, <1>9 DEF AgreeInv

LEMMA RollbackStep ==
  ASSUME AgreeInv, OnceInv', NEW n \in Nodes, Rollback(n)
  PROVE  AgreeInv'
<1> DEFINE k == done[n]
           t == chain[k]
<1>1. /\ Len(chain) \in Nat
      /\ \A i \in 1..Len(chain) : chain[i] \in DOMAIN block /\ chain[i] \in Txs
      /\ \A m \in Nodes : done[m] \in 0..Len(chain)
  BY ChainTypes DEF AgreeInv
<1>2. k \in 1..Len(chain) /\ t \in Txs
  BY <1>1 DEF Rollback
<1>3. UNCHANGED <<block, chain, fate>>
  BY DEF Rollback, net
<1>4. done'[n] = k - 1 /\ \A m \in Nodes \ {n} : done'[m] = done[m]
  BY Zenon DEF Rollback, AgreeInv, OnceInv, TypeOK
<1>5. /\ res'[n][t] = "none"
      /\ \A m \in Nodes, u \in Txs : m # n \/ u # t => res'[m][u] = res[m][u]
  <2>1. res' = [res EXCEPT ![n][t] = "none"]
    BY DEF Rollback
  <2> HIDE DEF t
  <2> QED
    BY ZenonT(60), <1>2, <2>1 DEF AgreeInv, OnceInv, TypeOK
<1>6. \A i \in 1..(k - 1) : i \in 1..Len(chain) /\ chain[i] # t
  <2>1. \A i \in 1..(k - 1) : i \in 1..Len(chain) /\ i # k
    BY <1>1, <1>2
  <2> QED
    BY Zenon, <1>2, <2>1 DEF AgreeInv, Distinct
<1>7. ASSUME NEW m \in Nodes
      PROVE  done'[m] <= done[m] /\ \A i \in 1..done'[m] : Same(m, i)
  <2>1. CASE m = n
    <3>1. done'[m] <= done[m]
      BY SMTT(30), <1>1, <1>4, <2>1
    <3> HIDE DEF k, t
    <3>2. \A i \in 1..done'[m] : Same(m, i)
      BY SMTT(30), <1>1, <1>3, <1>4, <1>5, <1>6, <2>1 DEF Same
    <3> QED
      BY Zenon, <3>1, <3>2
  <2>2. CASE m # n
    <3>1. done'[m] = done[m] /\ done[m] \in Nat /\ \A i \in 1..done[m] : i \in 1..Len(chain)
      BY <1>1, <1>4, <2>2
    <3> HIDE DEF k, t
    <3> QED
      BY <1>1, <1>3, <1>5, <2>2, <3>1 DEF Same
  <2> QED
    BY <2>1, <2>2
<1>8. Determined' /\ Agreement'
  BY <1>7, KeepStep
<1>9. Distinct'
  BY <1>3 DEF AgreeInv, Distinct
<1>10. Executed'
  <2> SUFFICES ASSUME NEW m \in Nodes, NEW u \in Txs, res'[m][u] # "none"
               PROVE  \E i \in 1..done'[m] : u = chain[i]
    BY <1>3 DEF Executed
  <2>1. res[m][u] # "none" /\ (m = n => u # t)
    BY <1>5
  <2>2. PICK i \in 1..done[m] : u = chain[i]
    BY Zenon, <2>1 DEF AgreeInv, Executed
  <2>3. i \in 1..done'[m]
    BY <1>1, <1>2, <1>4, <2>1, <2>2
  <2> QED
    BY Zenon, <2>2, <2>3
<1> QED
  BY <1>8, <1>9, <1>10 DEF AgreeInv

\* The next block of the chain gets the verdict that is due.
LEMMA CommitAgrees ==
  ASSUME Steady, AgreeInv, OnceInv', NEW n \in Nodes, Commit(n)
  PROVE  AgreeInv'
<1>1. /\ Len(chain) \in Nat
      /\ \A j \in 1..Len(chain) : chain[j] \in DOMAIN block /\ chain[j] \in Txs
      /\ \A m \in Nodes : done[m] \in 0..Len(chain)
  BY ChainTypes DEF AgreeInv
<1>0. PICK i \in Nat : i = done[n] + 1
  BY <1>1
<1> DEFINE t == chain[i]
<1>2. /\ i \in 1..Len(chain) /\ i \in Nat \ {0} /\ i - 1 = done[n]
      /\ t \in DOMAIN block /\ t \in Txs
  BY <1>0, <1>1 DEF Commit
<1>3. UNCHANGED <<block, chain, fate>>
  BY Zenon DEF Commit, net
<1>4. done'[n] = i /\ \A m \in Nodes \ {n} : done'[m] = done[m]
  BY Zenon, <1>0 DEF Commit, AgreeInv, OnceInv, TypeOK
<1>5. /\ res'[n][t] = Outcome(n, t)
      /\ \A m \in Nodes, u \in Txs : m # n \/ u # t => res'[m][u] = res[m][u]
  <2>1. res' = [res EXCEPT ![n][t] = Outcome(n, t)]
    BY Zenon, <1>0 DEF Commit
  <2> HIDE DEF t
  <2> QED
    BY Zenon, <1>2, <2>1 DEF AgreeInv, OnceInv, TypeOK
<1>6. HasSaved(store[n], block[t].op)
  BY <1>0 DEF Commit, Steady
<1>7. \A j \in 1..done[n] : j \in 1..Len(chain) /\ chain[j] # t
  <2>1. \A j \in 1..done[n] : j \in 1..Len(chain) /\ j # i
    BY <1>1, <1>2
  <2> QED
    BY <1>2, <2>1 DEF AgreeInv, Distinct
<1>8. \A u \in Txs : res[n][u] = "ok" => \E j \in 1..done[n] : u = chain[j]
  BY DEF AgreeInv, Executed
<1>9. res[n][t] # "ok"
  BY <1>2, <1>7, <1>8
<1> HIDE DEF t
<1>10. First(n, i) <=> \A u \in Txs : res[n][u] = "ok" => block[u].op # block[t].op
  <2>1. \A j \in 1..done[n] : chain[j] \in Txs
    BY <1>1, <1>7
  <2> QED
    BY ZenonT(60), <1>2, <1>8, <2>1 DEF First, t
<1>11. Outcome(n, t) = Verdict(n, i)
  <2>1. ValidateValidatorSyncOp(n, t) <=> First(n, i)
    BY Zenon, <1>2, <1>6, <1>9, <1>10, ValidIff DEF AgreeInv
  <2> QED
    BY <2>1 DEF Outcome, Verdict, t
<1>12. ASSUME NEW m \in Nodes, NEW j \in 1..done[m] PROVE Same(m, j) /\ j \in 1..Len(chain)
  <2>1. j \in 1..Len(chain)
    BY <1>1
  <2>2. m # n \/ chain[j] # t
    BY <1>7
  <2>3. res'[m][chain[j]] = res[m][chain[j]]
    BY Zenon, <1>1, <1>5, <2>1, <2>2
  <2> QED
    BY Zenon, <1>3, <2>1, <2>3 DEF Same
<1>13. ASSUME NEW m \in Nodes, NEW j \in 1..Len(chain), j - 1 <= done[m]
       PROVE  Verdict(m, j)' = Verdict(m, j)
  <2>1. j \in Nat \ {0} /\ \A k \in 1..(j - 1) : k \in 1..done[m]
    BY <1>1, <1>13
  <2>2. \A k \in 1..(j - 1) : Same(m, k)
    BY Zenon, <1>12, <2>1
  <2> QED
    BY Zenon, <1>3, <2>1, <2>2, VerdictStays
<1>14. Determined'
  <2> SUFFICES ASSUME NEW m \in Nodes, NEW j \in 1..done'[m]
               PROVE  res'[m][chain'[j]] = Verdict(m, j)'
    BY DEF Determined
  <2>1. CASE j \in 1..done[m]
    <3>1. res[m][chain[j]] = Verdict(m, j) /\ Same(m, j) /\ j \in 1..Len(chain)
      BY <1>12, <2>1 DEF AgreeInv, Determined
    <3>2. j - 1 <= done[m]
      BY <1>1, <2>1
    <3> QED
      BY Zenon, <1>3, <1>13, <3>1, <3>2 DEF Same
  <2>2. CASE j \notin 1..done[m]
    <3>1. m = n /\ j = i
      BY <1>1, <1>2, <1>4, <2>2
    <3>2. i - 1 <= done[n]
      BY <1>1, <1>2
    <3>3. Verdict(n, i)' = Verdict(n, i)
      BY <1>2, <1>13, <3>2
    <3> QED
      BY Zenon, <1>3, <1>5, <1>11, <3>1, <3>3 DEF t
  <2> QED
    BY <2>1, <2>2
<1>15. ASSUME NEW m \in Nodes, i <= done[m], m # n PROVE res'[n][t] = res'[m][t]
  <2>1. i \in 1..done[m] /\ i - 1 <= done[n] /\ i - 1 <= done[m]
    BY <1>1, <1>2, <1>15
  <2>2. res[m][t] = Verdict(m, i)
    BY Zenon, <2>1 DEF AgreeInv, Determined, t
  <2>3. Verdict(n, i) = Verdict(m, i)
    BY <1>2, <2>1, VerdictAgrees
  <2> QED
    BY Zenon, <1>2, <1>5, <1>11, <1>15, <2>2, <2>3
<1>16. Agreement'
  <2> SUFFICES ASSUME NEW m \in Nodes, NEW l \in Nodes, NEW j \in 1..Len(chain),
                      j <= done'[m], j <= done'[l]
               PROVE  res'[m][chain[j]] = res'[l][chain[j]]
    BY <1>3 DEF Agreement
  <2>1. CASE j <= done[m] /\ j <= done[l]
    <3>1. j \in 1..done[m] /\ j \in 1..done[l]
      BY <1>1, <2>1
    <3>2. res[m][chain[j]] = res[l][chain[j]]
      BY <2>1 DEF AgreeInv, Agreement
    <3> QED
      BY Zenon, <1>12, <3>1, <3>2 DEF Same
  <2>2. CASE ~(j <= done[m])
    <3>1. m = n /\ j = i
      BY <1>1, <1>2, <1>4, <2>2
    <3>2. l # n => i <= done[l]
      BY Zenon, <1>4, <3>1
    <3> QED
      BY Zenon, <1>15, <3>1, <3>2 DEF t
  <2>3. CASE ~(j <= done[l])
    <3>1. l = n /\ j = i
      BY <1>1, <1>2, <1>4, <2>3
    <3>2. m # n => i <= done[m]
      BY <1>4, <3>1
    <3> QED
      BY Zenon, <1>15, <3>1, <3>2 DEF t
  <2> QED
    BY Zenon, <2>1, <2>2, <2>3
<1>17. Distinct'
  BY <1>3 DEF AgreeInv, Distinct
<1>18. Executed'
  <2> SUFFICES ASSUME NEW m \in Nodes, NEW u \in Txs, res'[m][u] # "none"
               PROVE  \E j \in 1..done'[m] : u = chain[j]
    BY Zenon, <1>3 DEF Executed
  <2>1. CASE m = n /\ u = t
    BY <1>2, <1>4, <2>1 DEF t
  <2>2. CASE m # n \/ u # t
    <3>1. res[m][u] # "none"
      BY <1>5, <2>2
    <3>2. PICK j \in 1..done[m] : u = chain[j]
      BY <3>1 DEF AgreeInv, Executed
    <3>3. j \in 1..done'[m]
      BY <1>1, <1>2, <1>4
    <3> QED
      BY Zenon, <3>2, <3>3
  <2> QED
    BY Zenon, <2>1, <2>2
<1> QED
  BY Zenon, <1>14, <1>16, <1>17, <1>18 DEF AgreeInv

-----------------------------------------------------------------------------
LEMMA AgreeInit == Init => AgreeInv
<1> SUFFICES ASSUME Init PROVE AgreeInv
  OBVIOUS
<1>1. OnceInv
  BY OnceInit
<1>2. Len(chain) = 0 /\ \A n \in Nodes : done[n] = 0
  BY DEF Init
<1>3. Distinct /\ Determined /\ Agreement
  BY <1>2 DEF Distinct, Determined, Agreement
<1>4. Executed
  BY DEF Init, Executed
<1> QED
  BY <1>1, <1>3, <1>4 DEF AgreeInv

\* A restart keeps the blocks that anyone has inserted.
LEMMA RestartQuiet ==
  ASSUME NEW n, NEW s, NEW S, RestartWith(n, s, S)
  PROVE  /\ UNCHANGED <<chain, fate, done, res>>
         /\ \A t \in DOMAIN block \cap DOMAIN block' : block'[t] = block[t]
BY DEF RestartWith, Restrict

LEMMA AgreeStep ==
  ASSUME Steady, AgreeInv, [Next]_vars
  PROVE  AgreeInv'
<1>1. OnceInv'
  BY OnceStep DEF Steady, AgreeInv
<1>2. CASE UNCHANGED vars
  BY Zenon, <1>1, <1>2, QuietStep DEF vars, net
<1>3. CASE Tick
  BY Zenon, <1>1, <1>3, QuietStep DEF Tick, net
<1>4. ASSUME NEW n \in Nodes, Node(n) PROVE AgreeInv'
  <2>1. ASSUME NEW data \in SyncData, Confirm(n, data) PROVE AgreeInv'
    BY Zenon, <1>1, <2>1, QuietStep DEF Confirm, net
  <2>2. ASSUME NEW o \in Ops, NEW t \in Txs, CreateBlock(n, o, t) PROVE AgreeInv'
    BY Zenon, <1>1, <2>2, QuietStep DEF CreateBlock
  <2>3. CASE CreateNothing(n)
    BY <1>1, <2>3, QuietStep DEF CreateNothing, net
  <2>4. ASSUME NEW t \in Txs, Insert(n, t) PROVE AgreeInv'
    BY <1>1, <2>4, QuietStep DEF Insert, net
  <2>5. CASE Restart(n)
    BY Zenon, <1>1, <2>5, RestartQuiet, QuietStep DEF Restart
  <2>6. ASSUME NEW data \in SyncData, NEW W \in SUBSET Ops, TornConfirm(n, data, W)
        PROVE  AgreeInv'
    BY Zenon, <1>1, <2>6, RestartQuiet, QuietStep DEF TornConfirm
  <2>7. ASSUME NEW t \in Txs, TornInsert(n, t) PROVE AgreeInv'
    BY Zenon, <1>1, <2>7, RestartQuiet, QuietStep DEF TornInsert
  <2>8. ASSUME NEW o \in Ops, Evict(n, o) PROVE AgreeInv'
    BY Zenon, <1>1, <2>8, QuietStep DEF Evict, net
  <2> QED
    BY Zenon, <1>1, <1>4, <2>1, <2>2, <2>3, <2>4, <2>5, <2>6, <2>7, <2>8,
       CommitAgrees, RollbackStep DEF Node
<1> QED
  BY Zenon, <1>1, <1>2, <1>3, <1>4, OrderStep, ReorgStep DEF Next

(***************************************************************************)
(* Nodes that have finalized the same block agree on whether its           *)
(* transaction succeeded, whatever they have inserted, in whatever order,  *)
(* and wherever they have stopped and restarted.                           *)
(***************************************************************************)
THEOREM AgreementCorrect ==
  ASSUME Steady
  PROVE  Spec => []Agreement
<1>1. AgreeInv /\ [Next]_vars => AgreeInv'
  BY AgreeStep
<1>2. AgreeInv => Agreement
  BY DEF AgreeInv
<1> QED
  BY <1>1, <1>2, AgreeInit, PTL DEF Spec

=============================================================================
