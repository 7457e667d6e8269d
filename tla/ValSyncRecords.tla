--------------------------- MODULE ValSyncRecords ---------------------------
(***************************************************************************)
(* The records of a node in ValSync: what the operations on its stores     *)
(* keep (the entry of a transaction that is on record, in the database, in *)
(* the cache and in the queue), the inductive invariant behind AtMostOnce, *)
(* and the restarts and insertions that keep it.  ValSyncProofs goes on    *)
(* from here.                                                              *)
(***************************************************************************)
EXTENDS ValSync, SequenceTheorems, TLAPS

(***************************************************************************)
(* What the operations on the stores of a node keep: the entry of a        *)
(* transaction that is on record, in the database, in the cache and in the *)
(* queue.                                                                  *)
(***************************************************************************)
\* The coordinator confirms an operation for one epoch.
OneEpoch == \A o \in Ops : \A e, f \in Confirmed[o] : e = f

\* No operation is stale when the Delegate fork is there from the start.
RecordTx ==
  IF ForkSlotDelegate = 0 THEN Txs \cup {NoTx} ELSE Txs \cup {NoTx, InitTx}

\* A table whose entries are for the epochs of their operations.
Table(f) ==
  /\ IsTable(f)
  /\ \A o \in DOMAIN f : f[o].epoch \in Confirmed[o] /\ f[o].tx \in RecordTx

StoreOK(s) ==
  /\ DOMAIN s = {"queue", "cache", "rec", "list"}
  /\ Table(s.queue) /\ Table(s.cache) /\ Table(s.rec)
  /\ s.list \subseteq Ops

\* The store has t on record for the operation, and nothing else.
Recorded(s, o, t) ==
  /\ o \in DOMAIN s.rec /\ s.rec[o].tx = t
  /\ o \in DOMAIN s.cache => s.cache[o].tx = t
  /\ o \in DOMAIN s.queue => s.queue[o].tx = t

\* The store names t in some place as the transaction of the operation.
Names(s, o, t) ==
  \/ o \in DOMAIN s.rec /\ s.rec[o].tx = t
  \/ o \in DOMAIN s.cache /\ s.cache[o].tx = t
  \/ o \in DOMAIN s.queue /\ s.queue[o].tx = t

\* What a change of the store keeps: the records, and no transaction is named
\* that was not.
Keeps(s, r) ==
  /\ StoreOK(r)
  /\ \A o \in Ops, t \in Txs : Recorded(s, o, t) => Recorded(r, o, t)
  /\ \A o \in Ops, t \in Txs : Names(r, o, t) => Names(s, o, t)

-----------------------------------------------------------------------------
(* The store of one node.                                                   *)

\* Update of a table by a table is a table.
LEMMA UpdateTable ==
  ASSUME NEW f, NEW g, Table(f), Table(g)
  PROVE  /\ Table(Update(f, g))
         /\ DOMAIN Update(f, g) = DOMAIN f \cup DOMAIN g
         /\ \A x \in DOMAIN f \cup DOMAIN g :
              Update(f, g)[x] = IF x \in DOMAIN g THEN g[x] ELSE f[x]
BY DEF Table, IsTable, Update

\* So is a table with a new entry.
LEMMA PutTable ==
  ASSUME NEW f, Table(f), NEW o \in Ops,
         NEW v \in Entry, v.epoch \in Confirmed[o], v.tx \in RecordTx
  PROVE  /\ Table(Put(f, o, v))
         /\ DOMAIN Put(f, o, v) = DOMAIN f \cup {o}
         /\ \A x \in DOMAIN f \cup {o} : Put(f, o, v)[x] = IF x = o THEN v ELSE f[x]
BY DEF Table, IsTable, Put

\* So is a table without some of its entries.
LEMMA WithoutTable ==
  ASSUME NEW f, Table(f), NEW S
  PROVE  /\ Table(Without(f, S))
         /\ DOMAIN Without(f, S) = DOMAIN f \ S
         /\ \A x \in DOMAIN f \ S : Without(f, S)[x] = f[x]
BY DEF Table, IsTable, Without, Restrict

\* So is a part of a table.
LEMMA PartTable ==
  ASSUME NEW f, Table(f), NEW S \in SUBSET DOMAIN f
  PROVE  /\ Table(Restrict(f, S)) /\ DOMAIN Restrict(f, S) = S
         /\ \A x \in S : Restrict(f, S)[x] = f[x]
BY DEF Table, IsTable, Restrict

\* So is a table after an entry has lost its transaction.
LEMMA ClearedTable ==
  ASSUME NEW f, Table(f), NEW o \in DOMAIN f
  PROVE  LET g == [f EXCEPT ![o].tx = NoTx]
         IN  /\ Table(g) /\ DOMAIN g = DOMAIN f
             /\ g[o].tx = NoTx /\ \A x \in DOMAIN f \ {o} : g[x] = f[x]
<1> DEFINE g == [f EXCEPT ![o].tx = NoTx]
<1>1. DOMAIN g = DOMAIN f /\ \A x \in DOMAIN f \ {o} : g[x] = f[x]
  OBVIOUS
<1>2. /\ f[o] \in Entry /\ f[o].epoch \in Confirmed[o]
      /\ g[o] = [f[o] EXCEPT !.tx = NoTx]
  BY DEF Table, IsTable
<1>3. /\ g[o] \in Entry /\ g[o].epoch \in Confirmed[o]
      /\ g[o].tx = NoTx /\ g[o].tx \in RecordTx
  BY <1>2 DEF Entry, RecordTx
<1> QED
  BY <1>1, <1>3 DEF Table, IsTable

LEMMA StoreTables ==
  ASSUME NEW s, StoreOK(s)
  PROVE  /\ Table(s.queue) /\ DOMAIN s.queue \subseteq Ops
         /\ Table(s.cache) /\ DOMAIN s.cache \subseteq Ops
         /\ Table(s.rec) /\ DOMAIN s.rec \subseteq Ops
         /\ s.list \subseteq Ops
BY DEF StoreOK, Table, IsTable

\* SaveQueue keeps a transaction on record, in the queue if it is there.
LEMMA SaveQueueKeeps ==
  ASSUME NEW s, StoreOK(s)
  PROVE  Keeps(s, SaveQueue(s)) /\ SaveQueue(s).queue = s.queue
<1> DEFINE r == SaveQueue(s)
           u == Update(s.rec, s.queue)
<1>1. /\ r.queue = s.queue /\ r.cache = s.cache /\ r.list = DOMAIN s.queue
      /\ r.rec = u
      /\ DOMAIN r = {"queue", "cache", "rec", "list"}
  BY DEF SaveQueue, StoreOK
<1>2. /\ Table(u) /\ DOMAIN u = DOMAIN s.rec \cup DOMAIN s.queue
      /\ \A x \in DOMAIN s.rec \cup DOMAIN s.queue :
           u[x] = IF x \in DOMAIN s.queue THEN s.queue[x] ELSE s.rec[x]
  BY Zenon, StoreTables, UpdateTable
<1> HIDE DEF r, u
<1>3. StoreOK(r)
  BY <1>1, <1>2, StoreTables DEF StoreOK
<1>4. ASSUME NEW o \in Ops, NEW t \in Txs, Recorded(s, o, t)
      PROVE  Recorded(r, o, t)
  BY <1>1, <1>2, <1>4 DEF Recorded
<1>5. ASSUME NEW o \in Ops, NEW t \in Txs, Names(r, o, t)
      PROVE  Names(s, o, t)
  BY <1>1, <1>2, <1>5 DEF Names
<1>6. Keeps(s, r)
  BY <1>3, <1>4, <1>5 DEF Keeps
<1> QED
  BY <1>1, <1>6 DEF r

\* GetValidatorSyncData copies a record into the cache only if it has none.
LEMMA LookedKeeps ==
  ASSUME NEW s, StoreOK(s), NEW O \in SUBSET Ops
  PROVE  /\ Keeps(s, Looked(s, O))
         /\ Looked(s, O).queue = s.queue /\ Looked(s, O).rec = s.rec
         /\ \A o \in Ops : HasSaved(Looked(s, O), o) = HasSaved(s, o)
         /\ \A o \in Ops : HasSaved(s, o) => Saved(Looked(s, O), o) = Saved(s, o)
         /\ \A o \in O : HasSaved(s, o) => o \in DOMAIN Looked(s, O).cache
<1> DEFINE r == Looked(s, O)
           g == [o \in O \cap DOMAIN s.rec |-> s.rec[o]]
           u == Update(g, s.cache)
<1>1. /\ r.queue = s.queue /\ r.rec = s.rec /\ r.list = s.list /\ r.cache = u
      /\ DOMAIN r = {"queue", "cache", "rec", "list"}
  BY DEF Looked, StoreOK
<1>2. Table(g) /\ DOMAIN g = O \cap DOMAIN s.rec /\ \A o \in DOMAIN g : g[o] = s.rec[o]
  BY Zenon, StoreTables DEF Table, IsTable
<1> HIDE DEF g
<1>3. /\ Table(u) /\ DOMAIN u = DOMAIN g \cup DOMAIN s.cache
      /\ \A x \in DOMAIN g \cup DOMAIN s.cache :
           u[x] = IF x \in DOMAIN s.cache THEN s.cache[x] ELSE g[x]
  BY Zenon, <1>2, StoreTables, UpdateTable
<1> HIDE DEF r, u
<1>5. StoreOK(r)
  BY <1>1, <1>3, StoreTables DEF StoreOK
<1>6. ASSUME NEW o \in Ops, NEW t \in Txs, Recorded(s, o, t)
      PROVE  Recorded(r, o, t)
  BY Zenon, <1>1, <1>2, <1>3, <1>6 DEF Recorded
<1>7. \A o \in Ops : /\ HasSaved(r, o) = HasSaved(s, o)
                     /\ HasSaved(s, o) => Saved(r, o) = Saved(s, o)
                     /\ o \in O /\ HasSaved(s, o) => o \in DOMAIN r.cache
  BY <1>1, <1>2, <1>3 DEF HasSaved, Saved
<1>8. ASSUME NEW o \in Ops, NEW t \in Txs, Names(r, o, t)
      PROVE  Names(s, o, t)
  BY Zenon, <1>1, <1>2, <1>3, <1>8 DEF Names
<1>9. Keeps(s, r)
  BY <1>5, <1>6, <1>8 DEF Keeps
<1> QED
  BY <1>1, <1>7, <1>9 DEF r

\* Changes one after the other.
LEMMA KeepsTransitive ==
  ASSUME NEW s, NEW r, NEW q, Keeps(s, r), Keeps(r, q)
  PROVE  Keeps(s, q)
BY DEF Keeps

\* SetValidatorSyncData puts the transaction on record, and leaves the records
\* of other operations.
LEMMA SetRecords ==
  ASSUME NEW s, StoreOK(s), NEW o \in Ops,
         NEW v \in Entry, v.epoch \in Confirmed[o], v.tx \in Txs
  PROVE  LET r == SetValidatorSyncData(s, o, v)
         IN  /\ StoreOK(r) /\ Recorded(r, o, v.tx)
             /\ \A p \in Ops \ {o}, t \in Txs : Recorded(s, p, t) => Recorded(r, p, t)
             /\ \A p \in Ops, t \in Txs :
                  Names(r, p, t) => Names(s, p, t) \/ (p = o /\ t = v.tx)
<1> DEFINE c == Put(s.cache, o, v)
           d == Put(s.rec, o, v)
           s1 == [s EXCEPT !.cache = c, !.rec = d]
           q == Without(s.queue, {o})
           s2 == [s1 EXCEPT !.queue = q]
<1>1. v.tx # NoTx /\ v.tx \in RecordTx
  BY ValSyncAssumption DEF RecordTx
<1>2. /\ Table(c) /\ DOMAIN c = DOMAIN s.cache \cup {o}
      /\ \A x \in DOMAIN s.cache \cup {o} : c[x] = IF x = o THEN v ELSE s.cache[x]
  BY SMTT(30), <1>1, StoreTables, PutTable
<1>3. /\ Table(d) /\ DOMAIN d = DOMAIN s.rec \cup {o}
      /\ \A x \in DOMAIN s.rec \cup {o} : d[x] = IF x = o THEN v ELSE s.rec[x]
  BY SMTT(30), <1>1, StoreTables, PutTable
<1>4. /\ Table(q) /\ DOMAIN q = DOMAIN s.queue \ {o}
      /\ \A x \in DOMAIN s.queue \ {o} : q[x] = s.queue[x]
  BY Zenon, StoreTables, WithoutTable
<1> HIDE DEF c, d, q
<1>5. /\ s1.queue = s.queue /\ s1.list = s.list /\ s1.cache = c /\ s1.rec = d
      /\ DOMAIN s1 = {"queue", "cache", "rec", "list"}
  BY DEF StoreOK
<1>6. /\ s2.queue = q /\ s2.list = s.list /\ s2.cache = c /\ s2.rec = d
      /\ DOMAIN s2 = {"queue", "cache", "rec", "list"}
  BY Zenon, <1>5
<1>7. SetValidatorSyncData(s, o, v) = IF o \in DOMAIN s.queue THEN SaveQueue(s2) ELSE s1
  BY Zenon, <1>1, <1>5 DEF SetValidatorSyncData, c, d, q
<1> HIDE DEF s1, s2
<1>8. CASE o \notin DOMAIN s.queue
  <2>1. StoreOK(s1) /\ Recorded(s1, o, v.tx)
    BY Zenon, <1>2, <1>3, <1>5, <1>8, StoreTables DEF StoreOK, Recorded
  <2>2. ASSUME NEW p \in Ops \ {o}, NEW t \in Txs, Recorded(s, p, t)
        PROVE  Recorded(s1, p, t)
    BY Zenon, <1>2, <1>3, <1>5, <2>2 DEF Recorded
  <2>3. ASSUME NEW p \in Ops, NEW t \in Txs, Names(s1, p, t)
        PROVE  Names(s, p, t) \/ (p = o /\ t = v.tx)
    BY <1>2, <1>3, <1>5, <2>3 DEF Names
  <2> QED
    BY Zenon, <1>7, <1>8, <2>1, <2>2, <2>3
<1>9. CASE o \in DOMAIN s.queue
  <2>1. StoreOK(s2) /\ Recorded(s2, o, v.tx)
    BY Zenon, <1>2, <1>3, <1>4, <1>6, StoreTables DEF StoreOK, Recorded
  <2>2. ASSUME NEW p \in Ops \ {o}, NEW t \in Txs, Recorded(s, p, t)
        PROVE  Recorded(s2, p, t)
    BY Zenon, <1>2, <1>3, <1>4, <1>6, <2>2 DEF Recorded
  <2>3. ASSUME NEW p \in Ops, NEW t \in Txs, Names(s2, p, t)
        PROVE  Names(s, p, t) \/ (p = o /\ t = v.tx)
    BY <1>2, <1>3, <1>4, <1>6, <2>3 DEF Names
  <2>4. Keeps(s2, SaveQueue(s2))
    BY Zenon, <2>1, SaveQueueKeeps
  <2> QED
    BY Zenon, <1>7, <1>9, <2>1, <2>2, <2>3, <2>4 DEF Keeps
<1> QED
  BY Zenon, <1>8, <1>9

\* The validator data of a call.
IsData(data) ==
  DOMAIN data \subseteq Ops /\ \A o \in DOMAIN data : data[o] \in Confirmed[o]

\* AppendNotProcessedValidatorSyncData does not take an operation whose
\* transaction is on record: it comes with the epoch of the record.
LEMMA QueuedKeeps ==
  ASSUME OneEpoch, NEW s, StoreOK(s), NEW data, IsData(data)
  PROVE  Keeps(s, Queued(s, data))
<1> DEFINE new == [o \in Accepted(s, data) |-> [epoch |-> data[o], tx |-> NoTx]]
           q   == Update(s.queue, new)
           w   == Without(q, Handled(s, data))
           l   == Looked(s, Unqueued(s, data))
           r   == [l EXCEPT !.queue = w]
<1>1. Accepted(s, data) \subseteq DOMAIN data /\ Unqueued(s, data) \subseteq Ops
  BY DEF Accepted, Unqueued, IsData
<1>2. Table(new) /\ DOMAIN new = Accepted(s, data)
  <2>1. \A o \in DOMAIN data : data[o] \in Nat
    BY ValSyncAssumption DEF IsData
  <2> QED
    BY Zenon, <1>1, <2>1 DEF Table, IsTable, Entry, RecordTx, IsData
<1> HIDE DEF new
<1>3. /\ Table(q) /\ DOMAIN q = DOMAIN s.queue \cup DOMAIN new
      /\ \A x \in DOMAIN s.queue \cup DOMAIN new :
           q[x] = IF x \in DOMAIN new THEN new[x] ELSE s.queue[x]
  BY Zenon, <1>2, StoreTables, UpdateTable
<1> HIDE DEF q
<1>4. /\ Table(w) /\ DOMAIN w = DOMAIN q \ Handled(s, data)
      /\ \A x \in DOMAIN q \ Handled(s, data) : w[x] = q[x]
  BY Zenon, <1>3, WithoutTable
<1> HIDE DEF w
<1>5. Keeps(s, l) /\ l.queue = s.queue
  BY <1>1, LookedKeeps
<1> HIDE DEF l
<1>6. StoreOK(l) /\ DOMAIN l = {"queue", "cache", "rec", "list"}
  BY <1>5 DEF Keeps, StoreOK
<1>7. /\ r.queue = w /\ r.cache = l.cache /\ r.rec = l.rec /\ r.list = l.list
      /\ DOMAIN r = {"queue", "cache", "rec", "list"}
  BY <1>6
<1>8. Queued(s, data) = r
  BY DEF Queued, r, l, w, q, new
<1> HIDE DEF r
<1>9. StoreOK(r)
  BY Zenon, <1>4, <1>6, <1>7, StoreTables DEF StoreOK
<1>10. ASSUME NEW o \in Ops, NEW t \in Txs, Recorded(s, o, t)
       PROVE  Recorded(r, o, t)
  <2>1. HasSaved(s, o) /\ Saved(s, o).epoch \in Confirmed[o]
    BY Zenon, <1>10, StoreTables DEF Recorded, HasSaved, Saved, Table
  <2>2. o \notin Accepted(s, data)
    <3> SUFFICES ASSUME o \in Accepted(s, data) PROVE FALSE
      OBVIOUS
    <3>1. data[o] \in Confirmed[o] /\ Confirmed[o] \subseteq Nat
      BY <1>1, ValSyncAssumption DEF IsData
    <3>2. Saved(s, o).epoch > data[o]
      BY Zenon, <2>1 DEF Accepted
    <3>3. Saved(s, o).epoch = data[o]
      BY <2>1, <3>1 DEF OneEpoch
    <3> QED
      BY <3>1, <3>2, <3>3
  <2>3. Recorded(l, o, t)
    BY <1>5, <1>10 DEF Keeps
  <2> QED
    BY Zenon, <1>2, <1>3, <1>4, <1>5, <1>7, <2>2, <2>3 DEF Recorded
<1>11. ASSUME NEW o \in Ops, NEW t \in Txs, Names(r, o, t)
       PROVE  Names(s, o, t)
  <2>1. \A x \in DOMAIN new : new[x].tx # t
    BY ValSyncAssumption DEF new
  <2>2. Names(l, o, t)
    BY <1>3, <1>4, <1>5, <1>7, <1>11, <2>1 DEF Names
  <2> QED
    BY <1>5, <2>2 DEF Keeps
<1> QED
  BY Zenon, <1>8, <1>9, <1>10, <1>11 DEF Keeps

LEMMA AppendKeeps ==
  ASSUME OneEpoch, NEW s, StoreOK(s), NEW data, IsData(data)
  PROVE  Keeps(s, AppendNotProcessedValidatorSyncData(s, data))
<1>1. Keeps(s, Queued(s, data))
  BY QueuedKeeps
<1>2. Keeps(Queued(s, data), SaveQueue(Queued(s, data)))
  BY <1>1, SaveQueueKeeps DEF Keeps
<1>3. Keeps(s, SaveQueue(Queued(s, data)))
  BY <1>1, <1>2, KeepsTransitive
<1> QED
  BY <1>1, <1>3 DEF AppendNotProcessedValidatorSyncData

\* A restart reads the queue from the records.
LEMMA ReloadedKeeps ==
  ASSUME NEW s, StoreOK(s)
  PROVE  Keeps(s, Reloaded(s))
<1> DEFINE r == Reloaded(s)
           q == [o \in s.list \cap DOMAIN s.rec |-> s.rec[o]]
<1>1. /\ r.queue = q /\ r.cache = Empty /\ r.rec = s.rec /\ r.list = s.list
      /\ DOMAIN r = {"queue", "cache", "rec", "list"}
  BY DEF Reloaded, StoreOK
<1>2. Table(q) /\ DOMAIN q = s.list \cap DOMAIN s.rec /\ \A o \in DOMAIN q : q[o] = s.rec[o]
  BY Zenon, StoreTables DEF Table, IsTable
<1>3. Table(Empty) /\ DOMAIN Empty = {}
  BY DEF Table, IsTable, Empty
<1> HIDE DEF r, q
<1>4. StoreOK(r)
  BY <1>1, <1>2, <1>3, StoreTables DEF StoreOK
<1>5. ASSUME NEW o \in Ops, NEW t \in Txs, Recorded(s, o, t)
      PROVE  Recorded(r, o, t)
  BY Zenon, <1>1, <1>2, <1>3, <1>5 DEF Recorded
<1>6. ASSUME NEW o \in Ops, NEW t \in Txs, Names(r, o, t)
      PROVE  Names(s, o, t)
  BY <1>1, <1>2, <1>3, <1>6 DEF Names
<1>7. Keeps(s, r)
  BY <1>4, <1>5, <1>6 DEF Keeps
<1> QED
  BY <1>7 DEF r

\* GetPendingValidatorSyncData drops only operations without a transaction.
LEMMA DropStaleKeeps ==
  ASSUME NEW s, StoreOK(s)
  PROVE  Keeps(s, DropStale(s))
<1> DEFINE O == {o \in DOMAIN s.queue : s.queue[o].tx = NoTx}
           s1 == Looked(s, O)
           stale == [o \in Stale(s) |-> [s.queue[o] EXCEPT !.tx = InitTx]]
           c == Update(s1.cache, stale)
           d == Update(s1.rec, stale)
           q == Without(s1.queue, Stale(s))
           r == [s1 EXCEPT !.cache = c, !.rec = d, !.queue = q]
<1>1. Stale(s) \subseteq DOMAIN s.queue /\ O \subseteq Ops
  BY StoreTables DEF Stale, Waiting
<1>2. /\ Keeps(s, s1) /\ s1.queue = s.queue /\ StoreOK(s1)
  BY Zenon, <1>1, LookedKeeps DEF Keeps
<1>3. ASSUME Stale(s) # {} PROVE InitTx \in RecordTx
  <2>1. PICK o \in Stale(s) : TRUE
    BY <1>3
  <2>2. s.queue[o].epoch \in Nat
    BY <1>1, StoreTables DEF Table, IsTable, Entry
  <2> QED
    BY <2>1, <2>2 DEF Stale, RecordTx
<1>4. Table(stale) /\ DOMAIN stale = Stale(s)
  <2> SUFFICES ASSUME NEW o \in Stale(s)
               PROVE  /\ stale[o] \in Entry /\ stale[o].epoch \in Confirmed[o]
                      /\ stale[o].tx \in RecordTx
    BY Zenon, <1>1, StoreTables DEF Table, IsTable
  <2>1. s.queue[o] \in Entry /\ s.queue[o].epoch \in Confirmed[o]
    BY Zenon, <1>1, StoreTables DEF Table, IsTable
  <2> QED
    BY <1>3, <2>1 DEF Entry
<1> HIDE DEF O, s1, stale
<1>5. /\ Table(c) /\ DOMAIN c = DOMAIN s1.cache \cup DOMAIN stale
      /\ \A x \in DOMAIN s1.cache \cup DOMAIN stale :
           c[x] = IF x \in DOMAIN stale THEN stale[x] ELSE s1.cache[x]
  BY Zenon, <1>2, <1>4, StoreTables, UpdateTable
<1>6. /\ Table(d) /\ DOMAIN d = DOMAIN s1.rec \cup DOMAIN stale
      /\ \A x \in DOMAIN s1.rec \cup DOMAIN stale :
           d[x] = IF x \in DOMAIN stale THEN stale[x] ELSE s1.rec[x]
  BY Zenon, <1>2, <1>4, StoreTables, UpdateTable
<1>7. /\ Table(q) /\ DOMAIN q = DOMAIN s1.queue \ Stale(s)
      /\ \A x \in DOMAIN s1.queue \ Stale(s) : q[x] = s1.queue[x]
  BY Zenon, <1>2, StoreTables, WithoutTable
<1> HIDE DEF c, d, q
<1>8. /\ r.queue = q /\ r.cache = c /\ r.rec = d /\ r.list = s1.list
      /\ DOMAIN r = {"queue", "cache", "rec", "list"}
  BY <1>2 DEF StoreOK
<1>9. DropStale(s) = IF Stale(s) = {} THEN s1 ELSE SaveQueue(r)
  BY DEF DropStale, r, c, d, q, stale, s1, O
<1> HIDE DEF r
<1>10. StoreOK(r)
  BY Zenon, <1>2, <1>5, <1>6, <1>7, <1>8, StoreTables DEF StoreOK
<1>11. ASSUME NEW o \in Ops, NEW t \in Txs, Recorded(s, o, t)
       PROVE  Recorded(r, o, t)
  <2>1. o \notin Stale(s)
    BY Zenon, <1>11, ValSyncAssumption DEF Stale, Waiting, Recorded, HasSaved, Saved
  <2>2. Recorded(s1, o, t)
    BY Zenon, <1>2, <1>11 DEF Keeps
  <2> QED
    BY Zenon, <1>4, <1>5, <1>6, <1>7, <1>8, <2>1, <2>2 DEF Recorded
<1>12. ASSUME NEW o \in Ops, NEW t \in Txs, Names(r, o, t)
       PROVE  Names(s, o, t)
  <2>1. \A x \in DOMAIN stale : stale[x].tx # t
    <3> SUFFICES ASSUME NEW x \in Stale(s) PROVE stale[x].tx = InitTx
      BY Zenon, <1>4, ValSyncAssumption
    <3>1. s.queue[x] \in Entry
      BY Zenon, <1>1, StoreTables DEF Table, IsTable
    <3> QED
      BY <3>1 DEF stale, Entry
  <2>2. Names(s1, o, t)
    BY <1>5, <1>6, <1>7, <1>8, <1>12, <2>1 DEF Names
  <2> QED
    BY Zenon, <1>2, <2>2 DEF Keeps
<1>13. Keeps(s, SaveQueue(r))
  <2>1. Keeps(s, r)
    BY <1>10, <1>11, <1>12 DEF Keeps
  <2> QED
    BY Zenon, <1>10, <2>1, SaveQueueKeeps, KeepsTransitive
<1> QED
  BY Zenon, <1>2, <1>9, <1>13

\* RestoreValidatorSyncOp takes a transaction off the record only if it is the
\* one that ended with an error, or one that has not succeeded.
LEMMA RestoreKeeps ==
  ASSUME OneEpoch, NEW n \in Nodes, StoreOK(store[n]), NEW t, block[t].op \in Ops
  PROVE  LET r == RestoreValidatorSyncOp(n, t)
         IN  /\ StoreOK(r)
             /\ \A p \in Ops, u \in Txs :
                  /\ Recorded(store[n], p, u)
                  /\ p = block[t].op => u # t /\ res[n][u] = "ok"
                  => Recorded(r, p, u)
             /\ \A p \in Ops, u \in Txs : Names(r, p, u) => Names(store[n], p, u)
<1> DEFINE o == block[t].op
           s == Looked(store[n], {o})
           other == HasOtherTx(n, t)
           clear == \/ o \in DOMAIN s.queue /\ other
                    \/ o \in DOMAIN s.queue /\ s.queue[o].tx = t
           c == [s.cache EXCEPT ![o].tx = NoTx]
           q == IF clear THEN [s.queue EXCEPT ![o].tx = NoTx] ELSE s.queue
           reset == [s EXCEPT !.cache[o].tx = NoTx,
                              !.queue = IF clear THEN [@ EXCEPT ![o].tx = NoTx] ELSE @]
           data == [x \in {o} |-> Saved(s, o).epoch]
           stop == \/ ~IsForkSlotDelegate(block[t].slot) \/ ~HasSaved(s, o)
                   \/ Saved(s, o).tx \notin {NoTx, t} /\ ~other
           r == RestoreValidatorSyncOp(n, t)
<1>1. /\ Keeps(store[n], s) /\ StoreOK(s)
      /\ HasSaved(s, o) = HasSaved(store[n], o)
      /\ HasSaved(s, o) => Saved(s, o) = Saved(store[n], o) /\ o \in DOMAIN s.cache
  BY LookedKeeps DEF Keeps
<1>2. r = IF ~IsForkSlotDelegate(block[t].slot) THEN store[n]
          ELSE IF stop THEN s ELSE AppendNotProcessedValidatorSyncData(reset, data)
  BY Zenon DEF RestoreValidatorSyncOp
<1>3. CASE stop
  <2>1. r = store[n] \/ r = s
    BY Zenon, <1>2, <1>3
  <2> QED
    BY Zenon, <1>1, <2>1 DEF Keeps
<1>4. CASE ~stop
  <2>1. o \in DOMAIN s.cache /\ NoTx \in RecordTx
    BY Zenon, <1>1, <1>4 DEF RecordTx
  <2>2. /\ reset.cache = c /\ reset.queue = q /\ reset.rec = s.rec /\ reset.list = s.list
        /\ DOMAIN reset = {"queue", "cache", "rec", "list"}
    BY Zenon, <1>1 DEF StoreOK
  <2>3. /\ Table(c) /\ DOMAIN c = DOMAIN s.cache /\ c[o].tx = NoTx
        /\ \A x \in DOMAIN c \ {o} : c[x] = s.cache[x]
    BY Zenon, <1>1, <2>1, StoreTables, ClearedTable
  <2>4. /\ Table(q) /\ DOMAIN q = DOMAIN s.queue
        /\ o \in DOMAIN q => q[o].tx = NoTx \/ q[o] = s.queue[o]
        /\ \A x \in DOMAIN q \ {o} : q[x] = s.queue[x]
    <3>1. Table(s.queue)
      BY SMTT(30), <1>1, StoreTables
    <3>2. CASE clear
      BY ZenonT(60), <3>1, <3>2, ClearedTable
    <3>3. CASE ~clear
      BY Zenon, <3>1, <3>3
    <3> QED
      BY Zenon, <3>2, <3>3
  <2>5. IsData(data)
    BY Zenon, <1>1, <1>4, StoreTables DEF IsData, HasSaved, Saved, Table
  <2>6. ASSUME NEW p \in Ops, NEW u \in Txs, Recorded(store[n], p, u),
               p = o => u # t /\ res[n][u] = "ok"
        PROVE  p # o /\ Recorded(s, p, u)
    <3>1. Recorded(s, p, u)
      BY Zenon, <1>1, <2>6 DEF Keeps
    <3>2. ASSUME p = o PROVE FALSE
      <4>1. HasSaved(store[n], o) /\ Saved(store[n], o).tx = u
        BY Zenon, <2>6, <3>2 DEF Recorded, HasSaved, Saved
      <4>2. Successful(n, u)
        BY Zenon, <2>6, <3>2 DEF Successful
      <4> QED
        BY Zenon, <1>1, <1>4, <2>6, <3>2, <4>1, <4>2, ValSyncAssumption DEF HasOtherTx
    <3> QED
      BY Zenon, <3>1, <3>2
  <2> HIDE DEF s, c, q, reset, data, stop, r
  <2>7. StoreOK(reset)
    BY Zenon, <1>1, <2>2, <2>3, <2>4, StoreTables DEF StoreOK
  <2>8. ASSUME NEW p \in Ops \ {o}, NEW u \in Txs, Recorded(s, p, u)
        PROVE  Recorded(reset, p, u)
    BY Zenon, <2>2, <2>3, <2>4, <2>8 DEF Recorded
  <2>9. Keeps(reset, AppendNotProcessedValidatorSyncData(reset, data))
    BY <2>5, <2>7, AppendKeeps
  <2>10. r = AppendNotProcessedValidatorSyncData(reset, data)
    BY <1>2, <1>4 DEF stop
  <2>11. StoreOK(r)
    BY <2>9, <2>10 DEF Keeps
  <2>12. ASSUME NEW p \in Ops, NEW u \in Txs, Recorded(store[n], p, u),
                p = o => u # t /\ res[n][u] = "ok"
         PROVE  Recorded(r, p, u)
    <3>1. p # o /\ Recorded(s, p, u)
      BY <2>6, <2>12
    <3>2. Recorded(reset, p, u)
      BY <2>8, <3>1
    <3> QED
      BY <2>9, <2>10, <3>2 DEF Keeps
  <2>13. ASSUME NEW p \in Ops, NEW u \in Txs, Names(r, p, u)
         PROVE  Names(store[n], p, u)
    <3>1. Names(reset, p, u)
      BY <2>9, <2>10, <2>13 DEF Keeps
    <3>2. Names(s, p, u)
      BY <2>2, <2>3, <2>4, <3>1, ValSyncAssumption DEF Names
    <3> QED
      BY Zenon, <1>1, <3>2 DEF Keeps
  <2> QED
    BY Zenon, <2>11, <2>12, <2>13 DEF r
<1> QED
  BY Zenon, <1>3, <1>4

-----------------------------------------------------------------------------
(* The inductive invariant.                                                 *)

\* Blocks: a draft is its creator's and not inserted; the creator has inserted
\* what anyone has; what is ordered has been inserted.
BlocksInv ==
  /\ \A n \in Nodes : draft[n] # NoTx =>
       draft[n] \in DOMAIN block /\ block[draft[n]].by = n /\ draft[n] \notin seen[n]
  /\ \A n \in Nodes : \A t \in seen[n] : t \in seen[block[t].by]
  /\ \A i \in 1..Len(chain) : \E n \in Nodes : chain[i] \in seen[n]
  /\ \A t \in DOMAIN block : block[t].epoch \in Confirmed[block[t].op]

\* A transaction that has succeeded is on record.
SuccessInv ==
  \A n \in Nodes : \A t \in Txs :
    res[n][t] = "ok" => t \in seen[n] /\ Recorded(store[n], block[t].op, t)

StoresInv == \A n \in Nodes : StoreOK(store[n])

\* A store names only transactions that carry the operation and are inserted.
Own(s, S) ==
  \A o \in Ops, t \in Txs : Names(s, o, t) => t \in S /\ block[t].op = o

OwnInv == \A n \in Nodes : Own(store[n], seen[n])

OnceInv == TypeOK /\ StoresInv /\ BlocksInv /\ SuccessInv /\ OwnInv

LEMMA StoreTypes == ASSUME NEW s, StoreOK(s) PROVE IsStore(s)
BY DEF StoreOK, IsStore, Table

\* Two transactions of an operation cannot both be on record.
LEMMA OnceInvImplies == OnceInv => AtMostOnce
<1> SUFFICES ASSUME OnceInv, NEW n \in Nodes, NEW t \in DOMAIN block, NEW u \in DOMAIN block,
                    res[n][t] = "ok", res[n][u] = "ok", block[t].op = block[u].op
             PROVE  t = u
  BY Zenon DEF AtMostOnce
<1>1. t \in Txs /\ u \in Txs
  BY Zenon DEF OnceInv, TypeOK
<1>2. Recorded(store[n], block[t].op, t) /\ Recorded(store[n], block[u].op, u)
  BY Zenon, <1>1 DEF OnceInv, SuccessInv
<1> QED
  BY Zenon, <1>2 DEF Recorded

LEMMA OnceInit == Init => OnceInv
<1> SUFFICES ASSUME Init PROVE OnceInv
  OBVIOUS
<1> USE ValSyncAssumption DEF Init
<1>1. Table(Empty) /\ DOMAIN Empty = {}
  BY DEF Table, IsTable, Empty
<1>2. StoresInv
  BY <1>1 DEF StoresInv, StoreOK
<1>3. TypeOK
  <2>1. \A n \in Nodes : IsStore(store[n])
    BY Zenon, <1>2, StoreTypes DEF StoresInv
  <2>2. chain \in Seq(DOMAIN block) /\ Len(chain) = 0 /\ DOMAIN block = {}
    OBVIOUS
  <2>3. done \in [Nodes -> 0..Len(chain)] /\ seen \in [Nodes -> SUBSET DOMAIN block]
    BY <2>2
  <2>4. res \in [Nodes -> [Txs -> {"none", "ok", "failed", "error"}]]
    OBVIOUS
  <2>5. fate \in [Txs -> {"none", "apply", "error", "revert"}] /\ slot \in 0..MaxSlot
    OBVIOUS
  <2> QED
    BY Zenon, <2>1, <2>2, <2>3, <2>4, <2>5 DEF TypeOK
<1>4. BlocksInv
  BY DEF BlocksInv
<1>5. SuccessInv
  BY DEF SuccessInv
<1>6. OwnInv
  BY <1>1 DEF OwnInv, Own, Names
<1> QED
  BY Zenon, <1>2, <1>3, <1>4, <1>5, <1>6 DEF OnceInv

\* A store of node n that has on record what has succeeded there, and names
\* only transactions of the blocks S.
Safe(n, s, S) ==
  /\ StoreOK(s) /\ \A t \in Txs : res[n][t] = "ok" => Recorded(s, block[t].op, t)
  /\ Own(s, S)

LEMMA SafeStore ==
  ASSUME OnceInv, NEW n \in Nodes
  PROVE  Safe(n, store[n], seen[n])
BY DEF OnceInv, StoresInv, SuccessInv, OwnInv, Safe

LEMMA KeepsSafe ==
  ASSUME OnceInv, NEW n \in Nodes, NEW s, NEW S, Safe(n, s, S), NEW r, Keeps(s, r)
  PROVE  Safe(n, r, S)
<1>1. ASSUME NEW t \in Txs, res[n][t] = "ok"
      PROVE  Recorded(r, block[t].op, t)
  <2>1. block[t].op \in Ops
    BY <1>1 DEF OnceInv, SuccessInv, TypeOK
  <2> QED
    BY Zenon, <1>1, <2>1 DEF Safe, Keeps
<1>2. Own(r, S)
  BY Zenon DEF Safe, Keeps, Own
<1> QED
  BY Zenon, <1>1, <1>2 DEF Safe, Keeps

\* The steps that change the store of a node only.
LEMMA StoreStep ==
  ASSUME OnceInv, NEW n \in Nodes, NEW r, Safe(n, r, seen[n]),
         store' = [store EXCEPT ![n] = r],
         UNCHANGED <<slot, net, draft, seen, done, res>>
  PROVE  OnceInv'
<1> USE DEF OnceInv, net
<1>1. /\ DOMAIN store' = Nodes /\ store'[n] = r
      /\ \A m \in Nodes \ {n} : store'[m] = store[m]
  BY Zenon DEF TypeOK
<1>2. StoresInv'
  BY Zenon, <1>1 DEF StoresInv, Safe
<1>3. TypeOK'
  <2>1. \A m \in Nodes : IsStore(store'[m])
    BY Zenon, <1>2, StoreTypes DEF StoresInv
  <2> QED
    BY Zenon, <1>1, <2>1 DEF TypeOK
<1>4. BlocksInv'
  BY DEF BlocksInv
<1>5. SuccessInv'
  BY <1>1 DEF SuccessInv, Safe
<1>6. OwnInv'
  BY <1>1 DEF OwnInv, Own, Safe
<1> QED
  BY Zenon, <1>2, <1>3, <1>4, <1>5, <1>6

LEMMA SeqOver ==
  ASSUME NEW A, NEW B, NEW q \in Seq(A), \A i \in 1..Len(q) : q[i] \in B
  PROVE  q \in Seq(B)
OBVIOUS

LEMMA ShorterSeq ==
  ASSUME NEW A, NEW q \in Seq(A), Len(q) > 0
  PROVE  LET f == SubSeq(q, 1, Len(q) - 1)
         IN  f \in Seq(A) /\ Len(f) = Len(q) - 1 /\ \A i \in 1..Len(f) : f[i] = q[i]
<1> DEFINE f == SubSeq(q, 1, Len(q) - 1)
<1>1. 1 \in Int /\ Len(q) - 1 \in Int /\ \A i \in 1..(Len(q) - 1) : q[i] \in A
  OBVIOUS
<1>2. /\ f \in Seq(A)
      /\ Len(f) = IF 1 <= Len(q) - 1 THEN (Len(q) - 1) - 1 + 1 ELSE 0
      /\ \A i \in 1..((Len(q) - 1) - 1 + 1) : f[i] = q[1 + i - 1]
  BY <1>1, SubSeqProperties
<1>3. Len(q) \in Nat
  OBVIOUS
<1> HIDE DEF f
<1>4. Len(f) = Len(q) - 1
  <2>1. \A k \in Nat : k > 0 => (IF 1 <= k - 1 THEN (k - 1) - 1 + 1 ELSE 0) = k - 1
    OBVIOUS
  <2> QED
    BY Zenon, <1>2, <1>3, <2>1
<1>5. \A i \in 1..Len(f) : f[i] = q[i]
  BY <1>2, <1>3, <1>4
<1> QED
  BY <1>2, <1>4, <1>5 DEF f

\* A restart, with the blocks S inserted, keeps what anyone has inserted.
LEMMA RestartStep ==
  ASSUME OnceInv, NEW n \in Nodes, NEW S \in SUBSET DOMAIN block, NEW s, Safe(n, s, S),
         seen[n] \subseteq S, \A t \in S \ seen[n] : Arrives(n, t),
         RestartWith(n, s, S)
  PROVE  OnceInv'
<1> USE DEF OnceInv
<1> DEFINE r == Reloaded(s)
           lost == {draft[n]} \ S
<1>1. Safe(n, r, S)
  BY Zenon, ReloadedKeeps, KeepsSafe DEF Safe
<1>2. /\ DOMAIN store' = Nodes /\ store'[n] = r
      /\ \A m \in Nodes \ {n} : store'[m] = store[m]
  BY DEF TypeOK, RestartWith
<1> HIDE DEF r
<1>3. /\ seen' \in [Nodes -> SUBSET DOMAIN block] /\ seen'[n] = S
      /\ \A m \in Nodes \ {n} : seen'[m] = seen[m]
      /\ \A m \in Nodes : seen[m] \subseteq seen'[m]
  BY DEF TypeOK, RestartWith
<1>4. /\ DOMAIN block' = DOMAIN block \ lost
      /\ \A t \in DOMAIN block \ lost : block'[t] = block[t]
  BY DEF RestartWith, Restrict
<1>5. \A m \in Nodes : seen'[m] \cap lost = {}
  <2> SUFFICES ASSUME NEW m \in Nodes, NEW t \in seen'[m], t = draft[n], t \notin S
               PROVE  FALSE
    OBVIOUS
  <2>1. m # n /\ t \in seen[m] /\ t \in DOMAIN block
    BY <1>3
  <2>2. t # NoTx
    BY Zenon, <2>1, ValSyncAssumption DEF TypeOK
  <2>3. block[t].by = n
    BY <2>2 DEF BlocksInv
  <2> QED
    BY Zenon, <2>1, <2>3 DEF BlocksInv
<1>6. StoresInv'
  BY <1>1, <1>2 DEF StoresInv, Safe
<1>7. \A m \in Nodes : seen'[m] \subseteq DOMAIN block'
  BY Zenon, <1>3, <1>4, <1>5
<1>8. UNCHANGED <<slot, chain, fate, done, res>> /\ draft' = [draft EXCEPT ![n] = NoTx]
  BY DEF RestartWith
<1>9. \A i \in 1..Len(chain) : \E m \in Nodes : chain[i] \in seen'[m]
  BY Zenon, <1>3 DEF BlocksInv
<1>10. TypeOK'
  <2>1. \A m \in Nodes : IsStore(store'[m])
    BY <1>6, StoreTypes DEF StoresInv
  <2>2. chain' \in Seq(DOMAIN block')
    <3>1. \A i \in 1..Len(chain) : chain[i] \in DOMAIN block'
      BY <1>7, <1>9
    <3> QED
      BY Zenon, <1>8, <3>1, SeqOver DEF TypeOK
  <2>3. DOMAIN block' \subseteq Txs /\ \A t \in DOMAIN block' : block'[t] = block[t]
    BY Zenon, <1>4 DEF TypeOK
  <2>4. seen' \in [Nodes -> SUBSET DOMAIN block']
    BY <1>3, <1>7
  <2> QED
    BY Zenon, <1>2, <1>4, <1>8, <2>1, <2>2, <2>3, <2>4 DEF TypeOK
<1>11. BlocksInv'
  <2>1. ASSUME NEW m \in Nodes, draft'[m] # NoTx
        PROVE  /\ draft'[m] \in DOMAIN block' /\ block'[draft'[m]].by = m
               /\ draft'[m] \notin seen'[m]
    <3>1. m # n /\ draft'[m] = draft[m]
      BY Zenon, <1>8, <2>1 DEF TypeOK
    <3>2. draft[m] \in DOMAIN block /\ block[draft[m]].by = m /\ draft[m] \notin seen[m]
      BY Zenon, <2>1, <3>1 DEF BlocksInv
    <3>3. draft[m] # draft[n]
      BY Zenon, <2>1, <3>1, <3>2 DEF BlocksInv
    <3> QED
      BY Zenon, <1>3, <1>4, <3>1, <3>2, <3>3
  <2>2. ASSUME NEW m \in Nodes, NEW t \in seen'[m]
        PROVE  t \in seen'[block'[t].by]
    <3>1. t \in DOMAIN block' /\ block'[t] = block[t] /\ block[t].by \in Nodes
      BY <1>4, <1>7 DEF TypeOK
    <3>2. CASE t \in seen[m]
      BY <1>3, <3>1, <3>2 DEF BlocksInv
    <3>3. CASE t \notin seen[m]
      <4>1. m = n /\ Arrives(n, t)
        BY <1>3, <3>3
      <4>2. CASE draft[n] = t
        <5>1. t # NoTx
          BY Zenon, <3>1, <1>4, ValSyncAssumption DEF TypeOK
        <5> QED
          BY <3>1, <4>1, <4>2, <5>1 DEF BlocksInv
      <4>3. CASE t \in seen[block[t].by]
        BY <1>3, <3>1, <4>3
      <4> QED
        BY <4>1, <4>2, <4>3 DEF Arrives
    <3> QED
      BY <3>2, <3>3
  <2>3. \A t \in DOMAIN block' : block'[t].epoch \in Confirmed[block'[t].op]
    BY Zenon, <1>4 DEF BlocksInv
  <2> QED
    BY Zenon, <1>8, <1>9, <2>1, <2>2, <2>3 DEF BlocksInv
<1>12. SuccessInv'
  <2> SUFFICES ASSUME NEW m \in Nodes, NEW t \in Txs, res[m][t] = "ok"
               PROVE  t \in seen'[m] /\ Recorded(store'[m], block'[t].op, t)
    BY <1>8 DEF SuccessInv
  <2>1. t \in seen[m] /\ Recorded(store[m], block[t].op, t)
    BY DEF SuccessInv
  <2>2. t \in seen'[m] /\ block'[t] = block[t]
    BY Zenon, <1>3, <1>4, <1>7, <2>1
  <2> QED
    BY Zenon, <1>1, <1>2, <2>1, <2>2 DEF Safe
<1>13. OwnInv'
  <2> SUFFICES ASSUME NEW m \in Nodes, NEW o \in Ops, NEW t \in Txs, Names(store'[m], o, t)
               PROVE  t \in seen'[m] /\ block'[t].op = o
    BY Zenon DEF OwnInv, Own
  <2>1. t \in seen'[m] /\ block[t].op = o
    BY SMTT(30), <1>1, <1>2, <1>3 DEF OwnInv, Own, Safe
  <2> QED
    BY Zenon, <1>4, <1>7, <2>1
<1> QED
  BY Zenon, <1>6, <1>10, <1>11, <1>12, <1>13

\* ValidateValidatorSyncOp refuses a transaction when another one of its
\* operation has succeeded.
LEMMA ValidIsFirst ==
  ASSUME OnceInv, NEW n \in Nodes, NEW t \in DOMAIN block, ValidateValidatorSyncOp(n, t),
         NEW u \in Txs, u # t, res[n][u] = "ok"
  PROVE  block[u].op # block[t].op
<1> SUFFICES ASSUME block[u].op = block[t].op PROVE FALSE
  BY Zenon
<1>1. Recorded(store[n], block[t].op, u)
  BY Zenon DEF OnceInv, SuccessInv
<1>2. Saved(store[n], block[t].op).tx = u
  BY Zenon, <1>1 DEF Recorded, Saved
<1>3. Successful(n, u) /\ u # NoTx
  BY Zenon, ValSyncAssumption DEF Successful
<1> QED
  BY <1>2, <1>3 DEF ValidateValidatorSyncOp

LEMMA TxEntryOK ==
  ASSUME OnceInv, NEW t \in DOMAIN block
  PROVE  /\ block[t].op \in Ops /\ t \in Txs /\ TxEntry(t).tx = t
         /\ TxEntry(t) \in Entry /\ TxEntry(t).epoch \in Confirmed[block[t].op]
BY Zenon DEF OnceInv, TypeOK, BlocksInv, TxEntry, Entry

\* A valid transaction on record keeps the records of those that succeeded.
LEMMA ValidKeeps ==
  ASSUME OnceInv, NEW n \in Nodes, NEW t \in DOMAIN block, ValidateValidatorSyncOp(n, t),
         NEW s, Keeps(store[n], s)
  PROVE  LET r == SetValidatorSyncData(s, block[t].op, TxEntry(t))
         IN  /\ StoreOK(r) /\ Recorded(r, block[t].op, t)
             /\ \A u \in Txs : res[n][u] = "ok" => Recorded(r, block[u].op, u)
             /\ Own(r, seen[n] \cup {t})
<1> DEFINE r == SetValidatorSyncData(s, block[t].op, TxEntry(t))
<1>1. StoreOK(s)
  BY Zenon DEF Keeps
<1>2. /\ StoreOK(r) /\ Recorded(r, block[t].op, t)
      /\ \A p \in Ops \ {block[t].op}, u \in Txs : Recorded(s, p, u) => Recorded(r, p, u)
      /\ \A p \in Ops, u \in Txs :
           Names(r, p, u) => Names(s, p, u) \/ (p = block[t].op /\ u = t)
  BY <1>1, TxEntryOK, SetRecords
<1> HIDE DEF r
<1>3. ASSUME NEW u \in Txs, res[n][u] = "ok" PROVE Recorded(r, block[u].op, u)
  <2>1. CASE u = t
    BY <1>2, <2>1
  <2>2. CASE u # t
    <3>1. block[u].op # block[t].op
      BY <1>3, <2>2, ValidIsFirst
    <3>2. u \in DOMAIN block /\ Recorded(store[n], block[u].op, u)
      BY <1>3 DEF OnceInv, TypeOK, SuccessInv
    <3>3. block[u].op \in Ops
      BY <3>2, TxEntryOK
    <3>4. Recorded(s, block[u].op, u)
      BY <3>2, <3>3 DEF Keeps
    <3> QED
      BY Zenon, <1>2, <3>1, <3>3, <3>4
  <2> QED
    BY Zenon, <2>1, <2>2
<1>4. Own(r, seen[n] \cup {t})
  BY <1>2 DEF Own, OnceInv, OwnInv, Keeps
<1> QED
  BY Zenon, <1>2, <1>3, <1>4 DEF r

LEMMA InsertStep ==
  ASSUME OnceInv, NEW n \in Nodes, NEW t \in Txs, Insert(n, t)
  PROVE  OnceInv'
<1> USE DEF OnceInv
<1> DEFINE r == HandleBlockValidatorSyncTxs(n, t)
<1>1. /\ t \in DOMAIN block \ seen[n] /\ Arrives(n, t)
      /\ UNCHANGED <<slot, net, done, res>> /\ UNCHANGED <<block, chain, fate>>
  BY Zenon DEF Insert, Arrives, net
<1>2. Keeps(store[n], store[n]) /\ Keeps(store[n], Looked(store[n], {block[t].op}))
  <2>1. StoreOK(store[n]) /\ {block[t].op} \subseteq Ops
    BY Zenon, <1>1, TxEntryOK DEF StoresInv
  <2> QED
    BY Zenon, <2>1, LookedKeeps DEF Keeps
<1>3. /\ StoreOK(r) /\ Own(r, seen[n] \cup {t})
      /\ \A u \in Txs : res[n][u] = "ok" => Recorded(r, block[u].op, u)
  <2>1. CASE ValidateValidatorSyncOp(n, t)
    BY Zenon, <1>1, <1>2, <2>1, ValidKeeps DEF HandleBlockValidatorSyncTxs
  <2>2. CASE ~ValidateValidatorSyncOp(n, t)
    <3>1. r = Looked(store[n], {block[t].op})
      BY Zenon, <2>2 DEF HandleBlockValidatorSyncTxs
    <3>2. ASSUME NEW u \in Txs, res[n][u] = "ok" PROVE Recorded(r, block[u].op, u)
      <4>1. u \in DOMAIN block /\ Recorded(store[n], block[u].op, u)
        BY Zenon, <3>2 DEF TypeOK, SuccessInv
      <4> QED
        BY Zenon, <1>2, <3>1, <4>1, TxEntryOK DEF Keeps
    <3>3. Own(store[n], seen[n])
      BY DEF OwnInv
    <3>4. Own(r, seen[n] \cup {t})
      BY ZenonT(60), <1>2, <3>1, <3>3 DEF Keeps, Own
    <3> QED
      BY Zenon, <1>2, <3>1, <3>2, <3>4 DEF Keeps
  <2> QED
    BY <2>1, <2>2
<1>4. /\ DOMAIN store' = Nodes /\ store'[n] = r
      /\ \A m \in Nodes \ {n} : store'[m] = store[m]
  BY DEF TypeOK, Insert
<1> HIDE DEF r
<1>5. /\ seen' \in [Nodes -> SUBSET DOMAIN block] /\ seen'[n] = seen[n] \cup {t}
      /\ \A m \in Nodes \ {n} : seen'[m] = seen[m]
  BY Zenon, <1>1 DEF TypeOK, Insert
<1>6. /\ draft' \in [Nodes -> Txs \cup {NoTx}]
      /\ draft'[n] = IF draft[n] = t THEN NoTx ELSE draft[n]
      /\ \A m \in Nodes \ {n} : draft'[m] = draft[m]
  BY DEF TypeOK, Insert
<1>7. StoresInv'
  BY Zenon, <1>3, <1>4 DEF StoresInv
<1>8. TypeOK'
  <2>1. \A m \in Nodes : IsStore(store'[m])
    BY Zenon, <1>7, StoreTypes DEF StoresInv
  <2> QED
    BY Zenon, <1>1, <1>4, <1>5, <1>6, <2>1 DEF TypeOK
<1>9. BlocksInv'
  <2>1. ASSUME NEW m \in Nodes, draft'[m] # NoTx
        PROVE  /\ draft'[m] \in DOMAIN block /\ block[draft'[m]].by = m
               /\ draft'[m] \notin seen'[m]
    BY <1>5, <1>6, <2>1 DEF BlocksInv
  <2>2. ASSUME NEW m \in Nodes, NEW u \in seen'[m]
        PROVE  u \in seen'[block[u].by]
    <3>1. CASE u \in seen[m]
      <4>1. block[u].by \in Nodes
        BY <3>1 DEF TypeOK
      <4> QED
        BY Zenon, <1>5, <3>1, <4>1 DEF BlocksInv
    <3>2. CASE u \notin seen[m]
      <4>1. u = t /\ m = n /\ t # NoTx
        BY Zenon, <1>5, <3>2, ValSyncAssumption
      <4>2. CASE draft[n] = t
        BY Zenon, <1>5, <4>1, <4>2 DEF BlocksInv
      <4>3. CASE t \in seen[block[t].by]
        BY Zenon, <1>1, <1>5, <4>1, <4>3 DEF TypeOK
      <4> QED
        BY Zenon, <1>1, <4>2, <4>3 DEF Arrives
    <3> QED
      BY <3>1, <3>2
  <2>3. \A i \in 1..Len(chain) : \E m \in Nodes : chain[i] \in seen'[m]
    BY ZenonT(60), <1>5 DEF BlocksInv
  <2> QED
    BY Zenon, <1>1, <2>1, <2>2, <2>3 DEF BlocksInv
<1>10. SuccessInv'
  BY Zenon, <1>1, <1>3, <1>4, <1>5 DEF SuccessInv
<1>11. OwnInv'
  BY <1>1, <1>3, <1>4, <1>5 DEF OwnInv, Own
<1> QED
  BY Zenon, <1>7, <1>8, <1>9, <1>10, <1>11

=============================================================================
