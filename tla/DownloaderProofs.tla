-------------------------- MODULE DownloaderProofs --------------------------
(***************************************************************************)
(* NothingLeftBehind of Downloader for any threads, peers, kinds of        *)
(* packets and plans.                                                      *)
(***************************************************************************)
EXTENDS Downloader, FiniteSetTheorems, TLAPS

(***************************************************************************)
(* Where a synchronisation is answers for what it has taken.  Fetching:    *)
(* the use of the peer by the fetch loop.  Downloading: a download, which  *)
(* clears dagSyncing, unless it is one of MainSync, when it leaves.        *)
(* Cancelling: it has opened a cancel channel and will call Cancel.        *)
(***************************************************************************)
Fetching == {"select", "redirect", "drain", "send"}
Downloading == Fetching \cup {"fetch", "leave"}
Cancelling == Downloading \cup {"base", "enter", "more", "cancel"}
PCs == Cancelling \cup {"idle", "lock", "check", "claim", "gate", "swap", "clear",
                        "unclaim", "unlock", "reset", "next", "end"}

Record ==
  [pc : PCs, sort : Sorts \cup {None}, peer : Peers \cup {None}, step : Nat,
   todo : SUBSET Peers, holds : Nat, watch : Watched, packet : Peers \cup {None},
   kind : Kinds \cup {None}, ref : {"open", "closed"}]

Channels == [procCount : Nat, buffer : [Kinds -> Peers \cup {None}]]

SetsDag(r) == r.sort # "main" /\ r.pc \in Downloading
SetsFin(r) == r.sort # "parents" /\ r.pc \in Cancelling \cup {"clear"}
Locks(r) == r.sort = "parents" /\ r.pc \in Cancelling \cup {"check", "claim", "unclaim", "unlock"}
Claims(r) == r.sort = "parents" /\ r.pc \in Cancelling \cup {"unclaim"}

\* A synchronisation is where its sort may be, and uses its peer once for the
\* whole of SyncUnloadedParents and once for a fetch.
RecordOK(r) ==
  /\ r.pc # "idle" => r.sort \in Sorts /\ r.peer \in Peers
  /\ r.pc \in {"lock", "check", "claim", "unclaim", "unlock", "reset"} => r.sort = "parents"
  /\ r.pc \in {"gate", "swap", "next", "end", "clear"} => r.sort \in {"main", "head"}
  /\ r.pc = "base" => r.sort = "main"
  /\ r.pc = "more" => r.sort = "head"
  /\ r.pc = "enter" => r.sort # "main"
  /\ r.pc \in {"redirect", "drain", "send"} => r.packet \in Peers
  /\ r.holds = (IF Claims(r) THEN 1 ELSE 0) + (IF r.pc \in Fetching THEN 1 ELSE 0)

\* The uses of a peer.
Uses(p) == {u \in Threads \X {1, 2} : thread[u[1]].peer = p /\ u[2] <= thread[u[1]].holds}

TypeInv ==
  /\ thread \in [Threads -> Record]
  /\ chans \in [Peers -> Channels]
  /\ common \in [Kinds -> Peers \cup {None}]
  /\ \A t \in Threads : RecordOK(thread[t])

FlagInv ==
  /\ dagSyncing => \E t \in Threads : SetsDag(thread[t])
  /\ finSyncing => \E t \in Threads : SetsFin(thread[t])
  /\ cancelCh = "open" => \E t \in Threads : thread[t].pc \in Cancelling
  /\ hashesLock # None => hashesLock \in Threads /\ Locks(thread[hashesLock])

CountInv == \A p \in Peers : chans[p].procCount = Cardinality(Uses(p))

SyncInv == TypeInv /\ FlagInv /\ CountInv

-----------------------------------------------------------------------------
(* A step of one thread: what it leaves alone of the others.                *)

Others(t) ==
  \A u \in Threads \ {t} :
    /\ thread'[u].pc = thread[u].pc /\ thread'[u].sort = thread[u].sort
    /\ thread'[u].peer = thread[u].peer /\ thread'[u].holds = thread[u].holds
    /\ thread'[u].packet = thread[u].packet

Becomes(t, r) == thread' \in [Threads -> Record] /\ Others(t) /\ thread'[t] = r

\* A change of one record.
LEMMA OneRecord ==
  ASSUME TypeInv, NEW t \in Threads, NEW r \in Record, thread' = [thread EXCEPT ![t] = r]
  PROVE  Becomes(t, r)
BY DEF TypeInv, Becomes, Others

\* The records stay well-formed.
LEMMA RecordsOK ==
  ASSUME TypeInv, NEW t \in Threads, NEW r, Becomes(t, r), RecordOK(r)
  PROVE  \A u \in Threads : RecordOK(thread'[u])
BY DEF TypeInv, Becomes, Others, RecordOK, Claims

\* The number of uses is finite.
LEMMA UsesFinite ==
  ASSUME DownloaderConstants, NEW p
  PROVE  IsFiniteSet(Uses(p)) /\ Cardinality(Uses(p)) \in Nat
<1>1. IsFiniteSet({1, 2})
  <2>1. IsFiniteSet({1}) /\ IsFiniteSet({2})
    BY Zenon, FS_Singleton
  <2>2. IsFiniteSet({1} \cup {2})
    BY <2>1, FS_Union, Zenon
  <2>3. {1, 2} = {1} \cup {2}
    OBVIOUS
  <2> QED BY <2>2, <2>3
<1>2. IsFiniteSet(Threads \X {1, 2})
  BY <1>1, FS_Product DEF DownloaderConstants
<1>3. Uses(p) \in SUBSET (Threads \X {1, 2})
  BY DEF Uses
<1> QED BY <1>2, <1>3, FS_Subset, FS_CardinalityType

\* The uses when a thread keeps its uses, adds one or drops one.
LEMMA UsesKept ==
  ASSUME TypeInv, NEW t \in Threads, NEW r, Becomes(t, r), r.holds = thread[t].holds,
         r.peer = thread[t].peer \/ r.holds = 0, NEW p
  PROVE  Uses(p)' = Uses(p)
<1>1. \A u \in Threads : thread'[u].holds = thread[u].holds
      /\ (thread'[u].peer = thread[u].peer \/ thread[u].holds = 0)
  BY DEF Becomes, Others
<1>2. \A u \in Threads, i \in {1, 2} : thread[u].holds = 0 => ~(i <= thread[u].holds)
  OBVIOUS
<1> QED BY <1>1, <1>2 DEF Uses

LEMMA UsesMore ==
  ASSUME TypeInv, NEW t \in Threads, NEW r, Becomes(t, r), r.peer = thread[t].peer,
         r.holds = thread[t].holds + 1, r.holds \in {1, 2}, NEW p
  PROVE  /\ p # r.peer => Uses(p)' = Uses(p)
         /\ p = r.peer => /\ Uses(p)' = Uses(p) \cup {<<t, r.holds>>}
                          /\ <<t, r.holds>> \notin Uses(p)
<1>1. thread[t].holds \in Nat
  BY DEF TypeInv, Record
<1>2. \A i \in {1, 2} : i <= r.holds <=> i <= thread[t].holds \/ i = r.holds
  BY <1>1
<1>3. \A u \in Threads \ {t} : thread'[u].holds = thread[u].holds
                               /\ thread'[u].peer = thread[u].peer
  BY DEF Becomes, Others
<1>4. thread'[t].holds = r.holds /\ thread'[t].peer = thread[t].peer /\ ~(r.holds <= thread[t].holds)
  BY <1>1 DEF Becomes
<1> QED BY <1>2, <1>3, <1>4 DEF Uses

LEMMA UsesLess ==
  ASSUME TypeInv, NEW t \in Threads, NEW r, Becomes(t, r), r.peer = thread[t].peer,
         r.holds = thread[t].holds - 1, thread[t].holds \in {1, 2}, NEW p
  PROVE  /\ p # r.peer => Uses(p)' = Uses(p)
         /\ p = r.peer => /\ Uses(p)' = Uses(p) \ {<<t, thread[t].holds>>}
                          /\ <<t, thread[t].holds>> \in Uses(p)
<1>1. \A i \in {1, 2} : i <= r.holds <=> i <= thread[t].holds /\ i # thread[t].holds
  OBVIOUS
<1>2. \A u \in Threads \ {t} : thread'[u].holds = thread[u].holds
                               /\ thread'[u].peer = thread[u].peer
  BY DEF Becomes, Others
<1>3. thread'[t].holds = r.holds /\ thread'[t].peer = thread[t].peer
  BY DEF Becomes
<1> QED BY <1>1, <1>2, <1>3 DEF Uses

\* procCount goes with the uses.
LEMMA CountKept ==
  ASSUME TypeInv, CountInv, NEW t \in Threads, NEW r, Becomes(t, r),
         r.holds = thread[t].holds, r.peer = thread[t].peer \/ r.holds = 0,
         \A p \in Peers : chans'[p].procCount = chans[p].procCount
  PROVE  CountInv'
<1>1. \A p \in Peers : Uses(p)' = Uses(p)
  BY UsesKept
<1> QED BY <1>1 DEF CountInv

LEMMA CountMore ==
  ASSUME DownloaderConstants, TypeInv, CountInv, NEW t \in Threads, NEW r, Becomes(t, r),
         r.peer = thread[t].peer, r.holds = thread[t].holds + 1, r.holds \in {1, 2},
         \A p \in Peers : chans'[p].procCount =
                            IF p = r.peer THEN chans[p].procCount + 1 ELSE chans[p].procCount
  PROVE  CountInv'
<1> SUFFICES ASSUME NEW p \in Peers PROVE chans'[p].procCount = Cardinality(Uses(p)')
  BY DEF CountInv
<1>0. /\ p # r.peer => Uses(p)' = Uses(p)
      /\ p = r.peer => /\ Uses(p)' = Uses(p) \cup {<<t, r.holds>>}
                       /\ <<t, r.holds>> \notin Uses(p)
  BY UsesMore, Zenon
<1>1. CASE p # r.peer
  <2>1. Uses(p)' = Uses(p)
    BY <1>0, <1>1, Zenon
  <2> QED BY Zenon, <1>1, <2>1 DEF CountInv
<1>2. CASE p = r.peer
  <2>1. Uses(p)' = Uses(p) \cup {<<t, r.holds>>} /\ <<t, r.holds>> \notin Uses(p)
    BY <1>0, <1>2, Zenon
  <2>0. IsFiniteSet(Uses(p))
    BY UsesFinite, Zenon
  <2>2. Cardinality(Uses(p) \cup {<<t, r.holds>>}) = Cardinality(Uses(p)) + 1
    BY <2>0, <2>1, FS_AddElement, Zenon
  <2> QED BY Zenon, <1>2, <2>1, <2>2 DEF CountInv
<1> QED BY <1>1, <1>2

LEMMA CountLess ==
  ASSUME DownloaderConstants, TypeInv, CountInv, NEW t \in Threads, NEW r, Becomes(t, r),
         r.peer = thread[t].peer, r.holds = thread[t].holds - 1, thread[t].holds \in {1, 2},
         \A p \in Peers :
           chans'[p].procCount = IF p = r.peer THEN Decr(chans[p]).procCount
                                 ELSE chans[p].procCount
  PROVE  CountInv'
<1> SUFFICES ASSUME NEW p \in Peers PROVE chans'[p].procCount = Cardinality(Uses(p)')
  BY DEF CountInv
<1>0. /\ p # r.peer => Uses(p)' = Uses(p)
      /\ p = r.peer => /\ Uses(p)' = Uses(p) \ {<<t, thread[t].holds>>}
                       /\ <<t, thread[t].holds>> \in Uses(p)
  BY UsesLess, Zenon
<1>1. CASE p # r.peer
  <2>1. Uses(p)' = Uses(p)
    BY <1>0, <1>1, Zenon
  <2> QED BY <1>1, <2>1 DEF CountInv
<1>2. CASE p = r.peer
  <2>1. Uses(p)' = Uses(p) \ {<<t, thread[t].holds>>} /\ <<t, thread[t].holds>> \in Uses(p)
    BY <1>0, <1>2, Zenon
  <2>0. IsFiniteSet(Uses(p))
    BY UsesFinite, Zenon
  <2>2. Cardinality(Uses(p) \ {<<t, thread[t].holds>>}) = Cardinality(Uses(p)) - 1
    BY <2>0, <2>1, FS_RemoveElement, Zenon
  <2>3. Cardinality(Uses(p)) \in Nat /\ Cardinality(Uses(p)) # 0
    BY Zenon, <2>1, UsesFinite, FS_EmptySet
  <2>4. chans[p] \in Channels /\ chans[p].procCount = Cardinality(Uses(p))
    BY DEF TypeInv, CountInv
  <2>5. Decr(chans[p]).procCount = chans[p].procCount - 1
    BY <2>3, <2>4 DEF Decr, NoChans, Channels
  <2> QED BY Zenon, <1>2, <2>1, <2>2, <2>4, <2>5
<1> QED BY <1>1, <1>2

\* The flags go with the threads that answer for them.
LEMMA FlagStep ==
  ASSUME FlagInv, NEW t \in Threads, NEW r, Becomes(t, r),
         dagSyncing' => SetsDag(r) \/ (dagSyncing /\ ~SetsDag(thread[t])),
         finSyncing' => SetsFin(r) \/ (finSyncing /\ ~SetsFin(thread[t])),
         cancelCh' = "open" => \/ r.pc \in Cancelling
                               \/ cancelCh = "open" /\ thread[t].pc \notin Cancelling,
         hashesLock' # None => \/ hashesLock' = t /\ Locks(r)
                               \/ hashesLock' = hashesLock /\ hashesLock # t
  PROVE  FlagInv'
<1>1. \A u \in Threads \ {t} : /\ SetsDag(thread'[u]) <=> SetsDag(thread[u])
                               /\ SetsFin(thread'[u]) <=> SetsFin(thread[u])
                               /\ Locks(thread'[u]) <=> Locks(thread[u])
                               /\ thread'[u].pc = thread[u].pc
  BY Zenon DEF Becomes, Others, SetsDag, SetsFin, Locks
<1>2. thread'[t] = r
  BY DEF Becomes
<1>3. dagSyncing' => \E u \in Threads : SetsDag(thread'[u])
  BY Zenon, <1>1, <1>2 DEF FlagInv
<1>4. finSyncing' => \E u \in Threads : SetsFin(thread'[u])
  BY <1>1, <1>2 DEF FlagInv
<1>5. cancelCh' = "open" => \E u \in Threads : thread'[u].pc \in Cancelling
  BY Zenon, <1>1, <1>2 DEF FlagInv
<1>6. hashesLock' # None => hashesLock' \in Threads /\ Locks(thread'[hashesLock'])
  BY Zenon, <1>1, <1>2 DEF FlagInv
<1> QED BY Zenon, <1>3, <1>4, <1>5, <1>6 DEF FlagInv, SetsDag, SetsFin, Locks

-----------------------------------------------------------------------------
(* The steps, by what they change.                                          *)

\* Where EnterBusy and Leave go.
AfterDownload(t) == IF thread[t].sort = "head" THEN "more" ELSE "cancel"

\* Where a thread may go without the flags being touched.
Keeps(w, r) ==
  /\ SetsDag(w) => SetsDag(r)
  /\ SetsFin(w) => SetsFin(r)
  /\ w.pc \in Cancelling => r.pc \in Cancelling
  /\ Locks(w) => Locks(r)

\* A thread goes on and keeps its use of the peers; buffers may change.
LEMMA QuietStep ==
  ASSUME SyncInv, NEW t \in Threads, NEW r, Becomes(t, r), RecordOK(r), Keeps(thread[t], r),
         r.holds = thread[t].holds, r.peer = thread[t].peer \/ r.holds = 0,
         UNCHANGED <<flags, cancelCh>>, chans' \in [Peers -> Channels],
         \A p \in Peers : chans'[p].procCount = chans[p].procCount,
         common' \in [Kinds -> Peers \cup {None}]
  PROVE  SyncInv'
<1>1. TypeInv'
  <2>1. \A u \in Threads : RecordOK(thread'[u])
    BY RecordsOK DEF SyncInv
  <2> QED BY <2>1 DEF TypeInv, Becomes
<1>2. FlagInv'
  <2>1. FlagInv /\ hashesLock' = hashesLock /\ (hashesLock # None => Locks(thread[hashesLock]))
    BY Zenon DEF SyncInv, FlagInv, flags
  <2>2. dagSyncing' => SetsDag(r) \/ (dagSyncing /\ ~SetsDag(thread[t]))
    BY DEF Keeps, flags
  <2>3. finSyncing' => SetsFin(r) \/ (finSyncing /\ ~SetsFin(thread[t]))
    BY Zenon DEF Keeps, flags
  <2>4. cancelCh' = "open" => \/ r.pc \in Cancelling
                              \/ cancelCh = "open" /\ thread[t].pc \notin Cancelling
    BY DEF Keeps
  <2>5. hashesLock' # None => \/ hashesLock' = t /\ Locks(r)
                              \/ hashesLock' = hashesLock /\ hashesLock # t
    BY <2>1 DEF Keeps
  <2> QED BY Zenon, <2>1, <2>2, <2>3, <2>4, <2>5, FlagStep
<1>3. CountInv'
  BY CountKept DEF SyncInv
<1> QED BY Zenon, <1>1, <1>2, <1>3 DEF SyncInv

\* The same work at another place.
SameJob(w, r) == r.sort = w.sort /\ r.peer = w.peer /\ r.holds = w.holds /\ r.packet = w.packet

LEMMA Gone ==
  ASSUME TypeInv, NEW t \in Threads, NEW pc \in PCs, Goto(t, pc)
  PROVE  \E r \in Record : /\ thread' = [thread EXCEPT ![t] = r]
                           /\ r.pc = pc /\ SameJob(thread[t], r)
<1> DEFINE r == [thread[t] EXCEPT !.pc = pc]
<1>1. thread[t] \in Record
  BY DEF TypeInv
<1>2. r \in Record /\ r.pc = pc /\ SameJob(thread[t], r)
  BY Zenon, <1>1 DEF Record, SameJob
<1>3. thread' = [thread EXCEPT ![t] = r]
  BY Zenon DEF Goto, TypeInv
<1> QED BY Zenon, <1>2, <1>3

\* Gates, requests that fail, redirections, the way to the next peer and the
\* return.
LEMMA QuietActions ==
  ASSUME DownloaderConstants, SyncInv, NEW t \in Threads,
         \/ Start(t) \/ AlreadyInserted(t) \/ PeerBusy(t) \/ PeerFree(t) \/ GateBusy(t)
         \/ GateFree(t) \/ BaseFound(t) \/ InvalidBaseSpine(t) \/ EnterBusy(t)
         \/ RequestFails(t) \/ Written(t) \/ NextPeer(t) \/ MorePeers(t) \/ AllDownloaded(t)
         \/ Return(t) \/ Take(t) \/ NotSyncPeer(t) \/ Redirect(t)
  PROVE  SyncInv'
<1> DEFINE w == thread[t]
<1>1. w \in Record /\ RecordOK(w) /\ TypeInv
  BY Zenon DEF SyncInv, TypeInv
<1>2. UNCHANGED <<flags, cancelCh, chans>>
  BY ZenonT(30) DEF Start, AlreadyInserted, PeerBusy, PeerFree, GateBusy, GateFree, BaseFound,
         InvalidBaseSpine, EnterBusy, RequestFails, Written, NextPeer, MorePeers,
         AllDownloaded, Return, Take, NotSyncPeer, Redirect, TryPeer
<1>3. common' \in [Kinds -> Peers \cup {None}]
  <2>1. CASE Take(t)
    BY Zenon, <2>1, <1>1 DEF Take, TypeInv
  <2>2. CASE UNCHANGED common
    BY Zenon, <2>2, <1>1 DEF TypeInv
  <2> QED BY ZenonT(30), <2>1, <2>2
     DEF Start, AlreadyInserted, PeerBusy, PeerFree, GateBusy, GateFree, BaseFound,
         InvalidBaseSpine, EnterBusy, RequestFails, Written, NextPeer, MorePeers,
         AllDownloaded, Return, NotSyncPeer, Redirect, TryPeer
<1>4. \E r \in Record : /\ thread' = [thread EXCEPT ![t] = r]
                        /\ RecordOK(r) /\ Keeps(w, r) /\ r.holds = w.holds
                        /\ r.peer = w.peer \/ r.holds = 0
  <2>1. CASE Start(t)
    <3>1. PICK s \in Jobs[t], p \in Peers : thread' = [thread EXCEPT ![t] =
            [Idle EXCEPT !.pc = IF s = "parents" THEN "lock" ELSE "gate", !.sort = s,
                         !.peer = p, !.todo = IF s = "parents" THEN {} ELSE Peers \ {p}]]
      BY Zenon, <2>1 DEF Start
    <3>2. s \in Sorts /\ w.pc = "idle"
      BY Zenon, <2>1 DEF DownloaderConstants, Start, At
    <3> DEFINE r == [Idle EXCEPT !.pc = IF s = "parents" THEN "lock" ELSE "gate", !.sort = s,
                         !.peer = p, !.todo = IF s = "parents" THEN {} ELSE Peers \ {p}]
    <3>5. r.pc = (IF s = "parents" THEN "lock" ELSE "gate") /\ r.sort = s /\ r.peer = p /\ r.holds = 0
      BY Zenon DEF Idle
    <3>7. Idle \in Record
      BY Zenon DEF Idle, Record, PCs, Watched
    <3>4. r \in Record
      BY ZenonT(60), <3>2, <3>7 DEF Record, PCs
    <3> HIDE DEF r
    <3>3. RecordOK(r) /\ r.holds = w.holds /\ (r.peer = w.peer \/ r.holds = 0)
      BY SMTT(30), <1>1, <3>2, <3>5 DEF RecordOK, Claims, Fetching, Downloading, Cancelling, Sorts
    <3>6. Keeps(w, r)
      BY <1>1, <3>2, <3>5 DEF Keeps, SetsDag, SetsFin, Locks, Fetching, Downloading, Cancelling
    <3> QED BY ZenonT(30), <3>1, <3>3, <3>4, <3>6 DEF r
  <2>3. CASE AlreadyInserted(t) \/ PeerBusy(t)
    <3>1. w.pc = "check" /\ Goto(t, "unlock")
      BY <2>3 DEF AlreadyInserted, PeerBusy, At
    <3>2. "unlock" \in PCs
      BY DEF PCs, Fetching, Downloading, Cancelling
    <3>3. PICK r \in Record : /\ thread' = [thread EXCEPT ![t] = r]
                              /\ r.pc = "unlock" /\ SameJob(w, r)
      BY Zenon, <1>1, <3>1, <3>2, Gone
    <3>4. RecordOK(r) /\ Keeps(w, r) /\ r.holds = w.holds /\ r.peer = w.peer
      BY Zenon, <1>1, <3>1, <3>3 DEF RecordOK, Keeps, SameJob, Claims, SetsDag, SetsFin, Locks,
         Fetching, Downloading, Cancelling, Sorts
    <3> QED BY ZenonT(30), <3>3, <3>4
  <2>4. CASE PeerFree(t)
    <3>1. w.pc = "check" /\ Goto(t, "claim")
      BY Zenon, <2>4 DEF PeerFree, At
    <3>2. "claim" \in PCs
      BY SMTT(30) DEF PCs, Fetching, Downloading, Cancelling
    <3>3. PICK r \in Record : /\ thread' = [thread EXCEPT ![t] = r]
                              /\ r.pc = "claim" /\ SameJob(w, r)
      BY Zenon, <1>1, <3>1, <3>2, Gone
    <3>4. RecordOK(r) /\ Keeps(w, r) /\ r.holds = w.holds /\ r.peer = w.peer
      BY Zenon, <1>1, <3>1, <3>3 DEF RecordOK, Keeps, SameJob, Claims, SetsDag, SetsFin, Locks,
         Fetching, Downloading, Cancelling, Sorts
    <3> QED BY Zenon, <3>3, <3>4
  <2>5. CASE GateBusy(t)
    <3>1. w.pc = "gate" /\ Goto(t, AfterBusy(t))
      BY Zenon, <2>5 DEF GateBusy, At
    <3>2. AfterBusy(t) \in PCs
      BY Zenon DEF PCs, Fetching, Downloading, Cancelling, AfterBusy
    <3>3. PICK r \in Record : /\ thread' = [thread EXCEPT ![t] = r]
                              /\ r.pc = AfterBusy(t) /\ SameJob(w, r)
      BY Zenon, <1>1, <3>1, <3>2, Gone
    <3>4. RecordOK(r) /\ Keeps(w, r) /\ r.holds = w.holds /\ r.peer = w.peer
      BY Zenon, <1>1, <3>1, <3>3 DEF RecordOK, Keeps, SameJob, Claims, SetsDag, SetsFin, Locks,
         Fetching, Downloading, Cancelling, Sorts, AfterBusy
    <3> QED BY ZenonT(30), <3>3, <3>4
  <2>6. CASE GateFree(t)
    <3>1. w.pc = "gate" /\ Goto(t, "swap")
      BY Zenon, <2>6 DEF GateFree, At
    <3>2. "swap" \in PCs
      BY Zenon DEF PCs, Fetching, Downloading, Cancelling
    <3>3. PICK r \in Record : /\ thread' = [thread EXCEPT ![t] = r]
                              /\ r.pc = "swap" /\ SameJob(w, r)
      BY Zenon, <1>1, <3>1, <3>2, Gone
    <3>4. RecordOK(r) /\ Keeps(w, r) /\ r.holds = w.holds /\ r.peer = w.peer
      BY Zenon, <1>1, <3>1, <3>3 DEF RecordOK, Keeps, SameJob, Claims, SetsDag, SetsFin, Locks,
         Fetching, Downloading, Cancelling, Sorts
    <3> QED BY ZenonT(30), <3>3, <3>4
  <2>7. CASE BaseFound(t)
    <3>1. w.pc = "base" /\ Goto(t, "fetch")
      BY Zenon, <2>7 DEF BaseFound, At
    <3>2. "fetch" \in PCs
      BY Zenon DEF PCs, Fetching, Downloading, Cancelling
    <3>3. PICK r \in Record : /\ thread' = [thread EXCEPT ![t] = r]
                              /\ r.pc = "fetch" /\ SameJob(w, r)
      BY Zenon, <1>1, <3>1, <3>2, Gone
    <3>4. RecordOK(r) /\ Keeps(w, r) /\ r.holds = w.holds /\ r.peer = w.peer
      BY Zenon, <1>1, <3>1, <3>3 DEF RecordOK, Keeps, SameJob, Claims, SetsDag, SetsFin, Locks,
         Fetching, Downloading, Cancelling, Sorts
    <3> QED BY ZenonT(30), <3>3, <3>4
  <2>8. CASE EnterBusy(t)
    <3>1. w.pc = "enter" /\ Goto(t, AfterDownload(t))
      BY Zenon, <2>8 DEF EnterBusy, AfterDownload, At
    <3>2. AfterDownload(t) \in PCs
      BY Zenon DEF PCs, Fetching, Downloading, Cancelling, AfterDownload
    <3>3. PICK r \in Record : /\ thread' = [thread EXCEPT ![t] = r]
                              /\ r.pc = AfterDownload(t) /\ SameJob(w, r)
      BY Zenon, <1>1, <3>1, <3>2, Gone
    <3>4. RecordOK(r) /\ Keeps(w, r) /\ r.holds = w.holds /\ r.peer = w.peer
      BY Zenon, <1>1, <3>1, <3>3 DEF RecordOK, Keeps, SameJob, Claims, SetsDag, SetsFin, Locks,
         Fetching, Downloading, Cancelling, Sorts, AfterDownload
    <3> QED BY Zenon, <3>3, <3>4
  <2>9. CASE RequestFails(t)
    <3>1. w.pc = "fetch" /\ Goto(t, "leave")
      BY Zenon, <2>9 DEF RequestFails, At
    <3>2. "leave" \in PCs
      BY Zenon DEF PCs, Fetching, Downloading, Cancelling
    <3>3. PICK r \in Record : /\ thread' = [thread EXCEPT ![t] = r]
                              /\ r.pc = "leave" /\ SameJob(w, r)
      BY Zenon, <1>1, <3>1, <3>2, Gone
    <3>4. RecordOK(r) /\ Keeps(w, r) /\ r.holds = w.holds /\ r.peer = w.peer
      BY Zenon, <1>1, <3>1, <3>3 DEF RecordOK, Keeps, SameJob, Claims, SetsDag, SetsFin, Locks,
         Fetching, Downloading, Cancelling, Sorts
    <3> QED BY ZenonT(30), <3>3, <3>4
  <2>10. CASE AllDownloaded(t)
    <3>1. w.pc = "more" /\ Goto(t, "cancel")
      BY Zenon, <2>10 DEF AllDownloaded, At
    <3>2. "cancel" \in PCs
      BY SMTT(30) DEF PCs, Fetching, Downloading, Cancelling
    <3>3. PICK r \in Record : /\ thread' = [thread EXCEPT ![t] = r]
                              /\ r.pc = "cancel" /\ SameJob(w, r)
      BY Zenon, <1>1, <3>1, <3>2, Gone
    <3>4. RecordOK(r) /\ Keeps(w, r) /\ r.holds = w.holds /\ r.peer = w.peer
      BY Zenon, <1>1, <3>1, <3>3 DEF RecordOK, Keeps, SameJob, Claims, SetsDag, SetsFin, Locks,
         Fetching, Downloading, Cancelling, Sorts
    <3> QED BY ZenonT(30), <3>3, <3>4
  <2>11. CASE InvalidBaseSpine(t)
    <3> DEFINE r == [w EXCEPT !.pc = "leave", !.todo = {}]
    <3>1. w.pc = "base" /\ thread' = [thread EXCEPT ![t] = r]
      BY Zenon, <1>1, <2>11 DEF InvalidBaseSpine, At, TypeInv, Record
    <3>2. "leave" \in PCs
      BY Zenon, <1>1, <3>1 DEF PCs, Fetching, Downloading, Cancelling, Watched
    <3>3. r \in Record /\ r.pc = "leave" /\ r.sort = w.sort /\ r.peer = w.peer /\ r.holds = w.holds
      BY ZenonT(30), <1>1, <3>1, <3>2 DEF Record, SameJob
    <3> HIDE DEF r
    <3>4. RecordOK(r) /\ Keeps(w, r) /\ r.holds = w.holds /\ (r.peer = w.peer \/ r.holds = 0)
      BY Zenon, <1>1, <3>1, <3>3 DEF RecordOK, Keeps, SameJob, Claims, SetsDag, SetsFin, Locks,
         Fetching, Downloading, Cancelling, Sorts
    <3> QED BY Zenon, <3>1, <3>3, <3>4 DEF r
  <2>12. CASE Written(t)
    <3> DEFINE r == [w EXCEPT !.pc = "leave", !.todo = IF w.sort = "main" THEN {} ELSE @]
    <3>1. w.pc = "fetch" /\ thread' = [thread EXCEPT ![t] = r]
      BY Zenon, <1>1, <2>12 DEF Written, At, TypeInv, Record
    <3>2. "leave" \in PCs
      BY Zenon, <1>1, <3>1 DEF PCs, Fetching, Downloading, Cancelling, Watched
    <3>3. r \in Record /\ r.pc = "leave" /\ r.sort = w.sort /\ r.peer = w.peer /\ r.holds = w.holds
      BY ZenonT(30), <1>1, <3>1, <3>2 DEF Record, SameJob
    <3> HIDE DEF r
    <3>4. RecordOK(r) /\ Keeps(w, r) /\ r.holds = w.holds /\ (r.peer = w.peer \/ r.holds = 0)
      BY Zenon, <1>1, <3>1, <3>3 DEF RecordOK, Keeps, SameJob, Claims, SetsDag, SetsFin, Locks,
         Fetching, Downloading, Cancelling, Sorts
    <3> QED BY Zenon, <3>1, <3>3, <3>4 DEF r
  <2>13. CASE Return(t)
    <3> DEFINE r == Idle
    <3>1. w.pc \in {"end", "next"} /\ thread' = [thread EXCEPT ![t] = r]
      BY Zenon, <1>1, <2>13 DEF Return, At, TypeInv, Record
    <3>2. "idle" \in PCs /\ "current" \in Watched
      BY Zenon, <1>1, <3>1 DEF PCs, Fetching, Downloading, Cancelling, Watched
    <3>3. r \in Record /\ r.pc = "idle" /\ r.holds = 0
      BY ZenonT(60), <1>1, <3>1, <3>2 DEF Record, SameJob, Idle
    <3> HIDE DEF r
    <3>4. RecordOK(r) /\ Keeps(w, r) /\ r.holds = w.holds /\ (r.peer = w.peer \/ r.holds = 0)
      BY <1>1, <3>1, <3>3 DEF RecordOK, Keeps, SameJob, Claims, SetsDag, SetsFin, Locks,
         Fetching, Downloading, Cancelling, Sorts
    <3> QED BY Zenon, <3>1, <3>3, <3>4 DEF r
  <2>14. CASE NotSyncPeer(t)
    <3> DEFINE r == [w EXCEPT !.pc = "select", !.watch = "current", !.packet = None, !.kind = None]
    <3>1. w.pc = "redirect" /\ thread' = [thread EXCEPT ![t] = r]
      BY Zenon, <1>1, <2>14 DEF NotSyncPeer, At, TypeInv, Record
    <3>2. "select" \in PCs /\ "current" \in Watched
      BY Zenon, <1>1, <3>1 DEF PCs, Fetching, Downloading, Cancelling, Watched
    <3>3. r \in Record /\ r.pc = "select" /\ r.sort = w.sort /\ r.peer = w.peer /\ r.holds = w.holds
      BY Zenon, <1>1, <3>1, <3>2 DEF Record, SameJob
    <3> HIDE DEF r
    <3>4. RecordOK(r) /\ Keeps(w, r) /\ r.holds = w.holds /\ (r.peer = w.peer \/ r.holds = 0)
      BY Zenon, <1>1, <3>1, <3>3 DEF RecordOK, Keeps, SameJob, Claims, SetsDag, SetsFin, Locks,
         Fetching, Downloading, Cancelling, Sorts
    <3> QED BY Zenon, <3>1, <3>3, <3>4 DEF r
  <2>15. CASE Redirect(t)
    <3> DEFINE r == [w EXCEPT !.ref = "open", !.pc =
           IF chans[w.packet].buffer[w.kind] # None THEN "drain" ELSE "send"]
    <3>1. w.pc = "redirect" /\ thread' = [thread EXCEPT ![t] = r]
      BY Zenon, <1>1, <2>15 DEF Redirect, At, TypeInv, Record
    <3>2. "drain" \in PCs /\ "send" \in PCs
      BY Zenon, <1>1, <3>1 DEF PCs, Fetching, Downloading, Cancelling, Watched
    <3>3. r \in Record /\ r.pc = (IF chans[w.packet].buffer[w.kind] # None THEN "drain" ELSE "send") /\ SameJob(w, r)
      BY ZenonT(30), <1>1, <3>1, <3>2 DEF Record, SameJob
    <3> HIDE DEF r
    <3>4. RecordOK(r) /\ Keeps(w, r) /\ r.holds = w.holds /\ (r.peer = w.peer \/ r.holds = 0)
      BY Zenon, <1>1, <3>1, <3>3 DEF RecordOK, Keeps, SameJob, Claims, SetsDag, SetsFin, Locks,
         Fetching, Downloading, Cancelling, Sorts
    <3> QED BY Zenon, <3>1, <3>3, <3>4 DEF r
  <2>16. CASE NextPeer(t)
    <3>0. PICK p \in w.todo :
            thread' = [thread EXCEPT ![t] = [w EXCEPT !.peer = p, !.todo = @ \ {p}, !.step = 1, !.pc = "gate"]]
      BY ZenonT(60), <1>1, <2>16 DEF NextPeer, TryPeer, TypeInv
    <3> DEFINE r == [w EXCEPT !.peer = p, !.todo = @ \ {p}, !.step = 1, !.pc = "gate"]
    <3>1. w.pc = "next" /\ p \in Peers /\ w.todo \subseteq Peers
      BY Zenon, <1>1, <3>0, <2>16 DEF NextPeer, TryPeer, At, TypeInv, Record
    <3>2. "gate" \in PCs
      BY Zenon, <1>1, <3>1 DEF PCs, Fetching, Downloading, Cancelling, Watched
    <3>3. r \in Record /\ r.pc = "gate" /\ r.sort = w.sort /\ r.peer = p /\ r.holds = w.holds
      BY ZenonT(30), <1>1, <3>0, <3>1, <3>2 DEF Record, SameJob
    <3> HIDE DEF r
    <3>4. RecordOK(r) /\ Keeps(w, r) /\ r.holds = w.holds /\ (r.peer = w.peer \/ r.holds = 0)
      BY <1>1, <3>1, <3>3 DEF RecordOK, Keeps, SameJob, Claims, SetsDag, SetsFin, Locks,
         Fetching, Downloading, Cancelling, Sorts
    <3> QED BY Zenon, <3>0, <3>1, <3>3, <3>4 DEF r
  <2>17. CASE MorePeers(t)
    <3>0. PICK p \in w.todo :
            thread' = [thread EXCEPT ![t] = [w EXCEPT !.peer = p, !.todo = @ \ {p}, !.step = 1, !.pc = "enter"]]
      BY ZenonT(60), <1>1, <2>17 DEF MorePeers, TryPeer, TypeInv
    <3> DEFINE r == [w EXCEPT !.peer = p, !.todo = @ \ {p}, !.step = 1, !.pc = "enter"]
    <3>1. w.pc = "more" /\ p \in Peers /\ w.todo \subseteq Peers
      BY Zenon, <1>1, <3>0, <2>17 DEF MorePeers, TryPeer, At, TypeInv, Record
    <3>2. "enter" \in PCs
      BY Zenon, <1>1, <3>1 DEF PCs, Fetching, Downloading, Cancelling, Watched
    <3>3. r \in Record /\ r.pc = "enter" /\ r.sort = w.sort /\ r.peer = p /\ r.holds = w.holds
      BY ZenonT(30), <1>1, <3>0, <3>1, <3>2 DEF Record, SameJob
    <3> HIDE DEF r
    <3>4. RecordOK(r) /\ Keeps(w, r) /\ r.holds = w.holds /\ (r.peer = w.peer \/ r.holds = 0)
      BY <1>1, <3>1, <3>3 DEF RecordOK, Keeps, SameJob, Claims, SetsDag, SetsFin, Locks,
         Fetching, Downloading, Cancelling, Sorts
    <3> QED BY Zenon, <3>0, <3>1, <3>3, <3>4 DEF r
  <2>18. CASE Take(t)
    <3>0. PICK k \in Kinds : common[k] # None /\
            thread' = [thread EXCEPT ![t] = [w EXCEPT !.pc = "redirect", !.packet = common[k], !.kind = k]]
      BY ZenonT(60), <1>1, <2>18 DEF Take, TypeInv
    <3> DEFINE r == [w EXCEPT !.pc = "redirect", !.packet = common[k], !.kind = k]
    <3>1. w.pc = "select" /\ common[k] \in Peers
      BY Zenon, <1>1, <3>0, <2>18 DEF Take, At, TypeInv, Record
    <3>2. "redirect" \in PCs
      BY Zenon, <1>1, <3>1 DEF PCs, Fetching, Downloading, Cancelling, Watched
    <3>3. r \in Record /\ r.pc = "redirect" /\ r.sort = w.sort /\ r.peer = w.peer /\ r.holds = w.holds /\ r.packet = common[k]
      BY ZenonT(30), <1>1, <3>0, <3>1, <3>2 DEF Record, SameJob
    <3> HIDE DEF r
    <3>4. RecordOK(r) /\ Keeps(w, r) /\ r.holds = w.holds /\ (r.peer = w.peer \/ r.holds = 0)
      BY Zenon, <1>1, <3>1, <3>3 DEF RecordOK, Keeps, SameJob, Claims, SetsDag, SetsFin, Locks,
         Fetching, Downloading, Cancelling, Sorts
    <3> QED BY Zenon, <3>0, <3>1, <3>3, <3>4 DEF r
  <2> QED BY ZenonT(60), <2>1, <2>3, <2>4, <2>5, <2>6, <2>7, <2>8, <2>9, <2>10, <2>11, <2>12, <2>13,
             <2>14, <2>15, <2>16, <2>17, <2>18
<1>5. PICK r \in Record : /\ thread' = [thread EXCEPT ![t] = r]
                          /\ RecordOK(r) /\ Keeps(w, r) /\ r.holds = w.holds
                          /\ r.peer = w.peer \/ r.holds = 0
  BY <1>4, Zenon
<1>6. Becomes(t, r)
  BY Zenon, <1>1, <1>5, OneRecord
<1>7. chans' \in [Peers -> Channels] /\ (\A p \in Peers : chans'[p].procCount = chans[p].procCount)
  BY <1>1, <1>2 DEF TypeInv
<1>8. Keeps(thread[t], r) /\ r.holds = thread[t].holds /\ (r.peer = thread[t].peer \/ r.holds = 0)
  BY <1>5, Zenon
<1> HIDE DEF w
<1> QED BY Zenon, <1>2, <1>3, <1>5, <1>6, <1>7, <1>8, QuietStep

\* What a step of a thread may do to the flags.
FlagsGo(t, r) ==
  /\ dagSyncing' => SetsDag(r) \/ (dagSyncing /\ ~SetsDag(thread[t]))
  /\ finSyncing' => SetsFin(r) \/ (finSyncing /\ ~SetsFin(thread[t]))
  /\ cancelCh' = "open" => \/ r.pc \in Cancelling
                           \/ cancelCh = "open" /\ thread[t].pc \notin Cancelling
  /\ hashesLock' # None => \/ hashesLock' = t /\ Locks(r)
                           \/ hashesLock' = hashesLock /\ hashesLock # t

LEMMA AnyStep ==
  ASSUME SyncInv, NEW t \in Threads, NEW r, Becomes(t, r), RecordOK(r), FlagsGo(t, r),
         chans' \in [Peers -> Channels], common' \in [Kinds -> Peers \cup {None}], CountInv'
  PROVE  SyncInv'
<1>1. TypeInv'
  <2>1. \A u \in Threads : RecordOK(thread'[u])
    BY RecordsOK DEF SyncInv
  <2> QED BY <2>1 DEF TypeInv, Becomes
<1>2. FlagInv'
  BY FlagStep DEF SyncInv, FlagsGo
<1> QED BY <1>1, <1>2 DEF SyncInv

\* The steps that raise or clear a flag and leave the peers alone.
LEMMA FlagActions ==
  ASSUME SyncInv, NEW t \in Threads,
         Lock(t) \/ Enter(t) \/ Leave(t) \/ Cancel(t) \/ Unlock(t) \/ Reset(t) \/ Clear(t)
  PROVE  SyncInv'
<1> DEFINE w == thread[t]
<1>1. w \in Record /\ RecordOK(w) /\ TypeInv /\ CountInv
  BY DEF SyncInv, TypeInv
<1>0. UNCHANGED <<chans, common>>
  BY DEF Lock, Enter, Leave, Cancel, Unlock, Reset, Clear
<1>2. chans' \in [Peers -> Channels] /\ common' \in [Kinds -> Peers \cup {None}]
  BY <1>0, <1>1 DEF TypeInv
<1>3. hashesLock = t /\ hashesLock # None => Locks(w)
  BY DEF SyncInv, FlagInv
<1>4. \E r \in Record : /\ thread' = [thread EXCEPT ![t] = r]
                        /\ RecordOK(r) /\ FlagsGo(t, r) /\ r.holds = w.holds
                        /\ r.peer = w.peer \/ r.holds = 0
  <2>1. CASE Lock(t)
    <3>1. w.pc = "lock"
      BY <2>1 DEF Lock, At
    <3>2. hashesLock' = t /\ UNCHANGED <<dagSyncing, finSyncing, cancelCh>>
      BY <2>1 DEF Lock, flags
    <3>3. "check" \in PCs /\ Goto(t, "check")
      BY SMTT(30), <2>1 DEF Lock, PCs, Fetching, Downloading, Cancelling
    <3>4. PICK r \in Record : /\ thread' = [thread EXCEPT ![t] = r]
                              /\ r.pc = "check" /\ SameJob(w, r)
      BY Zenon, <1>1, <3>3, Gone
    <3>5. RecordOK(r) /\ r.holds = w.holds /\ (r.peer = w.peer \/ r.holds = 0)
      BY Zenon, <1>1, <3>1, <3>4 DEF RecordOK, SameJob, Claims, Fetching, Downloading, Cancelling, Sorts
    <3>6. FlagsGo(t, r)
      BY Zenon, <1>1, <1>3, <3>1, <3>2, <3>4 DEF FlagsGo, SameJob, SetsDag, SetsFin, Locks, RecordOK, Fetching, Downloading,
         Cancelling
    <3> QED BY ZenonT(30), <3>4, <3>5, <3>6
  <2>2. CASE Enter(t)
    <3>1. w.pc = "enter"
      BY <2>2 DEF Enter, At
    <3>2. UNCHANGED <<hashesLock, finSyncing, cancelCh>>
      BY <2>2 DEF Enter, flags
    <3>3. "fetch" \in PCs /\ Goto(t, "fetch")
      BY Zenon, <2>2 DEF Enter, PCs, Fetching, Downloading, Cancelling
    <3>4. PICK r \in Record : /\ thread' = [thread EXCEPT ![t] = r]
                              /\ r.pc = "fetch" /\ SameJob(w, r)
      BY Zenon, <1>1, <3>3, Gone
    <3>5. RecordOK(r) /\ r.holds = w.holds /\ (r.peer = w.peer \/ r.holds = 0)
      BY Zenon, <1>1, <3>1, <3>4 DEF RecordOK, SameJob, Claims, Fetching, Downloading, Cancelling, Sorts
    <3>6. FlagsGo(t, r)
      BY Zenon, <1>1, <1>3, <3>1, <3>2, <3>4 DEF FlagsGo, SameJob, SetsDag, SetsFin, Locks, RecordOK, Fetching, Downloading,
         Cancelling
    <3> QED BY ZenonT(30), <3>4, <3>5, <3>6
  <2>3. CASE Leave(t)
    <3>1. w.pc = "leave"
      BY Zenon, <2>3 DEF Leave, At
    <3>2. /\ dagSyncing' = (w.sort = "main" /\ dagSyncing)
          /\ UNCHANGED <<hashesLock, finSyncing, cancelCh>>
      BY <2>3 DEF Leave, flags
    <3>3. AfterDownload(t) \in PCs /\ Goto(t, AfterDownload(t))
      BY <2>3 DEF Leave, PCs, Fetching, Downloading, Cancelling, AfterDownload
    <3>4. PICK r \in Record : /\ thread' = [thread EXCEPT ![t] = r]
                              /\ r.pc = AfterDownload(t) /\ SameJob(w, r)
      BY Zenon, <1>1, <3>3, Gone
    <3>5. RecordOK(r) /\ r.holds = w.holds /\ (r.peer = w.peer \/ r.holds = 0)
      BY Zenon, <1>1, <3>1, <3>4 DEF RecordOK, SameJob, Claims, Fetching, Downloading, Cancelling, Sorts, AfterDownload
    <3>6. FlagsGo(t, r)
      BY Zenon, <1>1, <1>3, <3>1, <3>2, <3>4 DEF FlagsGo, SameJob, SetsDag, SetsFin, Locks, RecordOK, Fetching, Downloading,
         Cancelling, AfterDownload
    <3> QED BY ZenonT(30), <3>4, <3>5, <3>6
  <2>4. CASE Cancel(t)
    <3>1. w.pc = "cancel"
      BY <2>4 DEF Cancel, At
    <3>2. cancelCh' = "closed" /\ UNCHANGED <<hashesLock, finSyncing, dagSyncing>>
      BY Zenon, <2>4 DEF Cancel, flags
    <3>3. (IF w.sort = "parents" THEN "unclaim" ELSE "clear") \in PCs /\ Goto(t, (IF w.sort = "parents" THEN "unclaim" ELSE "clear"))
      BY <2>4 DEF Cancel, PCs, Fetching, Downloading, Cancelling
    <3>4. PICK r \in Record : /\ thread' = [thread EXCEPT ![t] = r]
                              /\ r.pc = (IF w.sort = "parents" THEN "unclaim" ELSE "clear") /\ SameJob(w, r)
      BY Zenon, <1>1, <3>3, Gone
    <3>5. RecordOK(r) /\ r.holds = w.holds /\ (r.peer = w.peer \/ r.holds = 0)
      BY Zenon, <1>1, <3>1, <3>4 DEF RecordOK, SameJob, Claims, Fetching, Downloading, Cancelling, Sorts
    <3>6. FlagsGo(t, r)
      BY Zenon, <1>1, <1>3, <3>1, <3>2, <3>4 DEF FlagsGo, SameJob, SetsDag, SetsFin, Locks, RecordOK, Fetching, Downloading,
         Cancelling
    <3> QED BY Zenon, <3>4, <3>5, <3>6
  <2>5. CASE Unlock(t)
    <3>1. w.pc = "unlock"
      BY Zenon, <2>5 DEF Unlock, At
    <3>2. hashesLock' = None /\ UNCHANGED <<dagSyncing, finSyncing, cancelCh>>
      BY <2>5 DEF Unlock, flags
    <3>3. "reset" \in PCs /\ Goto(t, "reset")
      BY <2>5 DEF Unlock, PCs, Fetching, Downloading, Cancelling
    <3>4. PICK r \in Record : /\ thread' = [thread EXCEPT ![t] = r]
                              /\ r.pc = "reset" /\ SameJob(w, r)
      BY Zenon, <1>1, <3>3, Gone
    <3>5. RecordOK(r) /\ r.holds = w.holds /\ (r.peer = w.peer \/ r.holds = 0)
      BY Zenon, <1>1, <3>1, <3>4 DEF RecordOK, SameJob, Claims, Fetching, Downloading, Cancelling, Sorts
    <3>6. FlagsGo(t, r)
      BY Zenon, <1>1, <1>3, <3>1, <3>2, <3>4 DEF FlagsGo, SameJob, SetsDag, SetsFin, Locks, RecordOK, Fetching, Downloading,
         Cancelling
    <3> QED BY ZenonT(30), <3>4, <3>5, <3>6
  <2>6. CASE Reset(t)
    <3>1. w.pc = "reset"
      BY <2>6 DEF Reset, At
    <3>2. ~dagSyncing' /\ UNCHANGED <<hashesLock, finSyncing, cancelCh>>
      BY <2>6 DEF Reset, flags
    <3> DEFINE r == Idle
    <3>3. thread' = [thread EXCEPT ![t] = r]
      BY Zenon, <2>6 DEF Reset
    <3>4. r \in Record /\ r.pc = "idle" /\ r.holds = 0
      BY Zenon DEF Idle, Record, PCs, Watched
    <3> HIDE DEF r
    <3>5. RecordOK(r) /\ r.holds = w.holds /\ (r.peer = w.peer \/ r.holds = 0)
      BY SMTT(30), <1>1, <3>1, <3>4 DEF RecordOK, SameJob, Claims, Fetching, Downloading, Cancelling, Sorts
    <3>6. FlagsGo(t, r)
      BY Zenon, <1>1, <1>3, <3>1, <3>2, <3>4 DEF FlagsGo, SameJob, SetsDag, SetsFin, Locks, RecordOK, Fetching, Downloading,
         Cancelling
    <3> QED BY ZenonT(30), <3>3, <3>4, <3>5, <3>6
  <2>7. CASE Clear(t)
    <3>1. w.pc = "clear"
      BY Zenon, <2>7 DEF Clear, At
    <3>2. ~finSyncing' /\ UNCHANGED <<hashesLock, dagSyncing, cancelCh>>
      BY Zenon, <2>7 DEF Clear, flags
    <3>3. AfterClear(t) \in PCs /\ Goto(t, AfterClear(t))
      BY Zenon, <2>7 DEF Clear, PCs, Fetching, Downloading, Cancelling, AfterClear
    <3>4. PICK r \in Record : /\ thread' = [thread EXCEPT ![t] = r]
                              /\ r.pc = AfterClear(t) /\ SameJob(w, r)
      BY Zenon, <1>1, <3>3, Gone
    <3>5. RecordOK(r) /\ r.holds = w.holds /\ (r.peer = w.peer \/ r.holds = 0)
      BY Zenon, <1>1, <3>1, <3>4 DEF RecordOK, SameJob, Claims, Fetching, Downloading, Cancelling, Sorts, AfterClear
    <3>6. FlagsGo(t, r)
      BY Zenon, <1>1, <1>3, <3>1, <3>2, <3>4 DEF FlagsGo, SameJob, SetsDag, SetsFin, Locks, RecordOK, Fetching, Downloading,
         Cancelling, AfterClear
    <3> QED BY Zenon, <3>4, <3>5, <3>6
  <2> QED BY Zenon, <2>1, <2>2, <2>3, <2>4, <2>5, <2>6, <2>7
<1>5. PICK r \in Record : /\ thread' = [thread EXCEPT ![t] = r]
                          /\ RecordOK(r) /\ FlagsGo(t, r) /\ r.holds = w.holds
                          /\ r.peer = w.peer \/ r.holds = 0
  BY ZenonT(30), <1>4, Zenon
<1>6. Becomes(t, r)
  BY ZenonT(30), <1>1, <1>5, OneRecord
<1>7. CountInv'
  BY Zenon, <1>0, <1>1, <1>5, <1>6, CountKept
<1> QED BY Zenon, <1>2, <1>5, <1>6, <1>7, AnyStep

\* The record of a thread that opens a cancel channel.
LEMMA PrepareRecord ==
  ASSUME TypeInv, NEW t \in Threads, NEW r \in Record, r.pc # "select", Prepare(t, r)
  PROVE  Becomes(t, r) /\ cancelCh' = "open" /\ common' \in [Kinds -> Peers \cup {None}]
<1> DEFINE th == [thread EXCEPT ![t] = r]
<1>1. th \in [Threads -> Record] /\ th[t] = r /\ \A u \in Threads \ {t} : th[u] = thread[u]
  BY DEF TypeInv
<1>2. thread' = [u \in Threads |->
                   IF th[u].pc = "select" THEN [th[u] EXCEPT !.watch = Left(th[u].watch)] ELSE th[u]]
  BY DEF Prepare, ReplaceCancel
<1>3. \A v \in Watched : Left(v) \in Watched
  BY DEF Left, Watched
<1> HIDE DEF th
<1>4. ASSUME NEW u \in Threads
      PROVE  /\ thread'[u] \in Record /\ thread'[u].pc = th[u].pc
             /\ thread'[u].sort = th[u].sort /\ thread'[u].peer = th[u].peer
             /\ thread'[u].holds = th[u].holds /\ thread'[u].packet = th[u].packet
  <2>1. th[u] \in Record /\ th[u].watch \in Watched
    BY <1>1 DEF Record
  <2>2. Left(th[u].watch) \in Watched
    BY <2>1, <1>3
  <2> QED BY <1>2, <2>1, <2>2 DEF Record
<1>5. thread'[t] = r
  BY SMTT(30), <1>1, <1>2
<1>6. Others(t)
  <2> SUFFICES ASSUME NEW u \in Threads \ {t}
               PROVE  /\ thread'[u].pc = thread[u].pc /\ thread'[u].sort = thread[u].sort
                      /\ thread'[u].peer = thread[u].peer /\ thread'[u].holds = thread[u].holds
                      /\ thread'[u].packet = thread[u].packet
    BY Zenon DEF Others
  <2>1. th[u] = thread[u] /\ u \in Threads
    BY <1>1
  <2> QED BY Zenon, <1>4, <2>1
<1>7. thread' \in [Threads -> Record]
  BY <1>2, <1>4
<1> QED BY Zenon, <1>5, <1>6, <1>7 DEF Becomes, Prepare, ReplaceCancel, Empty

\* The record of a thread that gives up its use of a peer.
LEMMA ClosedRecord ==
  ASSUME TypeInv, NEW t \in Threads, NEW r \in Record, r.pc \notin {"drain", "send"}, NEW p,
         thread' = CloseRefs(p, [thread EXCEPT ![t] = r])
  PROVE  Becomes(t, r)
<1> DEFINE th == [thread EXCEPT ![t] = r]
<1>1. th \in [Threads -> Record] /\ th[t] = r /\ \A u \in Threads \ {t} : th[u] = thread[u]
  BY DEF TypeInv
<1>2. \/ thread' = th
      \/ thread' = [u \in Threads |-> IF th[u].pc \in {"drain", "send"} /\ th[u].packet = p
                                      THEN [th[u] EXCEPT !.ref = "closed"] ELSE th[u]]
  BY DEF CloseRefs
<1> HIDE DEF th
<1>3. ASSUME NEW u \in Threads
      PROVE  /\ thread'[u] \in Record /\ thread'[u].pc = th[u].pc
             /\ thread'[u].sort = th[u].sort /\ thread'[u].peer = th[u].peer
             /\ thread'[u].holds = th[u].holds /\ thread'[u].packet = th[u].packet
  <2>1. th[u] \in Record
    BY <1>1
  <2>2. thread'[u] = th[u] \/ thread'[u] = [th[u] EXCEPT !.ref = "closed"]
    BY <1>2
  <2> QED BY Zenon, <2>1, <2>2 DEF Record
<1>4. thread'[t] = r
  BY <1>1, <1>2
<1>5. Others(t)
  <2> SUFFICES ASSUME NEW u \in Threads \ {t}
               PROVE  /\ thread'[u].pc = thread[u].pc /\ thread'[u].sort = thread[u].sort
                      /\ thread'[u].peer = thread[u].peer /\ thread'[u].holds = thread[u].holds
                      /\ thread'[u].packet = thread[u].packet
    BY Zenon DEF Others
  <2>1. th[u] = thread[u] /\ u \in Threads
    BY <1>1
  <2> QED BY Zenon, <1>3, <2>1
<1>6. thread' \in [Threads -> Record]
  BY Zenon, <1>1, <1>2, <1>3
<1> QED BY Zenon, <1>4, <1>5, <1>6 DEF Becomes

\* The channels of one peer change.
LEMMA OnePeer ==
  ASSUME TypeInv, NEW p \in Peers, NEW c \in Channels, chans' = [chans EXCEPT ![p] = c]
  PROVE  /\ chans' \in [Peers -> Channels]
         /\ \A q \in Peers : chans'[q].procCount =
                               IF q = p THEN c.procCount ELSE chans[q].procCount
BY DEF TypeInv

LEMMA DecrType ==
  ASSUME NEW c \in Channels
  PROVE  Decr(c) \in Channels
BY SMTT(30) DEF Decr, NoChans, Empty, Channels

\* SyncUnloadedParents takes its use of the peer.
LEMMA ClaimStep ==
  ASSUME DownloaderConstants, SyncInv, NEW t \in Threads, Claim(t)
  PROVE  SyncInv'
<1> DEFINE w == thread[t]
           r == [w EXCEPT !.pc = "enter", !.holds = 1]
<1>1. w \in Record /\ RecordOK(w) /\ TypeInv /\ CountInv /\ w.pc = "claim"
  BY SMTT(30) DEF SyncInv, TypeInv, Claim, At
<1>2. w.sort = "parents" /\ w.peer \in Peers /\ w.holds = 0
  BY <1>1 DEF RecordOK, Claims, Fetching, Downloading, Cancelling
<1>3. r \in Record /\ r.pc = "enter" /\ r.sort = "parents" /\ r.peer = w.peer /\ r.holds = 1
  BY Zenon, <1>1, <1>2 DEF Record, PCs, Cancelling
<1>4. RecordOK(r)
  BY <1>2, <1>3 DEF RecordOK, Claims, Fetching, Downloading, Cancelling, Sorts
<1>5. Prepare(t, r) /\ UNCHANGED flags /\ chans' = [chans EXCEPT ![w.peer].procCount = @ + 1]
  BY DEF Claim, SetPeerSync
<1> HIDE DEF r
<1>6. Becomes(t, r) /\ cancelCh' = "open" /\ common' \in [Kinds -> Peers \cup {None}]
  BY Zenon, <1>1, <1>3, <1>5, PrepareRecord
<1>7. chans' \in [Peers -> Channels]
      /\ \A p \in Peers : chans'[p].procCount =
                            IF p = r.peer THEN chans[p].procCount + 1 ELSE chans[p].procCount
  <2> DEFINE c == [chans[w.peer] EXCEPT !.procCount = @ + 1]
  <2>1. chans[w.peer] \in Channels
    BY Zenon, <1>1, <1>2 DEF TypeInv
  <2>2. c \in Channels /\ c.procCount = chans[w.peer].procCount + 1
    BY <2>1 DEF Channels
  <2>3. chans' = [chans EXCEPT ![w.peer] = c]
    BY <1>5
  <2> HIDE DEF c
  <2> QED BY Zenon, <1>1, <1>2, <1>3, <2>2, <2>3, OnePeer
<1>8. r.peer = thread[t].peer /\ r.holds = thread[t].holds + 1 /\ r.holds \in {1, 2}
  BY SMTT(30), <1>2, <1>3
<1>9. CountInv'
  BY Zenon, <1>1, <1>6, <1>7, <1>8, CountMore
<1>10. FlagsGo(t, r)
  <2>1. hashesLock # None => Locks(thread[hashesLock])
    BY DEF SyncInv, FlagInv
  <2> QED BY Zenon, <1>1, <1>2, <1>3, <1>5, <1>6, <2>1 DEF flags, FlagsGo, SetsDag, SetsFin, Locks, Fetching, Downloading, Cancelling
<1> QED BY Zenon, <1>4, <1>6, <1>7, <1>9, <1>10, AnyStep

\* MainSync and DagSync pass their gate.
LEMMA SwapStep ==
  ASSUME SyncInv, NEW t \in Threads, Swap(t)
  PROVE  SyncInv'
<1> DEFINE w == thread[t]
           r == [w EXCEPT !.pc = IF w.sort = "main" THEN "base" ELSE "enter"]
<1>1. w \in Record /\ RecordOK(w) /\ TypeInv /\ CountInv /\ w.pc = "swap"
  BY SMTT(30) DEF SyncInv, TypeInv, Swap, At
<1>2. w.sort \in {"main", "head"} /\ w.peer \in Peers /\ w.holds = 0
  BY <1>1 DEF RecordOK, Claims, Fetching, Downloading, Cancelling
<1>3. /\ r \in Record /\ r.pc = (IF w.sort = "main" THEN "base" ELSE "enter")
      /\ r.sort = w.sort /\ r.peer = w.peer /\ r.holds = 0
  BY <1>1, <1>2 DEF Record, PCs, Cancelling
<1>4. RecordOK(r)
  BY <1>2, <1>3 DEF RecordOK, Claims, Fetching, Downloading, Cancelling, Sorts
<1>5. Prepare(t, r) /\ UNCHANGED <<dagSyncing, hashesLock, chans>>
  BY DEF Swap
<1> HIDE DEF r
<1>6. Becomes(t, r) /\ cancelCh' = "open" /\ common' \in [Kinds -> Peers \cup {None}]
  <2>1. r.pc # "select"
    BY <1>3
  <2> QED BY Zenon, <1>1, <1>3, <1>5, <2>1, PrepareRecord
<1>7. chans' \in [Peers -> Channels]
  BY SMTT(30), <1>1, <1>5 DEF TypeInv
<1>8. CountInv'
  BY Zenon, <1>1, <1>2, <1>3, <1>5, <1>6, CountKept
<1>9. FlagsGo(t, r)
  <2>1. hashesLock # None => Locks(thread[hashesLock])
    BY SMTT(30) DEF SyncInv, FlagInv
  <2> QED BY Zenon, <1>1, <1>2, <1>3, <1>5, <1>6, <2>1
      DEF FlagsGo, SetsDag, SetsFin, Locks, Fetching, Downloading, Cancelling
<1> QED BY Zenon, <1>4, <1>6, <1>7, <1>8, <1>9, AnyStep

\* A fetch takes its use of the peer.
LEMMA RequestStep ==
  ASSUME DownloaderConstants, SyncInv, NEW t \in Threads, Request(t)
  PROVE  SyncInv'
<1> DEFINE w == thread[t]
           r == [w EXCEPT !.pc = "select", !.holds = @ + 1, !.watch = "current"]
           c == [chans[w.peer] EXCEPT !.procCount = @ + 1]
<1>1. w \in Record /\ RecordOK(w) /\ TypeInv /\ CountInv /\ w.pc = "fetch"
  BY SMTT(30) DEF SyncInv, TypeInv, Request, At
<1>2. w.sort \in Sorts /\ w.peer \in Peers /\ w.holds = (IF w.sort = "parents" THEN 1 ELSE 0)
  BY <1>1 DEF RecordOK, Claims, Fetching, Downloading, Cancelling
<1>3. r \in Record /\ r.pc = "select" /\ r.sort = w.sort /\ r.peer = w.peer /\ r.holds = w.holds + 1
  <2>1. "select" \in PCs /\ "current" \in Watched /\ w.holds + 1 \in Nat
    BY <1>2 DEF PCs, Cancelling, Downloading, Fetching, Watched
  <2> QED BY Zenon, <1>1, <2>1 DEF Record
<1>4. RecordOK(r) /\ r.holds \in {1, 2}
  BY <1>2, <1>3 DEF RecordOK, Claims, Fetching, Downloading, Cancelling, Sorts
<1>5. UNCHANGED <<flags, cancelCh, common>> /\ chans' = [chans EXCEPT ![w.peer] = c]
      /\ thread' = [thread EXCEPT ![t] = r]
  BY Zenon, <1>1 DEF Request, SetPeerSync, TypeInv
<1>6. c \in Channels /\ c.procCount = chans[w.peer].procCount + 1
  <2>1. chans[w.peer] \in Channels
    BY <1>1, <1>2 DEF TypeInv
  <2> QED BY <2>1 DEF Channels
<1> HIDE DEF r, c
<1>7. Becomes(t, r)
  BY Zenon, <1>1, <1>3, <1>5, OneRecord
<1>8. chans' \in [Peers -> Channels]
      /\ \A p \in Peers : chans'[p].procCount =
                            IF p = r.peer THEN chans[p].procCount + 1 ELSE chans[p].procCount
  BY ZenonT(30), <1>1, <1>2, <1>3, <1>5, <1>6, OnePeer
<1>9. r.peer = thread[t].peer /\ r.holds = thread[t].holds + 1
  BY SMTT(30), <1>3
<1>10. CountInv'
  BY Zenon, <1>1, <1>4, <1>7, <1>8, <1>9, CountMore
<1>11. FlagsGo(t, r)
  <2>1. hashesLock # None => Locks(thread[hashesLock])
    BY DEF SyncInv, FlagInv
  <2> QED BY Zenon, <1>1, <1>2, <1>3, <1>5, <2>1
      DEF flags, FlagsGo, SetsDag, SetsFin, Locks, Fetching, Downloading, Cancelling
<1>12. common' \in [Kinds -> Peers \cup {None}]
  BY SMTT(30), <1>1, <1>5 DEF TypeInv
<1> QED BY Zenon, <1>4, <1>7, <1>8, <1>10, <1>11, <1>12, AnyStep

\* A use of the peer ends, and its channels are closed with the last one.
LEMMA EndUse ==
  ASSUME DownloaderConstants, SyncInv, NEW t \in Threads, NEW r \in Record, RecordOK(r),
         r.pc \notin {"drain", "send"}, r.peer = thread[t].peer, r.peer \in Peers,
         r.holds = thread[t].holds - 1, thread[t].holds \in {1, 2}, Keeps(thread[t], r),
         thread' = CloseRefs(thread[t].peer, [thread EXCEPT ![t] = r]),
         NEW c \in Channels, c.procCount = chans[r.peer].procCount,
         chans' = [chans EXCEPT ![r.peer] = Decr(c)],
         UNCHANGED <<flags, cancelCh, common>>
  PROVE  SyncInv'
<1>1. TypeInv /\ CountInv
  BY SMTT(30) DEF SyncInv
<1>2. Becomes(t, r)
  BY Zenon, <1>1, ClosedRecord
<1>3. chans[r.peer] \in Channels
  BY SMTT(30), <1>1 DEF TypeInv
<1>4. Decr(c) \in Channels
  BY Zenon, DecrType
<1>5. Decr(c).procCount = Decr(chans[r.peer]).procCount
  BY Zenon, <1>3 DEF Decr, NoChans, Channels
<1>6. chans' \in [Peers -> Channels]
      /\ \A p \in Peers : chans'[p].procCount =
                            IF p = r.peer THEN Decr(c).procCount ELSE chans[p].procCount
  BY ZenonT(30), <1>1, <1>4, OnePeer
<1>7. \A p \in Peers : chans'[p].procCount =
                         IF p = r.peer THEN Decr(chans[p]).procCount ELSE chans[p].procCount
  BY Zenon, <1>5, <1>6
<1>8. CountInv'
  BY SMTT(30), <1>1, <1>2, <1>7, CountLess
<1>9. FlagsGo(t, r)
  <2>1. hashesLock # None => Locks(thread[hashesLock])
    BY Zenon DEF SyncInv, FlagInv
  <2> QED BY Zenon, <2>1 DEF flags, FlagsGo, Keeps
<1>10. common' \in [Kinds -> Peers \cup {None}]
  BY Zenon, <1>1 DEF TypeInv
<1> QED BY Zenon, <1>2, <1>6, <1>8, <1>9, <1>10, AnyStep

\* A fetch ends, or SyncUnloadedParents gives up its use of the peer.
LEMMA EndActions ==
  ASSUME DownloaderConstants, SyncInv, NEW t \in Threads,
         Receive(t) \/ SelectCancelled(t) \/ Timeout(t) \/ Unclaim(t)
  PROVE  SyncInv'
<1> DEFINE w == thread[t]
<1>1. w \in Record /\ RecordOK(w) /\ TypeInv
  BY SMTT(30) DEF SyncInv, TypeInv
<1>2. CASE Receive(t)
  <2> DEFINE r == [w EXCEPT !.pc = "fetch", !.step = w.step + 1, !.holds = @ - 1]
             c == [chans[w.peer] EXCEPT !.buffer[Wanted(t)] = None]
  <2>1. w.pc = "select" /\ UNCHANGED <<flags, cancelCh, common>>
    BY Zenon, <1>2 DEF Receive, At
  <2>2. /\ thread' = CloseRefs(w.peer, [thread EXCEPT ![t] = r])
        /\ chans' = [chans EXCEPT ![w.peer] = Decr(c)]
    BY Zenon, <1>1, <1>2 DEF Receive, TypeInv
  <2>3. w.sort \in Sorts /\ w.peer \in Peers /\ w.holds \in {1, 2}
        /\ w.holds = (IF w.sort = "parents" THEN 2 ELSE 1)
    BY SMTT(30), <1>1, <2>1 DEF RecordOK, Claims, Fetching, Downloading, Cancelling
  <2>4. "fetch" \in PCs /\ w.step + 1 \in Nat /\ w.holds - 1 \in Nat
    BY <1>1, <2>3 DEF PCs, Cancelling, Downloading, Fetching, Record
  <2>5. /\ r \in Record /\ r.pc = "fetch" /\ r.sort = w.sort /\ r.peer = w.peer
        /\ r.holds = w.holds - 1
    BY Zenon, <1>1, <2>4 DEF Record
  <2> HIDE DEF r
  <2>6. c \in Channels /\ c.procCount = chans[r.peer].procCount
    <3>1. chans[w.peer] \in Channels
      BY Zenon, <1>1, <2>3 DEF TypeInv
    <3> QED BY Zenon, <2>5, <3>1 DEF Channels
  <2> HIDE DEF c
  <2>7. RecordOK(r) /\ Keeps(w, r)
    BY SMTT(30), <1>1, <2>1, <2>3, <2>5 DEF RecordOK, Keeps, SetsDag, SetsFin, Locks, Claims, Fetching,
       Downloading, Cancelling, Sorts
  <2>8. r.pc \notin {"drain", "send"} /\ r.peer \in Peers
    BY Zenon, <2>3, <2>5
  <2>9. chans' = [chans EXCEPT ![r.peer] = Decr(c)]
    BY Zenon, <2>2, <2>5
  <2> QED BY ZenonT(30), <2>1, <2>2, <2>3, <2>5, <2>6, <2>7, <2>8, <2>9, EndUse
<1>3. CASE SelectCancelled(t)
  <2> DEFINE r == [w EXCEPT !.pc = "leave", !.step = w.step, !.holds = @ - 1]
             c == chans[w.peer]
  <2>1. w.pc = "select" /\ UNCHANGED <<flags, cancelCh, common>>
    BY Zenon, <1>3 DEF SelectCancelled, At
  <2>2. /\ thread' = CloseRefs(w.peer, [thread EXCEPT ![t] = r])
        /\ chans' = [chans EXCEPT ![w.peer] = Decr(c)]
    BY Zenon, <1>1, <1>3 DEF SelectCancelled, Done, ResetPeerSync, TypeInv
  <2>3. w.sort \in Sorts /\ w.peer \in Peers /\ w.holds \in {1, 2}
        /\ w.holds = (IF w.sort = "parents" THEN 2 ELSE 1)
    BY <1>1, <2>1 DEF RecordOK, Claims, Fetching, Downloading, Cancelling
  <2>4. "leave" \in PCs /\ w.step \in Nat /\ w.holds - 1 \in Nat
    BY <1>1, <2>3 DEF PCs, Cancelling, Downloading, Fetching, Record
  <2>5. /\ r \in Record /\ r.pc = "leave" /\ r.sort = w.sort /\ r.peer = w.peer
        /\ r.holds = w.holds - 1
    BY Zenon, <1>1, <2>4 DEF Record
  <2> HIDE DEF r
  <2>6. c \in Channels /\ c.procCount = chans[r.peer].procCount
    <3>1. chans[w.peer] \in Channels
      BY Zenon, <1>1, <2>3 DEF TypeInv
    <3> QED BY ZenonT(60), <2>5, <3>1 DEF Channels
  <2> HIDE DEF c
  <2>7. RecordOK(r) /\ Keeps(w, r)
    BY SMTT(30), <1>1, <2>1, <2>3, <2>5 DEF RecordOK, Keeps, SetsDag, SetsFin, Locks, Claims, Fetching,
       Downloading, Cancelling, Sorts
  <2>8. r.pc \notin {"drain", "send"} /\ r.peer \in Peers
    BY Zenon, <2>3, <2>5
  <2>9. chans' = [chans EXCEPT ![r.peer] = Decr(c)]
    BY Zenon, <2>2, <2>5
  <2> QED BY ZenonT(30), <2>1, <2>2, <2>3, <2>5, <2>6, <2>7, <2>8, <2>9, EndUse
<1>4. CASE Timeout(t)
  <2> DEFINE r == [w EXCEPT !.pc = "leave", !.step = w.step, !.holds = @ - 1]
             c == chans[w.peer]
  <2>1. w.pc = "select" /\ UNCHANGED <<flags, cancelCh, common>>
    BY Zenon, <1>4 DEF Timeout, At
  <2>2. /\ thread' = CloseRefs(w.peer, [thread EXCEPT ![t] = r])
        /\ chans' = [chans EXCEPT ![w.peer] = Decr(c)]
    BY ZenonT(30), <1>1, <1>4 DEF Timeout, Done, ResetPeerSync, TypeInv
  <2>3. w.sort \in Sorts /\ w.peer \in Peers /\ w.holds \in {1, 2}
        /\ w.holds = (IF w.sort = "parents" THEN 2 ELSE 1)
    BY <1>1, <2>1 DEF RecordOK, Claims, Fetching, Downloading, Cancelling
  <2>4. "leave" \in PCs /\ w.step \in Nat /\ w.holds - 1 \in Nat
    BY <1>1, <2>3 DEF PCs, Cancelling, Downloading, Fetching, Record
  <2>5. /\ r \in Record /\ r.pc = "leave" /\ r.sort = w.sort /\ r.peer = w.peer
        /\ r.holds = w.holds - 1
    BY Zenon, <1>1, <2>4 DEF Record
  <2> HIDE DEF r
  <2>6. c \in Channels /\ c.procCount = chans[r.peer].procCount
    <3>1. chans[w.peer] \in Channels
      BY <1>1, <2>3 DEF TypeInv
    <3> QED BY Zenon, <2>5, <3>1 DEF Channels
  <2> HIDE DEF c
  <2>7. RecordOK(r) /\ Keeps(w, r)
    BY <1>1, <2>1, <2>3, <2>5 DEF RecordOK, Keeps, SetsDag, SetsFin, Locks, Claims, Fetching,
       Downloading, Cancelling, Sorts
  <2>8. r.pc \notin {"drain", "send"} /\ r.peer \in Peers
    BY Zenon, <2>3, <2>5
  <2>9. chans' = [chans EXCEPT ![r.peer] = Decr(c)]
    BY Zenon, <2>2, <2>5
  <2> QED BY Zenon, <2>1, <2>2, <2>3, <2>5, <2>6, <2>7, <2>8, <2>9, EndUse
<1>5. CASE Unclaim(t)
  <2> DEFINE r == [w EXCEPT !.pc = "unlock", !.step = w.step, !.holds = @ - 1]
             c == chans[w.peer]
  <2>1. w.pc = "unclaim" /\ UNCHANGED <<flags, cancelCh, common>>
    BY Zenon, <1>5 DEF Unclaim, At
  <2>2. /\ thread' = CloseRefs(w.peer, [thread EXCEPT ![t] = r])
        /\ chans' = [chans EXCEPT ![w.peer] = Decr(c)]
    BY Zenon, <1>1, <1>5 DEF Unclaim, Done, ResetPeerSync, TypeInv
  <2>3. w.sort \in Sorts /\ w.peer \in Peers /\ w.holds \in {1, 2}
        /\ w.holds = 1
    BY SMTT(30), <1>1, <2>1 DEF RecordOK, Claims, Fetching, Downloading, Cancelling
  <2>4. "unlock" \in PCs /\ w.step \in Nat /\ w.holds - 1 \in Nat
    BY <1>1, <2>3 DEF PCs, Cancelling, Downloading, Fetching, Record
  <2>5. /\ r \in Record /\ r.pc = "unlock" /\ r.sort = w.sort /\ r.peer = w.peer
        /\ r.holds = w.holds - 1
    BY ZenonT(30), <1>1, <2>4 DEF Record
  <2> HIDE DEF r
  <2>6. c \in Channels /\ c.procCount = chans[r.peer].procCount
    <3>1. chans[w.peer] \in Channels
      BY Zenon, <1>1, <2>3 DEF TypeInv
    <3> QED BY Zenon, <2>5, <3>1 DEF Channels
  <2> HIDE DEF c
  <2>7. RecordOK(r) /\ Keeps(w, r)
    BY SMTT(30), <1>1, <2>1, <2>3, <2>5 DEF RecordOK, Keeps, SetsDag, SetsFin, Locks, Claims, Fetching,
       Downloading, Cancelling, Sorts
  <2>8. r.pc \notin {"drain", "send"} /\ r.peer \in Peers
    BY Zenon, <2>3, <2>5
  <2>9. chans' = [chans EXCEPT ![r.peer] = Decr(c)]
    BY Zenon, <2>2, <2>5
  <2> QED BY ZenonT(30), <2>1, <2>2, <2>3, <2>5, <2>6, <2>7, <2>8, <2>9, EndUse
<1> QED BY Zenon, <1>2, <1>3, <1>4, <1>5

\* A packet is put into the channel of its peer, or taken out of it.
LEMMA PacketActions ==
  ASSUME SyncInv, NEW t \in Threads, Drain(t) \/ Send(t)
  PROVE  SyncInv'
<1> DEFINE w == thread[t]
           p == w.packet
           c(v) == [chans[p] EXCEPT !.buffer[w.kind] = v]
<1>1. w \in Record /\ RecordOK(w) /\ TypeInv /\ w.pc \in {"drain", "send"} /\ p \in Peers
  BY Zenon DEF SyncInv, TypeInv, Drain, Send, At, RecordOK
<1>2. w.sort \in Sorts /\ w.peer \in Peers /\ chans[p] \in Channels
  BY Zenon, <1>1 DEF RecordOK, TypeInv
<1>3. \A v \in Peers \cup {None} : c(v) \in Channels /\ c(v).procCount = chans[p].procCount
  BY Zenon, <1>2 DEF Channels
<1>4. UNCHANGED chans \/ \E v \in Peers \cup {None} : chans' = [chans EXCEPT ![p] = c(v)]
  BY Zenon, <1>1 DEF Drain, Send, TypeInv
<1> HIDE DEF c
<1>5. chans' \in [Peers -> Channels] /\ \A q \in Peers : chans'[q].procCount = chans[q].procCount
  <2>1. CASE UNCHANGED chans
    BY Zenon, <1>1, <2>1 DEF TypeInv
  <2>2. ASSUME NEW v \in Peers \cup {None}, chans' = [chans EXCEPT ![p] = c(v)]
        PROVE  chans' \in [Peers -> Channels]
               /\ \A q \in Peers : chans'[q].procCount = chans[q].procCount
    <3>1. c(v) \in Channels /\ c(v).procCount = chans[p].procCount
      BY Zenon, <1>3
    <3> QED BY ZenonT(30), <1>1, <2>2, <3>1, OnePeer
  <2> QED BY Zenon, <1>4, <2>1, <2>2
<1>6. \E r \in Record : /\ thread' = [thread EXCEPT ![t] = r]
                        /\ r.pc \in {"select", "send"} /\ r.sort = w.sort /\ r.peer = w.peer
                        /\ r.holds = w.holds /\ (r.pc = "send" => r.packet \in Peers)
  <2>1. CASE Drain(t)
    <3> DEFINE r == [w EXCEPT !.pc = "send"]
    <3>1. thread' = [thread EXCEPT ![t] = r]
      BY Zenon, <1>1, <2>1 DEF Drain, Goto, TypeInv
    <3>2. "send" \in PCs
      BY DEF PCs, Cancelling, Downloading, Fetching
    <3>3. r \in Record /\ r.pc = "send" /\ r.sort = w.sort /\ r.peer = w.peer /\ r.holds = w.holds
          /\ r.packet = p
      BY <1>1, <3>2 DEF Record
    <3> QED BY Zenon, <1>1, <3>1, <3>3
  <2>2. CASE Send(t)
    <3> DEFINE r == [w EXCEPT !.pc = "select", !.watch = "current", !.packet = None, !.kind = None]
    <3>1. thread' = [thread EXCEPT ![t] = r]
      BY Zenon, <1>1, <2>2 DEF Send, TypeInv
    <3>2. "select" \in PCs /\ "current" \in Watched
      BY DEF PCs, Cancelling, Downloading, Fetching, Watched
    <3>3. r \in Record /\ r.pc = "select" /\ r.sort = w.sort /\ r.peer = w.peer /\ r.holds = w.holds
      BY Zenon, <1>1, <3>2 DEF Record
    <3> QED BY Zenon, <3>1, <3>3
  <2> QED BY Zenon, <2>1, <2>2
<1>7. PICK r \in Record : /\ thread' = [thread EXCEPT ![t] = r]
                          /\ r.pc \in {"select", "send"} /\ r.sort = w.sort /\ r.peer = w.peer
                          /\ r.holds = w.holds /\ (r.pc = "send" => r.packet \in Peers)
  BY <1>6, Zenon
<1>8. Becomes(t, r)
  BY Zenon, <1>1, <1>7, OneRecord
<1>9. RecordOK(r) /\ Keeps(w, r)
  BY Zenon, <1>1, <1>2, <1>7 DEF RecordOK, Keeps, SetsDag, SetsFin, Locks, Claims, Fetching,
     Downloading, Cancelling, Sorts
<1>10. UNCHANGED <<flags, cancelCh>> /\ common' \in [Kinds -> Peers \cup {None}]
  BY Zenon, <1>1 DEF Drain, Send, TypeInv
<1> QED BY Zenon, <1>5, <1>7, <1>8, <1>9, <1>10, QuietStep

-----------------------------------------------------------------------------
LEMMA SyncInit ==
  ASSUME DownloaderConstants, Init
  PROVE  SyncInv
<1>1. Idle \in Record
  BY SMTT(30) DEF Idle, Record, PCs, Watched
<1>2. RecordOK(Idle)
  BY DEF Idle, RecordOK, Claims, Fetching, Downloading, Cancelling
<1>3. NoChans \in Channels /\ NoChans.procCount = 0
  BY DEF NoChans, Empty, Channels
<1>4. TypeInv
  BY <1>1, <1>2, <1>3 DEF Init, TypeInv, Empty
<1>5. FlagInv
  BY DEF Init, FlagInv
<1>6. ASSUME NEW p \in Peers PROVE chans[p].procCount = Cardinality(Uses(p))
  <2>1. \A u \in Threads \X {1, 2} : ~(u[2] <= thread[u[1]].holds)
    BY DEF Init, Idle
  <2>2. Uses(p) = {}
    BY <2>1 DEF Uses
  <2> QED BY Zenon, <1>3, <2>2, FS_EmptySet DEF Init
<1> QED BY Zenon, <1>4, <1>5, <1>6 DEF SyncInv, CountInv

LEMMA SyncNext ==
  ASSUME DownloaderConstants, SyncInv, [Next]_vars
  PROVE  SyncInv'
<1>1. ASSUME UNCHANGED <<thread, flags, cancelCh, chans>>, common' \in [Kinds -> Peers \cup {None}]
      PROVE  SyncInv'
  <2>1. TypeInv'
    BY <1>1 DEF SyncInv, TypeInv
  <2>2. FlagInv'
    BY Zenon, <1>1 DEF SyncInv, FlagInv, flags
  <2>3. CountInv'
    BY Zenon, <1>1 DEF SyncInv, CountInv, Uses
  <2> QED BY Zenon, <2>1, <2>2, <2>3 DEF SyncInv
<1>2. ASSUME NEW p \in Peers, Deliver(p) \/ Delivered(p) \/ NoSyncActive(p)
      PROVE  SyncInv'
  BY Zenon, <1>1, <1>2 DEF Deliver, Delivered, NoSyncActive, SyncInv, TypeInv
<1>3. ASSUME NEW t \in Threads, SendOnClosed(t)
      PROVE  SyncInv'
  BY <1>1, <1>3 DEF SendOnClosed, SyncInv, TypeInv
<1>4. ASSUME NEW t \in Threads, Start(t) \/ Step(t)
      PROVE  SyncInv'
  BY ZenonT(30), <1>3, <1>4, QuietActions, FlagActions, ClaimStep, SwapStep, RequestStep, EndActions,
     PacketActions, Zenon DEF Step
<1>5. CASE UNCHANGED vars
  BY Zenon, <1>1, <1>5 DEF vars, flags, SyncInv, TypeInv
<1> QED BY <1>2, <1>4, <1>5, Zenon DEF Next

LEMMA SyncSafe ==
  ASSUME DownloaderConstants, SyncInv
  PROVE  NothingLeftBehind
<1> SUFFICES ASSUME \A t \in Threads : thread[t].pc = "idle"
             PROVE  /\ ~finSyncing /\ ~dagSyncing /\ hashesLock = None /\ cancelCh # "open"
                    /\ \A p \in Peers : ~IsPeerSync(p)
  BY SMTT(30) DEF NothingLeftBehind
<1>1. ~finSyncing /\ ~dagSyncing /\ hashesLock = None /\ cancelCh # "open"
  BY SMTT(30) DEF SyncInv, FlagInv, SetsDag, SetsFin, Locks, Fetching, Downloading, Cancelling
<1>2. \A t \in Threads : thread[t].holds = 0
  BY DEF SyncInv, TypeInv, RecordOK, Claims, Fetching, Downloading, Cancelling
<1>3. ASSUME NEW p \in Peers PROVE ~IsPeerSync(p)
  <2>1. Uses(p) = {}
    BY <1>2 DEF Uses
  <2> QED BY <2>1, FS_EmptySet DEF SyncInv, CountInv, IsPeerSync
<1> QED BY Zenon, <1>1, <1>3

\* When no synchronisation runs, both flags are down, the lock is free, no
\* peer is in use and the cancel channel is not open, however the
\* synchronisations were interleaved, timed out or were cancelled: the deferred
\* calls of SyncUnloadedParents, MainSync and DagSync leave nothing behind.
THEOREM NothingLeftBehindCorrect == ASSUME DownloaderConstants PROVE Spec => []NothingLeftBehind
<1>1. Init => SyncInv
  BY SyncInit
<1>2. SyncInv /\ [Next]_vars => SyncInv'
  BY SyncNext
<1>3. SyncInv => NothingLeftBehind
  BY SyncSafe
<1> QED BY <1>1, <1>2, <1>3, PTL DEF Spec

=============================================================================
