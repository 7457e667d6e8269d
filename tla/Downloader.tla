----------------------------- MODULE Downloader -----------------------------
(***************************************************************************)
(* The gates and the packet routing of eth/downloader/downloader.go.       *)
(*                                                                         *)
(* A node runs several synchronisations side by side.  A block inserter    *)
(* that meets a block with unknown parents runs SyncUnloadedParents        *)
(* ("parents"), and the finalization thread runs MainSync ("main") or the  *)
(* block download of DagSync ("head").  They share the two busy flags, the *)
(* cancel channel, the common packet channels of capacity one, and the     *)
(* per-peer channels of syncPeers, which any fetch loop fills: a loop that *)
(* finds a packet of another peer redirects it to that peer's channel.     *)
(*                                                                         *)
(* A Go channel that was replaced or closed while somebody still holds a   *)
(* reference to it is modelled in the holder: `watch` is the cancel        *)
(* channel a select waits on, `ref` the peer channel a redirect writes to. *)
(* A send on a closed channel is a Go panic: it stops the node.            *)
(***************************************************************************)
EXTENDS Naturals, FiniteSets, Sequences

CONSTANTS
    Threads,     \* the goroutines that run synchronisations
    Peers,       \* the registered peers
    Kinds,       \* the packet kinds in play: "dag", "header", "body"
    Plan,        \* Plan[s]: the kinds a synchronisation of sort s fetches in turn
    Jobs,        \* Jobs[t]: the set of sorts thread t may run
    MaxSyncs,    \* bound on the synchronisations started
    None

Sorts == {"parents", "main", "head"}

\* What the settings may be.
DownloaderConstants ==
    /\ IsFiniteSet(Threads)
    /\ \A t \in Threads : Jobs[t] \subseteq Sorts

VARIABLES
    finSyncing,  \* the busy flag of MainSync and DagSync
    dagSyncing,  \* the busy flag of the block downloads
    hashesLock,  \* the thread that holds syncByHashesLock, or None
    cancelCh,    \* the current cancel channel: "nil", "open" or "closed"
    chans,       \* chans[p]: syncPeers[p]: procCount and the buffered packet of each kind
    common,      \* common[k]: the packet in the common channel of kind k, a peer or None
    wire,        \* wire[p]: the answers peer p owes, in order
    handler,     \* handler[p]: the delivery its message loop is blocked in
    thread,      \* thread[t]: the synchronisation thread t runs
    started,     \* synchronisations started so far
    crashed      \* a send on a closed channel has stopped the node

vars == <<finSyncing, dagSyncing, hashesLock, cancelCh, chans, common, wire,
          handler, thread, started, crashed>>

flags == <<finSyncing, dagSyncing, hashesLock>>

Watched == {"current", "orphan", "closed"}

(* A synchronisation at rest. `pc` is where it is, `sort` and `peer` what  *)
(* it does, `step` the next fetch of its plan, `todo` the peers MainSync   *)
(* and DagSync have still to try, `holds` its uses of syncPeers[peer].     *)
Idle == [pc |-> "idle", sort |-> None, peer |-> None, step |-> 1, todo |-> {},
         holds |-> 0, watch |-> "current", packet |-> None, kind |-> None, ref |-> "open"]

NoDelivery == [kind |-> None, watch |-> "current"]

Empty == [k \in Kinds |-> None]
NoChans == [procCount |-> 0, buffer |-> Empty]

Init ==
    /\ finSyncing = FALSE /\ dagSyncing = FALSE /\ hashesLock = None
    /\ cancelCh = "nil"
    /\ chans = [p \in Peers |-> NoChans]
    /\ common = Empty
    /\ wire = [p \in Peers |-> <<>>]
    /\ handler = [p \in Peers |-> NoDelivery]
    /\ thread = [t \in Threads |-> Idle]
    /\ started = 0
    /\ crashed = FALSE

At(t, pc) == ~crashed /\ thread[t].pc = pc

Goto(t, pc) == thread' = [thread EXCEPT ![t].pc = pc]

-----------------------------------------------------------------------------
(* The per-peer channels: setPeerSync, resetPeerSync.                      *)

SetPeerSync(p) == chans' = [chans EXCEPT ![p].procCount = @ + 1]

(* The last user closes the channels and deletes the entry. *)
Decr(c) == IF c.procCount <= 1 THEN NoChans ELSE [c EXCEPT !.procCount = @ - 1]

ResetPeerSync(p) == chans' = [chans EXCEPT ![p] = Decr(@)]

IsPeerSync(p) == chans[p].procCount > 0

(* Who redirects a packet of peer p holds a channel that is now closed.    *)
CloseRefs(p, th) ==
    IF Decr(chans[p]).procCount = 0
    THEN [t \in Threads |-> IF th[t].pc \in {"drain", "send"} /\ th[t].packet = p
                            THEN [th[t] EXCEPT !.ref = "closed"] ELSE th[t]]
    ELSE th

-----------------------------------------------------------------------------
(* The cancel channel.  A new synchronisation replaces it; who waits on    *)
(* the old one keeps the old one.                                          *)

Left(watch) == IF watch # "current" THEN watch
               ELSE IF cancelCh = "closed" THEN "closed" ELSE "orphan"

ReplaceCancel(th) ==
    /\ cancelCh' = "open"
    /\ thread' = [t \in Threads |->
                    IF th[t].pc = "select" THEN [th[t] EXCEPT !.watch = Left(@)] ELSE th[t]]
    /\ handler' = [p \in Peers |->
                     IF handler[p].kind # None THEN [handler[p] EXCEPT !.watch = Left(@)]
                     ELSE handler[p]]

Cancelled(watch) == watch = "closed" \/ (watch = "current" /\ cancelCh = "closed")

(* Draining the common channels and opening a cancel channel, which every  *)
(* synchronisation does once it is past its gate.                          *)
Prepare(t, next) ==
    /\ common' = Empty
    /\ ReplaceCancel([thread EXCEPT ![t] = next])

-----------------------------------------------------------------------------
(* Starting a synchronisation, and the gates.                              *)

Start(t) ==
    /\ At(t, "idle") /\ started < MaxSyncs
    /\ \E s \in Jobs[t], p \in Peers :
         thread' = [thread EXCEPT ![t] =
            [Idle EXCEPT !.pc = IF s = "parents" THEN "lock" ELSE "gate", !.sort = s,
                         !.peer = p, !.todo = IF s = "parents" THEN {} ELSE Peers \ {p}]]
    /\ started' = started + 1
    /\ UNCHANGED <<flags, cancelCh, chans, common, wire, handler, crashed>>

(* SyncUnloadedParents takes its lock, and returns at once when every      *)
(* parent has arrived meanwhile or when the peer is in use.                *)
Lock(t) ==
    /\ At(t, "lock") /\ hashesLock = None
    /\ hashesLock' = t
    /\ Goto(t, "check")
    /\ UNCHANGED <<finSyncing, dagSyncing, cancelCh, chans, common, wire, handler, started, crashed>>

AlreadyInserted(t) ==
    /\ At(t, "check")
    /\ Goto(t, "unlock")
    /\ UNCHANGED <<flags, cancelCh, chans, common, wire, handler, started, crashed>>

PeerBusy(t) ==
    /\ At(t, "check") /\ IsPeerSync(thread[t].peer)
    /\ Goto(t, "unlock")
    /\ UNCHANGED <<flags, cancelCh, chans, common, wire, handler, started, crashed>>

PeerFree(t) ==
    /\ At(t, "check") /\ ~IsPeerSync(thread[t].peer)
    /\ Goto(t, "claim")
    /\ UNCHANGED <<flags, cancelCh, chans, common, wire, handler, started, crashed>>

Claim(t) ==
    /\ At(t, "claim")
    /\ SetPeerSync(thread[t].peer)
    /\ Prepare(t, [thread[t] EXCEPT !.pc = "enter", !.holds = 1])
    /\ UNCHANGED <<flags, wire, started, crashed>>

(* MainSync and DagSync: the busy check and the compare-and-swap are two   *)
(* reads.  HandleFinalize calls them under dagMu, so the swap succeeds.    *)
Synchronising == finSyncing \/ dagSyncing

(* MainSync turns to the next peer, DagSync gives up. *)
AfterBusy(t) == IF thread[t].sort = "main" THEN "next" ELSE "end"

GateBusy(t) ==
    /\ At(t, "gate") /\ Synchronising
    /\ Goto(t, AfterBusy(t))
    /\ UNCHANGED <<flags, cancelCh, chans, common, wire, handler, started, crashed>>

GateFree(t) ==
    /\ At(t, "gate") /\ ~Synchronising
    /\ Goto(t, "swap")
    /\ UNCHANGED <<flags, cancelCh, chans, common, wire, handler, started, crashed>>

Swap(t) ==
    /\ At(t, "swap") /\ ~finSyncing
    /\ finSyncing' = TRUE
    /\ Prepare(t, [thread[t] EXCEPT !.pc = IF thread[t].sort = "main" THEN "base" ELSE "enter"])
    /\ UNCHANGED <<dagSyncing, hashesLock, chans, wire, started, crashed>>

(* checkPeer looks the base spine up before it asks the peer: without a    *)
(* finalized base MainSync gives up.                                       *)
BaseFound(t) ==
    /\ At(t, "base")
    /\ Goto(t, "fetch")
    /\ UNCHANGED <<flags, cancelCh, chans, common, wire, handler, started, crashed>>

InvalidBaseSpine(t) ==
    /\ At(t, "base")
    /\ thread' = [thread EXCEPT ![t].pc = "leave", ![t].todo = {}]
    /\ UNCHANGED <<flags, cancelCh, chans, common, wire, handler, started, crashed>>

(* The compare-and-swap of dagSyncing in front of the block downloads.     *)
EnterBusy(t) ==
    /\ At(t, "enter") /\ dagSyncing
    /\ Goto(t, IF thread[t].sort = "head" THEN "more" ELSE "cancel")
    /\ UNCHANGED <<flags, cancelCh, chans, common, wire, handler, started, crashed>>

Enter(t) ==
    /\ At(t, "enter") /\ ~dagSyncing
    /\ dagSyncing' = TRUE
    /\ Goto(t, "fetch")
    /\ UNCHANGED <<finSyncing, hashesLock, cancelCh, chans, common, wire, handler, started, crashed>>

-----------------------------------------------------------------------------
(* A fetch: fetchHeaderByHash, fetchHashesBySpines, fetchDagHeaders,       *)
(* requestDagTxs and their likes differ in the kind they wait for.         *)

Wanted(t) == Plan[thread[t].sort][thread[t].step]

Request(t) ==
    /\ At(t, "fetch") /\ thread[t].step <= Len(Plan[thread[t].sort])
    /\ SetPeerSync(thread[t].peer)
    /\ wire' = [wire EXCEPT ![thread[t].peer] = Append(@, Wanted(t))]
    /\ thread' = [thread EXCEPT ![t].pc = "select", ![t].holds = @ + 1, ![t].watch = "current"]
    /\ UNCHANGED <<flags, cancelCh, common, handler, started, crashed>>

(* The peer's connection is gone: the request fails. *)
RequestFails(t) ==
    /\ At(t, "fetch") /\ thread[t].step <= Len(Plan[thread[t].sort])
    /\ Goto(t, "leave")
    /\ UNCHANGED <<flags, cancelCh, chans, common, wire, handler, started, crashed>>

(* The synchronisation has all its packets, writes the blocks and returns. *)
Written(t) ==
    /\ At(t, "fetch") /\ thread[t].step > Len(Plan[thread[t].sort])
    /\ thread' = [thread EXCEPT ![t].pc = "leave",
                                ![t].todo = IF thread[t].sort = "main" THEN {} ELSE @]
    /\ UNCHANGED <<flags, cancelCh, chans, common, wire, handler, started, crashed>>

Done(t, pc, step) ==
    /\ ResetPeerSync(thread[t].peer)
    /\ thread' = CloseRefs(thread[t].peer,
                   [thread EXCEPT ![t].pc = pc, ![t].step = step, ![t].holds = @ - 1])

Receive(t) ==
    LET p == thread[t].peer IN
    /\ At(t, "select") /\ chans[p].buffer[Wanted(t)] # None
    /\ chans' = [chans EXCEPT ![p] = Decr([@ EXCEPT !.buffer[Wanted(t)] = None])]
    /\ thread' = CloseRefs(p, [thread EXCEPT ![t].pc = "fetch", ![t].step = @ + 1,
                                             ![t].holds = @ - 1])
    /\ UNCHANGED <<flags, cancelCh, common, wire, handler, started, crashed>>

SelectCancelled(t) ==
    /\ At(t, "select") /\ Cancelled(thread[t].watch)
    /\ Done(t, "leave", thread[t].step)
    /\ UNCHANGED <<flags, cancelCh, common, wire, handler, started, crashed>>

(* mutant: a fetch that times out keeps its use of the peer *)
TimeoutKeeps(t) ==
    /\ At(t, "select")
    /\ Goto(t, "leave")
    /\ UNCHANGED <<flags, cancelCh, chans, common, wire, handler, started, crashed>>

Timeout(t) ==
    /\ At(t, "select")
    /\ Done(t, "leave", thread[t].step)
    /\ UNCHANGED <<flags, cancelCh, common, wire, handler, started, crashed>>

-----------------------------------------------------------------------------
(* redirectPacketToSyncPeerChan.                                           *)

(* The loop takes a packet from a common channel. *)
Take(t) ==
    /\ At(t, "select")
    /\ \E k \in Kinds :
         /\ common[k] # None
         /\ common' = [common EXCEPT ![k] = None]
         /\ thread' = [thread EXCEPT ![t].pc = "redirect", ![t].packet = common[k], ![t].kind = k]
    /\ UNCHANGED <<flags, cancelCh, chans, wire, handler, started, crashed>>

(* A packet of a peer nobody synchronises with is dropped. *)
NotSyncPeer(t) ==
    /\ At(t, "redirect") /\ ~IsPeerSync(thread[t].packet)
    /\ thread' = [thread EXCEPT ![t].pc = "select", ![t].watch = "current",
                                ![t].packet = None, ![t].kind = None]
    /\ UNCHANGED <<flags, cancelCh, chans, common, wire, handler, started, crashed>>

(* The length of the peer's channel is read before it is drained and       *)
(* before the packet is sent.                                              *)
Redirect(t) ==
    /\ At(t, "redirect") /\ IsPeerSync(thread[t].packet)
    /\ thread' = [thread EXCEPT ![t].ref = "open", ![t].pc =
         IF chans[thread[t].packet].buffer[thread[t].kind] # None THEN "drain" ELSE "send"]
    /\ UNCHANGED <<flags, cancelCh, chans, common, wire, handler, started, crashed>>

Drain(t) ==
    /\ At(t, "drain")
    /\ \/ /\ thread[t].ref = "open" /\ chans[thread[t].packet].buffer[thread[t].kind] # None
          /\ chans' = [chans EXCEPT ![thread[t].packet].buffer[thread[t].kind] = None]
       \/ thread[t].ref = "closed" /\ UNCHANGED chans
    /\ Goto(t, "send")
    /\ UNCHANGED <<flags, cancelCh, common, wire, handler, started, crashed>>

Send(t) ==
    /\ At(t, "send") /\ thread[t].ref = "open"
    /\ chans[thread[t].packet].buffer[thread[t].kind] = None
    /\ chans' = [chans EXCEPT ![thread[t].packet].buffer[thread[t].kind] = thread[t].packet]
    /\ thread' = [thread EXCEPT ![t].pc = "select", ![t].watch = "current",
                                ![t].packet = None, ![t].kind = None]
    /\ UNCHANGED <<flags, cancelCh, common, wire, handler, started, crashed>>

SendOnClosed(t) ==
    /\ At(t, "send") /\ thread[t].ref = "closed"
    /\ crashed' = TRUE
    /\ UNCHANGED <<flags, cancelCh, chans, common, wire, handler, thread, started>>

-----------------------------------------------------------------------------
(* The way out: the deferred calls, last one first.                        *)

(* The download of blocks clears dagSyncing; MainSync has not set it. *)
Leave(t) ==
    /\ At(t, "leave")
    /\ dagSyncing' = (thread[t].sort = "main" /\ dagSyncing)
    /\ Goto(t, IF thread[t].sort = "head" THEN "more" ELSE "cancel")
    /\ UNCHANGED <<finSyncing, hashesLock, cancelCh, chans, common, wire, handler, started, crashed>>

(* Cancel closes whatever cancel channel is current. *)
Cancel(t) ==
    /\ At(t, "cancel")
    /\ cancelCh' = "closed"
    /\ Goto(t, IF thread[t].sort = "parents" THEN "unclaim" ELSE "clear")
    /\ UNCHANGED <<flags, chans, common, wire, handler, started, crashed>>

Unclaim(t) ==
    /\ At(t, "unclaim")
    /\ Done(t, "unlock", thread[t].step)
    /\ UNCHANGED <<flags, cancelCh, common, wire, handler, started, crashed>>

Unlock(t) ==
    /\ At(t, "unlock")
    /\ hashesLock' = None
    /\ Goto(t, "reset")
    /\ UNCHANGED <<finSyncing, dagSyncing, cancelCh, chans, common, wire, handler, started, crashed>>

(* SyncUnloadedParents clears dagSyncing on every return, also when it     *)
(* never set it.                                                           *)
Reset(t) ==
    /\ At(t, "reset")
    /\ dagSyncing' = FALSE
    /\ thread' = [thread EXCEPT ![t] = Idle]
    /\ UNCHANGED <<finSyncing, hashesLock, cancelCh, chans, common, wire, handler, started, crashed>>

AfterClear(t) == IF thread[t].sort = "main" THEN "next" ELSE "end"

Clear(t) ==
    /\ At(t, "clear")
    /\ finSyncing' = FALSE
    /\ Goto(t, AfterClear(t))
    /\ UNCHANGED <<dagSyncing, hashesLock, cancelCh, chans, common, wire, handler, started, crashed>>

(* MainSync passes its gate anew for each peer; DagSync is past its gate   *)
(* and downloads from each peer in turn.                                   *)
TryPeer(t, pc) ==
    /\ \E p \in thread[t].todo :
         thread' = [thread EXCEPT ![t].peer = p, ![t].todo = @ \ {p}, ![t].step = 1, ![t].pc = pc]
    /\ UNCHANGED <<flags, cancelCh, chans, common, wire, handler, started, crashed>>

NextPeer(t) == At(t, "next") /\ TryPeer(t, "gate")

MorePeers(t) == At(t, "more") /\ TryPeer(t, "enter")

AllDownloaded(t) ==
    /\ At(t, "more") /\ thread[t].todo = {}
    /\ Goto(t, "cancel")
    /\ UNCHANGED <<flags, cancelCh, chans, common, wire, handler, started, crashed>>

Return(t) ==
    /\ At(t, "end") \/ (At(t, "next") /\ thread[t].todo = {})
    /\ thread' = [thread EXCEPT ![t] = Idle]
    /\ UNCHANGED <<flags, cancelCh, chans, common, wire, handler, started, crashed>>

-----------------------------------------------------------------------------
(* A peer's message loop: deliver.                                         *)

(* It reads the cancel channel, then waits to put the packet into the      *)
(* common channel or for that cancel channel to close.                     *)
Deliver(p) ==
    /\ ~crashed /\ handler[p].kind = None /\ wire[p] # <<>>
    /\ handler' = [handler EXCEPT ![p] = [kind |-> Head(wire[p]), watch |-> "current"]]
    /\ wire' = [wire EXCEPT ![p] = Tail(@)]
    /\ UNCHANGED <<flags, cancelCh, chans, common, thread, started, crashed>>

Delivered(p) ==
    /\ ~crashed /\ handler[p].kind # None /\ common[handler[p].kind] = None
    /\ common' = [common EXCEPT ![handler[p].kind] = p]
    /\ handler' = [handler EXCEPT ![p] = NoDelivery]
    /\ UNCHANGED <<flags, cancelCh, chans, wire, thread, started, crashed>>

NoSyncActive(p) ==
    /\ ~crashed /\ handler[p].kind # None /\ Cancelled(handler[p].watch)
    /\ handler' = [handler EXCEPT ![p] = NoDelivery]
    /\ UNCHANGED <<flags, cancelCh, chans, common, wire, thread, started, crashed>>

-----------------------------------------------------------------------------
Step(t) ==
    \/ Lock(t) \/ AlreadyInserted(t) \/ PeerBusy(t) \/ PeerFree(t) \/ Claim(t)
    \/ GateBusy(t) \/ GateFree(t) \/ Swap(t)
    \/ BaseFound(t) \/ InvalidBaseSpine(t) \/ EnterBusy(t) \/ Enter(t)
    \/ Request(t) \/ RequestFails(t) \/ Written(t)
    \/ Receive(t) \/ SelectCancelled(t) \/ Timeout(t)
    \/ Take(t) \/ NotSyncPeer(t) \/ Redirect(t) \/ Drain(t) \/ Send(t) \/ SendOnClosed(t)
    \/ Leave(t) \/ Cancel(t) \/ Unclaim(t) \/ Unlock(t) \/ Reset(t) \/ Clear(t)
    \/ NextPeer(t) \/ MorePeers(t) \/ AllDownloaded(t) \/ Return(t)

Next ==
    \/ \E t \in Threads : Start(t) \/ Step(t)
    \/ \E p \in Peers : Deliver(p) \/ Delivered(p) \/ NoSyncActive(p)

Spec == Init /\ [][Next]_vars

-----------------------------------------------------------------------------
TypeOK ==
    /\ finSyncing \in BOOLEAN /\ dagSyncing \in BOOLEAN /\ crashed \in BOOLEAN
    /\ hashesLock \in Threads \cup {None}
    /\ cancelCh \in {"nil", "open", "closed"}
    /\ chans \in [Peers -> [procCount : 0..2 * Cardinality(Threads),
                            buffer : [Kinds -> Peers \cup {None}]]]
    /\ common \in [Kinds -> Peers \cup {None}]
    /\ \A p \in Peers : handler[p].kind \in Kinds \cup {None} /\ handler[p].watch \in Watched
    /\ \A t \in Threads : /\ thread[t].sort \in Sorts \cup {None}
                          /\ thread[t].watch \in Watched
                          /\ thread[t].holds \in 0..2

(* When no synchronisation runs, nothing of one is left behind that would  *)
(* keep the next one out: both flags are down, the lock is free, no peer   *)
(* is in use and the cancel channel is not open.                           *)
NothingLeftBehind ==
    (\A t \in Threads : thread[t].pc = "idle") =>
        /\ ~finSyncing /\ ~dagSyncing /\ hashesLock = None /\ cancelCh # "open"
        /\ \A p \in Peers : ~IsPeerSync(p)
=============================================================================
