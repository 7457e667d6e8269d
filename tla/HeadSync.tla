------------------------------ MODULE HeadSync ------------------------------
(***************************************************************************)
(* The concurrent part of DagSync: multiPeersHeadSync of                   *)
(* eth/downloader/downloader.go asks several peers at once for the hashes  *)
(* of the blocks since the base spine, slot range by slot range.           *)
(*                                                                         *)
(* A semaphore of MaxPeerCon tokens limits the goroutines.  A goroutine    *)
(* that fails returns its token, so that another peer can be tried; one    *)
(* that succeeds keeps it, and the MaxPeerCon-th success cancels the loop. *)
(* The variables err and count of the enclosing function are shared by the *)
(* goroutines without a lock, so their reads and writes are steps of their *)
(* own.                                                                    *)
(***************************************************************************)
EXTENDS Naturals, FiniteSets

CONSTANTS
    MaxPeers,     \* bound on the number of registered peers
    MaxPeerCon,   \* the number of tokens
    Base,         \* the slot of the base spine
    RangeLimit,   \* slotRangeLimit: the slots of one request
    MaxCurrent    \* bound on the current slot

(* What the numbers are in the code: unsigned integers. *)
HeadSyncConstants ==
    /\ MaxPeers \in Nat /\ MaxPeerCon \in Nat
    /\ Base \in Nat /\ RangeLimit \in Nat /\ MaxCurrent \in Nat

VARIABLES
    peerLoop,     \* the loop over the peers: "loop", "wait", "end"
    untried,      \* the peers the loop has not come to
    sem,          \* tokens in the semaphore
    semClosed,    \* the semaphore channel is closed
    cancelled,    \* the context is cancelled
    err,          \* the shared error: "nil", "timeout", "bad"
    count,        \* the shared count of successes
    routine,      \* routine[p]: the goroutine of peer p
    peerSlots,    \* peerSlots[p]: the slots whose hashes syncPeerHashes[p] has
    dropped,      \* the peers dropPeer was called for
    current,      \* the current slot
    panicked      \* a goroutine has sent on the closed semaphore

headVars == <<peerLoop, untried, sem, semClosed, cancelled, err, count, routine, peerSlots,
          dropped, current, panicked>>

(* The peers in the order in which the loop tries them. *)
HeadPeers == 1..MaxPeers

NotStarted == [pc |-> "none", from |-> Base, began |-> Base, result |-> "nil", read |-> 0]

HeadInit ==
    /\ peerLoop = "loop" /\ untried \in {1..n : n \in 0..MaxPeers}
    /\ sem = MaxPeerCon /\ semClosed = FALSE /\ cancelled = FALSE
    /\ err = "nil" /\ count = 0
    /\ routine = [p \in HeadPeers |-> NotStarted]
    /\ peerSlots = [p \in HeadPeers |-> {}]
    /\ dropped = {}
    /\ current \in Base..MaxCurrent
    /\ panicked = FALSE

RoutineAt(p, pc) == ~panicked /\ routine[p].pc = pc
RoutineGoto(p, pc) == routine' = [routine EXCEPT ![p].pc = pc]

-----------------------------------------------------------------------------
(* The loop over the peers.                                                *)

Spawn(p) ==
    /\ peerLoop = "loop" /\ p \in untried /\ sem > 0 /\ ~panicked
    /\ \A q \in untried : p <= q
    /\ sem' = sem - 1
    /\ untried' = untried \ {p}
    /\ RoutineGoto(p, "check")
    /\ UNCHANGED <<peerLoop, semClosed, cancelled, err, count, peerSlots, dropped, current, panicked>>

Enough ==
    /\ peerLoop = "loop" /\ untried # {} /\ cancelled /\ ~panicked
    /\ semClosed' = TRUE
    /\ peerLoop' = "wait"
    /\ UNCHANGED <<untried, sem, cancelled, err, count, routine, peerSlots, dropped, current, panicked>>

AllTried ==
    /\ peerLoop = "loop" /\ untried = {} /\ ~panicked
    /\ peerLoop' = "wait"
    /\ UNCHANGED <<untried, sem, semClosed, cancelled, err, count, routine, peerSlots, dropped, current, panicked>>

(* wg.Wait, then the download of the blocks. *)
Wait ==
    /\ peerLoop = "wait" /\ ~panicked
    /\ \A p \in HeadPeers : routine[p].pc \in {"none", "done"}
    /\ peerLoop' = "end"
    /\ UNCHANGED <<untried, sem, semClosed, cancelled, err, count, routine, peerSlots, dropped, current, panicked>>

-----------------------------------------------------------------------------
(* The goroutine of a peer: checkPeer, then the ranges of slots.           *)

Checked(p) ==
    /\ RoutineAt(p, "check")
    /\ \E r \in {"nil", "timeout", "bad"} :
         routine' = [routine EXCEPT ![p].pc = IF r = "nil" THEN "range" ELSE "result",
                                    ![p].result = r, ![p].began = current]
    /\ UNCHANGED <<peerLoop, untried, sem, semClosed, cancelled, err, count, peerSlots, dropped, current, panicked>>

(* The peer answers with the hashes of the slots from .. to - 1, and stops *)
(* at its current slot.                                                    *)
ServedSlots(from, to) == {s \in from..to - 1 : s <= current}

(* mutant: the current slot is not asked for *)
RangesLeftStrict(p) == routine[p].from < current

(* multiPeerGetHashes reads the current slot anew for each range. *)
RangesLeft(p) == routine[p].from <= current

FetchRange(p) ==
    LET from == routine[p].from
        to == from + RangeLimit IN
    /\ RoutineAt(p, "range") /\ RangesLeft(p)
    /\ peerSlots' = [peerSlots EXCEPT ![p] = @ \cup ServedSlots(from, to)]
    /\ routine' = [routine EXCEPT ![p].from = to]
    /\ UNCHANGED <<peerLoop, untried, sem, semClosed, cancelled, err, count, dropped, current, panicked>>

RangeFails(p) ==
    /\ RoutineAt(p, "range") /\ RangesLeft(p)
    /\ routine' = [routine EXCEPT ![p].pc = "result", ![p].result = "timeout"]
    /\ UNCHANGED <<peerLoop, untried, sem, semClosed, cancelled, err, count, peerSlots, dropped, current, panicked>>

RangesDone(p) ==
    /\ RoutineAt(p, "range") /\ ~RangesLeft(p)
    /\ RoutineGoto(p, "result")
    /\ UNCHANGED <<peerLoop, untried, sem, semClosed, cancelled, err, count, peerSlots, dropped, current, panicked>>

(* err = multiPeerGetHashes(...), and then the test of the shared err.     *)
AssignErr(p) ==
    /\ RoutineAt(p, "result")
    /\ err' = routine[p].result
    /\ RoutineGoto(p, "test")
    /\ UNCHANGED <<peerLoop, untried, sem, semClosed, cancelled, count, peerSlots, dropped, current, panicked>>

TestErr(p) ==
    /\ RoutineAt(p, "test")
    /\ RoutineGoto(p, IF err = "nil" THEN "count" ELSE "classify")
    /\ UNCHANGED <<peerLoop, untried, sem, semClosed, cancelled, err, count, peerSlots, dropped, current, panicked>>

(* The error is read again to decide whether the peer is dropped. *)
Classify(p) ==
    /\ RoutineAt(p, "classify")
    /\ dropped' = IF err = "bad" THEN dropped \cup {p} ELSE dropped
    /\ RoutineGoto(p, "release")
    /\ UNCHANGED <<peerLoop, untried, sem, semClosed, cancelled, err, count, peerSlots, current, panicked>>

Release(p) ==
    /\ RoutineAt(p, "release")
    /\ IF semClosed
       THEN panicked' = TRUE /\ UNCHANGED <<sem, routine>>
       ELSE sem' = sem + 1 /\ RoutineGoto(p, "done") /\ UNCHANGED panicked
    /\ UNCHANGED <<peerLoop, untried, semClosed, cancelled, err, count, peerSlots, dropped, current>>

(* count++ is a read and a write. *)
ReadCount(p) ==
    /\ RoutineAt(p, "count")
    /\ routine' = [routine EXCEPT ![p].pc = "add", ![p].read = count]
    /\ UNCHANGED <<peerLoop, untried, sem, semClosed, cancelled, err, count, peerSlots, dropped, current, panicked>>

(* mutant: one success less is enough *)
EnoughEarly(n) == n >= MaxPeerCon - 1

EnoughPeers(n) == n = MaxPeerCon

WriteCount(p) ==
    /\ RoutineAt(p, "add")
    /\ count' = routine[p].read + 1
    /\ cancelled' = (cancelled \/ EnoughPeers(routine[p].read + 1))
    /\ RoutineGoto(p, "done")
    /\ UNCHANGED <<peerLoop, untried, sem, semClosed, err, peerSlots, dropped, current, panicked>>

(* Time goes on. *)
ClockTick ==
    /\ current < MaxCurrent /\ peerLoop # "end" /\ ~panicked
    /\ current' = current + 1
    /\ UNCHANGED <<peerLoop, untried, sem, semClosed, cancelled, err, count, routine, peerSlots, dropped, panicked>>

-----------------------------------------------------------------------------
RoutineStep(p) ==
    \/ Checked(p) \/ FetchRange(p) \/ RangeFails(p) \/ RangesDone(p) \/ AssignErr(p) \/ TestErr(p)
    \/ Classify(p) \/ Release(p) \/ ReadCount(p) \/ WriteCount(p)

Loop == Enough \/ AllTried \/ Wait \/ \E p \in HeadPeers : Spawn(p)

HeadNext == Loop \/ ClockTick \/ \E p \in HeadPeers : RoutineStep(p)

HeadSpec == HeadInit /\ [][HeadNext]_headVars

-----------------------------------------------------------------------------
HeadTypeOK ==
    /\ peerLoop \in {"loop", "wait", "end"} /\ untried \subseteq HeadPeers
    /\ sem \in 0..MaxPeerCon /\ count \in 0..MaxPeerCon
    /\ semClosed \in BOOLEAN /\ cancelled \in BOOLEAN /\ panicked \in BOOLEAN
    /\ err \in {"nil", "timeout", "bad"}
    /\ \A p \in HeadPeers : /\ peerSlots[p] \subseteq Base..MaxCurrent
                            /\ routine[p].from \in Base..MaxCurrent + RangeLimit
    /\ dropped \subseteq HeadPeers /\ current \in Base..MaxCurrent

(* No goroutine returns its token to a closed semaphore: the loop closes   *)
(* it after MaxPeerCon successes, when every token is kept, although the   *)
(* goroutines overwrite each other's err and count.                        *)
SemaphoreOpen == ~panicked

(* A goroutine that reached the end of its ranges has the hashes of every  *)
(* slot from the base spine to the slot that was current when it began: no *)
(* slot falls between two ranges.  A slot that begins while it runs may.   *)
SlotsCovered ==
    \A p \in HeadPeers : routine[p].pc = "result" /\ routine[p].result = "nil"
        => Base..routine[p].began \subseteq peerSlots[p]
=============================================================================
