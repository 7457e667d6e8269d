------------------------------ MODULE TxFetcher ------------------------------
(***************************************************************************)
(* eth/fetcher/tx_fetcher.go: transactions announced by peers wait for a   *)
(* broadcast, are queued, and are then requested from one of the peers     *)
(* that announced them.  One loop owns the tables; the handlers of the     *)
(* peers block on its channels, so what they checked before they sent may  *)
(* be out of date when the loop takes it.  Clocks are left out: when a     *)
(* timer fires, any of the waiting transactions, or of the requests, may   *)
(* be the ones that are due.                                               *)
(***************************************************************************)
EXTENDS Integers, SequencesExt

CONSTANTS
    Peer, Hash,
    Prompt,             \* peers that stay and answer every request in time
    MaxAnnounces,       \* maxTxAnnounces
    MaxRetrievals       \* maxTxRetrievals

ASSUME TxFetcherAssumption == MaxRetrievals \in Nat /\ IsFiniteSet(Peer)

VARIABLES
    f,          \* the TxFetcher: its tables and its two timers
    inbox,      \* what the handler of each peer waits to hand to the loop
    known,      \* transactions of the pool or marked as underpriced
    connected   \* registered peers

vars == <<f, inbox, known, connected>>

Nothing == [is |-> "none"]

-----------------------------------------------------------------------------
(* Tables: maps whose entries are sets                                      *)

Without(m, S) == [k \in DOMAIN m \ S |-> m[k]]

Trim(m) == [k \in {j \in DOMAIN m : m[j] # {}} |-> m[k]]

Of(m, k) == IF k \in DOMAIN m THEN m[k] ELSE {}

\* x is added to the entries of all the keys in S
AddTo(m, S, X) == [k \in DOMAIN m \cup S |-> Of(m, k) \cup (IF k \in S THEN X ELSE {})]

\* the members of X are taken from the entries of all the keys in S
TakeFrom(m, S, X) == Trim([k \in DOMAIN m |-> m[k] \ (IF k \in S THEN X ELSE {})])

\* a hash added to the entry of a peer that has none creates the entry
AddIf(m, k, X) == IF X = {} THEN m ELSE AddTo(m, {k}, X)

EmptyMap == [k \in {} |-> {}]

Init ==
    /\ f = [waitlist |-> EmptyMap, waitslots |-> EmptyMap,
            announces |-> EmptyMap, announced |-> EmptyMap,
            fetching |-> EmptyMap, requests |-> EmptyMap, alternates |-> EmptyMap,
            waitTimer |-> FALSE, timeoutTimer |-> FALSE]
    /\ inbox = [p \in Peer |-> Nothing]
    /\ known = {}
    /\ connected = Peer

-----------------------------------------------------------------------------
(* scheduleFetches                                                          *)

\* what each of the idle peers announced and nobody fetches
Free(g, actives) ==
    LET free(p) == Of(g.announces, p) \ DOMAIN g.fetching
    IN  [p \in {q \in actives \ DOMAIN g.requests : free(q) # {}} |-> free(p)]

\* peers are visited in any order; each is given, of what is still free, as
\* many hashes as fit
Requests(free) ==
    LET idle == DOMAIN free
        lists == UNION {Injection(1 .. n, Hash) : n \in 0 .. MaxRetrievals}
        left(o, turn, p) ==
            free[p] \ UNION {ToSet(o[q]) : q \in {r \in idle : turn[r] < turn[p]}}
    IN  {o \in [idle -> lists] :
           \E turn \in Bijection(idle, 1 .. Cardinality(idle)) : \A p \in idle :
              /\ ToSet(o[p]) \subseteq left(o, turn, p)
              /\ Len(o[p]) = MaxRetrievals \/ ToSet(o[p]) = left(o, turn, p)}

\* the requests are sent; the first one arms the timer
Requested(g, o) ==
    LET given == {p \in DOMAIN o : o[p] # <<>>}
        S == UNION {ToSet(o[p]) : p \in given}
    IN  [g EXCEPT !.fetching = [h \in DOMAIN @ \cup S |->
                                   IF h \in S THEN CHOOSE p \in given : h \in ToSet(o[p]) ELSE @[h]],
                  !.alternates = [h \in DOMAIN @ \cup S |->
                                     IF h \in S THEN Of(g.announced, h) ELSE @[h]],
                  !.announced = Without(@, S),
                  !.requests = [p \in DOMAIN @ \cup given |->
                                  IF p \in given THEN [hashes |-> o[p], stolen |-> {}] ELSE @[p]],
                  !.timeoutTimer = @ \/ (DOMAIN g.requests = {} /\ given # {})]

Scheduled(g, free) ==
    IF DOMAIN free = {} THEN {g} ELSE {Requested(g, o) : o \in Requests(free)}

ScheduleFetches(g, actives) ==
    UNION {UNION {Scheduled(x, free) : free \in {Free(x, actives)}} : x \in {g}}

ScheduleAll(g) == ScheduleFetches(g, DOMAIN g.announces)

-----------------------------------------------------------------------------
(* Handlers                                                                 *)

\* Notify: filters what is known, then waits for the loop
Notify(p, hs) ==
    /\ p \in connected
    /\ inbox[p] = Nothing
    /\ hs \ known # {}
    /\ inbox' = [inbox EXCEPT ![p] = [is |-> "announce", hashes |-> hs \ known]]
    /\ UNCHANGED <<f, known, connected>>

\* Enqueue: the transactions, added or too cheap, are known; then waits for
\* the loop.  A transaction the pool rejects otherwise stays unknown.
Enqueue(p, hs, direct, rejected) ==
    /\ p \in connected
    /\ inbox[p] = Nothing
    /\ ~ direct => hs # {}
    /\ known' = known \cup (hs \ rejected)
    /\ inbox' = [inbox EXCEPT ![p] = [is |-> "delivery", hashes |-> hs, direct |-> direct]]
    /\ UNCHANGED <<f, connected>>

Loop(p) == inbox' = [inbox EXCEPT ![p] = Nothing] /\ UNCHANGED <<known, connected>>

\* the notify case: how much of an announcement is taken
Taken(p, hs) ==
    LET used == Cardinality(Of(f.waitslots, p)) + Cardinality(Of(f.announces, p))
        want == used + Cardinality(hs)
    IN  CASE used >= MaxAnnounces -> {{}}
          [] used < MaxAnnounces /\ want > MaxAnnounces -> kSubset(want - MaxAnnounces, hs)
          [] OTHER -> {hs}

Announce(p, hs) ==
    LET down == hs \cap DOMAIN f.alternates
        queued == (hs \ down) \cap DOMAIN f.announced
        wait == hs \ (down \cup queued)
    IN  [f EXCEPT !.alternates = AddTo(@, down, {p}),
                  !.announced = AddTo(@, queued, {p}),
                  !.announces = AddIf(@, p, down \cup queued),
                  !.waitlist = AddTo(@, wait, {p}),
                  !.waitslots = AddIf(@, p, wait),
                  !.waitTimer = @ \/ (DOMAIN f.waitlist = {} /\ wait # {})]

LoopNotify(p) ==
    /\ inbox[p].is = "announce"
    /\ Loop(p)
    /\ \E hs \in Taken(p, inbox[p].hashes) :
          LET g == Announce(p, hs)
          IN  f' \in IF hs # {} /\ p \notin DOMAIN f.announces /\ p \in DOMAIN g.announces
                     THEN ScheduleFetches(g, {p}) ELSE {g}

\* the waitTrigger case, S being due
WaitExpired(S) ==
    [f EXCEPT !.announced = [h \in DOMAIN @ \cup S |->
                                IF h \in S THEN f.waitlist[h] ELSE @[h]],
              !.announces = Trim([p \in Peer |->
                                Of(@, p) \cup {h \in S : p \in f.waitlist[h]}]),
              !.waitslots = TakeFrom(@, Peer, S),
              !.waitlist = Without(@, S),
              !.waitTimer = DOMAIN f.waitlist # S]

WaitTrigger(S) ==
    /\ f.waitTimer
    /\ UNCHANGED <<inbox, known, connected>>
    /\ f' \in ScheduleFetches(WaitExpired(S), UNION {f.waitlist[h] : h \in S})

\* the timeoutTrigger case: the requests of the peers in S are given up and
\* kept as dangling, what they did not deliver is queued for other peers
Lost(p) == ToSet(f.requests[p].hashes) \ f.requests[p].stolen

TimedOut(S) ==
    LET lost == UNION {Lost(p) : p \in S}
    IN  [f EXCEPT !.announced = Trim([h \in DOMAIN @ \cup lost |->
                                   IF h \in lost THEN Of(f.alternates, h) \ {f.fetching[h]}
                                   ELSE @[h]]),
                  !.announces = Trim([p \in DOMAIN @ |->
                                   IF p \in S THEN @[p] \ Lost(p) ELSE @[p]]),
                  !.alternates = Without(@, lost),
                  !.fetching = Without(@, lost),
                  !.requests = [p \in DOMAIN @ |->
                                   IF p \in S THEN [@[p] EXCEPT !.hashes = <<>>] ELSE @[p]]]

TimeoutTrigger(S) ==
    /\ f.timeoutTimer
    /\ UNCHANGED <<inbox, known, connected>>
    /\ f' \in ScheduleAll(TimedOut(S))

\* mutant: the request a delivery forestalls is not told
DeliveredUnstolen(p, d) ==
    LET wait == d.hashes \cap DOMAIN f.waitlist
        rest == d.hashes \ wait
    IN  [f EXCEPT !.waitlist = Without(@, wait),
                  !.waitslots = TakeFrom(@, Peer, wait),
                  !.announces = TakeFrom(@, Peer, rest),
                  !.announced = Without(@, rest),
                  !.alternates = Without(@, rest),
                  !.fetching = Without(@, rest)]

\* the cleanup case: all traces of the delivered hashes go
Delivered(p, d) ==
    LET wait == d.hashes \cap DOMAIN f.waitlist
        rest == d.hashes \ wait
        stolen(q) == {h \in rest \cap DOMAIN f.fetching :
                         f.fetching[h] = q /\ (q # p \/ ~ d.direct)}
    IN  [f EXCEPT !.waitlist = Without(@, wait),
                  !.waitslots = TakeFrom(@, Peer, wait),
                  !.announces = TakeFrom(@, Peer, rest),
                  !.announced = Without(@, rest),
                  !.alternates = Without(@, rest),
                  !.requests = [q \in DOMAIN @ |->
                                  [@[q] EXCEPT !.stolen = f.requests[q].stolen \cup stolen(q)]],
                  !.fetching = Without(@, rest)]

\* what a direct reply g of p leaves undelivered is queued for the others, and
\* for p itself when it comes after the last hash delivered
Answered(g, p, hs) ==
    LET req == g.requests[p]
        hits == {i \in 1 .. Len(req.hashes) : req.hashes[i] \in hs}
        cutoff == IF hits = {} THEN Len(req.hashes) + 1 ELSE Max(hits)
        own == {i \in 1 .. Len(req.hashes) : req.hashes[i] \notin req.stolen}
        missing == {req.hashes[i] : i \in {j \in own : req.hashes[j] \notin hs}}
        never == {req.hashes[i] : i \in {j \in own : req.hashes[j] \notin hs /\ j < cutoff}}
        left(h) == Of(g.alternates, h) \ (IF h \in never THEN {p} ELSE {})
    IN  [g EXCEPT !.requests = Without(@, {p}),
                  !.announces = TakeFrom(@, {p}, never),
                  !.announced = Trim([h \in DOMAIN @ \cup missing |->
                                        IF h \in missing THEN left(h) ELSE @[h]]),
                  !.alternates = Without(@, {req.hashes[i] : i \in own}),
                  !.fetching = Without(@, {req.hashes[i] : i \in own})]

\* mutant: idle peers are not given new requests
LoopCleanupOnly(p) ==
    /\ inbox[p].is = "delivery"
    /\ Loop(p)
    /\ LET d == inbox[p]
           g == Delivered(p, d)
       IN  f' = IF d.direct /\ p \in DOMAIN g.requests
                THEN Answered(g, p, d.hashes) ELSE g

LoopCleanup(p) ==
    /\ inbox[p].is = "delivery"
    /\ Loop(p)
    /\ LET d == inbox[p]
           g == Delivered(p, d)
       IN  f' \in IF d.direct /\ p \in DOMAIN g.requests
                  THEN ScheduleAll(Answered(g, p, d.hashes)) ELSE {g}

\* the drop case
Dropped(p) ==
    LET lost == IF p \in DOMAIN f.requests THEN Lost(p) ELSE {}
        queued == [h \in DOMAIN f.announced \cup lost |->
                      IF h \in lost THEN Of(f.alternates, h) \ {p} ELSE f.announced[h]]
        waitlist == TakeFrom(f.waitlist, Of(f.waitslots, p), {p})
    IN  [f EXCEPT !.waitlist = waitlist,
                  !.waitslots = Without(@, {p}),
                  !.waitTimer = @ \/ (p \in DOMAIN f.waitslots /\ DOMAIN waitlist # {}),
                  !.alternates = Without(@, lost),
                  !.fetching = Without(@, lost),
                  !.requests = Without(@, {p}),
                  !.announced = TakeFrom(Trim(queued), Of(f.announces, p), {p}),
                  !.announces = Without(@, {p})]

LoopDrop(p) ==
    f' \in IF p \in DOMAIN f.requests
           THEN {[x EXCEPT !.timeoutTimer = TRUE] : x \in ScheduleAll(Dropped(p))}
           ELSE {Dropped(p)}

\* fetchTxs failed
FetchFailed(p) ==
    /\ p \in DOMAIN f.requests \ Prompt
    /\ LoopDrop(p)
    /\ UNCHANGED <<inbox, known, connected>>

\* the peer is unregistered when its handler is done
Leave(p) ==
    /\ p \in connected \ Prompt
    /\ inbox[p] = Nothing
    /\ LoopDrop(p)
    /\ connected' = connected \ {p}
    /\ UNCHANGED <<inbox, known>>

Rejoin(p) ==
    /\ p \notin connected
    /\ connected' = connected \cup {p}
    /\ UNCHANGED <<f, inbox, known>>

Reply(p) ==
    /\ p \in DOMAIN f.requests
    /\ Enqueue(p, ToSet(f.requests[p].hashes), TRUE, {})

Next ==
    \/ \E p \in Peer, hs \in SUBSET Hash :
          \/ Notify(p, hs)
          \/ p \in Prompt /\ Enqueue(p, hs, FALSE, {})
          \/ p \notin Prompt /\ \E direct \in BOOLEAN : Enqueue(p, hs, direct, {})
    \/ \E p \in Peer :
          \/ Reply(p) \/ LoopNotify(p) \/ LoopCleanup(p) \/ FetchFailed(p)
          \/ Leave(p) \/ Rejoin(p)
    \/ \E S \in SUBSET DOMAIN f.waitlist : WaitTrigger(S)
    \/ \E S \in SUBSET (DOMAIN f.requests \ Prompt) : TimeoutTrigger(S)

Spec == Init /\ [][Next]_vars

\* the loop takes what waits for it, a prompt peer answers, timers fire
FairSpec ==
    /\ Spec
    /\ \A p \in Peer : WF_vars(LoopNotify(p) \/ LoopCleanup(p))
    /\ \A p \in Prompt : SF_vars(Reply(p))
    /\ WF_vars(WaitTrigger(DOMAIN f.waitlist))
    /\ \A p \in Peer \ Prompt : WF_vars(p \in DOMAIN f.requests /\ TimeoutTrigger({p}))

-----------------------------------------------------------------------------
(* Properties                                                               *)

\* Tables name peers and hashes, and none of their entries is an empty set,
\* which the code would go on treating as present.
TypeOK ==
    /\ \A m \in {f.waitlist, f.announced, f.alternates} :
          DOMAIN m \subseteq Hash /\ \A h \in DOMAIN m : m[h] \subseteq Peer /\ m[h] # {}
    /\ \A m \in {f.waitslots, f.announces} :
          DOMAIN m \subseteq Peer /\ \A p \in DOMAIN m : m[p] \subseteq Hash /\ m[p] # {}
    /\ DOMAIN f.fetching \subseteq Hash
    /\ DOMAIN f.requests \subseteq Peer
    /\ known \subseteq Hash

\* A hash is being fetched from a peer exactly when the request in flight to
\* that peer still asks for it and nobody else delivered it: no hash is
\* fetched on behalf of a request that is gone (which the loop would
\* dereference).  And a hash waits, is queued or is fetched, one at a time:
\* otherwise "announced tracker already contains alternate item" and the other
\* panics of the loop.
InFlight ==
    /\ \A p \in Peer :
          {h \in DOMAIN f.fetching : f.fetching[h] = p}
             = IF p \in DOMAIN f.requests THEN Lost(p) ELSE {}
    /\ DOMAIN f.alternates = DOMAIN f.fetching
    /\ DOMAIN f.waitlist \cap (DOMAIN f.announced \cup DOMAIN f.fetching) = {}
    /\ DOMAIN f.announced \cap DOMAIN f.fetching = {}

\* What a peer that answers announced is delivered, whoever else announces it,
\* fails to deliver it or leaves.
EventuallyKnown ==
    \A p \in Prompt, h \in Hash :
       (h \in Of(f.announces, p) \cup Of(f.waitslots, p)) ~> (h \in known)

=============================================================================
