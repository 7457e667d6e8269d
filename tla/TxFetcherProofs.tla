-------------------------- MODULE TxFetcherProofs --------------------------
(***************************************************************************)
(* InFlight of TxFetcher for any number of peers and hashes and any bounds.*)
(*                                                                         *)
(* The argument.  A hash moves from the waiting list to the queue and from *)
(* there to a request.  A request takes what a peer announced and nobody   *)
(* fetches; for that to be queued, and not waiting, the announces of a     *)
(* peer must be hashes that are queued or fetched with the peer among      *)
(* their origins (Listed).  A hash that leaves a request when it times out *)
(* or is answered loses its origin there, or is queued again for the       *)
(* others.                                                                 *)
(***************************************************************************)
EXTENDS TxFetcher, FiniteSetTheorems, TLAPS

Fields == {"waitlist", "waitslots", "announces", "announced", "fetching",
           "requests", "alternates", "waitTimer", "timeoutTimer"}

\* The tables of a fetcher g name peers, and a request has its two fields.
Shape(g) ==
  /\ DOMAIN g = Fields
  /\ DOMAIN g.announces \subseteq Peer
  /\ \A h \in DOMAIN g.waitlist : g.waitlist[h] \subseteq Peer
  /\ DOMAIN g.requests \subseteq Peer
  /\ \A p \in DOMAIN g.requests :
       DOMAIN g.requests[p] = {"hashes", "stolen"} /\ g.requests[p].hashes \in Seq(Hash)

\* What is fetched from p, and what the request to p still asks for.
Fetched(g, p) == {h \in DOMAIN g.fetching : g.fetching[h] = p}
Asked(g, p) ==
  IF p \in DOMAIN g.requests
  THEN ToSet(g.requests[p].hashes) \ g.requests[p].stolen ELSE {}

Flight(g) == \A p \in Peer : Fetched(g, p) = Asked(g, p)

Stages(g) ==
  /\ DOMAIN g.alternates = DOMAIN g.fetching
  /\ DOMAIN g.waitlist \cap (DOMAIN g.announced \cup DOMAIN g.fetching) = {}
  /\ DOMAIN g.announced \cap DOMAIN g.fetching = {}

\* What a peer announced is queued or fetched, with the peer as an origin.
Listed(g) ==
  \A p \in Peer : \A h \in Of(g.announces, p) :
    p \in Of(g.announced, h) \cup Of(g.alternates, h)

Good(g) == Shape(g) /\ Flight(g) /\ Stages(g) /\ Listed(g)

-----------------------------------------------------------------------------
(* Tables.                                                                  *)

LEMMA OfWithout ==
  ASSUME NEW m, NEW S
  PROVE  /\ \A k : k \in DOMAIN Without(m, S) <=> k \in DOMAIN m /\ k \notin S
         /\ \A k : k \in DOMAIN m /\ k \notin S => Without(m, S)[k] = m[k]
         /\ \A k, x : x \in Of(Without(m, S), k) <=> k \notin S /\ x \in Of(m, k)
BY DEF Without, Of

LEMMA OfTrim ==
  ASSUME NEW m
  PROVE  /\ DOMAIN Trim(m) \subseteq DOMAIN m
         /\ \A k : Of(Trim(m), k) = Of(m, k)
BY Zenon DEF Trim, Of

LEMMA OfAddTo ==
  ASSUME NEW m, NEW S, NEW X
  PROVE  /\ \A k : k \in DOMAIN AddTo(m, S, X) <=> k \in DOMAIN m \/ k \in S
         /\ \A k, x : x \in Of(AddTo(m, S, X), k) <=> x \in Of(m, k) \/ (k \in S /\ x \in X)
<1>1. \A k : k \in DOMAIN AddTo(m, S, X) <=> k \in DOMAIN m \/ k \in S
  BY DEF AddTo
<1>2. ASSUME NEW k, NEW x
      PROVE  x \in Of(AddTo(m, S, X), k) <=> x \in Of(m, k) \/ (k \in S /\ x \in X)
  <2>1. CASE k \in DOMAIN m \cup S
    BY Zenon, <2>1 DEF AddTo, Of
  <2>2. CASE k \notin DOMAIN m \cup S
    BY Zenon, <2>2, <1>1 DEF Of
  <2> QED
    BY Zenon, <2>1, <2>2
<1> QED
  BY Zenon, <1>1, <1>2

LEMMA OfTakeFrom ==
  ASSUME NEW m, NEW S, NEW X
  PROVE  /\ DOMAIN TakeFrom(m, S, X) \subseteq DOMAIN m
         /\ \A k : Of(TakeFrom(m, S, X), k) = Of(m, k) \ (IF k \in S THEN X ELSE {})
<1> DEFINE n == [k \in DOMAIN m |-> m[k] \ (IF k \in S THEN X ELSE {})]
<1>1. /\ DOMAIN Trim(n) \subseteq DOMAIN m
      /\ \A k : Of(Trim(n), k) = Of(n, k)
  BY OfTrim
<1>2. \A k : Of(n, k) = Of(m, k) \ (IF k \in S THEN X ELSE {})
  BY DEF Of
<1>3. TakeFrom(m, S, X) = Trim(n)
  BY DEF TakeFrom
<1> QED
  BY Zenon, <1>1, <1>2, <1>3

LEMMA OfAddIf ==
  ASSUME NEW m, NEW p, NEW X
  PROVE  /\ \A k : k \in DOMAIN AddIf(m, p, X) => k \in DOMAIN m \/ k = p
         /\ \A k, x : x \in Of(AddIf(m, p, X), k) <=> x \in Of(m, k) \/ (k = p /\ x \in X)
<1>1. CASE X = {}
  BY Zenon, <1>1 DEF AddIf
<1>2. CASE X # {}
  <2>1. AddIf(m, p, X) = AddTo(m, {p}, X)
    BY Zenon, <1>2 DEF AddIf
  <2>2. /\ \A k : k \in DOMAIN AddTo(m, {p}, X) <=> k \in DOMAIN m \/ k \in {p}
        /\ \A k, x : x \in Of(AddTo(m, {p}, X), k) <=> x \in Of(m, k) \/ (k \in {p} /\ x \in X)
    BY Zenon, OfAddTo
  <2> QED
    BY Zenon, <2>1, <2>2
<1> QED
  BY Zenon, <1>1, <1>2

-----------------------------------------------------------------------------
(* The handlers.                                                            *)

LEMMA AnnounceGood ==
  ASSUME Good(f), NEW p \in Peer, NEW hs
  PROVE  Good(Announce(p, hs))
<1> DEFINE down == hs \cap DOMAIN f.alternates
           queued == (hs \ down) \cap DOMAIN f.announced
           wait == hs \ (down \cup queued)
           r == Announce(p, hs)
<1>1. /\ DOMAIN r = Fields
      /\ r.fetching = f.fetching /\ r.requests = f.requests
      /\ r.alternates = AddTo(f.alternates, down, {p})
      /\ r.announced = AddTo(f.announced, queued, {p})
      /\ r.announces = AddIf(f.announces, p, down \cup queued)
      /\ r.waitlist = AddTo(f.waitlist, wait, {p})
  BY Zenon DEF Announce, Good, Shape, Fields
<1>2. /\ \A k : k \in DOMAIN r.alternates <=> k \in DOMAIN f.alternates \/ k \in down
      /\ \A k, x : x \in Of(r.alternates, k)
                     <=> x \in Of(f.alternates, k) \/ (k \in down /\ x \in {p})
  BY <1>1, OfAddTo
<1>3. /\ \A k : k \in DOMAIN r.announced <=> k \in DOMAIN f.announced \/ k \in queued
      /\ \A k, x : x \in Of(r.announced, k)
                     <=> x \in Of(f.announced, k) \/ (k \in queued /\ x \in {p})
  BY <1>1, OfAddTo
<1>4. /\ \A k : k \in DOMAIN r.waitlist <=> k \in DOMAIN f.waitlist \/ k \in wait
      /\ \A k, x : x \in Of(r.waitlist, k)
                     <=> x \in Of(f.waitlist, k) \/ (k \in wait /\ x \in {p})
  BY <1>1, OfAddTo
<1>5. /\ \A k : k \in DOMAIN r.announces => k \in DOMAIN f.announces \/ k = p
      /\ \A k, x : x \in Of(r.announces, k)
                     <=> x \in Of(f.announces, k) \/ (k = p /\ x \in down \cup queued)
  BY <1>1, OfAddIf
<1> HIDE DEF r
<1>6. Shape(r)
  <2>1. \A h \in DOMAIN r.waitlist : r.waitlist[h] \subseteq Peer
    BY Zenon, <1>4 DEF Of, Good, Shape
  <2> QED
    BY Zenon, <1>1, <1>5, <2>1 DEF Good, Shape
<1>7. Flight(r)
  BY <1>1 DEF Good, Flight, Fetched, Asked
<1>8. Stages(r)
  BY ZenonT(60), <1>1, <1>2, <1>3, <1>4 DEF Good, Stages
<1>9. Listed(r)
  BY ZenonT(60), <1>2, <1>3, <1>5 DEF Good, Listed
<1> QED
  BY ZenonT(60), <1>6, <1>7, <1>8, <1>9 DEF Good, r

LEMMA WaitExpiredGood ==
  ASSUME Good(f), NEW S \in SUBSET DOMAIN f.waitlist
  PROVE  Good(WaitExpired(S))
<1> DEFINE r == WaitExpired(S)
           q == [h \in DOMAIN f.announced \cup S |->
                   IF h \in S THEN f.waitlist[h] ELSE f.announced[h]]
           a == [p \in Peer |-> Of(f.announces, p) \cup {h \in S : p \in f.waitlist[h]}]
<1>1. /\ DOMAIN r = Fields
      /\ r.fetching = f.fetching /\ r.requests = f.requests /\ r.alternates = f.alternates
      /\ r.announced = q /\ r.announces = Trim(a) /\ r.waitlist = Without(f.waitlist, S)
  BY DEF WaitExpired, Good, Shape, Fields
<1>2. /\ \A k : k \in DOMAIN r.waitlist <=> k \in DOMAIN f.waitlist /\ k \notin S
      /\ \A k : k \in DOMAIN f.waitlist /\ k \notin S => r.waitlist[k] = f.waitlist[k]
  BY SMTT(30), <1>1, OfWithout
<1>3. DOMAIN r.announces \subseteq Peer /\ \A k : Of(r.announces, k) = Of(a, k)
  BY <1>1, OfTrim
<1>4. DOMAIN r.announced = DOMAIN f.announced \cup S
  BY Zenon, <1>1
<1>5. \A h : Of(r.announced, h) = IF h \in S THEN f.waitlist[h] ELSE Of(f.announced, h)
  BY Zenon, <1>1 DEF Of
<1>6. \A p \in Peer : Of(a, p) = Of(f.announces, p) \cup {h \in S : p \in f.waitlist[h]}
  BY DEF Of
<1> HIDE DEF r, q, a
<1>7. Shape(r)
  BY ZenonT(60), <1>1, <1>2, <1>3 DEF Good, Shape
<1>8. Flight(r)
  BY <1>1 DEF Good, Flight, Fetched, Asked
<1>9. Stages(r)
  BY ZenonT(60), <1>1, <1>2, <1>4 DEF Good, Stages
<1>10. Listed(r)
  <2> SUFFICES ASSUME NEW p \in Peer, NEW h \in Of(r.announces, p)
               PROVE  p \in Of(r.announced, h) \cup Of(r.alternates, h)
    BY DEF Listed
  <2>1. h \in Of(f.announces, p) \/ (h \in S /\ p \in f.waitlist[h])
    BY Zenon, <1>3, <1>6
  <2>2. CASE h \in Of(f.announces, p)
    <3>1. p \in Of(f.announced, h) \cup Of(f.alternates, h)
      BY Zenon, <2>2 DEF Good, Listed
    <3>2. h \notin S
      BY Zenon, <3>1 DEF Good, Stages, Of
    <3> QED
      BY Zenon, <1>1, <1>5, <3>1, <3>2
  <2>3. CASE h \in S /\ p \in f.waitlist[h]
    BY Zenon, <1>5, <2>3
  <2> QED
    BY ZenonT(60), <2>1, <2>2, <2>3
<1> QED
  BY ZenonT(60), <1>7, <1>8, <1>9, <1>10 DEF Good, r

\* What a peer's request still asks for is fetched, from that peer alone.
LEMMA LostFetched ==
  ASSUME Good(f), NEW p \in DOMAIN f.requests
  PROVE  /\ p \in Peer /\ Lost(p) = Fetched(f, p) /\ Lost(p) = Asked(f, p)
         /\ \A h \in Lost(p) : /\ h \in DOMAIN f.fetching /\ f.fetching[h] = p
                               /\ h \in DOMAIN f.alternates
                               /\ h \notin DOMAIN f.announced /\ h \notin DOMAIN f.waitlist
BY Zenon DEF Good, Shape, Flight, Stages, Lost, Asked, Fetched

LEMMA NoHashes == <<>> \in Seq(Hash) /\ ToSet(<<>>) = {}
<1>1. <<>> \in Seq(Hash) /\ DOMAIN <<>> = {}
  OBVIOUS
<1> QED
  BY Zenon, <1>1 DEF ToSet

LEMMA TimedOutGood ==
  ASSUME Good(f), NEW S \in SUBSET DOMAIN f.requests
  PROVE  Good(TimedOut(S))
<1> DEFINE r == TimedOut(S)
           lost == UNION {Lost(p) : p \in S}
           q == [h \in DOMAIN f.announced \cup lost |->
                   IF h \in lost THEN Of(f.alternates, h) \ {f.fetching[h]} ELSE f.announced[h]]
           a == [p \in DOMAIN f.announces |->
                   IF p \in S THEN f.announces[p] \ Lost(p) ELSE f.announces[p]]
           e == [p \in DOMAIN f.requests |->
                   IF p \in S THEN [f.requests[p] EXCEPT !.hashes = <<>>] ELSE f.requests[p]]
<1>1. /\ DOMAIN r = Fields
      /\ r.announced = Trim(q) /\ r.announces = Trim(a) /\ r.requests = e
      /\ r.alternates = Without(f.alternates, lost) /\ r.fetching = Without(f.fetching, lost)
      /\ r.waitlist = f.waitlist
  BY DEF TimedOut, Good, Shape, Fields
<1>2. \A p \in S : /\ p \in Peer /\ Lost(p) = Fetched(f, p) /\ Lost(p) \subseteq lost
                   /\ \A h \in Lost(p) : h \in DOMAIN f.fetching /\ f.fetching[h] = p
  BY LostFetched
<1>3. \A h \in lost : /\ \E p \in S : h \in Lost(p) /\ f.fetching[h] = p
                      /\ h \in DOMAIN f.fetching /\ h \in DOMAIN f.alternates
                      /\ h \notin DOMAIN f.announced /\ h \notin DOMAIN f.waitlist
  BY LostFetched
<1>4. DOMAIN r.announced \subseteq DOMAIN f.announced \cup lost
      /\ \A h : Of(r.announced, h) = IF h \in lost THEN Of(f.alternates, h) \ {f.fetching[h]}
                                     ELSE Of(f.announced, h)
  <2>1. DOMAIN Trim(q) \subseteq DOMAIN q /\ \A h : Of(Trim(q), h) = Of(q, h)
    BY Zenon, OfTrim
  <2>2. \A h : Of(q, h) = IF h \in lost THEN Of(f.alternates, h) \ {f.fetching[h]}
                          ELSE Of(f.announced, h)
    BY DEF Of
  <2> QED
    BY ZenonT(60), <1>1, <2>1, <2>2
<1>5. /\ DOMAIN r.announces \subseteq DOMAIN f.announces
      /\ \A p : Of(r.announces, p) = Of(f.announces, p) \ (IF p \in S THEN Lost(p) ELSE {})
  <2>1. DOMAIN Trim(a) \subseteq DOMAIN a /\ \A p : Of(Trim(a), p) = Of(a, p)
    BY Zenon, OfTrim
  <2>2. \A p : Of(a, p) = Of(f.announces, p) \ (IF p \in S THEN Lost(p) ELSE {})
    BY DEF Of
  <2> QED
    BY ZenonT(60), <1>1, <2>1, <2>2
<1>6. /\ \A h : h \in DOMAIN r.alternates <=> h \in DOMAIN f.alternates /\ h \notin lost
      /\ \A h, x : x \in Of(r.alternates, h) <=> h \notin lost /\ x \in Of(f.alternates, h)
  BY SMTT(30), <1>1, OfWithout
<1>7. /\ \A h : h \in DOMAIN r.fetching <=> h \in DOMAIN f.fetching /\ h \notin lost
      /\ \A h : h \in DOMAIN f.fetching /\ h \notin lost => r.fetching[h] = f.fetching[h]
  BY <1>1, OfWithout
<1>8. /\ DOMAIN r.requests = DOMAIN f.requests
      /\ \A p \in DOMAIN f.requests \ S : r.requests[p] = f.requests[p]
      /\ \A p \in S : /\ DOMAIN r.requests[p] = {"hashes", "stolen"}
                      /\ r.requests[p].hashes = <<>>
  BY ZenonT(60), <1>1 DEF Good, Shape
<1> HIDE DEF r, lost, q, a, e
<1>9. Shape(r)
  BY ZenonT(60), <1>1, <1>5, <1>8, NoHashes DEF Good, Shape
<1>10. Flight(r)
  <2> SUFFICES ASSUME NEW p \in Peer PROVE Fetched(r, p) = Asked(r, p)
    BY DEF Flight
  <2>1. Fetched(r, p) = Fetched(f, p) \ lost
    BY <1>7 DEF Fetched
  <2>2. CASE p \in S
    <3>1. Asked(r, p) = {}
      BY ZenonT(60), <1>8, <2>2, NoHashes DEF Asked
    <3> QED
      BY ZenonT(60), <1>2, <2>1, <2>2, <3>1
  <2>3. CASE p \notin S
    <3>1. Asked(r, p) = Asked(f, p)
      BY ZenonT(60), <1>8, <2>3 DEF Asked
    <3>2. Fetched(f, p) \cap lost = {}
      BY ZenonT(60), <1>3, <2>3 DEF Fetched
    <3> QED
      BY ZenonT(60), <2>1, <3>1, <3>2 DEF Good, Flight
  <2> QED
    BY ZenonT(60), <2>2, <2>3
<1>11. Stages(r)
  BY ZenonT(60), <1>1, <1>3, <1>4, <1>6, <1>7 DEF Good, Stages
<1>12. Listed(r)
  <2> SUFFICES ASSUME NEW p \in Peer, NEW h \in Of(r.announces, p)
               PROVE  p \in Of(r.announced, h) \cup Of(r.alternates, h)
    BY DEF Listed
  <2>1. h \in Of(f.announces, p) /\ (p \in S => h \notin Lost(p))
    BY <1>5
  <2>2. p \in Of(f.announced, h) \cup Of(f.alternates, h)
    BY <2>1 DEF Good, Listed
  <2>3. CASE h \in lost
    <3>1. p # f.fetching[h]
      BY ZenonT(60), <1>2, <1>3, <2>1, <2>3
    <3>2. Of(f.announced, h) = {}
      BY Zenon, <1>3, <2>3 DEF Of
    <3> QED
      BY ZenonT(60), <1>4, <2>2, <2>3, <3>1, <3>2
  <2>4. CASE h \notin lost
    BY ZenonT(60), <1>4, <1>6, <2>2, <2>4
  <2> QED
    BY ZenonT(60), <2>3, <2>4
<1> QED
  BY ZenonT(60), <1>9, <1>10, <1>11, <1>12 DEF Good, r

LEMMA DroppedGood ==
  ASSUME Good(f), NEW p \in Peer
  PROVE  Good(Dropped(p))
<1> DEFINE r == Dropped(p)
           lost == IF p \in DOMAIN f.requests THEN Lost(p) ELSE {}
           q == [h \in DOMAIN f.announced \cup lost |->
                   IF h \in lost THEN Of(f.alternates, h) \ {p} ELSE f.announced[h]]
           known_p == Of(f.announces, p)
           slots == Of(f.waitslots, p)
<1>1. /\ DOMAIN r = Fields
      /\ r.announced = TakeFrom(Trim(q), known_p, {p})
      /\ r.announces = Without(f.announces, {p}) /\ r.requests = Without(f.requests, {p})
      /\ r.alternates = Without(f.alternates, lost) /\ r.fetching = Without(f.fetching, lost)
      /\ r.waitlist = TakeFrom(f.waitlist, slots, {p})
  BY DEF Dropped, Good, Shape, Fields
<1>2. /\ lost = Fetched(f, p)
      /\ \A h \in lost : /\ h \in DOMAIN f.fetching /\ f.fetching[h] = p
                         /\ h \notin DOMAIN f.announced /\ h \notin DOMAIN f.waitlist
  BY DEF Good, Flight, Stages, Lost, Asked, Fetched
<1>3. /\ \A h : h \in DOMAIN r.announced => h \in DOMAIN f.announced \/ h \in lost
      /\ \A h \in lost : \A x \in Of(f.alternates, h) : x # p => x \in Of(r.announced, h)
      /\ \A h : h \notin lost => \A x \in Of(f.announced, h) : x # p => x \in Of(r.announced, h)
  <2>1. /\ DOMAIN Trim(q) \subseteq DOMAIN q
        /\ \A h : Of(Trim(q), h) = Of(q, h)
    BY OfTrim
  <2>2. \A h : Of(q, h) = IF h \in lost THEN Of(f.alternates, h) \ {p} ELSE Of(f.announced, h)
    BY DEF Of
  <2>3. DOMAIN q = DOMAIN f.announced \cup lost
    OBVIOUS
  <2> HIDE DEF q, lost, known_p
  <2>4. /\ DOMAIN r.announced \subseteq DOMAIN Trim(q)
        /\ \A h : Of(r.announced, h)
                    = Of(Trim(q), h) \ (IF h \in known_p THEN {p} ELSE {})
    BY <1>1, OfTakeFrom
  <2>5. \A h : \A x \in Of(q, h) : x # p => x \in Of(r.announced, h)
    BY ZenonT(60), <2>1, <2>4
  <2> QED
    BY ZenonT(60), <2>1, <2>2, <2>3, <2>4, <2>5
<1>4. /\ \A k : k \in DOMAIN r.announces <=> k \in DOMAIN f.announces /\ k \notin {p}
      /\ \A k, x : x \in Of(r.announces, k) <=> k \notin {p} /\ x \in Of(f.announces, k)
  BY <1>1, OfWithout
<1>5. /\ \A k : k \in DOMAIN r.requests <=> k \in DOMAIN f.requests /\ k \notin {p}
      /\ \A k : k \in DOMAIN f.requests /\ k \notin {p} => r.requests[k] = f.requests[k]
  BY <1>1, OfWithout
<1>6. /\ \A h : h \in DOMAIN r.alternates <=> h \in DOMAIN f.alternates /\ h \notin lost
      /\ \A h, x : x \in Of(r.alternates, h) <=> h \notin lost /\ x \in Of(f.alternates, h)
  BY SMTT(30), <1>1, OfWithout
<1>7. /\ \A h : h \in DOMAIN r.fetching <=> h \in DOMAIN f.fetching /\ h \notin lost
      /\ \A h : h \in DOMAIN f.fetching /\ h \notin lost => r.fetching[h] = f.fetching[h]
  BY <1>1, OfWithout
<1>8. /\ DOMAIN r.waitlist \subseteq DOMAIN f.waitlist
      /\ \A h : Of(r.waitlist, h) \subseteq Of(f.waitlist, h)
  <2>1. /\ DOMAIN r.waitlist \subseteq DOMAIN f.waitlist
        /\ \A h : Of(r.waitlist, h) = Of(f.waitlist, h) \ (IF h \in slots THEN {p} ELSE {})
    BY <1>1, OfTakeFrom
  <2> QED
    BY Zenon, <2>1
<1> HIDE DEF r, lost, q, known_p, slots
<1>9. Shape(r)
  <2>1. \A h \in DOMAIN r.waitlist : r.waitlist[h] \subseteq Peer
    BY Zenon, <1>8 DEF Of, Good, Shape
  <2> QED
    BY ZenonT(60), <1>1, <1>4, <1>5, <2>1 DEF Good, Shape
<1>10. Flight(r)
  <2> SUFFICES ASSUME NEW k \in Peer PROVE Fetched(r, k) = Asked(r, k)
    BY DEF Flight
  <2>1. CASE k = p
    BY ZenonT(60), <1>2, <1>5, <1>7, <2>1 DEF Fetched, Asked
  <2>2. CASE k # p
    <3>1. Fetched(r, k) = Fetched(f, k)
      BY ZenonT(60), <1>2, <1>7, <2>2 DEF Fetched
    <3>2. Asked(r, k) = Asked(f, k)
      BY ZenonT(60), <1>5, <2>2 DEF Asked
    <3> QED
      BY ZenonT(60), <3>1, <3>2 DEF Good, Flight
  <2> QED
    BY ZenonT(60), <2>1, <2>2
<1>11. Stages(r)
  BY ZenonT(60), <1>2, <1>3, <1>6, <1>7, <1>8 DEF Good, Stages
<1>12. Listed(r)
  <2> SUFFICES ASSUME NEW k \in Peer, NEW h \in Of(r.announces, k)
               PROVE  k \in Of(r.announced, h) \cup Of(r.alternates, h)
    BY DEF Listed
  <2>1. k # p /\ k \in Of(f.announced, h) \cup Of(f.alternates, h)
    BY Zenon, <1>4 DEF Good, Listed
  <2>2. h \in lost => Of(f.announced, h) = {}
    BY Zenon, <1>2 DEF Of
  <2> QED
    BY ZenonT(60), <1>3, <1>6, <2>1, <2>2
<1> QED
  BY ZenonT(60), <1>9, <1>10, <1>11, <1>12 DEF Good, r

\* A peer's reply is taken off the tables before its request is.
Nearly(g, p, hs) ==
  /\ Shape(g) /\ Stages(g) /\ Listed(g)
  /\ p \in DOMAIN g.requests
  /\ \A q \in Peer \ {p} : Fetched(g, q) = Asked(g, q)
  /\ Fetched(g, p) = Asked(g, p) \ hs
  /\ \A h \in hs : h \notin DOMAIN g.fetching

LEMMA DeliveredGood ==
  ASSUME Good(f), NEW p \in Peer, NEW d
  PROVE  /\ DOMAIN Delivered(p, d).requests = DOMAIN f.requests
         /\ IF d.direct /\ p \in DOMAIN f.requests
            THEN Nearly(Delivered(p, d), p, d.hashes) ELSE Good(Delivered(p, d))
<1> DEFINE r == Delivered(p, d)
           wait == d.hashes \cap DOMAIN f.waitlist
           rest == d.hashes \ wait
           stolen(q) == {h \in rest \cap DOMAIN f.fetching :
                           f.fetching[h] = q /\ (q # p \/ ~ d.direct)}
           e == [q \in DOMAIN f.requests |->
                   [f.requests[q] EXCEPT !.stolen = f.requests[q].stolen \cup stolen(q)]]
<1>1. /\ DOMAIN r = Fields
      /\ r.announced = Without(f.announced, rest)
      /\ r.announces = TakeFrom(f.announces, Peer, rest)
      /\ r.alternates = Without(f.alternates, rest) /\ r.fetching = Without(f.fetching, rest)
      /\ r.waitlist = Without(f.waitlist, wait)
  BY DEF Delivered, Good, Shape, Fields
<1>2. r.requests = e
  <2>1. r = [f EXCEPT !.waitlist = Without(f.waitlist, wait),
                      !.waitslots = TakeFrom(f.waitslots, Peer, wait),
                      !.announces = TakeFrom(f.announces, Peer, rest),
                      !.announced = Without(f.announced, rest),
                      !.alternates = Without(f.alternates, rest),
                      !.requests = e,
                      !.fetching = Without(f.fetching, rest)]
    BY Zenon DEF Delivered
  <2> HIDE DEF r, wait, rest, stolen, e
  <2> QED
    BY Zenon, <2>1 DEF Good, Shape, Fields
<1>3. /\ DOMAIN r.requests = DOMAIN f.requests
      /\ \A q \in DOMAIN f.requests :
           /\ DOMAIN r.requests[q] = {"hashes", "stolen"}
           /\ r.requests[q].hashes = f.requests[q].hashes
           /\ r.requests[q].stolen = f.requests[q].stolen \cup stolen(q)
  BY <1>2 DEF Good, Shape
<1>4. /\ \A h : h \in DOMAIN r.announced <=> h \in DOMAIN f.announced /\ h \notin rest
      /\ \A h, x : x \in Of(r.announced, h) <=> h \notin rest /\ x \in Of(f.announced, h)
  BY SMTT(30), <1>1, OfWithout
<1>5. /\ DOMAIN r.announces \subseteq DOMAIN f.announces
      /\ \A k : Of(r.announces, k) = Of(f.announces, k) \ (IF k \in Peer THEN rest ELSE {})
  BY SMTT(30), <1>1, OfTakeFrom
<1>6. /\ \A h : h \in DOMAIN r.alternates <=> h \in DOMAIN f.alternates /\ h \notin rest
      /\ \A h, x : x \in Of(r.alternates, h) <=> h \notin rest /\ x \in Of(f.alternates, h)
  BY SMTT(30), <1>1, OfWithout
<1>7. /\ \A h : h \in DOMAIN r.fetching <=> h \in DOMAIN f.fetching /\ h \notin rest
      /\ \A h : h \in DOMAIN f.fetching /\ h \notin rest => r.fetching[h] = f.fetching[h]
  BY <1>1, OfWithout
<1>8. /\ \A h : h \in DOMAIN r.waitlist <=> h \in DOMAIN f.waitlist /\ h \notin wait
      /\ \A h : h \in DOMAIN f.waitlist /\ h \notin wait => r.waitlist[h] = f.waitlist[h]
  BY <1>1, OfWithout
<1>9. \A h \in d.hashes : h \notin DOMAIN r.fetching
  BY Zenon, <1>7 DEF Good, Stages
<1>10. \A q : /\ Fetched(r, q) = Fetched(f, q) \ rest
              /\ stolen(q) = IF q # p \/ ~ d.direct THEN rest \cap Fetched(f, q) ELSE {}
  BY Zenon, <1>7 DEF Fetched
<1> HIDE DEF r, rest, wait, stolen
<1>11. Shape(r)
  BY ZenonT(60), <1>1, <1>3, <1>5, <1>8 DEF Good, Shape
<1>12. Stages(r)
  BY ZenonT(60), <1>4, <1>6, <1>7, <1>8 DEF Good, Stages
<1>13. Listed(r)
  BY ZenonT(60), <1>4, <1>5, <1>6 DEF Good, Listed
<1>14. ASSUME NEW q \in Peer, q # p \/ ~ d.direct \/ p \notin DOMAIN f.requests
       PROVE  Fetched(r, q) = Asked(r, q)
  <2>1. Fetched(f, q) = Asked(f, q)
    BY DEF Good, Flight
  <2>2. CASE q \in DOMAIN f.requests
    BY SMTT(30), <1>3, <1>10, <1>14, <2>1, <2>2 DEF Asked
  <2>3. CASE q \notin DOMAIN f.requests
    BY ZenonT(60), <1>3, <1>10, <2>1, <2>3 DEF Asked
  <2> QED
    BY Zenon, <2>2, <2>3
<1>15. CASE d.direct /\ p \in DOMAIN f.requests
  <2>1. Fetched(f, p) = Asked(f, p)
    BY DEF Good, Flight
  <2>2. Asked(r, p) = Asked(f, p)
    BY ZenonT(60), <1>3, <1>10, <1>15 DEF Asked
  <2>3. Fetched(f, p) \ rest = Fetched(f, p) \ d.hashes
    BY Zenon DEF Fetched, rest, wait, Good, Stages
  <2>4. Fetched(r, p) = Asked(r, p) \ d.hashes
    BY ZenonT(60), <1>10, <2>1, <2>2, <2>3
  <2> QED
    BY SMTT(30), <1>3, <1>9, <1>11, <1>12, <1>13, <1>14, <1>15, <2>4 DEF Nearly, r
<1>16. CASE ~ (d.direct /\ p \in DOMAIN f.requests)
  BY SMTT(30), <1>3, <1>11, <1>12, <1>13, <1>14, <1>16 DEF Good, Flight, r
<1> QED
  BY ZenonT(60), <1>15, <1>16, <1>3 DEF r

LEMMA AnsweredGood ==
  ASSUME NEW g, NEW p \in Peer, NEW hs, Nearly(g, p, hs)
  PROVE  Good(Answered(g, p, hs))
<1> DEFINE r == Answered(g, p, hs)
           req == g.requests[p]
           hits == {i \in 1 .. Len(req.hashes) : req.hashes[i] \in hs}
           cutoff == IF hits = {} THEN Len(req.hashes) + 1 ELSE Max(hits)
           own == {i \in 1 .. Len(req.hashes) : req.hashes[i] \notin req.stolen}
           all == {req.hashes[i] : i \in own}
           missing == {req.hashes[i] : i \in {j \in own : req.hashes[j] \notin hs}}
           never == {req.hashes[i] : i \in {j \in own : req.hashes[j] \notin hs /\ j < cutoff}}
           left(h) == Of(g.alternates, h) \ (IF h \in never THEN {p} ELSE {})
           q == [h \in DOMAIN g.announced \cup missing |->
                   IF h \in missing THEN left(h) ELSE g.announced[h]]
<1>1. /\ DOMAIN r = Fields
      /\ r.announced = Trim(q)
      /\ r.announces = TakeFrom(g.announces, {p}, never)
      /\ r.requests = Without(g.requests, {p})
      /\ r.alternates = Without(g.alternates, all) /\ r.fetching = Without(g.fetching, all)
      /\ r.waitlist = g.waitlist
  BY Zenon DEF Answered, Nearly, Shape, Fields
<1>2. all = Asked(g, p)
  <2>1. req.hashes \in Seq(Hash) /\ p \in DOMAIN g.requests
    BY DEF Nearly, Shape
  <2>2. DOMAIN req.hashes = 1 .. Len(req.hashes)
    BY <2>1
  <2> QED
    BY Zenon, <2>1, <2>2 DEF Asked, ToSet
<1>3. missing = all \ hs /\ never \subseteq missing
  <2> HIDE DEF req, cutoff
  <2> QED
    BY Zenon
<1>4. /\ DOMAIN q = DOMAIN g.announced \cup missing
      /\ \A h : Of(q, h) = IF h \in missing THEN left(h) ELSE Of(g.announced, h)
  <2> HIDE DEF left, missing
  <2> QED
    BY Zenon DEF Of
<1>5. \A h : left(h) = Of(g.alternates, h) \ (IF h \in never THEN {p} ELSE {})
  OBVIOUS
<1> HIDE DEF req, hits, cutoff, own, all, missing, never, left, q
<1>10. /\ missing = Fetched(g, p)
       /\ \A h \in missing : /\ h \in DOMAIN g.fetching /\ g.fetching[h] = p
                             /\ h \notin DOMAIN g.announced /\ h \notin DOMAIN g.waitlist
       /\ \A h \in all : h \in DOMAIN g.fetching => h \in missing
  BY Zenon, <1>2, <1>3 DEF Nearly, Stages, Fetched
<1>11. /\ \A h : h \in DOMAIN r.announced => h \in DOMAIN g.announced \/ h \in missing
       /\ \A h : Of(r.announced, h)
                   = IF h \in missing THEN left(h) ELSE Of(g.announced, h)
  <2>1. /\ DOMAIN Trim(q) \subseteq DOMAIN q
        /\ \A h : Of(Trim(q), h) = Of(q, h)
    BY Zenon, OfTrim
  <2> QED
    BY Zenon, <1>1, <1>4, <2>1
<1>6. /\ DOMAIN r.announces \subseteq DOMAIN g.announces
      /\ \A k : Of(r.announces, k) = Of(g.announces, k) \ (IF k \in {p} THEN never ELSE {})
  BY SMTT(30), <1>1, OfTakeFrom
<1>7. /\ \A k : k \in DOMAIN r.requests <=> k \in DOMAIN g.requests /\ k \notin {p}
      /\ \A k : k \in DOMAIN g.requests /\ k \notin {p} => r.requests[k] = g.requests[k]
  BY SMTT(30), <1>1, OfWithout
<1>8. /\ \A h : h \in DOMAIN r.alternates <=> h \in DOMAIN g.alternates /\ h \notin all
      /\ \A h, x : x \in Of(r.alternates, h) <=> h \notin all /\ x \in Of(g.alternates, h)
  BY <1>1, OfWithout
<1>9. /\ \A h : h \in DOMAIN r.fetching <=> h \in DOMAIN g.fetching /\ h \notin all
      /\ \A h : h \in DOMAIN g.fetching /\ h \notin all => r.fetching[h] = g.fetching[h]
  BY <1>1, OfWithout
<1> HIDE DEF r
<1>12. Shape(r)
  BY Zenon, <1>1, <1>6, <1>7 DEF Nearly, Shape
<1>13. Flight(r)
  <2> SUFFICES ASSUME NEW k \in Peer PROVE Fetched(r, k) = Asked(r, k)
    BY DEF Flight
  <2>1. CASE k = p
    BY ZenonT(60), <1>3, <1>10, <1>7, <1>9, <2>1 DEF Fetched, Asked
  <2>2. CASE k # p
    <3>1. Fetched(r, k) = Fetched(g, k)
      BY Zenon, <1>3, <1>10, <1>9, <2>2 DEF Fetched
    <3>2. Asked(r, k) = Asked(g, k)
      BY Zenon, <1>7, <2>2 DEF Asked
    <3> QED
      BY Zenon, <2>2, <3>1, <3>2 DEF Nearly
  <2> QED
    BY Zenon, <2>1, <2>2
<1>14. Stages(r)
  BY ZenonT(60), <1>1, <1>3, <1>10, <1>11, <1>8, <1>9 DEF Nearly, Stages
<1>15. Listed(r)
  <2> SUFFICES ASSUME NEW k \in Peer, NEW h \in Of(r.announces, k)
               PROVE  k \in Of(r.announced, h) \cup Of(r.alternates, h)
    BY DEF Listed
  <2>1. k \in Of(g.announced, h) \cup Of(g.alternates, h) /\ (k = p => h \notin never)
    BY Zenon, <1>6 DEF Nearly, Listed
  <2>2. CASE h \in missing
    <3>1. Of(g.announced, h) = {}
      BY Zenon, <1>10, <2>2 DEF Of
    <3> QED
      BY ZenonT(60), <1>11, <1>5, <2>1, <2>2, <3>1
  <2>3. CASE h \notin missing
    <3>1. k \in Of(g.alternates, h) => h \notin all
      BY Zenon, <1>10, <2>3 DEF Nearly, Stages, Of
    <3> QED
      BY ZenonT(60), <1>11, <1>8, <2>1, <2>3, <3>1
  <2> QED
    BY Zenon, <2>2, <2>3
<1> QED
  BY ZenonT(60), <1>12, <1>13, <1>14, <1>15 DEF Good, r

-----------------------------------------------------------------------------
(* scheduleFetches.                                                         *)

\* What the peers are asked for: hashes they announced and nobody fetches, no
\* hash twice.
LEMMA RequestsApart ==
  ASSUME NEW g, NEW A \in SUBSET Peer, NEW o \in Requests(Free(g, A))
  PROVE  /\ DOMAIN o \subseteq A \ DOMAIN g.requests
         /\ \A p \in DOMAIN o : /\ o[p] \in Seq(Hash)
                                /\ ToSet(o[p]) \subseteq Of(g.announces, p) \ DOMAIN g.fetching
         /\ \A p, q \in DOMAIN o : p # q => ToSet(o[p]) \cap ToSet(o[q]) = {}
<1> DEFINE free == Free(g, A)
           idle == DOMAIN free
           lists == UNION {Injection(1 .. n, Hash) : n \in 0 .. MaxRetrievals}
           left(turn, p) ==
             free[p] \ UNION {ToSet(o[q]) : q \in {r \in idle : turn[r] < turn[p]}}
<1>1. /\ idle \subseteq A \ DOMAIN g.requests
      /\ \A p \in idle : free[p] = Of(g.announces, p) \ DOMAIN g.fetching
  BY DEF Free
<1>2. /\ o \in [idle -> lists]
      /\ \E turn \in Bijection(idle, 1 .. Cardinality(idle)) : \A p \in idle :
              ToSet(o[p]) \subseteq left(turn, p)
  BY DEF Requests
<1>3. lists \subseteq Seq(Hash)
  <2> SUFFICES ASSUME NEW n \in 0 .. MaxRetrievals, NEW s \in Injection(1 .. n, Hash)
               PROVE  s \in Seq(Hash)
    OBVIOUS
  <2>1. s \in [1 .. n -> Hash]
    BY DEF Injection
  <2>2. n \in Nat
    BY TxFetcherAssumption
  <2> QED
    BY <2>1, <2>2
<1>4. Cardinality(idle) \in Nat
  <2>1. IsFiniteSet(idle)
    BY Zenon, <1>1, TxFetcherAssumption, FS_Subset
  <2> QED
    BY Zenon, <2>1, FS_CardinalityType
<1>5. PICK turn \in Bijection(idle, 1 .. Cardinality(idle)) :
              \A p \in idle : ToSet(o[p]) \subseteq left(turn, p)
  BY Zenon, <1>2
<1>6. /\ \A p \in idle : turn[p] \in Int
      /\ \A p, q \in idle : turn[p] = turn[q] => p = q
  <2>1. /\ turn \in [idle -> 1 .. Cardinality(idle)]
        /\ \A p, q \in idle : turn[p] = turn[q] => p = q
    BY DEF Bijection, Injection, IsInjective
  <2> HIDE DEF idle
  <2> QED
    BY <1>4, <2>1
<1> HIDE DEF free, lists
<1>7. ASSUME NEW p \in idle, NEW q \in idle, turn[p] < turn[q]
      PROVE  ToSet(o[p]) \cap ToSet(o[q]) = {}
  BY SMTT(30), <1>5, <1>7
<1>8. ASSUME NEW p \in idle, NEW q \in idle, p # q
      PROVE  ToSet(o[p]) \cap ToSet(o[q]) = {}
  <2>1. turn[p] < turn[q] \/ turn[q] < turn[p]
    BY <1>6, <1>8
  <2> QED
    BY Zenon, <1>7, <2>1
<1>9. DOMAIN o = idle /\ \A p \in idle : o[p] \in Seq(Hash)
  BY Zenon, <1>2, <1>3
<1>10. \A p \in idle : ToSet(o[p]) \subseteq free[p]
  BY <1>5
<1> QED
  BY Zenon, <1>1, <1>8, <1>9, <1>10

LEMMA RequestedGood ==
  ASSUME NEW g, Good(g), NEW A \in SUBSET Peer, NEW o \in Requests(Free(g, A))
  PROVE  Good(Requested(g, o))
<1> DEFINE given == {p \in DOMAIN o : o[p] # <<>>}
           S == UNION {ToSet(o[p]) : p \in given}
           from(h) == CHOOSE p \in given : h \in ToSet(o[p])
           r == Requested(g, o)
<1>1. /\ DOMAIN r = Fields
      /\ r.waitlist = g.waitlist /\ r.announces = g.announces
      /\ r.announced = Without(g.announced, S)
      /\ r.fetching = [h \in DOMAIN g.fetching \cup S |->
                         IF h \in S THEN from(h) ELSE g.fetching[h]]
      /\ r.alternates = [h \in DOMAIN g.alternates \cup S |->
                           IF h \in S THEN Of(g.announced, h) ELSE g.alternates[h]]
      /\ r.requests = [p \in DOMAIN g.requests \cup given |->
                         IF p \in given THEN [hashes |-> o[p], stolen |-> {}] ELSE g.requests[p]]
  BY DEF Requested, Good, Shape, Fields
<1>2. /\ \A p \in given : /\ p \in Peer /\ p \notin DOMAIN g.requests
                          /\ o[p] \in Seq(Hash)
                          /\ ToSet(o[p]) \subseteq Of(g.announces, p) \ DOMAIN g.fetching
                          /\ ToSet(o[p]) \subseteq S
      /\ \A p, q \in given : p # q => ToSet(o[p]) \cap ToSet(o[q]) = {}
  BY RequestsApart
<1>3. \A h \in S : from(h) \in given /\ h \in ToSet(o[from(h)])
  BY Zenon
<1>4. /\ \A h : h \in DOMAIN r.announced <=> h \in DOMAIN g.announced /\ h \notin S
      /\ \A h, x : x \in Of(r.announced, h) <=> h \notin S /\ x \in Of(g.announced, h)
  BY SMTT(30), <1>1, OfWithout
<1> HIDE DEF given, S, from, r
<1>5. \A h \in S : /\ h \notin DOMAIN g.fetching /\ h \in DOMAIN g.announced
                   /\ Of(g.alternates, h) = {}
  <2> SUFFICES ASSUME NEW h \in S
               PROVE  /\ h \notin DOMAIN g.fetching /\ h \in DOMAIN g.announced
                      /\ Of(g.alternates, h) = {}
    OBVIOUS
  <2>1. /\ from(h) \in Peer /\ h \in Of(g.announces, from(h)) /\ h \notin DOMAIN g.fetching
    BY Zenon, <1>2, <1>3
  <2>2. Of(g.alternates, h) = {}
    BY Zenon, <2>1 DEF Good, Stages, Of
  <2>3. from(h) \in Of(g.announced, h)
    BY Zenon, <2>1, <2>2 DEF Good, Listed
  <2> QED
    BY Zenon, <2>1, <2>2, <2>3 DEF Of
<1>6. \A h : Of(r.alternates, h) = IF h \in S THEN Of(g.announced, h) ELSE Of(g.alternates, h)
  BY Zenon, <1>1 DEF Of
<1>7. \A p \in given : /\ DOMAIN r.requests[p] = {"hashes", "stolen"}
                       /\ r.requests[p].hashes = o[p] /\ r.requests[p].stolen = {}
  BY <1>1
<1>8. \A p \in DOMAIN g.requests \ given : r.requests[p] = g.requests[p]
  BY Zenon, <1>1
<1>9. DOMAIN r.requests = DOMAIN g.requests \cup given
  BY Zenon, <1>1
<1>10. Shape(r)
  BY SMTT(30), <1>1, <1>2, <1>7, <1>8, <1>9 DEF Good, Shape
<1>11. Flight(r)
  <2> SUFFICES ASSUME NEW p \in Peer PROVE Fetched(r, p) = Asked(r, p)
    BY DEF Flight
  <2>1. Fetched(g, p) = Asked(g, p)
    BY Zenon DEF Good, Flight
  <2>2. Fetched(r, p) = Fetched(g, p) \cup {h \in S : from(h) = p}
    BY Zenon, <1>1, <1>5 DEF Fetched
  <2>3. CASE p \in given
    <3>1. Asked(g, p) = {}
      BY Zenon, <1>2, <2>3 DEF Asked
    <3>2. Asked(r, p) = ToSet(o[p])
      BY Zenon, <1>7, <1>9, <2>3 DEF Asked
    <3>3. {h \in S : from(h) = p} = ToSet(o[p])
      BY Zenon, <1>2, <1>3, <2>3
    <3> QED
      BY Zenon, <2>1, <2>2, <3>1, <3>2, <3>3
  <2>4. CASE p \notin given
    <3>1. Asked(r, p) = Asked(g, p)
      BY Zenon, <1>8, <1>9, <2>4 DEF Asked
    <3>2. {h \in S : from(h) = p} = {}
      BY Zenon, <1>3, <2>4
    <3> QED
      BY Zenon, <2>1, <2>2, <3>1, <3>2
  <2> QED
    BY Zenon, <2>3, <2>4
<1>12. Stages(r)
  <2>1. /\ DOMAIN r.fetching = DOMAIN g.fetching \cup S
        /\ DOMAIN r.alternates = DOMAIN g.alternates \cup S
        /\ DOMAIN r.waitlist = DOMAIN g.waitlist
    BY Zenon, <1>1
  <2> QED
    BY Zenon, <1>4, <1>5, <2>1 DEF Good, Stages
<1>13. Listed(r)
  <2> SUFFICES ASSUME NEW p \in Peer, NEW h \in Of(r.announces, p)
               PROVE  p \in Of(r.announced, h) \cup Of(r.alternates, h)
    BY DEF Listed
  <2>1. p \in Of(g.announced, h) \cup Of(g.alternates, h)
    BY Zenon, <1>1 DEF Good, Listed
  <2> QED
    BY Zenon, <1>4, <1>5, <1>6, <2>1
<1> QED
  BY Zenon, <1>10, <1>11, <1>12, <1>13 DEF Good, r

LEMMA ScheduleGood ==
  ASSUME NEW g, Good(g), NEW A \in SUBSET Peer, NEW x \in ScheduleFetches(g, A)
  PROVE  Good(x)
<1>1. x \in Scheduled(g, Free(g, A))
  BY DEF ScheduleFetches
<1>2. x = g \/ \E o \in Requests(Free(g, A)) : x = Requested(g, o)
  BY Zenon, <1>1 DEF Scheduled
<1> QED
  BY Zenon, <1>2, RequestedGood

LEMMA ScheduleAllGood ==
  ASSUME NEW g, Good(g), NEW x \in ScheduleAll(g)
  PROVE  Good(x)
<1>1. DOMAIN g.announces \in SUBSET Peer
  BY DEF Good, Shape
<1> QED
  BY Zenon, <1>1, ScheduleGood DEF ScheduleAll

-----------------------------------------------------------------------------
(* The loop.                                                                *)

LEMMA DropGood ==
  ASSUME Good(f), NEW p \in Peer, LoopDrop(p)
  PROVE  Good(f')
<1>1. Good(Dropped(p))
  BY Zenon, DroppedGood
<1>2. CASE p \notin DOMAIN f.requests
  BY Zenon, <1>1, <1>2 DEF LoopDrop
<1>3. CASE p \in DOMAIN f.requests
  <2>1. PICK x \in ScheduleAll(Dropped(p)) : f' = [x EXCEPT !.timeoutTimer = TRUE]
    BY <1>3 DEF LoopDrop
  <2>2. Good(x)
    BY Zenon, <1>1, ScheduleAllGood
  <2>3. /\ DOMAIN f' = Fields
        /\ f'.waitlist = x.waitlist /\ f'.announces = x.announces
        /\ f'.announced = x.announced /\ f'.fetching = x.fetching
        /\ f'.requests = x.requests /\ f'.alternates = x.alternates
    BY Zenon, <2>1, <2>2 DEF Good, Shape, Fields
  <2> QED
    BY <2>2, <2>3 DEF Good, Shape, Flight, Stages, Listed, Fetched, Asked
<1> QED
  BY Zenon, <1>2, <1>3

LEMMA NotifyGood ==
  ASSUME Good(f), NEW p \in Peer, LoopNotify(p)
  PROVE  Good(f')
<1>1. PICK hs : f' \in IF /\ hs # {} /\ p \notin DOMAIN f.announces
                          /\ p \in DOMAIN Announce(p, hs).announces
                       THEN ScheduleFetches(Announce(p, hs), {p}) ELSE {Announce(p, hs)}
  BY DEF LoopNotify
<1>2. Good(Announce(p, hs)) /\ {p} \in SUBSET Peer
  BY Zenon, AnnounceGood
<1>3. f' \in ScheduleFetches(Announce(p, hs), {p}) \/ f' = Announce(p, hs)
  BY Zenon, <1>1
<1> QED
  BY Zenon, <1>2, <1>3, ScheduleGood

LEMMA CleanupGood ==
  ASSUME Good(f), NEW p \in Peer, LoopCleanup(p)
  PROVE  Good(f')
<1> DEFINE d == inbox[p]
           g == Delivered(p, d)
<1>1. f' \in IF d.direct /\ p \in DOMAIN g.requests
             THEN ScheduleAll(Answered(g, p, d.hashes)) ELSE {g}
  BY DEF LoopCleanup
<1> HIDE DEF d
<1>2. /\ DOMAIN g.requests = DOMAIN f.requests
      /\ IF d.direct /\ p \in DOMAIN f.requests THEN Nearly(g, p, d.hashes) ELSE Good(g)
  BY Zenon, DeliveredGood
<1> HIDE DEF g
<1>3. CASE d.direct /\ p \in DOMAIN g.requests
  <2>1. Good(Answered(g, p, d.hashes))
    BY Zenon, <1>2, <1>3, AnsweredGood
  <2> QED
    BY Zenon, <1>1, <1>3, <2>1, ScheduleAllGood
<1>4. CASE ~ (d.direct /\ p \in DOMAIN g.requests)
  BY Zenon, <1>1, <1>2, <1>4
<1> QED
  BY Zenon, <1>3, <1>4

LEMMA GoodInit == Init => Good(f)
<1> SUFFICES ASSUME Init PROVE Good(f)
  OBVIOUS
<1>1. /\ DOMAIN f = Fields
      /\ f.waitlist = EmptyMap /\ f.announces = EmptyMap /\ f.announced = EmptyMap
      /\ f.fetching = EmptyMap /\ f.requests = EmptyMap /\ f.alternates = EmptyMap
  BY DEF Init, Fields
<1>2. DOMAIN EmptyMap = {} /\ \A k : Of(EmptyMap, k) = {}
  BY DEF EmptyMap, Of
<1> QED
  BY Zenon, <1>1, <1>2 DEF Good, Shape, Flight, Stages, Listed, Fetched, Asked

LEMMA GoodStep == Good(f) /\ [Next]_vars => Good(f')
<1> SUFFICES ASSUME Good(f), [Next]_vars PROVE Good(f')
  OBVIOUS
<1>1. CASE f' = f
  BY Zenon, <1>1
<1>2. CASE \E p \in Peer : LoopNotify(p)
  BY Zenon, <1>2, NotifyGood
<1>3. CASE \E p \in Peer : LoopCleanup(p)
  BY Zenon, <1>3, CleanupGood
<1>4. CASE \E p \in Peer : LoopDrop(p)
  BY Zenon, <1>4, DropGood
<1>5. CASE \E S \in SUBSET DOMAIN f.waitlist : WaitTrigger(S)
  <2>1. PICK S \in SUBSET DOMAIN f.waitlist :
               f' \in ScheduleFetches(WaitExpired(S), UNION {f.waitlist[h] : h \in S})
    BY Zenon, <1>5 DEF WaitTrigger
  <2>2. UNION {f.waitlist[h] : h \in S} \in SUBSET Peer
    BY DEF Good, Shape
  <2>3. Good(WaitExpired(S))
    BY Zenon, WaitExpiredGood
  <2> QED
    BY Zenon, <2>1, <2>2, <2>3, ScheduleGood
<1>6. CASE \E S \in SUBSET (DOMAIN f.requests \ Prompt) : TimeoutTrigger(S)
  <2>1. PICK S \in SUBSET DOMAIN f.requests : f' \in ScheduleAll(TimedOut(S))
    BY Zenon, <1>6 DEF TimeoutTrigger
  <2>2. Good(TimedOut(S))
    BY Zenon, TimedOutGood
  <2> QED
    BY Zenon, <2>1, <2>2, ScheduleAllGood
<1>7. CASE UNCHANGED vars
  BY Zenon, <1>1, <1>7 DEF vars
<1>8. ASSUME NEW p \in Peer, NEW hs, NEW direct, NEW rejected, Enqueue(p, hs, direct, rejected)
      PROVE  f' = f
  BY Zenon, <1>8 DEF Enqueue
<1>9. ASSUME NEW p \in Peer, NEW hs, Notify(p, hs) \/ Rejoin(p) \/ Reply(p) PROVE f' = f
  BY Zenon, <1>8, <1>9 DEF Notify, Rejoin, Reply
<1>10. ASSUME NEW p \in Peer, FetchFailed(p) \/ Leave(p) PROVE LoopDrop(p)
  BY <1>10 DEF FetchFailed, Leave
<1>11. CASE Next
  BY ZenonT(60), <1>1, <1>2, <1>3, <1>4, <1>5, <1>6, <1>8, <1>9, <1>10, <1>11 DEF Next
<1> QED
  BY Zenon, <1>7, <1>11

FlightInv == Good(f)

\* InFlight in every reachable state, for any peers, hashes and bounds: a hash
\* is fetched from a peer exactly when the request in flight to it still asks
\* for it, and it waits, is queued or is fetched, one at a time; so none of the
\* panics of the loop of tx_fetcher.go is reached, whatever the peers announce,
\* deliver or leave unanswered, and whatever the handlers checked too early.
THEOREM InFlightCorrect == Spec => []InFlight
<1>1. Init => FlightInv
  BY GoodInit DEF FlightInv
<1>2. FlightInv /\ [Next]_vars => FlightInv'
  BY GoodStep DEF FlightInv
<1>3. FlightInv => InFlight
  BY DEF FlightInv, Good, Flight, Stages, InFlight, Fetched, Asked, Lost
<1> QED
  BY <1>1, <1>2, <1>3, PTL DEF Spec

=============================================================================
