------------------------------- MODULE Spines -------------------------------
(***************************************************************************)
(* The optimistic spines: for each slot the blocks of the slot in the      *)
(* order in which they may become its spine.  GetOptimisticSpines keeps    *)
(* the order of a slot in a cache, the insertion of a block drops it.  The *)
(* coordinator asks for the first spine of each slot (HandleGetCandidates) *)
(* and asks whether a sequence of spines is valid (HandleValidateSpines).  *)
(* Neither call takes a lock.                                              *)
(***************************************************************************)
EXTENDS BlockDag, SequencesExt

CONSTANTS
  Readers,    \* concurrent calls
  Configs     \* dag: the blocks; overlap: calls meet insertions

VARIABLES
  config,
  stored,     \* blocks with a header, with their hash in the table of the slot
  ins,        \* the insertion of a block
  tips,       \* the largest slot of the tips
  cache,      \* optimisticSpinesCache
  calls,      \* GetOptimisticSpines of each reader
  nr,         \* finalized numbers
  given       \* the candidates given last, while no block joins their slots

NoCall == [at |-> "none", slot |-> 0, top |-> 0, read |-> {}, got |-> <<>>]
NoInsert == [at |-> "none", block |-> Genesis]

vars == <<config, stored, ins, tips, cache, calls, nr, given>>

dag == config.dag
Slot(b) == dag.slot[b]
Height(b) == dag.height[b]
OfSlot(S, s) == {b \in S : Slot(b) = s}
Finalized == DOMAIN nr
LastFinalized == CHOOSE b \in Finalized : \A c \in Finalized : nr[c] <= nr[b]

-----------------------------------------------------------------------------
(* Orders of the blocks of a slot.                                          *)

\* Height and number of parents descending, hash ascending.
OptimisticSortSlotHeaders(S) ==
  LET Groups == {<<Height(b), Cardinality(dag.parents[b])>> : b \in S}
      Higher(g, h) == g[1] > h[1] \/ (g[1] = h[1] /\ g[2] > h[2])
      InGroup(g) == {b \in S : <<Height(b), Cardinality(dag.parents[b])>> = g}
  IN  FlattenSeq([i \in 1..Cardinality(Groups) |->
        SetToSortSeq(InGroup(SetToSortSeq(Groups, Higher)[i]), <)])

\* CalculateSpines, with the order of SpineSortBlocks: what finalization takes.
CalculateSpines(S, slot) ==
  LET slots == {s \in {Slot(b) : b \in S} : s > slot}
  IN  [i \in 1..Cardinality(slots) |->
         CHOOSE b \in S : IsFirst(dag, b, OfSlot(S, SetToSortSeq(slots, <)[i]))]

-----------------------------------------------------------------------------
Init ==
  /\ config \in Configs
  /\ stored = {Genesis} /\ ins = NoInsert /\ tips = 0
  /\ cache = [s \in {} |-> <<>>]
  /\ calls = [r \in Readers |-> NoCall]
  /\ nr = [b \in {Genesis} |-> 0]
  /\ given = <<>>

Quiet == \A r \in Readers : calls[r].at = "none"

\* insertBlocks: the header and the table of the slot are written.
InsertBlock(b) ==
  /\ ins = NoInsert /\ (config.overlap \/ Quiet)
  /\ b \notin stored /\ dag.parents[b] \subseteq stored
  /\ stored' = stored \cup {b}
  /\ ins' = [at |-> "purge", block |-> b]
  /\ given' = IF given # <<>> /\ Slot(b) <= Slot(Last(given)) THEN <<>> ELSE given
  /\ UNCHANGED <<config, tips, cache, calls, nr>>

\* removeOptimisticSpinesFromCache
Purged(s) == [t \in DOMAIN cache \ {s} |-> cache[t]]

InsertPurge ==
  /\ ins.at = "purge"
  /\ cache' = Purged(Slot(ins.block))
  /\ ins' = [ins EXCEPT !.at = "tips"]
  /\ UNCHANGED <<config, stored, tips, calls, nr, given>>

InsertTips ==
  /\ ins.at = "tips"
  /\ tips' = IF Slot(ins.block) > tips THEN Slot(ins.block) ELSE tips
  /\ ins' = NoInsert
  /\ UNCHANGED <<config, stored, cache, calls, nr, given>>

-----------------------------------------------------------------------------
(* GetOptimisticSpines, from the slot of the last finalized block.          *)

GetOptimisticSpines(r) ==
  /\ calls[r].at = "none" /\ (config.overlap \/ ins = NoInsert)
  /\ LET s == Slot(LastFinalized)
     IN  calls' = [calls EXCEPT ![r] =
           [NoCall EXCEPT !.at = IF tips > s THEN "slot" ELSE "done",
                          !.slot = s + 1, !.top = tips]]
  /\ UNCHANGED <<config, stored, ins, tips, cache, nr, given>>

\* Mutant: the slot of the tips is left out.
Append1Short(c, order) ==
  [c EXCEPT !.got = IF order = <<>> THEN @ ELSE Append(@, order),
            !.slot = @ + 1, !.read = {},
            !.at = IF c.slot + 1 < c.top THEN "slot" ELSE "done"]

\* The call goes on with an order of its slot; empty ones are left out.
Append1(c, order) ==
  [c EXCEPT !.got = IF order = <<>> THEN @ ELSE Append(@, order),
            !.slot = @ + 1, !.read = {},
            !.at = IF c.slot < c.top THEN "slot" ELSE "done"]

ReadSlot(r) ==
  LET c == calls[r]
  IN  /\ c.at = "slot"
      /\ calls' = [calls EXCEPT ![r] =
           IF c.slot \in DOMAIN cache THEN Append1(c, cache[c.slot])
           ELSE [c EXCEPT !.at = "sort", !.read = OfSlot(stored, c.slot)]]
      /\ UNCHANGED <<config, stored, ins, tips, cache, nr, given>>

SortSlot(r) ==
  LET c == calls[r]
      order == OptimisticSortSlotHeaders(c.read)
  IN  /\ c.at = "sort"
      /\ cache' = [t \in DOMAIN cache \cup {c.slot} |->
                     IF t = c.slot THEN order ELSE cache[t]]
      /\ calls' = [calls EXCEPT ![r] = Append1(c, order)]
      /\ UNCHANGED <<config, stored, ins, tips, nr, given>>

\* HandleGetCandidates: the first of each slot.
Firsts(got) == [i \in 1..Len(got) |-> Head(got[i])]

HandleGetCandidates(r, slot) ==
  /\ calls[r].at = "done"
  /\ given' = SelectSeq(Firsts(calls[r].got), LAMBDA b : Slot(b) <= slot)
  /\ calls' = [calls EXCEPT ![r] = NoCall]
  /\ UNCHANGED <<config, stored, ins, tips, cache, nr>>

\* The coordinator has the next candidates finalized.
Finalize(n) ==
  LET open == SelectSeq(given, LAMBDA b : b \notin Finalized)
      Chain(i, fin) == SetToSortSeq(dag.past[open[i]] \ fin,
                                    LAMBDA a, b : Before(dag, a, b))
      Fin(i) == Finalized \cup UNION {dag.past[open[j]] : j \in 1..i}
      chain == FlattenSeq([i \in 1..n |-> Chain(i, Fin(i - 1))])
  IN  /\ n \in 1..Len(open) /\ (config.overlap \/ (Quiet /\ ins = NoInsert))
      /\ nr' = [b \in Finalized \cup Range(chain) |->
                  IF b \in Finalized THEN nr[b]
                  ELSE nr[LastFinalized] + (CHOOSE k \in 1..Len(chain) : chain[k] = b)]
      /\ UNCHANGED <<config, stored, ins, tips, cache, calls, given>>

Next ==
  \/ \E b \in Block : InsertBlock(b)
  \/ InsertPurge \/ InsertTips
  \/ \E r \in Readers : GetOptimisticSpines(r)
  \/ \E r \in Readers : ReadSlot(r)
  \/ \E r \in Readers : SortSlot(r)
  \/ \E r \in Readers, s \in {Slot(b) : b \in Block} : HandleGetCandidates(r, s)
  \/ \E n \in 1..Cardinality(Block) : Finalize(n)

Spec == Init /\ [][Next]_vars

-----------------------------------------------------------------------------
(* IsValidSequenceOfSpines, with the candidates of the node.                *)

Candidates ==
  CalculateSpines(stored \ Finalized, Slot(LastFinalized))

IsFin(b) == b \in Finalized

\* checkPart is met in the candidates, in this order and without a gap.
Adjacent(seq, a, b) == \E i \in 1..(Len(seq) - 1) : seq[i] = a /\ seq[i + 1] = b

\* The next block whose number is its height; if there is none, the first
\* candidate, provided that the spine in question is not finalized.
FollowingSpine(prev, sp, candidates) ==
  LET after == {b \in Finalized : nr[b] > nr[prev] /\ nr[b] = Height(b)}
  IN  IF after # {} THEN {CHOOSE b \in after : \A c \in after : nr[b] <= nr[c]}
      ELSE IF ~IsFin(sp) /\ candidates # <<>> THEN {Head(candidates)} ELSE {}

\* Mutant: the spine after a finalized one is not looked up.
IsValidPairOpen(prev, sp, candidates) == Adjacent(candidates, prev, sp)

IsValidPair(prev, sp, candidates) ==
  IF IsFin(prev) THEN sp \in FollowingSpine(prev, sp, candidates)
  ELSE Adjacent(candidates, prev, sp)

IsValidSequenceOfSpines(spines) ==
  /\ Range(spines) \subseteq stored
  /\ \A i \in 2..Len(spines) :
       /\ Slot(spines[i - 1]) < Slot(spines[i])
       /\ IsValidPair(spines[i - 1], spines[i], Candidates)

-----------------------------------------------------------------------------
(* Properties.                                                              *)

\* What is stored, cached or read.
TypeOK ==
  /\ Finalized \subseteq stored /\ stored \subseteq Block
  /\ \A s \in DOMAIN cache : Range(cache[s]) \subseteq OfSlot(stored, s)
  /\ \A r \in Readers : calls[r].read \subseteq OfSlot(stored, calls[r].slot)
  /\ tips \in {Slot(b) : b \in stored}

\* While calls and insertions alternate, the candidates that a node gives are
\* those that finalization would take (GetFinalizingCandidates).
CandidatesAgree ==
  \A r \in Readers :
    ~config.overlap /\ calls[r].at = "done" => Firsts(calls[r].got) = Candidates

\* The spine of a slot has the spines of earlier slots in its past.
Linear ==
  \A i, j \in 1..Len(given) : i <= j => given[i] \in dag.past[given[j]]

\* A node finds the candidates valid that it gave, and keeps finding them
\* valid while they are finalized, if each has the one before in its past.
GivenValid ==
  ~config.overlap /\ Linear => IsValidSequenceOfSpines(given)

=============================================================================
