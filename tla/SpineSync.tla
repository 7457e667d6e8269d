----------------------------- MODULE SpineSync ------------------------------
(***************************************************************************)
(* MainSync with one peer: peerSyncBySpinesByChunk and syncBySpines of     *)
(* eth/downloader/downloader.go ask for the hashes between a base and a    *)
(* terminal spine, chunk by chunk, against answerGetDagQuery of            *)
(* eth/protocols/eth/handlers.go, which the peer runs.                     *)
(*                                                                         *)
(* The peer answers with at most Limit hashes: its finalized blocks by     *)
(* number, then its not finalized blocks by slot.  Between two chunks the  *)
(* peer goes on finalizing, so the two halves of the answer shift.  The    *)
(* blocks of a chunk are written without validation (WriteSyncBlocks).     *)
(***************************************************************************)
EXTENDS Naturals, Sequences, SequencesExt, FiniteSets, FiniteSetsExt

CONSTANTS
    Dags,        \* the DAGs a peer may have, see below
    Limit,       \* LimitDagHashes
    IterLimit    \* the constant of peerSyncBySpinesByChunk

(***************************************************************************)
(* A DAG: `slot` and `parents` of its blocks 0..n, numbered by ascending   *)
(* slot, block 0 the genesis;                                              *)
(* `order`, the order in which they are finalized, genesis excluded;       *)
(* `spines`, the spines among them; `heads`, the finalized spine numbers.  *)
(***************************************************************************)
VARIABLES
    dag,         \* the peer's DAG
    lf,          \* the peer's last finalized number
    base,        \* the base spine
    terminal,    \* the terminal spine
    from,        \* fromHash: where the next chunk begins
    chunks,      \* chunks asked for
    written,     \* the blocks in the client's database
    inserted,    \* those whose insertion succeeded
    delayed,     \* insBlockCache
    result       \* "run", "ok", "cancelled" or "failed"

vars == <<dag, lf, base, terminal, from, chunks, written, inserted, delayed, result>>

Blocks == DOMAIN dag.slot
Nr(b) == IF b = 0 THEN 0 ELSE CHOOSE n \in DOMAIN dag.order : dag.order[n] = b
Finalized(b) == Nr(b) <= lf

RECURSIVE Past(_, _)
Past(d, b) == d.parents[b] \cup UNION {Past(d, p) : p \in d.parents[b]}

(* A set of blocks in the order of their slots. *)
BySlot(S) == SelectSeq([i \in 1..Cardinality(Blocks) |-> i - 1], LAMBDA b : b \in S)

-----------------------------------------------------------------------------
(* The peer: answerGetDagQuery.                                            *)

(* GetBlockHashesBySlot, in the order the blocks were stored. *)
SlotHashes(s) == BySlot({b \in Blocks : dag.slot[b] = s})

(* mutant: the first block of a range is left out *)
GetHashesByNumberRangeShort(fromNr, toNr, limit) ==
    LET last == IF toNr - fromNr > limit THEN fromNr + limit ELSE toNr
    IN  SubSeq(dag.order, fromNr + 2, last)

GetHashesByNumberRange(fromNr, toNr, limit) ==
    LET last == IF toNr - fromNr > limit THEN fromNr + limit ELSE toNr
    IN  SubSeq(dag.order, fromNr + 1, last)

(* At the terminal block the range ends with it alone; at the limit it     *)
(* ends with the first block of the slot alone.                            *)
RECURSIVE SlotRange(_, _, _, _)
SlotRange(hashes, s, to, limit) ==
    LET here == SlotHashes(s) IN
    IF s > to THEN hashes
    ELSE IF terminal \in ToSet(here) THEN Append(hashes, terminal)
    ELSE IF here # <<>> /\ Len(hashes) + Len(here) >= limit THEN Append(hashes, here[1])
    ELSE SlotRange(hashes \o here, s + 1, to, limit)

GetHashesBySlotRange(fromSlot, toSlot, limit) == SlotRange(<<>>, fromSlot, toSlot, limit)

Deduplicate(s) ==
    FoldLeft(LAMBDA seen, b : IF b \in ToSet(seen) THEN seen ELSE Append(seen, b), <<>>, s)

LastFinalized == IF lf = 0 THEN 0 ELSE dag.order[lf]

FinalizedPart(b) ==
    GetHashesByNumberRange(Nr(b), IF lf - Nr(b) > Limit THEN Nr(b) + Limit ELSE lf, Limit)

AnswerGetDagQuery(b) ==
    LET full ==
          CASE Finalized(b) /\ Finalized(terminal) /\ Nr(b) <= Nr(terminal) ->
                 GetHashesByNumberRange(Nr(b), Nr(terminal), Limit)
            [] Finalized(b) /\ ~Finalized(terminal) ->
                 LET part == FinalizedPart(b) IN
                 IF Len(part) < Limit
                 THEN Deduplicate(part \o GetHashesBySlotRange(dag.slot[LastFinalized],
                                            dag.slot[terminal], Limit - Len(part) + 1))
                 ELSE part
            [] ~Finalized(b) /\ ~Finalized(terminal) /\ dag.slot[b] <= dag.slot[terminal] ->
                 SelectSeq(GetHashesBySlotRange(dag.slot[b], dag.slot[terminal], Limit + 1),
                           LAMBDA h : h # b)
            [] OTHER -> <<>>
    IN  SubSeq(full, 1, IF Len(full) > Limit THEN Limit ELSE Len(full))

-----------------------------------------------------------------------------
(* The client: WriteSyncBlocks without validation.                         *)

(* The blocks of the chunk and the delayed ones, by slot. *)
Ordered(hashes) == BySlot(ToSet(hashes) \cup delayed)

(* A parent's ancestors are known from its own insertion, or collected. *)
Complete(b, wr, ins) ==
    \A p \in dag.parents[b] : p \in ins \/ (p \in wr /\ Past(dag, p) \subseteq wr)

(* A block is stored before its parents are looked up: the first block     *)
(* with an incomplete past is stored too, and it and the rest are delayed. *)
RECURSIVE InsertBlocks(_, _, _)
InsertBlocks(blocks, wr, ins) ==
    IF blocks = <<>> THEN [written |-> wr, inserted |-> ins, delayed |-> {}]
    ELSE IF Complete(blocks[1], wr, ins)
    THEN InsertBlocks(Tail(blocks), wr \cup {blocks[1]}, ins \cup {blocks[1]})
    ELSE [written |-> wr \cup {blocks[1]}, inserted |-> ins, delayed |-> ToSet(blocks)]

-----------------------------------------------------------------------------
Init ==
    /\ dag \in Dags
    /\ lf \in {0} \cup dag.heads
    /\ base \in {0} \cup {b \in dag.spines : Finalized(b)}
    /\ terminal \in {t \in dag.spines : dag.slot[t] > dag.slot[base]}
    /\ from = base
    /\ chunks = 0
    /\ written = {base} \cup Past(dag, base)
    /\ inserted = written
    /\ delayed = {}
    /\ result = "run"

(* The peer finalizes the next spine with its past. *)
RemoteFinalize ==
    /\ \E n \in dag.heads : n > lf /\ (\A m \in dag.heads : m > lf => n <= m) /\ lf' = n
    /\ result = "run"
    /\ UNCHANGED <<dag, base, terminal, from, chunks, written, inserted, delayed, result>>

(* One chunk: syncBySpines, then the decision of the loop. *)
LoopEnd(last) ==
    IF last = terminal THEN IF terminal \in written' THEN "ok" ELSE "cancelled"
    ELSE IF last = from \/ chunks > IterLimit THEN "cancelled"
    ELSE "run"

SyncBySpines ==
    LET hashes == AnswerGetDagQuery(from) IN
    /\ result = "run" /\ hashes # <<>>
    /\ LET out == InsertBlocks(Ordered(hashes), written, inserted) IN
         /\ written' = out.written
         /\ inserted' = out.inserted
         /\ delayed' = out.delayed
    /\ result' = LoopEnd(Last(hashes))
    /\ from' = Last(hashes)
    /\ chunks' = chunks + 1
    /\ UNCHANGED <<dag, lf, base, terminal>>

(* An empty answer is errInvalidDag; a timeout ends the loop as well. *)
SyncFails ==
    /\ result = "run"
    /\ result' = "failed"
    /\ UNCHANGED <<dag, lf, base, terminal, from, chunks, written, inserted, delayed>>

Next == RemoteFinalize \/ SyncBySpines \/ SyncFails

Spec == Init /\ [][Next]_vars

-----------------------------------------------------------------------------
TypeOK ==
    /\ from \in Blocks /\ lf \in 0..Len(dag.order) /\ chunks \in 0..IterLimit + 2
    /\ written \subseteq Blocks /\ inserted \subseteq written /\ delayed \subseteq Blocks
    /\ result \in {"run", "ok", "cancelled", "failed"}

(* No block of the peer that is not finalized lies in a slot before its    *)
(* last finalized one and belongs to the past of the terminal spine: the   *)
(* peer's answer by slots begins at its last finalized slot.               *)
NoLateBlocks ==
    \A n \in dag.heads : \A b \in Past(dag, terminal) \cup {terminal} :
        Nr(b) > n => dag.slot[b] >= dag.slot[dag.order[n]]

(* A synchronisation by spines that reports success has brought the whole  *)
(* past of the terminal spine, wherever the limit cut the answers and      *)
(* however far the peer finalized between them.                            *)
ChunksComplete ==
    result = "ok" /\ NoLateBlocks => Past(dag, terminal) \cup {terminal} \subseteq inserted
=============================================================================
