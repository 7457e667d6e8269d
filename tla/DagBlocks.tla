------------------------------ MODULE DagBlocks ------------------------------
(***************************************************************************)
(* The creation, the verification and the insertion of DAG blocks.         *)
(*                                                                         *)
(* A creator links its block to the tips of its node (reorgTips,           *)
(* prepareBlockHeader) and writes a height and a checkpoint in its header; *)
(* every node that receives the block computes the height again            *)
(* (VerifyBlock) and stores, with the block, its ancestors since the       *)
(* checkpoint (BlockDAG), from which it verifies and builds later blocks.  *)
(* The nodes are at different places of the chain meanwhile: each          *)
(* finalizes the spines the coordinator decides, adopts checkpoints and    *)
(* deletes old BlockDAGs at its own pace, and what it counts as an         *)
(* ancestor depends on all of these.                                       *)
(*                                                                         *)
(* Blocks are numbered in the order of their creation, genesis is 0.       *)
(***************************************************************************)
EXTENDS Integers, FiniteSets, Sequences, SequencesExt

CONSTANTS
  Nodes,
  Configs     \* settings to choose from: forkSlotPrefixFin, and bounds on the
              \* blocks, slots, checkpoints and creating nodes

VARIABLES
  config,   \* chosen at the start
  hdr,      \* headers of the blocks created so far, by block
  slot,     \* the current slot
  order,    \* blocks in the order of finalization; the index is the number
  spines,   \* the spines decided so far
  cps,      \* the coordinated checkpoints, genesis first
  known,    \* blocks stored by a node
  bdag,     \* a node's BlockDAG records: checkpoint and ancestors since
  tips,     \* HeaderChain.tips
  fin,      \* the number of a node's last finalized block
  cpn,      \* how many checkpoints a node has received
  saved,    \* the checkpoint that the next block of a node is built on
  stale     \* numbers up to which ClearStaleBlockDags has still to delete

net   == <<config, hdr, slot, order, spines, cps>>
local == <<known, bdag, tips, fin, cpn, saved, stale>>
vars  == <<net, local>>

Genesis == 0
Created == DOMAIN hdr

\* b and its ancestors: the parents determine them.
Past(b) == hdr[b].past

NumberOf(b) == IF b \in Range(order) THEN CHOOSE i \in DOMAIN order : order[i] = b ELSE 0

\* Header.Nr: the finalized number as the node has it, 0 if it has none.
Nr(n, b) == IF NumberOf(b) <= fin[n] THEN NumberOf(b) ELSE 0
Unfinalized(n, b) == b # Genesis /\ Nr(n, b) = 0

LastFin(n) == IF fin[n] = 0 THEN Genesis ELSE order[fin[n]]
LastCp(n) == cps[cpn[n]]
Coordinated(n) == {cps[i] : i \in 1..cpn[n]}

\* The checkpoint a header names; genesis is its own.
CpOf(b) == hdr[b].cp

(***************************************************************************)
(* CollectAncestorsAftCpByParents: the ancestors found by following the    *)
(* parents, down to the checkpoint and to what was finalized before it.    *)
(***************************************************************************)
AncestorsByParents(n, ps, cp) ==
  {a \in UNION {Past(p) : p \in ps} \ {cp, Genesis} :
     Unfinalized(n, a) \/ Nr(n, a) >= Nr(n, cp)}

\* The BlockDAG of a block that has none, from its header.
RebuiltDag(n, b) ==
  [cp |-> CpOf(b), anc |-> AncestorsByParents(n, hdr[b].parents, CpOf(b))]
GetBlockDag(n, b) == IF b \in DOMAIN bdag[n] THEN bdag[n][b] ELSE RebuiltDag(n, b)

\* SaveBlockDag of what the look-up of a checkpoint had to rebuild.
WithDag(n, b) == [x \in DOMAIN bdag[n] \cup {b} |-> GetBlockDag(n, x)]

\* mutant: the ancestors of the checkpoint count as well
BeforeCpNot(n, a, cp) == FALSE

\* Finalized, and in the past of the checkpoint since its own checkpoint.
BeforeCp(n, a, cp) == ~Unfinalized(n, a) /\ a # Genesis /\ a \in GetBlockDag(n, cp).anc

\* CollectAncestorsAftCpByTips: from the BlockDAGs of the parents that have one.
AncestorsByTips(n, ps, cp) ==
  LET have == ps \cap DOMAIN bdag[n]
  IN {a \in (have \cup UNION {bdag[n][p].anc : p \in have}) \cap known[n] :
        a # cp /\ ~BeforeCp(n, a, cp)}

(***************************************************************************)
(* CollectAncestorsHashesByTips over BlockDAGs T of the blocks ts; it      *)
(* fails on a tip whose range does not reach the checkpoint.               *)
(***************************************************************************)
BadTips(T, cp) == \E t \in DOMAIN T \ {cp} : T[t].cp # cp /\ cp \notin T[t].anc
HashesByTips(n, T, cp) ==
  UNION {{t} \cup IF T[t].cp = cp THEN T[t].anc
                  ELSE {a \in T[t].anc \ {cp} : ~BeforeCp(n, a, cp)} :
           t \in DOMAIN T \ {cp}}

IsAncestorByTips(n, b, a) ==
  /\ a # b
  /\ \/ a = Genesis
     \/ a \in hdr[b].parents
     \/ Nr(n, a) > 0 /\ Nr(n, a) < NumberOf(CpOf(b))
     \/ a \in AncestorsByTips(n, hdr[b].parents, CpOf(b))

----------------------------------------------------------------------------
(***************************************************************************)
(* VerifyBlock, from the collection of the ancestors on.  h is the header  *)
(* of a block whose parents all have a BlockDAG.                           *)
(***************************************************************************)
\* The checkpoint that the ancestors are collected from: for a block whose
\* checkpoint is a parent, the checkpoint of that one.
CommonCp(h) == IF h.cp \in h.parents THEN CpOf(h.cp) ELSE h.cp

\* The ancestors that the height counts.
Counted(n, h) ==
  LET cpCp == CommonCp(h)
      older == IF h.cp \in h.parents
               THEN AncestorsByTips(n, hdr[h.cp].parents, cpCp) \cup {h.cp} ELSE {}
  IN AncestorsByTips(n, h.parents, cpCp) \ older

CalcHeight(n, h) == hdr[h.cp].height + Cardinality(Counted(n, h)) + 1

IsCpAncestor(n, h) ==
  \/ h.cp \in h.parents
  \/ \E p \in h.parents : bdag[n][p].cp = h.cp \/ h.cp \in bdag[n][p].anc

Epoch(cp) == CHOOSE i \in DOMAIN cps : cps[i] = cp

IsCheckpointOutdated(n, cp) ==
  Epoch(cp) < cpn[n] /\ Epoch(cp) < Epoch(CpOf(LastCp(n)))

VerifyCheckpoint(n, h) ==
  /\ h.cp \in Coordinated(n)
  /\ ~IsCheckpointOutdated(n, h.cp)
  /\ \A p \in h.parents :
       LET d == bdag[n][p]
       IN \/ d.cp = h.cp
          \/ /\ hdr[h.cp].height > hdr[d.cp].height
             /\ \/ h.cp \in h.parents /\ hdr[p].slot = hdr[h.cp].slot
                \/ h.cp \in d.anc

VerifyBlockParents(n, h) ==
  /\ h.parents # {}
  /\ \A p \in h.parents : hdr[p].height < h.height /\ hdr[p].slot < h.slot
  /\ \/ \A p, q \in h.parents : hdr[p].slot = hdr[q].slot
     \/ \A p, q \in h.parents :
          p # q /\ Unfinalized(n, p) => ~IsAncestorByTips(n, p, q)

VerifyBlock(n, h) ==
  /\ IsCpAncestor(n, h)
  /\ VerifyCheckpoint(n, h)
  /\ h.height = CalcHeight(n, h)
  /\ VerifyBlockParents(n, h)

----------------------------------------------------------------------------
(***************************************************************************)
(* HeaderChain.GetTips: tips without a number, or else all of them.        *)
(***************************************************************************)
OpenTips(n, ts) ==
  IF \E t \in ts : Unfinalized(n, t) THEN {t \in ts : Unfinalized(n, t)} ELSE ts

(***************************************************************************)
(* The BlockDAG that insertBlocks stores with b, whose header is h.  The   *)
(* ancestors of a checkpoint that is a parent do not count.                *)
(***************************************************************************)
ParentDags(n, h) == [p \in h.parents \ {h.cp} |-> GetBlockDag(n, p)]
InsertFails(n, h) == BadTips(ParentDags(n, h), CommonCp(h))

\* mutant: the record leaves out what is already finalized
InsertedDagOpen(n, h) ==
  [cp |-> h.cp,
   anc |-> {a \in HashesByTips(n, ParentDags(n, h), CommonCp(h)) : Unfinalized(n, a)}]

InsertedDag(n, h) ==
  LET cpCp == CommonCp(h)
      older == IF h.cp \in h.parents THEN GetBlockDag(n, h.cp).anc \cup {cpCp} ELSE {}
  IN [cp |-> h.cp, anc |-> HashesByTips(n, ParentDags(n, h), cpCp) \ older]

\* insertBlocks after the verification: the block, its BlockDAG, and the tips,
\* which were ts.
Insert(n, b, h, ts) ==
  /\ known' = [known EXCEPT ![n] = @ \cup {b}]
  /\ IF InsertFails(n, h) THEN UNCHANGED <<bdag, tips>>
     ELSE LET d == InsertedDag(n, h)
              ds == WithDag(n, CommonCp(h))
          IN /\ bdag' = [bdag EXCEPT ![n] =
                           [x \in DOMAIN ds \cup {b} |-> IF x = b THEN d ELSE ds[x]]]
             /\ tips' = [tips EXCEPT ![n] = OpenTips(n, {b} \cup OpenTips(n, ts)) \ d.anc]

----------------------------------------------------------------------------
(***************************************************************************)
(* RunBlockCreation.                                                       *)
(***************************************************************************)
\* reorgTips works on a copy of the tips: one of this slot or a later one
\* gives way to its parents, and an ancestor of another one is dropped, also
\* from the tips of the node (RemoveTips).
EarlierTips(n) ==
  LET ts == OpenTips(n, tips[n])
      late == {t \in ts : hdr[t].slot >= slot}
  IN (ts \ late) \cup UNION {hdr[t].parents : t \in late}
ReorgTips(n) ==
  {t \in EarlierTips(n) : \A u \in EarlierTips(n) : ~IsAncestorByTips(n, u, t)}

\* mutant: reorgTips works on the map that GetTips returned
TipsLeftShared(n) == ReorgTips(n)

\* The tips of the node after reorgTips.
TipsLeft(n) == tips[n] \ (EarlierTips(n) \ ReorgTips(n))

\* prepareBlockHeader: the last finalized block becomes a parent when no tip
\* has it in its past; before the fork, when no tip is in a later slot.
AddsLastFin(n, ts) ==
  IF slot >= config.forkSlotPrefixFin
  THEN \A t \in ts : LastFin(n) \notin GetBlockDag(n, t).anc \cup {GetBlockDag(n, t).cp}
  ELSE \A t \in ts : hdr[t].slot <= hdr[LastFin(n)].slot

Parents(n, ts) == ts \cup IF AddsLastFin(n, ts) THEN {LastFin(n)} ELSE {}

\* The BlockDAGs that CalcBlockHeightByTips works on.
HeightDags(n, ts) ==
  [t \in IF slot >= config.forkSlotPrefixFin THEN Parents(n, ts) ELSE ts |-> GetBlockDag(n, t)]

NewHeight(n, T, cp) ==
  LET cpCp == IF cp \in DOMAIN T THEN T[cp].cp ELSE cp
  IN hdr[cpCp].height + Cardinality(HashesByTips(n, T, cpCp)) + 1
HeightFails(T, cp) == BadTips(T, IF cp \in DOMAIN T THEN T[cp].cp ELSE cp)

NewHeader(n, ts, cp) ==
  [slot |-> slot, parents |-> Parents(n, ts), cp |-> cp, by |-> n,
   height |-> NewHeight(n, HeightDags(n, ts), cp),
   past |-> UNION {Past(p) : p \in Parents(n, ts)}]

\* work and RunBlockCreation for one slot.
Create(n) ==
  LET cp == IF saved[n] = -1 THEN LastCp(n) ELSE saved[n]
      ts == ReorgTips(n)
      b == Cardinality(Created)
      h == NewHeader(n, ts, cp)
  IN /\ b <= config.blocks
     /\ \A c \in Created : hdr[c].by = n => hdr[c].slot < slot
     /\ Cardinality({hdr[c].by : c \in Created \ {Genesis}} \cup {n}) <= config.creators
     /\ slot > 0
     /\ ~HeightFails(HeightDags(n, ts), cp)
     /\ \A p \in h.parents : p \in DOMAIN bdag[n]
     /\ VerifyBlock(n, h)
     /\ hdr' = [x \in Created \cup {b} |->
                  IF x = b THEN [h EXCEPT !.past = @ \cup {b}] ELSE hdr[x]]
     /\ Insert(n, b, h, TipsLeft(n))
     /\ saved' = [saved EXCEPT ![n] = LastCp(n)]
     /\ UNCHANGED <<config, slot, order, spines, cps, fin, cpn, stale>>

\* A slot in which the node has no creator, or no transactions.
Skip(n) ==
  /\ saved[n] # LastCp(n)
  /\ saved' = [saved EXCEPT ![n] = LastCp(n)]
  /\ UNCHANGED <<net, known, bdag, tips, fin, cpn, stale>>

Deliver(n, b) ==
  /\ b \in Created \ known[n]
  /\ hdr[b].parents \subseteq DOMAIN bdag[n] \cap known[n]
  /\ VerifyBlock(n, hdr[b])
  /\ Insert(n, b, hdr[b], tips[n])
  /\ UNCHANGED <<net, fin, cpn, saved, stale>>

----------------------------------------------------------------------------
Tick == slot < config.slots /\ slot' = slot + 1 /\ UNCHANGED <<config, hdr, order, spines, cps, local>>

Before(a, b) ==
  \/ hdr[a].slot < hdr[b].slot
  \/ /\ hdr[a].slot = hdr[b].slot
     /\ \/ hdr[a].height > hdr[b].height
        \/ hdr[a].height = hdr[b].height /\ a < b

\* The blocks of S in their order.
Ordered(S) ==
  [i \in 1..Cardinality(S) |->
     CHOOSE b \in S : Cardinality({a \in S : Before(a, b)}) = i - 1]

\* The coordinator decides on the spine of a later slot.
Decide(s) ==
  /\ \A x \in spines : hdr[x].slot < hdr[s].slot
  /\ s \notin Range(order) \cup {Genesis}
  /\ \A n \in Nodes : s \in known[n]
  /\ spines' = spines \cup {s}
  /\ order' = order \o Ordered(Past(s) \ (Range(order) \cup {Genesis}))
  /\ UNCHANGED <<config, hdr, slot, cps, local>>

DecideCp(s) ==
  /\ Len(cps) <= config.cps
  /\ NumberOf(s) > NumberOf(cps[Len(cps)])
  /\ cps[Len(cps)] \in Past(s)
  /\ cps' = Append(cps, s)
  /\ UNCHANGED <<config, hdr, slot, order, spines, local>>

\* Finalizer.Finalize of the next spine, and FinalizeTips.
Finalize(n, s) ==
  /\ NumberOf(s) > fin[n]
  /\ \A x \in spines : NumberOf(x) > fin[n] => NumberOf(x) >= NumberOf(s)
  /\ Past(s) \subseteq known[n]
  /\ fin' = [fin EXCEPT ![n] = NumberOf(s)]
  /\ LET open == {t \in tips[n] : NumberOf(t) = 0 \/ NumberOf(t) > NumberOf(s)} \ {Genesis}
     IN tips' = [tips EXCEPT ![n] = IF open = {} THEN {s} ELSE open]
  /\ UNCHANGED <<net, known, bdag, cpn, saved, stale>>

\* RemoveOutdatedTips under the checkpoint c: a tip with an unfinalized block
\* below it that was built on an outdated checkpoint, and the blocks that only
\* such tips are built on.  The records of their BlockDAGs stay.
OutdatedTips(n, c) ==
  {t \in OpenTips(n, tips[n]) \ {Genesis} :
     \E a \in {t} \cup bdag[n][t].anc :
       /\ a = t \/ Unfinalized(n, a)
       /\ Epoch(CpOf(a)) < Epoch(CpOf(c))}
RemovedWith(n, bad) ==
  {b \in UNION {{t} \cup bdag[n][t].anc : t \in bad} :
     /\ b \in bad \/ Unfinalized(n, b)
     /\ \A t \in OpenTips(n, tips[n]) \ bad : b \notin {t} \cup bdag[n][t].anc}

\* SetLastCoordinatedCheckpoint, at the end of HandleFinalize.
Adopt(n) ==
  LET c == cps[cpn[n] + 1]
      bad == OutdatedTips(n, c)
      gone == {b \in known[n] : Past(b) \cap RemovedWith(n, bad) # {}}
  IN /\ cpn[n] < Len(cps)
     /\ NumberOf(c) <= fin[n]
     /\ cpn' = [cpn EXCEPT ![n] = @ + 1]
     /\ tips' = [tips EXCEPT ![n] = OpenTips(n, @) \ bad]
     /\ known' = [known EXCEPT ![n] = @ \ gone]
     /\ stale' = [stale EXCEPT ![n] = @ \cup ({NumberOf(CpOf(LastCp(n)))} \ {0})]
     /\ UNCHANGED <<net, bdag, fin, saved>>

\* The goroutine of ClearStaleBlockDags deletes downwards to the first block
\* that has no BlockDAG; the last one it can come to is the genesis.
ClearStaleBlockDags(n, upto) ==
  /\ upto \in stale[n]
  /\ LET at(i) == IF i = 0 THEN Genesis ELSE order[i]
         none == {i \in 0..upto : at(i) \notin DOMAIN bdag[n]}
         gone == {at(i) : i \in {j \in 0..upto : \A k \in none : k < j}}
     IN bdag' = [bdag EXCEPT ![n] = [x \in DOMAIN @ \ gone |-> @[x]]]
  /\ stale' = [stale EXCEPT ![n] = @ \ {upto}]
  /\ UNCHANGED <<net, known, tips, fin, cpn, saved>>

Init ==
  /\ config \in Configs
  /\ hdr = [b \in {Genesis} |-> [slot |-> 0, parents |-> {}, cp |-> Genesis, by |-> "genesis",
                                 height |-> 0, past |-> {Genesis}]]
  /\ slot = 0 /\ order = <<>> /\ spines = {} /\ cps = <<Genesis>>
  /\ known = [n \in Nodes |-> {Genesis}]
  /\ bdag = [n \in Nodes |-> [b \in {Genesis} |-> [cp |-> Genesis, anc |-> {}]]]
  /\ tips = [n \in Nodes |-> {Genesis}]
  /\ fin = [n \in Nodes |-> 0]
  /\ cpn = [n \in Nodes |-> 1]
  /\ saved = [n \in Nodes |-> -1]
  /\ stale = [n \in Nodes |-> {}]

Next ==
  \/ Tick
  \/ \E s \in Created : Decide(s)
  \/ \E s \in spines : DecideCp(s)
  \/ \E n \in Nodes :
       \/ Create(n)
       \/ Skip(n)
       \/ \E b \in Created : Deliver(n, b)
       \/ \E s \in spines : Finalize(n, s)
       \/ Adopt(n)
       \/ \E upto \in stale[n] : ClearStaleBlockDags(n, upto)

Spec == Init /\ [][Next]_vars

(***************************************************************************)
(* Properties.                                                             *)
(***************************************************************************)
\* A block that b's creator could send to n and that n would verify further.
Verifiable(n, b) ==
  /\ b \in Created \ known[n]
  /\ hdr[b].parents \subseteq DOMAIN bdag[n] \cap known[n]
  /\ hdr[b].cp \in Coordinated(n)
  /\ ~IsCheckpointOutdated(n, hdr[b].cp)

\* calcBlockHeight finds at every node the height that the creator wrote into
\* the header, whatever the two have finalized, which checkpoints they have
\* adopted and which BlockDAGs they have deleted in between.
HeightsAgree ==
  \A n \in Nodes : \A b \in Created :
    Verifiable(n, b) => hdr[b].height = CalcHeight(n, hdr[b])

\* The height that CalcBlockHeightByTips finds from checkpoint to checkpoint is
\* the number of all ancestors of a block.
HeightIsPast == \A b \in Created : hdr[b].height = Cardinality(Past(b)) - 1

\* A block that is stored and not finalized stays below a tip, so that later
\* blocks are built on it, whatever creator, inserter, finalizer and
\* RemoveOutdatedTips do to the tips.
TipsCover ==
  \A n \in Nodes : \A b \in known[n] :
     Unfinalized(n, b) => \E t \in tips[n] : b \in Past(t)

\* verifyBlockParents, "check there are not parent-ancestor relations": no
\* stored block has a parent that is an ancestor of another parent.
ParentsUnrelated ==
  \A n \in Nodes : \A b \in known[n] : \A p, q \in hdr[b].parents :
    p # q => p \notin Past(q)
=============================================================================
