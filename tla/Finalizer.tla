----------------------------- MODULE Finalizer -----------------------------
(***************************************************************************)
(* Finalization of the DAG: Dag.HandleFinalize, Finalizer.Finalize,        *)
(* BlockChain.RollbackFinalization, block insertion, tips and checkpoints, *)
(* and the restart of a node that stopped in the middle of any of these.   *)
(*                                                                         *)
(* The coordinator keeps one spine per slot and asks the node to finalize  *)
(* a run of them on top of a base spine.  The node gives consecutive       *)
(* numbers to the blocks in the past of each spine.  One step of this      *)
(* module is one durable write of the code: a crash may fall between any   *)
(* two of them.  dagMu is held while phase # "idle", so blocks are         *)
(* inserted between calls, or by the downloader on behalf of the call; the *)
(* goroutine of RemoveOutdatedTips takes no lock and runs at any time.     *)
(***************************************************************************)
EXTENDS BlockDag

VARIABLES
  dag,          \* the DAG of the network, chosen once
  coord,        \* spines on the coordinator's current chain, one per slot
  known,        \* blocks stored by the node
  nrOf,         \* finalized number by hash (finNumberByHash), NoNr if none
  hashAt,       \* finalized hash by number (finHashByNumber)
  lastFin,      \* last finalized block: the head
  lastFinNr,    \* its number in memory (lastFinalizedBlock.Nr())
  tips,         \* HeaderChain.tips
  checkpoints,  \* spines stored by WriteCoordinatedCheckpoint
  lastCp,       \* spine of the last coordinated checkpoint
  doomed,       \* blocks the RemoveOutdatedTips goroutine has still to remove
  job           \* the call in progress under dagMu

net   == <<dag, coord>>
table == <<nrOf, hashAt, lastFin, lastFinNr>>
cpTip == <<tips, checkpoints, lastCp, doomed>>
vars  == <<net, known, table, cpTip, job>>

NoNr == -1

Phases == {"idle", "sync", "rollback", "finalize", "blocks", "tips", "down"}

(***************************************************************************)
(* A job holds the local variables of HandleFinalize and its callees:      *)
(*   phase    where the call is                                            *)
(*   base     the base spine after ForwardFinalization; during a rollback, *)
(*            the block that becomes the head                              *)
(*   at       the number that the rollback loop deletes next               *)
(*   then     what follows the rollback                                    *)
(*   spines   spines still to be finalized                                 *)
(*   spine    the spine in progress                                        *)
(*   pending  the blocks of its chain that have no number yet              *)
(*   nr       the last number given out; during a rollback, that of base   *)
(*   ok       successSpine                                                 *)
(*   cp       the checkpoint of the request                                *)
(*   res      the result of the call that ended last                       *)
(***************************************************************************)
NoJob(res) ==
  [phase |-> "idle", base |-> Genesis, at |-> 0, then |-> "none",
   spines |-> {}, spine |-> Genesis, pending |-> {}, nr |-> 0,
   ok |-> Genesis, cp |-> Genesis, res |-> res]

Slot(b) == dag.slot[b]

Unfinalized == {b \in Block : nrOf[b] = NoNr}

Init ==
  /\ dag \in Dags
  /\ coord = {Genesis}
  /\ known = {Genesis}
  /\ nrOf = [b \in Block |-> IF b = Genesis THEN 0 ELSE NoNr]
  /\ hashAt = [n \in {0} |-> Genesis]
  /\ lastFin = Genesis
  /\ lastFinNr = 0
  /\ tips = {Genesis}
  /\ checkpoints = {Genesis}
  /\ lastCp = Genesis
  /\ doomed = {}
  /\ job = NoJob("none")

-----------------------------------------------------------------------------
(***************************************************************************)
(* Tips and checkpoints.                                                   *)
(***************************************************************************)

\* HeaderChain.GetTips: tips that are not finalized, or else all of them.
GetTips ==
  IF tips \cap Unfinalized = {} THEN tips ELSE tips \cap Unfinalized

\* IsCheckpointOutdated: c is older than both lcp and the checkpoint lcp was
\* built on.  A checkpoint's epoch grows with the slot of its spine.
IsOutdated(lcp, c) ==
  /\ lcp \in known
  /\ Slot(c) < Slot(lcp)
  /\ Slot(c) < Slot(IF lcp = Genesis THEN Genesis ELSE dag.cp[lcp])

\* RemoveOutdatedTips drops a tip when it, or an ancestor of it that is not
\* finalized, is missing or stands on an unknown or outdated checkpoint.
IsOutdatedTip(cps, lcp, t) ==
  /\ t # Genesis
  /\ \E a \in PastWithin(dag, t, Unfinalized) :
       a \notin known \/ dag.cp[a] \notin cps \/ IsOutdated(lcp, dag.cp[a])

\* RemoveOutdatedTips hands its goroutine the dropped tips and their ancestors
\* that are neither finalized nor below a tip that stays.  Whether a dropped tip
\* itself is finalized is not looked at.
BlocksToRm(bad, good) ==
  UNION {PastWithin(dag, t, Unfinalized) : t \in bad} \ UNION {dag.past[t] : t \in good}

\* SetLastCoordinatedCheckpoint(c) with the tips ts, RemoveOutdatedTips included.
SetLastCoordinatedCheckpoint(c, ts) ==
  LET cps == checkpoints \cup {c}
      bad == {t \in ts : IsOutdatedTip(cps, c, t)}
  IN /\ checkpoints' = cps
     /\ lastCp' = c
     /\ tips' = ts \ bad
     /\ doomed' = doomed \cup BlocksToRm(bad, ts \ bad)

-----------------------------------------------------------------------------
(***************************************************************************)
(* The network: the coordinator's chain of spines and block insertion.     *)
(***************************************************************************)

\* The coordinator adds a spine in a later slot.  Calls read coord only when
\* they start, so its steps are taken between calls.
Extend(s) ==
  /\ job.phase = "idle"
  /\ \A c \in coord : Slot(c) < Slot(s)
  /\ coord' = coord \cup {s}
  /\ UNCHANGED <<dag, known, table, cpTip, job>>

\* The coordinator abandons its spines after s, which it has not checkpointed.
Reorg(s) ==
  /\ job.phase = "idle"
  /\ s \in coord
  /\ \A c \in checkpoints : Slot(c) <= Slot(s)
  /\ coord' = {c \in coord : Slot(c) <= Slot(s)}
  /\ coord' # coord
  /\ UNCHANGED <<dag, known, table, cpTip, job>>

\* verifyCheckpoint: coordinated, not outdated, stored and finalized.
VerifyCheckpoint(b) ==
  /\ dag.cp[b] \in checkpoints \cap known
  /\ ~IsOutdated(lastCp, dag.cp[b])
  /\ nrOf[dag.cp[b]] # NoNr

\* VerifyBlock: no ancestor is unloaded, and the checkpoint is good.  What it
\* verifies of the block alone holds of every block of the DAG.
VerifyBlock(b) == dag.parents[b] \subseteq known /\ VerifyCheckpoint(b)

\* insertBlocks of one block that VerifyBlock accepts: a propagated or created
\* block, or one that the downloader brings for the call in progress.
InsertBlock(b) ==
  /\ job.phase \in {"idle", "sync"}
  /\ b \notin known
  /\ VerifyBlock(b)
  /\ known' = known \cup {b}
  /\ tips' = (({b} \cup GetTips) \cap Unfinalized) \ (dag.past[b] \ {b})
  /\ UNCHANGED <<net, table, checkpoints, lastCp, doomed, job>>

-----------------------------------------------------------------------------
(***************************************************************************)
(* HandleFinalize up to the call of Finalize.                              *)
(***************************************************************************)

\* Numbers after base at which the slot of the finalized blocks grows: the
\* headers that the loop of forwardFinalization compares with a spine.
SlotSteps(base) ==
  {n \in DOMAIN hashAt :
     /\ nrOf[base] < n /\ n <= nrOf[lastFin]
     /\ \A m \in DOMAIN hashAt :
          nrOf[base] <= m /\ m < n => Slot(hashAt[m]) < Slot(hashAt[n])}

\* The requested spine s is found finalized, as the k-th slot step for the
\* k-th spine, and so are the spines before it.
IsForwarded(base, spines, s) ==
  \A t \in spines : Slot(t) <= Slot(s) =>
    /\ nrOf[t] \in SlotSteps(base)
    /\ Cardinality({n \in SlotSteps(base) : n <= nrOf[t]})
         = Cardinality({u \in spines : Slot(u) <= Slot(t)})

\* ForwardFinalization: the spines left when finalized ones are skipped.
ForwardSpines(base, spines) == {s \in spines : ~IsForwarded(base, spines, s)}

\* ForwardFinalization: the base spine those are left with.
IsForwardBase(base, spines, b) ==
  LET skipped == spines \ ForwardSpines(base, spines)
  IN /\ b \in {base} \cup skipped
     /\ \A s \in skipped : Slot(s) <= Slot(b)

\* SetSpineState(b, lfNr) is RollbackFinalization: ErrBadBlockNr if b is not
\* finalized, nothing to do if it is the head, else the numbers from lfNr down
\* to that of b are deleted first.
SetSpineState(j, b, lfNr, next) ==
  IF nrOf[b] = NoNr THEN NoJob("error")
  ELSE IF b = lastFin /\ nrOf[b] >= lfNr THEN [j EXCEPT !.phase = next]
  ELSE [j EXCEPT !.phase = "rollback", !.base = b, !.nr = nrOf[b],
                 !.at = lfNr, !.then = next]

\* The coordinator asks to finalize its spines after base, up to last.
HandleFinalize(base, last, c) ==
  LET spines == {s \in coord : Slot(base) < Slot(s) /\ Slot(s) <= Slot(last)}
      todo   == ForwardSpines(base, spines)
  IN /\ job.phase = "idle"
     /\ {base, last, c} \subseteq coord
     /\ Slot(lastCp) <= Slot(c) /\ Slot(c) <= Slot(base) /\ Slot(base) <= Slot(last)
     /\ \/ \* ErrInvalidBaseSpine
           /\ spines # {} /\ nrOf[base] = NoNr
           /\ job' = NoJob("error")
           /\ UNCHANGED cpTip
        \/ \* every spine is finalized already
           /\ nrOf[base] # NoNr /\ todo = {}
           /\ SetLastCoordinatedCheckpoint(c, GetTips)
           /\ job' = NoJob("ok")
        \/ \* the blocks of the other spines are synchronised first
           /\ nrOf[base] # NoNr /\ todo # {}
           /\ \E b \in Block :
                /\ IsForwardBase(base, spines, b)
                /\ job' = [NoJob("none") EXCEPT !.phase = "sync", !.base = b,
                              !.spines = todo, !.ok = b, !.cp = c]
           /\ UNCHANGED cpTip
     /\ UNCHANGED <<net, known, table>>

\* The downloader gives up: HandleFinalize returns its error.
SyncFails ==
  /\ job.phase = "sync"
  /\ ~(job.spines \subseteq known)
  /\ job' = NoJob("error")
  /\ UNCHANGED <<net, known, table, cpTip>>

\* All blocks are there: Finalize starts with the rollback to the base spine.
StartFinalize ==
  /\ job.phase = "sync"
  /\ job.spines \subseteq known
  /\ job' = SetSpineState(job, job.base, lastFinNr, "finalize")
  /\ UNCHANGED <<net, known, table, cpTip>>

-----------------------------------------------------------------------------
(***************************************************************************)
(* RollbackFinalization.                                                   *)
(***************************************************************************)

\* Mutant: the rollback deletes upwards.
RollbackBlockUpwards ==
  LET n == job.nr + 1 + lastFinNr - job.at
  IN /\ job.phase = "rollback"
     /\ job.at > job.nr
     /\ IF n \in DOMAIN hashAt
        THEN /\ nrOf' = [nrOf EXCEPT ![hashAt[n]] = NoNr]
             /\ hashAt' = [m \in DOMAIN hashAt \ {n} |-> hashAt[m]]
        ELSE UNCHANGED <<nrOf, hashAt>>
     /\ job' = [job EXCEPT !.at = @ - 1]
     /\ UNCHANGED <<net, known, lastFin, lastFinNr, cpTip>>

\* mutant: the number of the block is left in the table by hash
RollbackBlockHalf ==
  /\ job.phase = "rollback"
  /\ job.at > job.nr
  /\ hashAt' = [n \in DOMAIN hashAt \ {job.at} |-> hashAt[n]]
  /\ job' = [job EXCEPT !.at = @ - 1]
  /\ UNCHANGED <<net, known, nrOf, lastFin, lastFinNr, cpTip>>

\* rollbackBlockFinalization(job.at), or the warning that nothing is there.
RollbackBlock ==
  /\ job.phase = "rollback"
  /\ job.at > job.nr
  /\ IF job.at \in DOMAIN hashAt
     THEN /\ nrOf' = [nrOf EXCEPT ![hashAt[job.at]] = NoNr]
          /\ hashAt' = [n \in DOMAIN hashAt \ {job.at} |-> hashAt[n]]
     ELSE UNCHANGED <<nrOf, hashAt>>
  /\ job' = [job EXCEPT !.at = @ - 1]
  /\ UNCHANGED <<net, known, lastFin, lastFinNr, cpTip>>

\* writeFinalizedBlock: both tables, and the head if isHead.
WriteFinalizedBlock(n, b, isHead) ==
  /\ nrOf' = [nrOf EXCEPT ![b] = n]
  /\ hashAt' = [m \in DOMAIN hashAt \cup {n} |-> IF m = n THEN b ELSE hashAt[m]]
  /\ lastFin' = IF isHead THEN b ELSE lastFin
  /\ lastFinNr' = IF isHead THEN n ELSE lastFinNr

\* searchBlockFinalizationCp(b) for b with number nr: the closest checkpoint
\* below b, no lower than the checkpoint b was built on.
IsFinalizationCp(b, nr, c) ==
  LET top == IF nr = 0 THEN 0 ELSE nr - 1
  IN /\ c \in checkpoints
     /\ nrOf[c] # NoNr /\ nrOf[dag.cp[b]] <= nrOf[c] /\ nrOf[c] <= top
     /\ \A n \in nrOf[c]..top : n \in DOMAIN hashAt
     /\ \A n \in (nrOf[c] + 1)..top : hashAt[n] \notin checkpoints

\* The end of RollbackFinalization: the head and the checkpoint move back.
\* Finalize then loads the spines of the request.
RollbackHead ==
  /\ job.phase = "rollback"
  /\ job.at <= job.nr
  /\ WriteFinalizedBlock(job.nr, job.base, TRUE)
  /\ LET cps == {c \in Block : IsFinalizationCp(job.base, job.nr, c)}
     IN /\ IF cps \subseteq {lastCp} THEN UNCHANGED cpTip
           ELSE \E c \in cps : SetLastCoordinatedCheckpoint(c, GetTips)
        /\ job' = IF cps # {} /\ job.then = "finalize" /\ job.spines \subseteq known
                  THEN [job EXCEPT !.phase = "finalize"]
                  ELSE NoJob("error")
  /\ UNCHANGED <<net, known>>

-----------------------------------------------------------------------------
(***************************************************************************)
(* Finalize, after the rollback to the base spine.                         *)
(***************************************************************************)

\* Mutant: no spine is the lowest.
IsNextSpineStrict(s) == s \in job.spines /\ \A t \in job.spines : Slot(s) < Slot(t)

\* Finalize takes the spines by slot.
IsNextSpine(s) == s \in job.spines /\ \A t \in job.spines : Slot(s) <= Slot(t)

SpineGetDagChainSpine(s) == {s}

\* The spine and its ancestors up to the finalized ones.
SpineGetDagChain(s) == PastWithin(dag, s, Unfinalized)

\* Finalize starts the next spine.  The chain of a spine that has a number
\* already is empty and the spine is skipped; a missing parent is an error.
StartSpine ==
  /\ job.phase = "finalize"
  /\ \E s \in job.spines :
       LET chain == SpineGetDagChain(s)
       IN /\ IsNextSpine(s)
          /\ job' =
               IF nrOf[s] # NoNr THEN [job EXCEPT !.spines = @ \ {s}]
               ELSE IF \E b \in chain : ~(dag.parents[b] \subseteq known)
               THEN NoJob("error")
               ELSE [job EXCEPT !.phase = "blocks", !.spines = @ \ {s},
                                !.spine = s, !.nr = lastFinNr, !.pending = chain]
  /\ UNCHANGED <<net, known, table, cpTip>>

\* finalizeBlock of the next block b of the chain, which becomes the head if it
\* is the last one.
FinalizeBlock ==
  /\ job.phase = "blocks"
  /\ \E b \in job.pending :
       /\ IsFirst(dag, b, job.pending)
       /\ LET n == job.nr + 1
          IN IF n \in DOMAIN hashAt
             THEN \* ErrFinNrrUsed: back to the last spine that succeeded
                  /\ job' = SetSpineState(job, job.ok, n, "idle")
                  /\ UNCHANGED table
             ELSE /\ WriteFinalizedBlock(n, b, job.pending = {b})
                  /\ job' = [job EXCEPT !.nr = n, !.pending = @ \ {b},
                               !.phase = IF job.pending = {b} THEN "tips" ELSE "blocks"]
  /\ UNCHANGED <<net, known, cpTip>>

\* FinalizeTips, called with the height of the head for lastFinNr.
FinalizeTips ==
  LET left == {t \in GetTips : nrOf[t] = NoNr \/ nrOf[t] > dag.height[lastFin]}
  IN IF left = {} THEN {lastFin} ELSE left

\* updateTips.  The head is read again first: the call panics if it is gone,
\* and is recovered.
UpdateTips ==
  /\ job.phase = "tips"
  /\ IF lastFin \in known
     THEN /\ tips' = FinalizeTips
          /\ job' = [job EXCEPT !.phase = "finalize", !.ok = job.spine]
     ELSE /\ job' = NoJob("error")
          /\ UNCHANGED tips
  /\ UNCHANGED <<net, known, table, checkpoints, lastCp, doomed>>

\* Finalize returned nil: HandleFinalize records the checkpoint and answers.
EndFinalize ==
  /\ job.phase = "finalize"
  /\ job.spines = {}
  /\ SetLastCoordinatedCheckpoint(job.cp, GetTips)
  /\ job' = NoJob("ok")
  /\ UNCHANGED <<net, known, table>>

-----------------------------------------------------------------------------
(***************************************************************************)
(* Removal of blocks.                                                      *)
(***************************************************************************)

\* Mutant: children stay.
DescendantsNone(H) == H

\* H and what rmBlockData removes with it: children, recursively.
Descendants(H) == {b \in Block : dag.past[b] \cap H # {}}

\* Mutant: the hash by number stays.
RmBlockDataHalf(R) ==
  /\ known' = known \ R
  /\ nrOf' = [b \in Block |-> IF b \in R THEN NoNr ELSE nrOf[b]]
  /\ UNCHANGED hashAt

\* The tables once rmBlockData has removed every block of R.
RmBlockData(R) ==
  /\ known' = known \ R
  /\ nrOf' = [b \in Block |-> IF b \in R THEN NoNr ELSE nrOf[b]]
  /\ hashAt' = [n \in {m \in DOMAIN hashAt : hashAt[m] \notin R} |-> hashAt[n]]

\* One iteration of the goroutine of RemoveOutdatedTips.
RmOutdated(h) ==
  /\ h \in doomed
  /\ job.phase # "down"
  /\ RmBlockData(Descendants({h}))
  /\ doomed' = doomed \ {h}
  /\ UNCHANGED <<net, lastFin, lastFinNr, tips, checkpoints, lastCp, job>>

-----------------------------------------------------------------------------
(***************************************************************************)
(* Failures.                                                               *)
(***************************************************************************)

\* UpdateFinalizingState fails: Finalize returns without undoing anything.
StateUpdateFails ==
  /\ job.phase = "blocks"
  /\ job' = NoJob("error")
  /\ UNCHANGED <<net, known, table, cpTip>>

\* The node stops; what is not in the database is lost.
Crash ==
  /\ job.phase # "down"
  /\ job' = [NoJob("none") EXCEPT !.phase = "down"]
  /\ doomed' = {}
  /\ UNCHANGED <<net, known, table, tips, checkpoints, lastCp>>

\* NewBlockChain: roll back to the last coordinated checkpoint.
Restart ==
  /\ job.phase = "down"
  /\ nrOf[lastFin] # NoNr
  /\ nrOf[lastCp] # NoNr
  /\ job' = SetSpineState(NoJob("none"), lastCp, nrOf[lastFin], "idle")
  /\ lastFinNr' = nrOf[lastFin]
  /\ UNCHANGED <<net, known, nrOf, hashAt, lastFin, cpTip>>

\* ResetTips with the head h: the head and the finalized blocks between its
\* checkpoint and itself that are not in its past; loadTips then keeps maxima.
ResetTips(h) ==
  LET forks == {b \in Block : /\ nrOf[dag.cp[h]] < nrOf[b] /\ nrOf[b] < nrOf[h]
                              /\ b \notin dag.past[h]}
  IN {h} \cup {b \in forks : \A f \in forks \ {b} : b \notin dag.past[f]}

\* NewBlockChain when the rollback is impossible: SetHead.  The head is the
\* last checkpoint, or a checkpoint before it if that one is not finalized.
\* Blocks go by slot up to max, the end of an epoch that no finalized block is
\* beyond, and then by number down from that of the stored head, which counts
\* as 0 when it has none by now (ReadLastFinalizedNumber).
SetHead(h) ==
  /\ job.phase = "down"
  /\ nrOf[lastFin] = NoNr \/ nrOf[lastCp] = NoNr
  /\ h \in checkpoints /\ nrOf[h] # NoNr /\ Slot(h) <= Slot(lastCp)
  /\ nrOf[lastCp] # NoNr => h = lastCp
  /\ \E max \in {Slot(b) : b \in Block} :
       LET bySlot == Descendants({b \in Block \ {h} : Slot(h) <= Slot(b) /\ Slot(b) <= max})
           lfNr   == IF lastFin \in bySlot THEN NoNr ELSE nrOf[lastFin]
           byNr   == {b \in Block : nrOf[h] < nrOf[b] /\ nrOf[b] <= lfNr}
       IN /\ \A b \in Block \ Unfinalized : Slot(b) <= max
          /\ RmBlockData(bySlot \cup Descendants(byNr))
  /\ lastFin' = h
  /\ lastFinNr' = nrOf[h]
  /\ \E c \in Block : IsFinalizationCp(h, nrOf[h], c) /\ lastCp' = c
  /\ tips' = ResetTips(h)
  /\ job' = NoJob("none")
  /\ UNCHANGED <<net, checkpoints, doomed>>

-----------------------------------------------------------------------------
(***************************************************************************)
(* Specifications.                                                         *)
(***************************************************************************)

\* The steps of the call in progress.
Call ==
  \/ SyncFails \/ StartFinalize
  \/ RollbackBlock \/ RollbackHead
  \/ StartSpine \/ FinalizeBlock \/ UpdateTips \/ EndFinalize

Network ==
  \/ \E s \in Block : Extend(s)
  \/ \E b \in Block : InsertBlock(b)

Failure ==
  \/ StateUpdateFails \/ Crash \/ Restart
  \/ \E h \in Block : SetHead(h)

\* The coordinator builds on the head of the node, and no call fails.
SteadyNext ==
  \/ \E last, c \in Block : HandleFinalize(lastFin, last, c)
  \/ Call \/ Network

\* The coordinator repeats requests: it may name any of its spines as base.
ReplayNext ==
  \/ \E base, last, c \in Block : HandleFinalize(base, last, c)
  \/ Call \/ Network

\* The coordinator also abandons spines that it has not checkpointed.
Next == ReplayNext \/ \E s \in Block : Reorg(s)

\* The goroutine of RemoveOutdatedTips runs.
PruneNext == ReplayNext \/ \E h \in Block : RmOutdated(h)

\* Calls fail, and the node stops and restarts.
FaultyNext == ReplayNext \/ Failure

\* Everything together.
TotalNext == Next \/ Failure \/ \E h \in Block : RmOutdated(h)

SteadySpec == Init /\ [][SteadyNext]_vars
ReplaySpec == Init /\ [][ReplayNext]_vars
Spec == Init /\ [][Next]_vars
PruneSpec == Init /\ [][PruneNext]_vars
TotalSpec == Init /\ [][TotalNext]_vars
FaultySpec == Init /\ [][FaultyNext]_vars

-----------------------------------------------------------------------------
(***************************************************************************)
(* Properties.                                                             *)
(***************************************************************************)

JobType ==
  [phase : Phases, base : Block, at : Nat,
   then : {"none", "idle", "finalize"}, spines : SUBSET Block,
   spine : Block, pending : SUBSET Block, nr : Nat,
   ok : Block, cp : Block, res : {"none", "ok", "error"}]

\* Every variable has its type.
TypeOK ==
  /\ WellFormed(dag)
  /\ coord \subseteq Block
  /\ known \subseteq Block
  /\ nrOf \in [Block -> Nat \cup {NoNr}]
  /\ DOMAIN hashAt \subseteq Nat
  /\ hashAt \in [DOMAIN hashAt -> Block]
  /\ lastFin \in Block
  /\ lastFinNr \in Nat
  /\ tips \subseteq Block
  /\ checkpoints \subseteq Block
  /\ lastCp \in Block
  /\ doomed \subseteq Block
  /\ job \in JobType

\* The two tables that WriteFinalizedHashNumber keeps are inverse of each
\* other, whatever calls fail and whenever the node stops.
TablesInverse ==
  /\ \A n \in DOMAIN hashAt : nrOf[hashAt[n]] = n
  /\ \A b \in Block : nrOf[b] # NoNr =>
       nrOf[b] \in DOMAIN hashAt /\ hashAt[nrOf[b]] = b

\* What makes TablesInverse inductive: the blocks that wait for a number have
\* none, and the rollback rewrites only the number that its base has.
TablesInv ==
  /\ TypeOK
  /\ TablesInverse
  /\ job.phase = "blocks" => \A b \in job.pending : nrOf[b] = NoNr
  /\ job.phase = "rollback" =>
       /\ job.nr \in DOMAIN hashAt => hashAt[job.nr] = job.base
       /\ nrOf[job.base] # NoNr => nrOf[job.base] = job.nr

\* A block gets its number after all its parents got theirs: the finalized
\* chain executes no block before a block it depends on.
ParentsFirst ==
  \A b \in Block : nrOf[b] # NoNr =>
    \A p \in dag.parents[b] : nrOf[p] # NoNr /\ nrOf[p] < nrOf[b]

\* Between calls the head is the finalized block with the largest number.
HeadIsLast ==
  job.phase = "idle" =>
    /\ nrOf[lastFin] # NoNr
    /\ \A n \in DOMAIN hashAt : n <= nrOf[lastFin]

\* The number of the last finalized block, in the middle of a call too.
LastNr ==
  IF job.phase = "blocks" THEN job.nr
  ELSE IF job.phase = "rollback" THEN job.at ELSE lastFinNr

\* What makes ParentsFirst and HeadIsLast inductive while nothing fails: no
\* gap in the numbers, and the parents of a block that waits for its number
\* have theirs or wait too.
ChainInv ==
  /\ TablesInv
  /\ ParentsFirst
  /\ job.phase # "down"
  /\ DOMAIN hashAt = 0..LastNr
  /\ job.phase \notin {"blocks", "rollback"} => nrOf[lastFin] = lastFinNr
  /\ job.phase = "rollback" => job.nr <= job.at /\ nrOf[job.base] = job.nr
  /\ job.phase = "blocks" =>
       \A b \in job.pending : \A p \in dag.parents[b] :
         nrOf[p] # NoNr \/ p \in job.pending

\* The spine at which a finalized block enters the chain of the coordinator.
Owner(b, s) ==
  /\ s \in coord /\ b \in dag.past[s]
  /\ \A t \in coord : b \in dag.past[t] => Slot(s) <= Slot(t)

\* The linearisation that the coordinator's spines prescribe.
Prescribed(a, b) ==
  \E s, t \in coord :
    /\ Owner(a, s) /\ Owner(b, t)
    /\ Slot(s) < Slot(t) \/ (s = t /\ Before(dag, a, b))

\* All nodes that follow one coordinator number the blocks alike: the numbers
\* are an initial part of the linearisation its spines prescribe.
Agreement ==
  \A a, b \in Block : nrOf[a] # NoNr /\ nrOf[b] # NoNr /\ nrOf[a] < nrOf[b] =>
    Prescribed(a, b)

\* The coordinator's spines prescribe a place for b.
Ordered(b) == \E s \in coord : b \in dag.past[s]

\* The numbered blocks are an initial part of the prescribed linearisation: a
\* numbered block comes before the blocks with larger numbers and before those
\* that have no number yet.
InitialPart ==
  \A a \in Block : nrOf[a] # NoNr =>
    /\ Ordered(a)
    /\ \A b \in Block :
         Ordered(b) /\ (nrOf[b] = NoNr \/ nrOf[a] < nrOf[b]) => Prescribed(a, b)

\* The coordinator has one spine per slot.
OnePerSlot == \A c, e \in coord : Slot(c) = Slot(e) => c = e

\* The spine that the spines of the job follow.
Base ==
  IF job.phase = "blocks" THEN job.spine
  ELSE IF job.phase \in {"sync", "rollback"} THEN job.base ELSE lastFin

\* What makes InitialPart inductive while the coordinator abandons no spine:
\* calls start and end at spines, a job finalizes the spines after its base
\* without leaving one out, and the blocks that wait for a number are those
\* that enter the chain with the spine in progress.
AgreeInv ==
  /\ ChainInv
  /\ InitialPart
  /\ OnePerSlot
  /\ {lastFin, Base} \subseteq coord
  /\ job.phase = "sync" => nrOf[job.base] # NoNr
  /\ \A s \in job.spines :
       /\ s \in coord /\ Slot(Base) < Slot(s)
       /\ \A c \in coord : Slot(Base) < Slot(c) /\ Slot(c) < Slot(s) => c \in job.spines
  /\ job.phase = "blocks" =>
       /\ job.spine \in job.pending
       /\ \A b \in job.pending : Owner(b, job.spine)
       /\ \A t \in coord : Slot(t) <= Slot(job.spine) =>
            \A b \in dag.past[t] : nrOf[b] # NoNr \/ b \in job.pending

\* SpineGetDagChain collects all ancestors of a spine that are not finalized:
\* while the chain of a spine is finalized, an ancestor of the spine has its
\* number or is still in the chain.
ChainComplete ==
  job.phase = "blocks" =>
    \A b \in dag.past[job.spine] : nrOf[b] # NoNr \/ b \in job.pending

\* The stored blocks are closed under parents, although the goroutine of
\* RemoveOutdatedTips removes blocks while others are inserted and finalized.
KnownClosed == \A b \in known : dag.parents[b] \subseteq known

\* The numbered chain is a ledger: it changes only at its end, and a block is
\* appended after its parents, through rollbacks and coordinator reorgs.
L == INSTANCE Ledger WITH chain <- hashAt, parents <- dag.parents
LedgerSpec == L!Spec

\* The spines of the coordinator get finalized: it repeats its request, the
\* downloader delivers blocks in the end, and a call that started goes on.
Ask ==
  \E last, c \in Block :
    /\ \A s \in coord : Slot(s) <= Slot(last)
    /\ HandleFinalize(lastFin, last, c)
Fairness ==
  /\ WF_vars(Call)
  /\ SF_vars(Ask)
  /\ \A b \in Block : SF_vars(InsertBlock(b))
FairSpec == SteadySpec /\ Fairness
SpinesFinalized == \A s \in Block : s \in coord ~> nrOf[s] # NoNr

\* Once failures stop, the spines get finalized all the same.
RecoverSpec == FaultySpec /\ Fairness /\ WF_vars(Restart \/ \E h \in Block : SetHead(h))
Recovers == <>[][~StateUpdateFails /\ ~Crash]_vars => SpinesFinalized

=============================================================================
