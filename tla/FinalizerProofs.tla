-------------------------- MODULE FinalizerProofs --------------------------
(***************************************************************************)
(* Proofs about Finalizer for every set of blocks and every DAG.           *)
(***************************************************************************)
EXTENDS Finalizer, WellFoundedInduction, TLAPS

USE DEF NoNr

(***************************************************************************)
(* What spineProcessBlock collects for a spine without a number: only      *)
(* blocks without a number, and with a block all of its parents that have  *)
(* none.                                                                   *)
(***************************************************************************)
LEMMA PastWithinOpen ==
  ASSUME NEW d, WellFormed(d), NEW open \in SUBSET Block, NEW s \in open
  PROVE  /\ s \in PastWithin(d, s, open)
         /\ PastWithin(d, s, open) \subseteq open
         /\ \A b \in PastWithin(d, s, open) :
              d.parents[b] \cap open \subseteq PastWithin(d, s, open)
<1>1. s \in PastWithin(d, s, open)
  BY DEF PastWithin
<1>2. PastWithin(d, s, open) \subseteq open
  <2>1. open \in SUBSET Block /\ s \in open
        /\ \A c \in open : d.parents[c] \cap open \subseteq open
    OBVIOUS
  <2> QED BY <2>1 DEF PastWithin
<1>3. ASSUME NEW b \in PastWithin(d, s, open), NEW p \in d.parents[b] \cap open
      PROVE  p \in PastWithin(d, s, open)
  <2>1. p \in Block
    OBVIOUS
  <2>2. ASSUME NEW C \in SUBSET Block, s \in C,
               \A c \in C : d.parents[c] \cap open \subseteq C
        PROVE  p \in C
    <3>1. b \in C
      BY <2>2 DEF PastWithin
    <3> QED BY <3>1, <2>2
  <2> QED BY <2>1, <2>2 DEF PastWithin
<1> QED BY <1>1, <1>2, <1>3

\* A finished call leaves a job of the right type, and the node idle.
LEMMA NoJobType ==
  ASSUME NEW r \in {"none", "ok", "error"}
  PROVE  NoJob(r) \in JobType /\ NoJob(r).phase = "idle"
BY SMTT(30), BlockAssumption DEF NoJob, JobType, Phases

\* The result of SetSpineState is a job.
LEMMA SetSpineStateType ==
  ASSUME TypeOK, NEW j \in JobType, NEW b \in Block, NEW n \in Nat,
         NEW next \in {"idle", "finalize"}
  PROVE  SetSpineState(j, b, n, next) \in JobType
<1>1. [j EXCEPT !.phase = next] \in JobType
  BY DEF JobType, Phases
<1>2. ASSUME NEW m \in Nat
      PROVE  [j EXCEPT !.phase = "rollback", !.base = b, !.nr = m,
                       !.at = n, !.then = next] \in JobType
  BY ZenonT(30) DEF JobType, Phases
<1>3. nrOf[b] = NoNr \/ nrOf[b] \in Nat
  BY DEF TypeOK
<1> QED BY Zenon, <1>1, <1>2, <1>3, NoJobType DEF SetSpineState

\* SetLastCoordinatedCheckpoint keeps the types of what it changes.
LEMMA SetLastCoordinatedCheckpointType ==
  ASSUME TypeOK, NEW c \in Block, SetLastCoordinatedCheckpoint(c, GetTips)
  PROVE  /\ tips' \subseteq Block /\ checkpoints' \subseteq Block
         /\ lastCp' \in Block /\ doomed' \subseteq Block
<1>1. GetTips \subseteq Block
  BY DEF GetTips, TypeOK
<1>2. \A bad, good : BlocksToRm(bad, good) \subseteq Block
  BY DEF BlocksToRm, PastWithin
<1> QED BY <1>1, <1>2 DEF SetLastCoordinatedCheckpoint, TypeOK

\* writeFinalizedBlock keeps the types of what it changes.
LEMMA WriteFinalizedBlockType ==
  ASSUME TypeOK, NEW n \in Nat, NEW b \in Block, NEW h \in BOOLEAN,
         WriteFinalizedBlock(n, b, h)
  PROVE  /\ nrOf' \in [Block -> Nat \cup {NoNr}]
         /\ DOMAIN hashAt' \subseteq Nat /\ hashAt' \in [DOMAIN hashAt' -> Block]
         /\ lastFin' \in Block /\ lastFinNr' \in Nat
BY DEF WriteFinalizedBlock, TypeOK

\* rmBlockData keeps the types of what it changes.
LEMMA RmBlockDataType ==
  ASSUME TypeOK, NEW R, RmBlockData(R)
  PROVE  /\ nrOf' \in [Block -> Nat \cup {NoNr}]
         /\ DOMAIN hashAt' \subseteq Nat /\ hashAt' \in [DOMAIN hashAt' -> Block]
         /\ known' \subseteq Block
BY DEF RmBlockData, TypeOK

-----------------------------------------------------------------------------
(***************************************************************************)
(* Type correctness.                                                       *)
(***************************************************************************)

LEMMA TypeInit == Init => TypeOK
BY DagAssumption, BlockAssumption, NoJobType DEF Init, TypeOK

\* A step of the coordinator or an insertion of a block keeps the types.
LEMMA TypeNetwork ==
  ASSUME TypeOK, Network \/ \E s \in Block : Reorg(s)
  PROVE  TypeOK'
<1>1. ASSUME NEW s \in Block, Extend(s) PROVE TypeOK'
  BY <1>1 DEF Extend, TypeOK, table, cpTip
<1>2. ASSUME NEW b \in Block, InsertBlock(b) PROVE TypeOK'
  <2>1. GetTips \subseteq Block
    BY DEF GetTips, TypeOK
  <2> QED BY Zenon, <1>2, <2>1 DEF InsertBlock, TypeOK, net, table
<1>3. ASSUME NEW s \in Block, Reorg(s) PROVE TypeOK'
  BY Zenon, <1>3 DEF Reorg, TypeOK, table, cpTip
<1> QED BY <1>1, <1>2, <1>3 DEF Network

\* A request of the coordinator keeps the types, whichever branch it takes.
LEMMA TypeHandleFinalize ==
  ASSUME TypeOK, NEW base \in Block, NEW last \in Block, NEW c \in Block,
         HandleFinalize(base, last, c)
  PROVE  TypeOK'
<1> DEFINE spines == {s \in coord : Slot(base) < Slot(s) /\ Slot(s) <= Slot(last)}
<1>1. CASE job' = NoJob("error") /\ UNCHANGED cpTip
  BY ZenonT(30), <1>1, NoJobType DEF HandleFinalize, TypeOK, net, table, cpTip
<1>2. CASE SetLastCoordinatedCheckpoint(c, GetTips) /\ job' = NoJob("ok")
  BY ZenonT(30), <1>2, NoJobType, SetLastCoordinatedCheckpointType
     DEF HandleFinalize, TypeOK, net, table
<1>3. ASSUME NEW b \in Block,
             job' = [NoJob("none") EXCEPT !.phase = "sync", !.base = b,
                        !.spines = ForwardSpines(base, spines), !.ok = b, !.cp = c],
             UNCHANGED cpTip
      PROVE  TypeOK'
  <2>1. ForwardSpines(base, spines) \subseteq Block
    BY SMTT(30) DEF ForwardSpines, TypeOK
  <2>2. job' \in JobType
    BY Zenon, <1>3, <2>1, NoJobType DEF JobType, Phases
  <2> QED BY Zenon, <1>3, <2>2 DEF HandleFinalize, TypeOK, net, table, cpTip
<1> QED BY Zenon, <1>1, <1>2, <1>3 DEF HandleFinalize

\* Every step of the call in progress keeps the types.
LEMMA TypeCall ==
  ASSUME TypeOK, Call
  PROVE  TypeOK'
<1> job \in JobType
  BY DEF TypeOK
<1>1. CASE SyncFails
  BY <1>1, NoJobType DEF SyncFails, TypeOK, net, table, cpTip
<1>2. CASE StartFinalize
  <2>1. job' \in JobType
    BY Zenon, <1>2, SetSpineStateType DEF StartFinalize, TypeOK, JobType
  <2> QED BY Zenon, <1>2, <2>1 DEF StartFinalize, TypeOK, net, table, cpTip
<1>3. CASE RollbackBlock
  <2>1. job' \in JobType
    BY <1>3 DEF RollbackBlock, JobType
  <2>2. /\ nrOf' \in [Block -> Nat \cup {NoNr}]
        /\ DOMAIN hashAt' \subseteq Nat /\ hashAt' \in [DOMAIN hashAt' -> Block]
    BY <1>3 DEF RollbackBlock, TypeOK
  <2> QED BY Zenon, <1>3, <2>1, <2>2 DEF RollbackBlock, TypeOK, net, cpTip
<1>4. CASE RollbackHead
  <2>1. job' \in JobType
    BY <1>4, NoJobType DEF RollbackHead, JobType, Phases
  <2>2. job.nr \in Nat /\ job.base \in Block
    BY DEF JobType
  <2>3. /\ tips' \subseteq Block /\ checkpoints' \subseteq Block
        /\ lastCp' \in Block /\ doomed' \subseteq Block
    BY Zenon, <1>4, SetLastCoordinatedCheckpointType DEF RollbackHead, TypeOK, cpTip
  <2> QED BY Zenon, <1>4, <2>1, <2>2, <2>3, WriteFinalizedBlockType DEF RollbackHead, TypeOK, net
<1>5. CASE StartSpine
  <2>1. PICK s \in job.spines :
          job' = IF nrOf[s] # NoNr THEN [job EXCEPT !.spines = @ \ {s}]
                 ELSE IF \E b \in SpineGetDagChain(s) : ~(dag.parents[b] \subseteq known)
                 THEN NoJob("error")
                 ELSE [job EXCEPT !.phase = "blocks", !.spines = @ \ {s},
                                  !.spine = s, !.nr = lastFinNr,
                                  !.pending = SpineGetDagChain(s)]
    BY Zenon, <1>5 DEF StartSpine
  <2>2. SpineGetDagChain(s) \subseteq Block
    BY DEF SpineGetDagChain, PastWithin
  <2>3. job' \in JobType
    <3>1. s \in Block /\ lastFinNr \in Nat
      BY DEF TypeOK, JobType
    <3>2. [job EXCEPT !.spines = @ \ {s}] \in JobType
      BY DEF JobType
    <3>3. [job EXCEPT !.phase = "blocks", !.spines = @ \ {s}, !.spine = s,
                      !.nr = lastFinNr, !.pending = SpineGetDagChain(s)] \in JobType
      BY Zenon, <2>2, <3>1 DEF JobType, Phases
    <3> QED BY <2>1, <3>2, <3>3, NoJobType
  <2> QED BY <1>5, <2>3 DEF StartSpine, TypeOK, net, table, cpTip
<1>6. CASE FinalizeBlock
  <2> DEFINE n == job.nr + 1
  <2>1. n \in Nat /\ job.ok \in Block
    BY DEF JobType
  <2>2. CASE job' = SetSpineState(job, job.ok, n, "idle") /\ UNCHANGED table
    <3>1. job' \in JobType
      BY <2>1, <2>2, SetSpineStateType
    <3> QED BY Zenon, <1>6, <2>2, <3>1 DEF FinalizeBlock, TypeOK, net, table, cpTip
  <2>3. ASSUME NEW b \in job.pending, WriteFinalizedBlock(n, b, job.pending = {b}),
               job' = [job EXCEPT !.nr = n, !.pending = @ \ {b},
                         !.phase = IF job.pending = {b} THEN "tips" ELSE "blocks"]
        PROVE  TypeOK'
    <3>1. b \in Block
      BY DEF JobType
    <3>2. job' \in JobType
      BY Zenon, <2>1, <2>3, <3>1 DEF JobType, Phases
    <3>3. (job.pending = {b}) \in BOOLEAN
      OBVIOUS
    <3> QED BY Zenon, <1>6, <2>1, <2>3, <3>1, <3>2, <3>3, WriteFinalizedBlockType
            DEF FinalizeBlock, TypeOK, net, cpTip
  <2> QED BY Zenon, <1>6, <2>2, <2>3 DEF FinalizeBlock
<1>7. CASE UpdateTips
  <2>1. FinalizeTips \subseteq Block
    BY DEF FinalizeTips, GetTips, TypeOK
  <2>2. \/ job' = [job EXCEPT !.phase = "finalize", !.ok = job.spine]
        \/ job' = NoJob("error")
    BY <1>7 DEF UpdateTips
  <2>3. [job EXCEPT !.phase = "finalize", !.ok = job.spine] \in JobType
    BY Zenon DEF JobType, Phases
  <2>4. job' \in JobType
    BY <2>2, <2>3, NoJobType
  <2> QED BY <1>7, <2>1, <2>4 DEF UpdateTips, TypeOK, net, table
<1>8. CASE EndFinalize
  <2>1. job.cp \in Block
    BY DEF JobType
  <2> QED BY Zenon, <1>8, <2>1, NoJobType, SetLastCoordinatedCheckpointType
          DEF EndFinalize, TypeOK, net, table
<1> QED BY Zenon, <1>1, <1>2, <1>3, <1>4, <1>5, <1>6, <1>7, <1>8 DEF Call

\* A failed call, a stop, a restart, and a removal of blocks keep the types.
LEMMA TypeFailure ==
  ASSUME TypeOK, Failure \/ \E h \in Block : RmOutdated(h)
  PROVE  TypeOK'
<1>1. CASE StateUpdateFails
  BY Zenon, <1>1, NoJobType DEF StateUpdateFails, TypeOK, net, table, cpTip
<1>2. CASE Crash
  <2>1. job' \in JobType
    BY <1>2, NoJobType DEF Crash, JobType, Phases
  <2> QED BY <1>2, <2>1 DEF Crash, TypeOK, net, table
<1>3. CASE Restart
  <2>1. nrOf[lastFin] \in Nat /\ lastCp \in Block
    BY Zenon, <1>3 DEF Restart, TypeOK
  <2>2. job' \in JobType
    BY <1>3, <2>1, NoJobType, SetSpineStateType DEF Restart
  <2> QED BY <1>3, <2>1, <2>2 DEF Restart, TypeOK, net, cpTip
<1>4. ASSUME NEW h \in Block, SetHead(h) PROVE TypeOK'
  <2>1. PICK R : RmBlockData(R)
    BY <1>4 DEF SetHead
  <2>2. nrOf[h] \in Nat
    BY Zenon, <1>4 DEF SetHead, TypeOK
  <2>3. ResetTips(h) \subseteq Block
    BY DEF ResetTips
  <2>4. lastCp' \in Block
    BY <1>4 DEF SetHead
  <2> QED BY Zenon, <1>4, <2>1, <2>2, <2>3, <2>4, NoJobType, RmBlockDataType
          DEF SetHead, TypeOK, net
<1>5. ASSUME NEW h \in Block, RmOutdated(h) PROVE TypeOK'
  <2>1. RmBlockData(Descendants({h}))
    BY <1>5 DEF RmOutdated
  <2> QED BY <1>5, <2>1, RmBlockDataType DEF RmOutdated, TypeOK, net
<1> QED BY <1>1, <1>2, <1>3, <1>4, <1>5 DEF Failure

\* Every variable keeps its type, whatever the coordinator asks, whichever call
\* fails, whenever the node stops or the pruning goroutine runs.
THEOREM TypeCorrect == TotalSpec => []TypeOK
<1>1. Init => TypeOK
  BY TypeInit
<1>2. TypeOK /\ [TotalNext]_vars => TypeOK'
  <2> SUFFICES ASSUME TypeOK, [TotalNext]_vars PROVE TypeOK'
    OBVIOUS
  <2>1. CASE UNCHANGED vars
    BY <2>1 DEF vars, net, table, cpTip, TypeOK
  <2>2. CASE TotalNext
    BY <2>2, TypeNetwork, TypeHandleFinalize, TypeCall, TypeFailure
       DEF TotalNext, Next, ReplayNext
  <2> QED BY <2>1, <2>2
<1> QED BY <1>1, <1>2, PTL DEF TotalSpec

-----------------------------------------------------------------------------
(***************************************************************************)
(* The tables of finalized numbers.  TablesInverse is not inductive alone: *)
(* a write is harmless because the block it numbers has no number, or has  *)
(* that number already.  TablesInv says so.                                *)
(***************************************************************************)

\* Giving the free number n to b keeps the tables inverse if b has no number
\* or n already.
LEMMA WriteKeepsInverse ==
  ASSUME TypeOK, TablesInverse, NEW n \in Nat, NEW b \in Block, NEW h,
         n \in DOMAIN hashAt => hashAt[n] = b,
         nrOf[b] # NoNr => nrOf[b] = n,
         WriteFinalizedBlock(n, b, h)
  PROVE  TablesInverse'
<1> USE DEF TablesInverse, TypeOK, WriteFinalizedBlock
<1>1. ASSUME NEW m \in DOMAIN hashAt' PROVE nrOf'[hashAt'[m]] = m
  BY <1>1
<1>2. ASSUME NEW c \in Block, nrOf'[c] # NoNr
      PROVE  nrOf'[c] \in DOMAIN hashAt' /\ hashAt'[nrOf'[c]] = c
  BY <1>2
<1> QED BY Zenon, <1>1, <1>2

\* Removing blocks from both tables keeps them inverse.
LEMMA RmKeepsInverse ==
  ASSUME TypeOK, TablesInverse, NEW R, RmBlockData(R)
  PROVE  TablesInverse'
<1> USE DEF TablesInverse, TypeOK, RmBlockData
<1>1. ASSUME NEW m \in DOMAIN hashAt' PROVE nrOf'[hashAt'[m]] = m
  BY Zenon, <1>1
<1>2. ASSUME NEW c \in Block, nrOf'[c] # NoNr
      PROVE  nrOf'[c] \in DOMAIN hashAt' /\ hashAt'[nrOf'[c]] = c
  BY <1>2
<1> QED BY <1>1, <1>2

\* A job that SetSpineState starts satisfies what TablesInv says of jobs.
LEMMA SetSpineStateInv ==
  ASSUME TypeOK, TablesInverse, NEW j \in JobType, NEW b \in Block, NEW n \in Nat,
         NEW next \in {"idle", "finalize"}, UNCHANGED <<nrOf, hashAt>>,
         job' = SetSpineState(j, b, n, next)
  PROVE  /\ job'.phase # "blocks"
         /\ job'.phase = "rollback" =>
              /\ job'.nr \in DOMAIN hashAt' => hashAt'[job'.nr] = job'.base
              /\ nrOf'[job'.base] # NoNr => nrOf'[job'.base] = job'.nr
<1>1. CASE nrOf[b] = NoNr
  BY <1>1, NoJobType DEF SetSpineState
<1>2. CASE nrOf[b] # NoNr /\ b = lastFin /\ nrOf[b] >= n
  BY <1>2 DEF SetSpineState, JobType
<1>3. CASE nrOf[b] # NoNr /\ ~(b = lastFin /\ nrOf[b] >= n)
  <2>1. job'.phase = "rollback" /\ job'.nr = nrOf[b] /\ job'.base = b
    BY <1>3 DEF SetSpineState, JobType
  <2> QED BY <1>3, <2>1 DEF TablesInverse
<1> QED BY Zenon, <1>1, <1>2, <1>3

\* TablesInv holds at the start: the genesis block has number 0.
LEMMA TablesInit == Init => TablesInv
<1> SUFFICES ASSUME Init PROVE TablesInv
  OBVIOUS
<1>1. TypeOK
  BY TypeInit
<1>2. TablesInverse
  BY BlockAssumption DEF Init, TablesInverse
<1>3. job.phase = "idle"
  BY NoJobType DEF Init
<1> QED BY <1>1, <1>2, <1>3 DEF TablesInv

\* A step that leaves the tables alone and ends outside a rollback and outside
\* the numbering of a chain keeps TablesInv.
LEMMA TablesQuiet ==
  ASSUME TablesInv, TypeOK', UNCHANGED <<nrOf, hashAt>>,
         job' = job \/ job'.phase \notin {"blocks", "rollback"}
  PROVE  TablesInv'
BY DEF TablesInv, TablesInverse

\* Every step of the call in progress keeps TablesInv: RollbackBlock deletes from
\* both tables, FinalizeBlock numbers a block of the chain, which has none.
LEMMA TablesCall ==
  ASSUME TablesInv, TypeOK', Call
  PROVE  TablesInv'
<1> TypeOK /\ TablesInverse /\ job \in JobType
  BY Zenon DEF TablesInv, TypeOK
<1>1. CASE SyncFails \/ UpdateTips \/ EndFinalize
  <2>1. job'.phase \notin {"blocks", "rollback"}
    BY ZenonT(60), <1>1, NoJobType DEF SyncFails, UpdateTips, EndFinalize, JobType
  <2>2. UNCHANGED <<nrOf, hashAt>>
    BY <1>1 DEF SyncFails, UpdateTips, EndFinalize, table
  <2> QED BY <2>1, <2>2, TablesQuiet
<1>2. CASE StartFinalize
  <2>1. UNCHANGED <<nrOf, hashAt>> /\ job' = SetSpineState(job, job.base, lastFinNr, "finalize")
    BY <1>2 DEF StartFinalize, table
  <2>2. job.base \in Block /\ lastFinNr \in Nat
    BY DEF JobType, TypeOK
  <2>3. TablesInverse'
    BY <2>1 DEF TablesInverse
  <2> QED BY Zenon, <2>1, <2>2, <2>3, SetSpineStateInv DEF TablesInv
<1>3. CASE RollbackBlock
  <2>1. /\ job'.phase = "rollback" /\ job'.nr = job.nr /\ job'.base = job.base
        /\ job.phase = "rollback" /\ job.at > job.nr /\ job.base \in Block
        /\ job.at \in Nat /\ job.nr \in Nat
    BY <1>3 DEF RollbackBlock, JobType
  <2>2. CASE job.at \in DOMAIN hashAt
    <3>1. /\ nrOf' = [nrOf EXCEPT ![hashAt[job.at]] = NoNr]
          /\ hashAt' = [n \in DOMAIN hashAt \ {job.at} |-> hashAt[n]]
      BY <1>3, <2>2 DEF RollbackBlock
    <3>2. nrOf[hashAt[job.at]] = job.at
      BY <2>2 DEF TablesInverse
    <3>3. TablesInverse'
      BY <3>1, <3>2 DEF TablesInverse, TypeOK
    <3>4. job.nr \in DOMAIN hashAt' => hashAt'[job.nr] = job.base
      BY <2>1, <3>1 DEF TablesInv
    <3>5. nrOf'[job.base] # NoNr => nrOf'[job.base] = job.nr
      BY <2>1, <3>1 DEF TablesInv, TypeOK
    <3> QED BY <2>1, <3>3, <3>4, <3>5 DEF TablesInv
  <2>3. CASE job.at \notin DOMAIN hashAt
    BY <1>3, <2>1, <2>3 DEF RollbackBlock, TablesInv, TablesInverse
  <2> QED BY <2>2, <2>3
<1>4. CASE RollbackHead
  <2>1. job'.phase \notin {"blocks", "rollback"}
    BY <1>4, NoJobType DEF RollbackHead, JobType
  <2>2. job.nr \in Nat /\ job.base \in Block
    BY DEF JobType
  <2>3. WriteFinalizedBlock(job.nr, job.base, TRUE) /\ job.phase = "rollback"
    BY Zenon, <1>4 DEF RollbackHead
  <2>4. TablesInverse'
    BY Zenon, <2>2, <2>3, WriteKeepsInverse DEF TablesInv
  <2> QED BY <2>1, <2>4 DEF TablesInv
<1>5. CASE StartSpine
  <2>1. UNCHANGED <<nrOf, hashAt>>
    BY <1>5 DEF StartSpine, table
  <2>2. TablesInverse'
    BY <2>1 DEF TablesInverse
  <2>3. PICK s \in job.spines :
          job' = IF nrOf[s] # NoNr THEN [job EXCEPT !.spines = @ \ {s}]
                 ELSE IF \E b \in SpineGetDagChain(s) : ~(dag.parents[b] \subseteq known)
                 THEN NoJob("error")
                 ELSE [job EXCEPT !.phase = "blocks", !.spines = @ \ {s},
                                  !.spine = s, !.nr = lastFinNr,
                                  !.pending = SpineGetDagChain(s)]
    BY Zenon, <1>5 DEF StartSpine
  <2>4. job.phase = "finalize" /\ s \in Block
    BY Zenon, <1>5 DEF StartSpine, JobType
  <2>5. CASE nrOf[s] # NoNr
    <3>1. job'.phase = "finalize"
      BY Zenon, <2>3, <2>4, <2>5 DEF JobType
    <3> QED BY <2>1, <3>1, TablesQuiet
  <2>6. CASE nrOf[s] = NoNr /\ \E b \in SpineGetDagChain(s) : ~(dag.parents[b] \subseteq known)
    BY Zenon, <2>1, <2>3, <2>6, NoJobType, TablesQuiet
  <2>7. CASE nrOf[s] = NoNr /\ ~\E b \in SpineGetDagChain(s) : ~(dag.parents[b] \subseteq known)
    <3>1. job'.phase = "blocks" /\ job'.pending = SpineGetDagChain(s)
      BY <2>3, <2>7 DEF JobType
    <3>2. s \in Unfinalized /\ Unfinalized \in SUBSET Block /\ WellFormed(dag)
      BY Zenon, <2>4, <2>7 DEF Unfinalized, TypeOK
    <3>3. SpineGetDagChain(s) \subseteq Unfinalized
      BY SMTT(30), <3>2, PastWithinOpen DEF SpineGetDagChain
    <3> QED BY <2>1, <2>2, <3>1, <3>3 DEF TablesInv, Unfinalized
  <2> QED BY <2>5, <2>6, <2>7
<1>6. CASE FinalizeBlock
  <2> DEFINE n == job.nr + 1
  <2>1. n \in Nat /\ job.ok \in Block /\ job.phase = "blocks"
    BY <1>6 DEF JobType, FinalizeBlock
  <2>2. CASE job' = SetSpineState(job, job.ok, n, "idle") /\ UNCHANGED table
    <3>1. TablesInverse'
      BY <2>2 DEF TablesInverse, table
    <3>2. UNCHANGED <<nrOf, hashAt>>
      BY <2>2 DEF table
    <3> HIDE DEF n
    <3> QED BY Zenon, <2>1, <2>2, <3>1, <3>2, SetSpineStateInv DEF TablesInv
  <2>3. ASSUME NEW b \in job.pending, WriteFinalizedBlock(n, b, job.pending = {b}),
               n \notin DOMAIN hashAt,
               job' = [job EXCEPT !.nr = n, !.pending = @ \ {b},
                         !.phase = IF job.pending = {b} THEN "tips" ELSE "blocks"]
        PROVE  TablesInv'
    <3>1. b \in Block /\ nrOf[b] = NoNr
      BY <2>1 DEF JobType, TablesInv
    <3>2. TablesInverse'
      BY <2>1, <2>3, <3>1, WriteKeepsInverse
    <3>3. job'.phase \in {"tips", "blocks"} /\ job'.pending = job.pending \ {b}
      BY SMTT(30), <2>3 DEF JobType
    <3>4. \A c \in job.pending \ {b} : nrOf'[c] = NoNr
      BY Zenon, <2>1, <2>3 DEF WriteFinalizedBlock, TablesInv, TypeOK, JobType
    <3> QED BY <3>2, <3>3, <3>4 DEF TablesInv
  <2> QED BY Zenon, <1>6, <2>2, <2>3 DEF FinalizeBlock
<1> QED BY <1>1, <1>2, <1>3, <1>4, <1>5, <1>6 DEF Call

\* A failed call, a stop, a restart and a removal of blocks keep TablesInv.
LEMMA TablesFailure ==
  ASSUME TablesInv, TypeOK', Failure \/ \E h \in Block : RmOutdated(h)
  PROVE  TablesInv'
<1> TypeOK /\ TablesInverse /\ job \in JobType
  BY DEF TablesInv, TypeOK
<1>1. CASE StateUpdateFails \/ Crash
  <2>1. job'.phase \notin {"blocks", "rollback"}
    BY Zenon, <1>1, NoJobType DEF StateUpdateFails, Crash, JobType
  <2>2. UNCHANGED <<nrOf, hashAt>>
    BY <1>1 DEF StateUpdateFails, Crash, table
  <2> QED BY <2>1, <2>2, TablesQuiet
<1>2. CASE Restart
  <2>1. /\ UNCHANGED <<nrOf, hashAt>>
        /\ job' = SetSpineState(NoJob("none"), lastCp, nrOf[lastFin], "idle")
    BY <1>2 DEF Restart
  <2>2. lastCp \in Block /\ nrOf[lastFin] \in Nat
    BY <1>2 DEF Restart, TypeOK
  <2>3. TablesInverse'
    BY <2>1 DEF TablesInverse
  <2> QED BY Zenon, <2>1, <2>2, <2>3, NoJobType, SetSpineStateInv DEF TablesInv
<1>3. ASSUME NEW h \in Block, SetHead(h) PROVE TablesInv'
  <2>1. PICK R : RmBlockData(R)
    BY <1>3 DEF SetHead
  <2>2. job'.phase = "idle"
    BY Zenon, <1>3, NoJobType DEF SetHead
  <2> QED BY Zenon, <2>1, <2>2, RmKeepsInverse DEF TablesInv
<1>4. ASSUME NEW h \in Block, RmOutdated(h) PROVE TablesInv'
  <2>1. RmBlockData(Descendants({h})) /\ job' = job
    BY <1>4 DEF RmOutdated
  <2>2. TablesInverse'
    BY <2>1, RmKeepsInverse
  <2>3. \A b \in Block : nrOf'[b] # NoNr => nrOf'[b] = nrOf[b]
    BY <2>1 DEF RmBlockData
  <2>4. \A n \in DOMAIN hashAt' : n \in DOMAIN hashAt /\ hashAt'[n] = hashAt[n]
    BY <2>1 DEF RmBlockData
  <2>5. job.pending \subseteq Block /\ job.base \in Block
    BY DEF JobType
  <2> QED BY Zenon, <2>1, <2>2, <2>3, <2>4, <2>5 DEF TablesInv
<1> QED BY <1>1, <1>2, <1>3, <1>4 DEF Failure

\* The start of a call and the steps outside calls keep TablesInv.
LEMMA TablesRest ==
  ASSUME TablesInv, TypeOK',
         \/ Network
         \/ \E s \in Block : Reorg(s)
         \/ \E base, last, c \in Block : HandleFinalize(base, last, c)
         \/ UNCHANGED vars
  PROVE  TablesInv'
<1>1. CASE Network \/ (\E s \in Block : Reorg(s)) \/ UNCHANGED vars
  <2>1. UNCHANGED <<nrOf, hashAt>> /\ job' = job
    BY <1>1 DEF Network, Extend, InsertBlock, Reorg, vars, table
  <2> QED BY <2>1, TablesQuiet
<1>2. ASSUME NEW base \in Block, NEW last \in Block, NEW c \in Block,
             HandleFinalize(base, last, c)
      PROVE  TablesInv'
  <2>1. UNCHANGED <<nrOf, hashAt>>
    BY ZenonT(30), <1>2 DEF HandleFinalize, table
  <2>2. job'.phase \in {"idle", "sync"}
    BY Zenon, <1>2, NoJobType DEF HandleFinalize, JobType
  <2> QED BY Zenon, <2>1, <2>2, TablesQuiet
<1> QED BY Zenon, <1>1, <1>2

\* The hash -> number and number -> hash tables stay inverse of each other
\* under every call, failure, crash, restart and removal.
THEOREM TablesCorrect == TotalSpec => []TablesInverse
<1>1. Init => TablesInv
  BY TablesInit
<1>2. TypeOK' /\ TablesInv /\ [TotalNext]_vars => TablesInv'
  BY Zenon, TablesCall, TablesFailure, TablesRest DEF TotalNext, Next, ReplayNext
<1>3. TablesInv => TablesInverse
  BY DEF TablesInv
<1> QED BY <1>1, <1>2, <1>3, TypeCorrect, PTL DEF TotalSpec

-----------------------------------------------------------------------------
(***************************************************************************)
(* The stored blocks.  Nobody takes a lock for the goroutine of            *)
(* RemoveOutdatedTips, but a block goes only together with everything      *)
(* built on it, so it never leaves a stored block without a parent.        *)
(***************************************************************************)

\* The blocks that rmBlockData removes with H include their children.
LEMMA DescendantsClosed ==
  ASSUME WellFormed(dag), NEW H, NEW b \in Block, NEW p \in dag.parents[b],
         p \in Descendants(H)
  PROVE  b \in Descendants(H)
<1>1. dag.past[p] \subseteq dag.past[b]
  BY DEF WellFormed
<1> QED BY <1>1 DEF Descendants

\* A removal that takes the children of what it takes keeps the rest closed.
LEMMA RmKeepsClosed ==
  ASSUME TypeOK, KnownClosed, NEW R, RmBlockData(R), dag' = dag,
         \A b \in Block : \A p \in dag.parents[b] : p \in R => b \in R
  PROVE  KnownClosed'
BY DEF TypeOK, KnownClosed, RmBlockData

\* Both ways to remove blocks keep the stored blocks closed under parents.
LEMMA ClosedRemoval ==
  ASSUME TypeOK, KnownClosed, NEW h \in Block, RmOutdated(h) \/ SetHead(h)
  PROVE  KnownClosed'
<1> WellFormed(dag)
  BY DEF TypeOK
<1>1. CASE RmOutdated(h)
  <2>1. RmBlockData(Descendants({h})) /\ dag' = dag
    BY <1>1 DEF RmOutdated, net
  <2>2. \A b \in Block : \A p \in dag.parents[b] :
          p \in Descendants({h}) => b \in Descendants({h})
    BY DescendantsClosed
  <2> HIDE DEF Descendants
  <2> QED BY Zenon, <2>1, <2>2, RmKeepsClosed
<1>2. CASE SetHead(h)
  <2>1. PICK G, H : RmBlockData(Descendants(G) \cup Descendants(H))
    BY Zenon, <1>2 DEF SetHead
  <2>2. dag' = dag
    BY <1>2 DEF SetHead, net
  <2> DEFINE R == Descendants(G) \cup Descendants(H)
  <2>3. \A b \in Block : \A p \in dag.parents[b] : p \in R => b \in R
    BY DescendantsClosed
  <2> HIDE DEF R
  <2> QED BY <2>1, <2>2, <2>3, RmKeepsClosed DEF R
<1> QED BY <1>1, <1>2

\* The other steps store a block whose parents are stored, or none.
LEMMA ClosedRest ==
  ASSUME TypeOK, KnownClosed,
         \/ UNCHANGED <<dag, known>>
         \/ \E b \in Block : InsertBlock(b)
  PROVE  KnownClosed'
<1>1. CASE UNCHANGED <<dag, known>>
  BY <1>1 DEF KnownClosed
<1>2. ASSUME NEW b \in Block, InsertBlock(b) PROVE KnownClosed'
  <2>1. dag' = dag /\ known' = known \cup {b} /\ dag.parents[b] \subseteq known
    BY <1>2 DEF InsertBlock, VerifyBlock, net
  <2> QED BY <2>1 DEF KnownClosed
<1> QED BY <1>1, <1>2

\* A stored block has its parents stored, whatever RemoveOutdatedTips and SetHead
\* remove while blocks are inserted and finalized and the node restarts.
THEOREM KnownClosedCorrect == TotalSpec => []KnownClosed
<1>1. Init => KnownClosed
  BY DagAssumption DEF Init, KnownClosed, WellFormed
<1>2. TypeOK /\ KnownClosed /\ [TotalNext]_vars => KnownClosed'
  <2> SUFFICES ASSUME TypeOK, KnownClosed, [TotalNext]_vars PROVE KnownClosed'
    OBVIOUS
  <2>1. CASE Call \/ StateUpdateFails \/ Crash \/ Restart \/ UNCHANGED vars
    <3>1. UNCHANGED <<dag, known>>
      BY Zenon, <2>1 DEF Call, SyncFails, StartFinalize, RollbackBlock, RollbackHead, StartSpine,
         FinalizeBlock, UpdateTips, EndFinalize, StateUpdateFails, Crash, Restart, vars, net
    <3> QED BY <3>1, ClosedRest
  <2>2. CASE \/ \E s \in Block : Extend(s) \/ Reorg(s)
             \/ \E base, last, c \in Block : HandleFinalize(base, last, c)
    <3>1. UNCHANGED <<dag, known>>
      BY Zenon, <2>2 DEF Extend, Reorg, HandleFinalize, net
    <3> QED BY <3>1, ClosedRest
  <2>3. CASE \E b \in Block : InsertBlock(b)
    BY <2>3, ClosedRest
  <2>4. CASE \E h \in Block : RmOutdated(h) \/ SetHead(h)
    BY <2>4, ClosedRemoval
  <2> QED
    BY <2>1, <2>2, <2>3, <2>4 DEF TotalNext, Next, ReplayNext, Network, Failure
<1> QED BY <1>1, <1>2, TypeCorrect, PTL DEF TotalSpec

-----------------------------------------------------------------------------
(***************************************************************************)
(* While no call fails and no finalized block is pruned, finalization      *)
(* implements Ledger.                                                      *)
(***************************************************************************)

USE DEF NoNr

\* Every call, and a step of the coordinator, is a step of TotalNext, so that
\* what is proved of TotalSpec holds of Spec.
LEMMA TablesInvariant == Spec => [](TypeOK /\ TablesInv)
<1>1. Init => TypeOK /\ TablesInv
  BY TypeInit, TablesInit
<1>2. TablesInv /\ [Next]_vars => TypeOK' /\ TablesInv'
  <2> SUFFICES ASSUME TablesInv, [Next]_vars PROVE TypeOK' /\ TablesInv'
    OBVIOUS
  <2>1. TypeOK
    BY DEF TablesInv
  <2>2. TypeOK'
    <3>1. CASE UNCHANGED vars
      BY <2>1, <3>1 DEF TypeOK, vars, net, table, cpTip
    <3> QED BY <2>1, <3>1, TypeNetwork, TypeHandleFinalize, TypeCall DEF Next, ReplayNext
  <2> QED BY <2>2, TablesCall, TablesRest DEF Next, ReplayNext
<1> QED BY <1>1, <1>2, PTL DEF Spec

\* The initial chain is the genesis block.
LEMMA ChainInit == Init => ChainInv
<1> SUFFICES ASSUME Init PROVE ChainInv
  OBVIOUS
<1>1. TablesInv /\ TypeOK
  BY TablesInit, TypeInit
<1>2. job.phase = "idle"
  BY NoJobType DEF Init
<1>3. DOMAIN hashAt = 0..LastNr
  BY <1>2 DEF Init, LastNr
<1>4. ParentsFirst
  BY Zenon, <1>1 DEF Init, ParentsFirst, TypeOK, WellFormed
<1>5. nrOf[lastFin] = lastFinNr
  BY BlockAssumption DEF Init
<1> QED BY <1>1, <1>2, <1>3, <1>4, <1>5 DEF ChainInv

\* A step between two phases in which the head is the end of the chain, and
\* which leaves the tables alone, keeps ChainInv.
LEMMA ChainQuiet ==
  ASSUME ChainInv, TablesInv', UNCHANGED <<dag, table>>,
         \/ job' = job
         \/ /\ job.phase \notin {"blocks", "rollback"}
            /\ job'.phase \notin {"blocks", "rollback", "down"}
  PROVE  ChainInv'
<1>1. CASE job' = job
  BY <1>1 DEF ChainInv, ParentsFirst, LastNr, table
<1>2. CASE job.phase \notin {"blocks", "rollback"}
           /\ job'.phase \notin {"blocks", "rollback", "down"}
  BY <1>2 DEF ChainInv, ParentsFirst, LastNr, table
<1> QED BY <1>1, <1>2

\* A rollback starts with the last number of the chain.
LEMMA ChainStartFinalize ==
  ASSUME ChainInv, TablesInv', StartFinalize
  PROVE  ChainInv'
<1>1. /\ UNCHANGED <<dag, table>> /\ job.phase = "sync"
      /\ job' = SetSpineState(job, job.base, lastFinNr, "finalize")
  BY DEF StartFinalize, net
<1>2. job \in JobType /\ job.base \in Block /\ lastFinNr \in Nat
  BY Zenon DEF ChainInv, TablesInv, TypeOK, JobType
<1>3. CASE nrOf[job.base] = NoNr
  <2>1. job'.phase = "idle"
    BY <1>1, <1>3, NoJobType DEF SetSpineState
  <2> QED BY <1>1, <2>1, ChainQuiet
<1>4. CASE nrOf[job.base] # NoNr /\ job.base = lastFin /\ nrOf[job.base] >= lastFinNr
  <2>1. job'.phase = "finalize"
    BY <1>1, <1>2, <1>4 DEF SetSpineState, JobType
  <2> QED BY <1>1, <2>1, ChainQuiet
<1>5. CASE nrOf[job.base] # NoNr /\ ~(job.base = lastFin /\ nrOf[job.base] >= lastFinNr)
  <2>1. /\ job'.phase = "rollback" /\ job'.base = job.base
        /\ job'.nr = nrOf[job.base] /\ job'.at = lastFinNr
    BY <1>1, <1>2, <1>5 DEF SetSpineState, JobType
  <2>2. DOMAIN hashAt = 0..lastFinNr
    BY <1>1 DEF ChainInv, LastNr
  <2>3. nrOf[job.base] <= lastFinNr
    <3>1. TablesInverse
      BY DEF ChainInv, TablesInv
    <3>2. nrOf[job.base] \in 0..lastFinNr
      BY <1>2, <1>5, <2>2, <3>1 DEF TablesInverse
    <3> QED BY <1>2, <3>2
  <2>4. DOMAIN hashAt' = 0..LastNr'
    BY <1>1, <2>1, <2>2 DEF LastNr, table
  <2>5. ParentsFirst'
    BY <1>1 DEF ChainInv, ParentsFirst, table
  <2> QED BY Zenon, <1>1, <2>1, <2>3, <2>4, <2>5 DEF ChainInv, table
<1> QED BY <1>3, <1>4, <1>5

\* RollbackBlock drops the last block of the chain, on which none is built.
LEMMA ChainRollbackBlock ==
  ASSUME ChainInv, TablesInv', RollbackBlock
  PROVE  ChainInv' /\ L!DropLast
<1>1. /\ job.phase = "rollback" /\ job.at > job.nr /\ UNCHANGED dag
      /\ job' = [job EXCEPT !.at = @ - 1]
  BY DEF RollbackBlock, net
<1>2. TypeOK /\ TablesInverse /\ job \in JobType
  BY Zenon DEF ChainInv, TablesInv, TypeOK
<1>3. job.at \in Nat /\ job.nr \in Nat /\ job.base \in Block
  BY <1>2 DEF JobType
<1>4. DOMAIN hashAt = 0..job.at
  BY <1>1 DEF ChainInv, LastNr
<1>5. /\ nrOf' = [nrOf EXCEPT ![hashAt[job.at]] = NoNr]
      /\ hashAt' = [n \in DOMAIN hashAt \ {job.at} |-> hashAt[n]]
  BY <1>3, <1>4 DEF RollbackBlock
<1>6. /\ job'.phase = "rollback" /\ job'.at = job.at - 1
      /\ job'.nr = job.nr /\ job'.base = job.base
  BY <1>1, <1>2 DEF JobType
<1>7. DOMAIN hashAt \ {job.at} = 0..(job.at - 1)
  BY <1>3, <1>4
<1>8. hashAt[job.at] \in Block /\ nrOf[hashAt[job.at]] = job.at
  BY <1>2, <1>3, <1>4 DEF TypeOK, TablesInverse
<1>9. ParentsFirst'
  <2> SUFFICES ASSUME NEW b \in Block, nrOf'[b] # NoNr, NEW p \in dag.parents[b]
               PROVE  nrOf'[p] # NoNr /\ nrOf'[p] < nrOf'[b]
    BY <1>1 DEF ParentsFirst
  <2>1. b # hashAt[job.at] /\ nrOf'[b] = nrOf[b]
    BY <1>2, <1>5 DEF TypeOK
  <2>2. p \in Block
    BY <1>2 DEF TypeOK, WellFormed
  <2>3. nrOf[p] # NoNr /\ nrOf[p] < nrOf[b]
    BY Zenon, <2>1 DEF ChainInv, ParentsFirst
  <2>4. nrOf[b] \in 0..job.at
    BY Zenon, <1>2, <1>4, <2>1 DEF TablesInverse
  <2>5. p # hashAt[job.at]
    BY <1>3, <1>8, <2>3, <2>4
  <2> QED BY Zenon, <1>2, <1>5, <2>1, <2>2, <2>3, <2>5 DEF TypeOK
<1>10. nrOf'[job.base] = job.nr
  <2>1. nrOf[job.base] = job.nr
    BY Zenon, <1>1 DEF ChainInv
  <2> QED BY <1>1, <1>2, <1>3, <1>5, <1>8, <2>1 DEF TypeOK
<1>11. ChainInv'
  BY <1>1, <1>3, <1>5, <1>6, <1>7, <1>9, <1>10 DEF ChainInv, LastNr
<1>12. L!DropLast
  <2>1. job.at - 1 \in DOMAIN hashAt /\ DOMAIN hashAt = 0..((job.at - 1) + 1)
    BY <1>1, <1>3, <1>4
  <2>2. hashAt' = [m \in 0..(job.at - 1) |-> hashAt[m]]
    BY <1>5, <1>7
  <2> QED BY <1>1, <2>1, <2>2 DEF L!DropLast
<1> QED BY <1>11, <1>12

\* RollbackHead rewrites the number that the base has and makes it the head.
LEMMA ChainRollbackHead ==
  ASSUME ChainInv, TablesInv', RollbackHead
  PROVE  ChainInv' /\ UNCHANGED <<nrOf, hashAt, dag>>
<1>1. /\ job.phase = "rollback" /\ job.at <= job.nr /\ UNCHANGED dag
      /\ WriteFinalizedBlock(job.nr, job.base, TRUE)
  BY Zenon DEF RollbackHead, net
<1>2. TypeOK /\ TablesInverse /\ job \in JobType
  BY Zenon DEF ChainInv, TablesInv, TypeOK
<1>3. job.at \in Nat /\ job.nr \in Nat /\ job.base \in Block
  BY <1>2 DEF JobType
<1>4. job.at = job.nr /\ nrOf[job.base] = job.nr /\ DOMAIN hashAt = 0..job.nr
  BY <1>1, <1>3 DEF ChainInv, LastNr
<1>5. job.nr \in DOMAIN hashAt /\ hashAt[job.nr] = job.base
  BY <1>2, <1>3, <1>4 DEF TablesInverse
<1>6. nrOf' = nrOf
  BY Zenon, <1>1, <1>2, <1>3, <1>4 DEF WriteFinalizedBlock, TypeOK
<1>7. hashAt' = hashAt
  <2>1. hashAt' = [m \in DOMAIN hashAt |-> hashAt[m]]
    BY <1>1, <1>5 DEF WriteFinalizedBlock
  <2> QED BY <1>2, <2>1 DEF TypeOK
<1>8. lastFin' = job.base /\ lastFinNr' = job.nr
  BY <1>1 DEF WriteFinalizedBlock
<1>9. job'.phase \in {"idle", "finalize"}
  BY <1>2, NoJobType DEF RollbackHead, JobType
<1>10. ParentsFirst'
  BY <1>1, <1>6 DEF ChainInv, ParentsFirst
<1>11. LastNr' = lastFinNr'
  BY <1>9 DEF LastNr
<1> QED BY Zenon, <1>1, <1>4, <1>6, <1>7, <1>8, <1>9, <1>10, <1>11 DEF ChainInv

\* The chain of a spine holds, with a block, its parents without a number.
LEMMA ChainStartSpine ==
  ASSUME ChainInv, TablesInv', StartSpine
  PROVE  ChainInv'
<1>1. UNCHANGED <<dag, table>> /\ job.phase = "finalize"
  BY DEF StartSpine, net
<1>2. TypeOK /\ job \in JobType
  BY Zenon DEF ChainInv, TablesInv, TypeOK
<1>3. PICK s \in job.spines :
        job' = IF nrOf[s] # NoNr THEN [job EXCEPT !.spines = @ \ {s}]
               ELSE IF \E b \in SpineGetDagChain(s) : ~(dag.parents[b] \subseteq known)
               THEN NoJob("error")
               ELSE [job EXCEPT !.phase = "blocks", !.spines = @ \ {s},
                                !.spine = s, !.nr = lastFinNr,
                                !.pending = SpineGetDagChain(s)]
  BY Zenon DEF StartSpine
<1>4. CASE nrOf[s] # NoNr
  <2>1. job'.phase = "finalize"
    BY <1>1, <1>2, <1>3, <1>4 DEF JobType
  <2> QED BY <1>1, <2>1, ChainQuiet
<1>5. CASE nrOf[s] = NoNr /\ \E b \in SpineGetDagChain(s) : ~(dag.parents[b] \subseteq known)
  <2>1. job'.phase = "idle"
    BY <1>3, <1>5, NoJobType
  <2> QED BY <1>1, <2>1, ChainQuiet
<1>6. CASE nrOf[s] = NoNr /\ ~\E b \in SpineGetDagChain(s) : ~(dag.parents[b] \subseteq known)
  <2>1. job'.phase = "blocks" /\ job'.nr = lastFinNr /\ job'.pending = SpineGetDagChain(s)
    BY <1>2, <1>3, <1>6 DEF JobType
  <2>2. s \in Unfinalized /\ Unfinalized \in SUBSET Block /\ WellFormed(dag)
    BY Zenon, <1>2, <1>6 DEF Unfinalized, TypeOK, JobType
  <2>3. ASSUME NEW b \in SpineGetDagChain(s), NEW p \in dag.parents[b]
        PROVE  nrOf[p] # NoNr \/ p \in SpineGetDagChain(s)
    <3>1. b \in Block
      BY DEF SpineGetDagChain, PastWithin
    <3>2. p \in Block
      BY <2>2, <3>1 DEF WellFormed
    <3> QED BY <2>2, <3>2, PastWithinOpen DEF SpineGetDagChain, Unfinalized
  <2>4. DOMAIN hashAt' = 0..LastNr'
    BY <1>1, <2>1 DEF ChainInv, LastNr, table
  <2>5. ParentsFirst'
    BY <1>1 DEF ChainInv, ParentsFirst, table
  <2> QED BY <1>1, <2>1, <2>3, <2>4, <2>5 DEF ChainInv, table
<1> QED BY <1>4, <1>5, <1>6

\* The first block of a chain is appended: its parents, in earlier slots, have
\* their numbers.  ErrFinNrrUsed does not happen.
LEMMA ChainFinalizeBlock ==
  ASSUME ChainInv, TablesInv', FinalizeBlock
  PROVE  ChainInv' /\ L!Append
<1> DEFINE n == job.nr + 1
<1>1. job.phase = "blocks" /\ UNCHANGED dag
  BY DEF FinalizeBlock, net
<1>2. TypeOK /\ TablesInverse /\ job \in JobType
  BY DEF ChainInv, TablesInv, TypeOK
<1>3. job.nr \in Nat /\ n \in Nat /\ job.pending \subseteq Block
  BY <1>2 DEF JobType
<1>4. DOMAIN hashAt = 0..job.nr /\ n \notin DOMAIN hashAt
  BY SMTT(30), <1>1, <1>3 DEF ChainInv, LastNr
<1>5. PICK b \in job.pending :
        /\ IsFirst(dag, b, job.pending)
        /\ WriteFinalizedBlock(n, b, job.pending = {b})
        /\ job' = [job EXCEPT !.nr = n, !.pending = @ \ {b},
                     !.phase = IF job.pending = {b} THEN "tips" ELSE "blocks"]
  BY Zenon, <1>4 DEF FinalizeBlock
<1>6. b \in Block /\ nrOf[b] = NoNr
  BY <1>1, <1>3 DEF ChainInv, TablesInv
<1>7. nrOf' = [nrOf EXCEPT ![b] = n]
  BY <1>5 DEF WriteFinalizedBlock
<1>8. ASSUME NEW p \in dag.parents[b]
      PROVE  p \in Block /\ nrOf[p] # NoNr /\ nrOf[p] \in 0..job.nr
  <2>1. p \in Block /\ dag.slot[p] < dag.slot[b]
        /\ dag.slot[p] \in Nat /\ dag.slot[b] \in Nat
    BY Zenon, <1>2, <1>6 DEF TypeOK, WellFormed
  <2>2. p \notin job.pending
    BY <1>5, <2>1 DEF IsFirst, Before
  <2>3. nrOf[p] # NoNr
    BY <1>1, <2>2 DEF ChainInv
  <2> QED BY Zenon, <1>2, <1>4, <2>1, <2>3 DEF TablesInverse
<1>9. ParentsFirst'
  <2> SUFFICES ASSUME NEW c \in Block, nrOf'[c] # NoNr, NEW p \in dag.parents[c]
               PROVE  nrOf'[p] # NoNr /\ nrOf'[p] < nrOf'[c]
    BY <1>1 DEF ParentsFirst
  <2>1. CASE c = b
    <3>1. p # b
      BY <1>6, <1>8, <2>1
    <3> QED BY <1>2, <1>3, <1>6, <1>7, <1>8, <2>1, <3>1 DEF TypeOK
  <2>2. CASE c # b
    <3>1. nrOf'[c] = nrOf[c]
      BY Zenon, <1>2, <1>7, <2>2 DEF TypeOK
    <3>2. nrOf[p] # NoNr /\ nrOf[p] < nrOf[c]
      BY <3>1 DEF ChainInv, ParentsFirst
    <3>3. p \in Block /\ p # b
      BY ZenonT(60), <1>2, <1>6, <3>2 DEF TypeOK, WellFormed
    <3> QED BY Zenon, <1>2, <1>7, <3>1, <3>2, <3>3 DEF TypeOK
  <2> QED BY <2>1, <2>2
<1>10. (0..job.nr) \cup {n} = 0..n
  BY <1>3
<1>11. hashAt' = [m \in 0..n |-> IF m = n THEN b ELSE hashAt[m]]
  BY <1>4, <1>5, <1>10 DEF WriteFinalizedBlock
<1>12. /\ job'.nr = n /\ job'.pending = job.pending \ {b}
       /\ job'.phase = IF job.pending = {b} THEN "tips" ELSE "blocks"
  BY <1>2, <1>5 DEF JobType
<1>13. ChainInv'
  <2>1. CASE job.pending = {b}
    <3>1. job'.phase = "tips" /\ lastFin' = b /\ lastFinNr' = n
      BY <1>5, <1>12, <2>1 DEF WriteFinalizedBlock
    <3>2. nrOf'[b] = n
      BY Zenon, <1>2, <1>6, <1>7 DEF TypeOK
    <3> HIDE DEF n
    <3> QED BY <1>9, <1>11, <3>1, <3>2 DEF ChainInv, LastNr
  <2>2. CASE job.pending # {b}
    <3>1. job'.phase = "blocks"
      BY <1>12, <2>2
    <3>2. ASSUME NEW c \in job'.pending, NEW p \in dag'.parents[c]
          PROVE  nrOf'[p] # NoNr \/ p \in job'.pending
      <4>1. c \in Block /\ c \in job.pending /\ p \in dag.parents[c] /\ p \in Block
        BY ZenonT(60), <1>1, <1>2, <1>3, <1>12, <3>2 DEF TypeOK, WellFormed
      <4>2. nrOf[p] # NoNr \/ p \in job.pending
        BY <1>1, <4>1 DEF ChainInv
      <4> QED BY <1>2, <1>3, <1>7, <1>12, <4>1, <4>2 DEF TypeOK
    <3> HIDE DEF n
    <3> QED BY Zenon, <1>9, <1>11, <1>12, <3>1, <3>2 DEF ChainInv, LastNr
  <2> QED BY <2>1, <2>2
<1>14. L!Append
  <2>1. job.nr \in DOMAIN hashAt /\ DOMAIN hashAt = 0..job.nr
    BY <1>3, <1>4
  <2>2. ~L!InChain(b)
    BY <1>2, <1>4, <1>6 DEF L!InChain, TablesInverse
  <2>3. \A p \in dag.parents[b] : L!InChain(p)
    BY <1>2, <1>4, <1>8 DEF L!InChain, TablesInverse
  <2> QED BY Zenon, <1>1, <1>6, <1>11, <2>1, <2>2, <2>3 DEF L!Append
<1> QED BY <1>13, <1>14

\* Every step keeps ChainInv, and is a step of the ledger or leaves it alone.
LEMMA ChainNext ==
  ASSUME ChainInv, TablesInv', [Next]_vars
  PROVE  ChainInv' /\ [L!Next]_L!lvars
<1>1. ASSUME ChainInv', UNCHANGED <<dag, hashAt>>
      PROVE  ChainInv' /\ [L!Next]_L!lvars
  BY <1>1 DEF L!lvars
<1>2. CASE Network \/ (\E s \in Block : Reorg(s)) \/ UNCHANGED vars
  <2>1. UNCHANGED <<dag, table>> /\ job' = job
    BY <1>2 DEF Network, Extend, InsertBlock, Reorg, vars, net
  <2> QED BY <1>1, <2>1, ChainQuiet DEF table
<1>3. ASSUME NEW base \in Block, NEW last \in Block, NEW c \in Block,
             HandleFinalize(base, last, c)
      PROVE  ChainInv' /\ [L!Next]_L!lvars
  <2>1. UNCHANGED <<dag, table>> /\ job.phase = "idle"
    BY ZenonT(30), <1>3 DEF HandleFinalize, net
  <2>2. job'.phase \in {"idle", "sync"}
    BY Zenon, <1>3, NoJobType DEF HandleFinalize, JobType
  <2> QED BY SMTT(30), <1>1, <2>1, <2>2, ChainQuiet DEF table
<1>4. CASE SyncFails \/ UpdateTips \/ EndFinalize
  <2>1. UNCHANGED <<dag, table>> /\ job.phase \notin {"blocks", "rollback"}
    BY <1>4 DEF SyncFails, UpdateTips, EndFinalize, net
  <2>2. job \in JobType
    BY Zenon DEF ChainInv, TablesInv, TypeOK
  <2>3. job'.phase \in {"idle", "finalize"}
    BY ZenonT(60), <1>4, <2>2, NoJobType DEF SyncFails, UpdateTips, EndFinalize, JobType
  <2> QED BY <1>1, <2>1, <2>3, ChainQuiet DEF table
<1>5. CASE StartFinalize \/ StartSpine
  <2>1. UNCHANGED <<dag, hashAt>>
    BY Zenon, <1>5 DEF StartFinalize, StartSpine, net, table
  <2> QED BY Zenon, <1>1, <1>5, <2>1, ChainStartFinalize, ChainStartSpine
<1>6. CASE RollbackBlock
  BY <1>6, ChainRollbackBlock DEF L!Next
<1>7. CASE RollbackHead
  BY <1>1, <1>7, ChainRollbackHead
<1>8. CASE FinalizeBlock
  BY <1>8, ChainFinalizeBlock DEF L!Next
<1> QED BY Zenon, <1>2, <1>3, <1>4, <1>5, <1>6, <1>7, <1>8 DEF Next, ReplayNext, Call

\* ChainInv is an invariant while no call fails.
LEMMA ChainInvariant == Spec => []ChainInv
<1>1. TablesInv' /\ ChainInv /\ [Next]_vars => ChainInv'
  BY ChainNext
<1> QED BY <1>1, ChainInit, TablesInvariant, PTL DEF Spec

\* Finalize numbers a block only after all its parents, through rollbacks and
\* reorganisations of the coordinator's spines.
THEOREM ParentsFirstCorrect == Spec => []ParentsFirst
<1>1. ChainInv => ParentsFirst
  BY DEF ChainInv
<1> QED BY <1>1, ChainInvariant, PTL

\* Between calls the head has the largest number.
THEOREM HeadIsLastCorrect == Spec => []HeadIsLast
<1>1. ChainInv => HeadIsLast
  <2> SUFFICES ASSUME ChainInv, job.phase = "idle"
               PROVE  nrOf[lastFin] # NoNr /\ \A n \in DOMAIN hashAt : n <= nrOf[lastFin]
    BY DEF HeadIsLast
  <2>1. nrOf[lastFin] = lastFinNr /\ DOMAIN hashAt = 0..lastFinNr /\ lastFinNr \in Nat
    BY Zenon DEF ChainInv, LastNr, TablesInv, TypeOK
  <2> QED BY <2>1
<1> QED BY <1>1, ChainInvariant, PTL

\* Finalize and RollbackFinalization implement the ledger: the numbered chain
\* changes only at its end, and a block follows its parents.
THEOREM ImplementsLedger == Spec => LedgerSpec
<1>1. Init => L!Init
  BY Zenon, TypeInit DEF Init, L!Init, TypeOK, WellFormed
<1>2. ChainInv /\ TablesInv' /\ [Next]_vars => [L!Next]_L!lvars
  BY ChainNext
<1> QED BY <1>1, <1>2, ChainInvariant, TablesInvariant, PTL DEF Spec, LedgerSpec, L!Spec

-----------------------------------------------------------------------------
(* The past of a block.                                                     *)

\* A nonempty set of naturals has a least element.
LEMMA LeastNumber ==
  ASSUME NEW S \in SUBSET Nat, S # {}
  PROVE  \E m \in S : \A n \in S : m <= n
<1> DEFINE R == OpToRel(<, Nat)
<1>1. IsWellFoundedOn(R, Nat)
  BY Zenon, NatLessThanWellFounded
<1>2. ASSUME NEW m \in Nat, NEW n \in Nat, n < m PROVE <<n, m>> \in R
  BY <1>2 DEF OpToRel
<1> HIDE DEF R
<1>3. PICK m \in S : \A n \in S : ~(<<n, m>> \in R)
  BY Zenon, <1>1, WFMin
<1>4. ASSUME NEW n \in S PROVE m <= n
  <2>1. ~(n < m)
    BY Zenon, <1>2, <1>3
  <2> QED BY <2>1
<1> QED BY <1>4

\* A nonempty set of blocks has one in the earliest slot.
LEMMA EarliestBlock ==
  ASSUME NEW d, WellFormed(d), NEW S \in SUBSET Block, S # {}
  PROVE  \E b \in S : \A c \in S : d.slot[b] <= d.slot[c]
<1> DEFINE T == {d.slot[b] : b \in S}
<1>1. T \in SUBSET Nat /\ T # {}
  BY DEF WellFormed
<1>2. PICK m \in T : \A n \in T : m <= n
  BY Zenon, <1>1, LeastNumber
<1> QED BY <1>2

\* A block of the past is the block itself or in the past of a parent.
LEMMA PastStep ==
  ASSUME NEW d, WellFormed(d), NEW b \in Block
  PROVE  /\ b \in d.past[b]
         /\ d.past[b] \subseteq Block
         /\ \A p \in d.parents[b] :
              p \in Block /\ d.slot[p] < d.slot[b] /\ d.past[p] \subseteq d.past[b]
         /\ \A c \in d.past[b] : c = b \/ \E p \in d.parents[b] : c \in d.past[p]
BY DEF WellFormed

\* An ancestor is in an earlier slot.
LEMMA PastEarlier ==
  ASSUME NEW d, WellFormed(d), NEW b \in Block, NEW c \in d.past[b], c # b
  PROVE  d.slot[c] < d.slot[b]
<1> DEFINE Bad == {x \in Block : \E y \in d.past[x] : y # x /\ ~(d.slot[y] < d.slot[x])}
<1>1. ASSUME Bad # {} PROVE FALSE
  <2>1. PICK x \in Bad : \A z \in Bad : d.slot[x] <= d.slot[z]
    BY Zenon, <1>1, EarliestBlock
  <2>2. PICK y \in d.past[x] : y # x /\ ~(d.slot[y] < d.slot[x])
    BY <2>1
  <2>3. PICK p \in d.parents[x] : y \in d.past[p]
    BY <2>2, PastStep
  <2>4. p \in Block /\ d.slot[p] < d.slot[x]
    BY PastStep
  <2>5. d.slot \in [Block -> Nat] /\ y \in Block
    BY Zenon, <2>3, <2>4, PastStep DEF WellFormed
  <2>6. p \notin Bad
    BY <2>1, <2>4, <2>5
  <2>7. y = p \/ d.slot[y] < d.slot[p]
    BY <2>3, <2>4, <2>6
  <2> QED BY <2>2, <2>4, <2>5, <2>7
<1> QED BY <1>1

\* The past of an ancestor is part of the past.
LEMMA PastTransitive ==
  ASSUME NEW d, WellFormed(d), NEW b \in Block, NEW c \in d.past[b]
  PROVE  d.past[c] \subseteq d.past[b]
<1> DEFINE Bad == {x \in Block : \E y \in d.past[x] : ~(d.past[y] \subseteq d.past[x])}
<1>1. ASSUME Bad # {} PROVE FALSE
  <2>1. PICK x \in Bad : \A z \in Bad : d.slot[x] <= d.slot[z]
    BY Zenon, <1>1, EarliestBlock
  <2>2. PICK y \in d.past[x] : ~(d.past[y] \subseteq d.past[x])
    BY <2>1
  <2>3. PICK p \in d.parents[x] : y \in d.past[p]
    BY <2>2, PastStep
  <2>4. p \in Block /\ d.slot[p] < d.slot[x] /\ d.past[p] \subseteq d.past[x]
    BY PastStep
  <2>5. d.slot \in [Block -> Nat]
    BY DEF WellFormed
  <2>6. p \notin Bad
    BY <2>1, <2>4, <2>5
  <2> QED BY Zenon, <2>2, <2>3, <2>4, <2>6
<1> QED BY <1>1

\* A set of blocks with their parents has the past of its blocks.
LEMMA PastWithinClosed ==
  ASSUME NEW d, WellFormed(d), NEW X \in SUBSET Block,
         \A x \in X : d.parents[x] \subseteq X,
         NEW b \in X
  PROVE  d.past[b] \subseteq X
<1> DEFINE Bad == {x \in X : ~(d.past[x] \subseteq X)}
<1>1. ASSUME Bad # {} PROVE FALSE
  <2>1. PICK x \in Bad : \A z \in Bad : d.slot[x] <= d.slot[z]
    BY Zenon, <1>1, EarliestBlock
  <2>2. PICK y \in d.past[x] : y \notin X
    BY <2>1
  <2>3. PICK p \in d.parents[x] : y \in d.past[p]
    BY <2>2, PastStep
  <2>4. p \in X /\ p \in Block /\ d.slot[p] < d.slot[x]
    BY PastStep
  <2>5. d.slot \in [Block -> Nat]
    BY DEF WellFormed
  <2>6. p \notin Bad
    BY <2>1, <2>4, <2>5
  <2> QED BY <2>2, <2>3, <2>4, <2>6
<1> QED BY <1>1

\* When a finalized block has finalized parents, spineProcessBlock collects for
\* a spine exactly the blocks of its past that are not finalized, although it
\* does not look behind a finalized block.
LEMMA PastWithinIsPast ==
  ASSUME NEW d, WellFormed(d), NEW open \in SUBSET Block, NEW s \in open,
         \A x \in Block \ open : d.parents[x] \subseteq Block \ open
  PROVE  PastWithin(d, s, open) = d.past[s] \cap open
<1>1. ASSUME NEW b \in PastWithin(d, s, open) PROVE b \in d.past[s] \cap open
  <2> DEFINE C == d.past[s] \cap open
  <2>1. C \in SUBSET Block /\ s \in C
    BY PastStep
  <2>2. ASSUME NEW c \in C, NEW p \in d.parents[c] \cap open PROVE p \in C
    <3>1. p \in d.past[c]
      BY <2>1, PastStep
    <3>2. d.past[c] \subseteq d.past[s]
      BY <2>1, PastTransitive
    <3> QED BY <3>1, <3>2
  <2> HIDE DEF C
  <2>3. b \in C
    BY <2>1, <2>2 DEF PastWithin
  <2> QED BY <2>3 DEF C
<1>2. ASSUME NEW b \in d.past[s] \cap open, NEW C \in SUBSET Block, s \in C,
             \A c \in C : d.parents[c] \cap open \subseteq C
      PROVE  b \in C
  <2> DEFINE Bad == {x \in C \cap open : b \in d.past[x]}
  <2>1. ASSUME b \notin C PROVE FALSE
    <3>1. Bad \in SUBSET Block /\ s \in Bad
      BY <1>2
    <3>2. PICK x \in Bad : \A z \in Bad : d.slot[x] <= d.slot[z]
      BY Zenon, <3>1, EarliestBlock
    <3>3. PICK p \in d.parents[x] : b \in d.past[p]
      BY <2>1, PastStep
    <3>4. p \in Block /\ d.slot[p] < d.slot[x]
      BY PastStep
    <3>5. p \in open
      <4> DEFINE X == Block \ open
      <4>1. ASSUME p \in X PROVE FALSE
        <5>1. X \in SUBSET Block /\ \A y \in X : d.parents[y] \subseteq X
          OBVIOUS
        <5> HIDE DEF X
        <5>2. d.past[p] \subseteq X
          BY <4>1, <5>1, PastWithinClosed
        <5> QED BY <3>3, <5>2 DEF X
      <4> QED BY <3>4, <4>1
    <3>6. p \in Bad
      BY <1>2, <3>3, <3>5
    <3>7. d.slot \in [Block -> Nat]
      BY DEF WellFormed
    <3> QED BY <3>1, <3>2, <3>4, <3>6, <3>7
  <2> QED BY <2>1
<1>3. ASSUME NEW b \in d.past[s] \cap open PROVE b \in PastWithin(d, s, open)
  <2>1. b \in Block
    OBVIOUS
  <2> QED BY <1>2, <2>1 DEF PastWithin
<1> QED BY <1>1, <1>3

-----------------------------------------------------------------------------
(* The prescribed linearisation.                                            *)

\* A block in the past of a spine enters with one of the spines.
LEMMA OwnerExists ==
  ASSUME TypeOK, NEW b \in Block, Ordered(b)
  PROVE  \E s \in coord : Owner(b, s)
<1> DEFINE S == {s \in coord : b \in dag.past[s]}
<1>1. S \in SUBSET Block /\ S # {} /\ WellFormed(dag)
  BY DEF Ordered, TypeOK
<1>2. PICK s \in S : \A t \in S : dag.slot[s] <= dag.slot[t]
  BY Zenon, <1>1, EarliestBlock
<1> QED BY <1>2 DEF Owner, Slot

\* It enters with one of them only.
LEMMA OwnerUnique ==
  ASSUME TypeOK, OnePerSlot, NEW b, NEW s, Owner(b, s), NEW t, Owner(b, t)
  PROVE  s = t
<1>1. s \in coord /\ t \in coord /\ Slot(s) <= Slot(t) /\ Slot(t) <= Slot(s)
  BY Zenon DEF Owner
<1>2. Slot(s) \in Nat /\ Slot(t) \in Nat
  BY <1>1 DEF Slot, TypeOK, WellFormed
<1> QED BY <1>1, <1>2 DEF OnePerSlot

\* A spine enters with itself.
LEMMA SpineOwnsItself ==
  ASSUME TypeOK, NEW s \in coord
  PROVE  Owner(s, s) /\ Ordered(s)
<1>1. s \in Block /\ WellFormed(dag) /\ s \in dag.past[s] /\ dag.slot \in [Block -> Nat]
  BY Zenon, PastStep DEF TypeOK, WellFormed
<1>2. ASSUME NEW t \in coord, s \in dag.past[t] PROVE Slot(s) <= Slot(t)
  <2>1. t \in Block
    BY DEF TypeOK
  <2>2. s = t \/ dag.slot[s] < dag.slot[t]
    BY <1>1, <1>2, <2>1, PastEarlier
  <2> QED BY <1>1, <2>1, <2>2 DEF Slot
<1> QED BY Zenon, <1>1, <1>2 DEF Owner, Ordered

\* When the block with the largest number is a spine, the numbered blocks are
\* those of the past of the spines up to it.
LEMMA NumberedUpTo ==
  ASSUME TypeOK, OnePerSlot, InitialPart, NEW h \in coord, nrOf[h] # NoNr,
         \A b \in Block : nrOf[b] # NoNr => nrOf[b] <= nrOf[h],
         TablesInverse, NEW b \in Block
  PROVE  nrOf[b] # NoNr <=> \E s \in coord : Slot(s) <= Slot(h) /\ b \in dag.past[s]
<1>1. /\ h \in Block /\ WellFormed(dag) /\ coord \subseteq Block
      /\ dag.slot \in [Block -> Nat] /\ nrOf \in [Block -> Nat \cup {NoNr}]
  BY Zenon DEF TypeOK, WellFormed
<1>2. Owner(h, h) /\ Ordered(h)
  BY SpineOwnsItself
<1>3. ASSUME nrOf[b] # NoNr PROVE \E s \in coord : Slot(s) <= Slot(h) /\ b \in dag.past[s]
  <2>1. CASE b = h
    BY Zenon, <1>1, <1>2, <2>1 DEF Owner, Slot
  <2>2. CASE b # h
    <3>1. nrOf[b] < nrOf[h]
      BY <1>1, <1>3, <2>2 DEF TablesInverse
    <3>2. Prescribed(b, h)
      BY <1>1, <1>2, <1>3, <3>1 DEF InitialPart
    <3>3. PICK s, t \in coord : /\ Owner(b, s) /\ Owner(h, t)
                                /\ Slot(s) < Slot(t) \/ s = t
      BY <3>2 DEF Prescribed
    <3>4. t = h
      BY <1>2, <3>3, OwnerUnique
    <3> QED BY <1>1, <3>3, <3>4 DEF Owner, Slot
  <2> QED BY <2>1, <2>2
<1>4. ASSUME NEW s \in coord, Slot(s) <= Slot(h), b \in dag.past[s], nrOf[b] = NoNr
      PROVE  FALSE
  <2>1. Ordered(b) /\ b # h
    BY <1>4 DEF Ordered
  <2>2. Prescribed(h, b)
    BY <1>1, <1>4, <2>1 DEF InitialPart
  <2>3. PICK u, t \in coord : /\ Owner(h, u) /\ Owner(b, t)
                              /\ Slot(u) < Slot(t) \/ (u = t /\ Before(dag, h, b))
    BY <2>2 DEF Prescribed
  <2>4. u = h
    BY <1>2, <2>3, OwnerUnique
  <2>5. Slot(t) <= Slot(s)
    BY Zenon, <1>4, <2>3 DEF Owner
  <2>6. t = h /\ Before(dag, h, b)
    BY <1>1, <1>4, <2>3, <2>4, <2>5 DEF Slot
  <2>7. dag.slot[b] < dag.slot[h]
    BY Zenon, <1>1, <2>1, <2>3, <2>6, PastEarlier DEF Owner
  <2>8. dag.slot[h] <= dag.slot[b]
    BY <1>1, <2>6 DEF Before
  <2> QED BY <1>1, <2>7, <2>8
<1> QED BY Zenon, <1>3, <1>4
=============================================================================
