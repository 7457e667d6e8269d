------------------------------ MODULE DagProofs -----------------------------
(***************************************************************************)
(* All nodes that follow one coordinator number the blocks alike, for      *)
(* every set of blocks and every DAG; and the loop that creates the blocks *)
(* creates one a slot, with its era verified, for any lengths of epochs and*)
(* eras, any bounds and any number of goroutines.                          *)
(*                                                                         *)
(* The argument for the numbers.  The coordinator's spines prescribe a     *)
(* linearisation: a block enters it with the first spine that has it in its*)
(* past, and the blocks that enter with one spine are in the order of      *)
(* SpineSortBlocks.  The numbered blocks of a node are an initial part of  *)
(* it (InitialPart): a call starts at a spine, possibly after a rollback to*)
(* it, takes the spines after it one by one, and what it collects for a    *)
(* spine are the blocks of its past that no earlier spine has              *)
(* (PastWithinIsPast).                                                     *)
(***************************************************************************)
EXTENDS FinalizerProofs, SlotLoop

-----------------------------------------------------------------------------
(* AgreeInv is inductive.                                                   *)

LEMMA AgreeInit == Init => AgreeInv
<1> SUFFICES ASSUME Init PROVE AgreeInv
  OBVIOUS
<1>1. ChainInv /\ TypeOK
  BY ChainInit, TypeInit
<1>2. job.phase = "idle" /\ job.spines = {} /\ Base = lastFin
  BY DEF Init, NoJob, Base
<1>3. coord = {Genesis} /\ lastFin = Genesis /\ Genesis \in Block
  BY Zenon, BlockAssumption DEF Init
<1>4. OnePerSlot
  BY <1>3 DEF OnePerSlot
<1>5. InitialPart
  <2>1. ASSUME NEW a \in Block, nrOf[a] # NoNr PROVE a = Genesis
    BY <2>1 DEF Init
  <2>2. Ordered(Genesis)
    BY Zenon, <1>1, <1>3, SpineOwnsItself
  <2>3. ASSUME NEW b \in Block, Ordered(b) PROVE b = Genesis
    <3>1. b \in dag.past[Genesis]
      BY <1>3, <2>3 DEF Ordered
    <3> QED BY SMTT(30), <1>1, <1>3, <3>1, PastStep DEF TypeOK, WellFormed
  <2>4. nrOf[Genesis] = 0
    BY Zenon, <1>3 DEF Init
  <2> QED BY <2>1, <2>2, <2>3, <2>4 DEF InitialPart
<1> QED BY Zenon, <1>1, <1>2, <1>3, <1>4, <1>5 DEF AgreeInv

\* What AgreeInv says of the order is about the DAG, the spines and the numbers.
LEMMA OrderUnchanged ==
  ASSUME AgreeInv, UNCHANGED <<dag, coord, nrOf>>
  PROVE  InitialPart' /\ OnePerSlot'
<1>1. InitialPart'
  BY DEF AgreeInv, InitialPart, Ordered, Prescribed, Owner, Slot
<1>2. OnePerSlot'
  BY Zenon DEF AgreeInv, OnePerSlot, Slot
<1> QED BY Zenon, <1>1, <1>2

\* A call that ends at a spine keeps AgreeInv.
LEMMA AgreeEnd ==
  ASSUME AgreeInv, ChainInv', UNCHANGED <<dag, coord, nrOf>>, lastFin' \in coord,
         job'.phase = "idle", job'.spines = {}
  PROVE  AgreeInv'
<1>1. InitialPart' /\ OnePerSlot'
  BY OrderUnchanged
<1>2. Base' = lastFin'
  BY DEF Base
<1> QED BY Zenon, <1>1, <1>2 DEF AgreeInv

\* A step that leaves the call and what it works on alone keeps AgreeInv.
LEMMA AgreeSame ==
  ASSUME AgreeInv, ChainInv', UNCHANGED <<dag, coord, nrOf, lastFin, job>>
  PROVE  AgreeInv'
<1>1. InitialPart' /\ OnePerSlot'
  BY Zenon, OrderUnchanged
<1> QED BY Zenon, <1>1 DEF AgreeInv, Base, Slot, Owner

\* A result leaves no spines to finalize.
LEMMA NoJobSpines ==
  ASSUME NEW r PROVE NoJob(r).spines = {} /\ NoJob(r).phase = "idle"
BY DEF NoJob

\* A new spine prescribes places after those of the others.
LEMMA AgreeExtend ==
  ASSUME AgreeInv, ChainInv', TypeOK', NEW s \in Block, Extend(s)
  PROVE  AgreeInv'
<1> TypeOK /\ OnePerSlot /\ InitialPart
  BY Zenon DEF AgreeInv, ChainInv, TablesInv
<1>1. /\ job.phase = "idle" /\ coord' = coord \cup {s}
      /\ \A c \in coord : Slot(c) < Slot(s)
      /\ UNCHANGED <<dag, nrOf, lastFin, job>>
  BY Zenon DEF Extend, table
<1>2. coord \subseteq Block /\ dag.slot \in [Block -> Nat] /\ nrOf \in [Block -> Nat \cup {NoNr}]
  BY Zenon DEF TypeOK, WellFormed
<1>3. ASSUME NEW b \in Block, NEW t \in coord, Owner(b, t) PROVE Owner(b, t)'
  BY <1>1, <1>2, <1>3 DEF Owner, Slot
<1>4. OnePerSlot'
  BY <1>1, <1>2 DEF OnePerSlot, Slot
<1>5. ASSUME NEW a \in Block, NEW b \in Block, Prescribed(a, b) PROVE Prescribed(a, b)'
  BY Zenon, <1>1, <1>3, <1>5 DEF Prescribed, Slot
<1>6. ASSUME NEW a \in Block, nrOf[a] # NoNr PROVE Ordered(a)'
  BY Zenon, <1>1, <1>6 DEF InitialPart, Ordered
<1>7. ASSUME NEW a \in Block, nrOf[a] # NoNr, NEW b \in Block, Ordered(b)',
             nrOf[b] = NoNr \/ nrOf[a] < nrOf[b]
      PROVE  Prescribed(a, b)'
  <2>1. CASE Ordered(b)
    BY Zenon, <1>5, <1>7, <2>1 DEF InitialPart
  <2>2. CASE ~Ordered(b)
    <3>1. Ordered(a)
      BY <1>7 DEF InitialPart
    <3>2. PICK t \in coord : Owner(a, t)
      BY <3>1, OwnerExists
    <3>3. Owner(b, s)'
      BY <1>1, <1>2, <1>7, <2>2 DEF Ordered, Owner, Slot
    <3>4. Owner(a, t)' /\ Slot(t)' < Slot(s)' /\ t \in coord' /\ s \in coord'
      BY Zenon, <1>1, <1>3, <3>2 DEF Slot
    <3> QED BY Zenon, <3>3, <3>4 DEF Prescribed
  <2> QED BY Zenon, <2>1, <2>2
<1>8. InitialPart'
  BY Zenon, <1>1, <1>6, <1>7 DEF InitialPart
<1>9. Base' = Base /\ Base = lastFin
  BY <1>1 DEF Base
<1>10. job'.spines = job.spines /\ job'.phase = "idle"
  BY <1>1
<1>11. ASSUME NEW u \in job.spines
       PROVE  /\ u \in coord' /\ Slot(Base)' < Slot(u)'
              /\ \A c \in coord' : Slot(Base)' < Slot(c)' /\ Slot(c)' < Slot(u)' => c \in job.spines
  <2>1. u \in coord /\ Slot(Base) < Slot(u) /\ Slot(u) < Slot(s)
        /\ \A c \in coord : Slot(Base) < Slot(c) /\ Slot(c) < Slot(u) => c \in job.spines
    BY <1>1 DEF AgreeInv
  <2>2. Slot(u) \in Nat /\ Slot(s) \in Nat
    BY Zenon, <1>2, <2>1 DEF Slot
  <2> QED BY <1>1, <1>9, <2>1, <2>2 DEF Slot
<1> QED BY Zenon, <1>1, <1>4, <1>8, <1>9, <1>10, <1>11 DEF AgreeInv

\* ForwardFinalization skips the first spines of a request, all of them
\* finalized, and leaves the others with the last one it skips as base.
LEMMA ForwardBase ==
  ASSUME TypeOK, NEW base \in coord, nrOf[base] # NoNr, NEW spines \in SUBSET coord,
         \A s \in spines : Slot(base) < Slot(s),
         NEW b \in Block, IsForwardBase(base, spines, b)
  PROVE  /\ b \in coord /\ nrOf[b] # NoNr
         /\ Slot(base) <= Slot(b)
         /\ \A s \in spines : s \in ForwardSpines(base, spines) <=> Slot(b) < Slot(s)
<1> DEFINE todo == ForwardSpines(base, spines)
           skipped == spines \ todo
<1>1. b \in {base} \cup skipped /\ \A s \in skipped : Slot(s) <= Slot(b)
  BY DEF IsForwardBase
<1>2. /\ todo \subseteq spines /\ coord \subseteq Block /\ dag.slot \in [Block -> Nat]
      /\ DOMAIN hashAt \subseteq Nat
  BY Zenon DEF ForwardSpines, TypeOK, WellFormed
<1>3. \A s \in coord : Slot(s) \in Nat
  BY <1>2 DEF Slot
<1>4. ASSUME NEW s \in skipped PROVE IsForwarded(base, spines, s)
  BY DEF ForwardSpines
<1>5. ASSUME NEW s \in skipped PROVE nrOf[s] # NoNr
  <2>1. nrOf[s] \in SlotSteps(base)
    <3>1. IsForwarded(base, spines, s) /\ s \in spines /\ Slot(s) <= Slot(s)
      BY <1>3, <1>4
    <3> QED BY Zenon, <3>1 DEF IsForwarded
  <2>2. SlotSteps(base) \subseteq Nat
    BY <1>2 DEF SlotSteps
  <2> QED BY <2>1, <2>2 DEF NoNr
<1>6. ASSUME NEW s \in todo, NEW t \in skipped PROVE Slot(t) < Slot(s)
  <2>1. IsForwarded(base, spines, t) /\ ~IsForwarded(base, spines, s)
    BY <1>4 DEF ForwardSpines
  <2>2. ASSUME Slot(s) <= Slot(t) PROVE FALSE
    <3>1. \A u \in spines : Slot(u) <= Slot(s) => Slot(u) <= Slot(t)
      BY <1>2, <1>3, <2>2
    <3> QED BY Zenon, <2>1, <3>1 DEF IsForwarded
  <2> QED BY <1>2, <1>3, <2>2
<1> HIDE DEF todo
<1>7. b \in coord /\ nrOf[b] # NoNr /\ Slot(base) <= Slot(b)
  BY <1>1, <1>3, <1>5
<1>8. ASSUME NEW s \in spines PROVE s \in todo <=> Slot(b) < Slot(s)
  <2>1. CASE s \in todo
    BY Zenon, <1>1, <1>6, <2>1
  <2>2. CASE s \notin todo
    BY <1>1, <1>3, <1>7, <2>2
  <2> QED BY <2>1, <2>2
<1> QED BY <1>7, <1>8 DEF todo

\* A request ends at once, or leaves a job with the spines after its base.
LEMMA AgreeHandleFinalize ==
  ASSUME AgreeInv, ChainInv', NEW base \in Block, NEW last \in Block, NEW c \in Block,
         HandleFinalize(base, last, c)
  PROVE  AgreeInv'
<1> DEFINE spines == {s \in coord : Slot(base) < Slot(s) /\ Slot(s) <= Slot(last)}
<1> TypeOK /\ OnePerSlot /\ InitialPart /\ lastFin \in coord
  BY Zenon DEF AgreeInv, ChainInv, TablesInv
<1>1. UNCHANGED <<dag, coord, nrOf, lastFin>> /\ {base, last, c} \subseteq coord
  BY Zenon DEF HandleFinalize, net, table
<1>2. CASE \E r \in {"error", "ok"} : job' = NoJob(r)
  BY Zenon, <1>1, <1>2, NoJobSpines, AgreeEnd
<1>3. ASSUME nrOf[base] # NoNr, NEW b \in Block, IsForwardBase(base, spines, b),
             job' = [NoJob("none") EXCEPT !.phase = "sync", !.base = b,
                        !.spines = ForwardSpines(base, spines), !.ok = b, !.cp = c]
      PROVE  AgreeInv'
  <2>1. /\ b \in coord /\ nrOf[b] # NoNr /\ Slot(base) <= Slot(b)
        /\ \A s \in spines : s \in ForwardSpines(base, spines) <=> Slot(b) < Slot(s)
    BY Zenon, <1>1, <1>3, ForwardBase
  <2>2. job'.phase = "sync" /\ job'.base = b /\ job'.spines = ForwardSpines(base, spines)
    BY <1>3 DEF NoJob
  <2>3. Base' = b
    BY <2>2 DEF Base
  <2>4. InitialPart' /\ OnePerSlot'
    BY Zenon, <1>1, OrderUnchanged
  <2>5. ASSUME NEW s \in job'.spines
        PROVE  /\ s \in coord' /\ Slot(b)' < Slot(s)'
               /\ \A e \in coord' : Slot(b)' < Slot(e)' /\ Slot(e)' < Slot(s)' => e \in job'.spines
    <3>1. s \in spines
      BY <2>2 DEF ForwardSpines
    <3>2. Slot(b) < Slot(s)
      BY Zenon, <2>1, <2>2, <3>1
    <3>3. \A e \in coord : Slot(e) \in Nat
      BY Zenon DEF TypeOK, WellFormed, Slot
    <3>4. ASSUME NEW e \in coord, Slot(b) < Slot(e), Slot(e) < Slot(s) PROVE e \in job'.spines
      <4>1. e \in spines
        BY <1>1, <2>1, <3>1, <3>3, <3>4
      <4> QED BY Zenon, <2>1, <2>2, <3>4, <4>1
    <3> QED BY Zenon, <1>1, <3>1, <3>2, <3>4 DEF Slot
  <2>6. \A s \in job'.spines :
          /\ s \in coord' /\ Slot(Base)' < Slot(s)'
          /\ \A e \in coord' : Slot(Base)' < Slot(e)' /\ Slot(e)' < Slot(s)' => e \in job'.spines
    BY Zenon, <2>3, <2>5 DEF Slot
  <2> QED BY ZenonT(60), <1>1, <2>1, <2>2, <2>3, <2>4, <2>6 DEF AgreeInv
<1> QED BY Zenon, <1>2, <1>3 DEF HandleFinalize

\* Finalize starts at its base spine, or with a rollback to it.
LEMMA AgreeStartFinalize ==
  ASSUME AgreeInv, ChainInv', StartFinalize
  PROVE  AgreeInv'
<1> TypeOK /\ job \in JobType /\ lastFin \in coord
  BY Zenon DEF AgreeInv, ChainInv, TablesInv, TypeOK
<1>1. /\ UNCHANGED <<dag, coord, nrOf, lastFin>> /\ job.phase = "sync"
      /\ job' = SetSpineState(job, job.base, lastFinNr, "finalize")
  BY DEF StartFinalize, net, table
<1>2. nrOf[job.base] # NoNr /\ Base = job.base
  BY Zenon, <1>1 DEF AgreeInv, Base
<1>3. job'.phase \in {"finalize", "rollback"} /\ job'.spines = job.spines
      /\ (job'.phase = "finalize" => job.base = lastFin)
      /\ (job'.phase = "rollback" => job'.base = job.base)
  BY <1>1, <1>2 DEF SetSpineState, JobType
<1>4. Base' = Base
  BY Zenon, <1>1, <1>2, <1>3 DEF Base
<1>5. InitialPart' /\ OnePerSlot'
  BY <1>1, OrderUnchanged
<1> QED BY ZenonT(60), <1>1, <1>3, <1>4, <1>5 DEF AgreeInv, Slot

\* A rollback takes the number of the last block, so that the blocks that are
\* left come before it.
LEMMA AgreeRollbackBlock ==
  ASSUME AgreeInv, ChainInv', RollbackBlock
  PROVE  AgreeInv'
<1> TypeOK /\ job \in JobType /\ ChainInv /\ TablesInverse /\ InitialPart
  BY Zenon DEF AgreeInv, ChainInv, TablesInv, TypeOK
<1>1. /\ UNCHANGED <<dag, coord, lastFin>> /\ job.phase = "rollback" /\ job.at > job.nr
      /\ job' = [job EXCEPT !.at = @ - 1]
  BY DEF RollbackBlock, net
<1>2. job'.phase = "rollback" /\ job'.spines = job.spines /\ job'.base = job.base
  BY <1>1 DEF JobType
<1>3. Base' = Base
  BY <1>1, <1>2 DEF Base
<1>4. DOMAIN hashAt = 0..job.at /\ job.at \in Nat
  BY Zenon, <1>1 DEF ChainInv, LastNr, JobType
<1>5. PICK x \in Block : nrOf[x] = job.at /\ nrOf' = [nrOf EXCEPT ![x] = NoNr]
  BY <1>4 DEF RollbackBlock, TablesInverse, TypeOK
<1>6. ASSUME NEW a \in Block, nrOf'[a] # NoNr
      PROVE  a # x /\ nrOf[a] = nrOf'[a] /\ nrOf[a] < nrOf[x]
  <2>1. a # x /\ nrOf[a] = nrOf'[a]
    BY Zenon, <1>5, <1>6 DEF TypeOK
  <2>2. nrOf[a] \in 0..job.at /\ nrOf[a] # nrOf[x]
    BY Zenon, <1>4, <1>6, <2>1 DEF TablesInverse
  <2> QED BY <1>4, <1>5, <2>1, <2>2
<1>7. ASSUME NEW a \in Block, nrOf'[a] # NoNr PROVE Ordered(a)'
  BY Zenon, <1>1, <1>6, <1>7 DEF InitialPart, Ordered
<1>8. ASSUME NEW a \in Block, nrOf'[a] # NoNr, NEW b \in Block, Ordered(b)',
             nrOf'[b] = NoNr \/ nrOf'[a] < nrOf'[b]
      PROVE  Prescribed(a, b)'
  <2>1. Ordered(b)
    BY <1>1, <1>8 DEF Ordered
  <2>2. nrOf[b] = NoNr \/ nrOf[a] < nrOf[b]
    BY Zenon, <1>5, <1>6, <1>8 DEF TypeOK
  <2>3. Prescribed(a, b)
    BY ZenonT(60), <1>6, <1>8, <2>1, <2>2 DEF InitialPart
  <2> QED BY Zenon, <1>1, <2>3 DEF Prescribed, Owner, Slot
<1>9. InitialPart'
  BY <1>7, <1>8 DEF InitialPart
<1>10. OnePerSlot'
  BY Zenon, <1>1 DEF AgreeInv, OnePerSlot, Slot
<1> QED BY ZenonT(60), <1>1, <1>2, <1>3, <1>9, <1>10 DEF AgreeInv, Slot

\* The rollback ends with the base spine as the head.
LEMMA AgreeRollbackHead ==
  ASSUME AgreeInv, ChainInv', TablesInv', RollbackHead
  PROVE  AgreeInv'
<1> TypeOK /\ job \in JobType /\ ChainInv
  BY Zenon DEF AgreeInv, ChainInv, TablesInv, TypeOK
<1>1. UNCHANGED <<dag, nrOf>>
  BY ChainRollbackHead
<1>2. coord' = coord /\ job.phase = "rollback" /\ lastFin' = job.base
  BY DEF RollbackHead, net, WriteFinalizedBlock
<1>3. Base = job.base /\ job.base \in coord
  BY Zenon, <1>2 DEF AgreeInv, Base
<1>4. CASE job' = NoJob("error")
  BY ZenonT(60), <1>1, <1>2, <1>3, <1>4, NoJobSpines, AgreeEnd
<1>5. CASE job' = [job EXCEPT !.phase = "finalize"]
  <2>1. job'.phase = "finalize" /\ job'.spines = job.spines
    BY <1>5 DEF JobType
  <2>2. Base' = Base
    BY Zenon, <1>2, <1>3, <2>1 DEF Base
  <2>3. InitialPart' /\ OnePerSlot'
    BY Zenon, <1>1, <1>2, OrderUnchanged
  <2> QED BY ZenonT(60), <1>1, <1>2, <1>3, <2>1, <2>2, <2>3 DEF AgreeInv, Slot
<1> QED BY ZenonT(60), <1>4, <1>5 DEF RollbackHead

\* The blocks collected for the next spine are those that enter with it.
LEMMA AgreeStartSpine ==
  ASSUME AgreeInv, ChainInv', StartSpine
  PROVE  AgreeInv'
<1> /\ TypeOK /\ job \in JobType /\ ChainInv /\ TablesInverse /\ InitialPart
    /\ OnePerSlot /\ lastFin \in coord
  BY Zenon DEF AgreeInv, ChainInv, TablesInv, TypeOK
<1>1. UNCHANGED <<dag, coord, nrOf, lastFin>> /\ job.phase = "finalize" /\ Base = lastFin
  BY DEF StartSpine, net, table, Base
<1>2. PICK s \in job.spines :
        /\ IsNextSpine(s)
        /\ job' = IF nrOf[s] # NoNr THEN [job EXCEPT !.spines = @ \ {s}]
                  ELSE IF \E b \in SpineGetDagChain(s) : ~(dag.parents[b] \subseteq known)
                  THEN NoJob("error")
                  ELSE [job EXCEPT !.phase = "blocks", !.spines = @ \ {s},
                                   !.spine = s, !.nr = lastFinNr,
                                   !.pending = SpineGetDagChain(s)]
  BY Zenon DEF StartSpine
<1>3. /\ \A c \in coord : c \in Block /\ Slot(c) \in Nat
      /\ WellFormed(dag) /\ nrOf \in [Block -> Nat \cup {NoNr}]
  BY Zenon DEF TypeOK, WellFormed, Slot
<1>4. \A u \in job.spines :
        /\ u \in coord /\ Slot(lastFin) < Slot(u)
        /\ \A c \in coord : Slot(lastFin) < Slot(c) /\ Slot(c) < Slot(u) => c \in job.spines
  BY <1>1 DEF AgreeInv
<1>5. \A b \in Block :
        nrOf[b] # NoNr <=> \E t \in coord : Slot(t) <= Slot(lastFin) /\ b \in dag.past[t]
  <2>1. nrOf[lastFin] = lastFinNr /\ DOMAIN hashAt = 0..lastFinNr /\ lastFinNr \in Nat
    BY Zenon, <1>1 DEF ChainInv, LastNr, TypeOK
  <2>2. nrOf[lastFin] # NoNr /\ \A b \in Block : nrOf[b] # NoNr => nrOf[b] <= nrOf[lastFin]
    BY <2>1 DEF TablesInverse, NoNr
  <2> QED BY <2>2, NumberedUpTo
<1>6. \A t \in coord : Slot(t) < Slot(s) => Slot(t) <= Slot(lastFin)
  BY <1>2, <1>3, <1>4 DEF IsNextSpine
<1>7. nrOf[s] = NoNr
  <2>1. ASSUME NEW t \in coord, Slot(t) <= Slot(lastFin), s \in dag.past[t] PROVE FALSE
    <3>1. Slot(s) <= Slot(t)
      BY Zenon, <1>4, <2>1, SpineOwnsItself DEF Owner
    <3> QED BY <1>3, <1>4, <2>1, <3>1
  <2> QED BY ZenonT(60), <1>3, <1>4, <1>5, <2>1
<1>8. CASE job' = NoJob("error")
  BY Zenon, <1>1, <1>8, NoJobSpines, AgreeEnd
<1>9. CASE job' = [job EXCEPT !.phase = "blocks", !.spines = @ \ {s}, !.spine = s,
                              !.nr = lastFinNr, !.pending = SpineGetDagChain(s)]
  <2>1. /\ job'.phase = "blocks" /\ job'.spines = job.spines \ {s} /\ job'.spine = s
        /\ job'.pending = SpineGetDagChain(s)
    BY <1>9 DEF JobType
  <2>2. SpineGetDagChain(s) = dag.past[s] \cap Unfinalized
    <3>1. s \in Unfinalized /\ Unfinalized \in SUBSET Block
      BY Zenon, <1>3, <1>4, <1>7 DEF Unfinalized
    <3>2. \A x \in Block \ Unfinalized : dag.parents[x] \subseteq Block \ Unfinalized
      BY Zenon, <1>3 DEF Unfinalized, ChainInv, ParentsFirst, WellFormed
    <3> QED BY Zenon, <1>3, <3>1, <3>2, PastWithinIsPast DEF SpineGetDagChain
  <2>3. \A b \in job'.pending : b \in Block /\ b \in dag.past[s] /\ nrOf[b] = NoNr
    BY <2>1, <2>2 DEF Unfinalized
  <2>4. Base' = s
    BY <2>1 DEF Base
  <2>5. InitialPart' /\ OnePerSlot'
    BY Zenon, <1>1, OrderUnchanged
  <2>6. s \in job'.pending
    BY <1>3, <1>4, <1>7, <2>1, <2>2, PastStep DEF Unfinalized
  <2>7. ASSUME NEW b \in job'.pending PROVE Owner(b, s)'
    <3>1. ASSUME NEW t \in coord, b \in dag.past[t] PROVE Slot(s) <= Slot(t)
      BY <1>3, <1>4, <1>5, <1>6, <2>3, <3>1
    <3> QED BY ZenonT(60), <1>1, <1>4, <2>3, <3>1 DEF Owner, Slot
  <2>8. ASSUME NEW t \in coord, Slot(t) <= Slot(s), NEW b \in dag.past[t]
        PROVE  nrOf[b] # NoNr \/ b \in job'.pending
    <3>1. b \in Block
      BY Zenon, <1>3, PastStep
    <3>2. CASE Slot(t) < Slot(s)
      BY Zenon, <1>5, <1>6, <3>1, <3>2
    <3>3. CASE ~(Slot(t) < Slot(s))
      <4>1. t = s
        BY <1>3, <1>4, <2>8, <3>3 DEF OnePerSlot
      <4> QED BY ZenonT(60), <2>1, <2>2, <3>1, <4>1 DEF Unfinalized
    <3> QED BY Zenon, <3>2, <3>3
  <2>9. ASSUME NEW u \in job.spines \ {s}
        PROVE  /\ u \in coord /\ Slot(s) < Slot(u)
               /\ \A c \in coord : Slot(s) < Slot(c) /\ Slot(c) < Slot(u) => c \in job.spines \ {s}
    <3>1. u \in coord /\ s \in coord /\ Slot(s) <= Slot(u) /\ Slot(s) # Slot(u)
      BY <1>2, <1>4 DEF IsNextSpine, OnePerSlot
    <3> QED BY <1>3, <1>4, <3>1
  <2>10. /\ s \in coord' /\ lastFin' \in coord'
         /\ \A u \in job'.spines :
              /\ u \in coord' /\ Slot(s)' < Slot(u)'
              /\ \A c \in coord' : Slot(s)' < Slot(c)' /\ Slot(c)' < Slot(u)' => c \in job'.spines
    BY Zenon, <1>1, <1>4, <2>1, <2>9 DEF Slot
  <2>11. \A t \in coord' : Slot(t)' <= Slot(s)' =>
           \A b \in dag'.past[t] : nrOf'[b] # NoNr \/ b \in job'.pending
    BY Zenon, <1>1, <2>8 DEF Slot
  <2> QED BY ZenonT(60), <2>1, <2>4, <2>5, <2>6, <2>7, <2>10, <2>11 DEF AgreeInv, Slot
<1> QED BY ZenonT(60), <1>2, <1>7, <1>8, <1>9

\* The next block of a chain takes the next place of the linearisation.
LEMMA AgreeFinalizeBlock ==
  ASSUME AgreeInv, ChainInv', FinalizeBlock
  PROVE  AgreeInv'
<1> DEFINE n == job.nr + 1
<1> /\ TypeOK /\ job \in JobType /\ ChainInv /\ TablesInv /\ TablesInverse /\ InitialPart
    /\ OnePerSlot /\ lastFin \in coord
  BY Zenon DEF AgreeInv, ChainInv, TablesInv, TypeOK
<1>1. UNCHANGED <<dag, coord>> /\ job.phase = "blocks" /\ Base = job.spine
  BY Zenon DEF FinalizeBlock, net, Base
<1>2. DOMAIN hashAt = 0..job.nr /\ job.nr \in Nat /\ n \notin DOMAIN hashAt
  <2>1. DOMAIN hashAt = 0..job.nr
    BY Zenon, <1>1 DEF ChainInv, LastNr
  <2>2. job.nr \in Nat
    BY DEF JobType
  <2> QED BY <2>1, <2>2
<1>3. PICK b \in job.pending :
        /\ IsFirst(dag, b, job.pending)
        /\ WriteFinalizedBlock(n, b, job.pending = {b})
        /\ job' = [job EXCEPT !.nr = n, !.pending = @ \ {b},
                     !.phase = IF job.pending = {b} THEN "tips" ELSE "blocks"]
  BY Zenon, <1>2 DEF FinalizeBlock
<1>4. /\ \A c \in coord : c \in Block /\ Slot(c) \in Nat
      /\ WellFormed(dag) /\ dag.slot \in [Block -> Nat]
      /\ nrOf \in [Block -> Nat \cup {NoNr}] /\ job.pending \subseteq Block
  BY Zenon DEF TypeOK, WellFormed, Slot, JobType
<1>5. /\ job.spine \in job.pending /\ job.spine \in coord
      /\ \A c \in job.pending : Owner(c, job.spine) /\ nrOf[c] = NoNr
      /\ \A t \in coord : Slot(t) <= Slot(job.spine) =>
           \A c \in dag.past[t] : nrOf[c] # NoNr \/ c \in job.pending
  BY Zenon, <1>1 DEF AgreeInv, TablesInv
<1>6. nrOf' = [nrOf EXCEPT ![b] = n]
  BY <1>3 DEF WriteFinalizedBlock
<1>7. \A a \in Block : nrOf[a] # NoNr => nrOf[a] < n
  BY <1>2, <1>4 DEF TablesInverse
<1>8. ASSUME NEW a \in Block, nrOf'[a] # NoNr PROVE Ordered(a)'
  <2>1. CASE a = b
    BY Zenon, <1>1, <1>5, <2>1 DEF Owner, Ordered
  <2>2. CASE a # b
    BY Zenon, <1>1, <1>4, <1>6, <1>8, <2>2 DEF InitialPart, Ordered
  <2> QED BY Zenon, <2>1, <2>2
<1>9. ASSUME NEW a \in Block, nrOf'[a] # NoNr, NEW c \in Block, Ordered(c)',
             nrOf'[c] = NoNr \/ nrOf'[a] < nrOf'[c]
      PROVE  Prescribed(a, c)'
  <2>1. Ordered(c)
    BY Zenon, <1>1, <1>9 DEF Ordered
  <2>2. CASE a # b
    <3>1. nrOf[a] # NoNr /\ (nrOf[c] = NoNr \/ nrOf[a] < nrOf[c])
      BY Zenon, <1>4, <1>5, <1>6, <1>9, <2>2
    <3>2. Prescribed(a, c)
      BY Zenon, <2>1, <3>1 DEF InitialPart
    <3> QED BY Zenon, <1>1, <3>2 DEF Prescribed, Owner, Slot
  <2>3. CASE a = b
    <3>1. c # b /\ nrOf[c] = NoNr
      <4>1. n \in Nat /\ nrOf'[b] = n /\ n # NoNr /\ c # b
        BY <1>2, <1>4, <1>6, <1>9, <2>3 DEF NoNr
      <4>2. nrOf'[c] = nrOf[c] /\ nrOf[c] \in Nat \cup {NoNr}
        BY Zenon, <1>4, <1>6, <4>1
      <4> QED BY SMTT(30), <1>7, <1>9, <2>3, <4>1, <4>2
    <3>2. PICK t \in coord : Owner(c, t)
      BY Zenon, <2>1, OwnerExists
    <3>3. Owner(b, job.spine)
      BY Zenon, <1>5
    <3>4. Slot(job.spine) < Slot(t) \/ (job.spine = t /\ Before(dag, b, c))
      <4>1. CASE Slot(t) <= Slot(job.spine)
        <5>1. c \in job.pending
          BY Zenon, <1>5, <3>1, <3>2, <4>1 DEF Owner
        <5>2. t = job.spine
          BY Zenon, <1>5, <3>2, <5>1, OwnerUnique
        <5> QED BY Zenon, <1>3, <3>1, <5>1, <5>2 DEF IsFirst
      <4>2. Slot(t) \in Nat /\ Slot(job.spine) \in Nat
        BY Zenon, <1>4, <1>5
      <4> QED BY <4>1, <4>2
    <3>5. Prescribed(b, c)
      BY Zenon, <1>5, <3>2, <3>3, <3>4 DEF Prescribed
    <3> QED BY ZenonT(60), <1>1, <2>3, <3>5 DEF Prescribed, Owner, Slot
  <2> QED BY Zenon, <2>2, <2>3
<1>10. InitialPart' /\ OnePerSlot'
  <2>1. InitialPart'
    BY Zenon, <1>8, <1>9 DEF InitialPart
  <2> QED BY Zenon, <1>1, <2>1 DEF OnePerSlot, Slot
<1>11. job'.spines = job.spines /\ job'.spine = job.spine /\ job'.pending = job.pending \ {b}
  BY Zenon, <1>3 DEF JobType
<1>12. CASE job.pending = {b}
  <2>1. job'.phase = "tips" /\ b = job.spine
    BY Zenon, <1>3, <1>5, <1>12 DEF JobType
  <2>2. lastFin' = job.spine
    BY Zenon, <1>3, <1>12, <2>1 DEF WriteFinalizedBlock
  <2>3. Base' = Base
    BY Zenon, <1>1, <2>1, <2>2 DEF Base
  <2> QED BY ZenonT(60), <1>1, <1>5, <1>10, <1>11, <2>1, <2>2, <2>3 DEF AgreeInv, Slot
<1>13. CASE job.pending # {b}
  <2>1. job'.phase = "blocks" /\ lastFin' = lastFin
    BY Zenon, <1>3, <1>13 DEF JobType, WriteFinalizedBlock
  <2>2. Base' = Base
    BY Zenon, <1>1, <1>11, <2>1 DEF Base
  <2>3. b # job.spine
    <3>1. PICK c \in job.pending : c # b
      BY <1>13
    <3>2. ASSUME b = job.spine PROVE FALSE
      <4>1. c \in dag.past[job.spine] /\ c # job.spine
        BY Zenon, <1>5, <3>1, <3>2 DEF Owner
      <4>2. dag.slot[c] < dag.slot[job.spine]
        BY Zenon, <1>4, <1>5, <4>1, PastEarlier
      <4>3. Before(dag, job.spine, c)
        BY Zenon, <1>3, <3>1, <3>2 DEF IsFirst
      <4>4. dag.slot[job.spine] \in Nat /\ dag.slot[c] \in Nat
        BY Zenon, <1>4, <1>5, <3>1
      <4>5. dag.slot[job.spine] <= dag.slot[c]
        BY <4>3, <4>4 DEF Before
      <4> QED BY <4>2, <4>4, <4>5
    <3> QED BY <3>2
  <2>4. \A c \in job'.pending : Owner(c, job.spine)'
    BY Zenon, <1>1, <1>5, <1>11 DEF Owner, Slot
  <2>5. \A t \in coord' : Slot(t)' <= Slot(job.spine)' =>
          \A c \in dag'.past[t] : nrOf'[c] # NoNr \/ c \in job'.pending
    <3>1. ASSUME NEW t \in coord, Slot(t) <= Slot(job.spine), NEW c \in dag.past[t]
          PROVE  nrOf'[c] # NoNr \/ c \in job'.pending
      <4>1. c \in Block
        BY Zenon, <1>4, PastStep
      <4>2. n # NoNr
        BY <1>2 DEF NoNr
      <4> QED BY Zenon, <1>4, <1>5, <1>6, <1>11, <3>1, <4>1, <4>2
    <3> QED BY Zenon, <1>1, <1>11, <3>1 DEF Slot
  <2>6. job.spine \in job'.pending
    BY Zenon, <1>5, <1>11, <2>3
  <2> QED BY ZenonT(60), <1>1, <1>5, <1>10, <1>11, <2>1, <2>2, <2>4, <2>5, <2>6 DEF AgreeInv, Slot
<1> QED BY Zenon, <1>12, <1>13

\* The other steps leave the order alone, and the base of the job.
LEMMA AgreeRest ==
  ASSUME AgreeInv, ChainInv',
         \/ SyncFails \/ UpdateTips \/ EndFinalize \/ UNCHANGED vars
         \/ \E b \in Block : InsertBlock(b)
  PROVE  AgreeInv'
<1> TypeOK /\ job \in JobType /\ lastFin \in coord
  BY Zenon DEF AgreeInv, ChainInv, TablesInv, TypeOK
<1>1. CASE UNCHANGED vars \/ \E b \in Block : InsertBlock(b)
  <2>1. UNCHANGED <<dag, coord, nrOf, lastFin, job>>
    BY Zenon, <1>1 DEF vars, net, table, InsertBlock
  <2> QED BY Zenon, <2>1, AgreeSame
<1>2. CASE SyncFails \/ UpdateTips \/ EndFinalize
  <2>1. UNCHANGED <<dag, coord, nrOf, lastFin>>
    BY Zenon, <1>2 DEF SyncFails, UpdateTips, EndFinalize, net, table
  <2>2. CASE \E r \in {"error", "ok"} : job' = NoJob(r)
    BY Zenon, <2>1, <2>2, NoJobSpines, AgreeEnd
  <2>3. CASE job.phase = "tips" /\ job' = [job EXCEPT !.phase = "finalize", !.ok = job.spine]
    <3>1. job'.phase = "finalize" /\ job'.spines = job.spines
      BY Zenon, <2>3 DEF JobType
    <3>2. Base' = Base
      BY Zenon, <2>1, <2>3, <3>1 DEF Base
    <3>3. InitialPart' /\ OnePerSlot'
      BY <2>1, OrderUnchanged
    <3> QED BY Zenon, <2>1, <3>1, <3>2, <3>3 DEF AgreeInv, Slot
  <2> QED BY Zenon, <1>2, <2>2, <2>3 DEF SyncFails, UpdateTips, EndFinalize
<1> QED BY Zenon, <1>1, <1>2

\* Every step of a node under a coordinator that repeats its requests at will
\* keeps AgreeInv.
LEMMA AgreeNext ==
  ASSUME AgreeInv, ChainInv', [ReplayNext]_vars
  PROVE  AgreeInv'
<1>1. TablesInv' /\ TypeOK'
  BY DEF ChainInv, TablesInv
<1>2. CASE Call
  BY Zenon, <1>1, <1>2, AgreeRest, AgreeStartFinalize, AgreeRollbackBlock, AgreeRollbackHead,
     AgreeStartSpine, AgreeFinalizeBlock DEF Call
<1>3. CASE Network
  BY Zenon, <1>1, <1>3, AgreeRest, AgreeExtend DEF Network
<1> QED BY Zenon, <1>2, <1>3, AgreeRest, AgreeHandleFinalize DEF ReplayNext

\* The numbers of a node are an initial part of the linearisation that the
\* coordinator's spines prescribe, however it repeats its requests.
THEOREM InitialPartCorrect == ReplaySpec => []InitialPart
<1>1. ReplaySpec => Spec
  <2>1. [ReplayNext]_vars => [Next]_vars
    BY DEF Next
  <2> QED BY <2>1, PTL DEF ReplaySpec, Spec
<1>2. AgreeInv /\ ChainInv' /\ [ReplayNext]_vars => AgreeInv'
  BY Zenon, AgreeNext
<1>3. AgreeInv => InitialPart
  BY DEF AgreeInv
<1> QED BY <1>1, <1>2, <1>3, AgreeInit, ChainInvariant, PTL DEF ReplaySpec

\* Two nodes that follow one coordinator do not disagree on the order of two
\* finalized blocks: both number them as the spines prescribe.
THEOREM NumbersAgree == ReplaySpec => []Agreement
<1>1. InitialPart => Agreement
  BY Zenon DEF InitialPart, Agreement
<1> QED BY <1>1, InitialPartCorrect, PTL

-----------------------------------------------------------------------------
(* The chain of a spine, also when the coordinator abandons spines.         *)

\* While a spine is finalized, it has its number or waits for it.
SpineWaits == job.phase = "blocks" => nrOf[job.spine] # NoNr \/ job.spine \in job.pending

\* Finalize keeps the spine among the blocks it numbers.
LEMMA SpineStays ==
  ASSUME ChainInv, SpineWaits, [Next]_vars
  PROVE  SpineWaits'
<1> TypeOK /\ job \in JobType /\ nrOf \in [Block -> Nat \cup {NoNr}]
  BY Zenon DEF ChainInv, TablesInv, TypeOK
<1>1. CASE Network \/ (\E s \in Block : Reorg(s)) \/ UNCHANGED vars
  <2>1. job' = job /\ nrOf' = nrOf
    BY Zenon, <1>1 DEF Network, Extend, InsertBlock, Reorg, vars, net, table
  <2> QED BY Zenon, <2>1 DEF SpineWaits
<1>2. ASSUME job'.phase # "blocks" PROVE SpineWaits'
  BY Zenon, <1>2 DEF SpineWaits
<1>3. CASE StartSpine
  <2>1. PICK s \in job.spines :
          job' = IF nrOf[s] # NoNr THEN [job EXCEPT !.spines = @ \ {s}]
                 ELSE IF \E b \in SpineGetDagChain(s) : ~(dag.parents[b] \subseteq known)
                 THEN NoJob("error")
                 ELSE [job EXCEPT !.phase = "blocks", !.spines = @ \ {s}, !.spine = s,
                                  !.nr = lastFinNr, !.pending = SpineGetDagChain(s)]
    BY Zenon, <1>3 DEF StartSpine
  <2>2. s \in Block /\ s \in SpineGetDagChain(s) /\ job.phase = "finalize"
    BY Zenon, <1>3 DEF JobType, SpineGetDagChain, PastWithin, StartSpine
  <2>3. job'.phase = "blocks" => job'.spine = s /\ job'.pending = SpineGetDagChain(s)
    BY Zenon, <2>1, <2>2, NoJobType DEF JobType
  <2>4. dag' = dag /\ nrOf' = nrOf
    BY <1>3 DEF StartSpine, net, table
  <2> QED BY Zenon, <2>2, <2>3 DEF SpineWaits
<1>4. CASE FinalizeBlock
  <2>1. PICK b \in job.pending :
          IF job.nr + 1 \in DOMAIN hashAt
          THEN job' = SetSpineState(job, job.ok, job.nr + 1, "idle")
          ELSE /\ nrOf' = [nrOf EXCEPT ![b] = job.nr + 1]
               /\ job' = [job EXCEPT !.nr = job.nr + 1, !.pending = @ \ {b},
                            !.phase = IF job.pending = {b} THEN "tips" ELSE "blocks"]
    BY Zenon, <1>4 DEF FinalizeBlock, WriteFinalizedBlock
  <2>2. job.phase = "blocks" /\ job.pending \subseteq Block /\ job.nr \in Nat
    BY <1>4 DEF FinalizeBlock, JobType
  <2>3. job.nr + 1 \notin DOMAIN hashAt
    BY SMTT(30), <2>2 DEF ChainInv, LastNr
  <2>4. job'.spine = job.spine /\ job'.pending = job.pending \ {b}
    BY Zenon, <2>1, <2>3 DEF JobType
  <2>5. nrOf' = [nrOf EXCEPT ![b] = job.nr + 1]
    BY Zenon, <2>1, <2>3
  <2>6. job.spine \in Block /\ job.nr + 1 # NoNr
    BY <2>2 DEF JobType, NoNr
  <2> QED BY Zenon, <2>2, <2>4, <2>5, <2>6 DEF SpineWaits
<1>5. CASE \E base, last, c \in Block : HandleFinalize(base, last, c)
  <2>1. job'.phase \in {"idle", "sync"}
    BY ZenonT(60), <1>5, NoJobType DEF HandleFinalize, JobType
  <2> QED BY Zenon, <1>2, <2>1
<1>6. CASE SyncFails \/ UpdateTips \/ EndFinalize
  <2>1. job'.phase \in {"idle", "finalize"}
    BY ZenonT(30), <1>6, NoJobType DEF SyncFails, UpdateTips, EndFinalize, JobType
  <2> QED BY Zenon, <1>2, <2>1
<1>7. CASE StartFinalize
  <2>1. job' = SetSpineState(job, job.base, lastFinNr, "finalize")
    BY Zenon, <1>7 DEF StartFinalize
  <2>2. job'.phase # "blocks"
    BY Zenon, <2>1, NoJobType DEF SetSpineState, JobType
  <2> QED BY Zenon, <1>2, <2>2
<1>8. CASE RollbackBlock \/ RollbackHead
  <2>1. job'.phase # "blocks"
    BY ZenonT(60), <1>8, NoJobType DEF RollbackBlock, RollbackHead, JobType
  <2> QED BY Zenon, <1>2, <2>1
<1> QED BY Zenon, <1>1, <1>3, <1>4, <1>5, <1>6, <1>7, <1>8 DEF Next, ReplayNext, Call

\* While no call fails, SpineGetDagChain misses no ancestor of a spine, although
\* it stops at a block that has a number; after a failure it may (the run
\* fin_retry).
THEOREM ChainCompleteCorrect == Spec => []ChainComplete
<1>1. Init => SpineWaits
  BY NoJobType DEF Init, SpineWaits
<1>2. ChainInv /\ SpineWaits /\ [Next]_vars => SpineWaits'
  BY SpineStays
<1>3. ChainInv /\ SpineWaits => ChainComplete
  <2> SUFFICES ASSUME ChainInv, SpineWaits, job.phase = "blocks"
               PROVE  \A b \in dag.past[job.spine] : nrOf[b] # NoNr \/ b \in job.pending
    BY Zenon DEF ChainComplete
  <2> DEFINE X == {b \in Block : nrOf[b] # NoNr \/ b \in job.pending}
  <2>1. WellFormed(dag) /\ job.spine \in Block
    BY Zenon DEF ChainInv, TablesInv, TypeOK, JobType
  <2>2. \A x \in X : dag.parents[x] \subseteq X
    <3>1. ASSUME NEW x \in X, NEW p \in dag.parents[x] PROVE p \in X
      <4>1. p \in Block
        BY Zenon, <2>1, <3>1, PastStep
      <4> QED BY Zenon, <3>1, <4>1 DEF ChainInv, ParentsFirst
    <3> QED BY Zenon, <3>1
  <2>3. X \in SUBSET Block /\ job.spine \in X
    BY <2>1 DEF SpineWaits
  <2> HIDE DEF X
  <2>4. dag.past[job.spine] \subseteq X
    BY Zenon, <2>1, <2>2, <2>3, PastWithinClosed
  <2> QED BY <2>4 DEF X
<1> QED BY <1>1, <1>2, <1>3, ChainInvariant, PTL DEF Spec

-----------------------------------------------------------------------------
(* SlotLoop: CreatedOnce and EraVerified.                                   *)

(***************************************************************************)
(* The slots of the goroutines and of the blocks lie below the slot that   *)
(* the ticker hands out next, so a new goroutine has a slot of its own; a  *)
(* ticker that starts anew starts after the current slot.  A goroutine     *)
(* that creates holds the lock, so the loop is past it before StopWork     *)
(* returns, and one that gets the lock later finds the creator stopped.    *)
(***************************************************************************)
Holding == {w \in works : w.at \in {"create", "save"}}

SlotInv ==
  /\ clock \in Nat /\ ticker \in Nat
  /\ works \subseteq [slot : 1..clock, at : {"check", "lock", "create", "save"}]
  /\ slots \subseteq 1..clock
  /\ loop = "wait" => works = {}
  /\ loop = "run" => /\ \A w \in works : w.slot < ticker
                     /\ \A s \in slots : s < ticker
  /\ \A v, w \in works : v.slot = w.slot => v = w
  /\ \A w \in works : w.at # "save" => w.slot \notin slots
  /\ \A v, w \in Holding : v = w
  /\ Holding # {} => lock = "work"
  /\ call \in [at : {"none", "lock", "busy", "loading"}, main : BOOLEAN]
  /\ call.at \in {"busy", "loading"} => lock = "fin"
  /\ loop \in {"exit", "done"} => ~running
  /\ stop = "returned" => loop = "done"
  /\ loop = "done" => \A w \in works : w.at # "create"

\* A goroutine that takes a step, or ends, leaves the others alone.
LEMMA SlotStep ==
  ASSUME SlotInv, NEW w \in works, NEW at \in {"lock", "create", "save"},
         works' = Step(w, at)
  PROVE  /\ works' \subseteq [slot : 1..clock, at : {"check", "lock", "create", "save"}]
         /\ \A v \in works' : (v.slot = w.slot /\ v.at = at) \/ (v \in works /\ v.slot # w.slot)
         /\ \A u, v \in works' : u.slot = v.slot => u = v
<1> DEFINE x == [w EXCEPT !.at = at]
<1>1. w \in [slot : 1..clock, at : {"check", "lock", "create", "save"}]
  BY DEF SlotInv
<1>2. x \in [slot : 1..clock, at : {"check", "lock", "create", "save"}]
      /\ x.slot = w.slot /\ x.at = at
  BY <1>1
<1>3. works' = (works \ {w}) \cup {x}
  BY DEF Step
<1> HIDE DEF x
<1>4. \A v \in works' : v = x \/ (v \in works /\ v.slot # w.slot)
  BY Zenon, <1>3 DEF SlotInv
<1> QED BY Zenon, <1>2, <1>3, <1>4 DEF SlotInv

\* Steps that leave the goroutines, the slots and the loop alone.
LEMMA SlotQuiet ==
  ASSUME SlotInv, UNCHANGED <<ticker, ctl, works, slots>>,
         clock' \in Nat, clock <= clock',
         Holding # {} => lock' = "work",
         call' \in [at : {"none", "lock", "busy", "loading"}, main : BOOLEAN],
         call'.at \in {"busy", "loading"} => lock' = "fin"
  PROVE  SlotInv'
<1>1. 1..clock \subseteq 1..clock'
  BY DEF SlotInv
<1>2. Holding' = Holding
  BY DEF Holding
<1> QED BY Zenon, <1>1, <1>2 DEF SlotInv, ctl

\* The goroutines.
LEMMA SlotWork ==
  ASSUME SlotInv, NEW w \in works,
         WorkCheck(w) \/ WorkLock(w) \/ WorkCreate(w) \/ WorkSave(w)
  PROVE  SlotInv'
<1>1. /\ UNCHANGED <<clock, ticker, ctl, call>>
      /\ clock \in Nat /\ ticker \in Nat
      /\ call \in [at : {"none", "lock", "busy", "loading"}, main : BOOLEAN]
  BY Zenon DEF WorkCheck, WorkLock, WorkCreate, WorkSave, SlotInv
<1>2. w \in [slot : 1..clock, at : {"check", "lock", "create", "save"}]
  BY Zenon DEF SlotInv
<1>3. ASSUME works' = works \ {w}, slots' = slots, Holding' # {} => lock' = "work",
             call.at \in {"busy", "loading"} => lock' = "fin"
      PROVE  SlotInv'
  <2>1. Holding' \subseteq Holding
    BY Zenon, <1>3 DEF Holding
  <2> QED BY Zenon, <1>1, <1>3, <2>1 DEF SlotInv, ctl
<1>4. ASSUME NEW at \in {"lock", "create", "save"}, works' = Step(w, at),
             slots' \subseteq slots \cup {w.slot}, at # "save" => slots' = slots,
             w.at # "save", at # "lock" => Holding \subseteq {w},
             Holding' # {} => lock' = "work",
             call.at \in {"busy", "loading"} => lock' = "fin",
             at = "create" => running
      PROVE  SlotInv'
  <2>1. /\ works' \subseteq [slot : 1..clock, at : {"check", "lock", "create", "save"}]
        /\ \A v \in works' : (v.slot = w.slot /\ v.at = at) \/ (v \in works /\ v.slot # w.slot)
        /\ \A u, v \in works' : u.slot = v.slot => u = v
    BY Zenon, <1>4, SlotStep
  <2>2. slots' \subseteq 1..clock
    BY Zenon, <1>2, <1>4 DEF SlotInv
  <2>3. loop # "wait"
    BY DEF SlotInv
  <2>4. loop = "run" => (\A v \in works' : v.slot < ticker) /\ \A s \in slots' : s < ticker
    BY <1>4, <2>1 DEF SlotInv
  <2>5. \A v \in works' : v.at # "save" => v.slot \notin slots'
    <3>1. ASSUME NEW v \in works', v.at # "save" PROVE v.slot \notin slots'
      <4>1. CASE v.slot = w.slot /\ v.at = at
        BY Zenon, <1>4, <3>1, <4>1 DEF SlotInv
      <4>2. CASE v \in works /\ v.slot # w.slot
        BY Zenon, <1>4, <3>1, <4>2 DEF SlotInv
      <4> QED BY Zenon, <2>1, <4>1, <4>2
    <3> QED BY Zenon, <3>1
  <2>6. \A u, v \in Holding' : u = v
    <3>1. ASSUME NEW u \in Holding', NEW v \in Holding' PROVE u.slot = v.slot
      <4>1. CASE at = "lock"
        <5>1. u \in Holding /\ v \in Holding
          BY Zenon, <2>1, <3>1, <4>1 DEF Holding
        <5> QED BY Zenon, <5>1 DEF SlotInv
      <4>2. CASE at # "lock"
        <5>1. \A y \in Holding' : y.slot = w.slot
          BY Zenon, <1>4, <2>1, <4>2 DEF Holding
        <5> QED BY Zenon, <3>1, <5>1
      <4> QED BY Zenon, <4>1, <4>2
    <3> QED BY <2>1, <3>1 DEF Holding
  <2>7. loop = "done" => \A v \in works' : v.at # "create"
    BY Zenon, <1>4, <2>1 DEF SlotInv
  <2> QED BY Zenon, <1>1, <1>4, <2>1, <2>2, <2>3, <2>4, <2>5, <2>6, <2>7 DEF SlotInv, ctl
<1>5. CASE WorkCheck(w)
  <2>1. lock' = lock /\ slots' = slots /\ w.at = "check"
    BY Zenon, <1>5 DEF WorkCheck
  <2>2. CASE works' = works \ {w}
    <3>1. Holding' \subseteq Holding
      BY Zenon, <2>2 DEF Holding
    <3> QED BY Zenon, <1>1, <1>3, <2>1, <2>2, <3>1 DEF SlotInv
  <2>3. CASE works' = Step(w, "lock")
    <3>1. Holding' \subseteq Holding
      BY Zenon, <2>3, SlotStep DEF Holding
    <3> QED BY Zenon, <1>1, <1>4, <2>1, <2>3, <3>1 DEF SlotInv
  <2> QED BY Zenon, <1>5, <2>2, <2>3 DEF WorkCheck
<1>6. CASE WorkLock(w)
  <2>1. lock = "none" /\ lock' = "work" /\ slots' = slots /\ w.at = "lock"
    BY Zenon, <1>6 DEF WorkLock
  <2>2. Holding = {} /\ ~(call.at \in {"busy", "loading"})
    BY <2>1 DEF SlotInv
  <2>3. PICK at \in {"create", "save"} : works' = Step(w, at) /\ (at = "create" => running)
    BY <1>6 DEF WorkLock
  <2> QED BY Zenon, <1>4, <2>1, <2>2, <2>3
<1>7. CASE WorkCreate(w)
  <2>1. lock' = lock /\ slots' \subseteq slots \cup {w.slot} /\ w.at = "create"
        /\ works' = Step(w, "save")
    BY Zenon, <1>7 DEF WorkCreate
  <2>2. w \in Holding
    BY <2>1 DEF Holding
  <2>3. lock = "work" /\ Holding \subseteq {w} /\ ~(call.at \in {"busy", "loading"})
    BY <2>2 DEF SlotInv
  <2> QED BY Zenon, <1>4, <2>1, <2>3
<1>8. CASE WorkSave(w)
  <2>1. slots' = slots /\ w.at = "save" /\ works' = works \ {w}
    BY <1>8 DEF WorkSave
  <2>2. w \in Holding
    BY <2>1 DEF Holding
  <2>3. Holding \subseteq {w} /\ ~(call.at \in {"busy", "loading"})
    BY Zenon, <2>2 DEF SlotInv
  <2>4. Holding' = {}
    BY Zenon, <2>1, <2>3 DEF Holding
  <2> QED BY Zenon, <1>3, <2>1, <2>3, <2>4
<1> QED BY Zenon, <1>5, <1>6, <1>7, <1>8

\* The ticker and the loop.
LEMMA SlotLoopStep ==
  ASSUME SlotInv, StartWork \/ SlotReceived
  PROVE  SlotInv'
<1>1. /\ UNCHANGED <<clock, stop, running, call, lock, slots>>
      /\ clock \in Nat /\ ticker \in Nat /\ slots \subseteq 1..clock
  BY Zenon DEF StartWork, SlotReceived, SlotInv
<1>2. CASE StartWork
  <2>1. /\ works = {} /\ works' = {} /\ ticker' = FirstSlot
        /\ loop = "wait" /\ loop' = "run"
    BY Zenon, <1>2 DEF StartWork, SlotInv
  <2>2. ticker' \in Nat /\ \A s \in slots : s < ticker'
    BY <1>1, <2>1 DEF FirstSlot
  <2> QED BY Zenon, <1>1, <2>1, <2>2 DEF SlotInv, Holding
<1>3. CASE SlotReceived
  <2>1. loop = "run" /\ ticker <= clock /\ ticker' = ticker + 1
    BY Zenon, <1>3 DEF SlotReceived
  <2>2. /\ stop # "returned"
        /\ \A w \in works : w.slot < ticker
        /\ \A s \in slots : s < ticker
        /\ works \subseteq [slot : 1..clock, at : {"check", "lock", "create", "save"}]
    BY Zenon, <2>1 DEF SlotInv
  <2>3. ticker' \in Nat /\ \A s \in slots : s < ticker'
    BY <1>1, <2>1, <2>2
  <2>4. \A w \in works : w.slot < ticker'
    BY <1>1, <2>1, <2>2
  <2>5. CASE works' = works
    <3>1. loop' \in {"run", "panic"}
      BY Zenon, <1>3, <2>1 DEF SlotReceived
    <3>2. Holding' = Holding
      BY Zenon, <2>5 DEF Holding
    <3> QED BY Zenon, <1>1, <2>2, <2>3, <2>4, <2>5, <3>1, <3>2 DEF SlotInv
  <2>6. CASE works' # works
    <3> DEFINE x == [slot |-> ticker, at |-> "check"]
    <3>1. ticker > 0 /\ loop' = "run" /\ works' = works \cup {x}
      BY Zenon, <1>3, <2>1, <2>6 DEF SlotReceived
    <3>2. x \in [slot : 1..clock, at : {"check", "lock", "create", "save"}]
      BY <1>1, <2>1, <3>1
    <3>3. x.slot = ticker /\ x.at = "check"
      BY Zenon
    <3> HIDE DEF x
    <3>4. \A w \in works : w.slot # x.slot
      BY <1>1, <2>2, <3>3
    <3>5. x.slot \notin slots /\ x.slot < ticker'
      BY <1>1, <2>1, <2>2, <3>3
    <3>6. Holding' = Holding
      BY Zenon, <3>1, <3>3 DEF Holding
    <3>7. \A u, v \in works' : u.slot = v.slot => u = v
      BY Zenon, <3>1, <3>4 DEF SlotInv
    <3>8. \A w \in works' : w.slot < ticker' /\ (w.at # "save" => w.slot \notin slots')
      BY Zenon, <1>1, <2>4, <3>1, <3>5 DEF SlotInv
    <3> QED BY Zenon, <1>1, <2>2, <2>3, <3>1, <3>2, <3>6, <3>7, <3>8 DEF SlotInv
  <2> QED BY Zenon, <2>5, <2>6
<1> QED BY Zenon, <1>2, <1>3

\* SlotInv is inductive.
LEMMA SlotInvNext == SlotInv /\ [SlotNext]_slotVars => SlotInv'
<1> SUFFICES ASSUME SlotInv, [SlotNext]_slotVars PROVE SlotInv'
  OBVIOUS
<1> DEFINE Calls == [at : {"none", "lock", "busy", "loading"}, main : BOOLEAN]
<1>1. clock \in Nat /\ call \in Calls
  BY Zenon DEF SlotInv
<1>2. CASE Tick \/ UNCHANGED slotVars
  <2>1. /\ UNCHANGED <<ticker, ctl, works, slots, lock, call>>
        /\ clock' \in Nat /\ clock <= clock'
    BY <1>1, <1>2 DEF Tick, slotVars
  <2> QED BY Zenon, <2>1, SlotQuiet DEF SlotInv
<1>3. CASE \E main \in BOOLEAN : HandleFinalizeCall(main)
  <2>1. /\ UNCHANGED <<clock, ticker, ctl, works, slots, lock>>
        /\ call' \in Calls /\ (call'.at \in {"busy", "loading"} => call' = call)
    BY <1>1, <1>3 DEF HandleFinalizeCall
  <2>2. call'.at \in {"busy", "loading"} => lock' = "fin"
    BY Zenon, <2>1 DEF SlotInv
  <2>3. Holding # {} => lock' = "work"
    BY Zenon, <2>1 DEF SlotInv
  <2> HIDE DEF Calls
  <2> QED BY <1>1, <2>1, <2>2, <2>3, SlotQuiet DEF Calls
<1>4. CASE FinalizeLock
  <2>1. /\ UNCHANGED <<clock, ticker, ctl, works, slots>>
        /\ lock = "none" /\ lock' = "fin" /\ call' = [call EXCEPT !.at = "busy"]
    BY <1>4 DEF FinalizeLock
  <2>2. Holding = {}
    BY <2>1 DEF SlotInv
  <2>3. call' \in Calls
    BY Zenon, <1>1, <2>1
  <2> QED BY <1>1, <2>1, <2>2, <2>3, SlotQuiet
<1>5. CASE FinalizeSync
  <2>1. /\ UNCHANGED <<clock, ticker, ctl, works, slots, lock>>
        /\ call.at = "busy" /\ call' = [call EXCEPT !.at = "loading"]
    BY <1>5 DEF FinalizeSync
  <2>2. lock = "fin" /\ Holding = {}
    BY <2>1 DEF SlotInv
  <2>3. call' \in Calls
    BY <1>1, <2>1
  <2> QED BY <1>1, <2>1, <2>2, <2>3, SlotQuiet
<1>6. CASE FinalizeFails \/ \E e, l \in 0..MaxSlot : FinalizeDone(e, l)
  <2>1. /\ UNCHANGED <<clock, ticker, ctl, works, slots>>
        /\ call.at \in {"busy", "loading"} /\ call' = NoCall
    BY Zenon, <1>6 DEF FinalizeFails, FinalizeDone, Finished
  <2>2. lock = "fin" /\ Holding = {}
    BY Zenon, <2>1 DEF SlotInv
  <2>3. call' \in Calls /\ call'.at = "none"
    BY Zenon, <2>1 DEF NoCall
  <2> QED BY <1>1, <2>1, <2>2, <2>3, SlotQuiet
<1>7. CASE StopWork \/ ExitReceived \/ Exit
  <2>1. UNCHANGED <<clock, ticker, works, slots, lock, call>>
    BY Zenon, <1>7 DEF StopWork, ExitReceived, Exit
  <2>2. Holding' = Holding
    BY Zenon, <2>1 DEF Holding
  <2>3. CASE StopWork
    BY <2>1, <2>2, <2>3 DEF StopWork, SlotInv
  <2>4. CASE ExitReceived
    BY Zenon, <2>1, <2>2, <2>4 DEF ExitReceived, SlotInv
  <2>5. CASE Exit
    <3>1. \A w \in works : w.at # "create"
      BY Zenon, <2>5 DEF Exit, ExitLocks, SlotInv, Holding
    <3> QED BY Zenon, <2>1, <2>2, <2>5, <3>1 DEF Exit, ExitLocks, SlotInv
  <2> QED BY Zenon, <1>7, <2>3, <2>4, <2>5
<1>8. CASE StartAgain
  <2>1. /\ UNCHANGED <<clock, ticker, slots>> /\ works' = {} /\ call' = NoCall
        /\ loop' = "wait" /\ stop' = "no"
    BY Zenon, <1>8 DEF StartAgain
  <2>2. call' \in Calls /\ call'.at = "none"
    BY <2>1 DEF NoCall
  <2> QED BY Zenon, <2>1, <2>2 DEF SlotInv, Holding
<1> QED BY Zenon, <1>2, <1>3, <1>4, <1>5, <1>6, <1>7, <1>8, SlotLoopStep, SlotWork DEF SlotNext

\* A node creates blocks for a slot once, also when it is stopped and started
\* within the slot, and none after StopWork returned.
THEOREM CreatedOnceCorrect == SlotSpec => CreatedOnce
<1> DEFINE Once == block' # block /\ block' # NoBlock
                     => block'.slot \notin slots /\ stop # "returned"
<1>1. SlotInit => SlotInv
  BY DEF SlotInit, SlotInv, Holding, NoCall
<1>2. SlotInv /\ [SlotNext]_slotVars => [Once]_slotVars
  <2> SUFFICES ASSUME SlotInv, SlotNext, block' # block, block' # NoBlock
               PROVE  block'.slot \notin slots /\ stop # "returned"
    OBVIOUS
  <2>1. PICK w \in works : WorkCreate(w)
    BY Zenon DEF SlotNext, Tick, StartWork, SlotReceived, WorkCheck, WorkLock, WorkSave,
           HandleFinalizeCall, FinalizeLock, FinalizeSync, FinalizeFails, FinalizeDone,
           Finished, StopWork, ExitReceived, Exit, StartAgain
  <2>2. w.at = "create" /\ block'.slot = w.slot
    BY <2>1 DEF WorkCreate
  <2> QED BY Zenon, <2>2 DEF SlotInv
<1>3. SlotInv /\ [SlotNext]_slotVars => SlotInv'
  BY Zenon, SlotInvNext
<1> QED BY <1>1, <1>2, <1>3, PTL DEF SlotSpec, CreatedOnce

-----------------------------------------------------------------------------
(***************************************************************************)
(* EraVerified.  With a coordinator in time the last checkpoint is of the  *)
(* current epoch or the one before, so the recorded era is that of the     *)
(* clock or the one before, and prepareBlockHeader tells which.  With      *)
(* goroutines in time a goroutine is done in the slot it was started for,  *)
(* and so the era of the clock is that of the block's slot.                *)
(***************************************************************************)
InTime == config.steady /\ config.prompt

EraInv ==
  /\ clock \in Nat /\ ticker \in Nat /\ fin \in Nat
  /\ fin <= SlotToEpoch(clock) /\ SlotToEpoch(clock) <= fin + 1
  /\ era = fin \div EpochsPerEra
  /\ loop = "run" => clock <= ticker
  /\ \A w \in works : w.slot = clock
  /\ block # NoBlock => /\ \E w \in works : w.at = "save"
                        /\ block.slot = clock
                        /\ block.era = SlotToEpoch(clock) \div EpochsPerEra

EraInTime == InTime => EraInv

\* The quotient is the number of whole divisors.
LEMMA Quotient ==
  ASSUME NEW a \in Nat, NEW d \in Nat \ {0}
  PROVE  /\ a \div d \in Nat
         /\ (a \div d) * d <= a /\ a < (a \div d + 1) * d
         /\ \A q \in Nat : q * d <= a /\ a < (q + 1) * d => a \div d = q
<1>1. a \div d \in Nat /\ (a \div d) * d <= a /\ a < (a \div d + 1) * d
  OBVIOUS
<1>2. ASSUME NEW q \in Nat, q * d <= a, a < (q + 1) * d PROVE a \div d = q
  <2>1. ASSUME NEW x \in Nat, NEW y \in Nat, x < y PROVE (x + 1) * d <= y * d
    <3>1. PICK z \in Nat : y = x + 1 + z
      <4>1. y - (x + 1) \in Nat /\ y = x + 1 + (y - (x + 1))
        BY <2>1
      <4> QED BY <4>1
    <3>2. y * d = (x + 1) * d + z * d /\ z * d \in Nat
      BY <3>1
    <3> QED BY <3>2
  <2>2. ~(q < a \div d) /\ ~(a \div d < q)
    BY <1>1, <1>2, <2>1
  <2> QED BY <1>1, <2>2
<1> QED BY Zenon, <1>1, <1>2

\* SlotToEpoch is monotone.
LEMMA EpochTick ==
  ASSUME SlotLoopConstants, NEW s \in Nat
  PROVE  /\ SlotToEpoch(s) \in Nat /\ SlotToEpoch(s + 1) \in Nat
         /\ SlotToEpoch(s) <= SlotToEpoch(s + 1)
<1>1. SlotsPerEpoch \in Nat \ {0}
  BY DEF SlotLoopConstants
<1> QED BY <1>1 DEF SlotToEpoch

\* prepareBlockHeader takes the era of the clock.
LEMMA HeaderEraOfClock ==
  ASSUME SlotLoopConstants, EraInv
  PROVE  HeaderEra = SlotToEpoch(clock) \div EpochsPerEra
<1>1. EpochsPerEra \in Nat \ {0} /\ fin \in Nat
  BY Zenon DEF SlotLoopConstants, EraInv
<1>2. SlotToEpoch(clock) \in Nat
  BY Zenon, EpochTick DEF EraInv
<1>3. era \in Nat /\ era * EpochsPerEra <= fin /\ fin < (era + 1) * EpochsPerEra
  BY Zenon, <1>1, Quotient DEF EraInv
<1>4. CASE SlotToEpoch(clock) >= ToEpoch + 1
  <2>1. (era + 1) * EpochsPerEra <= SlotToEpoch(clock)
    BY <1>1, <1>2, <1>3, <1>4 DEF ToEpoch
  <2>2. (era + 1 + 1) * EpochsPerEra = (era + 1) * EpochsPerEra + EpochsPerEra
    BY <1>1, <1>3
  <2>3. SlotToEpoch(clock) < (era + 1 + 1) * EpochsPerEra
    BY <1>1, <1>2, <1>3, <2>2 DEF EraInv
  <2> QED BY SMTT(30), <1>1, <1>2, <1>3, <1>4, <2>1, <2>3, Quotient DEF HeaderEra
<1>5. CASE ~(SlotToEpoch(clock) >= ToEpoch + 1)
  <2>1. SlotToEpoch(clock) < (era + 1) * EpochsPerEra
    BY <1>1, <1>2, <1>3, <1>5 DEF ToEpoch
  <2>2. era * EpochsPerEra <= SlotToEpoch(clock)
    BY <1>1, <1>2, <1>3 DEF EraInv
  <2> QED BY Zenon, <1>1, <1>2, <1>3, <1>5, <2>1, <2>2, Quotient DEF HeaderEra
<1> QED BY Zenon, <1>4, <1>5

\* EraInv is inductive while coordinator and goroutines are in time.
LEMMA EraNext ==
  ASSUME SlotLoopConstants, EraInTime, [SlotNext]_slotVars
  PROVE  EraInTime'
<1> SUFFICES ASSUME InTime, EraInv PROVE EraInv'
  BY Zenon DEF EraInTime, InTime, SlotNext, slotVars, Tick, StartWork, SlotReceived, WorkCheck,
         WorkLock, WorkCreate, WorkSave, HandleFinalizeCall, FinalizeLock, FinalizeSync,
         FinalizeFails, FinalizeDone, Finished, StopWork, ExitReceived, Exit, StartAgain
<1>1. /\ clock \in Nat /\ ticker \in Nat /\ fin \in Nat
      /\ SlotToEpoch(clock) \in Nat /\ SlotToEpoch(clock + 1) \in Nat
      /\ SlotToEpoch(clock) <= SlotToEpoch(clock + 1)
  BY Zenon, EpochTick DEF EraInv
<1>2. CASE UNCHANGED slotVars
  BY Zenon, <1>2 DEF slotVars, ctl, netVars, EraInv, SlotToEpoch
<1>3. CASE Tick
  <2>1. /\ works = {} /\ (ticker > clock \/ loop # "run")
        /\ SlotToEpoch(clock + 1) <= fin + 1
        /\ clock' = clock + 1 /\ UNCHANGED <<ticker, loop, works, fin, era, block>>
    BY Zenon, <1>3 DEF Tick, InTime, ctl, netVars
  <2>2. block = NoBlock
    BY <2>1 DEF EraInv
  <2> QED BY <1>1, <2>1, <2>2 DEF EraInv, SlotToEpoch
<1>4. CASE StartWork
  <2>1. /\ ticker' \in Nat /\ clock <= ticker'
        /\ UNCHANGED <<clock, works, fin, era, block>>
    BY <1>1, <1>4 DEF StartWork, FirstSlot, netVars
  <2> QED BY Zenon, <1>1, <2>1 DEF EraInv, SlotToEpoch
<1>5. CASE SlotReceived
  <2>1. /\ loop = "run" /\ ticker <= clock /\ ticker' = ticker + 1
        /\ UNCHANGED <<clock, fin, era, block>>
        /\ works' = works \/ works' = works \cup {[slot |-> ticker, at |-> "check"]}
    BY Zenon, <1>5 DEF SlotReceived, netVars
  <2>2. ticker = clock /\ ticker' \in Nat /\ clock <= ticker'
    BY <1>1, <2>1 DEF EraInv
  <2>3. works \subseteq works' /\ \A w \in works' : w.slot = clock
    BY <2>1, <2>2 DEF EraInv
  <2> QED BY Zenon, <1>1, <2>1, <2>2, <2>3 DEF EraInv, SlotToEpoch
<1>6. ASSUME NEW w \in works,
             WorkCheck(w) \/ WorkLock(w) \/ WorkCreate(w) \/ WorkSave(w)
      PROVE  EraInv'
  <2>1. /\ UNCHANGED <<clock, ticker, loop, fin, era>>
        /\ works' = works \ {w} \/ \E at : works' = Step(w, at)
    BY Zenon, <1>6 DEF WorkCheck, WorkLock, WorkCreate, WorkSave, netVars, ctl
  <2>2. \A v \in works' : v.slot = clock
    <3>1. ASSUME NEW at PROVE [w EXCEPT !.at = at].slot = w.slot
      OBVIOUS
    <3>2. \A v \in works : v.slot = clock
      BY Zenon DEF EraInv
    <3>3. ASSUME NEW at PROVE \A v \in Step(w, at) : v.slot = clock
      BY Zenon, <3>1, <3>2 DEF Step
    <3> QED BY Zenon, <2>1, <3>2, <3>3
  <2>3. block' # NoBlock => /\ \E v \in works' : v.at = "save"
                            /\ block'.slot = clock
                            /\ block'.era = SlotToEpoch(clock) \div EpochsPerEra
    <3>1. CASE WorkCheck(w) \/ WorkLock(w)
      <4>1. block' = block /\ w.at # "save" /\ works \ {w} \subseteq works'
        BY Zenon, <3>1 DEF WorkCheck, WorkLock, Step
      <4> QED BY Zenon, <4>1 DEF EraInv
    <3>2. CASE WorkCreate(w)
      <4>1. [w EXCEPT !.at = "save"] \in works' /\ works \ {w} \subseteq works'
            /\ w.at = "create"
        BY Zenon, <3>2 DEF WorkCreate, Step
      <4>2. block' = block \/ (block'.slot = clock /\ block'.era = HeaderEra)
        BY <3>2 DEF WorkCreate, EraInv
      <4>3. CASE block' = block
        BY Zenon, <4>1, <4>3 DEF EraInv
      <4>4. CASE block' # block
        <5>1. PICK v \in works' : v = [w EXCEPT !.at = "save"]
          BY Zenon, <4>1
        <5>2. v.at = "save"
          BY <3>2, <5>1 DEF WorkCreate
        <5> QED BY Zenon, <4>2, <4>4, <5>2, HeaderEraOfClock
      <4> QED BY Zenon, <4>3, <4>4
    <3>3. CASE WorkSave(w)
      BY Zenon, <3>3 DEF WorkSave
    <3> QED BY Zenon, <1>6, <3>1, <3>2, <3>3
  <2> QED BY Zenon, <1>1, <2>1, <2>2, <2>3 DEF EraInv, SlotToEpoch
<1>7. CASE \/ \E main \in BOOLEAN : HandleFinalizeCall(main)
           \/ FinalizeLock \/ FinalizeSync \/ FinalizeFails
  BY Zenon, <1>7 DEF HandleFinalizeCall, FinalizeLock, FinalizeSync, FinalizeFails, Finished,
              EraInv, SlotToEpoch, netVars, ctl
<1>8. ASSUME NEW e \in 0..MaxSlot, NEW l \in 0..MaxSlot, FinalizeDone(e, l)
      PROVE  EraInv'
  <2>1. /\ e = SlotToEpoch(clock) /\ fin' = e /\ era' = NewEra(e)
        /\ UNCHANGED <<clock, ticker, loop, works, block>>
    BY Zenon, <1>8 DEF FinalizeDone, Finished, InTime, ctl
  <2>2. era' = e \div EpochsPerEra
    <3>1. EpochsPerEra \in Nat \ {0} /\ e \in Nat /\ fin <= e
      BY Zenon, <1>1, <2>1 DEF SlotLoopConstants, EraInv
    <3>2. era \in Nat /\ era * EpochsPerEra <= fin
      BY Zenon, <1>1, <3>1, Quotient DEF EraInv
    <3>3. CASE ~(e >= ToEpoch + 1)
      <4>1. era * EpochsPerEra <= e /\ e < (era + 1) * EpochsPerEra
        BY <1>1, <3>1, <3>2, <3>3 DEF ToEpoch
      <4> QED BY Zenon, <2>1, <3>1, <3>2, <3>3, <4>1, Quotient DEF NewEra
    <3> QED BY Zenon, <2>1, <3>3 DEF NewEra
  <2> QED BY <1>1, <2>1, <2>2 DEF EraInv, SlotToEpoch
<1>9. CASE StopWork \/ ExitReceived \/ Exit
  BY Zenon, <1>9 DEF StopWork, ExitReceived, Exit, EraInv, SlotToEpoch, netVars
<1>10. CASE StartAgain
  BY Zenon, <1>10 DEF StartAgain, EraInv, SlotToEpoch, netVars, NoBlock
<1> QED BY Zenon, <1>2, <1>3, <1>4, <1>5, <1>6, <1>7, <1>8, <1>9, <1>10 DEF SlotNext

\* If the coordinator and the goroutines are in time, a block that
\* prepareBlockHeader makes carries the era that VerifyBlockEra computes from its
\* slot, whatever the lengths of epochs and eras.
THEOREM EraVerifiedCorrect ==
  ASSUME SlotLoopConstants PROVE SlotSpec => []EraVerified
<1>1. SlotInit => EraInTime
  <2>1. 0 \div SlotsPerEpoch = 0 /\ 0 \div EpochsPerEra = 0
    BY Quotient DEF SlotLoopConstants
  <2> QED BY <2>1 DEF SlotInit, EraInTime, EraInv, SlotToEpoch
<1>2. EraInTime /\ [SlotNext]_slotVars => EraInTime'
  BY Zenon, EraNext
<1>3. EraInTime => EraVerified
  BY Zenon DEF EraInTime, EraInv, InTime, EraVerified
<1> QED BY <1>1, <1>2, <1>3, PTL DEF SlotSpec
=============================================================================
