--------------------------- MODULE MCFinalization ---------------------------
(***************************************************************************)
(* Finalizer in three modes: a steady coordinator; one that repeats its    *)
(* requests and abandons spines; and failures.  The variables of Finalizer *)
(* are those of the first two, a second set of them is for the third, and  *)
(* the set that is not in use stays in its initial state.                  *)
(***************************************************************************)
EXTENDS MCFinalizer

VARIABLES
  mode,
  rDag, rCoord, rKnown, rNrOf, rHashAt, rLastFin, rLastFinNr, rTips,
  rCheckpoints, rLastCp, rDoomed, rJob

R == INSTANCE Finalizer WITH
  Dags <- MCFaultyDags, dag <- rDag, coord <- rCoord, known <- rKnown, nrOf <- rNrOf,
  hashAt <- rHashAt, lastFin <- rLastFin, lastFinNr <- rLastFinNr, tips <- rTips,
  checkpoints <- rCheckpoints, lastCp <- rLastCp, doomed <- rDoomed, job <- rJob

rVars == <<rDag, rCoord, rKnown, rNrOf, rHashAt, rLastFin, rLastFinNr, rTips,
           rCheckpoints, rLastCp, rDoomed, rJob>>
allVars == <<mode, vars, rVars>>

Steady(A) == mode = "steady" /\ A /\ UNCHANGED <<mode, rVars>>
Faulty(A) == mode = "faulty" /\ A /\ UNCHANGED <<mode, vars>>

\* The initial values in a mode that uses them, one of them in another mode.
Only(modes, values) == IF mode \in modes THEN values ELSE {CHOOSE v \in values : TRUE}

AllInit ==
  /\ mode \in {"steady", "free", "faulty"}
  /\ dag \in Only({"steady", "free"}, Dags) /\ Init
  /\ rDag \in Only({"faulty"}, MCFaultyDags) /\ R!Init

AllNext ==
  \/ Steady(SteadyNext)
  \/ mode = "free" /\ Next /\ UNCHANGED <<mode, rVars>>
  \/ Faulty(R!FaultyNext)

\* The fairness of Finalizer, in the mode that the behaviour has.
AllSpec ==
  /\ AllInit /\ [][AllNext]_allVars
  /\ WF_allVars(Steady(Call) \/ Faulty(R!Call))
  /\ SF_allVars(Steady(Ask) \/ Faulty(R!Ask))
  /\ \A b \in Block : SF_allVars(Steady(InsertBlock(b)) \/ Faulty(R!InsertBlock(b)))
  /\ WF_allVars(Faulty(R!Restart \/ \E h \in Block : R!SetHead(h)))

\* Under a steady coordinator all nodes number the blocks alike.
SteadyAgreement == mode = "steady" => Agreement

\* Under a steady coordinator its spines get finalized.
SteadyFinalized == mode = "steady" => SpinesFinalized

\* After failures the number tables are inverse of each other, and a stored block
\* has its parents stored, although Restart and SetHead undo half-done work.
FaultyTables == R!TablesInverse /\ R!KnownClosed

\* Once failures stop, the spines get finalized all the same.
FaultyRecovers == R!Recovers

=============================================================================
