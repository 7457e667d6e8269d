----------------------------- MODULE MCConsensus -----------------------------
(***************************************************************************)
(* Parts of the consensus layer, one of which is active in a behaviour.    *)
(* The parts share no state; the others stay in their initial state.       *)
(* SlotLoop and Finalizer have their own variables.                        *)
(***************************************************************************)
EXTENDS SlotLoop, Finalizer, TLC

VARIABLES
  active,   \* the part of this behaviour
  \* Eras
  eConfig, eFin, eLf, eEpochs, eras, cur, eJob, prep, flags, eCache, look, halted,
  \* Spines
  pConfig, stored, ins, pTips, pCache, calls, nr, given,
  \* ValSync
  slot, store, vBlock, draft, seen, chain, fate, done, res,
  \* Staking
  kSlot, val, balance, held, rewards, asked, ops, kNext, kGiven, back

-----------------------------------------------------------------------------
(* Eras: three validators, one of them of the genesis, one that joins in    *)
(* the first era and one that leaves in the second.                         *)

EraRecord ==
  [v \in {"stays", "joins", "leaves"} |->
     CASE v = "stays" -> [since |-> 0, act |-> 0, exit |-> 9]
       [] v = "joins" -> [since |-> 1, act |-> 1, exit |-> 9]
       [] v = "leaves" -> [since |-> 0, act |-> 0, exit |-> 2]]

EraConfig(dynamic, skips, restart, lookups, prompt) ==
  [dynamic |-> dynamic, skips |-> skips, restart |-> restart,
   lookups |-> lookups, prompt |-> prompt]

\* Checkpoints of all epochs or of some, eras of a fixed length or a growing
\* one, and restarts.
EraConfigs ==
  {EraConfig(FALSE, FALSE, "never", TRUE, TRUE), EraConfig(FALSE, TRUE, "never", FALSE, FALSE),
   EraConfig(TRUE, FALSE, "never", FALSE, FALSE), EraConfig(FALSE, TRUE, "any", FALSE, TRUE),
   EraConfig(FALSE, FALSE, "clean", TRUE, TRUE)}

E == INSTANCE Eras WITH
  Validators <- DOMAIN EraRecord, Record <- EraRecord, TransitionPeriod <- 1,
  EpochsPerEra <- 2, PerEra <- 2, CacheCapacity <- 3, MaxEpoch <- 5, Configs <- EraConfigs,
  config <- eConfig, fin <- eFin, lf <- eLf, epochs <- eEpochs, job <- eJob,
  cache <- eCache

-----------------------------------------------------------------------------
(* SlotLoop: creation in time under a coordinator that finalizes every      *)
(* epoch or not, and slow creation with a stop of the node.                 *)

SlotConfigs ==
  {[prompt |-> TRUE, steady |-> TRUE, stop |-> FALSE, slots |-> 6],
   [prompt |-> TRUE, steady |-> FALSE, stop |-> FALSE, slots |-> 4],
   [prompt |-> FALSE, steady |-> FALSE, stop |-> TRUE, slots |-> 2]}

ASSUME SlotLoopConstants

-----------------------------------------------------------------------------
(* Spines: two DAGs of five blocks in three slots, in which the spine of a  *)
(* slot is not an ancestor of all later blocks.                             *)

SpineBlock == 0..5

SpineDag(par) ==
  LET P[b \in SpineBlock] == {b} \cup UNION {P[p] : p \in par[b]}
  IN  [slot |-> [b \in SpineBlock |-> (b + 1) \div 2], parents |-> par, past |-> P,
       cp |-> [b \in SpineBlock |-> 0],
       height |-> [b \in SpineBlock |-> Cardinality(P[b]) - 1]]

SpineDags ==
  {SpineDag(<<{0}, {0}, {1}, {1, 2}, {3, 4}>> @@ (0 :> {})),
   SpineDag(<<{0}, {0}, {2}, {2}, {1, 3}>> @@ (0 :> {}))}

SpineConfigs == {[dag |-> d, overlap |-> o] : d \in SpineDags, o \in BOOLEAN}

P == INSTANCE Spines WITH
  Block <- SpineBlock, Genesis <- 0, Dags <- SpineDags, Readers <- {1},
  Configs <- SpineConfigs,
  config <- pConfig, tips <- pTips, cache <- pCache

-----------------------------------------------------------------------------
(* Finalizer with the goroutine of RemoveOutdatedTips, on every DAG of four *)
(* blocks in two slots, whatever checkpoints its blocks stand on.           *)

D == INSTANCE SmallDags WITH NBlocks <- 4, NSlots <- 2

FinalizerDags == D!MCCpDags

-----------------------------------------------------------------------------
(* ValSync: two nodes, one operation and two transactions that carry it,    *)
(* with evictions from the cache.                                           *)

V == INSTANCE ValSync WITH
  Nodes <- {"n1", "n2"}, Ops <- {"o1"}, Txs <- {"t1", "t2"}, NoTx <- "NoTx",
  InitTx <- "InitTx", Confirmed <- [o \in {"o1"} |-> {1}], SlotsPerEpoch <- 2,
  ForkSlotDelegate <- 0, MaxSlot <- 4, DataFirst <- TRUE, Faults <- {"evict"},
  block <- vBlock

-----------------------------------------------------------------------------
(* Staking with delegation, under a coordinator that is in time.  The trial *)
(* gives all of the profit to one account and all of the stake to the other *)
(* one; after it, the profit is shared and the stake is the first one's.    *)

K == INSTANCE Staking WITH
  Addr <- {"a1", "a2"}, WithdrawalAddress <- "a1", Funds <- 200, Amounts <- {100, 200},
  EffectiveBalance <- 300, ValidatorOpExpireSlots <- 3, SlotsPerEra <- 1,
  ForkSlotValOpTracking <- 0, ForkSlotValSyncProc <- 0, Delegating <- TRUE,
  TrialPeriod <- 1,
  ProfitShare <- [t \in BOOLEAN |-> [a \in {"a1", "a2"} |->
                    IF t THEN IF a = "a1" THEN 100 ELSE 0 ELSE 50]],
  StakeShare <- [t \in BOOLEAN |-> [a \in {"a1", "a2"} |->
                   IF t = (a = "a2") THEN 100 ELSE 0]],
  ExitBy <- [t \in BOOLEAN |-> {"a2"}],
  WithdrawalBy <- [t \in BOOLEAN |-> IF t THEN {"a2"} ELSE {"a1", "a2"}],
  Timely <- TRUE, LastSlot <- 5, MaxRewards <- 100, MaxRequests <- 2,
  slot <- kSlot, next <- kNext, given <- kGiven

ASSUME K!StakingConstants

-----------------------------------------------------------------------------
(* One part at a time.                                                      *)

eVars == <<eConfig, eFin, eLf, eEpochs, eras, cur, eJob, prep, flags, eCache, look, halted>>
pVars == <<pConfig, stored, ins, pTips, pCache, calls, nr, given>>
vVars == <<slot, store, vBlock, draft, seen, chain, fate, done, res>>
kVars == <<kSlot, val, balance, held, rewards, asked, ops, kNext, kGiven, back>>
allVars == <<active, eVars, slotVars, pVars, vars, vVars, kVars>>

\* The initial values of an active part, one of them for a part that is not.
Only(part, values) == IF active = part THEN values ELSE {CHOOSE v \in values : TRUE}

AllInit ==
  /\ active \in {"eras", "slots", "spines", "prune", "sync", "staking"}
  /\ eConfig \in Only("eras", EraConfigs) /\ E!Init
  /\ config \in Only("slots", Configs) /\ SlotInit
  /\ pConfig \in Only("spines", SpineConfigs) /\ P!Init
  /\ dag \in Only("prune", Dags) /\ Init
  /\ V!Init
  /\ K!StakingInit

Slots(A) == active = "slots" /\ A /\ UNCHANGED <<active, eVars, pVars, vars, vVars, kVars>>
Sync(A) == active = "sync" /\ A /\ UNCHANGED <<active, eVars, slotVars, pVars, vars, kVars>>
Stake(A) == active = "staking" /\ A /\ UNCHANGED <<active, eVars, slotVars, pVars, vars, vVars>>

AllNext ==
  \/ active = "eras" /\ E!Next /\ UNCHANGED <<active, slotVars, pVars, vars, vVars, kVars>>
  \/ Slots(SlotNext)
  \/ active = "spines" /\ P!Next /\ UNCHANGED <<active, eVars, slotVars, vars, vVars, kVars>>
  \/ active = "prune" /\ PruneNext /\ UNCHANGED <<active, eVars, slotVars, pVars, vVars, kVars>>
  \/ Sync(V!Next)
  \/ Stake(K!StakingNext)

\* The fairness of SlotLoop, of ValSync and of Staking.  A behaviour has one
\* active part, so one condition serves an action of each of them.
AllSpec ==
  /\ AllInit /\ [][AllNext]_allVars
  /\ WF_allVars(Slots(Work) \/ Sync(V!Tick) \/ Stake(K!NextSlot))
  /\ WF_allVars(\/ Slots(Finalize)
                \/ Sync(\E t \in {"t1", "t2"}, f \in V!Fates : V!Order(t, f))
                \/ Stake(\E r \in asked : K!ConfirmExit(r) \/ K!ConfirmWithdrawal(r)))
  /\ WF_allVars(\/ Slots(ExitReceived)
                \/ Sync(\E n \in {"n1", "n2"}, t \in {"t1", "t2"} : V!Insert(n, t))
                \/ Stake(\E o \in ops : K!Execute(o)))
  /\ SF_allVars(Slots(Exit))
  /\ WF_allVars(Sync(\E n \in {"n1", "n2"}, t \in {"t1", "t2"} : V!CreateBlock(n, "o1", t)))
  /\ WF_allVars(Sync(\E n \in {"n1", "n2"} : V!Commit(n)))
  /\ \A n \in {"n1", "n2"} :
       WF_allVars(Sync(\E d \in V!SyncData : DOMAIN d = {"o1"} /\ V!Confirm(n, d)))

-----------------------------------------------------------------------------
(* The properties of the parts, whose modules explain them; those of        *)
(* SlotLoop and Finalizer have the same names there.                        *)

\* Without restarts every node records an era with the same state.
EraRootsSteady == E!EraRootsSteady
\* GetValidators lists every validator of its era once.
ValidatorsListed == E!ValidatorsListed

\* The candidates given are those that finalization would take.
CandidatesAgree == P!CandidatesAgree
\* Candidates a node gave pass its own validation later on.
GivenValid == P!GivenValid

\* Nodes agree on the result of every validator sync transaction.
ReceiptsAgree == V!Agreement
\* A confirmed operation is carried out at every node.
OpsCarriedOut == V!OpsCarriedOut

\* In time, every confirmed operation on a validator is carried out.
OpsSettled == K!OpsSettled
=============================================================================
