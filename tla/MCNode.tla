------------------------------- MODULE MCNode -------------------------------
(***************************************************************************)
(* Parts of a node, one of which is active in a behaviour: the staking of  *)
(* a validator, the DAG blocks of several nodes, and the parts of the      *)
(* synchronisation with peers.  The parts share no state; the others stay  *)
(* in their initial state.  The variables of Staking, Downloader and       *)
(* HeadSync are those of their modules.                                    *)
(***************************************************************************)
EXTENDS Downloader, HeadSync, Staking, TLC

CONSTANTS Nodes

VARIABLES
  active,   \* the part of this behaviour
  \* DagBlocks
  bConfig, hdr, bSlot, order, spines, cps, known, bdag, tips, fin, cpn, saved, stale,
  \* SpineSync
  dag, lf, base, terminal, from, chunks, written, inserted, delayed, result

-----------------------------------------------------------------------------
(* Staking without delegation, with both forks on the way and requests that *)
(* may expire.                                                              *)

StakingShare == [t \in BOOLEAN |-> [a \in Addr |-> 50]]
StakingBy == [t \in BOOLEAN |-> {WithdrawalAddress}]

ASSUME StakingConstants /\ ~Delegating

-----------------------------------------------------------------------------
(* DagBlocks: two creators, a row of checkpoints, the fork of the rules on  *)
(* the last finalized block, and a longer chain of one creator.             *)

DagConfig(b, s, c, fork, creators) ==
  [blocks |-> b, slots |-> s, cps |-> c, forkSlotPrefixFin |-> fork, creators |-> creators]

DagConfigs ==
  {DagConfig(4, 3, 1, 0, 2), DagConfig(3, 3, 3, 0, 2), DagConfig(3, 3, 1, 3, 2),
   DagConfig(4, 4, 3, 0, 1)}

B == INSTANCE DagBlocks WITH Configs <- DagConfigs, config <- bConfig, slot <- bSlot

-----------------------------------------------------------------------------
(* Downloader: an inserter that fetches parents, and a second one beside    *)
(* the finalization thread, with two peers.                                 *)

SyncPlan == [s \in Sorts |-> <<"header">>]
SyncJobs == [inserter |-> {"parents"}, other |-> Sorts]

ASSUME DownloaderConstants

-----------------------------------------------------------------------------
(* SpineSync: a DAG that is two blocks wide, whose chunks end in the middle *)
(* of a slot, and one in which a block of an early slot is finalized late.  *)

Wide ==
  [slot |-> (0 :> 0) @@ <<1, 1, 2, 2, 3, 3, 4>>,
   parents |-> (0 :> {}) @@ <<{0}, {0}, {1, 2}, {1}, {3, 4}, {3}, {5, 6}>>,
   order |-> <<1, 2, 3, 4, 5, 6, 7>>, spines |-> {1, 3, 5, 7}, heads |-> {1, 3, 5, 7}]

Late ==
  [slot |-> (0 :> 0) @@ <<1, 1, 2, 3, 4>>,
   parents |-> (0 :> {}) @@ <<{0}, {0}, {1}, {3, 2}, {4}>>,
   order |-> <<1, 3, 2, 4, 5>>, spines |-> {1, 3, 4, 5}, heads |-> {1, 2, 4, 5}]

H == INSTANCE SpineSync WITH Dags <- {Wide, Late}, Limit <- 2, IterLimit <- 10

-----------------------------------------------------------------------------
(* HeadSync: up to three peers for two tokens, and ranges of two slots, one *)
(* of which ends in front of the last slot.                                 *)

ASSUME HeadSyncConstants

-----------------------------------------------------------------------------
(* One part at a time.                                                      *)

bVars == <<bConfig, hdr, bSlot, order, spines, cps, known, bdag, tips, fin, cpn, saved, stale>>
hVars == <<dag, lf, base, terminal, from, chunks, written, inserted, delayed, result>>
allVars == <<active, stakingVars, bVars, vars, hVars, headVars>>

Symmetric == Permutations(Nodes)

\* The initial values of an active part, one of them for a part that is not.
Only(part, values) == IF active = part THEN values ELSE {CHOOSE v \in values : TRUE}

AllInit ==
  /\ active \in {"staking", "blocks", "download", "chunks", "head"}
  /\ StakingInit
  /\ bConfig \in Only("blocks", DagConfigs) /\ B!Init
  /\ Init
  /\ dag \in Only("chunks", {Wide, Late})
  /\ lf \in Only("chunks", {0} \cup dag.heads)
  /\ base \in Only("chunks", {0} \cup dag.spines)
  /\ terminal \in Only("chunks", {t \in dag.spines : dag.slot[t] > dag.slot[base]})
  /\ H!Init
  /\ untried \in Only("head", {1..n : n \in 0..MaxPeers})
  /\ current \in Only("head", Base..MaxCurrent)
  /\ HeadInit

AllNext ==
  \/ active = "staking" /\ StakingNext /\ UNCHANGED <<active, bVars, vars, hVars, headVars>>
  \/ active = "blocks" /\ B!Next /\ UNCHANGED <<active, stakingVars, vars, hVars, headVars>>
  \/ active = "download" /\ Next /\ UNCHANGED <<active, stakingVars, bVars, hVars, headVars>>
  \/ active = "chunks" /\ H!Next /\ UNCHANGED <<active, stakingVars, bVars, vars, headVars>>
  \/ active = "head" /\ HeadNext /\ UNCHANGED <<active, stakingVars, bVars, vars, hVars>>

AllSpec == AllInit /\ [][AllNext]_allVars

-----------------------------------------------------------------------------
(* The properties of the parts, whose modules explain them; those of        *)
(* Staking, Downloader and HeadSync have the same names there.              *)

\* Every node computes the height that the creator wrote into a header.
HeightsAgree == B!HeightsAgree
\* A height is the number of a block's ancestors.
HeightIsPast == B!HeightIsPast
\* An unfinalized block stays below a tip.
TipsCover == B!TipsCover

\* A synchronisation by spines that succeeds is complete.
ChunksComplete == H!ChunksComplete
=============================================================================
