-------------------------------- MODULE Eras --------------------------------
(***************************************************************************)
(* The eras of a node and the validators of an era.                        *)
(*                                                                         *)
(* Every coordinated checkpoint is shown to HandleEra.  TransitionPeriod   *)
(* epochs before the current era ends it records the next era, with the    *)
(* state of that checkpoint as the era's state, and a goroutine prepares   *)
(* the validators of the next era.  Once a checkpoint is past the current  *)
(* era, the next one becomes current, and is recorded first if it was not. *)
(* Which validators an era has depends on its state alone, so nodes agree  *)
(* on them if they record the eras alike.  A start of the node repeats a   *)
(* transition that it finds missing.                                       *)
(*                                                                         *)
(* A checkpoint is named by the epoch of its finalization (FinEpoch), and  *)
(* so is the state of its spine.                                           *)
(***************************************************************************)
EXTENDS Integers, FiniteSetsExt, Functions

CONSTANTS
  Validators,
  Record,            \* [Validators -> [since, act, exit]]: the first state with
                     \* the record, the eras of activation and exit
  TransitionPeriod, EpochsPerEra,
  PerEra,            \* EpochsPerEra * SlotsPerEpoch * ValidatorsPerSlot
  CacheCapacity,
  MaxEpoch,          \* bound: the last epoch of a checkpoint
  Configs            \* dynamic: eras grow with the validators
                     \* (StartEpochsPerEra); skips: epochs without a
                     \* checkpoint; restart: "never", "clean" (between
                     \* finalizations) or "any"; lookups; prompt: a goroutine of
                     \* PrepareNextEraValidators starts before the lookups of
                     \* its era and ends before the next transition

VARIABLES
  config,
  fin,      \* FinEpoch of the last coordinated checkpoint
  lf,       \* the epoch of the last finalized block
  epochs,   \* epochs with a recorded checkpoint
  eras,     \* the recorded eras
  cur,      \* the current era
  job,      \* HandleEra: "none", "new" checkpoint, or an era "entered" for it
  prep,     \* goroutines of PrepareNextEraValidators
  flags,    \* processTransition
  cache,    \* allActiveValidatorsCache: how often a validator is listed
  look,     \* a call of GetValidators
  halted    \* the node refused to start

mem == <<prep, flags, cache, look>>
vars == <<config, fin, lf, epochs, eras, cur, job, mem, halted>>

-----------------------------------------------------------------------------
(* Eras.                                                                    *)

Contains(n, e) == eras[n].from <= e /\ e <= eras[n].to
Known(n) == n \in DOMAIN eras

\* A binary search below the current era, a scan above it.  The result is not
\* Known if no era with the epoch is recorded: the code dereferences nil.
EpochToEra(e) ==
  LET Search[lo \in Nat, hi \in Int] ==
        LET n == (lo + hi) \div 2
        IN  IF Contains(n, e) THEN n
            ELSE IF eras[n].to > e THEN Search[lo, n - 1] ELSE Search[n + 1, hi]
      Scan[n \in Nat] == IF ~Known(n) \/ Contains(n, e) THEN n ELSE Scan[n + 1]
  IN  IF e < eras[cur].from THEN Search[0, cur] ELSE Scan[cur]

EstimateEraLength(count) ==
  IF config.dynamic
  THEN EpochsPerEra * ((count + PerEra - 1) \div PerEra)
  ELSE EpochsPerEra

NextEra(root, count) ==
  [from |-> eras[cur].to + 1,
   to |-> eras[cur].to + EstimateEraLength(count),
   root |-> root]

-----------------------------------------------------------------------------
(* The validators of an era.                                                *)

InState(root) == {v \in Validators : Record[v].since <= root}

Active(n) ==
  {v \in InState(eras[n].root) : Record[v].act <= n /\ n < Record[v].exit}

Once(V) == [v \in Validators |-> IF v \in V THEN 1 ELSE 0]

\* Without a cached list the validators of the following era count as well.
CountInState(n) ==
  Cardinality({v \in InState(eras[n].root) :
                 Record[v].act <= n + 1 /\ n < Record[v].exit})

GetActiveValidatorsCount(n) ==
  IF n \in DOMAIN cache THEN FoldFunction(+, 0, cache[n]) ELSE CountInState(n)

\* A full cache loses its oldest era.
AddAllActiveValidatorsByEra(n, V) ==
  LET kept == IF Cardinality(DOMAIN cache) = CacheCapacity
              THEN DOMAIN cache \ {Min(DOMAIN cache)} ELSE DOMAIN cache
  IN  [m \in kept \cup {n} |-> IF m = n THEN Once(V) ELSE cache[m]]

AddValidator(n, v) ==
  [m \in DOMAIN cache \cup {n} |->
     LET list == IF m \in DOMAIN cache THEN cache[m] ELSE Once({})
     IN  IF m = n THEN [list EXCEPT ![v] = @ + 1] ELSE list]

-----------------------------------------------------------------------------
NoLook == [at |-> "none", era |-> 0, list |-> Once({})]

Init ==
  /\ config \in Configs
  /\ fin = 0 /\ lf = 0 /\ epochs = {0}
  /\ eras = [n \in {0} |->
       [from |-> 0, root |-> 0,
        to |-> EstimateEraLength(Cardinality(InState(0))) - 1]]
  /\ cur = 0 /\ job = "none"
  /\ prep = {} /\ flags = {} /\ cache = [n \in {} |-> Once({})]
  /\ look = NoLook /\ halted = FALSE

\* HandleFinalize finalizes blocks and records the checkpoint.
SetLastCoordinatedCheckpoint(e, l) ==
  /\ ~halted /\ job = "none"
  /\ e \in fin..MaxEpoch
  /\ l \in IF config.restart = "never" THEN {e} ELSE lf..e   \* only a restart reads lf
  /\ config.skips \/ e <= fin + 1
  /\ fin' = e /\ lf' = l
  /\ epochs' = epochs \cup {e}
  /\ job' = "new"
  /\ UNCHANGED <<config, eras, cur, mem, halted>>

\* The next era is recorded, with the state of the checkpoint cp.
WriteNextEra(cp, count) ==
  eras' = [m \in DOMAIN eras \cup {cur + 1} |->
             IF m \in DOMAIN eras THEN eras[m] ELSE NextEra(cp, count)]

\* The validators are counted at an epoch, once its era has been prepared.
WriteCountedEra(cp, epoch) ==
  LET n == EpochToEra(epoch)
  IN  n \notin flags /\ WriteNextEra(cp, GetActiveValidatorsCount(n))

Goroutine == [era |-> cur + 1, on |-> FALSE, todo |-> {}]

\* HandleEra: the checkpoint is past the current era.  An era is recorded
\* before it becomes current, in a write of its own.
EnterNextEra ==
  /\ job # "none" /\ eras[cur].to + 1 <= fin
  /\ \/ /\ Known(cur + 1)
        /\ cur' = cur + 1 /\ job' = "entered"
        /\ UNCHANGED eras
     \/ /\ ~Known(cur + 1)
        /\ WriteCountedEra(fin, eras[cur].to + 1 - TransitionPeriod)
        /\ UNCHANGED <<cur, job>>
  /\ UNCHANGED <<config, fin, lf, epochs, mem, halted>>

TransitionEpoch == eras[cur].to + 1 - TransitionPeriod

\* Mutant: the era gets the state of the checkpoint before.
StartTransitionPeriodStale(cp) ==
  \/ /\ ~Known(cur + 1) /\ cp >= TransitionPeriod
     /\ WriteCountedEra(Max({e \in epochs : e < cp}), cp - TransitionPeriod)
     /\ prep' = prep \cup {Goroutine}
  \/ /\ Known(cur + 1) \/ cp < TransitionPeriod
     /\ UNCHANGED <<eras, prep>>

StartTransitionPeriod(cp) ==
  \/ /\ ~Known(cur + 1) /\ cp >= TransitionPeriod
     /\ config.prompt => prep = {}
     /\ WriteCountedEra(cp, cp - TransitionPeriod)
     /\ prep' = prep \cup {Goroutine}
  \/ /\ Known(cur + 1) \/ cp < TransitionPeriod
     /\ UNCHANGED <<eras, prep>>

\* HandleEra otherwise: the checkpoint that enters an era starts no transition.
HandleEra ==
  /\ job # "none" /\ eras[cur].to + 1 > fin
  /\ \/ job = "new" /\ TransitionEpoch = fin /\ StartTransitionPeriod(fin)
     \/ (job = "entered" \/ TransitionEpoch # fin) /\ UNCHANGED <<eras, prep>>
  /\ job' = "none"
  /\ UNCHANGED <<config, fin, lf, epochs, cur, flags, cache, look, halted>>

-----------------------------------------------------------------------------
(* The goroutine of PrepareNextEraValidators.                               *)

PrepareStart(p) ==
  /\ ~p.on
  /\ flags' = flags \cup {p.era}
  /\ prep' = (prep \ {p}) \cup {[p EXCEPT !.on = TRUE, !.todo = Active(p.era)]}
  /\ UNCHANGED <<config, fin, lf, epochs, eras, cur, job, cache, look, halted>>

PrepareAdd(p, v) ==
  /\ p.on /\ v \in p.todo
  /\ cache' = AddValidator(p.era, v)
  /\ prep' = (prep \ {p}) \cup {[p EXCEPT !.todo = @ \ {v}]}
  /\ UNCHANGED <<config, fin, lf, epochs, eras, cur, job, flags, look, halted>>

PrepareEnd(p) ==
  /\ p.on /\ p.todo = {}
  /\ flags' = flags \ {p.era}
  /\ prep' = prep \ {p}
  /\ UNCHANGED <<config, fin, lf, epochs, eras, cur, job, cache, look, halted>>

-----------------------------------------------------------------------------
(* GetValidators, for a slot of an epoch of a known era.                    *)

\* Mutant: a lookup does not wait for the preparation.
TransitionProcessingNot(n) == FALSE

\* checkTransitionProcessing waits while this holds.
TransitionProcessing(n) == n \in flags

GetValidators(e) ==
  LET n == EpochToEra(e)
  IN  /\ ~halted /\ config.lookups /\ look.at = "none" /\ Known(n)
      /\ ~TransitionProcessing(n)
      /\ config.prompt => \A p \in prep : p.era = n => p.on
      /\ look' = [NoLook EXCEPT !.at = "cache", !.era = n]
      /\ UNCHANGED <<config, fin, lf, epochs, eras, cur, job, prep, flags,
                     cache, halted>>

ReadCache ==
  /\ look.at = "cache"
  /\ look' = IF look.era \in DOMAIN cache
             THEN [look EXCEPT !.at = "done", !.list = cache[look.era]]
             ELSE [look EXCEPT !.at = "state"]
  /\ UNCHANGED <<config, fin, lf, epochs, eras, cur, job, prep, flags, cache,
                 halted>>

ReadState ==
  /\ look.at = "state"
  /\ cache' = AddAllActiveValidatorsByEra(look.era, Active(look.era))
  /\ look' = [look EXCEPT !.at = "done", !.list = Once(Active(look.era))]
  /\ UNCHANGED <<config, fin, lf, epochs, eras, cur, job, prep, flags, halted>>

Return ==
  /\ look.at = "done"
  /\ look' = NoLook
  /\ UNCHANGED <<config, fin, lf, epochs, eras, cur, job, prep, flags, cache,
                 halted>>

-----------------------------------------------------------------------------
(* A stop at any point, and the start of eth.New.                           *)

IsTransitionPeriodEpoch(e) ==
  /\ eras[cur].to >= TransitionPeriod
  /\ eras[cur].to - TransitionPeriod <= e /\ e <= eras[cur].to

\* The transition is found missing.
Missing == IsTransitionPeriodEpoch(lf) /\ ~Known(cur + 1)

TransitionStart ==
  Min({e \in eras[cur].from..eras[cur].to : IsTransitionPeriodEpoch(e)})

\* The era's count is then taken without a cache.
Restart ==
  /\ config.restart # "never" /\ (config.restart = "clean" => job = "none")
  /\ ~halted
  /\ flags' = {} /\ look' = NoLook /\ job' = "none"
  /\ cache' = [n \in {} |-> Once({})]
  /\ LET cp == TransitionStart
     IN  \/ /\ Missing /\ cp \in epochs /\ cp >= TransitionPeriod
            /\ WriteNextEra(cp, CountInState(EpochToEra(cp - TransitionPeriod)))
            /\ prep' = {Goroutine} /\ UNCHANGED halted
         \/ /\ Missing /\ cp \notin epochs
            /\ halted' = TRUE /\ prep' = {} /\ UNCHANGED eras
         \/ /\ ~Missing \/ (cp \in epochs /\ cp < TransitionPeriod)
            /\ prep' = {} /\ UNCHANGED <<eras, halted>>
  /\ UNCHANGED <<config, fin, lf, epochs, cur>>

Next ==
  \/ \E e, l \in 0..MaxEpoch : SetLastCoordinatedCheckpoint(e, l)
  \/ EnterNextEra \/ HandleEra
  \/ \E p \in prep : PrepareStart(p)
  \/ \E p \in prep : \E v \in p.todo : PrepareAdd(p, v)
  \/ \E p \in prep : PrepareEnd(p)
  \/ \E e \in 0..MaxEpoch : GetValidators(e)
  \/ ReadCache \/ ReadState \/ Return
  \/ Restart

Spec == Init /\ [][Next]_vars

-----------------------------------------------------------------------------
(* Properties.                                                              *)

Lists == [Validators -> Nat]

\* The recorded eras are numbered from 0 up to the current one or the next.
TypeOK ==
  /\ {fin, lf} \cup epochs \subseteq 0..MaxEpoch
  /\ DOMAIN eras = 0..cur \/ DOMAIN eras = 0..(cur + 1)
  /\ \A n \in DOMAIN eras : eras[n] \in [from : Nat, to : Nat, root : epochs]
  /\ job \in {"none", "new", "entered"} /\ halted \in BOOLEAN
  /\ prep \subseteq [era : DOMAIN eras, on : BOOLEAN, todo : SUBSET Validators]
  /\ DOMAIN cache \subseteq DOMAIN eras /\ flags \subseteq DOMAIN eras
  /\ look \in [at : {"none", "cache", "state", "done"}, era : DOMAIN eras,
               list : Lists]

\* The checkpoint that enters an era is the first one in it or after it.
Enters(e, n) == n > 0 /\ e >= eras[n].from /\ \A f \in epochs : f >= eras[n].from => e <= f

\* The state of an era is that of the checkpoint finalized TransitionPeriod
\* epochs before the era starts, or of the one that enters it: of the first if
\* there is one, unless it entered the era before (it then starts the
\* transition only if it is finalized again).  Nodes with the same checkpoints
\* record the same eras (StartTransitionPeriod, EnterNextEra).
EraRoots ==
  \A n \in DOMAIN eras \ {0} :
    LET start == eras[n].from - TransitionPeriod
    IN  \/ eras[n].root = start
        \/ /\ Enters(eras[n].root, n)
           /\ start \notin epochs \/ Enters(start, n - 1)

\* ... as long as the node is not restarted.
EraRootsSteady == config.restart = "never" => EraRoots

\* GetValidators lists every validator of the era exactly once, whether it
\* finds the list in the cache, reads the state, or meets the goroutine that
\* fills the cache.
ValidatorsListed ==
  look.at = "done" /\ config.prompt => look.list = Once(Active(look.era))

=============================================================================
