------------------------------ MODULE SlotLoop ------------------------------
(***************************************************************************)
(* The creation of blocks, slot by slot: Dag.StartWork, workLoop, work and *)
(* StopWork with the slot ticker, against Dag.HandleFinalize, which holds  *)
(* the same lock (dagMu) while it finalizes.                               *)
(*                                                                         *)
(* The ticker hands each slot to the loop once, and the loop starts a      *)
(* goroutine work(slot) for it unless the node is not synchronised or the  *)
(* coordinator has been silent for an epoch.  A block carries the era and  *)
(* the checkpoint that the goroutine reads when it gets the lock.          *)
(*                                                                         *)
(* A checkpoint is named by the epoch of its finalization, eras have a     *)
(* fixed length, and what a block contains is left out.                    *)
(***************************************************************************)
EXTENDS Integers, FiniteSets

CONSTANTS
  SlotsPerEpoch, EpochsPerEra, TransitionPeriod,
  MaxSlot,     \* bound: the last slot
  MaxWorks,    \* bound: goroutines at a time
  Configs      \* prompt: a goroutine is done within its slot; steady: the
               \* coordinator finalizes every epoch; stop: the node is stopped;
               \* slots: bound on the clock

\* What the settings may be.
SlotLoopConstants ==
  {SlotsPerEpoch, EpochsPerEra} \subseteq Nat \ {0}

VARIABLES
  config,
  clock,       \* the current slot
  ticker,      \* the slot that the ticker hands out next
  loop,        \* where the goroutine of StartWork and workLoop is
  stop,        \* where StopWork is
  running,     \* the creator runs
  works,       \* goroutines work(slot)
  call,        \* HandleFinalize
  lock,        \* the holder of dagMu
  synced, lastFinApiSlot,
  saved,       \* Dag.checkpoint
  fin,         \* FinEpoch of the last coordinated checkpoint
  epochs,      \* epochs with a recorded checkpoint
  lf,          \* the slot of the last finalized block
  era,         \* the current era
  next,        \* the next era is recorded
  block,       \* the block that is created while the lock is held
  slots,       \* the slots for which a block was created
  begun        \* fin when the slot before and this slot began

NoCp == -1
NoBlock == [slot |-> -1, era |-> -1, cp |-> NoCp]
NoCall == [at |-> "none", main |-> FALSE]

netVars == <<fin, epochs, lf, era, next>>
ctl == <<loop, stop, running>>
slotVars == <<config, clock, ticker, ctl, works, call, lock, synced,
              lastFinApiSlot, saved, netVars, block, slots, begun>>

SlotToEpoch(s) == s \div SlotsPerEpoch
ToEpoch == (era + 1) * EpochsPerEra - 1

-----------------------------------------------------------------------------
SlotInit ==
  /\ config \in Configs
  /\ clock = 0 /\ ticker = 0
  /\ loop = "wait" /\ stop = "no" /\ running = TRUE
  /\ works = {} /\ call = NoCall /\ lock = "none"
  /\ synced = FALSE /\ lastFinApiSlot = 0 /\ saved = NoCp
  /\ fin = 0 /\ epochs = {0} /\ lf = 0 /\ era = 0 /\ next = FALSE
  /\ block = NoBlock /\ slots = {} /\ begun = <<0, 0>>

\* Time passes.
Tick ==
  /\ clock < config.slots /\ Cardinality(works) < MaxWorks
  /\ config.prompt => works = {} /\ (ticker > clock \/ loop # "run")
  /\ config.steady =>
       /\ call = NoCall
       /\ SlotToEpoch(clock + 1) <= fin + 1
       /\ clock - lastFinApiSlot < SlotsPerEpoch
  /\ clock' = clock + 1
  /\ begun' = <<begun[2], fin>>
  /\ UNCHANGED <<config, ticker, ctl, works, call, lock, synced, lastFinApiSlot,
                 saved, netVars, block, slots>>

-----------------------------------------------------------------------------
(* The loop.                                                                *)

\* Mutant: the ticker starts with the current slot.
FirstSlotCurrent == clock

\* NewSlotTicker: the next slot, but the first one if the chain just starts.
FirstSlot == IF clock = 0 THEN 0 ELSE clock + 1

StartWork ==
  /\ loop = "wait"
  /\ loop' = "run" /\ ticker' = FirstSlot
  /\ UNCHANGED <<config, clock, stop, running, works, call, lock, synced,
                 lastFinApiSlot, saved, netVars, block, slots, begun>>

IsCoordinatorConnectionLost == clock - lastFinApiSlot > SlotsPerEpoch

\* EpochToEra finds an era; else the code dereferences nil.
EraKnown(e) == e <= ToEpoch \/ (next /\ e <= ToEpoch + EpochsPerEra)

Seed(s) == IF SlotToEpoch(s) = 0 THEN 0 ELSE SlotToEpoch(s) - 1

\* workLoop receives a slot.
SlotReceived ==
  /\ loop = "run" /\ ticker <= clock
  /\ ticker' = ticker + 1
  /\ LET s == ticker
     IN  \/ /\ s = 0
            /\ synced' = TRUE /\ saved' = NoCp
            /\ UNCHANGED <<loop, works>>
         \/ /\ s > 0 /\ ~synced
            /\ saved' = NoCp
            /\ UNCHANGED <<loop, works, synced>>
         \/ /\ s > 0 /\ synced /\ IsCoordinatorConnectionLost
            /\ synced' = FALSE
            /\ UNCHANGED <<loop, works, saved>>
         \/ /\ s > 0 /\ synced /\ ~IsCoordinatorConnectionLost
            /\ \/ /\ EraKnown(SlotToEpoch(s)) /\ Seed(s) \in epochs
                  /\ works' = works \cup {[slot |-> s, at |-> "check"]}
                  /\ UNCHANGED loop
               \/ /\ EraKnown(SlotToEpoch(s)) /\ Seed(s) \notin epochs
                  /\ UNCHANGED <<loop, works>>
               \/ /\ ~EraKnown(SlotToEpoch(s))
                  /\ loop' = "panic"
                  /\ UNCHANGED works
            /\ UNCHANGED <<synced, saved>>
  /\ UNCHANGED <<config, clock, stop, running, call, lock, lastFinApiSlot, netVars,
                 block, slots, begun>>

-----------------------------------------------------------------------------
(* work(slot).                                                              *)

Step(w, at) == (works \ {w}) \cup {[w EXCEPT !.at = at]}

\* Before the lock: the node is synchronised and the slot is not finalized.
WorkCheck(w) ==
  /\ w.at = "check"
  /\ works' = IF synced /\ w.slot > lf THEN Step(w, "lock") ELSE works \ {w}
  /\ UNCHANGED <<config, clock, ticker, ctl, call, lock, synced, lastFinApiSlot,
                 saved, netVars, block, slots, begun>>

WorkLock(w) ==
  /\ w.at = "lock" /\ lock = "none"
  /\ lock' = "work"
  /\ works' = Step(w, IF running THEN "create" ELSE "save")
  /\ UNCHANGED <<config, clock, ticker, ctl, call, synced, lastFinApiSlot, saved,
                 netVars, block, slots, begun>>

\* Mutant: a block of the next era carries the current one.
HeaderEraCurrent == era

\* prepareBlockHeader: by the clock, the next era may have begun.
HeaderEra == IF SlotToEpoch(clock) >= ToEpoch + 1 THEN era + 1 ELSE era

\* The last goroutine's checkpoint: others have had a slot to learn of it.
SavedCp == IF saved = NoCp THEN fin ELSE saved

\* RunBlockCreation, if the node has a creator of the slot.
WorkCreate(w) ==
  /\ w.at = "create"
  /\ \/ /\ block' = [slot |-> w.slot, era |-> HeaderEra, cp |-> SavedCp]
        /\ slots' = slots \cup {w.slot}
     \/ UNCHANGED <<block, slots>>
  /\ works' = Step(w, "save")
  /\ UNCHANGED <<config, clock, ticker, ctl, call, lock, synced, lastFinApiSlot,
                 saved, netVars, begun>>

SaveCheckpoint == saved' = fin

WorkSave(w) ==
  /\ w.at = "save"
  /\ SaveCheckpoint
  /\ lock' = "none"
  /\ works' = works \ {w}
  /\ block' = NoBlock
  /\ UNCHANGED <<config, clock, ticker, ctl, call, synced, lastFinApiSlot, netVars,
                 slots, begun>>

-----------------------------------------------------------------------------
(* HandleFinalize.                                                          *)

HandleFinalizeCall(main) ==
  /\ call = NoCall /\ loop \in {"wait", "run"}
  /\ lastFinApiSlot' = clock
  /\ call' = [at |-> "lock", main |-> main] \/ UNCHANGED call   \* isCpUnacceptable
  /\ UNCHANGED <<config, clock, ticker, ctl, works, lock, synced, saved, netVars, block,
                 slots, begun>>

FinalizeLock ==
  /\ call.at = "lock" /\ lock = "none"
  /\ lock' = "fin"
  /\ call' = [call EXCEPT !.at = "busy"]
  /\ UNCHANGED <<config, clock, ticker, ctl, works, synced, lastFinApiSlot, saved,
                 netVars, block, slots, begun>>

\* handleSyncUnloadedBlocks: blocks are missing.
FinalizeSync ==
  /\ call.at = "busy" /\ ~call.main /\ ~config.steady
  /\ synced' = FALSE
  /\ call' = [call EXCEPT !.at = "loading"]
  /\ UNCHANGED <<config, clock, ticker, ctl, works, lock, lastFinApiSlot, saved,
                 netVars, block, slots, begun>>

\* HandleEra for the checkpoint e, of an epoch that the clock has reached.
NewEra(e) ==
  IF e >= ToEpoch + 1 THEN e \div EpochsPerEra ELSE era

NextRecorded(e) == NewEra(e) = era /\ (next \/ e = ToEpoch + 1 - TransitionPeriod)

Finished ==
  /\ call' = NoCall /\ lock' = "none"
  /\ UNCHANGED <<config, clock, ticker, ctl, works, lastFinApiSlot, saved, block,
                 slots, begun>>

SyncedAgain == synced' = (synced \/ ~call.main)

FinalizeDone(e, l) ==
  /\ call.at \in {"busy", "loading"}
  /\ e \in fin..SlotToEpoch(clock) /\ l \in lf..(clock - 1)
  /\ config.steady => e = SlotToEpoch(clock)
  /\ fin' = e /\ epochs' = epochs \cup {e} /\ lf' = l
  /\ era' = NewEra(e) /\ next' = NextRecorded(e)
  /\ SyncedAgain
  /\ Finished

\* An error of Finalize is reported, but the node counts as synchronised; any
\* other error ends the call before.
FinalizeFails ==
  /\ call.at \in {"busy", "loading"} /\ ~config.steady
  /\ SyncedAgain \/ UNCHANGED synced
  /\ UNCHANGED netVars
  /\ Finished

-----------------------------------------------------------------------------
(* StopWork, and the next start of the node.                                *)

StopWork ==
  /\ config.stop /\ stop = "no"
  /\ stop' = "asked"
  /\ UNCHANGED <<config, clock, ticker, loop, running, works, call, lock, synced,
                 lastFinApiSlot, saved, netVars, block, slots, begun>>

\* Mutant: StartWork does not receive from exitChan.
ExitReceivedNot == loop = "run"

\* StartWork and workLoop receive from exitChan.
ExitReceives == loop \in {"wait", "run"}

\* They stop the creator.
ExitReceived ==
  /\ stop = "asked" /\ ExitReceives
  /\ stop' = "waiting" /\ loop' = "exit" /\ running' = FALSE
  /\ UNCHANGED <<config, clock, ticker, works, call, lock, synced, lastFinApiSlot,
                 saved, netVars, block, slots, begun>>

\* The loop takes the lock and releases it.
ExitLocks == loop = "exit" /\ lock = "none"

Exit ==
  /\ ExitLocks
  /\ loop' = "done" /\ stop' = "returned"
  /\ UNCHANGED <<config, clock, ticker, running, works, call, lock, synced,
                 lastFinApiSlot, saved, netVars, block, slots, begun>>

StartAgain ==
  /\ loop \in {"done", "panic"} /\ stop # "asked"
  /\ EraKnown(SlotToEpoch(clock))
  /\ loop' = "wait" /\ stop' = "no" /\ running' = TRUE
  /\ works' = {} /\ call' = NoCall /\ lock' = "none"
  /\ synced' = FALSE /\ lastFinApiSlot' = 0 /\ saved' = NoCp
  /\ block' = NoBlock
  /\ UNCHANGED <<config, clock, ticker, netVars, slots, begun>>

-----------------------------------------------------------------------------
Work ==
  \E w \in works : WorkCheck(w) \/ WorkLock(w) \/ WorkCreate(w) \/ WorkSave(w)

Finalize ==
  \/ FinalizeLock \/ FinalizeSync \/ FinalizeFails
  \/ \E e, l \in 0..MaxSlot : FinalizeDone(e, l)

SlotNext ==
  \/ Tick \/ StartWork \/ SlotReceived
  \/ \E w \in works : WorkCheck(w)
  \/ \E w \in works : WorkLock(w)
  \/ \E w \in works : WorkCreate(w)
  \/ \E w \in works : WorkSave(w)
  \/ \E main \in BOOLEAN : HandleFinalizeCall(main)
  \/ FinalizeLock \/ FinalizeSync \/ FinalizeFails
  \/ \E e, l \in 0..MaxSlot : FinalizeDone(e, l)
  \/ StopWork \/ ExitReceived \/ Exit \/ StartAgain

SlotSpec == SlotInit /\ [][SlotNext]_slotVars

\* Goroutines run, the lock is fair to the loop, and a call in progress ends.
SlotFairSpec ==
  /\ SlotSpec
  /\ WF_slotVars(Work) /\ WF_slotVars(Finalize)
  /\ WF_slotVars(ExitReceived) /\ SF_slotVars(Exit)

-----------------------------------------------------------------------------
(* Properties.                                                              *)

\* Every variable has its type; the lock is held by at most one goroutine or call.
SlotTypeOK ==
  /\ clock \in 0..MaxSlot /\ ticker \in 0..(MaxSlot + 1)
  /\ loop \in {"wait", "run", "exit", "done", "panic"}
  /\ stop \in {"no", "asked", "waiting", "returned"}
  /\ works \subseteq [slot : 0..MaxSlot, at : {"check", "lock", "create", "save"}]
  /\ Cardinality({w \in works : w.at \in {"create", "save"}})
       = (IF lock = "work" THEN 1 ELSE 0)
  /\ (lock = "fin") <=> call.at \in {"busy", "loading"}
  /\ saved \in {NoCp} \cup epochs /\ fin \in epochs

\* StopWork returns, whatever finalization or creation is in progress, unless
\* the loop is dead.
StopReturns == stop = "asked" ~> (stop \in {"returned", "no"} \/ loop = "panic")

\* If the coordinator and the goroutines are in time, a block carries the era
\* that VerifyBlockEra computes from its slot, also around the end of an era.
EraVerified ==
  config.steady /\ config.prompt /\ block # NoBlock =>
    block.era = SlotToEpoch(block.slot) \div EpochsPerEra

\* A node creates blocks for a slot once, also if it is stopped and started
\* within the slot, and none after StopWork returned: a goroutine that creates
\* one holds the lock that exitProcedurre waits for, and a later one finds the
\* creator stopped.
CreatedOnce ==
  [][block' # block /\ block' # NoBlock =>
       block'.slot \notin slots /\ stop # "returned"]_slotVars
=============================================================================
