------------------------------- MODULE TxPool -------------------------------
(***************************************************************************)
(* The transaction pool: TxPool of core/tx_pool.go with its lists          *)
(* (core/tx_list.go), its virtual nonces (core/tx_noncer.go) and its       *)
(* journal (core/tx_journal.go), fed by the chain and by senders.          *)
(*                                                                         *)
(* Every part of the code that holds pool.mu is one action.  A list is a   *)
(* set with one transaction per nonce; a missing list and an empty one are *)
(* the same, since the code deletes a list that becomes empty.  A price    *)
(* stands for the fee cap, the tip and the cost.  txPricedList decides     *)
(* which cheap remote transactions a full pool drops; here it may be any.  *)
(***************************************************************************)
EXTENDS Integers, SequencesExt

CONSTANTS
  Accounts,
  Txs,            \* records with fields from, nonce and price
  PriceBump,      \* percent
  PriceLimit,     \* the first gasPrice
  Configs         \* limits of the pool, and what its environment may do

(***************************************************************************)
(* A configuration has the limits of the pool (accountSlots, globalSlots,  *)
(* accountQueue, globalQueue, all positive), the blocks that may enter the *)
(* DAG (sequences of transactions), the balances senders may have, whether *)
(* AddRemotes and AddLocals are called (locals), the prices for            *)
(* SetGasPrice, a bound on the calls of Add (adds), whether the node may   *)
(* restart, and whether it may synchronise.                                *)
(***************************************************************************)

VARIABLES
  config,    \* chosen at the start
  pool,      \* the fields of TxPool that pool.mu protects, see NewPool
  gasPrice,
  journal,   \* the transactions in the journal file
  chain,     \* the state of the last finalized block, and the blocks
  events,    \* of the chain that the pool's loop has not received
  request,   \* what scheduleReorgLoop has collected for its next run
  run,       \* the arguments of the runReorg under way
  adds       \* transactions offered so far, to bound the model

vars == <<config, pool, gasPrice, journal, chain, events, request, run, adds>>

-----------------------------------------------------------------------------
(* Transaction lists.                                                       *)

Nonces(l) == {t.nonce : t \in l}
Low(l) == Min(Nonces(l))
Top(l) == Max(Nonces(l))
Forward(l, n) == {t \in l : t.nonce < n}

\* txList.Add: a transaction takes the place of an older one only if it
\* pays PriceBump percent more.
Outbids(t, old) ==
  /\ t.price > old.price
  /\ t.price >= (old.price * (100 + PriceBump)) \div 100

\* What adding the transactions S, of distinct nonces, takes out of l,
\* which of them are not inserted, and the list that results.
Beaten(l, S) == {o \in l : \E t \in S : t.nonce = o.nonce /\ Outbids(t, o)}
Refused(l, S) == {t \in S : \E o \in l : t.nonce = o.nonce /\ ~Outbids(t, o)}
Merge(l, S) == (l \ Beaten(l, S)) \cup (S \ Refused(l, S))

\* txSortedMap.Ready and Cap.
Consecutive(l) == {t \in l : Low(l)..t.nonce \subseteq Nonces(l)}
Ready(l, start) == IF l = {} \/ Low(l) > start THEN {} ELSE Consecutive(l)
Beyond(l, n) == {t \in l : Cardinality(Forward(l, t.nonce)) >= n}

Unpayable(p, a, l) == {t \in l : t.price > p.state.bal[a]}

-----------------------------------------------------------------------------
(* The pool.  A queue that moveToProcessing creates is strict: taking a     *)
(* transaction out of it takes the later ones out as well.                  *)

NewPool(state) ==
  [pending |-> [a \in Accounts |-> {}],
   queue |-> [a \in Accounts |-> {}],
   processing |-> [a \in Accounts |-> {}],
   strict |-> {},              \* accounts whose queue is strict
   locals |-> {},              \* accounts
   local |-> {}, remote |-> {},  \* the lookup, pool.all
   state |-> state,            \* currentState
   nonces |-> state.nonce]     \* pendingNonces

Known(p) == p.local \cup p.remote
Listed(p) ==
  UNION {p.pending[a] \cup p.queue[a] \cup p.processing[a] : a \in Accounts}

Forget(p, S) == [p EXCEPT !.local = @ \ S, !.remote = @ \ S]
SetQueue(p, a, l) ==
  [p EXCEPT !.queue[a] = l, !.strict = IF l = {} THEN @ \ {a} ELSE @]

\* enqueueTx of transactions that left another list.
Enqueue(p, a, S) ==
  [Forget(p, Beaten(p.queue[a], S)) EXCEPT !.queue[a] = Merge(@, S)]

\* The lists are asked by nonce.  The processing list is not reached while
\* the account has a queue.
RemoveTx(p, t) ==
  LET a == t.from
      q == Forget(p, {t})
      at == {o \in p.queue[a] : o.nonce = t.nonce}
      later == {o \in p.queue[a] : a \in p.strict /\ at # {} /\ o.nonce > t.nonce}
  IN CASE t \notin Known(p) -> p
       [] t.nonce \in Nonces(p.pending[a]) ->
            Enqueue([q EXCEPT !.pending[a] = Forward(@, t.nonce),
                              !.nonces[a] = Min({@, t.nonce})],
                    a, {o \in p.pending[a] : o.nonce > t.nonce})
       [] t.nonce \notin Nonces(p.pending[a]) /\ p.queue[a] # {} ->
            SetQueue(q, a, p.queue[a] \ (at \cup later))
       [] OTHER ->
            [q EXCEPT !.processing[a] = {o \in @ : o.nonce # t.nonce}]

RemoveAll(p, seq) == FoldLeft(RemoveTx, p, seq)
ByNonce(S) == SetToSortSeq(S, LAMBDA t, o : t.nonce < o.nonce)

-----------------------------------------------------------------------------
(* Adding.                                                                  *)

Valid(p, t) ==
  p.state.nonce[t.from] <= t.nonce /\ t.price <= p.state.bal[t.from]

IsLocal(p, t, local) == local \/ t.from \in p.locals


Target(p, t) ==
  IF t.nonce \in Nonces(p.pending[t.from]) THEN p.pending[t.from]
                                           ELSE p.queue[t.from]

\* The transactions a full pool drops to make room: enough of them, unless
\* the new one is local.
Discards(p, isLocal) ==
  LET over == Cardinality(Known(p)) + 1 - (config.globalSlots + config.globalQueue)
  IN IF over <= 0 THEN {<<>>}
     ELSE UNION {SetToSeqs(S) : S \in
            {S \in SUBSET p.remote : \/ Cardinality(S) = over
                                     \/ isLocal /\ Cardinality(S) < over}}

\* The first local transaction of an account makes the known ones local.
Localize(p, a) ==
  LET mine == p.locals \cup {a}
      moved == {t \in p.remote : t.from \in mine}
  IN IF a \in p.locals THEN p
     ELSE [p EXCEPT !.locals = mine, !.local = @ \cup moved,
                    !.remote = @ \ moved]

\* Only a transaction that goes to the queue makes its account local.
Insert(p, t, local) ==
  LET a == t.from
      q0 == Forget(p, Beaten(Target(p, t), {t}))
      q == IF IsLocal(p, t, local) THEN [q0 EXCEPT !.local = @ \cup {t}]
                                   ELSE [q0 EXCEPT !.remote = @ \cup {t}]
  IN IF t.nonce \in Nonces(p.pending[a])
     THEN [q EXCEPT !.pending[a] = Merge(@, {t})]
     ELSE LET r == [q EXCEPT !.queue[a] = Merge(@, {t})]
          IN IF local THEN Localize(r, a) ELSE r

Accepts(p, t) == Refused(Target(p, t), {t}) = {}
Add(p, t, local) == IF Accepts(p, t) THEN Insert(p, t, local) ELSE p

\* Mutant: a request takes the place of the one that waits.
PromotionLast(dirty) == [request EXCEPT !.launch = TRUE, !.dirty = dirty]


Promotion(dirty) ==
  [request EXCEPT !.launch = TRUE, !.dirty = @ \cup dirty]

\* AddLocals and AddRemotes of one transaction.  A refused one asks for a
\* promotion run all the same; one that replaced another does not name its
\* account.  A full pool may refuse any transaction: it is underpriced, or
\* too much was replaced since the last run.
AddTx(t, local) ==
  /\ t \notin Known(pool)
  /\ adds < config.adds /\ adds' = adds + 1
  /\ \/ /\ Valid(pool, t)
        /\ \E drop \in Discards(pool, IsLocal(pool, t, local)) :
             LET p == RemoveAll(pool, drop)
                 new == Accepts(p, t) /\ Beaten(Target(p, t), {t}) = {}
             IN /\ pool' = Add(p, t, local)
                /\ request' = Promotion(IF new THEN {t.from} ELSE {})
     \/ /\ ~Valid(pool, t) \/ <<>> \notin Discards(pool, FALSE)
        /\ pool' = pool
        /\ request' = Promotion({})
  /\ journal' = IF t \in Known(pool') /\ t.from \in pool'.locals
                THEN journal \cup {t} ELSE journal
  /\ UNCHANGED <<config, gasPrice, chain, events, run>>

-----------------------------------------------------------------------------
(* runReorg.                                                                *)

\* promoteExecutables, for one account.
Promote(p, a) ==
  LET old == Forward(p.queue[a], p.state.nonce[a])
      l1 == p.queue[a] \ old
      costly == Unpayable(p, a, l1)
      cut == {t \in l1 \ costly : a \in p.strict /\ costly # {}
                                    /\ t.nonce > Low(costly)}
      l2 == l1 \ (costly \cup cut)
      ready == Ready(l2, p.nonces[a])
      no == Refused(p.pending[a], ready)
      l3 == l2 \ ready
      caps == IF a \in p.locals THEN {} ELSE Beyond(l3, config.accountQueue)
      gone == old \cup costly \cup no \cup Beaten(p.pending[a], ready) \cup caps
  IN SetQueue([Forget(p, gone) EXCEPT
                 !.pending[a] = Merge(@, ready),
                 !.nonces[a] = IF ready = no THEN @ ELSE Top(ready \ no) + 1],
              a, l3 \ caps)

PromoteExecutables(p, S) == FoldSet(LAMBDA a, q : Promote(q, a), p, S)

\* demoteUnexecutables, for one account.  Pending transactions that no
\* longer follow the state's nonce are postponed only if the account has
\* nothing but old transactions in processing.
Demote(p, a) ==
  LET n == p.state.nonce[a]
      old == Forward(p.pending[a], n)
      l1 == p.pending[a] \ old
      costly == Unpayable(p, a, l1)
      invalid == {t \in l1 \ costly : costly # {} /\ t.nonce > Low(costly)}
      l2 == l1 \ (costly \cup invalid)
      proc == p.processing[a]
      gap == l2 # {} /\ n \notin Nonces(l2) /\ proc # {} /\ Top(proc) < n
      q == Enqueue([Forget(p, old \cup costly) EXCEPT
                      !.pending[a] = IF gap THEN {} ELSE l2],
                   a, invalid \cup IF gap THEN l2 ELSE {})
  IN [Forget(q, Forward(proc, n)) EXCEPT !.processing[a] = @ \ Forward(@, n)]

DemoteUnexecutables(p) == FoldSet(LAMBDA a, q : Demote(q, a), p, Accounts)

Total(lists) == FoldSet(LAMBDA a, n : n + Cardinality(lists[a]), 0, Accounts)

\* truncatePending: the longest lists of remote accounts are cut, together,
\* until the limit holds or none is longer than config.accountSlots.
CutPending(p, keep) ==
  LET out(a) == Beyond(p.pending[a], keep[a])
  IN [Forget(p, UNION {out(a) : a \in Accounts}) EXCEPT
        !.pending = [a \in Accounts |-> @[a] \ out(a)],
        !.nonces = [a \in Accounts |-> IF out(a) = {} THEN @[a]
                                       ELSE Min({@[a], Low(out(a))})]]

\* Mutant: local accounts are cut as well.
SpammersAll(p) ==
  {a \in Accounts : Cardinality(p.pending[a]) > config.accountSlots}

Spammers(p) ==
  {a \in Accounts \ p.locals : Cardinality(p.pending[a]) > config.accountSlots}

TruncatePending(p) ==
  LET size(a) == Cardinality(p.pending[a])
      spammers == Spammers(p)
      keeps == {k \in [Accounts -> 0..Max({size(a) : a \in Accounts})] :
                  \A a \in Accounts : /\ a \notin spammers => k[a] = size(a)
                                      /\ k[a] <= size(a)
                                      /\ k[a] >= Min({size(a), config.accountSlots})}
      excess(k) == FoldSet(LAMBDA a, n : n + k[a], 0, Accounts) - config.globalSlots
  IN IF Total(p.pending) <= config.globalSlots THEN {p}
     ELSE {CutPending(p, k) : k \in
             {k \in keeps : \/ excess(k) \in (1 - Cardinality(spammers))..0
                            \/ /\ excess(k) > 0
                               /\ \A a \in spammers : k[a] = config.accountSlots}}

\* truncateQueue: whole queues, and the last transactions of one, in an
\* order of accounts that only their heartbeats decide.
TruncateQueue(p) ==
  LET over == Total(p.queue) - config.globalQueue
      mine == UNION {p.queue[a] : a \in Accounts \ p.locals}
      last(S) == \A t \in S, o \in mine \ S :
                   o.from = t.from => o.nonce < t.nonce
      order(S) == IF S # {} /\ S = p.queue[(CHOOSE t \in S : TRUE).from]
                  THEN ByNonce(S) ELSE Reverse(ByNonce(S))
      drop(S) == FoldSet(LAMBDA a, q : RemoveAll(q, order({t \in S : t.from = a})),
                         p, Accounts)
  IN IF over <= 0 THEN {p}
     ELSE {drop(S) : S \in
             {S \in SUBSET mine : /\ Cardinality(S) = Min({over, Cardinality(mine)})
                                  /\ last(S)
                                  /\ Cardinality({a \in Accounts :
                                       {t \in S : t.from = a} \notin {{}, p.queue[a]}}) <= 1}}

RaiseNonces(p) ==
  [p EXCEPT !.nonces = [a \in Accounts |->
     Max({@[a]} \cup {t.nonce + 1 : t \in p.pending[a] \cup p.processing[a]})]]

Truncated(p) ==
  {RaiseNonces(q) : q \in UNION {TruncateQueue(r) : r \in TruncatePending(p)}}

\* While the node synchronises, a reset neither takes the new state over
\* nor promotes anything, the accounts named with it included.
ResetTo(p, state) ==
  DemoteUnexecutables(
    PromoteExecutables([p EXCEPT !.state = state, !.nonces = state.nonce],
                       Accounts))

Idle == [on |-> FALSE, reset |-> <<>>, dirty |-> {}]
NoRequest == [launch |-> FALSE, reset |-> <<>>, dirty |-> {}]

\* scheduleReorgLoop starts one run at a time.
LaunchReorg ==
  /\ request.launch /\ ~run.on
  /\ run' = [on |-> TRUE, reset |-> request.reset, dirty |-> request.dirty]
  /\ request' = NoRequest
  /\ UNCHANGED <<config, pool, gasPrice, journal, chain, events, adds>>

RunReorg ==
  /\ run.on
  /\ \E syncing \in config.syncing :
       pool' \in Truncated(
         CASE run.reset = <<>> -> PromoteExecutables(pool, run.dirty)
           [] run.reset # <<>> /\ syncing -> DemoteUnexecutables(pool)
           [] run.reset # <<>> /\ ~syncing -> ResetTo(pool, run.reset[1]))
  /\ run' = Idle
  /\ UNCHANGED <<config, gasPrice, journal, chain, events, request, adds>>

-----------------------------------------------------------------------------
(* moveToProcessing and moveToProcessingAccelerated.                        *)

\* One step of either.  Everything of the sender up to the transaction's
\* nonce goes to processing.  The pending transactions that then do not
\* follow go to the queue, the queued ones that do go to pending.  What a
\* list refuses or gives up stays in the lookup.
Move(p, t) ==
  LET a == t.from
      n == t.nonce + 1
      moved == Forward(p.pending[a], n) \cup Forward(p.queue[a], n)
      put(l, S) == FoldLeft(LAMBDA k, o : Merge(k, {o}), l,
                     ByNonce(S \cap p.pending[a]) \o ByNonce(S \cap p.queue[a])
                       \o <<t>>)
      pend0 == p.pending[a] \ moved
      queue0 == p.queue[a] \ moved
      gap == pend0 # {} /\ Low(pend0) > n
      queue1 == IF gap THEN Merge(queue0, pend0) ELSE queue0
      up == Ready(queue1, n)
      pend2 == Merge(IF gap THEN {} ELSE pend0, up)
      queue2 == queue1 \ up
      top == IF pend2 = {} THEN n ELSE Max({n, Top(pend2) + 1})
  IN [p EXCEPT !.processing[a] = put(IF p.state.nonce[a] < n THEN @
                                     ELSE @ \ Forward(@, p.state.nonce[a]), moved),
               !.remote = @ \cup moved \cup {t},
               !.pending[a] = pend2,
               !.queue[a] = queue2,
               !.strict = CASE queue2 = {} -> @ \ {a}
                            [] queue2 # {} /\ queue0 = {} -> @ \cup {a}
                            [] OTHER -> @,
               !.nonces[a] = Max({@, top})]

\* The block's transactions from the last to the first; those of the
\* sender just moved are passed over.
MoveBlock(p, block) ==
  LET step(s, t) == IF t.from = s.from THEN s
                    ELSE [p |-> Move(s.p, t), from |-> t.from]
      start == [p |-> p, from |-> "nobody"]
  IN FoldLeft(step, start, Reverse(block)).p

\* Mutant: the transaction at the state's nonce is left out as well.
MoveStoredLate(p, t) ==
  IF p.state.nonce[t.from] >= t.nonce THEN p ELSE Move(p, t)

\* At the start: a transaction below the state's nonce is left out.
MoveStored(p, t) == IF p.state.nonce[t.from] > t.nonce THEN p ELSE Move(p, t)

-----------------------------------------------------------------------------
(* loop.                                                                    *)

HandleHead ==
  /\ events.head # <<>>
  /\ request' = [request EXCEPT !.launch = TRUE, !.reset = <<Head(events.head)>>]
  /\ events' = [events EXCEPT !.head = Tail(@)]
  /\ UNCHANGED <<config, pool, gasPrice, journal, chain, run, adds>>

HandleProcessing ==
  /\ events.processing # <<>>
  /\ \/ pool' = MoveBlock(pool, events.processing[1])
     \/ /\ TRUE \in config.syncing
        /\ pool' = RemoveAll(pool, events.processing[1])
  /\ events' = [events EXCEPT !.processing = <<>>]
  /\ UNCHANGED <<config, gasPrice, journal, chain, request, run, adds>>

HandleRemove ==
  /\ events.remove # <<>>
  /\ pool' = RemoveAll(pool, events.remove[1])
  /\ events' = [events EXCEPT !.remove = <<>>]
  /\ UNCHANGED <<config, gasPrice, journal, chain, request, run, adds>>

\* The queue of an account that was idle for the lifetime.
Evict(a) ==
  /\ a \notin pool.locals /\ pool.queue[a] # {}
  /\ pool' = RemoveAll(pool, ByNonce(pool.queue[a]))
  /\ UNCHANGED <<config, gasPrice, journal, chain, events, request, run, adds>>

Local(p) == UNION {p.pending[a] \cup p.queue[a] : a \in p.locals}

RotateJournal ==
  /\ journal' = Local(pool)
  /\ UNCHANGED <<config, pool, gasPrice, chain, events, request, run, adds>>

SetGasPrice(price) ==
  /\ price # gasPrice
  /\ gasPrice' = price
  /\ \E seq \in SetToSeqs({t \in pool.remote : price > gasPrice /\ t.price < price}) :
       pool' = RemoveAll(pool, seq)
  /\ UNCHANGED <<config, journal, chain, events, request, run, adds>>

\* NewTxPool: the transactions of the unfinalized blocks go to processing,
\* those of the journal are added as local ones, in the order of the file,
\* and promoted before the journal is written anew.
Restart ==
  /\ config.restarts
  /\ \E dag \in SetToSeqs(UNION {ToSet(b) : b \in chain.dag}),
        file \in SetToSeqs(journal) :
       LET p0 == FoldLeft(MoveStored, NewPool(chain.state),
                          SortSeq(dag, LAMBDA t, o : t.nonce < o.nonce))
           load(p, t) == IF t \in Known(p) \/ ~Valid(p, t) THEN p
                         ELSE Add(p, t, TRUE)
           p1 == FoldLeft(load, p0, file)
           p2 == PromoteExecutables(p1, p1.locals)
       IN pool' \in Truncated(p2)
  /\ journal' = Local(pool')
  /\ request' = NoRequest /\ run' = Idle
  /\ events' = [head |-> <<>>, processing |-> <<>>, remove |-> <<>>]
  /\ gasPrice' = PriceLimit
  /\ UNCHANGED <<config, chain, adds>>

-----------------------------------------------------------------------------
(* The chain, as the pool sees it.                                          *)

\* MoveTxsToProcessing, when a block enters the DAG.  The channel holds one
\* block.
InsertBlock(b) ==
  /\ b \notin chain.dag \cup chain.done
  /\ events.processing = <<>>
  /\ chain' = [chain EXCEPT !.dag = @ \cup {b}]
  /\ events' = [events EXCEPT !.processing = <<b>>]
  /\ UNCHANGED <<config, pool, gasPrice, journal, request, run, adds>>

\* writeFinalizedBlock announces the head, then the block's transactions.
\* A transaction is executed if its nonce is the sender's next one.
Execute(nonce, t) ==
  IF nonce[t.from] = t.nonce THEN [nonce EXCEPT ![t.from] = @ + 1] ELSE nonce

FinalizeBlock(b) ==
  /\ b \in chain.dag
  /\ events.remove = <<>>
  /\ \E bal \in [Accounts -> config.balances] :
       chain' = [state |-> [nonce |-> FoldLeft(Execute, chain.state.nonce, b),
                            bal |-> bal],
                 dag |-> chain.dag \ {b}, done |-> chain.done \cup {b}]
  /\ events' = [events EXCEPT !.head = Append(@, chain'.state), !.remove = <<b>>]
  /\ UNCHANGED <<config, pool, gasPrice, journal, request, run, adds>>

-----------------------------------------------------------------------------
Init ==
  /\ config \in Configs
  /\ \E bal \in [Accounts -> config.balances] :
       LET state == [nonce |-> [a \in Accounts |-> 0], bal |-> bal]
       IN /\ pool = NewPool(state)
          /\ chain = [state |-> state, dag |-> {}, done |-> {}]
  /\ gasPrice = PriceLimit
  /\ journal = {}
  /\ events = [head |-> <<>>, processing |-> <<>>, remove |-> <<>>]
  /\ request = NoRequest
  /\ run = Idle
  /\ adds = 0

Next ==
  \/ \E t \in Txs, local \in config.locals : AddTx(t, local)
  \/ LaunchReorg
  \/ RunReorg
  \/ HandleHead
  \/ HandleProcessing
  \/ HandleRemove
  \/ \E a \in Accounts : Evict(a)
  \/ RotateJournal
  \/ \E price \in config.prices : SetGasPrice(price)
  \/ Restart
  \/ \E b \in config.blocks : InsertBlock(b)
  \/ \E b \in config.blocks : FinalizeBlock(b)

Spec == Init /\ [][Next]_vars

\* One transaction per nonce in a list, and a queue is strict only if it is
\* there.
TypeOK ==
  /\ \A a \in Accounts :
       /\ \A l \in {pool.pending[a], pool.queue[a], pool.processing[a]} :
            /\ l \subseteq {t \in Txs : t.from = a}
            /\ \A t, o \in l : t.nonce = o.nonce => t = o
       /\ pool.nonces[a] \in Nat /\ pool.state.nonce[a] \in Nat
  /\ pool.local \cup pool.remote \cup journal \subseteq Txs
  /\ pool.strict \subseteq {a \in Accounts : pool.queue[a] # {}}
  /\ chain.dag \cup chain.done \subseteq config.blocks

-----------------------------------------------------------------------------
(* What the pool promises to senders, to the block creator and to peers.    *)

\* Every request and event is handled.
Settled ==
  /\ ~request.launch /\ ~run.on
  /\ events.head = <<>> /\ events.processing = <<>> /\ events.remove = <<>>

Executable(a) == Ready(pool.queue[a], pool.nonces[a])

\* Then no queued transaction is left that Ready would promote: "Gather all
\* executable transactions and promote them".
AllPromoted == Settled => \A a \in Accounts : Executable(a) = {}

\* It holds until the first reset: no request of addTxs that arrives during
\* a run is lost, and removals, moves to processing and a restart leave
\* nothing behind.  A reset breaks it, since it promotes with the nonces of
\* the state and raises them afterwards.
PromotedBeforeReset == chain.done = {} => AllPromoted

\* A journaled transaction of a local account that waits in the pool when
\* the node stops is there after NewTxPool, or one that pays more for the
\* same nonce, unless the chain has passed its nonce.
LocalsSurvive ==
  [][Restart =>
       \A t \in Local(pool) \cap journal :
         t.nonce >= chain.state.nonce[t.from] =>
           \E o \in Listed(pool') : /\ o.from = t.from /\ o.nonce = t.nonce
                                    /\ o.price >= t.price]_vars

\* While the node is synced, a transaction of an unfinalized block that was
\* announced to the pool is not pending, so the creator does not put it into
\* a second block, and its nonce is in processing until the chain has passed
\* it: also after a restart, and although another block with the same nonces
\* may be finalized and its transactions removed.
DagInProcessing ==
  events.processing = <<>> /\ TRUE \notin config.syncing =>
    \A b \in chain.dag : \A t \in ToSet(b) :
      /\ t \notin pool.pending[t.from]
      /\ \/ t.nonce < chain.state.nonce[t.from]
         \/ t.nonce \in Nonces(pool.processing[t.from])

=============================================================================
