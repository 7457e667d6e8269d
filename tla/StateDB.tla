------------------------------- MODULE StateDB ------------------------------
(***************************************************************************)
(* core/state: the StateDB with its live objects, the journal behind       *)
(* Snapshot and RevertToSnapshot, the origin, pending and dirty storage of *)
(* an object, the account trie, and the snapshot of the state (a flat copy *)
(* that is read instead of the trie and is fed from snapDestructs,         *)
(* snapAccounts and snapStorage when a block is committed).                *)
(*                                                                         *)
(* The operations are called the way the EVM and the processors call them: *)
(* storage is written and an account destroyed only for a contract (nonce  *)
(* above 0), a contract is created only at an address with nonce 0, and    *)
(* SubBalance takes a positive amount the account has.  Code is set with   *)
(* the nonce of a contract and not modelled apart from it; the refund      *)
(* counter, the logs and the access list are journalled like the rest.     *)
(***************************************************************************)
EXTENDS Integers, SequencesExt, TLC

CONSTANTS
    Addr, Slot,
    MaxBalance, MaxNonce,   \* bounds: the numbers an account can hold
    Word,                   \* values of storage slots, 0 included
    MaxJournal,             \* bound: length of the journal
    MaxRevisions            \* bound: snapshots outstanding

VARIABLES
    snap,       \* whether the node keeps a snapshot to read (StateDB.snap)
    obj,        \* stateObjects
    journal,    \* journal.entries
    revisions,  \* validRevisions: the journal index of each
    pendingObjs, \* stateObjectsPending
    destructs,  \* snapDestructs
    trie,       \* the account trie as last committed, storage tries included
    flat,       \* the snapshot's accounts, each with its storage
    saved       \* history: the view at every valid revision

vars == <<snap, obj, journal, revisions, pendingObjs, destructs, trie, flat, saved>>

\* what an operation on one account leaves alone
rest == <<snap, revisions, pendingObjs, trie, flat, saved>>

-----------------------------------------------------------------------------
(* Objects and reads                                                        *)

None == [there |-> FALSE]

EmptyRoot == [k \in Slot |-> 0]

NoSlots == [k \in {} |-> 0]

\* types.StateAccount
StateAccount(bal, nonce, root) ==
    [there |-> TRUE, bal |-> bal, nonce |-> nonce, root |-> root]

\* newObject
NewObject(acc) ==
    [there |-> TRUE, bal |-> acc.bal, nonce |-> acc.nonce, root |-> acc.root,
     origin |-> NoSlots, pending |-> NoSlots, dirty |-> NoSlots,
     dead |-> FALSE, deleted |-> FALSE]

\* getDeletedStateObject: the live object, else the snapshot's, else the trie's
Got(a) ==
    LET acc == IF snap THEN flat[a] ELSE trie[a]
    IN  CASE obj[a].there -> obj[a]
          [] ~ obj[a].there /\ acc.there -> NewObject(acc)
          [] OTHER -> None

Exists(a) == Got(a).there /\ ~ Got(a).deleted

Assign(f, k, v) == [x \in DOMAIN f \cup {k} |-> IF x = k THEN v ELSE f[x]]

At(f, k) == IF k \in DOMAIN f THEN f[k] ELSE 0

\* GetCommittedState of object o at a: what is behind its caches
Below(a, o, k) ==
    CASE snap /\ a \in destructs -> 0
      [] snap /\ a \notin destructs ->
            IF flat[a].there THEN flat[a].root[k] ELSE 0
      [] ~ snap -> o.root[k]

GetCommittedState(a, o, k) ==
    CASE k \in DOMAIN o.pending -> o.pending[k]
      [] k \notin DOMAIN o.pending /\ k \in DOMAIN o.origin -> o.origin[k]
      [] OTHER -> Below(a, o, k)

GetState(a, o, k) ==
    IF k \in DOMAIN o.dirty THEN o.dirty[k] ELSE GetCommittedState(a, o, k)

\* what a caller sees of an account, in the terms of Accounts
View(a) ==
    IF ~ Exists(a) THEN [live |-> FALSE]
    ELSE LET o == Got(a)
         IN  [live |-> TRUE, bal |-> o.bal, nonce |-> o.nonce,
              sto |-> [k \in Slot |-> GetState(a, o, k)], dead |-> o.dead]

Committed(a) ==
    IF ~ trie[a].there THEN [live |-> FALSE]
    ELSE [live |-> TRUE, bal |-> trie[a].bal, nonce |-> trie[a].nonce,
          sto |-> trie[a].root, dead |-> FALSE]

-----------------------------------------------------------------------------
(* The journal: entries and how they are reverted                           *)

Entry(op, a, prev) == [op |-> op, addr |-> a, prev |-> prev]

\* journal.dirties: a reset of an object does not make its address dirty
Dirties == {journal[i].addr : i \in {j \in 1 .. Len(journal) :
                                        journal[j].op # "reset"}}

\* createObject
Created(a, o) ==
    /\ obj' = [obj EXCEPT ![a] = o]
    /\ destructs' = IF snap /\ Got(a).there THEN destructs \cup {a} ELSE destructs

CreateEntry(a) ==
    IF Got(a).there
    THEN Entry("reset", a, [obj |-> Got(a), destructed |-> a \in destructs])
    ELSE Entry("create", a, 0)

Blank == NewObject(StateAccount(0, 0, EmptyRoot))

\* GetOrNewStateObject followed by a change of its own, journalled as e
Change(a, o, e) ==
    IF Exists(a)
    THEN /\ obj' = [obj EXCEPT ![a] = o]
         /\ journal' = journal \o e
         /\ UNCHANGED destructs
    ELSE /\ Created(a, o)
         /\ journal' = Append(journal, CreateEntry(a)) \o e

Base(a) == IF Exists(a) THEN Got(a) ELSE Blank

Undo(e, w) ==
    CASE e.op = "create"  -> [w EXCEPT !.obj[e.addr] = None]
      [] e.op = "reset"   -> [w EXCEPT !.obj[e.addr] = e.prev.obj,
                                       !.destructs = IF snap /\ ~ e.prev.destructed
                                                     THEN @ \ {e.addr} ELSE @]
      [] e.op = "balance" -> [w EXCEPT !.obj[e.addr].bal = e.prev]
      [] e.op = "nonce"   -> [w EXCEPT !.obj[e.addr].nonce = e.prev]
      [] e.op = "storage" -> [w EXCEPT !.obj[e.addr].dirty =
                                       Assign(@, e.prev[1], e.prev[2])]
      [] e.op = "suicide" -> [w EXCEPT !.obj[e.addr].dead = e.prev[1],
                                       !.obj[e.addr].bal = e.prev[2]]
      [] e.op = "touch"   -> w

\* mutant: the first entry first
UndoneForwards(n) ==
    FoldLeft(LAMBDA w, e : Undo(e, w), 
             [obj |-> obj, destructs |-> destructs],
             SubSeq(journal, n + 1, Len(journal)))

\* journal.revert: the last entry first
Undone(n) ==
    FoldRight(Undo, SubSeq(journal, n + 1, Len(journal)),
              [obj |-> obj, destructs |-> destructs])

-----------------------------------------------------------------------------
(* Operations                                                               *)

Init ==
    /\ snap \in BOOLEAN
    /\ obj = [a \in Addr |-> None]
    /\ journal = <<>>
    /\ revisions = <<>>
    /\ pendingObjs = {}
    /\ destructs = {}
    /\ trie = obj
    /\ flat = trie
    /\ saved = <<>>

Room == Len(journal) < MaxJournal

Contract(a) == Exists(a) /\ Got(a).nonce > 0 /\ ~ Got(a).dead

\* AddBalance: nothing but a touch when the amount is 0
AddBalance(a, n) ==
    LET o == Base(a) IN
    /\ Room
    /\ o.bal + n <= MaxBalance
    /\ IF n > 0
       THEN Change(a, [o EXCEPT !.bal = @ + n], <<Entry("balance", a, o.bal)>>)
       ELSE Change(a, o, IF o.bal = 0 /\ o.nonce = 0
                         THEN <<Entry("touch", a, 0)>> ELSE <<>>)
    /\ UNCHANGED rest

SubBalance(a, n) ==
    LET o == Base(a) IN
    /\ Room
    /\ n > 0 /\ n <= o.bal
    /\ Change(a, [o EXCEPT !.bal = @ - n], <<Entry("balance", a, o.bal)>>)
    /\ UNCHANGED rest

SetNonce(a, n) ==
    LET o == Base(a) IN
    /\ Room
    /\ n = o.nonce + 1
    /\ Change(a, [o EXCEPT !.nonce = n], <<Entry("nonce", a, o.nonce)>>)
    /\ UNCHANGED rest

\* the value read for the journal is cached in origin, unless it comes from
\* a destructed account
SetState(a, k, v) ==
    LET o == Got(a)
        cold == k \notin DOMAIN o.dirty \cup DOMAIN o.pending \cup DOMAIN o.origin
        read == IF cold /\ ~ (snap /\ a \in destructs)
                THEN [o EXCEPT !.origin = Assign(@, k, Below(a, o, k))] ELSE o
    IN
    /\ Room
    /\ Contract(a)
    /\ v # GetState(a, o, k)
    /\ Change(a, [read EXCEPT !.dirty = Assign(@, k, v)],
              <<Entry("storage", a, <<k, GetState(a, o, k)>>)>>)
    /\ UNCHANGED rest

\* CreateAccount and SetNonce(1), as evm.create and tokenCreate do
CreateContract(a) ==
    LET o == [Blank EXCEPT !.bal = IF Exists(a) THEN Got(a).bal ELSE 0,
                           !.nonce = 1]
    IN
    /\ Room
    /\ Exists(a) => Got(a).nonce = 0
    /\ Created(a, o)
    /\ journal' = journal \o <<CreateEntry(a), Entry("nonce", a, 0)>>
    /\ UNCHANGED rest

Suicide(a) ==
    LET o == Got(a) IN
    /\ Room
    /\ Contract(a)
    /\ Change(a, [o EXCEPT !.dead = TRUE, !.bal = 0],
              <<Entry("suicide", a, <<o.dead, o.bal>>)>>)
    /\ UNCHANGED rest

Snapshot ==
    /\ Len(revisions) < MaxRevisions
    /\ revisions' = Append(revisions, Len(journal))
    /\ saved' = Append(saved, [a \in Addr |-> View(a)])
    /\ UNCHANGED <<snap, obj, journal, pendingObjs, destructs, trie, flat>>

RevertToSnapshot(i) ==
    LET w == Undone(revisions[i]) IN
    /\ obj' = w.obj
    /\ destructs' = w.destructs
    /\ journal' = SubSeq(journal, 1, revisions[i])
    /\ revisions' = SubSeq(revisions, 1, i - 1)
    /\ saved' = SubSeq(saved, 1, i - 1)
    /\ UNCHANGED <<snap, pendingObjs, trie, flat>>

\* the objects Finalise(true) deletes, and those it keeps
EmptyAccount(o) == o.bal = 0 /\ o.nonce = 0

Gone == {a \in Dirties : obj[a].there /\ (obj[a].dead \/ EmptyAccount(obj[a]))}

Kept == {a \in Dirties : obj[a].there} \ Gone

\* stateObject.finalise
Settled(o) == [o EXCEPT !.pending = [k \in DOMAIN o.pending \cup DOMAIN o.dirty |->
                                        IF k \in DOMAIN o.dirty THEN o.dirty[k]
                                        ELSE o.pending[k]],
                        !.dirty = NoSlots]

FinalisedObj ==
    [a \in Addr |-> CASE a \in Gone -> [obj[a] EXCEPT !.deleted = TRUE]
                      [] a \in Kept -> Settled(obj[a])
                      [] OTHER -> obj[a]]

FinalisedDestructs == IF snap THEN destructs \cup Gone ELSE destructs

FinalisedPending == pendingObjs \cup Gone \cup Kept

Finalise ==
    /\ journal # <<>>
    /\ obj' = FinalisedObj
    /\ destructs' = FinalisedDestructs
    /\ pendingObjs' = FinalisedPending
    /\ journal' = <<>>
    /\ revisions' = <<>>
    /\ saved' = <<>>
    /\ UNCHANGED <<snap, trie, flat>>

\* updateTrie: the slots whose pending value differs from the origin, which
\* for a slot never read is 0
Written(o) == {k \in DOMAIN o.pending : o.pending[k] # At(o.origin, k)}

Rooted(o) == [k \in Slot |-> IF k \in Written(o) THEN o.pending[k] ELSE o.root[k]]

\* mutant: the storage of a destructed account is not wiped
LaidOverStorage(base, ds, accs, stos) ==
    [a \in Addr |->
        LET acc == IF a \in DOMAIN accs THEN accs[a]
                   ELSE IF a \in ds THEN None ELSE base[a]
            sto == IF base[a].there THEN base[a].root ELSE EmptyRoot
        IN  IF ~ acc.there THEN None
            ELSE [acc EXCEPT !.root = IF a \in DOMAIN accs THEN stos[a] @@ sto ELSE sto]]

\* snapshot.Tree.Update: a destructed account is wiped, then the accounts and
\* the slots written in the block are laid over what is left
LaidOver(base, ds, accs, stos) ==
    [a \in Addr |->
        LET old == IF a \in ds THEN None ELSE base[a]
            acc == IF a \in DOMAIN accs THEN accs[a] ELSE old
            sto == IF old.there THEN old.root ELSE EmptyRoot
        IN  IF ~ acc.there THEN None
            ELSE [acc EXCEPT !.root = IF a \in DOMAIN accs THEN stos[a] @@ sto ELSE sto]]

Reopened(tr, fl) ==
    /\ trie' = tr
    /\ flat' = fl
    /\ obj' = [a \in Addr |-> None]
    /\ journal' = <<>>
    /\ revisions' = <<>>
    /\ pendingObjs' = {}
    /\ destructs' = {}
    /\ saved' = <<>>
    /\ UNCHANGED snap

\* the end of a block: Commit(true), that is Finalise, IntermediateRoot, the
\* tries and the snapshot; the next block opens a StateDB on the new root
Commit ==
    LET fin == FinalisedObj
        upd == {a \in FinalisedPending : ~ fin[a].deleted}
        accs == [a \in upd |-> StateAccount(fin[a].bal, fin[a].nonce, Rooted(fin[a]))]
        stos == [a \in upd |-> [k \in Written(fin[a]) |-> fin[a].pending[k]]]
        tr == [a \in Addr |-> CASE a \in upd -> accs[a]
                                [] a \in FinalisedPending \ upd -> None
                                [] OTHER -> trie[a]]
    IN
    /\ FinalisedPending # {}
    /\ Reopened(tr, IF snap /\ tr # trie
                    THEN LaidOver(flat, FinalisedDestructs, accs, stos) ELSE flat)

\* the block is refused and a later one opens a StateDB on the old root
Discard == FinalisedPending # {} /\ Reopened(trie, flat)

Next ==
    \/ \E a \in Addr :
          \/ \E n \in 0 .. MaxBalance : AddBalance(a, n) \/ SubBalance(a, n)
          \/ \E n \in 0 .. MaxNonce : SetNonce(a, n)
          \/ \E k \in Slot, v \in Word : SetState(a, k, v)
          \/ CreateContract(a)
          \/ Suicide(a)
    \/ Snapshot
    \/ \E i \in 1 .. Len(revisions) : RevertToSnapshot(i)
    \/ Finalise
    \/ Commit
    \/ Discard

Spec == Init /\ [][Next]_vars

-----------------------------------------------------------------------------
(* Properties                                                               *)

\* Every object, trie entry and snapshot entry is well formed, and revisions
\* point into the journal in increasing order.
TypeOK ==
    /\ \A a \in Addr : obj[a].there => /\ obj[a].bal \in 0 .. MaxBalance
                                       /\ obj[a].nonce \in 0 .. MaxNonce
                                       /\ obj[a].root \in [Slot -> Word]
    /\ \A a \in Addr : trie[a].there => trie[a].root \in [Slot -> Word]
    /\ destructs \subseteq Addr
    /\ Len(saved) = Len(revisions)
    /\ \A i \in 1 .. Len(revisions) :
          /\ revisions[i] \in 0 .. Len(journal)
          /\ i > 1 => revisions[i - 1] <= revisions[i]

\* The snapshot laid down at a commit holds exactly the accounts and the
\* storage of the trie with the same root, whatever was destroyed, created
\* again or reverted in the block, so a node that reads the snapshot and one
\* that reads the trie execute alike.
SnapshotAgrees == snap => flat = trie

\* Journal, caches, storage areas, trie and snapshot together behave as a
\* plain world of accounts whose copies are restored by RevertToSnapshot and
\* written by Commit.
A == INSTANCE Accounts WITH world <- [a \in Addr |-> View(a)],
                            disk <- [a \in Addr |-> Committed(a)]

AccountsSpec == A!Spec
=============================================================================
