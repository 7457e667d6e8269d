------------------------------ MODULE Accounts ------------------------------
(***************************************************************************)
(* What a StateDB promises its callers: a world of accounts that the       *)
(* operations change directly, copies of the whole world that snapshots    *)
(* keep and reverts restore, and the world that the last commit wrote.     *)
(* There are no journal, no caches and no storage areas here; StateDB is   *)
(* shown to implement this.                                                *)
(***************************************************************************)
EXTENDS Integers, Sequences

CONSTANTS Addr, Slot, MaxBalance, MaxNonce, Word

VARIABLES
    world,      \* the account at every address
    saved,      \* the worlds snapshots were taken of, the oldest first
    disk        \* the world as last committed

vars == <<world, saved, disk>>

NoAccount == [live |-> FALSE]

NewAccount == [live |-> TRUE, bal |-> 0, nonce |-> 0,
               sto |-> [k \in Slot |-> 0], dead |-> FALSE]

GetOrNew(a) == IF world[a].live THEN world[a] ELSE NewAccount

\* what is left of an account at the end of a transaction
Cleaned(x) ==
    IF x.live /\ (x.dead \/ (x.bal = 0 /\ x.nonce = 0)) THEN NoAccount ELSE x

CleanWorld == [a \in Addr |-> Cleaned(world[a])]

Put(a, x) == world' = [world EXCEPT ![a] = x] /\ UNCHANGED <<saved, disk>>

Init ==
    /\ world = [a \in Addr |-> NoAccount]
    /\ saved = <<>>
    /\ disk = world

AddBalance(a, n) == Put(a, [GetOrNew(a) EXCEPT !.bal = @ + n])

SubBalance(a, n) == Put(a, [GetOrNew(a) EXCEPT !.bal = @ - n])

SetNonce(a, n) == Put(a, [GetOrNew(a) EXCEPT !.nonce = n])

SetState(a, k, v) == Put(a, [GetOrNew(a) EXCEPT !.sto[k] = v])

\* a new contract keeps the balance of the account it replaces, nothing else
CreateContract(a) == Put(a, [NewAccount EXCEPT !.bal = GetOrNew(a).bal,
                                               !.nonce = 1])

Suicide(a) ==
    world[a].live /\ Put(a, [world[a] EXCEPT !.dead = TRUE, !.bal = 0])

Snapshot == saved' = Append(saved, world) /\ UNCHANGED <<world, disk>>

RevertToSnapshot(i) ==
    /\ world' = saved[i]
    /\ saved' = SubSeq(saved, 1, i - 1)
    /\ UNCHANGED disk

Finalise == world' = CleanWorld /\ saved' = <<>> /\ UNCHANGED disk

Commit == world' = CleanWorld /\ saved' = <<>> /\ disk' = CleanWorld

Reopen == world' = disk /\ saved' = <<>> /\ UNCHANGED disk

Next ==
    \/ \E a \in Addr :
          \/ \E n \in 0 .. MaxBalance : AddBalance(a, n) \/ SubBalance(a, n)
          \/ \E n \in 0 .. MaxNonce : SetNonce(a, n)
          \/ \E k \in Slot, v \in Word : SetState(a, k, v)
          \/ CreateContract(a)
          \/ Suicide(a)
    \/ Snapshot
    \/ \E i \in 1 .. Len(saved) : RevertToSnapshot(i)
    \/ Finalise
    \/ Commit
    \/ Reopen

Spec == Init /\ [][Next]_vars
=============================================================================
