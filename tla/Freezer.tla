------------------------------- MODULE Freezer -------------------------------
(***************************************************************************)
(* core/rawdb/freezer*.go: a background loop copies old finalized blocks   *)
(* from the key-value store to append-only tables, each made of an index   *)
(* file and of data files of a limited size, flushes the tables and wipes  *)
(* the blocks from the key-value store.  Every write to a file is a step   *)
(* of its own that a crash can follow or that can fail.                    *)
(*                                                                         *)
(* An item is one unit long and stands for the block it is part of: its    *)
(* number and the version the chain had there (SetHead lets a chain grow   *)
(* anew).  Writes to the key-value store survive crashes.                  *)
(***************************************************************************)
EXTENDS Integers, SequencesExt

CONSTANTS
    Table,
    Threshold,      \* recent blocks that are not frozen
    BatchLimit,     \* freezerBatchLimit
    MaxNr,          \* bound: finalized numbers
    MaxFaults,      \* bound: crashes, failed writes and SetHeads
    Configs         \* [size: items per data file of each table, faults: which occur]

VARIABLES
    config,
    fin,        \* finalized number -> version of the block, up to the checkpoint
    kv,         \* blocks of the key-value store
    tab,        \* the tables
    frozen,     \* freezer.frozen
    todo,       \* what is left of the freezer's round, write by write
    faults      \* faults so far

vars == <<config, fin, kv, tab, frozen, todo, faults>>

Cp == Len(fin) - 1          \* number of the last checkpoint's spine

Blk(n) == <<n, fin[n + 1]>>

Min2(x, y) == IF x < y THEN x ELSE y

-----------------------------------------------------------------------------
(* A table: newTable, repair, truncate and reads                            *)

\* files are numbered from 0; idxSynced and dataSynced are what fsync covers
NewTable ==
    [index |-> <<[file |-> 0, off |-> 0]>>, data |-> <<<<>>>>,
     head |-> 0, bytes |-> 0, items |-> 0, idxSynced |-> 1, dataSynced |-> <<0>>]

HeadData(t) == t.data[t.head + 1]

\* data files after the head are removed, the head is cut at n
CutFiles(t, h, n) ==
    [t EXCEPT !.data = Append(SubSeq(@, 1, h), SubSeq(@[h + 1], 1, n)),
              !.dataSynced = Append(SubSeq(@, 1, h), Min2(@[h + 1], n)),
              !.head = h, !.bytes = n]

Truncate(t, n) ==
    IF t.items <= n THEN t
    ELSE LET e == t.index[n + 1]
         IN  [CutFiles(t, e.file, e.off)
                EXCEPT !.index = SubSeq(@, 1, n + 1), !.items = n,
                       !.idxSynced = Min2(@, n + 1)]

\* the longest index whose last entry lies within the file it names
SoundIndex(t) ==
    Max({i \in 1 .. Len(t.index) :
           /\ t.index[i].file < Len(t.data)
           /\ t.index[i].off <= Len(t.data[t.index[i].file + 1])})

\* freezerTable.repair: entries without data go, then data without entry
Repair(t) ==
    LET i == SoundIndex(t)
        e == t.index[i]
        c == CutFiles(t, e.file, e.off)
    IN  [c EXCEPT !.index = SubSeq(@, 1, i), !.items = i - 1, !.idxSynced = i,
                  !.dataSynced = [f \in 1 .. Len(c.data) |->
                                    IF f = e.file + 1 THEN e.off ELSE @[f]]]

\* Retrieve
Read(t, n) ==
    LET lo == t.index[n + 1]
        hi == t.index[n + 2]
        from == IF lo.file = hi.file THEN lo.off ELSE 0
    IN  SubSeq(t.data[hi.file + 1], from + 1, hi.off)

-----------------------------------------------------------------------------
(* freezeRange: the writes of a batch, in the order they are made           *)

Flush(t, b) ==
    <<[op |-> "data", t |-> t, items |-> b.items],
      [op |-> "index", t |-> t, entries |-> b.entries]>>

\* appendItem: a full data file is flushed and left first
Appended(b, t, x) ==
    LET full == b[t].bytes + Len(b[t].items) + 1 > config.size[t]
        c == IF full THEN [bytes |-> 0, file |-> b[t].file + 1,
                           items |-> <<>>, entries |-> <<>>] ELSE b[t]
    IN  [b EXCEPT !.ops = IF full THEN @ \o Flush(t, b[t]) \o <<[op |-> "advance", t |-> t]>>
                          ELSE @,
                  ![t] = [c EXCEPT !.items = Append(@, x),
                                   !.entries = Append(@, [file |-> c.file,
                                       off |-> c.bytes + Len(c.items) + 1])]]

EmptyBatch ==
    [x \in Table \cup {"ops"} |->
        IF x = "ops" THEN <<>>
        ELSE [bytes |-> tab[x].bytes, file |-> tab[x].head, items |-> <<>>,
              entries |-> <<>>]]

Batch(first, limit, order) ==
    LET cells == [i \in 1 .. (limit - first + 1) * Len(order) |->
                    <<first + ((i - 1) \div Len(order)), order[1 + ((i - 1) % Len(order))]>>]
    IN  FoldLeft(LAMBDA b, c : Appended(b, c[2], Blk(c[1])), EmptyBatch, cells)

Writes(first, limit, order) ==
    LET b == Batch(first, limit, order)
    IN  b.ops \o FlattenSeq([i \in 1 .. Len(order) |-> Flush(order[i], b[order[i]])])

\* mutant: wiped before the tables are flushed
RestWipedFirst(first, limit) ==
    <<[op |-> "frozen", to |-> limit + 1],
      [op |-> "wipe", blocks |-> {Blk(n) : n \in first .. limit} \ {Blk(0)}],
      [op |-> "sync"]>>

\* what follows in the round; the genesis block is kept
Rest(first, limit) ==
    <<[op |-> "frozen", to |-> limit + 1], [op |-> "sync"],
      [op |-> "wipe", blocks |-> {Blk(n) : n \in first .. limit} \ {Blk(0)}]>>

-----------------------------------------------------------------------------

Init ==
    /\ config \in Configs
    /\ fin = <<1>>
    /\ kv = {<<0, 1>>}
    /\ tab = [t \in Table |-> NewTable]
    /\ frozen = 0
    /\ todo = <<>>
    /\ faults = 0

\* a checkpoint whose spine has a higher number; the blocks of a round are not
\* set back and finalized again before the round is over
Grow ==
    /\ Cp < MaxNr
    /\ \E v \in IF faults = 0 THEN {1} ELSE {1, 2} :
          /\ \A i \in 1 .. Len(todo) : todo[i].op = "wipe" => <<Cp + 1, v>> \notin todo[i].blocks
          /\ fin' = Append(fin, v)
          /\ kv' = kv \cup {<<Cp + 1, v>>}
    /\ UNCHANGED <<config, tab, frozen, todo, faults>>

Limit(first) == Min2(Cp - Threshold, first + BatchLimit)

\* a round of freeze
Freeze ==
    /\ todo = <<>>
    /\ Cp - Threshold > frozen
    /\ \A n \in frozen .. Limit(frozen) : Blk(n) \in kv
    /\ \E order \in SetToSeqs(Table) :
          todo' = Writes(frozen, Limit(frozen), order) \o Rest(frozen, Limit(frozen))
    /\ UNCHANGED <<config, fin, kv, tab, frozen, faults>>

\* one write
Done(t, o) ==
    CASE o.op = "data" -> [t EXCEPT !.data[t.head + 1] = @ \o o.items]
      [] o.op = "index" -> [t EXCEPT !.index = @ \o o.entries,
                                     !.items = @ + Len(o.entries),
                                     !.bytes = @ + Len(o.entries)]
      [] o.op = "advance" -> [t EXCEPT !.data = Append(SubSeq(@, 1, t.head + 1), <<>>),
                                       !.dataSynced = Append(SubSeq(@, 1, t.head + 1), 0),
                                       !.head = @ + 1, !.bytes = 0]

Synced(t) == [t EXCEPT !.idxSynced = Len(t.index),
                       !.dataSynced[t.head + 1] = Len(HeadData(t))]

Write ==
    /\ todo # <<>>
    /\ LET o == Head(todo) IN
       /\ tab' = CASE o.op \in {"data", "index", "advance"} ->
                        [tab EXCEPT ![o.t] = Done(@, o)]
                   [] o.op = "sync" -> [t \in Table |-> Synced(tab[t])]
                   [] OTHER -> tab
       /\ frozen' = IF o.op = "frozen" THEN o.to ELSE frozen
       /\ kv' = IF o.op = "wipe" THEN kv \ o.blocks ELSE kv
    /\ todo' = Tail(todo)
    /\ UNCHANGED <<config, fin, faults>>

Writing == todo # <<>> /\ Head(todo).op \in {"data", "index", "advance", "frozen"}

Fault(kind) ==
    /\ kind \in config.faults
    /\ faults < MaxFaults
    /\ faults' = faults + 1
    /\ UNCHANGED config

\* a write of ModifyAncients fails: all tables go back to where it started
FailWrite(op) ==
    /\ Fault(op)
    /\ todo # <<>> /\ Head(todo).op = op
    /\ tab' = [t \in Table |-> Truncate(tab[t], frozen)]
    /\ todo' = <<>>
    /\ UNCHANGED <<fin, kv, frozen>>

\* newFreezer: each table is repaired, then all are cut to a common length
Reopened(tabs) ==
    LET rep == [t \in Table |-> Repair(tabs[t])]
        min == Min({rep[t].items : t \in Table})
    IN  /\ tab' = [t \in Table |-> Truncate(rep[t], min)]
        /\ frozen' = min
        /\ todo' = <<>>

\* the process dies
Crash ==
    /\ Fault("crash")
    /\ Reopened(tab)
    /\ UNCHANGED <<fin, kv>>

\* the power fails: of each file any part not flushed may be lost
Survivors(t) ==
    {[t EXCEPT !.index = SubSeq(@, 1, i),
               !.data = [f \in 1 .. Len(t.data) |-> SubSeq(t.data[f], 1, d[f])]] :
        i \in t.idxSynced .. Len(t.index),
        d \in {g \in [1 .. Len(t.data) -> 0 .. MaxNr + 2] :
                 \A f \in DOMAIN g : g[f] \in t.dataSynced[f] .. Len(t.data[f])}}

PowerLoss ==
    /\ Fault("power")
    /\ \E tabs \in [Table -> UNION {Survivors(tab[t]) : t \in Table}] :
          /\ \A t \in Table : tabs[t] \in Survivors(tab[t])
          /\ Reopened(tabs)
    /\ UNCHANGED <<fin, kv>>

\* SetHead(block n), which waits for a batch that is being written
SetHead(n) ==
    /\ Fault("setHead")
    /\ ~ Writing
    /\ n < Cp
    /\ fin' = SubSeq(fin, 1, n + 1)
    /\ kv' = {b \in kv : b[1] <= n}
    /\ frozen' = Min2(frozen, n + 1)
    /\ tab' = IF n < frozen THEN [t \in Table |-> Truncate(tab[t], n + 1)] ELSE tab
    /\ UNCHANGED todo

Next ==
    \/ Grow
    \/ Freeze
    \/ Write
    \/ \E op \in {"data", "index", "advance"} : FailWrite(op)
    \/ Crash
    \/ PowerLoss
    \/ \E n \in 0 .. MaxNr : SetHead(n)

Spec == Init /\ [][Next]_vars

-----------------------------------------------------------------------------
(* Properties                                                               *)

\* The counters of a table agree with its files, and no table is shorter than
\* the number of frozen blocks.
TypeOK ==
    /\ frozen \in 0 .. MaxNr + 1
    /\ \A t \in Table : /\ tab[t].items = Len(tab[t].index) - 1
                        /\ tab[t].items >= frozen
                        /\ tab[t].head + 1 = Len(tab[t].data)
                        /\ tab[t].bytes <= Len(HeadData(tab[t]))
    /\ ~ Writing => \A t \in Table : tab[t].items = frozen

\* Every finalized block is in the key-value store or in all the tables, and
\* what is in the tables is read from each of them as itself: while the
\* freezer writes, and after crashes, failed writes and SetHead.
NothingLost ==
    /\ \A n \in 0 .. Cp : Blk(n) \in kv \/ n < frozen
    /\ \A t \in Table, n \in 0 .. frozen - 1 : Read(tab[t], n) = <<Blk(n)>>
=============================================================================
