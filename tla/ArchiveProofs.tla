--------------------------- MODULE ArchiveProofs ---------------------------
(* Proofs about content.kspkg: its writer, its reader, and the edits of the *)
(* dedicated server's.  ArchiveFile,                                        *)
(* for any number of processes, entries, cells, calls and faults: the       *)
(* types, one writer at a time, that no write lands on a payload of the     *)
(* last whole table, that a write which found a whole table can be undone   *)
(* at every instant, and that without a failed file operation the archive   *)
(* nobody writes serves what the last write left.  KspkgTable, for any      *)
(* table: find_entry answers right.  ServerArchive, for any number of       *)
(* actors, tracks, damages, Steam updates and kills: the lock, the way back *)
(* from a deploy and from a penalty patch, one build, no lost row, and a    *)
(* start's damage.                                                          *)
EXTENDS ArchiveFile, KspkgTable, ServerArchive, FiniteSetTheorems, TLAPS

\* A write that has read the archive keeps to the cells after the committed payloads.
Past(p)    == pc[p] \notin {"idle", "lock", "read"}
Undoing(p) == pc[p] \in {"roll", "rolllen", "undo", "undolen"}

Floor(n) == \A e \in Entries : committed[e].off + committed[e].size <= n + 1

WorkOK(p) ==
    /\ Holding(p) => owner = p
    /\ Past(p) =>
        /\ w[p].start + TableCells <= len
        /\ Floor(w[p].start)
        /\ w[p].start < w[p].pos
    /\ Past(p) /\ w[p].kind = "inplace" => w[p].orig = w[p].start + TableCells
    /\ Undoing(p) => w[p].kind = "inplace"
    /\ pc[p] = "table" => w[p].start + w[p].i <= w[p].pos
    /\ pc[p] = "setlen" => w[p].start + TableCells < w[p].pos

IInv ==
    /\ TypeOK
    /\ TableCells <= len
    /\ Floor(len - TableCells)
    /\ DataKept
    /\ \A p \in Procs : WorkOK(p)

-----------------------------------------------------------------------------
(* Arithmetic and cells *)

\* Multiplication by a natural number is monotonic.
LEMMA TimesMonotonic ==
    ASSUME NEW a \in Nat, NEW b \in Nat, NEW c \in Nat, a <= b
    PROVE  a * c <= b * c
OBVIOUS

\* The place of a write stays inside the file when the file grows.
LEMMA StillAhead ==
    ASSUME NEW start \in Nat, NEW t \in Nat, NEW n \in Nat, NEW m \in Nat, NEW pos \in Nat,
           start + t <= n, n <= m, start < pos
    PROVE  start + t <= m /\ start < pos + 1 /\ start < start + 1
OBVIOUS

\* The table has at least one cell, and the first archive fits the volume.
LEMMA Sizes ==
    /\ TableCells \in Nat \ {0}
    /\ InitBase \in Nat
    /\ InitBase + TableCells <= Cap
<1>1. Slots * Bucket \in Nat \ {0}
    BY SMT, SizesAssumption
<1>2. InitBase \in Nat
    BY SMT, SizesAssumption, EntriesAssumption DEF InitBase
<1> QED
    BY <1>1, <1>2, EntriesAssumption DEF TableCells

\* A cell of kind "rec" is a record cell.
LEMMA RecCells ==
    ASSUME NEW c \in Cell, c.kind = "rec"
    PROVE  c \in RecCell
BY DEF Cell, RecCell, Gap

\* What the model builds is made of cells.
LEMMA BuiltCells ==
    /\ Gap \in Cell
    /\ \A e \in Entries, v, i \in Nat : Blob(e, v, i) \in Cell
    /\ \A e \in Entries, off, size, h \in Nat :
          Rec(e, off, size, h) \in RecCell /\ Rec(e, off, size, h) \in Cell
BY DEF Cell, RecCell, Gap, Blob, Rec

\* What read_records returns: a record or nothing for each slot.
LEMMA RecordsType ==
    ASSUME NEW f \in [1..Cap -> Cell], NEW n \in 0..Cap
    PROVE  Records(f, n) \in [1..Slots -> RecCell \cup {Gap}]
<1> SUFFICES ASSUME NEW k \in 1..Slots,
                    NEW at, at = SlotAt(n - TableCells, k), IsRecord(f, at)
             PROVE  f[at] \in RecCell
    BY DEF Records
<1>1. f[at] \in Cell /\ f[at].kind = "rec"
    BY DEF IsRecord
<1> QED
    BY <1>1, RecCells

\* Pointing a path at its payload keeps the records well formed.
LEMMA UpsertType ==
    ASSUME NEW recs \in [1..Slots -> RecCell \cup {Gap}],
           NEW e \in Entries, NEW off \in Nat, NEW size \in Nat
    PROVE  Upsert(recs, e, off, size) \in [1..Slots -> RecCell \cup {Gap}]
<1>1. Rec(e, off, size, 1) \in RecCell
    BY BuiltCells
<1> QED
    BY <1>1 DEF Upsert

\* The part number of a record's cell is a natural number.
LEMMA PartNat ==
    ASSUME NEW i \in Nat \ {0}
    PROVE  ((i - 1) % Bucket) + 1 \in Nat
BY SizesAssumption

\* A built table is made of cells.
LEMMA TableType ==
    ASSUME NEW recs \in [1..Slots -> RecCell \cup {Gap}]
    PROVE  Table(recs) \in [1..TableCells -> Cell]
<1> DEFINE here(i, k) == recs[k].kind = "rec" /\ Place(recs, k) = ((i - 1) \div Bucket) + 1
           pick(i)    == CHOOSE k \in 1..Slots : here(i, k)
<1> SUFFICES ASSUME NEW i \in 1..TableCells, \E k \in 1..Slots : here(i, k)
             PROVE  [recs[pick(i)] EXCEPT !.h = ((i - 1) % Bucket) + 1] \in Cell
    BY BuiltCells DEF Table
<1>1. pick(i) \in 1..Slots /\ here(i, pick(i))
    OBVIOUS
<1>2. recs[pick(i)] \in RecCell
    <2>1. recs[pick(i)] # Gap
        BY <1>1 DEF Gap
    <2> QED
        BY <1>1, <2>1
<1>3. ((i - 1) % Bucket) + 1 \in Nat
    BY PartNat, Sizes
<1> HIDE DEF here, pick
<1> QED
    BY <1>2, <1>3 DEF RecCell, Cell

\* So is a patched one.
LEMMA PatchedType ==
    ASSUME NEW f \in [1..Cap -> Cell], NEW n \in 0..Cap, TableCells <= n,
           NEW e \in Entries, NEW off \in Nat, NEW size \in Nat
    PROVE  Patched(f, n, e, off, size) \in [1..TableCells -> Cell]
<1> SUFFICES ASSUME NEW i \in 1..TableCells
             PROVE  /\ Rec(e, off, size, ((i - 1) % Bucket) + 1) \in Cell
                    /\ f[n - TableCells + i] \in Cell
    BY DEF Patched
<1>1. ((i - 1) % Bucket) + 1 \in Nat
    BY PartNat, Sizes
<1>2. n - TableCells + i \in 1..Cap
    BY Sizes, SizesAssumption
<1> QED
    BY <1>1, <1>2, BuiltCells

-----------------------------------------------------------------------------
(* The initial state *)

\* The first payloads lie side by side below the table.
LEMMA FirstPayloads ==
    /\ InitLocs \in [Entries -> Loc]
    /\ \A e \in Entries : InitLocs[e].size = BlobCells
    /\ \A e \in Entries : InitLocs[e].off + BlobCells <= InitBase + 1
    /\ \A e, g \in Entries : e < g => InitLocs[e].off + BlobCells <= InitLocs[g].off
<1> USE SizesAssumption, EntriesAssumption
<1>1. \A e \in Entries : (e - 1) * BlobCells \in Nat
    BY DEF Entries
<1>2. \A e \in Entries : InitLocs[e].off = (e - 1) * BlobCells + 1 /\ InitLocs[e].size = BlobCells
    BY DEF InitLocs
<1>3. InitLocs \in [Entries -> Loc]
    BY <1>1 DEF InitLocs, Loc
<1>4. \A e \in Entries : (e - 1) * BlobCells + BlobCells = e * BlobCells
    BY DEF Entries
<1>5. \A e \in Entries : e * BlobCells <= InitBase
    BY TimesMonotonic DEF Entries, InitBase
<1>6. \A e, g \in Entries : e < g => e * BlobCells <= (g - 1) * BlobCells
    <2> SUFFICES ASSUME NEW e \in Entries, NEW g \in Entries, e < g
                 PROVE  e * BlobCells <= (g - 1) * BlobCells
        OBVIOUS
    <2>1. e \in Nat /\ g - 1 \in Nat /\ e <= g - 1
        BY DEF Entries
    <2> QED
        BY <2>1, TimesMonotonic
<1>7. \A e \in Entries : e * BlobCells \in Nat
    BY DEF Entries
<1>8. InitBase \in Nat
    BY Sizes
<1>9. \A e \in Entries : InitLocs[e].off + BlobCells <= InitBase + 1
    BY <1>1, <1>2, <1>4, <1>5, <1>7, <1>8
<1>10. \A e, g \in Entries : e < g => InitLocs[e].off + BlobCells <= InitLocs[g].off
    BY <1>1, <1>2, <1>4, <1>6, <1>7
<1> QED
    BY <1>2, <1>3, <1>9, <1>10

\* The first table is made of record cells.
LEMMA InitRecsType == InitRecs \in [1..Slots -> RecCell \cup {Gap}]
<1> SUFFICES ASSUME NEW k \in 1..Slots, k \in Entries
             PROVE  Rec(k, (k - 1) * BlobCells + 1, BlobCells, 1) \in RecCell
    BY DEF InitRecs
<1>1. (k - 1) * BlobCells + 1 \in Nat
    BY SizesAssumption
<1> QED
    BY <1>1, BuiltCells, SizesAssumption

\* A blank table is one, and a process that does nothing has well-formed locals.
LEMMA BlankType ==
    /\ BlankTable \in [1..TableCells -> Cell]
    /\ IdleWork \in Work
<1>1. BlankTable \in [1..TableCells -> Cell]
    BY BuiltCells DEF BlankTable
<1>2. <<>> \in Seq(Entries)
    OBVIOUS
<1>3. [k \in 1..Slots |-> Gap] \in [1..Slots -> RecCell \cup {Gap}]
    OBVIOUS
<1> QED
    BY <1>1, <1>2, <1>3, FirstPayloads, SizesAssumption DEF IdleWork, Work

\* At first the disk holds each entry's payload where InitLocs says, then the table.
LEMMA InitInv == Init => IInv
<1> SUFFICES ASSUME Init PROVE IInv
    OBVIOUS
<1> USE SizesAssumption
<1> DEFINE at(c) == CHOOSE x \in Entries : \E i \in 1..BlobCells : c = InitLocs[x].off + i - 1
<1>1. \A e \in Entries : InitLocs[e].off \in Nat \ {0}
    BY FirstPayloads DEF Loc
<1>2. \A e \in Entries, i \in 1..BlobCells : at(InitLocs[e].off + i - 1) = e
    <2> SUFFICES ASSUME NEW e \in Entries, NEW i \in 1..BlobCells,
                        NEW x \in Entries, NEW y \in 1..BlobCells,
                        InitLocs[e].off + i - 1 = InitLocs[x].off + y - 1
                 PROVE  x = e
        OBVIOUS
    <2>1. ~(x < e) /\ ~(e < x)
        BY <1>1, FirstPayloads
    <2> QED
        BY <2>1 DEF Entries
<1>3. \A e \in Entries, i \in 1..BlobCells : InitLocs[e].off + i - 1 \in 1..Cap
    BY <1>1, FirstPayloads, Sizes
<1>4. ASSUME NEW c \in 1..Cap, NEW e \in Entries, NEW i \in 1..BlobCells,
             c = InitLocs[e].off + i - 1
      PROVE  /\ FirstCell(c) = Blob(e, 0, i)
             /\ FirstCell(c) \in Cell
    <2>1. at(c) = e
        BY <1>2, <1>4
    <2>2. c + 1 - InitLocs[e].off = i
        BY <1>1, <1>4
    <2>3. FirstCell(c) = Blob(at(c), 0, c + 1 - InitLocs[at(c)].off)
        BY <1>4 DEF FirstCell
    <2>4. FirstCell(c) = Blob(e, 0, i)
        BY <2>1, <2>2, <2>3
    <2>5. i \in Nat /\ 0 \in Nat
        OBVIOUS
    <2> QED
        BY <2>4, <2>5, BuiltCells
<1>5. ASSUME NEW c \in 1..Cap,
             ~ \E e \in Entries, i \in 1..BlobCells : c = InitLocs[e].off + i - 1
      PROVE  FirstCell(c) \in Cell
    <2>1. Table(InitRecs) \in [1..TableCells -> Cell]
        BY InitRecsType, TableType
    <2>2. c > InitBase /\ c <= InitBase + TableCells => Table(InitRecs)[c - InitBase] \in Cell
        BY <2>1, Sizes
    <2> QED
        BY <1>5, <2>2, BuiltCells DEF FirstCell
<1>6. disk = [c \in 1..Cap |-> FirstCell(c)] /\ \A c \in 1..Cap : FirstCell(c) \in Cell
    BY <1>4, <1>5 DEF Init
<1>7. TypeOK
    <2>1. len \in 0..Cap
        BY Sizes DEF Init
    <2>2. disk \in [1..Cap -> Cell]
        BY <1>6
    <2>3. bak \in [1..TableCells -> Cell] /\ bakLen \in 0..TableCells
        BY BlankType, Sizes DEF Init
    <2>4. pc \in [Procs -> Labels] /\ w \in [Procs -> Work] /\ committed \in [Entries -> Loc]
        BY BlankType, FirstPayloads DEF Init, Labels
    <2>5. owner \in Procs \cup {NoProc} /\ calls \in 0..MaxCalls /\ faults \in 0..MaxFaults
        BY DEF Init
    <2> QED
        BY <2>1, <2>2, <2>3, <2>4, <2>5 DEF TypeOK
<1>8. TableCells <= len /\ Floor(len - TableCells)
    BY FirstPayloads, Sizes DEF Init, Floor
<1>9. DataKept
    <2> SUFFICES ASSUME NEW e \in Entries, NEW i \in 1..committed[e].size
                 PROVE  disk[committed[e].off + i - 1] = Blob(e, committed[e].v, i)
        BY DEF DataKept
    <2>1. committed = InitLocs /\ i \in 1..BlobCells
        BY FirstPayloads DEF Init
    <2>2. InitLocs[e].v = 0
        BY DEF InitLocs
    <2> QED
        BY <1>3, <1>4, <1>6, <2>1, <2>2
<1>10. \A p \in Procs : WorkOK(p)
    BY DEF Init, WorkOK, Holding, Past, Undoing
<1> QED
    BY <1>7, <1>8, <1>9, <1>10 DEF IInv

-----------------------------------------------------------------------------
(* What the steps have in common *)

\* Nobody else holds the mutex while p does.
LEMMA Alone ==
    ASSUME IInv, NEW p \in Procs, NEW q \in Procs, Holding(p), p # q
    PROVE  ~Holding(q)
BY DEF IInv, WorkOK

\* A process without the mutex meets WorkOK.
LEMMA Unlocked ==
    ASSUME NEW q \in Procs, ~Holding(q)'
    PROVE  WorkOK(q)'
BY DEF WorkOK, Holding, Past, Undoing

\* The archive and what it was known to serve do not change.
LEMMA DataUnchanged ==
    ASSUME IInv, UNCHANGED <<disk, len, committed>>
    PROVE  (TableCells <= len)' /\ Floor(len - TableCells)' /\ DataKept'
BY DEF IInv, Floor, DataKept

\* A step of the holder that keeps the mutex.
LEMMA HolderStep ==
    ASSUME IInv, NEW p \in Procs, Holding(p), NEW l, Goto(p, l),
           TypeOK', (TableCells <= len)', Floor(len - TableCells)', DataKept', WorkOK(p)'
    PROVE  IInv'
<1>1. \A q \in Procs : q # p => WorkOK(q)'
    <2> SUFFICES ASSUME NEW q \in Procs, q # p PROVE WorkOK(q)'
        OBVIOUS
    <2>1. pc'[q] = pc[q]
        BY DEF IInv, TypeOK, Goto
    <2>2. ~Holding(q)'
        BY <2>1, Alone DEF Holding
    <2> QED
        BY <2>2, Unlocked
<1> QED
    BY <1>1 DEF IInv

\* A step of the holder that gives the mutex back.
LEMMA ReturnStep ==
    ASSUME IInv, NEW p \in Procs, Holding(p), Return(p),
           TypeOK', (TableCells <= len)', Floor(len - TableCells)', DataKept'
    PROVE  IInv'
<1>1. \A q \in Procs : WorkOK(q)'
    <2> SUFFICES ASSUME NEW q \in Procs PROVE WorkOK(q)'
        OBVIOUS
    <2>1. pc'[q] = IF q = p THEN "idle" ELSE pc[q]
        BY DEF IInv, TypeOK, Return, Goto
    <2>2. ~Holding(q)'
        BY <2>1, Alone DEF Holding
    <2> QED
        BY <2>2, Unlocked
<1> QED
    BY <1>1 DEF IInv

\* Giving the mutex back keeps the types.
LEMMA ReturnType ==
    ASSUME TypeOK, NEW p \in Procs, Return(p)
    PROVE  /\ owner' \in Procs \cup {NoProc}
           /\ pc' \in [Procs -> Labels]
           /\ w' \in [Procs -> Work]
BY BlankType DEF TypeOK, Return, Goto, Labels

\* So does a fault.
LEMMA FaultType ==
    ASSUME TypeOK, Fault
    PROVE  faults' \in 0..MaxFaults
BY SizesAssumption DEF TypeOK, Fault

\* A write that stops: what the archive serves is what counts from now on.
LEMMA SettleStep ==
    ASSUME IInv, NEW p \in Procs, Settle(p), UNCHANGED <<disk, len>>
    PROVE  /\ committed' \in [Entries -> Loc]
           /\ (TableCells <= len)'
           /\ Floor(len - TableCells)'
           /\ DataKept'
<1>1. Merged(p) \in [Entries -> Loc]
    <2>1. w[p].locs \in [Entries -> Loc] /\ committed \in [Entries -> Loc]
        BY DEF IInv, TypeOK, Work
    <2> QED
        BY <2>1 DEF Merged
<1>2. CASE committed' = committed
    BY <1>2, DataUnchanged DEF IInv, TypeOK
<1>3. CASE Serves(disk, len, Merged(p)) /\ committed' = Merged(p)
    <2> DEFINE m == Merged(p)
    <2>1. \A e \in Entries :
            /\ m[e].off + m[e].size <= len - TableCells + 1
            /\ \A i \in 1..m[e].size : disk[m[e].off + i - 1] = Blob(e, m[e].v, i)
        BY <1>3 DEF Serves
    <2>2. committed' = m /\ m \in [Entries -> Loc]
        BY <1>1, <1>3
    <2> HIDE DEF m
    <2> QED
        BY <2>1, <2>2 DEF Floor, DataKept, IInv
<1> QED
    BY <1>2, <1>3 DEF Settle

\* A cell written by a process that has read the archive lands after every
\* committed payload.
LEMMA WriteStep ==
    ASSUME IInv, NEW p \in Procs, Past(p), NEW cell \in Cell, Write(p, cell),
           UNCHANGED committed
    PROVE  /\ disk' \in [1..Cap -> Cell]
           /\ len' \in 0..Cap
           /\ len <= len'
           /\ (TableCells <= len)'
           /\ Floor(len - TableCells)'
           /\ DataKept'
<1> USE SizesAssumption, Sizes
<1>1. w[p].pos \in 1..Cap /\ w[p].start \in Nat /\ w[p].start < w[p].pos /\ Floor(w[p].start)
    BY DEF IInv, TypeOK, Work, WorkOK, Write
<1>2. disk' \in [1..Cap -> Cell] /\ \A c \in 1..Cap : c # w[p].pos => disk'[c] = disk[c]
    BY <1>1 DEF IInv, TypeOK, Write
<1>3. len' \in 0..Cap /\ len <= len'
    BY <1>1 DEF IInv, TypeOK, Write
<1>4. (TableCells <= len)'
    BY <1>3 DEF IInv, TypeOK
<1>5. Floor(len - TableCells)'
    BY <1>3 DEF IInv, TypeOK, Floor, Loc
<1>6. DataKept'
    <2> SUFFICES ASSUME NEW e \in Entries, NEW i \in 1..committed[e].size
                 PROVE  disk'[committed[e].off + i - 1] = Blob(e, committed[e].v, i)
        BY DEF DataKept
    <2> DEFINE c == committed[e].off + i - 1
    <2>1. committed[e].off \in Nat \ {0} /\ committed[e].size \in Nat
        BY DEF IInv, TypeOK, Loc
    <2>2. c \in 1..w[p].start
        BY <1>1, <2>1 DEF Floor
    <2>3. c \in 1..Cap /\ c # w[p].pos
        BY <1>1, <2>2
    <2>4. disk[c] = Blob(e, committed[e].v, i)
        BY DEF IInv, DataKept
    <2> QED
        BY <1>2, <2>3, <2>4
<1> QED
    BY <1>2, <1>3, <1>4, <1>5, <1>6

-----------------------------------------------------------------------------
(* Each step preserves the invariant *)

\* A call only fills in the locals of its process.
LEMMA CallStep == ASSUME IInv, NEW p \in Procs, Call(p) PROVE IInv'
<1> USE SizesAssumption
<1>1. PICK work \in Work : w' = [w EXCEPT ![p] = work]
    <2>1. calls + 1 \in Nat /\ BlobCells \in Nat /\ 0 \in Nat
        BY DEF IInv, TypeOK
    <2>2. \A ch \in InplaceWrites : ch \in Seq(Entries)
        BY EntriesAssumption
    <2>3. \A e \in PatchWrites : <<e>> \in Seq(Entries)
        BY EntriesAssumption
    <2>4. IdleWork \in Work
        BY BlankType
    <2>5. \A ch \in Seq(Entries), kind \in {"inplace", "patch"}, v, size \in Nat :
             [IdleWork EXCEPT !.kind = kind, !.ch = ch, !.v = v, !.size = size] \in Work
        BY <2>4 DEF Work
    <2> QED
        BY <2>1, <2>2, <2>3, <2>5 DEF Call
<1>2. TypeOK'
    <2>1. /\ Goto(p, "lock") /\ calls' = calls + 1 /\ calls < MaxCalls
          /\ UNCHANGED <<disk, len, bak, bakLen, owner, committed, faults>>
        BY DEF Call
    <2>2. w' \in [Procs -> Work]
        BY <1>1 DEF IInv, TypeOK
    <2>3. pc' \in [Procs -> Labels]
        BY <2>1 DEF Goto, IInv, TypeOK, Labels
    <2>4. calls' \in 0..MaxCalls
        BY <2>1 DEF IInv, TypeOK
    <2> QED
        BY <2>1, <2>2, <2>3, <2>4 DEF IInv, TypeOK
<1>3. (TableCells <= len)' /\ Floor(len - TableCells)' /\ DataKept'
    BY DataUnchanged DEF Call
<1>4. \A q \in Procs : WorkOK(q)'
    <2> SUFFICES ASSUME NEW q \in Procs PROVE WorkOK(q)'
        OBVIOUS
    <2>1. CASE q = p
        <3>1. pc'[q] = "lock"
            BY <2>1 DEF Call, Goto, IInv, TypeOK
        <3> QED
            BY <3>1, Unlocked DEF Holding
    <2>2. CASE q # p
        <3>1. pc'[q] = pc[q] /\ w'[q] = w[q]
            BY <1>1, <2>2 DEF Call, Goto, IInv, TypeOK
        <3> QED
            BY <3>1 DEF IInv, WorkOK, Holding, Past, Undoing, Floor, Call
    <2> QED
        BY <2>1, <2>2
<1> QED
    BY <1>2, <1>3, <1>4 DEF IInv

\* The mutex goes to a process only when nobody has it.
LEMMA LockStep == ASSUME IInv, NEW p \in Procs, Lock(p) PROVE IInv'
<1>1. TypeOK'
    BY DEF Lock, Goto, IInv, TypeOK, Labels
<1>2. (TableCells <= len)' /\ Floor(len - TableCells)' /\ DataKept'
    BY DataUnchanged DEF Lock
<1>3. \A q \in Procs : WorkOK(q)'
    <2> SUFFICES ASSUME NEW q \in Procs PROVE WorkOK(q)'
        OBVIOUS
    <2>1. CASE q = p
        BY <2>1 DEF Lock, Goto, IInv, TypeOK, WorkOK, Holding, Past, Undoing
    <2>2. CASE q # p
        <3>1. ~Holding(q)
            BY ProcsAssumption DEF Lock, IInv, WorkOK
        <3>2. pc'[q] = pc[q]
            BY <2>2 DEF Lock, Goto, IInv, TypeOK
        <3> QED
            BY <3>1, <3>2, Unlocked DEF Holding
    <2> QED
        BY <2>1, <2>2
<1> QED
    BY <1>1, <1>2, <1>3 DEF IInv

\* A wait that times out touches nothing but its process.
LEMMA LockTimeoutStep == ASSUME IInv, NEW p \in Procs, LockTimeout(p) PROVE IInv'
<1>1. TypeOK'
    BY BlankType DEF LockTimeout, Goto, IInv, TypeOK, Labels
<1>2. (TableCells <= len)' /\ Floor(len - TableCells)' /\ DataKept'
    BY DataUnchanged DEF LockTimeout
<1>3. \A q \in Procs : WorkOK(q)'
    <2> SUFFICES ASSUME NEW q \in Procs PROVE WorkOK(q)'
        OBVIOUS
    <2>1. CASE q = p
        <3>1. pc'[q] = "idle"
            BY <2>1 DEF LockTimeout, Goto, IInv, TypeOK
        <3> QED
            BY <3>1, Unlocked DEF Holding
    <2>2. CASE q # p
        <3>1. pc'[q] = pc[q] /\ w'[q] = w[q]
            BY <2>2 DEF LockTimeout, Goto, IInv, TypeOK
        <3> QED
            BY <3>1 DEF IInv, WorkOK, Holding, Past, Undoing, Floor, LockTimeout
    <2> QED
        BY <2>1, <2>2
<1> QED
    BY <1>1, <1>2, <1>3 DEF IInv

\* A refused write leaves the archive alone.
LEMMA RefuseStep == ASSUME IInv, NEW p \in Procs, Refuse(p) PROVE IInv'
<1>1. Return(p) /\ Holding(p)
    BY DEF Refuse, Holding
<1>2. faults' \in 0..MaxFaults
    BY FaultType DEF Refuse, IInv, TypeOK
<1>3. TypeOK'
    BY <1>1, <1>2, ReturnType DEF Refuse, IInv, TypeOK
<1>4. (TableCells <= len)' /\ Floor(len - TableCells)' /\ DataKept'
    BY DataUnchanged DEF Refuse
<1> QED
    BY <1>1, <1>3, <1>4, ReturnStep

\* write_inplace begins its write right after the committed payloads.
LEMMA ReadInplaceStep == ASSUME IInv, NEW p \in Procs, ReadInplace(p) PROVE IInv'
<1> USE SizesAssumption, Sizes
<1> DEFINE start == len - TableCells
           tail  == [i \in 1..TableCells |-> disk[start + i]]
           recs  == Records(disk, len)
<1>1. start \in Nat /\ start + 1 \in 1..(Cap + 1) /\ len \in 0..Cap /\ start + TableCells = len
    BY DEF IInv, TypeOK
<1>2. tail \in [1..TableCells -> Cell]
    <2> SUFFICES ASSUME NEW i \in 1..TableCells PROVE disk[start + i] \in Cell
        OBVIOUS
    <2>1. start + i \in 1..Cap
        BY <1>1
    <2> QED
        BY <2>1 DEF IInv, TypeOK
<1>3. recs \in [1..Slots -> RecCell \cup {Gap}]
    BY RecordsType DEF IInv, TypeOK
<1>4. w' = [w EXCEPT ![p] =
              [w[p] EXCEPT !.start = start, !.orig = len, !.tail = tail, !.recs = recs,
                           !.locs = committed, !.pos = start + 1, !.cursor = start]]
    BY DEF ReadInplace
<1> HIDE DEF start, tail, recs
<1>5. w[p] \in Work /\ committed \in [Entries -> Loc]
    BY DEF IInv, TypeOK
<1>6. [w[p] EXCEPT !.start = start, !.orig = len, !.tail = tail, !.recs = recs,
                   !.locs = committed, !.pos = start + 1, !.cursor = start] \in Work
    BY <1>1, <1>2, <1>3, <1>5 DEF Work
<1>7. /\ Goto(p, "save") /\ bakLen' = 0 /\ Holding(p)
      /\ UNCHANGED <<disk, len, bak, owner, committed, calls, faults>>
    BY DEF ReadInplace, Holding
<1>8. TypeOK'
    <2>1. w' \in [Procs -> Work]
        BY <1>4, <1>6 DEF IInv, TypeOK
    <2>2. pc' \in [Procs -> Labels]
        BY <1>7 DEF Goto, IInv, TypeOK, Labels
    <2> QED
        BY <1>7, <2>1, <2>2 DEF IInv, TypeOK
<1>9. (TableCells <= len)' /\ Floor(len - TableCells)' /\ DataKept'
    BY <1>7, DataUnchanged
<1>10. w'[p].start = start /\ w'[p].orig = len /\ w'[p].pos = start + 1
    BY <1>4, <1>5 DEF IInv, TypeOK, Work
<1>11. pc'[p] = "save" /\ owner' = p
    BY <1>7 DEF Goto, IInv, TypeOK, WorkOK
<1>12. \A e \in Entries : committed'[e].off + committed'[e].size <= start + 1
    BY <1>7, <1>9 DEF start, Floor
<1>13. WorkOK(p)'
    <2>1. Floor(w[p].start)'
        BY <1>10, <1>12 DEF Floor
    <2> QED
        BY <1>1, <1>7, <1>10, <1>11, <2>1 DEF WorkOK, Holding, Past, Undoing
<1> QED
    BY <1>7, <1>8, <1>9, <1>13, HolderStep

\* One more payload or record is located.
LEMMA LocType ==
    ASSUME NEW locs \in [Entries -> Loc], NEW e,
           NEW v \in Nat, NEW off \in Nat \ {0}, NEW size \in Nat
    PROVE  [locs EXCEPT ![e] = [v |-> v, off |-> off, size |-> size]] \in [Entries -> Loc]
<1>1. [v |-> v, off |-> off, size |-> size] \in Loc
    BY DEF Loc
<1> QED
    BY <1>1

\* A process that writes a cell of a payload, or of the saved tail, keeps its place.
LEMMA WroteOn ==
    ASSUME IInv, NEW p \in Procs, Past(p), len <= len', len' \in 0..Cap,
           UNCHANGED <<owner, committed>>,
           w'[p].start = w[p].start, w'[p].pos = w[p].pos + 1,
           w'[p].kind = w[p].kind, w'[p].orig = w[p].orig,
           pc'[p] \in {"blob", "roll", "undo", "rolllen", "undolen"},
           pc'[p] # "blob" => Undoing(p)
    PROVE  WorkOK(p)'
<1>1. w[p].start \in Nat /\ w[p].pos \in Nat /\ len \in Nat /\ len' \in Nat /\ TableCells \in Nat
    BY Sizes, SizesAssumption DEF IInv, TypeOK, Work
<1>2. WorkOK(p) /\ Holding(p)
    BY DEF IInv, Past, Holding
<1>3. w'[p].start + TableCells <= len' /\ w'[p].start < w'[p].pos
    BY <1>1, <1>2 DEF WorkOK
<1>4. Floor(w[p].start)'
    BY <1>2 DEF WorkOK, Floor
<1>5. owner' = p /\ (w'[p].kind = "inplace" => w'[p].orig = w'[p].start + TableCells)
    BY <1>2 DEF WorkOK
<1>6. Undoing(p)' => w'[p].kind = "inplace"
    BY <1>2 DEF WorkOK, Undoing
<1> QED
    BY <1>3, <1>4, <1>5, <1>6 DEF WorkOK, Holding, Past, Undoing

\* penalties::write_entry begins its write there too.
LEMMA ReadPatchStep == ASSUME IInv, NEW p \in Procs, ReadPatch(p) PROVE IInv'
<1> USE SizesAssumption, Sizes
<1> DEFINE start == len - TableCells
           e     == w[p].ch[1]
           size  == w[p].size
           tab   == Patched(disk, len, e, start + 1, size)
           locs  == [committed EXCEPT ![e] = [v |-> w[p].v, off |-> start + 1, size |-> size]]
           next  == [w[p] EXCEPT !.start = start, !.pos = start + 1, !.cursor = start,
                                 !.i = 1, !.tab = tab, !.locs = locs]
           to    == IF size = 0 THEN "table" ELSE "blob"
<1>1. start \in Nat /\ start + 1 \in 1..(Cap + 1) /\ len \in 0..Cap /\ start + TableCells = len
    BY DEF IInv, TypeOK
<1>2. w[p] \in Work /\ committed \in [Entries -> Loc] /\ disk \in [1..Cap -> Cell]
    BY DEF IInv, TypeOK
<1>3. size \in Nat /\ w[p].v \in Nat
    BY <1>2 DEF Work
<1>4. e \in Entries
    <2>1. PICK k \in 1..Slots : LET at == SlotAt(len - TableCells, k)
                                IN  at \in DOMAIN disk /\ disk[at].kind = "rec" /\ disk[at].e = e
        BY DEF ReadPatch, NeedleSlots
    <2>2. PICK c \in Cell : c.kind = "rec" /\ c.e = e
        BY <1>2, <2>1
    <2> QED
        BY <2>2, RecCells DEF RecCell
<1>5. tab \in [1..TableCells -> Cell]
    BY <1>1, <1>2, <1>3, <1>4, PatchedType DEF IInv
<1>6. locs \in [Entries -> Loc]
    BY <1>1, <1>2, <1>3, LocType
<1>7. w' = [w EXCEPT ![p] = next]
    BY DEF ReadPatch
<1>8. /\ Goto(p, to) /\ Holding(p) /\ w[p].kind = "patch"
      /\ UNCHANGED <<disk, len, bak, bakLen, owner, committed, calls, faults>>
    BY DEF ReadPatch, Holding
<1>9. next \in Work
    <2> HIDE DEF start, e, size, tab, locs
    <2>1. 1 \in Nat \ {0}
        OBVIOUS
    <2> QED
        BY <1>1, <1>2, <1>5, <1>6, <2>1 DEF Work
<1> HIDE DEF start, e, size, tab, locs
<1>10. /\ next.start = start /\ next.pos = start + 1 /\ next.i = 1 /\ next.kind = "patch"
    BY <1>2, <1>8 DEF Work
<1> HIDE DEF next
<1>11. TypeOK'
    <2>1. w' \in [Procs -> Work]
        BY <1>7, <1>9 DEF IInv, TypeOK
    <2>2. pc' \in [Procs -> Labels]
        BY <1>8 DEF Goto, IInv, TypeOK, Labels
    <2> QED
        BY <1>8, <2>1, <2>2 DEF IInv, TypeOK
<1>12. (TableCells <= len)' /\ Floor(len - TableCells)' /\ DataKept'
    BY <1>8, DataUnchanged
<1>13. w'[p] = next /\ pc'[p] = to /\ owner' = p
    BY <1>7, <1>8 DEF Goto, IInv, TypeOK, WorkOK
<1>14. \A x \in Entries : committed'[x].off + committed'[x].size <= start + 1
    BY <1>8, <1>12 DEF start, Floor
<1>15. WorkOK(p)'
    <2>1. Floor(w[p].start)'
        BY <1>10, <1>13, <1>14 DEF Floor
    <2> QED
        BY <1>1, <1>8, <1>10, <1>13, <2>1 DEF WorkOK, Holding, Past, Undoing
<1> QED
    BY <1>8, <1>11, <1>12, <1>15, HolderStep

\* Saving the tail writes .bak_tables only.
LEMMA SaveTailStep == ASSUME IInv, NEW p \in Procs, SaveTail(p) PROVE IInv'
<1> USE SizesAssumption, Sizes
<1> DEFINE to == IF bakLen' = TableCells THEN "blob" ELSE "save"
<1>1. /\ Goto(p, to) /\ Holding(p) /\ pc[p] = "save"
      /\ UNCHANGED <<disk, len, owner, w, committed, calls, faults>>
    BY DEF SaveTail, Holding
<1>2. TypeOK'
    <2>1. w[p].tail \in [1..TableCells -> Cell]
        BY DEF IInv, TypeOK, Work
    <2>2. bak' \in [1..TableCells -> Cell] /\ bakLen' \in 0..TableCells
        BY <2>1 DEF SaveTail, IInv, TypeOK
    <2>3. pc' \in [Procs -> Labels]
        BY <1>1 DEF Goto, IInv, TypeOK, Labels
    <2> QED
        BY <1>1, <2>2, <2>3 DEF IInv, TypeOK
<1>3. (TableCells <= len)' /\ Floor(len - TableCells)' /\ DataKept'
    BY <1>1, DataUnchanged
<1>4. pc'[p] \in {"save", "blob"}
    BY <1>1 DEF Goto, IInv, TypeOK
<1>5. WorkOK(p)'
    BY <1>1, <1>4 DEF IInv, WorkOK, Holding, Past, Undoing, Floor
<1> QED
    BY <1>1, <1>2, <1>3, <1>5, HolderStep

\* A failed copy ends the write before the archive is touched.
LEMMA SaveFailsStep == ASSUME IInv, NEW p \in Procs, SaveFails(p) PROVE IInv'
<1>1. /\ Return(p) /\ Holding(p) /\ faults' \in 0..MaxFaults
      /\ UNCHANGED <<disk, len, bak, bakLen, committed, calls>>
    BY FaultType DEF SaveFails, Holding, IInv
<1>2. TypeOK'
    BY <1>1, ReturnType DEF IInv, TypeOK
<1>3. (TableCells <= len)' /\ Floor(len - TableCells)' /\ DataKept'
    BY <1>1, DataUnchanged
<1> QED
    BY <1>1, <1>2, <1>3, ReturnStep

\* A payload cell lands after the committed payloads.
LEMMA PutBlobStep == ASSUME IInv, NEW p \in Procs, PutBlob(p) PROVE IInv'
<1> USE SizesAssumption, Sizes
<1> DEFINE e    == w[p].ch[w[p].j]
           last == w[p].i = w[p].size
           off  == w[p].cursor + 1
           cell == Blob(e, w[p].v, w[p].i)
           recs == IF last THEN Upsert(w[p].recs, e, off, w[p].size) ELSE w[p].recs
           locs == IF last
                   THEN [w[p].locs EXCEPT ![e] = [v |-> w[p].v, off |-> off, size |-> w[p].size]]
                   ELSE w[p].locs
           i    == IF last THEN 1 ELSE w[p].i + 1
           j    == IF last THEN w[p].j + 1 ELSE w[p].j
           cur  == IF last THEN w[p].cursor + w[p].size ELSE w[p].cursor
           next == [w[p] EXCEPT !.pos = w[p].pos + 1, !.i = i, !.j = j, !.cursor = cur,
                                !.recs = recs, !.locs = locs]
<1>1. /\ Write(p, cell) /\ Holding(p) /\ pc[p] = "blob" /\ w[p].j <= Len(w[p].ch)
      /\ UNCHANGED <<bak, bakLen, owner, pc, committed, calls, faults>>
    BY DEF PutBlob, Holding
<1>2. w' = [w EXCEPT ![p] = next]
    BY DEF PutBlob
<1>3. w[p] \in Work
    BY DEF IInv, TypeOK
<1>4. /\ w[p].v \in Nat /\ w[p].i \in Nat \ {0} /\ w[p].j \in Nat \ {0} /\ w[p].size \in Nat
      /\ w[p].cursor \in Nat /\ w[p].pos \in 1..(Cap + 1) /\ w[p].ch \in Seq(Entries)
      /\ w[p].recs \in [1..Slots -> RecCell \cup {Gap}] /\ w[p].locs \in [Entries -> Loc]
    BY <1>3 DEF Work
<1>5. e \in Entries
    BY <1>1, <1>4
<1>6. cell \in Cell
    BY <1>4, <1>5, BuiltCells
<1>7. recs \in [1..Slots -> RecCell \cup {Gap}]
    <2>1. off \in Nat
        BY <1>4
    <2>2. Upsert(w[p].recs, e, off, w[p].size) \in [1..Slots -> RecCell \cup {Gap}]
        BY <1>4, <1>5, <2>1, UpsertType
    <2> QED
        BY <1>4, <2>2
<1>8. locs \in [Entries -> Loc]
    <2>1. off \in Nat \ {0}
        BY <1>4
    <2>2. [w[p].locs EXCEPT ![e] = [v |-> w[p].v, off |-> off, size |-> w[p].size]]
            \in [Entries -> Loc]
        BY <1>4, <2>1, LocType
    <2> QED
        BY <1>4, <2>2
<1>9. i \in Nat \ {0} /\ j \in Nat \ {0} /\ cur \in Nat /\ w[p].pos + 1 \in 1..(Cap + 1)
    <2>1. w[p].pos <= Cap
        BY <1>1 DEF Write
    <2>a. w[p].pos \in 1..(Cap + 1)
        BY <1>4
    <2>2. w[p].pos + 1 \in 1..(Cap + 1)
        BY <2>1, <2>a
    <2> DEFINE wi == w[p].i
               wj == w[p].j
               wc == w[p].cursor
               ws == w[p].size
    <2>3. wi \in Nat \ {0} /\ wj \in Nat \ {0} /\ wc \in Nat /\ ws \in Nat
        BY <1>4
    <2> HIDE DEF wi, wj, wc, ws
    <2>4. wi + 1 \in Nat \ {0} /\ wj + 1 \in Nat \ {0} /\ wc + ws \in Nat
        BY <2>3
    <2> QED
        BY <2>2, <2>3, <2>4 DEF wi, wj, wc, ws
<1> HIDE DEF e, last, off, cell, recs, locs, i, j, cur
<1>10. next \in Work
    BY <1>3, <1>7, <1>8, <1>9 DEF Work
<1>11. next.start = w[p].start /\ next.pos = w[p].pos + 1 /\ next.kind = w[p].kind
       /\ next.orig = w[p].orig
    BY <1>3 DEF Work
<1> HIDE DEF next
<1>12. /\ disk' \in [1..Cap -> Cell] /\ len' \in 0..Cap /\ len <= len'
       /\ (TableCells <= len)' /\ Floor(len - TableCells)' /\ DataKept'
    BY <1>1, <1>6, WriteStep DEF Past
<1>13. TypeOK'
    <2>1. w' \in [Procs -> Work]
        BY <1>2, <1>10 DEF IInv, TypeOK
    <2> QED
        BY <1>1, <1>12, <2>1 DEF IInv, TypeOK
<1>14. w'[p] = next /\ Goto(p, "blob")
    BY <1>1, <1>2 DEF IInv, TypeOK, Goto
<1>15. WorkOK(p)'
    <2>1. w'[p].start = w[p].start /\ w'[p].pos = w[p].pos + 1
          /\ w'[p].kind = w[p].kind /\ w'[p].orig = w[p].orig
        BY <1>11, <1>14
    <2>2. pc'[p] = "blob" /\ owner' = owner
        BY <1>1
    <2> QED
        BY <1>1, <1>12, <2>1, <2>2, WroteOn DEF Past
<1> QED
    BY <1>1, <1>12, <1>13, <1>14, <1>15, HolderStep

\* The numbers a write keeps.
LEMMA WorkTypes ==
    ASSUME TypeOK, NEW p \in Procs
    PROVE  /\ w[p] \in Work
           /\ w[p].start \in Nat /\ w[p].pos \in Nat \ {0} /\ w[p].pos <= Cap + 1
           /\ w[p].i \in Nat \ {0} /\ w[p].kind \in {"inplace", "patch"}
           /\ w[p].tab \in [1..TableCells -> Cell] /\ w[p].tail \in [1..TableCells -> Cell]
           /\ w[p].recs \in [1..Slots -> RecCell \cup {Gap}]
           /\ w[p].orig \in 0..Cap
           /\ len \in Nat /\ len <= Cap
<1>1. w[p] \in Work /\ len \in 0..Cap
    BY DEF TypeOK
<1>2. w[p].pos \in 1..(Cap + 1) /\ w[p].start \in Nat /\ w[p].orig \in 0..Cap
    BY <1>1 DEF Work
<1>3. w[p].i \in Nat \ {0} /\ w[p].kind \in {"inplace", "patch"}
    BY <1>1 DEF Work
<1>4. w[p].tab \in [1..TableCells -> Cell] /\ w[p].tail \in [1..TableCells -> Cell]
    BY <1>1 DEF Work
<1>5. w[p].recs \in [1..Slots -> RecCell \cup {Gap}]
    BY <1>1 DEF Work
<1>6. w[p].pos \in Nat \ {0} /\ w[p].pos <= Cap + 1 /\ len \in Nat /\ len <= Cap
    BY <1>1, <1>2, SizesAssumption
<1> QED
    BY <1>1, <1>2, <1>3, <1>4, <1>5, <1>6

\* The rollback and undo_inplace begin at the first cell of the table they put back.
LEMMA Rewound ==
    ASSUME IInv, NEW p \in Procs, Past(p), w[p].kind = "inplace",
           NEW l \in {"roll", "undo"}, Goto(p, l),
           w' = [w EXCEPT ![p].i = 1, ![p].pos = w[p].start + 1],
           UNCHANGED <<disk, len, bak, bakLen, owner, committed, calls>>,
           faults' \in 0..MaxFaults
    PROVE  IInv'
<1> USE SizesAssumption, Sizes
<1> DEFINE next == [w[p] EXCEPT !.i = 1, !.pos = w[p].start + 1]
<1>1. w' = [w EXCEPT ![p] = next]
    OBVIOUS
<1>2. w[p] \in Work /\ WorkOK(p) /\ Holding(p)
    BY DEF IInv, TypeOK, Past, Holding
<1>3. w[p].start + 1 \in 1..(Cap + 1) /\ 1 \in Nat \ {0}
    <2>1. w[p].start \in Nat /\ w[p].start + TableCells <= len /\ len \in 0..Cap
        BY <1>2 DEF WorkOK, Work, IInv, TypeOK
    <2> QED
        BY <2>1
<1>4. next \in Work
    BY <1>2, <1>3 DEF Work
<1>5. /\ next.start = w[p].start /\ next.pos = w[p].start + 1
      /\ next.kind = "inplace" /\ next.orig = w[p].orig
    BY <1>2 DEF Work
<1> HIDE DEF next
<1>6. TypeOK'
    <2>1. w' \in [Procs -> Work]
        BY <1>1, <1>4 DEF IInv, TypeOK
    <2>2. pc' \in [Procs -> Labels]
        BY DEF Goto, IInv, TypeOK, Labels
    <2> QED
        BY <2>1, <2>2 DEF IInv, TypeOK
<1>7. (TableCells <= len)' /\ Floor(len - TableCells)' /\ DataKept'
    BY DataUnchanged
<1>8. w'[p] = next /\ pc'[p] = l
    BY <1>1 DEF Goto, IInv, TypeOK
<1>9. WorkOK(p)'
    <2>1. Floor(w[p].start)'
        BY <1>2, <1>5, <1>8 DEF WorkOK, Floor
    <2>2. w'[p].start + TableCells <= len' /\ w'[p].start < w'[p].pos
        <3>1. w[p].start + TableCells <= len
            BY <1>2 DEF WorkOK
        <3>2. w'[p].start = w[p].start /\ w'[p].pos = w[p].start + 1
            BY <1>5, <1>8
        <3>3. w[p].start \in Nat /\ len' = len /\ len \in Nat /\ TableCells \in Nat
            BY WorkTypes DEF IInv
        <3>4. w[p].start < w[p].start + 1
            BY <3>3
        <3> QED
            BY <3>1, <3>2, <3>3, <3>4
    <2> QED
        BY <1>2, <1>5, <1>8, <2>1, <2>2 DEF WorkOK, Holding, Past, Undoing
<1> QED
    BY <1>2, <1>6, <1>7, <1>9, HolderStep

\* A table is made of record cells; a clash of ids goes to the rollback.
LEMMA BuildTableStep == ASSUME IInv, NEW p \in Procs, BuildTable(p) PROVE IInv'
<1> USE SizesAssumption, Sizes
<1>1. /\ pc[p] = "blob" /\ Past(p) /\ Holding(p)
      /\ UNCHANGED <<disk, len, bak, bakLen, owner, committed, calls, faults>>
    BY DEF BuildTable, Past, Holding
<1>2. w[p] \in Work /\ WorkOK(p) /\ faults' \in 0..MaxFaults
    BY <1>1 DEF IInv, TypeOK
<1>3. CASE /\ Goto(p, "roll") /\ w[p].kind # "patch"
           /\ w' = [w EXCEPT ![p].i = 1, ![p].pos = w[p].start + 1]
    <2>1. w[p].kind = "inplace"
        BY <1>2, <1>3 DEF Work
    <2> QED
        BY <1>1, <1>2, <1>3, <2>1, Rewound
<1>4. CASE /\ Goto(p, "table")
           /\ w' = [w EXCEPT ![p].i = 1,
                             ![p].tab = IF w[p].kind = "patch" THEN @ ELSE Table(w[p].recs)]
    <2> DEFINE tab  == IF w[p].kind = "patch" THEN w[p].tab ELSE Table(w[p].recs)
               next == [w[p] EXCEPT !.i = 1, !.tab = tab]
    <2>1. w' = [w EXCEPT ![p] = next]
        BY <1>4
    <2>2. tab \in [1..TableCells -> Cell]
        <3>1. w[p].tab \in [1..TableCells -> Cell] /\ w[p].recs \in [1..Slots -> RecCell \cup {Gap}]
            BY <1>2 DEF Work
        <3> QED
            BY <3>1, TableType
    <2> HIDE DEF tab
    <2>3. next \in Work
        <3>1. 1 \in Nat \ {0}
            OBVIOUS
        <3> QED
            BY <1>2, <2>2, <3>1 DEF Work
    <2>4. /\ next.start = w[p].start /\ next.pos = w[p].pos /\ next.i = 1
          /\ next.kind = w[p].kind /\ next.orig = w[p].orig
        BY <1>2 DEF Work
    <2> HIDE DEF next
    <2>5. TypeOK'
        <3>1. w' \in [Procs -> Work]
            BY <2>1, <2>3 DEF IInv, TypeOK
        <3>2. pc' \in [Procs -> Labels]
            BY <1>4 DEF Goto, IInv, TypeOK, Labels
        <3> QED
            BY <1>1, <3>1, <3>2 DEF IInv, TypeOK
    <2>6. (TableCells <= len)' /\ Floor(len - TableCells)' /\ DataKept'
        BY <1>1, DataUnchanged
    <2>7. w'[p] = next /\ pc'[p] = "table"
        BY <1>4, <2>1 DEF Goto, IInv, TypeOK
    <2>8. WorkOK(p)'
        <3>1. Floor(w[p].start)'
            BY <1>1, <1>2, <2>4, <2>7 DEF WorkOK, Floor
        <3>2. w'[p].start + 1 <= w'[p].pos
            <4>1. w[p].start < w[p].pos
                BY <1>1, <1>2 DEF WorkOK
            <4> QED
                BY <2>4, <2>7, <4>1, WorkTypes DEF IInv
        <3> QED
            BY <1>1, <1>2, <2>4, <2>7, <3>1, <3>2 DEF WorkOK, Holding, Past, Undoing
    <2> QED
        BY <1>1, <1>4, <2>5, <2>6, <2>8, HolderStep
<1> QED
    BY <1>3, <1>4 DEF BuildTable

\* A table cell lands after the committed payloads.
LEMMA PutTableStep == ASSUME IInv, NEW p \in Procs, PutTable(p) PROVE IInv'
<1> USE SizesAssumption, Sizes
<1> DEFINE cell == w[p].tab[w[p].i]
           next == [w[p] EXCEPT !.pos = w[p].pos + 1, !.i = w[p].i + 1]
           to   == IF w[p].i = TableCells THEN "setlen" ELSE "table"
<1>1. /\ Write(p, cell) /\ Holding(p) /\ Past(p) /\ pc[p] = "table" /\ Goto(p, to)
      /\ w[p].i <= TableCells
      /\ UNCHANGED <<bak, bakLen, owner, committed, calls, faults>>
    BY DEF PutTable, Holding, Past
<1>2. w' = [w EXCEPT ![p] = next]
    BY DEF PutTable
<1>3. w[p] \in Work /\ WorkOK(p)
    BY DEF IInv, TypeOK
<1>4. w[p].i \in 1..TableCells /\ w[p].pos \in 1..Cap /\ w[p].start \in Nat
    <2>1. w[p].pos <= Cap
        BY <1>1 DEF Write
    <2>2. w[p].i \in Nat \ {0} /\ w[p].pos \in Nat \ {0} /\ w[p].start \in Nat
        BY WorkTypes DEF IInv
    <2>3. w[p].i <= TableCells
        BY <1>1
    <2> QED
        BY <2>1, <2>2, <2>3
<1>5. cell \in Cell
    BY <1>4, WorkTypes DEF IInv
<1>6. w[p].pos + 1 \in 1..(Cap + 1) /\ w[p].i + 1 \in Nat \ {0}
    BY <1>4
<1>7. next \in Work
    BY <1>3, <1>6 DEF Work
<1>8. /\ next.start = w[p].start /\ next.pos = w[p].pos + 1 /\ next.i = w[p].i + 1
      /\ next.kind = w[p].kind /\ next.orig = w[p].orig
    BY <1>3 DEF Work
<1> HIDE DEF cell, next
<1>9. /\ disk' \in [1..Cap -> Cell] /\ len' \in 0..Cap /\ len <= len'
      /\ (TableCells <= len)' /\ Floor(len - TableCells)' /\ DataKept'
    BY <1>1, <1>5, WriteStep
<1>10. TypeOK'
    <2>1. w' \in [Procs -> Work]
        BY <1>2, <1>7 DEF IInv, TypeOK
    <2>2. pc' \in [Procs -> Labels]
        BY <1>1 DEF Goto, IInv, TypeOK, Labels
    <2> QED
        BY <1>1, <1>9, <2>1, <2>2 DEF IInv, TypeOK
<1>11. w'[p] = next /\ pc'[p] = to
    BY <1>1, <1>2 DEF IInv, TypeOK, Goto
<1>12. WorkOK(p)'
    <2>1. len \in Nat /\ len' \in Nat
        BY <1>9 DEF IInv, TypeOK
    <2>2. Floor(w[p].start)'
        BY <1>1, <1>3, <1>8, <1>11 DEF WorkOK, Floor
    <2>a. /\ w'[p].start = w[p].start /\ w'[p].pos = w[p].pos + 1 /\ w'[p].i = w[p].i + 1
          /\ (pc'[p] = "setlen" => w[p].i = TableCells)
        BY <1>8, <1>11
    <2>b. /\ w[p].start + TableCells <= len /\ w[p].start < w[p].pos
          /\ w[p].start + w[p].i <= w[p].pos
        BY <1>1, <1>3 DEF WorkOK
    <2>3. w'[p].start + TableCells <= len' /\ w'[p].start < w'[p].pos
        <3>1. w[p].pos \in Nat /\ TableCells \in Nat
            BY <1>4
        <3>2. w[p].start + TableCells <= len' /\ w[p].start < w[p].pos + 1
            BY SMTT(30), <1>4, <1>9, <2>1, <2>b, <3>1, StillAhead
        <3> QED
            BY <2>a, <3>2
    <2>4. w'[p].start + w'[p].i <= w'[p].pos
        BY <1>4, <2>a, <2>b
    <2>5. pc'[p] = "setlen" => w'[p].start + TableCells < w'[p].pos
        BY <1>4, <2>a, <2>b
    <2> QED
        BY <1>1, <1>3, <1>8, <1>11, <2>2, <2>3, <2>4, <2>5
           DEF WorkOK, Holding, Past, Undoing
<1> QED
    BY <1>1, <1>9, <1>10, <1>12, HolderStep

\* The file is never cut below the committed payloads.
LEMMA SetLenStep == ASSUME IInv, NEW p \in Procs, SetLen(p) PROVE IInv'
<1> USE SizesAssumption, Sizes
<1>1. /\ pc[p] = "setlen" /\ Holding(p) /\ Past(p) /\ Goto(p, "verify") /\ len' = w[p].pos - 1
      /\ UNCHANGED <<disk, bak, bakLen, owner, w, committed, calls, faults>>
    BY DEF SetLen, Holding, Past
<1>2. w[p] \in Work /\ WorkOK(p) /\ committed \in [Entries -> Loc]
    BY DEF IInv, TypeOK
<1>3. w[p].start \in Nat /\ w[p].pos \in 1..(Cap + 1)
    BY <1>2 DEF Work
<1>4. len' \in 0..Cap /\ w[p].start + TableCells <= len'
    BY <1>1, <1>2, <1>3 DEF WorkOK
<1>5. Floor(w[p].start)
    BY <1>1, <1>2 DEF WorkOK
<1>6. Floor(len - TableCells)'
    <2> SUFFICES ASSUME NEW e \in Entries
                 PROVE  committed[e].off + committed[e].size <= len' - TableCells + 1
        BY <1>1 DEF Floor
    <2>1. committed[e].off \in Nat /\ committed[e].size \in Nat
        BY <1>2 DEF Loc
    <2>2. committed[e].off + committed[e].size <= w[p].start + 1
        BY <1>5 DEF Floor
    <2> QED
        BY <1>3, <1>4, <2>1, <2>2
<1>7. DataKept'
    BY <1>1 DEF IInv, DataKept
<1>8. TypeOK'
    BY <1>1, <1>4 DEF IInv, TypeOK, Goto, Labels
<1>9. pc'[p] = "verify"
    BY <1>1 DEF Goto, IInv, TypeOK
<1>10. WorkOK(p)'
    BY <1>1, <1>2, <1>4, <1>9 DEF WorkOK, Holding, Past, Undoing, Floor
<1>11. (TableCells <= len)'
    BY <1>3, <1>4
<1> QED
    BY <1>1, <1>6, <1>7, <1>8, <1>10, <1>11, HolderStep

\* A write that ends with the file as it stands.
LEMMA StopStep ==
    ASSUME IInv, NEW p \in Procs, Holding(p), Return(p), Settle(p),
           UNCHANGED <<disk, len, bak, bakLen, calls>>, faults' \in 0..MaxFaults
    PROVE  IInv'
<1>1. /\ committed' \in [Entries -> Loc]
      /\ (TableCells <= len)' /\ Floor(len - TableCells)' /\ DataKept'
    BY SettleStep
<1>2. TypeOK'
    BY <1>1, ReturnType DEF IInv, TypeOK
<1> QED
    BY <1>1, <1>2, ReturnStep

\* A failed write goes to the rollback, or stops where it is.
LEMMA WriteFailsStep == ASSUME IInv, NEW p \in Procs, WriteFails(p) PROVE IInv'
<1>1. /\ Past(p) /\ Holding(p) /\ faults' \in 0..MaxFaults
      /\ UNCHANGED <<disk, len, bak, bakLen, calls>>
    <2>1. faults' = faults \/ Fault
        BY DEF WriteFails, WriteError
    <2> QED
        BY <2>1, FaultType DEF WriteFails, Past, Holding, IInv, TypeOK
<1>2. CASE w[p].kind = "inplace"
    <2>1. /\ Goto(p, "roll") /\ w' = [w EXCEPT ![p].i = 1, ![p].pos = w[p].start + 1]
          /\ UNCHANGED <<owner, committed>>
        BY <1>2 DEF WriteFails
    <2> QED
        BY <1>1, <1>2, <2>1, Rewound
<1>3. CASE w[p].kind # "inplace"
    <2>1. Return(p) /\ Settle(p)
        BY <1>3 DEF WriteFails
    <2> QED
        BY <1>1, <2>1, StopStep
<1> QED
    BY <1>2, <1>3

\* A verified write settles what the archive serves.
LEMMA VerifyStep == ASSUME IInv, NEW p \in Procs, Verify(p) PROVE IInv'
<1>1. /\ Holding(p) /\ Return(p) /\ Settle(p) /\ faults' \in 0..MaxFaults
      /\ UNCHANGED <<disk, len, bak, bakLen, calls>>
    BY DEF Verify, Holding, IInv, TypeOK
<1> QED
    BY <1>1, StopStep

\* A write that does not verify is undone from .bak_tables.
LEMMA VerifyFailsStep == ASSUME IInv, NEW p \in Procs, VerifyFails(p) PROVE IInv'
<1>1. /\ Past(p) /\ Holding(p) /\ w[p].kind = "inplace" /\ faults' \in 0..MaxFaults
      /\ UNCHANGED <<disk, len, bak, bakLen, calls>>
    <2>1. faults' = faults \/ Fault
        BY DEF VerifyFails
    <2> QED
        BY <2>1, FaultType DEF VerifyFails, Past, Holding, IInv, TypeOK
<1>2. CASE w[p].start + bakLen = w[p].orig
    <2>1. /\ Goto(p, "undo") /\ w' = [w EXCEPT ![p].i = 1, ![p].pos = w[p].start + 1]
          /\ UNCHANGED <<owner, committed>>
        BY <1>2 DEF VerifyFails
    <2> QED
        BY <1>1, <2>1, Rewound
<1>3. CASE w[p].start + bakLen # w[p].orig
    <2>1. Return(p) /\ Settle(p)
        BY <1>3 DEF VerifyFails
    <2> QED
        BY <1>1, <2>1, StopStep
<1> QED
    BY <1>2, <1>3

\* The saved tail lands after the committed payloads.
LEMMA PutBackStep == ASSUME IInv, NEW p \in Procs, PutBack(p) PROVE IInv'
<1> USE SizesAssumption, Sizes
<1> DEFINE cell == IF pc[p] = "roll" THEN w[p].tail[w[p].i] ELSE bak[w[p].i]
           next == [w[p] EXCEPT !.pos = w[p].pos + 1, !.i = w[p].i + 1]
           to   == IF w[p].i < TableCells THEN pc[p]
                   ELSE IF pc[p] = "roll" THEN "rolllen" ELSE "undolen"
<1>1. /\ Write(p, cell) /\ Holding(p) /\ Past(p) /\ pc[p] \in {"roll", "undo"} /\ Goto(p, to)
      /\ w[p].i <= TableCells
      /\ UNCHANGED <<bak, bakLen, owner, committed, calls, faults>>
    BY DEF PutBack, Holding, Past
<1>2. w' = [w EXCEPT ![p] = next]
    BY DEF PutBack
<1>3. w[p] \in Work /\ WorkOK(p)
    BY DEF IInv, TypeOK
<1>4. w[p].i \in 1..TableCells /\ w[p].pos \in 1..Cap
    <2>1. w[p].pos <= Cap
        BY <1>1 DEF Write
    <2>2. w[p].i \in Nat \ {0} /\ w[p].pos \in Nat \ {0} /\ w[p].start \in Nat
        BY WorkTypes DEF IInv
    <2>3. w[p].i <= TableCells
        BY <1>1
    <2> QED
        BY <2>1, <2>2, <2>3
<1>5. cell \in Cell
    <2>1. w[p].tail \in [1..TableCells -> Cell] /\ bak \in [1..TableCells -> Cell]
        BY WorkTypes DEF IInv, TypeOK
    <2> QED
        BY <1>4, <2>1
<1>6. w[p].pos + 1 \in 1..(Cap + 1) /\ w[p].i + 1 \in Nat \ {0}
    BY <1>4
<1>7. next \in Work
    BY <1>3, <1>6 DEF Work
<1>8. /\ next.start = w[p].start /\ next.pos = w[p].pos + 1
      /\ next.kind = w[p].kind /\ next.orig = w[p].orig
    BY <1>3 DEF Work
<1> HIDE DEF cell, next
<1>9. /\ disk' \in [1..Cap -> Cell] /\ len' \in 0..Cap /\ len <= len'
      /\ (TableCells <= len)' /\ Floor(len - TableCells)' /\ DataKept'
    BY <1>1, <1>5, WriteStep
<1>10. to \in {"roll", "undo", "rolllen", "undolen"}
    BY <1>1
<1>11. TypeOK'
    <2>1. w' \in [Procs -> Work]
        BY <1>2, <1>7 DEF IInv, TypeOK
    <2>2. pc' \in [Procs -> Labels]
        BY <1>1, <1>10 DEF Goto, IInv, TypeOK, Labels
    <2> QED
        BY <1>1, <1>9, <2>1, <2>2 DEF IInv, TypeOK
<1>12. w'[p] = next /\ pc'[p] = to
    BY <1>1, <1>2 DEF IInv, TypeOK, Goto
<1>13. WorkOK(p)'
    <2>1. w'[p].start = w[p].start /\ w'[p].pos = w[p].pos + 1
          /\ w'[p].kind = w[p].kind /\ w'[p].orig = w[p].orig
        BY <1>8, <1>12
    <2>2. Undoing(p)
        BY <1>1 DEF Undoing
    <2> QED
        BY <1>1, <1>9, <1>10, <1>12, <2>1, <2>2, WroteOn
<1> QED
    BY <1>1, <1>9, <1>11, <1>13, HolderStep

\* A rollback that fails skips to the cut, or stops.
LEMMA PutBackFailsStep == ASSUME IInv, NEW p \in Procs, PutBackFails(p) PROVE IInv'
<1>1. /\ Past(p) /\ Holding(p) /\ Undoing(p) /\ faults' \in 0..MaxFaults
      /\ UNCHANGED <<disk, len, bak, bakLen, calls>>
    BY FaultType DEF PutBackFails, Past, Holding, Undoing, IInv
<1>2. CASE Goto(p, "rolllen") /\ UNCHANGED <<owner, w, committed>>
    <2>1. (TableCells <= len)' /\ Floor(len - TableCells)' /\ DataKept'
        BY <1>1, <1>2, DataUnchanged
    <2>2. TypeOK'
        BY <1>1, <1>2 DEF Goto, IInv, TypeOK, Labels
    <2>3. pc'[p] = "rolllen"
        BY <1>2 DEF Goto, IInv, TypeOK
    <2>4. WorkOK(p)'
        BY <1>1, <1>2, <2>3 DEF IInv, WorkOK, Holding, Past, Undoing, Floor
    <2> QED
        BY <1>1, <1>2, <2>1, <2>2, <2>4, HolderStep
<1>3. CASE Return(p) /\ Settle(p)
    BY <1>1, <1>3, StopStep
<1> QED
    BY <1>2, <1>3 DEF PutBackFails

\* The cut gives the file the length it had.
LEMMA CutBackStep == ASSUME IInv, NEW p \in Procs, CutBack(p) PROVE IInv'
<1> USE SizesAssumption, Sizes
<1>1. /\ Past(p) /\ Holding(p) /\ Undoing(p) /\ Return(p)
      /\ UNCHANGED <<disk, bak, bakLen, committed, calls>>
    BY DEF CutBack, Past, Holding, Undoing
<1>2. faults' \in 0..MaxFaults
    <2>1. faults' = faults \/ Fault
        BY DEF CutBack
    <2> QED
        BY <2>1, FaultType DEF IInv, TypeOK
<1>3. w[p] \in Work /\ WorkOK(p) /\ committed \in [Entries -> Loc]
    BY DEF IInv, TypeOK
<1>4. w[p].kind = "inplace" /\ w[p].orig = w[p].start + TableCells /\ Floor(w[p].start)
    BY <1>1, <1>3 DEF WorkOK
<1>5. CASE len' = len
    <2>1. (TableCells <= len)' /\ Floor(len - TableCells)' /\ DataKept'
        BY <1>1, <1>5, DataUnchanged
    <2>2. TypeOK'
        BY <1>1, <1>2, <1>5, ReturnType DEF IInv, TypeOK
    <2> QED
        BY <1>1, <2>1, <2>2, ReturnStep
<1>6. CASE len' = w[p].orig
    <2>1. w[p].start \in Nat /\ len' \in 0..Cap /\ len' = w[p].start + TableCells
        BY <1>3, <1>4, <1>6 DEF Work
    <2>2. TableCells <= len' /\ len' - TableCells = w[p].start
        BY <2>1
    <2>3. Floor(len - TableCells)'
        BY <1>1, <1>4, <2>2 DEF Floor
    <2>4. DataKept'
        BY <1>1 DEF IInv, DataKept
    <2>5. TypeOK'
        BY <1>1, <1>2, <2>1, ReturnType DEF IInv, TypeOK
    <2> QED
        BY <1>1, <2>2, <2>3, <2>4, <2>5, ReturnStep
<1> QED
    BY <1>5, <1>6 DEF CutBack

\* The death of a process frees the mutex only if that process had it.
LEMMA CrashStep == ASSUME IInv, NEW p \in Procs, Crash(p) PROVE IInv'
<1>1. /\ Goto(p, "idle") /\ w' = [w EXCEPT ![p] = IdleWork] /\ Settle(p)
      /\ owner' = (IF owner = p THEN NoProc ELSE owner)
      /\ UNCHANGED <<disk, len, bak, bakLen, calls>>
    BY DEF Crash
<1>2. faults' \in 0..MaxFaults
    BY FaultType DEF Crash, IInv
<1>3. /\ committed' \in [Entries -> Loc]
      /\ (TableCells <= len)' /\ Floor(len - TableCells)' /\ DataKept'
    BY <1>1, SettleStep
<1>4. TypeOK'
    BY <1>1, <1>2, <1>3, BlankType DEF IInv, TypeOK, Goto, Labels
<1>5. CASE Holding(p)
    <2>1. \A q \in Procs : ~Holding(q)'
        <3> SUFFICES ASSUME NEW q \in Procs PROVE ~Holding(q)'
            OBVIOUS
        <3>1. pc'[q] = IF q = p THEN "idle" ELSE pc[q]
            BY <1>1 DEF IInv, TypeOK, Goto
        <3> QED
            BY <1>5, <3>1, Alone DEF Holding
    <2> QED
        BY <1>3, <1>4, <2>1, Unlocked DEF IInv
<1>6. CASE ~Holding(p)
    <2>1. ASSUME NEW q \in Procs PROVE WorkOK(q)'
        <3>1. CASE Holding(q)
            <4>1. q # p /\ pc'[q] = pc[q] /\ w'[q] = w[q]
                BY <1>1, <1>6, <3>1 DEF IInv, TypeOK, Goto
            <4>2. WorkOK(q)
                BY DEF IInv
            <4>3. owner = q /\ owner' = q
                BY <1>1, <3>1, <4>1, <4>2 DEF WorkOK
            <4>4. committed' = committed
                BY <1>1, <4>1, <4>3 DEF Settle
            <4> QED
                BY <1>1, <4>1, <4>2, <4>3, <4>4 DEF WorkOK, Holding, Past, Undoing, Floor
        <3>2. CASE ~Holding(q)
            <4>1. ~Holding(q)'
                BY <1>1, <3>2 DEF IInv, TypeOK, Goto, Holding
            <4> QED
                BY <4>1, Unlocked
        <3> QED
            BY <3>1, <3>2
    <2> QED
        BY <1>3, <1>4, <2>1 DEF IInv
<1> QED
    BY <1>5, <1>6

-----------------------------------------------------------------------------
(* The theorems *)

\* IInv is inductive: every step of every process keeps it.
LEMMA StepInv == IInv /\ [Next]_vars => IInv'
<1> SUFFICES ASSUME IInv, [Next]_vars PROVE IInv'
    OBVIOUS
<1>1. CASE UNCHANGED vars
    BY <1>1 DEF vars, IInv, TypeOK, Floor, DataKept, WorkOK, Holding, Past, Undoing
<1>2. ASSUME NEW p \in Procs, Step(p) PROVE IInv'
    BY <1>2, LockStep, LockTimeoutStep, RefuseStep, ReadInplaceStep, ReadPatchStep,
       SaveTailStep, PutBlobStep, BuildTableStep, PutTableStep, SetLenStep, VerifyStep,
       PutBackStep, CutBackStep, WriteFailsStep DEF Step
<1>3. ASSUME NEW p \in Procs, Trouble(p) PROVE IInv'
    BY <1>3, SaveFailsStep, VerifyFailsStep, PutBackFailsStep, CrashStep DEF Trouble
<1> QED
    BY <1>1, <1>2, <1>3, CallStep DEF Next

\* Every reachable state meets the inductive invariant.
LEMMA Invariant == Spec => []IInv
<1> QED
    BY InitInv, StepInv, PTL DEF Spec

\* The variables stay in their domains, whatever fails or dies: no position of a
\* write leaves the volume and no table is built from anything but cells.
THEOREM TypeCorrect == Spec => []TypeOK
<1>1. IInv => TypeOK
    BY DEF IInv
<1> QED
    BY <1>1, Invariant, PTL

\* archlock.rs: two processes are never between lock() and the guard's drop at once.
THEOREM OneWriterAlways == Spec => []OneWriter
<1>1. IInv => OneWriter
    BY DEF IInv, WorkOK, OneWriter
<1> QED
    BY <1>1, Invariant, PTL

\* kspkg_write.rs: nothing in the data region that a whole table points at is
\* ever written over, by a write, by its rollback, or by a write after a crash.
THEOREM DataKeptAlways == Spec => []DataKept
<1>1. IInv => DataKept
    BY DEF IInv
<1> QED
    BY <1>1, Invariant, PTL

-----------------------------------------------------------------------------
(* A table built from records reads back as those records                   *)

LEMMA TimesGrow == ASSUME NEW a \in Nat, NEW b \in Nat \ {0} PROVE a * b >= a
OBVIOUS

\* Division and remainder of the place of a cell in the table.
LEMMA DivMod ==
    ASSUME NEW b \in Nat \ {0}, NEW q \in Nat, NEW r \in 0..(b - 1)
    PROVE  (q * b + r) \div b = q /\ (q * b + r) % b = r
<1> DEFINE n == q * b + r
           d == n \div b
           m == n % b
<1>1. n \in Nat /\ q * b \in Nat
    OBVIOUS
<1>2. d \in Int /\ m \in 0..(b - 1) /\ n = b * d + m
    BY <1>1
<1> HIDE DEF d, m
<1>3. b * d = b * q + (r - m)
    BY <1>2
<1>4. b * (d - q) = r - m
    BY <1>2, <1>3
<1>5. d - q \in Int /\ r - m < b /\ m - r < b
    BY <1>2
<1>6. ~(d - q >= 1)
    <2> SUFFICES ASSUME d - q >= 1 PROVE FALSE
        OBVIOUS
    <2>0. d - q \in Nat \ {0}
        BY <1>5
    <2>1. b * (d - q) >= b
        BY <2>0, TimesGrow
    <2> QED
        BY <1>4, <1>5, <2>1
<1>7. ~(q - d >= 1)
    <2> SUFFICES ASSUME q - d >= 1 PROVE FALSE
        OBVIOUS
    <2>0. q - d \in Nat \ {0}
        BY <1>2
    <2>1. b * (q - d) >= b
        BY <2>0, TimesGrow
    <2>2. b * (q - d) = m - r
        BY <1>2, <1>4
    <2>3. m - r >= b /\ m - r < b /\ m - r \in Int /\ b \in Int
        BY <1>2, <1>5, <2>1, <2>2
    <2> QED
        BY <2>3
<1>8. d = q
    BY <1>2, <1>5, <1>6, <1>7
<1>9. m = r
    BY <1>2, <1>4, <1>8
<1> QED
    BY <1>8, <1>9 DEF d, m

\* The cells of each slot lie in the table.
LEMMA SlotCells ==
    ASSUME NEW k \in 1..Slots, NEW h \in 1..Bucket
    PROVE  LET i == (k - 1) * Bucket + h IN
           /\ i \in 1..TableCells
           /\ ((i - 1) \div Bucket) + 1 = k /\ ((i - 1) % Bucket) + 1 = h
<1> DEFINE q == (k - 1) * Bucket
<1>1. q \in Nat /\ (k - 1) * Bucket + Bucket = k * Bucket /\ Bucket \in Nat \ {0}
    BY SizesAssumption
<1>2. k * Bucket <= Slots * Bucket
    BY SizesAssumption, TimesMonotonic
<1>3. q + h \in 1..TableCells
    BY <1>1, <1>2, Sizes DEF TableCells
<1>4. (q + (h - 1)) \div Bucket = k - 1 /\ (q + (h - 1)) % Bucket = h - 1
    <2>1. k - 1 \in Nat /\ h - 1 \in 0..(Bucket - 1) /\ Bucket \in Nat \ {0}
        BY SizesAssumption
    <2> QED
        BY <2>1, DivMod
<1>5. (q + h) - 1 = q + (h - 1)
    BY <1>1
<1> HIDE DEF q
<1>6. (((q + h) - 1) \div Bucket) + 1 = k /\ (((q + h) - 1) % Bucket) + 1 = h
    BY <1>4, <1>5, SizesAssumption
<1> QED
    BY <1>3, <1>6 DEF q

LEMMA SlotInside ==
    ASSUME NEW k \in 1..Slots, NEW h \in 1..Bucket, NEW n \in Nat, TableCells <= n
    PROVE  /\ SlotAt(n - TableCells, k) + h - 1 = (n - TableCells) + ((k - 1) * Bucket + h)
           /\ SlotAt(n - TableCells, k) + h - 1 \in 1..n
           /\ (k - 1) * Bucket + h \in 1..TableCells
<1> DEFINE i == (k - 1) * Bucket + h
           q == (k - 1) * Bucket
<1>1. i \in 1..TableCells
    BY SlotCells
<1>2. q \in Nat
    BY SizesAssumption
<1>3. SlotAt(n - TableCells, k) = (n - TableCells) + q + 1
    BY DEF SlotAt
<1>4. i = q + h
    OBVIOUS
<1> HIDE DEF q, i
<1>5. SlotAt(n - TableCells, k) + h - 1 = (n - TableCells) + i
    BY <1>2, <1>3, <1>4, Sizes, SizesAssumption
<1> QED
    BY <1>1, <1>5, Sizes, SizesAssumption DEF i

\* Records that are whole, in no particular order.
Plain(recs) ==
    /\ recs \in [1..Slots -> RecCell \cup {Gap}]
    /\ Unique(recs)
    /\ \A k \in 1..Slots : recs[k].kind = "rec" => recs[k].h = 1

Smaller(recs, k) == {j \in 1..Slots : recs[j].kind = "rec" /\ recs[j].e < recs[k].e}

LEMMA RecKinds ==
    ASSUME NEW recs, Plain(recs), NEW k \in 1..Slots
    PROVE  /\ recs[k].kind = "rec" <=> recs[k] \in RecCell
           /\ recs[k].kind # "rec" <=> recs[k] = Gap
           /\ recs[k].kind = "rec" => recs[k].e \in Entries /\ recs[k].e \in Nat
<1>1. recs[k] \in RecCell \cup {Gap}
    BY DEF Plain
<1> QED
    BY <1>1 DEF RecCell, Gap, Entries

\* The sorted places of the records.
LEMMA Places ==
    ASSUME NEW recs, Plain(recs)
    PROVE  /\ \A k \in 1..Slots : recs[k].kind = "rec" => Place(recs, k) \in 1..Slots
           /\ \A k, l \in 1..Slots : recs[k].kind = "rec" /\ recs[l].kind = "rec"
                                     /\ Place(recs, k) = Place(recs, l) => k = l
<1> USE SizesAssumption
<1>1. IsFiniteSet(1..Slots) /\ Cardinality(1..Slots) = Slots
    BY FS_Interval
<1>2. \A k : IsFiniteSet(Smaller(recs, k)) /\ Cardinality(Smaller(recs, k)) \in Nat
    <2>1. \A k : Smaller(recs, k) \subseteq 1..Slots
        BY DEF Smaller
    <2> QED
        BY <1>1, <2>1, FS_Subset, FS_CardinalityType
<1>3. ASSUME NEW k \in 1..Slots, recs[k].kind = "rec" PROVE Place(recs, k) \in 1..Slots
    <2>1. Smaller(recs, k) \subseteq (1..Slots) \ {k}
        BY <1>3, RecKinds DEF Smaller
    <2>2. Cardinality((1..Slots) \ {k}) = Slots - 1 /\ IsFiniteSet((1..Slots) \ {k})
        BY SMTT(30), <1>1, FS_RemoveElement
    <2>3. Cardinality(Smaller(recs, k)) <= Slots - 1
        BY <2>1, <2>2, FS_Subset
    <2> QED
        BY <1>2, <2>3 DEF Place, Smaller
<1>4. ASSUME NEW k \in 1..Slots, NEW l \in 1..Slots, recs[k].kind = "rec", recs[l].kind = "rec",
             recs[k].e < recs[l].e
      PROVE  Place(recs, k) # Place(recs, l)
    <2>1. Smaller(recs, k) \cup {k} \subseteq Smaller(recs, l)
        BY <1>4, RecKinds DEF Smaller
    <2>2. k \notin Smaller(recs, k)
        BY <1>4, RecKinds DEF Smaller
    <2>3. Cardinality(Smaller(recs, k) \cup {k}) = Cardinality(Smaller(recs, k)) + 1
        BY <1>2, <2>2, FS_AddElement
    <2>4. Cardinality(Smaller(recs, k)) + 1 <= Cardinality(Smaller(recs, l))
        BY <1>2, <2>1, <2>3, FS_Subset
    <2>5. Cardinality(Smaller(recs, k)) # Cardinality(Smaller(recs, l))
        BY <1>2, <2>4
    <2> QED
        BY <1>2, <2>5 DEF Place, Smaller
<1>5. ASSUME NEW k \in 1..Slots, NEW l \in 1..Slots, recs[k].kind = "rec", recs[l].kind = "rec",
             Place(recs, k) = Place(recs, l)
      PROVE  k = l
    <2>1. ~(recs[k].e < recs[l].e) /\ ~(recs[l].e < recs[k].e)
        BY <1>4, <1>5
    <2>2. recs[k].e = recs[l].e /\ recs[k].e \in Entries
        BY <1>5, <2>1, RecKinds
    <2> QED
        BY <1>5, <2>2 DEF Plain, Unique, SlotsOf
<1> QED
    BY <1>3, <1>5

\* The table built from whole records holds each of them, bucket by bucket, where its place is.
LEMMA TableCell ==
    ASSUME NEW recs, Plain(recs), NEW k \in 1..Slots, recs[k].kind = "rec", NEW h \in 1..Bucket
    PROVE  Table(recs)[(Place(recs, k) - 1) * Bucket + h] = [recs[k] EXCEPT !.h = h]
<1> DEFINE i == (Place(recs, k) - 1) * Bucket + h
           here(x) == recs[x].kind = "rec" /\ Place(recs, x) = ((i - 1) \div Bucket) + 1
<1>1. Place(recs, k) \in 1..Slots
    BY Places
<1>2. i \in 1..TableCells /\ ((i - 1) \div Bucket) + 1 = Place(recs, k) /\ ((i - 1) % Bucket) + 1 = h
    BY <1>1, SlotCells
<1>3. here(k) /\ \A x \in 1..Slots : here(x) => x = k
    BY <1>2, Places
<1>4. (CHOOSE x \in 1..Slots : here(x)) = k
    BY <1>3
<1>5. Table(recs)[i] = IF \E x \in 1..Slots : here(x)
                       THEN [recs[CHOOSE x \in 1..Slots : here(x)] EXCEPT !.h = ((i - 1) % Bucket) + 1]
                       ELSE Gap
    BY <1>2 DEF Table
<1> QED
    BY <1>2, <1>3, <1>4, <1>5

LEMMA TableGap ==
    ASSUME NEW recs, Plain(recs), NEW m \in 1..Slots, NEW h \in 1..Bucket,
           \A k \in 1..Slots : recs[k].kind = "rec" => Place(recs, k) # m
    PROVE  Table(recs)[(m - 1) * Bucket + h] = Gap
<1> DEFINE i == (m - 1) * Bucket + h
           here(x) == recs[x].kind = "rec" /\ Place(recs, x) = ((i - 1) \div Bucket) + 1
<1>1. i \in 1..TableCells /\ ((i - 1) \div Bucket) + 1 = m
    BY SlotCells
<1>2. ~ \E x \in 1..Slots : here(x)
    BY <1>1
<1>3. Table(recs)[i] = IF \E x \in 1..Slots : here(x)
                       THEN [recs[CHOOSE x \in 1..Slots : here(x)] EXCEPT !.h = ((i - 1) % Bucket) + 1]
                       ELSE Gap
    BY <1>1 DEF Table
<1> QED
    BY <1>2, <1>3

\* A whole record is the record of its first cell.
LEMMA RecPart ==
    ASSUME NEW r \in RecCell, r.h = 1
    PROVE  /\ [r EXCEPT !.h = 1] = r
           /\ \A h \in Nat : [[r EXCEPT !.h = 1] EXCEPT !.h = h] = [r EXCEPT !.h = h]
BY DEF RecCell

\* A slot whose first cell is a record's is a whole record.
CleanSlot(f, n, k) ==
    LET at == SlotAt(n - TableCells, k) IN f[at].kind = "rec" => IsRecord(f, at)

Clean(f, n) == \A k \in 1..Slots : CleanSlot(f, n, k)

LEMMA TableReads ==
    ASSUME NEW recs, Plain(recs), NEW a \in Nat, NEW f \in [1..a -> Cell], NEW n \in 0..a,
           TableCells <= n, \A i \in 1..TableCells : f[n - TableCells + i] = Table(recs)[i]
    PROVE  /\ \A k \in 1..Slots : recs[k].kind = "rec" =>
                 \E m \in 1..Slots : Records(f, n)[m] = recs[k]
           /\ Unique(Records(f, n))
           /\ Clean(f, n)
<1> DEFINE at(m) == SlotAt(n - TableCells, m)
<1>1. ASSUME NEW m \in 1..Slots, NEW h \in 1..Bucket
      PROVE  at(m) + h - 1 \in 1..a /\ f[at(m) + h - 1] = Table(recs)[(m - 1) * Bucket + h]
    BY SlotInside, SlotCells
<1>2. ASSUME NEW m \in 1..Slots
      PROVE  at(m) \in 1..a /\ f[at(m)] = Table(recs)[(m - 1) * Bucket + 1] /\ at(m) \in Int
    <2>1. 1 \in 1..Bucket
        BY SizesAssumption
    <2>2. at(m) + 1 - 1 = at(m)
        BY Sizes, SizesAssumption DEF SlotAt
    <2> HIDE DEF at
    <2>3. at(m) \in 1..a
        BY <1>1, <2>1, <2>2
    <2> QED
        BY <1>1, <2>1, <2>2, <2>3
<1> HIDE DEF at
<1>3. ASSUME NEW k \in 1..Slots, recs[k].kind = "rec"
      PROVE  /\ Records(f, n)[Place(recs, k)] = recs[k] /\ Place(recs, k) \in 1..Slots
             /\ IsRecord(f, at(Place(recs, k)))
    <2> DEFINE m == Place(recs, k)
    <2>1. m \in 1..Slots /\ recs[k] \in RecCell /\ recs[k].h = 1
        BY <1>3, Places, RecKinds DEF Plain
    <2>2. \A h \in 1..Bucket : f[at(m) + h - 1] = [recs[k] EXCEPT !.h = h]
        BY <1>1, <1>3, <2>1, TableCell
    <2>3. f[at(m)] = recs[k] /\ at(m) \in DOMAIN f
        <3>1. 1 \in 1..Bucket
            BY SizesAssumption
        <3>2. f[at(m)] = [recs[k] EXCEPT !.h = 1]
            BY <1>2, <1>3, <2>1, <3>1, TableCell
        <3> QED
            BY <1>2, <2>1, <3>2, RecPart
    <2>4. IsRecord(f, at(m))
        BY <1>3, <2>2, <2>3 DEF IsRecord
    <2> QED
        BY <2>1, <2>3, <2>4 DEF Records, at
<1>4. ASSUME NEW m \in 1..Slots, Records(f, n)[m].kind = "rec" \/ f[at(m)].kind = "rec"
      PROVE  \E k \in 1..Slots : recs[k].kind = "rec" /\ Place(recs, k) = m
    <2> SUFFICES ASSUME \A k \in 1..Slots : recs[k].kind = "rec" => Place(recs, k) # m PROVE FALSE
        OBVIOUS
    <2>1. 1 \in 1..Bucket
        BY SizesAssumption
    <2>2. f[at(m)] = Gap
        BY <1>2, <2>1, TableGap
    <2>3. ~IsRecord(f, at(m))
        BY <2>2 DEF IsRecord, Gap
    <2>4. Records(f, n)[m] = Gap
        BY <2>3 DEF Records, at
    <2> QED
        BY <1>4, <2>2, <2>4 DEF Gap
<1>5. Unique(Records(f, n))
    <2> SUFFICES ASSUME NEW e \in Entries, NEW j \in SlotsOf(Records(f, n), e), NEW k \in SlotsOf(Records(f, n), e)
                 PROVE  j = k
        BY DEF Unique
    <2>1. j \in 1..Slots /\ k \in 1..Slots /\ Records(f, n)[j].kind = "rec" /\ Records(f, n)[j].e = e
          /\ Records(f, n)[k].kind = "rec" /\ Records(f, n)[k].e = e
        BY DEF SlotsOf
    <2>2. PICK x \in 1..Slots : recs[x].kind = "rec" /\ Place(recs, x) = j
        BY <1>4, <2>1
    <2>3. PICK y \in 1..Slots : recs[y].kind = "rec" /\ Place(recs, y) = k
        BY <1>4, <2>1
    <2>4. recs[x].e = e /\ recs[y].e = e
        BY <1>3, <2>1, <2>2, <2>3
    <2>5. x = y
        BY <2>2, <2>3, <2>4 DEF Plain, Unique, SlotsOf
    <2> QED
        BY <2>2, <2>3, <2>5
<1>6. Clean(f, n)
    <2> SUFFICES ASSUME NEW m \in 1..Slots, f[at(m)].kind = "rec" PROVE IsRecord(f, at(m))
        BY DEF Clean, CleanSlot, at
    <2> QED
        BY <1>3, <1>4
<1> QED
    BY <1>3, <1>5, <1>6

\* What read_records returns is whole records.
LEMMA RecordsPlain ==
    ASSUME NEW f \in [1..Cap -> Cell], NEW n \in 0..Cap, TableCells <= n, Unique(Records(f, n))
    PROVE  Plain(Records(f, n))
<1>1. Records(f, n) \in [1..Slots -> RecCell \cup {Gap}]
    BY RecordsType
<1>2. ASSUME NEW k \in 1..Slots, Records(f, n)[k].kind = "rec" PROVE Records(f, n)[k].h = 1
    <2> DEFINE at == SlotAt(n - TableCells, k)
    <2>1. Records(f, n)[k] = IF IsRecord(f, at) THEN f[at] ELSE Gap
        BY DEF Records
    <2>2. IsRecord(f, at) /\ Records(f, n)[k] = f[at]
        BY <1>2, <2>1 DEF Gap
    <2>3. 1 \in 1..Bucket /\ at + 1 - 1 = at
        BY SizesAssumption, Sizes DEF SlotAt
    <2> HIDE DEF at
    <2>4. f[at] = [f[at] EXCEPT !.h = 1]
        BY <2>2, <2>3 DEF IsRecord
    <2>5. f[at] \in RecCell
        BY <1>1, <1>2, <2>2 DEF Gap
    <2>6. [f[at] EXCEPT !.h = 1].h = 1
        BY <2>5 DEF RecCell
    <2> QED
        BY <2>2, <2>4, <2>6
<1> QED
    BY <1>1, <1>2 DEF Plain

\* Pointing a path that has a record at its payload changes that record and no other.
Pointed(recs, new, e, off, size) ==
    /\ Plain(new)
    /\ \E k \in 1..Slots : new[k] = Rec(e, off, size, 1)
    /\ \A k \in 1..Slots : recs[k].kind = "rec" /\ recs[k].e # e => new[k] = recs[k]

LEMMA UpsertPlain ==
    ASSUME NEW recs, Plain(recs), NEW e \in Entries, NEW off \in Nat, NEW size \in Nat,
           NEW l \in 1..Slots, recs[l].kind = "rec", recs[l].e = e, NEW new, new = Upsert(recs, e, off, size)
    PROVE  Pointed(recs, new, e, off, size)
<1>1. recs[l].kind = "rec" /\ recs[l].e = e
    OBVIOUS
<1>2. \A k \in SlotsOf(recs, e) : k = l
    BY <1>1 DEF Plain, Unique, SlotsOf
<1>3. SlotsOf(recs, e) = {l}
    BY <1>1, <1>2 DEF SlotsOf
<1>4. \A k \in 1..Slots : new[k] = IF k = l THEN Rec(e, off, size, 1) ELSE recs[k]
    BY <1>3 DEF Upsert
<1>5. new \in [1..Slots -> RecCell \cup {Gap}]
    BY UpsertType DEF Plain
<1>6. Rec(e, off, size, 1).kind = "rec" /\ Rec(e, off, size, 1).e = e /\ Rec(e, off, size, 1).h = 1
    BY DEF Rec
<1>7. \A g \in Entries : SlotsOf(new, g) = SlotsOf(recs, g)
    <2> SUFFICES ASSUME NEW g \in Entries, NEW k \in 1..Slots
                 PROVE  new[k].kind = "rec" /\ new[k].e = g <=> recs[k].kind = "rec" /\ recs[k].e = g
        BY DEF SlotsOf
    <2> QED
        BY <1>1, <1>4, <1>6
<1>8. Plain(new)
    <2>1. Unique(new)
        BY <1>7 DEF Plain, Unique
    <2>2. \A k \in 1..Slots : new[k].kind = "rec" => new[k].h = 1
        BY <1>4, <1>6 DEF Plain
    <2> QED
        BY <1>5, <2>1, <2>2 DEF Plain
<1>9. \A k \in 1..Slots : recs[k].kind = "rec" /\ recs[k].e # e => new[k] = recs[k]
    BY <1>1, <1>4
<1> QED
    BY <1>4, <1>8, <1>9 DEF Pointed

-----------------------------------------------------------------------------
(* The same cells read the same at the end of another file                  *)

SameSlot(f, n, g, m, k) ==
    \A h \in 1..Bucket :
        f[n - TableCells + ((k - 1) * Bucket + h)] = g[m - TableCells + ((k - 1) * Bucket + h)]

LEMMA SlotShift ==
    ASSUME NEW a \in Nat, NEW f \in [1..a -> Cell], NEW n \in 0..a, TableCells <= n,
           NEW b \in Nat, NEW g \in [1..b -> Cell], NEW m \in 0..b, TableCells <= m,
           NEW k \in 1..Slots, SameSlot(f, n, g, m, k)
    PROVE  /\ Records(f, n)[k] = Records(g, m)[k]
           /\ CleanSlot(f, n, k) => CleanSlot(g, m, k)
<1> DEFINE x == SlotAt(n - TableCells, k)
           y == SlotAt(m - TableCells, k)
<1>1. \A h \in 1..Bucket : x + h - 1 \in 1..a /\ y + h - 1 \in 1..b /\ f[x + h - 1] = g[y + h - 1]
    BY SlotInside DEF SameSlot
<1>2. 1 \in 1..Bucket /\ x + 1 - 1 = x /\ y + 1 - 1 = y
    BY SizesAssumption, Sizes DEF SlotAt
<1> HIDE DEF x, y
<1>3. x \in 1..a /\ y \in 1..b /\ f[x] = g[y]
    BY <1>1, <1>2
<1>4. IsRecord(f, x) <=> IsRecord(g, y)
    BY <1>1, <1>3 DEF IsRecord
<1>5. (IF IsRecord(f, x) THEN f[x] ELSE Gap) = (IF IsRecord(g, y) THEN g[y] ELSE Gap)
    BY <1>3, <1>4
<1>6. Records(f, n)[k] = Records(g, m)[k]
    BY <1>5 DEF Records, x, y
<1>7. CleanSlot(f, n, k) => CleanSlot(g, m, k)
    BY <1>3, <1>4 DEF CleanSlot, x, y
<1> QED
    BY <1>6, <1>7

LEMMA TableShift ==
    ASSUME NEW a \in Nat, NEW f \in [1..a -> Cell], NEW n \in 0..a, TableCells <= n,
           NEW b \in Nat, NEW g \in [1..b -> Cell], NEW m \in 0..b, TableCells <= m,
           \A i \in 1..TableCells : f[n - TableCells + i] = g[m - TableCells + i]
    PROVE  Records(f, n) = Records(g, m) /\ (Clean(f, n) => Clean(g, m))
<1>1. ASSUME NEW k \in 1..Slots
      PROVE  Records(f, n)[k] = Records(g, m)[k] /\ (CleanSlot(f, n, k) => CleanSlot(g, m, k))
    <2>1. \A h \in 1..Bucket : (k - 1) * Bucket + h \in 1..TableCells
        BY SlotInside
    <2>2. SameSlot(f, n, g, m, k)
        BY <2>1 DEF SameSlot
    <2> QED
        BY <2>2, SlotShift
<1>2. Records(f, n) = Records(g, m)
    <2>1. Records(f, n) = [k \in 1..Slots |-> Records(f, n)[k]]
        BY DEF Records
    <2>2. Records(g, m) = [k \in 1..Slots |-> Records(g, m)[k]]
        BY DEF Records
    <2> QED
        BY <1>1, <2>1, <2>2
<1> QED
    BY <1>1, <1>2 DEF Clean

-----------------------------------------------------------------------------
(* What each step does to the locals of its write                           *)

\* A write keeps what it was called with and what it read.
Fixed(p) ==
    /\ w'[p].kind = w[p].kind /\ w'[p].ch = w[p].ch /\ w'[p].v = w[p].v /\ w'[p].size = w[p].size
    /\ w'[p].start = w[p].start /\ w'[p].orig = w[p].orig /\ w'[p].tail = w[p].tail
\* Its records, its table and where it located the entries.
Settled(p) ==
    /\ w'[p].recs = w[p].recs /\ w'[p].tab = w[p].tab /\ w'[p].locs = w[p].locs
    /\ w'[p].j = w[p].j /\ w'[p].cursor = w[p].cursor

LEMMA ReadFields ==
    ASSUME TypeOK, NEW p \in Procs, ReadInplace(p)
    PROVE  /\ w'[p].kind = "inplace" /\ w'[p].ch = w[p].ch /\ w'[p].v = w[p].v
           /\ w'[p].size = w[p].size /\ w'[p].i = w[p].i /\ w'[p].j = w[p].j
           /\ w'[p].start = len - TableCells /\ w'[p].orig = len
           /\ \A i \in 1..TableCells : w'[p].tail[i] = disk[len - TableCells + i]
           /\ w'[p].recs = Records(disk, len) /\ w'[p].locs = committed
           /\ w'[p].pos = len - TableCells + 1 /\ w'[p].cursor = len - TableCells
           /\ pc'[p] = "save"
<1> DEFINE start == len - TableCells
           tail  == [i \in 1..TableCells |-> disk[start + i]]
           recs  == Records(disk, len)
           next  == [w[p] EXCEPT !.start = start, !.orig = len, !.tail = tail, !.recs = recs,
                                 !.locs = committed, !.pos = start + 1, !.cursor = start]
<1>1. w' = [w EXCEPT ![p] = next]
    BY DEF ReadInplace
<1>2. w[p] \in Work /\ w[p].kind = "inplace"
    BY DEF TypeOK, ReadInplace
<1>3. \A i \in 1..TableCells : tail[i] = disk[len - TableCells + i]
    OBVIOUS
<1> HIDE DEF tail, recs
<1>4. /\ next.kind = "inplace" /\ next.ch = w[p].ch /\ next.v = w[p].v
      /\ next.size = w[p].size /\ next.i = w[p].i /\ next.j = w[p].j
      /\ next.start = start /\ next.orig = len /\ next.tail = tail /\ next.recs = recs
      /\ next.locs = committed /\ next.pos = start + 1 /\ next.cursor = start
    BY <1>2 DEF Work
<1> HIDE DEF next
<1>5. w'[p] = next
    BY <1>1 DEF TypeOK
<1>6. pc'[p] = "save"
    BY DEF ReadInplace, Goto, TypeOK
<1> QED
    BY <1>3, <1>4, <1>5, <1>6 DEF recs

LEMMA PatchFields ==
    ASSUME TypeOK, NEW p \in Procs, ReadPatch(p)
    PROVE  LET start == len - TableCells
               e     == w[p].ch[1]
           IN  /\ w'[p].kind = "patch" /\ w'[p].ch = w[p].ch /\ w'[p].v = w[p].v
               /\ w'[p].size = w[p].size /\ w'[p].i = 1 /\ w'[p].j = w[p].j
               /\ w'[p].pos = start + 1 /\ w'[p].cursor = start
               /\ w'[p].tab = Patched(disk, len, e, start + 1, w[p].size)
               /\ w'[p].locs = [committed EXCEPT ![e] =
                       [v |-> w[p].v, off |-> start + 1, size |-> w[p].size]]
               /\ pc'[p] = IF w[p].size = 0 THEN "table" ELSE "blob"
<1> DEFINE start == len - TableCells
           tab   == Patched(disk, len, w[p].ch[1], start + 1, w[p].size)
           locs  == [committed EXCEPT ![w[p].ch[1]] =
                       [v |-> w[p].v, off |-> start + 1, size |-> w[p].size]]
           next  == [w[p] EXCEPT !.start = start, !.pos = start + 1, !.cursor = start,
                                 !.i = 1, !.tab = tab, !.locs = locs]
<1>1. w' = [w EXCEPT ![p] = next] /\ w[p].kind = "patch"
    BY DEF ReadPatch
<1>2. w[p] \in Work
    BY DEF TypeOK
<1> HIDE DEF tab, locs
<1>3. /\ next.kind = "patch" /\ next.ch = w[p].ch /\ next.v = w[p].v /\ next.size = w[p].size
      /\ next.i = 1 /\ next.j = w[p].j /\ next.pos = start + 1 /\ next.cursor = start
      /\ next.tab = tab /\ next.locs = locs
    BY <1>1, <1>2 DEF Work
<1> HIDE DEF next
<1>4. w'[p] = next
    BY <1>1 DEF TypeOK
<1>5. pc'[p] = IF w[p].size = 0 THEN "table" ELSE "blob"
    BY DEF ReadPatch, Goto, TypeOK
<1> QED
    BY <1>3, <1>4, <1>5 DEF tab, locs

LEMMA BlobFields ==
    ASSUME TypeOK, NEW p \in Procs, PutBlob(p)
    PROVE  LET e    == w[p].ch[w[p].j]
               last == w[p].i = w[p].size
               off  == w[p].cursor + 1
           IN  /\ Fixed(p) /\ pc' = pc /\ w'[p].tab = w[p].tab /\ w'[p].pos = w[p].pos + 1
               /\ w'[p].i = (IF last THEN 1 ELSE w[p].i + 1)
               /\ w'[p].j = (IF last THEN w[p].j + 1 ELSE w[p].j)
               /\ w'[p].cursor = (IF last THEN w[p].cursor + w[p].size ELSE w[p].cursor)
               /\ w'[p].recs = (IF last THEN Upsert(w[p].recs, e, off, w[p].size) ELSE w[p].recs)
               /\ w'[p].locs = (IF last
                                THEN [w[p].locs EXCEPT ![e] = [v |-> w[p].v, off |-> off, size |-> w[p].size]]
                                ELSE w[p].locs)
<1> DEFINE e    == w[p].ch[w[p].j]
           last == w[p].i = w[p].size
           off  == w[p].cursor + 1
           recs == IF last THEN Upsert(w[p].recs, e, off, w[p].size) ELSE w[p].recs
           locs == IF last
                   THEN [w[p].locs EXCEPT ![e] = [v |-> w[p].v, off |-> off, size |-> w[p].size]]
                   ELSE w[p].locs
           i    == IF last THEN 1 ELSE w[p].i + 1
           j    == IF last THEN w[p].j + 1 ELSE w[p].j
           cur  == IF last THEN w[p].cursor + w[p].size ELSE w[p].cursor
           next == [w[p] EXCEPT !.pos = w[p].pos + 1, !.i = i, !.j = j, !.cursor = cur,
                                !.recs = recs, !.locs = locs]
<1>1. w' = [w EXCEPT ![p] = next] /\ pc' = pc
    BY DEF PutBlob
<1>2. w[p] \in Work
    BY DEF TypeOK
<1> HIDE DEF recs, locs, i, j, cur
<1>3. /\ next.kind = w[p].kind /\ next.ch = w[p].ch /\ next.v = w[p].v /\ next.size = w[p].size
      /\ next.start = w[p].start /\ next.orig = w[p].orig /\ next.tail = w[p].tail
      /\ next.tab = w[p].tab /\ next.pos = w[p].pos + 1 /\ next.i = i /\ next.j = j
      /\ next.cursor = cur /\ next.recs = recs /\ next.locs = locs
    BY <1>2 DEF Work
<1> HIDE DEF next
<1>4. w'[p] = next
    BY <1>1 DEF TypeOK
<1>5. Fixed(p)
    BY <1>3, <1>4 DEF Fixed
<1>6. /\ w'[p].tab = w[p].tab /\ w'[p].pos = w[p].pos + 1 /\ w'[p].i = i /\ w'[p].j = j
      /\ w'[p].cursor = cur /\ w'[p].recs = recs /\ w'[p].locs = locs
    BY <1>3, <1>4
<1> QED
    BY <1>1, <1>5, <1>6 DEF recs, locs, i, j, cur

\* A write goes over to laying a table.
LEMMA BuildFields ==
    ASSUME TypeOK, NEW p \in Procs, NEW tab, w' = [w EXCEPT ![p].i = 1, ![p].tab = tab]
    PROVE  /\ Fixed(p) /\ w'[p].recs = w[p].recs /\ w'[p].tab = tab
           /\ w'[p].locs = w[p].locs /\ w'[p].j = w[p].j /\ w'[p].cursor = w[p].cursor
           /\ w'[p].pos = w[p].pos /\ w'[p].i = 1
<1> DEFINE next == [w[p] EXCEPT !.i = 1, !.tab = tab]
<1>1. w' = [w EXCEPT ![p] = next]
    OBVIOUS
<1>2. w[p] \in Work
    BY DEF TypeOK
<1>3. /\ next.kind = w[p].kind /\ next.ch = w[p].ch /\ next.v = w[p].v /\ next.size = w[p].size
      /\ next.start = w[p].start /\ next.orig = w[p].orig /\ next.tail = w[p].tail
      /\ next.recs = w[p].recs /\ next.tab = tab /\ next.locs = w[p].locs /\ next.j = w[p].j
      /\ next.cursor = w[p].cursor /\ next.pos = w[p].pos /\ next.i = 1
    BY <1>2 DEF Work
<1> HIDE DEF next
<1>4. w'[p] = next
    BY <1>1 DEF TypeOK
<1> QED
    BY <1>3, <1>4 DEF Fixed

\* A cell of the table, or of the tail, is written.
LEMMA CellFields ==
    ASSUME TypeOK, NEW p \in Procs, PutTable(p) \/ PutBack(p)
    PROVE  /\ Fixed(p) /\ Settled(p)
           /\ w'[p].pos = w[p].pos + 1 /\ w'[p].i = w[p].i + 1
<1> DEFINE pos == w[p].pos + 1
           i   == w[p].i + 1
           next == [w[p] EXCEPT !.pos = pos, !.i = i]
<1>1. w' = [w EXCEPT ![p] = next]
    BY DEF PutTable, PutBack
<1>2. w[p] \in Work
    BY DEF TypeOK
<1> HIDE DEF pos, i
<1>3. /\ next.kind = w[p].kind /\ next.ch = w[p].ch /\ next.v = w[p].v /\ next.size = w[p].size
      /\ next.start = w[p].start /\ next.orig = w[p].orig /\ next.tail = w[p].tail
      /\ next.recs = w[p].recs /\ next.tab = w[p].tab /\ next.locs = w[p].locs /\ next.j = w[p].j
      /\ next.cursor = w[p].cursor /\ next.pos = pos /\ next.i = i
    BY <1>2 DEF Work
<1> HIDE DEF next
<1>4. w'[p] = next
    BY <1>1 DEF TypeOK
<1> QED
    BY <1>3, <1>4 DEF Fixed, Settled, pos, i

\* A write goes over to putting the tail back.
LEMMA RewindFields ==
    ASSUME TypeOK, NEW p \in Procs, w' = [w EXCEPT ![p].i = 1, ![p].pos = w[p].start + 1]
    PROVE  Fixed(p) /\ Settled(p) /\ w'[p].pos = w[p].start + 1 /\ w'[p].i = 1
<1> DEFINE pos  == w[p].start + 1
           next == [w[p] EXCEPT !.i = 1, !.pos = pos]
<1>1. w' = [w EXCEPT ![p] = next]
    OBVIOUS
<1>2. w[p] \in Work
    BY DEF TypeOK
<1> HIDE DEF pos
<1>3. /\ next.kind = w[p].kind /\ next.ch = w[p].ch /\ next.v = w[p].v /\ next.size = w[p].size
      /\ next.start = w[p].start /\ next.orig = w[p].orig /\ next.tail = w[p].tail
      /\ next.recs = w[p].recs /\ next.tab = w[p].tab /\ next.locs = w[p].locs /\ next.j = w[p].j
      /\ next.cursor = w[p].cursor /\ next.pos = pos /\ next.i = 1
    BY <1>2 DEF Work
<1> HIDE DEF next
<1>4. w'[p] = next
    BY <1>1 DEF TypeOK
<1> QED
    BY <1>3, <1>4 DEF Fixed, Settled, pos

\* What the others do while p holds the mutex.
LEMMA OthersWait ==
    ASSUME IInv, NEW p \in Procs, NEW q \in Procs, p # q, Holding(p), Call(q) \/ Step(q) \/ Trouble(q)
    PROVE  /\ UNCHANGED <<disk, len, bak, bakLen, committed, owner>>
           /\ w'[p] = w[p] /\ pc'[p] = pc[p] /\ ~Holding(q) /\ ~Holding(q)'
           /\ faults <= faults'
<1>1. owner = p /\ ~Holding(q) /\ NoProc # p
    BY Alone, ProcsAssumption DEF IInv, WorkOK
<1>2. CASE Call(q)
    <2>1. /\ UNCHANGED <<disk, len, bak, bakLen, owner, committed, faults>>
          /\ pc' = [pc EXCEPT ![q] = "lock"]
          /\ \E x : w' = [w EXCEPT ![q] = x]
        BY <1>2 DEF Call, Goto
    <2>2. w'[p] = w[p] /\ pc'[p] = pc[p] /\ pc'[q] = "lock"
        BY <2>1 DEF IInv, TypeOK
    <2>3. faults <= faults'
        BY <2>1, SizesAssumption DEF IInv, TypeOK
    <2> QED
        BY <1>1, <2>1, <2>2, <2>3 DEF Holding
<1>3. CASE LockTimeout(q)
    BY <1>1, <1>3 DEF LockTimeout, Goto, IInv, TypeOK, Holding
<1>4. CASE Crash(q)
    BY <1>1, <1>4, SizesAssumption DEF Crash, Settle, Goto, IInv, TypeOK, Holding, Fault
<1>5. ~Lock(q)
    BY <1>1 DEF Lock
<1>6. ~(Refuse(q) \/ ReadInplace(q) \/ ReadPatch(q) \/ SaveTail(q) \/ PutBlob(q) \/ BuildTable(q)
        \/ PutTable(q) \/ SetLen(q) \/ Verify(q) \/ PutBack(q) \/ CutBack(q) \/ WriteFails(q)
        \/ SaveFails(q) \/ VerifyFails(q) \/ PutBackFails(q))
    BY <1>1 DEF Holding, Refuse, ReadInplace, ReadPatch, SaveTail, PutBlob, BuildTable, PutTable,
                SetLen, Verify, PutBack, CutBack, WriteFails, SaveFails, VerifyFails, PutBackFails
<1> QED
    BY <1>2, <1>3, <1>4, <1>5, <1>6 DEF Step, Trouble

\* A step is about its own process.
LEMMA OthersKeep ==
    ASSUME IInv, NEW p \in Procs, NEW q \in Procs, p # q, Call(q) \/ Step(q) \/ Trouble(q)
    PROVE  pc'[p] = pc[p] /\ w'[p] = w[p]
<1>0. TypeOK
    BY DEF IInv
<1>1. CASE Call(q)
    <2>1. pc' = [pc EXCEPT ![q] = "lock"] /\ \E x : w' = [w EXCEPT ![q] = x]
        BY <1>1 DEF Call, Goto
    <2> QED
        BY <1>0, <2>1 DEF TypeOK
<1>2. CASE Trouble(q)
    BY <1>0, <1>2 DEF Trouble, SaveFails, VerifyFails, PutBackFails, Crash, Return, Goto, TypeOK
<1>3. CASE Lock(q) \/ LockTimeout(q) \/ Refuse(q) \/ SaveTail(q)
    BY <1>0, <1>3 DEF Lock, LockTimeout, Refuse, SaveTail, Return, Goto, TypeOK
<1>4. CASE ReadInplace(q)
    BY <1>0, <1>4 DEF ReadInplace, Goto, TypeOK
<1>5. CASE ReadPatch(q)
    BY <1>0, <1>5 DEF ReadPatch, Goto, TypeOK
<1>6. CASE PutBlob(q)
    BY <1>0, <1>6 DEF PutBlob, TypeOK
<1>7. CASE BuildTable(q) \/ PutTable(q) \/ SetLen(q)
    BY <1>0, <1>7 DEF BuildTable, PutTable, SetLen, Goto, TypeOK
<1>8. CASE Verify(q) \/ PutBack(q) \/ CutBack(q) \/ WriteFails(q)
    BY <1>0, <1>8 DEF Verify, PutBack, CutBack, WriteFails, Return, Goto, TypeOK
<1> QED
    BY <1>1, <1>2, <1>3, <1>4, <1>5, <1>6, <1>7, <1>8 DEF Step

-----------------------------------------------------------------------------
(* A write can be undone                                                    *)

\* Once it has read the table, an in-place write has its cells at hand: in the archive while it
\* saves them, in .bak_tables from then on.
Saved(p) ==
    Undoable(p) =>
        /\ \A i \in 1..bakLen : bak[i] = w[p].tail[i]
        /\ pc[p] = "save" =>
            /\ len = w[p].orig
            /\ \A i \in 1..TableCells : disk[w[p].start + i] = w[p].tail[i]
        /\ pc[p] # "save" => bakLen = TableCells

\* After the tail is saved no step of the write touches the copy or what it copied.
LEMMA KeepsCopy ==
    ASSUME IInv, NEW p \in Procs,
           \/ PutBlob(p) \/ BuildTable(p) \/ PutTable(p) \/ SetLen(p) \/ WriteFails(p)
           \/ Verify(p) \/ VerifyFails(p) \/ PutBack(p) \/ PutBackFails(p) \/ CutBack(p)
    PROVE  /\ UNCHANGED <<bak, bakLen>>
           /\ pc[p] \notin {"idle", "lock", "read", "save"} /\ pc'[p] \notin {"lock", "read", "save"}
           /\ Holding(p)' => Fixed(p)
<1>1. TypeOK
    BY DEF IInv
<1>2. CASE PutBlob(p)
    <2>1. Fixed(p) /\ pc' = pc
        BY <1>1, <1>2, BlobFields
    <2> QED
        BY <1>2, <2>1 DEF PutBlob
<1>3. CASE BuildTable(p)
    <2>1. Fixed(p)
        <3>1. CASE w[p].kind = "patch" \/ Unique(w[p].recs)
            <4>1. PICK tab : tab = IF w[p].kind = "patch" THEN w[p].tab ELSE Table(w[p].recs)
                OBVIOUS
            <4>2. w' = [w EXCEPT ![p].i = 1, ![p].tab = tab]
                BY <1>3, <3>1, <4>1 DEF BuildTable
            <4> QED
                BY <1>1, <4>2, BuildFields
        <3>2. CASE ~(w[p].kind = "patch" \/ Unique(w[p].recs))
            BY <1>1, <1>3, <3>2, RewindFields DEF BuildTable
        <3> QED
            BY <3>1, <3>2
    <2>2. UNCHANGED <<bak, bakLen>> /\ pc[p] = "blob" /\ pc'[p] \in {"table", "roll"}
        BY <1>1, <1>3 DEF BuildTable, Goto, TypeOK
    <2> QED
        BY <2>1, <2>2
<1>4. CASE PutTable(p)
    <2>1. Fixed(p)
        BY <1>1, <1>4, CellFields
    <2>2. UNCHANGED <<bak, bakLen>> /\ pc[p] = "table" /\ pc'[p] \in {"table", "setlen"}
        BY <1>1, <1>4 DEF PutTable, Goto, TypeOK
    <2> QED
        BY <2>1, <2>2
<1>5. CASE PutBack(p)
    <2>1. Fixed(p)
        BY <1>1, <1>5, CellFields
    <2>2. UNCHANGED <<bak, bakLen>> /\ pc[p] \in {"roll", "undo"}
          /\ pc'[p] \in {"roll", "undo", "rolllen", "undolen"}
        BY <1>1, <1>5 DEF PutBack, Goto, TypeOK
    <2> QED
        BY <2>1, <2>2
<1>6. CASE SetLen(p)
    BY <1>1, <1>6 DEF SetLen, Goto, TypeOK, Fixed
<1>7. CASE WriteFails(p)
    <2>1. UNCHANGED <<bak, bakLen>> /\ pc[p] \in {"blob", "table", "setlen"}
        BY <1>7 DEF WriteFails
    <2>2. CASE w[p].kind = "inplace"
        <3>1. Fixed(p) /\ pc'[p] = "roll"
            BY <1>1, <1>7, <2>2, RewindFields DEF WriteFails, Goto, TypeOK
        <3> QED
            BY <2>1, <3>1
    <2>3. CASE w[p].kind # "inplace"
        <3>1. pc'[p] = "idle"
            BY <1>1, <1>7, <2>3 DEF WriteFails, Return, Goto, TypeOK
        <3> QED
            BY <2>1, <3>1 DEF Holding
    <2> QED
        BY <2>2, <2>3
<1>8. CASE VerifyFails(p)
    <2>1. UNCHANGED <<bak, bakLen>> /\ pc[p] = "verify"
        BY <1>8 DEF VerifyFails
    <2>2. CASE w[p].start + bakLen = w[p].orig
        <3>1. Fixed(p) /\ pc'[p] = "undo"
            BY <1>1, <1>8, <2>2, RewindFields DEF VerifyFails, Goto, TypeOK
        <3> QED
            BY <2>1, <3>1
    <2>3. CASE w[p].start + bakLen # w[p].orig
        <3>1. pc'[p] = "idle"
            BY <1>1, <1>8, <2>3 DEF VerifyFails, Return, Goto, TypeOK
        <3> QED
            BY <2>1, <3>1 DEF Holding
    <2> QED
        BY <2>2, <2>3
<1>9. CASE PutBackFails(p)
    <2>1. UNCHANGED <<bak, bakLen>> /\ pc[p] \in {"roll", "undo"}
        BY <1>9 DEF PutBackFails
    <2>2. (pc'[p] = "rolllen" /\ UNCHANGED w) \/ pc'[p] = "idle"
        BY <1>1, <1>9 DEF PutBackFails, Return, Goto, TypeOK
    <2> QED
        BY <2>1, <2>2 DEF Holding, Fixed
<1>10. CASE Verify(p) \/ CutBack(p)
    <2>1. UNCHANGED <<bak, bakLen>> /\ pc[p] \in {"verify", "rolllen", "undolen"} /\ pc'[p] = "idle"
        BY <1>1, <1>10 DEF Verify, CutBack, Return, Goto, TypeOK
    <2> QED
        BY <2>1 DEF Holding
<1> QED
    BY <1>2, <1>3, <1>4, <1>5, <1>6, <1>7, <1>8, <1>9, <1>10

LEMMA SavedStep ==
    ASSUME IInv, NEW p \in Procs, Saved(p), [Next]_vars
    PROVE  Saved(p)'
<1>0. TypeOK
    BY DEF IInv
<1>1. CASE UNCHANGED vars
    BY <1>1 DEF vars, Saved, Undoable, Holding
<1>2. ASSUME NEW q \in Procs, q # p, Call(q) \/ Step(q) \/ Trouble(q)
      PROVE  Saved(p)'
    <2>1. CASE Holding(p)
        <3>1. UNCHANGED <<disk, len, bak, bakLen>> /\ w'[p] = w[p] /\ pc'[p] = pc[p]
            BY <1>2, <2>1, OthersWait
        <3> QED
            BY <3>1 DEF Saved, Undoable, Holding
    <2>2. CASE ~Holding(p)
        <3>1. pc'[p] = pc[p]
            BY <1>2, OthersKeep
        <3> QED
            BY <2>2, <3>1 DEF Saved, Undoable, Holding
    <2> QED
        BY <2>1, <2>2
<1>3. CASE Call(p) \/ Lock(p) \/ LockTimeout(p) \/ Refuse(p) \/ SaveFails(p) \/ Crash(p)
    <2>1. pc'[p] \in {"idle", "lock", "read"}
        BY <1>0, <1>3 DEF Call, Lock, LockTimeout, Refuse, SaveFails, Crash, Return, Goto, TypeOK
    <2> QED
        BY <2>1 DEF Saved, Undoable, Holding
<1>4. CASE ReadInplace(p)
    <2>1. /\ w'[p].start = len - TableCells /\ w'[p].orig = len /\ pc'[p] = "save"
          /\ \A i \in 1..TableCells : w'[p].tail[i] = disk[len - TableCells + i]
        BY <1>0, <1>4, ReadFields
    <2>2. bakLen' = 0 /\ UNCHANGED <<disk, len>>
        BY <1>4 DEF ReadInplace
    <2> QED
        BY <2>1, <2>2 DEF Saved
<1>5. CASE ReadPatch(p)
    <2>1. w'[p].kind = "patch"
        BY <1>0, <1>5, PatchFields
    <2> QED
        BY <2>1 DEF Saved, Undoable
<1>6. CASE SaveTail(p)
    <2>1. /\ bak' = [bak EXCEPT ![bakLen + 1] = w[p].tail[bakLen + 1]] /\ bakLen' = bakLen + 1
          /\ UNCHANGED <<disk, len, w>> /\ pc[p] = "save" /\ bakLen < TableCells
          /\ pc'[p] = IF bakLen' = TableCells THEN "blob" ELSE "save"
        BY <1>0, <1>6 DEF SaveTail, Goto, TypeOK
    <2>2. ASSUME Undoable(p)', NEW i \in 1..bakLen' PROVE bak'[i] = w'[p].tail[i]
        <3>1. Undoable(p)
            BY <2>1, <2>2 DEF Undoable, Holding
        <3>2. bakLen \in 0..TableCells /\ TableCells \in Nat /\ bak \in [1..TableCells -> Cell]
            BY <1>0, Sizes DEF TypeOK
        <3> QED
            BY <2>1, <2>2, <3>1, <3>2 DEF Saved
    <2>3. Undoable(p)' => Undoable(p)
        BY <2>1 DEF Undoable, Holding
    <2> QED
        BY <2>1, <2>2, <2>3 DEF Saved
<1>7. CASE \/ PutBlob(p) \/ BuildTable(p) \/ PutTable(p) \/ SetLen(p) \/ WriteFails(p)
           \/ Verify(p) \/ VerifyFails(p) \/ PutBack(p) \/ PutBackFails(p) \/ CutBack(p)
    <2>1. /\ UNCHANGED <<bak, bakLen>>
          /\ pc[p] \notin {"idle", "lock", "read", "save"} /\ pc'[p] \notin {"lock", "read", "save"}
          /\ Holding(p)' => Fixed(p)
        BY <1>7, KeepsCopy
    <2>2. Undoable(p)' => Undoable(p) /\ w'[p].tail = w[p].tail
        BY <2>1 DEF Undoable, Holding, Fixed
    <2> QED
        BY <2>1, <2>2 DEF Saved
<1> QED
    BY <1>1, <1>2, <1>3, <1>4, <1>5, <1>6, <1>7 DEF Next, Step, Trouble

\* What a write that can be undone means for the archive and its copy.
LEMMA SavedMeans == IInv /\ (\A p \in Procs : Saved(p)) => Recoverable
<1> SUFFICES ASSUME IInv, NEW p \in Procs, Saved(p), Undoable(p),
                    Serves(Before(p), w[p].orig, committed)
             PROVE  \/ Serves(disk, len, committed)
                    \/ /\ bakLen = TableCells
                       /\ \E base \in 0..(Cap - TableCells) :
                            Serves(PutBackAt(base), base + TableCells, committed)
    BY DEF Recoverable
<1>1. /\ disk \in [1..Cap -> Cell] /\ len \in 0..Cap /\ TableCells \in Nat \ {0} /\ Cap \in Nat
      /\ w[p].start \in Nat /\ w[p].start + TableCells <= len /\ w[p].orig = w[p].start + TableCells
    BY Sizes, SizesAssumption DEF IInv, TypeOK, Work, WorkOK, Past, Undoable, Holding
<1>2. CASE pc[p] = "save"
    <2>1. \A c \in 1..Cap : Before(p)[c] = disk[c]
        <3> SUFFICES ASSUME NEW c \in 1..Cap, c > w[p].start, c <= w[p].start + TableCells
                     PROVE  w[p].tail[c - w[p].start] = disk[c]
            BY DEF Before
        <3>1. c - w[p].start \in 1..TableCells /\ w[p].start + (c - w[p].start) = c
            BY <1>1
        <3> QED
            BY <1>2, <3>1 DEF Saved
    <2>2. Before(p) = disk
        BY <1>1, <2>1 DEF Before
    <2> QED
        BY <1>2, <2>2 DEF Saved
<1>3. CASE pc[p] # "save"
    <2>1. bakLen = TableCells /\ \A i \in 1..TableCells : bak[i] = w[p].tail[i]
        BY <1>3 DEF Saved
    <2>2. \A c \in 1..Cap : PutBackAt(w[p].start)[c] = Before(p)[c]
        BY <1>1, <2>1 DEF PutBackAt, Before
    <2>3. PutBackAt(w[p].start) = Before(p)
        BY <2>2 DEF PutBackAt, Before
    <2>4. w[p].start \in 0..(Cap - TableCells)
        BY <1>1
    <2> QED
        BY <1>1, <2>1, <2>3, <2>4
<1> QED
    BY <1>2, <1>3

\* An in-place write that found a whole table can be undone at every instant, whatever fails.
THEOREM RecoverableAlways == Spec => []Recoverable
<1> DEFINE RInv == IInv /\ \A p \in Procs : Saved(p)
<1>1. Init => RInv
    BY InitInv DEF Init, Saved, Undoable, Holding
<1>2. RInv /\ [Next]_vars => RInv'
    BY StepInv, SavedStep
<1>3. RInv => Recoverable
    BY SavedMeans
<1> QED
    BY <1>1, <1>2, <1>3, PTL DEF Spec

-----------------------------------------------------------------------------
(* A file serves entries when its table locates them and their bytes are there *)

Located(recs, locs) ==
    /\ Unique(recs)
    /\ \A e \in Entries : \E k \in 1..Slots : recs[k] = Rec(e, locs[e].off, locs[e].size, 1)

\* The bytes of entry e are in the first n cells.
Paid(f, n, loc, e) ==
    /\ loc.off + loc.size <= n + 1
    /\ \A i \in 1..loc.size : f[loc.off + i - 1] = Blob(e, loc.v, i)

LEMMA ServesParts ==
    ASSUME NEW f, NEW n, NEW locs
    PROVE  Serves(f, n, locs) <=> /\ Located(Records(f, n), locs)
                                  /\ \A e \in Entries : Paid(f, n - TableCells, locs[e], e)
BY DEF Serves, Located, Paid

\* What the penalty writer's patched bucket reads as.
LEMMA PatchReads ==
    ASSUME NEW f \in [1..Cap -> Cell], NEW n \in 0..Cap, TableCells <= n, Clean(f, n),
           NEW locs, Located(Records(f, n), locs), NEW e \in Entries,
           NEW off \in Nat, NEW size \in Nat, NEW new, new[e].off = off, new[e].size = size,
           \A g \in Entries : g # e => new[g] = locs[g]
    PROVE  LET tab == Patched(f, n, e, off, size) IN
           Located(Records(tab, TableCells), new) /\ Clean(tab, TableCells)
<1> DEFINE tab == Patched(f, n, e, off, size)
           at(k) == SlotAt(n - TableCells, k)
           x(k) == SlotAt(TableCells - TableCells, k)
<1>0. tab \in [1..TableCells -> Cell] /\ TableCells \in Nat /\ TableCells - TableCells = 0 /\ TableCells <= TableCells
    BY PatchedType, Sizes
<1>1. \A k \in 1..Slots : at(k) \in 1..Cap /\ f[at(k)] \in Cell
    <2> SUFFICES ASSUME NEW k \in 1..Slots PROVE at(k) \in 1..Cap
        OBVIOUS
    <2>1. 1 \in 1..Bucket /\ at(k) + 1 - 1 = at(k)
        BY SizesAssumption, Sizes DEF SlotAt
    <2>2. at(k) + 1 - 1 \in 1..n
        BY <2>1, SlotInside
    <2> HIDE DEF at
    <2> QED
        BY <2>1, <2>2, SizesAssumption
<1>2. \A k \in 1..Slots : k \in NeedleSlots(f, n, e) <=> k \in SlotsOf(Records(f, n), e)
    <2> SUFFICES ASSUME NEW k \in 1..Slots
                 PROVE  (/\ at(k) \in DOMAIN f /\ f[at(k)].kind = "rec" /\ f[at(k)].e = e /\ f[at(k)].h = 1)
                        <=> (Records(f, n)[k].kind = "rec" /\ Records(f, n)[k].e = e)
        BY DEF NeedleSlots, SlotsOf, at
    <2>1. Records(f, n)[k] = IF IsRecord(f, at(k)) THEN f[at(k)] ELSE Gap
        BY DEF Records, at
    <2>2. f[at(k)].kind = "rec" => IsRecord(f, at(k))
        BY DEF Clean, CleanSlot, at
    <2>3. 1 \in 1..Bucket /\ at(k) + 1 - 1 = at(k)
        BY SizesAssumption, Sizes DEF SlotAt
    <2> HIDE DEF at
    <2>4. IsRecord(f, at(k)) => f[at(k)].kind = "rec" /\ f[at(k)].h = 1
        <3> SUFFICES ASSUME IsRecord(f, at(k)) PROVE f[at(k)].h = 1
            BY DEF IsRecord
        <3>1. f[at(k)] = [f[at(k)] EXCEPT !.h = 1] /\ f[at(k)] \in RecCell
            BY <1>1, <2>3, RecCells DEF IsRecord
        <3>2. [f[at(k)] EXCEPT !.h = 1].h = 1
            BY <3>1 DEF RecCell
        <3> QED
            BY <3>1, <3>2
    <2> QED
        BY <1>1, <2>1, <2>2, <2>4 DEF Gap
<1>3. PICK hit \in 1..Slots : Records(f, n)[hit] = Rec(e, locs[e].off, locs[e].size, 1)
    BY DEF Located
<1>4. SlotsOf(Records(f, n), e) = {hit}
    BY <1>3 DEF Located, Unique, SlotsOf, Rec
<1>5. NeedleSlots(f, n, e) = {hit}
    BY <1>2, <1>4 DEF NeedleSlots
<1>6. \A i \in 1..TableCells :
          tab[i] = IF ((i - 1) \div Bucket) + 1 = hit THEN Rec(e, off, size, ((i - 1) % Bucket) + 1)
                   ELSE f[n - TableCells + i]
    BY <1>5 DEF Patched
<1> HIDE DEF tab
<1>7. ASSUME NEW k \in 1..Slots, k # hit
      PROVE  Records(tab, TableCells)[k] = Records(f, n)[k] /\ CleanSlot(tab, TableCells, k)
    <2>1. \A h \in 1..Bucket : f[n - TableCells + ((k - 1) * Bucket + h)]
                              = tab[TableCells - TableCells + ((k - 1) * Bucket + h)]
        <3> SUFFICES ASSUME NEW h \in 1..Bucket
                     PROVE  f[n - TableCells + ((k - 1) * Bucket + h)]
                            = tab[TableCells - TableCells + ((k - 1) * Bucket + h)]
            OBVIOUS
        <3>1. PICK i : i = (k - 1) * Bucket + h
            OBVIOUS
        <3>2. i \in 1..TableCells /\ ((i - 1) \div Bucket) + 1 = k
            BY <3>1, SlotCells
        <3>3. tab[i] = f[n - TableCells + i]
            BY <1>6, <1>7, <3>2
        <3>4. TableCells - TableCells + i = i
            BY <1>0, <3>2
        <3> QED
            BY <3>1, <3>3, <3>4
    <2>2. CleanSlot(f, n, k)
        BY DEF Clean
    <2>3. PICK m : m = TableCells
        OBVIOUS
    <2>4. Cap \in Nat /\ m \in Nat /\ m \in 0..m /\ TableCells <= m /\ tab \in [1..m -> Cell]
        BY <1>0, <2>3, SizesAssumption
    <2>5. SameSlot(f, n, tab, m, k)
        BY <2>1, <2>3 DEF SameSlot
    <2>6. Records(f, n)[k] = Records(tab, m)[k] /\ CleanSlot(tab, m, k)
        BY <2>2, <2>4, <2>5, SlotShift
    <2> QED
        BY <2>3, <2>6
<1>8. Records(tab, TableCells)[hit] = Rec(e, off, size, 1) /\ IsRecord(tab, x(hit))
    <2>1. \A h \in 1..Bucket : x(hit) + h - 1 \in 1..TableCells /\ tab[x(hit) + h - 1] = Rec(e, off, size, h)
        <3> SUFFICES ASSUME NEW h \in 1..Bucket
                     PROVE  x(hit) + h - 1 \in 1..TableCells /\ tab[x(hit) + h - 1] = Rec(e, off, size, h)
            OBVIOUS
        <3>1. PICK i : i = (hit - 1) * Bucket + h
            OBVIOUS
        <3>2. i \in 1..TableCells /\ ((i - 1) \div Bucket) + 1 = hit /\ ((i - 1) % Bucket) + 1 = h
            BY <3>1, SlotCells
        <3>3. tab[i] = Rec(e, off, size, h)
            BY <1>6, <3>2
        <3>4. x(hit) + h - 1 = (TableCells - TableCells) + ((hit - 1) * Bucket + h)
            BY <1>0, SlotInside
        <3> HIDE DEF x
        <3>5. x(hit) + h - 1 = i
            BY <1>0, <3>1, <3>2, <3>4
        <3> QED
            BY <3>2, <3>3, <3>5
    <2>2. 1 \in 1..Bucket /\ x(hit) + 1 - 1 = x(hit)
        BY SizesAssumption, Sizes DEF SlotAt
    <2> HIDE DEF x
    <2>3. x(hit) \in 1..TableCells /\ tab[x(hit)] = Rec(e, off, size, 1)
        BY <2>1, <2>2
    <2>4. \A h : [Rec(e, off, size, 1) EXCEPT !.h = h] = Rec(e, off, size, h)
        BY DEF Rec
    <2>5. IsRecord(tab, x(hit))
        <3>1. tab[x(hit)].kind = "rec" /\ x(hit) \in DOMAIN tab
            BY <1>0, <2>3 DEF Rec
        <3>2. \A h \in 1..Bucket : tab[x(hit) + h - 1] = [tab[x(hit)] EXCEPT !.h = h]
            BY <2>1, <2>3, <2>4
        <3> QED
            BY <3>1, <3>2 DEF IsRecord
    <2>6. Records(tab, TableCells)[hit] = tab[x(hit)]
        BY <2>5 DEF Records, x
    <2> QED
        BY <2>3, <2>5, <2>6
<1>9. Clean(tab, TableCells)
    BY <1>7, <1>8 DEF Clean, CleanSlot
<1>10. \A g \in Entries : SlotsOf(Records(tab, TableCells), g) = SlotsOf(Records(f, n), g)
    <2> SUFFICES ASSUME NEW g \in Entries, NEW k \in 1..Slots
                 PROVE  Records(tab, TableCells)[k].kind = "rec" /\ Records(tab, TableCells)[k].e = g
                        <=> Records(f, n)[k].kind = "rec" /\ Records(f, n)[k].e = g
        BY DEF SlotsOf
    <2>1. CASE k # hit
        BY <1>7, <2>1
    <2>2. CASE k = hit
        BY <1>3, <1>8, <2>2 DEF Rec
    <2> QED
        BY <2>1, <2>2
<1>11. ASSUME NEW g \in Entries
       PROVE  \E k \in 1..Slots : Records(tab, TableCells)[k] = Rec(g, new[g].off, new[g].size, 1)
    <2>1. CASE g = e
        BY <1>8, <2>1
    <2>2. CASE g # e
        <3>1. PICK k \in 1..Slots : Records(f, n)[k] = Rec(g, locs[g].off, locs[g].size, 1)
            BY DEF Located
        <3>2. k # hit
            BY <1>3, <2>2, <3>1 DEF Rec
        <3> QED
            BY <1>7, <2>2, <3>1, <3>2
    <2> QED
        BY <2>1, <2>2
<1>12. Located(Records(tab, TableCells), new)
    BY <1>10, <1>11 DEF Located, Unique
<1> QED
    BY <1>9, <1>12 DEF tab

-----------------------------------------------------------------------------
(* The invariant of the writes no file operation fails                      *)

\* The locals of a write that has not begun.
Shape(p) ==
    /\ pc[p] \in {"lock", "read", "save"} => w[p].j = 1 /\ w[p].i = 1
    /\ pc[p] # "idle" => IF w[p].kind = "inplace" THEN w[p].size = BlobCells ELSE Len(w[p].ch) = 1

Writing(p) == pc[p] \in {"save", "blob", "table", "setlen", "verify"}

\* The payload of a penalty write that is not through yet.
Owing(p, e) == w[p].kind = "patch" /\ pc[p] = "blob" /\ w[p].j = 1 /\ e = w[p].ch[1]

\* The tail a write keeps locates what the last whole table located.
Kept(p) ==
    Past(p) /\ w[p].kind = "inplace" =>
        Clean(w[p].tail, TableCells) /\ Located(Records(w[p].tail, TableCells), committed)

\* Its records locate what it has written so far, and the rest where it was.
Listed(p) ==
    /\ pc[p] \in {"save", "blob"} /\ w[p].kind = "inplace" =>
        Plain(w[p].recs) /\ Located(w[p].recs, w[p].locs)
    /\ Writing(p) => \A e \in Entries :
        (\A k \in 1..Len(w[p].ch) : w[p].ch[k] # e) => w[p].locs[e] = committed[e]

\* All of that is below its cursor.
Through(p) ==
    Writing(p) => \A e \in Entries :
        IF Owing(p, e) THEN w[p].locs[e] = [v |-> w[p].v, off |-> w[p].cursor + 1, size |-> w[p].size]
        ELSE Paid(disk, w[p].cursor, w[p].locs[e], e)

\* The payload it is writing is above the cursor, up to the file position.
Filling(p) ==
    /\ pc[p] = "save" => w[p].kind = "inplace" /\ w[p].pos = w[p].start + 1 /\ w[p].cursor = w[p].start
    /\ pc[p] = "blob" =>
        /\ w[p].pos = w[p].cursor + w[p].i
        /\ IF w[p].j <= Len(w[p].ch)
           THEN /\ w[p].i <= w[p].size
                /\ \A x \in 1..(w[p].i - 1) :
                    disk[w[p].cursor + x] = Blob(w[p].ch[w[p].j], w[p].v, x)
           ELSE w[p].i = 1

\* The table it lays after the payloads, and the cells of it that are there.
Laid(p, n) == \A y \in 1..n : disk[w[p].cursor + y] = w[p].tab[y]

Laying(p) ==
    /\ (pc[p] \in {"table", "setlen", "verify"} \/ (pc[p] = "blob" /\ w[p].kind = "patch")) =>
        Clean(w[p].tab, TableCells) /\ Located(Records(w[p].tab, TableCells), w[p].locs)
    /\ pc[p] = "table" =>
        /\ w[p].i <= TableCells /\ w[p].pos = w[p].cursor + w[p].i
        /\ Laid(p, w[p].i - 1)
    /\ pc[p] = "setlen" => w[p].pos = w[p].cursor + TableCells + 1 /\ Laid(p, TableCells)
    /\ pc[p] = "verify" => len = w[p].cursor + TableCells /\ Laid(p, TableCells)

\* The cells of the tail that are back.
Returned(p, n) == \A y \in 1..n : disk[w[p].start + y] = w[p].tail[y]

Returning(p) ==
    /\ pc[p] \notin {"undo", "undolen"}
    /\ pc[p] = "roll" =>
        w[p].i <= TableCells /\ w[p].pos = w[p].start + w[p].i /\ Returned(p, w[p].i - 1)
    /\ pc[p] = "rolllen" => Returned(p, TableCells)

Going(p) == Kept(p) /\ Listed(p) /\ Through(p) /\ Filling(p) /\ Laying(p) /\ Returning(p)

\* With no failed file operation a write is on its way, and what nobody is writing is whole.
Sound == Serves(disk, len, committed) /\ Clean(disk, len)

Flowing ==
    faults = 0 =>
        /\ \A p \in Procs : Going(p)
        /\ (\A p \in Procs : ~Past(p)) => Sound

\* No penalty write meets a full volume.
PatchesFit ==
    \A p \in Procs : w[p].kind = "patch" /\ pc[p] \in {"blob", "table"} => w[p].pos <= Cap

-----------------------------------------------------------------------------
(* What the steps have in common *)

\* What the holder's step leaves of the others, and theirs of the holder.
LEMMA OthersGo ==
    ASSUME IInv, NEW p \in Procs, NEW q \in Procs, p # q, Going(p),
           Call(q) \/ Step(q) \/ Trouble(q)
    PROVE  Going(p)'
<1>1. CASE Holding(p)
    <2>1. UNCHANGED <<disk, len, committed>> /\ w'[p] = w[p] /\ pc'[p] = pc[p]
        BY <1>1, OthersWait
    <2>2. Kept(p)' /\ Listed(p)'
        BY <2>1 DEF Going, Kept, Listed, Past, Writing
    <2>3. Through(p)'
        BY <2>1 DEF Going, Through, Writing, Owing
    <2>4. Filling(p)'
        BY <2>1 DEF Going, Filling
    <2>5. Laying(p)' /\ Returning(p)'
        BY <2>1 DEF Going, Laying, Laid, Returning, Returned
    <2> QED
        BY <2>2, <2>3, <2>4, <2>5 DEF Going
<1>2. CASE ~Holding(p)
    <2>1. pc'[p] = pc[p]
        BY OthersKeep
    <2>2. pc'[p] \in {"idle", "lock"}
        BY <1>2, <2>1 DEF Holding
    <2> QED
        BY <2>2 DEF Going, Kept, Listed, Through, Filling, Laying, Returning, Past, Writing
<1> QED
    BY <1>1, <1>2

LEMMA NotPastGoing ==
    ASSUME NEW p \in Procs, ~Past(p)
    PROVE  Going(p)
BY DEF Going, Kept, Listed, Through, Filling, Laying, Returning, Past, Writing

\* A step about p, of a state in which nothing has failed.
Clear(p) ==
    /\ IInv /\ IInv' /\ Flowing /\ (\A q \in Procs : Shape(q)) /\ PatchesFit
    /\ faults = 0 /\ faults' = 0
    /\ Call(p) \/ Step(p) \/ Trouble(p)

LEMMA FlowOn ==
    ASSUME NEW p \in Procs, Clear(p), Going(p)', Past(p)'
    PROVE  Flowing'
<1>1. \A q \in Procs : q # p => Going(q)'
    BY OthersGo DEF Clear, Flowing
<1> QED
    BY <1>1 DEF Flowing

LEMMA FlowStop ==
    ASSUME NEW p \in Procs, Clear(p), Holding(p), ~Past(p)', Sound'
    PROVE  Flowing'
<1>1. \A q \in Procs : q # p => Going(q)'
    BY OthersGo DEF Clear, Flowing
<1>2. Going(p)'
    BY DEF Going, Kept, Listed, Through, Filling, Laying, Returning, Past, Writing
<1> QED
    BY <1>1, <1>2 DEF Flowing

LEMMA FlowQuiet ==
    ASSUME NEW p \in Procs, Clear(p), ~Past(p), ~Past(p)', UNCHANGED <<disk, len, committed>>
    PROVE  Flowing'
<1>1. \A q \in Procs : q # p => Going(q)' /\ pc'[q] = pc[q]
    BY OthersGo, OthersKeep DEF Clear, Flowing
<1>2. Going(p)'
    BY DEF Going, Kept, Listed, Through, Filling, Laying, Returning, Past, Writing
<1>3. (\A q \in Procs : ~Past(q)') => Sound'
    <2>1. (\A q \in Procs : ~Past(q)') => \A q \in Procs : ~Past(q)
        BY <1>1 DEF Past
    <2>2. Sound => Sound'
        BY DEF Sound
    <2> QED
        BY <2>1, <2>2 DEF Clear, Flowing
<1> QED
    BY <1>1, <1>2, <1>3 DEF Flowing

\* While p holds the mutex without having read, nobody is past reading.
LEMMA SoundToRead ==
    ASSUME NEW p \in Procs, Clear(p), pc[p] = "read"
    PROVE  Sound
<1>1. \A q \in Procs : q # p => ~Holding(q)
    BY Alone DEF Clear, Holding
<1>2. \A q \in Procs : ~Past(q)
    BY <1>1 DEF Past, Holding
<1> QED
    BY <1>2 DEF Clear, Flowing

LEMMA NoFault == ASSUME NEW p \in Procs, Clear(p) PROVE ~Fault
BY DEF Clear, Fault

LEMMA ClearTypes ==
    ASSUME NEW p \in Procs, Clear(p)
    PROVE  /\ TypeOK /\ TypeOK' /\ TableCells \in Nat \ {0} /\ Cap \in Nat
           /\ disk \in [1..Cap -> Cell] /\ len \in 0..Cap /\ TableCells <= len
           /\ committed \in [Entries -> Loc] /\ w[p] \in Work /\ pc[p] \in Labels
           /\ w'[p] \in Work /\ Going(p) /\ Shape(p)
BY Sizes, SizesAssumption DEF Clear, IInv, TypeOK, Flowing

\* A payload below the cursor stays when the cursor grows and a cell above it is written.
LEMMA PaidStays ==
    ASSUME NEW f \in [1..Cap -> Cell], NEW n \in Nat, NEW m \in Nat, n <= m, NEW loc \in Loc, NEW e,
           Paid(f, n, loc, e), NEW x, NEW cell, \/ ~(x \in Nat)
                                               \/ x > n
    PROVE  Paid([f EXCEPT ![x] = cell], m, loc, e)
<1>1. loc.off \in Nat \ {0} /\ loc.size \in Nat
    BY DEF Loc
<1>2. \A i \in 1..loc.size : loc.off + i - 1 \in Nat /\ loc.off + i - 1 <= n
    BY <1>1 DEF Paid
<1>3. ASSUME NEW i \in 1..loc.size PROVE [f EXCEPT ![x] = cell][loc.off + i - 1] = f[loc.off + i - 1]
    <2>1. loc.off + i - 1 # x
        BY <1>2
    <2> QED
        BY <2>1
<1> QED
    BY <1>1, <1>3 DEF Paid

-----------------------------------------------------------------------------
(* One lemma per step *)

LEMMA ReadInplaceFlows == ASSUME NEW p \in Procs, Clear(p), ReadInplace(p) PROVE Flowing'
<1>1. pc[p] = "read" /\ UNCHANGED <<disk, len, committed>> /\ w[p].kind = "inplace"
    BY DEF ReadInplace
<1>2. Sound
    BY <1>1, SoundToRead
<1>3. /\ w'[p].kind = "inplace" /\ w'[p].start = len - TableCells
      /\ \A i \in 1..TableCells : w'[p].tail[i] = disk[len - TableCells + i]
      /\ w'[p].recs = Records(disk, len) /\ w'[p].locs = committed
      /\ w'[p].pos = len - TableCells + 1 /\ w'[p].cursor = len - TableCells /\ pc'[p] = "save"
    BY ClearTypes, ReadFields
<1>4. Located(Records(disk, len), committed) /\ \A e \in Entries : Paid(disk, len - TableCells, committed[e], e)
    BY <1>2, ServesParts DEF Sound
<1>5. Kept(p)'
    <2>1. PICK t : t = w'[p].tail
        OBVIOUS
    <2>2. t \in [1..TableCells -> Cell]
        BY <2>1, ClearTypes DEF Work
    <2>3. PICK m : m = TableCells
        OBVIOUS
    <2>4. \A i \in 1..TableCells : disk[len - TableCells + i] = t[m - TableCells + i]
        BY <1>3, <2>1, <2>3, Sizes
    <2>5. Cap \in Nat /\ m \in Nat /\ m \in 0..m /\ TableCells <= m /\ t \in [1..m -> Cell]
        BY <2>2, <2>3, Sizes, SizesAssumption
    <2>6. Records(disk, len) = Records(t, m) /\ (Clean(disk, len) => Clean(t, m))
        BY <2>4, <2>5, ClearTypes, TableShift
    <2>7. Clean(t, TableCells) /\ Located(Records(t, TableCells), committed)
        BY <1>2, <1>4, <2>3, <2>6 DEF Sound
    <2> QED
        BY <1>1, <2>1, <2>7 DEF Kept
<1>6. Listed(p)'
    <2>1. Plain(Records(disk, len))
        BY <1>4, ClearTypes, RecordsPlain DEF Located
    <2> QED
        BY <1>1, <1>3, <1>4, <2>1 DEF Listed, Writing
<1>7. Through(p)'
    BY <1>1, <1>3, <1>4 DEF Through, Owing
<1>8. Filling(p)' /\ Laying(p)' /\ Returning(p)'
    BY <1>3 DEF Filling, Laying, Returning
<1> QED
    BY <1>3, <1>5, <1>6, <1>7, <1>8, FlowOn DEF Going, Past

LEMMA ReadPatchFlows == ASSUME NEW p \in Procs, Clear(p), ReadPatch(p) PROVE Flowing'
<1>1. pc[p] = "read" /\ UNCHANGED <<disk, len, committed>> /\ w[p].kind = "patch"
    BY DEF ReadPatch
<1>2. Sound
    BY <1>1, SoundToRead
<1>3. PICK e : e = w[p].ch[1]
    OBVIOUS
<1>4. PICK start : start = len - TableCells
    OBVIOUS
<1>5. start \in Nat /\ w[p].size \in Nat /\ w[p].v \in Nat
    BY SMTT(30), <1>4, ClearTypes DEF Work
<1>6. Len(w[p].ch) = 1 /\ w[p].j = 1 /\ e \in Entries
    <2>1. Len(w[p].ch) = 1 /\ w[p].j = 1
        BY <1>1, ClearTypes DEF Shape
    <2>2. w[p].ch \in Seq(Entries)
        BY ClearTypes DEF Work
    <2> QED
        BY <1>3, <2>1, <2>2
<1>7. /\ w'[p].kind = "patch" /\ w'[p].ch = w[p].ch /\ w'[p].v = w[p].v
      /\ w'[p].size = w[p].size /\ w'[p].i = 1 /\ w'[p].j = w[p].j
      /\ w'[p].pos = start + 1 /\ w'[p].cursor = start
      /\ w'[p].tab = Patched(disk, len, e, start + 1, w[p].size)
      /\ w'[p].locs = [committed EXCEPT ![e] = [v |-> w[p].v, off |-> start + 1, size |-> w[p].size]]
      /\ pc'[p] = IF w[p].size = 0 THEN "table" ELSE "blob"
    BY <1>3, <1>4, ClearTypes, PatchFields
<1>8. Located(Records(disk, len), committed) /\ \A g \in Entries : Paid(disk, start, committed[g], g)
    BY <1>2, <1>4, ServesParts DEF Sound
<1>9. /\ w'[p].locs[e] = [v |-> w[p].v, off |-> start + 1, size |-> w[p].size]
      /\ \A g \in Entries : g # e => w'[p].locs[g] = committed[g]
    BY <1>6, <1>7, ClearTypes
<1>10. Located(Records(w'[p].tab, TableCells), w'[p].locs) /\ Clean(w'[p].tab, TableCells)
    <2>1. PICK new : new = w'[p].locs
        OBVIOUS
    <2>2. new[e].off = start + 1 /\ new[e].size = w[p].size /\ \A g \in Entries : g # e => new[g] = committed[g]
        BY <1>9, <2>1
    <2>3. start + 1 \in Nat /\ Clean(disk, len)
        BY <1>2, <1>5 DEF Sound
    <2>4. PICK off : off = start + 1
        OBVIOUS
    <2>5. Located(Records(Patched(disk, len, e, off, w[p].size), TableCells), new)
          /\ Clean(Patched(disk, len, e, off, w[p].size), TableCells)
        BY <1>5, <1>6, <1>8, <2>2, <2>3, <2>4, ClearTypes, PatchReads
    <2> QED
        BY <1>7, <2>1, <2>4, <2>5
<1>11. Kept(p)'
    BY <1>7 DEF Kept
<1>12. Listed(p)'
    BY <1>1, <1>3, <1>6, <1>7, <1>9 DEF Listed
<1>13. Through(p)'
    <2> SUFFICES ASSUME NEW g \in Entries
                 PROVE  IF Owing(p, g)'
                        THEN w'[p].locs[g] = [v |-> w'[p].v, off |-> w'[p].cursor + 1, size |-> w'[p].size]
                        ELSE Paid(disk', w'[p].cursor, w'[p].locs[g], g)
        BY DEF Through
    <2>1. CASE g # e
        BY <1>1, <1>3, <1>7, <1>8, <1>9, <2>1 DEF Owing
    <2>2. CASE g = e /\ pc'[p] = "blob"
        BY <1>3, <1>6, <1>7, <1>9, <2>2 DEF Owing
    <2>3. CASE g = e /\ pc'[p] # "blob"
        <3>1. w[p].size = 0
            BY <1>7, <2>3
        <3>2. Paid(disk, start, w'[p].locs[e], e)
            BY <1>5, <1>9, <3>1 DEF Paid
        <3> QED
            BY <1>1, <1>7, <2>3, <3>2 DEF Owing
    <2> QED
        BY <2>1, <2>2, <2>3
<1>14. Filling(p)'
    BY <1>5, <1>6, <1>7 DEF Filling
<1>15. Laying(p)' /\ Returning(p)'
    BY <1>5, <1>7, <1>10, Sizes DEF Laying, Laid, Returning
<1>16. Past(p)'
    BY <1>7 DEF Past
<1> QED
    BY <1>11, <1>12, <1>13, <1>14, <1>15, <1>16, FlowOn DEF Going

LEMMA SaveTailFlows == ASSUME NEW p \in Procs, Clear(p), SaveTail(p) PROVE Flowing'
<1>1. /\ pc[p] = "save" /\ UNCHANGED <<disk, len, committed, w>> /\ pc'[p] \in {"save", "blob"}
    BY ClearTypes DEF SaveTail, Goto, TypeOK
<1>2. w[p].kind = "inplace" /\ w[p].pos = w[p].start + 1 /\ w[p].cursor = w[p].start
      /\ w[p].j = 1 /\ w[p].i = 1 /\ w[p].size = BlobCells
    BY <1>1, ClearTypes DEF Going, Filling, Shape
<1>3. Kept(p)' /\ Listed(p)'
    BY <1>1, ClearTypes DEF Going, Kept, Listed, Past, Writing
<1>4. Through(p)'
    BY <1>1, <1>2, ClearTypes DEF Going, Through, Owing, Writing
<1>5. Filling(p)'
    BY <1>1, <1>2, SizesAssumption DEF Filling
<1>6. Laying(p)' /\ Returning(p)'
    BY <1>1, <1>2 DEF Laying, Returning
<1> QED
    BY <1>1, <1>3, <1>4, <1>5, <1>6, FlowOn DEF Going, Past

LEMMA PutBlobFlows == ASSUME NEW p \in Procs, Clear(p), PutBlob(p) PROVE Flowing'
<1> DEFINE off == w[p].cursor + 1
           last == w[p].i = w[p].size
<1>1. pc[p] = "blob" /\ pc' = pc /\ UNCHANGED committed /\ w[p].j <= Len(w[p].ch)
    BY DEF PutBlob
<1>2. PICK e : e = w[p].ch[w[p].j]
    OBVIOUS
<1>3. /\ w[p].cursor \in Nat /\ w[p].i \in Nat \ {0} /\ w[p].size \in Nat /\ w[p].pos \in Nat
      /\ w[p].j \in Nat \ {0} /\ w[p].v \in Nat /\ w[p].locs \in [Entries -> Loc]
      /\ w[p].ch \in Seq(Entries) /\ e \in Entries /\ Len(w[p].ch) \in Nat
      /\ w[p].recs \in [1..Slots -> RecCell \cup {Gap}]
    <2>1. w[p].ch \in Seq(Entries) /\ w[p].j \in Nat \ {0}
        BY ClearTypes DEF Work
    <2>2. e \in Entries /\ Len(w[p].ch) \in Nat
        BY <1>1, <1>2, <2>1
    <2> QED
        BY SMTT(30), <2>1, <2>2, ClearTypes DEF Work
<1>4. /\ w[p].pos = w[p].cursor + w[p].i /\ w[p].i <= w[p].size
      /\ \A x \in 1..(w[p].i - 1) : disk[w[p].cursor + x] = Blob(e, w[p].v, x)
    BY <1>1, <1>2, ClearTypes DEF Going, Filling
<1>5. w[p].pos \in 1..Cap /\ disk' = [disk EXCEPT ![w[p].pos] = Blob(e, w[p].v, w[p].i)]
    <2>1. w[p].pos <= Cap /\ disk' = [disk EXCEPT ![w[p].pos] = Blob(e, w[p].v, w[p].i)]
        BY <1>2 DEF PutBlob, Write
    <2>2. w[p].pos >= 1
        BY <1>3, <1>4
    <2> QED
        BY <1>3, <2>1, <2>2, SizesAssumption
<1>6. /\ Fixed(p) /\ w'[p].tab = w[p].tab /\ w'[p].pos = w[p].pos + 1
      /\ w'[p].i = (IF last THEN 1 ELSE w[p].i + 1)
      /\ w'[p].j = (IF last THEN w[p].j + 1 ELSE w[p].j)
      /\ w'[p].cursor = (IF last THEN w[p].cursor + w[p].size ELSE w[p].cursor)
      /\ w'[p].recs = (IF last THEN Upsert(w[p].recs, e, off, w[p].size) ELSE w[p].recs)
      /\ w'[p].locs = (IF last
                       THEN [w[p].locs EXCEPT ![e] = [v |-> w[p].v, off |-> off, size |-> w[p].size]]
                       ELSE w[p].locs)
    BY <1>2, ClearTypes, BlobFields
<1>7. \A g \in Entries : g # e => w'[p].locs[g] = w[p].locs[g]
    BY <1>3, <1>6
<1>8. last => w'[p].locs[e] = [v |-> w[p].v, off |-> off, size |-> w[p].size]
    BY <1>3, <1>6
<1>9. w[p].kind = "patch" => Len(w[p].ch) = 1 /\ w[p].j = 1 /\ e = w[p].ch[1]
    <2>1. w[p].kind = "patch" => Len(w[p].ch) = 1
        BY <1>1, ClearTypes DEF Shape
    <2> QED
        BY <1>1, <1>2, <1>3, <2>1
<1>10. w[p].kind = "patch" => w[p].locs[e] = [v |-> w[p].v, off |-> off, size |-> w[p].size]
    BY <1>1, <1>3, <1>9, ClearTypes DEF Going, Through, Owing, Writing
<1>11. Kept(p)'
    BY <1>1, <1>6, ClearTypes DEF Going, Kept, Past, Fixed
<1>12. Listed(p)'
    <2>1. ASSUME w[p].kind = "inplace" PROVE Plain(w'[p].recs) /\ Located(w'[p].recs, w'[p].locs)
        <3>1. Plain(w[p].recs) /\ Located(w[p].recs, w[p].locs)
            BY <1>1, <2>1, ClearTypes DEF Going, Listed
        <3>2. CASE ~last
            BY <1>6, <3>1, <3>2
        <3>3. CASE last
            <4>1. PICK o : o = off
                OBVIOUS
            <4>2. PICK new : new = Upsert(w[p].recs, e, o, w[p].size)
                OBVIOUS
            <4>3. o \in Nat
                BY <1>3, <4>1
            <4>4. /\ Plain(new)
                  /\ \E k \in 1..Slots : new[k] = Rec(e, o, w[p].size, 1)
                  /\ \A k \in 1..Slots : w[p].recs[k].kind = "rec" /\ w[p].recs[k].e # e => new[k] = w[p].recs[k]
                <5>1. PICK l \in 1..Slots : w[p].recs[l] = Rec(e, w[p].locs[e].off, w[p].locs[e].size, 1)
                    BY <1>3, <3>1 DEF Located
                <5>2. w[p].recs[l].kind = "rec" /\ w[p].recs[l].e = e
                    BY <5>1 DEF Rec
                <5>3. Pointed(w[p].recs, new, e, o, w[p].size)
                    BY <1>3, <3>1, <4>2, <4>3, <5>2, UpsertPlain
                <5> QED
                    BY <5>3 DEF Pointed
            <4>5. w'[p].recs = new
                BY <1>6, <3>3, <4>1, <4>2
            <4>6. ASSUME NEW g \in Entries
                  PROVE  \E k \in 1..Slots : new[k] = Rec(g, w'[p].locs[g].off, w'[p].locs[g].size, 1)
                <5>1. CASE g = e
                    BY <1>8, <3>3, <4>1, <4>4, <5>1
                <5>2. CASE g # e
                    <6>1. PICK k \in 1..Slots : w[p].recs[k] = Rec(g, w[p].locs[g].off, w[p].locs[g].size, 1)
                        BY <3>1 DEF Located
                    <6>2. new[k] = w[p].recs[k]
                        BY <4>4, <5>2, <6>1 DEF Rec
                    <6> QED
                        BY <1>7, <5>2, <6>1, <6>2
                <5> QED
                    BY <5>1, <5>2
            <4>7. Located(new, w'[p].locs)
                BY <4>4, <4>6 DEF Located, Plain
            <4> QED
                BY <4>4, <4>5, <4>7
        <3> QED
            BY <3>2, <3>3
    <2>2. ASSUME NEW g \in Entries, \A k \in 1..Len(w[p].ch) : w[p].ch[k] # g
          PROVE  w'[p].locs[g] = committed[g]
        <3>1. g # e
            BY <1>1, <1>2, <1>3, <2>2
        <3>2. w[p].locs[g] = committed[g]
            BY <1>1, <2>2, ClearTypes DEF Going, Listed, Writing
        <3> QED
            BY <1>7, <3>1, <3>2
    <2> QED
        BY <1>1, <1>6, <2>1, <2>2 DEF Listed, Fixed
<1>13. ASSUME NEW g \in Entries
       PROVE  IF Owing(p, g)'
              THEN w'[p].locs[g] = [v |-> w'[p].v, off |-> w'[p].cursor + 1, size |-> w'[p].size]
              ELSE Paid(disk', w'[p].cursor, w'[p].locs[g], g)
    <2>1. Owing(p, g) \/ Paid(disk, w[p].cursor, w[p].locs[g], g)
        BY <1>1, ClearTypes DEF Going, Through, Writing
    <2>2. w'[p].cursor \in Nat /\ w[p].cursor <= w'[p].cursor
        BY <1>3, <1>6
    <2>3. CASE g # e
        <3>1. ~Owing(p, g)
            BY <1>9, <2>3 DEF Owing
        <3>2. ~Owing(p, g)'
            BY <1>6, <1>9, <2>3 DEF Owing, Fixed
        <3>3. w[p].locs[g] \in Loc /\ w[p].pos > w[p].cursor
            BY <1>3, <1>4
        <3>4. Paid(disk', w'[p].cursor, w[p].locs[g], g)
            BY <1>3, <1>5, <2>1, <2>2, <3>1, <3>3, PaidStays, ClearTypes
        <3> QED
            BY <1>7, <2>3, <3>2, <3>4
    <2>4. CASE g = e /\ last
        <3>1. ~Owing(p, g)'
            BY <1>3, <1>6, <1>9, <2>4 DEF Owing, Fixed
        <3>2. ASSUME NEW x \in 1..w[p].size PROVE disk'[off + x - 1] = Blob(e, w[p].v, x)
            <4>1. off + x - 1 = w[p].cursor + x
                BY SMTT(30), <1>3
            <4>2. CASE x = w[p].i
                BY <1>3, <1>4, <1>5, <4>1, <4>2, ClearTypes
            <4>3. CASE x # w[p].i
                <5>1. x \in 1..(w[p].i - 1) /\ w[p].cursor + x # w[p].pos
                    BY <1>3, <1>4, <2>4, <4>3
                <5> QED
                    BY <1>4, <1>5, <4>1, <5>1, ClearTypes
            <4> QED
                BY <4>2, <4>3
        <3>3. off + w[p].size <= w'[p].cursor + 1
            BY <1>3, <1>6, <2>4
        <3>4. Paid(disk', w'[p].cursor, w'[p].locs[e], e)
            BY <1>8, <2>4, <3>2, <3>3 DEF Paid
        <3> QED
            BY <2>4, <3>1, <3>4
    <2>5. CASE g = e /\ ~last
        <3>1. w'[p].cursor = w[p].cursor /\ w'[p].locs = w[p].locs /\ w'[p].j = w[p].j
            BY <1>6, <2>5
        <3>2. CASE Owing(p, g)
            <4>1. Owing(p, g)' /\ w[p].kind = "patch"
                BY <1>1, <1>6, <3>1, <3>2 DEF Owing, Fixed
            <4> QED
                BY <1>6, <1>10, <2>5, <3>1, <4>1 DEF Fixed
        <3>3. CASE ~Owing(p, g)
            <4>1. ~Owing(p, g)'
                BY <1>1, <1>6, <3>1, <3>3 DEF Owing, Fixed
            <4>2. w[p].locs[g] \in Loc /\ w[p].pos > w[p].cursor
                BY <1>3, <1>4
            <4>3. Paid(disk', w'[p].cursor, w[p].locs[g], g)
                BY <1>3, <1>5, <2>1, <2>2, <3>3, <4>2, PaidStays, ClearTypes
            <4> QED
                BY <3>1, <4>1, <4>3
        <3> QED
            BY <3>2, <3>3
    <2> QED
        BY <2>3, <2>4, <2>5
<1>14. Through(p)'
    BY <1>13 DEF Through
<1>15. Filling(p)'
    <2>1. w'[p].pos = w'[p].cursor + w'[p].i
        BY <1>3, <1>4, <1>6
    <2>2. CASE last
        <3>1. w'[p].i = 1 /\ 1 <= w'[p].size
            BY <1>3, <1>4, <1>6, <2>2 DEF Fixed
        <3> QED
            BY <1>1, <2>1, <3>1 DEF Filling
    <2>3. CASE ~last
        <3>1. w'[p].i = w[p].i + 1 /\ w'[p].i <= w'[p].size /\ w'[p].cursor = w[p].cursor
              /\ w'[p].j = w[p].j /\ w'[p].ch = w[p].ch /\ w'[p].v = w[p].v
            BY <1>3, <1>4, <1>6, <2>3 DEF Fixed
        <3>2. ASSUME NEW x \in 1..(w'[p].i - 1) PROVE disk'[w[p].cursor + x] = Blob(e, w[p].v, x)
            <4>1. CASE x = w[p].i
                BY <1>3, <1>4, <1>5, <4>1, ClearTypes
            <4>2. CASE x # w[p].i
                <5>1. x \in 1..(w[p].i - 1) /\ w[p].cursor + x # w[p].pos
                    BY <1>3, <1>4, <3>1, <4>2
                <5> QED
                    BY <1>4, <1>5, <5>1, ClearTypes
            <4> QED
                BY <4>1, <4>2
        <3> QED
            BY <1>1, <1>2, <2>1, <3>1, <3>2 DEF Filling
    <2> QED
        BY <2>2, <2>3
<1>16. Laying(p)' /\ Returning(p)'
    <2>1. ASSUME w[p].kind = "patch"
          PROVE  Clean(w'[p].tab, TableCells) /\ Located(Records(w'[p].tab, TableCells), w'[p].locs)
        <3>1. Clean(w[p].tab, TableCells) /\ Located(Records(w[p].tab, TableCells), w[p].locs)
            BY <1>1, <2>1, ClearTypes DEF Going, Laying
        <3>2. \A g \in Entries : w'[p].locs[g] = w[p].locs[g]
            BY <1>6, <1>7, <1>8, <1>10, <2>1
        <3> QED
            BY <1>6, <3>1, <3>2 DEF Located
    <2> QED
        BY <1>1, <1>6, <2>1 DEF Laying, Returning, Fixed
<1>17. Past(p)'
    BY <1>1 DEF Past
<1> QED
    BY <1>11, <1>12, <1>14, <1>15, <1>16, <1>17, FlowOn DEF Going

LEMMA BuildTableFlows == ASSUME NEW p \in Procs, Clear(p), BuildTable(p) PROVE Flowing'
<1>1. pc[p] = "blob" /\ UNCHANGED <<disk, len, committed>> /\ w[p].j > Len(w[p].ch)
    BY DEF BuildTable
<1>2. w[p].i = 1 /\ w[p].pos = w[p].cursor + 1 /\ w[p].cursor \in Nat
    <2>1. w[p].i = 1 /\ w[p].pos = w[p].cursor + w[p].i
        <3>1. w[p].j \in Nat /\ Len(w[p].ch) \in Nat
            BY ClearTypes DEF Work
        <3> QED
            BY <1>1, <3>1, ClearTypes DEF Going, Filling
    <2> QED
        BY <2>1, ClearTypes DEF Work
<1>3. w[p].kind = "inplace" => Plain(w[p].recs) /\ Located(w[p].recs, w[p].locs)
    BY <1>1, ClearTypes DEF Going, Listed
<1>4. w[p].kind \in {"inplace", "patch"} /\ (w[p].kind = "patch" \/ Unique(w[p].recs))
    BY <1>3, ClearTypes DEF Work, Plain
<1>5. PICK tab : tab = IF w[p].kind = "patch" THEN w[p].tab ELSE Table(w[p].recs)
    OBVIOUS
<1>6. pc'[p] = "table" /\ w' = [w EXCEPT ![p].i = 1, ![p].tab = tab]
    BY <1>4, <1>5, ClearTypes DEF BuildTable, Goto, TypeOK
<1>7. /\ Fixed(p) /\ w'[p].recs = w[p].recs /\ w'[p].tab = tab
      /\ w'[p].locs = w[p].locs /\ w'[p].j = w[p].j /\ w'[p].cursor = w[p].cursor
      /\ w'[p].pos = w[p].pos /\ w'[p].i = 1
    BY <1>6, ClearTypes, BuildFields
<1>8. Clean(tab, TableCells) /\ Located(Records(tab, TableCells), w[p].locs)
    <2>1. CASE w[p].kind = "patch"
        BY <1>1, <1>5, <2>1, ClearTypes DEF Going, Laying
    <2>2. CASE w[p].kind = "inplace"
        <3>1. PICK m : m = TableCells
            OBVIOUS
        <3>2. tab = Table(w[p].recs) /\ tab \in [1..m -> Cell] /\ m \in Nat /\ m \in 0..m /\ TableCells <= m
            BY <1>3, <1>5, <2>2, <3>1, TableType, Sizes DEF Plain
        <3>3. \A i \in 1..TableCells : tab[m - TableCells + i] = Table(w[p].recs)[i]
            BY <3>1, <3>2
        <3>4. /\ \A k \in 1..Slots : w[p].recs[k].kind = "rec" =>
                     \E x \in 1..Slots : Records(tab, m)[x] = w[p].recs[k]
              /\ Unique(Records(tab, m)) /\ Clean(tab, m)
            BY <1>3, <2>2, <3>2, <3>3, TableReads
        <3>5. ASSUME NEW e \in Entries
              PROVE  \E x \in 1..Slots : Records(tab, m)[x] = Rec(e, w[p].locs[e].off, w[p].locs[e].size, 1)
            <4>1. PICK k \in 1..Slots : w[p].recs[k] = Rec(e, w[p].locs[e].off, w[p].locs[e].size, 1)
                BY <1>3, <2>2 DEF Located
            <4>2. w[p].recs[k].kind = "rec"
                BY <4>1 DEF Rec
            <4> QED
                BY <3>4, <4>1, <4>2
        <3> QED
            BY <3>1, <3>4, <3>5 DEF Located
    <2> QED
        BY <1>4, <2>1, <2>2
<1>9. Kept(p)' /\ Listed(p)'
    <2>1. w'[p].kind = w[p].kind /\ w'[p].tail = w[p].tail /\ w'[p].ch = w[p].ch
        BY <1>7 DEF Fixed
    <2>2. Kept(p) /\ Listed(p)
        BY ClearTypes DEF Going
    <2>3. Kept(p)'
        BY <1>1, <1>6, <2>1, <2>2 DEF Kept, Past
    <2>4. Listed(p)'
        BY <1>1, <1>6, <1>7, <2>1, <2>2 DEF Listed, Writing
    <2> QED
        BY <2>3, <2>4
<1>10. Through(p)'
    <2>1. \A e \in Entries : ~Owing(p, e) /\ ~Owing(p, e)'
        <3>1. w[p].kind = "patch" => Len(w[p].ch) = 1
            BY <1>1, ClearTypes DEF Shape
        <3> QED
            BY <1>1, <1>6, <3>1 DEF Owing
    <2> QED
        BY <1>1, <1>7, <2>1, ClearTypes DEF Going, Through, Writing
<1>11. Filling(p)' /\ Laying(p)' /\ Returning(p)'
    <2>1. Filling(p)' /\ Returning(p)'
        BY <1>6 DEF Filling, Returning
    <2>2. w'[p].i = 1 /\ w'[p].i <= TableCells /\ w'[p].pos = w'[p].cursor + w'[p].i
        BY <1>2, <1>7, Sizes
    <2>3. Laid(p, w[p].i - 1)'
        BY <2>2 DEF Laid
    <2> QED
        BY <1>6, <1>7, <1>8, <2>1, <2>2, <2>3 DEF Laying
<1> QED
    BY <1>6, <1>9, <1>10, <1>11, FlowOn DEF Going, Past

LEMMA PutTableFlows == ASSUME NEW p \in Procs, Clear(p), PutTable(p) PROVE Flowing'
<1>1. /\ pc[p] = "table" /\ UNCHANGED committed /\ w[p].pos <= Cap
      /\ disk' = [disk EXCEPT ![w[p].pos] = w[p].tab[w[p].i]]
      /\ pc'[p] = IF w[p].i = TableCells THEN "setlen" ELSE "table"
    BY ClearTypes DEF PutTable, Write, Goto, TypeOK
<1>2. /\ w[p].i <= TableCells /\ w[p].pos = w[p].cursor + w[p].i /\ Laid(p, w[p].i - 1)
      /\ Clean(w[p].tab, TableCells) /\ Located(Records(w[p].tab, TableCells), w[p].locs)
    BY <1>1, ClearTypes DEF Going, Laying
<1>3. w[p].i \in Nat \ {0} /\ w[p].cursor \in Nat /\ w[p].locs \in [Entries -> Loc] /\ TableCells \in Nat
    BY ClearTypes DEF Work
<1>4. /\ Fixed(p) /\ Settled(p) /\ w'[p].pos = w[p].pos + 1 /\ w'[p].i = w[p].i + 1
    BY ClearTypes, CellFields
<1>5. Kept(p)' /\ Listed(p)'
    <2>1. Kept(p) /\ Listed(p)
        BY ClearTypes DEF Going
    <2>2. Kept(p)'
        BY <1>1, <1>4, <2>1 DEF Kept, Past, Fixed
    <2>3. Listed(p)'
        BY <1>1, <1>4, <2>1 DEF Listed, Writing, Fixed, Settled
    <2> QED
        BY <2>2, <2>3
<1>6. Through(p)'
    <2> SUFFICES ASSUME NEW e \in Entries PROVE ~Owing(p, e)' /\ Paid(disk', w[p].cursor, w[p].locs[e], e)
        BY <1>4 DEF Through, Settled
    <2>1. Paid(disk, w[p].cursor, w[p].locs[e], e)
        BY <1>1, ClearTypes DEF Going, Through, Writing, Owing
    <2>2. w[p].pos > w[p].cursor /\ w[p].locs[e] \in Loc
        BY <1>2, <1>3
    <2>3. Paid(disk', w[p].cursor, w[p].locs[e], e)
        <3>1. PICK x, cell : x = w[p].pos /\ cell = w[p].tab[w[p].i]
            OBVIOUS
        <3>2. x > w[p].cursor /\ w[p].cursor <= w[p].cursor /\ disk' = [disk EXCEPT ![x] = cell]
            BY <1>1, <1>3, <2>2, <3>1
        <3> QED
            BY <1>3, <2>1, <2>2, <3>2, PaidStays, ClearTypes
    <2> QED
        BY <1>1, <2>3 DEF Owing
<1>7. ASSUME NEW y \in 1..w[p].i PROVE disk'[w[p].cursor + y] = w[p].tab[y]
    <2>1. CASE y = w[p].i
        BY <1>1, <1>2, <1>3, <2>1, ClearTypes
    <2>2. CASE y # w[p].i
        <3>1. y \in 1..(w[p].i - 1) /\ w[p].cursor + y # w[p].pos
            BY <1>2, <1>3, <2>2
        <3>2. disk'[w[p].cursor + y] = disk[w[p].cursor + y]
            BY <1>1, <3>1, ClearTypes
        <3> QED
            BY <1>2, <3>1, <3>2 DEF Laid
    <2> QED
        BY <2>1, <2>2
<1>8. Laying(p)'
    <2>1. w'[p].tab = w[p].tab /\ w'[p].cursor = w[p].cursor /\ w'[p].locs = w[p].locs
        BY <1>4 DEF Settled
    <2>2. CASE w[p].i = TableCells
        <3>1. w'[p].pos = w'[p].cursor + TableCells + 1 /\ Laid(p, TableCells)'
            BY <1>2, <1>3, <1>4, <1>7, <2>1, <2>2 DEF Laid
        <3> QED
            BY <1>1, <1>2, <2>1, <2>2, <3>1 DEF Laying
    <2>3. CASE w[p].i # TableCells
        <3>1. w'[p].i <= TableCells /\ w'[p].pos = w'[p].cursor + w'[p].i /\ w'[p].i - 1 = w[p].i
            BY <1>2, <1>3, <1>4, <2>1, <2>3
        <3>2. \A y \in 1..(w'[p].i - 1) : disk'[w'[p].cursor + y] = w'[p].tab[y]
            BY <1>7, <2>1, <3>1
        <3> QED
            BY <1>1, <1>2, <2>1, <2>3, <3>1, <3>2 DEF Laying, Laid
    <2> QED
        BY <2>2, <2>3
<1>9. Filling(p)' /\ Returning(p)' /\ Past(p)'
    BY <1>1 DEF Filling, Returning, Past
<1> QED
    BY <1>5, <1>6, <1>8, <1>9, FlowOn DEF Going

LEMMA SetLenFlows == ASSUME NEW p \in Procs, Clear(p), SetLen(p) PROVE Flowing'
<1>1. /\ pc[p] = "setlen" /\ UNCHANGED <<disk, committed, w>> /\ pc'[p] = "verify" /\ len' = w[p].pos - 1
    BY ClearTypes DEF SetLen, Goto, TypeOK
<1>2. w[p].pos = w[p].cursor + TableCells + 1 /\ Laid(p, TableCells) /\ w[p].cursor \in Nat
      /\ Clean(w[p].tab, TableCells) /\ Located(Records(w[p].tab, TableCells), w[p].locs)
    BY <1>1, ClearTypes DEF Going, Laying, Work
<1>3. Kept(p)' /\ Listed(p)'
    BY <1>1, ClearTypes DEF Going, Kept, Listed, Past, Writing
<1>4. Through(p)'
    BY <1>1, ClearTypes DEF Going, Through, Owing, Writing
<1>5. Filling(p)' /\ Returning(p)' /\ Past(p)'
    BY <1>1 DEF Filling, Returning, Past
<1>6. len' = w[p].cursor + TableCells
    BY <1>1, <1>2, Sizes
<1>7. Laying(p)'
    BY <1>1, <1>2, <1>6 DEF Laying, Laid
<1> QED
    BY <1>3, <1>4, <1>5, <1>7, FlowOn DEF Going

\* What is in the archive when the caller verifies it.
LEMMA WrittenServes ==
    ASSUME NEW p \in Procs, Clear(p), pc[p] = "verify"
    PROVE  Serves(disk, len, w[p].locs) /\ Clean(disk, len) /\ Unique(Records(disk, len))
<1>1. /\ len = w[p].cursor + TableCells /\ Laid(p, TableCells) /\ w[p].cursor \in Nat
      /\ Clean(w[p].tab, TableCells) /\ Located(Records(w[p].tab, TableCells), w[p].locs)
    BY ClearTypes DEF Going, Laying, Work
<1>2. PICK t : t = w[p].tab
    OBVIOUS
<1>3. PICK m : m = TableCells
    OBVIOUS
<1>4. t \in [1..m -> Cell] /\ m \in Nat /\ m \in 0..m /\ TableCells <= m
    BY SMTT(30), <1>2, <1>3, Sizes, ClearTypes DEF Work
<1>5. \A i \in 1..TableCells : t[m - TableCells + i] = disk[len - TableCells + i]
    <2> SUFFICES ASSUME NEW i \in 1..TableCells PROVE t[m - TableCells + i] = disk[len - TableCells + i]
        OBVIOUS
    <2>1. m - TableCells + i = i /\ len - TableCells + i = w[p].cursor + i
        BY <1>1, <1>3, Sizes
    <2> QED
        BY <1>1, <1>2, <2>1 DEF Laid
<1>6. Records(t, m) = Records(disk, len) /\ (Clean(t, m) => Clean(disk, len))
    BY <1>4, <1>5, ClearTypes, TableShift
<1>7. Located(Records(disk, len), w[p].locs) /\ Clean(disk, len)
    BY <1>1, <1>2, <1>3, <1>6
<1>8. len - TableCells = w[p].cursor
    BY <1>1, Sizes
<1>9. \A e \in Entries : Paid(disk, len - TableCells, w[p].locs[e], e)
    BY <1>8, ClearTypes DEF Going, Through, Writing, Owing
<1> QED
    BY <1>7, <1>9, ServesParts DEF Located

LEMMA VerifyFlows == ASSUME NEW p \in Procs, Clear(p), Verify(p) PROVE Flowing'
<1>1. pc[p] = "verify" /\ UNCHANGED <<disk, len>> /\ pc'[p] = "idle" /\ Settle(p)
    BY ClearTypes DEF Verify, Return, Goto, TypeOK
<1>2. Holding(p) /\ owner = p
    BY <1>1 DEF Holding, Clear, IInv, WorkOK
<1>3. w[p].locs \in [Entries -> Loc]
    BY ClearTypes DEF Work
<1>4. \A e \in Entries : (\A k \in 1..Len(w[p].ch) : w[p].ch[k] # e) => w[p].locs[e] = committed[e]
    BY <1>1, ClearTypes DEF Going, Listed, Writing
<1>5. Merged(p) = w[p].locs
    BY <1>3, <1>4 DEF Merged
<1>6. Serves(disk, len, w[p].locs) /\ Clean(disk, len)
    BY <1>1, WrittenServes
<1>7. committed' = w[p].locs
    BY <1>1, <1>2, <1>5, <1>6 DEF Settle
<1>8. Sound'
    BY <1>1, <1>6, <1>7 DEF Sound
<1>9. ~Past(p)'
    BY <1>1 DEF Past
<1> QED
    BY <1>2, <1>8, <1>9, FlowStop

\* The write goes over to putting the tail back: the volume is full.
LEMMA WriteFailsFlows == ASSUME NEW p \in Procs, Clear(p), WriteFails(p) PROVE Flowing'
<1>1. pc[p] \in {"blob", "table"} /\ w[p].pos > Cap /\ UNCHANGED <<disk, len>>
    BY NoFault DEF WriteFails, WriteError
<1>2. w[p].kind = "inplace"
    <2>1. w[p].kind # "patch"
        <3> SUFFICES ASSUME w[p].kind = "patch" PROVE FALSE
            OBVIOUS
        <3>1. w[p].pos <= Cap
            BY <1>1 DEF Clear, PatchesFit
        <3>2. w[p].pos \in Nat /\ Cap \in Nat
            BY ClearTypes DEF Work
        <3> QED
            BY <1>1, <3>1, <3>2
    <2> QED
        BY <2>1, ClearTypes DEF Work
<1>3. pc'[p] = "roll" /\ UNCHANGED committed /\ w' = [w EXCEPT ![p].i = 1, ![p].pos = w[p].start + 1]
    BY <1>2, ClearTypes DEF WriteFails, Goto, TypeOK
<1>4. Fixed(p) /\ Settled(p) /\ w'[p].pos = w[p].start + 1 /\ w'[p].i = 1
    BY <1>3, ClearTypes, RewindFields
<1>5. Kept(p)'
    BY <1>1, <1>3, <1>4, ClearTypes DEF Going, Kept, Past, Fixed
<1>6. Listed(p)' /\ Through(p)' /\ Filling(p)' /\ Laying(p)' /\ Past(p)'
    BY <1>3 DEF Listed, Through, Filling, Laying, Writing, Past
<1>7. Returning(p)'
    <2>1. w'[p].i <= TableCells /\ w'[p].pos = w'[p].start + w'[p].i
        BY <1>4, Sizes DEF Fixed
    <2>2. \A y \in 1..(w'[p].i - 1) : disk'[w'[p].start + y] = w'[p].tail[y]
        BY <1>4
    <2> QED
        BY <1>3, <2>1, <2>2 DEF Returning, Returned
<1> QED
    BY <1>5, <1>6, <1>7, FlowOn DEF Going

LEMMA PutBackFlows == ASSUME NEW p \in Procs, Clear(p), PutBack(p) PROVE Flowing'
<1>1. pc[p] = "roll"
    <2>1. pc[p] \in {"roll", "undo"}
        BY DEF PutBack
    <2> QED
        BY <2>1, ClearTypes DEF Going, Returning
<1>2. /\ UNCHANGED committed /\ disk' = [disk EXCEPT ![w[p].pos] = w[p].tail[w[p].i]]
      /\ w[p].pos <= Cap /\ pc'[p] = IF w[p].i < TableCells THEN "roll" ELSE "rolllen"
    BY <1>1, ClearTypes DEF PutBack, Write, Goto, TypeOK
<1>3. w[p].i <= TableCells /\ w[p].pos = w[p].start + w[p].i /\ Returned(p, w[p].i - 1)
    BY <1>1, ClearTypes DEF Going, Returning
<1>4. w[p].i \in Nat \ {0} /\ w[p].start \in Nat /\ TableCells \in Nat
    BY ClearTypes DEF Work
<1>5. Fixed(p) /\ w'[p].pos = w[p].pos + 1 /\ w'[p].i = w[p].i + 1
    BY ClearTypes, CellFields
<1>6. ASSUME NEW y \in 1..w[p].i PROVE disk'[w[p].start + y] = w[p].tail[y]
    <2>1. CASE y = w[p].i
        BY <1>2, <1>3, <1>4, <2>1, ClearTypes
    <2>2. CASE y # w[p].i
        <3>1. y \in 1..(w[p].i - 1) /\ w[p].start + y # w[p].pos
            BY <1>3, <1>4, <2>2
        <3>2. disk'[w[p].start + y] = disk[w[p].start + y]
            BY <1>2, <3>1, ClearTypes
        <3> QED
            BY <1>3, <3>1, <3>2 DEF Returned
    <2> QED
        BY <2>1, <2>2
<1>7. Kept(p)'
    BY <1>1, <1>2, <1>5, ClearTypes DEF Going, Kept, Past, Fixed
<1>8. Listed(p)' /\ Through(p)' /\ Filling(p)' /\ Laying(p)' /\ Past(p)'
    BY <1>2 DEF Listed, Through, Filling, Laying, Writing, Past
<1>9. Returning(p)'
    <2>1. w'[p].start = w[p].start /\ w'[p].tail = w[p].tail
        BY <1>5 DEF Fixed
    <2>2. CASE w[p].i < TableCells
        <3>1. w'[p].i <= TableCells /\ w'[p].pos = w'[p].start + w'[p].i /\ w'[p].i - 1 = w[p].i
            BY <1>3, <1>4, <1>5, <2>1, <2>2
        <3>2. \A y \in 1..(w'[p].i - 1) : disk'[w'[p].start + y] = w'[p].tail[y]
            BY <1>6, <2>1, <3>1
        <3> QED
            BY <1>2, <2>2, <3>1, <3>2 DEF Returning, Returned
    <2>3. CASE ~(w[p].i < TableCells)
        <3>1. w[p].i = TableCells
            BY <1>3, <1>4, <2>3
        <3> QED
            BY <1>2, <1>6, <2>1, <2>3, <3>1 DEF Returning, Returned
    <2> QED
        BY <2>2, <2>3
<1> QED
    BY <1>7, <1>8, <1>9, FlowOn DEF Going

LEMMA CutBackFlows == ASSUME NEW p \in Procs, Clear(p), CutBack(p) PROVE Flowing'
<1>1. pc[p] = "rolllen"
    <2>1. pc[p] \in {"rolllen", "undolen"}
        BY DEF CutBack
    <2> QED
        BY <2>1, ClearTypes DEF Going, Returning
<1>2. UNCHANGED <<disk, committed>> /\ len' = w[p].orig /\ pc'[p] = "idle"
    BY NoFault, ClearTypes DEF CutBack, Return, Goto, TypeOK
<1>3. /\ Holding(p) /\ w[p].kind = "inplace" /\ w[p].orig = w[p].start + TableCells
      /\ Floor(w[p].start) /\ w[p].start \in Nat /\ w[p].start + TableCells <= len
    BY <1>1, ClearTypes DEF Clear, IInv, WorkOK, Holding, Past, Undoing, Work
<1>4. /\ Clean(w[p].tail, TableCells) /\ Located(Records(w[p].tail, TableCells), committed)
      /\ Returned(p, TableCells)
    BY <1>1, <1>3, ClearTypes DEF Going, Kept, Past, Returning
<1>5. PICK n : n = w[p].orig
    OBVIOUS
<1>6. PICK t : t = w[p].tail
    OBVIOUS
<1>7. PICK m : m = TableCells
    OBVIOUS
<1>8. /\ t \in [1..m -> Cell] /\ m \in Nat /\ m \in 0..m /\ TableCells <= m
      /\ n \in 0..Cap /\ TableCells <= n /\ n - TableCells = w[p].start
    BY SMTT(30), <1>3, <1>5, <1>6, <1>7, Sizes, ClearTypes DEF Work
<1>9. \A i \in 1..TableCells : t[m - TableCells + i] = disk[n - TableCells + i]
    <2> SUFFICES ASSUME NEW i \in 1..TableCells PROVE t[m - TableCells + i] = disk[n - TableCells + i]
        OBVIOUS
    <2>1. m - TableCells + i = i
        BY <1>7, Sizes
    <2> QED
        BY <1>4, <1>6, <1>8, <2>1 DEF Returned
<1>10. Records(t, m) = Records(disk, n) /\ (Clean(t, m) => Clean(disk, n))
    BY <1>8, <1>9, ClearTypes, TableShift
<1>11. Located(Records(disk, n), committed) /\ Clean(disk, n)
    BY <1>4, <1>6, <1>7, <1>10
<1>12. \A e \in Entries : Paid(disk, n - TableCells, committed[e], e)
    BY <1>3, <1>8 DEF Paid, Floor, Clear, IInv, DataKept
<1>13. Serves(disk, n, committed)
    BY <1>11, <1>12, ServesParts
<1>14. Sound'
    BY <1>2, <1>5, <1>11, <1>13 DEF Sound
<1>15. ~Past(p)'
    BY <1>2 DEF Past
<1> QED
    BY <1>3, <1>14, <1>15, FlowStop

\* No step that needs a failed file operation happens.
LEMMA TroubleFlows == ASSUME NEW p \in Procs, Clear(p) PROVE ~Trouble(p)
<1>1. ~VerifyFails(p)
    BY NoFault, WrittenServes DEF VerifyFails
<1> QED
    BY <1>1, NoFault DEF Trouble, SaveFails, PutBackFails, Crash

LEMMA StepFlows == ASSUME NEW p \in Procs, Clear(p) PROVE Flowing'
<1>1. CASE Call(p) \/ Lock(p) \/ LockTimeout(p) \/ Refuse(p)
    <2>1. /\ UNCHANGED <<disk, len, committed>>
          /\ pc[p] \in {"idle", "lock", "read"} /\ pc'[p] \in {"idle", "lock", "read"}
        BY <1>1, ClearTypes DEF Call, Lock, LockTimeout, Refuse, Return, Goto, TypeOK
    <2> QED
        BY <2>1, FlowQuiet DEF Past
<1>2. ~Trouble(p)
    BY TroubleFlows
<1>3. CASE ReadInplace(p) \/ ReadPatch(p) \/ SaveTail(p) \/ PutBlob(p) \/ BuildTable(p)
    BY <1>3, ReadInplaceFlows, ReadPatchFlows, SaveTailFlows, PutBlobFlows, BuildTableFlows
<1>4. CASE PutTable(p) \/ SetLen(p) \/ Verify(p) \/ PutBack(p) \/ CutBack(p) \/ WriteFails(p)
    BY <1>4, PutTableFlows, SetLenFlows, VerifyFlows, PutBackFlows, CutBackFlows, WriteFailsFlows
<1> QED
    BY <1>1, <1>2, <1>3, <1>4 DEF Clear, Step

-----------------------------------------------------------------------------
(* The shape of the locals *)

LEMMA CallFields ==
    ASSUME TypeOK, NEW p \in Procs, Call(p)
    PROVE  /\ w'[p].j = 1 /\ w'[p].i = 1 /\ pc'[p] = "lock"
           /\ IF w'[p].kind = "inplace" THEN w'[p].size = BlobCells ELSE Len(w'[p].ch) = 1
<1>1. pc'[p] = "lock"
    BY DEF Call, Goto, TypeOK
<1>2. CASE \E ch \in InplaceWrites :
             w' = [w EXCEPT ![p] = [IdleWork EXCEPT !.kind = "inplace", !.ch = ch,
                                                    !.v = calls + 1, !.size = BlobCells]]
    <2>1. PICK ch : w' = [w EXCEPT ![p] = [IdleWork EXCEPT !.kind = "inplace", !.ch = ch,
                                                    !.v = calls + 1, !.size = BlobCells]]
        BY <1>2
    <2>2. w'[p] = [IdleWork EXCEPT !.kind = "inplace", !.ch = ch, !.v = calls + 1, !.size = BlobCells]
        BY <2>1 DEF TypeOK
    <2>3. w'[p].j = 1 /\ w'[p].i = 1 /\ w'[p].kind = "inplace" /\ w'[p].size = BlobCells
        BY <2>2 DEF IdleWork
    <2> QED
        BY <1>1, <2>3
<1>3. CASE \E e \in PatchWrites, size \in {0, BlobCells} :
             w' = [w EXCEPT ![p] = [IdleWork EXCEPT !.kind = "patch", !.ch = <<e>>,
                                                    !.v = calls + 1, !.size = size]]
    <2>1. PICK e, size : w' = [w EXCEPT ![p] = [IdleWork EXCEPT !.kind = "patch", !.ch = <<e>>,
                                                    !.v = calls + 1, !.size = size]]
        BY <1>3
    <2>2. w'[p] = [IdleWork EXCEPT !.kind = "patch", !.ch = <<e>>, !.v = calls + 1, !.size = size]
        BY <2>1 DEF TypeOK
    <2>3. w'[p].j = 1 /\ w'[p].i = 1 /\ w'[p].kind = "patch" /\ w'[p].ch = <<e>>
        BY <2>2 DEF IdleWork
    <2> QED
        BY <1>1, <2>3
<1> QED
    BY <1>2, <1>3 DEF Call

LEMMA ShapeStep ==
    ASSUME IInv, NEW p \in Procs, Shape(p), [Next]_vars
    PROVE  Shape(p)'
<1>0. TypeOK
    BY DEF IInv
<1>1. CASE UNCHANGED vars
    BY <1>1 DEF vars, Shape
<1>2. ASSUME NEW q \in Procs, q # p, Call(q) \/ Step(q) \/ Trouble(q)
      PROVE  Shape(p)'
    BY <1>0, <1>2, OthersKeep DEF Shape
<1>3. CASE Call(p)
    BY <1>0, <1>3, CallFields DEF Shape
<1>4. CASE LockTimeout(p) \/ Refuse(p) \/ SaveFails(p) \/ Crash(p)
    <2>1. pc'[p] = "idle"
        BY <1>0, <1>4 DEF LockTimeout, Refuse, SaveFails, Crash, Return, Goto, TypeOK
    <2> QED
        BY <2>1 DEF Shape
<1>5. CASE Lock(p) \/ SaveTail(p)
    <2>1. UNCHANGED w /\ pc[p] \in {"lock", "save"} /\ pc'[p] \in {"read", "save", "blob"}
        BY <1>0, <1>5 DEF Lock, SaveTail, Goto, TypeOK
    <2> QED
        BY <2>1 DEF Shape
<1>6. CASE ReadInplace(p)
    <2>1. w'[p].kind = "inplace" /\ w'[p].size = w[p].size /\ w'[p].i = w[p].i /\ w'[p].j = w[p].j
        BY <1>0, <1>6, ReadFields
    <2>2. pc[p] = "read" /\ w[p].kind = "inplace"
        BY <1>6 DEF ReadInplace
    <2> QED
        BY <2>1, <2>2 DEF Shape
<1>7. CASE ReadPatch(p)
    <2>1. w'[p].kind = "patch" /\ w'[p].ch = w[p].ch /\ pc'[p] \in {"table", "blob"}
        BY <1>0, <1>7, PatchFields
    <2>2. pc[p] = "read" /\ w[p].kind = "patch"
        BY <1>7 DEF ReadPatch
    <2> QED
        BY <2>1, <2>2 DEF Shape
<1>8. CASE \/ PutBlob(p) \/ BuildTable(p) \/ PutTable(p) \/ SetLen(p) \/ WriteFails(p)
           \/ Verify(p) \/ VerifyFails(p) \/ PutBack(p) \/ PutBackFails(p) \/ CutBack(p)
    <2>1. /\ pc[p] \notin {"idle", "lock", "read", "save"} /\ pc'[p] \notin {"lock", "read", "save"}
          /\ Holding(p)' => Fixed(p)
        BY <1>8, KeepsCopy
    <2> QED
        BY <2>1 DEF Shape, Holding, Fixed
<1> QED
    BY <1>1, <1>2, <1>3, <1>4, <1>5, <1>6, <1>7, <1>8 DEF Next, Step, Trouble

\* A step fails at most one file operation.
LEMMA FaultsGrow ==
    ASSUME IInv, NEW p \in Procs, Call(p) \/ Step(p) \/ Trouble(p)
    PROVE  faults \in Nat /\ (faults' = faults \/ faults' = faults + 1)
<1>1. faults \in Nat
    BY SizesAssumption DEF IInv, TypeOK
<1>2. CASE Call(p) \/ Lock(p) \/ LockTimeout(p) \/ Refuse(p) \/ ReadInplace(p) \/ ReadPatch(p)
    BY <1>1, <1>2 DEF Call, Lock, LockTimeout, Refuse, ReadInplace, ReadPatch, Fault
<1>3. CASE SaveTail(p) \/ PutBlob(p) \/ BuildTable(p) \/ PutTable(p) \/ SetLen(p)
    BY <1>1, <1>3 DEF SaveTail, PutBlob, BuildTable, PutTable, SetLen
<1>4. CASE Verify(p) \/ PutBack(p) \/ CutBack(p) \/ WriteFails(p)
    BY <1>1, <1>4 DEF Verify, PutBack, CutBack, WriteFails, WriteError, Fault
<1>5. CASE Trouble(p)
    BY <1>1, <1>5 DEF Trouble, SaveFails, VerifyFails, PutBackFails, Crash, Fault
<1> QED
    BY <1>1, <1>2, <1>3, <1>4, <1>5 DEF Step

\* Nothing that has not failed before this step is disturbed by it.
LEMMA FlowingStep ==
    ASSUME IInv, IInv', Flowing, \A p \in Procs : Shape(p), PatchesFit, [Next]_vars
    PROVE  Flowing'
<1>1. CASE UNCHANGED vars
    <2>1. \A p \in Procs : Going(p) => Going(p)'
        <3> SUFFICES ASSUME NEW p \in Procs, Going(p) PROVE Going(p)'
            OBVIOUS
        <3>1. Kept(p)' /\ Listed(p)' /\ Filling(p)'
            BY <1>1 DEF vars, Going, Kept, Listed, Filling, Past, Writing
        <3>2. Through(p)'
            BY <1>1 DEF vars, Going, Through, Owing, Writing
        <3>3. Laying(p)' /\ Returning(p)'
            BY <1>1 DEF vars, Going, Laying, Laid, Returning, Returned
        <3> QED
            BY <3>1, <3>2, <3>3 DEF Going
    <2>2. (\A p \in Procs : ~Past(p)') => \A p \in Procs : ~Past(p)
        BY <1>1 DEF vars, Past
    <2>3. Sound => Sound'
        BY <1>1 DEF vars, Sound
    <2>4. faults' = faults
        BY <1>1 DEF vars
    <2> QED
        BY <2>1, <2>2, <2>3, <2>4 DEF Flowing
<1>2. ASSUME NEW p \in Procs, Call(p) \/ Step(p) \/ Trouble(p), faults' = 0
      PROVE  Flowing'
    <2>1. faults = 0
        <3>1. faults \in Nat /\ (faults' = faults \/ faults' = faults + 1)
            BY <1>2, FaultsGrow
        <3> QED
            BY <1>2, <3>1
    <2>2. Clear(p)
        BY <1>2, <2>1 DEF Clear
    <2> QED
        BY <2>2, StepFlows
<1>3. faults' # 0 => Flowing'
    BY DEF Flowing
<1> QED
    BY <1>1, <1>2, <1>3 DEF Next

LEMMA InitFlows == Init => Flowing /\ \A p \in Procs : Shape(p)
<1> SUFFICES ASSUME Init PROVE Flowing /\ \A p \in Procs : Shape(p)
    OBVIOUS
<1>1. IInv
    BY InitInv
<1>2. \A p \in Procs : Shape(p) /\ ~Past(p)
    BY DEF Init, Shape, Past
<1>3. \A p \in Procs : Going(p)
    BY <1>2, NotPastGoing
<1>4. Plain(InitRecs)
    <2>1. \A k \in 1..Slots : InitRecs[k].kind = "rec" => InitRecs[k].e = k /\ InitRecs[k].h = 1
        BY DEF InitRecs, Rec, Gap
    <2>2. Unique(InitRecs)
        BY <2>1 DEF Unique, SlotsOf
    <2> QED
        BY <2>1, <2>2, InitRecsType DEF Plain
<1>5. disk \in [1..Cap -> Cell] /\ len \in 0..Cap /\ Cap \in Nat /\ TableCells <= len
      /\ len - TableCells = InitBase
    BY <1>1, Sizes, SizesAssumption DEF IInv, TypeOK, Init
<1>6. ASSUME NEW i \in 1..TableCells PROVE disk[len - TableCells + i] = Table(InitRecs)[i]
    <2>1. PICK c : c = InitBase + i
        OBVIOUS
    <2>2. c \in 1..Cap /\ c > InitBase /\ c <= InitBase + TableCells /\ c - InitBase = i
        BY <2>1, Sizes, SizesAssumption
    <2>3. ~ \E x \in Entries : \E y \in 1..BlobCells : c = InitLocs[x].off + y - 1
        <3> SUFFICES ASSUME NEW x \in Entries, NEW y \in 1..BlobCells, c = InitLocs[x].off + y - 1
                     PROVE  FALSE
            OBVIOUS
        <3>1. InitLocs[x].off \in Nat /\ InitLocs[x].off + BlobCells <= InitBase + 1
            BY FirstPayloads DEF Loc
        <3> QED
            BY <2>2, <3>1, Sizes, SizesAssumption
    <2>4. FirstCell(c) = Table(InitRecs)[i]
        BY <2>2, <2>3 DEF FirstCell
    <2>5. disk[c] = FirstCell(c)
        BY <2>2 DEF Init
    <2> QED
        BY <1>5, <2>1, <2>4, <2>5
<1>7. /\ \A k \in 1..Slots : InitRecs[k].kind = "rec" =>
             \E m \in 1..Slots : Records(disk, len)[m] = InitRecs[k]
      /\ Unique(Records(disk, len)) /\ Clean(disk, len)
    BY <1>4, <1>5, <1>6, TableReads
<1>8. ASSUME NEW e \in Entries
      PROVE  \E k \in 1..Slots : Records(disk, len)[k] = Rec(e, committed[e].off, committed[e].size, 1)
    <2>1. e \in 1..Slots
        BY EntriesAssumption, SizesAssumption DEF Entries
    <2>2. InitRecs[e] = Rec(e, committed[e].off, committed[e].size, 1)
        BY <2>1 DEF InitRecs, Init, InitLocs
    <2>3. InitRecs[e].kind = "rec"
        BY <2>2 DEF Rec
    <2> QED
        BY <1>7, <2>1, <2>2, <2>3
<1>9. \A e \in Entries : Paid(disk, len - TableCells, committed[e], e)
    BY <1>1 DEF Paid, IInv, Floor, DataKept
<1>10. Serves(disk, len, committed)
    BY <1>7, <1>8, <1>9, ServesParts DEF Located
<1> QED
    BY <1>2, <1>3, <1>7, <1>10 DEF Flowing, Sound

\* With no failed file operation, and no penalty write that met a full volume, an archive nobody
\* is writing serves every entry, and exactly what the last write that took effect left.
THEOREM QuietServesAlways == Spec /\ []PatchesFit => []QuietServes
<1> DEFINE QInv == IInv /\ Flowing /\ \A p \in Procs : Shape(p)
<1>1. Init => QInv
    BY InitInv, InitFlows
<1>2. QInv /\ PatchesFit /\ [Next]_vars => QInv'
    BY StepInv, FlowingStep, ShapeStep
<1>3. QInv => QuietServes
    BY DEF Flowing, Sound, QuietServes, Past, Holding
<1> QED
    BY <1>1, <1>2, <1>3, PTL DEF Spec

-----------------------------------------------------------------------------
(* find_entry answers right for a table of any size, any hash function and  *)
(* any paths.                                                               *)

\* What the two searches and the walk have ruled out so far.
Counting ==
    phase = "count" => \A i \in Index : (i < lo => Id(i) # 0) /\ (i >= hi => Id(i) = 0)

Counted ==
    phase # "count" => \A i \in Index : Id(i) # 0 <=> i < count

Bounding ==
    phase = "bound" =>
        /\ hi <= count
        /\ \A i \in Index : i < lo => Id(i) < Hash[want]
        /\ \A i \in Index : i >= hi /\ i < count => Id(i) >= Hash[want]

Walking ==
    phase = "walk" =>
        /\ lo <= count
        /\ \A i \in Index : i < lo => ~Match(i)
        /\ \A i \in Index : i >= lo /\ i < count => Id(i) >= Hash[want]

FindInv == FindTypeOK /\ Built(table) /\ Counting /\ Counted /\ Bounding /\ Walking /\ Correct

\* The middle of a range that is not empty lies in it.
LEMMA MiddleInside ==
    ASSUME NEW x \in Nat, NEW y \in Nat, x < y
    PROVE  /\ (x + y) \div 2 \in Nat
           /\ x <= (x + y) \div 2 /\ (x + y) \div 2 < y
  OBVIOUS

\* Ids are numbers; among the records of a built table they only grow.
LEMMA IdsGrow ==
    ASSUME FindTypeOK, Built(table)
    PROVE  /\ \A i \in Index : Id(i) \in Nat
           /\ \A i, j \in Index : i < j => (Id(i) = 0 => Id(j) = 0)
           /\ \A i, j \in Index : i < j /\ Id(j) # 0 => Id(i) <= Id(j)
  <1>1. \A i \in Index : table[i] \in Names \cup {Blank}
    BY DEF FindTypeOK
  <1>2. \A n \in Names : Hash[n] \in Nat \ {0}
    BY TableAssumption
  <1>3. \A i \in Index : Id(i) \in Nat /\ (Id(i) = 0 <=> table[i] = Blank)
    BY <1>1, <1>2 DEF Id
  <1>4. ASSUME NEW i \in Index, NEW j \in Index, i < j
        PROVE  /\ Id(i) = 0 => Id(j) = 0
               /\ Id(j) # 0 => Id(i) <= Id(j)
    BY <1>3, <1>4 DEF Built, Id
  <1> QED
    BY <1>3, <1>4

THEOREM FindInitHolds == FindInit => FindInv
  BY TableAssumption DEF FindInit, FindInv, FindTypeOK, Counting, Counted, Bounding, Walking, Correct, Index, NotFound

LEMMA CountHolds ==
    ASSUME FindInv, Count PROVE FindInv'
  <1> USE DEF FindInv
  <1>1. /\ phase = "count" /\ UNCHANGED <<table, want, result>>
        /\ lo \in Nat /\ hi \in Nat /\ lo <= hi /\ hi <= Buckets /\ Buckets \in Nat
    BY TableAssumption DEF Count, FindTypeOK
  <1>2. \A i : Id(i)' = Id(i)
    BY <1>1 DEF Id
  <1>3. Built(table)'
    BY <1>1 DEF Built
  <1>4. CASE lo < hi
    <2>1. Mid \in Index /\ lo <= Mid /\ Mid < hi
      BY <1>1, <1>4, MiddleInside DEF Mid, Index
    <2>2. phase' = "count" /\ count' = count
      BY <1>1, <1>4 DEF Count
    <2>3. CASE Id(Mid) # 0
      <3>1. lo' = Mid + 1 /\ hi' = hi
        BY <1>4, <2>3 DEF Count
      <3>2. \A i \in Index : i < Mid => Id(i) # 0
        BY <2>1, <2>3, IdsGrow
      <3>3. Counting'
        BY <1>1, <1>2, <2>1, <2>3, <3>1, <3>2 DEF Counting, Index
      <3> QED
        BY <1>1, <1>3, <2>1, <2>2, <3>1, <3>3
        DEF FindTypeOK, Counted, Bounding, Walking, Correct, Index
    <2>4. CASE Id(Mid) = 0
      <3>1. hi' = Mid /\ lo' = lo
        BY <1>4, <2>4 DEF Count
      <3>2. \A i \in Index : i > Mid => Id(i) = 0
        BY <2>1, <2>4, IdsGrow DEF Index
      <3>3. Counting'
        BY <1>1, <1>2, <2>1, <2>4, <3>1, <3>2 DEF Counting, Index
      <3> QED
        BY <1>1, <1>3, <2>1, <2>2, <3>1, <3>3
        DEF FindTypeOK, Counted, Bounding, Walking, Correct, Index
    <2> QED
      BY <2>3, <2>4
  <1>5. CASE ~(lo < hi)
    <2>1. phase' = "bound" /\ count' = lo /\ lo' = 0 /\ hi' = lo
      BY <1>1, <1>5 DEF Count
    <2>2. \A i \in Index : Id(i) # 0 <=> i < lo
      BY <1>1, <1>5 DEF Counting, Index
    <2>3. Counted' /\ Bounding'
      BY <1>1, <1>2, <2>1, <2>2 DEF Counted, Bounding, Index
    <2> QED
      BY <1>1, <1>3, <2>1, <2>3 DEF FindTypeOK, Counting, Walking, Correct, Index
  <1> QED
    BY <1>4, <1>5

LEMMA BoundHolds ==
    ASSUME FindInv, Bound PROVE FindInv'
  <1> USE DEF FindInv
  <1>1. /\ phase = "bound" /\ UNCHANGED <<table, want, count, result>>
        /\ lo \in Nat /\ hi \in Nat /\ lo <= hi /\ hi <= count
        /\ count \in Nat /\ count <= Buckets /\ Buckets \in Nat
    BY TableAssumption DEF Bound, FindTypeOK, Bounding
  <1>2. \A i : Id(i)' = Id(i)
    BY <1>1 DEF Id
  <1>3. Built(table)' /\ Hash[want] \in Nat \ {0}
    BY <1>1, TableAssumption DEF Built, FindTypeOK
  <1>4. \A i : Match(i)' = Match(i)
    BY <1>1, <1>2 DEF Match
  <1>5. CASE lo < hi
    <2>1. Mid \in Index /\ lo <= Mid /\ Mid < hi
      BY <1>1, <1>5, MiddleInside DEF Mid, Index
    <2>2. phase' = "bound"
      BY <1>1, <1>5 DEF Bound
    <2>3. Id(Mid) # 0
      BY <1>1, <2>1 DEF Counted, Index
    <2>4. CASE Id(Mid) < Hash[want]
      <3>1. lo' = Mid + 1 /\ hi' = hi
        BY <1>5, <2>4 DEF Bound
      <3>2. \A i \in Index : i < Mid => Id(i) < Hash[want]
        BY <1>3, <2>1, <2>3, <2>4, IdsGrow DEF Index
      <3>3. Bounding'
        BY <1>1, <1>2, <2>1, <2>4, <3>1, <3>2 DEF Bounding, Index
      <3> QED
        BY <1>1, <1>2, <1>3, <2>1, <2>2, <3>1, <3>3
        DEF FindTypeOK, Counting, Counted, Walking, Correct, Index
    <2>5. CASE ~(Id(Mid) < Hash[want])
      <3>1. hi' = Mid /\ lo' = lo
        BY <1>5, <2>5 DEF Bound
      <3>2. \A i \in Index : i >= Mid /\ i < count => Id(i) >= Hash[want]
        <4>1. SUFFICES ASSUME NEW i \in Index, i >= Mid, i < count PROVE Id(i) >= Hash[want]
          OBVIOUS
        <4>2. Id(i) # 0 /\ Id(i) \in Nat /\ Id(Mid) \in Nat
          BY <1>1, <2>1, <4>1, IdsGrow DEF Counted
        <4>3. Id(Mid) <= Id(i)
          BY <2>1, <4>1, <4>2, IdsGrow DEF Index
        <4> QED
          BY <1>3, <2>5, <4>2, <4>3
      <3>3. Bounding'
        BY <1>1, <1>2, <2>1, <3>1, <3>2 DEF Bounding, Index
      <3> QED
        BY <1>1, <1>2, <1>3, <2>1, <2>2, <3>1, <3>3
        DEF FindTypeOK, Counting, Counted, Walking, Correct, Index
    <2> QED
      BY <2>4, <2>5
  <1>6. CASE ~(lo < hi)
    <2>1. phase' = "walk" /\ lo' = lo /\ hi' = hi
      BY <1>1, <1>6 DEF Bound
    <2>2. \A i \in Index : i < lo => ~Match(i)
      BY <1>1, <1>3, IdsGrow DEF Bounding, Match, Index
    <2>3. Walking'
      BY <1>1, <1>2, <1>4, <1>6, <2>1, <2>2 DEF Walking, Bounding, Index
    <2> QED
      BY <1>1, <1>2, <1>3, <2>1, <2>3 DEF FindTypeOK, Counting, Counted, Bounding, Correct, Index
  <1> QED
    BY <1>5, <1>6

LEMMA WalkHolds ==
    ASSUME FindInv, Walk PROVE FindInv'
  <1> USE DEF FindInv
  <1>1. /\ phase = "walk" /\ UNCHANGED <<table, want, hi, count>>
        /\ lo \in Nat /\ lo <= count /\ count \in Nat /\ count <= Buckets /\ Buckets \in Nat
    BY TableAssumption DEF Walk, FindTypeOK, Walking
  <1>2. \A i : Id(i)' = Id(i)
    BY <1>1 DEF Id
  <1>3. Built(table)' /\ Hash[want] \in Nat \ {0}
    BY <1>1, TableAssumption DEF Built, FindTypeOK
  <1>4. \A i : Match(i)' = Match(i)
    BY <1>1, <1>2 DEF Match
  <1>5. CASE lo < count /\ Id(lo) = Hash[want] /\ ~Match(lo)
    <2>1. lo' = lo + 1 /\ phase' = "walk" /\ result' = result
      BY <1>1, <1>5 DEF Walk
    <2>2. Walking'
      BY <1>1, <1>2, <1>4, <1>5, <2>1 DEF Walking, Index
    <2> QED
      BY <1>1, <1>2, <1>3, <1>5, <2>1, <2>2
      DEF FindTypeOK, Counting, Counted, Bounding, Correct, Index
  <1>6. CASE ~(lo < count /\ Id(lo) = Hash[want] /\ ~Match(lo))
    <2>1. /\ phase' = "done" /\ lo' = lo
          /\ result' = IF lo < count /\ Id(lo) = Hash[want] THEN lo ELSE NotFound
      BY <1>1, <1>6 DEF Walk
    <2>2. CASE lo < count /\ Id(lo) = Hash[want]
      <3>1. result' = lo /\ lo \in Index /\ lo # NotFound /\ Match(lo)
        BY <1>1, <1>6, <2>1, <2>2 DEF Index, NotFound
      <3>2. \A i \in Index : Match(i) => lo <= i
        BY <1>1 DEF Walking, Index
      <3>3. Correct'
        BY <1>1, <1>4, <2>1, <3>1, <3>2 DEF Correct, Index
      <3> QED
        BY <1>1, <1>2, <1>3, <2>1, <3>1, <3>3
        DEF FindTypeOK, Counting, Counted, Bounding, Walking
    <2>3. CASE ~(lo < count /\ Id(lo) = Hash[want])
      <3>1. result' = NotFound
        BY <2>1, <2>3
      <3>2. ASSUME NEW i \in Index, Match(i) PROVE FALSE
        <4>1. Id(i) = Hash[want] /\ i >= lo
          BY <1>1, <3>2 DEF Match, Walking, Index
        <4>2. i < count
          BY <1>1, <1>3, <4>1 DEF Counted
        <4>3. lo < count /\ lo \in Index
          BY <1>1, <4>1, <4>2 DEF Index
        <4>4. Id(lo) <= Id(i) /\ Id(lo) \in Nat
          BY <1>1, <1>3, <4>1, <4>3, IdsGrow DEF Index
        <4>5. Id(lo) >= Hash[want]
          BY <1>1, <4>3 DEF Walking
        <4> QED
          BY <1>3, <2>3, <4>1, <4>3, <4>4, <4>5
      <3>3. Correct'
        BY <1>1, <1>4, <3>1, <3>2 DEF Correct, Index
      <3> QED
        BY <1>1, <1>2, <1>3, <2>1, <3>1, <3>3
        DEF FindTypeOK, Counting, Counted, Bounding, Walking
    <2> QED
      BY <2>2, <2>3
  <1> QED
    BY <1>5, <1>6

LEMMA FindStepHolds ==
    ASSUME FindInv, [FindNext]_findVars PROVE FindInv'
  <1>1. CASE UNCHANGED findVars
    BY <1>1 DEF findVars, FindInv, FindTypeOK, Built, Counting, Counted, Bounding, Walking, Correct, Id, Match
  <1> QED
    BY <1>1, CountHolds, BoundHolds, WalkHolds DEF FindNext

\* Every bucket find_entry reads lies in the table, whatever its size.
THEOREM ReadsInside == FindSpec => []FindTypeOK
  <1>1. FindInv => FindTypeOK
    BY DEF FindInv
  <1> QED
    BY FindInitHolds, FindStepHolds, <1>1, PTL DEF FindSpec

\* What it answers is the first record of the wanted id and path, or that there is
\* none: for every table build_table writes, colliding ids included.
THEOREM FindsRight == FindSpec => []Correct
  <1>1. FindInv => Correct
    BY DEF FindInv
  <1> QED
    BY FindInitHolds, FindStepHolds, <1>1, PTL DEF FindSpec

-----------------------------------------------------------------------------
(* The edits of the server's archive *)

\* The steps an actor can be at.
StartSteps ==
    [kind : {"start"}, todo : SUBSET Tracks, seen : SUBSET Tracks, damage : Damages,
     track : Tracks \cup {None}, tries : {1, 2}, applied : BOOLEAN,
     pc : {"lock", "missing", "plan", "note", "write", "status", "dlock", "templates", "spawn"}]
DeploySteps ==
    [kind : {"deploy", "redeclare"}, todo : SUBSET Tracks, seen : SUBSET Tracks,
     pc : {"lock", "missing", "plan", "note", "write"}]
ToggleSteps ==
    [kind : {"off"}, pc : {"read1", "read2"}]
    \cup [kind : {"off"}, pc : {"save1", "fill1", "clear1", "read2"}, entry : {"on", "off", Torn}]
    \cup [kind : {"off"}, pc : {"save2", "fill2", "clear2"}, template : Template]
    \cup [kind : {"on"}, pc : {"put1", "put2"}]
Steps ==
    [pc : {"idle"}] \cup StartSteps \cup DeploySteps \cup ToggleSteps
    \cup [kind : {"restore"}, pc : {"lock", "compare", "copy"}]

StepsOK == op \in [Actors -> Steps]

SceneOK == scene \in [ops : Offers, faults : Nat, cut : BOOLEAN]

Backups == bak1 \in {None, "on", "off", Torn} /\ bak2 \in Template \cup {None}

Typed == EditsTypeOK /\ StepsOK /\ Backups

\* The backup is from before the first track, and there when it is counted on.
Deployed ==
    /\ WayBack
    /\ backup # None => backup.tracks = {}
    /\ \A a \in Actors : op[a].pc \in {"note", "write", "copy"} => backup # None

\* A toggle's backup is whole, or being written.
Whole1 == bak1 = "on" \/ HalfSaved("fill1")
Whole2 == (bak2 # None /\ bak2.triggers = "on") \/ HalfSaved("fill2")

\* What an archive, or a backup of it, has lost to the toggle is in the toggle's own backups.
RowsKept(archive) ==
    /\ archive.penalties # Torn /\ archive.practice.triggers # Torn
    /\ archive.penalties # "on" => Whole1
    /\ archive.practice.triggers # "on" => Whole2

\* What a toggle has read is whole, and saved when it clears the entry.
ToggleOf(a) ==
    /\ op[a].pc \in {"save1", "fill1", "clear1"} => op[a].entry = "on"
    /\ op[a].pc = "clear1" => Whole1
    /\ op[a].pc \in {"save2", "fill2", "clear2"} => op[a].template.triggers = "on"
    /\ op[a].pc = "clear2" => Whole2

Toggled ==
    ~scene.cut =>
        /\ RowsKept(arch)
        /\ backup # None => RowsKept(backup)
        /\ (bak1 # None => Whole1) /\ (bak2 # None => Whole2)
        /\ \A a \in Actors : ToggleOf(a)

EditsInv == Typed /\ Deployed /\ Toggled

\* What two steps have in common that differ for one actor only.
Others(a) == \A b \in Actors \ {a} : op'[b] = op[b]

LEMMA Moved ==
    ASSUME StepsOK, NEW a \in Actors, NEW step \in Steps, Does(a, step)
    PROVE  StepsOK' /\ Others(a) /\ op'[a] = step
  BY DEF StepsOK, Does, Others

LEMMA Went ==
    ASSUME StepsOK, NEW a \in Actors, NEW stage, Goes(a, stage)
    PROVE  /\ Others(a) /\ op'[a] = [op[a] EXCEPT !.pc = stage]
           /\ op'[a].pc = stage
  <1>1. op'[a] = [op[a] EXCEPT !.pc = stage] /\ Others(a)
    BY DEF StepsOK, Goes, Does, Others
  <1>2. op[a] \in Steps
    BY DEF StepsOK
  <1> QED
    BY <1>1, <1>2 DEF Steps, StartSteps, DeploySteps, ToggleSteps

LEMMA NotNone == None \notin Actors /\ None \notin Tracks
  BY EditsAssumption

LEMMA NoneApart == None \notin Template /\ None \notin Archives
  BY EditsAssumption DEF Template, Archives

\* The end of an edit: the lock is free again, and a start goes on.
LEMMA DoneMoves ==
    ASSUME Typed, NEW a \in Actors, NEW tracks, Done(a, tracks),
           op[a].pc \in {"lock", "missing", "plan", "write", "compare", "copy"}
    PROVE  /\ StepsOK' /\ Others(a)
           /\ op'[a].pc \in {"idle", "status", "lock"}
           /\ lock' = IF lock = a THEN None ELSE lock
  <1>1. op[a] \in Steps /\ lock' = IF lock = a THEN None ELSE lock
    BY DEF Typed, StepsOK, Done
  <1>2. CASE op[a].kind # "start"
    <2>1. Does(a, Resting) /\ Resting \in Steps
      BY <1>2 DEF Done, Resting, Steps
    <2> QED
      BY <1>1, <2>1, Moved DEF Typed, Resting
  <1>3. CASE op[a].kind = "start"
    <2>1. op[a] \in StartSteps
      BY <1>1, <1>3 DEF Steps, DeploySteps, ToggleSteps
    <2>2. CASE op[a].track \in tracks \cup {None}
      <3>1. Goes(a, "status")
        BY <1>3, <2>2 DEF Done
      <3>2. [op[a] EXCEPT !.pc = "status"] \in StartSteps
        BY <2>1 DEF StartSteps
      <3>3. Does(a, [op[a] EXCEPT !.pc = "status"]) /\ [op[a] EXCEPT !.pc = "status"] \in Steps
        BY <3>1, <3>2 DEF Goes, Steps
      <3>4. op'[a].pc = "status"
        BY <3>1, Went DEF Typed
      <3> QED
        BY <1>1, <3>3, <3>4, Moved DEF Typed
    <2>3. CASE op[a].track \notin tracks \cup {None} /\ op[a].tries = 2
      <3>1. Does(a, Repairing(op[a].damage, op[a].track, 1))
        BY <1>3, <2>3 DEF Done
      <3>2. Repairing(op[a].damage, op[a].track, 1) \in StartSteps
        BY <2>1, <2>3 DEF StartSteps, Repairing
      <3>3. Repairing(op[a].damage, op[a].track, 1).pc = "lock"
        BY DEF Repairing
      <3> QED
        BY <1>1, <3>1, <3>2, <3>3, Moved DEF Typed, Steps
    <2>4. CASE op[a].track \notin tracks \cup {None} /\ op[a].tries # 2
      <3>1. Does(a, Resting) /\ Resting \in Steps
        BY <1>3, <2>4 DEF Done, Resting, Steps
      <3> QED
        BY <1>1, <3>1, Moved DEF Typed, Resting
    <2> QED
      BY <2>2, <2>3, <2>4
  <1> QED
    BY <1>2, <1>3

\* How the lock and an actor's place under it go together.
LockSteps(a) ==
    \/ lock' = lock /\ (op'[a].pc \in UnderLock <=> op[a].pc \in UnderLock)
    \/ lock' = (IF lock = a THEN None ELSE lock) /\ op'[a].pc \notin UnderLock
    \/ lock = None /\ lock' = a /\ op'[a].pc \in UnderLock

\* The moves of one actor; what the rest of the invariant asks of them.
Moves(a) == Others(a) /\ StepsOK' /\ LockSteps(a) /\ UNCHANGED build

Counts(a) == op'[a].pc \in {"note", "write", "copy"} => backup' # None

\* The pre-track backup is made once.
Grow ==
    /\ note' \in 0..MaxUpdates \cup {None}
    /\ backup' = backup \/ (backup = None /\ backup' = arch)
    /\ bak1' \in {None, "on", "off", Torn}
    /\ bak2' \in Template \cup {None}

LEMMA OneStep ==
    ASSUME EditsInv, NEW a \in Actors, Moves(a), Counts(a), Grow, arch' \in Archives,
           arch'.tracks # {} => backup' # None, Toggled'
    PROVE  EditsInv'
  <1>1. \A b \in Actors : Holds(b)' <=> op'[b].pc \in UnderLock
    <2>1. \A b \in Actors : Holds(b) <=> op[b].pc \in UnderLock
      BY DEF EditsInv, Typed, EditsTypeOK
    <2> QED
      BY <2>1, NotNone DEF Moves, LockSteps, Others, Holds
  <1>2. backup' \in Archives \cup {None} /\ build' \in 0..MaxUpdates /\ None \notin Template
    BY NoneApart DEF EditsInv, Typed, EditsTypeOK, Grow, Moves
  <1>3. Backups'
    BY DEF Backups, Grow
  <1>4. Typed'
    BY <1>1, <1>2, <1>3 DEF Typed, EditsTypeOK, Moves, Grow
  <1>5. backup # None => backup' = backup
    BY DEF Grow
  <1>6. backup' # None => backup'.tracks = {}
    BY DEF EditsInv, Deployed, WayBack, Grow
  <1>7. Deployed'
    BY <1>5, <1>6 DEF EditsInv, Deployed, WayBack, Moves, Others, Counts
  <1> QED
    BY <1>4, <1>7 DEF EditsInv

\* What a step has to show of the toggle's backups: as long as none was cut short, those
\* that are whole stay so, and what this step takes out of the archive is in them.
LEMMA SavesToggled ==
    ASSUME EditsInv, NEW a \in Actors, Others(a),
           backup' = backup \/ (backup = None /\ backup' = arch),
           ~scene'.cut =>
               /\ ~scene.cut
               /\ (Whole1 => Whole1') /\ (Whole2 => Whole2')
               /\ (bak1' = bak1 \/ Whole1') /\ (bak2' = bak2 \/ Whole2')
               /\ ToggleOf(a)' /\ RowsKept(arch)'
    PROVE  Toggled'
  <1> SUFFICES ASSUME ~scene'.cut
               PROVE  /\ RowsKept(arch)'
                      /\ backup' # None => RowsKept(backup)'
                      /\ (bak1' # None => Whole1') /\ (bak2' # None => Whole2')
                      /\ \A b \in Actors : ToggleOf(b)'
    BY DEF Toggled
  <1>1. /\ RowsKept(arch) /\ (backup # None => RowsKept(backup))
        /\ (bak1 # None => Whole1) /\ (bak2 # None => Whole2)
        /\ \A b \in Actors : ToggleOf(b)
    BY DEF EditsInv, Toggled
  <1>2. backup' # None => RowsKept(backup)'
    BY <1>1 DEF RowsKept
  <1>3. (bak1' # None => Whole1') /\ (bak2' # None => Whole2')
    BY <1>1
  <1>4. \A b \in Actors : ToggleOf(b)'
    <2> SUFFICES ASSUME NEW b \in Actors, b # a PROVE ToggleOf(b)'
      OBVIOUS
    <2>1. op'[b] = op[b] /\ ToggleOf(b)
      BY <1>1 DEF Others
    <2> QED
      BY <2>1 DEF ToggleOf
  <1> QED
    BY <1>2, <1>3, <1>4

\* What is being written goes on being written while the one that writes it does not move.
LEMMA FillsToggled ==
    ASSUME NEW a \in Actors, Others(a)
    PROVE  /\ op[a].pc # "fill1" /\ bak1' = bak1 /\ Whole1 => Whole1'
           /\ op[a].pc # "fill2" /\ bak2' = bak2 /\ Whole2 => Whole2'
  BY DEF Others, Whole1, Whole2, HalfSaved, At

\* The triggers and penalties of the archive are those of before, or of its backup.
Toggling == {"save1", "fill1", "clear1", "save2", "fill2", "clear2"}
Like(old) == arch'.penalties = old.penalties /\ arch'.practice.triggers = old.practice.triggers

\* A step that leaves the toggle's backups alone.
LEMMA SameToggle ==
    ASSUME EditsInv, NEW a \in Actors, Others(a), UNCHANGED <<bak1, bak2>>, scene'.cut = scene.cut,
           backup' = backup \/ (backup = None /\ backup' = arch),
           op[a].pc \notin {"fill1", "fill2"}, op'[a].pc \notin Toggling,
           Like(arch) \/ (backup # None /\ Like(backup))
    PROVE  Toggled'
  <1>1. (Whole1 => Whole1') /\ (Whole2 => Whole2') /\ ToggleOf(a)'
    BY FillsToggled DEF ToggleOf, Toggling
  <1>2. ~scene.cut => RowsKept(arch)'
    BY <1>1 DEF EditsInv, Toggled, RowsKept, Like
  <1> QED
    BY <1>1, <1>2, SavesToggled

\* A step that writes no file.
LEMMA NoFile ==
    ASSUME EditsInv, NEW a \in Actors, Moves(a), UNCHANGED <<arch, files, scene>>,
           op'[a].pc \in {"note", "write", "copy"} => backup # None,
           op[a].pc \notin {"fill1", "fill2"}, op'[a].pc \notin Toggling
    PROVE  EditsInv'
  <1>1. Counts(a) /\ Grow
    BY DEF Counts, Grow, files, EditsInv, Typed, EditsTypeOK, Backups
  <1>2. arch' \in Archives /\ (arch'.tracks # {} => backup' # None)
    BY DEF files, EditsInv, Typed, EditsTypeOK, Deployed, WayBack
  <1>3. Toggled'
    BY SameToggle DEF Like, files, Moves
  <1> QED
    BY <1>1, <1>2, <1>3, OneStep

\* The kinds of step a place belongs to.
LEMMA Sites ==
    ASSUME StepsOK, NEW a \in Actors
    PROVE  /\ op[a].pc \in {"status", "dlock", "templates", "spawn"} => op[a] \in StartSteps
           /\ op[a].pc \in {"missing", "plan", "note", "write"} => op[a] \in StartSteps \cup DeploySteps
           /\ op[a].pc \in {"compare", "copy"} =>
                op[a] \in [kind : {"restore"}, pc : {"lock", "compare", "copy"}]
           /\ op[a].pc \in {"read1", "read2"} => op[a] \in ToggleSteps /\ op[a].kind = "off"
           /\ op[a].pc \in {"save1", "fill1", "clear1"} =>
                op[a] \in [kind : {"off"}, pc : {"save1", "fill1", "clear1", "read2"}, entry : {"on", "off", Torn}]
           /\ op[a].pc \in {"save2", "fill2", "clear2"} =>
                op[a] \in [kind : {"off"}, pc : {"save2", "fill2", "clear2"}, template : Template]
           /\ op[a].pc \in {"put1", "put2"} => op[a] \in [kind : {"on"}, pc : {"put1", "put2"}]
  <1>1. op[a] \in Steps
    BY DEF StepsOK
  <1> QED
    BY <1>1 DEF Steps, StartSteps, DeploySteps, ToggleSteps

LEMMA InitHolds == EditsInit => EditsInv
  <1> SUFFICES ASSUME EditsInit PROVE EditsInv
    OBVIOUS
  <1>1. PICK practice \in {100, Foreign}, race \in {100, Foreign} :
            arch = [Stock(0) EXCEPT !.practice.damage = practice, !.race = race]
    BY DEF EditsInit
  <1>2. arch \in Archives /\ arch.tracks = {} /\ arch.penalties = "on" /\ arch.practice.triggers = "on"
    <2>1. arch = [build |-> 0, tracks |-> {}, penalties |-> "on",
                  practice |-> [of |-> 0, damage |-> practice, triggers |-> "on"], race |-> race]
      BY <1>1 DEF Stock
    <2>2. [of |-> 0, damage |-> practice, triggers |-> "on"] \in Template
      BY EditsAssumption DEF Template
    <2> QED
      BY <2>1, <2>2, EditsAssumption DEF Archives
  <1>3. \A a \in Actors : op[a].pc = "idle" /\ op[a] \in Steps
    BY DEF EditsInit, Resting, Steps
  <1>4. Typed
    BY <1>2, <1>3, NotNone, EditsAssumption
    DEF EditsInit, Typed, EditsTypeOK, StepsOK, Backups, Holds, UnderLock
  <1>5. "on" # Torn
    BY EditsAssumption
  <1> QED
    BY <1>2, <1>3, <1>4, <1>5 DEF EditsInit, EditsInv, Deployed, WayBack, Toggled, RowsKept, ToggleOf

LEMMA StartHolds ==
    ASSUME EditsInv, NEW a \in Actors, Start(a)
    PROVE  EditsInv' /\ Moves(a) /\ op'[a].pc \in {"status", "lock"}
  <1>1. PICK damage \in Damages : \E track \in Tracks \cup {None} :
            Does(a, [Repairing(damage, track, 2) EXCEPT
                        !.pc = IF track \in arch.tracks \cup {None} THEN "status" ELSE "lock"])
    BY DEF Start
  <1> PICK track \in Tracks \cup {None} :
            Does(a, [Repairing(damage, track, 2) EXCEPT
                        !.pc = IF track \in arch.tracks \cup {None} THEN "status" ELSE "lock"])
    BY <1>1
  <1> DEFINE step == [Repairing(damage, track, 2) EXCEPT
                        !.pc = IF track \in arch.tracks \cup {None} THEN "status" ELSE "lock"]
  <1>2. step \in Steps /\ step.pc \in {"status", "lock"}
    BY DEF Repairing, Steps, StartSteps
  <1>3. StepsOK' /\ Others(a) /\ op'[a] = step
    BY <1>2, Moved DEF EditsInv, Typed
  <1>4. Moves(a)
    BY <1>2, <1>3 DEF Moves, LockSteps, Start, At, UnderLock
  <1> QED
    BY <1>2, <1>3, <1>4, NoFile DEF Start, At, Toggling

LEMMA EditHolds ==
    ASSUME EditsInv, NEW a \in Actors, Edit(a)
    PROVE  EditsInv' /\ Moves(a) /\ op'[a].pc \in {"lock"}
  <1>1. \E step \in Steps : Does(a, step) /\ step.pc = "lock"
    <2>1. /\ \A t \in Tracks : [kind |-> "deploy", pc |-> "lock", todo |-> {t}, seen |-> {}] \in DeploySteps
          /\ [kind |-> "redeclare", pc |-> "lock", todo |-> {}, seen |-> {}] \in DeploySteps
          /\ [kind |-> "restore", pc |-> "lock"] \in Steps
          /\ DeploySteps \subseteq Steps
      BY DEF Steps, DeploySteps
    <2> QED
      BY <2>1 DEF Edit
  <1>2. StepsOK' /\ Others(a) /\ op'[a].pc = "lock"
    BY <1>1, Moved DEF EditsInv, Typed
  <1>3. Moves(a)
    BY <1>2 DEF Moves, LockSteps, Edit, At, UnderLock
  <1> QED
    BY <1>2, <1>3, NoFile DEF Edit, At, Toggling

LEMMA ToggleHolds ==
    ASSUME EditsInv, NEW a \in Actors, Toggle(a)
    PROVE  EditsInv' /\ Moves(a) /\ op'[a].pc \in {"read1", "put1"}
  <1>1. \E step \in Steps : Does(a, step) /\ step.pc \in {"read1", "put1"}
    BY DEF Toggle, Steps, ToggleSteps
  <1>2. StepsOK' /\ Others(a) /\ op'[a].pc \in {"read1", "put1"}
    BY <1>1, Moved DEF EditsInv, Typed
  <1>3. Moves(a)
    BY <1>2 DEF Moves, LockSteps, Toggle, At, UnderLock
  <1> QED
    BY <1>2, <1>3, NoFile DEF Toggle, At, Toggling

LEMMA LockHolds ==
    ASSUME EditsInv, NEW a \in Actors, Locks(a)
    PROVE  EditsInv' /\ Moves(a) /\ op'[a].pc \in {"compare", "missing", "plan", "templates"}
  <1>1. op[a] \in Steps
    BY DEF EditsInv, Typed, StepsOK
  <1>2. CASE At(a, "lock") /\ Goes(a, Held(op[a]))
    <2>1. /\ Held(op[a]) \in {"compare", "missing", "plan"}
          /\ [op[a] EXCEPT !.pc = Held(op[a])] \in Steps
      <3>1. \/ op[a] \in StartSteps \cup DeploySteps
            \/ op[a] \in [kind : {"restore"}, pc : {"lock", "compare", "copy"}]
        BY <1>1, <1>2 DEF At, Steps, ToggleSteps
      <3>2. CASE op[a] \in StartSteps
        <4>1. Held(op[a]) \in {"missing", "plan"}
          BY <3>2 DEF Held, StartSteps
        <4>2. [op[a] EXCEPT !.pc = Held(op[a])] \in StartSteps
          BY <3>2, <4>1 DEF StartSteps
        <4> QED
          BY <4>1, <4>2 DEF Steps
      <3>3. CASE op[a] \in DeploySteps
        <4>1. Held(op[a]) \in {"missing", "plan"}
          BY <3>3 DEF Held, DeploySteps
        <4>2. [op[a] EXCEPT !.pc = Held(op[a])] \in DeploySteps
          BY <3>3, <4>1 DEF DeploySteps
        <4> QED
          BY <4>1, <4>2 DEF Steps
      <3>4. CASE op[a] \in [kind : {"restore"}, pc : {"lock", "compare", "copy"}]
        BY <3>4 DEF Held, Steps
      <3> QED
        BY <3>1, <3>2, <3>3, <3>4
    <2>2. StepsOK'
      BY <1>2, <2>1, Moved DEF Goes, EditsInv, Typed
    <2>3. Others(a) /\ op'[a].pc = Held(op[a])
      BY <1>2, Went DEF EditsInv, Typed
    <2>4. Moves(a)
      BY <2>1, <2>2, <2>3 DEF Moves, LockSteps, Locks, UnderLock
    <2> QED
      BY <2>1, <2>3, <2>4, NoFile DEF Locks, At, Toggling
  <1>3. CASE At(a, "dlock") /\ Goes(a, "templates")
    <2>1. [op[a] EXCEPT !.pc = "templates"] \in Steps
      BY <1>3, Sites DEF EditsInv, Typed, At, Steps, StartSteps
    <2>2. StepsOK'
      BY <1>3, <2>1, Moved DEF Goes, EditsInv, Typed
    <2>3. Others(a) /\ op'[a].pc = "templates"
      BY <1>3, Went DEF EditsInv, Typed
    <2>4. Moves(a)
      BY <2>2, <2>3 DEF Moves, LockSteps, Locks, UnderLock
    <2> QED
      BY <2>3, <2>4, NoFile DEF Locks, At, Toggling
  <1> QED
    BY <1>2, <1>3 DEF Locks

LEMMA MissingHolds ==
    ASSUME EditsInv, NEW a \in Actors, Missing(a)
    PROVE  EditsInv' /\ Moves(a) /\ op'[a].pc \in {"idle", "status", "lock", "plan"}
  <1>1. CASE Done(a, arch.tracks)
    <2>1. Moves(a) /\ op'[a].pc \in {"idle", "status", "lock"}
      BY <1>1, DoneMoves DEF Missing, At, EditsInv, Moves, LockSteps, UnderLock
    <2> QED
      BY <2>1, NoFile DEF Missing, At, Toggling
  <1>2. CASE Does(a, [op[a] EXCEPT !.pc = "plan", !.todo = Tracks \ arch.tracks]) /\ UNCHANGED lock
    <2> DEFINE step == [op[a] EXCEPT !.pc = "plan", !.todo = Tracks \ arch.tracks]
    <2>1. op[a] \in StartSteps \cup DeploySteps
      BY Sites DEF Missing, At, EditsInv, Typed
    <2>2. step \in Steps /\ step.pc = "plan"
      BY <2>1 DEF Steps, StartSteps, DeploySteps
    <2>3. StepsOK' /\ Others(a) /\ op'[a].pc = "plan"
      BY <1>2, <2>2, Moved DEF EditsInv, Typed
    <2>4. Moves(a)
      BY <1>2, <2>3 DEF Moves, LockSteps, Missing, At, UnderLock
    <2> QED
      BY <2>3, <2>4, NoFile DEF Missing, At, Toggling
  <1> QED
    BY <1>1, <1>2 DEF Missing

LEMMA PlanHolds ==
    ASSUME EditsInv, NEW a \in Actors, Plan(a)
    PROVE  EditsInv' /\ Moves(a) /\ op'[a].pc \in {"idle", "status", "lock", "note", "write"}
  <1>1. CASE Done(a, arch.tracks) /\ UNCHANGED backup
    <2>1. Moves(a) /\ op'[a].pc \in {"idle", "status", "lock"}
      BY <1>1, DoneMoves DEF Plan, At, EditsInv, Moves, LockSteps, UnderLock
    <2> QED
      BY <1>1, <2>1, NoFile DEF Plan, files, At, Toggling
  <1>2. CASE /\ backup' = IF backup = None THEN arch ELSE backup
             /\ Does(a, [op[a] EXCEPT !.pc = IF backup = None THEN "note" ELSE "write",
                                      !.seen = arch.tracks])
             /\ UNCHANGED lock
    <2> DEFINE step == [op[a] EXCEPT !.pc = IF backup = None THEN "note" ELSE "write",
                                     !.seen = arch.tracks]
    <2>1. op[a] \in StartSteps \cup DeploySteps
      BY Sites DEF Plan, At, EditsInv, Typed
    <2>2. arch \in Archives /\ arch.tracks \in SUBSET Tracks
      BY DEF EditsInv, Typed, EditsTypeOK, Archives
    <2>3. step \in Steps /\ step.pc \in {"note", "write"}
      BY <2>1, <2>2 DEF Steps, StartSteps, DeploySteps
    <2>4. StepsOK' /\ Others(a) /\ op'[a].pc \in {"note", "write"}
      BY <1>2, <2>3, Moved DEF EditsInv, Typed
    <2>5. Moves(a)
      BY <1>2, <2>4 DEF Moves, LockSteps, Plan, At, UnderLock
    <2>6. backup' # None
      BY <1>2, <2>2, NoneApart
    <2>7. Counts(a) /\ Grow
      BY <1>2, <2>4, <2>6 DEF Counts, Grow, Plan, EditsInv, Typed, EditsTypeOK, Backups
    <2>8. arch' \in Archives /\ Toggled'
      BY <1>2, <2>2, <2>4, SameToggle DEF Plan, At, Like, Toggling
    <2> QED
      BY <2>4, <2>5, <2>6, <2>7, <2>8, OneStep
  <1> QED
    BY <1>1, <1>2 DEF Plan

LEMMA NoteHolds ==
    ASSUME SceneOK, EditsInv, NEW a \in Actors, Note(a)
    PROVE  EditsInv' /\ Moves(a) /\ op'[a].pc \in {"write"}
  <1>1. op[a] \in StartSteps \cup DeploySteps
    BY Sites DEF Note, At, EditsInv, Typed
  <1>2. [op[a] EXCEPT !.pc = "write"] \in Steps
    BY <1>1 DEF Steps, StartSteps, DeploySteps
  <1>3. StepsOK' /\ Others(a) /\ op'[a].pc = "write"
    BY <1>2, Moved, Went DEF Note, Goes, EditsInv, Typed
  <1>4. Moves(a)
    BY <1>3 DEF Moves, LockSteps, Note, At, UnderLock
  <1>5. backup # None
    BY DEF EditsInv, Deployed, Note, At
  <1>6. Counts(a) /\ Grow
    BY <1>3, <1>5 DEF Counts, Grow, Note, EditsInv, Typed, EditsTypeOK, Backups
  <1>7. arch' \in Archives
    BY DEF Note, EditsInv, Typed, EditsTypeOK
  <1>8. scene'.cut = scene.cut
    BY DEF Note, SceneOK
  <1>9. Toggled'
    BY <1>3, <1>8, SameToggle DEF Note, At, Like, Toggling
  <1> QED
    BY <1>3, <1>4, <1>5, <1>6, <1>7, <1>9, OneStep DEF Note

\* The end of one track of a deploy.
LEMMA RestMoves ==
    ASSUME EditsInv, NEW a \in Actors, NEW t, NEW tracks, Rest(a, t, tracks), UNCHANGED build,
           op[a].pc \in {"plan", "write"}
    PROVE  Moves(a) /\ op'[a].pc \in {"idle", "status", "lock", "plan"}
  <1>1. CASE Done(a, tracks)
    BY <1>1, DoneMoves DEF EditsInv, Moves, LockSteps, UnderLock
  <1>2. CASE Does(a, [op[a] EXCEPT !.pc = "plan", !.todo = @ \ {t}]) /\ UNCHANGED lock
    <2> DEFINE step == [op[a] EXCEPT !.pc = "plan", !.todo = @ \ {t}]
    <2>1. op[a] \in StartSteps \cup DeploySteps
      BY Sites DEF EditsInv, Typed
    <2>2. step \in Steps /\ step.pc = "plan"
      BY <2>1 DEF Steps, StartSteps, DeploySteps
    <2>3. StepsOK' /\ Others(a) /\ op'[a].pc = "plan"
      BY <1>2, <2>2, Moved DEF EditsInv, Typed
    <2> QED
      BY <1>2, <2>3 DEF Moves, LockSteps, UnderLock
  <1> QED
    BY <1>1, <1>2 DEF Rest

LEMMA DeployHolds ==
    ASSUME EditsInv, NEW a \in Actors, Deploy(a)
    PROVE  EditsInv' /\ Moves(a) /\ op'[a].pc \in {"idle", "status", "lock", "plan"}
  <1>1. PICK t \in op[a].todo :
            /\ arch' = [arch EXCEPT !.tracks = op[a].seen \cup {t}]
            /\ Rest(a, t, op[a].seen \cup {t})
    BY DEF Deploy
  <1>2. /\ op[a].todo \subseteq Tracks /\ op[a].seen \subseteq Tracks
        /\ backup # None /\ arch \in Archives
    BY Sites DEF Deploy, At, EditsInv, Typed, EditsTypeOK, Deployed, StartSteps, DeploySteps
  <1>3. Moves(a) /\ op'[a].pc \in {"idle", "status", "lock", "plan"}
    BY <1>1, RestMoves DEF Deploy, At
  <1>4. Counts(a) /\ Grow
    BY <1>3 DEF Counts, Grow, Deploy, files, EditsInv, Typed, EditsTypeOK, Backups
  <1>5. arch' \in Archives /\ Like(arch)
    BY <1>1, <1>2 DEF Archives, Like
  <1>6. Toggled'
    BY <1>3, <1>5, SameToggle DEF Deploy, files, At, Toggling, Moves
  <1> QED
    BY <1>2, <1>3, <1>4, <1>5, <1>6, OneStep DEF Deploy, files

LEMMA EditFailsHolds ==
    ASSUME EditsInv, NEW a \in Actors, EditFails(a)
    PROVE  EditsInv' /\ Moves(a) /\ op'[a].pc \in {"idle", "status", "lock", "plan"}
  <1>1. CASE op[a].pc \in {"lock", "copy"} /\ Done(a, arch.tracks)
    <2>1. Moves(a) /\ op'[a].pc \in {"idle", "status", "lock"}
      BY <1>1, DoneMoves DEF EditFails, EditsInv, Moves, LockSteps, UnderLock
    <2> QED
      BY <2>1, NoFile DEF EditFails, Toggling
  <1>2. CASE op[a].pc \in {"plan", "write"} /\ \E t \in op[a].todo : Rest(a, t, arch.tracks)
    <2>1. Moves(a) /\ op'[a].pc \in {"idle", "status", "lock", "plan"}
      BY <1>2, RestMoves DEF EditFails
    <2> QED
      BY <2>1, NoFile DEF EditFails, Toggling
  <1> QED
    BY <1>1, <1>2 DEF EditFails

LEMMA CompareHolds ==
    ASSUME EditsInv, NEW a \in Actors, Compare(a)
    PROVE  EditsInv' /\ Moves(a) /\ op'[a].pc \in {"idle", "status", "lock", "copy"}
  <1>1. CASE Done(a, arch.tracks)
    <2>1. Moves(a) /\ op'[a].pc \in {"idle", "status", "lock"}
      BY <1>1, DoneMoves DEF Compare, At, EditsInv, Moves, LockSteps, UnderLock
    <2> QED
      BY <2>1, NoFile DEF Compare, At, Toggling
  <1>2. CASE Goes(a, "copy") /\ backup # None /\ UNCHANGED lock
    <2>1. [op[a] EXCEPT !.pc = "copy"] \in Steps
      BY Sites DEF Compare, At, EditsInv, Typed, Steps
    <2>2. StepsOK' /\ Others(a) /\ op'[a].pc = "copy"
      BY <1>2, <2>1, Moved, Went DEF Goes, EditsInv, Typed
    <2>3. Moves(a)
      BY <1>2, <2>2 DEF Moves, LockSteps, Compare, At, UnderLock
    <2> QED
      BY <1>2, <2>2, <2>3, NoFile DEF Compare, At, Toggling
  <1> QED
    BY <1>1, <1>2 DEF Compare

LEMMA PutBackHolds ==
    ASSUME EditsInv, NEW a \in Actors, PutsBack(a)
    PROVE  EditsInv' /\ Moves(a) /\ op'[a].pc \in {"idle", "status", "lock"}
  <1>1. arch' = backup /\ backup # None /\ UNCHANGED <<files, build>>
    BY DEF PutsBack, At, EditsInv, Deployed
  <1>2. Moves(a) /\ op'[a].pc \in {"idle", "status", "lock"}
    BY DoneMoves DEF PutsBack, At, EditsInv, Moves, LockSteps, UnderLock
  <1>3. Counts(a) /\ Grow
    BY <1>1, <1>2 DEF Counts, Grow, files, EditsInv, Typed, EditsTypeOK, Backups
  <1>4. arch' \in Archives /\ (arch'.tracks # {} => backup' # None)
    BY <1>1 DEF files, EditsInv, Typed, EditsTypeOK
  <1>5. Toggled'
    BY <1>1, <1>2, SameToggle DEF PutsBack, files, At, Toggling, Like, Moves
  <1> QED
    BY <1>2, <1>3, <1>4, <1>5, OneStep

LEMMA StatusHolds ==
    ASSUME EditsInv, NEW a \in Actors, Status(a)
    PROVE  EditsInv' /\ Moves(a) /\ op'[a].pc \in {"spawn", "dlock"}
  <1>1. op[a] \in StartSteps
    BY Sites DEF Status, At, EditsInv, Typed
  <1>2. \E step \in Steps : Does(a, step) /\ step.pc \in {"spawn", "dlock"}
    <2>1. /\ [op[a] EXCEPT !.pc = "spawn", !.applied = TRUE] \in StartSteps
          /\ [op[a] EXCEPT !.pc = "spawn"] \in StartSteps
          /\ [op[a] EXCEPT !.pc = "dlock"] \in StartSteps
      BY <1>1 DEF StartSteps
    <2>2. /\ [op[a] EXCEPT !.pc = "spawn", !.applied = TRUE].pc = "spawn"
          /\ [op[a] EXCEPT !.pc = "spawn"].pc = "spawn"
          /\ [op[a] EXCEPT !.pc = "dlock"].pc = "dlock"
      BY <1>1 DEF StartSteps
    <2> QED
      BY <2>1, <2>2 DEF Status, Goes, Steps
  <1>3. StepsOK' /\ Others(a) /\ op'[a].pc \in {"spawn", "dlock"}
    BY <1>2, Moved DEF EditsInv, Typed
  <1>4. Moves(a)
    BY <1>3 DEF Moves, LockSteps, Status, At, UnderLock
  <1> QED
    BY <1>3, <1>4, NoFile DEF Status, At, Toggling

LEMMA TemplatesHolds ==
    ASSUME EditsInv, NEW a \in Actors, Templates(a)
    PROVE  EditsInv' /\ Moves(a) /\ op'[a].pc \in {"spawn"}
  <1>1. op[a] \in StartSteps /\ op[a].damage \in Damages /\ lock = a /\ lock' = None
    BY Sites DEF Templates, At, EditsInv, Typed, EditsTypeOK, StartSteps, Holds, UnderLock
  <1>2. \E step \in Steps : Does(a, step) /\ step.pc = "spawn"
    <2>1. /\ [op[a] EXCEPT !.pc = "spawn", !.applied = TRUE] \in StartSteps
          /\ [op[a] EXCEPT !.pc = "spawn"] \in StartSteps
          /\ [op[a] EXCEPT !.pc = "spawn", !.applied = TRUE].pc = "spawn"
          /\ [op[a] EXCEPT !.pc = "spawn"].pc = "spawn"
      BY <1>1 DEF StartSteps
    <2> QED
      BY <2>1 DEF Templates, Goes, Steps
  <1>3. StepsOK' /\ Others(a) /\ op'[a].pc = "spawn"
    BY <1>2, Moved DEF EditsInv, Typed
  <1>4. Moves(a)
    BY <1>1, <1>3 DEF Moves, LockSteps, Templates, UnderLock
  <1>5. /\ arch' \in Archives /\ arch'.tracks = arch.tracks
        /\ arch'.penalties = arch.penalties
        /\ arch'.practice.triggers = arch.practice.triggers
    <2>1. arch \in Archives
      BY DEF EditsInv, Typed, EditsTypeOK
    <2>2. CASE UNCHANGED arch
      BY <2>1, <2>2
    <2>3. CASE arch' = [arch EXCEPT !.practice.damage = op[a].damage, !.race = op[a].damage]
      BY <1>1, <2>1, <2>3 DEF Archives, Template
    <2> QED
      BY <2>2, <2>3 DEF Templates
  <1>6. Counts(a) /\ Grow /\ (arch'.tracks # {} => backup' # None)
    BY <1>3, <1>5 DEF Counts, Grow, Templates, files, EditsInv, Typed, EditsTypeOK, Backups, Deployed, WayBack
  <1>7. Toggled'
    BY <1>3, <1>5, SameToggle DEF Templates, files, At, Toggling, Like
  <1> QED
    BY <1>3, <1>4, <1>5, <1>6, <1>7, OneStep

LEMMA DamageFailsHolds ==
    ASSUME EditsInv, NEW a \in Actors, DamageFails(a)
    PROVE  EditsInv' /\ Moves(a) /\ op'[a].pc \in {"spawn"}
  <1>1. op[a] \in StartSteps
    BY Sites DEF DamageFails, EditsInv, Typed
  <1>2. [op[a] EXCEPT !.pc = "spawn"] \in Steps
    BY <1>1 DEF Steps, StartSteps
  <1>3. StepsOK' /\ Others(a) /\ op'[a].pc = "spawn"
    BY <1>2, Moved, Went DEF DamageFails, Goes, EditsInv, Typed
  <1>4. Moves(a)
    BY <1>3 DEF Moves, LockSteps, DamageFails, UnderLock
  <1> QED
    BY <1>3, <1>4, NoFile DEF DamageFails, Toggling

LEMMA SpawnHolds ==
    ASSUME EditsInv, NEW a \in Actors, Spawn(a)
    PROVE  EditsInv' /\ Moves(a) /\ op'[a].pc \in {"idle"}
  <1>1. StepsOK' /\ Others(a) /\ op'[a].pc = "idle"
    <2>1. Does(a, Resting) /\ Resting \in Steps /\ Resting.pc = "idle"
      BY DEF Spawn, Resting, Steps
    <2> QED
      BY <2>1, Moved DEF EditsInv, Typed
  <1>2. Moves(a)
    BY <1>1 DEF Moves, LockSteps, Spawn, At, UnderLock
  <1> QED
    BY <1>1, <1>2, NoFile DEF Spawn, At, Toggling

LEMMA Read1Holds ==
    ASSUME EditsInv, NEW a \in Actors, Read1(a)
    PROVE  EditsInv' /\ Moves(a) /\ op'[a].pc \in {"read2", "save1"}
  <1>1. arch \in Archives /\ arch.penalties \in {"on", "off", Torn} /\ op[a].pc = "read1"
    BY DEF EditsInv, Typed, EditsTypeOK, Archives, Read1, At
  <1>2. CASE arch.penalties = "off"
    <2>1. [op[a] EXCEPT !.pc = "read2"] \in Steps
      BY <1>1, Sites DEF EditsInv, Typed, Steps, ToggleSteps
    <2>2. StepsOK' /\ Others(a) /\ op'[a].pc = "read2"
      BY <1>2, <2>1, Moved, Went DEF Read1, Goes, EditsInv, Typed
    <2>3. Moves(a)
      BY <1>1, <2>2 DEF Moves, LockSteps, Read1, UnderLock
    <2> QED
      BY <1>1, <2>2, <2>3, NoFile DEF Read1, Toggling
  <1>3. CASE arch.penalties # "off"
    <2> DEFINE step == [kind |-> "off", pc |-> "save1", entry |-> arch.penalties]
    <2>1. step \in Steps
      BY <1>1 DEF Steps, ToggleSteps
    <2>2. StepsOK' /\ Others(a) /\ op'[a] = step
      BY <1>3, <2>1, Moved DEF Read1, EditsInv, Typed
    <2>3. Moves(a) /\ op'[a].pc = "save1"
      BY <1>1, <2>2 DEF Moves, LockSteps, Read1, UnderLock
    <2>4. Counts(a) /\ Grow
      BY <2>3 DEF Counts, Grow, Read1, files, EditsInv, Typed, EditsTypeOK, Backups
    <2>5. (Whole1 => Whole1') /\ (Whole2 => Whole2')
      BY <1>1, <2>2, FillsToggled DEF Read1, files
    <2>6. ~scene.cut => ToggleOf(a)' /\ RowsKept(arch)'
      BY <1>1, <1>3, <2>2, <2>5 DEF Read1, files, EditsInv, Toggled, RowsKept, ToggleOf
    <2>7. Toggled'
      BY <2>2, <2>5, <2>6, SavesToggled DEF Read1, files
    <2>8. arch' \in Archives /\ (arch'.tracks # {} => backup' # None)
      BY <1>1 DEF Read1, files, EditsInv, Deployed, WayBack
    <2> QED
      BY <2>3, <2>4, <2>7, <2>8, OneStep
  <1> QED
    BY <1>2, <1>3

LEMMA Save1Holds ==
    ASSUME EditsInv, NEW a \in Actors, Save1(a)
    PROVE  EditsInv' /\ Moves(a) /\ op'[a].pc \in {"fill1"}
  <1>1. op[a] \in [kind : {"off"}, pc : {"save1", "fill1", "clear1", "read2"}, entry : {"on", "off", Torn}]
    BY Sites DEF Save1, At, EditsInv, Typed
  <1>2. [op[a] EXCEPT !.pc = "fill1"] \in Steps
    BY <1>1 DEF Steps, ToggleSteps
  <1>3. StepsOK' /\ Others(a) /\ op'[a] = [op[a] EXCEPT !.pc = "fill1"]
    BY <1>2, Moved DEF Save1, Goes, EditsInv, Typed
  <1>4. op'[a].pc = "fill1" /\ op'[a].entry = op[a].entry
    BY <1>1, <1>3
  <1>5. Moves(a)
    BY <1>3, <1>4 DEF Moves, LockSteps, Save1, At, UnderLock
  <1>6. Counts(a) /\ Grow
    BY <1>4 DEF Counts, Grow, Save1, EditsInv, Typed, EditsTypeOK, Backups
  <1>7. Whole1' /\ (Whole2 => Whole2')
    BY <1>3, <1>4, FillsToggled DEF Save1, At, Whole1, HalfSaved
  <1>8. ~scene.cut => ToggleOf(a)' /\ RowsKept(arch)'
    BY <1>4, <1>7 DEF Save1, At, EditsInv, Toggled, RowsKept, ToggleOf
  <1>9. Toggled'
    BY <1>3, <1>7, <1>8, SavesToggled DEF Save1
  <1>10. arch' \in Archives /\ (arch'.tracks # {} => backup' # None)
    BY DEF Save1, EditsInv, Typed, EditsTypeOK, Deployed, WayBack
  <1> QED
    BY <1>4, <1>5, <1>6, <1>9, <1>10, OneStep

LEMMA Fill1Holds ==
    ASSUME EditsInv, NEW a \in Actors, Fill1(a)
    PROVE  EditsInv' /\ Moves(a) /\ op'[a].pc \in {"clear1"}
  <1>1. op[a] \in [kind : {"off"}, pc : {"save1", "fill1", "clear1", "read2"}, entry : {"on", "off", Torn}]
    BY Sites DEF Fill1, At, EditsInv, Typed
  <1>2. [op[a] EXCEPT !.pc = "clear1"] \in Steps
    BY <1>1 DEF Steps, ToggleSteps
  <1>3. StepsOK' /\ Others(a) /\ op'[a] = [op[a] EXCEPT !.pc = "clear1"]
    BY <1>2, Moved DEF Fill1, Goes, EditsInv, Typed
  <1>4. op'[a].pc = "clear1" /\ op'[a].entry = op[a].entry
    BY <1>1, <1>3
  <1>5. Moves(a)
    BY <1>3, <1>4 DEF Moves, LockSteps, Fill1, At, UnderLock
  <1>6. Counts(a) /\ Grow
    BY <1>1, <1>4 DEF Counts, Grow, Fill1, EditsInv, Typed, EditsTypeOK, Backups
  <1>7. Whole2 => Whole2'
    BY <1>3, FillsToggled DEF Fill1, At
  <1>8. ~scene.cut => bak1' = "on"
    BY DEF Fill1, At, EditsInv, Toggled, ToggleOf
  <1>9. ~scene.cut => ToggleOf(a)' /\ RowsKept(arch)'
    BY <1>4, <1>7, <1>8 DEF Fill1, At, EditsInv, Toggled, RowsKept, ToggleOf, Whole1
  <1>10. Toggled'
    BY <1>3, <1>7, <1>8, <1>9, SavesToggled DEF Fill1, Whole1
  <1>11. arch' \in Archives /\ (arch'.tracks # {} => backup' # None)
    BY DEF Fill1, EditsInv, Typed, EditsTypeOK, Deployed, WayBack
  <1> QED
    BY <1>4, <1>5, <1>6, <1>10, <1>11, OneStep

LEMMA Clear1Holds ==
    ASSUME EditsInv, NEW a \in Actors, Clear1(a)
    PROVE  EditsInv' /\ Moves(a) /\ op'[a].pc \in {"read2"}
  <1>1. op[a] \in [kind : {"off"}, pc : {"save1", "fill1", "clear1", "read2"}, entry : {"on", "off", Torn}]
    BY Sites DEF Clear1, At, EditsInv, Typed
  <1>2. [op[a] EXCEPT !.pc = "read2"] \in Steps
    BY <1>1 DEF Steps, ToggleSteps
  <1>3. StepsOK' /\ Others(a) /\ op'[a].pc = "read2"
    BY <1>2, Moved, Went DEF Clear1, Goes, EditsInv, Typed
  <1>4. Moves(a)
    BY <1>3 DEF Moves, LockSteps, Clear1, At, UnderLock
  <1>5. Counts(a) /\ Grow
    BY <1>3 DEF Counts, Grow, Clear1, files, EditsInv, Typed, EditsTypeOK, Backups
  <1>6. /\ arch' \in Archives /\ (arch'.tracks # {} => backup' # None)
        /\ arch'.penalties = "off" /\ arch'.practice = arch.practice
    BY DEF Clear1, files, EditsInv, Typed, EditsTypeOK, Archives, Deployed, WayBack
  <1>7. (Whole1 => Whole1') /\ (Whole2 => Whole2') /\ ToggleOf(a)'
    BY <1>3, FillsToggled DEF Clear1, At, files, ToggleOf
  <1>8. ~scene.cut => RowsKept(arch)'
    BY <1>6, <1>7, EditsAssumption DEF Clear1, At, EditsInv, Toggled, RowsKept, ToggleOf
  <1>9. Toggled'
    BY <1>3, <1>7, <1>8, SavesToggled DEF Clear1, files
  <1> QED
    BY <1>3, <1>4, <1>5, <1>6, <1>9, OneStep

LEMMA Read2Holds ==
    ASSUME EditsInv, NEW a \in Actors, Read2(a)
    PROVE  EditsInv' /\ Moves(a) /\ op'[a].pc \in {"idle", "save2"}
  <1>1. arch \in Archives /\ arch.practice \in Template /\ op[a].pc = "read2"
    BY DEF EditsInv, Typed, EditsTypeOK, Archives, Read2, At
  <1>2. CASE arch.practice.triggers # "on"
    <2>1. Does(a, Resting) /\ Resting \in Steps /\ Resting.pc = "idle"
      BY <1>2 DEF Read2, Resting, Steps
    <2>2. StepsOK' /\ Others(a) /\ op'[a].pc = "idle"
      BY <2>1, Moved DEF EditsInv, Typed
    <2>3. Moves(a)
      BY <1>1, <2>2 DEF Moves, LockSteps, Read2, UnderLock
    <2> QED
      BY <1>1, <2>2, <2>3, NoFile DEF Read2, Toggling
  <1>3. CASE arch.practice.triggers = "on"
    <2> DEFINE step == [kind |-> "off", pc |-> "save2", template |-> arch.practice]
    <2>1. step \in Steps
      BY <1>1 DEF Steps, ToggleSteps
    <2>2. StepsOK' /\ Others(a) /\ op'[a] = step
      BY <1>3, <2>1, Moved DEF Read2, EditsInv, Typed
    <2>3. Moves(a) /\ op'[a].pc = "save2"
      BY <1>1, <2>2 DEF Moves, LockSteps, Read2, UnderLock
    <2>4. Counts(a) /\ Grow
      BY <2>3 DEF Counts, Grow, Read2, files, EditsInv, Typed, EditsTypeOK, Backups
    <2>5. (Whole1 => Whole1') /\ (Whole2 => Whole2') /\ ToggleOf(a)'
      BY <1>1, <1>3, <2>2, FillsToggled DEF Read2, files, ToggleOf
    <2>6. ~scene.cut => RowsKept(arch)'
      BY <2>5 DEF Read2, EditsInv, Toggled, RowsKept
    <2>7. Toggled'
      BY <2>2, <2>5, <2>6, SavesToggled DEF Read2, files
    <2>8. arch' \in Archives /\ (arch'.tracks # {} => backup' # None)
      BY <1>1 DEF Read2, files, EditsInv, Deployed, WayBack
    <2> QED
      BY <2>3, <2>4, <2>7, <2>8, OneStep
  <1> QED
    BY <1>2, <1>3

LEMMA CutTyped == ASSUME NEW t \in Template PROVE Cut(t) \subseteq Template
  <1>1. t.of \in 0..MaxUpdates /\ {t.damage, 100, Torn} \subseteq Damages \cup {100, Foreign, Torn}
    BY DEF Template
  <1> QED
    BY <1>1 DEF Cut, Template

LEMMA Save2Holds ==
    ASSUME EditsInv, NEW a \in Actors, Save2(a)
    PROVE  EditsInv' /\ Moves(a) /\ op'[a].pc \in {"fill2"}
  <1>1. op[a] \in [kind : {"off"}, pc : {"save2", "fill2", "clear2"}, template : Template]
    BY Sites DEF Save2, At, EditsInv, Typed
  <1>2. [op[a] EXCEPT !.pc = "fill2"] \in Steps
    BY <1>1 DEF Steps, ToggleSteps
  <1>3. StepsOK' /\ Others(a) /\ op'[a] = [op[a] EXCEPT !.pc = "fill2"]
    BY <1>2, Moved DEF Save2, Goes, EditsInv, Typed
  <1>4. op'[a].pc = "fill2" /\ op'[a].template = op[a].template /\ op[a].template \in Template
    BY <1>1, <1>3
  <1>5. Moves(a)
    BY <1>3, <1>4 DEF Moves, LockSteps, Save2, At, UnderLock
  <1>6. bak2' \in Template
    BY <1>4, CutTyped DEF Save2
  <1>7. Counts(a) /\ Grow
    BY <1>4, <1>6 DEF Counts, Grow, Save2, EditsInv, Typed, EditsTypeOK, Backups
  <1>8. Whole2' /\ (Whole1 => Whole1')
    BY <1>3, <1>4, FillsToggled DEF Save2, At, Whole2, HalfSaved
  <1>9. ~scene.cut => ToggleOf(a)' /\ RowsKept(arch)'
    BY <1>4, <1>8 DEF Save2, At, EditsInv, Toggled, RowsKept, ToggleOf
  <1>10. Toggled'
    BY <1>3, <1>8, <1>9, SavesToggled DEF Save2
  <1>11. arch' \in Archives /\ (arch'.tracks # {} => backup' # None)
    BY DEF Save2, EditsInv, Typed, EditsTypeOK, Deployed, WayBack
  <1> QED
    BY <1>4, <1>5, <1>7, <1>10, <1>11, OneStep

LEMMA Fill2Holds ==
    ASSUME SceneOK, EditsInv, NEW a \in Actors, Fill2(a)
    PROVE  EditsInv' /\ Moves(a) /\ op'[a].pc \in {"clear2"}
  <1>1. op[a] \in [kind : {"off"}, pc : {"save2", "fill2", "clear2"}, template : Template]
    BY Sites DEF Fill2, At, EditsInv, Typed
  <1>2. [op[a] EXCEPT !.pc = "clear2"] \in Steps
    BY <1>1 DEF Steps, ToggleSteps
  <1>3. StepsOK' /\ Others(a) /\ op'[a] = [op[a] EXCEPT !.pc = "clear2"]
    BY <1>2, Moved DEF Fill2, Goes, EditsInv, Typed
  <1>4. op'[a].pc = "clear2" /\ op'[a].template = op[a].template /\ op[a].template \in Template
    BY <1>1, <1>3
  <1>5. Moves(a)
    BY <1>3, <1>4 DEF Moves, LockSteps, Fill2, At, UnderLock
  <1>6. bak2' \in Template
    BY <1>4, CutTyped DEF Fill2
  <1>7. Counts(a) /\ Grow
    BY <1>4, <1>6 DEF Counts, Grow, Fill2, EditsInv, Typed, EditsTypeOK, Backups
  <1>8. ~scene'.cut => ~scene.cut /\ bak2' = op[a].template
    BY DEF Fill2, SceneOK
  <1>9. ~scene'.cut => Whole2'
    BY <1>6, <1>8, NoneApart DEF Fill2, At, EditsInv, Toggled, ToggleOf, Whole2
  <1>10. Whole1 => Whole1'
    BY <1>3, FillsToggled DEF Fill2, At
  <1>11. ~scene'.cut => ToggleOf(a)' /\ RowsKept(arch)'
    BY <1>4, <1>8, <1>9, <1>10 DEF Fill2, At, EditsInv, Toggled, RowsKept, ToggleOf
  <1>12. Toggled'
    BY <1>3, <1>8, <1>9, <1>10, <1>11, SavesToggled DEF Fill2
  <1>13. arch' \in Archives /\ (arch'.tracks # {} => backup' # None)
    BY DEF Fill2, EditsInv, Typed, EditsTypeOK, Deployed, WayBack
  <1> QED
    BY <1>4, <1>5, <1>7, <1>12, <1>13, OneStep

LEMMA Clear2Holds ==
    ASSUME EditsInv, NEW a \in Actors, Clear2(a)
    PROVE  EditsInv' /\ Moves(a) /\ op'[a].pc \in {"idle"}
  <1>1. op[a].template \in Template
    BY Sites DEF Clear2, At, EditsInv, Typed
  <1>2. StepsOK' /\ Others(a) /\ op'[a].pc = "idle"
    <2>1. Does(a, Resting) /\ Resting \in Steps /\ Resting.pc = "idle"
      BY DEF Clear2, Resting, Steps
    <2> QED
      BY <2>1, Moved DEF EditsInv, Typed
  <1>3. Moves(a)
    BY <1>2 DEF Moves, LockSteps, Clear2, At, UnderLock
  <1>4. Counts(a) /\ Grow
    BY <1>2 DEF Counts, Grow, Clear2, files, EditsInv, Typed, EditsTypeOK, Backups
  <1>5. /\ arch' \in Archives /\ arch'.tracks = arch.tracks
        /\ arch'.penalties = arch.penalties /\ arch'.practice.triggers = "off"
    BY <1>1 DEF Clear2, EditsInv, Typed, EditsTypeOK, Archives, Template
  <1>6. (Whole1 => Whole1') /\ (Whole2 => Whole2') /\ ToggleOf(a)'
    BY <1>2, FillsToggled DEF Clear2, At, files, ToggleOf
  <1>7. ~scene.cut => RowsKept(arch)'
    BY <1>5, <1>6, EditsAssumption DEF Clear2, At, EditsInv, Toggled, RowsKept, ToggleOf
  <1>8. Toggled'
    BY <1>2, <1>6, <1>7, SavesToggled DEF Clear2, files
  <1>9. arch'.tracks # {} => backup' # None
    BY <1>5 DEF Clear2, files, EditsInv, Deployed, WayBack
  <1> QED
    BY <1>2, <1>3, <1>4, <1>5, <1>8, <1>9, OneStep

LEMMA Put1Holds ==
    ASSUME SceneOK, EditsInv, NEW a \in Actors, Put1(a)
    PROVE  EditsInv' /\ Moves(a) /\ op'[a].pc \in {"put2"}
  <1>1. op[a] \in [kind : {"on"}, pc : {"put1", "put2"}]
    BY Sites DEF Put1, At, EditsInv, Typed
  <1>2. [op[a] EXCEPT !.pc = "put2"] \in Steps
    BY <1>1 DEF Steps, ToggleSteps
  <1>3. StepsOK' /\ Others(a) /\ op'[a].pc = "put2"
    BY <1>2, Moved, Went DEF Put1, Goes, EditsInv, Typed
  <1>4. Moves(a)
    BY <1>3 DEF Moves, LockSteps, Put1, At, UnderLock
  <1>5. Counts(a) /\ Grow
    BY <1>3 DEF Counts, Grow, Put1, files, EditsInv, Typed, EditsTypeOK, Backups
  <1>6. (Whole1 => Whole1') /\ (Whole2 => Whole2') /\ ToggleOf(a)'
    BY <1>3, FillsToggled DEF Put1, At, files, ToggleOf
  <1>7. CASE bak1 = None
    <2>1. UNCHANGED <<arch, scene>>
      BY <1>7 DEF Put1
    <2>2. Toggled'
      BY <1>3, <2>1, SameToggle DEF Put1, At, files, Toggling, Like
    <2>3. arch' \in Archives /\ (arch'.tracks # {} => backup' # None)
      BY <2>1 DEF Put1, files, EditsInv, Typed, EditsTypeOK, Deployed, WayBack
    <2> QED
      BY <1>3, <1>4, <1>5, <2>2, <2>3, OneStep
  <1>8. CASE bak1 # None
    <2>1. /\ arch' = [arch EXCEPT !.penalties = bak1]
          /\ scene' = [scene EXCEPT !.cut = @ \/ HalfSaved("fill1")]
      BY <1>8 DEF Put1
    <2>2. /\ arch' \in Archives /\ arch'.tracks = arch.tracks
          /\ arch'.penalties = bak1 /\ arch'.practice = arch.practice
      BY <1>8, <2>1 DEF EditsInv, Typed, EditsTypeOK, Backups, Archives
    <2>3. ~scene'.cut => ~scene.cut /\ ~HalfSaved("fill1")
      BY <2>1 DEF SceneOK
    <2>4. ~scene'.cut => bak1 = "on"
      BY <1>8, <2>3 DEF EditsInv, Toggled, Whole1
    <2>5. ~scene'.cut => RowsKept(arch)'
      BY <1>6, <2>2, <2>3, <2>4, EditsAssumption DEF EditsInv, Toggled, RowsKept
    <2>6. Toggled'
      BY <1>3, <1>6, <2>3, <2>5, SavesToggled DEF Put1, files
    <2>7. arch'.tracks # {} => backup' # None
      BY <2>2 DEF Put1, files, EditsInv, Deployed, WayBack
    <2> QED
      BY <1>3, <1>4, <1>5, <2>2, <2>6, <2>7, OneStep
  <1> QED
    BY <1>7, <1>8

LEMMA Put2Holds ==
    ASSUME SceneOK, EditsInv, NEW a \in Actors, Put2(a)
    PROVE  EditsInv' /\ Moves(a) /\ op'[a].pc \in {"idle"}
  <1>1. StepsOK' /\ Others(a) /\ op'[a].pc = "idle"
    <2>1. Does(a, Resting) /\ Resting \in Steps /\ Resting.pc = "idle"
      BY DEF Put2, Resting, Steps
    <2> QED
      BY <2>1, Moved DEF EditsInv, Typed
  <1>2. Moves(a)
    BY <1>1 DEF Moves, LockSteps, Put2, At, UnderLock
  <1>3. Counts(a) /\ Grow
    BY <1>1 DEF Counts, Grow, Put2, files, EditsInv, Typed, EditsTypeOK, Backups
  <1>4. (Whole1 => Whole1') /\ (Whole2 => Whole2') /\ ToggleOf(a)'
    BY <1>1, FillsToggled DEF Put2, At, files, ToggleOf
  <1>5. CASE bak2 = None
    <2>1. UNCHANGED <<arch, scene>>
      BY <1>5 DEF Put2
    <2>2. Toggled'
      BY <1>1, <2>1, SameToggle DEF Put2, At, files, Toggling, Like
    <2>3. arch' \in Archives /\ (arch'.tracks # {} => backup' # None)
      BY <2>1 DEF Put2, files, EditsInv, Typed, EditsTypeOK, Deployed, WayBack
    <2> QED
      BY <1>1, <1>2, <1>3, <2>2, <2>3, OneStep
  <1>6. CASE bak2 # None
    <2>1. /\ arch' = [arch EXCEPT !.practice = bak2]
          /\ scene' = [scene EXCEPT !.cut = @ \/ HalfSaved("fill2")]
      BY <1>6 DEF Put2
    <2>2. /\ arch' \in Archives /\ arch'.tracks = arch.tracks
          /\ arch'.penalties = arch.penalties /\ arch'.practice = bak2
      BY <1>6, <2>1 DEF EditsInv, Typed, EditsTypeOK, Backups, Archives
    <2>3. ~scene'.cut => ~scene.cut /\ ~HalfSaved("fill2")
      BY <2>1 DEF SceneOK
    <2>4. ~scene'.cut => bak2.triggers = "on"
      BY <1>6, <2>3 DEF EditsInv, Toggled, Whole2
    <2>5. ~scene'.cut => RowsKept(arch)'
      BY <1>4, <2>2, <2>3, <2>4, EditsAssumption DEF EditsInv, Toggled, RowsKept
    <2>6. Toggled'
      BY <1>1, <1>4, <2>3, <2>5, SavesToggled DEF Put2, files
    <2>7. arch'.tracks # {} => backup' # None
      BY <2>2 DEF Put2, files, EditsInv, Deployed, WayBack
    <2> QED
      BY <1>1, <1>2, <1>3, <2>2, <2>6, <2>7, OneStep
  <1> QED
    BY <1>5, <1>6

LEMMA ToggleFailsHolds ==
    ASSUME SceneOK, EditsInv, NEW a \in Actors, ToggleFails(a)
    PROVE  EditsInv' /\ Moves(a) /\ op'[a].pc \in {"idle"}
  <1>1. StepsOK' /\ Others(a) /\ op'[a].pc = "idle"
    <2>1. Does(a, Resting) /\ Resting \in Steps /\ Resting.pc = "idle"
      BY DEF ToggleFails, Resting, Steps
    <2> QED
      BY <2>1, Moved DEF EditsInv, Typed
  <1>2. Moves(a)
    BY <1>1 DEF Moves, LockSteps, ToggleFails, UnderLock
  <1>3. Counts(a) /\ Grow
    BY <1>1 DEF Counts, Grow, ToggleFails, files, EditsInv, Typed, EditsTypeOK, Backups
  <1>4. ~scene'.cut => ~scene.cut /\ op[a].pc \notin {"fill1", "fill2"}
    BY DEF ToggleFails, SceneOK
  <1>5. ~scene'.cut => (Whole1 => Whole1') /\ (Whole2 => Whole2') /\ ToggleOf(a)'
    BY <1>1, <1>4, FillsToggled DEF ToggleFails, files, ToggleOf
  <1>6. ~scene'.cut => RowsKept(arch)'
    BY <1>4, <1>5 DEF ToggleFails, EditsInv, Toggled, RowsKept
  <1>7. Toggled'
    BY <1>1, <1>4, <1>5, <1>6, SavesToggled DEF ToggleFails, files
  <1>8. arch' \in Archives /\ (arch'.tracks # {} => backup' # None)
    BY DEF ToggleFails, files, EditsInv, Typed, EditsTypeOK, Deployed, WayBack
  <1> QED
    BY <1>1, <1>2, <1>3, <1>7, <1>8, OneStep

LEMMA StopHolds ==
    ASSUME EditsInv, Stop PROVE EditsInv'
  BY DEF Stop, files, EditsInv, Typed, EditsTypeOK, StepsOK, Backups, Holds, Deployed, WayBack,
         Toggled, RowsKept, ToggleOf, Whole1, Whole2, HalfSaved, At

LEMMA UpdateHolds ==
    ASSUME EditsInv, Update PROVE EditsInv'
  <1>1. build' = build + 1 /\ build' \in 0..MaxUpdates /\ UNCHANGED <<files, lock, op, scene>>
    BY EditsAssumption DEF Update, EditsInv, Typed, EditsTypeOK
  <1>2. /\ arch' \in Archives /\ arch'.tracks = {}
        /\ arch'.penalties = "on" /\ arch'.practice.triggers = "on"
    BY <1>1 DEF Update, Stock, Archives, Template
  <1>3. Typed'
    BY <1>1, <1>2 DEF files, EditsInv, Typed, EditsTypeOK, StepsOK, Backups, Holds
  <1>4. Toggled'
    BY <1>1, <1>2, EditsAssumption
       DEF files, EditsInv, Toggled, RowsKept, ToggleOf, Whole1, Whole2, HalfSaved, At
  <1> QED
    BY <1>1, <1>2, <1>3, <1>4 DEF files, EditsInv, Deployed, WayBack

LEMMA CrashHolds ==
    ASSUME SceneOK, EditsInv, Killed PROVE EditsInv'
  <1>1. /\ UNCHANGED <<arch, files, build>> /\ lock' = None
        /\ \A a \in Actors : op'[a].pc = "idle"
    BY DEF Killed, Resting
  <1>2. StepsOK'
    BY DEF Killed, StepsOK, Steps, Resting
  <1>3. Typed'
    BY <1>1, <1>2, NotNone DEF files, EditsInv, Typed, EditsTypeOK, Backups, Holds, UnderLock
  <1>4. ~scene'.cut => ~scene.cut /\ ~HalfSaved("fill1") /\ ~HalfSaved("fill2")
    BY DEF Killed, SceneOK
  <1>5. Toggled'
    BY <1>1, <1>4 DEF files, EditsInv, Toggled, RowsKept, ToggleOf, Whole1, Whole2
  <1> QED
    BY <1>1, <1>3, <1>5 DEF files, EditsInv, Deployed, WayBack

LEMMA SceneInit == EditsInit => SceneOK /\ scene.cut = FALSE
  <1> SUFFICES ASSUME EditsInit PROVE SceneOK /\ scene.cut = FALSE
    OBVIOUS
  <1>1. scene \in [ops : Offers, faults : {0}, cut : {FALSE}]
    BY DEF EditsInit
  <1>2. PICK o \in Offers : scene = [ops |-> o, faults |-> 0, cut |-> FALSE]
    BY <1>1
  <1>3. scene.cut = FALSE
    BY <1>2
  <1>4. [ops |-> o, faults |-> 0, cut |-> FALSE] \in [ops : Offers, faults : Nat, cut : BOOLEAN]
    BY <1>2
  <1> QED
    BY <1>2, <1>3, <1>4 DEF SceneOK

\* Offers stay, and what fails is counted.
LEMMA SceneStep ==
    ASSUME SceneOK, [EditsNext]_editVars PROVE SceneOK' /\ scene'.ops = scene.ops
  <1>1. CASE UNCHANGED scene
    BY <1>1 DEF SceneOK
  <1>2. CASE scene' = [scene EXCEPT !.faults = @ + 1]
    BY <1>2 DEF SceneOK
  <1>3. CASE \E b \in BOOLEAN : scene' = [scene EXCEPT !.cut = b]
    <2>1. PICK b \in BOOLEAN : scene' = [scene EXCEPT !.cut = b]
      BY <1>3
    <2>2. PICK o \in Offers, n \in Nat, c \in BOOLEAN : scene = [ops |-> o, faults |-> n, cut |-> c]
      BY DEF SceneOK
    <2>3. scene' = [ops |-> o, faults |-> n, cut |-> b]
      BY <2>1, <2>2
    <2>4. scene'.ops = scene.ops
      BY <2>2, <2>3
    <2>5. [ops |-> o, faults |-> n, cut |-> b] \in [ops : Offers, faults : Nat, cut : BOOLEAN]
      OBVIOUS
    <2> QED
      BY <2>3, <2>4, <2>5 DEF SceneOK
  <1>4. CASE \E b \in BOOLEAN : scene' = [scene EXCEPT !.faults = @ + 1, !.cut = b]
    <2>1. PICK b \in BOOLEAN : scene' = [scene EXCEPT !.faults = @ + 1, !.cut = b]
      BY <1>4
    <2>2. PICK o \in Offers, n \in Nat, c \in BOOLEAN : scene = [ops |-> o, faults |-> n, cut |-> c]
      BY DEF SceneOK
    <2>3. scene' = [ops |-> o, faults |-> n + 1, cut |-> b]
      <3>1. [scene EXCEPT !.faults = @ + 1] = [ops |-> o, faults |-> n + 1, cut |-> c]
        BY <2>2
      <3> QED
        BY <2>1, <3>1
    <2>4. scene'.ops = scene.ops
      BY <2>2, <2>3
    <2>5. [ops |-> o, faults |-> n + 1, cut |-> b] \in [ops : Offers, faults : Nat, cut : BOOLEAN]
      OBVIOUS
    <2> QED
      BY <2>3, <2>4, <2>5 DEF SceneOK
  <1>5. ASSUME NEW a \in Actors,
               \/ Start(a) \/ Edit(a) \/ Toggle(a) \/ Locks(a)
               \/ Missing(a) \/ Plan(a) \/ Deploy(a) \/ EditFails(a)
               \/ Compare(a) \/ PutsBack(a)
               \/ Status(a) \/ Templates(a) \/ DamageFails(a) \/ Spawn(a)
               \/ Read1(a) \/ Save1(a) \/ Fill1(a) \/ Clear1(a)
               \/ Read2(a) \/ Save2(a) \/ Clear2(a)
        PROVE  UNCHANGED scene
    BY <1>5 DEF Start, Edit, Toggle, Locks, Missing, Plan, Deploy, EditFails, Compare, PutsBack,
                Status, Templates, DamageFails, Spawn, Read1, Save1, Fill1, Clear1, Read2, Save2, Clear2
  <1>6. ASSUME NEW a \in Actors, Note(a)
        PROVE  UNCHANGED scene \/ scene' = [scene EXCEPT !.faults = @ + 1]
    BY <1>6 DEF Note
  <1>7. ASSUME NEW a \in Actors, Fill2(a) \/ Put1(a) \/ Put2(a) \/ ToggleFails(a)
        PROVE  UNCHANGED scene \/ \E b \in BOOLEAN : scene' = [scene EXCEPT !.cut = b]
    <2>1. scene.cut \in BOOLEAN
      BY DEF SceneOK
    <2>2. CASE Fill2(a)
      BY <2>2 DEF Fill2
    <2>3. CASE Put1(a)
      BY <2>1, <2>3 DEF Put1, HalfSaved
    <2>4. CASE Put2(a)
      BY <2>1, <2>4 DEF Put2, HalfSaved
    <2>5. CASE ToggleFails(a)
      BY <2>1, <2>5 DEF ToggleFails
    <2> QED
      BY <1>7, <2>2, <2>3, <2>4, <2>5
  <1>8. Killed => \E b \in BOOLEAN : scene' = [scene EXCEPT !.faults = @ + 1, !.cut = b]
    <2>1. scene.cut \in BOOLEAN
      BY DEF SceneOK
    <2> QED
      BY <2>1 DEF Killed, HalfSaved
  <1>9. Stop \/ Update \/ UNCHANGED editVars => UNCHANGED scene
    BY DEF Stop, Update, editVars
  <1> QED
    BY <1>1, <1>2, <1>3, <1>4, <1>5, <1>6, <1>7, <1>8, <1>9 DEF EditsNext

LEMMA StepHolds ==
    ASSUME SceneOK, EditsInv, [EditsNext]_editVars PROVE EditsInv'
  <1>1. CASE UNCHANGED editVars
    BY <1>1 DEF editVars, files, EditsInv, Typed, EditsTypeOK, StepsOK, Backups, Holds,
                Deployed, WayBack, Toggled, RowsKept, ToggleOf, Whole1, Whole2, HalfSaved, At
  <1>2. ASSUME NEW a \in Actors,
               Start(a) \/ Edit(a) \/ Toggle(a) \/ Locks(a)
        PROVE  EditsInv'
    BY <1>2, StartHolds, EditHolds, ToggleHolds, LockHolds
  <1>3. ASSUME NEW a \in Actors,
               \/ Missing(a) \/ Plan(a) \/ Note(a) \/ Deploy(a) \/ EditFails(a)
               \/ Compare(a) \/ PutsBack(a)
        PROVE  EditsInv'
    BY <1>3, MissingHolds, PlanHolds, NoteHolds, DeployHolds, EditFailsHolds, CompareHolds, PutBackHolds
  <1>4. ASSUME NEW a \in Actors, Status(a) \/ Templates(a) \/ DamageFails(a) \/ Spawn(a)
        PROVE  EditsInv'
    BY <1>4, StatusHolds, TemplatesHolds, DamageFailsHolds, SpawnHolds
  <1>5. ASSUME NEW a \in Actors,
               \/ Read1(a) \/ Save1(a) \/ Fill1(a) \/ Clear1(a)
               \/ Read2(a) \/ Save2(a) \/ Fill2(a) \/ Clear2(a)
               \/ Put1(a) \/ Put2(a) \/ ToggleFails(a)
        PROVE  EditsInv'
    BY <1>5, Read1Holds, Save1Holds, Fill1Holds, Clear1Holds, Read2Holds, Save2Holds, Fill2Holds,
       Clear2Holds, Put1Holds, Put2Holds, ToggleFailsHolds
  <1> QED
    BY <1>1, <1>2, <1>3, <1>4, <1>5, StopHolds, UpdateHolds, CrashHolds DEF EditsNext

LEMMA InvAlways == EditsSpec => [](SceneOK /\ EditsInv)
  <1> QED
    BY InitHolds, SceneInit, SceneStep, StepHolds, PTL DEF EditsSpec

\* Entries and backups stay in their domains, and the lock is held by just the actor
\* that is under it: for any number of actors, updates and crashes.
THEOREM EditsTyped == EditsSpec => []EditsTypeOK
  <1>1. EditsInv => EditsTypeOK
    BY DEF EditsInv, Typed
  <1> QED
    BY InvAlways, <1>1, PTL

\* No track is in the archive without a backup from before the first one.
THEOREM WayBackAlways == EditsSpec => []WayBack
  <1>1. EditsInv => WayBack
    BY DEF EditsInv, Deployed
  <1> QED
    BY InvAlways, <1>1, PTL

\* What the penalty toggle has cleared it can put back, also from an archive that
\* trackdeploy::restore brought back: unless a backup was left half written, or put back so.
THEOREM PenaltiesBackAlways == EditsSpec => []PenaltiesBack
  <1>1. EditsInv => PenaltiesBack
    BY DEF EditsInv, Toggled, RowsKept, Whole1, Whole2, PenaltiesBack
  <1> QED
    BY InvAlways, <1>1, PTL
-----------------------------------------------------------------------------
(* One build: while every backup got its note. *)

Builds ==
    /\ SceneOK
    /\ scene.faults = 0 =>
        /\ arch.build = build
        /\ backup # None /\ (\A a \in Actors : ~At(a, "note")) => note = backup.build
        /\ \A a \in Actors : op[a].pc \in {"note", "copy"} => backup.build = build

LEMMA BuildsInit == EditsInit => Builds
  <1> SUFFICES ASSUME EditsInit PROVE Builds
    OBVIOUS
  <1>1. SceneOK
    BY SceneInit
  <1>2. arch.build = build
    <2>1. PICK practice \in {100, Foreign}, race \in {100, Foreign} :
              arch = [Stock(0) EXCEPT !.practice.damage = practice, !.race = race]
      BY DEF EditsInit
    <2> QED
      BY <2>1 DEF EditsInit, Stock
  <1> QED
    BY <1>1, <1>2 DEF EditsInit, Builds, At, Resting

\* A step that touches neither the backup nor the build.
LEMMA SameBuild ==
    ASSUME EditsInv, Builds, NEW a \in Actors, Moves(a), UNCHANGED <<backup, note>>,
           SceneOK', scene'.faults = scene.faults, op[a].pc # "note", op'[a].pc \notin {"note", "copy"}, arch'.build = arch.build
    PROVE  Builds'
  <1>1. \A b \in Actors \ {a} : op'[b] = op[b]
    BY DEF Moves, Others
  <1>2. (\A b \in Actors : ~At(b, "note")') => (\A b \in Actors : ~At(b, "note"))
    BY <1>1 DEF At
  <1>3. build' = build
    BY DEF Moves
  <1>4. scene'.faults = 0 /\ backup' # None /\ (\A b \in Actors : ~At(b, "note")') => note' = backup'.build
    BY <1>2 DEF Builds
  <1>5. ASSUME NEW b \in Actors, scene'.faults = 0, op'[b].pc \in {"note", "copy"}
        PROVE  backup'.build = build'
    BY <1>1, <1>3, <1>5 DEF Builds
  <1> QED
    BY <1>3, <1>4, <1>5 DEF Builds

LEMMA BuildsStep ==
    ASSUME EditsInv, Builds, [EditsNext]_editVars PROVE Builds'
  <1>a. SceneOK /\ SceneOK'
    BY SceneStep DEF Builds
  <1>0. /\ arch \in Archives /\ backup \in Archives \cup {None}
        /\ \A a \in Actors : Holds(a) <=> op[a].pc \in UnderLock
    BY DEF EditsInv, Typed, EditsTypeOK
  <1>1. CASE UNCHANGED editVars
    BY <1>a, <1>1 DEF editVars, files, Builds, At
  <1>2. ASSUME NEW a \in Actors,
               Start(a) \/ Edit(a) \/ Toggle(a) \/ Locks(a) \/ Missing(a) \/ EditFails(a)
        PROVE  Builds'
    <2>1. Moves(a) /\ op'[a].pc \notin {"note", "copy"}
      BY <1>2, StartHolds, EditHolds, ToggleHolds, LockHolds, MissingHolds, EditFailsHolds
    <2>2. op[a].pc # "note" /\ UNCHANGED <<arch, backup, note, scene>>
      BY <1>2 DEF Start, Edit, Toggle, Locks, Missing, EditFails, At, files
    <2> QED
      BY <1>a, <2>1, <2>2, SameBuild
  <1>3. ASSUME NEW a \in Actors, Status(a) \/ DamageFails(a) \/ Spawn(a) PROVE Builds'
    <2>1. Moves(a) /\ op'[a].pc \notin {"note", "copy"}
      BY <1>3, StatusHolds, DamageFailsHolds, SpawnHolds
    <2>2. op[a].pc # "note" /\ UNCHANGED <<arch, backup, note, scene>>
      BY <1>3 DEF Status, DamageFails, Spawn, At, files
    <2> QED
      BY <1>a, <2>1, <2>2, SameBuild
  <1>4. ASSUME NEW a \in Actors, Templates(a) PROVE Builds'
    <2>1. Moves(a) /\ op'[a].pc \notin {"note", "copy"}
      BY <1>4, TemplatesHolds
    <2>2. op[a].pc # "note" /\ UNCHANGED <<backup, note, scene>>
      BY <1>4 DEF Templates, At, files
    <2>3. \/ UNCHANGED arch
          \/ arch' = [arch EXCEPT !.practice.damage = op[a].damage, !.race = op[a].damage]
      BY <1>4, Zenon DEF Templates
    <2>4. arch'.build = arch.build
      <3>1. CASE UNCHANGED arch
        BY <3>1
      <3>2. CASE arch' = [arch EXCEPT !.practice.damage = op[a].damage, !.race = op[a].damage]
        BY <1>0, <3>2 DEF Archives
      <3> QED
        BY <2>3, <3>1, <3>2
    <2> QED
      BY <1>a, <2>1, <2>2, <2>4, SameBuild
  <1>5. ASSUME NEW a \in Actors, Deploy(a) PROVE Builds'
    <2>1. Moves(a) /\ op'[a].pc \notin {"note", "copy"}
      BY <1>5, DeployHolds
    <2>2. op[a].pc # "note" /\ UNCHANGED <<backup, note, scene>>
      BY <1>5 DEF Deploy, At, files
    <2>3. arch'.build = arch.build
      BY <1>0, <1>5 DEF Deploy, Archives
    <2> QED
      BY <1>a, <2>1, <2>2, <2>3, SameBuild
  <1>6. ASSUME NEW a \in Actors, Plan(a) PROVE Builds'
    <2>1. Moves(a) /\ op'[a].pc \in {"idle", "status", "lock", "note", "write"}
      BY <1>6, PlanHolds
    <2>2. op[a].pc = "plan" /\ UNCHANGED <<arch, note, scene>>
      BY <1>6 DEF Plan, At
    <2>3. CASE backup' = backup /\ op'[a].pc # "note"
      BY <1>a, <2>1, <2>2, <2>3, SameBuild
    <2>4. CASE backup = None /\ backup' = arch /\ op'[a].pc = "note"
      <3>1. \A b \in Actors \ {a} : op'[b] = op[b] /\ op[b].pc \notin {"note", "copy"}
        BY <1>0, <2>1, <2>2, NotNone DEF Moves, Others, Holds, UnderLock
      <3> QED
        BY <1>a, <2>1, <2>2, <2>4, <3>1 DEF Builds, At, Moves
    <2>5. \/ backup' = backup /\ op'[a].pc # "note"
          \/ backup = None /\ backup' = arch /\ op'[a].pc = "note"
      <3>1. CASE Done(a, arch.tracks) /\ UNCHANGED backup
        <4>1. op'[a].pc \in {"idle", "status", "lock"}
          BY <2>2, <3>1, DoneMoves DEF EditsInv
        <4> QED
          BY <3>1, <4>1
      <3>2. CASE /\ backup' = IF backup = None THEN arch ELSE backup
                 /\ Does(a, [op[a] EXCEPT !.pc = IF backup = None THEN "note" ELSE "write",
                                          !.seen = arch.tracks])
        <4>1. op[a] \in StartSteps \cup DeploySteps
          BY <2>2, Sites DEF EditsInv, Typed
        <4>2. op'[a].pc = IF backup = None THEN "note" ELSE "write"
          BY <3>2, <4>1 DEF Does, EditsInv, Typed, StepsOK, StartSteps, DeploySteps
        <4> QED
          BY <3>2, <4>2
      <3> QED
        BY <1>6, <3>1, <3>2 DEF Plan
    <2> QED
      BY <2>3, <2>4, <2>5
  <1>7. ASSUME NEW a \in Actors, Note(a) PROVE Builds'
    <2>1. Moves(a) /\ op'[a].pc = "write"
      BY <1>a, <1>7, NoteHolds
    <2>2. op[a].pc = "note" /\ UNCHANGED <<arch, backup>>
      BY <1>7 DEF Note, At
    <2>3. \/ note' = build /\ scene' = scene
          \/ scene'.faults = scene.faults + 1
      BY <1>a, <1>7 DEF Note, SceneOK
    <2>4. \A b \in Actors \ {a} : op'[b] = op[b]
      BY <2>1 DEF Moves, Others
    <2> QED
      BY <1>a, <2>1, <2>2, <2>3, <2>4 DEF Builds, At, Moves, SceneOK
  <1>8. ASSUME NEW a \in Actors, Compare(a) PROVE Builds'
    <2>1. Moves(a) /\ op'[a].pc \in {"idle", "status", "lock", "copy"}
      BY <1>8, CompareHolds
    <2>2. op[a].pc = "compare" /\ UNCHANGED <<arch, backup, note, scene>>
      BY <1>8 DEF Compare, At, files
    <2>3. CASE op'[a].pc # "copy"
      BY <1>a, <2>1, <2>2, <2>3, SameBuild
    <2>4. CASE op'[a].pc = "copy"
      <3>1. backup # None /\ ~Stale
        <4>1. CASE Done(a, arch.tracks)
          BY <2>2, <2>4, <4>1, DoneMoves DEF EditsInv
        <4> QED
          BY <1>8, <4>1 DEF Compare
      <3>2. \A b \in Actors \ {a} : op'[b] = op[b] /\ op[b].pc # "note"
        BY <1>0, <2>1, <2>2, NotNone DEF Moves, Others, Holds, UnderLock
      <3>3. scene.faults = 0 => backup.build = build
        <4>1. scene.faults = 0 => note = backup.build /\ backup.build \in 0..MaxUpdates
          BY <1>0, <2>2, <3>1, <3>2 DEF Builds, At, Archives
        <4> QED
          BY <3>1, <4>1, EditsAssumption DEF Stale
      <3> QED
        BY <1>a, <2>1, <2>2, <2>4, <3>2, <3>3 DEF Builds, At, Moves
    <2> QED
      BY <2>3, <2>4
  <1>9. ASSUME NEW a \in Actors, PutsBack(a) PROVE Builds'
    <2>1. Moves(a) /\ op'[a].pc \notin {"note", "copy"}
      BY <1>9, PutBackHolds
    <2>2. op[a].pc = "copy" /\ UNCHANGED <<backup, note, scene>> /\ arch' = backup
      BY <1>9 DEF PutsBack, At, files
    <2>3. \A b \in Actors \ {a} : op'[b] = op[b]
      BY <2>1 DEF Moves, Others
    <2> QED
      BY <1>a, <2>1, <2>2, <2>3 DEF Builds, At, Moves
  <1>10. ASSUME NEW a \in Actors,
                \/ Read1(a) \/ Save1(a) \/ Fill1(a) \/ Clear1(a)
                \/ Read2(a) \/ Save2(a) \/ Fill2(a) \/ Clear2(a)
                \/ Put1(a) \/ Put2(a) \/ ToggleFails(a)
         PROVE  Builds'
    <2>1. Moves(a) /\ op'[a].pc \notin {"note", "copy"}
      BY <1>a, <1>10, Read1Holds, Save1Holds, Fill1Holds, Clear1Holds, Read2Holds, Save2Holds,
         Fill2Holds, Clear2Holds, Put1Holds, Put2Holds, ToggleFailsHolds
    <2>2. op[a].pc # "note" /\ UNCHANGED <<backup, note>>
      BY <1>10 DEF Read1, Save1, Fill1, Clear1, Read2, Save2, Fill2, Clear2, Put1, Put2, ToggleFails, At, files
    <2>3. scene'.faults = scene.faults
      BY <1>a, <1>10 DEF SceneOK, Read1, Save1, Fill1, Clear1, Read2, Save2, Fill2, Clear2, Put1, Put2, ToggleFails
    <2>4. arch'.build = arch.build
      BY <1>0, <1>10 DEF Read1, Save1, Fill1, Clear1, Read2, Save2, Fill2, Clear2, Put1, Put2, ToggleFails,
                         files, Archives
    <2> QED
      BY <1>a, <2>1, <2>2, <2>3, <2>4, SameBuild
  <1>11. CASE Stop
    BY <1>a, <1>11 DEF Stop, files, Builds, At
  <1>12. CASE Update
    <2>1. \A a \in Actors : op[a].pc = "idle" /\ op'[a] = op[a]
      BY <1>12 DEF Update, At
    <2>2. /\ UNCHANGED <<backup, note, scene>> /\ build' = build + 1
          /\ arch'.build = build'
      BY <1>12 DEF Update, Stock, files
    <2> QED
      BY <1>a, <2>1, <2>2 DEF Builds, At
  <1>13. CASE Killed
    BY <1>a, <1>13 DEF Killed, Builds, SceneOK
  <1> QED
    BY <1>1, <1>2, <1>3, <1>4, <1>5, <1>6, <1>7, <1>8, <1>9, <1>10, <1>11, <1>12, <1>13
       DEF EditsNext

\* Restore never puts the archive of an older game under a newer server, as long as
\* every backup got its build note: for any number of actors, tracks and updates.
THEOREM OneBuildAlways == EditsSpec => []OneBuild
  <1>1. EditsInv /\ Builds /\ [EditsNext]_editVars => Builds'
    BY BuildsStep
  <1>2. EditsInv /\ Builds => OneBuild
    BY DEF Builds, OneBuild
  <1> QED
    BY <1>1, <1>2, BuildsInit, InvAlways, PTL DEF EditsSpec
-----------------------------------------------------------------------------
(* What is deployed stays: the tables a deploy is about to write are those it *)
(* read, for it has held the lock since.                                      *)

Seen == \A a \in Actors : op[a].pc \in {"note", "write"} => op[a].seen = arch.tracks

\* A step that leaves no actor about to write, and the tracks alone unless it has the lock.
LEMMA SameSeen ==
    ASSUME EditsInv, Seen, NEW a \in Actors, Moves(a), op'[a].pc \notin {"note", "write"},
           arch'.tracks = arch.tracks \/ op[a].pc \in UnderLock
    PROVE  Seen'
  <1> SUFFICES ASSUME NEW b \in Actors, op'[b].pc \in {"note", "write"}
               PROVE  op'[b].seen = arch'.tracks
    BY DEF Seen
  <1>1. b # a /\ op'[b] = op[b]
    BY DEF Moves, Others
  <1>2. Holds(b) /\ ~Holds(a)
    BY <1>1 DEF EditsInv, Typed, EditsTypeOK, Holds, UnderLock
  <1>3. op[a].pc \notin UnderLock
    BY <1>2 DEF EditsInv, Typed, EditsTypeOK
  <1> QED
    BY <1>1, <1>3 DEF Seen

LEMMA SeenStep ==
    ASSUME SceneOK, EditsInv, Seen, [EditsNext]_editVars
    PROVE  /\ Seen'
           /\ arch.tracks \subseteq arch'.tracks
              \/ build' # build \/ \E a \in Actors : At(a, "copy")
  <1>0. arch \in Archives /\ backup \in Archives \cup {None}
    BY DEF EditsInv, Typed, EditsTypeOK
  <1>1. CASE UNCHANGED editVars
    BY <1>1 DEF editVars, Seen
  <1>2. ASSUME NEW a \in Actors,
               \/ Start(a) \/ Edit(a) \/ Toggle(a) \/ Locks(a) \/ Missing(a) \/ EditFails(a)
               \/ Compare(a) \/ Status(a) \/ DamageFails(a) \/ Spawn(a)
        PROVE  Seen' /\ UNCHANGED arch
    <2>1. Moves(a) /\ op'[a].pc \notin {"note", "write"}
      BY <1>2, StartHolds, EditHolds, ToggleHolds, LockHolds, MissingHolds, EditFailsHolds,
         CompareHolds, StatusHolds, DamageFailsHolds, SpawnHolds
    <2>2. UNCHANGED arch
      BY <1>2 DEF Start, Edit, Toggle, Locks, Missing, EditFails, Compare, Status, DamageFails, Spawn
    <2> QED
      BY <2>1, <2>2, SameSeen
  <1>3. ASSUME NEW a \in Actors, Templates(a) PROVE Seen' /\ arch'.tracks = arch.tracks
    <2>1. Moves(a) /\ op'[a].pc \notin {"note", "write"}
      BY <1>3, TemplatesHolds
    <2>2. \/ UNCHANGED arch
          \/ arch' = [arch EXCEPT !.practice.damage = op[a].damage, !.race = op[a].damage]
      BY <1>3, Zenon DEF Templates
    <2>3. arch'.tracks = arch.tracks
      <3>1. CASE UNCHANGED arch
        BY <3>1
      <3>2. CASE arch' = [arch EXCEPT !.practice.damage = op[a].damage, !.race = op[a].damage]
        BY <1>0, <3>2 DEF Archives
      <3> QED
        BY <2>2, <3>1, <3>2
    <2> QED
      BY <2>1, <2>3, SameSeen
  <1>4. ASSUME NEW a \in Actors,
               \/ Read1(a) \/ Save1(a) \/ Fill1(a) \/ Clear1(a)
               \/ Read2(a) \/ Save2(a) \/ Fill2(a) \/ Clear2(a)
               \/ Put1(a) \/ Put2(a) \/ ToggleFails(a)
        PROVE  Seen' /\ arch'.tracks = arch.tracks
    <2>1. Moves(a) /\ op'[a].pc \notin {"note", "write"}
      BY <1>4, Read1Holds, Save1Holds, Fill1Holds, Clear1Holds, Read2Holds, Save2Holds,
         Fill2Holds, Clear2Holds, Put1Holds, Put2Holds, ToggleFailsHolds
    <2>2. arch'.tracks = arch.tracks
      BY <1>0, <1>4 DEF Read1, Save1, Fill1, Clear1, Read2, Save2, Fill2, Clear2, Put1, Put2, ToggleFails,
                        files, Archives
    <2> QED
      BY <2>1, <2>2, SameSeen
  <1>5. ASSUME NEW a \in Actors, Plan(a) PROVE Seen' /\ UNCHANGED arch
    <2>1. Moves(a) /\ op'[a].pc \in {"idle", "status", "lock", "note", "write"}
      BY <1>5, PlanHolds
    <2>2. UNCHANGED arch /\ op[a].pc = "plan"
      BY <1>5 DEF Plan, At
    <2>3. CASE op'[a].pc \notin {"note", "write"}
      BY <2>1, <2>2, <2>3, SameSeen
    <2>4. CASE op'[a].pc \in {"note", "write"}
      <3>1. op'[a].seen = arch.tracks
        <4>1. CASE Done(a, arch.tracks)
          BY <2>2, <2>4, <4>1, DoneMoves DEF EditsInv
        <4>2. CASE Does(a, [op[a] EXCEPT !.pc = IF backup = None THEN "note" ELSE "write",
                                         !.seen = arch.tracks])
          <5>1. op[a] \in StartSteps \cup DeploySteps
            BY <2>2, Sites DEF EditsInv, Typed
          <5> QED
            BY <4>2, <5>1 DEF Does, EditsInv, Typed, StepsOK, StartSteps, DeploySteps
        <4> QED
          BY <1>5, <4>1, <4>2 DEF Plan
      <3>2. \A b \in Actors \ {a} : op'[b] = op[b]
        BY <2>1 DEF Moves, Others
      <3> QED
        BY <2>2, <3>1, <3>2 DEF Seen
    <2> QED
      BY <2>2, <2>3, <2>4
  <1>6. ASSUME NEW a \in Actors, Note(a) PROVE Seen' /\ UNCHANGED arch
    <2>1. Moves(a) /\ Goes(a, "write") /\ UNCHANGED arch /\ op[a].pc = "note"
      BY <1>6, NoteHolds DEF Note, At
    <2>2. op'[a].seen = op[a].seen
      <3>1. op'[a] = [op[a] EXCEPT !.pc = "write"]
        BY <2>1, Went DEF EditsInv, Typed
      <3>2. op[a] \in StartSteps \cup DeploySteps
        BY <2>1, Sites DEF EditsInv, Typed
      <3> QED
        BY <3>1, <3>2 DEF StartSteps, DeploySteps
    <2>3. \A b \in Actors \ {a} : op'[b] = op[b]
      BY <2>1 DEF Moves, Others
    <2> QED
      BY <2>1, <2>2, <2>3 DEF Seen
  <1>7. ASSUME NEW a \in Actors, Deploy(a) PROVE Seen' /\ arch.tracks \subseteq arch'.tracks
    <2>1. Moves(a) /\ op'[a].pc \notin {"note", "write"} /\ op[a].pc = "write"
      BY <1>7, DeployHolds DEF Deploy, At
    <2>2. \E t : arch'.tracks = op[a].seen \cup {t}
      BY <1>0, <1>7 DEF Deploy, Archives
    <2> QED
      BY <2>1, <2>2, SameSeen DEF Seen, UnderLock
  <1>8. ASSUME NEW a \in Actors, PutsBack(a) PROVE Seen' /\ At(a, "copy")
    <2>1. Moves(a) /\ op'[a].pc \notin {"note", "write"} /\ op[a].pc = "copy"
      BY <1>8, PutBackHolds DEF PutsBack, At
    <2> QED
      BY <2>1, SameSeen DEF UnderLock, At
  <1>9. CASE Stop
    BY <1>9 DEF Stop, Seen
  <1>10. CASE Update
    <2>1. build' # build
      BY <1>10 DEF Update, EditsInv, Typed, EditsTypeOK
    <2>2. \A a \in Actors : op'[a].pc = "idle"
      BY <1>10 DEF Update, At
    <2> QED
      BY <2>1, <2>2 DEF Seen
  <1>11. CASE Killed
    BY <1>11 DEF Killed, Resting, Seen
  <1> QED
    BY <1>1, <1>2, <1>3, <1>4, <1>5, <1>6, <1>7, <1>8, <1>9, <1>10, <1>11 DEF EditsNext

\* Two edits of the tables never lose a row, for any number of actors and tracks and
\* wherever one of them is killed: only Steam and a restored backup take a track away.
THEOREM TracksKeptAlways == EditsSpec => TracksKept
  <1>1. EditsInit => Seen
    BY DEF EditsInit, Resting, Seen
  <1>2. SceneOK /\ EditsInv /\ Seen /\ [EditsNext]_editVars => Seen'
    BY SeenStep
  <1>3. SceneOK /\ EditsInv /\ Seen /\ [EditsNext]_editVars
        => [arch.tracks \subseteq arch'.tracks
            \/ build' # build \/ \E a \in Actors : At(a, "copy")]_editVars
    BY SeenStep
  <1> QED
    BY <1>1, <1>2, <1>3, InvAlways, PTL DEF EditsSpec, TracksKept
-----------------------------------------------------------------------------
(* A server runs with the damage its start set: one start is under way at a   *)
(* time and no server runs then, and of what goes on beside it only the       *)
(* toggle and restore touch a template.                                       *)

Guarded == scene.ops \cap Unguarded = {}
Starting(a) == op[a].pc # "idle" /\ op[a].kind = "start"

Served ==
    /\ \A a, b \in Actors : Starting(a) /\ Starting(b) => a = b
    /\ \A a \in Actors : Starting(a) => ~Running /\ (op[a].applied => op[a].pc = "spawn")
    /\ Guarded => \A a \in Actors :
        /\ op[a].pc # "idle" => op[a].kind \in {"start", "deploy", "redeclare"}
        /\ Starting(a) /\ op[a].applied => Shows(op[a].damage)
    /\ ServedAsAsked

\* What most steps do: the actor ends, or goes on with what it was doing.
GoesOn(a) ==
    /\ op[a].pc # "idle"
    /\ \/ op'[a].pc = "idle"
       \/ /\ op'[a].kind = op[a].kind /\ op'[a].pc # "idle"
          /\ op[a].kind = "start" => ~op'[a].applied
Damage == arch'.practice.damage = arch.practice.damage /\ arch'.race = arch.race

LEMMA GoingOn ==
    ASSUME EditsInv, Served, NEW a \in Actors, Moves(a), GoesOn(a), Guarded => Damage,
           UNCHANGED live, scene'.ops = scene.ops
    PROVE  Served'
  <1>1. \A b \in Actors \ {a} : op'[b] = op[b]
    BY DEF Moves, Others
  <1>2. \A b \in Actors : Starting(b)' => Starting(b)
    BY <1>1 DEF Starting, GoesOn
  <1>3. \A b, d \in Actors : Starting(b)' /\ Starting(d)' => b = d
    BY <1>2 DEF Served
  <1>4. \A b \in Actors : Starting(b)' => ~Running' /\ (op'[b].applied => op'[b].pc = "spawn")
    BY <1>1, <1>2 DEF Served, Running, GoesOn, Starting
  <1>5. (Guarded' <=> Guarded) /\ (Guarded => Damage)
    BY DEF Guarded
  <1>6. ASSUME Guarded, NEW b \in Actors
        PROVE  /\ op'[b].pc # "idle" => op'[b].kind \in {"start", "deploy", "redeclare"}
               /\ Starting(b)' /\ op'[b].applied => Shows(op[b].damage)'
    <2>1. CASE b = a
      BY <1>6, <2>1 DEF Served, GoesOn, Starting
    <2>2. CASE b # a
      BY <1>1, <1>5, <1>6, <2>2 DEF Served, Starting, Shows, Percents, Damage
    <2> QED
      BY <2>1, <2>2
  <1>7. ServedAsAsked'
    BY <1>5 DEF Served, ServedAsAsked, Guarded, Running, Shows, Percents, Damage
  <1> QED
    BY <1>3, <1>4, <1>5, <1>6, <1>7 DEF Served

\* The end of an edit leaves a start to go on without its damage.
LEMMA DoneGoesOn ==
    ASSUME EditsInv, Served, NEW a \in Actors, NEW tracks, Done(a, tracks),
           op[a].pc \in {"lock", "missing", "plan", "write", "compare", "copy"}
    PROVE  GoesOn(a)
  <1>1. op[a] \in Steps /\ op \in [Actors -> Steps]
    BY DEF EditsInv, Typed, StepsOK
  <1>2. CASE op[a].kind # "start"
    BY <1>1, <1>2 DEF Done, Does, Resting, GoesOn
  <1>3. CASE op[a].kind = "start"
    <2>1. op[a] \in StartSteps /\ ~op[a].applied
      BY <1>1, <1>3 DEF Steps, DeploySteps, ToggleSteps, StartSteps, Served, Starting
    <2>2. \/ op'[a] = Resting
          \/ op'[a] = [op[a] EXCEPT !.pc = "status"]
          \/ op'[a] = Repairing(op[a].damage, op[a].track, 1)
      BY <1>1, <1>3 DEF Done, Does, Goes
    <2> QED
      BY <1>3, <2>1, <2>2 DEF GoesOn, Resting, Repairing, StartSteps
  <1> QED
    BY <1>2, <1>3

\* A step that changes the place and the plan of a deploy alone.
LEMMA SameGoesOn ==
    ASSUME EditsInv, Served, NEW a \in Actors, op[a].pc \notin {"idle", "spawn"}, op'[a].pc # "idle",
           op'[a].kind = op[a].kind, op[a].kind = "start" => op'[a].applied = op[a].applied
    PROVE  GoesOn(a)
  BY DEF GoesOn, Served, Starting

LEMMA RestGoesOn ==
    ASSUME EditsInv, Served, NEW a \in Actors, NEW t, NEW tracks, Rest(a, t, tracks),
           op[a].pc \in {"plan", "write"}
    PROVE  GoesOn(a)
  <1>1. CASE Done(a, tracks)
    BY <1>1, DoneGoesOn
  <1>2. CASE Does(a, [op[a] EXCEPT !.pc = "plan", !.todo = @ \ {t}])
    <2>1. op[a] \in StartSteps \cup DeploySteps /\ op \in [Actors -> Steps]
      BY Sites DEF EditsInv, Typed, StepsOK
    <2>2. op'[a] = [op[a] EXCEPT !.pc = "plan", !.todo = @ \ {t}]
      BY <1>2, <2>1 DEF Does
    <2> QED
      BY <2>1, <2>2, SameGoesOn DEF StartSteps, DeploySteps
  <1> QED
    BY <1>1, <1>2 DEF Rest

\* The start's own steps: it has set the damage, found it set, or goes on without.
LEMMA StartGoesOn ==
    ASSUME EditsInv, Served, NEW a \in Actors, Moves(a), Starting(a), UNCHANGED <<live, scene>>,
           op'[a].kind = "start", op'[a].damage = op[a].damage, op'[a].pc # "idle",
           op'[a].applied => op'[a].pc = "spawn" /\ Shows(op[a].damage)'
    PROVE  Served'
  <1>1. \A b \in Actors \ {a} : op'[b] = op[b] /\ ~Starting(b)
    BY DEF Moves, Others, Served
  <1>2. ~Running /\ ~Running'
    BY DEF Served, Running
  <1>3. Starting(a)' /\ (Guarded' <=> Guarded) /\ \A b \in Actors : Starting(b)' => b = a
    BY <1>1 DEF Starting, Guarded
  <1>4. ASSUME Guarded, NEW b \in Actors
        PROVE  /\ op'[b].pc # "idle" => op'[b].kind \in {"start", "deploy", "redeclare"}
               /\ Starting(b)' /\ op'[b].applied => Shows(op[b].damage)'
    <2>1. CASE b = a
      BY <2>1 DEF Shows
    <2>2. CASE b # a
      BY <1>1, <1>3, <1>4, <2>2 DEF Served
    <2> QED
      BY <2>1, <2>2
  <1>5. ServedAsAsked'
    BY <1>2 DEF ServedAsAsked
  <1> QED
    BY <1>2, <1>3, <1>4, <1>5 DEF Served

\* The begin of an operation.
LEMMA Begins ==
    ASSUME EditsInv, Served, NEW a \in Actors, Moves(a), op[a].pc = "idle", UNCHANGED <<arch, live, scene>>,
           op'[a].kind = "start" =>
               ~Running /\ (\A b \in Actors : ~Starting(b)) /\ ~op'[a].applied,
           Guarded => op'[a].kind \in {"start", "deploy", "redeclare"}
    PROVE  Served'
  <1>1. \A b \in Actors \ {a} : op'[b] = op[b]
    BY DEF Moves, Others
  <1>2. (Running' <=> Running) /\ (Guarded' <=> Guarded) /\ (ServedAsAsked' <=> ServedAsAsked)
    BY DEF Running, Guarded, ServedAsAsked, Shows, Percents
  <1>3. \A b, d \in Actors : Starting(b)' /\ Starting(d)' => b = d
    BY <1>1 DEF Served, Starting
  <1>4. \A b \in Actors : Starting(b)' => ~Running /\ (op'[b].applied => op'[b].pc = "spawn")
    BY <1>1 DEF Served, Starting
  <1>5. ASSUME Guarded, NEW b \in Actors
        PROVE  /\ op'[b].pc # "idle" => op'[b].kind \in {"start", "deploy", "redeclare"}
               /\ Starting(b)' /\ op'[b].applied => Shows(op[b].damage)'
    BY <1>1, <1>5 DEF Served, Starting, Shows, Percents
  <1> QED
    BY <1>2, <1>3, <1>4, <1>5 DEF Served

LEMMA ServedStep ==
    ASSUME SceneOK, EditsInv, Served, [EditsNext]_editVars PROVE Served'
  <1>0. /\ op \in [Actors -> Steps] /\ arch \in Archives
        /\ scene'.ops = scene.ops
    BY SceneStep DEF EditsInv, Typed, EditsTypeOK, StepsOK
  <1>1. CASE UNCHANGED editVars
    BY <1>1 DEF editVars, Served, Starting, Guarded, Running, ServedAsAsked, Shows, Percents
  <1>2. ASSUME NEW a \in Actors, Start(a) PROVE Served'
    <2>1. PICK damage \in Damages, track \in Tracks \cup {None} :
              op'[a] = [Repairing(damage, track, 2) EXCEPT
                          !.pc = IF track \in arch.tracks \cup {None} THEN "status" ELSE "lock"]
      BY <1>0, <1>2 DEF Start, Does
    <2>2. op'[a].kind = "start" /\ ~op'[a].applied
      BY <2>1 DEF Repairing
    <2>3. Moves(a) /\ op[a].pc = "idle" /\ UNCHANGED <<arch, live, scene>> /\ ~Running
      BY <1>2, StartHolds DEF Start, At
    <2>4. \A b \in Actors : ~Starting(b)
      BY <1>2 DEF Start, Busy, Starting
    <2> QED
      BY <2>2, <2>3, <2>4, Begins
  <1>3. ASSUME NEW a \in Actors, Edit(a) PROVE Served'
    <2>1. Moves(a) /\ op[a].pc = "idle" /\ UNCHANGED <<arch, live, scene>>
      BY <1>3, EditHolds DEF Edit, At
    <2>2. \/ op'[a].kind \in {"deploy", "redeclare"}
          \/ op'[a].kind = "restore" /\ "restore" \in scene.ops
      BY <1>0, <1>3 DEF Edit, Does
    <2> QED
      BY <2>1, <2>2, Begins DEF Guarded, Unguarded
  <1>4. ASSUME NEW a \in Actors, Toggle(a) PROVE Served'
    <2>1. Moves(a) /\ op[a].pc = "idle" /\ UNCHANGED <<arch, live, scene>>
      BY <1>4, ToggleHolds DEF Toggle, At
    <2>2. op'[a].kind \in {"off", "on"} /\ op'[a].kind \in scene.ops
      BY <1>0, <1>4 DEF Toggle, Does
    <2> QED
      BY <2>1, <2>2, Begins DEF Guarded, Unguarded
  <1>5. ASSUME NEW a \in Actors, Locks(a) PROVE Served'
    <2>1. Moves(a) /\ UNCHANGED <<arch, live, scene>> /\ op[a].pc \in {"lock", "dlock"} /\ op'[a].pc # "idle"
      BY <1>5, LockHolds DEF Locks, At
    <2>2. \E stage : op'[a] = [op[a] EXCEPT !.pc = stage]
      BY <1>0, <1>5 DEF Locks, Goes, Does
    <2>3. op'[a].kind = op[a].kind /\ (op[a].kind = "start" => op'[a].applied = op[a].applied)
      BY <1>0, <2>1, <2>2 DEF Steps, StartSteps, DeploySteps, ToggleSteps
    <2> QED
      BY <2>1, <2>3, SameGoesOn, GoingOn DEF Damage
  <1>6. ASSUME NEW a \in Actors, Missing(a) PROVE Served'
    <2>1. Moves(a) /\ UNCHANGED <<arch, live, scene>> /\ op[a].pc = "missing"
      BY <1>6, MissingHolds DEF Missing, At
    <2>2. CASE Done(a, arch.tracks)
      BY <2>1, <2>2, DoneGoesOn, GoingOn DEF Damage
    <2>3. CASE Does(a, [op[a] EXCEPT !.pc = "plan", !.todo = Tracks \ arch.tracks])
      <3>1. op'[a] = [op[a] EXCEPT !.pc = "plan", !.todo = Tracks \ arch.tracks]
        BY <1>0, <2>3 DEF Does
      <3>2. op[a] \in StartSteps \cup DeploySteps
        BY <2>1, Sites DEF EditsInv, Typed
      <3>3. GoesOn(a)
        BY <2>1, <3>1, <3>2, SameGoesOn DEF StartSteps, DeploySteps
      <3> QED
        BY <2>1, <3>3, GoingOn DEF Damage
    <2> QED
      BY <1>6, <2>2, <2>3 DEF Missing
  <1>7. ASSUME NEW a \in Actors, Plan(a) PROVE Served'
    <2>1. Moves(a) /\ UNCHANGED <<arch, live, scene>> /\ op[a].pc = "plan"
      BY <1>7, PlanHolds DEF Plan, At
    <2>2. CASE Done(a, arch.tracks)
      BY <2>1, <2>2, DoneGoesOn, GoingOn DEF Damage
    <2>3. CASE Does(a, [op[a] EXCEPT !.pc = IF backup = None THEN "note" ELSE "write",
                                     !.seen = arch.tracks])
      <3>1. op'[a] = [op[a] EXCEPT !.pc = IF backup = None THEN "note" ELSE "write",
                                   !.seen = arch.tracks]
        BY <1>0, <2>3 DEF Does
      <3>2. op[a] \in StartSteps \cup DeploySteps
        BY <2>1, Sites DEF EditsInv, Typed
      <3>3. GoesOn(a)
        BY <2>1, <3>1, <3>2, SameGoesOn DEF StartSteps, DeploySteps
      <3> QED
        BY <2>1, <3>3, GoingOn DEF Damage
    <2> QED
      BY <1>7, <2>2, <2>3 DEF Plan
  <1>8. ASSUME NEW a \in Actors, Note(a) PROVE Served'
    <2>1. Moves(a) /\ UNCHANGED <<arch, live>> /\ op[a].pc = "note" /\ Goes(a, "write")
      BY <1>8, NoteHolds DEF Note, At
    <2>2. scene'.ops = scene.ops
      BY <1>0, <1>8 DEF Note
    <2>3. op'[a] = [op[a] EXCEPT !.pc = "write"] /\ op[a] \in StartSteps \cup DeploySteps
      BY <2>1, Sites, Went DEF EditsInv, Typed
    <2>4. GoesOn(a)
      BY <2>1, <2>3, SameGoesOn DEF StartSteps, DeploySteps
    <2> QED
      BY <2>1, <2>2, <2>4, GoingOn DEF Damage
  <1>9. ASSUME NEW a \in Actors, Deploy(a) PROVE Served'
    <2>1. Moves(a) /\ UNCHANGED <<live, scene>> /\ op[a].pc = "write"
      BY <1>9, DeployHolds DEF Deploy, At
    <2>2. GoesOn(a)
      BY <1>9, <2>1, RestGoesOn DEF Deploy
    <2>3. Damage
      BY <1>0, <1>9 DEF Deploy, Damage, Archives
    <2> QED
      BY <2>1, <2>2, <2>3, GoingOn
  <1>10. ASSUME NEW a \in Actors, EditFails(a) PROVE Served'
    <2>1. Moves(a) /\ UNCHANGED <<arch, live, scene>>
      BY <1>10, EditFailsHolds DEF EditFails
    <2>2. GoesOn(a)
      BY <1>10, DoneGoesOn, RestGoesOn DEF EditFails
    <2> QED
      BY <2>1, <2>2, GoingOn DEF Damage
  <1>11. ASSUME NEW a \in Actors, Compare(a) PROVE Served'
    <2>1. Moves(a) /\ UNCHANGED <<arch, live, scene>> /\ op[a].pc = "compare"
      BY <1>11, CompareHolds DEF Compare, At
    <2>2. CASE Done(a, arch.tracks)
      BY <2>1, <2>2, DoneGoesOn, GoingOn DEF Damage
    <2>3. CASE Goes(a, "copy")
      <3>1. op'[a] = [op[a] EXCEPT !.pc = "copy"] /\ op[a].kind = "restore" /\ op'[a].kind = "restore"
        BY <2>1, <2>3, Sites, Went DEF EditsInv, Typed
      <3>2. op'[a].pc = "copy"
        BY <2>3, Went DEF EditsInv, Typed
      <3>3. GoesOn(a)
        BY <2>1, <3>1, <3>2 DEF GoesOn
      <3> QED
        BY <2>1, <3>3, GoingOn DEF Damage
    <2> QED
      BY <1>11, <2>2, <2>3 DEF Compare
  <1>12. ASSUME NEW a \in Actors, PutsBack(a) PROVE Served'
    <2>1. Moves(a) /\ UNCHANGED <<live, scene>> /\ op[a].pc = "copy" /\ Done(a, backup.tracks)
      BY <1>12, PutBackHolds DEF PutsBack, At
    <2>2. op[a].kind = "restore"
      BY <2>1, Sites DEF EditsInv, Typed
    <2>3. ~Guarded
      BY <2>1, <2>2 DEF Served
    <2> QED
      BY <2>1, <2>3, DoneGoesOn, GoingOn
  <1>13. ASSUME NEW a \in Actors, Status(a) PROVE Served'
    <2>1. Moves(a) /\ UNCHANGED <<arch, live, scene>> /\ op[a].pc = "status"
      BY <1>13, StatusHolds DEF Status, At
    <2>2. op[a] \in StartSteps /\ Starting(a) /\ ~op[a].applied
      BY <2>1, Sites DEF EditsInv, Typed, StartSteps, Starting, Served
    <2>3. \/ Shows(op[a].damage) /\ op'[a] = [op[a] EXCEPT !.pc = "spawn", !.applied = TRUE]
          \/ \E stage \in {"spawn", "dlock"} : op'[a] = [op[a] EXCEPT !.pc = stage]
      BY <1>0, <1>13 DEF Status, Goes, Does
    <2>4. Shows(op[a].damage) => Shows(op[a].damage)'
      <3>1. op'[a].damage = op[a].damage
        BY <2>2, <2>3 DEF StartSteps
      <3> QED
        BY <2>1, <3>1 DEF Shows, Percents
    <2> QED
      BY <2>1, <2>2, <2>3, <2>4, StartGoesOn DEF StartSteps
  <1>14. ASSUME NEW a \in Actors, Templates(a) PROVE Served'
    <2>1. Moves(a) /\ UNCHANGED <<live, scene>> /\ op[a].pc = "templates"
      BY <1>14, TemplatesHolds DEF Templates, At
    <2>2. op[a] \in StartSteps /\ Starting(a) /\ ~op[a].applied
      BY <2>1, Sites DEF EditsInv, Typed, StartSteps, Starting, Served
    <2>3. CASE UNCHANGED arch /\ Goes(a, "spawn")
      <3>1. op'[a] = [op[a] EXCEPT !.pc = "spawn"]
        BY <2>3, Went DEF EditsInv, Typed
      <3> QED
        BY <2>1, <2>2, <3>1, StartGoesOn DEF StartSteps
    <2>4. CASE /\ arch' = [arch EXCEPT !.practice.damage = op[a].damage, !.race = op[a].damage]
               /\ Does(a, [op[a] EXCEPT !.pc = "spawn", !.applied = TRUE])
      <3>1. op'[a] = [op[a] EXCEPT !.pc = "spawn", !.applied = TRUE]
        BY <1>0, <2>4 DEF Does
      <3>2. op'[a].damage = op[a].damage
        BY <2>2, <3>1 DEF StartSteps
      <3>3. arch'.practice.damage = op[a].damage /\ arch'.race = op[a].damage
        BY <1>0, <2>4 DEF Archives, Template
      <3>4. op[a].damage \notin {Foreign, Torn}
        BY <2>2, EditsAssumption DEF StartSteps
      <3>5. Shows(op[a].damage)'
        BY <3>2, <3>3, <3>4 DEF Shows, Percents
      <3> QED
        BY <2>1, <2>2, <3>1, <3>5, StartGoesOn DEF StartSteps
    <2> QED
      BY <1>14, <2>3, <2>4, Zenon DEF Templates
  <1>15. ASSUME NEW a \in Actors, DamageFails(a) PROVE Served'
    <2>1. Moves(a) /\ UNCHANGED <<arch, live, scene>> /\ op[a].pc \in {"dlock", "templates"}
      BY <1>15, DamageFailsHolds DEF DamageFails
    <2>2. op[a] \in StartSteps /\ Starting(a) /\ ~op[a].applied
      BY <2>1, Sites DEF EditsInv, Typed, StartSteps, Starting, Served
    <2>3. op'[a] = [op[a] EXCEPT !.pc = "spawn"]
      BY <1>15, Went DEF DamageFails, EditsInv, Typed
    <2> QED
      BY <2>1, <2>2, <2>3, StartGoesOn DEF StartSteps
  <1>16. ASSUME NEW a \in Actors, Spawn(a) PROVE Served'
    <2>1. /\ Moves(a) /\ UNCHANGED <<arch, scene>> /\ op[a].pc = "spawn" /\ op'[a].pc = "idle"
          /\ live' = [damage |-> op[a].damage, applied |-> op[a].applied]
      BY <1>16, SpawnHolds DEF Spawn, At
    <2>2. Starting(a)
      BY <2>1, Sites DEF EditsInv, Typed, StartSteps, Starting
    <2>3. \A b \in Actors : op'[b] = op[b] \/ b = a
      BY <2>1 DEF Moves, Others
    <2>4. \A b \in Actors : ~Starting(b)'
      BY <2>1, <2>2, <2>3 DEF Served, Starting
    <2>5. Guarded /\ op[a].applied => Shows(op[a].damage)
      BY <2>2 DEF Served
    <2>6. Guarded' <=> Guarded
      BY <2>1 DEF Guarded
    <2>7. ServedAsAsked'
      BY <2>1, <2>5 DEF ServedAsAsked, Guarded, Shows, Percents
    <2> QED
      BY <2>1, <2>3, <2>4, <2>6, <2>7 DEF Served
  <1>17. ASSUME NEW a \in Actors,
                \/ Read1(a) \/ Save1(a) \/ Fill1(a) \/ Clear1(a)
                \/ Read2(a) \/ Save2(a) \/ Fill2(a) \/ Clear2(a)
                \/ Put1(a) \/ Put2(a) \/ ToggleFails(a)
         PROVE  Served'
    <2>1. Moves(a)
      BY <1>17, Read1Holds, Save1Holds, Fill1Holds, Clear1Holds, Read2Holds, Save2Holds,
         Fill2Holds, Clear2Holds, Put1Holds, Put2Holds, ToggleFailsHolds
    <2>2. op[a].pc \in Toggling \cup {"read1", "read2", "put1", "put2"} /\ UNCHANGED live
      BY <1>17 DEF Read1, Save1, Fill1, Clear1, Read2, Save2, Fill2, Clear2, Put1, Put2, ToggleFails,
                   At, Toggling
    <2>3. op[a] \in ToggleSteps /\ op[a].kind \in {"off", "on"} /\ op[a].pc # "idle"
      BY <2>2, Sites DEF EditsInv, Typed, ToggleSteps, Toggling
    <2>4. ~Guarded
      BY <2>3 DEF Served
    <2>5. \/ op'[a] = Resting
          \/ \E stage \in {"fill1", "clear1", "read2", "fill2", "clear2", "put2"} :
                op'[a] = [op[a] EXCEPT !.pc = stage]
          \/ op[a].kind = "off" /\ op'[a] = [kind |-> "off", pc |-> "save1", entry |-> arch.penalties]
          \/ op[a].kind = "off" /\ op'[a] = [kind |-> "off", pc |-> "save2", template |-> arch.practice]
      BY <1>0, <1>17, Sites DEF Read1, Save1, Fill1, Clear1, Read2, Save2, Fill2, Clear2, Put1, Put2,
                                ToggleFails, Goes, Does, At, EditsInv, Typed
    <2>6. GoesOn(a)
      BY <2>3, <2>5 DEF GoesOn, Resting, ToggleSteps
    <2> QED
      BY <1>0, <2>1, <2>2, <2>4, <2>6, GoingOn
  <1>18. CASE Stop
    BY <1>18 DEF Stop, Served, Starting, Guarded, Running, ServedAsAsked, Shows, Percents
  <1>19. CASE Update
    <2>1. \A b \in Actors : op'[b] = op[b] /\ op[b].pc = "idle"
      BY <1>19 DEF Update, At
    <2>2. ~Running'
      BY <1>19 DEF Update, Running
    <2> QED
      BY <2>1, <2>2 DEF Served, Starting, ServedAsAsked
  <1>20. CASE Killed
    <2>1. \A b \in Actors : op'[b].pc = "idle"
      BY <1>20 DEF Killed, Resting
    <2>2. scene'.ops = scene.ops /\ UNCHANGED <<arch, live>>
      BY <1>0, <1>20 DEF Killed
    <2> QED
      BY <2>1, <2>2 DEF Served, Starting, Guarded, Running, ServedAsAsked, Shows, Percents
  <1> QED
    BY <1>1, <1>2, <1>3, <1>4, <1>5, <1>6, <1>7, <1>8, <1>9, <1>10, <1>11, <1>12, <1>13, <1>14,
       <1>15, <1>16, <1>17, <1>18, <1>19, <1>20 DEF EditsNext

\* A server whose start set the damage, or found it set, runs with it in every template:
\* for any number of actors, profiles' damages, deploys and crashes, where no toggle or
\* restore runs beside the start.
THEOREM ServedAsAskedAlways == EditsSpec => []ServedAsAsked
  <1>1. EditsInit => Served
    BY DEF EditsInit, Resting, Served, Starting, Running, ServedAsAsked
  <1>2. SceneOK /\ EditsInv /\ Served /\ [EditsNext]_editVars => Served'
    BY ServedStep
  <1>3. Served => ServedAsAsked
    BY DEF Served
  <1> QED
    BY <1>1, <1>2, <1>3, InvAlways, PTL DEF EditsSpec
=============================================================================
