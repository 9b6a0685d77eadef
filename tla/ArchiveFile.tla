---------------------------- MODULE ArchiveFile ----------------------------
(***************************************************************************)
(* content.kspkg written in place, cell by cell: kspkg_write::write_inplace *)
(* with its .bak_tables copy, rollback, verify and undo_inplace            *)
(* (trackdeploy::register_track_into, unregister_track_into and            *)
(* damage::set_damage write this way), and penalties::write_entry, which   *)
(* keeps no copy.  Writers are processes that share the named mutex of     *)
(* archlock.rs; a disk may fill up, any file operation may fail, a process *)
(* may die between two writes.                                             *)
(*                                                                         *)
(* The file is a sequence of cells.  Its last TableCells cells are the     *)
(* table: Slots records of Bucket cells each.  Payloads are BlobCells      *)
(* cells; when the payload of a write is not a multiple of Bucket, a table *)
(* read at the wrong place is misaligned and none of its records parse,    *)
(* exactly as with the 256-byte records of the program.                    *)
(***************************************************************************)
EXTENDS Naturals, Sequences, FiniteSets

CONSTANTS
    Procs,          \* processes that write the archive
    NoProc,         \* the mutex is free
    NEntries,       \* archive paths, numbered in the order of their FNV ids
    Bucket,         \* cells of one table record
    Slots,          \* records the table has room for
    BlobCells,      \* cells of one non-empty payload
    Cap,            \* cells the volume has room for
    InplaceWrites,  \* entry lists written by write_inplace
    PatchWrites,    \* entries written by penalties::write_entry
    MaxCalls,       \* bound: calls made in all
    MaxFaults       \* bound: failed file operations and crashes in all

Entries    == 1..NEntries
TableCells == Slots * Bucket
InitBase   == NEntries * BlobCells          \* cells of the data region at first

ASSUME SizesAssumption ==
    /\ Bucket \in Nat \ {0}
    /\ Slots \in Nat \ {0}
    /\ BlobCells \in Nat \ {0}
    /\ Cap \in Nat
    /\ MaxCalls \in Nat
    /\ MaxFaults \in Nat

ASSUME EntriesAssumption ==
    /\ NEntries \in Nat
    /\ NEntries <= Slots
    /\ InitBase + TableCells <= Cap
    /\ InplaceWrites \subseteq Seq(Entries)
    /\ PatchWrites \subseteq Entries

ASSUME ProcsAssumption == NoProc \notin Procs

VARIABLES
    disk,       \* the archive's cells
    len,        \* its length in cells
    bak,        \* the cells of <archive>.bak_tables
    bakLen,     \* its length
    owner,      \* holder of Local\ACECM_archive_write
    pc,         \* where each process is
    w,          \* the locals of its write
    committed,  \* history: where the last whole table located each entry
    calls,      \* calls made so far
    faults      \* failures and crashes so far

vars == <<disk, len, bak, bakLen, owner, pc, w, committed, calls, faults>>

-----------------------------------------------------------------------------
(* Cells, records, tables *)

Loc  == [v : Nat, off : Nat \ {0}, size : Nat]
Blob(e, v, i)         == [kind |-> "blob", e |-> e, v |-> v, i |-> i]
Rec(e, off, size, h)  == [kind |-> "rec", e |-> e, off |-> off, size |-> size, h |-> h]
Gap                   == [kind |-> "gap"]

RecCell == [kind : {"rec"}, e : Entries, off : Nat, size : Nat, h : Nat]
Cell == [kind : {"blob"}, e : Entries, v : Nat, i : Nat] \cup RecCell \cup {Gap}

\* A record parses when its Bucket cells are the cells of one record, in order.
IsRecord(f, at) ==
    /\ at \in DOMAIN f
    /\ f[at].kind = "rec"
    /\ \A h \in 1..Bucket : f[at + h - 1] = [f[at] EXCEPT !.h = h]

\* The cell where slot k of a table that begins after cell base begins.
SlotAt(base, k) == base + (k - 1) * Bucket + 1

\* read_records: what each slot of the last TableCells cells parses to.
Records(f, n) ==
    [k \in 1..Slots |->
        LET at == SlotAt(n - TableCells, k) IN IF IsRecord(f, at) THEN f[at] ELSE Gap]

\* is_encrypted: only the first record is looked at.
Recognised(f, n) == IsRecord(f, SlotAt(n - TableCells, 1))

SlotsOf(recs, e) == {k \in 1..Slots : recs[k].kind = "rec" /\ recs[k].e = e}

Unique(recs) == \A e \in Entries : \A j, k \in SlotsOf(recs, e) : j = k

\* apply: the last record of that path is pointed at the payload, or one is added.
\* (With no slot left there are duplicates, and build_table refuses the records.)
Upsert(recs, e, off, size) ==
    LET hits == IF SlotsOf(recs, e) # {} THEN SlotsOf(recs, e)
                ELSE {k \in 1..Slots : recs[k] = Gap}
    IN  [k \in 1..Slots |->
            IF k \in hits /\ \A j \in hits : j <= k THEN Rec(e, off, size, 1) ELSE recs[k]]

\* build_table: the records sorted by id, packed from slot 1, the rest blank.
Place(recs, k) ==
    Cardinality({j \in 1..Slots : recs[j].kind = "rec" /\ recs[j].e < recs[k].e}) + 1

Table(recs) ==
    [i \in 1..TableCells |->
        LET here(k) == recs[k].kind = "rec" /\ Place(recs, k) = ((i - 1) \div Bucket) + 1
        IN  IF \E k \in 1..Slots : here(k)
            THEN [recs[CHOOSE k \in 1..Slots : here(k)] EXCEPT !.h = ((i - 1) % Bucket) + 1]
            ELSE Gap]

\* penalties::write_entry: the first bucket whose path matches, rewritten; the others as read.
NeedleSlots(f, n, e) ==
    {k \in 1..Slots : LET at == SlotAt(n - TableCells, k)
                      IN  at \in DOMAIN f /\ f[at].kind = "rec" /\ f[at].e = e /\ f[at].h = 1}

Patched(f, n, e, off, size) ==
    LET hit == CHOOSE k \in NeedleSlots(f, n, e) : \A j \in NeedleSlots(f, n, e) : k <= j
    IN  [i \in 1..TableCells |->
            IF ((i - 1) \div Bucket) + 1 = hit
            THEN Rec(e, off, size, ((i - 1) % Bucket) + 1)
            ELSE f[n - TableCells + i]]

\* f, read as an archive of n cells, locates every entry where locs says and holds its bytes.
Serves(f, n, locs) ==
    /\ Unique(Records(f, n))
    /\ \A e \in Entries :
        /\ \E k \in 1..Slots : Records(f, n)[k] = Rec(e, locs[e].off, locs[e].size, 1)
        /\ locs[e].off + locs[e].size <= n - TableCells + 1
        /\ \A i \in 1..locs[e].size : f[locs[e].off + i - 1] = Blob(e, locs[e].v, i)

-----------------------------------------------------------------------------
(* State *)

InitLocs ==
    [e \in Entries |-> [v |-> 0, off |-> (e - 1) * BlobCells + 1, size |-> BlobCells]]

InitRecs ==
    [k \in 1..Slots |->
        IF k \in Entries THEN Rec(k, (k - 1) * BlobCells + 1, BlobCells, 1) ELSE Gap]

BlankTable == [i \in 1..TableCells |-> Gap]

IdleWork ==
    [kind |-> "inplace", ch |-> <<>>, v |-> 0, size |-> 0, start |-> 0, orig |-> 0,
     tail |-> BlankTable, recs |-> [k \in 1..Slots |-> Gap], tab |-> BlankTable, locs |-> InitLocs,
     j |-> 1, i |-> 1, pos |-> 1, cursor |-> 0]

\* The payloads side by side, the table, then free space.
FirstCell(c) ==
    LET here(x) == \E i \in 1..BlobCells : c = InitLocs[x].off + i - 1
        e       == CHOOSE x \in Entries : here(x)
    IN  IF \E x \in Entries : here(x) THEN Blob(e, 0, c + 1 - InitLocs[e].off)
        ELSE IF c > InitBase /\ c <= InitBase + TableCells THEN Table(InitRecs)[c - InitBase]
        ELSE Gap

Init ==
    /\ disk = [c \in 1..Cap |-> FirstCell(c)]
    /\ len = InitBase + TableCells
    /\ bak = BlankTable
    /\ bakLen = 0
    /\ owner = NoProc
    /\ pc = [p \in Procs |-> "idle"]
    /\ w = [p \in Procs |-> IdleWork]
    /\ committed = InitLocs
    /\ calls = 0
    /\ faults = 0

\* Where the entries are once p's write is through.
Merged(p) ==
    [e \in Entries |->
        IF \E k \in 1..Len(w[p].ch) : w[p].ch[k] = e THEN w[p].locs[e] ELSE committed[e]]

\* A write that stops has taken effect when the file serves all of it.
Settle(p) ==
    committed' = IF owner = p /\ Serves(disk, len, Merged(p)) THEN Merged(p) ELSE committed

Goto(p, label) == pc' = [pc EXCEPT ![p] = label]

\* The guard is dropped and the call answered.
Return(p) ==
    /\ owner' = NoProc
    /\ Goto(p, "idle")
    /\ w' = [w EXCEPT ![p] = IdleWork]

Fault == faults < MaxFaults /\ faults' = faults + 1

\* One cell written at p's file position; the file grows when it is past the end.
Write(p, cell) ==
    /\ w[p].pos <= Cap
    /\ disk' = [disk EXCEPT ![w[p].pos] = cell]
    /\ len' = IF w[p].pos > len THEN w[p].pos ELSE len

\* A cell cannot be written: the volume is full, or the write fails.
WriteError(p) == IF w[p].pos > Cap THEN faults' = faults ELSE Fault

-----------------------------------------------------------------------------
(* archlock::lock, and what the write reads first *)

Call(p) ==
    /\ pc[p] = "idle"
    /\ calls < MaxCalls
    /\ calls' = calls + 1
    /\ \/ \E ch \in InplaceWrites :
             w' = [w EXCEPT ![p] = [IdleWork EXCEPT !.kind = "inplace", !.ch = ch,
                                                    !.v = calls + 1, !.size = BlobCells]]
       \/ \E e \in PatchWrites, size \in {0, BlobCells} :
             w' = [w EXCEPT ![p] = [IdleWork EXCEPT !.kind = "patch", !.ch = <<e>>,
                                                    !.v = calls + 1, !.size = size]]
    /\ Goto(p, "lock")
    /\ UNCHANGED <<disk, len, bak, bakLen, owner, committed, faults>>

\* Mutant: the mutex is private to the process.
Lock_NotShared(p) ==
    /\ pc[p] = "lock"
    /\ owner' = p
    /\ Goto(p, "read")
    /\ UNCHANGED <<disk, len, bak, bakLen, w, committed, calls, faults>>

Lock(p) ==
    /\ pc[p] = "lock"
    /\ owner = NoProc
    /\ owner' = p
    /\ Goto(p, "read")
    /\ UNCHANGED <<disk, len, bak, bakLen, w, committed, calls, faults>>

\* WaitForSingleObject gives up after ten minutes.
LockTimeout(p) ==
    /\ pc[p] = "lock"
    /\ owner # NoProc
    /\ Goto(p, "idle")
    /\ w' = [w EXCEPT ![p] = IdleWork]
    /\ UNCHANGED <<disk, len, bak, bakLen, owner, committed, calls, faults>>

\* The table is not recognised, the needle is not found, or the read fails.
Refuse(p) ==
    /\ pc[p] = "read"
    /\ \/ /\ w[p].kind = "inplace" /\ ~Recognised(disk, len)
          /\ UNCHANGED faults
       \/ /\ w[p].kind = "patch" /\ NeedleSlots(disk, len, w[p].ch[1]) = {}
          /\ UNCHANGED faults
       \/ Fault
    /\ Return(p)
    /\ UNCHANGED <<disk, len, bak, bakLen, committed, calls>>

\* Mutant: the first payload is written one cell too early.
ReadInplace_EarlySeek(p) ==
    /\ pc[p] = "read"
    /\ w[p].kind = "inplace"
    /\ Recognised(disk, len)
    /\ LET start == len - TableCells
       IN  w' = [w EXCEPT ![p].start = start, ![p].orig = len,
                          ![p].tail = [i \in 1..TableCells |-> disk[start + i]],
                          ![p].recs = Records(disk, len), ![p].locs = committed,
                          ![p].pos = start, ![p].cursor = start - 1]
    /\ bakLen' = 0
    /\ Goto(p, "save")
    /\ UNCHANGED <<disk, len, bak, owner, committed, calls, faults>>

ReadInplace(p) ==
    /\ pc[p] = "read"
    /\ w[p].kind = "inplace"
    /\ Recognised(disk, len)
    /\ LET start == len - TableCells
       IN  w' = [w EXCEPT ![p].start = start, ![p].orig = len,
                          ![p].tail = [i \in 1..TableCells |-> disk[start + i]],
                          ![p].recs = Records(disk, len), ![p].locs = committed,
                          ![p].pos = start + 1, ![p].cursor = start]
    /\ bakLen' = 0                          \* fs::write truncates .bak_tables first
    /\ Goto(p, "save")
    /\ UNCHANGED <<disk, len, bak, owner, committed, calls, faults>>

ReadPatch(p) ==
    /\ pc[p] = "read"
    /\ w[p].kind = "patch"
    /\ NeedleSlots(disk, len, w[p].ch[1]) # {}
    /\ LET start == len - TableCells
           e     == w[p].ch[1]
       IN  w' = [w EXCEPT ![p].start = start, ![p].pos = start + 1, ![p].cursor = start,
                          ![p].i = 1, ![p].tab = Patched(disk, len, e, start + 1, w[p].size),
                          ![p].locs = [committed EXCEPT ![e] =
                              [v |-> w[p].v, off |-> start + 1, size |-> w[p].size]]]
    /\ Goto(p, IF w[p].size = 0 THEN "table" ELSE "blob")
    /\ UNCHANGED <<disk, len, bak, bakLen, owner, committed, calls, faults>>

-----------------------------------------------------------------------------
(* The write *)

\* Mutant: the payload is written before all of the tail is saved.
SaveTail_Short(p) ==
    /\ pc[p] = "save"
    /\ bakLen < TableCells
    /\ bak' = [bak EXCEPT ![bakLen + 1] = w[p].tail[bakLen + 1]]
    /\ bakLen' = bakLen + 1
    /\ Goto(p, IF bakLen' + 1 = TableCells THEN "blob" ELSE "save")
    /\ UNCHANGED <<disk, len, owner, w, committed, calls, faults>>

SaveTail(p) ==
    /\ pc[p] = "save"
    /\ bakLen < TableCells
    /\ bak' = [bak EXCEPT ![bakLen + 1] = w[p].tail[bakLen + 1]]
    /\ bakLen' = bakLen + 1
    /\ Goto(p, IF bakLen' = TableCells THEN "blob" ELSE "save")
    /\ UNCHANGED <<disk, len, owner, w, committed, calls, faults>>

SaveFails(p) ==
    /\ pc[p] = "save"
    /\ Fault
    /\ Return(p)
    /\ UNCHANGED <<disk, len, bak, bakLen, committed, calls>>

\* One cell of the payload of change j; after its last cell the record is pointed at it.
PutBlob(p) ==
    /\ pc[p] = "blob"
    /\ w[p].j <= Len(w[p].ch)
    /\ LET e    == w[p].ch[w[p].j]
           last == w[p].i = w[p].size
           off  == w[p].cursor + 1
       IN  /\ Write(p, Blob(e, w[p].v, w[p].i))
           /\ w' = [w EXCEPT
                  ![p].pos    = @ + 1,
                  ![p].i      = IF last THEN 1 ELSE @ + 1,
                  ![p].j      = IF last THEN @ + 1 ELSE @,
                  ![p].cursor = IF last THEN @ + w[p].size ELSE @,
                  ![p].recs   = IF last THEN Upsert(@, e, off, w[p].size) ELSE @,
                  ![p].locs   = IF last
                                THEN [@ EXCEPT ![e] = [v |-> w[p].v, off |-> off, size |-> w[p].size]]
                                ELSE @]
    /\ UNCHANGED <<bak, bakLen, owner, pc, committed, calls, faults>>

\* build_table: two records with one id are an error, and the tail is put back.
BuildTable(p) ==
    /\ pc[p] = "blob"
    /\ w[p].j > Len(w[p].ch)
    /\ IF w[p].kind = "patch" \/ Unique(w[p].recs)
       THEN /\ Goto(p, "table")
            /\ w' = [w EXCEPT ![p].i = 1,
                              ![p].tab = IF w[p].kind = "patch" THEN @
                                         ELSE Table(w[p].recs)]
       ELSE /\ Goto(p, "roll")
            /\ w' = [w EXCEPT ![p].i = 1, ![p].pos = w[p].start + 1]
    /\ UNCHANGED <<disk, len, bak, bakLen, owner, committed, calls, faults>>

PutTable(p) ==
    /\ pc[p] = "table"
    /\ w[p].i <= TableCells
    /\ Write(p, w[p].tab[w[p].i])
    /\ w' = [w EXCEPT ![p].pos = @ + 1, ![p].i = @ + 1]
    /\ Goto(p, IF w[p].i = TableCells THEN "setlen" ELSE "table")
    /\ UNCHANGED <<bak, bakLen, owner, committed, calls, faults>>

SetLen(p) ==
    /\ pc[p] = "setlen"
    /\ len' = w[p].pos - 1
    /\ Goto(p, "verify")
    /\ UNCHANGED <<disk, bak, bakLen, owner, w, committed, calls, faults>>

\* write_inplace goes on to put the tail back; penalties::write_entry returns the error.
WriteFails(p) ==
    /\ \/ pc[p] \in {"blob", "table"} /\ WriteError(p)
       \/ pc[p] = "setlen" /\ Fault
    /\ IF w[p].kind = "inplace"
       THEN /\ Goto(p, "roll")
            /\ w' = [w EXCEPT ![p].i = 1, ![p].pos = w[p].start + 1]
            /\ UNCHANGED <<owner, committed>>
       ELSE Return(p) /\ Settle(p)
    /\ UNCHANGED <<disk, len, bak, bakLen, calls>>

\* The caller's verify: sorted and unique records.  write_entry has none.
Verify(p) ==
    /\ pc[p] = "verify"
    /\ w[p].kind = "patch" \/ Unique(Records(disk, len))
    /\ Return(p)
    /\ Settle(p)
    /\ UNCHANGED <<disk, len, bak, bakLen, calls, faults>>

\* The archive cannot be read back, or does not verify: undo_inplace.
VerifyFails(p) ==
    /\ pc[p] = "verify"
    /\ w[p].kind = "inplace"
    /\ IF Unique(Records(disk, len)) THEN Fault ELSE faults' = faults
    /\ IF w[p].start + bakLen = w[p].orig
       THEN /\ Goto(p, "undo")
            /\ w' = [w EXCEPT ![p].i = 1, ![p].pos = w[p].start + 1]
            /\ UNCHANGED <<owner, committed>>
       ELSE Return(p) /\ Settle(p)
    /\ UNCHANGED <<disk, len, bak, bakLen, calls>>

-----------------------------------------------------------------------------
(* Putting the tail back *)

\* write_inplace from the copy in memory, undo_inplace from .bak_tables.
PutBack(p) ==
    /\ pc[p] \in {"roll", "undo"}
    /\ w[p].i <= TableCells
    /\ Write(p, IF pc[p] = "roll" THEN w[p].tail[w[p].i] ELSE bak[w[p].i])
    /\ w' = [w EXCEPT ![p].pos = @ + 1, ![p].i = @ + 1]
    /\ Goto(p, IF w[p].i < TableCells THEN pc[p]
               ELSE IF pc[p] = "roll" THEN "rolllen" ELSE "undolen")
    /\ UNCHANGED <<bak, bakLen, owner, committed, calls, faults>>

\* Rollback ignores the error and still cuts the file, unless it could not open it;
\* undo_inplace returns it.
PutBackFails(p) ==
    /\ pc[p] \in {"roll", "undo"}
    /\ Fault
    /\ \/ /\ pc[p] = "roll"
          /\ Goto(p, "rolllen")
          /\ UNCHANGED <<owner, w, committed>>
       \/ /\ pc[p] = "undo" \/ w[p].i = 1
          /\ Return(p)
          /\ Settle(p)
    /\ UNCHANGED <<disk, len, bak, bakLen, calls>>

\* Mutant: the file keeps the length the failed write gave it.
CutBack_KeepsLength(p) ==
    /\ pc[p] \in {"rolllen", "undolen"}
    /\ Return(p)
    /\ UNCHANGED <<disk, len, bak, bakLen, committed, calls, faults>>

CutBack(p) ==
    /\ pc[p] \in {"rolllen", "undolen"}
    /\ \/ len' = w[p].orig /\ UNCHANGED faults
       \/ Fault /\ UNCHANGED len
    /\ Return(p)
    /\ UNCHANGED <<disk, bak, bakLen, committed, calls>>

\* The process dies; the mutex is abandoned, which lock() accepts as acquired.
Crash(p) ==
    /\ pc[p] # "idle"
    /\ Fault
    /\ owner' = IF owner = p THEN NoProc ELSE owner
    /\ Goto(p, "idle")
    /\ w' = [w EXCEPT ![p] = IdleWork]
    /\ Settle(p)
    /\ UNCHANGED <<disk, len, bak, bakLen, calls>>

Step(p) ==
    \/ Lock(p) \/ LockTimeout(p) \/ Refuse(p) \/ ReadInplace(p) \/ ReadPatch(p)
    \/ SaveTail(p) \/ PutBlob(p) \/ BuildTable(p) \/ PutTable(p) \/ SetLen(p)
    \/ Verify(p) \/ PutBack(p) \/ CutBack(p) \/ WriteFails(p)

Trouble(p) == SaveFails(p) \/ VerifyFails(p) \/ PutBackFails(p) \/ Crash(p)

Next == \E p \in Procs : Call(p) \/ Step(p) \/ Trouble(p)

Spec == Init /\ [][Next]_vars

-----------------------------------------------------------------------------
(* Properties *)

Labels == {"idle", "lock", "read", "save", "blob", "table", "setlen", "verify",
           "roll", "rolllen", "undo", "undolen"}
Holding(p) == pc[p] \notin {"idle", "lock"}

Work == [kind : {"inplace", "patch"}, ch : Seq(Entries), v : Nat, size : Nat,
         start : Nat, orig : 0..Cap, tail : [1..TableCells -> Cell],
         recs : [1..Slots -> RecCell \cup {Gap}],
         tab : [1..TableCells -> Cell], locs : [Entries -> Loc],
         j : Nat \ {0}, i : Nat \ {0}, pos : 1..(Cap + 1), cursor : Nat]

\* Every variable stays in its domain.
TypeOK ==
    /\ disk \in [1..Cap -> Cell]
    /\ len \in 0..Cap
    /\ bak \in [1..TableCells -> Cell]
    /\ bakLen \in 0..TableCells
    /\ owner \in Procs \cup {NoProc}
    /\ pc \in [Procs -> Labels]
    /\ w \in [Procs -> Work]
    /\ committed \in [Entries -> Loc]
    /\ calls \in 0..MaxCalls
    /\ faults \in 0..MaxFaults

\* "One archive writer at a time, across PROCESSES" (archlock.rs), also after a
\* writer died with the mutex and after a wait for it timed out.
OneWriter == \A p, q \in Procs : Holding(p) /\ Holding(q) => p = q

\* "Nothing in the data region moves": whatever fails, is put back, dies or is
\* retried, no write lands on a payload that a whole table pointed at.
DataKept ==
    \A e \in Entries : \A i \in 1..committed[e].size :
        disk[committed[e].off + i - 1] = Blob(e, committed[e].v, i)

\* With no failed file operation behind it (a full volume is none: the rollback
\* answers it), an archive nobody is writing serves every entry, and exactly what
\* the last write that took effect left.
QuietServes ==
    (\A p \in Procs : ~Holding(p)) /\ faults = 0 => Serves(disk, len, committed)

\* The archive with the saved tail put back after cell base.
PutBackAt(base) ==
    [c \in 1..Cap |-> IF c > base /\ c <= base + TableCells THEN bak[c - base] ELSE disk[c]]

\* The archive with the tail p's write read put back where that was.
Before(p) ==
    [c \in 1..Cap |->
        IF c > w[p].start /\ c <= w[p].start + TableCells THEN w[p].tail[c - w[p].start] ELSE disk[c]]

\* "The previous tail is saved as .bak_tables first" (write_inplace): an in-place write that found a whole
\* table can be undone at every instant, also one any failure or a full volume ends, its
\* rollback's own failures included: a whole table exists, in the archive or in
\* .bak_tables, for the state before the write or the state after it.
Undoable(p) == Holding(p) /\ w[p].kind = "inplace" /\ pc[p] # "read"

Recoverable ==
    \A p \in Procs : Undoable(p) /\ Serves(Before(p), w[p].orig, committed) =>
        \E locs \in {committed, Merged(p)} :
            \/ Serves(disk, len, locs)
            \/ /\ bakLen = TableCells
               /\ \E base \in 0..(Cap - TableCells) :
                    Serves(PutBackAt(base), base + TableCells, locs)

=============================================================================
