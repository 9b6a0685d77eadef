----------------------------- MODULE KspkgTable -----------------------------
(***************************************************************************)
(* kspkg.rs, find_entry: one entry of a .kspkg by its path, without a scan *)
(* of the table. Two binary searches over the buckets - where the empty    *)
(* tail begins, then the first id that is not below the wanted one - and a *)
(* walk over the records of that id. One step is one bucket read.          *)
(***************************************************************************)
EXTENDS Integers

CONSTANTS
    Buckets,    \* of the table
    Names,      \* paths, as stored or as asked for
    Blank,      \* a bucket that holds no record
    Hash,       \* entry_id: FNV-1a of the path as it is written
    Lower,      \* the path in lower case
    Unparsed    \* paths parse_bucket skips: a bare directory has no backslash

ASSUME TableAssumption ==
    /\ Buckets \in Nat /\ Blank \notin Names /\ Unparsed \subseteq Names
    /\ Hash \in [Names -> Nat \ {0}]
    /\ Lower \in [Names -> Names]

VARIABLES
    table,      \* the record of each bucket, by its path
    want,       \* the path asked for
    phase, lo, hi, count, result

findVars == <<table, want, phase, lo, hi, count, result>>

Index == 0..(Buckets - 1)
NotFound == -1

\* The id at bytes 232 to 240 of a bucket: zero in the empty tail.
Id(i) == IF table[i] = Blank THEN 0 ELSE Hash[table[i]]

\* What build_table and the game write: the records in the order of their ids, and
\* then nothing. Equal ids are left in: the walk allows for them.
Built(t) ==
    \A i, j \in Index : i < j =>
        /\ t[i] = Blank => t[j] = Blank
        /\ t[i] # Blank /\ t[j] # Blank => Hash[t[i]] <= Hash[t[j]] /\ t[i] # t[j]

FindInit ==
    /\ table \in [Index -> Names \cup {Blank}] /\ Built(table)
    /\ want \in Names
    /\ phase = "count" /\ lo = 0 /\ hi = Buckets
    /\ count = 0 /\ result = NotFound

Mid == (lo + hi) \div 2

\* Where the empty tail begins: the number of records.
Count ==
    /\ phase = "count"
    /\ IF lo < hi
       THEN /\ IF Id(Mid) # 0 THEN lo' = Mid + 1 /\ UNCHANGED hi
               ELSE hi' = Mid /\ UNCHANGED lo
            /\ UNCHANGED <<phase, count>>
       ELSE phase' = "bound" /\ count' = lo /\ lo' = 0 /\ hi' = lo
    /\ UNCHANGED <<table, want, result>>

\* The first record whose id is not below the wanted one.
Bound ==
    /\ phase = "bound"
    /\ IF lo < hi
       THEN IF Id(Mid) < Hash[want] THEN lo' = Mid + 1 /\ UNCHANGED <<hi, phase>>
            ELSE hi' = Mid /\ UNCHANGED <<lo, phase>>
       ELSE phase' = "walk" /\ UNCHANGED <<lo, hi>>
    /\ UNCHANGED <<table, want, count, result>>

\* The record in bucket i is the one asked for.
Match(i) ==
    /\ table[i] # Blank /\ Id(i) = Hash[want]
    /\ table[i] \notin Unparsed /\ Lower[table[i]] = Lower[want]

\* Mutant: the first record of the id is taken.
Walk_First ==
    /\ phase = "walk"
    /\ phase' = "done"
    /\ result' = IF lo < count /\ Id(lo) = Hash[want] THEN lo ELSE NotFound
    /\ UNCHANGED <<table, want, lo, hi, count>>

\* The records of that id are walked: a collision must not give the wrong file.
Walk ==
    /\ phase = "walk"
    /\ IF lo < count /\ Id(lo) = Hash[want] /\ ~Match(lo)
       THEN lo' = lo + 1 /\ UNCHANGED <<phase, result>>
       ELSE /\ phase' = "done" /\ UNCHANGED lo
            /\ result' = IF lo < count /\ Id(lo) = Hash[want] THEN lo ELSE NotFound
    /\ UNCHANGED <<table, want, hi, count>>

FindNext == Count \/ Bound \/ Walk

FindSpec == FindInit /\ [][FindNext]_findVars
-----------------------------------------------------------------------------
(* Properties *)

\* find_entry answers with the first record of the table that has the wanted id and,
\* but for case, the wanted path; with none when no bucket of the table has one.
Correct ==
    phase = "done" =>
        IF result = NotFound THEN \A i \in Index : ~Match(i)
        ELSE Match(result) /\ \A i \in Index : Match(i) => result <= i

\* No bucket outside the table is ever read, and the two ends never cross.
FindTypeOK ==
    /\ table \in [Index -> Names \cup {Blank}] /\ want \in Names
    /\ phase \in {"count", "bound", "walk", "done"}
    /\ lo \in 0..Buckets /\ hi \in 0..Buckets /\ count \in 0..Buckets
    /\ phase \in {"count", "bound"} => lo <= hi
    /\ result \in Index \cup {NotFound}
=============================================================================
