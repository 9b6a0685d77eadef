------------------------------ MODULE JsonFile ------------------------------
(***************************************************************************)
(* profiles.rs and its users in serverproc.rs: profiles.json is loaded,    *)
(* changed and saved whole by any thread, without a lock; a save writes    *)
(* profiles.json.part - one name for every writer - and renames it.        *)
(* The file system has files behind names: a rename moves the file a       *)
(* writer may still hold open.                                             *)
(***************************************************************************)
EXTENDS FiniteSets, Naturals

CONSTANTS
    Ids,        \* profiles
    Writers,    \* threads that save or delete a profile
    Files,      \* files on the disk, behind one name at most
    Half, None, \* contents that do not parse; no file
    MaxCrashes  \* bound: the program killed

ASSUME FilesAssumption ==
    /\ None \notin Files /\ \A list \in SUBSET Ids : list # Half
    /\ MaxCrashes \in Nat

VARIABLES
    content,    \* of each file: a list of profiles, or Half
    json, part, \* the files named profiles.json and profiles.json.part
    w,          \* a writer's step, profile and what it will write, its open file
    met,        \* history of saves side by side: "part", two had one .part open; "list", one
                \* replaced the file another had loaded
    crashes

fileVars == <<content, json, part, w, met, crashes>>

WriterRests == [pc |-> "idle"]

FileInit ==
    /\ json \in Files /\ part = None
    /\ \E list \in SUBSET Ids : content = [f \in Files |-> IF f = json THEN list ELSE {}]
    /\ w = [k \in Writers |-> WriterRests]
    /\ met = {} /\ crashes = 0

WriterAt(k, pc) == w[k].pc = pc
WriterDoes(k, step) == w' = [w EXCEPT ![k] = step]

\* What does not parse is an empty list.
Loaded == IF content[json] = Half THEN {} ELSE content[json]

\* upsert and delete: the list with the profile, or without it.
Load(k) ==
    /\ WriterAt(k, "idle")
    /\ \E i \in Ids :
        \E list \in {Loaded \cup {i}, Loaded \ {i}} :
            WriterDoes(k, [pc |-> "create", id |-> i, list |-> list])
    /\ UNCHANGED <<content, json, part, met, crashes>>

Held == {w[q].file : q \in {q \in Writers : WriterAt(q, "write") \/ WriterAt(q, "rename")}}

\* Mutant: the file itself is truncated and written.
Create_InPlace(k) ==
    /\ WriterAt(k, "create")
    /\ content' = [content EXCEPT ![json] = Half]
    /\ WriterDoes(k, [pc |-> "write", id |-> w[k].id, list |-> w[k].list, file |-> json])
    /\ UNCHANGED <<json, part, met, crashes>>

\* File::create truncates the .part there is, whoever writes it.
Create(k) ==
    /\ WriterAt(k, "create")
    /\ \E f \in IF part # None THEN {part} ELSE Files \ ({json} \cup Held) :
        /\ content' = [content EXCEPT ![f] = Half]
        /\ part' = f
        /\ met' = met \cup (IF f \in Held THEN {"part"} ELSE {})
        /\ WriterDoes(k, [pc |-> "write", id |-> w[k].id, list |-> w[k].list, file |-> f])
    /\ UNCHANGED <<json, crashes>>

\* write_all from the start of the file: over a longer text of another writer the
\* rest of that text stays.
Write(k) ==
    /\ WriterAt(k, "write")
    /\ LET f == w[k].file
       IN  \/ content' = [content EXCEPT ![f] = w[k].list]
           \/ content[f] # Half /\ content' = [content EXCEPT ![f] = Half]
    /\ WriterDoes(k, [w[k] EXCEPT !.pc = "rename"])
    /\ UNCHANGED <<json, part, met, crashes>>

\* The disk is full: the error is dropped by upsert and delete.
WriteFails(k) ==
    /\ WriterAt(k, "write")
    /\ content' = [content EXCEPT ![w[k].file] = Half]
    /\ WriterDoes(k, WriterRests)
    /\ UNCHANGED <<json, part, met, crashes>>

\* The name is moved, whatever file it now stands for, and the file that was
\* profiles.json is gone; without a .part the rename fails.
Rename(k) ==
    /\ WriterAt(k, "rename")
    /\ IF part = None THEN UNCHANGED <<content, json, part, met>>
       ELSE /\ json' = part /\ part' = None /\ content' = [content EXCEPT ![json] = {}]
            /\ met' = met \cup (IF \A q \in Writers \ {k} : WriterAt(q, "idle") THEN {} ELSE {"list"})
    /\ WriterDoes(k, WriterRests)
    /\ UNCHANGED crashes

Crash ==
    /\ crashes < MaxCrashes /\ crashes' = crashes + 1
    /\ w' = [k \in Writers |-> WriterRests]
    /\ UNCHANGED <<content, json, part, met>>

FileNext ==
    \/ \E k \in Writers : Load(k) \/ Create(k) \/ Write(k) \/ WriteFails(k) \/ Rename(k)
    \/ Crash

FileSpec == FileInit /\ [][FileNext]_fileVars
-----------------------------------------------------------------------------
(* Properties *)

\* "Written to a temp file and renamed, so a reader never sees half of it"
\* (write_json_indent2): until two saves have the one .part open, whatever is killed or fails.
Whole == content[json] # Half
NeverHalf == "part" \notin met => Whole

\* "Merge over the EXISTING profile (a partial save must not reset the rest)" (upsert):
\* what a save puts in place differs from what was there in its own profile only, until two
\* saves meet, in the .part or over the list that one of them replaces.
KeepsRest ==
    [][\A k \in Writers :
        met = {} /\ WriterAt(k, "rename") /\ json' # json
        => \A i \in Ids \ {w[k].id} : i \in content[json] <=> i \in content'[json']]_fileVars

\* Every variable stays in its domain, and the two names stand for two files.
FileTypeOK ==
    /\ content \in [Files -> (SUBSET Ids) \cup {Half}]
    /\ json \in Files /\ part \in Files \cup {None} /\ part # json
    /\ met \subseteq {"part", "list"} /\ crashes \in 0..MaxCrashes
=============================================================================
