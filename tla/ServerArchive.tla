--------------------------- MODULE ServerArchive ---------------------------
(***************************************************************************)
(* What the dedicated server's content.kspkg holds, and everybody who      *)
(* edits it: starting a server (damage.rs, serverproc.rs), deploying and   *)
(* redeclaring tracks and putting the backup back (trackdeploy.rs), the    *)
(* penalty toggle (penalties.rs), and Steam, which replaces it.            *)
(* One write of the archive is one step here; ArchiveFile has its insides. *)
(***************************************************************************)
EXTENDS FiniteSets, Naturals

CONSTANTS
    Actors,     \* threads, of any ACECM process
    Tracks,     \* imported track folders
    Damages,    \* damage percentages of the profiles; 100 is the factory template
    Foreign,    \* an assists block ACECM did not write
    Torn,       \* of an entry that was put back from a backup cut short: not to be read
    None,
    Offers,     \* bounds: the operations that go on together, each a subset of AllOps
    MaxUpdates, MaxFailures       \* bounds: Steam updates; ACECM killed, or a note not written

AllOps == {"start", "deploy", "redeclare", "restore", "off", "on"}

\* A season template, and the archive, by what the operations look at.
Template ==
    [of : 0..MaxUpdates, damage : Damages \cup {100, Foreign, Torn}, triggers : {"on", "off", Torn}]

Archives ==
    [build : 0..MaxUpdates, tracks : SUBSET Tracks, penalties : {"on", "off", Torn},
     practice : Template, race : Damages \cup {100, Foreign}]

ASSUME EditsAssumption ==
    /\ Offers \subseteq SUBSET AllOps
    /\ None \notin Actors \cup Tracks
    /\ Foreign \notin Damages \cup {100} /\ Torn \notin Damages \cup {100, Foreign, None}
    /\ Torn \notin {"on", "off"}
    /\ MaxUpdates \in Nat /\ MaxFailures \in Nat
    /\ \A x \in Template \cup Archives : x # None
    /\ \A b \in 0..MaxUpdates : b # None

VARIABLES
    arch,       \* the entries of content.kspkg
    backup, note,  \* content.kspkg.bak_pretrack and its .build
    bak1, bak2, \* the penalty toggle's two backups
    build,      \* of the server's exe
    live,       \* the running server: the damage asked for, and whether it was set
    lock,       \* the named mutex of archlock.rs
    op,         \* each actor's operation
    scene       \* the operations asked for, how often something failed, and whether a
                \* penalty backup was left, or put back, half written

files == <<backup, note, bak1, bak2>>
editVars == <<arch, files, build, live, lock, op, scene>>

Resting == [pc |-> "idle"]

\* The archive as Steam ships it.
Stock(b) ==
    [build |-> b, tracks |-> {}, penalties |-> "on",
     practice |-> [of |-> b, damage |-> 100, triggers |-> "on"], race |-> 100]

EditsInit ==
    /\ build = 0
    /\ \E practice, race \in {100, Foreign} :
        arch = [Stock(0) EXCEPT !.practice.damage = practice, !.race = race]
    /\ backup = None /\ note = None /\ bak1 = None /\ bak2 = None
    /\ live = None /\ lock = None
    /\ op = [a \in Actors |-> Resting]
    /\ scene \in [ops : Offers, faults : {0}, cut : {FALSE}]

At(a, pc) == op[a].pc = pc
Does(a, step) == op' = [op EXCEPT ![a] = step]
Goes(a, pc) == Does(a, [op[a] EXCEPT !.pc = pc])
Running == live # None
Busy(kind) == \E a \in Actors : op[a].pc # "idle" /\ op[a].kind = kind
-----------------------------------------------------------------------------
(* Begin *)

Repairing(damage, track, tries) ==
    [kind |-> "start", pc |-> "lock", todo |-> IF tries = 2 THEN {} ELSE {track},
     seen |-> {}, damage |-> damage, track |-> track, tries |-> tries, applied |-> FALSE]

\* The start of a profile, one at a time, while no other server runs.
Start(a) ==
    /\ At(a, "idle") /\ "start" \in scene.ops /\ ~Busy("start") /\ ~Running
    /\ \E damage \in Damages, track \in Tracks \cup {None} :
        LET o == Repairing(damage, track, 2)
        IN  Does(a, [o EXCEPT !.pc = IF track \in arch.tracks \cup {None} THEN "status" ELSE "lock"])
    /\ UNCHANGED <<arch, files, build, live, lock, scene>>

\* deploy_native, redeclare_tracks and restore wait for the lock first.
Edit(a) ==
    /\ At(a, "idle")
    /\ \/ "deploy" \in scene.ops /\ \E t \in Tracks :
            Does(a, [kind |-> "deploy", pc |-> "lock", todo |-> {t}, seen |-> {}])
       \/ "redeclare" \in scene.ops /\ Does(a, [kind |-> "redeclare", pc |-> "lock", todo |-> {}, seen |-> {}])
       \/ "restore" \in scene.ops /\ Does(a, [kind |-> "restore", pc |-> "lock"])
    /\ UNCHANGED <<arch, files, build, live, lock, scene>>

\* set_penalties: the server is looked for before anything is read.
Toggle(a) ==
    /\ At(a, "idle") /\ ~Running
    /\ \/ "off" \in scene.ops /\ Does(a, [kind |-> "off", pc |-> "read1"])
       \/ "on" \in scene.ops /\ Does(a, [kind |-> "on", pc |-> "put1"])
    /\ UNCHANGED <<arch, files, build, live, lock, scene>>

Holds(a) == lock = a

\* What an actor does once it holds the lock.
Held(o) ==
    CASE o.kind = "restore" -> "compare"
      [] o.kind = "redeclare" \/ (o.kind = "start" /\ o.tries = 2) -> "missing"
      [] OTHER -> "plan"

Locks(a) ==
    /\ lock = None /\ lock' = a
    /\ \/ At(a, "lock") /\ Goes(a, Held(op[a]))
       \/ At(a, "dlock") /\ Goes(a, "templates")
    /\ UNCHANGED <<arch, files, build, live, scene>>

\* The lock is given back; a start looks for its track again, and tries once more.
Done(a, tracks) ==
    /\ lock' = IF lock = a THEN None ELSE lock
    /\ IF op[a].kind # "start" THEN Does(a, Resting)
       ELSE IF op[a].track \in tracks \cup {None} THEN Goes(a, "status")
       ELSE IF op[a].tries = 2 THEN Does(a, Repairing(op[a].damage, op[a].track, 1))
       ELSE Does(a, Resting)
-----------------------------------------------------------------------------
(* deploy_native and redeclare_tracks *)

\* redeclare_tracks: the imported tracks the table does not have.
Missing(a) ==
    /\ At(a, "missing")
    /\ IF Running \/ Tracks \subseteq arch.tracks THEN Done(a, arch.tracks)
       ELSE Does(a, [op[a] EXCEPT !.pc = "plan", !.todo = Tracks \ arch.tracks]) /\ UNCHANGED lock
    /\ UNCHANGED <<arch, files, build, live, scene>>

\* Mutant: no backup.
Plan_NoBackup(a) ==
    /\ At(a, "plan")
    /\ IF Running THEN Done(a, arch.tracks)
       ELSE Does(a, [op[a] EXCEPT !.pc = "write", !.seen = arch.tracks]) /\ UNCHANGED lock
    /\ UNCHANGED <<arch, files, build, live, scene>>

\* One track: no server runs, the tables are read, the archive is backed up once.
Plan(a) ==
    /\ At(a, "plan")
    /\ IF Running THEN Done(a, arch.tracks) /\ UNCHANGED backup
       ELSE /\ backup' = IF backup = None THEN arch ELSE backup
            /\ Does(a, [op[a] EXCEPT !.pc = IF backup = None THEN "note" ELSE "write",
                                     !.seen = arch.tracks])
            /\ UNCHANGED lock
    /\ UNCHANGED <<arch, note, bak1, bak2, build, live, scene>>

\* The build the backup belongs to; that it could not be written is not looked at.
Note(a) ==
    /\ At(a, "note") /\ Goes(a, "write")
    /\ \/ note' = build /\ UNCHANGED scene
       \/ scene.faults < MaxFailures /\ scene' = [scene EXCEPT !.faults = @ + 1] /\ UNCHANGED note
    /\ UNCHANGED <<arch, backup, bak1, bak2, build, live, lock>>

\* The tracks left to deploy: redeclare goes on after one that failed.
Rest(a, t, tracks) ==
    IF op[a].todo = {t} THEN Done(a, tracks)
    ELSE Does(a, [op[a] EXCEPT !.pc = "plan", !.todo = @ \ {t}]) /\ UNCHANGED lock

\* Mutant: the tables are those of before the lock was had.
Deploy_Early(a) ==
    /\ At(a, "write")
    /\ \E t \in op[a].todo :
        LET tracks == {t}
        IN  arch' = [arch EXCEPT !.tracks = tracks] /\ Rest(a, t, tracks)
    /\ UNCHANGED <<files, build, live, scene>>

\* The archive with the track, written beside it and renamed over it.
Deploy(a) ==
    /\ At(a, "write")
    /\ \E t \in op[a].todo :
        LET tracks == op[a].seen \cup {t}
        IN  arch' = [arch EXCEPT !.tracks = tracks] /\ Rest(a, t, tracks)
    /\ UNCHANGED <<files, build, live, scene>>

\* The lock is not had in ten minutes, or the disk is full: nothing is changed.
EditFails(a) ==
    /\ \/ op[a].pc \in {"lock", "copy"} /\ Done(a, arch.tracks)
       \/ op[a].pc \in {"plan", "write"} /\ \E t \in op[a].todo : Rest(a, t, arch.tracks)
    /\ UNCHANGED <<arch, files, build, live, scene>>
-----------------------------------------------------------------------------
(* trackdeploy::restore *)

Stale == note # None /\ note # build

\* Mutant: the build is not compared.
Compare_NoBuild(a) ==
    /\ At(a, "compare")
    /\ IF backup = None \/ Running THEN Done(a, arch.tracks)
       ELSE Goes(a, "copy") /\ UNCHANGED lock
    /\ UNCHANGED <<arch, files, build, live, scene>>

Compare(a) ==
    /\ At(a, "compare")
    /\ IF backup = None \/ Running \/ Stale THEN Done(a, arch.tracks)
       ELSE Goes(a, "copy") /\ UNCHANGED lock
    /\ UNCHANGED <<arch, files, build, live, scene>>

PutsBack(a) ==
    /\ At(a, "copy") /\ arch' = backup /\ Done(a, backup.tracks)
    /\ UNCHANGED <<files, build, live, scene>>
-----------------------------------------------------------------------------
(* The damage of a start *)

\* The percentages status finds: a foreign template, or one that does not parse, has none.
Percents == {arch.practice.damage, arch.race} \ {Foreign, Torn}
Shows(damage) == Percents = {damage}

\* Mutant: where no template can be read, none has another damage.
Status_NoneIsFine(a) ==
    /\ At(a, "status")
    /\ IF Percents \subseteq {op[a].damage}
       THEN Does(a, [op[a] EXCEPT !.pc = "spawn", !.applied = TRUE])
       ELSE Goes(a, IF Running THEN "spawn" ELSE "dlock")
    /\ UNCHANGED <<arch, files, build, live, lock, scene>>

\* apply_for: nothing to write when those that can be read have it; else no server may run.
Status(a) ==
    /\ At(a, "status")
    /\ IF Shows(op[a].damage) THEN Does(a, [op[a] EXCEPT !.pc = "spawn", !.applied = TRUE])
       ELSE Goes(a, IF Running THEN "spawn" ELSE "dlock")
    /\ UNCHANGED <<arch, files, build, live, lock, scene>>

\* set_damage: a foreign template, or one it cannot parse, is left alone, and with it both.
Templates(a) ==
    /\ At(a, "templates")
    /\ IF {Foreign, Torn} \cap {arch.practice.damage, arch.race} # {}
       THEN UNCHANGED arch /\ Goes(a, "spawn")
       ELSE /\ arch' = [arch EXCEPT !.practice.damage = op[a].damage, !.race = op[a].damage]
            /\ Does(a, [op[a] EXCEPT !.pc = "spawn", !.applied = TRUE])
    /\ lock' = None
    /\ UNCHANGED <<files, build, live, scene>>

\* Its error is dropped by start_inner.
DamageFails(a) ==
    /\ op[a].pc \in {"dlock", "templates"} /\ Goes(a, "spawn")
    /\ lock' = IF lock = a THEN None ELSE lock
    /\ UNCHANGED <<arch, files, build, live, scene>>

Spawn(a) ==
    /\ At(a, "spawn") /\ Does(a, Resting)
    /\ live' = [damage |-> op[a].damage, applied |-> op[a].applied]
    /\ UNCHANGED <<arch, files, build, lock, scene>>

Stop ==
    /\ Running /\ live' = None
    /\ UNCHANGED <<arch, files, build, lock, op, scene>>
-----------------------------------------------------------------------------
(* The penalty toggle: patch and restore. write_entry takes the lock for the write alone. *)

\* An entry that is empty already is not read for a backup.
Read1(a) ==
    /\ At(a, "read1")
    /\ IF arch.penalties = "off" THEN Goes(a, "read2")
       ELSE Does(a, [kind |-> "off", pc |-> "save1", entry |-> arch.penalties])
    /\ UNCHANGED <<arch, files, build, live, lock, scene>>

\* fs::write truncates the backup there is, and has written nothing or some of the new one;
Save1(a) ==
    /\ At(a, "save1") /\ Goes(a, "fill1")
    /\ bak1' \in {"off", Torn}
    /\ UNCHANGED <<arch, backup, note, bak2, build, live, lock, scene>>

\* then all of it.
Fill1(a) ==
    /\ At(a, "fill1") /\ Goes(a, "clear1")
    /\ bak1' = op[a].entry
    /\ UNCHANGED <<arch, backup, note, bak2, build, live, lock, scene>>

Clear1(a) ==
    /\ At(a, "clear1") /\ lock = None
    /\ arch' = [arch EXCEPT !.penalties = "off"]
    /\ Goes(a, "read2")
    /\ UNCHANGED <<files, build, live, lock, scene>>

\* Mutant: the backup is written before it is asked whether there is anything to clear.
Read2_BackupFirst(a) ==
    /\ At(a, "read2")
    /\ Does(a, [kind |-> "off", pc |-> "save2", template |-> arch.practice])
    /\ UNCHANGED <<arch, files, build, live, lock, scene>>

\* A template whose triggers are gone, or not to be found, is skipped.
Read2(a) ==
    /\ At(a, "read2")
    /\ IF arch.practice.triggers # "on" THEN Does(a, Resting)
       ELSE Does(a, [kind |-> "off", pc |-> "save2", template |-> arch.practice])
    /\ UNCHANGED <<arch, files, build, live, lock, scene>>

\* A template cut short has lost its triggers; it reads as it was, as a factory one, or not.
Cut(t) == {[of |-> t.of, damage |-> damage, triggers |-> Torn] : damage \in {t.damage, 100, Torn}}

Save2(a) ==
    /\ At(a, "save2") /\ Goes(a, "fill2")
    /\ bak2' \in Cut(op[a].template)
    /\ UNCHANGED <<arch, backup, note, bak1, build, live, lock, scene>>

\* Over another template, which another toggle has written meanwhile, some of that may stay.
Fill2(a) ==
    /\ At(a, "fill2") /\ Goes(a, "clear2")
    /\ \/ bak2' = op[a].template /\ UNCHANGED scene
       \/ /\ bak2.triggers = "on" /\ bak2 # op[a].template
          /\ bak2' \in Cut(op[a].template) /\ scene' = [scene EXCEPT !.cut = TRUE]
    /\ UNCHANGED <<arch, backup, note, bak1, build, live, lock>>

\* What is written is what was read, without its triggers.
Clear2(a) ==
    /\ At(a, "clear2") /\ lock = None
    /\ arch' = [arch EXCEPT !.practice = [op[a].template EXCEPT !.triggers = "off"]]
    /\ Does(a, Resting)
    /\ UNCHANGED <<files, build, live, lock, scene>>

HalfSaved(pc) == \E a \in Actors : At(a, pc)

\* restore puts back whatever the backup holds, also one that is being written.
Put1(a) ==
    /\ At(a, "put1") /\ Goes(a, "put2")
    /\ IF bak1 = None THEN UNCHANGED <<arch, scene>>
       ELSE /\ lock = None /\ arch' = [arch EXCEPT !.penalties = bak1]
            /\ scene' = [scene EXCEPT !.cut = @ \/ HalfSaved("fill1")]
    /\ UNCHANGED <<files, build, live, lock>>

Put2(a) ==
    /\ At(a, "put2") /\ Does(a, Resting)
    /\ IF bak2 = None THEN UNCHANGED <<arch, scene>>
       ELSE /\ lock = None /\ arch' = [arch EXCEPT !.practice = bak2]
            /\ scene' = [scene EXCEPT !.cut = @ \/ HalfSaved("fill2")]
    /\ UNCHANGED <<files, build, live, lock>>

\* An error ends the toggle where it is, in the middle of a backup too.
ToggleFails(a) ==
    /\ op[a].pc \in {"save1", "fill1", "clear1", "save2", "fill2", "clear2", "put1", "put2"}
    /\ Does(a, Resting)
    /\ scene' = [scene EXCEPT !.cut = @ \/ op[a].pc \in {"fill1", "fill2"}]
    /\ UNCHANGED <<arch, files, build, live, lock>>
-----------------------------------------------------------------------------
\* Steam replaces the exe and the archive, while no ACECM operation is under way.
Update ==
    /\ build < MaxUpdates /\ build' = build + 1
    /\ ~Running /\ \A a \in Actors : At(a, "idle")
    /\ arch' = Stock(build + 1)
    /\ UNCHANGED <<files, live, lock, op, scene>>

\* A killed ACECM: Windows gives its mutex to the next one that waits.
Killed ==
    /\ scene.faults < MaxFailures
    /\ scene' = [scene EXCEPT !.faults = @ + 1, !.cut = @ \/ HalfSaved("fill1") \/ HalfSaved("fill2")]
    /\ op' = [a \in Actors |-> Resting] /\ lock' = None
    /\ UNCHANGED <<arch, files, build, live>>

EditsNext ==
    \/ \E a \in Actors :
        \/ Start(a) \/ Edit(a) \/ Toggle(a) \/ Locks(a)
        \/ Missing(a) \/ Plan(a) \/ Note(a) \/ Deploy(a) \/ EditFails(a)
        \/ Compare(a) \/ PutsBack(a)
        \/ Status(a) \/ Templates(a) \/ DamageFails(a) \/ Spawn(a)
        \/ Read1(a) \/ Save1(a) \/ Fill1(a) \/ Clear1(a)
        \/ Read2(a) \/ Save2(a) \/ Fill2(a) \/ Clear2(a)
        \/ Put1(a) \/ Put2(a) \/ ToggleFails(a)
    \/ Stop \/ Update \/ Killed

EditsSpec == EditsInit /\ [][EditsNext]_editVars
-----------------------------------------------------------------------------
(* Properties *)

\* "A backup from BEFORE a game update would downgrade content.kspkg under a newer
\* server" (restore): while every backup got its note, the archive is that of the
\* installed server.
OneBuild == scene.faults = 0 => arch.build = build

\* "Two interleaved table edits lose a row" (archlock.rs): but for Steam and a
\* restored backup, what is deployed stays.
TracksKept ==
    [][arch.tracks \subseteq arch'.tracks
       \/ build' # build \/ \E a \in Actors : At(a, "copy")]_editVars

\* "Rewriting the archive after a failed backup left no way back" (backup): while
\* tracks are deployed there is a backup, from before the first one.
WayBack == arch.tracks # {} => backup # None /\ backup.tracks = {}

\* The toggle and restore look for a running server before they write: a start that is
\* under way is none, so each can write over the damage the start has set.
Unguarded == {"restore", "off", "on"}

\* "Make the archive match THIS profile" (apply_for): a server whose start set the
\* damage, or found it set, runs with it in every template that can be read, and there is
\* one, where no toggle or restore runs beside the start. A foreign template keeps its own.
ServedAsAsked ==
    scene.ops \cap Unguarded = {} /\ Running /\ live.applied => Shows(live.damage)

\* What the toggle has taken out it can put back: a second patch, or one beside it, never
\* leaves a cleared entry as the backup, nor half an entry but while it writes it - unless
\* a write of a backup failed or was killed, or a restore read one that was being written.
PenaltiesBack ==
    ~scene.cut =>
        /\ arch.penalties # "on" => bak1 = "on" \/ HalfSaved("fill1")
        /\ arch.practice.triggers # "on" => (bak2 # None /\ bak2.triggers = "on") \/ HalfSaved("fill2")

\* Every variable stays in its domain; the lock is held exactly between the steps
\* that take it and give it back.
UnderLock == {"missing", "plan", "note", "write", "compare", "copy", "templates"}

EditsTypeOK ==
    /\ arch \in Archives /\ backup \in Archives \cup {None}
    /\ note \in 0..MaxUpdates \cup {None} /\ build \in 0..MaxUpdates
    /\ \A a \in Actors : Holds(a) <=> op[a].pc \in UnderLock
=============================================================================
