----------------------------- MODULE Conversion -----------------------------
(***************************************************************************)
(* converttrack.rs and convert.rs: conversions of one Assetto Corsa track. *)
(* A job runs the converter (a process of its own, converter/src/track),   *)
(* which writes <work>/<id>, checks what it wrote and installs it: files   *)
(* to the mods folder, rows to the game's tables, and the conversions it   *)
(* replaces out.  A finished one is installed or taken out by requests of  *)
(* their own; only the job's state keeps any of these apart.               *)
(***************************************************************************)
EXTENDS Naturals, FiniteSets

CONSTANTS
    Ids,            \* the ids the track is converted under
    Versions,       \* what a conversion may write ...
    Good,           \* ... and what of that the check accepts
    Threads,
    Installed,      \* the id that is installed at first
    First,          \* and its version
    None,
    Scenes          \* bounds: the requests made, how many, how often something fails, ACECM dies,
                    \* Stop is pressed and the game is started

Bounds == [kinds : SUBSET {"convert", "install", "uninstall"}, serial : BOOLEAN, fresh : BOOLEAN, page : BOOLEAN,
           asks : Nat, faults : Nat, kills : Nat, stops : Nat, games : Nat, died : BOOLEAN]

ASSUME ConstantsAssumption ==
    /\ Good \subseteq Versions /\ First \in Good /\ Installed \in Ids
    /\ None \notin Versions \cup Nat \cup Ids \cup Threads
    /\ Scenes \subseteq Bounds
    /\ \A s \in Scenes : ~s.died /\ (s.fresh => s.serial /\ s.kinds = {"convert"})

VARIABLES
    work,       \* the converter's output folders
    dest,       \* the mods folder's tracks
    row,        \* the name each track has in the game's tables
    game,       \* the game runs
    job,        \* JOB
    kids,       \* the converters that run, and the threads that wait for them
    hist,       \* the last conversion, as the history has it
    op,         \* what each thread is doing
    left        \* the scene, with what may still happen

vars == <<work, dest, row, game, job, kids, hist, op, left>>

(* A folder: is it there, the version its scene is from, and the name its  *)
(* declaration gives the track.  The declaration is written last.          *)
Tree(v, name) == [made |-> TRUE, scene |-> v, decl |-> name]
Empty    == [made |-> FALSE, scene |-> None, decl |-> None]
Whole(t) == t.scene # None /\ t.decl # None
\* What a removal that stops may leave.
Remains(t) == {Tree(v, name) : v \in {t.scene, None}, name \in {t.decl, None}}

Resting == [kind |-> "none", pc |-> "idle", id |-> None, install |-> FALSE, replace |-> {}, ok |-> TRUE,
            cancelled |-> FALSE, name |-> None, old |-> {}, todo |-> {}]
NoJob   == [state |-> "idle", cancel |-> FALSE, pid |-> FALSE]
Converted(d, id) == d[id].decl # None

Init ==
    /\ work = [id \in Ids |-> IF id = Installed THEN Tree(First, 0) ELSE Empty]
    /\ dest = work
    /\ row = [id \in Ids |-> IF id = Installed THEN 0 ELSE None]
    /\ game = FALSE /\ job = NoJob /\ kids = {}
    /\ hist = [id |-> Installed, ok |-> TRUE, installed |-> TRUE]
    /\ op = [t \in Threads |-> Resting]
    /\ left \in Scenes

Spend(what) == left[what] > 0 /\ left' = [left EXCEPT ![what] = @ - 1]
Fault       == Spend("faults")
At(t, pc)   == op[t].pc = pc
Does(t, step) == op' = [op EXCEPT ![t] = step]
Then(t, pc) == Does(t, [op[t] EXCEPT !.pc = pc])
Fails(t)    == Does(t, [op[t] EXCEPT !.ok = FALSE, !.pc = "end"])
\* In a serial scene one request is made at a time, and none while an earlier converter runs on.
Asks(t, kind) ==
    /\ At(t, "idle") /\ kind \in left.kinds /\ Spend("asks")
    /\ left.serial => kids = {} /\ \A u \in Threads : At(u, "idle")
Id(t)   == op[t].id
Kid(t)  == {k \in kids : k.of = t}

-----------------------------------------------------------------------------
(* start *)

Converts(t) ==
    /\ Asks(t, "convert")
    /\ \E id \in Ids, install \in BOOLEAN : \E replace \in SUBSET (Ids \ {id}) :
        /\ left.fresh => dest[id] = Empty
        /\ install => ~game
        /\ Does(t, [Resting EXCEPT !.kind = "convert", !.pc = "spawn", !.id = id, !.install = install,
                                   !.replace = replace])
    /\ job' = [NoJob EXCEPT !.state = "running"]
    /\ UNCHANGED <<work, dest, row, game, kids, hist>>

\* Mutant: a conversion that runs is not asked for.
AskStart_Beside(t) == Converts(t)

\* One job at a time: asked for and set under one lock.
AskStart(t) == job.state # "running" /\ Converts(t)

\* run_converter
Spawn(t) ==
    /\ At(t, "spawn")
    /\ \/ /\ \E v \in Versions : kids' = kids \cup {[of |-> t, id |-> Id(t), v |-> v, pc |-> "clean", name |-> None]}
          /\ Then(t, "keep pid") /\ UNCHANGED <<job, left>>
       \/ Fault /\ job' = [job EXCEPT !.state = "error"] /\ Does(t, Resting) /\ UNCHANGED kids
    /\ UNCHANGED <<work, dest, row, game, hist>>

\* Stop knows the process from here on.
KeepPid(t) ==
    /\ At(t, "keep pid")
    /\ job' = [job EXCEPT !.pid = TRUE] /\ Then(t, "wait")
    /\ UNCHANGED <<work, dest, row, game, kids, hist, left>>

Waited(t, cancelled) ==
    /\ At(t, "wait") /\ Kid(t) = {}
    /\ LET ok == op[t].ok /\ Converted(work, Id(t)) /\ ~cancelled IN
       Does(t, [op[t] EXCEPT !.cancelled = cancelled, !.ok = ok, !.pc = IF ok THEN "check" ELSE "end"])
    /\ UNCHANGED <<work, dest, row, game, job, kids, hist, left>>

\* Mutant: only the exit code counts, and a stopped converter may have ended well.
Wait_Forgets(t) == Waited(t, FALSE)

\* The converter has ended: its code, the declaration and Stop decide.
Wait(t) == Waited(t, job.cancel)

\* Mutant: what the check says is shown only.
Check_Shown(t) ==
    /\ At(t, "check")
    /\ Then(t, IF op[t].install THEN "game" ELSE "end")
    /\ UNCHANGED <<work, dest, row, game, job, kids, hist, left>>

\* Never install what the validator rejects.
Check(t) ==
    /\ At(t, "check")
    /\ IF work[Id(t)].scene \in Good /\ Converted(work, Id(t)) THEN Then(t, IF op[t].install THEN "game" ELSE "end")
       ELSE Fails(t)
    /\ UNCHANGED <<work, dest, row, game, job, kids, hist, left>>

\* The job's result, and the history's; a cancelled conversion leaves the history alone.
EndJob(t) ==
    /\ At(t, "end") /\ op[t].kind = "convert"
    /\ job' = [job EXCEPT !.pid = FALSE,
                          !.state = IF op[t].ok THEN "done" ELSE IF op[t].cancelled THEN "cancelled" ELSE "error"]
    /\ hist' = IF op[t].cancelled THEN hist
               ELSE [id |-> Id(t), ok |-> op[t].ok, installed |-> op[t].ok /\ op[t].install]
    /\ Does(t, Resting)
    /\ UNCHANGED <<work, dest, row, game, kids, left>>

-----------------------------------------------------------------------------
(* The converter: clean_out, then the folder written, the declaration last. *)

Goes(k, steps) == kids' = (kids \ {k}) \cup steps
\* It ends with an error, which its thread sees.
Dies(k) ==
    /\ Goes(k, {})
    /\ op' = [t \in Threads |-> IF t = k.of THEN [op[t] EXCEPT !.ok = FALSE] ELSE op[t]]

\* Only a folder with a declaration is replaced; one without, unless it is empty, ends the conversion.
Clean(k) ==
    /\ k.pc = "clean"
    /\ LET t == work[k.id] IN
       \/ /\ ~t.made \/ t.decl # None
          /\ work' = [work EXCEPT ![k.id] = Empty] /\ Goes(k, {[k EXCEPT !.pc = "name"]})
          /\ UNCHANGED <<op, left>>
       \/ t.made /\ t.decl = None /\ Dies(k) /\ UNCHANGED <<work, left>>
       \/ t.decl # None /\ Fault /\ Dies(k) /\ \E r \in Remains(t) : work' = [work EXCEPT ![k.id] = r]
    /\ UNCHANGED <<dest, row, game, job, hist>>

\* A name no other track has in the game's tables.
Names == 0..Cardinality(Ids)
Free(id) == {n \in Names : \A o \in Ids \ {id} : row[o] # n}

Name(k) ==
    /\ k.pc = "name"
    /\ work' = [work EXCEPT ![k.id].made = TRUE]
    /\ \E n \in Free(k.id) :
        /\ \A m \in Free(k.id) : n <= m
        /\ Goes(k, {[k EXCEPT !.pc = "scene", !.name = n]})
    /\ UNCHANGED <<dest, row, game, job, hist, op, left>>

Write(k) ==
    /\ \/ k.pc = "scene" /\ work' = [work EXCEPT ![k.id] = [@ EXCEPT !.made = TRUE, !.scene = k.v]]
                         /\ Goes(k, {[k EXCEPT !.pc = "decl"]})
       \/ k.pc = "decl"  /\ work' = [work EXCEPT ![k.id] = [@ EXCEPT !.made = TRUE, !.decl = k.name]]
                         /\ Goes(k, {[k EXCEPT !.pc = "exit"]})
    /\ UNCHANGED <<dest, row, game, job, hist, op, left>>

Exit(k) ==
    /\ k.pc = "exit" /\ Goes(k, {})
    /\ UNCHANGED <<work, dest, row, game, job, hist, op, left>>

ConverterFails(k) ==
    /\ Fault /\ Dies(k)
    /\ UNCHANGED <<work, dest, row, game, job, hist>>

-----------------------------------------------------------------------------
(* cancel *)

\* The flag is set under the lock; the process is killed after it, when it is known.
AskCancel(t) ==
    /\ At(t, "idle") /\ job.state = "running" /\ Spend("stops")
    /\ job' = [job EXCEPT !.cancel = TRUE]
    /\ Does(t, IF job.pid THEN [Resting EXCEPT !.pc = "kill"] ELSE Resting)
    /\ UNCHANGED <<work, dest, row, game, kids, hist>>

\* The process that was the job's when the flag was set: it may have ended.
KillChild(t) ==
    /\ At(t, "kill")
    /\ \/ /\ \E k \in kids :
              /\ k.of \in Threads
              /\ kids' = kids \ {k}
              /\ op' = [op EXCEPT ![t] = Resting, ![k.of].ok = FALSE]
              /\ work' \in {work} \cup
                   (IF k.pc = "clean" /\ Converted(work, k.id)
                    THEN {[work EXCEPT ![k.id] = r] : r \in Remains(work[k.id])} ELSE {})
       \/ (\A k \in kids : k.of \notin Threads) /\ Does(t, Resting) /\ UNCHANGED <<kids, work>>
    /\ UNCHANGED <<dest, row, game, job, hist, left>>

-----------------------------------------------------------------------------
(* install_built, by a job or by install_api *)

\* What the page offers to install: the last conversion, when it went well and is not in the game.
Offered(id) == left.page => hist = [id |-> id, ok |-> TRUE, installed |-> FALSE]

\* That no conversion runs is asked for once; the check is not made again.
AskInstall(t) ==
    /\ Asks(t, "install") /\ job.state # "running"
    /\ \E id \in Ids : \E replace \in SUBSET (Ids \ {id}) :
        /\ Offered(id)
        /\ Does(t, [Resting EXCEPT !.kind = "install", !.pc = "game", !.id = id, !.replace = replace])
    /\ UNCHANGED <<work, dest, row, game, job, kids, hist>>

\* The game is closed, and the declaration is read once.
Begin(t) ==
    /\ At(t, "game")
    /\ IF game \/ ~Converted(work, Id(t)) THEN Fails(t)
       ELSE Does(t, [op[t] EXCEPT !.pc = "clash", !.name = work[Id(t)].decl,
                                  !.old = {o \in op[t].replace : Converted(dest, o)}])
    /\ UNCHANGED <<work, dest, row, game, job, kids, hist, left>>

\* Two tracks of one name break the game's lists; a folder that is not a conversion is not replaced.
Clash(t) ==
    /\ At(t, "clash")
    /\ IF \/ \E o \in Ids \ (op[t].old \cup {Id(t)}) : row[o] = op[t].name
          \/ dest[Id(t)].made /\ ~Converted(dest, Id(t))
       THEN Fails(t)
       ELSE Then(t, "clear")
    /\ UNCHANGED <<work, dest, row, game, job, kids, hist, left>>

\* Mutant: what is replaced goes first.
Clear_OldToo(t) ==
    /\ At(t, "clear")
    /\ dest' = [id \in Ids |-> IF id \in op[t].old \cup {Id(t)} THEN Empty ELSE dest[id]]
    /\ Does(t, [op[t] EXCEPT !.pc = "copy", !.todo = {"scene", "decl"}])
    /\ UNCHANGED <<work, row, game, job, kids, hist, left>>

\* An earlier copy of this id is deleted, and the folder made.
Clear(t) ==
    /\ At(t, "clear")
    /\ \/ /\ dest' = [dest EXCEPT ![Id(t)] = Tree(None, None)]
          /\ Does(t, [op[t] EXCEPT !.pc = "copy", !.todo = {"scene", "decl"}]) /\ UNCHANGED left
       \/ /\ dest[Id(t)].made /\ Fault /\ Fails(t)
          /\ \E r \in Remains(dest[Id(t)]) : dest' = [dest EXCEPT ![Id(t)] = r]
    /\ UNCHANGED <<work, row, game, job, kids, hist>>

\* copy_dir, in the order the folder is listed; it copies what is there now.
Copy(t) ==
    /\ At(t, "copy")
    /\ \/ /\ \E part \in op[t].todo :
              /\ dest' = [dest EXCEPT ![Id(t)] = [@ EXCEPT !.made = TRUE, ![part] = work[Id(t)][part]]]
              /\ Does(t, [op[t] EXCEPT !.todo = @ \ {part}, !.pc = IF op[t].todo = {part} THEN "declare" ELSE @])
          /\ UNCHANGED left
       \/ Fault /\ Fails(t) /\ UNCHANGED dest
    /\ UNCHANGED <<work, row, game, job, kids, hist>>

\* declare: the rows of the replaced conversions out and the new ones in, in one write of the tables.
Declare(t) ==
    /\ At(t, "declare")
    /\ \/ /\ ~game
          /\ row' = [id \in Ids |-> IF id = Id(t) THEN op[t].name ELSE IF id \in op[t].old THEN None ELSE row[id]]
          /\ Then(t, "drop") /\ UNCHANGED left
       \/ (IF game THEN UNCHANGED left ELSE Fault) /\ Fails(t) /\ UNCHANGED row
    /\ UNCHANGED <<work, dest, game, job, kids, hist>>

\* The replaced folders go, as far as they can be deleted.
Drop(t) ==
    /\ At(t, "drop")
    /\ LET gone == {o \in op[t].old : Converted(dest, o)} IN
       IF gone = {} THEN Then(t, "end") /\ UNCHANGED <<dest, left>>
       ELSE \E o \in gone :
            /\ \/ dest' = [dest EXCEPT ![o] = Empty] /\ UNCHANGED left
               \/ Fault /\ \E r \in Remains(dest[o]) : dest' = [dest EXCEPT ![o] = r]
            /\ Does(t, [op[t] EXCEPT !.old = @ \ {o}])
    /\ UNCHANGED <<work, row, game, job, kids, hist>>

EndInstall(t) ==
    /\ At(t, "end") /\ op[t].kind = "install"
    /\ hist' = IF op[t].ok /\ hist.id = Id(t) THEN [hist EXCEPT !.installed = TRUE] ELSE hist
    /\ Does(t, Resting)
    /\ UNCHANGED <<work, dest, row, game, job, kids, left>>

-----------------------------------------------------------------------------
(* uninstall: the rows first, then the folder *)

AskUninstall(t) ==
    /\ Asks(t, "uninstall") /\ ~game
    /\ \E id \in Ids :
        /\ Converted(dest, id)
        /\ Does(t, [Resting EXCEPT !.kind = "uninstall", !.pc = "unlist", !.id = id])
    /\ UNCHANGED <<work, dest, row, game, job, kids, hist>>

Unlist(t) ==
    /\ At(t, "unlist")
    /\ \/ ~game /\ row' = [row EXCEPT ![Id(t)] = None] /\ Then(t, "delete") /\ UNCHANGED left
       \/ (IF game THEN UNCHANGED left ELSE Fault) /\ Does(t, Resting) /\ UNCHANGED row
    /\ UNCHANGED <<work, dest, game, job, kids, hist>>

Delete(t) ==
    /\ At(t, "delete")
    /\ \/ dest' = [dest EXCEPT ![Id(t)] = Empty] /\ UNCHANGED left
       \/ Fault /\ \E r \in Remains(dest[Id(t)]) : dest' = [dest EXCEPT ![Id(t)] = r]
    /\ hist' = IF hist.id = Id(t) THEN [hist EXCEPT !.installed = FALSE] ELSE hist
    /\ Does(t, Resting)
    /\ UNCHANGED <<work, row, game, job, kids>>

-----------------------------------------------------------------------------

StartGame ==
    /\ ~game /\ Spend("games") /\ game' = TRUE
    /\ UNCHANGED <<work, dest, row, job, kids, hist, op>>

CloseGame ==
    /\ game /\ game' = FALSE
    /\ UNCHANGED <<work, dest, row, job, kids, hist, op, left>>

\* ACECM dies and is started again; a converter runs on.
Die ==
    /\ left.kills > 0 /\ left' = [left EXCEPT !.kills = @ - 1, !.died = TRUE]
    /\ op' = [t \in Threads |-> Resting] /\ job' = NoJob
    /\ kids' = {[k EXCEPT !.of = None] : k \in kids}
    /\ UNCHANGED <<work, dest, row, game, hist>>

Step(t) ==
    \/ Spawn(t) \/ KeepPid(t) \/ Wait(t) \/ Check(t) \/ EndJob(t) \/ KillChild(t)
    \/ Begin(t) \/ Clash(t) \/ Clear(t) \/ Copy(t) \/ Declare(t) \/ Drop(t) \/ EndInstall(t)
    \/ Unlist(t) \/ Delete(t)

Runs(k) == Clean(k) \/ Name(k) \/ Write(k) \/ Exit(k)

Next ==
    \/ \E t \in Threads : AskStart(t) \/ AskCancel(t) \/ AskInstall(t) \/ AskUninstall(t) \/ Step(t)
    \/ \E k \in kids : Runs(k) \/ ConverterFails(k)
    \/ StartGame \/ CloseGame \/ Die

Spec == Init /\ [][Next]_vars

\* Threads and the converter are scheduled; nobody has to ask for anything.
FairSpec ==
    /\ Spec
    /\ \A t \in Threads : WF_vars(Step(t))
    /\ WF_vars(\E k \in kids : Runs(k))

-----------------------------------------------------------------------------

\* A conversion under a new id that replaces an earlier one: whatever fails, is stopped or dies, every
\* track in the game's list has its files, and the old track is there until the new one is.
OldUntilNew == left.fresh =>
    /\ \E id \in Ids : row[id] # None
    /\ \A id \in Ids : row[id] # None => Whole(dest[id])

\* No two tracks in the game's list have the same name, though the name was chosen when the track was
\* converted, and the list may be another one when it is installed.
OneName == left.serial =>
    \A a, b \in Ids : a # b /\ row[a] = row[b] => row[a] = None

\* Nothing that fails the check is put in the game ...
OnlyChecked == \A id \in Ids : dest[id].scene \in Good \cup {None}

\* ... by conversion jobs: no other conversion writes the folder between the check and the copy.
JobsInstallChecked == "install" \notin left.kinds /\ ~left.died => OnlyChecked

\* A conversion that is stopped before its converter has ended comes to an end, and is not done: also
\* when Stop came before the converter's process was known, and could not be killed.
Stopped  == job.state = "running" /\ job.cancel /\ \E t \in Threads : op[t].pc \in {"spawn", "keep pid", "wait"}
StopEnds == Stopped ~> job.state \in {"idle", "cancelled", "error"}
=============================================================================
