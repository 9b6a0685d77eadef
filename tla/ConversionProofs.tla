-------------------------- MODULE ConversionProofs --------------------------
(* Proofs about Conversion: for any number of ids, versions and threads, and *)
(* any number of failures, deaths and stops, the track in the game's list is *)
(* there until the new one is, no name is listed twice, and a job installs   *)
(* only what the check accepts.                                              *)
EXTENDS Conversion, TLAPS

(* The state, its types and what a thread's step says of it.                 *)

Parts == {"scene", "decl"}
Trees == [made : BOOLEAN, scene : Versions \cup {None}, decl : Nat \cup {None}]
Steps == [kind : {"none", "convert", "install", "uninstall"},
          pc : {"idle", "kill", "spawn", "keep pid", "wait", "check", "game", "clash", "clear", "copy",
                "declare", "drop", "end", "unlist", "delete"},
          id : Ids \cup {None}, install : BOOLEAN, replace : SUBSET Ids, ok : BOOLEAN, cancelled : BOOLEAN,
          name : Nat \cup {None}, old : SUBSET Ids, todo : SUBSET Parts]
Kids  == [of : Threads \cup {None}, id : Ids, v : Versions, pc : {"clean", "name", "scene", "decl", "exit"},
          name : Nat \cup {None}]
Jobs  == [state : {"idle", "running", "done", "cancelled", "error"}, cancel : BOOLEAN, pid : BOOLEAN]

TypeOK ==
    /\ work \in [Ids -> Trees] /\ dest \in [Ids -> Trees]
    /\ row \in [Ids -> Nat \cup {None}]
    /\ game \in BOOLEAN /\ job \in Jobs
    /\ kids \subseteq Kids /\ op \in [Threads -> Steps]
    /\ left \in Bounds

Busy(t) == op[t].pc \notin {"idle", "kill"}
Job(t)  == Busy(t) /\ op[t].kind = "convert"

\* What each step of a thread goes with.
ShapeOf(t) ==
    /\ Busy(t) => op[t].id \in Ids
    /\ op[t].pc \in {"spawn", "keep pid", "wait", "check"} => op[t].kind = "convert"
    /\ op[t].pc \in {"game", "clash", "clear", "copy", "declare", "drop", "end"} => op[t].kind \in {"convert", "install"}
    /\ op[t].pc \in {"unlist", "delete"} => op[t].kind = "uninstall"
    /\ op[t].pc \in {"clash", "clear", "copy", "declare", "drop"} => op[t].name # None
    /\ op[t].id \notin op[t].replace /\ op[t].old \subseteq op[t].replace
    /\ op[t].kind # "none" => op[t].kind \in left.kinds
Shape ==
    /\ \A t \in Threads : ShapeOf(t)
    /\ left.fresh => left.serial /\ left.kinds = {"convert"}

\* JOB is held from start to end by one thread, and a converter that is not an orphan belongs to it.
JobHeld ==
    /\ \A t \in Threads : Job(t) => job.state = "running"
    /\ \A t, u \in Threads : Job(t) /\ Job(u) => t = u
    /\ \A k \in kids : k.of # None => Job(k.of) /\ op[k.of].pc \in {"keep pid", "wait"} /\ op[k.of].id = k.id
    /\ ~left.died => \A k \in kids : k.of # None

\* In a serial scene one thread is busy, or an orphan runs.
Alone == left.serial =>
    /\ \A t, u \in Threads : Busy(t) /\ Busy(u) => t = u
    /\ \A k, l \in kids : k = l
    /\ \A k \in kids : k.of = None => \A t \in Threads : ~Busy(t)
    /\ \A t \in Threads : op[t].pc = "spawn" => kids = {}

\* Between the check and the copy nothing writes what was checked.
Covered == "install" \notin left.kinds /\ ~left.died
CheckedOf(t) == op[t].pc \in {"game", "clash", "clear", "copy"} => work[op[t].id].scene \in Good
Checked == Covered => OnlyChecked /\ \A t \in Threads : CheckedOf(t)

\* A name that was free when it was asked for stays free until its row is in.
NameOf(t) == op[t].pc \in {"clear", "copy", "declare"} =>
    \A o \in Ids : o # op[t].id /\ o \notin op[t].old => row[o] # op[t].name
NameKept == left.serial => OneName /\ \A t \in Threads : NameOf(t)

\* Where a conversion that replaces another stands, for each step of its thread.
ReplacingOf(t) ==
    /\ op[t].pc \in {"spawn", "keep pid", "wait", "check", "game", "clash", "clear", "copy", "declare"}
        => row[op[t].id] = None
    /\ op[t].pc \in {"game", "clash", "clear", "copy"} => Whole(work[op[t].id])
    /\ op[t].pc = "copy" => \A part \in Parts \ op[t].todo : dest[op[t].id][part] # None
    /\ op[t].pc = "declare" => Whole(dest[op[t].id])
    /\ op[t].pc = "drop" => row[op[t].id] # None /\ \A o \in op[t].old : row[o] = None
Replacing == left.fresh => OldUntilNew /\ \A t \in Threads : ReplacingOf(t)

IInv == TypeOK /\ Shape /\ JobHeld /\ Alone /\ Checked /\ NameKept /\ Replacing

(* What a step does to the thread's record and to the scene.                 *)

Pcs == {"idle", "kill", "spawn", "keep pid", "wait", "check", "game", "clash", "clear", "copy",
        "declare", "drop", "end", "unlist", "delete"}
Keeps(t) ==
    /\ op'[t].kind = op[t].kind /\ op'[t].id = op[t].id /\ op'[t].replace = op[t].replace
    /\ op'[t].name = op[t].name /\ op'[t].old = op[t].old /\ op'[t].todo = op[t].todo
Still(t) == Keeps(t) /\ op'[t].pc = op[t].pc
Others(t) == op' \in [Threads -> Steps] /\ \A u \in Threads : u # t => op'[u] = op[u]
SceneKept ==
    /\ left' \in Bounds
    /\ left'.kinds = left.kinds /\ left'.serial = left.serial /\ left'.fresh = left.fresh /\ left'.died = left.died
Moves(t, pc) == Others(t) /\ Keeps(t) /\ op'[t].pc = pc

Rests(t) ==
    /\ Others(t) /\ op'[t].pc = "idle" /\ op'[t].kind = "none" /\ op'[t].id = None
    /\ op'[t].replace = {} /\ op'[t].old = {}

LEMMA SpendKept ==
    ASSUME TypeOK, NEW what \in {"asks", "faults", "kills", "stops", "games"}, Spend(what)
    PROVE  SceneKept
  BY DEF TypeOK, Bounds, Spend, SceneKept

LEMMA SameKept == ASSUME TypeOK, UNCHANGED left PROVE SceneKept
  BY DEF TypeOK, SceneKept

LEMMA DoesOthers ==
    ASSUME TypeOK, NEW t \in Threads, NEW step \in Steps, Does(t, step)
    PROVE  Others(t) /\ op'[t] = step
  BY DEF TypeOK, Does, Others

LEMMA ThenMoves ==
    ASSUME TypeOK, NEW t \in Threads, NEW pc \in Pcs, Then(t, pc)
    PROVE  Moves(t, pc)
  <1>1. op[t] \in Steps
    BY DEF TypeOK
  <1>2. [op[t] EXCEPT !.pc = pc] \in Steps
    BY <1>1 DEF Steps, Pcs
  <1>3. Others(t) /\ op'[t] = [op[t] EXCEPT !.pc = pc]
    BY <1>2, DoesOthers DEF Then
  <1> QED
    BY <1>1, <1>3 DEF Moves, Keeps, Steps

LEMMA FailsMoves ==
    ASSUME TypeOK, NEW t \in Threads, Fails(t)
    PROVE  Moves(t, "end")
  <1>1. op[t] \in Steps
    BY DEF TypeOK
  <1>2. [op[t] EXCEPT !.ok = FALSE, !.pc = "end"] \in Steps
    BY <1>1 DEF Steps
  <1>3. Others(t) /\ op'[t] = [op[t] EXCEPT !.ok = FALSE, !.pc = "end"]
    BY <1>2, DoesOthers DEF Fails
  <1> QED
    BY <1>1, <1>3 DEF Moves, Keeps, Steps

LEMMA RestsIdle == ASSUME TypeOK, NEW t \in Threads, Does(t, Resting) PROVE Rests(t)
  <1>1. Resting \in Steps
    BY DEF Steps, Resting
  <1>2. Others(t) /\ op'[t] = Resting
    BY <1>1, DoesOthers
  <1> QED
    BY <1>2 DEF Rests, Resting


(* Steps that leave the folders and the rows alone, and steps that leave the *)
(* job and its converter alone.                                              *)

LEMMA QuietKeeps ==
    ASSUME IInv, NEW t \in Threads, Others(t), SceneKept, UNCHANGED <<work, dest, row>>,
           ShapeOf(t)', Covered => CheckedOf(t)', left.serial => NameOf(t)', left.fresh => ReplacingOf(t)'
    PROVE  Shape' /\ Checked' /\ NameKept' /\ Replacing'
  <1>1. ASSUME NEW u \in Threads, u # t
        PROVE  /\ ShapeOf(u)' /\ (Covered => CheckedOf(u)') /\ (left.serial => NameOf(u)')
               /\ (left.fresh => ReplacingOf(u)')
    <2>1. op'[u] = op[u] /\ ShapeOf(u)
      BY <1>1 DEF Others, IInv, Shape
    <2>2. ShapeOf(u)'
      BY <2>1 DEF ShapeOf, Busy, SceneKept
    <2>3. Covered => CheckedOf(u)'
      BY <2>1 DEF IInv, Checked, CheckedOf
    <2>4. left.serial => NameOf(u)'
      BY <2>1 DEF IInv, NameKept, NameOf
    <2>5. left.fresh => ReplacingOf(u)'
      BY <2>1 DEF IInv, Replacing, ReplacingOf, Whole
    <2> QED
      BY <2>2, <2>3, <2>4, <2>5
  <1>2. Shape'
    BY <1>1 DEF IInv, Shape, SceneKept
  <1>3. Checked'
    BY <1>1 DEF IInv, Checked, Covered, OnlyChecked, SceneKept
  <1>4. NameKept'
    BY <1>1 DEF IInv, NameKept, OneName, SceneKept
  <1>5. Replacing'
    BY <1>1 DEF IInv, Replacing, OldUntilNew, Whole, SceneKept
  <1> QED
    BY <1>2, <1>3, <1>4, <1>5

\* Only a thread that waits has a converter.
LEMMA NoKid ==
    ASSUME IInv, NEW t \in Threads, op[t].pc \notin {"keep pid", "wait"}
    PROVE  \A k \in kids : k.of # t
  BY ConstantsAssumption DEF IInv, JobHeld

LEMMA AdvanceKeeps ==
    ASSUME IInv, NEW t \in Threads, NEW pc \in Pcs \ {"idle", "kill", "spawn"}, Busy(t), Moves(t, pc), SceneKept,
           UNCHANGED kids, job'.state = job.state, \A k \in kids : k.of = t => pc \in {"keep pid", "wait"}
    PROVE  JobHeld' /\ Alone'
  <1>1. ASSUME NEW u \in Threads
        PROVE  /\ Busy(u)' = Busy(u) /\ Job(u)' = Job(u) /\ op'[u].id = op[u].id
               /\ op'[u].pc = "spawn" => op[u].pc = "spawn"
    BY <1>1 DEF Moves, Keeps, Others, Busy, Job, Pcs
  <1>2. \A k \in kids : k.of # None => k.of \in Threads
    BY DEF IInv, TypeOK, Kids
  <1>3. \A k \in kids : k.of # None => Job(k.of)' /\ op'[k.of].pc \in {"keep pid", "wait"} /\ op'[k.of].id = k.id
    BY <1>1, <1>2 DEF IInv, JobHeld, Moves, Others
  <1>4. JobHeld'
    BY <1>1, <1>3 DEF IInv, JobHeld, SceneKept
  <1>5. Alone'
    BY <1>1 DEF IInv, Alone, SceneKept
  <1> QED
    BY <1>4, <1>5

LEMMA RestKeeps ==
    ASSUME IInv, NEW t \in Threads, Others(t), op'[t].pc \in {"idle", "kill"}, SceneKept,
           UNCHANGED kids, \A k \in kids : k.of # t, job'.state = job.state \/ Job(t)
    PROVE  JobHeld' /\ Alone'
  <1>1. \A u \in Threads : u # t => Busy(u)' = Busy(u) /\ Job(u)' = Job(u) /\ op'[u] = op[u]
    BY DEF Others, Busy, Job
  <1>2. ~Busy(t)' /\ ~Job(t)' /\ op'[t].pc # "spawn"
    BY DEF Busy, Job
  <1>3. \A k \in kids : k.of # None => k.of \in Threads
    BY DEF IInv, TypeOK, Kids
  <1>4. JobHeld'
    <2>1. \A u \in Threads : Job(u)' => job'.state = "running"
      BY <1>1, <1>2 DEF IInv, JobHeld
    <2>2. \A u, v \in Threads : Job(u)' /\ Job(v)' => u = v
      BY <1>1, <1>2 DEF IInv, JobHeld
    <2>3. \A k \in kids : k.of # None => Job(k.of)' /\ op'[k.of].pc \in {"keep pid", "wait"} /\ op'[k.of].id = k.id
      BY <1>1, <1>3 DEF IInv, JobHeld
    <2> QED
      BY <2>1, <2>2, <2>3 DEF IInv, JobHeld, SceneKept
  <1>5. Alone'
    BY <1>1, <1>2 DEF IInv, Alone, SceneKept
  <1> QED
    BY <1>4, <1>5

\* A step of a busy thread without a converter.
LEMMA StayKeeps ==
    ASSUME IInv, NEW t \in Threads, Busy(t), Others(t), Busy(t)', Job(t)' = Job(t), op'[t].pc # "spawn", SceneKept,
           UNCHANGED kids, job'.state = job.state, \A k \in kids : k.of # t
    PROVE  JobHeld' /\ Alone'
  <1>1. \A u \in Threads : /\ Busy(u)' = Busy(u) /\ Job(u)' = Job(u) /\ (u # t => op'[u] = op[u])
                           /\ op'[u].pc = "spawn" => op[u].pc = "spawn"
    BY DEF Others, Busy, Job
  <1>2. \A k \in kids : k.of # None => k.of \in Threads
    BY DEF IInv, TypeOK, Kids
  <1>3. \A k \in kids : k.of # None => Job(k.of)' /\ op'[k.of].pc \in {"keep pid", "wait"} /\ op'[k.of].id = k.id
    BY <1>1, <1>2 DEF IInv, JobHeld
  <1>4. JobHeld'
    BY <1>1, <1>3 DEF IInv, JobHeld, SceneKept
  <1>5. Alone'
    BY <1>1 DEF IInv, Alone, SceneKept
  <1> QED
    BY <1>4, <1>5

\* A thread that starts: in a serial scene nothing else runs.
LEMMA StartKeeps ==
    ASSUME IInv, NEW t \in Threads, Others(t), op[t].pc = "idle", SceneKept, UNCHANGED kids,
           left.serial => kids = {} /\ \A u \in Threads : op[u].pc = "idle",
           IF Job(t)' THEN job.state # "running" /\ job'.state = "running" ELSE job'.state = job.state
    PROVE  JobHeld' /\ Alone'
  <1>1. \A u \in Threads : u # t => Busy(u)' = Busy(u) /\ Job(u)' = Job(u) /\ op'[u] = op[u]
    BY DEF Others, Busy, Job
  <1>2. \A k \in kids : k.of # None => k.of \in Threads /\ k.of # t
    BY DEF IInv, TypeOK, Kids, JobHeld, Job, Busy
  <1>3. JobHeld'
    <2>1. \A u \in Threads : Job(u)' => job'.state = "running"
      BY <1>1 DEF IInv, JobHeld
    <2>2. \A u, v \in Threads : Job(u)' /\ Job(v)' => u = v
      BY <1>1 DEF IInv, JobHeld
    <2>3. \A k \in kids : k.of # None => Job(k.of)' /\ op'[k.of].pc \in {"keep pid", "wait"} /\ op'[k.of].id = k.id
      BY <1>1, <1>2 DEF IInv, JobHeld
    <2> QED
      BY <2>1, <2>2, <2>3 DEF IInv, JobHeld, SceneKept
  <1>4. Alone'
    BY <1>1 DEF Alone, Busy, SceneKept
  <1> QED
    BY <1>3, <1>4


LEMMA KeepPidKeeps == ASSUME IInv, NEW t \in Threads, KeepPid(t) PROVE IInv'
  <1>t. TypeOK
    BY DEF IInv
  <1>1. op[t].pc = "keep pid" /\ Moves(t, "wait") /\ SceneKept /\ job' \in Jobs /\ job'.state = job.state
        /\ UNCHANGED <<work, dest, row, game, kids>>
    BY <1>t, ThenMoves, SameKept DEF KeepPid, At, Pcs, TypeOK, Jobs
  <1>2. TypeOK'
    BY <1>t, <1>1 DEF TypeOK, Moves, Rests, Others, SceneKept
  <1>3. ShapeOf(t)' /\ (Covered => CheckedOf(t)') /\ (left.serial => NameOf(t)') /\ (left.fresh => ReplacingOf(t)')
    <2>1. ShapeOf(t)'
      BY <1>1 DEF IInv, Shape, ShapeOf, Busy, Moves, Keeps, SceneKept
    <2>2. Covered => CheckedOf(t)'
      BY <1>1 DEF IInv, Checked, CheckedOf, Moves, Keeps
    <2>3. left.serial => NameOf(t)'
      BY <1>1 DEF IInv, NameKept, NameOf, Moves, Keeps
    <2>4. left.fresh => ReplacingOf(t)'
      BY <1>1 DEF IInv, Replacing, ReplacingOf, Moves, Keeps, Whole
    <2> QED
      BY <2>1, <2>2, <2>3, <2>4
  <1>4. Shape' /\ Checked' /\ NameKept' /\ Replacing'
    BY <1>1, <1>3, QuietKeeps DEF Moves, Rests
  <1>5. JobHeld' /\ Alone'
    BY <1>1, AdvanceKeeps, NoKid DEF Busy, Pcs
  <1> QED
    BY <1>2, <1>4, <1>5 DEF IInv

LEMMA WaitKeeps == ASSUME IInv, NEW t \in Threads, Wait(t) PROVE IInv'
  <1>t. TypeOK
    BY DEF IInv
  <1>s. op[t] \in Steps
    BY <1>t DEF TypeOK
  <1>u. [op[t] EXCEPT !.cancelled = job.cancel,
                      !.ok = op[t].ok /\ Converted(work, Id(t)) /\ ~job.cancel,
                      !.pc = IF op[t].ok /\ Converted(work, Id(t)) /\ ~job.cancel THEN "check" ELSE "end"] \in Steps
    BY <1>t, <1>s DEF TypeOK, Jobs, Steps
  <1>v. /\ Others(t)
        /\ op'[t] = [op[t] EXCEPT !.cancelled = job.cancel,
                      !.ok = op[t].ok /\ Converted(work, Id(t)) /\ ~job.cancel,
                      !.pc = IF op[t].ok /\ Converted(work, Id(t)) /\ ~job.cancel THEN "check" ELSE "end"]
    BY <1>t, <1>u, DoesOthers DEF Wait, Waited
  <1>1. /\ op[t].pc = "wait" /\ op[t].kind = "convert" /\ Others(t) /\ Keeps(t) /\ op'[t].pc \in {"check", "end"}
        /\ SceneKept /\ Kid(t) = {} /\ UNCHANGED <<work, dest, row, game, job, kids>>
    BY <1>t, <1>s, <1>v, SameKept DEF Wait, Waited, At, Keeps, Steps, IInv, Shape, ShapeOf
  <1>2. TypeOK'
    BY <1>t, <1>1 DEF TypeOK, Moves, Rests, Others, SceneKept
  <1>3. ShapeOf(t)' /\ (Covered => CheckedOf(t)') /\ (left.serial => NameOf(t)') /\ (left.fresh => ReplacingOf(t)')
    <2>1. ShapeOf(t)'
      BY <1>1 DEF IInv, Shape, ShapeOf, Busy, Moves, Keeps, SceneKept
    <2>2. Covered => CheckedOf(t)'
      BY <1>1 DEF IInv, Checked, CheckedOf, Moves, Keeps
    <2>3. left.serial => NameOf(t)'
      BY <1>1 DEF IInv, NameKept, NameOf, Moves, Keeps
    <2>4. left.fresh => ReplacingOf(t)'
      BY <1>1 DEF IInv, Replacing, ReplacingOf, Moves, Keeps, Whole
    <2> QED
      BY <2>1, <2>2, <2>3, <2>4
  <1>4. Shape' /\ Checked' /\ NameKept' /\ Replacing'
    BY <1>1, <1>3, QuietKeeps DEF Moves, Rests
  <1>5. JobHeld' /\ Alone'
    BY <1>1, AdvanceKeeps DEF Moves, Busy, Pcs, Kid
  <1> QED
    BY <1>2, <1>4, <1>5 DEF IInv

LEMMA CheckKeeps == ASSUME IInv, NEW t \in Threads, Check(t) PROVE IInv'
  <1>t. TypeOK
    BY DEF IInv
  <1>1. /\ op[t].pc = "check" /\ op[t].kind = "convert" /\ SceneKept /\ UNCHANGED <<work, dest, row, game, job, kids>>
        /\ \/ Moves(t, "game") /\ work[op[t].id].scene \in Good /\ work[op[t].id].decl # None
           \/ Moves(t, "end")
    BY <1>t, ThenMoves, FailsMoves, SameKept DEF Check, At, Pcs, Id, Converted, IInv, Shape, ShapeOf
  <1>2. TypeOK'
    BY <1>t, <1>1 DEF TypeOK, Moves, Rests, Others, SceneKept
  <1>3. ShapeOf(t)' /\ (Covered => CheckedOf(t)') /\ (left.serial => NameOf(t)') /\ (left.fresh => ReplacingOf(t)')
    <2>1. ShapeOf(t)'
      BY <1>1 DEF IInv, Shape, ShapeOf, Busy, Moves, Keeps, SceneKept
    <2>2. Covered => CheckedOf(t)'
      BY <1>1 DEF IInv, Checked, CheckedOf, Moves, Keeps
    <2>3. left.serial => NameOf(t)'
      BY <1>1 DEF IInv, NameKept, NameOf, Moves, Keeps
    <2>4. left.fresh => ReplacingOf(t)'
      BY <1>1, ConstantsAssumption DEF IInv, Replacing, ReplacingOf, Moves, Keeps, Whole
    <2> QED
      BY <2>1, <2>2, <2>3, <2>4
  <1>4. Shape' /\ Checked' /\ NameKept' /\ Replacing'
    BY <1>1, <1>3, QuietKeeps DEF Moves, Rests
  <1>5. JobHeld' /\ Alone'
    BY <1>1, AdvanceKeeps, NoKid DEF Busy, Pcs
  <1> QED
    BY <1>2, <1>4, <1>5 DEF IInv

LEMMA EndJobKeeps == ASSUME IInv, NEW t \in Threads, EndJob(t) PROVE IInv'
  <1>t. TypeOK
    BY DEF IInv
  <1>1. /\ op[t].pc = "end" /\ op[t].kind = "convert" /\ SceneKept /\ UNCHANGED <<work, dest, row, game, kids>>
        /\ Rests(t) /\ job' \in Jobs
    BY <1>t, RestsIdle, SameKept DEF EndJob, At, TypeOK, Jobs
  <1>2. TypeOK'
    BY <1>t, <1>1 DEF TypeOK, Moves, Rests, Others, SceneKept
  <1>3. ShapeOf(t)' /\ (Covered => CheckedOf(t)') /\ (left.serial => NameOf(t)') /\ (left.fresh => ReplacingOf(t)')
    <2>1. ShapeOf(t)'
      BY <1>1, ConstantsAssumption DEF IInv, Shape, ShapeOf, Busy, Rests, SceneKept
    <2>2. Covered => CheckedOf(t)'
      BY <1>1 DEF IInv, Checked, CheckedOf, Rests
    <2>3. left.serial => NameOf(t)'
      BY <1>1 DEF IInv, NameKept, NameOf, Rests
    <2>4. left.fresh => ReplacingOf(t)'
      BY <1>1 DEF IInv, Replacing, ReplacingOf, Rests, Whole
    <2> QED
      BY <2>1, <2>2, <2>3, <2>4
  <1>4. Shape' /\ Checked' /\ NameKept' /\ Replacing'
    BY <1>1, <1>3, QuietKeeps DEF Moves, Rests
  <1>5. JobHeld' /\ Alone'
    BY <1>1, RestKeeps, NoKid DEF Rests, Job, Busy
  <1> QED
    BY <1>2, <1>4, <1>5 DEF IInv

LEMMA EndInstallKeeps == ASSUME IInv, NEW t \in Threads, EndInstall(t) PROVE IInv'
  <1>t. TypeOK
    BY DEF IInv
  <1>1. /\ op[t].pc = "end" /\ op[t].kind = "install" /\ SceneKept /\ UNCHANGED <<work, dest, row, game, job, kids>>
        /\ Rests(t)
    BY <1>t, RestsIdle, SameKept DEF EndInstall, At
  <1>2. TypeOK'
    BY <1>t, <1>1 DEF TypeOK, Moves, Rests, Others, SceneKept
  <1>3. ShapeOf(t)' /\ (Covered => CheckedOf(t)') /\ (left.serial => NameOf(t)') /\ (left.fresh => ReplacingOf(t)')
    <2>1. ShapeOf(t)'
      BY <1>1, ConstantsAssumption DEF IInv, Shape, ShapeOf, Busy, Rests, SceneKept
    <2>2. Covered => CheckedOf(t)'
      BY <1>1 DEF IInv, Checked, CheckedOf, Rests
    <2>3. left.serial => NameOf(t)'
      BY <1>1 DEF IInv, NameKept, NameOf, Rests
    <2>4. left.fresh => ReplacingOf(t)'
      BY <1>1 DEF IInv, Replacing, ReplacingOf, Rests, Whole
    <2> QED
      BY <2>1, <2>2, <2>3, <2>4
  <1>4. Shape' /\ Checked' /\ NameKept' /\ Replacing'
    BY <1>1, <1>3, QuietKeeps DEF Moves, Rests
  <1>5. JobHeld' /\ Alone'
    BY <1>1, RestKeeps, NoKid DEF Rests, Job, Busy
  <1> QED
    BY <1>2, <1>4, <1>5 DEF IInv

LEMMA AskCancelKeeps == ASSUME IInv, NEW t \in Threads, AskCancel(t) PROVE IInv'
  <1>t. TypeOK
    BY DEF IInv
  <1>s. Resting \in Steps /\ [Resting EXCEPT !.pc = "kill"] \in Steps
    BY DEF Steps, Resting
  <1>u. Does(t, Resting) \/ Does(t, [Resting EXCEPT !.pc = "kill"])
    BY DEF AskCancel
  <1>v. /\ Others(t) /\ op'[t].pc \in {"idle", "kill"} /\ op'[t].kind = "none" /\ op'[t].id = None
        /\ op'[t].replace = {} /\ op'[t].old = {}
    BY <1>t, <1>s, <1>u, DoesOthers DEF Resting
  <1>1. /\ op[t].pc = "idle" /\ SceneKept /\ UNCHANGED <<work, dest, row, game, kids>>
        /\ Others(t) /\ op'[t].pc \in {"idle", "kill"} /\ op'[t].kind = "none" /\ op'[t].id = None
        /\ op'[t].replace = {} /\ op'[t].old = {} /\ job' \in Jobs /\ job'.state = job.state
    BY <1>t, <1>u, <1>v, SpendKept DEF AskCancel, At, TypeOK, Jobs
  <1>2. TypeOK'
    BY <1>t, <1>1 DEF TypeOK, Moves, Rests, Others, SceneKept
  <1>3. ShapeOf(t)' /\ (Covered => CheckedOf(t)') /\ (left.serial => NameOf(t)') /\ (left.fresh => ReplacingOf(t)')
    <2>1. ShapeOf(t)'
      BY <1>1, ConstantsAssumption DEF IInv, Shape, ShapeOf, Busy, Moves, Keeps, SceneKept
    <2>2. Covered => CheckedOf(t)'
      BY <1>1 DEF IInv, Checked, CheckedOf, Moves, Keeps
    <2>3. left.serial => NameOf(t)'
      BY <1>1 DEF IInv, NameKept, NameOf, Moves, Keeps
    <2>4. left.fresh => ReplacingOf(t)'
      BY <1>1 DEF IInv, Replacing, ReplacingOf, Moves, Keeps, Whole
    <2> QED
      BY <2>1, <2>2, <2>3, <2>4
  <1>4. Shape' /\ Checked' /\ NameKept' /\ Replacing'
    BY <1>1, <1>3, QuietKeeps DEF Moves, Rests
  <1>5. JobHeld' /\ Alone'
    BY <1>1, RestKeeps, NoKid DEF Job, Busy
  <1> QED
    BY <1>2, <1>4, <1>5 DEF IInv

LEMMA BeginKeeps == ASSUME IInv, NEW t \in Threads, Begin(t) PROVE IInv'
  <1>t. TypeOK
    BY DEF IInv
  <1> DEFINE step == [op[t] EXCEPT !.pc = "clash", !.name = work[Id(t)].decl,
                                   !.old = {o \in op[t].replace : Converted(dest, o)}]
  <1>s. op[t] \in Steps /\ op[t].pc = "game" /\ op[t].id \in Ids /\ work[op[t].id] \in Trees
    BY <1>t DEF TypeOK, Begin, At, IInv, Shape, ShapeOf, Busy
  <1>u. step \in Steps
    BY <1>s DEF Steps, Trees, Id
  <1>v. Fails(t) \/ (Does(t, step) /\ work[op[t].id].decl # None)
    BY DEF Begin, Converted, Id
  <1>w. ASSUME Does(t, step)
        PROVE  /\ Others(t) /\ op'[t].pc = "clash" /\ op'[t].kind = op[t].kind /\ op'[t].id = op[t].id
               /\ op'[t].replace = op[t].replace /\ op'[t].old \subseteq op[t].replace /\ op'[t].name = work[op[t].id].decl
    <2>1. Others(t) /\ op'[t] = step
      BY <1>t, <1>u, <1>w, DoesOthers
    <2>2. step.old = {o \in op[t].replace : Converted(dest, o)}
      BY <1>s DEF Steps
    <2>3. /\ step.pc = "clash" /\ step.kind = op[t].kind /\ step.id = op[t].id
          /\ step.replace = op[t].replace /\ step.name = work[op[t].id].decl
      BY <1>s DEF Steps, Id
    <2> HIDE DEF step
    <2> QED
      BY <2>1, <2>2, <2>3
  <1> HIDE DEF step
  <1>1. /\ op[t].pc = "game" /\ SceneKept /\ UNCHANGED <<work, dest, row, game, job, kids>>
        /\ \/ /\ Others(t) /\ op'[t].pc = "clash" /\ op'[t].kind = op[t].kind /\ op'[t].id = op[t].id
              /\ op'[t].replace = op[t].replace /\ op'[t].old \subseteq op[t].replace /\ op'[t].name # None
           \/ Moves(t, "end")
    BY <1>t, <1>s, <1>v, <1>w, FailsMoves, SameKept DEF Begin
  <1>2. TypeOK'
    BY <1>t, <1>1 DEF TypeOK, Moves, Rests, Others, SceneKept
  <1>3. ShapeOf(t)' /\ (Covered => CheckedOf(t)') /\ (left.serial => NameOf(t)') /\ (left.fresh => ReplacingOf(t)')
    <2>1. ShapeOf(t)'
      BY <1>1 DEF IInv, Shape, ShapeOf, Busy, Moves, Keeps, SceneKept
    <2>2. Covered => CheckedOf(t)'
      BY <1>1 DEF IInv, Checked, CheckedOf, Moves, Keeps
    <2>3. left.serial => NameOf(t)'
      BY <1>1 DEF IInv, NameKept, NameOf, Moves, Keeps
    <2>4. left.fresh => ReplacingOf(t)'
      BY <1>1 DEF IInv, Replacing, ReplacingOf, Moves, Keeps, Whole
    <2> QED
      BY <2>1, <2>2, <2>3, <2>4
  <1>4. Shape' /\ Checked' /\ NameKept' /\ Replacing'
    BY <1>1, <1>3, QuietKeeps DEF Moves, Rests
  <1>5. JobHeld' /\ Alone'
    <2>1. Busy(t) /\ Busy(t)' /\ Job(t)' = Job(t) /\ op'[t].pc # "spawn" /\ Others(t)
      BY <1>1 DEF Moves, Keeps, Busy, Job
    <2> QED
      BY <1>1, <2>1, NoKid, StayKeeps
  <1> QED
    BY <1>2, <1>4, <1>5 DEF IInv

LEMMA ClashKeeps == ASSUME IInv, NEW t \in Threads, Clash(t) PROVE IInv'
  <1>t. TypeOK
    BY DEF IInv
  <1>1. /\ op[t].pc = "clash" /\ SceneKept /\ UNCHANGED <<work, dest, row, game, job, kids>>
        /\ \/ /\ Moves(t, "clear")
              /\ \A o \in Ids : o # op[t].id /\ o \notin op[t].old => row[o] # op[t].name
           \/ Moves(t, "end")
    BY <1>t, ThenMoves, FailsMoves, SameKept DEF Clash, At, Pcs, Id
  <1>2. TypeOK'
    BY <1>t, <1>1 DEF TypeOK, Moves, Rests, Others, SceneKept
  <1>3. ShapeOf(t)' /\ (Covered => CheckedOf(t)') /\ (left.serial => NameOf(t)') /\ (left.fresh => ReplacingOf(t)')
    <2>1. ShapeOf(t)'
      BY <1>1 DEF IInv, Shape, ShapeOf, Busy, Moves, Keeps, SceneKept
    <2>2. Covered => CheckedOf(t)'
      BY <1>1 DEF IInv, Checked, CheckedOf, Moves, Keeps
    <2>3. left.serial => NameOf(t)'
      BY <1>1 DEF IInv, NameKept, NameOf, Moves, Keeps
    <2>4. left.fresh => ReplacingOf(t)'
      BY <1>1 DEF IInv, Replacing, ReplacingOf, Moves, Keeps, Whole
    <2> QED
      BY <2>1, <2>2, <2>3, <2>4
  <1>4. Shape' /\ Checked' /\ NameKept' /\ Replacing'
    BY <1>1, <1>3, QuietKeeps DEF Moves, Rests
  <1>5. JobHeld' /\ Alone'
    BY <1>1, AdvanceKeeps, NoKid DEF Busy, Pcs
  <1> QED
    BY <1>2, <1>4, <1>5 DEF IInv

LEMMA BusyKeeps ==
    ASSUME IInv, NEW t \in Threads, Busy(t), Others(t), SceneKept, UNCHANGED work,
           ShapeOf(t)', Covered => CheckedOf(t)' /\ OnlyChecked', left.serial => NameOf(t)' /\ OneName',
           left.fresh => ReplacingOf(t)' /\ OldUntilNew'
    PROVE  Shape' /\ Checked' /\ NameKept' /\ Replacing'
  <1>1. ASSUME NEW u \in Threads, u # t
        PROVE  /\ ShapeOf(u)' /\ (Covered => CheckedOf(u)') /\ (left.serial => NameOf(u)')
               /\ (left.fresh => ReplacingOf(u)')
    <2>1. op'[u] = op[u] /\ ShapeOf(u)
      BY <1>1 DEF Others, IInv, Shape
    <2>2. ShapeOf(u)'
      BY <2>1 DEF ShapeOf, Busy, SceneKept
    <2>3. Covered => CheckedOf(u)'
      BY <2>1 DEF IInv, Checked, CheckedOf
    <2>4. left.serial => op'[u].pc \in {"idle", "kill"}
      BY <1>1, <2>1 DEF IInv, Alone, Busy
    <2>5. left.serial => NameOf(u)'
      BY <2>4 DEF NameOf
    <2>6. left.fresh => ReplacingOf(u)'
      BY <2>4 DEF IInv, Shape, ReplacingOf
    <2> QED
      BY <2>2, <2>3, <2>5, <2>6
  <1>2. Shape'
    BY <1>1 DEF IInv, Shape, SceneKept
  <1>3. Checked'
    BY <1>1 DEF IInv, Checked, Covered, SceneKept
  <1>4. NameKept'
    BY <1>1 DEF NameKept, SceneKept
  <1>5. Replacing'
    BY <1>1 DEF Replacing, SceneKept
  <1> QED
    BY <1>2, <1>3, <1>4, <1>5

LEMMA AskStartKeeps == ASSUME IInv, NEW t \in Threads, AskStart(t) PROVE IInv'
  <1>t. TypeOK
    BY DEF IInv
  <1>q. PICK id \in Ids, install \in BOOLEAN, replace \in SUBSET Ids :
            id \notin replace /\ Does(t, [Resting EXCEPT !.kind = "convert", !.pc = "spawn", !.id = id, !.install = install, !.replace = replace]) /\ (left.fresh => dest[id] = Empty)
    BY DEF AskStart, Converts
  <1> DEFINE step == [Resting EXCEPT !.kind = "convert", !.pc = "spawn", !.id = id, !.install = install, !.replace = replace]
  <1>s. /\ step \in Steps /\ step.kind = "convert" /\ step.pc = "spawn" /\ step.id = id
        /\ step.replace \subseteq Ids \ {id} /\ step.old = {}
    <2>1. Resting \in Steps /\ Resting.replace = {} /\ Resting.old = {}
      BY DEF Resting, Steps
    <2> QED
      BY <1>q, <2>1 DEF Steps
  <1>p. Does(t, step) /\ (left.fresh => dest[id] = Empty)
    BY <1>q
  <1> HIDE DEF step
  <1>0. op[t].pc = "idle" /\ "convert" \in left.kinds /\ Spend("asks")
        /\ (left.serial => kids = {} /\ \A u \in Threads : op[u].pc = "idle")
    BY DEF AskStart, Converts, Asks, At
  <1>1. /\ Others(t) /\ op'[t] = step /\ SceneKept /\ UNCHANGED <<work, dest, row, game, kids>>
        /\ job' \in Jobs /\ job.state # "running" /\ job'.state = "running"
    BY <1>t, <1>p, <1>s, <1>0, DoesOthers, SpendKept DEF AskStart, Converts, NoJob, Jobs
  <1>2. TypeOK'
    BY <1>t, <1>1 DEF TypeOK, Others, SceneKept
  <1>3. ShapeOf(t)' /\ (Covered => CheckedOf(t)') /\ (left.serial => NameOf(t)') /\ (left.fresh => ReplacingOf(t)')
    <2>1. ShapeOf(t)'
      BY <1>s, <1>0, <1>1 DEF ShapeOf, Busy, SceneKept
    <2>2. Covered => CheckedOf(t)'
      BY <1>s, <1>0, <1>1 DEF CheckedOf, Covered
    <2>3. NameOf(t)'
      BY <1>s, <1>1 DEF NameOf
    <2>w. ~Whole(Empty)
      BY DEF Whole, Empty
    <2>4. left.fresh => ReplacingOf(t)'
      BY <1>s, <1>p, <1>0, <1>1, <2>w DEF ReplacingOf, IInv, Replacing, OldUntilNew
    <2> QED
      BY <2>1, <2>2, <2>3, <2>4
  <1>4. Shape' /\ Checked' /\ NameKept' /\ Replacing'
    BY <1>1, <1>3, QuietKeeps
  <1>5. JobHeld' /\ Alone'
    BY <1>s, <1>0, <1>1, StartKeeps DEF Job, Busy
  <1> QED
    BY <1>2, <1>4, <1>5 DEF IInv

LEMMA AskInstallKeeps == ASSUME IInv, NEW t \in Threads, AskInstall(t) PROVE IInv'
  <1>t. TypeOK
    BY DEF IInv
  <1>q. PICK id \in Ids, replace \in SUBSET Ids :
            id \notin replace /\ Does(t, [Resting EXCEPT !.kind = "install", !.pc = "game", !.id = id, !.replace = replace])
    BY DEF AskInstall
  <1> DEFINE step == [Resting EXCEPT !.kind = "install", !.pc = "game", !.id = id, !.replace = replace]
  <1>s. /\ step \in Steps /\ step.kind = "install" /\ step.pc = "game" /\ step.id = id
        /\ step.replace \subseteq Ids \ {id} /\ step.old = {}
    <2>1. Resting \in Steps /\ Resting.replace = {} /\ Resting.old = {}
      BY DEF Resting, Steps
    <2> QED
      BY <1>q, <2>1 DEF Steps
  <1>p. Does(t, step)
    BY <1>q
  <1> HIDE DEF step
  <1>0. op[t].pc = "idle" /\ "install" \in left.kinds /\ Spend("asks")
        /\ (left.serial => kids = {} /\ \A u \in Threads : op[u].pc = "idle")
    BY DEF AskInstall, Asks, At
  <1>1. /\ Others(t) /\ op'[t] = step /\ SceneKept /\ UNCHANGED <<work, dest, row, game, kids>>
        /\ UNCHANGED job
    BY <1>t, <1>p, <1>s, <1>0, DoesOthers, SpendKept DEF AskInstall, NoJob, Jobs
  <1>2. TypeOK'
    BY <1>t, <1>1 DEF TypeOK, Others, SceneKept
  <1>3. ShapeOf(t)' /\ (Covered => CheckedOf(t)') /\ (left.serial => NameOf(t)') /\ (left.fresh => ReplacingOf(t)')
    <2>1. ShapeOf(t)'
      BY <1>s, <1>0, <1>1 DEF ShapeOf, Busy, SceneKept
    <2>2. Covered => CheckedOf(t)'
      BY <1>s, <1>0, <1>1 DEF CheckedOf, Covered
    <2>3. NameOf(t)'
      BY <1>s, <1>1 DEF NameOf
    <2>4. left.fresh => ReplacingOf(t)'
      BY <1>s, <1>0, <1>1 DEF ReplacingOf, IInv, Shape
    <2> QED
      BY <2>1, <2>2, <2>3, <2>4
  <1>4. Shape' /\ Checked' /\ NameKept' /\ Replacing'
    BY <1>1, <1>3, QuietKeeps
  <1>5. JobHeld' /\ Alone'
    BY <1>s, <1>0, <1>1, StartKeeps DEF Job, Busy
  <1> QED
    BY <1>2, <1>4, <1>5 DEF IInv

LEMMA AskUninstallKeeps == ASSUME IInv, NEW t \in Threads, AskUninstall(t) PROVE IInv'
  <1>t. TypeOK
    BY DEF IInv
  <1>q. PICK id \in Ids :
            Does(t, [Resting EXCEPT !.kind = "uninstall", !.pc = "unlist", !.id = id])
    BY DEF AskUninstall
  <1> DEFINE step == [Resting EXCEPT !.kind = "uninstall", !.pc = "unlist", !.id = id]
  <1>s. /\ step \in Steps /\ step.kind = "uninstall" /\ step.pc = "unlist" /\ step.id = id
        /\ step.replace \subseteq Ids \ {id} /\ step.old = {}
    <2>1. Resting \in Steps /\ Resting.replace = {} /\ Resting.old = {}
      BY DEF Resting, Steps
    <2> QED
      BY <1>q, <2>1 DEF Steps
  <1>p. Does(t, step)
    BY <1>q
  <1> HIDE DEF step
  <1>0. op[t].pc = "idle" /\ "uninstall" \in left.kinds /\ Spend("asks")
        /\ (left.serial => kids = {} /\ \A u \in Threads : op[u].pc = "idle")
    BY DEF AskUninstall, Asks, At
  <1>1. /\ Others(t) /\ op'[t] = step /\ SceneKept /\ UNCHANGED <<work, dest, row, game, kids>>
        /\ UNCHANGED job
    BY <1>t, <1>p, <1>s, <1>0, DoesOthers, SpendKept DEF AskUninstall, NoJob, Jobs
  <1>2. TypeOK'
    BY <1>t, <1>1 DEF TypeOK, Others, SceneKept
  <1>3. ShapeOf(t)' /\ (Covered => CheckedOf(t)') /\ (left.serial => NameOf(t)') /\ (left.fresh => ReplacingOf(t)')
    <2>1. ShapeOf(t)'
      BY <1>s, <1>0, <1>1 DEF ShapeOf, Busy, SceneKept
    <2>2. Covered => CheckedOf(t)'
      BY <1>s, <1>0, <1>1 DEF CheckedOf, Covered
    <2>3. NameOf(t)'
      BY <1>s, <1>1 DEF NameOf
    <2>4. left.fresh => ReplacingOf(t)'
      BY <1>s, <1>0, <1>1 DEF ReplacingOf, IInv, Shape
    <2> QED
      BY <2>1, <2>2, <2>3, <2>4
  <1>4. Shape' /\ Checked' /\ NameKept' /\ Replacing'
    BY <1>1, <1>3, QuietKeeps
  <1>5. JobHeld' /\ Alone'
    BY <1>s, <1>0, <1>1, StartKeeps DEF Job, Busy
  <1> QED
    BY <1>2, <1>4, <1>5 DEF IInv

LEMMA SpawnKeeps == ASSUME IInv, NEW t \in Threads, Spawn(t) PROVE IInv'
  <1>t. TypeOK /\ op[t].pc = "spawn" /\ op[t].kind = "convert" /\ op[t].id \in Ids /\ Job(t)
    BY DEF IInv, Shape, ShapeOf, Spawn, At, Busy, Job
  <1>k. \A k \in kids : k.of # t
    BY <1>t, NoKid
  <1>1. CASE /\ Then(t, "keep pid") /\ UNCHANGED <<work, dest, row, game, job, left>>
             /\ \E v \in Versions : kids' = kids \cup {[of |-> t, id |-> op[t].id, v |-> v, pc |-> "clean", name |-> None]}
    <2>1. Moves(t, "keep pid") /\ SceneKept
      BY <1>t, <1>1, ThenMoves, SameKept DEF Pcs
    <2>q. PICK v \in Versions :
            kids' = kids \cup {[of |-> t, id |-> op[t].id, v |-> v, pc |-> "clean", name |-> None]}
      BY <1>1
    <2> DEFINE k == [of |-> t, id |-> op[t].id, v |-> v, pc |-> "clean", name |-> None]
    <2>p. k \in Kids /\ kids' = kids \cup {k} /\ k.of = t /\ k.id = op[t].id
      BY <1>t, <2>q DEF Kids
    <2> HIDE DEF k
    <2>2. TypeOK'
      BY <1>t, <1>1, <2>1, <2>p DEF TypeOK, Moves, Others, SceneKept
    <2>3. ShapeOf(t)' /\ (Covered => CheckedOf(t)') /\ (left.serial => NameOf(t)') /\ (left.fresh => ReplacingOf(t)')
      <3>1. ShapeOf(t)'
        BY <1>t, <2>1 DEF IInv, Shape, ShapeOf, Busy, Moves, Keeps, SceneKept
      <3>2. CheckedOf(t)' /\ NameOf(t)'
        BY <2>1 DEF Moves, CheckedOf, NameOf
      <3>3. left.fresh => ReplacingOf(t)'
        BY <1>t, <1>1, <2>1 DEF IInv, Replacing, ReplacingOf, Moves, Keeps
      <3> QED
        BY <3>1, <3>2, <3>3
    <2>4. Shape' /\ Checked' /\ NameKept' /\ Replacing'
      BY <1>1, <2>1, <2>3, QuietKeeps DEF Moves
    <2>5. \A u \in Threads : Busy(u)' = Busy(u) /\ Job(u)' = Job(u) /\ op'[u].id = op[u].id /\ (u # t => op'[u] = op[u])
      BY <1>t, <2>1 DEF Moves, Keeps, Others, Busy, Job
    <2>6. JobHeld'
      <3>1. \A l \in kids' : l.of # None => Job(l.of)' /\ op'[l.of].pc \in {"keep pid", "wait"} /\ op'[l.of].id = l.id
        BY <1>t, <1>k, <2>1, <2>p, <2>5 DEF IInv, JobHeld, TypeOK, Kids, Moves
      <3>2. t # None /\ job' = job
        BY <1>1, ConstantsAssumption
      <3>3. ~left'.died => \A l \in kids' : l.of # None
        BY <2>1, <2>p, <3>2 DEF IInv, JobHeld, SceneKept
      <3>4. \A u \in Threads : Job(u)' => job'.state = "running"
        BY <2>5, <3>2 DEF IInv, JobHeld
      <3>5. \A u, w \in Threads : Job(u)' /\ Job(w)' => u = w
        BY <2>5 DEF IInv, JobHeld
      <3> QED
        BY <3>1, <3>3, <3>4, <3>5 DEF JobHeld
    <2>7. Alone'
      <3>1. t # None /\ op'[t].pc = "keep pid"
        BY <2>1, ConstantsAssumption DEF Moves
      <3>2. left.serial => kids' = {k} /\ \A u \in Threads : op'[u].pc # "spawn"
        BY <1>t, <2>5, <2>p, <3>1 DEF IInv, Alone, Busy
      <3>3. left.serial => \A u, w \in Threads : Busy(u)' /\ Busy(w)' => u = w
        BY <2>5 DEF IInv, Alone
      <3> QED
        BY <2>1, <2>p, <3>1, <3>2, <3>3 DEF Alone, SceneKept
    <2> QED
      BY <2>2, <2>4, <2>6, <2>7 DEF IInv
  <1>2. CASE /\ Fault /\ job' = [job EXCEPT !.state = "error"] /\ Does(t, Resting)
             /\ UNCHANGED <<work, dest, row, game, kids>>
    <2>1. Rests(t) /\ SceneKept /\ job' \in Jobs
      BY <1>t, <1>2, RestsIdle, SpendKept DEF Fault, TypeOK, Jobs
    <2>2. TypeOK'
      BY <1>t, <1>2, <2>1 DEF TypeOK, Rests, Others, SceneKept
    <2>3. ShapeOf(t)' /\ CheckedOf(t)' /\ NameOf(t)' /\ ReplacingOf(t)'
      BY <2>1, ConstantsAssumption DEF Rests, ShapeOf, Busy, CheckedOf, NameOf, ReplacingOf
    <2>4. Shape' /\ Checked' /\ NameKept' /\ Replacing'
      BY <1>2, <2>1, <2>3, QuietKeeps DEF Rests
    <2>5. JobHeld' /\ Alone'
      BY <1>t, <1>k, <1>2, <2>1, RestKeeps DEF Rests
    <2> QED
      BY <2>2, <2>4, <2>5 DEF IInv
  <1> QED
    BY <1>1, <1>2 DEF Spawn, Id

(* The steps that change the folders in the mods, or the rows.               *)

LEMMA RemainsTree ==
    ASSUME NEW x \in Trees, NEW r \in Remains(x)
    PROVE  r \in Trees /\ r.scene \in {x.scene, None}
  <1>1. PICK v \in {x.scene, None}, name \in {x.decl, None} : r = Tree(v, name)
    BY DEF Remains
  <1> QED
    BY <1>1 DEF Tree, Trees

LEMMA ClearKeeps == ASSUME IInv, NEW t \in Threads, Clear(t) PROVE IInv'
  <1>t. TypeOK
    BY DEF IInv
  <1>b. op[t].pc = "clear" /\ Busy(t) /\ op[t].id \in Ids /\ op[t] \in Steps
    BY <1>t DEF Clear, At, Busy, IInv, Shape, ShapeOf, TypeOK
  <1> DEFINE step == [op[t] EXCEPT !.pc = "copy", !.todo = {"scene", "decl"}]
  <1>s. /\ step \in Steps /\ step.pc = "copy" /\ step.kind = op[t].kind /\ step.id = op[t].id
        /\ step.replace = op[t].replace /\ step.name = op[t].name /\ step.old = op[t].old /\ step.todo = Parts
    BY <1>b DEF Steps, Parts
  <1>d. \/ Does(t, step) /\ dest' = [dest EXCEPT ![op[t].id] = Tree(None, None)] /\ UNCHANGED left
        \/ /\ Fails(t) /\ Fault
           /\ \E r \in Remains(dest[op[t].id]) : dest' = [dest EXCEPT ![op[t].id] = r]
    BY DEF Clear, Id
  <1> HIDE DEF step
  <1>1. /\ SceneKept /\ UNCHANGED <<work, row, game, job, kids>>
        /\ Others(t) /\ op'[t].kind = op[t].kind /\ op'[t].id = op[t].id /\ op'[t].replace = op[t].replace
        /\ op'[t].name = op[t].name /\ op'[t].old = op[t].old
        /\ op'[t].pc \in {"copy", "end"} /\ (op'[t].pc = "copy" => op'[t].todo = Parts)
    BY <1>t, <1>s, <1>d, DoesOthers, FailsMoves, SameKept, SpendKept DEF Clear, Fault, Moves, Keeps
  <1>w. PICK r \in Trees : /\ dest' = [dest EXCEPT ![op[t].id] = r]
                           /\ r.scene \in {dest[op[t].id].scene, None}
    <2>1. dest[op[t].id] \in Trees
      BY <1>t, <1>b DEF TypeOK
    <2>2. \A r \in Remains(dest[op[t].id]) : r \in Trees /\ r.scene \in {dest[op[t].id].scene, None}
      BY <2>1, RemainsTree
    <2>3. Tree(None, None) \in Trees /\ Tree(None, None).scene = None
      BY DEF Tree, Trees
    <2> QED
      BY <1>d, <2>2, <2>3
  <1>2. TypeOK'
    BY <1>t, <1>b, <1>1, <1>w DEF TypeOK, Others, SceneKept
  <1>3. /\ ShapeOf(t)' /\ (Covered => CheckedOf(t)' /\ OnlyChecked') /\ (left.serial => NameOf(t)' /\ OneName')
        /\ (left.fresh => ReplacingOf(t)' /\ OldUntilNew')
    <2>1. ShapeOf(t)'
      BY <1>b, <1>1 DEF IInv, Shape, ShapeOf, Busy, SceneKept
    <2>2. Covered => CheckedOf(t)' /\ OnlyChecked'
      BY <1>t, <1>b, <1>1, <1>w DEF IInv, Checked, CheckedOf, OnlyChecked, TypeOK
    <2>3. left.serial => NameOf(t)' /\ OneName'
      BY <1>b, <1>1 DEF IInv, NameKept, NameOf, OneName, SceneKept
    <2>4. left.fresh => ReplacingOf(t)' /\ OldUntilNew'
      BY <1>t, <1>b, <1>1, <1>w DEF IInv, Replacing, ReplacingOf, OldUntilNew, Whole, SceneKept, TypeOK
    <2> QED
      BY <2>1, <2>2, <2>3, <2>4
  <1>4. Shape' /\ Checked' /\ NameKept' /\ Replacing'
    BY <1>b, <1>1, <1>3, BusyKeeps DEF Others
  <1>5. JobHeld' /\ Alone'
    <2>1. Busy(t)' /\ Job(t)' = Job(t) /\ op'[t].pc # "spawn"
      BY <1>b, <1>1 DEF Busy, Job
    <2> QED
      BY <1>b, <1>1, <2>1, NoKid, StayKeeps
  <1> QED
    BY <1>2, <1>4, <1>5 DEF IInv

LEMMA CopyKeeps == ASSUME IInv, NEW t \in Threads, Copy(t) PROVE IInv'
  <1>t. TypeOK
    BY DEF IInv
  <1>b. op[t].pc = "copy" /\ Busy(t) /\ op[t].id \in Ids /\ op[t] \in Steps /\ dest[op[t].id] \in Trees /\ work[op[t].id] \in Trees
    BY <1>t DEF Copy, At, Busy, IInv, Shape, ShapeOf, TypeOK
  <1>1. CASE /\ Fault /\ Fails(t) /\ UNCHANGED <<work, dest, row, game, job, kids>>
    <2>1. Moves(t, "end") /\ SceneKept
      BY <1>t, <1>1, FailsMoves, SpendKept DEF Fault
    <2>2. TypeOK'
      BY <1>t, <1>1, <2>1 DEF TypeOK, Moves, Others, SceneKept
    <2>3. ShapeOf(t)' /\ CheckedOf(t)' /\ NameOf(t)' /\ ReplacingOf(t)'
      BY <1>b, <2>1 DEF IInv, Shape, ShapeOf, CheckedOf, NameOf, ReplacingOf, Busy, Moves, Keeps, SceneKept
    <2>4. Shape' /\ Checked' /\ NameKept' /\ Replacing'
      BY <1>1, <2>1, <2>3, QuietKeeps DEF Moves
    <2>5. JobHeld' /\ Alone'
      BY <1>1, <1>b, <2>1, AdvanceKeeps, NoKid DEF Pcs
    <2> QED
      BY <2>2, <2>4, <2>5 DEF IInv
  <1>2. ASSUME NEW part \in op[t].todo, UNCHANGED <<work, row, game, job, kids, left>>,
               dest' = [dest EXCEPT ![op[t].id] = [@ EXCEPT !.made = TRUE, ![part] = work[op[t].id][part]]],
               Does(t, [op[t] EXCEPT !.todo = @ \ {part}, !.pc = IF op[t].todo = {part} THEN "declare" ELSE @])
        PROVE  IInv'
    <2> DEFINE step == [op[t] EXCEPT !.todo = @ \ {part}, !.pc = IF op[t].todo = {part} THEN "declare" ELSE @]
               tree == [dest[op[t].id] EXCEPT !.made = TRUE, ![part] = work[op[t].id][part]]
    <2>s. /\ step \in Steps /\ step.pc = (IF op[t].todo = {part} THEN "declare" ELSE "copy") /\ step.kind = op[t].kind
          /\ step.id = op[t].id /\ step.replace = op[t].replace /\ step.name = op[t].name /\ step.old = op[t].old
          /\ step.todo = op[t].todo \ {part}
      BY <1>b DEF Steps
    <2>p. part \in Parts /\ op[t].todo \subseteq Parts
      BY <1>b, <1>2 DEF Steps
    <2>r. /\ tree \in Trees /\ tree[part] = work[op[t].id][part]
          /\ \A o \in Parts : o # part => tree[o] = dest[op[t].id][o]
      <3>1. CASE part = "scene"
        BY <1>b, <3>1 DEF Trees, Parts
      <3>2. CASE part = "decl"
        BY <1>b, <3>2 DEF Trees, Parts
      <3> QED
        BY <2>p, <3>1, <3>2 DEF Parts
    <2>d. Does(t, step) /\ dest' = [dest EXCEPT ![op[t].id] = tree]
      BY <1>2
    <2> HIDE DEF step, tree
    <2>1. /\ SceneKept /\ Others(t) /\ op'[t] = step
      BY <1>t, <1>2, <2>s, <2>d, DoesOthers, SameKept
    <2>2. TypeOK' /\ dest'[op[t].id] = tree /\ \A id \in Ids : id # op[t].id => dest'[id] = dest[id]
      BY <1>t, <1>b, <1>2, <2>1, <2>r, <2>d DEF TypeOK, Others, SceneKept
    <2>3. /\ ShapeOf(t)' /\ (Covered => CheckedOf(t)' /\ OnlyChecked') /\ (left.serial => NameOf(t)' /\ OneName')
          /\ (left.fresh => ReplacingOf(t)' /\ OldUntilNew')
      <3>1. ShapeOf(t)'
        BY <1>b, <2>1, <2>s DEF IInv, Shape, ShapeOf, Busy, SceneKept
      <3>2. Covered => CheckedOf(t)' /\ OnlyChecked'
        <4>1. Covered => work[op[t].id].scene \in Good /\ OnlyChecked
          BY <1>b DEF IInv, Checked, CheckedOf
        <4>2. Covered => CheckedOf(t)'
          BY <4>1, <1>2, <2>1, <2>s DEF CheckedOf
        <4>3. Covered => tree.scene \in Good \cup {None}
          BY <4>1, <1>b, <2>p, <2>r DEF OnlyChecked, Parts
        <4> QED
          BY <4>1, <4>2, <4>3, <2>2 DEF OnlyChecked
      <3>3. left.serial => NameOf(t)' /\ OneName'
        BY <1>b, <1>2, <2>1, <2>s DEF IInv, NameKept, NameOf, OneName, SceneKept
      <3>4. left.fresh => ReplacingOf(t)' /\ OldUntilNew'
        <4>1. left.fresh => /\ row[op[t].id] = None /\ Whole(work[op[t].id]) /\ OldUntilNew
                            /\ \A o \in Parts \ op[t].todo : dest[op[t].id][o] # None
          BY <1>b DEF IInv, Replacing, ReplacingOf
        <4>2. left.fresh => OldUntilNew'
          BY <4>1, <1>2, <2>1, <2>2 DEF OldUntilNew, Whole, SceneKept
        <4>3. left.fresh => \A o \in Parts \ step.todo : tree[o] # None
          BY <4>1, <2>s, <2>p, <2>r DEF Whole, Parts
        <4>4. left.fresh /\ step.pc = "declare" => Whole(tree)
          BY <4>3, <2>s DEF Whole, Parts
        <4> QED
          BY <1>2, <4>1, <4>2, <4>3, <4>4, <2>1, <2>2, <2>s DEF ReplacingOf
      <3> QED
        BY <3>1, <3>2, <3>3, <3>4
    <2>4. Shape' /\ Checked' /\ NameKept' /\ Replacing'
      BY <1>b, <1>2, <2>1, <2>3, BusyKeeps
    <2>5. Busy(t)' /\ Job(t)' = Job(t) /\ op'[t].pc # "spawn"
      BY <1>b, <2>1, <2>s DEF Busy, Job
    <2>6. JobHeld' /\ Alone'
      BY <1>b, <1>2, <2>1, <2>5, NoKid, StayKeeps
    <2> QED
      BY <2>2, <2>4, <2>6 DEF IInv
  <1> QED
    BY <1>1, <1>2 DEF Copy, Id

LEMMA DeclareKeeps == ASSUME IInv, NEW t \in Threads, Declare(t) PROVE IInv'
  <1>t. TypeOK
    BY DEF IInv
  <1>b. op[t].pc = "declare" /\ Busy(t) /\ op[t].id \in Ids /\ op[t] \in Steps /\ op[t].id \notin op[t].old /\ op[t].name # None
    BY <1>t DEF Declare, At, Busy, IInv, Shape, ShapeOf, TypeOK
  <1>1. /\ SceneKept /\ UNCHANGED <<work, dest, game, job, kids>>
        /\ \/ /\ Moves(t, "drop")
              /\ row' = [id \in Ids |-> IF id = op[t].id THEN op[t].name ELSE IF id \in op[t].old THEN None ELSE row[id]]
           \/ Moves(t, "end") /\ UNCHANGED row
    BY <1>t, ThenMoves, FailsMoves, SameKept, SpendKept DEF Declare, Pcs, Id, Fault
  <1>2. TypeOK'
    <2>1. op[t].name \in Nat \cup {None}
      BY <1>b DEF Steps
    <2>2. row' \in [Ids -> Nat \cup {None}]
      BY <1>t, <1>1, <2>1 DEF TypeOK
    <2> QED
      BY <1>t, <1>1, <2>2 DEF TypeOK, Moves, Others, SceneKept
  <1>3. /\ ShapeOf(t)' /\ (Covered => CheckedOf(t)' /\ OnlyChecked') /\ (left.serial => NameOf(t)' /\ OneName')
        /\ (left.fresh => ReplacingOf(t)' /\ OldUntilNew')
    <2>1. ShapeOf(t)'
      BY <1>b, <1>1 DEF IInv, Shape, ShapeOf, Busy, Moves, Keeps, SceneKept
    <2>2. Covered => CheckedOf(t)' /\ OnlyChecked'
      BY <1>1 DEF IInv, Checked, CheckedOf, OnlyChecked, Moves
    <2>3. NameOf(t)'
      BY <1>1 DEF NameOf, Moves
    <2>4. left.serial => OneName'
      BY <1>b, <1>1 DEF IInv, NameKept, NameOf, OneName, SceneKept
    <2>5. left.fresh => OldUntilNew'
      BY <1>b, <1>1 DEF IInv, Replacing, ReplacingOf, OldUntilNew, Whole, SceneKept
    <2>6. left.fresh => ReplacingOf(t)'
      <3>1. op[t].old \subseteq Ids
        BY <1>b DEF Steps
      <3>2. CASE Moves(t, "end")
        BY <3>2 DEF ReplacingOf, Moves
      <3>3. CASE /\ Moves(t, "drop")
                 /\ row' = [id \in Ids |-> IF id = op[t].id THEN op[t].name ELSE IF id \in op[t].old THEN None ELSE row[id]]
        <4>1. row'[op[t].id] # None /\ \A o \in op[t].old : row'[o] = None
          BY <1>b, <3>1, <3>3
        <4> QED
          BY <4>1, <3>3 DEF ReplacingOf, Moves, Keeps
      <3> QED
        BY <1>1, <3>2, <3>3
    <2> QED
      BY <2>1, <2>2, <2>3, <2>4, <2>5, <2>6
  <1>4. Shape' /\ Checked' /\ NameKept' /\ Replacing'
    BY <1>b, <1>1, <1>3, BusyKeeps DEF Moves
  <1>5. JobHeld' /\ Alone'
    <2>1. Busy(t)' /\ Job(t)' = Job(t) /\ op'[t].pc # "spawn"
      BY <1>b, <1>1 DEF Moves, Keeps, Busy, Job
    <2> QED
      BY <1>b, <1>1, <2>1, NoKid, StayKeeps DEF Moves
  <1> QED
    BY <1>2, <1>4, <1>5 DEF IInv

LEMMA DropKeeps == ASSUME IInv, NEW t \in Threads, Drop(t) PROVE IInv'
  <1>t. TypeOK
    BY DEF IInv
  <1>b. op[t].pc = "drop" /\ Busy(t) /\ op[t].id \in Ids /\ op[t] \in Steps /\ op[t].old \subseteq Ids
    BY <1>t DEF Drop, At, Busy, IInv, Shape, ShapeOf, TypeOK, Steps
  <1>1. /\ SceneKept /\ UNCHANGED <<work, row, game, job, kids>>
        /\ Others(t) /\ op'[t].kind = op[t].kind /\ op'[t].id = op[t].id /\ op'[t].replace = op[t].replace
        /\ op'[t].name = op[t].name /\ op'[t].old \subseteq op[t].old /\ op'[t].pc \in {"drop", "end"}
        /\ \/ UNCHANGED dest
           \/ \E o \in op[t].old, r \in Trees : r.scene \in {dest[o].scene, None} /\ dest' = [dest EXCEPT ![o] = r]
    <2>1. CASE Then(t, "end") /\ UNCHANGED <<dest, left>>
      BY <1>t, <2>1, ThenMoves, SameKept DEF Drop, Pcs, Moves, Keeps
    <2>2. ASSUME NEW o \in op[t].old,
                 \/ dest' = [dest EXCEPT ![o] = Empty] /\ UNCHANGED left
                 \/ Fault /\ \E r \in Remains(dest[o]) : dest' = [dest EXCEPT ![o] = r],
                 Does(t, [op[t] EXCEPT !.old = @ \ {o}])
          PROVE  /\ SceneKept /\ Others(t) /\ op'[t].kind = op[t].kind /\ op'[t].id = op[t].id
                 /\ op'[t].replace = op[t].replace /\ op'[t].name = op[t].name /\ op'[t].old \subseteq op[t].old
                 /\ op'[t].pc = "drop"
                 /\ \E r \in Trees : r.scene \in {dest[o].scene, None} /\ dest' = [dest EXCEPT ![o] = r]
      <3> DEFINE step == [op[t] EXCEPT !.old = @ \ {o}]
      <3>1. /\ step \in Steps /\ step.kind = op[t].kind /\ step.id = op[t].id /\ step.replace = op[t].replace
            /\ step.name = op[t].name /\ step.old = op[t].old \ {o} /\ step.pc = "drop"
        BY <1>b DEF Steps
      <3> HIDE DEF step
      <3>2. Others(t) /\ op'[t] = step
        BY <1>t, <2>2, <3>1, DoesOthers DEF step
      <3>3. SceneKept
        BY <1>t, <2>2, SameKept, SpendKept DEF Fault
      <3>4. dest[o] \in Trees /\ Empty \in Trees /\ Empty.scene = None
        BY <1>t, <1>b, <2>2 DEF TypeOK, Empty, Trees
      <3>5. \E r \in Trees : r.scene \in {dest[o].scene, None} /\ dest' = [dest EXCEPT ![o] = r]
        BY <2>2, <3>4, RemainsTree
      <3> QED
        BY <3>1, <3>2, <3>3, <3>5
    <2> QED
      BY <2>1, <2>2 DEF Drop
  <1>2. TypeOK'
    BY <1>t, <1>b, <1>1 DEF TypeOK, Others, SceneKept
  <1>3. /\ ShapeOf(t)' /\ (Covered => CheckedOf(t)' /\ OnlyChecked') /\ (left.serial => NameOf(t)' /\ OneName')
        /\ (left.fresh => ReplacingOf(t)' /\ OldUntilNew')
    <2>1. ShapeOf(t)'
      BY <1>b, <1>1 DEF IInv, Shape, ShapeOf, Busy, SceneKept
    <2>2. Covered => CheckedOf(t)' /\ OnlyChecked'
      BY <1>t, <1>b, <1>1 DEF IInv, Checked, CheckedOf, OnlyChecked, TypeOK
    <2>3. left.serial => NameOf(t)' /\ OneName'
      BY <1>b, <1>1 DEF IInv, NameKept, NameOf, OneName, SceneKept
    <2>4. left.fresh => ReplacingOf(t)' /\ OldUntilNew'
      <3>1. left.fresh => row[op[t].id] # None /\ (\A o \in op[t].old : row[o] = None) /\ OldUntilNew
        BY <1>b DEF IInv, Replacing, ReplacingOf
      <3>2. left.fresh => ReplacingOf(t)'
        BY <1>1, <3>1 DEF ReplacingOf
      <3>3. left.fresh => \A id \in Ids : row[id] # None => dest'[id] = dest[id]
        BY <1>t, <1>b, <1>1, <3>1 DEF TypeOK
      <3> QED
        BY <1>1, <3>1, <3>2, <3>3 DEF OldUntilNew, Whole, SceneKept
    <2> QED
      BY <2>1, <2>2, <2>3, <2>4
  <1>4. Shape' /\ Checked' /\ NameKept' /\ Replacing'
    BY <1>b, <1>1, <1>3, BusyKeeps DEF Others
  <1>5. JobHeld' /\ Alone'
    <2>1. Busy(t)' /\ Job(t)' = Job(t) /\ op'[t].pc # "spawn"
      BY <1>b, <1>1 DEF Busy, Job
    <2> QED
      BY <1>b, <1>1, <2>1, NoKid, StayKeeps
  <1> QED
    BY <1>2, <1>4, <1>5 DEF IInv

LEMMA UnlistKeeps == ASSUME IInv, NEW t \in Threads, Unlist(t) PROVE IInv'
  <1>t. TypeOK
    BY DEF IInv
  <1>b. op[t].pc = "unlist" /\ Busy(t) /\ op[t].id \in Ids /\ op[t].kind = "uninstall" /\ "uninstall" \in left.kinds
    BY <1>t DEF Unlist, At, Busy, IInv, Shape, ShapeOf
  <1>f. ~left.fresh /\ ~Job(t)
    BY <1>b DEF IInv, Shape, Job
  <1>1. /\ SceneKept /\ UNCHANGED <<work, dest, game, job, kids>>
        /\ \/ Moves(t, "delete") /\ row' = [row EXCEPT ![op[t].id] = None]
           \/ Rests(t) /\ UNCHANGED row
    BY <1>t, ThenMoves, RestsIdle, SameKept, SpendKept DEF Unlist, Pcs, Id, Fault
  <1>2. TypeOK'
    BY <1>t, <1>b, <1>1 DEF TypeOK, Moves, Rests, Others, SceneKept
  <1>o. Others(t)
    BY <1>1 DEF Moves, Rests
  <1>3. /\ ShapeOf(t)' /\ (Covered => CheckedOf(t)' /\ OnlyChecked') /\ (left.serial => NameOf(t)' /\ OneName')
        /\ (left.fresh => ReplacingOf(t)' /\ OldUntilNew')
    <2>1. ShapeOf(t)'
      BY <1>b, <1>1, ConstantsAssumption DEF IInv, Shape, ShapeOf, Busy, Moves, Keeps, Rests, SceneKept
    <2>2. Covered => CheckedOf(t)' /\ OnlyChecked'
      BY <1>1 DEF IInv, Checked, CheckedOf, OnlyChecked, Moves, Rests
    <2>3. NameOf(t)'
      BY <1>1 DEF NameOf, Moves, Rests
    <2>4. left.serial => OneName'
      BY <1>t, <1>b, <1>1 DEF IInv, NameKept, OneName, SceneKept, TypeOK
    <2> QED
      BY <1>f, <2>1, <2>2, <2>3, <2>4
  <1>4. Shape' /\ Checked' /\ NameKept' /\ Replacing'
    BY <1>b, <1>1, <1>o, <1>3, BusyKeeps
  <1>5. JobHeld' /\ Alone'
    <2>1. \A k \in kids : k.of # t
      BY <1>b, NoKid
    <2>2. CASE Moves(t, "delete")
      <3>1. Busy(t)' /\ Job(t)' = Job(t) /\ op'[t].pc # "spawn"
        BY <1>b, <2>2 DEF Moves, Keeps, Busy, Job
      <3> QED
        BY <1>b, <1>1, <1>o, <2>1, <3>1, StayKeeps
    <2>3. CASE Rests(t)
      BY <1>1, <1>o, <2>1, <2>3, RestKeeps DEF Rests
    <2> QED
      BY <1>1, <2>2, <2>3
  <1> QED
    BY <1>2, <1>4, <1>5 DEF IInv

LEMMA DeleteKeeps == ASSUME IInv, NEW t \in Threads, Delete(t) PROVE IInv'
  <1>t. TypeOK
    BY DEF IInv
  <1>b. op[t].pc = "delete" /\ Busy(t) /\ op[t].id \in Ids /\ op[t].kind = "uninstall" /\ "uninstall" \in left.kinds
    BY <1>t DEF Delete, At, Busy, IInv, Shape, ShapeOf
  <1>d. dest[op[t].id] \in Trees
    BY <1>t, <1>b DEF TypeOK
  <1>f. ~left.fresh
    BY <1>b DEF IInv, Shape
  <1>1. Rests(t) /\ Others(t) /\ SceneKept /\ UNCHANGED <<work, row, game, job, kids>>
    BY <1>t, RestsIdle, SameKept, SpendKept DEF Delete, Fault, Rests
  <1>w. PICK r \in Trees : /\ dest' = [dest EXCEPT ![op[t].id] = r]
                           /\ r.scene \in {dest[op[t].id].scene, None}
    <2>1. Empty \in Trees /\ Empty.scene = None
      BY DEF Empty, Trees
    <2> QED
      BY <1>d, <2>1, RemainsTree DEF Delete, Id
  <1>2. TypeOK'
    BY <1>t, <1>b, <1>1, <1>w DEF TypeOK, Others, SceneKept
  <1>3. /\ ShapeOf(t)' /\ (Covered => CheckedOf(t)' /\ OnlyChecked') /\ (left.serial => NameOf(t)' /\ OneName')
        /\ (left.fresh => ReplacingOf(t)' /\ OldUntilNew')
    <2>1. ShapeOf(t)'
      BY <1>1, ConstantsAssumption DEF ShapeOf, Busy, Rests
    <2>2. CheckedOf(t)' /\ NameOf(t)'
      BY <1>1 DEF CheckedOf, NameOf, Rests
    <2>3. Covered => OnlyChecked'
      BY <1>t, <1>b, <1>w DEF IInv, Checked, OnlyChecked, TypeOK
    <2>4. left.serial => OneName'
      BY <1>1 DEF IInv, NameKept, OneName, SceneKept
    <2> QED
      BY <1>f, <2>1, <2>2, <2>3, <2>4
  <1>4. Shape' /\ Checked' /\ NameKept' /\ Replacing'
    BY <1>b, <1>1, <1>3, BusyKeeps
  <1>5. JobHeld' /\ Alone'
    BY <1>b, <1>1, NoKid, RestKeeps DEF Rests
  <1> QED
    BY <1>2, <1>4, <1>5 DEF IInv

(* The converter's steps, which change its folder and no other.              *)

\* While a converter runs no thread copies what it writes.
LEMMA KidBlocks ==
    ASSUME IInv, NEW k \in kids
    PROVE  /\ Covered => \A t \in Threads : op[t].pc \notin {"game", "clash", "clear", "copy"}
           /\ left.serial => \A t \in Threads : op[t].pc \in {"idle", "kill", "keep pid", "wait"}
  <1>1. k.of # None => k.of \in Threads /\ Job(k.of) /\ op[k.of].pc \in {"keep pid", "wait"}
    BY DEF IInv, TypeOK, Kids, JobHeld
  <1>2. ASSUME Covered, NEW t \in Threads, op[t].pc \in {"game", "clash", "clear", "copy"} PROVE FALSE
    <2>1. op[t].kind = "convert"
      BY <1>2 DEF Covered, IInv, Shape, ShapeOf
    <2>2. Job(t)
      BY <1>2, <2>1 DEF Job, Busy
    <2>3. k.of # None
      BY <1>2 DEF Covered, IInv, JobHeld
    <2> QED
      BY <1>1, <1>2, <2>2, <2>3 DEF IInv, JobHeld
  <1>3. ASSUME left.serial, NEW t \in Threads, Busy(t) PROVE op[t].pc \in {"keep pid", "wait"}
    <2>1. k.of # None
      BY <1>3 DEF IInv, Alone
    <2> QED
      BY <1>1, <1>3, <2>1 DEF IInv, Alone, Job
  <1> QED
    BY <1>2, <1>3 DEF Busy

Laid(t) ==
    /\ op'[t].pc = "idle" /\ op'[t].kind = "none" /\ op'[t].id = None
    /\ op'[t].replace = {} /\ op'[t].old = {}

LEMMA KidKeeps ==
    ASSUME IInv, NEW k \in kids, NEW m, m.of = k.of, m.id = k.id, kids' \subseteq (kids \ {k}) \cup {m},
           SceneKept, UNCHANGED <<dest, row, job>>,
           \A t \in Threads : Still(t) \/ (op[t].pc = "kill" /\ Laid(t))
    PROVE  Shape' /\ JobHeld' /\ Alone' /\ Checked' /\ NameKept' /\ Replacing'
  <1>1. \A t \in Threads : /\ Busy(t)' = Busy(t) /\ Job(t)' = Job(t)
                           /\ op'[t].pc = op[t].pc \/ op'[t].pc = "idle"
                           /\ Busy(t) => Still(t)
    BY DEF Still, Keeps, Laid, Busy, Job
  <1>2. \A l \in kids' : \E n \in kids : l.of = n.of /\ l.id = n.id
    OBVIOUS
  <1>3. Shape'
    <2>1. ASSUME NEW t \in Threads PROVE ShapeOf(t)'
      <3>1. CASE Still(t)
        BY <3>1 DEF IInv, Shape, ShapeOf, Busy, Still, Keeps, SceneKept
      <3>2. CASE Laid(t)
        BY <3>2, ConstantsAssumption DEF Laid, ShapeOf, Busy
      <3> QED
        BY <3>1, <3>2
    <2> QED
      BY <2>1 DEF IInv, Shape, SceneKept
  <1>4. JobHeld'
    <2>1. \A l \in kids' : l.of # None => Job(l.of)' /\ op'[l.of].pc \in {"keep pid", "wait"} /\ op'[l.of].id = l.id
      <3>1. ASSUME NEW n \in kids, n.of # None
            PROVE  Job(n.of)' /\ op'[n.of].pc \in {"keep pid", "wait"} /\ op'[n.of].id = n.id
        <4>1. n.of \in Threads /\ Job(n.of) /\ op[n.of].pc \in {"keep pid", "wait"} /\ op[n.of].id = n.id
          BY <3>1 DEF IInv, TypeOK, Kids, JobHeld
        <4> QED
          BY <4>1, <1>1 DEF Job, Still, Keeps
      <3>2. TAKE l \in kids'
      <3>3. PICK n \in kids : l.of = n.of /\ l.id = n.id
        BY <1>2
      <3> QED
        BY <3>1, <3>3
    <2>2. ~left'.died => \A l \in kids' : l.of # None
      <3>1. ~left.died => \A n \in kids : n.of # None
        BY DEF IInv, JobHeld
      <3> QED
        BY <1>2, <3>1 DEF SceneKept
    <2> QED
      BY <1>1, <2>1, <2>2 DEF IInv, JobHeld
  <1>5. Alone'
    BY <1>1, <1>2 DEF IInv, Alone, SceneKept
  <1>6. Checked'
    <2>1. Covered => \A t \in Threads : CheckedOf(t)'
      BY <1>1, KidBlocks DEF CheckedOf
    <2> QED
      BY <2>1 DEF IInv, Checked, Covered, OnlyChecked, SceneKept
  <1>7. NameKept'
    <2>1. left.serial => \A t \in Threads : NameOf(t)'
      BY <1>1, KidBlocks DEF NameOf
    <2> QED
      BY <2>1 DEF IInv, NameKept, OneName, SceneKept
  <1>8. Replacing'
    <2>1. left.fresh => \A t \in Threads : ReplacingOf(t)'
      <3>1. ASSUME left.fresh, NEW t \in Threads PROVE ReplacingOf(t)'
        <4>1. op[t].pc \in {"idle", "kill", "keep pid", "wait"}
          BY <3>1, KidBlocks DEF IInv, Shape
        <4>2. CASE Laid(t)
          BY <4>2 DEF Laid, ReplacingOf
        <4>3. CASE Still(t)
          BY <3>1, <4>1, <4>3 DEF IInv, Replacing, ReplacingOf, Still, Keeps
        <4> QED
          BY <4>2, <4>3
      <3> QED
        BY <3>1
    <2> QED
      BY <2>1 DEF IInv, Replacing, OldUntilNew, Whole, SceneKept
  <1> QED
    BY <1>3, <1>4, <1>5, <1>6, <1>7, <1>8

\* A converter's own steps change nothing of the threads.
LEMMA StillOp == ASSUME UNCHANGED op, NEW t \in Threads PROVE Still(t)
  BY DEF Still, Keeps

LEMMA DiesStill ==
    ASSUME IInv, NEW k \in kids, Dies(k)
    PROVE  op' \in [Threads -> Steps] /\ (\A t \in Threads : Still(t)) /\ kids' = kids \ {k}
  <1>1. \A t \in Threads : op[t] \in Steps /\ [op[t] EXCEPT !.ok = FALSE] \in Steps
    BY DEF IInv, TypeOK, Steps
  <1>2. op' = [t \in Threads |-> IF t = k.of THEN [op[t] EXCEPT !.ok = FALSE] ELSE op[t]]
    BY DEF Dies
  <1>3. \A t \in Threads : Still(t)
    <2> TAKE t \in Threads
    <2>1. op'[t] = op[t] \/ op'[t] = [op[t] EXCEPT !.ok = FALSE]
      BY <1>2
    <2> QED
      BY <1>1, <2>1 DEF Still, Keeps, Steps
  <1> QED
    BY <1>1, <1>2, <1>3 DEF Dies, Goes

LEMMA CleanKeeps == ASSUME IInv, NEW k \in kids, Clean(k) PROVE IInv'
  <1>t. TypeOK /\ k \in Kids /\ k.id \in Ids /\ work[k.id] \in Trees
    BY DEF IInv, TypeOK, Kids
  <1>d. UNCHANGED <<dest, row, game, job, hist>>
    BY DEF Clean
  <1>1. CASE /\ work' = [work EXCEPT ![k.id] = Empty] /\ Goes(k, {[k EXCEPT !.pc = "name"]})
             /\ UNCHANGED <<op, left>>
    <2> DEFINE m == [k EXCEPT !.pc = "name"]
    <2>1. m \in Kids /\ m.of = k.of /\ m.id = k.id
      BY <1>t DEF Kids
    <2>2. kids' = (kids \ {k}) \cup {m}
      BY <1>1 DEF Goes
    <2> HIDE DEF m
    <2>3. Empty \in Trees /\ SceneKept
      BY <1>t, <1>1, SameKept DEF Empty, Trees
    <2>4. TypeOK'
      BY <1>t, <1>1, <1>d, <2>1, <2>2, <2>3 DEF TypeOK
    <2>5. Shape' /\ JobHeld' /\ Alone' /\ Checked' /\ NameKept' /\ Replacing'
      BY <1>1, <1>d, <2>1, <2>2, <2>3, StillOp, KidKeeps
    <2> QED
      BY <2>4, <2>5 DEF IInv
  <1>2. CASE Dies(k) /\ UNCHANGED <<work, left>>
    <2>1. SceneKept
      BY <1>t, <1>2, SameKept
    <2>2. TypeOK'
      BY <1>t, <1>2, <1>d, <2>1, DiesStill DEF TypeOK, SceneKept
    <2>3. Shape' /\ JobHeld' /\ Alone' /\ Checked' /\ NameKept' /\ Replacing'
      BY <1>2, <1>d, <2>1, DiesStill, KidKeeps
    <2> QED
      BY <2>2, <2>3 DEF IInv
  <1>3. CASE Fault /\ Dies(k) /\ \E r \in Remains(work[k.id]) : work' = [work EXCEPT ![k.id] = r]
    <2>1. SceneKept
      BY <1>t, <1>3, SpendKept DEF Fault
    <2>2. PICK r \in Trees : work' = [work EXCEPT ![k.id] = r]
      BY <1>t, <1>3, RemainsTree
    <2>3. TypeOK'
      BY <1>t, <1>3, <1>d, <2>1, <2>2, DiesStill DEF TypeOK, SceneKept
    <2>4. Shape' /\ JobHeld' /\ Alone' /\ Checked' /\ NameKept' /\ Replacing'
      BY <1>3, <1>d, <2>1, DiesStill, KidKeeps
    <2> QED
      BY <2>3, <2>4 DEF IInv
  <1> QED
    BY <1>1, <1>2, <1>3 DEF Clean

\* A step that writes the converter's folder and goes on.
LEMMA GoesKeeps ==
    ASSUME IInv, NEW k \in kids, NEW m \in Kids, m.of = k.of, m.id = k.id, kids' = (kids \ {k}) \cup {m},
           NEW x \in Trees, work' = [work EXCEPT ![k.id] = x], UNCHANGED <<dest, row, game, job, op, left>>
    PROVE  IInv'
  <1>t. TypeOK /\ k.id \in Ids
    BY DEF IInv, TypeOK, Kids
  <1>1. SceneKept
    BY <1>t, SameKept
  <1>2. TypeOK'
    BY <1>t DEF TypeOK
  <1>3. Shape' /\ JobHeld' /\ Alone' /\ Checked' /\ NameKept' /\ Replacing'
    BY <1>1, StillOp, KidKeeps
  <1> QED
    BY <1>2, <1>3 DEF IInv

LEMMA NameKeeps == ASSUME IInv, NEW k \in kids, Name(k) PROVE IInv'
  <1>t. k \in Kids /\ work[k.id] \in Trees
    BY DEF IInv, TypeOK, Kids
  <1>1. PICK n \in Free(k.id) : Goes(k, {[k EXCEPT !.pc = "scene", !.name = n]})
    BY DEF Name
  <1>n. n \in Nat
    BY <1>1 DEF Free, Names
  <1> DEFINE m == [k EXCEPT !.pc = "scene", !.name = n]
             x == [work[k.id] EXCEPT !.made = TRUE]
  <1>2. m \in Kids /\ m.of = k.of /\ m.id = k.id
    BY <1>t, <1>n DEF Kids
  <1>3. x \in Trees
    BY <1>t DEF Trees
  <1>4. kids' = (kids \ {k}) \cup {m} /\ work' = [work EXCEPT ![k.id] = x]
    BY <1>1 DEF Goes, Name
  <1> HIDE DEF m, x
  <1> QED
    BY <1>2, <1>3, <1>4, GoesKeeps DEF Name

LEMMA WriteKeeps == ASSUME IInv, NEW k \in kids, Write(k) PROVE IInv'
  <1>t. k \in Kids /\ work[k.id] \in Trees
    BY DEF IInv, TypeOK, Kids
  <1>1. CASE /\ work' = [work EXCEPT ![k.id] = [@ EXCEPT !.made = TRUE, !.scene = k.v]]
             /\ Goes(k, {[k EXCEPT !.pc = "decl"]})
    <2> DEFINE m == [k EXCEPT !.pc = "decl"]
               x == [work[k.id] EXCEPT !.made = TRUE, !.scene = k.v]
    <2>1. m \in Kids /\ m.of = k.of /\ m.id = k.id
      BY <1>t DEF Kids
    <2>2. x \in Trees
      BY <1>t DEF Trees, Kids
    <2>3. kids' = (kids \ {k}) \cup {m} /\ work' = [work EXCEPT ![k.id] = x]
      BY <1>1 DEF Goes
    <2> HIDE DEF m, x
    <2> QED
      BY <2>1, <2>2, <2>3, GoesKeeps DEF Write
  <1>2. CASE /\ work' = [work EXCEPT ![k.id] = [@ EXCEPT !.made = TRUE, !.decl = k.name]]
             /\ Goes(k, {[k EXCEPT !.pc = "exit"]})
    <2> DEFINE m == [k EXCEPT !.pc = "exit"]
               x == [work[k.id] EXCEPT !.made = TRUE, !.decl = k.name]
    <2>1. m \in Kids /\ m.of = k.of /\ m.id = k.id
      BY <1>t DEF Kids
    <2>2. x \in Trees
      BY <1>t DEF Trees, Kids
    <2>3. kids' = (kids \ {k}) \cup {m} /\ work' = [work EXCEPT ![k.id] = x]
      BY <1>2 DEF Goes
    <2> HIDE DEF m, x
    <2> QED
      BY <2>1, <2>2, <2>3, GoesKeeps DEF Write
  <1> QED
    BY <1>1, <1>2 DEF Write

LEMMA ExitKeeps == ASSUME IInv, NEW k \in kids, Exit(k) PROVE IInv'
  <1>1. kids' = kids \ {k} /\ TypeOK /\ SceneKept
    BY SameKept DEF Exit, Goes, IInv
  <1>2. TypeOK'
    BY <1>1 DEF TypeOK, Exit
  <1>3. Shape' /\ JobHeld' /\ Alone' /\ Checked' /\ NameKept' /\ Replacing'
    BY <1>1, StillOp, KidKeeps DEF Exit
  <1> QED
    BY <1>2, <1>3 DEF IInv

LEMMA ConverterFailsKeeps == ASSUME IInv, NEW k \in kids, ConverterFails(k) PROVE IInv'
  <1>1. Dies(k) /\ TypeOK /\ SceneKept /\ UNCHANGED <<work, dest, row, game, job>>
    BY SpendKept DEF ConverterFails, Fault, IInv
  <1>2. TypeOK'
    BY <1>1, DiesStill DEF TypeOK, SceneKept
  <1>3. Shape' /\ JobHeld' /\ Alone' /\ Checked' /\ NameKept' /\ Replacing'
    BY <1>1, DiesStill, KidKeeps
  <1> QED
    BY <1>2, <1>3 DEF IInv

\* Stop's second half.
LEMMA KillChildKeeps == ASSUME IInv, NEW t \in Threads, KillChild(t) PROVE IInv'
  <1>t. TypeOK /\ op[t].pc = "kill" /\ SceneKept /\ UNCHANGED <<dest, row, game, job>>
    BY SameKept DEF IInv, KillChild, At
  <1>r. Resting \in Steps
    BY DEF Resting, Steps
  <1>1. ASSUME NEW k \in kids, k.of \in Threads, kids' = kids \ {k},
               op' = [op EXCEPT ![t] = Resting, ![k.of].ok = FALSE],
               work' \in {work} \cup
                   (IF k.pc = "clean" /\ Converted(work, k.id)
                    THEN {[work EXCEPT ![k.id] = r] : r \in Remains(work[k.id])} ELSE {})
        PROVE  IInv'
    <2>1. k.of # t /\ k.id \in Ids /\ work[k.id] \in Trees
      BY <1>t, NoKid DEF TypeOK, Kids
    <2>2. work' \in [Ids -> Trees]
      BY <1>t, <1>1, <2>1, RemainsTree DEF TypeOK
    <2>o. op[k.of] \in Steps
      BY <1>t, <1>1 DEF TypeOK
    <2>3. [op[k.of] EXCEPT !.ok = FALSE] \in Steps
      BY <2>o DEF Steps
    <2>4. /\ op'[t] = Resting /\ op'[k.of] = [op[k.of] EXCEPT !.ok = FALSE]
          /\ \A u \in Threads : u # t /\ u # k.of => op'[u] = op[u]
      BY <1>t, <1>1, <2>1 DEF TypeOK
    <2>5. op' \in [Threads -> Steps]
      BY <1>t, <1>1, <1>r, <2>1, <2>3, <2>4 DEF TypeOK
    <2>6. \A u \in Threads : Still(u) \/ (op[u].pc = "kill" /\ Laid(u))
      <3>1. Laid(t)
        BY <2>4 DEF Laid, Resting
      <3>2. Still(k.of)
        BY <2>o, <2>4 DEF Still, Keeps, Steps
      <3>3. \A u \in Threads : u # t /\ u # k.of => Still(u)
        BY <2>4 DEF Still, Keeps
      <3> QED
        BY <1>t, <3>1, <3>2, <3>3
    <2>7. TypeOK'
      BY <1>t, <1>1, <2>2, <2>5 DEF TypeOK, SceneKept
    <2>8. Shape' /\ JobHeld' /\ Alone' /\ Checked' /\ NameKept' /\ Replacing'
      BY <1>t, <1>1, <2>6, KidKeeps
    <2> QED
      BY <2>7, <2>8 DEF IInv
  <1>2. CASE Does(t, Resting) /\ UNCHANGED <<kids, work>>
    <2>1. Rests(t) /\ \A k \in kids : k.of # t
      BY <1>t, <1>2, RestsIdle, NoKid
    <2>2. TypeOK'
      BY <1>t, <1>2, <2>1 DEF TypeOK, Rests, Others, SceneKept
    <2>3. ShapeOf(t)' /\ CheckedOf(t)' /\ NameOf(t)' /\ ReplacingOf(t)'
      BY <2>1, ConstantsAssumption DEF Rests, ShapeOf, Busy, CheckedOf, NameOf, ReplacingOf
    <2>4. Shape' /\ Checked' /\ NameKept' /\ Replacing'
      BY <1>t, <1>2, <2>1, <2>3, QuietKeeps DEF Rests
    <2>5. JobHeld' /\ Alone'
      BY <1>t, <1>2, <2>1, RestKeeps DEF Rests
    <2> QED
      BY <2>2, <2>4, <2>5 DEF IInv
  <1> QED
    BY <1>1, <1>2 DEF KillChild

(* Steps of nobody's: the game, and ACECM dying.                             *)

LEMMA UnseenKeeps ==
    ASSUME IInv, SceneKept, game' \in BOOLEAN, UNCHANGED <<work, dest, row, job, kids, op>>
    PROVE  IInv'
  <1>1. TypeOK'
    BY DEF IInv, TypeOK, SceneKept
  <1>2. Shape' /\ JobHeld' /\ Alone'
    BY DEF IInv, Shape, ShapeOf, JobHeld, Alone, Busy, Job, SceneKept
  <1>3. Checked'
    BY DEF IInv, Checked, CheckedOf, OnlyChecked, Covered, SceneKept
  <1>4. NameKept'
    BY DEF IInv, NameKept, NameOf, OneName, SceneKept
  <1>5. Replacing'
    BY DEF IInv, Replacing, ReplacingOf, OldUntilNew, Whole, SceneKept
  <1> QED
    BY <1>1, <1>2, <1>3, <1>4, <1>5 DEF IInv

LEMMA DieKeeps == ASSUME IInv, Die PROVE IInv'
  <1>t. TypeOK /\ UNCHANGED <<work, dest, row, game>> /\ job' = NoJob
    BY DEF IInv, Die
  <1>1. /\ left' \in Bounds /\ left'.died
        /\ left'.kinds = left.kinds /\ left'.serial = left.serial /\ left'.fresh = left.fresh
    <2>1. left \in Bounds /\ left.kills > 0 /\ left' = [left EXCEPT !.kills = @ - 1, !.died = TRUE]
      BY <1>t DEF Die, TypeOK
    <2>2. left.kills - 1 \in Nat
      BY <2>1 DEF Bounds
    <2> QED
      BY <2>1, <2>2 DEF Bounds
  <1>2. \A t \in Threads : op'[t] = Resting
    BY DEF Die
  <1>3. \A t \in Threads : ~Busy(t)' /\ ~Job(t)' /\ Laid(t)
    BY <1>2 DEF Busy, Job, Laid, Resting
  <1>4. \A k \in kids' : k \in Kids /\ k.of = None
    <2>1. \A k \in kids : [k EXCEPT !.of = None] \in Kids /\ [k EXCEPT !.of = None].of = None
      BY <1>t DEF TypeOK, Kids
    <2> QED
      BY <2>1 DEF Die
  <1>5. TypeOK'
    <2>1. op' \in [Threads -> Steps]
      BY DEF Die, Resting, Steps
    <2>2. NoJob \in Jobs
      BY DEF NoJob, Jobs
    <2> QED
      BY <1>t, <1>1, <1>4, <2>1, <2>2 DEF TypeOK
  <1>6. Shape'
    BY <1>1, <1>3, ConstantsAssumption DEF IInv, Shape, ShapeOf, Busy, Laid
  <1>7. JobHeld'
    BY <1>1, <1>3, <1>4 DEF JobHeld
  <1>8. Alone'
    <2>1. left.serial => \A k, l \in kids' : k = l
      BY DEF Die, IInv, Alone
    <2> QED
      BY <1>1, <1>2, <1>3, <2>1 DEF Alone, Resting
  <1>9. Checked'
    BY <1>1 DEF Checked, Covered
  <1>10. NameKept'
    BY <1>t, <1>1, <1>3 DEF IInv, NameKept, NameOf, OneName, Laid
  <1>11. Replacing'
    BY <1>t, <1>1, <1>3 DEF IInv, Replacing, ReplacingOf, OldUntilNew, Whole, Laid
  <1> QED
    BY <1>5, <1>6, <1>7, <1>8, <1>9, <1>10, <1>11 DEF IInv

LEMMA InitHolds == ASSUME Init PROVE IInv
  <1>1. TypeOK
    <2>1. Resting \in Steps /\ NoJob \in Jobs /\ Empty \in Trees /\ Tree(First, 0) \in Trees
      BY ConstantsAssumption DEF Resting, Steps, NoJob, Jobs, Empty, Tree, Trees
    <2> QED
      BY <2>1, ConstantsAssumption DEF Init, TypeOK
  <1>2. \A t \in Threads : ~Busy(t) /\ ~Job(t) /\ op[t].pc = "idle" /\ op[t] = Resting
    BY DEF Init, Busy, Job, Resting
  <1>3. Shape
    <2>1. \A t \in Threads : ShapeOf(t)
      <3> TAKE t \in Threads
      <3>1. ~Busy(t) /\ op[t] = Resting
        BY <1>2
      <3>2. op[t].pc = "idle" /\ op[t].kind = "none" /\ op[t].id = None /\ op[t].replace = {} /\ op[t].old = {}
        BY <3>1 DEF Resting
      <3> QED
        BY <3>1, <3>2 DEF ShapeOf
    <2> QED
      BY <2>1, ConstantsAssumption DEF Init, Shape
  <1>4. JobHeld /\ Alone
    BY <1>2 DEF Init, JobHeld, Alone
  <1>5. \A id \in Ids : dest[id] = IF id = Installed THEN Tree(First, 0) ELSE Empty
    BY DEF Init
  <1>6. Checked
    BY <1>2, <1>5, ConstantsAssumption DEF Checked, CheckedOf, OnlyChecked, Tree, Empty
  <1>7. NameKept
    BY <1>2 DEF Init, NameKept, NameOf, OneName
  <1>8. Replacing
    <2>1. \A id \in Ids : row[id] # None => id = Installed
      BY DEF Init
    <2>2. row[Installed] = 0 /\ 0 # None /\ Whole(dest[Installed])
      BY <1>5, ConstantsAssumption DEF Init, Whole, Tree
    <2>3. OldUntilNew
      BY <2>1, <2>2, ConstantsAssumption DEF OldUntilNew
    <2> QED
      BY <1>2, <2>3 DEF Replacing, ReplacingOf
  <1> QED
    BY <1>1, <1>3, <1>4, <1>6, <1>7, <1>8 DEF IInv

LEMMA NextKeeps == ASSUME IInv, [Next]_vars PROVE IInv'
  <1>t. TypeOK
    BY DEF IInv
  <1>1. ASSUME NEW t \in Threads, AskStart(t) \/ AskCancel(t) \/ AskInstall(t) \/ AskUninstall(t) PROVE IInv'
    BY <1>1, AskStartKeeps, AskCancelKeeps, AskInstallKeeps, AskUninstallKeeps
  <1>2. ASSUME NEW t \in Threads, Step(t) PROVE IInv'
    BY <1>2, SpawnKeeps, KeepPidKeeps, WaitKeeps, CheckKeeps, EndJobKeeps, KillChildKeeps, BeginKeeps, ClashKeeps,
       ClearKeeps, CopyKeeps, DeclareKeeps, DropKeeps, EndInstallKeeps, UnlistKeeps, DeleteKeeps DEF Step
  <1>3. ASSUME NEW k \in kids, Runs(k) \/ ConverterFails(k) PROVE IInv'
    BY <1>3, CleanKeeps, NameKeeps, WriteKeeps, ExitKeeps, ConverterFailsKeeps DEF Runs
  <1>4. CASE StartGame \/ CloseGame
    BY <1>t, <1>4, SpendKept, SameKept, UnseenKeeps DEF StartGame, CloseGame
  <1>5. CASE Die
    BY <1>5, DieKeeps
  <1>6. CASE UNCHANGED vars
    BY <1>t, <1>6, SameKept, UnseenKeeps DEF vars, TypeOK
  <1> QED
    BY <1>1, <1>2, <1>3, <1>4, <1>5, <1>6 DEF Next

LEMMA Invariant == Spec => []IInv
  <1>1. Init => IInv
    BY InitHolds
  <1>2. IInv /\ [Next]_vars => IInv'
    BY NextKeeps
  <1> QED
    BY <1>1, <1>2, PTL DEF Spec

(* The results.                                                              *)

\* The variables keep their types: a folder holds a version or nothing, and a thread
\* that works for an id works for one of the track's.
THEOREM TypeCorrect == Spec => []TypeOK
  <1>1. IInv => TypeOK
    BY DEF IInv
  <1> QED
    BY <1>1, Invariant, PTL

\* install_built and run_job: whatever fails, is stopped or dies while a conversion replaces an
\* earlier one, the game's list names a track, and each track in it has its files.
THEOREM OldUntilNewAlways == Spec => []OldUntilNew
  <1>1. IInv => OldUntilNew
    BY DEF IInv, Replacing, OldUntilNew
  <1> QED
    BY <1>1, Invariant, PTL

\* install_built's test of the tables: while requests come one at a time, the name a conversion
\* was given is in the list for no other track when its row is written.
THEOREM OneNameAlways == Spec => []OneName
  <1>1. IInv => OneName
    BY DEF IInv, NameKept, OneName
  <1> QED
    BY <1>1, Invariant, PTL

\* run_job's check before the install: a job puts in the game what the check accepted, since no
\* converter writes that folder until its rows are in.
THEOREM JobsInstallCheckedAlways == Spec => []JobsInstallChecked
  <1>1. IInv => JobsInstallChecked
    BY DEF IInv, Checked, Covered, JobsInstallChecked
  <1> QED
    BY <1>1, Invariant, PTL
=============================================================================
