------------------------- MODULE TrackInstallProofs -------------------------
(* Proofs about TrackInstall, for any number of folders, files, versions and *)
(* failures: with one request at a time no folder is left with half a track  *)
(* or touched unasked; and where packs are installed no track is lost, if    *)
(* requests come one at a time or no file operation fails.                   *)
EXTENDS TrackInstall, FiniteSetTheorems, TLAPS

PackPcs == {"unpack", "sidecar", "look", "aside", "place", "copy", "clear", "put back", "drop old",
            "register"}
PackOps   == [kind : {"pack"}, pc : PackPcs, folder : Folders, asked : Folders, sidecar : Folders,
              v : Versions, overwrite : BOOLEAN, had : BOOLEAN, todo : SUBSET Files]
FolderOps == [kind : {"folder"}, pc : {"copy", "delete", "register"}, folder : Folders,
              asked : Folders, v : Versions, overwrite : BOOLEAN, todo : SUBSET Files]
RemoveOps == [kind : {"remove"}, pc : {"unregister", "delete"}, folder : Folders]
Ops       == {Resting} \cup PackOps \cup FolderOps \cup RemoveOps
Trees  == [Files -> Versions \cup {None}]
Copies == [by : Actors \cup {None}, folder : Folders, tree : Trees]
Lefts  == [actors : SUBSET Actors, folders : SUBSET Folders, kinds : SUBSET {"pack", "folder", "remove"},
           faults : Nat, kills : Nat, games : Nat, failed : SUBSET {"some", "half"}]

TypeOK ==
    /\ dest \in [Folders -> Trees] /\ old \in SUBSET Copies /\ op \in [Actors -> Ops] /\ left \in Lefts

\* Who is at work, and whose the copies moved aside are.
Holding == {"place", "copy", "clear", "put back", "drop old"}
Holds(a, o) ==
    op[a].kind = "pack" /\ op[a].had /\ op[a].pc \in Holding /\ op[a].folder = o.folder
Acts ==
    /\ \A a \in Actors : ~At(a, "idle") => a \in left.actors /\ op[a].kind \in left.kinds
    /\ \A a \in Actors : At(a, "aside") => op[a].had
    /\ \A o \in old : o.by # None => Holds(o.by, o)
    /\ \A o, p \in old : o.by # None /\ p.by = o.by => o = p

\* Where one request runs at a time: what is in its folder at each step of it.
Working(a) ==
    LET step == op[a] IN
    /\ step.pc \in {"unpack", "sidecar", "look"} /\ ~step.overwrite => Dest(a) = Empty
    /\ step.pc = "aside" => step.overwrite
    /\ step.pc = "delete" /\ step.kind = "folder" => step.overwrite
    /\ step.pc \in {"unpack", "sidecar", "look", "aside", "place"} => step.todo = Has[step.v]
    /\ step.pc = "delete" /\ step.kind = "folder" => step.todo = Has[step.v]
    /\ step.pc = "place" => Dest(a) = Empty
    /\ step.pc \in {"copy", "clear"} =>
        /\ step.todo # {} /\ step.todo \subseteq Has[step.v]
        /\ Dest(a) = Part(Tree(step.v), Files \ step.todo)
    /\ step.pc = "put back" => ~Whole(Dest(a))
    /\ step.pc = "drop old" => Whole(Dest(a))

Half == "half" \in left.failed
Fine ==
    /\ \A x \in Folders :
        \/ dest[x] = Empty \/ Whole(dest[x])
        \/ \E a \in Actors : op[a].pc \in {"copy", "clear"} /\ op[a].folder = x
    /\ \A a \in Actors : At(a, "put back") => Dest(a) = Empty
    /\ \A o \in old : o.by # None => Whole(o.tree)

IInv ==
    /\ TypeOK /\ Acts
    /\ OneAtATime => \A a \in Actors : Working(a)
    /\ OneAtATime /\ ~Half => Fine

\* A copy moved aside that is about to be deleted does not count.
Dropped(o) == o.by # None /\ op[o.by].pc = "drop old"
Counts(t)  == IF OneAtATime THEN Whole(t) ELSE t # Empty
KeptIn(x)  == Counts(dest[x]) \/ \E o \in old : o.folder = x /\ Counts(o.tree) /\ ~Dropped(o)

\* The assumption: packs one at a time, or no failed file operation.
OneOrSure == \A s \in Scenes : Cardinality(s.actors) = 1 \/ s.faults = 0

Lossless ==
    /\ OneAtATime \/ (left.faults = 0 /\ \A a \in Actors : op[a].pc \notin {"clear", "put back"})
    /\ left.kinds = {"pack"} => \A x \in Folders : Installed[x] # None => KeptIn(x)

Inv == IInv /\ Lossless
(* Trees of files.                                                           *)

LEMMA HasFiles == \A v \in Versions : Has[v] # {} /\ Has[v] \subseteq Files /\ v # None
  <1>1. Has \in [Versions -> (SUBSET Files) \ {{}}] /\ None \notin Versions
    BY ConstantsAssumption
  <1> QED
    BY <1>1

LEMMA TreeType == ASSUME NEW v \in Versions \cup {None} PROVE Tree(v) \in Trees
  <1>1. \A i \in Files : (IF v # None /\ i \in Has[v] THEN v ELSE None) \in Versions \cup {None}
    OBVIOUS
  <1> QED
    BY <1>1 DEF Tree, Trees

LEMMA EmptyType == Empty \in Trees
  BY TreeType DEF Empty

LEMMA PartType == ASSUME NEW t \in Trees, NEW kept PROVE Part(t, kept) \in Trees
  BY DEF Part, Trees

LEMMA WholeTree == ASSUME NEW v \in Versions PROVE Whole(Tree(v)) /\ Tree(v) # Empty
  <1>1. PICK i \in Files : i \in Has[v]
    BY HasFiles
  <1>2. Tree(v)[i] = v /\ Empty[i] = None
    BY <1>1, HasFiles DEF Tree, Empty
  <1> QED
    BY <1>2, HasFiles DEF Whole

LEMMA WholeNotEmpty == ASSUME NEW t, Whole(t) PROVE t # Empty
  BY WholeTree DEF Whole

\* What misses a file of v, and has none of another version, is no version of the track.
LEMMA HoleNotWhole ==
    ASSUME NEW v \in Versions, NEW t, \A j \in Files : t[j] \in {v, None},
           NEW i \in Has[v], t[i] = None
    PROVE  ~Whole(t)
  <1> SUFFICES ASSUME NEW u \in Versions, t = Tree(u) PROVE FALSE
    BY DEF Whole
  <1>1. PICK j \in Files : j \in Has[u]
    BY HasFiles
  <1>2. t[j] = u
    BY <1>1, HasFiles DEF Tree
  <1>3. u = v
    BY <1>2, HasFiles
  <1>4. i \in Files /\ t[i] = u
    BY <1>3, HasFiles DEF Tree
  <1> QED
    BY <1>4, HasFiles

LEMMA PartNotWhole ==
    ASSUME NEW v \in Versions, NEW todo \in SUBSET Has[v], todo # {}, NEW kept
    PROVE  /\ ~Whole(Part(Tree(v), Files \ todo))
           /\ ~Whole(Part(Part(Tree(v), Files \ todo), kept))
  <1>1. PICK i \in todo : i \in Has[v] /\ i \in Files
    BY HasFiles
  <1>2. \A j \in Files : Part(Tree(v), Files \ todo)[j] \in {v, None}
    BY DEF Part, Tree
  <1>3. \A j \in Files : Part(Part(Tree(v), Files \ todo), kept)[j] \in {v, None}
    BY <1>2 DEF Part
  <1>4. Part(Tree(v), Files \ todo)[i] = None /\ Part(Part(Tree(v), Files \ todo), kept)[i] = None
    BY <1>1 DEF Part
  <1> QED
    BY <1>1, <1>2, <1>3, <1>4, HoleNotWhole

LEMMA CopyBegins == ASSUME NEW v \in Versions PROVE Part(Tree(v), Files \ Has[v]) = Empty
  BY HasFiles DEF Part, Tree, Empty

LEMMA CopyGoesOn ==
    ASSUME NEW v \in Versions, NEW todo \in SUBSET Has[v], NEW i \in todo
    PROVE  LET t == [Part(Tree(v), Files \ todo) EXCEPT ![i] = v] IN
           /\ t = Part(Tree(v), Files \ (todo \ {i}))
           /\ todo \ {i} = {} => t = Tree(v)
  <1> DEFINE p == Part(Tree(v), Files \ todo)
             t == [p EXCEPT ![i] = v]
             q == Part(Tree(v), Files \ (todo \ {i}))
  <1>1. \A j \in Files : p[j] = (IF j \in Has[v] \ todo THEN v ELSE None)
    BY HasFiles DEF Part, Tree
  <1>2. \A j \in Files : q[j] = (IF j \in Has[v] \ (todo \ {i}) THEN v ELSE None)
    BY HasFiles DEF Part, Tree
  <1>3. p = [j \in Files |-> p[j]] /\ q = [j \in Files |-> q[j]]
    BY DEF Part
  <1> HIDE DEF p, q
  <1>4. t = [j \in Files |-> t[j]] /\ \A j \in Files : t[j] = (IF j = i THEN v ELSE p[j])
    BY <1>3
  <1>5. \A j \in Files : t[j] = q[j]
    BY <1>1, <1>2, <1>4, HasFiles
  <1>6. t = q
    BY <1>3, <1>4, <1>5
  <1>7. ASSUME todo \ {i} = {} PROVE q = Tree(v)
    <2>1. \A j \in Files : q[j] = (IF v # None /\ j \in Has[v] THEN v ELSE None)
      BY <1>2, <1>7, HasFiles
    <2> QED
      BY <1>3, <2>1 DEF Tree
  <1> QED
    BY <1>6, <1>7 DEF p, q

(* What a step does.                                                         *)

OthersStay(a) == op' \in [Actors -> Ops] /\ \A b \in Actors : b # a => op'[b] = op[b]
Spent ==
    /\ left' \in Lefts /\ left'.actors = left.actors /\ left'.kinds = left.kinds
    /\ left.failed \subseteq left'.failed /\ left'.faults <= left.faults
SetsDest(a, t) ==
    /\ dest' \in [Folders -> Trees] /\ dest'[op[a].folder] = t
    /\ \A x \in Folders : x # op[a].folder => dest'[x] = dest[x]

LEMMA LeftStays == ASSUME TypeOK, UNCHANGED left PROVE Spent
  BY DEF TypeOK, Spent, Lefts

LEMMA NotedRecord ==
    ASSUME TypeOK, NEW what
    PROVE  Noted(what) = [actors |-> left.actors, folders |-> left.folders, kinds |-> left.kinds,
                          faults |-> left.faults, kills |-> left.kills, games |-> left.games,
                          failed |-> left.failed \cup what]
  BY DEF TypeOK, Lefts, Noted

LEMMA NotedSpent ==
    ASSUME TypeOK, NEW what \in SUBSET {"some", "half"}
    PROVE  /\ Noted(what) \in Lefts /\ Noted(what).failed = left.failed \cup what
           /\ Noted(what).actors = left.actors /\ Noted(what).kinds = left.kinds
           /\ Noted(what).faults = left.faults
           /\ Noted(what).kills = left.kills /\ Noted(what).games = left.games
  <1>1. /\ Noted(what).actors = left.actors /\ Noted(what).kinds = left.kinds
        /\ Noted(what).folders = left.folders
        /\ Noted(what).faults = left.faults /\ Noted(what).failed = left.failed \cup what
        /\ Noted(what).kills = left.kills /\ Noted(what).games = left.games
        /\ Noted(what) = [actors |-> left.actors, folders |-> left.folders, kinds |-> left.kinds,
                          faults |-> left.faults, kills |-> left.kills, games |-> left.games,
                          failed |-> left.failed \cup what]
    BY NotedRecord DEF TypeOK, Lefts
  <1>2. left.failed \cup what \in SUBSET {"some", "half"}
    BY DEF TypeOK, Lefts
  <1>3. Noted(what) \in Lefts
    BY <1>1, <1>2 DEF TypeOK, Lefts
  <1> QED
    BY <1>1, <1>3

LEMMA FailsSpent ==
    ASSUME TypeOK, NEW what \in SUBSET {"some", "half"}, Fails(what)
    PROVE  Spent /\ left.faults > 0 /\ left'.failed = left.failed \cup what
  <1> DEFINE n == Noted(what)
  <1>1. n \in Lefts /\ n.faults = left.faults /\ left.faults \in Nat /\ left.faults > 0
    BY NotedSpent DEF Fails, TypeOK, Lefts
  <1>2. left' = [n EXCEPT !.faults = @ - 1]
    BY DEF Fails
  <1>3. n.failed = left.failed \cup what /\ n.actors = left.actors /\ n.kinds = left.kinds
    BY NotedSpent
  <1> HIDE DEF n
  <1>4. left' \in Lefts /\ left'.faults = left.faults - 1
    BY <1>1, <1>2 DEF Lefts
  <1>5. left'.failed = n.failed /\ left'.actors = n.actors /\ left'.kinds = n.kinds
    BY <1>1, <1>2 DEF Lefts
  <1> QED
    BY <1>1, <1>3, <1>4, <1>5 DEF Spent

LEMMA FaultSpent == ASSUME TypeOK, Fault PROVE Spent /\ left.faults > 0
  BY FailsSpent DEF Fault

LEMMA HalfFaultSpent == ASSUME TypeOK, HalfFault PROVE Spent /\ left.faults > 0 /\ Half'
  BY FailsSpent DEF HalfFault, Half

\* The kinds of requests, by their steps.
LEMMA OpKinds ==
    ASSUME TypeOK, NEW a \in Actors, ~At(a, "idle")
    PROVE  /\ op[a] \in PackOps \cup FolderOps \cup RemoveOps
           /\ op[a].folder \in Folders
           /\ op[a].pc \in {"unpack", "sidecar", "look", "aside", "place", "clear", "put back", "drop old"}
                => op[a] \in PackOps
           /\ op[a].pc \in {"copy", "register"} => op[a] \in PackOps \cup FolderOps
           /\ op[a].pc = "delete" => op[a] \in FolderOps \cup RemoveOps
           /\ op[a].pc = "unregister" => op[a] \in RemoveOps
           /\ op[a].kind = "pack" <=> op[a] \in PackOps
           /\ op[a].kind = "folder" <=> op[a] \in FolderOps
           /\ op[a].kind = "remove" <=> op[a] \in RemoveOps
  <1>1. op[a] \in PackOps \cup FolderOps \cup RemoveOps
    BY DEF TypeOK, Ops, At, Resting
  <1>2. CASE op[a] \in PackOps
    BY <1>2 DEF PackOps, FolderOps, RemoveOps, PackPcs
  <1>3. CASE op[a] \in FolderOps
    BY <1>3 DEF PackOps, FolderOps, RemoveOps
  <1>4. CASE op[a] \in RemoveOps
    BY <1>4 DEF PackOps, FolderOps, RemoveOps
  <1> QED
    BY <1>1, <1>2, <1>3, <1>4

LEMMA DoesStep ==
    ASSUME TypeOK, NEW a \in Actors, NEW step \in Ops, Does(a, step)
    PROVE  OthersStay(a) /\ op'[a] = step
  BY DEF TypeOK, Does, OthersStay

LEMMA DoesRest ==
    ASSUME TypeOK, NEW a \in Actors, Does(a, Resting)
    PROVE  OthersStay(a) /\ op'[a].pc = "idle"
  <1>1. Resting \in Ops /\ Resting.pc = "idle"
    BY Zenon DEF Ops, Resting
  <1> QED
    BY <1>1, DoesStep

LEMMA ThenPack ==
    ASSUME TypeOK, NEW a \in Actors, op[a] \in PackOps, NEW pc \in PackPcs, Then(a, pc)
    PROVE  /\ OthersStay(a) /\ op'[a] \in PackOps /\ op'[a].pc = pc
           /\ op'[a].kind = "pack" /\ op'[a].folder = op[a].folder /\ op'[a].sidecar = op[a].sidecar
           /\ op'[a].v = op[a].v /\ op'[a].overwrite = op[a].overwrite /\ op'[a].had = op[a].had
           /\ op'[a].todo = op[a].todo
  <1> DEFINE step == [op[a] EXCEPT !.pc = pc]
  <1>1. /\ step \in PackOps /\ step.pc = pc
        /\ step.kind = "pack" /\ step.folder = op[a].folder /\ step.sidecar = op[a].sidecar
        /\ step.v = op[a].v /\ step.overwrite = op[a].overwrite /\ step.had = op[a].had
        /\ step.todo = op[a].todo
    BY DEF PackOps
  <1>2. step \in Ops
    BY <1>1 DEF Ops
  <1>3. OthersStay(a) /\ op'[a] = step
    BY <1>2, DoesStep DEF Then
  <1> QED
    BY <1>1, <1>3

LEMMA ThenFolder ==
    ASSUME TypeOK, NEW a \in Actors, op[a] \in FolderOps, NEW pc \in {"copy", "delete", "register"},
           Then(a, pc)
    PROVE  /\ OthersStay(a) /\ op'[a] \in FolderOps /\ op'[a].pc = pc
           /\ op'[a].kind = "folder" /\ op'[a].folder = op[a].folder
           /\ op'[a].v = op[a].v /\ op'[a].overwrite = op[a].overwrite /\ op'[a].todo = op[a].todo
  <1> DEFINE step == [op[a] EXCEPT !.pc = pc]
  <1>1. /\ step \in FolderOps /\ step.pc = pc
        /\ step.kind = "folder" /\ step.folder = op[a].folder
        /\ step.v = op[a].v /\ step.overwrite = op[a].overwrite /\ step.todo = op[a].todo
    BY DEF FolderOps
  <1>2. step \in Ops
    BY <1>1 DEF Ops
  <1>3. OthersStay(a) /\ op'[a] = step
    BY <1>2, DoesStep DEF Then
  <1> QED
    BY <1>1, <1>3

LEMMA ThenRemove ==
    ASSUME TypeOK, NEW a \in Actors, op[a] \in RemoveOps, Then(a, "delete")
    PROVE  /\ OthersStay(a) /\ op'[a] \in RemoveOps /\ op'[a].pc = "delete"
           /\ op'[a].kind = "remove" /\ op'[a].folder = op[a].folder
  <1> DEFINE step == [op[a] EXCEPT !.pc = "delete"]
  <1>1. step \in RemoveOps /\ step.pc = "delete" /\ step.kind = "remove" /\ step.folder = op[a].folder
    BY DEF RemoveOps
  <1>2. step \in Ops
    BY <1>1 DEF Ops
  <1>3. OthersStay(a) /\ op'[a] = step
    BY <1>2, DoesStep DEF Then
  <1> QED
    BY <1>1, <1>3

LEMMA DestSet ==
    ASSUME TypeOK, NEW a \in Actors, op[a].folder \in Folders, NEW t \in Trees,
           dest' = [dest EXCEPT ![op[a].folder] = t]
    PROVE  SetsDest(a, t)
  BY DEF TypeOK, SetsDest

\* One request at a time: the others rest.
LEMMA Solo ==
    ASSUME TypeOK, Acts, OneAtATime, NEW a \in Actors, a \in left.actors
    PROVE  \A b \in Actors : b # a => At(b, "idle")
  <1>1. IsFiniteSet(left.actors)
    BY ConstantsAssumption, FS_Subset DEF TypeOK, Lefts
  <1>2. PICK b : left.actors = {b}
    BY <1>1, FS_Singleton DEF OneAtATime
  <1> QED
    BY <1>2 DEF Acts
(* Each step keeps IInv.                                                     *)

Copying(step) == step.pc \in {"copy", "clear"}

\* Half a track lies only where a copy is under way.
FineStep(a) ==
    /\ \A x \in Folders :
        \/ dest'[x] = dest[x] /\ ~(Copying(op[a]) /\ op[a].folder = x)
        \/ dest'[x] = Empty \/ Whole(dest'[x])
        \/ Copying(op'[a]) /\ op'[a].folder = x
    /\ op'[a].pc = "put back" => dest'[op'[a].folder] = Empty
    /\ \A o \in old' : o \in old \/ o.by = None \/ Whole(o.tree)

\* An actor adds one copy to those moved aside, and lets go of it when its request is over.
OldStep(a) ==
    /\ old' \in SUBSET Copies
    /\ \A o \in old' : o.by # None => (o \in old /\ o.by # a) \/ (o.by = a /\ Holds(a, o)')
    /\ \A o, p \in old' : o.by = a /\ p.by = a => o = p

LEMMA StepKeeps ==
    ASSUME IInv, NEW a \in Actors, a \in left.actors, OthersStay(a),
           At(a, "idle")' \/ op'[a].kind \in left.kinds,
           dest' \in [Folders -> Trees], Spent, OldStep(a), At(a, "aside")' => op'[a].had,
           OneAtATime => Working(a)',
           OneAtATime /\ ~Half' => FineStep(a)
    PROVE  IInv'
  <1>1. TypeOK'
    BY DEF TypeOK, OthersStay, Spent, OldStep
  <1>2. Acts'
    <2>1. \A b \in Actors : ~At(b, "idle")' => b \in left'.actors /\ op'[b].kind \in left'.kinds
      BY DEF IInv, Acts, At, OthersStay, Spent
    <2>2. ASSUME NEW o \in old', o.by # None PROVE Holds(o.by, o)'
      <3>1. CASE o \in old /\ o.by # a
        <4>1. o.by \in Actors
          BY <2>2 DEF OldStep, Copies
        <4> QED
          BY <2>2, <3>1, <4>1 DEF IInv, Acts, OthersStay, Holds
      <3> QED
        BY <2>2, <3>1 DEF OldStep
    <2>3. \A b \in Actors : At(b, "aside")' => op'[b].had
      BY DEF IInv, Acts, At, OthersStay
    <2>4. \A o, p \in old' : o.by # None /\ p.by = o.by => o = p
      BY DEF IInv, Acts, OldStep
    <2> QED
      BY <2>1, <2>2, <2>3, <2>4 DEF Acts
  <1>3. OneAtATime' <=> OneAtATime
    BY DEF OneAtATime, Spent
  <1>4. ASSUME OneAtATime PROVE \A b \in Actors : b # a => op'[b] = op[b] /\ op[b].pc = "idle"
    BY <1>4, Solo DEF IInv, OthersStay, At
  <1>5. ASSUME OneAtATime, NEW b \in Actors PROVE Working(b)'
    <2>1. CASE b # a
      BY <1>4, <1>5, <2>1 DEF Working
    <2> QED
      BY <1>5, <2>1
  <1>6. ASSUME OneAtATime, ~Half' PROVE Fine'
    <2>1. Fine
      BY <1>6 DEF IInv, Half, Spent
    <2>2. ASSUME NEW x \in Folders
          PROVE  \/ dest'[x] = Empty \/ Whole(dest'[x])
                 \/ \E b \in Actors : op'[b].pc \in {"copy", "clear"} /\ op'[b].folder = x
      <3>1. CASE Copying(op'[a]) /\ op'[a].folder = x
        BY <3>1 DEF Copying
      <3>2. CASE dest'[x] = dest[x] /\ ~(Copying(op[a]) /\ op[a].folder = x)
        <4>1. \A b \in Actors : ~(op[b].pc \in {"copy", "clear"} /\ op[b].folder = x)
          BY <1>4, <1>6, <3>2 DEF Copying
        <4> QED
          BY <2>1, <3>2, <4>1 DEF Fine
      <3> QED
        BY <1>6, <3>1, <3>2 DEF FineStep
    <2>3. ASSUME NEW b \in Actors, At(b, "put back")' PROVE dest'[op'[b].folder] = Empty
      BY <1>4, <1>6, <2>3 DEF At, FineStep
    <2>4. ASSUME NEW o \in old', o.by # None PROVE Whole(o.tree)
      BY <1>6, <2>1, <2>4 DEF Fine, FineStep
    <2> QED
      BY <2>2, <2>3, <2>4 DEF Fine, Dest
  <1> QED
    BY <1>1, <1>2, <1>3, <1>5, <1>6 DEF IInv

\* Who is at work is one who may ask.
LEMMA AtWork ==
    ASSUME IInv, NEW a \in Actors, ~At(a, "idle")
    PROVE  a \in left.actors /\ op[a].kind \in left.kinds
  BY DEF IInv, Acts

StillHolds(a) ==
    op[a].kind = "pack" /\ op[a].pc \in Holding =>
        /\ op'[a].kind = op[a].kind /\ op'[a].pc \in Holding /\ op'[a].folder = op[a].folder
        /\ op[a].had => op'[a].had

\* A step that leaves the copies aside alone, of an actor that holds none or goes on holding it.
LEMMA OldStays ==
    ASSUME IInv, NEW a \in Actors, UNCHANGED old,
           StillHolds(a)
    PROVE  OldStep(a)
  BY ConstantsAssumption DEF IInv, Acts, TypeOK, StillHolds, Holds, OldStep

\* A step after which the actor holds no copy.
LEMMA OldLetGo ==
    ASSUME IInv, NEW a \in Actors, old' \in SUBSET Copies,
           \A o \in old' : o.by # None => o \in old /\ o.by # a
    PROVE  OldStep(a)
  BY ConstantsAssumption DEF OldStep

\* A request that is asked for, or goes to its next step, where the files stay as they are.
LEMMA QuietKeeps ==
    ASSUME IInv, NEW a \in Actors, a \in left.actors, OthersStay(a),
           At(a, "idle")' \/ op'[a].kind \in left.kinds, UNCHANGED <<dest, old>>, Spent,
           StillHolds(a), At(a, "aside")' => op'[a].had,
           OneAtATime => Working(a)' /\ ~(op[a].pc \in {"copy", "clear"}) /\ op'[a].pc # "put back"
    PROVE  IInv'
  <1>1. dest' \in [Folders -> Trees]
    BY DEF IInv, TypeOK
  <1>2. OneAtATime => FineStep(a)
    BY DEF FineStep, Copying
  <1> QED
    BY <1>1, <1>2, OldStays, StepKeeps

LEMMA AskPackKeeps == ASSUME IInv, NEW a \in Actors, AskPack(a) PROVE IInv'
  <1>1. PICK x \in left.folders, y \in left.folders, v \in Versions, overwrite \in BOOLEAN :
            /\ ~Conflict(x, overwrite)
            /\ Does(a, [kind |-> "pack", pc |-> "unpack", folder |-> x, asked |-> x, sidecar |-> y, v |-> v,
                        overwrite |-> overwrite, had |-> FALSE, todo |-> Has[v]])
    BY DEF AskPack
  <1> DEFINE step == [kind |-> "pack", pc |-> "unpack", folder |-> x, asked |-> x, sidecar |-> y, v |-> v,
                      overwrite |-> overwrite, had |-> FALSE, todo |-> Has[v]]
  <1>2. x \in Folders /\ y \in Folders
    BY DEF IInv, TypeOK, Lefts
  <1>3. step \in PackOps
    BY <1>2, HasFiles DEF PackOps, PackPcs
  <1>4. OthersStay(a) /\ op'[a] = step
    BY <1>1, <1>3, DoesStep DEF IInv, Ops
  <1>5. /\ op'[a].kind = "pack" /\ op'[a].pc = "unpack" /\ op'[a].folder = x /\ op'[a].v = v
        /\ op'[a].overwrite = overwrite /\ op'[a].todo = Has[v]
    BY <1>4
  <1> HIDE DEF step
  <1>6. Working(a)'
    BY <1>1, <1>5 DEF Working, Conflict, Dest, AskPack
  <1> QED
    BY <1>4, <1>5, <1>6, LeftStays, QuietKeeps DEF StillHolds, AskPack, Asks, At, Holding, IInv

LEMMA AskFolderKeeps == ASSUME IInv, NEW a \in Actors, AskFolder(a) PROVE IInv'
  <1>1. PICK x \in left.folders, v \in Versions, overwrite \in BOOLEAN :
            /\ ~Conflict(x, overwrite)
            /\ Does(a, [kind |-> "folder", pc |-> IF dest[x] = Empty THEN "copy" ELSE "delete",
                        folder |-> x, asked |-> x, v |-> v, overwrite |-> overwrite, todo |-> Has[v]])
    BY DEF AskFolder
  <1> DEFINE step == [kind |-> "folder", pc |-> IF dest[x] = Empty THEN "copy" ELSE "delete",
                      folder |-> x, asked |-> x, v |-> v, overwrite |-> overwrite, todo |-> Has[v]]
  <1>2. x \in Folders
    BY DEF IInv, TypeOK, Lefts
  <1>3. step \in FolderOps
    BY <1>2, HasFiles DEF FolderOps
  <1>4. OthersStay(a) /\ op'[a] = step
    BY <1>1, <1>3, DoesStep DEF IInv, Ops
  <1>5. /\ op'[a].kind = "folder" /\ op'[a].folder = x /\ op'[a].v = v
        /\ op'[a].pc = (IF dest[x] = Empty THEN "copy" ELSE "delete")
        /\ op'[a].overwrite = overwrite /\ op'[a].todo = Has[v]
    BY <1>4
  <1> HIDE DEF step
  <1>6. Working(a)'
    <2>1. dest' = dest
      BY DEF AskFolder
    <2> QED
      BY <1>1, <1>5, <2>1, HasFiles, CopyBegins DEF Working, Conflict, Dest
  <1> QED
    BY <1>4, <1>5, <1>6, LeftStays, QuietKeeps DEF StillHolds, AskFolder, Asks, At, Holding, IInv

LEMMA AskRemoveKeeps == ASSUME IInv, NEW a \in Actors, AskRemove(a) PROVE IInv'
  <1>1. PICK x \in left.folders : Does(a, [kind |-> "remove", pc |-> "unregister", folder |-> x])
    BY DEF AskRemove
  <1> DEFINE step == [kind |-> "remove", pc |-> "unregister", folder |-> x]
  <1>2. step \in RemoveOps
    BY DEF RemoveOps, IInv, TypeOK, Lefts
  <1>3. OthersStay(a) /\ op'[a] = step
    BY <1>1, <1>2, DoesStep DEF IInv, Ops
  <1>4. op'[a].kind = "remove" /\ op'[a].pc = "unregister"
    BY <1>3
  <1>5. Working(a)'
    BY <1>4 DEF Working
  <1> QED
    BY <1>3, <1>4, <1>5, LeftStays, QuietKeeps DEF StillHolds, AskRemove, Asks, At, Holding, IInv

\* A request that is over, with nothing aside.
LEMMA RestKeeps ==
    ASSUME IInv, NEW a \in Actors, ~At(a, "idle"), op[a].pc \notin Holding, Does(a, Resting),
           UNCHANGED <<dest, old>>, Spent
    PROVE  IInv'
  <1>1. OthersStay(a) /\ op'[a].pc = "idle"
    BY DoesRest DEF IInv
  <1>2. Working(a)'
    BY <1>1 DEF Working
  <1> QED
    BY <1>1, <1>2, AtWork, QuietKeeps DEF StillHolds, At, Holding

LEMMA UnpackKeeps == ASSUME IInv, NEW a \in Actors, Unpack(a) PROVE IInv'
  <1>1. CASE Does(a, Resting) /\ Fault
    BY <1>1, FaultSpent, RestKeeps DEF Unpack, At, Holding, IInv
  <1>2. CASE Then(a, "sidecar") /\ UNCHANGED left
    <2>1. op[a] \in PackOps
      BY OpKinds DEF IInv, Unpack, At
    <2>2. /\ OthersStay(a) /\ op'[a].pc = "sidecar" /\ op'[a].kind = "pack" /\ op'[a].folder = op[a].folder
          /\ op'[a].v = op[a].v /\ op'[a].overwrite = op[a].overwrite /\ op'[a].todo = op[a].todo
      BY <1>2, <2>1, ThenPack DEF IInv, PackPcs
    <2>3. OneAtATime => Working(a)'
      BY <2>2 DEF IInv, Working, Dest, Unpack, At
    <2>4. op[a].kind = "pack"
      BY <2>1 DEF PackOps
    <2> QED
      BY <1>2, <2>2, <2>3, <2>4, AtWork, LeftStays, QuietKeeps DEF StillHolds, Unpack, At, Holding, IInv
  <1> QED
    BY <1>1, <1>2 DEF Unpack

LEMMA SidecarKeeps == ASSUME IInv, NEW a \in Actors, Sidecar(a) PROVE IInv'
  <1> DEFINE y == op[a].sidecar
  <1>1. CASE Does(a, Resting)
    BY <1>1, LeftStays, RestKeeps DEF Sidecar, At, Holding, IInv
  <1>2. CASE /\ ~(y # op[a].folder /\ Conflict(y, op[a].overwrite))
             /\ Does(a, [op[a] EXCEPT !.folder = y, !.pc = "look"])
    <2>1. op[a] \in PackOps
      BY OpKinds DEF IInv, Sidecar, At
    <2> DEFINE step == [op[a] EXCEPT !.folder = y, !.pc = "look"]
    <2>2. /\ step \in PackOps /\ step.pc = "look" /\ step.kind = "pack" /\ step.folder = y
          /\ step.v = op[a].v /\ step.overwrite = op[a].overwrite /\ step.todo = op[a].todo
      BY <2>1 DEF PackOps, PackPcs
    <2>3. OthersStay(a) /\ op'[a] = step
      BY <1>2, <2>2, DoesStep DEF IInv, Ops
    <2> HIDE DEF step
    <2>4. OneAtATime => Working(a)'
      BY <1>2, <2>2, <2>3 DEF IInv, Working, Dest, Sidecar, At, Conflict
    <2>5. op[a].kind = "pack"
      BY <2>1 DEF PackOps
    <2> QED
      BY <2>2, <2>3, <2>4, <2>5, AtWork, LeftStays, QuietKeeps DEF StillHolds, Sidecar, At, Holding, IInv
  <1> QED
    BY <1>1, <1>2 DEF Sidecar

LEMMA LookKeeps == ASSUME IInv, NEW a \in Actors, Look(a) PROVE IInv'
  <1>1. op[a] \in PackOps
    BY OpKinds DEF IInv, Look, At
  <1> DEFINE step == [op[a] EXCEPT !.had = (Dest(a) # Empty),
                                   !.pc = IF Dest(a) # Empty THEN "aside" ELSE "place"]
  <1>2. /\ step \in PackOps /\ step.pc = (IF Dest(a) # Empty THEN "aside" ELSE "place")
        /\ step.kind = "pack" /\ step.folder = op[a].folder
        /\ step.v = op[a].v /\ step.overwrite = op[a].overwrite /\ step.todo = op[a].todo
        /\ step.pc = "aside" => step.had
    BY <1>1 DEF PackOps, PackPcs
  <1>3. OthersStay(a) /\ op'[a] = step
    BY <1>2, DoesStep DEF IInv, Ops, Look
  <1> HIDE DEF step
  <1>4. OneAtATime => Working(a)'
    BY <1>2, <1>3 DEF IInv, Working, Dest, Look, At
  <1>5. op[a].kind = "pack"
    BY <1>1 DEF PackOps
  <1> QED
    BY <1>2, <1>3, <1>4, <1>5, AtWork, LeftStays, QuietKeeps DEF StillHolds, Look, At, Holding, IInv
LEMMA MoveAsideKeeps == ASSUME IInv, NEW a \in Actors, MoveAside(a) PROVE IInv'
  <1>1. op[a] \in PackOps /\ op[a].folder \in Folders /\ op[a].kind = "pack"
    BY OpKinds DEF IInv, MoveAside, At
  <1>2. CASE Does(a, Resting) /\ UNCHANGED <<dest, old>>
    BY <1>2, LeftStays, FaultSpent, RestKeeps DEF MoveAside, At, Holding, IInv
  <1>0. PICK o : o = [by |-> a, folder |-> op[a].folder, tree |-> Dest(a)]
    OBVIOUS
  <1>3. CASE /\ Dest(a) # Empty
             /\ old' = old \cup {o} /\ dest' = [dest EXCEPT ![op[a].folder] = Empty]
             /\ Then(a, "place") /\ UNCHANGED left
    <2>1. /\ OthersStay(a) /\ op'[a].pc = "place" /\ op'[a].kind = "pack" /\ op'[a].folder = op[a].folder
          /\ op'[a].v = op[a].v /\ op'[a].todo = op[a].todo /\ op'[a].had = op[a].had
      BY <1>1, <1>3, ThenPack DEF IInv, PackPcs
    <2>2. SetsDest(a, Empty)
      BY <1>1, <1>3, EmptyType, DestSet DEF IInv
    <2>3. o \in Copies
      BY <1>0, <1>1 DEF Copies, Dest, IInv, TypeOK
    <2>4. old' \in SUBSET Copies
      BY <1>3, <2>3 DEF IInv, TypeOK
    <2>5. o.by = a /\ o.folder = op[a].folder /\ o.tree = Dest(a)
      BY <1>0
    <2>6. \A p \in old' : p = o \/ (p \in old /\ (p.by # None => p.by # a))
      BY <1>3 DEF IInv, Acts, MoveAside, At, Holding, Holds
    <2>7. OneAtATime => Working(a)'
      BY <2>1, <2>2 DEF IInv, Working, Dest, SetsDest, MoveAside, At
    <2>8. ASSUME OneAtATime, ~Half' PROVE FineStep(a)
      <3>1. Fine
        BY <1>3, <2>8 DEF IInv, Half
      <3>2. ~Copying(op[a]) /\ ~Copying(op'[a])
        BY <2>1 DEF Copying, MoveAside, At
      <3>3. \A b \in Actors : b # a => At(b, "idle")
        BY <2>8, AtWork, Solo DEF IInv, MoveAside, At
      <3>5. Whole(o.tree)
        BY <1>1, <1>3, <2>5, <3>1, <3>2, <3>3 DEF Fine, Dest, Copying, At
      <3> QED
        BY <2>1, <2>2, <2>6, <3>2, <3>5 DEF FineStep, SetsDest
    <2>8a. op[a].had
      <3>1. At(a, "aside") => op[a].had
        BY Zenon DEF IInv, Acts
      <3> QED
        BY <3>1, Zenon DEF MoveAside
    <2>8b. Holds(a, o)'
      <3>1. op'[a].had
        BY <2>1, <2>8a, Zenon
      <3>2. op'[a].kind = "pack" /\ op'[a].pc \in Holding /\ op'[a].folder = o.folder
        BY <2>1, <2>5 DEF Holding
      <3> QED
        BY <3>1, <3>2, Zenon DEF Holds
    <2>8c. \A p \in old : p.by # a
      <3>1. a # None
        BY ConstantsAssumption
      <3>2. ASSUME NEW p \in old, p.by = a PROVE op[a].pc \in Holding
        BY <3>1, <3>2 DEF IInv, Acts, Holds
      <3> QED
        BY <3>2 DEF Holding, MoveAside, At
    <2>9. OldStep(a)
      BY <2>4, <2>5, <2>6, <2>8b, <2>8c DEF OldStep
    <2>10. Spent /\ a \in left.actors /\ op'[a].kind \in left.kinds
      BY <1>1, <1>3, <2>1, AtWork, LeftStays DEF IInv, MoveAside, At
    <2>11. dest' \in [Folders -> Trees]
      BY <2>2 DEF SetsDest
    <2> QED
      BY <2>1, <2>7, <2>8, <2>9, <2>10, <2>11, StepKeeps DEF At
  <1> QED
    BY <1>0, <1>2, <1>3 DEF MoveAside

LEMMA PlaceKeeps == ASSUME IInv, NEW a \in Actors, Place(a) PROVE IInv'
  <1>1. op[a] \in PackOps /\ op[a].folder \in Folders /\ op[a].kind = "pack" /\ op[a].v \in Versions
    BY OpKinds DEF IInv, Place, At, PackOps
  <1>2. CASE dest' = [dest EXCEPT ![op[a].folder] = Tree(op[a].v)] /\ Then(a, "drop old") /\ UNCHANGED left
    <2>1. /\ OthersStay(a) /\ op'[a].pc = "drop old" /\ op'[a].kind = "pack" /\ op'[a].folder = op[a].folder
          /\ op'[a].had = op[a].had
      BY <1>1, <1>2, ThenPack DEF IInv, PackPcs
    <2>2. SetsDest(a, Tree(op[a].v))
      BY <1>1, <1>2, TreeType, DestSet DEF IInv
    <2>3. Whole(Tree(op[a].v))
      BY <1>1, WholeTree
    <2>4. Working(a)'
      BY <2>1, <2>2, <2>3 DEF Working, Dest, SetsDest
    <2>5. FineStep(a)
      BY <2>1, <2>2, <2>3 DEF FineStep, Copying, SetsDest, Place, At
    <2>6. UNCHANGED old
      BY DEF Place
    <2> QED
      BY <1>1, <1>2, <2>1, <2>2, <2>4, <2>5, <2>6, AtWork, LeftStays, OldStays, StepKeeps
      DEF StillHolds, IInv, SetsDest, Holding, Place, At
  <1>3. CASE Then(a, "copy") /\ UNCHANGED dest
    <2>1. /\ OthersStay(a) /\ op'[a].pc = "copy" /\ op'[a].kind = "pack" /\ op'[a].folder = op[a].folder
          /\ op'[a].had = op[a].had
          /\ op'[a].v = op[a].v /\ op'[a].todo = op[a].todo
      BY <1>1, <1>3, ThenPack DEF IInv, PackPcs
    <2>2. Spent
      BY LeftStays, FaultSpent DEF Place, IInv
    <2>3. OneAtATime => Working(a)'
      BY <1>1, <1>3, <2>1, HasFiles, CopyBegins DEF IInv, Working, Dest, Place, At
    <2>4. UNCHANGED old /\ dest' \in [Folders -> Trees]
      BY <1>3 DEF Place, IInv, TypeOK
    <2> QED
      BY <1>1, <1>3, <2>1, <2>2, <2>3, <2>4, AtWork, QuietKeeps DEF StillHolds, Holding, Place, At
  <1> QED
    BY <1>2, <1>3 DEF Place

\* One file of the copy.
LEMMA CopyFileKeeps ==
    ASSUME IInv, NEW a \in Actors, At(a, "copy"), NEW i \in op[a].todo, UNCHANGED <<old, left>>,
           dest' = [dest EXCEPT ![op[a].folder][i] = op[a].v],
           Does(a, [op[a] EXCEPT !.todo = op[a].todo \ {i},
                                 !.pc = IF op[a].todo \ {i} # {} THEN "copy"
                                        ELSE IF op[a].kind = "pack" THEN "drop old" ELSE "register"])
    PROVE  IInv' /\ op'[a].kind = op[a].kind /\ op'[a].pc \in {"copy", "drop old", "register"}
  <1> DEFINE rest == op[a].todo \ {i}
             step == [op[a] EXCEPT !.todo = rest,
                                   !.pc = IF rest # {} THEN "copy"
                                          ELSE IF op[a].kind = "pack" THEN "drop old" ELSE "register"]
             t    == [Dest(a) EXCEPT ![i] = op[a].v]
  <1>1. /\ op[a] \in PackOps \cup FolderOps /\ op[a].folder \in Folders /\ op[a].v \in Versions
        /\ op[a].todo \in SUBSET Files /\ a \in left.actors /\ op[a].kind \in left.kinds
    BY OpKinds, AtWork DEF IInv, At, PackOps, FolderOps
  <1>2. /\ step \in PackOps \cup FolderOps
        /\ step.pc = (IF rest # {} THEN "copy" ELSE IF op[a].kind = "pack" THEN "drop old" ELSE "register")
        /\ step.kind = op[a].kind /\ step.folder = op[a].folder
        /\ step.v = op[a].v /\ step.todo = rest
        /\ op[a].kind = "pack" => step.had = op[a].had
    <2>1. CASE op[a] \in PackOps
      BY <1>1, <2>1 DEF PackOps, PackPcs
    <2>2. CASE op[a] \in FolderOps
      BY <1>1, <2>2 DEF FolderOps
    <2> QED
      BY <1>1, <2>1, <2>2
  <1>3. OthersStay(a) /\ op'[a] = step
    BY <1>2, DoesStep DEF IInv, Ops
  <1>4. Dest(a) \in Trees /\ t \in Trees
    BY <1>1 DEF IInv, TypeOK, Trees, Dest
  <1>5. dest' = [dest EXCEPT ![op[a].folder] = t]
    BY DEF Dest
  <1>6. SetsDest(a, t)
    BY <1>1, <1>4, <1>5, DestSet DEF IInv
  <1>7. OneAtATime =>
            /\ rest # {} => rest \subseteq Has[op[a].v] /\ t = Part(Tree(op[a].v), Files \ rest)
            /\ rest = {} => Whole(t)
    <2> SUFFICES ASSUME OneAtATime
                 PROVE  /\ rest # {} => rest \subseteq Has[op[a].v] /\ t = Part(Tree(op[a].v), Files \ rest)
                        /\ rest = {} => Whole(t)
      OBVIOUS
    <2>1. op[a].todo \subseteq Has[op[a].v] /\ Dest(a) = Part(Tree(op[a].v), Files \ op[a].todo)
      BY DEF IInv, Working, At
    <2> DEFINE v == op[a].v
               todo == op[a].todo
               u == [Part(Tree(v), Files \ todo) EXCEPT ![i] = v]
    <2>2. v \in Versions /\ todo \in SUBSET Has[v] /\ i \in todo
      BY <1>1, <2>1
    <2>3. /\ u = Part(Tree(v), Files \ (todo \ {i}))
          /\ todo \ {i} = {} => u = Tree(v)
      BY <2>2, CopyGoesOn
    <2>4. t = u
      BY <2>1
    <2>5. Whole(Tree(v))
      BY <2>2, WholeTree
    <2> QED
      BY <2>1, <2>3, <2>4, <2>5
  <1> HIDE DEF step, t, rest
  <1>8. OneAtATime => Working(a)'
    BY <1>2, <1>3, <1>6, <1>7 DEF Working, Dest, SetsDest
  <1>9. OneAtATime => FineStep(a)
    BY <1>2, <1>3, <1>6, <1>7 DEF FineStep, Copying, SetsDest
  <1>10. StillHolds(a) /\ ~At(a, "aside")'
    BY <1>2, <1>3 DEF StillHolds, Holding, At
  <1>11. Spent /\ dest' \in [Folders -> Trees] /\ op'[a].kind \in left.kinds
    BY <1>1, <1>2, <1>3, <1>6, LeftStays DEF IInv, SetsDest
  <1>12. IInv'
    BY <1>1, <1>3, <1>8, <1>9, <1>10, <1>11, OldStays, StepKeeps
  <1> QED
    BY <1>2, <1>3, <1>12

LEMMA CopyKeeps == ASSUME IInv, NEW a \in Actors, Copy(a) PROVE IInv'
  <1>1. op[a] \in PackOps \cup FolderOps /\ op[a].folder \in Folders /\ op[a].v \in Versions
    BY OpKinds DEF IInv, Copy, At, PackOps, FolderOps
  <1>2. CASE /\ \E i \in op[a].todo :
                /\ dest' = [dest EXCEPT ![op[a].folder][i] = op[a].v]
                /\ LET rest == op[a].todo \ {i} IN
                   Does(a, [op[a] EXCEPT !.todo = rest,
                                !.pc = IF rest # {} THEN "copy"
                                       ELSE IF op[a].kind = "pack" THEN "drop old" ELSE "register"])
             /\ UNCHANGED left
    BY <1>2, CopyFileKeeps DEF Copy
  <1>3. CASE op[a].kind = "pack" /\ Fault /\ Then(a, "clear") /\ UNCHANGED dest
    <2>1. op[a] \in PackOps
      BY <1>1, <1>3 DEF FolderOps
    <2>2. /\ OthersStay(a) /\ op'[a].pc = "clear" /\ op'[a].kind = "pack" /\ op'[a].folder = op[a].folder
          /\ op'[a].had = op[a].had
          /\ op'[a].v = op[a].v /\ op'[a].todo = op[a].todo
      BY <1>3, <2>1, ThenPack DEF IInv, PackPcs
    <2>3. OneAtATime => Working(a)'
      BY <1>3, <2>2 DEF IInv, Working, Dest, Copy, At
    <2>4. FineStep(a)
      BY <1>3, <2>2 DEF FineStep, Copying, Copy
    <2>5. UNCHANGED old /\ Spent /\ dest' \in [Folders -> Trees]
      BY <1>3, FaultSpent DEF Copy, IInv, TypeOK
    <2> QED
      BY <1>3, <2>2, <2>3, <2>4, <2>5, AtWork, OldStays, StepKeeps DEF StillHolds, Holding, Copy, At
  <1>4. CASE op[a].kind # "pack" /\ HalfFault /\ Does(a, Resting) /\ UNCHANGED dest
    <2>1. OthersStay(a) /\ op'[a].pc = "idle"
      BY <1>4, DoesRest DEF IInv
    <2>2. Working(a)'
      BY <2>1 DEF Working
    <2>3. UNCHANGED old /\ Spent /\ Half' /\ dest' \in [Folders -> Trees]
      BY <1>4, HalfFaultSpent DEF Copy, IInv, TypeOK
    <2>4. /\ old' \in SUBSET Copies
          /\ \A o \in old' : o.by # None => o \in old /\ o.by # a
      BY <1>4, <2>3 DEF IInv, Acts, TypeOK, Holds
    <2> QED
      BY <2>1, <2>2, <2>3, <2>4, AtWork, OldLetGo, StepKeeps DEF Copy, At
  <1> QED
    BY <1>2, <1>3, <1>4 DEF Copy
LEMMA ClearKeeps == ASSUME IInv, NEW a \in Actors, Clear(a) PROVE IInv'
  <1>1. /\ op[a] \in PackOps /\ op[a].folder \in Folders /\ op[a].kind = "pack" /\ op[a].v \in Versions
        /\ Dest(a) \in Trees /\ a \in left.actors /\ op[a].kind \in left.kinds
    BY OpKinds, AtWork DEF IInv, Clear, At, PackOps, Dest, TypeOK
  <1>2. PICK t \in Trees :
            /\ SetsDest(a, t)
            /\ \/ t = Empty /\ UNCHANGED left
               \/ HalfFault /\ \E kept \in SUBSET Files : t = Part(Dest(a), kept)
    <2>1. CASE dest' = [dest EXCEPT ![op[a].folder] = Empty] /\ UNCHANGED left
      BY <1>1, <2>1, EmptyType, DestSet DEF IInv
    <2>2. CASE HalfFault /\ \E kept \in SUBSET Files : dest' = [dest EXCEPT ![op[a].folder] = Part(Dest(a), kept)]
      <3>1. PICK kept \in SUBSET Files : dest' = [dest EXCEPT ![op[a].folder] = Part(Dest(a), kept)]
        BY <2>2
      <3> QED
        BY <1>1, <2>2, <3>1, PartType, DestSet DEF IInv
    <2> QED
      BY <2>1, <2>2 DEF Clear
  <1>3. Spent /\ (t = Empty \/ Half')
    BY <1>2, LeftStays, HalfFaultSpent DEF IInv
  <1>4. OneAtATime => ~Whole(t)
    <2> SUFFICES ASSUME OneAtATime PROVE ~Whole(t)
      OBVIOUS
    <2>1. /\ op[a].todo # {} /\ op[a].todo \subseteq Has[op[a].v]
          /\ Dest(a) = Part(Tree(op[a].v), Files \ op[a].todo)
      BY DEF IInv, Working, Clear, At
    <2>2. \A kept : ~Whole(Part(Dest(a), kept))
      BY <1>1, <2>1, PartNotWhole
    <2> QED
      BY <1>2, <2>2, WholeNotEmpty
  <1>5. UNCHANGED old /\ dest' \in [Folders -> Trees]
    BY <1>2 DEF Clear, SetsDest
  <1>6. CASE Then(a, "put back") /\ op[a].had
    <2>1. /\ OthersStay(a) /\ op'[a].pc = "put back" /\ op'[a].kind = "pack" /\ op'[a].folder = op[a].folder
          /\ op'[a].had = op[a].had
      BY <1>1, <1>6, ThenPack DEF IInv, PackPcs
    <2>2. OneAtATime => Working(a)'
      BY <1>2, <1>4, <2>1 DEF Working, Dest, SetsDest
    <2>3. ~Half' => FineStep(a)
      BY <1>2, <1>3, <1>5, <2>1 DEF FineStep, Copying, SetsDest
    <2> QED
      BY <1>1, <1>3, <1>5, <2>1, <2>2, <2>3, OldStays, StepKeeps DEF StillHolds, Holding, At
  <1>7. CASE Does(a, Resting) /\ ~op[a].had
    <2>1. OthersStay(a) /\ op'[a].pc = "idle"
      BY <1>7, DoesRest DEF IInv
    <2>2. Working(a)'
      BY <2>1 DEF Working
    <2>3. ~Half' => FineStep(a)
      BY <1>2, <1>3, <1>5, <2>1 DEF FineStep, Copying, SetsDest
    <2>4. /\ old' \in SUBSET Copies
          /\ \A o \in old' : o.by # None => o \in old /\ o.by # a
      BY <1>5, <1>7 DEF IInv, Acts, TypeOK, Holds
    <2> QED
      BY <1>1, <1>3, <1>5, <2>1, <2>2, <2>3, <2>4, OldLetGo, StepKeeps DEF At
  <1> QED
    BY <1>6, <1>7 DEF Clear
\* What is left of the copies of a request that is over belongs to nobody.
LEMMA LeavesOldKeeps ==
    ASSUME TypeOK, NEW a \in Actors, NEW kept, LeavesOld(a, kept)
    PROVE  /\ old' \in SUBSET Copies
           /\ \A o \in old' : o.by # None => o \in old /\ o.by # a
  <1>1. ASSUME NEW o \in old
        PROVE  LET left_ == [by |-> None, folder |-> o.folder, tree |-> Part(o.tree, kept)] IN
               left_ \in Copies /\ left_.by = None
    <2>1. o.folder \in Folders /\ o.tree \in Trees
      BY DEF TypeOK, Copies
    <2>2. Part(o.tree, kept) \in Trees
      BY <2>1, PartType
    <2> QED
      BY <2>1, <2>2 DEF Copies
  <1>2. \A o \in old' : (o \in old /\ o.by # a) \/ (o \in Copies /\ o.by = None)
    BY <1>1 DEF LeavesOld, Aside
  <1> QED
    BY <1>2 DEF TypeOK

LEMMA PutBackKeeps == ASSUME IInv, NEW a \in Actors, PutBack(a) PROVE IInv'
  <1>1. /\ op[a] \in PackOps /\ op[a].folder \in Folders /\ op[a].kind = "pack"
        /\ a \in left.actors
    BY OpKinds, AtWork DEF IInv, PutBack, At
  <1>2. OthersStay(a) /\ op'[a].pc = "idle"
    BY DoesRest DEF IInv, PutBack
  <1>3. Working(a)'
    BY <1>2 DEF Working
  <1>4. ~Copying(op[a]) /\ ~Copying(op'[a])
    BY <1>2 DEF Copying, PutBack, At
  <1>5. CASE /\ Dest(a) = Empty /\ UNCHANGED left
             /\ \E o \in Aside(a) :
                    dest' = [dest EXCEPT ![op[a].folder] = o.tree] /\ old' = old \ {o}
    <2>1. PICK o \in Aside(a) : dest' = [dest EXCEPT ![op[a].folder] = o.tree] /\ old' = old \ {o}
      BY <1>5
    <2>2. o \in old /\ o.by = a /\ o.tree \in Trees /\ a # None
      BY ConstantsAssumption DEF Aside, IInv, TypeOK, Copies
    <2>3. SetsDest(a, o.tree)
      BY <1>1, <2>1, <2>2, DestSet DEF IInv
    <2>4. \A p \in old' : p \in old /\ p.by # a
      BY <2>1, <2>2 DEF IInv, Acts
    <2>5. Spent /\ OldStep(a) /\ dest' \in [Folders -> Trees]
      BY <1>5, <2>3, <2>4, LeftStays, OldLetGo DEF IInv, TypeOK, SetsDest
    <2>6. OneAtATime /\ ~Half' => Whole(o.tree)
      BY <1>5, <2>2 DEF IInv, Fine, Half
    <2>7. OneAtATime /\ ~Half' => FineStep(a)
      BY <1>2, <1>4, <2>3, <2>4, <2>6 DEF FineStep, SetsDest
    <2> QED
      BY <1>1, <1>2, <1>3, <2>5, <2>7, StepKeeps DEF At
  <1>6. CASE LeavesOld(a, Files) /\ UNCHANGED dest
    <2>1. Spent /\ dest' \in [Folders -> Trees]
      BY <1>6, LeftStays, FaultSpent DEF PutBack, IInv, TypeOK
    <2>2. /\ old' \in SUBSET Copies
          /\ \A o \in old' : o.by # None => o \in old /\ o.by # a
      BY <1>6, LeavesOldKeeps DEF IInv
    <2>3. FineStep(a)
      BY <1>2, <1>4, <1>6, <2>2 DEF FineStep
    <2> QED
      BY <1>1, <1>2, <1>3, <2>1, <2>2, <2>3, OldLetGo, StepKeeps DEF At
  <1> QED
    BY <1>5, <1>6 DEF PutBack
LEMMA DropOldKeeps == ASSUME IInv, NEW a \in Actors, DropOld(a) PROVE IInv'
  <1>1. /\ op[a] \in PackOps /\ op[a].folder \in Folders /\ op[a].kind = "pack"
        /\ a \in left.actors /\ op[a].kind \in left.kinds
    BY OpKinds, AtWork DEF IInv, DropOld, At
  <1>2. OthersStay(a) /\ op'[a].pc = "register" /\ op'[a].kind = "pack"
    BY <1>1, ThenPack DEF IInv, DropOld, PackPcs
  <1>3. Spent
    BY LeftStays, FaultSpent DEF DropOld, IInv
  <1>4. /\ old' \in SUBSET Copies
        /\ \A o \in old' : o.by # None => o \in old /\ o.by # a
    <2>1. CASE old' = old \ Aside(a)
      BY <2>1 DEF Aside, IInv, TypeOK
    <2>2. CASE \E kept : LeavesOld(a, kept)
      BY <2>2, LeavesOldKeeps DEF IInv
    <2> QED
      BY <2>1, <2>2 DEF DropOld
  <1>5. Working(a)'
    BY <1>2 DEF Working
  <1>6. FineStep(a)
    BY <1>2, <1>4 DEF FineStep, Copying, DropOld, At
  <1>7. dest' \in [Folders -> Trees]
    BY DEF DropOld, IInv, TypeOK
  <1> QED
    BY <1>1, <1>2, <1>3, <1>4, <1>5, <1>6, <1>7, OldLetGo, StepKeeps DEF At

LEMMA RegisterKeeps == ASSUME IInv, NEW a \in Actors, Register(a) PROVE IInv'
  BY LeftStays, FaultSpent, RestKeeps DEF Register, At, Holding, IInv

LEMMA DeleteKeeps == ASSUME IInv, NEW a \in Actors, Delete(a) PROVE IInv'
  <1>1. /\ op[a] \in FolderOps \cup RemoveOps /\ op[a].folder \in Folders
        /\ Dest(a) \in Trees /\ a \in left.actors /\ op[a].kind \in left.kinds
    BY OpKinds, AtWork DEF IInv, Delete, At, Dest, TypeOK
  <1>2. UNCHANGED old /\ ~(op[a].pc \in Holding) /\ ~Copying(op[a])
    BY DEF Delete, At, Holding, Copying
  <1>3. CASE dest' = [dest EXCEPT ![op[a].folder] = Empty] /\ op[a].kind = "folder" /\ Then(a, "copy") /\ UNCHANGED left
    <2>1. op[a] \in FolderOps /\ op[a].v \in Versions /\ op[a].todo \in SUBSET Files
      BY <1>1, <1>3 DEF RemoveOps, FolderOps
    <2>2. /\ OthersStay(a) /\ op'[a].pc = "copy" /\ op'[a].kind = "folder" /\ op'[a].folder = op[a].folder
          /\ op'[a].v = op[a].v /\ op'[a].todo = op[a].todo
      BY <1>3, <2>1, ThenFolder DEF IInv
    <2>3. SetsDest(a, Empty)
      BY <1>1, <1>3, EmptyType, DestSet DEF IInv
    <2>4. OneAtATime => Working(a)'
      <3> SUFFICES ASSUME OneAtATime PROVE Working(a)'
        OBVIOUS
      <3>1. op[a].todo = Has[op[a].v]
        BY <1>3 DEF IInv, Working, Delete, At
      <3>2. Dest(a)' = Empty
        BY <2>2, <2>3 DEF Dest, SetsDest
      <3>3. Part(Tree(op[a].v), Files \ Has[op[a].v]) = Empty /\ Has[op[a].v] # {}
        BY <2>1, CopyBegins, HasFiles
      <3> QED
        BY <2>2, <3>1, <3>2, <3>3 DEF Working
    <2>5. FineStep(a)
      BY <1>2, <2>2, <2>3 DEF FineStep, SetsDest, Copying
    <2> QED
      BY <1>1, <1>2, <1>3, <2>2, <2>3, <2>4, <2>5, LeftStays, OldStays, StepKeeps
      DEF StillHolds, SetsDest, At, IInv
  <1>4. CASE dest' = [dest EXCEPT ![op[a].folder] = Empty] /\ Does(a, Resting) /\ UNCHANGED left
    <2>1. OthersStay(a) /\ op'[a].pc = "idle"
      BY <1>4, DoesRest DEF IInv
    <2>2. SetsDest(a, Empty)
      BY <1>1, <1>4, EmptyType, DestSet DEF IInv
    <2>3. Working(a)'
      BY <2>1 DEF Working
    <2>4. FineStep(a)
      BY <1>2, <2>1, <2>2 DEF FineStep, SetsDest, Copying
    <2> QED
      BY <1>1, <1>2, <1>4, <2>1, <2>2, <2>3, <2>4, LeftStays, OldStays, StepKeeps
      DEF StillHolds, SetsDest, At, IInv
  <1>5. CASE /\ \E kept \in SUBSET Files : dest' = [dest EXCEPT ![op[a].folder] = Part(Dest(a), kept)]
             /\ Does(a, Resting)
             /\ IF game THEN left' = Noted({"some", "half"}) ELSE HalfFault
    <2>1. OthersStay(a) /\ op'[a].pc = "idle"
      BY <1>5, DoesRest DEF IInv
    <2>2. dest' \in [Folders -> Trees]
      <3>1. PICK kept \in SUBSET Files : dest' = [dest EXCEPT ![op[a].folder] = Part(Dest(a), kept)]
        BY <1>5
      <3> DEFINE t == Part(Dest(a), kept)
      <3>2. t \in Trees
        BY <1>1, PartType
      <3>3. dest' = [dest EXCEPT ![op[a].folder] = t]
        BY <3>1
      <3> HIDE DEF t
      <3>4. SetsDest(a, t)
        BY <1>1, <3>2, <3>3, DestSet DEF IInv
      <3> QED
        BY <3>4 DEF SetsDest
    <2>3. Spent /\ Half'
      <3>1. CASE game
        <4>1. left' = Noted({"some", "half"})
          BY <1>5, <3>1
        <4>2. left.faults <= left.faults
          BY DEF IInv, TypeOK, Lefts
        <4> QED
          BY <4>1, <4>2, NotedSpent DEF Spent, Half, IInv
      <3>2. CASE ~game
        BY <1>5, <3>2, HalfFaultSpent DEF IInv
      <3> QED
        BY <3>1, <3>2
    <2>4. Working(a)'
      BY <2>1 DEF Working
    <2> QED
      BY <1>1, <1>2, <2>1, <2>2, <2>3, <2>4, OldStays, StepKeeps DEF StillHolds, At
  <1> QED
    BY <1>3, <1>4, <1>5 DEF Delete

LEMMA UnregisterKeeps == ASSUME IInv, NEW a \in Actors, Unregister(a) PROVE IInv'
  <1>1. op[a] \in RemoveOps /\ a \in left.actors /\ op[a].kind \in left.kinds /\ op[a].kind = "remove"
    BY OpKinds, AtWork DEF IInv, Unregister, At, RemoveOps
  <1>2. Spent /\ UNCHANGED <<dest, old>>
    BY LeftStays, FaultSpent DEF Unregister, IInv
  <1>3. CASE Then(a, "delete")
    <2>1. OthersStay(a) /\ op'[a].pc = "delete" /\ op'[a].kind = "remove"
      BY <1>1, <1>3, ThenRemove DEF IInv
    <2>2. Working(a)'
      BY <2>1 DEF Working
    <2> QED
      BY <1>1, <1>2, <2>1, <2>2, QuietKeeps DEF StillHolds, Unregister, At, Holding
  <1>4. CASE Does(a, Resting)
    BY <1>2, <1>4, RestKeeps DEF Unregister, At, Holding
  <1> QED
    BY <1>3, <1>4 DEF Unregister

LEMMA KillKeeps == ASSUME IInv, Kill PROVE IInv'
  <1> DEFINE n == Noted({"some", "half"})
  <1>1. n \in Lefts /\ n.failed = left.failed \cup {"some", "half"} /\ n.kills = left.kills
    BY NotedSpent DEF IInv
  <1>2. left' = [n EXCEPT !.kills = @ - 1] /\ n.kills > 0 /\ n.kills \in Nat
    BY <1>1 DEF Kill, IInv, TypeOK, Lefts
  <1>3. n.failed = left.failed \cup {"some", "half"}
    BY <1>1
  <1> HIDE DEF n
  <1>4. left' \in Lefts /\ left'.failed = n.failed
    BY <1>1, <1>2 DEF Lefts
  <1>5. Half'
    BY <1>3, <1>4 DEF Half
  <1>6. \A a \in Actors : op'[a].pc = "idle" /\ op'[a] \in Ops
    <2>1. Resting \in Ops /\ Resting.pc = "idle"
      BY Zenon DEF Ops, Resting
    <2>2. \A a \in Actors : op'[a] = Resting
      BY DEF Kill
    <2> QED
      BY <2>1, <2>2
  <1>7. op' \in [Actors -> Ops]
    <2>1. op' = [a \in Actors |-> op'[a]]
      BY DEF Kill
    <2> QED
      BY <1>6, <2>1
  <1>8. \A o \in old' : o \in Copies /\ o.by = None
    <2>1. ASSUME NEW o \in old PROVE [o EXCEPT !.by = None] \in Copies /\ [o EXCEPT !.by = None].by = None
      BY DEF IInv, TypeOK, Copies
    <2> QED
      BY <2>1 DEF Kill
  <1>9. TypeOK'
    BY <1>4, <1>7, <1>8 DEF Kill, IInv, TypeOK
  <1>10. Acts'
    BY <1>6, <1>8 DEF Acts, At
  <1>11. \A a \in Actors : Working(a)'
    BY <1>6 DEF Working
  <1> QED
    BY <1>5, <1>9, <1>10, <1>11 DEF IInv

LEMMA StartGameKeeps == ASSUME IInv, StartGame PROVE IInv'
  <1>1. /\ left' \in Lefts /\ left'.actors = left.actors /\ left'.kinds = left.kinds
        /\ left'.failed = left.failed
    BY DEF StartGame, IInv, TypeOK, Lefts
  <1>2. UNCHANGED <<dest, old, op>>
    BY DEF StartGame
  <1>3. TypeOK'
    BY <1>1, <1>2 DEF IInv, TypeOK
  <1>4. Acts'
    BY <1>1, <1>2 DEF IInv, Acts, At, Holds
  <1>5. OneAtATime' => \A a \in Actors : Working(a)'
    BY <1>1, <1>2 DEF IInv, OneAtATime, Working, Dest
  <1>6. OneAtATime' /\ ~Half' => Fine'
    BY <1>1, <1>2 DEF IInv, OneAtATime, Fine, Half, At, Dest
  <1> QED
    BY <1>3, <1>4, <1>5, <1>6 DEF IInv

\* The game's coming and going, and the table's rows, are no part of IInv.
LEMMA StutterKeeps == ASSUME IInv, UNCHANGED <<dest, old, op, left>> PROVE IInv'
  <1>1. TypeOK'
    BY DEF IInv, TypeOK
  <1>2. Acts'
    BY DEF IInv, Acts, At, Holds
  <1>3. OneAtATime' => \A a \in Actors : Working(a)'
    BY DEF IInv, OneAtATime, Working, Dest
  <1>4. OneAtATime' /\ ~Half' => Fine'
    BY DEF IInv, OneAtATime, Fine, Half, At, Dest
  <1> QED
    BY <1>1, <1>2, <1>3, <1>4 DEF IInv

LEMMA InitHolds == Init => IInv
  <1> SUFFICES ASSUME Init PROVE IInv
    OBVIOUS
  <1>1. Resting \in Ops /\ \A a \in Actors : op[a].pc = "idle" /\ op[a] \in Ops
    <2>1. Resting \in Ops /\ Resting.pc = "idle"
      BY Zenon DEF Ops, Resting
    <2>2. \A a \in Actors : op[a] = Resting
      BY DEF Init
    <2> QED
      BY <2>1, <2>2
  <1>2. TypeOK
    <2>1. \A x \in Folders : Tree(Installed[x]) \in Trees
      BY ConstantsAssumption, TreeType
    <2>2. dest \in [Folders -> Trees]
      BY <2>1 DEF Init
    <2>3. op \in [Actors -> Ops]
      BY <1>1 DEF Init
    <2>4. left \in Lefts
      BY ConstantsAssumption DEF Init, Lefts
    <2> QED
      BY <2>2, <2>3, <2>4 DEF Init, TypeOK
  <1>3. Acts
    BY <1>1 DEF Init, Acts, At
  <1>4. \A a \in Actors : Working(a)
    BY <1>1 DEF Working
  <1>5. Fine
    <2>1. \A x \in Folders : dest[x] = Empty \/ Whole(dest[x])
      <3> SUFFICES ASSUME NEW x \in Folders PROVE dest[x] = Empty \/ Whole(dest[x])
        OBVIOUS
      <3>1. dest[x] = Tree(Installed[x]) /\ Installed[x] \in Versions \cup {None}
        BY ConstantsAssumption DEF Init
      <3> QED
        BY <3>1, WholeTree DEF Empty
    <2> QED
      BY <1>1, <2>1 DEF Init, Fine, At
  <1> QED
    BY <1>2, <1>3, <1>4, <1>5 DEF IInv

LEMMA NextKeeps == IInv /\ [Next]_vars => IInv'
  <1> SUFFICES ASSUME IInv, [Next]_vars PROVE IInv'
    OBVIOUS
  <1>1. ASSUME NEW a \in Actors, Ask(a) PROVE IInv'
    BY <1>1, AskPackKeeps, AskFolderKeeps, AskRemoveKeeps DEF Ask
  <1>2. ASSUME NEW a \in Actors, Step(a) PROVE IInv'
    BY <1>2, UnpackKeeps, SidecarKeeps, LookKeeps, MoveAsideKeeps, PlaceKeeps, CopyKeeps,
       ClearKeeps, PutBackKeeps, DropOldKeeps, RegisterKeeps, DeleteKeeps, UnregisterKeeps DEF Step
  <1>3. CASE StartGame
    BY <1>3, StartGameKeeps
  <1>4. CASE CloseGame
    BY <1>4, StutterKeeps DEF CloseGame
  <1>5. CASE Kill
    BY <1>5, KillKeeps
  <1>6. CASE UNCHANGED vars
    BY <1>6, StutterKeeps DEF vars
  <1> QED
    BY <1>1, <1>2, <1>3, <1>4, <1>5, <1>6 DEF Next

LEMMA Invariant == Spec => []IInv
  BY InitHolds, NextKeeps, PTL DEF Spec

\* Every variable stays in its type: a request keeps the shape of its kind (pack, folder or
\* remove) at every step, and every copy moved aside is of a folder, by an actor or nobody.
THEOREM TypeCorrect == Spec => []TypeOK
  <1>1. IInv => TypeOK
    BY DEF IInv
  <1> QED
    BY <1>1, Invariant, PTL

\* With one request at a time, when it is over a folder holds one version of a track or
\* nothing, whatever failed on the way, but for the failures NoHalf names: "one bad member
\* left the player with half a track" (install_track_pack).
THEOREM NoHalfAlways == Spec => []NoHalf
  <1>1. IInv => NoHalf
    BY DEF IInv, Fine, NoHalf, Quiet, At, Half
  <1> QED
    BY <1>1, Invariant, PTL

LEMMA StepSpent ==
    ASSUME TypeOK, NEW a \in Actors, Ask(a) \/ Step(a)
    PROVE  Spent /\ \A b \in Actors : b # a => op'[b] = op[b]
  <1>1. ASSUME Delete(a) PROVE Spent
    <2>1. CASE left' = Noted({"some", "half"})
      <3>1. left.faults <= left.faults
        BY DEF TypeOK, Lefts
      <3> QED
        BY <2>1, <3>1, NotedSpent DEF Spent
    <2> QED
      BY <1>1, <2>1, LeftStays, HalfFaultSpent DEF Delete
  <1>2. ASSUME Ask(a) PROVE Spent
    BY <1>2, LeftStays DEF Ask, AskPack, AskFolder, AskRemove
  <1>3. ASSUME Unpack(a) \/ Sidecar(a) \/ Look(a) \/ MoveAside(a) PROVE Spent
    BY <1>3, LeftStays, FaultSpent DEF Unpack, Sidecar, Look, MoveAside
  <1>4. ASSUME Place(a) \/ Copy(a) \/ Clear(a) PROVE Spent
    BY <1>4, LeftStays, FaultSpent, HalfFaultSpent DEF Place, Copy, Clear
  <1>5. ASSUME PutBack(a) \/ DropOld(a) \/ Register(a) \/ Unregister(a) PROVE Spent
    BY <1>5, LeftStays, FaultSpent DEF PutBack, DropOld, Register, Unregister
  <1>6. \A b \in Actors : b # a => op'[b] = op[b]
    <2>1. \A step : Does(a, step) => \A b \in Actors : b # a => op'[b] = op[b]
      BY DEF Does, TypeOK
    <2>2. \A pc : Then(a, pc) => \A b \in Actors : b # a => op'[b] = op[b]
      BY <2>1 DEF Then
    <2>3. CASE Ask(a)
      BY <2>1, <2>3 DEF Ask, AskPack, AskFolder, AskRemove
    <2>4. CASE Unpack(a) \/ Sidecar(a) \/ Look(a) \/ MoveAside(a)
      BY <2>1, <2>2, <2>4 DEF Unpack, Sidecar, Look, MoveAside
    <2>5. CASE Place(a) \/ Copy(a) \/ Clear(a)
      BY <2>1, <2>2, <2>5 DEF Place, Copy, Clear
    <2>6. CASE PutBack(a) \/ DropOld(a) \/ Register(a) \/ Unregister(a) \/ Delete(a)
      BY <2>1, <2>2, <2>6 DEF PutBack, DropOld, Register, Unregister, Delete
    <2> QED
      BY <2>3, <2>4, <2>5, <2>6 DEF Step
  <1> QED
    BY <1>1, <1>2, <1>3, <1>4, <1>5, <1>6 DEF Step

\* What a request works on: the folder it was asked for or, a pack, the one its sidecar names.
Aim(step) ==
    /\ step.kind = "folder" => step.folder = step.asked
    /\ step.kind = "pack" => step.folder \in {step.asked, step.sidecar}
Aimed == \A a \in Actors : At(a, "idle") \/ Aim(op[a])

LEMMA AimStays ==
    ASSUME NEW step \in PackOps \cup FolderOps \cup RemoveOps, Aim(step), NEW pc, NEW todo, NEW had
    PROVE  /\ Aim([step EXCEPT !.pc = pc]) /\ Aim([step EXCEPT !.todo = todo, !.pc = pc])
           /\ step \in PackOps => Aim([step EXCEPT !.had = had, !.pc = pc])
           /\ step \in PackOps => Aim([step EXCEPT !.folder = step.sidecar, !.pc = pc])
  <1>1. CASE step \in PackOps
    BY <1>1 DEF PackOps, Aim
  <1>2. CASE step \in FolderOps
    BY <1>2 DEF PackOps, FolderOps, Aim
  <1>3. CASE step \in RemoveOps
    BY <1>3 DEF PackOps, RemoveOps, Aim
  <1> QED
    BY <1>1, <1>2, <1>3

LEMMA StepAims ==
    ASSUME TypeOK, NEW a \in Actors, ~At(a, "idle") => Aim(op[a]), Ask(a) \/ Step(a)
    PROVE  op'[a].pc = "idle" \/ Aim(op'[a])
  <1>1. \A step : Does(a, step) => op'[a] = step
    BY DEF TypeOK, Does
  <1>2. Does(a, Resting) => op'[a].pc = "idle"
    BY DoesRest
  <1>3. CASE AskPack(a)
    BY <1>1, <1>3 DEF AskPack, Aim
  <1>4. CASE AskFolder(a)
    BY <1>1, <1>4 DEF AskFolder, Aim
  <1>5. CASE AskRemove(a)
    BY <1>1, <1>5 DEF AskRemove, Aim
  <1>6. ASSUME Step(a) PROVE op[a] \in PackOps \cup FolderOps \cup RemoveOps /\ Aim(op[a])
    BY <1>6, OpKinds DEF Step, Unpack, Sidecar, Look, MoveAside, Place, Copy, Clear, PutBack,
                         DropOld, Register, Delete, Unregister, At
  <1>7. ASSUME Step(a), NEW pc, Then(a, pc) PROVE Aim(op'[a])
    BY <1>1, <1>6, <1>7, AimStays DEF Then
  <1>8. CASE Look(a)
    <2>1. op[a] \in PackOps /\ Aim(op[a])
      BY <1>6, <1>8, OpKinds DEF Step, Look, At
    <2>2. PICK pc, had : Does(a, [op[a] EXCEPT !.had = had, !.pc = pc])
      BY <1>8 DEF Look
    <2>3. op'[a] = [op[a] EXCEPT !.had = had, !.pc = pc]
      BY <1>1, <2>2
    <2>4. Aim([op[a] EXCEPT !.had = had, !.pc = pc])
      BY <2>1, AimStays
    <2> QED
      BY <2>3, <2>4
  <1>9. CASE Sidecar(a)
    <2>1. op[a] \in PackOps /\ Aim(op[a])
      BY <1>6, <1>9, OpKinds DEF Step, Sidecar, At
    <2>2. Does(a, Resting) \/ Does(a, [op[a] EXCEPT !.folder = op[a].sidecar, !.pc = "look"])
      BY <1>9 DEF Sidecar
    <2>3. Aim([op[a] EXCEPT !.folder = op[a].sidecar, !.pc = "look"])
      BY <2>1, AimStays
    <2> QED
      BY <1>1, <1>2, <2>2, <2>3
  <1>10. CASE Copy(a)
    <2>1. op[a] \in PackOps \cup FolderOps \cup RemoveOps /\ Aim(op[a])
      BY <1>6, <1>10 DEF Step
    <2>2. CASE \E todo, pc : Does(a, [op[a] EXCEPT !.todo = todo, !.pc = pc])
      <3>1. PICK todo, pc : Does(a, [op[a] EXCEPT !.todo = todo, !.pc = pc])
        BY <2>2
      <3>2. Aim([op[a] EXCEPT !.todo = todo, !.pc = pc])
        BY <2>1, AimStays
      <3>3. op'[a] = [op[a] EXCEPT !.todo = todo, !.pc = pc]
        BY <1>1, <3>1
      <3> QED
        BY <3>2, <3>3
    <2>3. CASE Then(a, "clear") \/ Does(a, Resting)
      BY <1>2, <1>7, <1>10, <2>3 DEF Step
    <2> QED
      BY <1>10, <2>2, <2>3 DEF Copy
  <1>11. CASE Unpack(a) \/ MoveAside(a) \/ Place(a) \/ Clear(a) \/ PutBack(a)
    BY <1>2, <1>7, <1>11 DEF Step, Unpack, MoveAside, Place, Clear, PutBack
  <1>12. CASE DropOld(a) \/ Register(a) \/ Delete(a) \/ Unregister(a)
    BY <1>2, <1>7, <1>12 DEF Step, DropOld, Register, Delete, Unregister
  <1> QED
    BY <1>3, <1>4, <1>5, <1>8, <1>9, <1>10, <1>11, <1>12 DEF Ask, Step

LEMMA AlwaysAimed == Spec => []Aimed
  <1>1. Init => Aimed
    BY DEF Init, Aimed, At, Resting
  <1>2. ASSUME TypeOK, Aimed, [Next]_vars PROVE Aimed'
    <2>1. ASSUME NEW a \in Actors, Ask(a) \/ Step(a) PROVE Aimed'
      <3>1. \A b \in Actors : b # a => op'[b] = op[b]
        BY <1>2, <2>1, StepSpent
      <3>2. op'[a].pc = "idle" \/ Aim(op'[a])
        BY <1>2, <2>1, StepAims DEF Aimed
      <3> QED
        BY <1>2, <3>1, <3>2 DEF Aimed, At
    <2>2. CASE Kill
      BY <2>2 DEF Kill, Aimed, At, Resting
    <2>3. CASE UNCHANGED op
      BY <1>2, <2>3 DEF Aimed, At
    <2> QED
      BY <1>2, <2>1, <2>2, <2>3 DEF Next, vars, StartGame, CloseGame
  <1> QED
    BY <1>1, <1>2, TypeCorrect, PTL DEF Spec

\* A pack, a folder or a removal touches no track the user did not agree to replace or
\* remove, where requests come one at a time: the folder the request was for or, with a
\* replacement agreed to, the one the pack's sidecar names.
THEOREM ConfirmedAlways == Spec => Confirmed
  <1> DEFINE Asked(a, x) ==
                OneAtATime /\ op[a].pc # "idle" /\ Whole(dest[x]) /\ dest'[x] # dest[x]
                => \/ op[a].kind = "remove" /\ x = op[a].folder
                   \/ /\ op[a].kind # "remove" /\ op[a].overwrite
                      /\ x = op[a].asked \/ (op[a].kind = "pack" /\ x = op[a].sidecar)
  <1>1. ASSUME IInv, [Next]_vars, NEW a \in Actors, NEW x \in Folders, OneAtATime,
               op[a].pc # "idle", Whole(dest[x]), dest'[x] # dest[x]
        PROVE  (op[a].kind = "remove" \/ op[a].overwrite) /\ x = op[a].folder
    <2>0. Step(a) => x = op[a].folder
      BY <1>1 DEF Step, Unpack, Sidecar, Look, MoveAside, Place, Copy, Clear, PutBack,
                  DropOld, Register, Delete, Unregister, IInv, TypeOK
    <2>1. \A b \in Actors : b # a => At(b, "idle")
      BY <1>1, AtWork, Solo DEF IInv, At
    <2>2. Step(a)
      <3>1. ASSUME NEW b \in Actors, Step(b) PROVE Step(a)
        <4>1. ~At(b, "idle")
          BY <3>1 DEF Step, Unpack, Sidecar, Look, MoveAside, Place, Copy, Clear, PutBack,
                      DropOld, Register, Delete, Unregister, At
        <4> QED
          BY <2>1, <3>1, <4>1
      <3>2. CASE \E b \in Actors : Ask(b)
        BY <1>1, <3>2 DEF Ask, AskPack, AskFolder, AskRemove
      <3> QED
        BY <1>1, <3>1, <3>2 DEF Next, vars, StartGame, CloseGame, Kill
    <2>3. Working(a) /\ TypeOK /\ op[a].pc # "idle" /\ dest \in [Folders -> Trees]
      BY <1>1 DEF IInv, TypeOK
    <2>4. CASE MoveAside(a)
      BY <1>1, <2>0, <2>2, <2>3, <2>4 DEF Working, MoveAside, At
    <2>5. CASE Delete(a)
      BY <1>1, <2>3, <2>5, OpKinds DEF Working, Delete, At, IInv, FolderOps, RemoveOps
    <2>6. CASE Place(a) \/ Copy(a) \/ Clear(a) \/ PutBack(a)
      <3>1. op[a].folder \in Folders /\ ~Whole(Dest(a))
        <4>1. op[a].folder \in Folders /\ op[a] \in PackOps \cup FolderOps
          BY <2>3, <2>6, OpKinds DEF Place, Copy, Clear, PutBack, At
        <4>2. ~Whole(Empty)
          BY WholeNotEmpty
        <4>3. CASE At(a, "copy") \/ At(a, "clear")
          <5>1. /\ op[a].todo # {} /\ op[a].todo \subseteq Has[op[a].v]
                /\ Dest(a) = Part(Tree(op[a].v), Files \ op[a].todo)
            BY <2>3, <4>3 DEF Working, At
          <5>2. op[a].v \in Versions
            BY <4>1 DEF PackOps, FolderOps
          <5> QED
            BY <4>1, <5>1, <5>2, PartNotWhole
        <4>4. CASE At(a, "place") \/ At(a, "put back")
          BY <2>3, <4>1, <4>2, <4>4 DEF Working, At
        <4> QED
          BY <2>6, <4>3, <4>4 DEF Place, Copy, Clear, PutBack
      <3>2. x # op[a].folder
        BY <1>1, <3>1 DEF Dest
      <3>3. dest'[x] = dest[x]
        BY <2>3, <2>6, <3>2 DEF Place, Copy, Clear, PutBack
      <3> QED
        BY <1>1, <3>3
    <2> QED
      BY <1>1, <2>0, <2>2, <2>4, <2>5, <2>6
      DEF Step, Unpack, Sidecar, Look, DropOld, Register, Unregister
  <1>0. ASSUME IInv, Aimed, [Next]_vars, NEW a \in Actors, NEW x \in Folders, OneAtATime,
               op[a].pc # "idle", Whole(dest[x]), dest'[x] # dest[x]
        PROVE  Asked(a, x)
    <2>1. (op[a].kind = "remove" \/ op[a].overwrite) /\ x = op[a].folder
      BY <1>0, <1>1
    <2>2. Aim(op[a]) /\ op[a].kind \in {"pack", "folder", "remove"}
      BY <1>0, OpKinds DEF Aimed, At, IInv, PackOps, FolderOps, RemoveOps
    <2> QED
      BY <2>1, <2>2 DEF Aim
  <1>2. IInv /\ Aimed /\ [Next]_vars => \A a \in Actors, x \in Folders : Asked(a, x)
    BY <1>0
  <1>3. IInv /\ Aimed /\ [Next]_vars => [\A a \in Actors, x \in Folders : Asked(a, x)]_vars
    BY <1>2
  <1> QED
    BY <1>3, Invariant, AlwaysAimed, PTL DEF Spec, Confirmed

(* No track is lost.                                                         *)

LEMMA NoneLeft == ASSUME Spent, left.faults = 0 PROVE left'.faults = 0
  <1>1. left'.faults \in Nat /\ left'.faults <= 0
    BY DEF Spent, Lefts
  <1> QED
    BY <1>1

\* What has to be seen of a step: no clean-up where several are at work, and no track's last copy gone.
LEMMA LosslessStep ==
    ASSUME Inv, NEW a \in Actors, Ask(a) \/ Step(a),
           OneAtATime \/ op'[a].pc \notin {"clear", "put back"},
           left.kinds = {"pack"} => \A x \in Folders : KeptIn(x) => KeptIn(x)'
    PROVE  Lossless'
  <1>1. Spent /\ \A b \in Actors : b # a => op'[b] = op[b]
    BY StepSpent DEF Inv, IInv
  <1>2. OneAtATime' <=> OneAtATime
    BY <1>1 DEF Spent, OneAtATime
  <1>3. OneAtATime' \/ (left'.faults = 0 /\ \A b \in Actors : op'[b].pc \notin {"clear", "put back"})
    <2> SUFFICES ASSUME ~OneAtATime
                 PROVE  left'.faults = 0 /\ \A b \in Actors : op'[b].pc \notin {"clear", "put back"}
      BY <1>2
    <2>1. left.faults = 0 /\ \A b \in Actors : op[b].pc \notin {"clear", "put back"}
      BY DEF Inv, Lossless
    <2>2. left'.faults = 0
      BY <1>1, <2>1, NoneLeft
    <2> QED
      BY <1>1, <2>1, <2>2
  <1>4. left'.kinds = {"pack"} => \A x \in Folders : Installed[x] # None => KeptIn(x)'
    BY <1>1 DEF Spent, Inv, Lossless
  <1> QED
    BY <1>3, <1>4 DEF Lossless

LEMMA KeptStill ==
    ASSUME Inv, NEW a \in Actors, Ask(a) \/ Step(a), NEW x \in Folders,
           \/ Counts(dest'[x])
           \/ \E o \in old' : o.folder = x /\ Counts(o.tree) /\ (o.by # None => op'[o.by].pc # "drop old")
    PROVE  KeptIn(x)'
  <1>1. OneAtATime' <=> OneAtATime
    BY StepSpent DEF Spent, OneAtATime, Inv, IInv
  <1> QED
    BY <1>1 DEF KeptIn, Counts, Dropped

\* No copy is moved aside by an actor that is not past that step.
LEMMA NoneAside ==
    ASSUME Inv, NEW a \in Actors, op[a].pc \notin Holding
    PROVE  \A o \in old : o.by # None => o.by # a /\ o.by \in Actors
  BY DEF Inv, IInv, TypeOK, Copies, Acts, Holds

LEMMA AsideOf ==
    ASSUME Inv, NEW o \in old
    PROVE  /\ o.folder \in Folders /\ o.tree \in Trees
           /\ o.by # None => o.by \in Actors /\ o.folder = op[o.by].folder
           /\ \A p \in old : o.by # None /\ p.by = o.by => p = o
  BY DEF Inv, IInv, TypeOK, Copies, Acts, Holds

\* A step that leaves the files alone, of an actor that has nothing aside.
LEMMA QuietLossless ==
    ASSUME Inv, NEW a \in Actors, Ask(a) \/ Step(a), UNCHANGED <<dest, old>>,
           op[a].pc \notin Holding, op'[a].pc \notin {"clear", "put back"}
    PROVE  Lossless'
  <1>1. ASSUME NEW x \in Folders, KeptIn(x) PROVE KeptIn(x)'
    <2>1. \A b \in Actors : b # a => op'[b] = op[b]
      BY StepSpent DEF Inv, IInv
    <2>2. CASE Counts(dest[x])
      BY <2>2, KeptStill
    <2>3. CASE \E o \in old : o.folder = x /\ Counts(o.tree) /\ ~Dropped(o)
      <3>1. PICK o \in old : o.folder = x /\ Counts(o.tree) /\ ~Dropped(o)
        BY <2>3
      <3>2. o.by # None => op'[o.by].pc # "drop old"
        BY <2>1, <3>1, NoneAside DEF Dropped
      <3> QED
        BY <3>1, <3>2, KeptStill
    <2> QED
      BY <1>1, <2>2, <2>3 DEF KeptIn
  <1> QED
    BY <1>1, LosslessStep

LEMMA RestQuiet ==
    ASSUME Inv, NEW a \in Actors, Ask(a) \/ Step(a), UNCHANGED <<dest, old>>,
           op[a].pc \notin Holding, Does(a, Resting)
    PROVE  Lossless'
  <1>1. op'[a].pc = "idle"
    BY DoesRest DEF Inv, IInv
  <1> QED
    BY <1>1, QuietLossless

LEMMA DoesIs == ASSUME TypeOK, NEW a \in Actors, NEW step, Does(a, step) PROVE op'[a] = step
  BY DEF Does, TypeOK

LEMMA AskLossless == ASSUME Inv, NEW a \in Actors, Ask(a) PROVE Lossless'
  <1>1. op'[a].pc \notin {"clear", "put back"}
    <2>1. CASE AskPack(a)
      <3>1. PICK step : Does(a, step) /\ step.pc = "unpack"
        BY <2>1 DEF AskPack
      <3> QED
        BY <3>1, DoesIs DEF Inv, IInv
    <2>2. CASE AskFolder(a)
      <3>1. PICK step : Does(a, step) /\ (step.pc = "copy" \/ step.pc = "delete")
        BY <2>2 DEF AskFolder
      <3> QED
        BY <3>1, DoesIs DEF Inv, IInv
    <2>3. CASE AskRemove(a)
      <3>1. PICK step : Does(a, step) /\ step.pc = "unregister"
        BY <2>3 DEF AskRemove
      <3> QED
        BY <3>1, DoesIs DEF Inv, IInv
    <2> QED
      BY <2>1, <2>2, <2>3 DEF Ask
  <1>2. op[a].pc \notin Holding /\ UNCHANGED <<dest, old>>
    BY DEF Ask, AskPack, AskFolder, AskRemove, Asks, At, Holding
  <1> QED
    BY <1>1, <1>2, QuietLossless

LEMMA EarlyLossless == ASSUME Inv, NEW a \in Actors, Unpack(a) \/ Sidecar(a) \/ Look(a) \/ Register(a) PROVE Lossless'
  <1>1. op[a].pc \notin Holding \cup {"idle"} /\ UNCHANGED <<dest, old>> /\ Step(a)
    BY DEF Step, Unpack, Sidecar, Look, Register, At, Holding
  <1>2. CASE Unpack(a) /\ Then(a, "sidecar")
    <2>1. op[a] \in PackOps
      BY <1>2, OpKinds DEF Unpack, At, Inv, IInv
    <2>2. op'[a].pc = "sidecar"
      BY <1>2, <2>1, ThenPack DEF Inv, IInv, PackPcs
    <2> QED
      BY <1>1, <2>2, QuietLossless
  <1>3. CASE Sidecar(a) /\ Does(a, [op[a] EXCEPT !.folder = op[a].sidecar, !.pc = "look"])
    <2>1. op[a] \in PackOps
      BY <1>3, OpKinds DEF Sidecar, At, Inv, IInv
    <2>2. [op[a] EXCEPT !.folder = op[a].sidecar, !.pc = "look"].pc = "look"
      BY <2>1 DEF PackOps
    <2>3. op'[a].pc = "look"
      BY <1>3, <2>2 DEF Does, Inv, IInv, TypeOK
    <2> QED
      BY <1>1, <2>3, QuietLossless
  <1>4. CASE Look(a)
    <2>1. op[a] \in PackOps
      BY <1>4, OpKinds DEF Look, At, Inv, IInv
    <2> DEFINE step == [op[a] EXCEPT !.had = (Dest(a) # Empty),
                                     !.pc = IF Dest(a) # Empty THEN "aside" ELSE "place"]
    <2>2. step.pc = "aside" \/ step.pc = "place"
      BY <2>1 DEF PackOps
    <2>3. op'[a] = step
      BY <1>4 DEF Look, Does, Inv, IInv, TypeOK
    <2> QED
      BY <1>1, <2>2, <2>3, QuietLossless
  <1> QED
    BY <1>1, <1>2, <1>3, <1>4, RestQuiet DEF Unpack, Sidecar, Register

LEMMA MoveAsideLossless == ASSUME Inv, NEW a \in Actors, MoveAside(a) PROVE Lossless'
  <1>1. op[a] \in PackOps /\ op[a].folder \in Folders /\ op[a].pc \notin Holding /\ Step(a)
    BY OpKinds DEF Inv, IInv, MoveAside, At, Holding, Step
  <1>2. CASE Does(a, Resting) /\ UNCHANGED <<dest, old>>
    BY <1>1, <1>2, RestQuiet
  <1>3. CASE Then(a, "place") /\ dest' = [dest EXCEPT ![op[a].folder] = Empty]
             /\ old' = old \cup {[by |-> a, folder |-> op[a].folder, tree |-> Dest(a)]}
    <2>1. op'[a].pc = "place" /\ \A b \in Actors : b # a => op'[b] = op[b]
      BY <1>1, <1>3, ThenPack, StepSpent DEF Inv, IInv, PackPcs
    <2>2. ASSUME NEW x \in Folders, KeptIn(x) PROVE KeptIn(x)'
      <3>1. CASE Counts(dest[x]) /\ x = op[a].folder
        <4>1. PICK o : o = [by |-> a, folder |-> op[a].folder, tree |-> Dest(a)]
          OBVIOUS
        <4>2. o \in old' /\ o.tree = dest[x] /\ o.folder = x /\ op'[o.by].pc # "drop old"
          BY <1>3, <2>1, <3>1, <4>1 DEF Dest
        <4>3. Counts(o.tree)
          BY <3>1, <4>2, Zenon
        <4> QED
          BY <1>1, <4>2, <4>3, KeptStill
      <3>2. CASE Counts(dest[x]) /\ x # op[a].folder
        <4>1. dest'[x] = dest[x]
          BY <1>3, <3>2 DEF Inv, IInv, TypeOK
        <4> QED
          BY <1>1, <3>2, <4>1, KeptStill
      <3>3. CASE \E o \in old : o.folder = x /\ Counts(o.tree) /\ ~Dropped(o)
        <4>1. PICK o \in old : o.folder = x /\ Counts(o.tree) /\ ~Dropped(o)
          BY <3>3
        <4>2. o.by # None => op'[o.by].pc # "drop old"
          BY <1>1, <2>1, <4>1, NoneAside DEF Dropped
        <4>3. o \in old'
          BY <1>3
        <4> QED
          BY <1>1, <4>1, <4>2, <4>3, KeptStill
      <3> QED
        BY <2>2, <3>1, <3>2, <3>3 DEF KeptIn
    <2> QED
      BY <1>1, <2>1, <2>2, LosslessStep
  <1> QED
    BY <1>2, <1>3 DEF MoveAside

\* The request's own folder is changed, and the copies aside stay.
LEMMA DestLossless ==
    ASSUME Inv, NEW a \in Actors, Step(a), OneAtATime \/ op'[a].pc \notin {"clear", "put back"},
           NEW t \in Trees, SetsDest(a, t), UNCHANGED old,
           left.kinds = {"pack"} => Counts(t) \/ (~Counts(Dest(a)) /\ op'[a].pc # "drop old")
    PROVE  Lossless'
  <1>1. ASSUME NEW x \in Folders, KeptIn(x), left.kinds = {"pack"} PROVE KeptIn(x)'
    <2>1. \A b \in Actors : b # a => op'[b] = op[b]
      BY StepSpent DEF Inv, IInv
    <2>2. CASE Counts(t) /\ x = op[a].folder
      <3>1. dest'[x] = t
        BY <2>2 DEF SetsDest
      <3> QED
        BY <2>2, <3>1, KeptStill
    <2>3. CASE Counts(dest[x]) /\ x # op[a].folder
      <3>1. dest'[x] = dest[x]
        BY <2>3 DEF SetsDest
      <3> QED
        BY <2>3, <3>1, KeptStill
    <2>4. CASE /\ \E o \in old : o.folder = x /\ Counts(o.tree) /\ ~Dropped(o)
               /\ op'[a].pc # "drop old" \/ x # op[a].folder
      <3>1. PICK o \in old : o.folder = x /\ Counts(o.tree) /\ ~Dropped(o)
        BY <2>4
      <3>2. o.by # None => op'[o.by].pc # "drop old"
        BY <2>1, <2>4, <3>1, AsideOf DEF Dropped
      <3> QED
        BY <3>1, <3>2, KeptStill
    <2>5. CASE Counts(dest[x]) /\ x = op[a].folder /\ ~Counts(t)
      BY <1>1, <2>5 DEF Dest
    <2> QED
      BY <1>1, <2>2, <2>3, <2>4, <2>5 DEF KeptIn
  <1> QED
    BY <1>1, LosslessStep

\* While a track is being copied in, or what was copied is taken out, its folder holds no whole one.
LEMMA CopyNotWhole ==
    ASSUME IInv, NEW a \in Actors, OneAtATime, At(a, "copy") \/ At(a, "clear")
    PROVE  ~Whole(Dest(a)) /\ \A kept : ~Whole(Part(Dest(a), kept))
  <1>1. op[a].v \in Versions
    BY OpKinds DEF IInv, At, PackOps, FolderOps
  <1>2. /\ op[a].todo # {} /\ op[a].todo \subseteq Has[op[a].v]
        /\ Dest(a) = Part(Tree(op[a].v), Files \ op[a].todo)
    BY DEF IInv, Working, At
  <1> QED
    BY <1>1, <1>2, PartNotWhole

LEMMA SameLossless ==
    ASSUME Inv, NEW a \in Actors, Step(a), OneAtATime \/ op'[a].pc \notin {"clear", "put back"},
           UNCHANGED <<dest, old>>, op'[a].pc # "drop old"
    PROVE  Lossless'
  <1>1. ASSUME NEW x \in Folders, KeptIn(x) PROVE KeptIn(x)'
    <2>1. \A b \in Actors : b # a => op'[b] = op[b]
      BY StepSpent DEF Inv, IInv
    <2>2. CASE Counts(dest[x])
      BY <2>2, KeptStill
    <2>3. CASE \E o \in old : o.folder = x /\ Counts(o.tree) /\ ~Dropped(o)
      <3>1. PICK o \in old : o.folder = x /\ Counts(o.tree) /\ ~Dropped(o)
        BY <2>3
      <3>2. o.by # None => op'[o.by].pc # "drop old"
        BY <2>1, <3>1, AsideOf DEF Dropped
      <3> QED
        BY <3>1, <3>2, KeptStill
    <2> QED
      BY <1>1, <2>2, <2>3 DEF KeptIn
  <1> QED
    BY <1>1, LosslessStep

LEMMA PlaceLossless == ASSUME Inv, NEW a \in Actors, Place(a) PROVE Lossless'
  <1>1. op[a] \in PackOps /\ op[a].folder \in Folders /\ op[a].v \in Versions /\ Step(a)
    BY OpKinds DEF Inv, IInv, Place, At, PackOps, Step
  <1>2. CASE Then(a, "drop old") /\ dest' = [dest EXCEPT ![op[a].folder] = Tree(op[a].v)]
    <2>1. op'[a].pc = "drop old"
      BY <1>1, <1>2, ThenPack DEF Inv, IInv, PackPcs
    <2> DEFINE t == Tree(op[a].v)
    <2>2. t \in Trees /\ Whole(t) /\ t # Empty
      BY <1>1, TreeType, WholeTree
    <2>3. dest' = [dest EXCEPT ![op[a].folder] = t]
      BY <1>2
    <2> HIDE DEF t
    <2>4. SetsDest(a, t)
      BY <1>1, <2>2, <2>3, DestSet DEF Inv, IInv
    <2>5. Counts(t)
      BY <2>2 DEF Counts
    <2>6. UNCHANGED old
      BY DEF Place
    <2> QED
      BY <1>1, <2>1, <2>2, <2>4, <2>5, <2>6, DestLossless
  <1>3. CASE Then(a, "copy") /\ UNCHANGED dest
    <2>1. op'[a].pc = "copy"
      BY <1>1, <1>3, ThenPack DEF Inv, IInv, PackPcs
    <2> QED
      BY <1>1, <1>3, <2>1, SameLossless DEF Place
  <1> QED
    BY <1>2, <1>3 DEF Place

LEMMA CopyLossless == ASSUME Inv, NEW a \in Actors, Copy(a) PROVE Lossless'
  <1>1. /\ op[a] \in PackOps \cup FolderOps /\ op[a].folder \in Folders /\ op[a].v \in Versions
        /\ op[a].todo \in SUBSET Files /\ Step(a) /\ At(a, "copy")
    BY OpKinds DEF Inv, IInv, Copy, At, PackOps, FolderOps, Step
  <1>2. ASSUME NEW i \in op[a].todo,
               dest' = [dest EXCEPT ![op[a].folder][i] = op[a].v],
               LET rest == op[a].todo \ {i} IN
               Does(a, [op[a] EXCEPT !.todo = rest,
                            !.pc = IF rest # {} THEN "copy"
                                   ELSE IF op[a].kind = "pack" THEN "drop old" ELSE "register"])
        PROVE  Lossless'
    <2> DEFINE rest == op[a].todo \ {i}
               t    == [Dest(a) EXCEPT ![i] = op[a].v]
               step == [op[a] EXCEPT !.todo = rest,
                                     !.pc = IF rest # {} THEN "copy"
                                            ELSE IF op[a].kind = "pack" THEN "drop old" ELSE "register"]
    <2>1. Dest(a) \in Trees /\ t \in Trees
      BY <1>1 DEF Inv, IInv, TypeOK, Trees, Dest
    <2>2. dest' = [dest EXCEPT ![op[a].folder] = t]
      BY <1>2 DEF Dest
    <2>3. SetsDest(a, t)
      BY <1>1, <2>1, <2>2, DestSet DEF Inv, IInv
    <2>4. step.pc = (IF rest # {} THEN "copy" ELSE IF op[a].kind = "pack" THEN "drop old" ELSE "register")
      BY <1>1 DEF PackOps, FolderOps
    <2>5. op'[a] = step
      BY <1>2, DoesIs DEF Inv, IInv
    <2>6. op'[a].pc = (IF rest # {} THEN "copy" ELSE IF op[a].kind = "pack" THEN "drop old" ELSE "register")
      BY <2>4, <2>5
    <2>7. CASE OneAtATime
      <3>1. op[a].todo \subseteq Has[op[a].v] /\ Dest(a) = Part(Tree(op[a].v), Files \ op[a].todo)
        BY <1>1, <2>7 DEF Inv, IInv, Working, At
      <3>2. rest = {} => Whole(t)
        <4> DEFINE v == op[a].v
                   todo == op[a].todo
                   u == [Part(Tree(v), Files \ todo) EXCEPT ![i] = v]
        <4>1. v \in Versions /\ todo \in SUBSET Has[v] /\ i \in todo
          BY <1>1, <1>2, <3>1
        <4>2. /\ u = Part(Tree(v), Files \ (todo \ {i}))
              /\ todo \ {i} = {} => u = Tree(v)
          BY <4>1, CopyGoesOn
        <4>3. t = u
          BY <3>1
        <4>4. Whole(Tree(v))
          BY <4>1, WholeTree
        <4> QED
          BY <4>2, <4>3, <4>4
      <3>3. ~Whole(Dest(a))
        BY <1>1, <2>7, CopyNotWhole DEF Inv
      <3> HIDE DEF t, rest
      <3>4. Counts(t) \/ (~Counts(Dest(a)) /\ op'[a].pc # "drop old")
        BY <2>6, <2>7, <3>2, <3>3 DEF Counts
      <3>5. UNCHANGED old
        BY DEF Copy
      <3> QED
        BY <1>1, <2>1, <2>3, <2>7, <3>4, <3>5, DestLossless
    <2>8. CASE ~OneAtATime
      <3>1. t[i] = op[a].v /\ Empty[i] = None /\ op[a].v # None
        BY <1>1, <1>2, <2>1, HasFiles DEF Trees, Empty, Tree
      <3>2. t # Empty
        BY <3>1
      <3> HIDE DEF t, rest
      <3>3. Counts(t)
        BY <2>8, <3>2 DEF Counts
      <3>4. UNCHANGED old /\ op'[a].pc \notin {"clear", "put back"}
        BY <2>6 DEF Copy
      <3> QED
        BY <1>1, <2>1, <2>3, <3>3, <3>4, DestLossless
    <2> QED
      BY <2>7, <2>8
  <1>3. CASE op[a].kind = "pack" /\ Fault /\ Then(a, "clear") /\ UNCHANGED dest
    <2>1. OneAtATime
      <3>1. left.faults > 0
        BY <1>3, FaultSpent DEF Inv, IInv
      <3>2. OneAtATime \/ left.faults = 0
        BY DEF Inv, Lossless
      <3> QED
        BY <3>1, <3>2
    <2>2. op'[a].pc = "clear"
      BY <1>1, <1>3, OpKinds, ThenPack DEF Inv, IInv, PackPcs, At
    <2> QED
      BY <1>1, <1>3, <2>1, <2>2, SameLossless DEF Copy
  <1>4. CASE HalfFault /\ Does(a, Resting) /\ UNCHANGED dest
    <2>1. op'[a].pc = "idle"
      BY <1>4, DoesRest DEF Inv, IInv
    <2> QED
      BY <1>1, <1>4, <2>1, SameLossless DEF Copy
  <1> QED
    BY <1>2, <1>3, <1>4 DEF Copy

LEMMA ClearLossless == ASSUME Inv, NEW a \in Actors, Clear(a) PROVE Lossless'
  <1>1. /\ op[a] \in PackOps /\ op[a].folder \in Folders /\ Dest(a) \in Trees /\ Step(a)
        /\ At(a, "clear") /\ OneAtATime
    BY OpKinds DEF Inv, IInv, Lossless, Clear, At, Dest, TypeOK, Step
  <1>2. op'[a].pc # "drop old"
    <2>1. CASE Then(a, "put back")
      BY <1>1, <2>1, ThenPack DEF Inv, IInv, PackPcs
    <2>2. CASE Does(a, Resting)
      BY <2>2, DoesRest DEF Inv, IInv
    <2> QED
      BY <2>1, <2>2 DEF Clear
  <1>3. PICK t \in Trees : SetsDest(a, t)
    <2>1. CASE dest' = [dest EXCEPT ![op[a].folder] = Empty]
      BY <1>1, <2>1, EmptyType, DestSet DEF Inv, IInv
    <2>2. CASE \E kept \in SUBSET Files : dest' = [dest EXCEPT ![op[a].folder] = Part(Dest(a), kept)]
      <3>1. PICK kept \in SUBSET Files : dest' = [dest EXCEPT ![op[a].folder] = Part(Dest(a), kept)]
        BY <2>2
      <3> QED
        BY <1>1, <3>1, PartType, DestSet DEF Inv, IInv
    <2> QED
      BY <2>1, <2>2 DEF Clear
  <1>4. ~Counts(Dest(a))
    BY <1>1, CopyNotWhole DEF Inv, Counts
  <1>5. UNCHANGED old
    BY DEF Clear
  <1> QED
    BY <1>1, <1>2, <1>3, <1>4, <1>5, DestLossless

\* The copies of a request that is over stay what they were.
LEMMA LeavesAll ==
    ASSUME Inv, NEW a \in Actors, NEW o \in old, LeavesOld(a, Files)
    PROVE  \E p \in old' : /\ p.folder = o.folder /\ p.tree = o.tree
                           /\ p.by = None \/ (p.by = o.by /\ o.by # a)
  <1>1. CASE o.by = a
    <2>1. PICK p : p = [by |-> None, folder |-> o.folder, tree |-> Part(o.tree, Files)]
      OBVIOUS
    <2>2. p \in old'
      BY <1>1, <2>1 DEF LeavesOld, Aside
    <2>3. Part(o.tree, Files) = o.tree
      BY AsideOf DEF Trees, Part
    <2>4. p.by = None /\ p.folder = o.folder /\ p.tree = o.tree
      BY <2>1, <2>3
    <2> QED
      BY <2>2, <2>4
  <1>2. CASE o.by # a
    BY <1>2 DEF LeavesOld, Aside
  <1> QED
    BY <1>1, <1>2

LEMMA PutBackLossless == ASSUME Inv, NEW a \in Actors, PutBack(a) PROVE Lossless'
  <1>1. /\ op[a] \in PackOps /\ op[a].folder \in Folders /\ Step(a) /\ OneAtATime /\ At(a, "put back")
        /\ ~Whole(Dest(a))
    BY OpKinds DEF Inv, IInv, Lossless, Working, PutBack, At, Step
  <1>2. /\ op'[a].pc = "idle" /\ \A b \in Actors : b # a => op'[b] = op[b]
        /\ ~Counts(Dest(a))
    BY <1>1, DoesRest, StepSpent DEF Inv, IInv, PutBack, Counts
  <1>3. CASE \E o \in Aside(a) : dest' = [dest EXCEPT ![op[a].folder] = o.tree] /\ old' = old \ {o}
    <2>1. PICK o \in Aside(a) : dest' = [dest EXCEPT ![op[a].folder] = o.tree] /\ old' = old \ {o}
      BY <1>3
    <2>2. /\ o \in old /\ o.by = a /\ o.tree \in Trees /\ o.folder = op[a].folder
      BY ConstantsAssumption, AsideOf DEF Aside
    <2>3. SetsDest(a, o.tree)
      BY <1>1, <2>1, <2>2, DestSet DEF Inv, IInv
    <2>4. ASSUME NEW x \in Folders, KeptIn(x) PROVE KeptIn(x)'
      <3>1. CASE Counts(dest[x])
        <4>1. x # op[a].folder
          BY <1>2, <3>1 DEF Dest
        <4>2. dest'[x] = dest[x]
          BY <2>3, <4>1 DEF SetsDest
        <4> QED
          BY <1>1, <3>1, <4>2, KeptStill
      <3>2. CASE \E p \in old : p.folder = x /\ Counts(p.tree) /\ ~Dropped(p)
        <4>1. PICK p \in old : p.folder = x /\ Counts(p.tree) /\ ~Dropped(p)
          BY <3>2
        <4>2. CASE p = o
          <5>1. dest'[x] = o.tree
            BY <2>2, <2>3, <4>1, <4>2 DEF SetsDest
          <5>2. Counts(dest'[x])
            BY <4>1, <4>2, <5>1, Zenon
          <5> QED
            BY <1>1, <5>2, KeptStill
        <4>3. CASE p # o
          <5>1. p \in old'
            BY <2>1, <4>3
          <5>2. p.by # None => op'[p.by].pc # "drop old"
            BY <1>2, <4>1, AsideOf DEF Dropped
          <5> QED
            BY <1>1, <4>1, <5>1, <5>2, KeptStill
        <4> QED
          BY <4>2, <4>3
      <3> QED
        BY <2>4, <3>1, <3>2 DEF KeptIn
    <2> QED
      BY <1>1, <2>4, LosslessStep
  <1>4. CASE LeavesOld(a, Files) /\ UNCHANGED dest
    <2>1. ASSUME NEW x \in Folders, KeptIn(x) PROVE KeptIn(x)'
      <3>1. CASE Counts(dest[x])
        BY <1>1, <1>4, <3>1, KeptStill
      <3>2. CASE \E p \in old : p.folder = x /\ Counts(p.tree) /\ ~Dropped(p)
        <4>1. PICK p \in old : p.folder = x /\ Counts(p.tree) /\ ~Dropped(p)
          BY <3>2
        <4>2. PICK q \in old' : /\ q.folder = p.folder /\ q.tree = p.tree
                                /\ q.by = None \/ (q.by = p.by /\ p.by # a)
          BY <1>4, LeavesAll
        <4>3. q.by # None => op'[q.by].pc # "drop old"
          BY <1>2, <4>1, <4>2, AsideOf DEF Dropped
        <4>4. q.folder = x /\ Counts(q.tree)
          BY <4>1, <4>2, Zenon
        <4> QED
          BY <1>1, <4>3, <4>4, KeptStill
      <3> QED
        BY <2>1, <3>1, <3>2 DEF KeptIn
    <2> QED
      BY <1>1, <2>1, LosslessStep
  <1> QED
    BY <1>3, <1>4 DEF PutBack

LEMMA DropOldLossless == ASSUME Inv, NEW a \in Actors, DropOld(a) PROVE Lossless'
  <1>1. op[a] \in PackOps /\ Step(a) /\ op[a].pc = "drop old"
    BY OpKinds DEF Inv, IInv, DropOld, At, Step
  <1>2. op'[a].pc = "register" /\ \A b \in Actors : b # a => op'[b] = op[b]
    BY <1>1, ThenPack, StepSpent DEF Inv, IInv, DropOld, PackPcs
  <1>3. \A p \in old : p.by # a => p \in old'
    BY DEF DropOld, LeavesOld, Aside
  <1>4. ASSUME NEW x \in Folders, KeptIn(x) PROVE KeptIn(x)'
    <2>1. CASE Counts(dest[x])
      BY <1>1, <2>1, KeptStill DEF DropOld
    <2>2. CASE \E p \in old : p.folder = x /\ Counts(p.tree) /\ ~Dropped(p)
      <3>1. PICK p \in old : p.folder = x /\ Counts(p.tree) /\ ~Dropped(p)
        BY <2>2
      <3>2. p.by # a
        BY <1>1, <3>1, ConstantsAssumption DEF Dropped
      <3>3. p.by # None => op'[p.by].pc # "drop old"
        BY <1>2, <3>1, <3>2, AsideOf DEF Dropped
      <3> QED
        BY <1>1, <1>3, <3>1, <3>2, <3>3, KeptStill
    <2> QED
      BY <1>4, <2>1, <2>2 DEF KeptIn
  <1> QED
    BY <1>1, <1>2, <1>4, LosslessStep

\* Folders and removals are not asked for where NeverLost speaks.
LEMMA OtherLossless == ASSUME Inv, NEW a \in Actors, Delete(a) \/ Unregister(a) PROVE Lossless'
  <1>1. op[a] \in FolderOps \cup RemoveOps /\ Step(a) /\ op[a].kind \in left.kinds
    BY OpKinds, AtWork DEF Inv, IInv, Delete, Unregister, At, Step
  <1>2. left.kinds # {"pack"}
    BY <1>1 DEF FolderOps, RemoveOps
  <1>3. op'[a].pc \notin {"clear", "put back"}
    <2>1. CASE Does(a, Resting)
      BY <2>1, DoesRest DEF Inv, IInv
    <2>2. CASE Then(a, "copy") /\ op[a].kind = "folder"
      BY <1>1, <2>2, ThenFolder DEF Inv, IInv, RemoveOps
    <2>3. CASE Then(a, "delete") /\ op[a] \in RemoveOps
      BY <2>3, ThenRemove DEF Inv, IInv
    <2>4. Unregister(a) => op[a] \in RemoveOps
      BY OpKinds DEF Inv, IInv, Unregister, At
    <2> QED
      BY <2>1, <2>2, <2>3, <2>4 DEF Delete, Unregister
  <1> QED
    BY <1>1, <1>2, <1>3, LosslessStep

LEMMA KillLossless == ASSUME Inv, Kill PROVE Lossless'
  <1> DEFINE n == Noted({"some", "half"})
  <1>1. n \in Lefts /\ n.actors = left.actors /\ n.kinds = left.kinds /\ n.faults = left.faults
    BY NotedSpent DEF Inv, IInv
  <1>2. left' = [n EXCEPT !.kills = @ - 1]
    BY DEF Kill
  <1> HIDE DEF n
  <1>3. left'.actors = left.actors /\ left'.kinds = left.kinds /\ left'.faults = left.faults
    BY <1>1, <1>2 DEF Lefts
  <1>4. OneAtATime' <=> OneAtATime
    BY <1>3 DEF OneAtATime
  <1>5. \A b \in Actors : op'[b].pc = "idle"
    <2>1. Resting.pc = "idle"
      BY DEF Resting
    <2> QED
      BY <2>1 DEF Kill
  <1>6. OneAtATime' \/ (left'.faults = 0 /\ \A b \in Actors : op'[b].pc \notin {"clear", "put back"})
    BY <1>3, <1>4, <1>5 DEF Inv, Lossless
  <1>7. ASSUME NEW x \in Folders, KeptIn(x) PROVE KeptIn(x)'
    <2>1. CASE Counts(dest[x])
      BY <1>4, <2>1 DEF Kill, KeptIn, Counts
    <2>2. CASE \E o \in old : o.folder = x /\ Counts(o.tree) /\ ~Dropped(o)
      <3>1. PICK o \in old : o.folder = x /\ Counts(o.tree) /\ ~Dropped(o)
        BY <2>2
      <3>2. PICK p : p = [o EXCEPT !.by = None]
        OBVIOUS
      <3>3. p \in old' /\ p.by = None /\ p.folder = o.folder /\ p.tree = o.tree
        BY <3>2 DEF Kill, Inv, IInv, TypeOK, Copies
      <3> QED
        BY <1>4, <3>1, <3>3 DEF KeptIn, Counts, Dropped
    <2> QED
      BY <1>7, <2>1, <2>2 DEF KeptIn
  <1>8. left'.kinds = {"pack"} => \A x \in Folders : Installed[x] # None => KeptIn(x)'
    BY <1>3, <1>7 DEF Inv, Lossless
  <1> QED
    BY <1>6, <1>8 DEF Lossless

LEMMA StutterLossless ==
    ASSUME Inv, UNCHANGED <<dest, old, op>>, left'.actors = left.actors,
           left'.kinds = left.kinds, left'.faults = left.faults
    PROVE  Lossless'
  BY DEF Inv, Lossless, OneAtATime, KeptIn, Counts, Dropped

LEMMA InitLossless == ASSUME OneOrSure, Init PROVE Lossless
  <1>1. OneAtATime \/ left.faults = 0
    BY DEF OneOrSure, Init, OneAtATime
  <1>2. \A b \in Actors : op[b].pc = "idle"
    BY DEF Init, Resting
  <1>3. ASSUME NEW x \in Folders, Installed[x] # None PROVE KeptIn(x)
    <2>1. dest[x] = Tree(Installed[x]) /\ Installed[x] \in Versions
      BY <1>3, ConstantsAssumption DEF Init
    <2> QED
      BY <2>1, WholeTree DEF KeptIn, Counts
  <1> QED
    BY <1>1, <1>2, <1>3 DEF Lossless

LEMMA NextLossless == Inv /\ [Next]_vars => Inv'
  <1> SUFFICES ASSUME Inv, [Next]_vars PROVE Inv'
    OBVIOUS
  <1>1. IInv'
    BY NextKeeps DEF Inv
  <1>2. ASSUME NEW a \in Actors, Ask(a) PROVE Lossless'
    BY <1>2, AskLossless
  <1>3. ASSUME NEW a \in Actors, Step(a) PROVE Lossless'
    BY <1>3, EarlyLossless, MoveAsideLossless, PlaceLossless, CopyLossless, ClearLossless,
       PutBackLossless, DropOldLossless, OtherLossless DEF Step
  <1>4. ASSUME StartGame PROVE Lossless'
    <2>1. left'.actors = left.actors /\ left'.kinds = left.kinds /\ left'.faults = left.faults
      BY <1>4 DEF StartGame, Inv, IInv, TypeOK, Lefts
    <2> QED
      BY <1>4, <2>1, StutterLossless DEF StartGame
  <1>5. ASSUME CloseGame PROVE Lossless'
    BY <1>5, StutterLossless DEF CloseGame
  <1>6. ASSUME Kill PROVE Lossless'
    BY <1>6, KillLossless
  <1>7. ASSUME UNCHANGED vars PROVE Lossless'
    BY <1>7, StutterLossless DEF vars
  <1>8. Lossless'
    BY <1>2, <1>3, <1>4, <1>5, <1>6, <1>7 DEF Next
  <1> QED
    BY <1>1, <1>8 DEF Inv

\* Where tracks are only installed from packs, a track that was there at first is whole in its
\* folder or beside it, whatever fails, is killed or left aside (NeverLost, swap_in's "all or
\* nothing"): with requests one at a time, or, as several may leave a mix of packs, some of it
\* if no file operation fails.
THEOREM NeverLostAlways == ASSUME OneOrSure PROVE Spec => []NeverLost
  <1>1. Init => Inv
    BY InitHolds, InitLossless DEF Inv
  <1>2. Inv /\ [Next]_vars => Inv'
    BY NextLossless
  <1>3. Inv => NeverLost
    <2> SUFFICES ASSUME Inv, left.kinds = {"pack"}, NEW x \in Folders, Installed[x] # None
                 PROVE  Counts(dest[x]) \/ \E o \in old : o.folder = x /\ Counts(o.tree)
      BY DEF NeverLost, Counts
    <2> QED
      BY DEF Inv, Lossless, KeptIn
  <1> QED
    BY <1>1, <1>2, <1>3, PTL DEF Spec
=============================================================================
