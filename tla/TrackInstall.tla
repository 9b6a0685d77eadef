---------------------------- MODULE TrackInstall ----------------------------
(***************************************************************************)
(* install.rs: track folders put into the game's tracks directory from a   *)
(* pack (install_track_pack: unpacked beside it, then swap_in) or from a   *)
(* folder (install_track_folder), and taken out again (remove_track), each *)
(* with the track's rows in the game's tables (trackdeploy.rs).  Requests  *)
(* run beside each other: nothing locks the tracks directory.              *)
(***************************************************************************)
EXTENDS Naturals, FiniteSets

CONSTANTS
    Folders, Files, Versions, Actors,
    Has,            \* the files of each version of a track
    Installed,      \* the version each folder holds at first
    None,
    Scenes          \* bounds: who makes which requests about which folders, how many file operations fail,
                    \* how often ACECM is killed and the game is started

ASSUME ConstantsAssumption ==
    /\ None \notin Versions \cup Actors /\ IsFiniteSet(Actors)
    /\ Has \in [Versions -> (SUBSET Files) \ {{}}] /\ Installed \in [Folders -> Versions \cup {None}]
    /\ Scenes \subseteq [actors : SUBSET Actors, folders : SUBSET Folders,
                         kinds : SUBSET {"pack", "folder", "remove"},
                         faults : Nat, kills : Nat, games : Nat, failed : {{}}]

VARIABLES
    dest,       \* each folder's files: the version they are from
    old,        \* the copies moved aside, by whom if the request is still at work: of which
                \* folder, and their files
    row,        \* the folders with rows in the game's tables
    game,       \* the game runs
    op,         \* what each actor is doing
    left        \* the scene, with what may still go wrong

vars == <<dest, old, row, game, op, left>>

Tree(v)  == [i \in Files |-> IF v # None /\ i \in Has[v] THEN v ELSE None]
Empty    == Tree(None)
Whole(t) == \E v \in Versions : t = Tree(v)
Resting  == [pc |-> "idle"]
Part(t, kept) == [i \in Files |-> IF i \in kept THEN t[i] ELSE None]

Init ==
    /\ dest = [x \in Folders |-> Tree(Installed[x])]
    /\ old = {} /\ row = {x \in Folders : Installed[x] # None} /\ game = FALSE
    /\ op = [a \in Actors |-> Resting]
    /\ left \in Scenes

\* What has failed so far: anything, and anything that may leave half a track.
Noted(what) == [left EXCEPT !.failed = @ \cup what]
Fails(what) == left.faults > 0 /\ left' = [Noted(what) EXCEPT !.faults = @ - 1]
Fault       == Fails({"some"})
HalfFault   == Fails({"some", "half"})
At(a, pc)   == op[a].pc = pc
Does(a, step) == op' = [op EXCEPT ![a] = step]
Then(a, pc) == Does(a, [op[a] EXCEPT !.pc = pc])
Asks(a, kind) == At(a, "idle") /\ a \in left.actors /\ kind \in left.kinds

Dest(a) == dest[op[a].folder]
Aside(a) == {o \in old : o.by = a}

-----------------------------------------------------------------------------
(* install_track_pack *)

\* A track that has files there is not replaced unless the user said so.
Conflict(x, overwrite) == ~overwrite /\ dest[x] # Empty

\* The archive's wrapper or name gives the folder; its own sidecar may name another.
AskPack(a) ==
    /\ Asks(a, "pack")
    /\ \E x, y \in left.folders, v \in Versions, overwrite \in BOOLEAN :
        /\ ~Conflict(x, overwrite)
        /\ Does(a, [kind |-> "pack", pc |-> "unpack", folder |-> x, asked |-> x, sidecar |-> y,
                    v |-> v, overwrite |-> overwrite, had |-> FALSE, todo |-> Has[v]])
    /\ UNCHANGED <<dest, old, row, game, left>>

\* Mutant: unpacked where the track belongs, up to a bad member.
Unpack_InPlace(a) ==
    /\ At(a, "unpack")
    /\ \/ Then(a, "sidecar") /\ UNCHANGED <<dest, left>>
       \/ /\ Does(a, Resting) /\ Fault
          /\ \E i \in Has[op[a].v] : dest' = [dest EXCEPT ![op[a].folder][i] = op[a].v]
    /\ UNCHANGED <<old, row, game>>

\* Into a staging folder, which goes away when a member is bad.
Unpack(a) ==
    /\ At(a, "unpack")
    /\ \/ Then(a, "sidecar") /\ UNCHANGED left
       \/ Does(a, Resting) /\ Fault
    /\ UNCHANGED <<dest, old, row, game>>

\* Mutant: the folder the sidecar names is not asked for its files.
Sidecar_Trusted(a) ==
    /\ At(a, "sidecar")
    /\ Does(a, [op[a] EXCEPT !.folder = op[a].sidecar, !.pc = "look"])
    /\ UNCHANGED <<dest, old, row, game, left>>

\* A replacement the user agreed to is carried out wherever the sidecar says.
Sidecar(a) ==
    /\ At(a, "sidecar")
    /\ LET y == op[a].sidecar IN
       IF y # op[a].folder /\ Conflict(y, op[a].overwrite) THEN Does(a, Resting)
       ELSE Does(a, [op[a] EXCEPT !.folder = y, !.pc = "look"])
    /\ UNCHANGED <<dest, old, row, game, left>>

\* swap_in
Look(a) ==
    /\ At(a, "look")
    /\ Does(a, [op[a] EXCEPT !.had = (Dest(a) # Empty),
                             !.pc = IF Dest(a) # Empty THEN "aside" ELSE "place"])
    /\ UNCHANGED <<dest, old, row, game, left>>

\* Mutant: the old copy is deleted first.
MoveAside_Deletes(a) ==
    /\ At(a, "aside")
    /\ dest' = [dest EXCEPT ![op[a].folder] = Empty] /\ Then(a, "place")
    /\ UNCHANGED <<old, row, game, left>>

\* Mutant: every copy moved aside has the same name, which must be free.
MoveAside_OneName(a) ==
    /\ At(a, "aside")
    /\ IF Dest(a) = Empty \/ \E o \in old : o.folder = op[a].folder
       THEN Does(a, Resting) /\ UNCHANGED <<dest, old>>
       ELSE /\ old' = old \cup {[by |-> a, folder |-> op[a].folder, tree |-> Dest(a)]}
            /\ dest' = [dest EXCEPT ![op[a].folder] = Empty] /\ Then(a, "place")
    /\ UNCHANGED <<row, game, left>>

\* The old copy is moved aside, unless it is gone, or a file of it is in use.
MoveAside(a) ==
    /\ At(a, "aside")
    /\ \/ /\ Dest(a) # Empty
          /\ old' = old \cup {[by |-> a, folder |-> op[a].folder, tree |-> Dest(a)]}
          /\ dest' = [dest EXCEPT ![op[a].folder] = Empty]
          /\ Then(a, "place") /\ UNCHANGED left
       \/ /\ Dest(a) = Empty \/ game
          /\ Does(a, Resting) /\ UNCHANGED <<dest, old, left>>
       \/ Fault /\ Does(a, Resting) /\ UNCHANGED <<dest, old>>
    /\ UNCHANGED <<row, game>>

\* One rename; where that fails the files are copied one by one.
Place(a) ==
    /\ At(a, "place")
    /\ \/ /\ Dest(a) = Empty
          /\ dest' = [dest EXCEPT ![op[a].folder] = Tree(op[a].v)]
          /\ Then(a, "drop old") /\ UNCHANGED left
       \/ /\ IF Dest(a) = Empty THEN Fault ELSE UNCHANGED left
          /\ Then(a, "copy") /\ UNCHANGED dest
    /\ UNCHANGED <<old, row, game>>

\* copytree
Copy(a) ==
    /\ At(a, "copy")
    /\ \/ /\ \E i \in op[a].todo :
                /\ dest' = [dest EXCEPT ![op[a].folder][i] = op[a].v]
                /\ LET rest == op[a].todo \ {i} IN
                   Does(a, [op[a] EXCEPT !.todo = rest,
                                !.pc = IF rest # {} THEN "copy"
                                       ELSE IF op[a].kind = "pack" THEN "drop old" ELSE "register"])
          /\ UNCHANGED left
       \/ /\ UNCHANGED dest
          /\ IF op[a].kind = "pack" THEN Fault /\ Then(a, "clear")
             ELSE HalfFault /\ Does(a, Resting)
    /\ UNCHANGED <<old, row, game>>

\* What was copied is removed, as far as it can be ...
Clear(a) ==
    /\ At(a, "clear")
    /\ IF op[a].had THEN Then(a, "put back") ELSE Does(a, Resting)
    /\ \/ dest' = [dest EXCEPT ![op[a].folder] = Empty] /\ UNCHANGED left
       \/ /\ Dest(a) # Empty /\ HalfFault
          /\ \E kept \in (SUBSET Files) \ {{}} :
                dest' = [dest EXCEPT ![op[a].folder] = Part(Dest(a), kept)]
    /\ UNCHANGED <<old, row, game>>

\* The copy moved aside stays there, or what is left of it, and nobody will look for it.
LeavesOld(a, kept) ==
    old' = (old \ Aside(a)) \cup {[by |-> None, folder |-> o.folder, tree |-> Part(o.tree, kept)] :
                                     o \in Aside(a)}

\* ... and the old copy put back, if that can be done.
PutBack(a) ==
    /\ At(a, "put back") /\ Does(a, Resting)
    /\ \/ /\ Dest(a) = Empty
          /\ \E o \in Aside(a) :
                dest' = [dest EXCEPT ![op[a].folder] = o.tree] /\ old' = old \ {o}
          /\ UNCHANGED left
       \/ /\ IF Dest(a) = Empty THEN Fault ELSE UNCHANGED left
          /\ LeavesOld(a, Files) /\ UNCHANGED dest
    /\ UNCHANGED <<row, game>>

DropOld(a) ==
    /\ At(a, "drop old") /\ Then(a, "register")
    /\ \/ old' = old \ Aside(a) /\ UNCHANGED left
       \/ /\ Aside(a) # {} /\ Fault
          /\ \E kept \in (SUBSET Files) \ {{}} : LeavesOld(a, kept)
    /\ UNCHANGED <<dest, row, game>>

\* register_client_track, under the archive's lock.
Register(a) ==
    /\ At(a, "register") /\ Does(a, Resting)
    /\ \/ ~game /\ row' = row \cup {op[a].folder} /\ UNCHANGED left
       \/ game /\ UNCHANGED <<row, left>>
       \/ ~game /\ Fault /\ UNCHANGED row
    /\ UNCHANGED <<dest, old, game>>

-----------------------------------------------------------------------------
(* install_track_folder *)

AskFolder(a) ==
    /\ Asks(a, "folder")
    /\ \E x \in left.folders, v \in Versions, overwrite \in BOOLEAN :
        /\ ~Conflict(x, overwrite)
        /\ Does(a, [kind |-> "folder", pc |-> IF dest[x] = Empty THEN "copy" ELSE "delete",
                    folder |-> x, asked |-> x, v |-> v, overwrite |-> overwrite, todo |-> Has[v]])
    /\ UNCHANGED <<dest, old, row, game, left>>

\* remove_dir_all, which may stop at a file in use.
Delete(a) ==
    /\ At(a, "delete")
    /\ \/ /\ dest' = [dest EXCEPT ![op[a].folder] = Empty]
          /\ IF op[a].kind = "folder" THEN Then(a, "copy") ELSE Does(a, Resting)
          /\ UNCHANGED left
       \/ /\ \E kept \in (SUBSET Files) \ {{}} :
                dest' = [dest EXCEPT ![op[a].folder] = Part(Dest(a), kept)]
          /\ Does(a, Resting)
          /\ IF game THEN left' = Noted({"some", "half"}) ELSE HalfFault
    /\ UNCHANGED <<old, row, game>>

-----------------------------------------------------------------------------
(* remove_track *)

AskRemove(a) ==
    /\ Asks(a, "remove")
    /\ \E x \in left.folders :
        dest[x] # Empty /\ Does(a, [kind |-> "remove", pc |-> "unregister", folder |-> x])
    /\ UNCHANGED <<dest, old, row, game, left>>

\* unregister_track_into: not while the game runs; another error is only logged.
Unregister(a) ==
    /\ At(a, "unregister")
    /\ \/ ~game /\ row' = row \ {op[a].folder} /\ Then(a, "delete") /\ UNCHANGED left
       \/ game /\ Does(a, Resting) /\ UNCHANGED <<row, left>>
       \/ ~game /\ Fault /\ Then(a, "delete") /\ UNCHANGED row
    /\ UNCHANGED <<dest, old, game>>

-----------------------------------------------------------------------------
(* The game, and the end of ACECM *)

StartGame ==
    /\ ~game /\ game' = TRUE
    /\ left.games > 0 /\ left' = [left EXCEPT !.games = @ - 1]
    /\ UNCHANGED <<dest, old, row, op>>

CloseGame == game /\ game' = FALSE /\ UNCHANGED <<dest, old, row, op, left>>

Kill ==
    /\ left.kills > 0
    /\ left' = [Noted({"some", "half"}) EXCEPT !.kills = @ - 1]
    /\ op' = [a \in Actors |-> Resting]
    /\ old' = {[o EXCEPT !.by = None] : o \in old}
    /\ UNCHANGED <<dest, row, game>>

Ask(a) == AskPack(a) \/ AskFolder(a) \/ AskRemove(a)

Step(a) ==
    \/ Unpack(a) \/ Sidecar(a) \/ Look(a) \/ MoveAside(a) \/ Place(a) \/ Copy(a)
    \/ Clear(a) \/ PutBack(a) \/ DropOld(a) \/ Register(a)
    \/ Delete(a) \/ Unregister(a)

Next ==
    \/ \E a \in Actors : Ask(a) \/ Step(a)
    \/ StartGame \/ CloseGame \/ Kill

Spec == Init /\ [][Next]_vars

\* Requests go on, the game is closed some time, and the user drops the pack again.
Again(a, x) ==
    AskPack(a) /\ op'[a].folder = x /\ op'[a].sidecar = x /\ op'[a].overwrite
FairSpec ==
    /\ Spec
    /\ \A a \in Actors : WF_vars(Step(a))
    /\ WF_vars(CloseGame)
    /\ \A a \in Actors, x \in Folders : SF_vars(Again(a, x))

-----------------------------------------------------------------------------
(* Properties *)

Quiet == \A a \in Actors : At(a, "idle")
OneAtATime == Cardinality(left.actors) = 1

\* "All or nothing: the old copy is moved aside, the new one renamed in, and the old one
\* deleted only after that worked" (swap_in): where tracks are only installed from packs, a
\* track that was there at first is whole in its folder or beside it, whatever fails or is
\* killed.  With two packs at a time it is there, but may be a mix of both.
NeverLost ==
    left.kinds = {"pack"} =>
        \A x \in Folders : Installed[x] # None =>
            LET Safe(t) == IF OneAtATime THEN Whole(t) ELSE t # Empty IN
            Safe(dest[x]) \/ \E o \in old : o.folder = x /\ Safe(o.tree)

\* "One bad member left the player with half a track" (install_track_pack): with one
\* request at a time, when it is over a folder holds one version of a track or nothing,
\* whatever failed on the way, except a copy's clean-up, a deletion, a plain folder's copy or
\* ACECM itself.
NoHalf ==
    Quiet /\ OneAtATime /\ "half" \notin left.failed
    => \A x \in Folders : dest[x] = Empty \/ Whole(dest[x])

\* "The SAME conflict check as the folder asked for: a pack whose sidecar named another
\* installed track deleted it" (install_track_pack): with one request at a time no track is
\* touched by a request the user did not mark as a removal or a replacement, and one marked
\* as a replacement touches the folder it was asked for, or - where the code does not ask
\* again - the one its pack's sidecar names, never a third.
Confirmed ==
    [][\A a \in Actors, x \in Folders :
        OneAtATime /\ op[a].pc # "idle" /\ Whole(dest[x]) /\ dest'[x] # dest[x]
        => \/ op[a].kind = "remove" /\ x = op[a].folder
           \/ /\ op[a].kind # "remove" /\ op[a].overwrite
              /\ x = op[a].asked \/ (op[a].kind = "pack" /\ x = op[a].sidecar)]_vars

\* Whatever failed, was killed or left aside, a pack that is dropped again and again is in
\* the end installed whole, with its rows.
Installs ==
    left.kinds = {"pack"} /\ OneAtATime
    => \A x \in Folders : x \in left.folders => []<>(Whole(dest[x]) /\ x \in row)
=============================================================================
