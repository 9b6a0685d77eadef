--------------------------- MODULE MCTrackInstall ---------------------------
(* Small instances of TrackInstall: one track installed, a second folder free. *)
EXTENDS TrackInstall

CONSTANTS a1, a2, f1, f2, v1, v2

MCFolders  == {f1, f2}
MCFiles    == 1..2
MCVersions == {v1, v2}
MCActors   == {a1, a2}
MCHas       == [v \in MCVersions |-> IF v = v1 THEN {1, 2} ELSE {1}]
MCInstalled == [x \in MCFolders |-> IF x = f1 THEN v1 ELSE None]

\* Packs of one track, one at a time, with failures, a kill and the game started ...
Packs  == [actors |-> {a1}, folders |-> {f1}, kinds |-> {"pack"},
           faults |-> 2, kills |-> 1, games |-> 1, failed |-> {}]
\* ... packs whose sidecar may name the other folder ...
Named  == [actors |-> {a1}, folders |-> MCFolders, kinds |-> {"pack"},
           faults |-> 2, kills |-> 0, games |-> 0, failed |-> {}]
\* ... two packs of the same track at a time ...
Both   == [actors |-> {a1, a2}, folders |-> {f1}, kinds |-> {"pack"},
           faults |-> 0, kills |-> 1, games |-> 0, failed |-> {}]
\* ... and all requests, one at a time.
Single == [actors |-> {a1}, folders |-> MCFolders, kinds |-> {"pack", "folder", "remove"},
           faults |-> 1, kills |-> 0, games |-> 1, failed |-> {}]
MCScenes == {Packs, Named, Both, Single}
=============================================================================
