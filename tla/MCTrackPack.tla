---------------------------- MODULE MCTrackPack ----------------------------
(* A small instance of TrackPack: a track of two files, one joiner, one push. *)
EXTENDS TrackPack

CONSTANTS j1, j2

MCFiles   == {1, 2}
MCJoiners == {j1}
MCOthers  == {j2}

Scene(changes, disguises, kills, faults, prunes) ==
    [changes |-> changes, disguises |-> disguises, kills |-> kills, faults |-> faults,
     prunes |-> prunes, undigested |-> FALSE, unseen |-> FALSE]

\* The track changes twice and the host is killed; a pack is pruned; operations fail; a
\* change goes unseen before or after one that is seen.
MCScenes == {Scene(2, 0, 1, 0, 0), Scene(1, 0, 1, 0, 1), Scene(1, 0, 0, 2, 0), Scene(1, 1, 0, 0, 0)}
=============================================================================
