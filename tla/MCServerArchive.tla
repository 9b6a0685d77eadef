-------------------------- MODULE MCServerArchive --------------------------
(* Small instances of ServerArchive: two actors, two tracks, two damages. *)
EXTENDS ServerArchive, TLC

CONSTANTS a1, a2, t1, t2

MCActors  == {a1, a2}
MCTracks  == {t1, t2}
MCDamages == {50, 100}
\* Tracks and their backup; starts among deploys; the toggle both ways; and the toggle
\* beside tracks and the backup.
MCOffers ==
    {{"deploy", "redeclare", "restore"}, {"start", "deploy", "redeclare"}, {"off", "on"},
     {"off", "deploy", "restore"}}
Symmetric == Permutations(MCActors) \cup Permutations(MCTracks)
=============================================================================
