----------------------------- MODULE MCUpdater -----------------------------
(* Small instances of Updater: one release that works and one that does not. *)
EXTENDS Updater

CONSTANTS v0, v1, v2, s1, s2, k1, k2

MCReleases == {v1, v2}
MCBroken   == {v2}
MCPids     == 1..3
MCScripts  == {s1, s2}
MCAskers   == {k1, k2}

\* Where two scripts race nothing is promised any more: the run sees that state and stops.
MCUpToRace == Cardinality(Active) <= 1
=============================================================================
