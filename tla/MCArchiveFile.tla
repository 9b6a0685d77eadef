--------------------------- MODULE MCArchiveFile ---------------------------
(* Small instances of ArchiveFile: two processes, three entries.  A register *)
(* writes the tracks and the containers table together; damage or penalties  *)
(* write a template alone.                                                   *)
EXTENDS ArchiveFile, TLC

CONSTANTS p1, p2

MCProcs    == {p1, p2}
template   == 1
tracks     == 2
containers == 3
Register  == <<tracks, containers>>
Damage    == <<template>>
RegisterAndDamage == {Register, Damage}
Penalties         == {template}
Symmetric == Permutations(MCProcs)
=============================================================================
