----------------------------- MODULE MCJsonFile -----------------------------
(* Small instances of JsonFile: two profiles, two writers. *)
EXTENDS JsonFile, TLC

CONSTANTS i1, i2, k1, k2, f1, f2, f3

MCIds     == {i1, i2}
MCWriters == {k1, k2}
MCFiles   == {f1, f2, f3}
Symmetric == Permutations(MCIds) \cup Permutations(MCWriters) \cup Permutations(MCFiles)
=============================================================================
