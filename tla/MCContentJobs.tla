--------------------------- MODULE MCContentJobs ---------------------------
(* Small instances of ContentJobs: two requests, two files, one stale file. *)
EXTENDS ContentJobs

CONSTANTS r1, r2, f1, f2, x1

MCReqs   == {r1, r2}
MCFiles  == {f1, f2}
MCExtras == {x1}
AllKinds == {"install", "restore", "push"}
=============================================================================
