---------------------------- MODULE MCKspkgTable ----------------------------
(* A small instance of KspkgTable: five paths, three ids - two paths that   *)
(* collide, two spellings of one path, and a bare directory.                *)
EXTENDS KspkgTable

CONSTANTS upper, lower, other, third, dir, none

MCNames    == {upper, lower, other, third, dir}
MCHash     == [n \in MCNames |->
    CASE n = upper -> 1 [] n = third -> 3 [] OTHER -> 2]
MCLower    == [n \in MCNames |-> IF n = upper THEN lower ELSE n]
MCUnparsed == {dir}
=============================================================================
