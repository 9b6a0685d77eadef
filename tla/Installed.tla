----------------------------- MODULE Installed -----------------------------
(***************************************************************************)
(* What the self update promises of the installed program: it is always    *)
(* one whole build, replaced by a release only after it was kept aside,    *)
(* put back only to the build that was kept, and lost only in the moment   *)
(* of a mishap - as long as no second update is begun beside a waiting one.*)
(***************************************************************************)
EXTENDS Naturals

CONSTANTS First, Releases, NoFile

VARIABLES
    cur,     \* the build a user would start, once the script under way is through
    kept,    \* the build kept aside
    mishaps, \* power cuts and failed file operations so far
    crossed  \* a second update was begun beside one that waits

Init == cur = First /\ kept = NoFile /\ mishaps = 0 /\ crossed = FALSE

Keep    == cur # NoFile /\ kept' = cur /\ UNCHANGED <<cur, mishaps>>
Replace == kept = cur /\ cur' \in Releases /\ UNCHANGED <<kept, mishaps>>
Restore == kept # NoFile /\ cur' = kept /\ UNCHANGED <<kept, mishaps>>
Mishap  == mishaps' = mishaps + 1 /\ cur' \in {cur, kept, NoFile} /\ UNCHANGED kept
Cross   == UNCHANGED <<cur, kept, mishaps>>

\* Two updates that crossed may leave anything behind.
Next ==
    \/ ~crossed /\ ~crossed' /\ (Keep \/ Replace \/ Restore \/ Mishap)
    \/ ~crossed /\ crossed' /\ Cross
    \/ crossed /\ crossed'

Spec == Init /\ [][Next]_<<cur, kept, mishaps, crossed>>
=============================================================================
