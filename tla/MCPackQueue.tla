---------------------------- MODULE MCPackQueue ----------------------------
(* Small instances of PackQueue: one item that changes, with a failed build and a crash; or *)
(* two that stay as they are, which two workers can come to build.                          *)
EXTENDS PackQueue

CONSTANTS i1, i2, v1, v2, a1, a2, t1, t2

Scene(items, changes, faults, crashes) ==
    [items |-> items, changes |-> changes, faults |-> faults, crashes |-> crashes, met |-> FALSE]
OneItem  == Scene({i1}, 1, 1, 1)
TwoItems == Scene({i1, i2}, 0, 0, 0)

MCItems    == {i1, i2}
MCVersions == {v1, v2}
MCAskers   == {a1, a2}
MCThreads  == {t1, t2}
MCScenes   == {OneItem, TwoItems}

\* Two items that stay as they are have one version each, and are followed until two workers
\* build one of them.
MCUpToMeeting == OneItem.items = left.items \/ (~left.met /\ \A i \in MCItems : src[i] = v1)
=============================================================================
