\* A new id that replaces the old, with failures; all requests in turn; jobs beside removals.
CONSTANTS
    t1 = t1
    t2 = t2
    i1 = i1
    i2 = i2
    good = good
    bad = bad
    None = None
    Ids <- MCIds
    Versions <- MCVersions
    Good <- MCGood
    Threads <- MCThreads
    Installed = i1
    First = good
    Scenes <- MCScenes
SPECIFICATION FairSpec
INVARIANTS OldUntilNew JobsInstallChecked
PROPERTIES StopEnds
CHECK_DEADLOCK FALSE
