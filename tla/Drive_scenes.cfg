\* Joins with lost answers; captures beside other fetches; stopped jobs; requests beside each other.
CONSTANTS
    t1 = t1
    t2 = t2
    c1 = c1
    c2 = c2
    x1 = x1
    None = None
    Threads <- MCThreads
    Fetchers <- MCFetchers
    Clients <- MCClients
    Scenes <- MCScenes
SPECIFICATION FairSpec
INVARIANTS ConnectsOnce
PROPERTIES StopsOwn CaptureTidy CaptureFresh JobEnds
CHECK_DEADLOCK FALSE
