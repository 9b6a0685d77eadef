\* One item that changes, or two that two workers can build at once; manifests go on asking.
CONSTANTS
    i1 = i1
    i2 = i2
    v1 = v1
    v2 = v2
    a1 = a1
    a2 = a2
    t1 = t1
    t2 = t2
    None = None
    Torn = Torn
    Items <- MCItems
    Versions <- MCVersions
    Askers <- MCAskers
    Threads <- MCThreads
    Scenes <- MCScenes
SPECIFICATION PackFairSpec
INVARIANTS NoLostTask InfoNamesPackage
PROPERTIES Advertised
CONSTRAINT MCUpToMeeting
