\* Two updates and a failed operation or a power cut, two requests.
CONSTANTS
    v0 = v0
    v1 = v1
    v2 = v2
    s1 = s1
    s2 = s2
    k1 = k1
    k2 = k2
    NoFile = NoFile
    Torn = Torn
    None = None
    First = v0
    Releases <- MCReleases
    Broken <- MCBroken
    Pids <- MCPids
    Scripts <- MCScripts
    Askers <- MCAskers
    MaxApplies = 2
    MaxMishaps = 1
SPECIFICATION FairSpec
INVARIANTS OneSwap StartsAgain
CONSTRAINT MCUpToRace
PROPERTIES RollbackRight KeepsLive Implements ComesBack
CHECK_DEADLOCK FALSE
