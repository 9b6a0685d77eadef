\* Packs with failures; two packs at a time; all requests, one at a time.
CONSTANTS
    a1 = a1
    a2 = a2
    f1 = f1
    f2 = f2
    v1 = v1
    v2 = v2
    None = None
    Folders <- MCFolders
    Files <- MCFiles
    Versions <- MCVersions
    Actors <- MCActors
    Has <- MCHas
    Installed <- MCInstalled
    Scenes <- MCScenes
SPECIFICATION FairSpec
INVARIANTS NeverLost NoHalf
PROPERTIES Confirmed Installs
CHECK_DEADLOCK FALSE
