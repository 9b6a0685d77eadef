\* One joiner beside a push, a track that changes while it joins, and what goes wrong.
CONSTANTS
    j1 = j1
    j2 = j2
    None = None
    Files <- MCFiles
    Joiners <- MCJoiners
    Others <- MCOthers
    PackMin = 2
    Scenes <- MCScenes
SPECIFICATION FairSpec
INVARIANTS SigTruthful HonestEnd
PROPERTIES Converges
CHECK_DEADLOCK FALSE
