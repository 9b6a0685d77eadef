\* Two requests at any time, each a handler and then its job.
CONSTANTS
    r1 = r1
    r2 = r2
    f1 = f1
    f2 = f2
    x1 = x1
    Reqs <- MCReqs
    Files <- MCFiles
    Extras <- MCExtras
    Kinds <- AllKinds
    MaxFaults = 2
SPECIFICATION PatientSpec
INVARIANTS NoDeleteAfterFailure
PROPERTIES HonestEnd Converges
CHECK_DEADLOCK FALSE
