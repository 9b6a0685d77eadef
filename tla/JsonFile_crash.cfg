\* Two writers that save at any time, killed at every step.
CONSTANTS
    i1 = i1
    i2 = i2
    k1 = k1
    k2 = k2
    f1 = f1
    f2 = f2
    f3 = f3
    Half = Half
    None = None
    Ids <- MCIds
    Writers <- MCWriters
    Files <- MCFiles
    MaxCrashes = 2
SPECIFICATION FileSpec
INVARIANTS NeverHalf
SYMMETRY Symmetric
