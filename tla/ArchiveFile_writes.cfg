\* Register, damage and penalty writes, one failed operation or crash at any step; the
\* third write may find the volume full.
CONSTANTS
    p1 = p1
    p2 = p2
    NoProc = NoProc
    Procs <- MCProcs
    NEntries = 3
    Bucket = 2
    Slots = 3
    BlobCells = 1
    Cap = 14
    InplaceWrites <- RegisterAndDamage
    PatchWrites <- Penalties
    MaxCalls = 3
    MaxFaults = 1
SPECIFICATION Spec
INVARIANTS DataKept QuietServes Recoverable
SYMMETRY Symmetric
CHECK_DEADLOCK FALSE
