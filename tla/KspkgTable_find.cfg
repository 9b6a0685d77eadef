\* Every table of up to five records in five buckets, every path asked for.
CONSTANTS
    upper = upper
    lower = lower
    other = other
    third = third
    dir = dir
    none = none
    Buckets = 5
    Names <- MCNames
    Blank = none
    Hash <- MCHash
    Lower <- MCLower
    Unparsed <- MCUnparsed
SPECIFICATION FindSpec
INVARIANTS Correct
CHECK_DEADLOCK FALSE
