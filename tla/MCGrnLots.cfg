CONSTANTS
    s1 = s1
    s2 = s2
    Lots <- MCLots
    Sales = {s1, s2, s3}
    Requests = {r1, r2}
    Quantities = {1, 2}
    Forms <- OneLine
    Legacy = {s3}
SPECIFICATION LotsSpec
INVARIANTS LockMatchesUse
PROPERTIES LockedLotsKeepStock FirstInFirstOut
SYMMETRY Symmetry
CONSTRAINT Followed
