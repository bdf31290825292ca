CONSTANTS
    p1 = p1
    p2 = p2
    Runs = {p1, p2}
    N = 3
    Breakable = {2}
    Undoable = {1}
    Overlap = FALSE
    MaxFaults = 3
SPECIFICATION FairSpec
INVARIANT LedgerExact
PROPERTY Converges
