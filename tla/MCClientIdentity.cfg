CONSTANTS
    MaxClients = 3
    Opened = 2
    p = p
    q = q
    r = r
    Blank = Blank
    NoCode = NoCode
    c1 = c1
    c2 = c2
    c3 = c3
    Names = {p, q, r, Blank}
    Codes = {c1, c2, c3}
    MaxDocs = 1
SPECIFICATION ClientSpec
INVARIANT ClientsKeepHistory
INVARIANT ListAgrees
SYMMETRY Symmetric
CONSTRAINT Relevant
CHECK_DEADLOCK FALSE
