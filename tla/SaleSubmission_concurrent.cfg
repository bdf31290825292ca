CONSTANTS
    r1 = r1
    r2 = r2
    r3 = r3
    p = p
    d = d
    e = e
    e1 = e1
    e2 = e2
    Requests = {r1, r2, r3}
    SheetKeys = {k1}
    Payloads = {p, d, e}
    NoKey = NoKey
    Qty <- MCQty
    Bill <- PlainBills
    NoBill = NoBill
    Backdated = {p}
    FromDraft = {d}
    Stock = 2
    AllowNegative = FALSE
    Overlap = TRUE
    Faults = TRUE
    Editors = {e1, e2}
    ManualNumbers <- MCManual
    OldDocuments <- MCOldDocuments
    MaxDocs = 3
    MaxEdits = 3
SYMMETRY Symmetry
SPECIFICATION PostingSpec
PROPERTY ImplementsRegister
INVARIANT TwinsNeedOlderSale
INVARIANT ConflictsNeedOverlap
INVARIANT NumbersIdentify
CHECK_DEADLOCK FALSE
