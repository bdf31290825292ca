SPECIFICATION OpsSpec
CONSTANTS
    Importers = {i1, i2}
    LastRow = 3
    Kind <- Rows
    Runners = {r1, r2}
    LastCommit = 2
    MaxWrites = 2
    Names = {"a", "b"}
    Stranger = "w"
    Blank = ""
    MaxId = 3
    Persons = 2
    Foreign <- OtherArchives
    MaxChanges = 3
    Selections <- OneOrAll
    MaxWipes = 2
INVARIANTS
    ImportsSettle BackupRestores RollbackUndoesLast
PROPERTIES
    EarlierWritesKept MergeHonest WipeSound
CONSTRAINT Followed
SYMMETRY Alike
CHECK_DEADLOCK FALSE
