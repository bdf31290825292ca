CONSTANTS
    Requests = {r1, r2, r3}
    Procs = {p1, p2}
    Restorer = p1
    Retention = 2
    LastStamp = 4
    MaxFaults = 2
SPECIFICATION LocksSpec
INVARIANTS BreachNeedsRaceOrExpiry ExclusiveUnlessDeath RestoreHonest
PROPERTIES CrashSafetyUnlessRaced LockRecovered
CONSTRAINT Followed
CHECK_DEADLOCK FALSE
