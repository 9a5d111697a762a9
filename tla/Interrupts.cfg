CONSTANTS
    t1 = t1
    t2 = t2
    t3 = t3
    t4 = t4
    Task = {t1, t2, t3, t4}
    Boot = Boot
    Garbage = Garbage
    Lines = {0, 1, 8}
    MaxTasks = 3
    Codes <- BothCodes
    Laps = 2
SPECIFICATION Spec
INVARIANTS
    TaskInv
    StuckOnlyIfIgnored
    EqualTurns
PROPERTIES
    EveryTaskRuns
    EveryLineServed
CHECK_DEADLOCK FALSE
