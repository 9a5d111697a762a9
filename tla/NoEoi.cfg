CONSTANTS
    t1 = t1
    t2 = t2
    t3 = t3
    t4 = t4
    Task = {t1, t2}
    Boot = Boot
    Garbage = Garbage
    Lines = {0, 1, 8}
    MaxTasks = 2
    Codes <- TwiceOnly
    Laps = 2
SPECIFICATION Spec
INVARIANTS
    AllAcknowledged
