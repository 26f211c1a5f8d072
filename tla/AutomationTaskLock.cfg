SPECIFICATION MCSpec
CONSTANTS
    p1 = p1
    p2 = p2
    r1 = r1
    r2 = r2
    r3 = r3
    Processes = {p1, p2}
    Tasks = {"renewals"}
    Runs = {r1, r2, r3}
    NoOwner = NoOwner
    Lease = 2
    MaxTime = 3
INVARIANTS
    TypeOK
    LeaseExclusion
    RunningTasksExact
PROPERTIES
    ReleaseFenced
    AbstractLease
    TasksGoOn
CHECK_DEADLOCK FALSE
