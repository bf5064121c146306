SPECIFICATION StatsSpec
CONSTANTS
    Null = Null
    Status = {"open"}
    Job = Job
    Report = {r1, r2, r3}
    Txn = {t1, t2}
SYMMETRY Names
INVARIANT DeadlockNeedsCount
PROPERTY AloneRefreshes
CHECK_DEADLOCK FALSE
