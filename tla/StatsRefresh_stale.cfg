SPECIFICATION StatsSpec
CONSTANTS
    Null = Null
    Status = {"open", "resolved"}
    Job = Job
    Report = {r1, r2}
    Txn = {t1, t2}
SYMMETRY Names
INVARIANT StatsConsistent
CHECK_DEADLOCK FALSE
