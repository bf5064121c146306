\* One visitor whose fetches overlap, with a quota of two per four ticks.
CONSTANTS
    r1 = r1
    r2 = r2
    Report = {r1, r2}
    Category = {"a", "b"}
    CatOf <- TwoCategories
    Key = {"visitor"}
    Visitor = "visitor"
    Burst = 2
    Period = 2
    MaxCalls = 2
    MaxMoves = 2
    MaxFaults = 1
SPECIFICATION FairSpec
INVARIANTS SlidingWindow EmptyMapIsAnswered
PROPERTY RetryRecovers
CHECK_DEADLOCK FALSE
