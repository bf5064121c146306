SPECIFICATION FairSpec
CONSTANTS
    r1 = r1
    r2 = r2
    r3 = r3
    NoReport = NoReport
    Report = {r1, r2, r3}
    High = {r1}
    Pages <- PagesOfList
    Queries <- Searches
    MaxClicks = 3
    MaxOthers = 1
INVARIANTS GroupsWereLinked
PROPERTIES LoadingEnds
CHECK_DEADLOCK FALSE
