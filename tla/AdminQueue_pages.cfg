SPECIFICATION FairSpec
CONSTANTS
    Report = {1, 2}
    Status = {"open", "closed"}
    PageSize = 1
    None = None
    MaxClicks = 3
    MaxOthers = 1
INVARIANTS EmptyIsAnswered ConfirmedIsShown
PROPERTY ListReturns
CHECK_DEADLOCK FALSE
