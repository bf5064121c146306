\* Four clicks in the portal, with one lost answer, limited sign-in or other session.
CONSTANTS
    n1 = n1
    n2 = n2
    p1 = p1
    p2 = p2
    None = None
    Name = {n1, n2}
    Password = {p1, p2}
    InitName = n1
    InitPassword = p1
    LockSeconds = 2
    MaxActions = 4
    MaxFaults = 1
SPECIFICATION PortalFairSpec
INVARIANTS SavedIsStored LogoutEnds AnalyticsOfOneFetch
PROPERTY PagesSettle
CHECK_DEADLOCK FALSE
