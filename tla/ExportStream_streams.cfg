\* Two exports that share one connection, of up to three rows each.
CONSTANTS
    Export = {e1, e2}
    Slots = 1
    PoolSize = 1
    MaxRows = 3
    None = None
SPECIFICATION FairSpec
INVARIANTS CutIsMarked PublicParses
PROPERTY EventuallyEnds
CHECK_DEADLOCK FALSE
