SPECIFICATION SceneSpec
CONSTANTS
    r1 = r1
    r2 = r2
    r3 = r3
    None = None
    Report = {r1, r2, r3}
    Ip = {"a", "b"}
    Status = {"open", "resolved"}
    Place <- Row
    Near <- RowNear
    PassLimit = 3
    MaxFaults = 1
INVARIANTS NoDuplicateCycle HighCountedTwice CountCoversLinks
PROPERTIES DuplicateNotReparented EventuallyHandled
CHECK_DEADLOCK FALSE
