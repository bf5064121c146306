SPECIFICATION FairSpec
CONSTANTS
    None = None
    Proxied = FALSE
    Start = {"assigned"}
    MaxClicks = 2
    MaxPicks = 2
    MaxOthers = 1
INVARIANTS
    PreviewIsLive
    TimelineReachesStatus
    QuietIsCurrent
PROPERTY
    CallsReturn
CHECK_DEADLOCK FALSE
