\* Liveness: a waiting blank is resolved and a locked idle screen goes dark.
CONSTANTS
    Handlers = {h1}
    BlankAfter = 1
    BlankAfterHeld = 1
    UnlockedAfter = Never
    Never = Never
    NoIdle = NoIdle
    MaxIdle = 1
    MaxNews = 1
    UnlockRaces = FALSE
    ExecutorFaults = FALSE
    WatcherFaults = FALSE
SPECIFICATION PanelFairSpec
PROPERTIES NoEndlessWait
CHECK_DEADLOCK FALSE
