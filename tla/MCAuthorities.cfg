\* Two connections of two processes, two lock-session threads, session faults and two
\* registrations; the machine, one handler and the two watchers, with executor and
\* watcher faults.
CONSTANTS
    Conns = {c1, c2}
    Pids = {p1, p2}
    Threads = {t1, t2}
    NoOne = NoOne
    MaxGen = 2
    InitialLock = TRUE
    ChannelFaults = TRUE
    SessionFaults = TRUE
    SupersededSpeaks = TRUE
    Handlers = {h1}
    BlankAfter = 0
    BlankAfterHeld = 0
    UnlockedAfter = Never
    Never = Never
    NoIdle = NoIdle
    MaxIdle = 0
    MaxNews = 1
    UnlockRaces = TRUE
    ExecutorFaults = TRUE
    WatcherFaults = TRUE
SPECIFICATION AuthoritiesSpec
SYMMETRY Symmetric
VIEW Known
INVARIANTS LeaseOwned ControllerTrue DeadShellCovered PanelInv
PROPERTIES HandoffAfterRelease LeaseSpec DarkPressWakes
CHECK_DEADLOCK FALSE
