\* A shell's death is answered, under the daemon's own fairness.
CONSTANTS
    Conns = {c1, c2}
    Pids = {p1}
    Threads = {t1}
    NoOne = NoOne
    MaxGen = 2
    InitialLock = TRUE
    ChannelFaults = TRUE
    SessionFaults = TRUE
    SupersededSpeaks = TRUE
SPECIFICATION FairSpec
PROPERTIES DeadShellAnswered
CHECK_DEADLOCK FALSE
