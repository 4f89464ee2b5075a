\* An expected flag, an expected reading without one and an unexpected flag, under readings
\* that live less long than their sources, or longer; a sensor with its units in the order
\* of the code's times; two durations; two levels, with captures and commands that may
\* fail; a trail rotated more often than files are kept; a window of two ticks; two callers;
\* one pass at a time at boxes that refuse, whose thoughts are noticed again and again; two
\* schedules on a bus that overflows, two turns of sessions, one that panics, and a stop.
CONSTANTS
    Sources = {proximity, charge, touch}
    Flagged = {proximity, touch}
    Expected = {proximity, charge}
    TTLs = {1, 3}
    DownAfter = 2
    ExpectedWithin = 3
    MaxTime = 4
    NearDebounce = 1
    FarDebounce = 0
    EvidenceTTL = 2
    MinDwell = 2
    BurstWindow = 2
    BurstCount = 3
    NoStamp = NoStamp
    MaxAge = 3
    Seconds = {1, 2}
    Waits = {1}
    MaxNamed = 2
    Never = Never
    Keep = Keep
    NoFile = NoFile
    DefaultBlank = 2
    DefaultHeld = 2
    DefaultGrace = 1
    DefaultAck = 1
    DefaultSettle = 1
    FileFaults = TRUE
    Handlers = {h1}
    UserLevels = {2, 4}
    DimLevel = 1
    Floor = 3
    FloorLevel = 5
    ReadFails = TRUE
    PanelFails = TRUE
    SetFails = TRUE
    Inboxers = {p1}
    Thoughts = {t1, t2}
    Beat = Beat
    MaxAtOnce = 2
    BoxLimit = 2
    LedgerMax = 1
    MaxHalts = 1
    WritesFail = TRUE
    MaxEntries = 4
    MaxTrailStops = 2
    MaxLines = 2
    KeptFiles = 1
    Settle = 2
    CommandsFail = TRUE
    NoLink = NoLink
    PowerCallers = {k1, k2}
    Verbs = {poweroff, suspend}
    NoVerb = NoVerb
    Schedules = {e1, e2}
    Interval = 1
    MaxNow = 2
    MaxBeats = 2
    MaxTalks = 2
    MaxPanics = 1
    MaxCrashes = 1
    BusCap = 1
SPECIFICATION PartsSpec
INVARIANTS
    HealthInv ProximityInv PolicyInv DimInv TrailInv PowerInv InboxInv BeatInv
PROPERTIES
    SilenceNoticed ObservedKept DeadSensorReleases
    RestartKeeps
    SettledOnly BearerFollows
    UrgentServed
    SlotsServed
CHECK_DEADLOCK FALSE
