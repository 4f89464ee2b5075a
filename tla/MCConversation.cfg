\* Two messages, a note, two-piece answers and a peek after every round; long
\* conversations around a short window; two summons and one fault.
CONSTANTS
    Surfaces = {"server", "local"}
    Notes = {n1}
    MaxTurns = 2
    MaxAsides = 2
    Chunks = 2
    PeekEvery = 1
    Subconscious = TRUE
    PreserveRecent = 2
    MaxWalkBack = 2
    KeepRecent = 2
    MaxCalls = 3
    MaxMessages = 8
    Summoned = {s1, s2}
    NoSummon = NoSummon
    MaxFaults = 1
SPECIFICATION ConversationSpec
INVARIANTS TurnsApart AnswersInv NotesHeard MessagesInv SummonInv
PROPERTIES TurnsEnd PairsHold SummonsSurface
CHECK_DEADLOCK FALSE
