\* What one pass leaves on disk once its saves are done.
CONSTANTS
    Passes = {p0, p1, p2}
    Earlier = {p0}
    Threads = {c1, c2}
    Nothing = Nothing
    Torn = Torn
    MaxStops = 1
SPECIFICATION ThreadSpec
INVARIANTS SavedAtRest
CHECK_DEADLOCK FALSE
