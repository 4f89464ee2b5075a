\* One login each in two files, neither ever refreshed by anyone else.
CONSTANTS
    Files = 2
    Requests = {q1}
    NoRequest = NoRequest
    MaxAttempts = 2
    MaxIssued = 2
    MaxOther = 1
    NetFails = FALSE
SPECIFICATION LoginSpec
INVARIANTS RetryLoopReturns
CHECK_DEADLOCK FALSE
