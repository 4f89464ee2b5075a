\* Two passes that may overlap, a third in the process before and one stop; two files and
\* two completions with two attempts each, under a network that fails; two items, two
\* secrets and two calls at the service, one write that fails, and any number of restarts.
\* A login is followed until a granted pair is lost on its way.
CONSTANTS
    Passes = {p0, p1, p2}
    Earlier = {p0}
    Threads = {c1, c2}
    Nothing = Nothing
    Torn = Torn
    MaxStops = 1
    Files = 2
    Requests = {q1, q2}
    NoRequest = NoRequest
    MaxAttempts = 2
    MaxIssued = 3
    MaxOther = 1
    NetFails = TRUE
    Ids = {i1, i2}
    Secrets = {s1, s2}
    Attributes = {NoAttributes}
    NoAttributes = NoAttributes
    Callers = {q1, q2}
    Absent = Absent
    Unsure = Unsure
    NoStore = NoStore
    Blank = Blank
    MaxKeys = 2
    MaxFails = 1
SPECIFICATION RecordsSpec
SYMMETRY Either
CONSTRAINT Followed
INVARIANTS ThreadInv LoginInv SecretInv
CHECK_DEADLOCK FALSE
