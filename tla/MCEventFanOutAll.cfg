\* Every entry against every subscriber, when all is quiet.
CONSTANTS
    Conns = {c1, c2}
    None = None
    FirstSeq = 1
    MaxSeq = 3
SPECIFICATION FanSpec
SYMMETRY Symmetry
INVARIANTS AllHear
