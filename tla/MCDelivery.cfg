\* Two connections that may subscribe, and the clock; one surface that posts and one
\* that comes back, over channels of one and two.
CONSTANTS
    Conns = {c1, c2}
    None = None
    FirstSeq = 1
    MaxSeq = 3
    Watchers = {w1}
    MaxTurns = 2
    MaxEvents = 2
    EngineCap = 1
    ClientCap = 1
    LiveCap = 2
SPECIFICATION DeliverySpec
INVARIANTS DeliveryInv
PROPERTIES LabelsLive HearsItAll DeliveryEnds
CHECK_DEADLOCK FALSE
