\* The first near reading, against PROXIMITY_NEAR_DEBOUNCE.
CONSTANTS
    NearDebounce = 1
    FarDebounce = 0
    EvidenceTTL = 2
    MinDwell = 2
    BurstWindow = 2
    BurstCount = 3
    NoStamp = NoStamp
    MaxAge = 3
SPECIFICATION ProximitySpec
PROPERTIES NearIsDebounced
