--------------------------- MODULE MCProximityVeto ---------------------------
\* ProximityVeto with units in the order of the code's times
\* (MCProximityVetoDebounce.cfg).
EXTENDS ProximityVeto
=============================================================================
