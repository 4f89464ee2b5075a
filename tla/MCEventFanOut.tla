---------------------------- MODULE MCEventFanOut ----------------------------
\* EventFanOut with two connections and the clock (MCEventFanOutAll.cfg).
EXTENDS EventFanOut, TLC

Symmetry == Permutations(Conns)
=============================================================================
