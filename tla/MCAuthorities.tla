--------------------------- MODULE MCAuthorities ---------------------------
\* The two authorities of sessiond, over the lock and over the panel
\* (MCAuthorities.cfg).  The modules share no state, so a behaviour is one of one of them.
EXTENDS SessionLock, PanelAuthority, TLC

VARIABLE over

authorities == <<vars, panelVars, over>>

AuthoritiesInit ==
    /\ over \in {"lock", "panel"} /\ Init /\ PanelInit
    /\ over = "lock" => ~hint

OverLock  == over = "lock" /\ UNCHANGED <<panelVars, over>>
OverPanel == over = "panel" /\ UNCHANGED <<vars, over>>

AuthoritiesNext ==
    \/ OverLock /\ Next
    \/ OverPanel /\ PanelNext

AuthoritiesSpec == AuthoritiesInit /\ [][AuthoritiesNext]_authorities

\* Of an answer to shell_ready only this is ever read again: whether it owes a lock.
Owes == {c \in Conns : reply[c] \in {"handoff", "reload_locked"}}

Known == <<daemonVars, conn, hb, pidOf, hung, Owes, threadVars, worldVars, answered,
           panelVars, over>>

Symmetric == Permutations(Conns) \cup Permutations(Pids) \cup Permutations(Threads)
=============================================================================
