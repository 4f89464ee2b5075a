--------------------------- MODULE AuthorityLease ---------------------------
(***************************************************************************)
(* What sessiond promises about the session-authority lease, and nothing   *)
(* of how: at most one connection holds it, it is never taken from a live  *)
(* holder by another process, and closing the holding connection -- and    *)
(* only that -- frees it.                                                  *)
(***************************************************************************)
CONSTANTS Conns, Pids, NoOne

VARIABLES
    open,       \* the connections whose handler is still running
    pid,        \* the process on the other end of each connection
    holder      \* the connection holding the lease, or NoOne

leaseVars == <<open, pid, holder>>

Init ==
    /\ open = {}
    /\ pid = [c \in Conns |-> NoOne]
    /\ holder = NoOne

Connect(c, p) ==
    /\ c \notin open
    /\ open' = open \cup {c}
    /\ pid' = [pid EXCEPT ![c] = p]
    /\ UNCHANGED holder

\* A free lease goes to whoever asks; a held one only to its own process.
Take(c) ==
    /\ c \in open
    /\ holder = NoOne \/ pid[holder] = pid[c]
    /\ holder' = c
    /\ UNCHANGED <<open, pid>>

Close(c) ==
    /\ c \in open
    /\ open' = open \ {c}
    /\ pid' = [pid EXCEPT ![c] = NoOne]
    /\ holder' = IF holder = c THEN NoOne ELSE holder

\* The daemon itself stops: every connection and the lease go with it.
Restart ==
    /\ open' = {}
    /\ pid' = [c \in Conns |-> NoOne]
    /\ holder' = NoOne

Next ==
    \/ \E c \in Conns : Take(c) \/ Close(c) \/ \E p \in Pids : Connect(c, p)
    \/ Restart

Spec == Init /\ [][Next]_leaseVars
=============================================================================
