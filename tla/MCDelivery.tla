----------------------------- MODULE MCDelivery -----------------------------
\* The two daemons that tell others what they do (MCDelivery*.cfg): sessiond pushes
\* its trail to subscribers, the server a turn's events to whoever follows it.  They
\* share no state, so a behaviour is one of one of them.
EXTENDS EventFanOut, TurnDelivery

VARIABLE daemon

all == <<vars, fanVars, daemon>>

DeliveryInit == daemon \in {"sessiond", "server"} /\ FanInit /\ Init

InSessiond == daemon = "sessiond" /\ UNCHANGED <<vars, daemon>>
InServer   == daemon = "server" /\ UNCHANGED <<fanVars, daemon>>

DeliveryNext ==
    \/ InSessiond /\ FanNext
    \/ InServer /\ Next

\* The fairness of TurnDelivery; EventFanOut has none.
DeliverySpec ==
    /\ DeliveryInit /\ [][DeliveryNext]_all
    /\ WF_all(InServer /\ Return) /\ WF_all(InServer /\ Task)
    /\ \A t \in Turns : WF_all(InServer /\ ClientReads(t))
    /\ \A w \in Watchers : WF_all(InServer /\ Follow(w))

-----------------------------------------------------------------------------
(* Properties.                                                             *)

\* Whatever two pushing threads and a new subscriber do to the list in between, a
\* socket has one holder and hears new entries only, each once and in order
\* (EventFanOut).
DeliveryInv ==
    /\ FanTypeOK /\ HeldOnce /\ HeardInOrder /\ NoStaleBurst
    /\ TypeOK
=============================================================================
