---------------------------- MODULE TurnFollowing ----------------------------
(***************************************************************************)
(* What a turn promises those who follow it: whenever one joins, it hears  *)
(* that turn from its first event, each event once, in order and without a *)
(* gap, and nothing of another turn; it is done when it has heard Done.    *)
(* One that cannot keep up is told that it is lost, and never skips.       *)
(***************************************************************************)
EXTENDS Naturals, Sequences

CONSTANTS Followers, Turns, Events, Done

VARIABLES
    log,   \* what each turn has published
    seat   \* of each follower: the turn, what it has heard, and how it stands

vars == <<log, seat>>

Seat(t, heard, state) == [turn |-> t, heard |-> heard, state |-> state]

Over(t) == log[t] # <<>> /\ log[t][Len(log[t])] = Done

Init ==
    /\ log = [t \in Turns |-> <<>>]
    /\ seat = [f \in Followers |-> Seat(0, <<>>, "off")]

Publish(t, e) ==
    /\ ~Over(t)
    /\ log' = [log EXCEPT ![t] = Append(@, e)]
    /\ UNCHANGED seat

Join(f, t) ==
    /\ seat[f].state # "following"
    /\ seat' = [seat EXCEPT ![f] = Seat(t, <<>>, "following")]
    /\ UNCHANGED log

Hear(f) ==
    LET s == seat[f]
        e == log[s.turn][Len(s.heard) + 1]
    IN  /\ s.state = "following" /\ Len(s.heard) < Len(log[s.turn])
        /\ seat' = [seat EXCEPT ![f] =
                      Seat(s.turn, Append(s.heard, e),
                           IF e = Done THEN "over" ELSE "following")]
        /\ UNCHANGED log

\* It is told that it fell behind, or goes away.
Stop(f, state) ==
    /\ seat[f].state = "following"
    /\ seat' = [seat EXCEPT ![f].state = state]
    /\ UNCHANGED log

Next ==
    \/ \E t \in Turns, e \in Events : Publish(t, e)
    \/ \E f \in Followers :
         \/ \E t \in Turns : Join(f, t)
         \/ Hear(f)
         \/ \E state \in {"lost", "gone"} : Stop(f, state)

Spec == Init /\ [][Next]_vars
=============================================================================
