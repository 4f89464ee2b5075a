---------------------------- MODULE PowerRequest ----------------------------
(***************************************************************************)
(* Power verbs (handle_power_request in sessiond/server.rs; request_power  *)
(* and power_request_finished in device_state.rs).                         *)
(*                                                                         *)
(* Handler threads each hold the mutex to be admitted and to finish, and   *)
(* in between, without it, ask logind and run the command.                 *)
(***************************************************************************)
EXTENDS Naturals, FiniteSets

CONSTANTS
    PowerCallers, \* connections whose handlers ask
    Verbs,        \* power off, reboot, suspend, hibernate
    NoVerb        \* nothing in flight

ASSUME PowerConstants == NoVerb \notin Verbs

VARIABLES
    powerLatch, \* power_requested
    asking,     \* per caller: where its request has got to, and for what
    answered    \* per caller: how its last request was answered

powerVars == <<powerLatch, asking, answered>>

At(step, verb) == [step |-> step, verb |-> verb]

Unasked == At("rest", NoVerb)

Answers == {"none", "accepted", "refused by state", "not permitted", "unavailable"}

PowerTypeOK ==
    /\ powerLatch \in Verbs \cup {NoVerb}
    /\ asking \in [PowerCallers ->
                     {Unasked} \cup [step: {"admitted", "commanding"}, verb: Verbs]]
    /\ answered \in [PowerCallers -> Answers]

Tell(c, answer) ==
    /\ asking' = [asking EXCEPT ![c] = Unasked]
    /\ answered' = [answered EXCEPT ![c] = answer]

Free == powerLatch = NoVerb

\* The latch is taken before anyone is asked.
Admit(c, verb) ==
    /\ asking[c] = Unasked
    /\ \/ /\ Free
          /\ powerLatch' = verb
          /\ asking' = [asking EXCEPT ![c] = At("admitted", verb)]
          /\ UNCHANGED answered
       \/ ~Free /\ Tell(c, "refused by state") /\ UNCHANGED powerLatch

LeftOnSuccess(verb, answer) ==
    IF powerLatch = verb /\ answer # "accepted" THEN NoVerb ELSE powerLatch

\* power_request_finished, on every way out.
Latch(verb, answer) == IF powerLatch = verb THEN NoVerb ELSE powerLatch

Finish(c, answer) ==
    /\ powerLatch' = Latch(asking[c].verb, answer)
    /\ Tell(c, answer)

\* logind's answer: yes or challenge, no, na, an inhibitor; or none can be had.
Capability(c) ==
    /\ asking[c].step = "admitted"
    /\ \/ /\ asking' = [asking EXCEPT ![c].step = "commanding"]
          /\ UNCHANGED <<powerLatch, answered>>
       \/ \E answer \in {"not permitted", "unavailable", "refused by state"} :
             Finish(c, answer)

\* systemctl returns: a zero exit is all that is known.
Execute(c) ==
    /\ asking[c].step = "commanding"
    /\ \E answer \in {"accepted", "unavailable"} : Finish(c, answer)

PowerInit ==
    /\ powerLatch = NoVerb
    /\ asking = [c \in PowerCallers |-> Unasked]
    /\ answered = [c \in PowerCallers |-> "none"]

PowerStep(c) == Capability(c) \/ Execute(c)

PowerNext ==
    \E c \in PowerCallers : PowerStep(c) \/ \E verb \in Verbs : Admit(c, verb)

PowerSpec == PowerInit /\ [][PowerNext]_powerVars

-----------------------------------------------------------------------------
(* Properties.                                                             *)

\* Two terminal commands are never asked for or run at once, and the latch is set
\* exactly as long as the request that took it is under way.
LatchOwned ==
    \/ powerLatch = NoVerb /\ \A c \in PowerCallers : asking[c] = Unasked
    \/ \E c \in PowerCallers :
         /\ asking[c].verb = powerLatch /\ powerLatch # NoVerb
         /\ \A d \in PowerCallers \ {c} : asking[d] = Unasked

\* One terminal command at a time, whichever way each of them ends.
PowerInv == PowerTypeOK /\ LatchOwned
=============================================================================
