------------------------------ MODULE Summons ------------------------------
(***************************************************************************)
(* One being summons another (server/summon_handler.rs,                    *)
(* server/federation/bridge.rs, core/tools/agent.rs): the caller's request *)
(* and the peer's reply cross two buses and a link each way.  The caller's *)
(* inbox gets an answer, or after a minute a timeout.                      *)
(*                                                                         *)
(* An event is put before every reader of its side's bus: the listener     *)
(* and, while the link is up, the bridge.  Events a reader would pass over *)
(* are left out: a response on the side that sends it, a request on the    *)
(* bridge of the side that receives it, and summon_timeout.                *)
(***************************************************************************)
EXTENDS Naturals, SequencesExt

CONSTANTS
    Summoned,  \* request ids
    NoSummon,
    MaxFaults  \* bound: overflows of a bus, broken links, failed writes, restarts

ASSUME SummonConstants == NoSummon \notin Summoned /\ MaxFaults \in Nat

Sides == {"caller", "peer"}

VARIABLES
    asked,    \* summons dispatched
    ears,     \* of each side, what its listener has not read
    line,     \* of each side, what its bridge has not carried
    up,       \* of each side, whether its bridge is connected
    inFlight, \* in_flight, at the caller
    due,      \* those of them that are over a minute old
    landing,  \* the response being handled: found, not yet written
    expired,  \* prune_expired: those it found, and ...
    timing,   \* ... the one it took out and will write
    surfaced, \* response-{id}.md at the caller
    inbound,  \* inbound, at the peer: whom to answer
    begun,    \* requests in the peer's inbox
    outbox,   \* replies the peer's agent has written, not archived
    gone,     \* summons the caller forgot, by a fault of its own (nothing reads it)
    faults

summonVars == <<asked, ears, line, up, inFlight, due, landing, expired, timing, surfaced,
                inbound, begun, outbox, gone, faults>>

links  == <<ears, line, up>>
caller == <<inFlight, due, landing, expired, timing, surfaced>>
peer   == <<inbound, begun, outbox>>

Request(id)  == <<"request", id>>
Response(id) == <<"response", id>>
SummonEvents == {Request(id) : id \in Summoned} \cup {Response(id) : id \in Summoned}

SummonTypeOK ==
    /\ {asked, inFlight, due, expired, inbound, begun, outbox, gone}
         \subseteq SUBSET Summoned
    /\ {landing, timing} \subseteq Summoned \cup {NoSummon}
    /\ \A s \in Sides : ears[s] \in Seq(SummonEvents) /\ line[s] \in Seq(SummonEvents)
    /\ up \in [Sides -> BOOLEAN] /\ faults \in 0 .. MaxFaults
    /\ surfaced \in [Summoned -> {"none", "answer", "timeout"}]

-----------------------------------------------------------------------------
(* Buses and links. *)

Fault == faults < MaxFaults /\ faults' = faults + 1

\* What is put on the bus of side s reaches its bridge, if that is connected.
Sends(s, e) == line' = [line EXCEPT ![s] = IF up[s] THEN Append(@, e) ELSE @]

\* dispatch_summon; the caller's own listener reads it too.
Summon(id) ==
    /\ id \notin asked
    /\ asked' = asked \cup {id}
    /\ ears' = [ears EXCEPT !["caller"] = Append(@, Request(id))]
    /\ Sends("caller", Request(id))
    /\ UNCHANGED <<up, caller, peer, gone, faults>>

Other(s) == CHOOSE t \in Sides : t # s

\* peer_outbound_task.
Carry(s) ==
    /\ line[s] # <<>>
    /\ line' = [line EXCEPT ![s] = Tail(@)]
    /\ ears' = [ears EXCEPT ![Other(s)] = Append(@, Head(line[s]))]
    /\ UNCHANGED <<asked, up, caller, peer, gone, faults>>

\* A send fails, or the connection: what the bridge had not carried is gone with its
\* receiver, and it subscribes again once connected.
LinkBreaks(s) ==
    /\ up[s] /\ Fault
    /\ up' = [up EXCEPT ![s] = FALSE]
    /\ line' = [line EXCEPT ![s] = <<>>]
    /\ UNCHANGED <<asked, ears, caller, peer, gone>>

Reconnects(s) ==
    /\ ~up[s]
    /\ up' = [up EXCEPT ![s] = TRUE]
    /\ UNCHANGED <<asked, ears, line, caller, peer, gone, faults>>

\* The caller's listener never sees e.
Forgets(e) ==
    gone' = IF e[1] = "request" THEN gone \cup ({e[2]} \ inFlight) ELSE gone

\* A reader lags: the oldest event it has not read is dropped.
Lags(s) ==
    /\ Fault
    /\ \/ /\ line[s] # <<>>
          /\ line' = [line EXCEPT ![s] = Tail(@)] /\ UNCHANGED <<ears, gone>>
       \/ /\ ears[s] # <<>>
          /\ ears' = [ears EXCEPT ![s] = Tail(@)]
          /\ IF s = "caller" THEN Forgets(Head(ears[s])) ELSE UNCHANGED gone
          /\ UNCHANGED line
    /\ UNCHANGED <<asked, up, caller, peer>>

Hears(s, e) == ears[s] # <<>> /\ Head(ears[s]) = e /\ ears' = [ears EXCEPT ![s] = Tail(@)]

-----------------------------------------------------------------------------
(* The peer. *)

\* handle_event of a request: refused, unreadable, or put in the inbox with whom to
\* answer.
PeerHears(id) ==
    /\ Hears("peer", Request(id))
    /\ \/ Sends("peer", Response(id)) /\ UNCHANGED <<inbound, begun, faults>>
       \/ Fault /\ UNCHANGED <<inbound, begun, line>>
       \/ begun' = begun \cup {id} /\ inbound' = inbound \cup {id}
            /\ UNCHANGED <<line, faults>>
    /\ UNCHANGED <<asked, up, caller, outbox, gone>>

\* The agent answers, in its own time or never.
Replies(id) ==
    /\ id \in begun
    /\ begun' = begun \ {id} /\ outbox' = outbox \cup {id}
    /\ UNCHANGED <<asked, links, caller, inbound, gone, faults>>

StillAwaited(id) == inbound

Unanswered(id) == inbound \ {id}

\* scan_outbox: a reply somebody waits for is sent, once, and archived.
ScanOutbox(id) ==
    /\ id \in outbox \cap inbound
    /\ Sends("peer", Response(id))
    /\ inbound' = Unanswered(id)
    /\ \/ outbox' = outbox \ {id} /\ UNCHANGED faults
       \/ Fault /\ UNCHANGED outbox
    /\ UNCHANGED <<asked, ears, up, caller, begun, gone>>

-----------------------------------------------------------------------------
(* The caller. *)

\* register_outbound.
Register(id) ==
    /\ landing = NoSummon
    /\ Hears("caller", Request(id))
    /\ inFlight' = inFlight \cup {id}
    /\ UNCHANGED <<asked, line, up, due, landing, expired, timing, surfaced, peer, gone,
                   faults>>

\* handle_event of a response: it is found among those in flight, or ignored ...
Found(id) ==
    /\ landing = NoSummon
    /\ Hears("caller", Response(id))
    /\ landing' = IF id \in inFlight THEN id ELSE NoSummon
    /\ UNCHANGED <<asked, line, up, inFlight, due, expired, timing, surfaced, peer, gone,
                   faults>>

\* ... and taken out and written, whoever took it out meanwhile.
Lands ==
    /\ landing # NoSummon
    /\ inFlight' = inFlight \ {landing}
    /\ \/ surfaced' = [surfaced EXCEPT ![landing] = "answer"] /\ UNCHANGED <<gone, faults>>
       \/ Fault /\ gone' = gone \cup {landing} /\ UNCHANGED surfaced
    /\ landing' = NoSummon
    /\ UNCHANGED <<asked, links, due, expired, timing, peer>>

MinutePasses(id) ==
    /\ id \in asked \ due
    /\ due' = due \cup {id}
    /\ UNCHANGED <<asked, links, inFlight, landing, expired, timing, surfaced, peer, gone,
                   faults>>

WhileConnected == IF up["caller"] THEN inFlight \cap due ELSE {}

OverAMinute == inFlight \cap due

\* prune_expired: a list of those over a minute old ...
Prune ==
    /\ timing = NoSummon /\ expired = {} /\ OverAMinute # {}
    /\ expired' = OverAMinute
    /\ UNCHANGED <<asked, links, inFlight, due, landing, timing, surfaced, peer, gone,
                   faults>>

\* ... one after the other taken out, if it is still there, ...
PruneTakes(id) ==
    /\ timing = NoSummon /\ id \in expired
    /\ expired' = expired \ {id}
    /\ inFlight' = inFlight \ {id}
    /\ timing' = IF id \in inFlight THEN id ELSE NoSummon
    /\ UNCHANGED <<asked, links, due, landing, surfaced, peer, gone, faults>>

\* ... and written off.
PruneWrites ==
    /\ timing # NoSummon
    /\ \/ surfaced' = [surfaced EXCEPT ![timing] = "timeout"] /\ UNCHANGED <<gone, faults>>
       \/ Fault /\ gone' = gone \cup {timing} /\ UNCHANGED surfaced
    /\ timing' = NoSummon
    /\ UNCHANGED <<asked, links, inFlight, due, landing, expired, peer>>

\* A side restarts: nothing of this but the files is persisted.
Restarts(s) ==
    /\ Fault
    /\ ears' = [ears EXCEPT ![s] = <<>>] /\ line' = [line EXCEPT ![s] = <<>>]
    /\ up' = [up EXCEPT ![s] = FALSE]
    /\ \/ /\ s = "caller"
          /\ gone' = gone \cup {id \in asked : surfaced[id] = "none"}
          /\ inFlight' = {} /\ expired' = {} /\ landing' = NoSummon /\ timing' = NoSummon
          /\ UNCHANGED inbound
       \/ /\ s = "peer"
          /\ inbound' = {}
          /\ UNCHANGED <<gone, inFlight, expired, landing, timing>>
    /\ UNCHANGED <<asked, due, surfaced, begun, outbox>>

-----------------------------------------------------------------------------

SummonInit ==
    /\ asked = {} /\ inFlight = {} /\ due = {} /\ expired = {}
    /\ inbound = {} /\ begun = {} /\ outbox = {} /\ gone = {} /\ faults = 0
    /\ ears = [s \in Sides |-> <<>>] /\ line = ears /\ up = [s \in Sides |-> TRUE]
    /\ landing = NoSummon /\ timing = NoSummon
    /\ surfaced = [id \in Summoned |-> "none"]

\* The caller's two tasks.
Listens == Lands \/ \E id \in Summoned : Register(id) \/ Found(id)
Prunes  == Prune \/ PruneWrites \/ \E id \in Summoned : PruneTakes(id)

SummonNext ==
    \/ Listens \/ Prunes
    \/ \E id \in Summoned :
         Summon(id) \/ PeerHears(id) \/ Replies(id) \/ ScanOutbox(id) \/ MinutePasses(id)
    \/ \E s \in Sides : Carry(s) \/ LinkBreaks(s) \/ Reconnects(s) \/ Lags(s) \/ Restarts(s)

\* The caller's tasks run and time passes; links and the peer promise nothing.
SummonFairness ==
    /\ WF_summonVars(Listens) /\ WF_summonVars(Prunes)
    /\ \A id \in Summoned : WF_summonVars(MinutePasses(id))

SummonSpec == SummonInit /\ [][SummonNext]_summonVars /\ SummonFairness

-----------------------------------------------------------------------------
(* Properties. *)

\* Wherever it is by now, a summons the caller made is somewhere, or has its file:
\* prune and listener never both leave one alone.
NeverSilent ==
    \A id \in asked \ gone :
        \/ Request(id) \in Range(ears["caller"]) \/ id \in inFlight
        \/ id \in {landing, timing} \/ surfaced[id] # "none"

\* Replies to it on their way home.
InTransit(id) ==
    LET home == line["peer"] \o ears["caller"]
    IN  {i \in DOMAIN home : home[i] = Response(id)}

\* A reply is routed home once: by the time it is on its way nobody waits for another.
RoutedOnce ==
    \A id \in Summoned :
        /\ \A i, j \in InTransit(id) : i = j
        /\ InTransit(id) # {} => id \notin inbound

\* What the caller's inbox says of a summons is true: a timeout comes after a minute.
TimeoutsAreLate == \A id \in Summoned : surfaced[id] = "timeout" => id \in due

\* No summons is lost between the maps, answered twice or given up early.
SummonInv == SummonTypeOK /\ NeverSilent /\ RoutedOnce /\ TimeoutsAreLate

\* "Silence is information": whatever becomes of links and peer, an answer or a timeout
\* comes, unless the caller itself forgot that it asked.
SummonsSurface ==
    \A id \in Summoned : id \in asked ~> surfaced[id] # "none" \/ id \in gone
=============================================================================
