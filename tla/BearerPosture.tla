---------------------------- MODULE BearerPosture ----------------------------
(***************************************************************************)
(* Which link carries the traffic (sessiond/bearer.rs; note_bearer and     *)
(* bearer_actions in device_state.rs; the clock, apply_link_preference and *)
(* pin_tunnel_underlay in server.rs).                                      *)
(*                                                                         *)
(* The clock thread probes the links now and then, and at every tick asks  *)
(* the machine, which prefers a link once it has been the better one for   *)
(* the whole settling window; the same thread then runs the commands.      *)
(*                                                                         *)
(* A link that is absent or down is unusable.  Where the phone is, and the *)
(* tunnel's deafness that is only told, decide nothing here.               *)
(***************************************************************************)
EXTENDS Naturals, Sequences

CONSTANTS
    Settle,       \* policy.bearer_settle, in ticks
    CommandsFail, \* nmcli and ip may fail
    NoLink        \* no link preferred

Links == {"wifi", "cellular"}

ASSUME BearerConstants ==
    /\ Settle \in Nat \ {0}
    /\ CommandsFail \in BOOLEAN
    /\ NoLink \notin Links

VARIABLES
    linkHealth, \* of each link, as last probed: 0 unusable, 1 associated, 2 carrying
    tunnel,     \* the tunnel is up, answered or deaf
    preferred,  \* bearer_applied: the link last decided on
    candidate,  \* bearer_candidate_since: a link and how long ago, if any
    metric,     \* the link NetworkManager was last told to prefer
    pinned,     \* the link the tunnel's endpoint was last pinned to
    wants       \* the better link at each of the last ticks (nothing reads it)

bearerVars == <<linkHealth, tunnel, preferred, candidate, metric, pinned, wants>>

Candidates == [link: Links, age: 1 .. Settle]

BearerTypeOK ==
    /\ linkHealth \in [Links -> 0 .. 2]
    /\ tunnel \in BOOLEAN
    /\ {preferred, metric, pinned} \subseteq Links \cup {NoLink}
    /\ candidate \subseteq Candidates
    /\ \A c, d \in candidate : c = d
    /\ wants \in Seq(Links \cup {NoLink}) /\ Len(wants) <= Settle + 1

\* preferred(): a usable link, the healthier one, wifi on equal health.
Better ==
    LET usable == {l \in Links : linkHealth[l] > 0} IN
    IF usable = {} THEN NoLink
    ELSE IF usable = Links THEN IF linkHealth["cellular"] > linkHealth["wifi"] THEN "cellular"
                                ELSE "wifi"
    ELSE CHOOSE l \in usable : TRUE

\* probe and note_bearer, on some of the ticks; a probe that finds several things
\* changed is several of these.
Probe ==
    /\ \/ \E l \in Links, h \in 0 .. 2 : linkHealth' = [linkHealth EXCEPT ![l] = h]
          /\ UNCHANGED tunnel
       \/ tunnel' = ~tunnel /\ UNCHANGED linkHealth
    /\ UNCHANGED <<preferred, candidate, metric, pinned, wants>>

ClockOfAny(want) == {c.age : c \in candidate}

NeverWaited(want) == {}

\* How long the candidate has been waiting: a changed one starts anew.
Waited(want) == {c.age : c \in {d \in candidate : d.link = want}}

Watched(want) ==
    LET w == Append(wants, want) IN IF Len(w) > Settle + 1 THEN Tail(w) ELSE w

\* The commands of a decision: the metric, and the tunnel's pin if there is a tunnel.
Prefer(want) ==
    /\ preferred' = want
    /\ metric' \in {want} \cup (IF CommandsFail THEN {metric} ELSE {})
    /\ pinned' \in IF tunnel THEN {want} \cup (IF CommandsFail THEN {pinned} ELSE {})
                   ELSE {pinned}

Stay == UNCHANGED <<preferred, metric, pinned>>

Settling(age) == age < Settle

\* bearer_actions, and the commands it asks for.  With nothing usable, or the preferred
\* link the better one, no clock runs.
BearerTick ==
    /\ wants' = Watched(Better)
    /\ UNCHANGED <<linkHealth, tunnel>>
    /\ \/ /\ Better \in {NoLink, preferred}
          /\ candidate' = {}
          /\ Stay
       \/ /\ Better \notin {NoLink, preferred}
          /\ Waited(Better) = {}
          /\ candidate' = {[link |-> Better, age |-> 1]}
          /\ Stay
       \/ \E age \in Waited(Better) :
             /\ Better \notin {NoLink, preferred}
             /\ IF Settling(age)
                THEN candidate' = {[link |-> Better, age |-> age + 1]} /\ Stay
                ELSE candidate' = {} /\ Prefer(Better)

BearerInit ==
    /\ linkHealth = [l \in Links |-> 0] /\ tunnel = FALSE
    /\ preferred = NoLink /\ metric = NoLink /\ pinned = NoLink
    /\ candidate = {} /\ wants = <<>>

BearerNext == Probe \/ BearerTick

\* The clock ticks for ever.
BearerSpec == BearerInit /\ [][BearerNext]_bearerVars /\ WF_bearerVars(BearerTick)

-----------------------------------------------------------------------------
(* Properties.                                                             *)

\* The network is only touched for a link that was the better one at every tick of a
\* whole settling window, whatever was probed before and in between.
SettledOnly ==
    [][metric' # metric \/ pinned' # pinned =>
         /\ Len(wants') = Settle + 1
         /\ \A i \in DOMAIN wants' : wants'[i] = preferred']_bearerVars

\* A link that stays the better one is decided on in the end, and stays decided on.
BearerFollows ==
    \A l \in Links : <>[](Better = l) => <>[](preferred = l)
=============================================================================
