---------------------------- MODULE SourceHealth ----------------------------
(***************************************************************************)
(* Evidence sources and what the device state machine knows of them        *)
(* (sessiond/device_state.rs, the sensor_input request of server.rs).      *)
(*                                                                         *)
(* A source reports, or goes silent and nobody says so.  On every tick the *)
(* machine first drops readings that are too old (expire_stale_evidence),  *)
(* then decides which sources are gone (evaluate_source_health).  Times    *)
(* are whole units; a clock that stops at MaxTime stands for any longer    *)
(* silence, because every comparison is with a smaller constant.           *)
(***************************************************************************)
EXTENDS Integers

CONSTANTS
    Sources,         \* evidence sources
    Flagged,         \* those whose reading is a flag (all but charge)
    Expected,        \* EXPECTED_SOURCES
    TTLs,            \* what set_policy may give policy.evidence_ttl
    DownAfter,       \* policy.source_down_after
    ExpectedWithin,  \* policy.source_expected_within
    MaxTime          \* bound: where silence and uptime stop counting

ASSUME HealthConstants ==
    /\ Flagged \subseteq Sources /\ Expected \subseteq Sources
    /\ TTLs \cup {DownAfter, ExpectedWithin, MaxTime} \subseteq Nat
    /\ \A t \in TTLs \cup {DownAfter, ExpectedWithin} : t < MaxTime

VARIABLES
    flag,     \* sensor_evidence: the flag believed, per source
    stamped,  \* evidence_seen: a last-seen stamp is held
    health,   \* source_health
    uptime,   \* since started_at
    silence,  \* since the source last reported, or since the start
    spoken,   \* sources that have reported since the start
    outages,  \* trail: opening entries with no closing one after them, capped at 3
    ttl,      \* policy.evidence_ttl
    reversed  \* a reading has been let live longer than its source (nothing reads it)

vars == <<flag, stamped, health, uptime, silence, spoken, outages, ttl, reversed>>

TypeOK ==
    /\ flag \in [Sources -> BOOLEAN]
    /\ stamped \subseteq Sources
    /\ health \in [Sources -> {"unknown", "live", "down", "absent"}]
    /\ uptime \in 0..MaxTime
    /\ silence \in [Sources -> 0..MaxTime]
    /\ spoken \subseteq Sources
    /\ outages \in [Sources -> 0..3]
    /\ ttl \in TTLs /\ reversed \in BOOLEAN

Gone == {"down", "absent"}

-----------------------------------------------------------------------------

Closes(s) == health[s] \in Gone

\* sensor_input: the reading is taken and the source stamped as fresh; a source
\* that was gone is recorded as back.
Report(s, value) ==
    /\ value => s \in Flagged
    /\ flag' = [flag EXCEPT ![s] = value]
    /\ stamped' = stamped \cup {s}
    /\ silence' = [silence EXCEPT ![s] = 0]
    /\ spoken' = spoken \cup {s}
    /\ health' = [health EXCEPT ![s] = "live"]
    /\ outages' = [outages EXCEPT ![s] = IF Closes(s) THEN 0 ELSE @]
    /\ UNCHANGED <<uptime, ttl, reversed>>

\* Readings older than their TTL whose flag is up: the flag falls and the stamp
\* goes with it.
Stale == {s \in Sources : flag[s] /\ (s \in stamped => silence[s] > ttl)}

\* Stamped sources silent for too long, told once.
DownEveryTick(kept) == {s \in kept : silence[s] > DownAfter}

NewlyDown(kept) ==
    {s \in kept : silence[s] > DownAfter /\ health[s] # "down"}

\* Expected sources without a stamp, once the machine is old enough.
AbsentUnlessHeard(kept) ==
    {s \in Expected \ kept : uptime > ExpectedWithin /\ health[s] = "unknown"}

NewlyAbsent(kept) ==
    {s \in Expected \ kept : uptime > ExpectedWithin /\ health[s] # "absent"}

Tick ==
    LET kept   == stamped \ Stale
        down   == NewlyDown(kept)
        absent == NewlyAbsent(kept)
    IN  /\ flag' = [s \in Sources |-> flag[s] /\ s \notin Stale]
        /\ stamped' = kept
        /\ health' = [s \in Sources |-> IF s \in down THEN "down"
                                        ELSE IF s \in absent THEN "absent"
                                        ELSE health[s]]
        /\ outages' = [s \in Sources |->
                         IF s \in down \cup absent /\ outages[s] < 3
                           THEN outages[s] + 1 ELSE outages[s]]
        /\ UNCHANGED <<uptime, silence, spoken, ttl, reversed>>

Later(t) == IF t < MaxTime THEN t + 1 ELSE t

TimePasses ==
    /\ uptime' = Later(uptime)
    /\ silence' = [s \in Sources |-> Later(silence[s])]
    /\ UNCHANGED <<flag, stamped, health, spoken, outages, ttl, reversed>>

\* set_policy gives readings another time to live; the other two times it leaves.
SetTTL(t) ==
    /\ ttl' = t
    /\ reversed' = (reversed \/ t > DownAfter)
    /\ UNCHANGED <<flag, stamped, health, uptime, silence, spoken, outages>>

-----------------------------------------------------------------------------

Init ==
    /\ flag = [s \in Sources |-> FALSE]
    /\ stamped = {}
    /\ health = [s \in Sources |-> "unknown"]
    /\ uptime = 0
    /\ silence = [s \in Sources |-> 0]
    /\ spoken = {}
    /\ outages = [s \in Sources |-> 0]
    /\ ttl \in TTLs /\ reversed = (ttl > DownAfter)

Next ==
    \/ \E s \in Sources, value \in BOOLEAN : Report(s, value)
    \/ Tick
    \/ TimePasses
    \/ \E t \in TTLs : SetTTL(t)

Spec == Init /\ [][Next]_vars

\* The clock thread ticks and time goes by; no source is obliged to report.
FairSpec == Spec /\ WF_vars(Tick) /\ WF_vars(TimePasses)

-----------------------------------------------------------------------------
(* Properties. *)

\* An outage is one pair of trail entries: it is opened once, by whichever of the two
\* rules sees it first, and closed by the report that ends it.  Only where readings
\* have been let live longer than their sources may one silence be told twice: as down
\* while its last reading is still believed, and as absent once that has expired too.
OutagesPaired ==
    \A s \in Sources :
        \/ health[s] \notin Gone /\ outages[s] = 0
        \/ health[s] \in Gone /\ outages[s] = 1
        \/ health[s] = "absent" /\ outages[s] = 2 /\ reversed

\* A source nobody expects is never an alarm unless it has spoken and then been
\* silent for longer than any quiet period it is allowed.
NoFalseAlarm ==
    \A s \in Sources : health[s] \in Gone =>
        \/ s \in Expected /\ uptime > ExpectedWithin
        \/ s \in spoken /\ silence[s] > DownAfter

\* A tick leaves no flag up that its source has not repeated within the time it has
\* to live at that moment.
StaleFlagsFall ==
    [][Tick => \A s \in Sources : flag'[s] => silence[s] <= ttl]_vars

\* An expected source that stays silent is always noticed in the end, as down
\* or as absent, whatever it reported last and however often set_policy changes how
\* long a reading lives.
SilenceNoticed ==
    \A s \in Expected :
        <>[](silence[s] = MaxTime) => <>[](health[s] \in Gone)

\* What the daemon says of its sources is right at any time: every outage is one pair
\* of entries, and none is told of a source that is merely quiet.
HealthInv == TypeOK /\ OutagesPaired /\ NoFalseAlarm
=============================================================================
