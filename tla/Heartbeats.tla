----------------------------- MODULE Heartbeats -----------------------------
(***************************************************************************)
(* Heartbeats: from a schedule to what the human is shown (the CronSensor  *)
(* in core/nervous/cron.rs, the HeartbeatHandler in handler.rs,            *)
(* inject_background_turn and send_with_signals in backend/local, append   *)
(* and take in core/nervous/pending.rs).                                   *)
(*                                                                         *)
(* The sensor fires what is due when no session is active; the handler     *)
(* starts a turn of its own for each event; what the turn surfaces is      *)
(* appended to a file that the next session reads and removes.             *)
(*                                                                         *)
(* Schedules repeat after an interval.  A beat is one turn, and surfaces   *)
(* one thing.  How long anything takes is left open.                       *)
(***************************************************************************)
EXTENDS Naturals, Sequences

CONSTANTS
    Schedules,  \* entries of one agent's schedules directory
    Interval,   \* time between two runs of one
    MaxNow,     \* bound: the clock
    MaxBeats,   \* bound: heartbeat turns
    MaxTalks,   \* bound: turns of sessions under way at once
    MaxPanics,  \* bound: turns that panic while the process runs
    MaxCrashes, \* bound: stops of the process
    BusCap      \* events the bus holds for a receiver that lags

ASSUME HeartbeatConstants ==
    /\ {MaxBeats, MaxTalks, MaxPanics, MaxCrashes} \subseteq Nat
    /\ {MaxNow, Interval, BusCap} \subseteq Nat \ {0}

VARIABLES
    now,          \* the time
    next,         \* next_run_at of each schedule, in the sensor's memory
    savedRuns,    \* .state.json: the same on disk, or nothing
    sensor,       \* down, waiting, going through what is due, or sending
    due,          \* the schedules it is going through
    sending,      \* the schedule it has advanced, with the slot it was due in
    bus,          \* events the handler has not received
    activeNow,    \* active_sessions
    talking,      \* turns of sessions under way
    uncounted,    \* turns that panicked and so were never counted off (nothing reads it)
    beats,        \* heartbeat turns under way, and those whose findings are not stashed
    begun,        \* heartbeat turns begun so far
    pendingFile,  \* pending-surfacings.jsonl: the beats it tells of
    torn,         \* its last line was cut short
    taking,       \* what a session that is taking the file has read, or not
    crashes,      \* stops so far
    slotsSent,    \* the slots sent for, with their schedules (nothing reads these three)
    slotsUnsaved, \* the slots whose advance was not saved
    findings      \* beats stashed, shown, and stashed where nobody will look

clockwork == <<now, next, savedRuns, sensor, due, sending>>
turnwork  == <<activeNow, talking, uncounted, beats, begun>>
stash     == <<pendingFile, torn, taking>>
beatVars  == <<clockwork, bus, turnwork, stash, crashes, slotsSent, slotsUnsaved, findings>>

NoRuns == [s \in Schedules |-> 0]
Slots  == Schedules \X (1 .. MaxNow + Interval)
Beats  == 1 .. MaxBeats

BeatTypeOK ==
    /\ now \in 1 .. MaxNow
    /\ next \in [Schedules -> 0 .. MaxNow + Interval]
    /\ savedRuns \in [Schedules -> 0 .. MaxNow + Interval]
    /\ sensor \in {"down", "waiting", "firing", "sending"}
    /\ due \subseteq Schedules
    /\ sending \subseteq Slots
    /\ (sensor = "sending") <=> (sending # {})
    /\ bus \in Seq(Schedules) /\ Len(bus) <= BusCap
    /\ activeNow \in 0 .. MaxBeats + MaxTalks + MaxPanics
    /\ talking \in 0 .. MaxTalks /\ uncounted \in 0 .. MaxPanics
    /\ beats \subseteq Beats \X {"turn", "drained"}
    /\ begun \in 0 .. MaxBeats
    /\ pendingFile \subseteq Beats /\ torn \in BOOLEAN
    /\ taking \in {{}} \cup {{s} : s \in SUBSET Beats}
    /\ crashes \in 0 .. MaxCrashes
    /\ slotsSent \subseteq Slots /\ slotsUnsaved \subseteq Slots
    /\ findings \in [stashed: SUBSET Beats, shown: SUBSET Beats, missed: SUBSET Beats]

-----------------------------------------------------------------------------
(* The sensor.                                                             *)

\* load_state, and rescan for what it does not know.  0 is no entry.
Start ==
    /\ sensor = "down"
    /\ next' = [s \in Schedules |->
                  IF savedRuns[s] = 0 THEN now + Interval ELSE savedRuns[s]]
    /\ sensor' = "waiting"
    /\ UNCHANGED <<now, savedRuns, due, sending, bus, turnwork, stash, crashes,
                   slotsSent, slotsUnsaved, findings>>

Idle == activeNow = 0

\* It wakes when something is due, and goes on only if no session is active.
Wake ==
    /\ sensor = "waiting" /\ Idle
    /\ due' = {s \in Schedules : next[s] <= now}
    /\ due' # {}
    /\ sensor' = "firing"
    /\ UNCHANGED <<now, next, savedRuns, sending, bus, turnwork, stash, crashes,
                   slotsSent, slotsUnsaved, findings>>

SavedFirst(before, after) == before

Saved(before, after) == after

\* advance and persist, before anyone is told.  A file that cannot be written leaves
\* the old one or half of one.
Advance(s) ==
    /\ sensor = "firing" /\ s \in due
    /\ next' = [next EXCEPT ![s] = now + Interval]
    /\ \/ savedRuns' = Saved(next, next') /\ UNCHANGED slotsUnsaved
       \/ /\ savedRuns' \in {savedRuns, NoRuns}
          /\ slotsUnsaved' = slotsUnsaved \cup {<<s, next[s]>>}
    /\ sensor' = "sending" /\ sending' = {<<s, next[s]>>}
    /\ due' = due \ {s}
    /\ UNCHANGED <<now, bus, turnwork, stash, crashes, slotsSent, findings>>

\* A receiver that lags loses the oldest.
Send ==
    /\ sensor = "sending"
    /\ \E slot \in sending :
          /\ bus' = Append(IF Len(bus) = BusCap THEN Tail(bus) ELSE bus, slot[1])
          /\ slotsSent' = slotsSent \cup {slot}
    /\ sending' = {}
    /\ sensor' = IF due = {} THEN "waiting" ELSE "firing"
    /\ UNCHANGED <<now, next, savedRuns, due, turnwork, stash, crashes, slotsUnsaved,
                   findings>>

-----------------------------------------------------------------------------
(* The turns.                                                              *)

\* The handler starts a turn and does not wait for it; that can fail.
Inject ==
    /\ bus # <<>> /\ begun < MaxBeats
    /\ bus' = Tail(bus)
    /\ \/ UNCHANGED turnwork
       \/ /\ begun' = begun + 1
          /\ beats' = beats \cup {<<begun + 1, "turn">>}
          /\ activeNow' = activeNow + 1
          /\ UNCHANGED <<talking, uncounted>>
    /\ UNCHANGED <<clockwork, stash, crashes, slotsSent, slotsUnsaved, findings>>

\* A turn is counted off at its end, whether or not it went well, but not when its task
\* panics on the way.
CountOff ==
    \/ activeNow' = activeNow - 1 /\ UNCHANGED uncounted
    \/ /\ uncounted < MaxPanics /\ uncounted' = uncounted + 1
       /\ UNCHANGED activeNow

\* Either way what the turn had to say has been drained.
BeatEnds(b) ==
    /\ <<b, "turn">> \in beats
    /\ CountOff
    /\ beats' = (beats \ {<<b, "turn">>}) \cup {<<b, "drained">>}
    /\ UNCHANGED <<clockwork, bus, talking, begun, stash, crashes, slotsSent,
                   slotsUnsaved, findings>>

Talk ==
    /\ talking < MaxTalks /\ talking' = talking + 1 /\ activeNow' = activeNow + 1
    /\ UNCHANGED <<clockwork, bus, uncounted, beats, begun, stash, crashes, slotsSent,
                   slotsUnsaved, findings>>

TalkEnds ==
    /\ talking > 0 /\ talking' = talking - 1
    /\ CountOff
    /\ UNCHANGED <<clockwork, bus, beats, begun, stash, crashes, slotsSent, slotsUnsaved,
                   findings>>

-----------------------------------------------------------------------------
(* The stash.                                                              *)

Overwritten(b) == IF torn THEN pendingFile ELSE {b}

\* A line begun behind one that was cut short is lost with it.
Appended(b) == IF torn THEN pendingFile ELSE pendingFile \cup {b}

\* append: the finding of a beat, or nothing when it fails or there is none.
Stash(b) ==
    /\ <<b, "drained">> \in beats
    /\ beats' = beats \ {<<b, "drained">>}
    /\ \/ /\ pendingFile' = Appended(b)
          /\ torn' = FALSE
          /\ findings' = [findings EXCEPT !.stashed = @ \cup {b},
                                  !.missed = IF torn \/ taking # {} THEN @ \cup {b} ELSE @]
       \/ UNCHANGED <<pendingFile, torn, findings>>
    /\ UNCHANGED <<clockwork, bus, activeNow, talking, uncounted, begun, taking, crashes,
                   slotsSent, slotsUnsaved>>

\* take, first part: a session that opens reads the file ...
TakeReads ==
    /\ taking = {} /\ (pendingFile # {} \/ torn)
    /\ taking' = {pendingFile}
    /\ UNCHANGED <<clockwork, bus, turnwork, pendingFile, torn, crashes, slotsSent,
                   slotsUnsaved, findings>>

\* ... and removes it, and shows what it has read.
TakeRemoves ==
    /\ taking # {}
    /\ pendingFile' = {} /\ torn' = FALSE
    /\ findings' = [findings EXCEPT !.shown = @ \cup UNION taking]
    /\ taking' = {}
    /\ UNCHANGED <<clockwork, bus, turnwork, crashes, slotsSent, slotsUnsaved>>

-----------------------------------------------------------------------------

TimeGoesOn ==
    /\ now < MaxNow /\ now' = now + 1
    /\ UNCHANGED <<next, savedRuns, sensor, due, sending, bus, turnwork, stash, crashes,
                   slotsSent, slotsUnsaved, findings>>

\* The process stops, perhaps in the middle of an append.
Crash ==
    /\ crashes < MaxCrashes /\ crashes' = crashes + 1
    /\ sensor' = "down" /\ due' = {} /\ sending' = {} /\ next' = NoRuns
    /\ bus' = <<>> /\ beats' = {} /\ taking' = {}
    /\ activeNow' = 0 /\ talking' = 0 /\ uncounted' = 0
    /\ torn' \in IF \E b \in Beats : <<b, "drained">> \in beats THEN BOOLEAN ELSE {torn}
    /\ torn => torn'
    /\ UNCHANGED <<now, savedRuns, begun, pendingFile, slotsSent, slotsUnsaved, findings>>

BeatInit ==
    /\ now = 1 /\ next = NoRuns /\ savedRuns = NoRuns
    /\ sensor = "down" /\ due = {} /\ sending = {}
    /\ bus = <<>> /\ activeNow = 0 /\ talking = 0 /\ uncounted = 0
    /\ beats = {} /\ begun = 0
    /\ pendingFile = {} /\ torn = FALSE /\ taking = {}
    /\ crashes = 0 /\ slotsSent = {} /\ slotsUnsaved = {}
    /\ findings = [stashed |-> {}, shown |-> {}, missed |-> {}]

SensorGoes == Start \/ Send \/ \E s \in Schedules : Advance(s)

BeatNext ==
    \/ SensorGoes \/ Wake \/ TimeGoesOn \/ Crash
    \/ Inject \/ Talk \/ TalkEnds \/ TakeReads \/ TakeRemoves
    \/ \E b \in Beats : BeatEnds(b) \/ Stash(b)

\* The sensor's task runs.  No turn need end, and the sensor may miss the moments
\* between two of them.
BeatSpec ==
    /\ BeatInit /\ [][BeatNext]_beatVars
    /\ WF_beatVars(SensorGoes) /\ WF_beatVars(Wake)

-----------------------------------------------------------------------------
(* Properties.                                                             *)

\* No slot of a schedule is fired twice, whenever the process is stopped and started,
\* unless its advance could not be saved.
SlotOnce ==
    [][\A slot \in sending :
         Send => slot \notin slotsSent \/ slot \in slotsUnsaved]_beatVars

\* What was stashed waits in the file or has been shown, but for what was appended
\* while a session was taking the file or behind a line that was cut short.
StashShown == findings.stashed \subseteq pendingFile \cup findings.shown \cup findings.missed

\* What the pulses leave for later sessions is neither lost nor made up.
BeatInv == BeatTypeOK /\ StashShown

\* A slot that is due is fired in the end, unless some session is active again by then:
\* the sensor neither sleeps through a slot nor drops it while it holds it back.
HeartbeatComes ==
    \A s \in Schedules :
        sensor # "down" /\ next[s] <= now ~> sensor = "down" \/ next[s] > now \/ ~Idle

\* Every slot of a running schedule is fired once, and while nobody talks it is fired.
SlotsServed == SlotOnce /\ HeartbeatComes
=============================================================================
