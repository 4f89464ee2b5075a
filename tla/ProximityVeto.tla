--------------------------- MODULE ProximityVeto ---------------------------
(***************************************************************************)
(* The proximity sensor, what the device state machine believes of it, the *)
(* Observed state it drives and the one wake it may refuse (placement,     *)
(* suppress_wake, debounce and dwell of sessiond/device_state.rs; the      *)
(* sensor_input and input requests of server.rs).                          *)
(*                                                                         *)
(* Ages count whole units and stop at MaxAge.  The sources' health and the *)
(* rules about the panel are in SourceHealth and PanelAuthority.           *)
(***************************************************************************)
EXTENDS Naturals, Sequences, FiniteSets

CONSTANTS
    NearDebounce, \* policy.proximity_near_debounce
    FarDebounce,  \* policy.proximity_far_debounce
    EvidenceTTL,  \* policy.evidence_ttl
    MinDwell,     \* OBSERVED_MIN_DWELL
    BurstWindow,  \* DOUBLE_TAP_BURST_WINDOW
    BurstCount,   \* DOUBLE_TAP_BURST_COUNT
    NoStamp,      \* no stamp
    MaxAge        \* bound: where ages stop counting

ASSUME ProximityConstants ==
    /\ {NearDebounce, FarDebounce, EvidenceTTL, MinDwell, BurstWindow} \subseteq 0..(MaxAge - 1)
    /\ MaxAge \in Nat \ {0}
    /\ BurstCount \in Nat \ {0}
    /\ NoStamp \notin Nat

VARIABLES
    state,    \* DeviceState: Active stands for every unlocked state
    near,     \* sensor_evidence.proximity_near, the believed reading
    raw,      \* proximity_raw
    since,    \* age of proximity_since
    seen,     \* age of evidence_seen.proximity
    dwell,    \* age of observed_since
    refusals, \* double_tap_refusals, as ages, oldest first
    covered,  \* the sensor itself
    heldNear, \* how long every reading reported has been near
    taps      \* double taps refused since one was let through, as ages

placed  == <<state, near, raw, since, seen, dwell>>
history == <<heldNear, taps>>
proximityVars == <<placed, refusals, covered, history>>

Ages == 0..MaxAge
Stamps == Ages \cup {NoStamp}

ProximityTypeOK ==
    /\ state \in {"active", "locked", "observed"}
    /\ near \in BOOLEAN /\ raw \in BOOLEAN /\ covered \in BOOLEAN
    /\ since \in Stamps /\ seen \in Stamps /\ dwell \in Stamps
    /\ heldNear \in Stamps
    /\ refusals \in Seq(Ages) /\ taps \in Seq(Ages)
    /\ state = "observed" <=> dwell # NoStamp  \* the stamp goes with the state

Age(stamp) == IF stamp = NoStamp THEN 0 ELSE stamp

-----------------------------------------------------------------------------
(* Belief. *)

\* debounce_proximity: the raw reading kept, its clock and the value believed.
Debounce(reading, believed) ==
    LET clock == IF reading # raw THEN 0 ELSE since
        bar   == IF reading THEN NearDebounce ELSE FarDebounce
        wins  == reading = believed \/ Age(clock) >= bar
    IN  [raw |-> reading, since |-> IF wins THEN NoStamp ELSE clock,
         near |-> IF wins THEN reading ELSE believed]

\* observed_dwell_elapsed.
DwellElapsed == dwell = NoStamp \/ dwell >= MinDwell

ReconsiderEdge(belief) ==
    IF state = "locked" /\ belief
      THEN state' = "observed" /\ dwell' = 0
    ELSE IF state = "observed" /\ near /\ ~belief /\ DwellElapsed
      THEN state' = "locked" /\ dwell' = NoStamp
    ELSE UNCHANGED <<state, dwell>>

\* Locked and near is Observed; a far reading ends it once the dwell is served.
\* Evaluated for every reading, a repeated one too.
Reconsider(belief) ==
    IF state = "locked" /\ belief
      THEN state' = "observed" /\ dwell' = 0
    ELSE IF state = "observed" /\ ~belief /\ DwellElapsed
      THEN state' = "locked" /\ dwell' = NoStamp
    ELSE UNCHANGED <<state, dwell>>

\* sensor_input of proximity: the handler writes the reading into the machine's
\* evidence first, then stamps the source and has the reading evaluated, which
\* compares it with the evidence just written.
SensorInput ==
    LET d == Debounce(covered, covered)
    IN  /\ raw' = d.raw
        /\ since' = d.since
        /\ near' = d.near
        /\ seen' = 0
        /\ Reconsider(d.near)
        /\ heldNear' = IF ~covered THEN NoStamp
                       ELSE IF heldNear = NoStamp THEN 0 ELSE heldNear
        /\ UNCHANGED <<refusals, covered, taps>>

\* sensor_input of any other source keeps the belief and has it evaluated.
OtherInput ==
    /\ Reconsider(near)
    /\ UNCHANGED <<near, raw, since, seen, refusals, covered, history>>

NothingIsStale == FALSE

IsStale == near /\ (seen = NoStamp \/ seen > EvidenceTTL)

\* A tick: a stale reading is dropped with its debounce; otherwise a reading
\* that has held for its threshold wins.
ProximityTick ==
    LET d == Debounce(raw, near)
    IN  /\ IF IsStale
             THEN /\ near' = FALSE /\ raw' = FALSE
                  /\ since' = NoStamp /\ seen' = NoStamp
                  /\ UNCHANGED <<state, dwell>>
           ELSE IF raw # near
             THEN /\ near' = d.near /\ since' = d.since
                  /\ IF d.near # near THEN Reconsider(d.near)
                                      ELSE UNCHANGED <<state, dwell>>
                  /\ UNCHANGED <<raw, seen>>
           ELSE UNCHANGED placed
        /\ UNCHANGED <<refusals, covered, heldNear, taps>>

\* set_session_locked: every locked state counts as locked.
SessionLocked(locked) ==
    /\ locked # (state # "active")
    /\ state' = IF locked THEN "locked" ELSE "active"
    /\ dwell' = NoStamp
    /\ UNCHANGED <<near, raw, since, seen, refusals, covered, history>>

\* set_tier(Locked): sessiond or the shell has taken the lock.
LockConfirmed ==
    /\ state # "locked"
    /\ state' = "locked"
    /\ dwell' = NoStamp
    /\ UNCHANGED <<near, raw, since, seen, refusals, covered, history>>

-----------------------------------------------------------------------------
(* The veto. *)

\* placement and suppress_wake: only a covered sensor is a pocket, and every
\* confidence it can earn (0.5, 0.6, 0.7) is above POCKET_VETO_CONFIDENCE.
SuppressWake == near

\* What is left of a queue once the front has been popped for as long as it is past
\* the limit.
Recent(ages, limit) ==
    LET stays == {i \in 1 .. Len(ages) + 1 : i \in DOMAIN ages => ages[i] <= limit}
        first == CHOOSE i \in stays : \A j \in stays : i <= j
    IN  SubSeq(ages, first, Len(ages))

BurstOneLater(queue) == Len(queue) > BurstCount

IsBurst(queue) == Len(queue) >= BurstCount

LetThrough == taps' = <<>>

\* note_input_gated of a double tap: refused while the sensor is believed
\* covered, unless it is the last of a burst.
DoubleTap ==
    LET queue == Append(Recent(refusals, BurstWindow), 0)
    IN  IF ~SuppressWake THEN LetThrough /\ UNCHANGED refusals
        ELSE IF IsBurst(queue) THEN LetThrough /\ refusals' = <<>>
        ELSE refusals' = queue /\ taps' = Append(taps, 0)

TapRequest ==
    /\ DoubleTap
    /\ UNCHANGED <<placed, covered, heldNear>>

-----------------------------------------------------------------------------

CoverChanges ==
    /\ covered' = ~covered
    /\ UNCHANGED <<placed, refusals, history>>

Older(stamp) == IF stamp = NoStamp \/ stamp = MaxAge THEN stamp ELSE stamp + 1

\* Refusals past the bound are forgotten: the window has long closed on them.
AllOlder(ages) ==
    LET young == Recent(ages, MaxAge - 1)
    IN  [i \in DOMAIN young |-> Older(young[i])]

ProximityAges ==
    /\ since' = Older(since)
    /\ seen' = Older(seen)
    /\ dwell' = Older(dwell)
    /\ heldNear' = Older(heldNear)
    /\ refusals' = AllOlder(refusals)
    /\ taps' = AllOlder(taps)
    /\ UNCHANGED <<state, near, raw, covered>>

ProximityInit ==
    /\ state = "active"
    /\ near = FALSE /\ raw = FALSE
    /\ covered \in BOOLEAN
    /\ since = NoStamp /\ seen = NoStamp /\ dwell = NoStamp /\ heldNear = NoStamp
    /\ refusals = <<>> /\ taps = <<>>

ProximityNext ==
    \/ SensorInput \/ OtherInput \/ ProximityTick
    \/ \E locked \in BOOLEAN : SessionLocked(locked)
    \/ LockConfirmed
    \/ TapRequest
    \/ CoverChanges
    \/ ProximityAges

ProximitySpec == ProximityInit /\ [][ProximityNext]_proximityVars

\* The clock ticks and time passes; the sensor need not report.
ProximityFairSpec ==
    ProximitySpec /\ WF_proximityVars(ProximityTick) /\ WF_proximityVars(ProximityAges)

-----------------------------------------------------------------------------
(* Properties. *)

\* A stay in Observed that the sensor ends has lasted its dwell, counted from
\* this entry and not from an earlier one, whatever locks, unlocks and stale
\* readings came in between.
ObservedDwells ==
    [][state = "observed" /\ state' = "locked" /\ (SensorInput \/ OtherInput \/ ProximityTick)
         => dwell # NoStamp /\ dwell >= MinDwell]_proximityVars

\* Somebody who keeps tapping is never refused more often than the burst allows
\* within one window, however covers, unlocks and expiries are interleaved.
InsistingWakes == Cardinality({i \in DOMAIN taps : taps[i] <= BurstWindow}) < BurstCount

\* A sensor that dies while covered does not veto the wake for ever.
DeadSensorReleases == <>[]SuppressWake => []<><<SensorInput>>_proximityVars

\* An uncovered sensor that keeps reporting ends Observed, although the reading
\* that uncovered it came too early and every later one only repeats it.
ObservedEnds ==
    <>[](state = "observed") /\ []<><<SensorInput>>_proximityVars => []<>covered

\* The observed state is left as often and as late as it has to be: not before its own
\* dwell is over, and in the end although the reading that uncovered came too early.
ObservedKept == ObservedDwells /\ ObservedEnds

\* However often the wake was vetoed, a person who insists gets through.
ProximityInv == ProximityTypeOK /\ InsistingWakes

\* PROXIMITY_NEAR_DEBOUNCE: how long proximity must read near "before the
\* machine believes it".  (Refuted: the handler has already written the reading
\* into the evidence that the debounce compares it with.)
NearIsDebounced ==
    [][~near /\ near' => heldNear' # NoStamp /\ heldNear' >= NearDebounce]_proximityVars
=============================================================================
