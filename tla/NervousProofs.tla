--------------------------- MODULE NervousProofs ----------------------------
(*****************************************************************************)
(* Theorems about the nervous system, for any schedules, intervals, thoughts, *)
(* limits and passes: the heartbeats of the scheduler, and the boxes in which *)
(* the subconscious keeps its thoughts.                                      *)
(*****************************************************************************)
EXTENDS Heartbeats, SubconsciousInbox, FiniteSetTheorems, SequenceTheorems, TLAPS

-----------------------------------------------------------------------------
(*****************************************************************************)
(* Heartbeats.                                                               *)
(*                                                                           *)
(* A slot is sent once unless its advance was not saved: what was sent is behind *)
(* its schedule, in memory and on disk, but for the slots whose save failed  *)
(* (Behind).  A finding that is taken out of the file has been shown or counted *)
(* as missed, because whoever is about to remove the file has read all that is *)
(* in it but for what came since (TakenInv).                                 *)
(*****************************************************************************)

(* The inductive invariant. *)

\* The beats whose turn has not ended.
InTurn == {b \in Beats : <<b, "turn">> \in beats}

\* The sessions that are counted are the turns under way and those that panicked.
CountedOff ==
    /\ activeNow = Cardinality(InTurn) + talking + uncounted
    /\ \A b \in Beats : \A what : <<b, what>> \in beats => b <= begun

\* What is due is due, and a schedule that is known runs at some time.
DueInv ==
    /\ sensor # "down" => \A s \in Schedules : next[s] >= 1
    /\ sensor \in {"down", "waiting"} => due = {}
    /\ \A s \in due : next[s] <= now

\* A slot that was fired, or is about to be, is behind its schedule, in memory and on disk;
\* but for the ones whose advance was not saved.
Behind ==
    \A s \in Schedules, n \in 1 .. MaxNow + Interval :
        <<s, n>> \in slotsSent \cup sending =>
            /\ n <= now
            /\ <<s, n>> \notin slotsUnsaved =>
                 /\ savedRuns[s] = 0 \/ savedRuns[s] > n
                 /\ sensor # "down" => next[s] > n

OnceInv == \A slot \in sending : slot \notin slotsSent \/ slot \in slotsUnsaved

\* What a session has read of the file it is about to show.
TakenInv ==
    \A read \in taking : findings.stashed \subseteq read \cup findings.shown \cup findings.missed

PulseInv ==
    /\ BeatTypeOK /\ CountedOff /\ DueInv /\ Behind /\ OnceInv /\ TakenInv /\ StashShown

-----------------------------------------------------------------------------

\* The bounds are numbers.
LEMMA Bounds ==
    /\ MaxNow \in Nat \ {0} /\ MaxBeats \in Nat /\ MaxCrashes \in Nat
    /\ MaxTalks \in Nat /\ MaxPanics \in Nat
    /\ Interval \in Nat \ {0} /\ BusCap \in Nat \ {0}
  BY HeartbeatConstants

\* There are as many beats as the bound allows.
LEMMA BeatsFinite == IsFiniteSet(Beats) /\ Cardinality(Beats) = MaxBeats
<1>1. IsFiniteSet(1 .. MaxBeats) BY FS_Interval, Bounds
<1>2. Cardinality(1 .. MaxBeats) = IF 1 > MaxBeats THEN 0 ELSE MaxBeats - 1 + 1
  BY FS_Interval, Bounds
<1> QED BY <1>1, <1>2, Bounds DEF Beats

\* Beats are finitely many, and no more than the bound.
LEMMA SomeBeats ==
  ASSUME NEW B \in SUBSET Beats
  PROVE  IsFiniteSet(B) /\ Cardinality(B) \in 0 .. MaxBeats
<1>1. IsFiniteSet(B) /\ Cardinality(B) <= Cardinality(Beats) BY BeatsFinite, FS_Subset
<1>2. Cardinality(B) \in Nat BY <1>1, FS_CardinalityType
<1> QED BY <1>1, <1>2, BeatsFinite, Bounds

\* A slot is a schedule and a time.
LEMMA Slot ==
  ASSUME NEW s \in Schedules, NEW n \in 1 .. MaxNow + Interval
  PROVE  <<s, n>> \in Slots
  BY DEF Slots

\* It holds at the beginning.
LEMMA InitHolds == BeatInit => PulseInv
<1> SUFFICES ASSUME BeatInit PROVE PulseInv OBVIOUS
<1>1. InTurn = {} BY DEF BeatInit, InTurn
<1>2. Cardinality(InTurn) = 0 BY <1>1, FS_EmptySet
<1>3. BeatTypeOK
  <2>1. NoRuns \in [Schedules -> 0 .. MaxNow + Interval] BY Bounds DEF NoRuns
  <2>2. now \in 1 .. MaxNow BY Bounds DEF BeatInit
  <2>3. /\ 0 \in 0 .. MaxBeats + MaxTalks + MaxPanics /\ 0 \in 0 .. MaxTalks
        /\ 0 \in 0 .. MaxPanics /\ 0 \in 0 .. MaxBeats /\ 0 \in 0 .. MaxCrashes
    BY Bounds
  <2>4. <<>> \in Seq(Schedules) /\ Len(<<>>) <= BusCap BY Bounds
  <2> QED BY <2>1, <2>2, <2>3, <2>4 DEF BeatInit, BeatTypeOK
<1> QED BY <1>2, <1>3 DEF BeatInit, PulseInv, CountedOff, DueInv, Behind, OnceInv, TakenInv,
                         StashShown

-----------------------------------------------------------------------------
(* What a step leaves alone. *)

\* The sensor.
LEMMA SensorStays ==
  ASSUME DueInv, Behind, OnceInv, now' = now, next' = next, savedRuns' = savedRuns,
         sensor' = sensor, due' = due, sending' = sending, slotsSent' = slotsSent,
         slotsUnsaved' = slotsUnsaved
  PROVE  DueInv' /\ Behind' /\ OnceInv'
  BY DEF DueInv, Behind, OnceInv

\* The turns.
LEMMA TurnsStay ==
  ASSUME CountedOff, activeNow' = activeNow, talking' = talking, uncounted' = uncounted,
         beats' = beats, begun' = begun
  PROVE  CountedOff'
  BY DEF CountedOff, InTurn

\* The stash.
LEMMA StashStays ==
  ASSUME TakenInv, StashShown, pendingFile' = pendingFile, taking' = taking, findings' = findings
  PROVE  TakenInv' /\ StashShown'
  BY DEF TakenInv, StashShown

-----------------------------------------------------------------------------
(* The sensor. *)

\* A sensor that starts has its times from the file.
LEMMA StartKeeps == ASSUME PulseInv, Start PROVE PulseInv'
<1> USE DEF PulseInv
<1>1. /\ sensor = "down" /\ sensor' = "waiting" /\ now' = now /\ savedRuns' = savedRuns
      /\ due' = due /\ sending' = sending /\ bus' = bus /\ crashes' = crashes
      /\ slotsSent' = slotsSent /\ slotsUnsaved' = slotsUnsaved /\ findings' = findings
      /\ activeNow' = activeNow /\ talking' = talking /\ uncounted' = uncounted
      /\ beats' = beats /\ begun' = begun
      /\ pendingFile' = pendingFile /\ torn' = torn /\ taking' = taking
  BY DEF Start, turnwork, stash
<1>2. now \in 1 .. MaxNow /\ savedRuns \in [Schedules -> 0 .. MaxNow + Interval]
      /\ sending = {} /\ due = {}
  BY <1>1 DEF BeatTypeOK, DueInv
<1>3. /\ \A s \in Schedules : next'[s] = IF savedRuns[s] = 0 THEN now + Interval ELSE savedRuns[s]
      /\ next' \in [Schedules -> 0 .. MaxNow + Interval]
  <2>1. now + Interval \in 0 .. MaxNow + Interval BY <1>2, Bounds
  <2> QED BY <1>2, <2>1 DEF Start
<1>4. \A s \in Schedules : next'[s] >= 1 BY <1>2, <1>3, Bounds
<1>5. BeatTypeOK' BY <1>1, <1>2, <1>3 DEF BeatTypeOK
<1>6. CountedOff' BY <1>1, TurnsStay
<1>7. DueInv' BY <1>1, <1>2, <1>4 DEF DueInv
<1>8. Behind'
  <2> SUFFICES ASSUME NEW s \in Schedules, NEW n \in 1 .. MaxNow + Interval,
                      <<s, n>> \in slotsSent
               PROVE  /\ n <= now
                      /\ <<s, n>> \notin slotsUnsaved =>
                           /\ savedRuns[s] = 0 \/ savedRuns[s] > n
                           /\ next'[s] > n
    BY <1>1, <1>2 DEF Behind
  <2>1. /\ n <= now
        /\ <<s, n>> \notin slotsUnsaved => savedRuns[s] = 0 \/ savedRuns[s] > n
    BY DEF Behind
  <2>2. now + Interval > n BY <1>2, <2>1, Bounds
  <2> QED BY <1>3, <2>1, <2>2
<1>9. OnceInv' BY <1>1, <1>2 DEF OnceInv
<1>10. TakenInv' /\ StashShown' BY <1>1, StashStays
<1> QED BY <1>5, <1>6, <1>7, <1>8, <1>9, <1>10

\* The sensor wakes for what is due.
LEMMA WakeKeeps == ASSUME PulseInv, Wake PROVE PulseInv'
<1> USE DEF PulseInv
<1>1. /\ sensor = "waiting" /\ sensor' = "firing" /\ now' = now /\ savedRuns' = savedRuns
      /\ due' = {s \in Schedules : next[s] <= now} /\ next' = next
      /\ sending' = sending /\ bus' = bus /\ crashes' = crashes
      /\ slotsSent' = slotsSent /\ slotsUnsaved' = slotsUnsaved /\ findings' = findings
      /\ activeNow' = activeNow /\ talking' = talking /\ uncounted' = uncounted
      /\ beats' = beats /\ begun' = begun
      /\ pendingFile' = pendingFile /\ torn' = torn /\ taking' = taking
  BY DEF Wake, turnwork, stash
<1>2. BeatTypeOK' BY <1>1 DEF BeatTypeOK
<1>3. CountedOff' BY <1>1, TurnsStay
<1>4. DueInv' BY <1>1 DEF DueInv
<1>5. Behind' BY <1>1 DEF Behind
<1>6. OnceInv' BY <1>1 DEF OnceInv
<1>7. TakenInv' /\ StashShown' BY <1>1, StashStays
<1> QED BY <1>2, <1>3, <1>4, <1>5, <1>6, <1>7

\* A schedule is advanced past the slot before the slot is sent.
LEMMA AdvanceKeeps == ASSUME PulseInv, NEW s \in Schedules, Advance(s) PROVE PulseInv'
<1> USE DEF PulseInv
<1>1. /\ sensor = "firing" /\ sensor' = "sending" /\ s \in due /\ now' = now
      /\ due' = due \ {s} /\ next' = [next EXCEPT ![s] = now + Interval]
      /\ sending' = {<<s, next[s]>>}
      /\ \/ savedRuns' = next' /\ slotsUnsaved' = slotsUnsaved
         \/ /\ savedRuns' \in {savedRuns, NoRuns}
            /\ slotsUnsaved' = slotsUnsaved \cup {<<s, next[s]>>}
      /\ bus' = bus /\ crashes' = crashes
      /\ slotsSent' = slotsSent /\ findings' = findings
      /\ activeNow' = activeNow /\ talking' = talking /\ uncounted' = uncounted
      /\ beats' = beats /\ begun' = begun
      /\ pendingFile' = pendingFile /\ torn' = torn /\ taking' = taking
  BY DEF Advance, Saved, turnwork, stash
<1>2. /\ now \in 1 .. MaxNow /\ next \in [Schedules -> 0 .. MaxNow + Interval]
      /\ savedRuns \in [Schedules -> 0 .. MaxNow + Interval]
      /\ \A t \in Schedules : next[t] >= 1
      /\ next[s] <= now
  BY <1>1 DEF BeatTypeOK, DueInv
<1>3. now + Interval \in 0 .. MaxNow + Interval /\ now + Interval >= 1 BY <1>2, Bounds
<1>4. /\ next' \in [Schedules -> 0 .. MaxNow + Interval] /\ next'[s] = now + Interval
      /\ \A t \in Schedules \ {s} : next'[t] = next[t]
  BY <1>1, <1>2, <1>3
<1>5. PICK n \in 1 .. MaxNow + Interval : n = next[s] BY <1>2
<1>6. BeatTypeOK'
  <2>1. <<s, n>> \in Slots BY Slot
  <2>2. NoRuns \in [Schedules -> 0 .. MaxNow + Interval] BY Bounds DEF NoRuns
  <2>3. savedRuns' \in [Schedules -> 0 .. MaxNow + Interval] BY <1>1, <1>2, <1>4, <2>2
  <2>4. slotsUnsaved' \subseteq Slots /\ sending' \subseteq Slots /\ sending' # {}
    BY <1>1, <1>5, <2>1 DEF BeatTypeOK
  <2> QED BY <1>1, <1>4, <2>3, <2>4 DEF BeatTypeOK
<1>7. CountedOff' BY <1>1, TurnsStay
<1>8. DueInv' BY <1>1, <1>2, <1>3, <1>4 DEF DueInv
<1>9. Behind'
  <2> SUFFICES ASSUME NEW t \in Schedules, NEW m \in 1 .. MaxNow + Interval,
                      <<t, m>> \in slotsSent \/ (t = s /\ m = n)
               PROVE  /\ m <= now
                      /\ <<t, m>> \notin slotsUnsaved' =>
                           /\ savedRuns'[t] = 0 \/ savedRuns'[t] > m
                           /\ next'[t] > m
    BY <1>1, <1>5 DEF Behind
  <2>1. m <= now
    <3>1. CASE <<t, m>> \in slotsSent BY <3>1 DEF Behind
    <3>2. CASE m = n BY <1>2, <1>5, <3>2
    <3> QED BY <3>1, <3>2
  <2>2. ASSUME <<t, m>> \notin slotsUnsaved'
        PROVE  /\ savedRuns'[t] = 0 \/ savedRuns'[t] > m
               /\ next'[t] > m
    <3>1. <<t, m>> \notin slotsUnsaved BY <1>1, <2>2
    <3>2. now + Interval > m BY <1>2, <2>1, Bounds
    <3>3. next'[t] > m
      <4>1. CASE t = s BY <1>4, <3>2, <4>1
      <4>2. CASE t # s BY <1>1, <1>4, <3>1, <4>2 DEF Behind
      <4> QED BY <4>1, <4>2
    <3>4. CASE savedRuns' = next' BY <3>3, <3>4
    <3>5. CASE savedRuns' = NoRuns BY <3>3, <3>5 DEF NoRuns
    <3>6. CASE savedRuns' = savedRuns /\ slotsUnsaved' = slotsUnsaved \cup {<<s, next[s]>>}
      <4>1. ~ (t = s /\ m = n) BY <1>5, <2>2, <3>6
      <4> QED BY <3>1, <3>3, <3>6, <4>1 DEF Behind
    <3> QED BY <1>1, <3>4, <3>5, <3>6
  <2> QED BY <2>1, <2>2
<1>10. OnceInv'
  <2> SUFFICES ASSUME <<s, n>> \in slotsSent PROVE <<s, n>> \in slotsUnsaved
    BY <1>1, <1>5 DEF OnceInv
  <2> QED BY <1>1, <1>2, <1>5 DEF Behind
<1>11. TakenInv' /\ StashShown' BY <1>1, StashStays
<1> QED BY <1>6, <1>7, <1>8, <1>9, <1>10, <1>11

\* The slot goes on the bus, whose oldest is lost when it is full.
LEMMA SendKeeps == ASSUME PulseInv, Send PROVE PulseInv'
<1> USE DEF PulseInv
<1>1. PICK slot \in sending :
        /\ bus' = Append(IF Len(bus) = BusCap THEN Tail(bus) ELSE bus, slot[1])
        /\ slotsSent' = slotsSent \cup {slot}
  BY DEF Send
<1>2. /\ sensor = "sending" /\ sending' = {} /\ now' = now /\ savedRuns' = savedRuns
      /\ sensor' = IF due = {} THEN "waiting" ELSE "firing"
      /\ due' = due /\ next' = next /\ crashes' = crashes
      /\ slotsUnsaved' = slotsUnsaved /\ findings' = findings
      /\ activeNow' = activeNow /\ talking' = talking /\ uncounted' = uncounted
      /\ beats' = beats /\ begun' = begun
      /\ pendingFile' = pendingFile /\ torn' = torn /\ taking' = taking
  BY DEF Send, turnwork, stash
<1>3. slot \in Slots /\ slot[1] \in Schedules BY DEF BeatTypeOK, Slots
<1>4. bus' \in Seq(Schedules) /\ Len(bus') <= BusCap
  <2>1. bus \in Seq(Schedules) /\ Len(bus) <= BusCap /\ Len(bus) \in Nat BY DEF BeatTypeOK
  <2>2. CASE Len(bus) = BusCap
    <3>1. bus # <<>> BY <2>2, Bounds
    <3>2. Tail(bus) \in Seq(Schedules) /\ Len(Tail(bus)) = Len(bus) - 1 BY <2>1, <3>1
    <3> QED BY <1>1, <1>3, <2>1, <2>2, <3>2, Bounds
  <2>3. CASE Len(bus) # BusCap
    <3>1. Len(bus) + 1 <= BusCap BY <2>1, <2>3, Bounds
    <3> QED BY <1>1, <1>3, <2>1, <2>3, <3>1
  <2> QED BY <2>2, <2>3
<1>5. BeatTypeOK' BY <1>1, <1>2, <1>3, <1>4 DEF BeatTypeOK
<1>6. CountedOff' BY <1>2, TurnsStay
<1>7. DueInv' BY <1>2 DEF DueInv
<1>8. Behind' BY <1>1, <1>2 DEF Behind
<1>9. OnceInv' BY <1>2 DEF OnceInv
<1>10. TakenInv' /\ StashShown' BY <1>2, StashStays
<1> QED BY <1>5, <1>6, <1>7, <1>8, <1>9, <1>10

-----------------------------------------------------------------------------
(* The turns. *)

\* As many sessions are counted as there can be.
LEMMA CountInRange ==
  ASSUME NEW B \in SUBSET Beats, NEW t \in 0 .. MaxTalks, NEW u \in 0 .. MaxPanics
  PROVE  Cardinality(B) + t + u \in 0 .. MaxBeats + MaxTalks + MaxPanics
<1>1. Cardinality(B) \in 0 .. MaxBeats BY SomeBeats
<1> QED BY <1>1, Bounds

\* A beat begins its turn, or fails to.
LEMMA InjectKeeps == ASSUME PulseInv, Inject PROVE PulseInv'
<1> USE DEF PulseInv
<1>1. /\ bus # <<>> /\ begun < MaxBeats /\ bus' = Tail(bus)
      /\ now' = now /\ next' = next /\ savedRuns' = savedRuns /\ sensor' = sensor
      /\ due' = due /\ sending' = sending /\ crashes' = crashes
      /\ slotsSent' = slotsSent /\ slotsUnsaved' = slotsUnsaved /\ findings' = findings
      /\ talking' = talking /\ uncounted' = uncounted
      /\ pendingFile' = pendingFile /\ torn' = torn /\ taking' = taking
  BY DEF Inject, clockwork, turnwork, stash
<1>2. \/ activeNow' = activeNow /\ beats' = beats /\ begun' = begun
      \/ /\ begun' = begun + 1 /\ beats' = beats \cup {<<begun + 1, "turn">>}
         /\ activeNow' = activeNow + 1
  BY DEF Inject, turnwork
<1>3. bus' \in Seq(Schedules) /\ Len(bus') <= BusCap
  <2>1. bus \in Seq(Schedules) /\ Len(bus) <= BusCap BY DEF BeatTypeOK
  <2> QED BY <1>1, <2>1, Bounds
<1>4. CASE activeNow' = activeNow /\ beats' = beats /\ begun' = begun
  <2>1. BeatTypeOK' BY <1>1, <1>3, <1>4 DEF BeatTypeOK
  <2>2. CountedOff' BY <1>1, <1>4, TurnsStay
  <2>3. DueInv' /\ Behind' /\ OnceInv' BY <1>1, SensorStays
  <2>4. TakenInv' /\ StashShown' BY <1>1, StashStays
  <2> QED BY <2>1, <2>2, <2>3, <2>4
<1>5. CASE /\ begun' = begun + 1 /\ beats' = beats \cup {<<begun + 1, "turn">>}
           /\ activeNow' = activeNow + 1
  <2>1. begun \in Nat /\ begun + 1 \in Beats
    BY <1>1, Bounds DEF BeatTypeOK, Beats
  <2>2. CountedOff'
    <3>1. InTurn' = InTurn \cup {begun + 1} BY <1>5, <2>1 DEF InTurn
    <3>2. begun + 1 \notin InTurn BY <2>1 DEF InTurn, CountedOff
    <3>3. InTurn \in SUBSET Beats BY DEF InTurn
    <3>4. IsFiniteSet(InTurn) /\ Cardinality(InTurn) \in Nat BY <3>3, SomeBeats
    <3>5. Cardinality(InTurn') = Cardinality(InTurn) + 1
      BY <3>1, <3>2, <3>4, FS_AddElement
    <3>6. activeNow' = Cardinality(InTurn') + talking' + uncounted'
      BY <1>1, <1>5, <3>4, <3>5, Bounds DEF CountedOff, BeatTypeOK
    <3>7. \A b \in Beats : \A what : <<b, what>> \in beats' => b <= begun'
      <4> SUFFICES ASSUME NEW b \in Beats, NEW what, <<b, what>> \in beats'
                   PROVE  b <= begun + 1
        BY <1>5
      <4>1. b \in Nat BY Bounds DEF Beats
      <4>2. CASE <<b, what>> \in beats BY <2>1, <4>1, <4>2 DEF CountedOff
      <4>3. CASE <<b, what>> = <<begun + 1, "turn">> BY <2>1, <4>1, <4>3
      <4> QED BY <1>5, <4>2, <4>3
    <3> QED BY <3>6, <3>7 DEF CountedOff
  <2>3. talking' \in 0 .. MaxTalks /\ uncounted' \in 0 .. MaxPanics
    BY <1>1 DEF BeatTypeOK
  <2>4. activeNow' \in 0 .. MaxBeats + MaxTalks + MaxPanics
    <3>1. InTurn' \in SUBSET Beats BY DEF InTurn
    <3> QED BY <2>2, <2>3, <3>1, CountInRange DEF CountedOff
  <2>5. beats' \subseteq Beats \X {"turn", "drained"} BY <1>5, <2>1 DEF BeatTypeOK
  <2>6. begun' \in 0 .. MaxBeats BY <1>1, <1>5, <2>1, Bounds
  <2>7. BeatTypeOK' BY <1>1, <1>3, <2>3, <2>4, <2>5, <2>6 DEF BeatTypeOK
  <2>8. DueInv' /\ Behind' /\ OnceInv' BY <1>1, SensorStays
  <2>9. TakenInv' /\ StashShown' BY <1>1, StashStays
  <2> QED BY <2>2, <2>7, <2>8, <2>9
<1> QED BY <1>2, <1>4, <1>5

\* A turn that ends is counted off, or has panicked.
LEMMA OneLess ==
  ASSUME PulseInv, CountOff
  PROVE  /\ uncounted' \in 0 .. MaxPanics
         /\ activeNow' = activeNow - 1 + (uncounted' - uncounted)
<1>1. uncounted \in 0 .. MaxPanics /\ activeNow \in Nat
  BY Bounds DEF PulseInv, BeatTypeOK
<1>2. CASE activeNow' = activeNow - 1 /\ uncounted' = uncounted BY <1>1, <1>2, Bounds
<1>3. CASE uncounted < MaxPanics /\ uncounted' = uncounted + 1 /\ activeNow' = activeNow
  BY <1>1, <1>3, Bounds
<1> QED BY <1>2, <1>3 DEF CountOff

\* The turn of a beat ends.
LEMMA BeatEndsKeeps == ASSUME PulseInv, NEW b \in Beats, BeatEnds(b) PROVE PulseInv'
<1> USE DEF PulseInv
<1>1. /\ <<b, "turn">> \in beats
      /\ beats' = (beats \ {<<b, "turn">>}) \cup {<<b, "drained">>}
      /\ now' = now /\ next' = next /\ savedRuns' = savedRuns /\ sensor' = sensor
      /\ due' = due /\ sending' = sending /\ crashes' = crashes /\ bus' = bus
      /\ slotsSent' = slotsSent /\ slotsUnsaved' = slotsUnsaved /\ findings' = findings
      /\ talking' = talking /\ begun' = begun
      /\ pendingFile' = pendingFile /\ torn' = torn /\ taking' = taking
  BY DEF BeatEnds, clockwork, stash
<1>2. uncounted' \in 0 .. MaxPanics /\ activeNow' = activeNow - 1 + (uncounted' - uncounted)
  BY OneLess DEF BeatEnds
<1>3. /\ talking' \in 0 .. MaxTalks /\ talking \in Nat /\ uncounted \in Nat
      /\ uncounted' \in Nat
  BY <1>1, <1>2, Bounds DEF BeatTypeOK
<1>4. CountedOff'
  <2>1. InTurn' = InTurn \ {b} BY <1>1 DEF InTurn
  <2>2. b \in InTurn BY <1>1 DEF InTurn
  <2>3. InTurn \in SUBSET Beats BY DEF InTurn
  <2>4. IsFiniteSet(InTurn) /\ Cardinality(InTurn) \in Nat BY <2>3, SomeBeats
  <2>5. Cardinality(InTurn') = Cardinality(InTurn) - 1
    BY <2>1, <2>2, <2>4, FS_RemoveElement
  <2>6. activeNow = Cardinality(InTurn) + talking + uncounted BY DEF CountedOff
  <2>7. activeNow' = Cardinality(InTurn') + talking' + uncounted'
    BY <1>1, <1>2, <1>3, <2>4, <2>5, <2>6
  <2>8. \A c \in Beats : \A what : <<c, what>> \in beats' => c <= begun'
    BY <1>1 DEF CountedOff
  <2> QED BY <2>7, <2>8 DEF CountedOff
<1>5. activeNow' \in 0 .. MaxBeats + MaxTalks + MaxPanics
  <2>1. InTurn' \in SUBSET Beats BY DEF InTurn
  <2> QED BY <1>2, <1>3, <1>4, <2>1, CountInRange DEF CountedOff
<1>6. beats' \subseteq Beats \X {"turn", "drained"} BY <1>1 DEF BeatTypeOK
<1>7. BeatTypeOK' BY <1>1, <1>2, <1>3, <1>5, <1>6 DEF BeatTypeOK
<1>8. DueInv' /\ Behind' /\ OnceInv' BY <1>1, SensorStays
<1>9. TakenInv' /\ StashShown' BY <1>1, StashStays
<1> QED BY <1>4, <1>7, <1>8, <1>9

\* A person begins or ends a turn.
LEMMA TalkKeeps == ASSUME PulseInv, Talk \/ TalkEnds PROVE PulseInv'
<1> USE DEF PulseInv
<1>1. /\ beats' = beats
      /\ now' = now /\ next' = next /\ savedRuns' = savedRuns /\ sensor' = sensor
      /\ due' = due /\ sending' = sending /\ crashes' = crashes /\ bus' = bus
      /\ slotsSent' = slotsSent /\ slotsUnsaved' = slotsUnsaved /\ findings' = findings
      /\ begun' = begun
      /\ pendingFile' = pendingFile /\ torn' = torn /\ taking' = taking
  BY DEF Talk, TalkEnds, clockwork, stash
<1>2. talking \in 0 .. MaxTalks /\ uncounted \in 0 .. MaxPanics /\ activeNow \in Nat
  BY Bounds DEF BeatTypeOK
<1>3. /\ talking' \in 0 .. MaxTalks /\ uncounted' \in 0 .. MaxPanics
      /\ activeNow' = activeNow + (talking' - talking) + (uncounted' - uncounted)
  <2>1. CASE Talk
    <3>1. /\ talking < MaxTalks /\ talking' = talking + 1 /\ activeNow' = activeNow + 1
          /\ uncounted' = uncounted
      BY <2>1 DEF Talk
    <3> QED BY <1>2, <3>1, Bounds
  <2>2. CASE TalkEnds
    <3>1. talking > 0 /\ talking' = talking - 1 BY <2>2 DEF TalkEnds
    <3>2. uncounted' \in 0 .. MaxPanics
          /\ activeNow' = activeNow - 1 + (uncounted' - uncounted)
      BY <2>2, OneLess DEF TalkEnds
    <3> QED BY <1>2, <3>1, <3>2, Bounds
  <2> QED BY <2>1, <2>2
<1>4. CountedOff'
  <2>1. InTurn' = InTurn BY <1>1 DEF InTurn
  <2>2. InTurn \in SUBSET Beats BY DEF InTurn
  <2>3. Cardinality(InTurn) \in Nat BY <2>2, SomeBeats
  <2>4. activeNow = Cardinality(InTurn) + talking + uncounted BY DEF CountedOff
  <2>5. activeNow' = Cardinality(InTurn') + talking' + uncounted'
    BY <1>2, <1>3, <2>1, <2>3, <2>4, Bounds
  <2>6. \A c \in Beats : \A what : <<c, what>> \in beats' => c <= begun'
    BY <1>1 DEF CountedOff
  <2> QED BY <2>5, <2>6 DEF CountedOff
<1>5. activeNow' \in 0 .. MaxBeats + MaxTalks + MaxPanics
  <2>1. InTurn' \in SUBSET Beats BY DEF InTurn
  <2> QED BY <1>3, <1>4, <2>1, CountInRange DEF CountedOff
<1>6. BeatTypeOK' BY <1>1, <1>3, <1>5 DEF BeatTypeOK
<1>7. DueInv' /\ Behind' /\ OnceInv' BY <1>1, SensorStays
<1>8. TakenInv' /\ StashShown' BY <1>1, StashStays
<1> QED BY <1>4, <1>6, <1>7, <1>8

-----------------------------------------------------------------------------
(* The stash. *)

\* A beat's finding is appended, lost with a line cut short, or there is none.
LEMMA StashKeeps == ASSUME PulseInv, NEW b \in Beats, Stash(b) PROVE PulseInv'
<1> USE DEF PulseInv
<1>1. /\ beats' = beats \ {<<b, "drained">>}
      /\ now' = now /\ next' = next /\ savedRuns' = savedRuns /\ sensor' = sensor
      /\ due' = due /\ sending' = sending /\ crashes' = crashes /\ bus' = bus
      /\ slotsSent' = slotsSent /\ slotsUnsaved' = slotsUnsaved
      /\ activeNow' = activeNow /\ talking' = talking /\ uncounted' = uncounted
      /\ begun' = begun /\ taking' = taking
  BY DEF Stash, clockwork
<1>2. \/ /\ pendingFile' = IF torn THEN pendingFile ELSE pendingFile \cup {b}
         /\ torn' = FALSE
         /\ findings' = [findings EXCEPT !.stashed = @ \cup {b},
                              !.missed = IF torn \/ taking # {} THEN @ \cup {b} ELSE @]
      \/ pendingFile' = pendingFile /\ torn' = torn /\ findings' = findings
  BY DEF Stash, Appended
<1>3. findings \in [stashed: SUBSET Beats, shown: SUBSET Beats, missed: SUBSET Beats]
      /\ pendingFile \subseteq Beats /\ torn \in BOOLEAN
  BY DEF BeatTypeOK
<1>4. /\ findings' \in [stashed: SUBSET Beats, shown: SUBSET Beats, missed: SUBSET Beats]
      /\ pendingFile' \subseteq Beats /\ torn' \in BOOLEAN
  <2>1. CASE pendingFile' = pendingFile /\ torn' = torn /\ findings' = findings
    BY <1>3, <2>1
  <2>2. CASE /\ pendingFile' = IF torn THEN pendingFile ELSE pendingFile \cup {b}
             /\ torn' = FALSE
             /\ findings' = [findings EXCEPT !.stashed = @ \cup {b},
                                  !.missed = IF torn \/ taking # {} THEN @ \cup {b} ELSE @]
    <3>1. torn' \in BOOLEAN BY <2>2
    <3>2. pendingFile' \subseteq Beats BY <1>3, <2>2
    <3>3. \/ findings' = [findings EXCEPT !.stashed = @ \cup {b}, !.missed = @ \cup {b}]
          \/ findings' = [findings EXCEPT !.stashed = @ \cup {b}, !.missed = @]
      BY <2>2
    <3>4. PICK old \in [stashed: SUBSET Beats, shown: SUBSET Beats, missed: SUBSET Beats] :
            old = findings
      BY <1>3
    <3>5. \/ findings' = [stashed |-> old.stashed \cup {b}, shown |-> old.shown,
                          missed |-> old.missed \cup {b}]
          \/ findings' = [stashed |-> old.stashed \cup {b}, shown |-> old.shown,
                          missed |-> old.missed]
      BY <3>3, <3>4
    <3>6. findings' \in [stashed: SUBSET Beats, shown: SUBSET Beats, missed: SUBSET Beats]
      BY <3>5
    <3> QED BY <3>1, <3>2, <3>6
  <2> QED BY <1>2, <2>1, <2>2
<1>5. CountedOff'
  <2>1. InTurn' = InTurn BY <1>1 DEF InTurn
  <2> QED BY <1>1, <2>1 DEF CountedOff
<1>6. BeatTypeOK' BY <1>1, <1>4 DEF BeatTypeOK
<1>7. DueInv' /\ Behind' /\ OnceInv' BY <1>1, SensorStays
<1>8. TakenInv'
  <2> SUFFICES ASSUME NEW read \in taking
               PROVE  findings'.stashed \subseteq read \cup findings'.shown \cup findings'.missed
    BY <1>1 DEF TakenInv
  <2>1. findings.stashed \subseteq read \cup findings.shown \cup findings.missed
    BY DEF TakenInv
  <2> QED BY <1>2, <1>3, <2>1
<1>9. StashShown' BY <1>2, <1>3 DEF StashShown
<1> QED BY <1>5, <1>6, <1>7, <1>8, <1>9

\* A session reads the findings it will show.
LEMMA TakeReadsKeeps == ASSUME PulseInv, TakeReads PROVE PulseInv'
<1> USE DEF PulseInv
<1>1. /\ taking' = {pendingFile} /\ pendingFile' = pendingFile /\ torn' = torn
      /\ now' = now /\ next' = next /\ savedRuns' = savedRuns /\ sensor' = sensor
      /\ due' = due /\ sending' = sending /\ crashes' = crashes /\ bus' = bus
      /\ slotsSent' = slotsSent /\ slotsUnsaved' = slotsUnsaved /\ findings' = findings
      /\ activeNow' = activeNow /\ talking' = talking /\ uncounted' = uncounted
      /\ begun' = begun /\ beats' = beats
  BY DEF TakeReads, clockwork, turnwork
<1>2. BeatTypeOK' BY <1>1 DEF BeatTypeOK
<1>3. CountedOff' BY <1>1, TurnsStay
<1>4. DueInv' /\ Behind' /\ OnceInv' BY <1>1, SensorStays
<1>5. TakenInv' /\ StashShown' BY <1>1 DEF TakenInv, StashShown
<1> QED BY <1>2, <1>3, <1>4, <1>5

\* It shows them, and then removes the file it read them from.
LEMMA TakeRemovesKeeps == ASSUME PulseInv, TakeRemoves PROVE PulseInv'
<1> USE DEF PulseInv
<1>1. /\ taking # {} /\ taking' = {} /\ pendingFile' = {} /\ torn' = FALSE
      /\ findings' = [findings EXCEPT !.shown = @ \cup UNION taking]
      /\ now' = now /\ next' = next /\ savedRuns' = savedRuns /\ sensor' = sensor
      /\ due' = due /\ sending' = sending /\ crashes' = crashes /\ bus' = bus
      /\ slotsSent' = slotsSent /\ slotsUnsaved' = slotsUnsaved
      /\ activeNow' = activeNow /\ talking' = talking /\ uncounted' = uncounted
      /\ begun' = begun /\ beats' = beats
  BY DEF TakeRemoves, clockwork, turnwork
<1>2. findings \in [stashed: SUBSET Beats, shown: SUBSET Beats, missed: SUBSET Beats]
  BY DEF BeatTypeOK
<1>3. PICK read \in SUBSET Beats : taking = {read}
  BY <1>1 DEF BeatTypeOK
<1>4. UNION taking = read BY <1>3
<1>5. findings' \in [stashed: SUBSET Beats, shown: SUBSET Beats, missed: SUBSET Beats]
  BY <1>1, <1>2, <1>4
<1>6. torn' \in BOOLEAN BY <1>1
<1>7. BeatTypeOK' BY <1>1, <1>5, <1>6 DEF BeatTypeOK
<1>8. CountedOff' BY <1>1, TurnsStay
<1>9. DueInv' /\ Behind' /\ OnceInv' BY <1>1, SensorStays
<1>10. TakenInv' BY <1>1 DEF TakenInv
<1>11. StashShown'
  <2>1. findings.stashed \subseteq read \cup findings.shown \cup findings.missed
    BY <1>3 DEF TakenInv
  <2> QED BY <1>1, <1>2, <1>4, <2>1 DEF StashShown
<1> QED BY <1>7, <1>8, <1>9, <1>10, <1>11

-----------------------------------------------------------------------------
(* The time and the process. *)

\* Time goes on.
LEMMA TimeKeeps == ASSUME PulseInv, TimeGoesOn PROVE PulseInv'
<1> USE DEF PulseInv
<1>1. /\ now < MaxNow /\ now' = now + 1
      /\ next' = next /\ savedRuns' = savedRuns /\ sensor' = sensor
      /\ due' = due /\ sending' = sending /\ crashes' = crashes /\ bus' = bus
      /\ slotsSent' = slotsSent /\ slotsUnsaved' = slotsUnsaved /\ findings' = findings
      /\ activeNow' = activeNow /\ talking' = talking /\ uncounted' = uncounted
      /\ begun' = begun /\ beats' = beats
      /\ taking' = taking /\ pendingFile' = pendingFile /\ torn' = torn
  BY DEF TimeGoesOn, turnwork, stash
<1>2. /\ now \in 1 .. MaxNow /\ next \in [Schedules -> 0 .. MaxNow + Interval]
      /\ due \subseteq Schedules
  BY DEF BeatTypeOK
<1>3. now' \in 1 .. MaxNow BY <1>1, <1>2, Bounds
<1>4. BeatTypeOK' BY <1>1, <1>3 DEF BeatTypeOK
<1>5. CountedOff' BY <1>1, TurnsStay
<1>6. DueInv'
  <2>1. \A s \in due : next[s] <= now + 1
    <3> TAKE s \in due
    <3>1. next[s] \in 0 .. MaxNow + Interval /\ next[s] <= now BY <1>2 DEF DueInv
    <3> QED BY <1>2, <3>1, Bounds
  <2> QED BY <1>1, <2>1 DEF DueInv
<1>7. Behind'
  <2>1. \A n \in 1 .. MaxNow + Interval : n <= now => n <= now + 1 BY <1>2, Bounds
  <2> QED BY <1>1, <2>1 DEF Behind
<1>8. OnceInv' BY <1>1 DEF OnceInv
<1>9. TakenInv' /\ StashShown' BY <1>1, StashStays
<1> QED BY <1>4, <1>5, <1>6, <1>7, <1>8, <1>9

\* A crash keeps what is on disk.
LEMMA CrashKeeps == ASSUME PulseInv, Crash PROVE PulseInv'
<1> USE DEF PulseInv
<1>1. /\ crashes < MaxCrashes /\ crashes' = crashes + 1
      /\ sensor' = "down" /\ due' = {} /\ sending' = {} /\ next' = NoRuns
      /\ bus' = <<>> /\ activeNow' = 0 /\ talking' = 0 /\ uncounted' = 0
      /\ beats' = {} /\ taking' = {}
      /\ now' = now /\ savedRuns' = savedRuns /\ begun' = begun
      /\ pendingFile' = pendingFile
      /\ slotsSent' = slotsSent /\ slotsUnsaved' = slotsUnsaved /\ findings' = findings
  BY DEF Crash
<1>2. torn' \in BOOLEAN
  <2>1. torn \in BOOLEAN BY DEF BeatTypeOK
  <2>2. torn' \in BOOLEAN \cup {torn} BY DEF Crash
  <2> QED BY <2>1, <2>2
<1>3. BeatTypeOK'
  <2>1. NoRuns \in [Schedules -> 0 .. MaxNow + Interval] BY Bounds DEF NoRuns
  <2>2. crashes' \in 0 .. MaxCrashes BY <1>1, Bounds DEF BeatTypeOK
  <2>3. 0 \in 0 .. MaxBeats + MaxTalks + MaxPanics BY Bounds
  <2>4. <<>> \in Seq(Schedules) /\ Len(<<>>) <= BusCap BY Bounds
  <2>5. talking' \in 0 .. MaxTalks /\ uncounted' \in 0 .. MaxPanics BY <1>1, Bounds
  <2>6. sensor' \in {"down", "waiting", "firing", "sending"} /\ sensor' # "sending" BY <1>1
  <2> QED BY <1>1, <1>2, <2>1, <2>2, <2>3, <2>4, <2>5, <2>6 DEF BeatTypeOK
<1>4. CountedOff'
  <2>1. InTurn' = {} BY <1>1 DEF InTurn
  <2>2. Cardinality(InTurn') = 0 BY <2>1, FS_EmptySet
  <2> QED BY <1>1, <2>2 DEF CountedOff
<1>5. DueInv' BY <1>1 DEF DueInv
<1>6. Behind' BY <1>1 DEF Behind
<1>7. OnceInv' BY <1>1 DEF OnceInv
<1>8. TakenInv' /\ StashShown' BY <1>1 DEF TakenInv, StashShown
<1> QED BY <1>3, <1>4, <1>5, <1>6, <1>7, <1>8

-----------------------------------------------------------------------------

\* Nothing happens.
LEMMA BeatStays == ASSUME PulseInv, UNCHANGED beatVars PROVE PulseInv'
<1> USE DEF PulseInv
<1>1. /\ now' = now /\ next' = next /\ savedRuns' = savedRuns /\ sensor' = sensor
      /\ due' = due /\ sending' = sending /\ crashes' = crashes /\ bus' = bus
      /\ slotsSent' = slotsSent /\ slotsUnsaved' = slotsUnsaved /\ findings' = findings
      /\ activeNow' = activeNow /\ talking' = talking /\ uncounted' = uncounted
      /\ begun' = begun /\ beats' = beats
      /\ taking' = taking /\ pendingFile' = pendingFile /\ torn' = torn
  BY DEF beatVars, clockwork, turnwork, stash
<1>2. BeatTypeOK' BY <1>1 DEF BeatTypeOK
<1>3. CountedOff' BY <1>1, TurnsStay
<1>4. DueInv' /\ Behind' /\ OnceInv' BY <1>1, SensorStays
<1>5. TakenInv' /\ StashShown' BY <1>1, StashStays
<1> QED BY <1>2, <1>3, <1>4, <1>5

\* Every step keeps it.
LEMMA BeatStepKeeps == ASSUME PulseInv, [BeatNext]_beatVars PROVE PulseInv'
<1>1. CASE Start BY <1>1, StartKeeps
<1>2. CASE Send BY <1>2, SendKeeps
<1>3. ASSUME NEW s \in Schedules, Advance(s) PROVE PulseInv' BY <1>3, AdvanceKeeps
<1>4. CASE Wake BY <1>4, WakeKeeps
<1>5. CASE TimeGoesOn BY <1>5, TimeKeeps
<1>6. CASE Crash BY <1>6, CrashKeeps
<1>7. CASE Inject BY <1>7, InjectKeeps
<1>8. CASE Talk \/ TalkEnds BY <1>8, TalkKeeps
<1>9. CASE TakeReads BY <1>9, TakeReadsKeeps
<1>10. CASE TakeRemoves BY <1>10, TakeRemovesKeeps
<1>11. ASSUME NEW b \in Beats, BeatEnds(b) PROVE PulseInv' BY <1>11, BeatEndsKeeps
<1>12. ASSUME NEW b \in Beats, Stash(b) PROVE PulseInv' BY <1>12, StashKeeps
<1>13. CASE UNCHANGED beatVars BY <1>13, BeatStays
<1> QED BY <1>1, <1>2, <1>3, <1>4, <1>5, <1>6, <1>7, <1>8, <1>9, <1>10, <1>11, <1>12, <1>13
        DEF BeatNext, SensorGoes

\* It holds in every state.
LEMMA PulsesKept == BeatSpec => []PulseInv
<1>1. BeatInit => PulseInv BY InitHolds
<1>2. PulseInv /\ [BeatNext]_beatVars => PulseInv' BY BeatStepKeeps
<1> QED BY <1>1, <1>2, PTL DEF BeatSpec

\* What a beat left for later sessions is neither lost nor made up: it waits in
\* pending-surfacings.jsonl or has been shown, but for the two ways take and append
\* (pending.rs) have of losing it, whenever the process stops.
THEOREM BeatsKept == BeatSpec => []BeatInv
<1>1. PulseInv => BeatInv BY DEF PulseInv, BeatInv
<1> QED BY <1>1, PulsesKept, PTL

\* The sensor sends for no slot of a schedule twice unless it could not save the
\* advance: persisting before sending (CronSensor::run) is enough for every restart.
THEOREM SlotsSentOnce == BeatSpec => SlotOnce
<1>1. PulseInv => \A slot \in sending :
                    Send => slot \notin slotsSent \/ slot \in slotsUnsaved
  BY DEF PulseInv, OnceInv
<1> QED BY <1>1, PulsesKept, PTL DEF SlotOnce

-----------------------------------------------------------------------------
(*****************************************************************************)
(* The subconscious' boxes.                                                  *)
(*                                                                           *)
(* However passes overlap and wherever they stop, a thought that was queued  *)
(* is in a box or has been recorded, but for those that went with a box      *)
(* written from an older copy or cut short: what a pass removes must have    *)
(* been recorded before (Removable).  Where passes do not overlap, what one  *)
(* has read is what is there (ReadsTrue), and none goes that way.            *)
(*****************************************************************************)

(* The inductive invariant. *)

Places == {"rest", "queue", "write", "pick", "mark", "sent", "remove"}

Passes == [at: Places, todo: Seq(Items), read: [Boxes -> Seq(Items)], top: Seq(Items)]

InboxTyped ==
    /\ box \in [Boxes -> Seq(Items)] /\ Len(box["sent"]) <= LedgerMax
    /\ inboxer \in [Inboxers -> Passes]
    /\ queued \subseteq Thoughts /\ recorded \subseteq Thoughts
    /\ dropped \subseteq Thoughts /\ halts \in 0 .. MaxHalts

\* A pass that writes has something to write, and one that marks something to mark.
AtWork ==
    \A p \in Inboxers :
        /\ inboxer[p].at = "write" => inboxer[p].todo # <<>>
        /\ inboxer[p].at \in {"mark", "sent", "remove"} => inboxer[p].top # <<>>

\* What a pass is about to remove is in a box it has read and has been recorded.
Removable ==
    \A p \in Inboxers :
        /\ inboxer[p].at \in {"sent", "remove"} =>
             \E b \in {"pending", "intrusive"} : \E i \in DOMAIN inboxer[p].read[b] :
                 inboxer[p].read[b][i] = Head(inboxer[p].top)
        /\ inboxer[p].at = "remove" => Named({Head(inboxer[p].top)}) \subseteq recorded

\* Where passes do not overlap, what a pass has read is what the boxes hold.
OneAtATime == \A p, q \in Inboxers : p = q

ReadsTrue ==
    \A p \in Inboxers : inboxer[p].at \in {"write", "sent", "remove"} =>
        \A b \in {"pending", "intrusive"} : inboxer[p].read[b] = box[b]

PassInv ==
    /\ InboxTyped /\ AtWork /\ Removable /\ ThoughtKept /\ AloneKept
    /\ OneAtATime => ReadsTrue

-----------------------------------------------------------------------------
(* The operators. *)

\* The bounds are numbers.
LEMMA InboxBounds ==
    /\ MaxAtOnce \in Nat \ {0} /\ BoxLimit \in Nat \ {0} /\ LedgerMax \in Nat \ {0}
    /\ MaxHalts \in Nat /\ Beat \notin Thoughts
  BY InboxConstants

\* A set of naturals has a least element, and one with a bound a greatest.
LEMMA Least ==
  ASSUME NEW T \in SUBSET Nat, T # {}
  PROVE  \E x \in T : \A y \in T : x <= y
<1> DEFINE R == OpToRel(<, Nat)
<1>1. IsWellFoundedOn(R, Nat) BY NatLessThanWellFounded
<1>2. \A x, y \in Nat : <<x, y>> \in R <=> x < y BY DEF OpToRel
<1> HIDE DEF R
<1>3. PICK x \in T : \A y \in T : ~ (<<y, x>> \in R) BY <1>1, WFMin
<1>4. \A y \in T : x <= y
  <2> TAKE y \in T
  <2>1. x \in Nat /\ y \in Nat OBVIOUS
  <2>2. ~ (y < x) BY <1>2, <1>3, <2>1
  <2> QED BY <2>1, <2>2
<1> QED BY <1>3, <1>4

\* A set of naturals with a bound has a greatest element.
LEMMA Greatest ==
  ASSUME NEW n \in Nat, NEW T \in SUBSET (0 .. n), T # {}
  PROVE  \E x \in T : \A y \in T : x >= y
<1> DEFINE D == {n - x : x \in T}
<1>1. \A x \in T : n - x \in Nat OBVIOUS
<1>2. \A x \in T : n - x \in D OBVIOUS
<1>3. \A d \in D : \E x \in T : d = n - x OBVIOUS
<1> HIDE DEF D
<1>4. D \in SUBSET Nat /\ D # {} BY <1>1, <1>2, <1>3
<1>5. PICK d \in D : \A e \in D : d <= e BY <1>4, Least
<1>6. PICK x \in T : d = n - x BY <1>3
<1>7. \A y \in T : x >= y BY <1>2, <1>5, <1>6
<1> QED BY <1>7

\* A rank is one of three.
LEMMA RankRange == ASSUME NEW item \in Items PROVE Rank(item) \in 1 .. 3
<1>1. item[2] \in Urgencies BY DEF Items, Urgencies
<1> QED BY <1>1 DEF Rank, Urgencies

\* pick_top: of the most pressing the last.
LEMMA TopIsThere ==
  ASSUME NEW items \in Seq(Items), items # <<>>
  PROVE  /\ TopOf(items) \in DOMAIN items
         /\ \A j \in DOMAIN items : Rank(items[j]) <= Rank(items[TopOf(items)])
<1>1. /\ DOMAIN items = 1 .. Len(items) /\ Len(items) \in Nat /\ Len(items) > 0
      /\ \A i \in DOMAIN items : items[i] \in Items
  OBVIOUS
<1> DEFINE Ranks == {Rank(items[i]) : i \in DOMAIN items}
<1>2. \A i \in DOMAIN items : Rank(items[i]) \in 1 .. 3 BY <1>1, RankRange
<1>3. Ranks \in SUBSET (0 .. 3) BY <1>2
<1>4. Ranks # {}
  <2>1. 1 \in DOMAIN items BY <1>1
  <2> QED BY <2>1
<1>5. PICK r \in Ranks : \A q \in Ranks : r >= q BY <1>3, <1>4, Greatest
<1> DEFINE Tops == {i \in DOMAIN items : Rank(items[i]) = r}
<1>6. Tops \in SUBSET (0 .. Len(items)) /\ Tops # {} BY <1>1, <1>5
<1>7. PICK t \in Tops : \A j \in Tops : t >= j BY <1>1, <1>6, Greatest
<1>8. /\ t \in DOMAIN items
      /\ \A j \in DOMAIN items :
            \/ Rank(items[t]) > Rank(items[j])
            \/ Rank(items[t]) = Rank(items[j]) /\ j <= t
  <2>1. t \in DOMAIN items /\ Rank(items[t]) = r BY <1>7
  <2>2. ASSUME NEW j \in DOMAIN items
        PROVE  \/ Rank(items[t]) > Rank(items[j])
               \/ Rank(items[t]) = Rank(items[j]) /\ j <= t
    <3>1. Rank(items[j]) \in Ranks /\ Rank(items[j]) \in Nat /\ r \in Nat
      BY <1>2, <2>1
    <3>2. r >= Rank(items[j]) BY <1>5, <3>1
    <3>3. CASE Rank(items[j]) = r
      <4>1. j \in Tops BY <3>3
      <4>2. t >= j BY <1>7, <4>1
      <4> QED BY <1>1, <2>1, <3>3, <4>2
    <3>4. CASE Rank(items[j]) # r BY <2>1, <3>1, <3>2, <3>4
    <3> QED BY <3>3, <3>4
  <2> QED BY <2>1, <2>2
<1> HIDE DEF Tops, Ranks
<1>9. /\ TopOf(items) \in DOMAIN items
      /\ \A j \in DOMAIN items :
            \/ Rank(items[TopOf(items)]) > Rank(items[j])
            \/ Rank(items[TopOf(items)]) = Rank(items[j]) /\ j <= TopOf(items)
  BY <1>8 DEF TopOf
<1>10. \A j \in DOMAIN items : Rank(items[j]) <= Rank(items[TopOf(items)])
  <2> TAKE j \in DOMAIN items
  <2>1. Rank(items[j]) \in Nat /\ Rank(items[TopOf(items)]) \in Nat BY <1>2, <1>9
  <2> QED BY <1>9, <2>1
<1> QED BY <1>9, <1>10

\* The ledger rolls: it holds no more than its maximum.
LEMMA Rolled ==
  ASSUME NEW items \in Seq(Items)
  PROVE  Roll(items) \in Seq(Items) /\ Len(Roll(items)) <= LedgerMax
<1>1. Len(items) \in Nat /\ LedgerMax \in Nat \ {0} BY InboxBounds
<1>2. CASE Len(items) > LedgerMax
  <2>1. Roll(items) = SubSeq(items, Len(items) - LedgerMax + 1, Len(items))
    BY <1>2 DEF Roll
  <2>2. \A i \in Len(items) - LedgerMax + 1 .. Len(items) : items[i] \in Items
    BY <1>1, <1>2
  <2>3. /\ SubSeq(items, Len(items) - LedgerMax + 1, Len(items)) \in Seq(Items)
        /\ Len(SubSeq(items, Len(items) - LedgerMax + 1, Len(items))) = LedgerMax
    BY <1>1, <1>2, <2>2, SubSeqProperties
  <2> QED BY <1>1, <2>1, <2>3
<1>3. CASE ~ (Len(items) > LedgerMax) BY <1>1, <1>3 DEF Roll
<1> QED BY <1>2, <1>3

\* How long the rest of a sequence is behind one of its places.
LEMMA BackLength ==
  ASSUME NEW n \in Nat, NEW m \in 1 .. n
  PROVE  (IF m + 1 <= n THEN n - (m + 1) + 1 ELSE 0) = n - m
<1>1. CASE m + 1 <= n BY <1>1
<1>2. CASE ~ (m + 1 <= n)
  <2>1. m = n BY <1>2
  <2> QED BY <1>2, <2>1
<1> QED BY <1>1, <1>2

\* Removing an item leaves all others, and nothing else.
LEMMA OneRemoved ==
  ASSUME NEW items \in Seq(Items), NEW item, \E i \in DOMAIN items : items[i] = item
  PROVE  /\ Without(items, item) \in Seq(Items)
         /\ \A i \in DOMAIN items : items[i] # item =>
               \E j \in DOMAIN Without(items, item) : Without(items, item)[j] = items[i]
         /\ \A j \in DOMAIN Without(items, item) :
               \E i \in DOMAIN items : Without(items, item)[j] = items[i]
<1> DEFINE T == {i \in DOMAIN items : items[i] = item}
           m == Max(T)
<1>1. Len(items) \in Nat /\ DOMAIN items = 1 .. Len(items) OBVIOUS
<1>2. T \in SUBSET (0 .. Len(items)) /\ T # {} BY <1>1
<1>3. \E x \in T : \A y \in T : x >= y BY <1>1, <1>2, Greatest
<1>4. m \in T BY <1>3 DEF Max
<1>5. m \in 1 .. Len(items) /\ items[m] = item BY <1>1, <1>4
<1> DEFINE front == SubSeq(items, 1, m - 1)
           back  == SubSeq(items, m + 1, Len(items))
<1>6. Without(items, item) = front \o back BY DEF Without, RemoveAt
<1> HIDE DEF m
<1>7. /\ front \in Seq(Items) /\ Len(front) = m - 1
      /\ \A i \in 1 .. m - 1 : front[i] = items[i]
  <2>1. \A i \in 1 .. m - 1 : items[i] \in Items BY <1>1, <1>5
  <2>2. /\ SubSeq(items, 1, m - 1) \in Seq(Items)
        /\ Len(SubSeq(items, 1, m - 1)) = IF 1 <= m - 1 THEN (m - 1) - 1 + 1 ELSE 0
        /\ \A i \in 1 .. (m - 1) - 1 + 1 : SubSeq(items, 1, m - 1)[i] = items[1 + i - 1]
    BY <1>5, <2>1, SubSeqProperties
  <2>3. (m - 1) - 1 + 1 = m - 1 /\ \A i \in 1 .. m - 1 : 1 + i - 1 = i BY <1>5
  <2> QED BY <1>5, <2>2, <2>3
<1>8. /\ back \in Seq(Items) /\ Len(back) = Len(items) - m
      /\ \A i \in 1 .. Len(items) - m : back[i] = items[m + i]
  <2>1. \A i \in m + 1 .. Len(items) : items[i] \in Items BY <1>1, <1>5
  <2>2. /\ SubSeq(items, m + 1, Len(items)) \in Seq(Items)
        /\ Len(SubSeq(items, m + 1, Len(items)))
             = IF m + 1 <= Len(items) THEN Len(items) - (m + 1) + 1 ELSE 0
        /\ \A i \in 1 .. Len(items) - (m + 1) + 1 :
             SubSeq(items, m + 1, Len(items))[i] = items[(m + 1) + i - 1]
    BY <1>1, <1>5, <2>1, SubSeqProperties
  <2>3. /\ Len(items) - (m + 1) + 1 = Len(items) - m
        /\ \A i \in 1 .. Len(items) - m : (m + 1) + i - 1 = m + i
    BY <1>1, <1>5
  <2>4. (IF m + 1 <= Len(items) THEN Len(items) - (m + 1) + 1 ELSE 0) = Len(items) - m
    BY <1>1, <1>5, BackLength
  <2>5. \A i \in 1 .. Len(items) - m : back[i] = items[m + i]
    <3> TAKE i \in 1 .. Len(items) - m
    <3>1. i \in 1 .. Len(items) - (m + 1) + 1 BY <2>3
    <3>2. back[i] = items[(m + 1) + i - 1] BY <2>2, <3>1
    <3> QED BY <2>3, <3>2
  <2> QED BY <2>2, <2>4, <2>5
<1> HIDE DEF front, back
<1>9. /\ front \o back \in Seq(Items)
      /\ Len(front \o back) = Len(front) + Len(back)
      /\ \A i \in 1 .. Len(front) + Len(back) :
            (front \o back)[i] = IF i <= Len(front) THEN front[i] ELSE back[i - Len(front)]
  BY <1>7, <1>8, ConcatProperties
<1>10. ASSUME NEW i \in DOMAIN items, items[i] # item
       PROVE  \E j \in DOMAIN (front \o back) : (front \o back)[j] = items[i]
  <2>1. i \in 1 .. Len(items) /\ i # m BY <1>1, <1>5, <1>10
  <2>2. Len(front) + Len(back) = Len(items) - 1 BY <1>1, <1>5, <1>7, <1>8
  <2>3. DOMAIN (front \o back) = 1 .. Len(items) - 1 BY <1>9, <2>2
  <2>4. CASE i < m
    <3>1. i \in 1 .. m - 1 /\ i \in 1 .. Len(items) - 1 BY <1>5, <2>1, <2>4
    <3>2. (front \o back)[i] = front[i] BY <1>7, <1>9, <2>2, <3>1
    <3> QED BY <1>7, <2>3, <3>1, <3>2
  <2>5. CASE i > m
    <3>1. i - 1 \in 1 .. Len(items) - 1 /\ ~ (i - 1 <= m - 1) /\ i - m \in 1 .. Len(items) - m
      BY <1>5, <2>1, <2>5
    <3>2. (i - 1) - (m - 1) = i - m /\ m + (i - m) = i BY <1>5, <2>1
    <3>3. (front \o back)[i - 1] = back[i - m] BY <1>7, <1>9, <2>2, <3>1, <3>2
    <3>4. back[i - m] = items[i] BY <1>8, <3>1, <3>2
    <3> QED BY <2>3, <3>1, <3>3, <3>4
  <2> QED BY <1>5, <2>1, <2>4, <2>5
<1>11. ASSUME NEW j \in DOMAIN (front \o back)
       PROVE  \E i \in DOMAIN items : (front \o back)[j] = items[i]
  <2>1. Len(front) + Len(back) = Len(items) - 1 BY <1>1, <1>5, <1>7, <1>8
  <2>2. j \in 1 .. Len(items) - 1 BY <1>9, <2>1
  <2>3. CASE j < m
    <3>1. j \in 1 .. m - 1 /\ j \in 1 .. Len(items) BY <1>1, <1>5, <2>2, <2>3
    <3>2. (front \o back)[j] = front[j] BY <1>7, <1>9, <2>1, <2>2, <3>1
    <3> QED BY <1>1, <1>7, <3>1, <3>2
  <2>4. CASE j >= m
    <3>1. ~ (j <= m - 1) /\ j - (m - 1) \in 1 .. Len(items) - m /\ m + (j - (m - 1)) = j + 1
      BY <1>1, <1>5, <2>2, <2>4
    <3>2. j + 1 \in 1 .. Len(items) BY <1>1, <2>2
    <3>3. (front \o back)[j] = back[j - (m - 1)] BY <1>7, <1>9, <2>1, <2>2, <3>1
    <3>4. back[j - (m - 1)] = items[j + 1] BY <1>8, <3>1
    <3> QED BY <1>1, <3>2, <3>3, <3>4
  <2> QED BY <1>5, <2>2, <2>3, <2>4
<1> QED BY <1>6, <1>9, <1>10, <1>11

-----------------------------------------------------------------------------

\* A pass that rests is one.
LEMMA RestingTyped == Resting \in Passes /\ NoFiles \in [Boxes -> Seq(Items)]
<1>1. NoFiles \in [Boxes -> Seq(Items)] BY DEF NoFiles
<1>2. <<>> \in Seq(Items) OBVIOUS
<1>3. "rest" \in Places BY DEF Places
<1> QED BY <1>1, <1>2, <1>3 DEF Resting, Passes

\* It holds at the beginning.
LEMMA BoxesInit == InboxInit => PassInv
<1> SUFFICES ASSUME InboxInit PROVE PassInv OBVIOUS
<1>1. /\ box = NoFiles /\ inboxer = [p \in Inboxers |-> Resting]
      /\ queued = {} /\ recorded = {} /\ dropped = {} /\ halts = 0
  BY DEF InboxInit
<1>2. box["sent"] = <<>> BY <1>1 DEF NoFiles, Boxes
<1>3. InboxTyped BY <1>1, <1>2, RestingTyped, InboxBounds DEF InboxTyped
<1>4. \A p \in Inboxers : inboxer[p].at = "rest" BY <1>1 DEF Resting
<1>5. AtWork /\ Removable /\ ReadsTrue BY <1>4 DEF AtWork, Removable, ReadsTrue
<1>6. ThoughtKept /\ AloneKept BY <1>1 DEF ThoughtKept, AloneKept
<1> QED BY <1>3, <1>5, <1>6 DEF PassInv

\* What a step of the pass p has to respect: the other passes are where they were.
LEMMA Others ==
  ASSUME PassInv, NEW p \in Inboxers, NEW s \in Passes, Goes(p, s)
  PROVE  /\ inboxer' \in [Inboxers -> Passes] /\ inboxer'[p] = s
         /\ \A q \in Inboxers \ {p} : inboxer'[q] = inboxer[q]
  BY DEF PassInv, InboxTyped, Goes

\* What was recorded stays so.
LEMMA StillRecorded ==
  ASSUME PassInv, recorded \subseteq recorded'
  PROVE  \A q \in Inboxers : inboxer[q].at = "remove" =>
             Named({Head(inboxer[q].top)}) \subseteq recorded'
<1> TAKE q \in Inboxers
<1>1. inboxer[q].at = "remove" => Named({Head(inboxer[q].top)}) \subseteq recorded
  BY DEF PassInv, Removable
<1> QED BY <1>1

\* The invariants about each pass, for a step of one of them.
LEMMA PassesKept ==
  ASSUME PassInv, NEW p \in Inboxers, NEW s \in Passes, Goes(p, s),
         \A q \in Inboxers : inboxer[q].at = "remove" =>
             Named({Head(inboxer[q].top)}) \subseteq recorded',
         s.at = "write" => s.todo # <<>>,
         s.at \in {"mark", "sent", "remove"} => s.top # <<>>,
         s.at \in {"sent", "remove"} =>
             \E b \in {"pending", "intrusive"} : \E i \in DOMAIN s.read[b] :
                 s.read[b][i] = Head(s.top),
         s.at = "remove" => Named({Head(s.top)}) \subseteq recorded'
  PROVE  AtWork' /\ Removable'
<1>1. /\ inboxer'[p] = s
      /\ \A q \in Inboxers \ {p} : inboxer'[q] = inboxer[q]
  BY Others
<1>2. AtWork'
  <2> SUFFICES ASSUME NEW q \in Inboxers
               PROVE  /\ inboxer'[q].at = "write" => inboxer'[q].todo # <<>>
                      /\ inboxer'[q].at \in {"mark", "sent", "remove"} => inboxer'[q].top # <<>>
    BY DEF AtWork
  <2>1. CASE q = p BY <1>1, <2>1
  <2>2. CASE q # p BY <1>1, <2>2 DEF PassInv, AtWork
  <2> QED BY <2>1, <2>2
<1>3. Removable'
  <2>1. ASSUME NEW q \in Inboxers
        PROVE  /\ inboxer'[q].at \in {"sent", "remove"} =>
                    \E b \in {"pending", "intrusive"} :
                      \E i \in DOMAIN inboxer'[q].read[b] :
                        inboxer'[q].read[b][i] = Head(inboxer'[q].top)
               /\ inboxer'[q].at = "remove" =>
                    Named({Head(inboxer'[q].top)}) \subseteq recorded'
    <3>1. CASE q = p BY <1>1, <3>1
    <3>2. CASE q # p
      <4>1. inboxer'[q] = inboxer[q] BY <1>1, <3>2
      <4>2. inboxer[q].at \in {"sent", "remove"} =>
              \E b \in {"pending", "intrusive"} : \E i \in DOMAIN inboxer[q].read[b] :
                inboxer[q].read[b][i] = Head(inboxer[q].top)
        BY DEF PassInv, Removable
      <4> QED BY <4>1, <4>2
    <3> QED BY <3>1, <3>2
  <2> QED BY <2>1 DEF Removable
<1> QED BY <1>2, <1>3

\* The boxes as they are read.
LEMMA CutTyped ==
  ASSUME PassInv, NEW bs
  PROVE  /\ Cut(bs) \in [Boxes -> Seq(Items)]
         /\ \A b \in Boxes : Cut(bs)[b] = IF b \in bs THEN <<>> ELSE box[b]
<1>1. box \in [Boxes -> Seq(Items)] BY DEF PassInv, InboxTyped
<1>2. <<>> \in Seq(Items) OBVIOUS
<1>3. \A b \in Boxes : (IF b \in bs THEN <<>> ELSE box[b]) \in Seq(Items) BY <1>1, <1>2
<1> QED BY <1>3 DEF Cut

\* A pass that runs alone reads what the boxes hold: no other is writing one.
LEMMA AloneReads ==
  ASSUME PassInv, OneAtATime, NEW p \in Inboxers, inboxer[p].at \in {"queue", "mark"},
         NEW cut \in SUBSET UnderWrite
  PROVE  Cut(cut) = box
<1>1. \A q \in Inboxers : q = p BY DEF OneAtATime
<1>2. \A q \in Inboxers : Writing(inboxer[q]) = {} BY <1>1 DEF Writing
<1>3. UnderWrite = {} BY <1>2 DEF UnderWrite
<1>4. cut = {} BY <1>3
<1>5. box \in [Boxes -> Seq(Items)] BY DEF PassInv, InboxTyped
<1> QED BY <1>4, <1>5 DEF Cut

\* A step that changes no box and tells nothing: a pass that reads has read the boxes.
LEMMA BoxesStay ==
  ASSUME PassInv, NEW p \in Inboxers, NEW s \in Passes, Goes(p, s),
         box' = box, queued' = queued, recorded' = recorded, dropped' = dropped,
         halts' = halts,
         OneAtATime => (s.at \in {"write", "sent", "remove"} =>
             \A b \in {"pending", "intrusive"} : s.read[b] = box[b])
  PROVE  ThoughtKept' /\ AloneKept' /\ (OneAtATime => ReadsTrue')
<1>1. inboxer'[p] = s BY Others
<1>2. ThoughtKept' BY DEF ThoughtKept, WaitsIn, PassInv
<1>3. AloneKept' BY DEF AloneKept, PassInv
<1>4. ASSUME OneAtATime PROVE ReadsTrue'
  <2>1. \A q \in Inboxers : q = p BY <1>4 DEF OneAtATime
  <2> QED BY <1>1, <1>4, <2>1 DEF ReadsTrue
<1> QED BY <1>2, <1>3, <1>4

\* A pass notices its observations, which it has yet to queue: none that another is
\* about to remove.
LEMMA NoticeKeeps ==
  ASSUME PassInv, NEW p \in Inboxers, NEW new \in Observations, Notice(p, new)
  PROVE  PassInv'
<1>1. PICK n \in 0 .. MaxAtOnce : new \in [1 .. n -> Thoughts \X Urgencies]
  BY DEF Observations
<1>2. DOMAIN new = 1 .. n /\ n \in Nat BY <1>1, InboxBounds
<1> DEFINE todo == IF new = <<>> THEN << <<Beat, "low">> >> ELSE new
           s == [Resting EXCEPT !.at = "queue", !.todo = todo]
<1>3. /\ Goes(p, s) /\ box' = box /\ halts' = halts
      /\ queued' = queued \ Named(Range(new)) /\ recorded' = recorded \ Named(Range(new))
      /\ dropped' = dropped \ Named(Range(new))
  BY DEF Notice
<1>4. new \in Seq(Items)
  <2>1. \A i \in 1 .. n : new[i] \in Items BY <1>1 DEF Items
  <2>2. new = [i \in 1 .. n |-> new[i]] BY <1>1
  <2> QED BY <1>2, <2>1, <2>2, IsASeq
<1>5. todo \in Seq(Items)
  <2>1. <<Beat, "low">> \in Items BY DEF Items
  <2>2. << <<Beat, "low">> >> \in Seq(Items) BY <2>1
  <2> QED BY <1>4, <2>2
<1> HIDE DEF todo
<1>6. s \in Passes /\ s.at = "queue" /\ s.todo = todo
  <2>1. "queue" \in Places BY DEF Places
  <2> QED BY <1>5, <2>1, RestingTyped DEF Passes, Resting
<1> HIDE DEF s
<1>7. InboxTyped' BY <1>3, <1>6, Others DEF PassInv, InboxTyped
<1>8. ASSUME NEW q \in Inboxers, inboxer[q].at = "remove"
      PROVE  Named({Head(inboxer[q].top)}) \subseteq recorded'
  <2>1. Named({Head(inboxer[q].top)}) \subseteq recorded BY <1>8 DEF PassInv, Removable
  <2>2. inboxer[q].top \in Seq(Items) /\ inboxer[q].top # <<>>
    BY <1>8 DEF PassInv, InboxTyped, AtWork, Passes
  <2>3. Head(inboxer[q].top) \in Range(inboxer[q].top)
    <3>1. PICK top \in Seq(Items) : top = inboxer[q].top BY <2>2
    <3>2. 1 \in DOMAIN top /\ Head(top) = top[1] BY <2>2, <3>1
    <3> QED BY <3>1, <3>2 DEF Range
  <2>4. ASSUME NEW t \in Named({Head(inboxer[q].top)}) PROVE t \notin Named(Range(new))
    <3>1. t \in Thoughts /\ t = Head(inboxer[q].top)[1] BY DEF Named
    <3>2. t \in Named(Range(inboxer[q].todo) \cup Range(inboxer[q].top))
      BY <2>3, <3>1 DEF Named
    <3>3. Left(t) BY <3>2 DEF Left
    <3>4. \A i \in DOMAIN new : ~Left(new[i][1]) BY DEF Notice
    <3>5. \A i \in DOMAIN new : new[i][1] # t BY <3>3, <3>4
    <3> QED BY <3>5 DEF Named, Range
  <2> QED BY <1>3, <2>1, <2>4
<1>9. AtWork' /\ Removable' BY <1>3, <1>6, <1>8, PassesKept
<1>10. ThoughtKept' BY <1>3 DEF PassInv, ThoughtKept, WaitsIn
<1>11. AloneKept' BY <1>3 DEF PassInv, AloneKept
<1>12. OneAtATime => ReadsTrue'
  <2> SUFFICES ASSUME OneAtATime PROVE ReadsTrue' OBVIOUS
  <2>1. \A q \in Inboxers : q = p BY DEF OneAtATime
  <2>2. inboxer'[p] = s BY <1>3, <1>6, Others
  <2> QED BY <1>6, <2>1, <2>2 DEF ReadsTrue
<1> QED BY <1>7, <1>9, <1>10, <1>11, <1>12 DEF PassInv, OneAtATime

\* It reads the box it will add to.
LEMMA QueueReadKeeps == ASSUME PassInv, NEW p \in Inboxers, QueueRead(p) PROVE PassInv'
<1>1. /\ inboxer[p].at = "queue" /\ inboxer[p].todo # <<>>
      /\ box' = box /\ queued' = queued /\ recorded' = recorded /\ dropped' = dropped
      /\ halts' = halts
  BY DEF QueueRead, tally
<1>2. PICK cut \in SUBSET UnderWrite :
        Goes(p, [inboxer[p] EXCEPT !.at = "write", !.read = Cut(cut)])
  BY DEF QueueRead
<1> DEFINE s == [inboxer[p] EXCEPT !.at = "write", !.read = Cut(cut)]
<1>3. Goes(p, s) BY <1>2
<1>4. inboxer[p] \in Passes BY DEF PassInv, InboxTyped
<1>5. s \in Passes /\ s.at = "write" /\ s.todo = inboxer[p].todo /\ s.read = Cut(cut)
  <2>1. "write" \in Places BY DEF Places
  <2>2. Cut(cut) \in [Boxes -> Seq(Items)] BY CutTyped
  <2> QED BY <1>4, <2>1, <2>2 DEF Passes
<1> HIDE DEF s
<1>6. InboxTyped' BY <1>1, <1>3, <1>5, Others DEF PassInv, InboxTyped
<1>7. \A q \in Inboxers : inboxer[q].at = "remove" =>
             Named({Head(inboxer[q].top)}) \subseteq recorded'
  BY <1>1, StillRecorded
<1>8. AtWork' /\ Removable' BY <1>1, <1>3, <1>5, <1>7, PassesKept
<1>9. OneAtATime => s.read = box BY <1>1, <1>5, AloneReads
<1>10. ThoughtKept' /\ AloneKept' /\ (OneAtATime => ReadsTrue')
  BY <1>1, <1>3, <1>5, <1>9, BoxesStay
<1> QED BY <1>6, <1>8, <1>10 DEF PassInv, OneAtATime

\* A box is rewritten, or not.
LEMMA Written ==
  ASSUME PassInv, NEW b \in Boxes, NEW items \in Seq(Items), NEW outcome,
         WriteBox(b, items, outcome), b = "sent" => Len(items) <= LedgerMax
  PROVE  /\ box' \in [Boxes -> Seq(Items)] /\ Len(box'["sent"]) <= LedgerMax
         /\ \A c \in Boxes \ {b} : box'[c] = box[c]
         /\ outcome # "refused" => box'[b] = items
         /\ box'[b] \in {items, box[b]}
<1>1. box \in [Boxes -> Seq(Items)] /\ Len(box["sent"]) <= LedgerMax
  BY DEF PassInv, InboxTyped
<1>2. "sent" \in Boxes BY DEF Boxes
<1>3. CASE outcome = "refused"
  <2>1. box' = box BY <1>3 DEF WriteBox
  <2> QED BY <1>1, <1>3, <2>1
<1>4. CASE outcome # "refused"
  <2>1. box' = [box EXCEPT ![b] = items] BY <1>4 DEF WriteBox
  <2>2. box'[b] = items /\ \A c \in Boxes \ {b} : box'[c] = box[c] BY <1>1, <2>1
  <2>3. box' \in [Boxes -> Seq(Items)] BY <1>1, <2>1
  <2>4. Len(box'["sent"]) <= LedgerMax BY <1>1, <1>2, <2>2
  <2> QED BY <2>2, <2>3, <2>4
<1> QED BY <1>3, <1>4

\* What is queued goes to one of the two boxes.
LEMMA TargetIsBox ==
  ASSUME NEW item
  PROVE  Target(item) \in {"pending", "intrusive"} /\ Target(item) \in Boxes
  BY DEF Target, Boxes

\* Writing a box from a copy that was read: a thought that waits is in what is written,
\* or has been recorded, or is dropped since the copy does not have it.
LEMMA WriteTells ==
  ASSUME PassInv, NEW b \in {"pending", "intrusive"}, NEW was \in Seq(Items),
         NEW items \in Seq(Items), NEW outcome, NEW gone,
         WriteBox(b, items, outcome),
         gone = (IF outcome = "refused" THEN {} ELSE Named(Range(box[b]) \ Range(was))),
         \A i \in DOMAIN was :
             \/ \E j \in DOMAIN items : items[j] = was[i]
             \/ Named({was[i]}) \subseteq recorded
  PROVE  \A t \in Thoughts, c \in {"pending", "intrusive"} :
             WaitsIn(t, c) => WaitsIn(t, c)' \/ t \in recorded \/ t \in gone
<1> SUFFICES ASSUME NEW t \in Thoughts, NEW c \in {"pending", "intrusive"}, WaitsIn(t, c)
             PROVE  WaitsIn(t, c)' \/ t \in recorded \/ t \in gone
  OBVIOUS
<1>1. b \in Boxes /\ c \in Boxes /\ b # "sent" BY DEF Boxes
<1>2. /\ \A d \in Boxes \ {b} : box'[d] = box[d]
      /\ outcome # "refused" => box'[b] = items
  BY <1>1, Written
<1>3. PICK i \in DOMAIN box[c] : box[c][i][1] = t BY DEF WaitsIn
<1>4. CASE c # b BY <1>1, <1>2, <1>3, <1>4 DEF WaitsIn
<1>5. CASE outcome = "refused" BY <1>3, <1>5 DEF WaitsIn, WriteBox
<1>6. CASE c = b /\ outcome # "refused" /\ box[b][i] \in Range(was)
  <2>1. PICK k \in DOMAIN was : was[k] = box[b][i] BY <1>6 DEF Range
  <2>2. CASE \E j \in DOMAIN items : items[j] = was[k]
    <3>1. PICK j \in DOMAIN items : items[j][1] = t BY <1>3, <1>6, <2>1, <2>2
    <3>2. box'[c] = items BY <1>2, <1>6
    <3> QED BY <3>1, <3>2 DEF WaitsIn
  <2>3. CASE Named({was[k]}) \subseteq recorded
    <3>1. t \in Named({was[k]}) BY <1>3, <1>6, <2>1 DEF Named
    <3> QED BY <2>3, <3>1
  <2> QED BY <2>2, <2>3
<1>7. CASE c = b /\ outcome # "refused" /\ box[b][i] \notin Range(was)
  <2>1. box[b][i] \in Range(box[b]) \ Range(was) BY <1>3, <1>7 DEF Range
  <2>2. t \in Named(Range(box[b]) \ Range(was)) BY <1>3, <1>7, <2>1 DEF Named
  <2> QED BY <1>7, <2>2
<1> QED BY <1>4, <1>5, <1>6, <1>7

\* What the thoughts need of a step: those that waited still do, or are told of.
LEMMA ThoughtsStay ==
  ASSUME PassInv, recorded \subseteq recorded', dropped \subseteq dropped',
         \A t \in queued' \ queued : WaitsIn(t, "pending")' \/ WaitsIn(t, "intrusive")',
         \A t \in Thoughts, c \in {"pending", "intrusive"} :
             WaitsIn(t, c) => WaitsIn(t, c)' \/ t \in recorded' \cup dropped'
  PROVE  ThoughtKept'
<1> SUFFICES ASSUME NEW t \in queued'
             PROVE  \/ WaitsIn(t, "pending")' \/ WaitsIn(t, "intrusive")'
                    \/ t \in recorded' \cup dropped'
  BY DEF ThoughtKept
<1>1. CASE t \notin queued BY <1>1
<1>2. CASE t \in queued
  <2>1. t \in Thoughts BY <1>2 DEF PassInv, InboxTyped
  <2>2. WaitsIn(t, "pending") \/ WaitsIn(t, "intrusive") \/ t \in recorded \cup dropped
    BY <1>2 DEF PassInv, ThoughtKept
  <2> QED BY <2>1, <2>2
<1> QED BY <1>1, <1>2

\* It writes the box back with one thought more.
LEMMA QueueWriteKeeps == ASSUME PassInv, NEW p \in Inboxers, QueueWrite(p) PROVE PassInv'
<1>1. PICK old \in Passes : old = inboxer[p] BY DEF PassInv, InboxTyped
<1>2. /\ old.at = "write" /\ old.todo # <<>> /\ old.todo \in Seq(Items)
      /\ old.read \in [Boxes -> Seq(Items)] /\ recorded' = recorded /\ halts' = halts
  BY <1>1 DEF QueueWrite, PassInv, AtWork, Passes
<1>3. PICK item \in Items : item = Head(old.todo) BY <1>2
<1>4. PICK b \in {"pending", "intrusive"} : b = Target(item) BY TargetIsBox
<1>5. b \in Boxes /\ b # "sent" BY DEF Boxes
<1>6. PICK was \in Seq(Items) : was = old.read[b] BY <1>2, <1>5
<1>7. PICK new : new = Append(was, item) OBVIOUS
<1>8. /\ new \in Seq(Items)
      /\ \A i \in DOMAIN was : i \in DOMAIN new /\ new[i] = was[i]
      /\ \E j \in DOMAIN new : new[j] = item
  <2>1. /\ Append(was, item) \in Seq(Items)
        /\ \A i \in DOMAIN was : /\ i \in DOMAIN Append(was, item)
                                 /\ Append(was, item)[i] = was[i]
        /\ Len(was) + 1 \in DOMAIN Append(was, item)
        /\ Append(was, item)[Len(was) + 1] = item
    OBVIOUS
  <2> QED BY <1>7, <2>1
<1>9. PICK outcome, gone :
        /\ WriteBox(b, new, outcome) /\ dropped' = dropped \cup gone
        /\ queued' = IF outcome = "refused" THEN queued ELSE queued \cup Named({item})
        /\ gone = (IF outcome = "refused" THEN {} ELSE Named(Range(box[b]) \ Range(was)))
  BY <1>1, <1>3, <1>4, <1>6, <1>7 DEF QueueWrite, DroppedBy
<1>10. PICK s : s = [old EXCEPT !.at = "queue", !.todo = Tail(@), !.read = NoFiles] OBVIOUS
<1>11. s \in Passes /\ s.at = "queue"
  <2>1. Tail(old.todo) \in Seq(Items) BY <1>2
  <2> QED BY <1>10, <2>1, RestingTyped DEF Passes, Places
<1>12. Goes(p, s) BY <1>1, <1>10 DEF QueueWrite
<1>13. /\ box' \in [Boxes -> Seq(Items)] /\ Len(box'["sent"]) <= LedgerMax
       /\ outcome # "refused" => box'[b] = new
  BY <1>5, <1>8, <1>9, Written
<1>14. InboxTyped'
  <2>1. queued' \subseteq Thoughts /\ dropped' \subseteq Thoughts
    BY <1>9 DEF Named, PassInv, InboxTyped
  <2> QED BY <1>2, <1>11, <1>12, <1>13, <2>1, Others DEF PassInv, InboxTyped
<1>15. AtWork' /\ Removable'
  <2>1. \A q \in Inboxers : inboxer[q].at = "remove" =>
             Named({Head(inboxer[q].top)}) \subseteq recorded'
    BY <1>2, StillRecorded
  <2> QED BY <1>11, <1>12, <2>1, PassesKept
<1>16. ThoughtKept'
  <2>1. ASSUME NEW t \in queued' \ queued
        PROVE  WaitsIn(t, "pending")' \/ WaitsIn(t, "intrusive")'
    <3>1. outcome # "refused" /\ t = item[1] BY <1>9 DEF Named
    <3>2. box'[b] = new BY <1>13, <3>1
    <3>3. WaitsIn(t, b)' BY <1>8, <3>1, <3>2 DEF WaitsIn
    <3> QED BY <3>3
  <2>2. \A t \in Thoughts, c \in {"pending", "intrusive"} :
           WaitsIn(t, c) => WaitsIn(t, c)' \/ t \in recorded \/ t \in gone
    <3>1. \A i \in DOMAIN was : \/ \E j \in DOMAIN new : new[j] = was[i]
                                \/ Named({was[i]}) \subseteq recorded
      BY <1>8
    <3>2. WriteBox(b, new, outcome) BY <1>9
    <3>3. gone = (IF outcome = "refused" THEN {} ELSE Named(Range(box[b]) \ Range(was)))
      BY <1>9
    <3>4. new \in Seq(Items) BY <1>8
    <3> QED BY <3>1, <3>2, <3>3, <3>4, WriteTells, ZenonT(40)
       DEF WaitsIn, WriteBox
  <2> QED BY <1>2, <1>9, <2>1, <2>2, ThoughtsStay
<1>17. ASSUME OneAtATime PROVE ReadsTrue' /\ gone = {}
  <2>1. \A q \in Inboxers : q = p BY <1>17 DEF OneAtATime
  <2>2. ReadsTrue' BY <1>11, <1>12, <2>1, Others DEF ReadsTrue
  <2>3. was = box[b] BY <1>1, <1>2, <1>6, <1>17 DEF PassInv, ReadsTrue
  <2> QED BY <1>9, <2>2, <2>3 DEF Named
<1>18. AloneKept' BY <1>2, <1>9, <1>17 DEF PassInv, AloneKept, OneAtATime
<1> QED BY <1>14, <1>15, <1>16, <1>17, <1>18 DEF PassInv, OneAtATime

\* It picks what it will surface.
LEMMA SurfaceKeeps == ASSUME PassInv, NEW p \in Inboxers, Surface(p) PROVE PassInv'
<1>1. PICK old \in Passes : old = inboxer[p] BY DEF PassInv, InboxTyped
<1>2. /\ box' = box /\ queued' = queued /\ recorded' = recorded /\ dropped' = dropped
      /\ halts' = halts
  BY DEF Surface, tally
<1>3. PICK cut \in SUBSET UnderWrite :
        IF NextBox(Cut(cut)) = <<>> THEN Goes(p, Resting)
        ELSE Goes(p, [old EXCEPT !.at = "mark",
                                 !.top = <<NextBox(Cut(cut))[TopOf(NextBox(Cut(cut)))]>>])
  BY <1>1 DEF Surface
<1>4. PICK items \in Seq(Items) : items = NextBox(Cut(cut))
  <2>1. Cut(cut) \in [Boxes -> Seq(Items)] BY CutTyped
  <2> QED BY <2>1 DEF NextBox, Boxes
<1>5. PICK s \in Passes : /\ Goes(p, s) /\ s.at \in {"rest", "mark"}
                          /\ s.at = "mark" => s.top # <<>>
  <2>1. CASE items = <<>>
    <3>1. Goes(p, Resting) /\ Resting.at = "rest" BY <1>3, <1>4, <2>1 DEF Resting
    <3> QED BY <3>1, RestingTyped
  <2>2. CASE items # <<>>
    <3>1. TopOf(items) \in DOMAIN items BY <2>2, TopIsThere
    <3>2. PICK it \in Items : it = items[TopOf(items)] BY <3>1
    <3>3. <<it>> \in Seq(Items) /\ <<it>> # <<>> OBVIOUS
    <3>4. PICK s : s = [old EXCEPT !.at = "mark", !.top = <<it>>] OBVIOUS
    <3>5. s \in Passes /\ s.at = "mark" /\ s.top # <<>>
      BY <3>3, <3>4 DEF Passes, Places
    <3>6. Goes(p, s) BY <1>3, <1>4, <2>2, <3>2, <3>4
    <3> QED BY <3>5, <3>6
  <2> QED BY <2>1, <2>2
<1>6. InboxTyped' BY <1>2, <1>5, Others DEF PassInv, InboxTyped
<1>7. \A q \in Inboxers : inboxer[q].at = "remove" =>
             Named({Head(inboxer[q].top)}) \subseteq recorded'
  BY <1>2, StillRecorded
<1>8. AtWork' /\ Removable' BY <1>5, <1>7, PassesKept
<1>9. ThoughtKept' /\ AloneKept' /\ (OneAtATime => ReadsTrue')
  BY <1>2, <1>5, BoxesStay
<1> QED BY <1>6, <1>8, <1>9 DEF PassInv, OneAtATime

\* It picks what it will deliver.
LEMMA DrainKeeps == ASSUME PassInv, NEW p \in Inboxers, Drain(p) PROVE PassInv'
<1> DEFINE s == [Resting EXCEPT !.at = "mark", !.top = box["intrusive"]]
<1>1. /\ box["intrusive"] # <<>> /\ Goes(p, s)
      /\ box' = box /\ queued' = queued /\ recorded' = recorded /\ dropped' = dropped
      /\ halts' = halts
  BY DEF Drain, tally
<1>2. box["intrusive"] \in Seq(Items)
  <2>1. "intrusive" \in Boxes BY DEF Boxes
  <2> QED BY <2>1 DEF PassInv, InboxTyped
<1>3. s \in Passes /\ s.at = "mark" /\ s.top = box["intrusive"]
  <2>1. "mark" \in Places BY DEF Places
  <2> QED BY <1>2, <2>1, RestingTyped DEF Passes
<1> HIDE DEF s
<1>4. InboxTyped' BY <1>1, <1>3, Others DEF PassInv, InboxTyped
<1>5. \A q \in Inboxers : inboxer[q].at = "remove" =>
             Named({Head(inboxer[q].top)}) \subseteq recorded'
  BY <1>1, StillRecorded
<1>6. AtWork' /\ Removable' BY <1>1, <1>3, <1>5, PassesKept
<1>7. ThoughtKept' /\ AloneKept' /\ (OneAtATime => ReadsTrue') BY <1>1, <1>3, BoxesStay
<1> QED BY <1>4, <1>6, <1>7 DEF PassInv, OneAtATime

\* The next one to mark.
LEMMA MarkedTyped ==
  ASSUME NEW s \in Passes, s.top # <<>>
  PROVE  /\ Marked(s) \in Passes /\ Marked(s).at \in {"rest", "mark"}
         /\ Marked(s).todo \in {<<>>, s.todo}
         /\ Marked(s).at = "mark" => Marked(s).top # <<>>
<1>1. CASE Len(s.top) = 1
  <2>1. Marked(s) = Resting /\ Resting.at = "rest" /\ Resting.todo = <<>>
    BY <1>1 DEF Marked, Resting
  <2> QED BY <2>1, RestingTyped
<1>2. CASE Len(s.top) # 1
  <2> DEFINE n == [s EXCEPT !.at = "mark", !.top = Tail(@), !.read = NoFiles]
  <2>1. Marked(s) = n BY <1>2 DEF Marked
  <2>2. s.top \in Seq(Items) BY DEF Passes
  <2>3. Tail(s.top) \in Seq(Items) /\ Tail(s.top) # <<>>
    <3>1. PICK top \in Seq(Items) : top = s.top BY <2>2
    <3>2. Len(top) \in Nat /\ Len(top) # 0 /\ Len(top) # 1 BY <1>2, <3>1
    <3>3. Tail(top) \in Seq(Items) /\ Len(Tail(top)) = Len(top) - 1
      BY <3>2, HeadTailProperties
    <3>4. Len(Tail(top)) # 0 BY <3>2, <3>3
    <3> QED BY <3>1, <3>3, <3>4
  <2>4. "mark" \in Places BY DEF Places
  <2>5. n \in Passes /\ n.at = "mark" /\ n.todo = s.todo /\ n.top = Tail(s.top)
    BY <2>3, <2>4, RestingTyped DEF Passes
  <2> QED BY <2>1, <2>3, <2>5
<1> QED BY <1>1, <1>2

\* It reads the boxes before it marks what it delivered.
LEMMA MarkReadKeeps == ASSUME PassInv, NEW p \in Inboxers, MarkRead(p) PROVE PassInv'
<1>1. PICK old \in Passes : old = inboxer[p] BY DEF PassInv, InboxTyped
<1>2. /\ old.at = "mark" /\ old.top # <<>>
      /\ box' = box /\ queued' = queued /\ recorded' = recorded /\ dropped' = dropped
      /\ halts' = halts
  BY <1>1 DEF MarkRead, tally, PassInv, AtWork
<1>3. PICK cut \in SUBSET UnderWrite :
        IF Head(old.top) \in Range(Cut(cut)["intrusive"] \o Cut(cut)["pending"])
          THEN Goes(p, [old EXCEPT !.at = "sent", !.read = Cut(cut)])
          ELSE Goes(p, Marked(old))
  BY <1>1 DEF MarkRead
<1>4. PICK files \in [Boxes -> Seq(Items)] : files = Cut(cut) BY CutTyped
<1>5. "intrusive" \in Boxes /\ "pending" \in Boxes BY DEF Boxes
<1>6. PICK s \in Passes :
        /\ Goes(p, s) /\ s.at \in {"rest", "mark", "sent"}
        /\ s.at # "rest" => s.top # <<>>
        /\ s.at = "sent" =>
             /\ s.read = files
             /\ \E b \in {"pending", "intrusive"} : \E i \in DOMAIN files[b] :
                  files[b][i] = Head(s.top)
  <2>1. CASE Head(old.top) \in Range(files["intrusive"] \o files["pending"])
    <3>1. PICK s : s = [old EXCEPT !.at = "sent", !.read = files] OBVIOUS
    <3>2. Goes(p, s) BY <1>3, <1>4, <2>1, <3>1
    <3>3. s \in Passes /\ s.at = "sent" /\ s.read = files /\ s.top = old.top
      BY <3>1 DEF Passes, Places
    <3>4. \E b \in {"pending", "intrusive"} : \E i \in DOMAIN files[b] :
            files[b][i] = Head(old.top)
      <4>1. PICK u \in Seq(Items), v \in Seq(Items) :
              u = files["intrusive"] /\ v = files["pending"]
        BY <1>5
      <4>2. PICK i \in DOMAIN (u \o v) : (u \o v)[i] = Head(old.top) BY <2>1, <4>1 DEF Range
      <4>3. /\ u \o v \in Seq(Items) /\ Len(u \o v) = Len(u) + Len(v)
            /\ \A j \in 1 .. Len(u) + Len(v) :
                 (u \o v)[j] = IF j <= Len(u) THEN u[j] ELSE v[j - Len(u)]
        BY ConcatProperties
      <4>4. i \in 1 .. Len(u) + Len(v) BY <4>3
      <4>5. CASE i <= Len(u)
        <5>1. i \in DOMAIN u /\ u[i] = Head(old.top) BY <4>2, <4>3, <4>4, <4>5
        <5> QED BY <4>1, <5>1
      <4>6. CASE ~ (i <= Len(u))
        <5>1. i - Len(u) \in DOMAIN v /\ v[i - Len(u)] = Head(old.top)
          BY <4>2, <4>3, <4>4, <4>6
        <5> QED BY <4>1, <5>1
      <4> QED BY <4>5, <4>6
    <3> QED BY <1>2, <3>2, <3>3, <3>4
  <2>2. CASE Head(old.top) \notin Range(files["intrusive"] \o files["pending"])
    <3>1. Goes(p, Marked(old)) BY <1>3, <1>4, <2>2
    <3>2. /\ Marked(old) \in Passes /\ Marked(old).at \in {"rest", "mark"}
          /\ Marked(old).at = "mark" => Marked(old).top # <<>>
      BY <1>2, MarkedTyped
    <3> QED BY <3>1, <3>2
  <2> QED BY <2>1, <2>2
<1>7. InboxTyped' BY <1>2, <1>6, Others DEF PassInv, InboxTyped
<1>8. \A q \in Inboxers : inboxer[q].at = "remove" =>
             Named({Head(inboxer[q].top)}) \subseteq recorded'
  BY <1>2, StillRecorded
<1>9. AtWork' /\ Removable' BY <1>6, <1>8, PassesKept
<1>10. OneAtATime => files = box BY <1>1, <1>2, <1>4, AloneReads
<1>11. ThoughtKept' /\ AloneKept' /\ (OneAtATime => ReadsTrue')
  BY <1>2, <1>6, <1>10, BoxesStay
<1> QED BY <1>7, <1>9, <1>11 DEF PassInv, OneAtATime

\* It records it in the ledger of what was sent.
LEMMA MarkSentKeeps == ASSUME PassInv, NEW p \in Inboxers, MarkSent(p) PROVE PassInv'
<1>1. PICK old \in Passes : old = inboxer[p] BY DEF PassInv, InboxTyped
<1>2. /\ old.at = "sent" /\ old.top \in Seq(Items) /\ old.top # <<>>
      /\ old.read \in [Boxes -> Seq(Items)]
      /\ queued' = queued /\ dropped' = dropped /\ halts' = halts
  BY <1>1 DEF MarkSent, PassInv, AtWork, Passes
<1>3. "sent" \in Boxes BY DEF Boxes
<1>4. PICK item \in Items : item = Head(old.top) BY <1>2
<1>5. PICK new \in Seq(Items) :
        new = Roll(Append(old.read["sent"], item)) /\ Len(new) <= LedgerMax
  <2>1. Append(old.read["sent"], item) \in Seq(Items) BY <1>2, <1>3
  <2> QED BY <2>1, Rolled
<1>6. PICK outcome :
        /\ WriteBox("sent", new, outcome)
        /\ recorded' = IF outcome = "refused" THEN recorded ELSE recorded \cup Named({item})
        /\ Goes(p, IF Recorded(outcome) THEN [old EXCEPT !.at = "remove"] ELSE Marked(old))
  BY <1>1, <1>4, <1>5 DEF MarkSent
<1>7. /\ box' \in [Boxes -> Seq(Items)] /\ Len(box'["sent"]) <= LedgerMax
      /\ \A c \in Boxes \ {"sent"} : box'[c] = box[c]
  BY <1>3, <1>5, <1>6, Written
<1>8. box'["pending"] = box["pending"] /\ box'["intrusive"] = box["intrusive"]
  BY <1>7 DEF Boxes
<1>9. recorded \subseteq recorded' /\ recorded' \subseteq Thoughts
  BY <1>6 DEF PassInv, InboxTyped, Named
<1>10. PICK s \in Passes :
         /\ Goes(p, s) /\ s.at \in {"rest", "mark", "remove"}
         /\ s.at # "rest" => s.top # <<>>
         /\ s.at = "remove" =>
              /\ s.top = old.top /\ s.read = old.read
              /\ Named({Head(old.top)}) \subseteq recorded'
  <2>1. CASE Recorded(outcome)
    <3>1. PICK s : s = [old EXCEPT !.at = "remove"] OBVIOUS
    <3>2. /\ s \in Passes /\ s.at = "remove" /\ s.read = old.read /\ s.top = old.top
      BY <3>1 DEF Passes, Places
    <3>3. Named({Head(old.top)}) \subseteq recorded' BY <1>4, <1>6, <2>1 DEF Recorded
    <3>4. Goes(p, s) BY <1>6, <2>1, <3>1
    <3> QED BY <1>2, <3>2, <3>3, <3>4
  <2>2. CASE ~Recorded(outcome)
    <3>1. Goes(p, Marked(old)) BY <1>6, <2>2
    <3>2. /\ Marked(old) \in Passes /\ Marked(old).at \in {"rest", "mark"}
          /\ Marked(old).at = "mark" => Marked(old).top # <<>>
      BY <1>2, MarkedTyped
    <3> QED BY <3>1, <3>2
  <2> QED BY <2>1, <2>2
<1>11. s.at = "remove" =>
         \E b \in {"pending", "intrusive"} : \E i \in DOMAIN s.read[b] :
             s.read[b][i] = Head(s.top)
  <2>1. \E b \in {"pending", "intrusive"} : \E i \in DOMAIN old.read[b] :
          old.read[b][i] = Head(old.top)
    BY <1>1, <1>2 DEF PassInv, Removable
  <2> QED BY <1>10, <2>1
<1>12. InboxTyped' BY <1>2, <1>7, <1>9, <1>10, Others DEF PassInv, InboxTyped
<1>13. \A q \in Inboxers : inboxer[q].at = "remove" =>
             Named({Head(inboxer[q].top)}) \subseteq recorded'
  BY <1>9, StillRecorded
<1>14. AtWork' /\ Removable'
  <2>1. s.at = "remove" => Named({Head(s.top)}) \subseteq recorded' BY <1>10
  <2> QED BY <1>10, <1>11, <1>13, <2>1, PassesKept
<1>15. ThoughtKept' BY <1>2, <1>8, <1>9 DEF PassInv, ThoughtKept, WaitsIn
<1>16. AloneKept' BY <1>2 DEF PassInv, AloneKept
<1>17. ASSUME OneAtATime PROVE ReadsTrue'
  <2>1. \A q \in Inboxers : q = p BY <1>17 DEF OneAtATime
  <2>2. inboxer'[p] = s BY <1>10, Others
  <2>3. \A b \in {"pending", "intrusive"} : old.read[b] = box[b]
    BY <1>1, <1>2, <1>17 DEF PassInv, ReadsTrue
  <2> QED BY <1>8, <1>10, <2>1, <2>2, <2>3 DEF ReadsTrue
<1> QED BY <1>12, <1>14, <1>15, <1>16, <1>17 DEF PassInv, OneAtATime

\* It takes it out of the box it was in.
LEMMA MarkRemoveKeeps == ASSUME PassInv, NEW p \in Inboxers, MarkRemove(p) PROVE PassInv'
<1>1. PICK old \in Passes : old = inboxer[p] BY DEF PassInv, InboxTyped
<1>2. /\ old.at = "remove" /\ old.top \in Seq(Items) /\ old.top # <<>>
      /\ old.read \in [Boxes -> Seq(Items)]
      /\ queued' = queued /\ recorded' = recorded /\ halts' = halts
  BY <1>1 DEF MarkRemove, PassInv, AtWork, Passes
<1>3. PICK item \in Items : item = Head(old.top) BY <1>2
<1>4. Named({item}) \subseteq recorded BY <1>1, <1>2, <1>3 DEF PassInv, Removable
<1>5. PICK b \in {"pending", "intrusive"} : b = RemovesFrom(old) BY DEF RemovesFrom
<1>6. b \in Boxes /\ b # "sent" BY DEF Boxes
<1>7. PICK was \in Seq(Items) : was = old.read[b] BY <1>2, <1>6
<1>8. \E i \in DOMAIN was : was[i] = item
  <2>1. PICK c \in {"pending", "intrusive"} : \E i \in DOMAIN old.read[c] :
          old.read[c][i] = item
    BY <1>1, <1>2, <1>3 DEF PassInv, Removable
  <2>2. CASE item \in Range(old.read["intrusive"])
    BY <1>3, <1>5, <1>7, <2>2 DEF Range, RemovesFrom
  <2>3. CASE item \notin Range(old.read["intrusive"])
    <3>1. c = "pending" /\ b = "pending" BY <1>3, <1>5, <2>1, <2>3 DEF Range, RemovesFrom
    <3> QED BY <1>7, <2>1, <3>1
  <2> QED BY <2>2, <2>3
<1>9. PICK left : left = Without(was, item) OBVIOUS
<1>10. /\ left \in Seq(Items)
       /\ \A i \in DOMAIN was : was[i] # item => \E j \in DOMAIN left : left[j] = was[i]
  BY <1>8, <1>9, OneRemoved
<1>11. PICK outcome, gone :
         /\ WriteBox(b, left, outcome) /\ dropped' = dropped \cup gone
         /\ gone = (IF outcome = "refused" THEN {} ELSE Named(Range(box[b]) \ Range(was)))
  BY <1>1, <1>3, <1>5, <1>7, <1>9 DEF MarkRemove, DroppedBy
<1>12. box' \in [Boxes -> Seq(Items)] /\ Len(box'["sent"]) <= LedgerMax
  BY <1>6, <1>10, <1>11, Written
<1>13. PICK s \in Passes :
         /\ s = Marked(old) /\ s.at \in {"rest", "mark"}
         /\ s.at = "mark" => s.top # <<>>
  BY <1>2, MarkedTyped
<1>14. Goes(p, s) BY <1>1, <1>13 DEF MarkRemove
<1>15. InboxTyped'
  <2>1. dropped' \subseteq Thoughts BY <1>11 DEF Named, PassInv, InboxTyped
  <2> QED BY <1>2, <1>12, <1>14, <2>1, Others DEF PassInv, InboxTyped
<1>16. AtWork' /\ Removable'
  <2>1. \A q \in Inboxers : inboxer[q].at = "remove" =>
             Named({Head(inboxer[q].top)}) \subseteq recorded'
    BY <1>2, StillRecorded
  <2> QED BY <1>13, <1>14, <2>1, PassesKept
<1>17. ThoughtKept'
  <2>1. \A i \in DOMAIN was : \/ \E j \in DOMAIN left : left[j] = was[i]
                              \/ Named({was[i]}) \subseteq recorded
    BY <1>4, <1>10
  <2>2. \A t \in Thoughts, c \in {"pending", "intrusive"} :
           WaitsIn(t, c) => WaitsIn(t, c)' \/ t \in recorded \/ t \in gone
    <3>1. WriteBox(b, left, outcome) BY <1>11
    <3>2. gone = (IF outcome = "refused" THEN {} ELSE Named(Range(box[b]) \ Range(was)))
      BY <1>11
    <3>3. left \in Seq(Items) BY <1>10
    <3> QED BY <2>1, <3>1, <3>2, <3>3, WriteTells, ZenonT(40)
       DEF WaitsIn, WriteBox
  <2> QED BY <1>2, <1>11, <2>2, ThoughtsStay
<1>18. ASSUME OneAtATime PROVE ReadsTrue' /\ gone = {}
  <2>1. \A q \in Inboxers : q = p BY <1>18 DEF OneAtATime
  <2>2. ReadsTrue' BY <1>13, <1>14, <2>1, Others DEF ReadsTrue
  <2>3. was = box[b] BY <1>1, <1>2, <1>7, <1>18 DEF PassInv, ReadsTrue
  <2> QED BY <1>11, <2>2, <2>3 DEF Named
<1>19. AloneKept' BY <1>2, <1>11, <1>18 DEF PassInv, AloneKept, OneAtATime
<1> QED BY <1>15, <1>16, <1>17, <1>18, <1>19 DEF PassInv, OneAtATime

\* The process stops, and what is in the boxes stays, but for what was being written.
LEMMA InboxStopKeeps == ASSUME PassInv, InboxStop PROVE PassInv'
<1>1. /\ halts < MaxHalts /\ halts' = halts + 1
      /\ inboxer' = [p \in Inboxers |-> Resting]
      /\ queued' = queued /\ recorded' = recorded
  BY DEF InboxStop
<1>2. PICK cut \in SUBSET UnderWrite :
        /\ box' = Cut(cut)
        /\ dropped' = dropped \cup Named(UNION {Range(box[b]) : b \in cut \ {"sent"}})
  BY DEF InboxStop
<1>3. /\ box' \in [Boxes -> Seq(Items)]
      /\ \A b \in Boxes : box'[b] = IF b \in cut THEN <<>> ELSE box[b]
  BY <1>2, CutTyped
<1>4. halts' \in 0 .. MaxHalts /\ halts' # 0
  BY <1>1, InboxBounds DEF PassInv, InboxTyped
<1>5. InboxTyped'
  <2>1. dropped' \subseteq Thoughts BY <1>2 DEF Named, PassInv, InboxTyped
  <2>2. "sent" \in Boxes BY DEF Boxes
  <2>3. Len(box'["sent"]) <= LedgerMax
    <3>1. CASE "sent" \in cut
      <4>1. box'["sent"] = <<>> BY <1>3, <2>2, <3>1
      <4>2. Len(<<>>) = 0 OBVIOUS
      <4> QED BY <4>1, <4>2, InboxBounds
    <3>2. CASE "sent" \notin cut BY <1>3, <2>2, <3>2 DEF PassInv, InboxTyped
    <3> QED BY <3>1, <3>2
  <2> QED BY <1>1, <1>3, <1>4, <2>1, <2>3, RestingTyped DEF PassInv, InboxTyped
<1>6. \A p \in Inboxers : inboxer'[p].at = "rest" BY <1>1 DEF Resting
<1>7. AtWork' /\ Removable' /\ ReadsTrue' BY <1>6 DEF AtWork, Removable, ReadsTrue
<1>8. ThoughtKept'
  <2>1. ASSUME NEW t \in Thoughts, NEW c \in {"pending", "intrusive"}, WaitsIn(t, c)
        PROVE  WaitsIn(t, c)' \/ t \in recorded' \cup dropped'
    <3>1. c \in Boxes /\ c # "sent" BY DEF Boxes
    <3>2. CASE c \notin cut BY <1>3, <2>1, <3>1, <3>2 DEF WaitsIn
    <3>3. CASE c \in cut
      <4>1. PICK i \in DOMAIN box[c] : box[c][i][1] = t BY <2>1 DEF WaitsIn
      <4>2. box[c][i] \in UNION {Range(box[b]) : b \in cut \ {"sent"}}
        BY <3>1, <3>3, <4>1 DEF Range
      <4>3. t \in Named(UNION {Range(box[b]) : b \in cut \ {"sent"}})
        BY <4>1, <4>2 DEF Named
      <4> QED BY <1>2, <4>3
    <3> QED BY <3>2, <3>3
  <2> QED BY <1>1, <1>2, <2>1, ThoughtsStay
<1>9. AloneKept' BY <1>4 DEF AloneKept
<1> QED BY <1>5, <1>7, <1>8, <1>9 DEF PassInv

\* Nothing happens.
LEMMA InboxStays == ASSUME PassInv, UNCHANGED inbox PROVE PassInv'
<1>1. /\ halts' = halts /\ inboxer' = inboxer /\ box' = box
      /\ queued' = queued /\ recorded' = recorded /\ dropped' = dropped
  BY DEF inbox, tally
<1> QED BY <1>1 DEF PassInv, InboxTyped, AtWork, Removable, ReadsTrue,
                    ThoughtKept, AloneKept, WaitsIn, OneAtATime

-----------------------------------------------------------------------------

\* Every step keeps it.
LEMMA InboxStepKeeps == ASSUME PassInv, [InboxNext]_inbox PROVE PassInv'
<1>1. ASSUME NEW p \in Inboxers, Beginning(p) PROVE PassInv'
  BY <1>1, NoticeKeeps DEF Beginning
<1>2. ASSUME NEW p \in Inboxers, Drain(p) PROVE PassInv' BY <1>2, DrainKeeps
<1>3. ASSUME NEW p \in Inboxers, InboxStep(p) PROVE PassInv'
  <2>1. CASE QueueRead(p) BY <2>1, QueueReadKeeps
  <2>2. CASE QueueWrite(p) BY <2>2, QueueWriteKeeps
  <2>3. CASE Surface(p) BY <2>3, SurfaceKeeps
  <2>4. CASE MarkRead(p) BY <2>4, MarkReadKeeps
  <2>5. CASE MarkSent(p) BY <2>5, MarkSentKeeps
  <2>6. CASE MarkRemove(p) BY <2>6, MarkRemoveKeeps
  <2> QED BY <1>3, <2>1, <2>2, <2>3, <2>4, <2>5, <2>6 DEF InboxStep
<1>4. CASE InboxStop BY <1>4, InboxStopKeeps
<1>5. CASE UNCHANGED inbox BY <1>5, InboxStays
<1> QED BY <1>1, <1>2, <1>3, <1>4, <1>5 DEF InboxNext

\* It is stronger than the types.
LEMMA BoxesTyped == PassInv => InboxTypeOK
<1> SUFFICES ASSUME PassInv PROVE InboxTypeOK OBVIOUS
<1>1. InboxTyped BY DEF PassInv
<1>2. \A p \in Inboxers : inboxer[p] \in Passes BY <1>1 DEF InboxTyped
<1> QED BY <1>1, <1>2 DEF InboxTyped, InboxTypeOK, Passes, Places

\* It holds in every state.
LEMMA PassesAreKept == InboxSpec => []PassInv
<1>1. InboxInit => PassInv BY BoxesInit
<1>2. PassInv /\ [InboxNext]_inbox => PassInv' BY InboxStepKeeps
<1> QED BY <1>1, <1>2, PTL DEF InboxSpec

\* However many passes overlap, the ledger stays within SENT_LEDGER_MAX and every file
\* holds items only (subconscious/mod.rs).
THEOREM InboxTypes == InboxSpec => []InboxTypeOK
  BY BoxesTyped, PassesAreKept, PTL

\* However many passes overlap, and wherever they are stopped, nothing queued is lost by
\* a refusal or a failed commit between any two steps of mark_delivered and queue: it waits
\* in one of the two boxes until it has been in the ledger, unless its box was written from
\* an older copy or cut short; and a pass that runs alone and is not stopped, whatever is
\* refused to it, drops nothing in either way.
THEOREM ThoughtsKept == InboxSpec => []InboxInv
<1>1. PassInv => InboxInv BY BoxesTyped DEF PassInv, InboxInv
<1> QED BY <1>1, PassesAreKept, PTL

-----------------------------------------------------------------------------
(*****************************************************************************)
(* What is urgent surfaces first.  The intrusive box is looked at before the *)
(* pending one, so the two boxes must be sorted (Sorted), and so must be what *)
(* a pass has read of them and will write back.                              *)
(*****************************************************************************)

Sorted(boxes) ==
    \A b \in {"pending", "intrusive"} : \A i \in DOMAIN boxes[b] : Target(boxes[b][i]) = b

SortedInv ==
    /\ Sorted(box)
    /\ \A p \in Inboxers :
         inboxer[p].at \in {"write", "sent", "remove"} => Sorted(inboxer[p].read)

\* What is appended is sorted when it goes where it belongs.
LEMMA OneSorted ==
  ASSUME NEW items \in Seq(Items), NEW item \in Items, NEW b, Target(item) = b,
         \A i \in DOMAIN items : Target(items[i]) = b
  PROVE  \A i \in DOMAIN Append(items, item) : Target(Append(items, item)[i]) = b
<1>1. PICK n \in Nat : n = Len(items) /\ DOMAIN items = 1 .. n OBVIOUS
<1>2. PICK new : new = Append(items, item) OBVIOUS
<1>3. /\ DOMAIN new = 1 .. n + 1 /\ new[n + 1] = item /\ \A i \in 1 .. n : new[i] = items[i]
  BY <1>1, <1>2
<1>4. ASSUME NEW i \in 1 .. n + 1 PROVE Target(new[i]) = b
  <2>1. i \in 1 .. n \/ i = n + 1 BY <1>1
  <2> QED BY <1>1, <1>3, <2>1
<1> QED BY <1>2, <1>3, <1>4

\* It holds at the beginning.
LEMMA SortedInit == InboxInit => SortedInv
<1> SUFFICES ASSUME InboxInit PROVE SortedInv OBVIOUS
<1>1. box = NoFiles /\ \A p \in Inboxers : inboxer[p].at = "rest"
  BY DEF InboxInit, Resting
<1>2. box["pending"] = <<>> /\ box["intrusive"] = <<>> BY <1>1 DEF NoFiles, Boxes
<1>3. Sorted(box) BY <1>2 DEF Sorted
<1> QED BY <1>1, <1>3 DEF SortedInv

\* The boxes stay sorted when a pass writes back one that is, and a pass has read them.
LEMMA SortedKept ==
  ASSUME PassInv, SortedInv, Sorted(box'), NEW p \in Inboxers, NEW s \in Passes, Goes(p, s),
         s.at \in {"write", "sent", "remove"} => Sorted(s.read)
  PROVE  SortedInv'
<1>1. inboxer'[p] = s /\ \A q \in Inboxers \ {p} : inboxer'[q] = inboxer[q] BY Others
<1>2. ASSUME NEW q \in Inboxers, inboxer'[q].at \in {"write", "sent", "remove"}
      PROVE  Sorted(inboxer'[q].read)
  <2>1. CASE q = p BY <1>1, <1>2, <2>1
  <2>2. CASE q # p BY <1>1, <1>2, <2>2 DEF SortedInv
  <2> QED BY <2>1, <2>2
<1> QED BY <1>2 DEF SortedInv, Sorted

\* Another box is written back sorted.
LEMMA WriteSorted ==
  ASSUME PassInv, SortedInv, NEW b \in {"pending", "intrusive"}, NEW items \in Seq(Items),
         \A i \in DOMAIN items : Target(items[i]) = b, NEW outcome, WriteBox(b, items, outcome)
  PROVE  Sorted(box')
<1>1. b \in Boxes /\ b # "sent" /\ {"pending", "intrusive"} \subseteq Boxes BY DEF Boxes
<1>2. /\ \A c \in Boxes \ {b} : box'[c] = box[c]
      /\ box'[b] \in {items, box[b]}
  BY <1>1, Written
<1>3. ASSUME NEW c \in {"pending", "intrusive"}, NEW i \in DOMAIN box'[c]
      PROVE  Target(box'[c][i]) = c
  <2>1. \A j \in DOMAIN box[c] : Target(box[c][j]) = c BY DEF SortedInv, Sorted
  <2>2. CASE c = b /\ box'[b] = items BY <2>2
  <2>3. CASE box'[c] = box[c] BY <2>1, <2>3
  <2> QED BY <1>1, <1>2, <2>2, <2>3
<1> QED BY <1>3 DEF Sorted

\* A box that is cut short is as sorted as it was.
LEMMA CutSorted == ASSUME PassInv, Sorted(box), NEW bs PROVE Sorted(Cut(bs))
<1>1. {"pending", "intrusive"} \subseteq Boxes BY DEF Boxes
<1>2. \A b \in Boxes : Cut(bs)[b] = IF b \in bs THEN <<>> ELSE box[b] BY CutTyped
<1>3. ASSUME NEW b \in {"pending", "intrusive"}, NEW i \in DOMAIN Cut(bs)[b]
      PROVE  Target(Cut(bs)[b][i]) = b
  <2>1. Cut(bs)[b] = box[b]
    <3>1. CASE b \in bs
      <4>1. Cut(bs)[b] = <<>> BY <1>1, <1>2, <3>1
      <4> QED BY <1>3, <4>1
    <3>2. CASE b \notin bs BY <1>1, <1>2, <3>2
    <3> QED BY <3>1, <3>2
  <2> QED BY <1>3, <2>1 DEF Sorted
<1> QED BY <1>3 DEF Sorted

\* A pass that does not write reads what is sorted, or nothing.
LEMMA LooksSorted ==
  ASSUME PassInv, SortedInv, NEW p \in Inboxers, NEW s, Goes(p, s), s \in Passes, box' = box,
         s.at \in {"write", "sent", "remove"} => \E bs : s.read = Cut(bs)
  PROVE  SortedInv'
<1>1. Sorted(box) BY DEF SortedInv
<1>2. s.at \in {"write", "sent", "remove"} => Sorted(s.read) BY <1>1, CutSorted
<1>3. Sorted(box') BY <1>1
<1> QED BY <1>2, <1>3, SortedKept

\* A thought is queued where it belongs.
LEMMA QueueWriteSorts ==
  ASSUME PassInv, SortedInv, NEW p \in Inboxers, QueueWrite(p)
  PROVE  SortedInv'
<1>1. PICK old \in Passes : old = inboxer[p] BY DEF PassInv, InboxTyped
<1>2. old.at = "write" /\ old.todo # <<>> /\ old.todo \in Seq(Items)
  BY <1>1 DEF QueueWrite, PassInv, AtWork, Passes
<1>3. PICK item \in Items : item = Head(old.todo) BY <1>2
<1>4. PICK b \in {"pending", "intrusive"} : b = Target(item) BY TargetIsBox
<1>5. PICK was : was = old.read[b] OBVIOUS
<1>6. was \in Seq(Items) /\ \A i \in DOMAIN was : Target(was[i]) = b
  <2>1. b \in Boxes BY DEF Boxes
  <2>2. was \in Seq(Items) BY <1>5, <2>1 DEF Passes
  <2>3. Sorted(old.read) BY <1>1, <1>2 DEF SortedInv
  <2> QED BY <1>5, <2>2, <2>3 DEF Sorted
<1>7. PICK new : new = Append(was, item) OBVIOUS
<1>8. new \in Seq(Items) BY <1>6, <1>7
<1>9. \A i \in DOMAIN new : Target(new[i]) = b BY <1>4, <1>6, <1>7, OneSorted
<1>10. \E outcome \in Outcomes(new) : WriteBox(b, new, outcome)
  BY <1>1, <1>3, <1>4, <1>5, <1>7 DEF QueueWrite
<1>11. Sorted(box') BY <1>8, <1>9, <1>10, WriteSorted
<1>12. PICK s : s = [old EXCEPT !.at = "queue", !.todo = Tail(@), !.read = NoFiles] OBVIOUS
<1>13. Tail(old.todo) \in Seq(Items) BY <1>2
<1>14. s \in Passes /\ s.at = "queue"
  BY <1>12, <1>13, RestingTyped DEF Passes, Places
<1>15. Goes(p, s) BY <1>1, <1>12 DEF QueueWrite
<1> QED BY <1>11, <1>14, <1>15, SortedKept

\* What is marked leaves its box, and the others stay where they belong.
LEMMA MarkRemoveSorts ==
  ASSUME PassInv, SortedInv, NEW p \in Inboxers, MarkRemove(p)
  PROVE  SortedInv'
<1>1. PICK old \in Passes : old = inboxer[p] BY DEF PassInv, InboxTyped
<1>2. old.at = "remove" /\ old.top # <<>> /\ old.top \in Seq(Items)
  BY <1>1 DEF MarkRemove, PassInv, AtWork, Passes
<1>3. PICK item \in Items : item = Head(old.top) BY <1>2
<1>4. PICK b \in {"pending", "intrusive"} : b = RemovesFrom(old) BY DEF RemovesFrom
<1>5. PICK was : was = old.read[b] OBVIOUS
<1>6. was \in Seq(Items) /\ \A i \in DOMAIN was : Target(was[i]) = b
  <2>1. b \in Boxes BY DEF Boxes
  <2>2. was \in Seq(Items) BY <1>5, <2>1 DEF Passes
  <2>3. Sorted(old.read) BY <1>1, <1>2 DEF SortedInv
  <2> QED BY <1>5, <2>2, <2>3 DEF Sorted
<1>7. \E i \in DOMAIN was : was[i] = item
  <2>1. PICK c \in {"pending", "intrusive"} : \E i \in DOMAIN old.read[c] :
          old.read[c][i] = item
    BY <1>1, <1>2, <1>3 DEF PassInv, Removable
  <2>2. CASE item \in Range(old.read["intrusive"])
    BY <1>3, <1>4, <1>5, <2>2 DEF Range, RemovesFrom
  <2>3. CASE item \notin Range(old.read["intrusive"])
    <3>1. c = "pending" /\ b = "pending" BY <1>3, <1>4, <2>1, <2>3 DEF Range, RemovesFrom
    <3> QED BY <1>5, <2>1, <3>1
  <2> QED BY <2>2, <2>3
<1>8. PICK new : new = Without(was, item) OBVIOUS
<1>9. new \in Seq(Items) /\ \A j \in DOMAIN new : \E i \in DOMAIN was : new[j] = was[i]
  BY <1>6, <1>7, <1>8, OneRemoved
<1>10. \A j \in DOMAIN new : Target(new[j]) = b BY <1>6, <1>9
<1>11. \E outcome \in Outcomes(new) : WriteBox(b, new, outcome)
  BY <1>1, <1>3, <1>4, <1>5, <1>8 DEF MarkRemove
<1>12. Sorted(box') BY <1>9, <1>10, <1>11, WriteSorted
<1>13. Goes(p, Marked(old)) BY <1>1 DEF MarkRemove
<1>14. Marked(old) \in Passes /\ Marked(old).at \in {"rest", "mark"} BY <1>2, MarkedTyped
<1> QED BY <1>12, <1>13, <1>14, SortedKept

\* The ledger is not one of the two boxes.
LEMMA MarkSentSorts ==
  ASSUME PassInv, SortedInv, NEW p \in Inboxers, MarkSent(p)
  PROVE  SortedInv'
<1>1. PICK old \in Passes : old = inboxer[p] BY DEF PassInv, InboxTyped
<1>2. old.at = "sent" /\ old.top # <<>> BY <1>1 DEF MarkSent, PassInv, AtWork
<1>3. Sorted(old.read) /\ Sorted(box) BY <1>1, <1>2 DEF SortedInv
<1>4. PICK new, outcome :
        /\ WriteBox("sent", new, outcome)
        /\ Goes(p, IF Recorded(outcome) THEN [old EXCEPT !.at = "remove"] ELSE Marked(old))
  BY <1>1 DEF MarkSent
<1>5. \A b \in {"pending", "intrusive"} : box'[b] = box[b]
  <2>1. box \in [Boxes -> Seq(Items)] BY DEF PassInv, InboxTyped
  <2> QED BY <1>4, <2>1 DEF WriteBox, Boxes
<1>6. Sorted(box') BY <1>3, <1>5 DEF Sorted
<1>7. CASE Recorded(outcome)
  <2>1. PICK s : s = [old EXCEPT !.at = "remove"] OBVIOUS
  <2>2. s \in Passes /\ s.read = old.read BY <2>1 DEF Passes, Places
  <2>3. Goes(p, s) BY <1>4, <1>7, <2>1
  <2> QED BY <1>3, <1>6, <2>2, <2>3, SortedKept
<1>8. CASE ~ Recorded(outcome)
  <2>1. Goes(p, Marked(old)) BY <1>4, <1>8
  <2>2. Marked(old) \in Passes /\ Marked(old).at \in {"rest", "mark"} BY <1>2, MarkedTyped
  <2> QED BY <1>6, <2>1, <2>2, SortedKept
<1> QED BY <1>7, <1>8

\* Where a pass goes that leaves the boxes alone, and what it has read then.
LEMMA LooksGo ==
  ASSUME PassInv, NEW p \in Inboxers,
         \/ Beginning(p) \/ Drain(p) \/ QueueRead(p) \/ Surface(p) \/ MarkRead(p)
  PROVE  /\ box' = box
         /\ inboxer'[p] \in Passes /\ Goes(p, inboxer'[p])
         /\ inboxer'[p].at \in {"write", "sent", "remove"} =>
              \E bs : inboxer'[p].read = Cut(bs)
<1>0. PassInv' BY InboxStepKeeps DEF InboxNext, InboxStep
<1>1. inboxer'[p] \in Passes BY <1>0 DEF PassInv, InboxTyped
<1>2. inboxer \in [Inboxers -> Passes] /\ box \in [Boxes -> Seq(Items)]
  BY DEF PassInv, InboxTyped
<1>3. PICK old \in Passes : old = inboxer[p] BY <1>2
<1>4. PICK s : Goes(p, s) /\ box' = box
               /\ (s.at \in {"write", "sent", "remove"} => \E bs : s.read = Cut(bs))
  <2>1. CASE Beginning(p)
    <3>1. PICK new \in Observations : Notice(p, new) BY <2>1 DEF Beginning
    <3>2. PICK todo : Goes(p, [Resting EXCEPT !.at = "queue", !.todo = todo]) /\ box' = box
      BY <3>1 DEF Notice
    <3>3. [Resting EXCEPT !.at = "queue", !.todo = todo].at = "queue" BY DEF Resting
    <3> QED BY <3>2, <3>3
  <2>2. CASE Drain(p)
    <3>1. Goes(p, [Resting EXCEPT !.at = "mark", !.top = box["intrusive"]]) /\ box' = box
      BY <2>2 DEF Drain
    <3>2. [Resting EXCEPT !.at = "mark", !.top = box["intrusive"]].at = "mark"
      BY DEF Resting
    <3> QED BY <3>1, <3>2
  <2>3. CASE QueueRead(p)
    <3>1. PICK cut : Goes(p, [old EXCEPT !.at = "write", !.read = Cut(cut)]) /\ box' = box
      BY <1>3, <2>3 DEF QueueRead
    <3>2. PICK r : r = [old EXCEPT !.at = "write", !.read = Cut(cut)] OBVIOUS
    <3>3. r.read = Cut(cut) BY <3>2 DEF Passes
    <3> QED BY <3>1, <3>2, <3>3
  <2>4. CASE Surface(p)
    <3>1. PICK r : /\ Goes(p, r) /\ box' = box
                   /\ (r = Resting \/ \E top : r = [old EXCEPT !.at = "mark", !.top = top])
      BY <1>3, <2>4 DEF Surface
    <3>2. r.at \in {"rest", "mark"}
      <4>1. CASE r = Resting BY <4>1 DEF Resting
      <4>2. ASSUME NEW top, r = [old EXCEPT !.at = "mark", !.top = top] PROVE r.at = "mark"
        BY <4>2 DEF Passes
      <4> QED BY <3>1, <4>1, <4>2
    <3> QED BY <3>1, <3>2
  <2>5. CASE MarkRead(p)
    <3>1. old.at = "mark" /\ box' = box BY <1>3, <2>5 DEF MarkRead
    <3>2. old.top # <<>> BY <1>3, <3>1 DEF PassInv, AtWork
    <3>0. PICK cut : \/ Goes(p, [old EXCEPT !.at = "sent", !.read = Cut(cut)])
                     \/ Goes(p, Marked(old))
      BY <1>3, <2>5 DEF MarkRead
    <3>3. PICK r : r = [old EXCEPT !.at = "sent", !.read = Cut(cut)] OBVIOUS
    <3>4. r.read = Cut(cut) BY <3>3 DEF Passes
    <3>5. Marked(old).at \in {"rest", "mark"} BY <3>2, MarkedTyped
    <3>6. Goes(p, r) \/ Goes(p, Marked(old)) BY <3>0, <3>3
    <3> QED BY <3>1, <3>4, <3>5, <3>6
  <2> QED BY <2>1, <2>2, <2>3, <2>4, <2>5
<1>5. inboxer'[p] = s BY <1>2, <1>4 DEF Goes
<1> QED BY <1>1, <1>4, <1>5

\* Every step keeps the boxes sorted.
LEMMA SortedStep == ASSUME PassInv, SortedInv, [InboxNext]_inbox PROVE SortedInv'
<1>1. ASSUME NEW p \in Inboxers,
             \/ Beginning(p) \/ Drain(p) \/ QueueRead(p) \/ Surface(p) \/ MarkRead(p)
      PROVE  SortedInv'
  <2>1. PICK s : s = inboxer'[p] OBVIOUS
  <2>2. /\ box' = box /\ s \in Passes /\ Goes(p, s)
        /\ s.at \in {"write", "sent", "remove"} => \E bs : s.read = Cut(bs)
    BY <1>1, <2>1, LooksGo
  <2> QED BY <2>2, LooksSorted
<1>2. ASSUME NEW p \in Inboxers, InboxStep(p) PROVE SortedInv'
  <2>1. CASE QueueRead(p) \/ Surface(p) \/ MarkRead(p) BY <1>1, <2>1
  <2>2. CASE QueueWrite(p) BY <2>2, QueueWriteSorts
  <2>3. CASE MarkSent(p) BY <2>3, MarkSentSorts
  <2>4. CASE MarkRemove(p) BY <2>4, MarkRemoveSorts
  <2> QED BY <1>2, <2>1, <2>2, <2>3, <2>4 DEF InboxStep
<1>3. CASE InboxStop
  <2>1. PICK cut : box' = Cut(cut) BY <1>3 DEF InboxStop
  <2>2. Sorted(Cut(cut)) BY CutSorted DEF SortedInv
  <2>3. Sorted(box') BY <2>1, <2>2
  <2>4. \A p \in Inboxers : inboxer'[p].at = "rest" BY <1>3 DEF InboxStop, Resting
  <2> QED BY <2>3, <2>4 DEF SortedInv, Sorted
<1>4. CASE UNCHANGED inbox BY <1>4 DEF inbox, SortedInv, Sorted
<1> QED BY <1>1, <1>2, <1>3, <1>4 DEF InboxNext

\* The step from queueing to marking is the one that surfaces.
LEMMA SurfaceOnly ==
  ASSUME PassInv, [InboxNext]_inbox, NEW p \in Inboxers, inboxer[p].at = "queue",
         inboxer'[p].at = "mark"
  PROVE  Surface(p)
<1>1. inboxer \in [Inboxers -> Passes] BY DEF PassInv, InboxTyped
<1>2. ASSUME NEW q \in Inboxers, Beginning(q) \/ Drain(q) \/ InboxStep(q) PROVE q = p
  <2>1. PICK s : Goes(q, s)
    BY <1>2 DEF Beginning, Notice, Drain, InboxStep, QueueRead, QueueWrite, Surface, MarkRead,
                MarkSent, MarkRemove
  <2>2. CASE q # p
    <3>1. inboxer'[p] = inboxer[p] BY <1>1, <2>1, <2>2 DEF Goes
    <3> QED BY <3>1
  <2> QED BY <2>2
<1>3. ~ InboxStop /\ ~ UNCHANGED inbox
  <2>1. CASE InboxStop BY <2>1 DEF InboxStop, Resting
  <2>2. CASE UNCHANGED inbox BY <2>2 DEF inbox
  <2> QED BY <2>1, <2>2
<1>4. Beginning(p) \/ Drain(p) \/ InboxStep(p) BY <1>2, <1>3 DEF InboxNext
<1>5. ~ Drain(p) /\ ~ Beginning(p) /\ ~ MarkRead(p) /\ ~ MarkSent(p) /\ ~ MarkRemove(p)
  BY DEF Drain, Beginning, Notice, MarkRead, MarkSent, MarkRemove
<1>6. PICK old \in Passes : old = inboxer[p] BY <1>1
<1>7. ~ QueueWrite(p) BY DEF QueueWrite
<1>8. ~ QueueRead(p)
  <2> SUFFICES ASSUME QueueRead(p) PROVE FALSE OBVIOUS
  <2>0. PICK cut : Goes(p, [old EXCEPT !.at = "write", !.read = Cut(cut)])
    BY <1>6 DEF QueueRead
  <2>1. PICK r : r = [old EXCEPT !.at = "write", !.read = Cut(cut)] OBVIOUS
  <2>2. r.at = "write" BY <2>1 DEF Passes
  <2>3. inboxer'[p] = r BY <1>1, <2>0, <2>1 DEF Goes
  <2> QED BY <2>2, <2>3
<1> QED BY <1>4, <1>5, <1>7, <1>8 DEF InboxStep

\* What surfaces has the highest rank in the box it is taken from, and that box is the
\* intrusive one unless it is empty, or another pass is writing it.
LEMMA TopFirst ==
  ASSUME PassInv, SortedInv, NEW p \in Inboxers, Surface(p), inboxer'[p].at = "mark",
         NEW b \in {"pending", "intrusive"} \ UnderWrite, NEW i \in DOMAIN box[b]
  PROVE  Rank(box[b][i]) <= Rank(Head(inboxer'[p].top))
<1>1. PICK old \in Passes : old = inboxer[p] BY DEF PassInv, InboxTyped
<1>2. inboxer \in [Inboxers -> Passes] /\ {"pending", "intrusive"} \subseteq Boxes
  BY DEF PassInv, InboxTyped, Boxes
<1>3. PICK cut \in SUBSET UnderWrite :
        IF NextBox(Cut(cut)) = <<>> THEN Goes(p, Resting)
        ELSE Goes(p, [old EXCEPT !.at = "mark",
                                 !.top = <<NextBox(Cut(cut))[TopOf(NextBox(Cut(cut)))]>>])
  BY <1>1 DEF Surface
<1>4. PICK files \in [Boxes -> Seq(Items)] : files = Cut(cut) BY CutTyped
<1>5. files[b] = box[b] BY <1>2, <1>4, CutTyped
<1>6. PICK items \in Seq(Items) : items = NextBox(files) BY <1>2, <1>4 DEF NextBox
<1>7. items # <<>>
  <2>1. CASE items = <<>>
    <3>1. Goes(p, Resting) BY <1>3, <1>4, <1>6, <2>1
    <3> QED BY <1>2, <3>1 DEF Goes, Resting
  <2> QED BY <2>1
<1>8. /\ TopOf(items) \in DOMAIN items
      /\ \A j \in DOMAIN items : Rank(items[j]) <= Rank(items[TopOf(items)])
  BY <1>7, TopIsThere
<1>9. PICK top \in Items : top = items[TopOf(items)] BY <1>8
<1>10. Head(inboxer'[p].top) = top
  <2>1. PICK r : r = [old EXCEPT !.at = "mark", !.top = <<top>>] OBVIOUS
  <2>2. r.top = <<top>> BY <2>1 DEF Passes
  <2>3. Goes(p, r) BY <1>3, <1>4, <1>6, <1>7, <1>9, <2>1
  <2>4. inboxer'[p] = r BY <1>2, <2>3 DEF Goes
  <2> QED BY <2>2, <2>4
<1>11. CASE box[b] = items BY <1>8, <1>9, <1>10, <1>11
<1>12. CASE box[b] # items
  <2>1. b = "pending" BY <1>5, <1>6, <1>7, <1>12 DEF NextBox
  <2>2. Target(box[b][i]) = "pending" BY <2>1 DEF SortedInv, Sorted
  <2>3. Rank(box[b][i]) = 1 BY <2>2 DEF Target, Rank
  <2>4. Rank(top) \in 1 .. 3 BY RankRange
  <2> QED BY <1>10, <2>3, <2>4
<1> QED BY <1>11, <1>12

\* Nothing surfaces before something more urgent that waits in either box, but for what
\* waits in a box another pass is writing at that moment, however many passes overlap and
\* wherever they stop (next_to_surface and pick_top): what a pass writes back may be stale,
\* but every item is in the box of its urgency.
THEOREM MostUrgentFirst == InboxSpec => UrgentFirst
<1>1. InboxInit => SortedInv BY SortedInit
<1>2. PassInv /\ SortedInv /\ [InboxNext]_inbox => SortedInv' BY SortedStep
<1>3. PassInv /\ SortedInv /\ [InboxNext]_inbox =>
        \A p \in Inboxers : inboxer[p].at = "queue" /\ inboxer'[p].at = "mark" =>
          \A b \in {"pending", "intrusive"} \ UnderWrite : \A i \in DOMAIN box[b] :
            Rank(box[b][i]) <= Rank(Head(inboxer'[p].top))
  BY SurfaceOnly, TopFirst
<1> QED BY <1>1, <1>2, <1>3, PassesAreKept, PTL DEF InboxSpec, UrgentFirst
=============================================================================
