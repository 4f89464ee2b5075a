------------------------ MODULE SessiondPartsProofs -------------------------
(*****************************************************************************)
(* Theorems about the smaller parts of sessiond, each for every value of its *)
(* constants: the health of the sources, the policy and its file, the bearer, *)
(* power requests, the veto of the proximity sensor, the dim and its way back, *)
(* and the forensic trail.  They share no variables.                         *)
(*****************************************************************************)
EXTENDS SourceHealth, PolicySettings, BearerPosture, PowerRequest, ProximityVeto,
        DimRestore, ForensicTrail, FiniteSetTheorems, SequenceTheorems, TLAPS

-----------------------------------------------------------------------------
(*****************************************************************************)
(* Sources.                                                                  *)
(*                                                                           *)
(* Proofs about SourceHealth, for any sources, flags, expectations and     *)
(* thresholds, in whatever order set_policy puts them.                     *)
(*                                                                         *)
(* Types, false alarms and stale flags follow from a first invariant, BInv. *)
(*                                                                         *)
(* The pairing of outages is not inductive: how often a tick opens an      *)
(* outage depends on what a source that is gone can still hold.  A source  *)
(* that is absent has no stamp, so it is never called down.  A source that *)
(* is down keeps its stamp as long as readings expire before their sources *)
(* do, because only a raised flag makes the staleness rule drop one and    *)
(* its flag has fallen by then; once readings have been let live longer,   *)
(* it may lose its stamp and be told of once more, as absent.              *)
(*****************************************************************************)

\* What is known of a source that is gone.
GoneKnown ==
    \A s \in Sources :
        /\ health[s] = "down" => s \in spoken /\ silence[s] > DownAfter
        /\ health[s] = "absent" => s \in Expected /\ uptime > ExpectedWithin

BInv == TypeOK /\ GoneKnown /\ stamped \subseteq spoken

\* What a source that is gone holds: the first as long as readings have always
\* expired before their sources.
GoneHolds ==
    \A s \in Sources :
        /\ health[s] = "down" /\ ~reversed => s \in stamped /\ ~flag[s]
        /\ health[s] = "absent" => s \notin stamped

IInv == BInv /\ OutagesPaired /\ GoneHolds /\ (ttl > DownAfter => reversed)

\* Ages only grow, and stay within the bound.
LEMMA LaterGrows ==
    ASSUME NEW t \in 0..MaxTime
    PROVE  Later(t) \in 0..MaxTime /\ Later(t) >= t
BY HealthConstants DEF HealthConstants, Later

\* Both hold at the beginning.
LEMMA InitInvs == Init => BInv /\ IInv
<1> SUFFICES ASSUME Init PROVE BInv /\ IInv
  OBVIOUS
<1>1. TypeOK
  <2>1. reversed = (ttl > DownAfter)
    BY Zenon DEF Init
  <2>2. (ttl > DownAfter) \in BOOLEAN
    OBVIOUS
  <2>3. reversed \in BOOLEAN
    BY <2>1, <2>2, Zenon
  <2> QED
    BY <2>3, HealthConstants DEF Init, TypeOK, HealthConstants
<1>2. GoneKnown /\ stamped \subseteq spoken
  BY DEF Init, GoneKnown, Gone
<1>3. OutagesPaired /\ GoneHolds /\ (ttl > DownAfter => reversed)
  BY DEF Init, OutagesPaired, GoneHolds, Gone
<1> QED
  BY <1>1, <1>2, <1>3 DEF BInv, IInv

\* A report ends an outage, whatever was known of the source.
LEMMA ReportBInv ==
    ASSUME BInv, NEW s \in Sources, NEW value \in BOOLEAN, Report(s, value)
    PROVE  BInv'
<1>1. outages'[s] \in 0..3
  BY DEF BInv, TypeOK, Report
<1>2. outages' \in [Sources -> 0..3]
  BY <1>1 DEF BInv, TypeOK, Report
<1>3. silence' \in [Sources -> 0..MaxTime]
  BY HealthConstants DEF BInv, TypeOK, Report, HealthConstants
<1>4. TypeOK'
  BY <1>2, <1>3 DEF BInv, TypeOK, Report
<1>5. GoneKnown'
  BY DEF BInv, TypeOK, GoneKnown, Report, Gone
<1>6. (stamped \subseteq spoken)'
  BY DEF BInv, Report
<1> QED
  BY <1>4, <1>5, <1>6 DEF BInv

\* A tick announces nothing without a cause.
LEMMA TickBInv ==
    ASSUME BInv, Tick
    PROVE  BInv'
<1> DEFINE kept == stamped \ Stale
           down == NewlyDown(kept)
           absent == NewlyAbsent(kept)
<1>1. /\ flag' = [s \in Sources |-> flag[s] /\ s \notin Stale]
      /\ stamped' = kept
      /\ health' = [s \in Sources |-> IF s \in down THEN "down"
                                      ELSE IF s \in absent THEN "absent"
                                      ELSE health[s]]
      /\ outages' = [s \in Sources |->
                       IF s \in down \cup absent /\ outages[s] < 3
                         THEN outages[s] + 1 ELSE outages[s]]
      /\ UNCHANGED <<uptime, silence, spoken, ttl, reversed>>
  BY DEF Tick
<1>2. \A s \in down : s \in spoken /\ silence[s] > DownAfter
  BY DEF NewlyDown, BInv
<1>3. \A s \in absent : s \in Expected /\ uptime > ExpectedWithin
  BY DEF NewlyAbsent
<1>4. kept \subseteq stamped
  OBVIOUS
<1> HIDE DEF kept, down, absent
<1>5. health' \in [Sources -> {"unknown", "live", "down", "absent"}]
  BY <1>1 DEF BInv, TypeOK
<1>6. outages' \in [Sources -> 0..3]
  BY <1>1 DEF BInv, TypeOK
<1>7. TypeOK'
  BY <1>1, <1>4, <1>5, <1>6 DEF BInv, TypeOK
<1>8. GoneKnown'
  <2> SUFFICES ASSUME NEW s \in Sources
               PROVE  /\ health'[s] = "down" => s \in spoken /\ silence[s] > DownAfter
                      /\ health'[s] = "absent" =>
                            s \in Expected /\ uptime > ExpectedWithin
    BY <1>1 DEF GoneKnown
  <2>1. CASE s \in down \cup absent
    BY <2>1, <1>1, <1>2, <1>3
  <2>2. CASE s \notin down \cup absent
    BY <2>2, <1>1 DEF BInv, GoneKnown
  <2> QED
    BY <2>1, <2>2
<1> QED
  BY <1>1, <1>4, <1>7, <1>8 DEF BInv

\* Time only makes silences longer.
LEMMA TimeBInv ==
    ASSUME BInv, TimePasses
    PROVE  BInv'
<1>1. uptime' \in 0..MaxTime /\ uptime' >= uptime
  BY LaterGrows DEF BInv, TypeOK, TimePasses
<1>2. \A s \in Sources : silence'[s] \in 0..MaxTime /\ silence'[s] >= silence[s]
  BY LaterGrows DEF BInv, TypeOK, TimePasses
<1>3. silence' \in [Sources -> 0..MaxTime]
  BY <1>2 DEF TimePasses
<1>4. TypeOK'
  BY <1>1, <1>3 DEF BInv, TypeOK, TimePasses
<1>5. GoneKnown'
  <2> SUFFICES ASSUME NEW s \in Sources
               PROVE  /\ health[s] = "down" => silence'[s] > DownAfter
                      /\ health[s] = "absent" => uptime' > ExpectedWithin
    BY DEF BInv, GoneKnown, TimePasses
  <2>1. DownAfter \in Nat /\ ExpectedWithin \in Nat
        /\ silence[s] \in Nat /\ uptime \in Nat
    BY HealthConstants DEF HealthConstants, BInv, TypeOK
  <2>2. silence'[s] \in Nat /\ uptime' \in Nat
    BY <1>1, <1>2
  <2> QED
    BY <1>1, <1>2, <2>1, <2>2 DEF BInv, GoneKnown
<1> QED
  BY <1>4, <1>5 DEF BInv, TimePasses

\* Every step keeps the first.
LEMMA StepBInv == BInv /\ [Next]_vars => BInv'
<1> SUFFICES ASSUME BInv, [Next]_vars PROVE BInv'
  OBVIOUS
<1>1. ASSUME NEW s \in Sources, NEW value \in BOOLEAN, Report(s, value)
      PROVE  BInv'
  BY <1>1, ReportBInv
<1>2. CASE Tick
  BY <1>2, TickBInv
<1>3. CASE TimePasses
  BY <1>3, TimeBInv
<1>4. ASSUME NEW t \in TTLs, SetTTL(t)
      PROVE  BInv'
  <2>1. reversed' \in BOOLEAN
    BY <1>4, Zenon DEF SetTTL
  <2> QED
    BY <1>4, <2>1 DEF SetTTL, BInv, TypeOK, GoneKnown
<1>5. CASE UNCHANGED vars
  BY <1>5 DEF vars, BInv, TypeOK, GoneKnown
<1> QED
  BY <1>1, <1>2, <1>3, <1>4, <1>5 DEF Next

\* The first holds in every state.
LEMMA BInvAlways == Spec => []BInv
<1> QED
  BY InitInvs, StepBInv, PTL DEF Spec

-----------------------------------------------------------------------------

\* A tick opens an outage for a source that was not gone, or, once readings have
\* been let live longer than their sources, for one that was down.
LEMMA TickIInv ==
    ASSUME IInv, Tick
    PROVE  OutagesPaired' /\ GoneHolds'
<1> DEFINE kept == stamped \ Stale
           down == NewlyDown(kept)
           absent == NewlyAbsent(kept)
<1>1. /\ flag' = [s \in Sources |-> flag[s] /\ s \notin Stale]
      /\ stamped' = kept
      /\ health' = [s \in Sources |-> IF s \in down THEN "down"
                                      ELSE IF s \in absent THEN "absent"
                                      ELSE health[s]]
      /\ outages' = [s \in Sources |->
                       IF s \in down \cup absent /\ outages[s] < 3
                         THEN outages[s] + 1 ELSE outages[s]]
      /\ reversed' = reversed
  BY DEF Tick
<1>2. ASSUME NEW s \in Sources, s \in down
      PROVE  s \in kept /\ health[s] \notin Gone /\ (~reversed => ~flag[s])
  <2>1. s \in kept /\ s \in stamped /\ silence[s] > DownAfter /\ health[s] # "down"
    BY <1>2 DEF NewlyDown
  <2>2. health[s] # "absent"
    BY <2>1 DEF IInv, GoneHolds
  <2>3. ~reversed => silence[s] > ttl
    BY <2>1, HealthConstants DEF HealthConstants, IInv, BInv, TypeOK
  <2>4. ~reversed => ~flag[s]
    BY <2>1, <2>3 DEF Stale
  <2> QED
    BY <2>1, <2>2, <2>4 DEF Gone
<1>3. ASSUME NEW s \in Sources, s \in absent
      PROVE  /\ s \notin kept /\ health[s] # "absent"
             /\ health[s] = "down" => reversed
  <2>1. s \notin kept /\ health[s] # "absent"
    BY <1>3 DEF NewlyAbsent
  <2>2. health[s] = "down" => reversed
    BY <2>1 DEF IInv, GoneHolds, Stale
  <2> QED
    BY <2>1, <2>2
<1>4. ASSUME NEW s \in Sources, health[s] = "down", ~reversed
      PROVE  s \in kept /\ ~flag[s]
  BY <1>4 DEF IInv, GoneHolds, Stale
<1>5. kept \subseteq stamped
  OBVIOUS
<1> HIDE DEF down, absent, kept
<1>6. OutagesPaired'
  <2> SUFFICES ASSUME NEW s \in Sources
               PROVE  \/ health'[s] \notin Gone /\ outages'[s] = 0
                      \/ health'[s] \in Gone /\ outages'[s] = 1
                      \/ health'[s] = "absent" /\ outages'[s] = 2 /\ reversed'
    BY DEF OutagesPaired
  <2>1. CASE s \in down
    <3>1. outages[s] = 0
      BY <2>1, <1>2 DEF IInv, OutagesPaired, Gone
    <3> QED
      BY <2>1, <3>1, <1>1 DEF Gone
  <2>2. CASE s \notin down /\ s \in absent
    <3>1. \/ outages[s] = 0
          \/ outages[s] = 1 /\ reversed
      BY <2>2, <1>3 DEF IInv, OutagesPaired, Gone
    <3> QED
      BY <2>2, <3>1, <1>1 DEF Gone
  <2>3. CASE s \notin down \cup absent
    BY <2>3, <1>1 DEF IInv, OutagesPaired
  <2> QED
    BY <2>1, <2>2, <2>3
<1>7. GoneHolds'
  <2> SUFFICES ASSUME NEW s \in Sources
               PROVE  /\ health'[s] = "down" /\ ~reversed' => s \in stamped' /\ ~flag'[s]
                      /\ health'[s] = "absent" => s \notin stamped'
    BY DEF GoneHolds
  <2>1. CASE s \in down
    BY <2>1, <1>1, <1>2
  <2>2. CASE s \in absent /\ s \notin down
    BY <2>2, <1>1, <1>3
  <2>3. CASE s \notin down /\ s \notin absent
    <3>1. health'[s] = health[s] /\ stamped' = kept /\ (flag'[s] => flag[s])
      BY <2>3, <1>1
    <3> QED
      BY <3>1, <1>1, <1>4, <1>5 DEF IInv, GoneHolds
  <2> QED
    BY <2>1, <2>2, <2>3
<1> QED
  BY <1>6, <1>7

\* Every step keeps the second.
LEMMA StepIInv == IInv /\ [Next]_vars => IInv'
<1> SUFFICES ASSUME IInv, [Next]_vars PROVE IInv'
  OBVIOUS
<1>1. BInv'
  BY StepBInv DEF IInv
<1>2. ASSUME NEW s \in Sources, NEW value \in BOOLEAN, Report(s, value)
      PROVE  OutagesPaired' /\ GoneHolds' /\ UNCHANGED <<ttl, reversed>>
  BY <1>2 DEF IInv, BInv, TypeOK, OutagesPaired, GoneHolds, Report, Closes, Gone
<1>3. CASE Tick
  <2>1. UNCHANGED <<ttl, reversed>>
    BY <1>3 DEF Tick
  <2> QED
    BY <1>3, <2>1, <1>1, TickIInv DEF IInv
<1>4. CASE TimePasses
  BY <1>4, <1>1 DEF IInv, OutagesPaired, GoneHolds, TimePasses
<1>5. ASSUME NEW t \in TTLs, SetTTL(t)
      PROVE  IInv'
  <2>1. (ttl > DownAfter => reversed)'
    BY <1>5 DEF SetTTL
  <2>2. OutagesPaired' /\ GoneHolds'
    BY <1>5 DEF SetTTL, IInv, OutagesPaired, GoneHolds
  <2> QED
    BY <1>1, <2>1, <2>2 DEF IInv
<1>6. CASE UNCHANGED vars
  BY <1>6, <1>1 DEF vars, IInv, OutagesPaired, GoneHolds
<1> QED
  BY <1>1, <1>2, <1>3, <1>4, <1>5, <1>6 DEF Next, IInv

-----------------------------------------------------------------------------

\* For any sources and thresholds the machine's record of its sources keeps its
\* type.
THEOREM SourcesTyped == Spec => []TypeOK
<1>1. BInv => TypeOK
  BY DEF BInv
<1> QED
  BY <1>1, BInvAlways, PTL

\* Every outage of every source is one opening trail entry and one closing one,
\* whichever rule noticed it and however reports, ticks, time and set_policy
\* interleave; a second opening entry is ever written only of a source called
\* absent after it was called down, and only once a reading has been given a
\* longer time to live than its source.
THEOREM OutagesPairedAlways == Spec => []OutagesPaired
<1>1. IInv => OutagesPaired
  BY DEF IInv
<1>2. Init => IInv
  BY InitInvs
<1>3. IInv /\ [Next]_vars => IInv'
  BY StepIInv
<1> QED
  BY <1>1, <1>2, <1>3, PTL DEF Spec

\* A source is called gone only if it was expected, or has spoken and fallen
\* silent for longer than it may.
THEOREM NoFalseAlarms == Spec => []NoFalseAlarm
<1>1. BInv => NoFalseAlarm
  BY DEF BInv, GoneKnown, NoFalseAlarm, Gone
<1> QED
  BY <1>1, BInvAlways, PTL

\* No tick, from any reachable state, leaves a flag up that its source has not
\* repeated within the time it has to live.
THEOREM StaleFlagsAlwaysFall == Spec => StaleFlagsFall
<1>1. BInv /\ Tick => \A s \in Sources : flag'[s] => silence[s] <= ttl
  <2> SUFFICES ASSUME BInv, Tick, NEW s \in Sources, flag'[s]
               PROVE  silence[s] <= ttl
    OBVIOUS
  <2>1. flag[s] /\ s \notin Stale
    BY DEF Tick
  <2>2. ~(silence[s] > ttl)
    BY <2>1 DEF Stale
  <2> QED
    BY <2>2, HealthConstants DEF HealthConstants, BInv, TypeOK
<1>2. BInv /\ [Next]_vars
        => [Tick => \A s \in Sources : flag'[s] => silence[s] <= ttl]_vars
  BY <1>1
<1> QED
  BY <1>2, BInvAlways, PTL DEF Spec, StaleFlagsFall

\* Whatever reports and silences follow each other, each outage is one pair of entries
\* and none is told of a quiet source (evaluate_source_health, expire_stale_evidence).
THEOREM HealthSafe == Spec => []HealthInv
BY SourcesTyped, OutagesPairedAlways, NoFalseAlarms, PTL DEF HealthInv

-----------------------------------------------------------------------------
(*****************************************************************************)
(* The policy.                                                               *)
(*                                                                           *)
(* The policy and its file, for any budgets, waits and defaults.           *)
(*                                                                         *)
(* A policy in use may be one that a refused request left half assigned,   *)
(* with a warning as long as its budget; only what was accepted is written *)
(* out.  What is in the file is therefore stated of the file alone, and    *)
(* the policy in use only takes part while the caller has been told ok.    *)
(*****************************************************************************)

\* What a request assigns, as long as no zero wait is among it.
LEMMA TakesTyped ==
    ASSUME NEW p \in Policies, NEW r \in Requests, NEW fields \in SUBSET DOMAIN p,
           "ack" \in fields => r.ack # 0, "settle" \in fields => r.settle # 0
    PROVE  Takes(p, r, fields) \in Policies
<1>. DEFINE q == Takes(p, r, fields)
<1>1. DOMAIN p = {"blank", "held", "grace", "warning", "ack", "settle"}
  BY DEF Policies
<1>2. /\ r.blank \in Seconds \cup {0, Keep} /\ r.held \in Seconds \cup {0, Keep}
      /\ r.grace \in Seconds \cup {0, Keep} /\ r.warning \in BOOLEAN \cup {Keep}
      /\ r.ack \in Waits \cup {0, Keep} /\ r.settle \in Waits \cup {0, Keep}
  BY DEF Requests
<1>3. /\ p.blank \in Budgets /\ p.held \in Budgets /\ p.grace \in Seconds \cup {0}
      /\ p.warning \in BOOLEAN /\ p.ack \in Waits /\ p.settle \in Waits
  BY DEF Policies
<1>4. DOMAIN q = DOMAIN p
      /\ \A f \in DOMAIN p : q[f] = IF f \in fields /\ r[f] # Keep THEN Reads(f, r[f])
                                    ELSE p[f]
  BY DEF Takes
<1>5. q.blank \in Budgets /\ q.held \in Budgets
  BY <1>1, <1>2, <1>3, <1>4 DEF Reads, Budgets
<1>6. q.grace \in Seconds \cup {0} /\ q.warning \in BOOLEAN
  BY <1>1, <1>2, <1>3, <1>4 DEF Reads
<1>7. q.ack \in Waits /\ q.settle \in Waits
  BY <1>1, <1>2, <1>3, <1>4 DEF Reads
<1>8. q = [blank |-> q.blank, held |-> q.held, grace |-> q.grace,
           warning |-> q.warning, ack |-> q.ack, settle |-> q.settle]
  BY <1>1, <1>4 DEF Takes
<1>. QED
  BY <1>5, <1>6, <1>7, <1>8 DEF Policies

\* The default policy is one, and its warning fits its budget.
LEMMA DefaultTyped == Default \in Policies /\ Fits(Default)
  BY PolicyConstants DEF Default, Policies, Budgets, Fits, PolicyConstants

\* A request is refused, or accepted with a policy that fits.
LEMMA SetPolicyCases ==
    ASSUME PolicyTypeOK, NEW r \in Requests, SetPolicy(r)
    PROVE  \E p \in Policies : Refuse(p) \/ (Fits(p) /\ Accept(p))
<1>1. policy \in Policies
      /\ DOMAIN policy = {"blank", "held", "grace", "warning", "ack", "settle"}
  BY DEF PolicyTypeOK, Policies
<1>2. CASE r.ack = 0
  <2>1. Takes(policy, r, Early) \in Policies
    BY <1>1, TakesTyped DEF Early
  <2>. QED
    BY <1>2, <2>1 DEF SetPolicy
<1>3. CASE r.ack # 0 /\ r.settle = 0
  <2>1. Takes(policy, r, Early \cup {"ack"}) \in Policies
    BY <1>1, <1>3, TakesTyped DEF Early
  <2>. QED
    BY <1>3, <2>1 DEF SetPolicy
<1>4. CASE r.ack # 0 /\ r.settle # 0
  <2>1. Takes(policy, r, DOMAIN policy) \in Policies
    BY <1>1, <1>4, TakesTyped
  <2>. QED
    BY <1>4, <2>1 DEF SetPolicy
<1>. QED
  BY <1>2, <1>3, <1>4

-----------------------------------------------------------------------------

\* A zero acknowledgement or settling time never takes effect (the checks of set_policy
\* that come after its first assignments), for any request.
THEOREM PolicyTyped == PolicySpec => []PolicyTypeOK
<1>1. PolicyInit => PolicyTypeOK
  BY DefaultTyped DEF PolicyInit, PolicyTypeOK
<1>2. PolicyTypeOK /\ [PolicyNext]_policyVars => PolicyTypeOK'
  <2>. SUFFICES ASSUME PolicyTypeOK, [PolicyNext]_policyVars PROVE PolicyTypeOK'
    OBVIOUS
  <2>1. ASSUME NEW r \in Requests, SetPolicy(r)
        PROVE  PolicyTypeOK'
    BY <2>1, SetPolicyCases DEF PolicyTypeOK, Refuse, Accept, Answer
  <2>2. CASE Restart
    BY <2>2, DefaultTyped DEF PolicyTypeOK, Restart
  <2>3. CASE UNCHANGED policyVars
    BY <2>3 DEF PolicyTypeOK, policyVars
  <2>. QED
    BY <2>1, <2>2, <2>3 DEF PolicyNext
<1>. QED
  BY <1>1, <1>2, PTL DEF PolicySpec

\* What is written out never has a warning as long as its budget, however many refused
\* requests went before it (set_policy, save).
THEOREM PolicySavedSane == PolicySpec => []SavedIsSane
<1>1. PolicyInit => SavedIsSane
  BY DEF PolicyInit, SavedIsSane
<1>2. PolicyTypeOK /\ SavedIsSane /\ [PolicyNext]_policyVars => SavedIsSane'
  <2>. SUFFICES ASSUME PolicyTypeOK, SavedIsSane, [PolicyNext]_policyVars
                PROVE  SavedIsSane'
    OBVIOUS
  <2>1. ASSUME NEW r \in Requests, SetPolicy(r)
        PROVE  SavedIsSane'
    <3>1. PICK p \in Policies : Refuse(p) \/ (Fits(p) /\ Accept(p))
      BY <2>1, SetPolicyCases
    <3>. QED
      BY <3>1 DEF SavedIsSane, Refuse, Accept, Fits
  <2>2. CASE Restart \/ UNCHANGED policyVars
    BY <2>2 DEF SavedIsSane, Restart, policyVars
  <2>. QED
    BY <2>1, <2>2 DEF PolicyNext
<1>. QED
  BY <1>1, <1>2, PolicyTyped, PTL DEF PolicySpec

\* A caller who was told ok finds the policy in use in the file too (set_policy), for
\* any history of requests, refusals, write failures and restarts.
THEOREM PolicyOkSurvives == PolicySpec => []OkSurvives
<1>1. PolicyInit => OkSurvives
  BY DEF PolicyInit, OkSurvives
<1>2. PolicyTypeOK /\ OkSurvives /\ [PolicyNext]_policyVars => OkSurvives'
  <2>. SUFFICES ASSUME PolicyTypeOK, OkSurvives, [PolicyNext]_policyVars
                PROVE  OkSurvives'
    OBVIOUS
  <2>1. ASSUME NEW r \in Requests, SetPolicy(r)
        PROVE  OkSurvives'
    <3>1. PICK p \in Policies : Refuse(p) \/ (Fits(p) /\ Accept(p))
      BY <2>1, SetPolicyCases
    <3>. QED
      BY <3>1 DEF OkSurvives, Refuse, Accept, Answer
  <2>2. CASE Restart
    BY <2>2 DEF OkSurvives, Restart
  <2>3. CASE UNCHANGED policyVars
    BY <2>3 DEF OkSurvives, policyVars
  <2>. QED
    BY <2>1, <2>2, <2>3 DEF PolicyNext
<1>. QED
  BY <1>1, <1>2, PolicyTyped, PTL DEF PolicySpec

\* Whatever requests, refused half way or not, failed saves and restarts follow each
\* other, policy, file and answer agree (set_policy, load_device_state_policy).
THEOREM PolicySafe == PolicySpec => []PolicyInv
BY PolicyTyped, PolicySavedSane, PolicyOkSurvives, PTL DEF PolicyInv

-----------------------------------------------------------------------------
(*****************************************************************************)
(* The bearer.                                                               *)
(*                                                                           *)
(* The bearer's posture, for any settling window.  That the network is     *)
(* touched only for a settled link needs the clock of the candidate to     *)
(* mean something: a candidate that has waited n ticks was the better link *)
(* at each of the last n, because a tick at which it was not takes its     *)
(* clock away.                                                             *)
(*****************************************************************************)

Wants == Links \cup {NoLink}

\* The candidate was the better link at each of the last ticks it has waited.
ClockMeant ==
    \A c \in candidate :
        /\ c.age <= Len(wants)
        /\ \A k \in 0 .. c.age - 1 : wants[Len(wants) - k] = c.link

SettledInv == BearerTypeOK /\ ClockMeant

\* The better link is a link or none.
LEMMA BetterTyped ==
    ASSUME BearerTypeOK PROVE Better \in Wants
<1>1. ASSUME NEW usable \in SUBSET Links, usable # {}
      PROVE  (CHOOSE l \in usable : TRUE) \in Links
  BY <1>1
<1>. QED
  BY <1>1 DEF Better, Wants, Links

\* The watch moves by one tick, and keeps a window and one tick more.
LEMMA WatchMoves ==
    ASSUME BearerTypeOK, NEW want \in Wants, wants' = Watched(want)
    PROVE  /\ wants' \in Seq(Wants)
           /\ Len(wants') = IF Len(wants) = Settle + 1 THEN Settle + 1 ELSE Len(wants) + 1
           /\ \A k \in 0 .. Len(wants') - 1 :
                wants'[Len(wants') - k] = IF k = 0 THEN want ELSE wants[Len(wants) - k + 1]
<1>. DEFINE w == Append(wants, want)
<1>1. /\ wants \in Seq(Wants) /\ Len(wants) \in Nat /\ Len(wants) <= Settle + 1
      /\ Settle \in Nat \ {0}
  BY BearerConstants DEF BearerTypeOK, Wants, BearerConstants
<1>2. /\ w \in Seq(Wants) /\ Len(w) = Len(wants) + 1
      /\ \A i \in 1 .. Len(w) : w[i] = IF i = Len(w) THEN want ELSE wants[i]
  BY <1>1
<1>3. CASE Len(wants) = Settle + 1
  <2>1. wants' = Tail(w)
    BY <1>1, <1>2, <1>3 DEF Watched
  <2>2. /\ Tail(w) \in Seq(Wants) /\ Len(Tail(w)) = Len(w) - 1
        /\ \A i \in 1 .. Len(w) - 1 : Tail(w)[i] = w[i + 1]
    <3>1. w \in Seq(Wants) /\ w # <<>> /\ Len(w) \in Nat
      BY <1>1, <1>2
    <3>. HIDE DEF w
    <3>. QED
      BY <3>1
  <2>. HIDE DEF w
  <2>. QED
    BY <1>1, <1>2, <1>3, <2>1, <2>2
<1>4. CASE Len(wants) # Settle + 1
  <2>1. wants' = w
    BY <1>1, <1>2, <1>4 DEF Watched
  <2>. HIDE DEF w
  <2>. QED
    BY <1>1, <1>2, <1>4, <2>1
<1>. QED
  BY <1>3, <1>4

-----------------------------------------------------------------------------
(* One step. *)

\* It holds at the beginning.
LEMMA BearerInitInv == BearerInit => SettledInv
<1>. SUFFICES ASSUME BearerInit PROVE SettledInv
  OBVIOUS
<1>1. wants \in Seq(Links \cup {NoLink}) /\ Len(wants) = 0
  BY DEF BearerInit
<1>2. Len(wants) <= Settle + 1
  BY <1>1, BearerConstants DEF BearerConstants
<1>3. candidate = {} /\ linkHealth \in [Links -> 0 .. 2]
  BY DEF BearerInit
<1>4. BearerTypeOK
  BY <1>1, <1>2, <1>3 DEF BearerInit, BearerTypeOK
<1>. QED
  BY <1>3, <1>4 DEF SettledInv, ClockMeant

\* A probe leaves the candidate's clock alone.
LEMMA ProbeInv ==
    ASSUME SettledInv, Probe PROVE SettledInv'
<1>1. BearerTypeOK'
  BY DEF SettledInv, Probe, BearerTypeOK
<1>2. ClockMeant'
  BY DEF SettledInv, Probe, ClockMeant
<1>. QED
  BY <1>1, <1>2 DEF SettledInv

\* Nothing is decided on, and the candidate starts, waits on or is dropped; or it has
\* waited for the whole window and is decided on.
LEMMA TickCases ==
    ASSUME SettledInv, BearerTick
    PROVE  \/ candidate' = {} /\ Stay
           \/ candidate' = {[link |-> Better, age |-> 1]} /\ Stay
           \/ \E c \in candidate :
                /\ c.link = Better /\ c.age < Settle
                /\ candidate' = {[link |-> Better, age |-> c.age + 1]} /\ Stay
           \/ \E c \in candidate :
                /\ c.link = Better /\ c.age = Settle
                /\ candidate' = {} /\ Prefer(Better)
<1>1. ASSUME NEW age \in Waited(Better)
      PROVE  \E c \in candidate : c.link = Better /\ c.age = age
  BY DEF Waited
<1>2. \A c \in candidate : c.age \in 1 .. Settle
  BY DEF SettledInv, BearerTypeOK, Candidates
<1>3. CASE \E age \in Waited(Better) :
              IF Settling(age)
              THEN candidate' = {[link |-> Better, age |-> age + 1]} /\ Stay
              ELSE candidate' = {} /\ Prefer(Better)
  BY <1>1, <1>2, <1>3, BearerConstants DEF Settling, BearerConstants
<1>. QED
  BY <1>3 DEF BearerTick

\* A tick keeps it, and only acts on a link that was better for a whole window.
LEMMA TickInv ==
    ASSUME SettledInv, BearerTick
    PROVE  SettledInv' /\ (metric' # metric \/ pinned' # pinned =>
                             /\ Len(wants') = Settle + 1
                             /\ \A i \in DOMAIN wants' : wants'[i] = preferred')
<1>1. Better \in Wants /\ BearerTypeOK /\ ClockMeant
  BY BetterTyped DEF SettledInv
<1>2. /\ wants' \in Seq(Wants) /\ Len(wants') \in Nat /\ Len(wants') <= Settle + 1
      /\ wants \in Seq(Wants) /\ Len(wants) \in Nat /\ Len(wants) <= Settle + 1
      /\ Settle \in Nat \ {0}
      /\ Len(wants') = IF Len(wants) = Settle + 1 THEN Settle + 1 ELSE Len(wants) + 1
      /\ \A k \in 0 .. Len(wants') - 1 :
           wants'[Len(wants') - k] = IF k = 0 THEN Better ELSE wants[Len(wants) - k + 1]
  <2>1. wants' = Watched(Better)
    BY DEF BearerTick
  <2>2. /\ wants \in Seq(Wants) /\ Len(wants) \in Nat /\ Len(wants) <= Settle + 1
        /\ Settle \in Nat \ {0}
    BY <1>1, BearerConstants DEF BearerTypeOK, BearerConstants, Wants
  <2>3. /\ wants' \in Seq(Wants)
        /\ Len(wants') = IF Len(wants) = Settle + 1 THEN Settle + 1 ELSE Len(wants) + 1
        /\ \A k \in 0 .. Len(wants') - 1 :
             wants'[Len(wants') - k] = IF k = 0 THEN Better ELSE wants[Len(wants) - k + 1]
    BY <1>1, <2>1, WatchMoves
  <2>4. Len(wants') \in Nat /\ Len(wants') <= Settle + 1
    BY <2>2, <2>3
  <2>. QED
    BY <2>2, <2>3, <2>4
<1>3. /\ Len(wants') >= 1 /\ wants'[Len(wants')] = Better
  <2>1. 0 \in 0 .. Len(wants') - 1 /\ Len(wants') - 0 = Len(wants')
    BY <1>2
  <2>. QED
    BY <1>2, <2>1
<1>4. ASSUME NEW c \in candidate, c.link = Better
      PROVE  /\ c.age + 1 <= Len(wants')
             /\ \A k \in 0 .. c.age : wants'[Len(wants') - k] = Better
  <2>1. c.age \in 1 .. Settle
    BY <1>1 DEF BearerTypeOK, Candidates
  <2>2. c.age <= Len(wants) /\ \A k \in 0 .. c.age - 1 : wants[Len(wants) - k] = Better
    BY <1>1, <1>4 DEF ClockMeant
  <2>3. c.age + 1 <= Len(wants')
    BY <1>2, <2>1, <2>2
  <2>4. ASSUME NEW k \in 1 .. c.age
        PROVE  wants'[Len(wants') - k] = Better
    <3>1. wants'[Len(wants') - k] = wants[Len(wants) - k + 1]
      BY <1>2, <2>1, <2>3
    <3>2. k - 1 \in 0 .. c.age - 1 /\ Len(wants) - (k - 1) = Len(wants) - k + 1
      BY <1>2, <2>1
    <3>. QED
      BY <2>2, <3>1, <3>2
  <2>. QED
    BY <1>2, <1>3, <2>1, <2>3, <2>4
<1>5. ClockMeant'
  <2>1. ASSUME NEW age \in Nat \ {0}, candidate' = {[link |-> Better, age |-> age]},
               age <= Len(wants'), \A k \in 0 .. age - 1 : wants'[Len(wants') - k] = Better
        PROVE  ClockMeant'
    BY <2>1 DEF ClockMeant
  <2>2. CASE candidate' = {}
    BY <2>2 DEF ClockMeant
  <2>3. CASE candidate' = {[link |-> Better, age |-> 1]}
    <3>1. \A k \in 0 .. 1 - 1 : wants'[Len(wants') - k] = Better
      BY <1>2, <1>3
    <3>. QED
      BY <1>3, <2>1, <2>3, <3>1
  <2>4. ASSUME NEW c \in candidate, c.link = Better, c.age < Settle,
               candidate' = {[link |-> Better, age |-> c.age + 1]}
        PROVE  ClockMeant'
    <3>1. c.age \in 1 .. Settle
      BY <1>1 DEF BearerTypeOK, Candidates
    <3>2. c.age + 1 \in Nat \ {0} /\ (c.age + 1) - 1 = c.age
      BY <1>2, <3>1
    <3>. QED
      BY <1>4, <2>1, <2>4, <3>2
  <2>. QED
    BY <2>2, <2>3, <2>4, TickCases
<1>6. BearerTypeOK'
  <2>1. /\ preferred' \in Wants /\ metric' \in Wants /\ pinned' \in Wants
    BY <1>1, TickCases DEF BearerTypeOK, Wants, Stay, Prefer
  <2>2. candidate' \subseteq Candidates /\ \A c, d \in candidate' : c = d
    <3>1. CASE candidate' = {}
      BY <3>1
    <3>2. ASSUME NEW age \in 1 .. Settle, candidate' = {[link |-> Better, age |-> age]},
                 Better \in Links
          PROVE  candidate' \subseteq Candidates /\ \A c, d \in candidate' : c = d
      BY <3>2 DEF Candidates
    <3>3. candidate' # {} => Better \in Links
      BY <1>1, TickCases DEF BearerTick, Wants, Prefer
    <3>4. 1 \in 1 .. Settle /\ \A c \in candidate : c.age < Settle => c.age + 1 \in 1 .. Settle
      BY <1>1, <1>2 DEF BearerTypeOK, Candidates
    <3>. QED
      BY <3>1, <3>2, <3>3, <3>4, TickCases
  <2>3. /\ linkHealth' \in [Links -> 0 .. 2] /\ tunnel' \in BOOLEAN
    BY <1>1 DEF BearerTypeOK, BearerTick
  <2>. QED
    BY <1>2, <2>1, <2>2, <2>3 DEF BearerTypeOK, Wants
<1>7. ASSUME metric' # metric \/ pinned' # pinned
      PROVE  /\ Len(wants') = Settle + 1
             /\ \A i \in DOMAIN wants' : wants'[i] = preferred'
  <2>1. PICK c \in candidate : c.link = Better /\ c.age = Settle /\ Prefer(Better)
    BY <1>7, TickCases DEF Stay
  <2>2. Len(wants') = Settle + 1 /\ \A k \in 0 .. Settle : wants'[Len(wants') - k] = Better
    <3>1. /\ Settle + 1 <= Len(wants')
          /\ \A k \in 0 .. Settle : wants'[Len(wants') - k] = Better
      BY <1>4, <2>1
    <3>. QED
      BY <1>2, <3>1
  <2>3. preferred' = Better
    BY <2>1 DEF Prefer
  <2>4. ASSUME NEW i \in DOMAIN wants'
        PROVE  wants'[i] = Better
    <3>1. i \in 1 .. Settle + 1
      BY <1>2, <2>2
    <3>2. Settle + 1 - i \in 0 .. Settle /\ Len(wants') - (Settle + 1 - i) = i
      BY <1>2, <2>2, <3>1
    <3>. QED
      BY <2>2, <3>2
  <2>. QED
    BY <2>2, <2>3, <2>4
<1>. QED
  BY <1>5, <1>6, <1>7 DEF SettledInv

\* Every step keeps it.
LEMMA BearerStepInv ==
    ASSUME SettledInv, [BearerNext]_bearerVars
    PROVE  SettledInv'
<1>1. CASE UNCHANGED bearerVars
  BY <1>1 DEF SettledInv, BearerTypeOK, ClockMeant, bearerVars
<1>. QED
  BY <1>1, ProbeInv, TickInv DEF BearerNext

-----------------------------------------------------------------------------

\* Every variable keeps its type, and there is never more than one candidate, for any
\* settling window (note_bearer, bearer_actions).
THEOREM BearerTyped == BearerSpec => []BearerTypeOK
<1>1. SettledInv => BearerTypeOK
  BY DEF SettledInv
<1>. QED
  BY <1>1, BearerInitInv, BearerStepInv, PTL DEF BearerSpec

\* The network is only touched for a link that was the better one at every tick of a
\* whole settling window (bearer_actions and the clock thread), for any window.
THEOREM BearerSettled == BearerSpec => SettledOnly
<1>1. SettledInv /\ [BearerNext]_bearerVars =>
        [metric' # metric \/ pinned' # pinned =>
           /\ Len(wants') = Settle + 1
           /\ \A i \in DOMAIN wants' : wants'[i] = preferred']_bearerVars
  BY TickInv DEF BearerNext, Probe
<1>. QED
  BY <1>1, BearerInitInv, BearerStepInv, PTL DEF BearerSpec, SettledOnly

-----------------------------------------------------------------------------
(*****************************************************************************)
(* Power requests.                                                           *)
(*                                                                           *)
(* Power requests: types, and one terminal command at a time.  The latch   *)
(* is taken and let go of in two critical sections with the command in     *)
(* between, so LatchOwned is stated of every moment and is inductive as it *)
(* stands.                                                                 *)
(*****************************************************************************)

Steps == {Unasked} \cup [step: {"admitted", "commanding"}, verb: Verbs]

\* A request that is under way has a verb.
LEMMA UnderWay ==
    ASSUME PowerTypeOK, NEW c \in PowerCallers, asking[c].step # "rest"
    PROVE  /\ asking[c] \in [step: {"admitted", "commanding"}, verb: Verbs]
           /\ asking[c] # Unasked
<1>1. asking[c] \in Steps
  BY DEF PowerTypeOK, Steps
<1>2. asking[c] # Unasked
  BY DEF Unasked, At
<1>. QED
  BY <1>1, <1>2 DEF Steps

\* One caller's place changes, and what it was told.
LEMMA PlaceTyped ==
    ASSUME PowerTypeOK, NEW c \in PowerCallers, NEW place \in Steps,
           asking' = [asking EXCEPT ![c] = place],
           \/ UNCHANGED answered
           \/ \E answer \in Answers : answered' = [answered EXCEPT ![c] = answer],
           powerLatch' \in Verbs \cup {NoVerb}
    PROVE  PowerTypeOK'
<1>1. asking \in [PowerCallers -> Steps] /\ answered \in [PowerCallers -> Answers]
  BY DEF PowerTypeOK, Steps
<1>2. asking' \in [PowerCallers -> Steps] /\ answered' \in [PowerCallers -> Answers]
  BY <1>1
<1>. QED
  BY <1>2 DEF PowerTypeOK, Steps

\* Every variable keeps its type through every request (handle_power_request).
THEOREM PowerTyped == PowerSpec => []PowerTypeOK
<1>1. PowerInit => PowerTypeOK
  BY DEF PowerInit, PowerTypeOK, Answers
<1>2. PowerTypeOK /\ [PowerNext]_powerVars => PowerTypeOK'
  <2>. SUFFICES ASSUME PowerTypeOK, [PowerNext]_powerVars PROVE PowerTypeOK'
    OBVIOUS
  <2>1. Unasked \in Steps /\ powerLatch \in Verbs \cup {NoVerb}
    BY DEF Steps, PowerTypeOK
  <2>2. ASSUME NEW c \in PowerCallers, NEW verb \in Verbs, Admit(c, verb)
        PROVE  PowerTypeOK'
    <3>1. At("admitted", verb) \in Steps
      BY DEF At, Steps
    <3>2. "refused by state" \in Answers
      BY DEF Answers
    <3>. QED
      BY <2>1, <2>2, <3>1, <3>2, PlaceTyped DEF Admit, Tell
  <2>3. ASSUME NEW c \in PowerCallers, NEW answer \in Answers, Finish(c, answer)
        PROVE  PowerTypeOK'
    BY <2>1, <2>3, PlaceTyped DEF Finish, Latch, Tell
  <2>4. ASSUME NEW c \in PowerCallers, Capability(c)
        PROVE  PowerTypeOK'
    <3>1. CASE asking' = [asking EXCEPT ![c].step = "commanding"]
      <4>1. [asking[c] EXCEPT !.step = "commanding"] \in Steps
        BY <2>4, UnderWay DEF Capability, Steps
      <4>2. UNCHANGED <<powerLatch, answered>> \/ \E answer \in Answers : Finish(c, answer)
        BY <2>4 DEF Capability, Answers
      <4>. QED
        BY <2>1, <2>3, <3>1, <4>1, <4>2, PlaceTyped
    <3>2. CASE asking' # [asking EXCEPT ![c].step = "commanding"]
      BY <2>3, <2>4, <3>2 DEF Capability, Answers
    <3>. QED
      BY <3>1, <3>2
  <2>5. ASSUME NEW c \in PowerCallers, Execute(c)
        PROVE  PowerTypeOK'
    BY <2>3, <2>5 DEF Execute, Answers
  <2>6. CASE UNCHANGED powerVars
    BY <2>6 DEF PowerTypeOK, powerVars
  <2>. QED
    BY <2>2, <2>4, <2>5, <2>6 DEF PowerNext, PowerStep
<1>. QED
  BY <1>1, <1>2, PTL DEF PowerSpec

-----------------------------------------------------------------------------

\* A request that is under way is the one the latch was taken for.
LEMMA OwnerIsAsking ==
    ASSUME PowerTypeOK, LatchOwned, NEW c \in PowerCallers, asking[c] # Unasked
    PROVE  /\ asking[c].verb = powerLatch /\ powerLatch # NoVerb
           /\ \A d \in PowerCallers \ {c} : asking[d] = Unasked
  BY DEF LatchOwned, PowerTypeOK

\* It lets go of the latch whatever its answer (power_request_finished).
LEMMA FinishFrees ==
    ASSUME PowerTypeOK, LatchOwned, NEW c \in PowerCallers, asking[c] # Unasked,
           NEW answer, Finish(c, answer)
    PROVE  LatchOwned'
<1>1. powerLatch' = NoVerb
  BY OwnerIsAsking DEF Finish, Latch
<1>2. \A d \in PowerCallers : asking'[d] = Unasked
  BY OwnerIsAsking DEF Finish, Tell, PowerTypeOK
<1>. QED
  BY <1>1, <1>2 DEF LatchOwned

\* Two terminal commands are never asked for or run at once, and the latch is set
\* exactly as long as the request that took it is under way (request_power,
\* power_request_finished), for any number of callers and verbs.
THEOREM LatchSafe == PowerSpec => []LatchOwned
<1>1. PowerInit => LatchOwned
  BY DEF PowerInit, LatchOwned
<1>2. PowerTypeOK /\ LatchOwned /\ [PowerNext]_powerVars => LatchOwned'
  <2>. SUFFICES ASSUME PowerTypeOK, LatchOwned, [PowerNext]_powerVars
                PROVE  LatchOwned'
    OBVIOUS
  <2>1. ASSUME NEW c \in PowerCallers, NEW verb \in Verbs, Admit(c, verb)
        PROVE  LatchOwned'
    <3>1. CASE Free
      <4>1. \A d \in PowerCallers : asking[d] = Unasked
        BY <3>1, PowerConstants DEF LatchOwned, Free, PowerTypeOK
      <4>2. powerLatch' = verb /\ asking' = [asking EXCEPT ![c] = At("admitted", verb)]
        BY <2>1, <3>1 DEF Admit
      <4>3. asking'[c].verb = verb /\ \A d \in PowerCallers \ {c} : asking'[d] = Unasked
        BY <4>1, <4>2 DEF PowerTypeOK, At
      <4>. QED
        BY <4>2, <4>3, PowerConstants DEF LatchOwned
    <3>2. CASE ~Free
      <4>1. UNCHANGED powerLatch /\ asking' = [asking EXCEPT ![c] = Unasked]
        BY <2>1, <3>2 DEF Admit, Tell
      <4>2. asking' = asking
        BY <2>1, <4>1 DEF Admit, PowerTypeOK
      <4>. QED
        BY <4>1, <4>2 DEF LatchOwned
    <3>. QED
      BY <3>1, <3>2
  <2>2. ASSUME NEW c \in PowerCallers, Capability(c)
        PROVE  LatchOwned'
    <3>1. asking[c] # Unasked
      BY <2>2, UnderWay DEF Capability
    <3>2. CASE \E answer \in {"not permitted", "unavailable", "refused by state"} :
                  Finish(c, answer)
      BY <3>1, <3>2, FinishFrees
    <3>3. CASE /\ asking' = [asking EXCEPT ![c].step = "commanding"]
               /\ UNCHANGED <<powerLatch, answered>>
      <4>1. asking'[c].verb = asking[c].verb
        BY <3>1, <3>3 DEF PowerTypeOK
      <4>2. \A d \in PowerCallers \ {c} : asking'[d] = asking[d]
        BY <3>3 DEF PowerTypeOK
      <4>. QED
        BY <3>1, <3>3, <4>1, <4>2, OwnerIsAsking DEF LatchOwned
    <3>. QED
      BY <2>2, <3>2, <3>3 DEF Capability
  <2>3. ASSUME NEW c \in PowerCallers, Execute(c)
        PROVE  LatchOwned'
    <3>1. asking[c] # Unasked
      BY <2>3, UnderWay DEF Execute
    <3>. QED
      BY <2>3, <3>1, FinishFrees DEF Execute
  <2>4. CASE UNCHANGED powerVars
    BY <2>4 DEF LatchOwned, powerVars
  <2>. QED
    BY <2>1, <2>2, <2>3, <2>4 DEF PowerNext, PowerStep
<1>. QED
  BY <1>1, <1>2, PowerTyped, PTL DEF PowerSpec

\* Whatever handlers ask at once and however logind and the commands answer, one
\* request at a time owns the latch (request_power, power_request_finished).
THEOREM PowerSafe == PowerSpec => []PowerInv
BY PowerTyped, LatchSafe, PTL DEF PowerInv

-----------------------------------------------------------------------------
(*****************************************************************************)
(* The veto.                                                                 *)
(*                                                                           *)
(* The veto of the proximity sensor, for any thresholds and any burst.     *)
(*                                                                         *)
(* What a person has been refused since a tap was let through is not what  *)
(* the machine counts: the queue forgets what is past the window, and is   *)
(* emptied when a burst is let through.  The queue is long enough all the  *)
(* same because, for every age within the window, it holds at least as     *)
(* many refusals of that age or younger as there were (Counted), and a     *)
(* tap is only refused while the queue is shorter than a burst.            *)
(*****************************************************************************)

\* How many of a queue are of that age or younger.
Count(ages, age) == Cardinality({i \in DOMAIN ages : ages[i] <= age})

\* For every age in the window the machine counts no fewer refusals than there were.
Counted == \A age \in 0 .. BurstWindow : Count(taps, age) <= Count(refusals, age)

VetoInv == ProximityTypeOK /\ Len(refusals) < BurstCount /\ Counted

-----------------------------------------------------------------------------
(* Counting. *)

\* A set of numbers that is not empty has a least one.
LEMMA Least ==
  ASSUME NEW T \in SUBSET Nat, T # {}
  PROVE  \E x \in T : \A y \in T : x <= y
<1> DEFINE R == OpToRel(<, Nat)
<1>1. IsWellFoundedOn(R, Nat) BY NatLessThanWellFounded
<1>2. \A x, y \in Nat : <<x, y>> \in R <=> x < y BY DEF OpToRel
<1> HIDE DEF R
<1>3. PICK x \in T : \A y \in T : ~ (<<y, x>> \in R) BY <1>1, WFMin
<1>4. \A y \in T : x <= y
  <2> TAKE y \in T
  <2>1. x \in Nat /\ y \in Nat OBVIOUS
  <2>2. ~ (y < x) BY <1>2, <1>3, <2>1
  <2> QED BY <2>1, <2>2
<1> QED BY <1>3, <1>4

\* An age is a number up to the bound, and a number up to the bound is an age.
LEMMA AgeIsNumber ==
  /\ Ages \subseteq Nat
  /\ \A a \in Ages : a <= MaxAge /\ a \in Nat
  /\ \A a \in Nat : a <= MaxAge => a \in Ages
  /\ MaxAge \in Nat /\ MaxAge - 1 \in Nat /\ BurstWindow \in Nat /\ BurstWindow < MaxAge
<1>1. MaxAge \in Nat \ {0} /\ BurstWindow \in 0 .. (MaxAge - 1)
  BY ProximityConstants
<1>. QED
  BY <1>1 DEF Ages

\* A queue of ages is one of numbers.
LEMMA AgesCount ==
  ASSUME NEW s \in Seq(Ages)
  PROVE  /\ s \in Seq(Nat)
         /\ \A i \in 1 .. Len(s) : s[i] \in Ages /\ s[i] \in Nat /\ s[i] <= MaxAge
<1>1. \A i \in 1 .. Len(s) : s[i] \in Ages
  OBVIOUS
<1>2. \A i \in 1 .. Len(s) : s[i] \in Nat /\ s[i] <= MaxAge
  BY <1>1, AgeIsNumber
<1>3. Len(s) \in Nat /\ s = [i \in 1 .. Len(s) |-> s[i]]
  OBVIOUS
<1>. QED
  BY <1>1, <1>2, <1>3

\* A count is a number, and no more than the length.
LEMMA CountIsNumber ==
  ASSUME NEW s \in Seq(Ages), NEW a \in Int
  PROVE  /\ IsFiniteSet({i \in DOMAIN s : s[i] <= a})
         /\ Count(s, a) \in Nat
         /\ Count(s, a) <= Len(s)
<1>1. Len(s) \in Nat /\ DOMAIN s = 1 .. Len(s)
  OBVIOUS
<1>2. IsFiniteSet(1 .. Len(s)) /\ Cardinality(1 .. Len(s)) = Len(s)
  BY <1>1, FS_Interval
<1>3. {i \in DOMAIN s : s[i] <= a} \in SUBSET (1 .. Len(s))
  BY <1>1
<1>. QED
  BY <1>2, <1>3, FS_Subset, FS_CardinalityType DEF Count

\* A refusal that is added is one more of every age.
LEMMA CountAppended ==
  ASSUME NEW s \in Seq(Ages), NEW a \in Nat
  PROVE  /\ Append(s, 0) \in Seq(Ages)
         /\ Count(Append(s, 0), a) = Count(s, a) + 1
<1>1. Len(s) \in Nat /\ DOMAIN s = 1 .. Len(s)
  OBVIOUS
<1>2. 0 \in Ages
  BY ProximityConstants DEF Ages
<1> DEFINE t == Append(s, 0)
           S == {i \in DOMAIN s : s[i] <= a}
           T == {i \in DOMAIN t : t[i] <= a}
<1>3. t \in Seq(Ages) /\ DOMAIN t = 1 .. Len(s) + 1 /\ t[Len(s) + 1] = 0
  BY <1>1, <1>2
<1>4. \A i \in DOMAIN s : t[i] = s[i]
  BY <1>1
<1>5. T = S \cup {Len(s) + 1}
  BY <1>1, <1>3, <1>4
<1>6. IsFiniteSet(S) /\ Len(s) + 1 \notin S
  BY <1>1, CountIsNumber
<1>. QED
  BY <1>3, <1>5, <1>6, FS_AddElement DEF Count

\* One queue is the other without its first k ages, as far as two ages tell.
Shifted(s, t, k, a, b) ==
    /\ Len(s) = Len(t) + k
    /\ \A i \in 1 .. Len(t) : t[i] <= b <=> s[i + k] <= a
    /\ \A i \in 1 .. k : ~(s[i] <= a)

\* Two queues count alike when the ages of one are those of the other, shifted.
LEMMA CountShifted ==
  ASSUME NEW s \in Seq(Ages), NEW t \in Seq(Nat), NEW k \in Nat, NEW a \in Int, NEW b \in Int,
         Shifted(s, t, k, a, b)
  PROVE  Count(t, b) = Count(s, a)
<1>. USE DEF Shifted
<1>1. Len(s) \in Nat /\ DOMAIN s = 1 .. Len(s) /\ Len(t) \in Nat /\ DOMAIN t = 1 .. Len(t)
  OBVIOUS
<1> DEFINE S == {i \in DOMAIN s : s[i] <= a}
           T == {i \in DOMAIN t : t[i] <= b}
           f == [i \in T |-> i + k]
<1>2. f \in [T -> S]
  BY <1>1
<1>3. \A i, j \in T : f[i] = f[j] => i = j
  BY <1>1
<1>4. ASSUME NEW j \in S PROVE \E i \in T : f[i] = j
  <2>1. j \in 1 .. Len(s) /\ s[j] <= a
    BY <1>1
  <2>2. ~(j \in 1 .. k)
    BY <2>1
  <2>3. j - k \in 1 .. Len(t) /\ (j - k) + k = j
    BY <1>1, <2>1, <2>2
  <2>4. j - k \in T
    BY <1>1, <2>1, <2>3
  <2>5. f[j - k] = j
    BY <2>3, <2>4
  <2>. QED
    BY <2>4, <2>5
<1>5. IsFiniteSet(S)
  BY CountIsNumber
<1>. HIDE DEF S, T, f
<1>6. f \in Bijection(T, S)
  BY <1>2, <1>3, <1>4 DEF Bijection, Injection, Surjection, IsInjective
<1>7. f \in Injection(T, S) /\ f \in Surjection(T, S)
  BY <1>6 DEF Bijection
<1>8. IsFiniteSet(T) /\ Cardinality(T) = Cardinality(S)
  BY <1>5, <1>7, FS_Injection
<1>. QED
  BY <1>8 DEF Count, S, T

\* A queue without the first k of its ages.
LEMMA DroppedFront ==
  ASSUME NEW S, NEW s \in Seq(S), NEW k \in 0 .. Len(s)
  PROVE  /\ SubSeq(s, k + 1, Len(s)) \in Seq(S)
         /\ Len(SubSeq(s, k + 1, Len(s))) = Len(s) - k
         /\ \A i \in 1 .. Len(s) - k : SubSeq(s, k + 1, Len(s))[i] = s[i + k]
<1>1. Len(s) \in Nat /\ DOMAIN s = 1 .. Len(s)
  OBVIOUS
<1>2. Len(SubSeq(s, k + 1, Len(s))) = Len(s) - k
  OBVIOUS
<1>3. \A i \in 1 .. Len(s) - k : SubSeq(s, k + 1, Len(s))[i] = s[i + k]
  OBVIOUS
<1>4. \A i \in k + 1 .. Len(s) : s[i] \in S
  BY <1>1
<1>5. k + 1 \in Int /\ Len(s) \in Int
  BY <1>1
<1>6. SubSeq(s, k + 1, Len(s)) \in Seq(S)
  BY <1>4, <1>5, SubSeqProperties
<1>. QED
  BY <1>2, <1>3, <1>6

\* The first k of a queue are among its ages.
LEMMA FrontTyped ==
  ASSUME NEW s \in Seq(Ages), NEW k \in 0 .. Len(s)
  PROVE  \A i \in 1 .. k : s[i] \in Nat
<1>1. ASSUME NEW S, NEW q \in Seq(S), NEW n \in 0 .. Len(q)
      PROVE  \A i \in 1 .. n : q[i] \in S
  <2>1. Len(q) \in Nat /\ DOMAIN q = 1 .. Len(q)
    OBVIOUS
  <2>2. n \in Nat /\ n <= Len(q)
    BY <2>1
  <2>. QED
    BY <2>1, <2>2
<1>2. \A i \in 1 .. k : s[i] \in Ages
  BY <1>1
<1>. QED
  BY <1>2, AgeIsNumber

\* What is left of a queue is what comes after a number of ages past the limit.
LEMMA RecentIs ==
  ASSUME NEW s \in Seq(Ages), NEW limit \in Nat
  PROVE  \E k \in 0 .. Len(s) :
           /\ Recent(s, limit) = SubSeq(s, k + 1, Len(s))
           /\ \A i \in 1 .. k : ~(s[i] <= limit)
<1>1. Len(s) \in Nat /\ DOMAIN s = 1 .. Len(s)
  OBVIOUS
<1> DEFINE stays == {i \in 1 .. Len(s) + 1 : i \in DOMAIN s => s[i] <= limit}
           first == CHOOSE i \in stays : \A j \in stays : i <= j
<1>2. Len(s) + 1 \in stays /\ stays \in SUBSET Nat
  BY <1>1
<1>3. \E i \in stays : \A j \in stays : i <= j
  BY <1>2, Least
<1>4. first \in stays /\ \A j \in stays : first <= j
  BY <1>3
<1>5. first \in 1 .. Len(s) + 1
  BY <1>4
<1>6. \A i \in 1 .. first - 1 : i \notin stays
  BY <1>1, <1>4, <1>5
<1>7. \A i \in 1 .. first - 1 : ~(s[i] <= limit)
  BY <1>1, <1>5, <1>6
<1>8. Recent(s, limit) = SubSeq(s, first, Len(s))
  BY DEF Recent
<1>. HIDE DEF first
<1>9. first - 1 \in 0 .. Len(s) /\ (first - 1) + 1 = first
  BY <1>1, <1>5
<1>. QED
  BY <1>7, <1>8, <1>9

\* What is left is no longer than it was, holds ages of the same kind, and as many of
\* every age up to the limit.
LEMMA RecentKeeps ==
  ASSUME NEW s \in Seq(Ages), NEW limit \in Nat
  PROVE  /\ Recent(s, limit) \in Seq(Ages)
         /\ Len(Recent(s, limit)) <= Len(s)
         /\ \A a \in 0 .. limit : Count(Recent(s, limit), a) = Count(s, a)
<1>1. Len(s) \in Nat /\ DOMAIN s = 1 .. Len(s)
  OBVIOUS
<1>2. PICK k \in 0 .. Len(s) :
           /\ Recent(s, limit) = SubSeq(s, k + 1, Len(s))
           /\ \A i \in 1 .. k : ~(s[i] <= limit)
  BY RecentIs
<1>3. PICK t : t = Recent(s, limit)
  OBVIOUS
<1>4. /\ t \in Seq(Ages) /\ Len(t) = Len(s) - k
      /\ \A i \in 1 .. Len(t) : t[i] = s[i + k]
  <2>1. /\ t \in Seq(Ages) /\ Len(t) = Len(s) - k
        /\ \A i \in 1 .. Len(s) - k : t[i] = s[i + k]
    BY <1>2, <1>3, DroppedFront
  <2>. QED
    BY <2>1
<1>5. ASSUME NEW a \in 0 .. limit PROVE Count(t, a) = Count(s, a)
  <2>1. t \in Seq(Nat)
    BY <1>4, AgesCount
  <2>5. Len(s) = Len(t) + k
    BY <1>1, <1>4
  <2>6. k \in Nat /\ a \in Int
    BY <1>1
  <2>2. \A i \in 1 .. Len(t) : t[i] <= a <=> s[i + k] <= a
    BY <1>4
  <2>3. \A i \in 1 .. k : ~(s[i] <= a)
    <3>1. \A i \in 1 .. k : s[i] \in Nat
      BY FrontTyped
    <3>. QED
      BY <1>2, <3>1
  <2>. QED
    <3>1. Shifted(s, t, k, a, a)
      BY <2>2, <2>3, <2>5 DEF Shifted
    <3>. QED
      BY <2>1, <2>6, <3>1, CountShifted
<1>. QED
  BY <1>1, <1>3, <1>4, <1>5

\* Time that passes makes every age one more, and forgets those at the bound.
LEMMA OlderCounts ==
  ASSUME NEW s \in Seq(Ages)
  PROVE  /\ AllOlder(s) \in Seq(Ages)
         /\ Len(AllOlder(s)) <= Len(s)
         /\ \A a \in 0 .. BurstWindow :
              Count(AllOlder(s), a) = IF a = 0 THEN 0 ELSE Count(s, a - 1)
<1>1. MaxAge - 1 \in Nat /\ MaxAge \in Nat /\ BurstWindow \in 0 .. MaxAge - 1
  BY AgeIsNumber
<1>2. PICK young : young = Recent(s, MaxAge - 1)
  OBVIOUS
<1>3. PICK k \in 0 .. Len(s) :
           /\ young = SubSeq(s, k + 1, Len(s))
           /\ \A i \in 1 .. k : ~(s[i] <= MaxAge - 1)
  BY <1>1, <1>2, RecentIs
<1>4. Len(s) \in Nat /\ DOMAIN s = 1 .. Len(s)
  OBVIOUS
<1>5. /\ young \in Seq(Ages) /\ Len(young) = Len(s) - k
      /\ \A i \in 1 .. Len(young) : young[i] = s[i + k]
  <2>1. /\ young \in Seq(Ages) /\ Len(young) = Len(s) - k
        /\ \A i \in 1 .. Len(s) - k : young[i] = s[i + k]
    BY <1>3, DroppedFront
  <2>. QED
    BY <2>1
<1>6. Len(young) \in Nat /\ DOMAIN young = 1 .. Len(young)
  BY <1>5
<1>7. PICK t : t = AllOlder(s)
  OBVIOUS
<1>8. t = [i \in 1 .. Len(young) |-> Older(young[i])]
  BY <1>2, <1>6, <1>7 DEF AllOlder
<1>9. Len(t) = Len(young) /\ DOMAIN t = 1 .. Len(young)
  BY <1>6, <1>8
<1>10. \A i \in 1 .. Len(young) : s[i + k] \in Ages
  BY <1>4, <1>5, <1>6
<1>11. \A i \in 1 .. Len(young) :
          t[i] = IF s[i + k] = MaxAge THEN MaxAge ELSE s[i + k] + 1
  <2>1. \A a \in Ages : a # NoStamp
    BY AgeIsNumber, ProximityConstants
  <2>. QED
    BY <1>5, <1>8, <1>10, <2>1 DEF Older
<1>12. t \in Seq(Ages) /\ t \in Seq(Nat)
  <2>1. ASSUME NEW i \in 1 .. Len(young) PROVE t[i] \in Ages
    <3>1. PICK a \in Ages : a = s[i + k]
      BY <1>10
    <3>2. a \in Nat /\ a <= MaxAge
      BY AgeIsNumber
    <3>3. t[i] \in Nat /\ t[i] <= MaxAge
      BY <1>1, <1>11, <3>1, <3>2
    <3>. QED
      BY <3>3, AgeIsNumber
  <2>2. t = [i \in 1 .. Len(young) |-> t[i]]
    BY <1>8
  <2>. QED
    BY <1>6, <2>1, <2>2, AgeIsNumber
<1>13. ASSUME NEW a \in 0 .. BurstWindow, a # 0 PROVE Count(t, a) = Count(s, a - 1)
  <2>1. a - 1 \in Int /\ a \in Int /\ a - 1 <= MaxAge - 1
    BY <1>1, <1>13
  <2>2. Len(s) = Len(t) + k
    BY <1>4, <1>5, <1>9
  <2>5. k \in Nat
    BY <1>4
  <2>3. \A i \in 1 .. Len(t) : t[i] <= a <=> s[i + k] <= a - 1
    <3>1. \A i \in 1 .. Len(young) : s[i + k] \in Nat /\ s[i + k] <= MaxAge
      BY <1>10, AgeIsNumber
    <3>2. ASSUME NEW i \in 1 .. Len(t) PROVE t[i] <= a <=> s[i + k] <= a - 1
      <4>1. PICK v \in Nat : v = s[i + k] /\ v <= MaxAge
        BY <1>9, <3>1
      <4>2. t[i] = IF v = MaxAge THEN MaxAge ELSE v + 1
        BY <1>9, <1>11, <4>1
      <4>3. (IF v = MaxAge THEN MaxAge ELSE v + 1) <= a <=> v <= a - 1
        BY <1>1, <2>1
      <4>. QED
        BY <4>1, <4>2, <4>3
    <3>. QED
      BY <3>2
  <2>4. \A i \in 1 .. k : ~(s[i] <= a - 1)
    <3>1. \A i \in 1 .. k : s[i] \in Nat
      BY FrontTyped
    <3>. QED
      BY <1>1, <1>3, <2>1, <3>1
  <2>. QED
    <3>1. Shifted(s, t, k, a - 1, a)
      BY <2>2, <2>3, <2>4 DEF Shifted
    <3>. QED
      BY <1>12, <2>1, <2>5, <3>1, CountShifted
<1>14. Count(t, 0) = 0
  <2>1. \A i \in DOMAIN t : ~(t[i] <= 0)
    <3>1. \A i \in 1 .. Len(young) : s[i + k] \in Nat
      BY <1>10, AgeIsNumber
    <3>2. MaxAge \in Nat \ {0}
      BY ProximityConstants
    <3>. QED
      BY <1>9, <1>11, <3>1, <3>2
  <2>2. {i \in DOMAIN t : t[i] <= 0} = {}
    BY <2>1
  <2>. QED
    BY <2>2, FS_EmptySet DEF Count
<1>. QED
  BY <1>4, <1>5, <1>7, <1>9, <1>12, <1>13, <1>14

-----------------------------------------------------------------------------
(* The steps. *)

\* A reading that is evaluated leaves the machine in a state of its own, and the dwell
\* stamped exactly in Observed.
LEMMA Reconsidered ==
  ASSUME ProximityTypeOK, NEW belief \in BOOLEAN, Reconsider(belief)
  PROVE  /\ state' \in {"active", "locked", "observed"} /\ dwell' \in Stamps
         /\ state' = "observed" <=> dwell' # NoStamp
<1>1. 0 \in Ages /\ 0 \in Stamps /\ 0 # NoStamp /\ NoStamp \in Stamps
  BY AgeIsNumber, ProximityConstants DEF Stamps
<1>. QED
  BY <1>1 DEF ProximityTypeOK, Reconsider

\* A debounced reading is one, with a clock that is a stamp.
LEMMA DebounceTyped ==
  ASSUME ProximityTypeOK, NEW reading \in BOOLEAN, NEW believed \in BOOLEAN
  PROVE  /\ Debounce(reading, believed).raw \in BOOLEAN
         /\ Debounce(reading, believed).since \in Stamps
         /\ Debounce(reading, believed).near \in BOOLEAN
<1>1. 0 \in Stamps /\ NoStamp \in Stamps
  BY AgeIsNumber DEF Stamps
<1>. QED
  BY <1>1 DEF ProximityTypeOK, Debounce

\* A stamp that ages is a stamp.
LEMMA OlderTyped ==
  ASSUME NEW stamp \in Stamps
  PROVE  /\ Older(stamp) \in Stamps
         /\ Older(stamp) = NoStamp <=> stamp = NoStamp
<1>1. CASE stamp = NoStamp
  BY <1>1 DEF Older, Stamps
<1>2. CASE stamp # NoStamp
  <2>1. stamp \in Nat /\ stamp <= MaxAge /\ MaxAge \in Nat
    BY <1>2, AgeIsNumber DEF Stamps
  <2>2. Older(stamp) \in Nat /\ Older(stamp) <= MaxAge
    BY <1>2, <2>1 DEF Older
  <2>. QED
    BY <1>2, <2>2, AgeIsNumber, ProximityConstants DEF Stamps
<1>. QED
  BY <1>1, <1>2

\* The first state.
LEMMA VetoInit == ProximityInit => VetoInv
<1>. SUFFICES ASSUME ProximityInit PROVE VetoInv
  OBVIOUS
<1>1. <<>> \in Seq(Ages) /\ Len(<<>>) = 0
  OBVIOUS
<1>2. ProximityTypeOK
  BY <1>1 DEF ProximityInit, ProximityTypeOK, Stamps
<1>3. Len(refusals) < BurstCount
  BY <1>1, ProximityConstants DEF ProximityInit
<1>4. Counted
  <2>1. taps = refusals
    BY DEF ProximityInit
  <2>2. \A a \in 0 .. BurstWindow : Count(refusals, a) \in Nat
    <3>1. refusals \in Seq(Ages)
      BY <1>2 DEF ProximityTypeOK
    <3>2. \A a \in 0 .. BurstWindow : a \in Int
      BY AgeIsNumber
    <3>. QED
      BY <3>1, <3>2, CountIsNumber
  <2>. QED
    BY <2>1, <2>2 DEF Counted
<1>. QED
  BY <1>2, <1>3, <1>4 DEF VetoInv

\* A tap that is refused is counted twice alike; one that is let through ends both counts.
LEMMA TapCounted ==
  ASSUME VetoInv, TapRequest
  PROVE  VetoInv'
<1>1. refusals \in Seq(Ages) /\ taps \in Seq(Ages)
  BY DEF VetoInv, ProximityTypeOK
<1>2. BurstWindow \in Nat /\ BurstCount \in Nat \ {0}
  BY AgeIsNumber, ProximityConstants
<1>3. <<>> \in Seq(Ages) /\ Len(<<>>) = 0
  OBVIOUS
<1>4. ASSUME NEW s \in Seq(Ages), NEW a \in 0 .. BurstWindow
      PROVE  Count(s, a) \in Nat
  <2>1. a \in Int
    BY <1>2
  <2>. QED
    BY <2>1, CountIsNumber
<1>5. ASSUME NEW a \in 0 .. BurstWindow PROVE Count(<<>>, a) = 0
  <2>1. {i \in DOMAIN <<>> : <<>>[i] <= a} = {}
    OBVIOUS
  <2>. QED
    BY <2>1, FS_EmptySet DEF Count
<1>6. UNCHANGED <<placed, covered, heldNear>>
  BY DEF TapRequest
<1>7. CASE taps' = <<>> /\ UNCHANGED refusals
  <2>1. Counted'
    BY <1>1, <1>4, <1>5, <1>7 DEF Counted
  <2>. QED
    BY <1>3, <1>6, <1>7, <2>1 DEF VetoInv, ProximityTypeOK, placed
<1>8. CASE taps' = <<>> /\ refusals' = <<>>
  <2>1. Counted'
    BY <1>5, <1>8 DEF Counted
  <2>. QED
    BY <1>2, <1>3, <1>6, <1>8, <2>1 DEF VetoInv, ProximityTypeOK, placed
<1>9. ASSUME NEW queue, queue = Append(Recent(refusals, BurstWindow), 0), ~IsBurst(queue),
             refusals' = queue, taps' = Append(taps, 0)
      PROVE  VetoInv'
  <2>1. PICK recent : recent = Recent(refusals, BurstWindow)
    OBVIOUS
  <2>2. /\ recent \in Seq(Ages)
        /\ \A a \in 0 .. BurstWindow : Count(recent, a) = Count(refusals, a)
    BY <1>1, <1>2, <2>1, RecentKeeps
  <2>3. /\ Append(recent, 0) \in Seq(Ages)
        /\ \A a \in 0 .. BurstWindow : Count(Append(recent, 0), a) = Count(recent, a) + 1
    BY <2>2, CountAppended
  <2>4. /\ Append(taps, 0) \in Seq(Ages)
        /\ \A a \in 0 .. BurstWindow : Count(Append(taps, 0), a) = Count(taps, a) + 1
    BY <1>1, CountAppended
  <2>5. queue = Append(recent, 0)
    BY <1>9, <2>1
  <2>6. \A a \in 0 .. BurstWindow : Count(taps, a) <= Count(refusals, a)
    BY DEF VetoInv, Counted
  <2>7. Counted'
    <3>1. PICK r : r = refusals'
      OBVIOUS
    <3>2. PICK t : t = taps'
      OBVIOUS
    <3>3. r = Append(recent, 0) /\ t = Append(taps, 0)
      BY <1>9, <2>5, <3>1, <3>2
    <3>4. \A a \in 0 .. BurstWindow : Count(r, a) = Count(refusals, a) + 1
      BY <2>2, <2>3, <3>3
    <3>5. \A a \in 0 .. BurstWindow : Count(t, a) = Count(taps, a) + 1
      BY <2>4, <3>3
    <3>6. \A a \in 0 .. BurstWindow : Count(t, a) <= Count(r, a)
      BY <1>1, <1>4, <2>6, <3>4, <3>5
    <3>. QED
      BY <3>1, <3>2, <3>6 DEF Counted
  <2>8. queue \in Seq(Ages) /\ Len(queue) \in Nat
    BY <2>3, <2>5
  <2>9. Len(queue) < BurstCount
    BY <1>2, <1>9, <2>8 DEF IsBurst
  <2>. QED
    BY <1>6, <1>9, <2>4, <2>7, <2>8, <2>9 DEF VetoInv, ProximityTypeOK, placed
<1>. QED
  BY <1>7, <1>8, <1>9 DEF TapRequest, DoubleTap, LetThrough

\* Time that passes counts both queues alike.
LEMMA AgesCounted ==
  ASSUME VetoInv, ProximityAges
  PROVE  VetoInv'
<1>1. refusals \in Seq(Ages) /\ taps \in Seq(Ages)
  BY DEF VetoInv, ProximityTypeOK
<1>2. PICK r : r = refusals'
  OBVIOUS
<1>3. PICK t : t = taps'
  OBVIOUS
<1>4. /\ r \in Seq(Ages) /\ Len(r) <= Len(refusals)
      /\ \A a \in 0 .. BurstWindow :
           Count(r, a) = IF a = 0 THEN 0 ELSE Count(refusals, a - 1)
  BY <1>1, <1>2, OlderCounts DEF ProximityAges
<1>5. /\ t \in Seq(Ages)
      /\ \A a \in 0 .. BurstWindow :
           Count(t, a) = IF a = 0 THEN 0 ELSE Count(taps, a - 1)
  BY <1>1, <1>3, OlderCounts DEF ProximityAges
<1>6. BurstWindow \in Nat
  BY AgeIsNumber
<1>7. \A a \in 0 .. BurstWindow : Count(t, a) <= Count(r, a)
  <2>. TAKE a \in 0 .. BurstWindow
  <2>1. CASE a = 0
    BY <1>4, <1>5, <2>1
  <2>2. CASE a # 0
    <3>1. a - 1 \in 0 .. BurstWindow
      BY <1>6, <2>2
    <3>2. Count(taps, a - 1) <= Count(refusals, a - 1)
      BY <3>1 DEF VetoInv, Counted
    <3>. QED
      BY <1>4, <1>5, <2>2, <3>2
  <2>. QED
    BY <2>1, <2>2
<1>8. Counted'
  BY <1>2, <1>3, <1>7 DEF Counted
<1>9. Len(refusals') < BurstCount
  <2>1. Len(r) \in Nat /\ Len(refusals) \in Nat /\ BurstCount \in Nat
    BY <1>1, <1>4, ProximityConstants
  <2>2. Len(refusals) < BurstCount
    BY DEF VetoInv
  <2>. QED
    BY <1>2, <1>4, <2>1, <2>2
<1>10. ProximityTypeOK'
  <2>1. /\ since' \in Stamps /\ seen' \in Stamps /\ heldNear' \in Stamps /\ dwell' \in Stamps
        /\ dwell' = NoStamp <=> dwell = NoStamp
    BY OlderTyped DEF VetoInv, ProximityTypeOK, ProximityAges
  <2>2. refusals' \in Seq(Ages) /\ taps' \in Seq(Ages)
    BY <1>2, <1>3, <1>4, <1>5
  <2>. QED
    BY <2>1, <2>2 DEF VetoInv, ProximityTypeOK, ProximityAges
<1>. QED
  BY <1>8, <1>9, <1>10 DEF VetoInv

\* What touches neither queue keeps the counts.
LEMMA CountsUntouched ==
  ASSUME VetoInv, UNCHANGED <<refusals, taps>>, ProximityTypeOK'
  PROVE  VetoInv'
  BY DEF VetoInv, Counted

\* Every step keeps the invariant.
LEMMA VetoStep == VetoInv /\ [ProximityNext]_proximityVars => VetoInv'
<1>. SUFFICES ASSUME VetoInv, [ProximityNext]_proximityVars PROVE VetoInv'
  OBVIOUS
<1>1. ProximityTypeOK
  BY DEF VetoInv
<1>2. 0 \in Stamps /\ NoStamp \in Stamps
  BY AgeIsNumber DEF Stamps
<1>3. CASE SensorInput
  <2>1. covered \in BOOLEAN
    BY <1>1 DEF ProximityTypeOK
  <2>2. raw' \in BOOLEAN /\ since' \in Stamps /\ near' \in BOOLEAN
    BY <1>1, <1>3, <2>1, DebounceTyped DEF SensorInput
  <2>3. Reconsider(near')
    BY <1>3 DEF SensorInput
  <2>4. /\ state' \in {"active", "locked", "observed"} /\ dwell' \in Stamps
        /\ state' = "observed" <=> dwell' # NoStamp
    BY <1>1, <2>2, <2>3, Reconsidered
  <2>5. ProximityTypeOK' /\ UNCHANGED <<refusals, taps>>
    BY <1>1, <1>2, <1>3, <2>2, <2>4 DEF SensorInput, ProximityTypeOK
  <2>. QED
    BY <2>5, CountsUntouched
<1>4. CASE OtherInput
  <2>1. /\ state' \in {"active", "locked", "observed"} /\ dwell' \in Stamps
        /\ state' = "observed" <=> dwell' # NoStamp
    BY <1>1, <1>4, Reconsidered DEF OtherInput, ProximityTypeOK
  <2>2. ProximityTypeOK' /\ UNCHANGED <<refusals, taps>>
    BY <1>1, <1>4, <2>1 DEF OtherInput, ProximityTypeOK, history
  <2>. QED
    BY <2>2, CountsUntouched
<1>5. CASE ProximityTick
  <2>1. CASE IsStale
    <3>1. /\ near' = FALSE /\ raw' = FALSE /\ since' = NoStamp /\ seen' = NoStamp
          /\ UNCHANGED <<state, dwell, refusals, covered, heldNear, taps>>
      BY <1>5, <2>1 DEF ProximityTick
    <3>2. ProximityTypeOK'
      BY <1>1, <1>2, <3>1 DEF ProximityTypeOK
    <3>. QED
      BY <3>1, <3>2, CountsUntouched
  <2>2. CASE ~IsStale /\ raw # near
    <3>5. near' = Debounce(raw, near).near /\ since' = Debounce(raw, near).since
      BY <1>5, <2>2 DEF ProximityTick
    <3>6. raw \in BOOLEAN /\ near \in BOOLEAN
      BY <1>1 DEF ProximityTypeOK
    <3>1. near' \in BOOLEAN /\ since' \in Stamps
      BY <1>1, <3>5, <3>6, DebounceTyped
    <3>2. Reconsider(near') \/ UNCHANGED <<state, dwell>>
      BY <1>5, <2>2 DEF ProximityTick
    <3>3. /\ state' \in {"active", "locked", "observed"} /\ dwell' \in Stamps
          /\ state' = "observed" <=> dwell' # NoStamp
      BY <1>1, <3>1, <3>2, Reconsidered DEF ProximityTypeOK
    <3>4. ProximityTypeOK' /\ UNCHANGED <<refusals, taps>>
      BY <1>1, <1>5, <2>2, <3>1, <3>3 DEF ProximityTick, ProximityTypeOK
    <3>. QED
      BY <3>4, CountsUntouched
  <2>3. CASE ~IsStale /\ raw = near
    <3>1. ProximityTypeOK' /\ UNCHANGED <<refusals, taps>>
      BY <1>1, <1>5, <2>3 DEF ProximityTick, ProximityTypeOK, placed
    <3>. QED
      BY <3>1, CountsUntouched
  <2>. QED
    BY <2>1, <2>2, <2>3
<1>6. CASE \E locked \in BOOLEAN : SessionLocked(locked)
  <2>1. ProximityTypeOK' /\ UNCHANGED <<refusals, taps>>
    BY <1>1, <1>2, <1>6 DEF SessionLocked, ProximityTypeOK, history
  <2>. QED
    BY <2>1, CountsUntouched
<1>7. CASE LockConfirmed
  <2>1. ProximityTypeOK' /\ UNCHANGED <<refusals, taps>>
    BY <1>1, <1>2, <1>7 DEF LockConfirmed, ProximityTypeOK, history
  <2>. QED
    BY <2>1, CountsUntouched
<1>8. CASE TapRequest
  BY <1>8, TapCounted
<1>9. CASE CoverChanges
  <2>1. ProximityTypeOK' /\ UNCHANGED <<refusals, taps>>
    BY <1>1, <1>9 DEF CoverChanges, ProximityTypeOK, history, placed
  <2>. QED
    BY <2>1, CountsUntouched
<1>10. CASE ProximityAges
  BY <1>10, AgesCounted
<1>11. CASE UNCHANGED proximityVars
  <2>1. ProximityTypeOK' /\ UNCHANGED <<refusals, taps>>
    BY <1>1, <1>11 DEF proximityVars, ProximityTypeOK, history, placed
  <2>. QED
    BY <2>1, CountsUntouched
<1>. QED
  BY <1>3, <1>4, <1>5, <1>6, <1>7, <1>8, <1>9, <1>10, <1>11 DEF ProximityNext

\* Somebody who keeps tapping is never refused as often as a burst within one window
\* (note_input_gated_at and DOUBLE_TAP_BURST_COUNT, whatever the sensor, the lock and the
\* expiries do in between), and the dwell is stamped exactly in Observed.
THEOREM InsistenceWins == ProximitySpec => []ProximityInv
<1>1. VetoInv => ProximityInv
  <2>. SUFFICES ASSUME VetoInv PROVE ProximityInv
    OBVIOUS
  <2>1. refusals \in Seq(Ages) /\ taps \in Seq(Ages) /\ BurstWindow \in Nat
    BY AgeIsNumber DEF VetoInv, ProximityTypeOK
  <2>2. /\ Count(taps, BurstWindow) \in Nat /\ Count(refusals, BurstWindow) \in Nat
        /\ Count(refusals, BurstWindow) <= Len(refusals)
    <3>1. BurstWindow \in Int
      BY <2>1
    <3>. QED
      BY <2>1, <3>1, CountIsNumber
  <2>3. Count(taps, BurstWindow) <= Count(refusals, BurstWindow)
    BY <2>1 DEF VetoInv, Counted
  <2>4. Count(taps, BurstWindow) < BurstCount
    <3>1. Len(refusals) \in Nat /\ BurstCount \in Nat /\ Len(refusals) < BurstCount
      BY <2>1, ProximityConstants DEF VetoInv
    <3>. QED
      BY <2>2, <2>3, <3>1
  <2>. QED
    BY <2>4 DEF VetoInv, ProximityInv, InsistingWakes, Count
<1>. QED
  BY <1>1, VetoInit, VetoStep, PTL DEF ProximitySpec

\* A stay in Observed that a sensor's reading or a tick ends has lasted its dwell, counted
\* from this entry (update_sensors_from_at, observed_dwell_elapsed): whatever locks,
\* unlocks and expiries came in between, the stamp is that of the state it is in.
THEOREM ObservedStays == ProximitySpec => ObservedDwells
<1>1. ASSUME ProximityTypeOK, [ProximityNext]_proximityVars
      PROVE  [state = "observed" /\ state' = "locked"
                  /\ (SensorInput \/ OtherInput \/ ProximityTick)
                => dwell # NoStamp /\ dwell >= MinDwell]_proximityVars
  <2>1. ASSUME NEW belief, Reconsider(belief), state = "observed", state' = "locked"
        PROVE  DwellElapsed
    BY <2>1 DEF Reconsider
  <2>2. ASSUME state = "observed", state' = "locked",
               SensorInput \/ OtherInput \/ ProximityTick
        PROVE  DwellElapsed
    <3>1. CASE SensorInput
      <4>1. Reconsider(Debounce(covered, covered).near)
        BY <3>1 DEF SensorInput
      <4>. QED
        BY <2>1, <2>2, <4>1
    <3>2. CASE OtherInput
      BY <2>1, <2>2, <3>2 DEF OtherInput
    <3>3. CASE ProximityTick
      <4>1. (\E belief : Reconsider(belief)) \/ UNCHANGED state
        BY <3>3 DEF ProximityTick, placed
      <4>. QED
        BY <2>1, <2>2, <4>1
    <3>. QED
      BY <2>2, <3>1, <3>2, <3>3
  <2>3. state = "observed" => dwell # NoStamp
    BY <1>1 DEF ProximityTypeOK
  <2>. QED
    BY <2>2, <2>3 DEF DwellElapsed
<1>2. ProximityInv => ProximityTypeOK
  BY DEF ProximityInv
<1>. QED
  BY <1>1, <1>2, InsistenceWins, PTL DEF ProximitySpec, ObservedDwells

-----------------------------------------------------------------------------
(*****************************************************************************)
(* The dim and the way back.                                                 *)
(*                                                                           *)
(* The level comes back, for any levels, workers and floor, unless two have  *)
(* been about the brightness at once or setting it has failed, and then once *)
(* the person has chosen again.  Until that happens at most one worker is    *)
(* about the brightness, and where it has got to says where the way back is: *)
(* kept, in the hands of who returns, or already given back.  The others may *)
(* be blanking and lighting the panel and deciding whatever they like.       *)
(*****************************************************************************)

(* The inductive invariant. *)

Dimmers == [dimmed: BOOLEAN, panelOn: BOOLEAN, asked: BOOLEAN, idle: BOOLEAN,
             latch: {"none", "dark", "lit"}]

\* The actions of one decision.
Lifting == {<<"restore">>, <<"unblank", "restore">>}
Leaving == {<<>>, <<"unblank">>, <<"blank">>}
Plans   == Lifting \cup Leaving \cup {<<"dim">>}

\* The levels a person may be left with, and what a capture may have read.
LevelsLeft  == {wanted, FloorLevel}
LevelsRead == {wanted, FloorLevel, NoLevel}

\* The way back while the worker w, and nobody else, may be about the brightness:
\* nothing of the warning, the warning in its three steps, the return in its two.
Passes(w)   == /\ todo[w] \in Leaving /\ doing[w] = Rest
               /\ dimmer.dimmed => saved \in LevelsRead
               /\ ~dimmer.dimmed => saved = NoLevel /\ level \in LevelsLeft
Warns(w)    == todo[w] = <<"dim">> /\ doing[w] = Rest /\ dimmer.dimmed /\ level \in LevelsLeft
Captures(w) == /\ todo[w] = <<>> /\ doing[w].at = "read" /\ dimmer.dimmed
               /\ doing[w].value \in LevelsRead
Darkens(w)  == /\ todo[w] = <<>> /\ doing[w].at = "set" /\ dimmer.dimmed
               /\ doing[w].value = DimLevel /\ saved \in LevelsRead
Returns(w)  == todo[w] \in Lifting /\ doing[w] = Rest /\ ~dimmer.dimmed /\ saved \in LevelsRead
GivesBack(w) == /\ todo[w] = <<>> /\ doing[w].at = "set" /\ ~dimmer.dimmed
                /\ doing[w].value \in LevelsLeft /\ saved = NoLevel
Undims(w)   == todo[w] = <<>> /\ doing[w].at = "undim" /\ ~dimmer.dimmed /\ saved = NoLevel

Sound(w) ==
    \/ Passes(w) \/ Warns(w) \/ Captures(w) \/ Darkens(w)
    \/ Returns(w) \/ GivesBack(w) \/ Undims(w)

OthersQuiet(w) == \A v \in Workers \ {w} : todo[v] \in Leaving /\ doing[v] = Rest

\* A press under way has lifted the warning, and keeps it away.
PressLifts == dimmer.latch # "none" => ~dimmer.idle /\ ~dimmer.dimmed

LevelKnown == level \in LevelsLeft \cup {DimLevel}

\* The brightness is in the hands of one worker at most.
Traced == LevelKnown /\ \E w \in Workers : Sound(w) /\ OthersQuiet(w)

\* What is about to be set is a level.
SetsKnown == \A w \in Workers : doing[w].at = "set" => doing[w].value \in Levels

LightInv == DimTypeOK /\ PressLifts /\ SetsKnown /\ (~astray => Traced)

\* What a decision hands out in keeping with the machine it leaves.
InKeeping(m, acts) ==
    /\ m \in Dimmers /\ acts \in Plans
    /\ m.latch # "none" => ~m.idle /\ ~m.dimmed
    /\ acts \in Leaving => m.dimmed = dimmer.dimmed
    /\ acts = <<"dim">> => m.dimmed /\ ~dimmer.dimmed
    /\ acts \in Lifting => ~m.dimmed

-----------------------------------------------------------------------------

\* What is assumed of the levels and the workers.
LEMMA LevelBounds ==
    /\ UserLevels \subseteq Nat /\ DimLevel \in Nat /\ Floor \in Nat /\ FloorLevel \in Nat
    /\ DimLevel < Floor /\ Floor <= FloorLevel /\ DimLevel \notin UserLevels
    /\ NoLevel \notin Levels /\ NoLevel \notin Nat
    /\ "clock" \in Workers /\ Handlers \subseteq Workers
  BY LevelConstants DEF NoLevel, Levels, Workers

\* A press on a dark panel lights it and takes the warning away.
LEMMA TwoActs == <<"unblank">> \o <<"restore">> = <<"unblank", "restore">>
<1> DEFINE S == {"restore", "unblank"}
<1>1. <<"unblank">> \in Seq(S) /\ <<"restore">> \in Seq(S) OBVIOUS
<1>2. <<"unblank", "restore">> \in Seq(S) OBVIOUS
<1>3. PICK a \in Seq(S) : a = <<"unblank">> BY <1>1
<1>4. PICK b \in Seq(S) : b = <<"restore">> BY <1>1
<1>5. PICK c \in Seq(S) : c = <<"unblank", "restore">> BY <1>2
<1>6. /\ Len(a) = 1 /\ a[1] = "unblank" /\ Len(b) = 1 /\ b[1] = "restore"
      /\ Len(c) = 2 /\ c[1] = "unblank" /\ c[2] = "restore"
  BY <1>3, <1>4, <1>5
<1> HIDE DEF S
<1>7. a \o b \in Seq(S) /\ Len(a \o b) = 2 BY <1>6, ConcatProperties
<1>8. \A i \in 1 .. 2 : (a \o b)[i] = c[i] BY <1>6, ConcatProperties
<1>9. a \o b = c BY <1>6, <1>7, <1>8, SeqEqual
<1> QED BY <1>3, <1>4, <1>5, <1>9

\* A plan is a list of actions.
LEMMA PlansTyped ==
  ASSUME NEW acts \in Plans
  PROVE  acts \in Seq({"dim", "restore", "blank", "unblank"})
<1> DEFINE S == {"dim", "restore", "blank", "unblank"}
<1>1. \/ acts = <<>> \/ acts = <<"unblank">> \/ acts = <<"blank">> \/ acts = <<"dim">>
      \/ acts = <<"restore">> \/ acts = <<"unblank", "restore">>
  BY DEF Plans, Lifting, Leaving
<1>2. <<>> \in Seq(S) OBVIOUS
<1>3. <<"unblank">> \in Seq(S) OBVIOUS
<1>4. <<"blank">> \in Seq(S) OBVIOUS
<1>5. <<"dim">> \in Seq(S) OBVIOUS
<1>6. <<"restore">> \in Seq(S) OBVIOUS
<1>7. <<"unblank", "restore">> \in Seq(S) OBVIOUS
<1> QED BY <1>1, <1>2, <1>3, <1>4, <1>5, <1>6, <1>7, Zenon

\* A plan that does not leave the brightness alone is about it.
LEMMA LightPlans ==
  ASSUME NEW acts \in Plans, acts \notin Leaving
  PROVE  AboutLight(acts)
<1>1. acts = <<"restore">> \/ acts = <<"unblank", "restore">> \/ acts = <<"dim">>
  BY DEF Plans, Lifting
<1>2. CASE acts = <<"restore">>
  <2>1. 1 \in DOMAIN acts /\ acts[1] = "restore" BY <1>2
  <2> QED BY <2>1 DEF AboutLight
<1>3. CASE acts = <<"unblank", "restore">>
  <2>1. 2 \in DOMAIN acts /\ acts[2] = "restore" BY <1>3
  <2> QED BY <2>1 DEF AboutLight
<1>4. CASE acts = <<"dim">>
  <2>1. 1 \in DOMAIN acts /\ acts[1] = "dim" BY <1>4
  <2> QED BY <2>1 DEF AboutLight
<1> QED BY <1>1, <1>2, <1>3, <1>4

\* The worker whose turn it is: the one that is about the brightness.
LEMMA TheBusyOne ==
  ASSUME Traced, NEW v \in Workers, todo[v] \notin Leaving \/ doing[v] # Rest
  PROVE  Sound(v) /\ OthersQuiet(v)
  BY DEF Traced, OthersQuiet

\* Who has a plan is not in the middle of an action.
LEMMA PlanAtHand ==
  ASSUME NEW w \in Workers, Sound(w)
  PROVE  todo[w] \in Plans /\ (todo[w] # <<>> => doing[w] = Rest)
  BY DEF Sound, Passes, Warns, Captures, Darkens, Returns, GivesBack, Undims, Plans, Leaving

\* Every worker passes, while none is about the brightness.
LEMMA NobodyBusy ==
  ASSUME Traced, \A v \in Workers : doing[v] = Rest /\ ~AboutLight(todo[v]),
         NEW w \in Workers
  PROVE  Passes(w) /\ OthersQuiet(w)
<1>1. PICK u \in Workers : Sound(u) /\ OthersQuiet(u) BY DEF Traced
<1>2. todo[u] \in Plans /\ doing[u] = Rest /\ doing[u].at = "rest"
  BY <1>1, PlanAtHand DEF Rest
<1>3. todo[u] \in Leaving BY <1>2, LightPlans
<1>4. todo[u] \notin Lifting /\ todo[u] # <<"dim">>
  <2>1. \A acts \in Leaving : acts \notin Lifting /\ acts # <<"dim">> BY DEF Leaving, Lifting
  <2> QED BY <1>3, <2>1
<1>5. Passes(u)
  BY <1>1, <1>2, <1>4 DEF Sound, Warns, Captures, Darkens, Returns, GivesBack, Undims
<1>6. \A v \in Workers : todo[v] \in Leaving /\ doing[v] = Rest
  BY <1>1, <1>2, <1>3 DEF OthersQuiet
<1> QED BY <1>5, <1>6 DEF Passes, OthersQuiet

\* Anybody, when all rest.
LEMMA AllRest ==
  ASSUME Traced, AtRest, NEW w \in Workers
  PROVE  Passes(w) /\ OthersQuiet(w)
<1>1. \A v \in Workers : doing[v] = Rest /\ ~AboutLight(todo[v])
  BY DEF AtRest, AboutLight
<1> QED BY <1>1, NobodyBusy

\* It holds at the beginning.
LEMMA LightInit == DimInit => LightInv
<1> SUFFICES ASSUME DimInit PROVE LightInv OBVIOUS
<1>1. /\ dimmer = [dimmed |-> FALSE, panelOn |-> TRUE, asked |-> FALSE,
                   idle |-> FALSE, latch |-> "none"]
      /\ saved = NoLevel /\ wanted \in UserLevels /\ level = wanted /\ lit = TRUE
      /\ astray = FALSE /\ todo = [w \in Workers |-> <<>>] /\ doing = [w \in Workers |-> Rest]
  BY DEF DimInit
<1>2. Rest \in [at: {"rest", "read", "set", "undim"}, value: Levels \cup {NoLevel}]
  BY DEF Rest
<1>3. dimmer \in Dimmers BY <1>1 DEF Dimmers
<1>4. lit \in BOOLEAN /\ astray \in BOOLEAN BY <1>1
<1>5. DimTypeOK
  BY <1>1, <1>2, <1>3, <1>4 DEF DimTypeOK, Dimmers, Levels
<1>6. Passes("clock") BY <1>1, LevelBounds DEF Passes, Leaving, LevelsLeft
<1>7. OthersQuiet("clock") BY <1>1 DEF OthersQuiet, Leaving
<1>8. PressLifts /\ LevelKnown /\ SetsKnown
  BY <1>1 DEF PressLifts, LevelKnown, LevelsLeft, SetsKnown, Rest
<1> QED BY <1>5, <1>6, <1>7, <1>8, LevelBounds DEF LightInv, Traced, Sound

-----------------------------------------------------------------------------
(* Deciding. *)

\* A decision in keeping with the machine leaves the way back where it is, or hands
\* it to who carries the decision out when nobody else is about the brightness.
LEMMA DecideKeeps ==
  ASSUME LightInv, NEW w \in Workers, NEW m, NEW acts, InKeeping(m, acts),
         Decide(w, Result(m, acts))
  PROVE  LightInv'
<1>1. /\ todo[w] = <<>> /\ doing[w] = Rest
      /\ dimmer' = m /\ todo' = [todo EXCEPT ![w] = acts]
      /\ saved' = saved /\ doing' = doing /\ level' = level /\ lit' = lit /\ wanted' = wanted
  BY DEF Decide, Result
<1>2. astray' = (astray \/ (LightInHand /\ AboutLight(acts))) BY DEF Decide, Result
<1>3. todo \in [Workers -> Seq({"dim", "restore", "blank", "unblank"})]
      /\ todo'[w] = acts /\ \A v \in Workers \ {w} : todo'[v] = todo[v]
  BY <1>1 DEF LightInv, DimTypeOK
<1>4. DimTypeOK'
  <2>1. todo' \in [Workers -> Seq({"dim", "restore", "blank", "unblank"})]
    BY <1>1, <1>3, PlansTyped DEF InKeeping
  <2>2. m \in Dimmers BY DEF InKeeping
  <2>3. astray' \in BOOLEAN BY <1>2, Zenon
  <2> QED BY <1>1, <2>1, <2>2, <2>3 DEF LightInv, DimTypeOK, Dimmers
<1>5. PressLifts' /\ SetsKnown' BY <1>1 DEF InKeeping, PressLifts, SetsKnown, LightInv
<1>6. ASSUME ~astray' PROVE Traced'
  <2>1. Traced /\ ~(LightInHand /\ AboutLight(acts)) BY <1>2, <1>6 DEF LightInv
  <2>2. LevelKnown' BY <1>1, <2>1 DEF Traced, LevelKnown, LevelsLeft
  <2>3. CASE acts \in Leaving
    <3>1. PICK u \in Workers : Sound(u) /\ OthersQuiet(u) BY <2>1 DEF Traced
    <3>2. m.dimmed = dimmer.dimmed BY <2>3 DEF InKeeping
    <3>3. OthersQuiet(u)' BY <1>1, <1>3, <2>3, <3>1 DEF OthersQuiet, Leaving
    <3>4. CASE u = w
      <4>1. doing[w].at = "rest" /\ <<>> \notin Lifting /\ <<>> # <<"dim">>
        BY <1>1 DEF Rest, Lifting
      <4>2. Passes(w)
        BY <1>1, <3>1, <3>4, <4>1
           DEF Sound, Warns, Captures, Darkens, Returns, GivesBack, Undims
      <4>3. Passes(w)'
        BY <1>1, <1>3, <2>3, <3>2, <4>2 DEF Passes, LevelsLeft, LevelsRead, Leaving
      <4> QED BY <2>2, <3>3, <3>4, <4>3 DEF Traced, Sound
    <3>5. CASE u # w
      <4>1. todo'[u] = todo[u] /\ doing'[u] = doing[u] /\ dimmer'.dimmed = dimmer.dimmed
        BY <1>1, <1>3, <3>2, <3>5
      <4>2. Sound(u)'
        BY <1>1, <3>1, <4>1
           DEF Sound, Passes, Warns, Captures, Darkens, Returns, GivesBack, Undims,
               LevelsLeft, LevelsRead, Leaving, Lifting
      <4> QED BY <2>2, <3>3, <4>2 DEF Traced
    <3> QED BY <3>4, <3>5
  <2>4. CASE acts \notin Leaving
    <3>1. ~LightInHand BY <2>1, <2>4, LightPlans DEF InKeeping
    <3>2. Passes(w) /\ OthersQuiet(w)
      <4>1. \A v \in Workers : doing[v] = Rest /\ ~AboutLight(todo[v])
        BY <3>1 DEF LightInHand
      <4> QED BY <2>1, <4>1, NobodyBusy
    <3>3. OthersQuiet(w)' BY <1>1, <1>3, <3>2 DEF OthersQuiet, Leaving
    <3>4. Sound(w)'
      <4>1. CASE acts = <<"dim">>
        BY <1>1, <1>3, <3>2, <4>1 DEF InKeeping, Sound, Passes, Warns, LevelsLeft
      <4>2. CASE acts \in Lifting
        BY <1>1, <1>3, <3>2, <4>2
           DEF InKeeping, Sound, Passes, Returns, LevelsRead, Lifting
      <4> QED BY <2>4, <4>1, <4>2 DEF InKeeping, Plans
    <3> QED BY <2>2, <3>3, <3>4 DEF Traced
  <2> QED BY <2>3, <2>4
<1> QED BY <1>4, <1>5, <1>6 DEF LightInv

\* The machine is one.
LEMMA MachineTyped == ASSUME LightInv PROVE dimmer \in Dimmers
  BY DEF LightInv, DimTypeOK, Dimmers

\* Every way of lifting the warning.
LEMMA LiftsFit ==
  ASSUME NEW m \in Dimmers, m.dimmed = dimmer.dimmed, m.latch # "none" => ~m.idle
  PROVE  InKeeping(Lifts(m).m, Lifts(m).acts)
<1>1. CASE m.dimmed
  <2>1. Lifts(m).acts = <<"restore">> /\ Lifts(m).m = [m EXCEPT !.dimmed = FALSE]
    BY <1>1 DEF Lifts, Result
  <2>2. <<"restore">> \in Lifting /\ <<"restore">> \notin Leaving /\ <<"restore">> # <<"dim">>
    BY DEF Lifting, Leaving
  <2> QED BY <2>1, <2>2 DEF InKeeping, Dimmers, Plans
<1>2. CASE ~m.dimmed
  <2>1. Lifts(m).acts = <<>> /\ Lifts(m).m = [m EXCEPT !.dimmed = FALSE]
    BY <1>2 DEF Lifts, Result
  <2>2. <<>> \notin Lifting /\ <<>> \in Leaving /\ <<>> # <<"dim">>
    BY DEF Lifting, Leaving
  <2>3. m.dimmed = FALSE BY <1>2 DEF Dimmers
  <2> QED BY <2>1, <2>2, <2>3 DEF InKeeping, Dimmers, Plans
<1> QED BY <1>1, <1>2


\* ... and lighting the panel first.
LEMMA UnblankToo ==
  ASSUME NEW m, NEW acts \in {<<>>, <<"restore">>}, InKeeping(m, acts)
  PROVE  InKeeping(m, <<"unblank">> \o acts)
<1>1. CASE acts = <<>>
  <2>1. <<"unblank">> \o acts = <<"unblank">> BY <1>1
  <2>2. <<>> \in Leaving /\ <<"unblank">> \in Leaving /\ <<"unblank">> # <<"dim">>
        /\ <<"unblank">> \notin Lifting
    BY DEF Leaving, Lifting
  <2> QED BY <1>1, <2>1, <2>2 DEF InKeeping, Plans
<1>2. CASE acts = <<"restore">>
  <2>1. <<"unblank">> \o acts = <<"unblank", "restore">> BY <1>2, TwoActs
  <2>2. <<"restore">> \in Lifting /\ <<"unblank", "restore">> \notin Leaving
        /\ <<"unblank", "restore">> # <<"dim">> /\ <<"unblank", "restore">> \in Lifting
    BY DEF Leaving, Lifting
  <2> QED BY <1>2, <2>1, <2>2 DEF InKeeping, Plans
<1> QED BY <1>1, <1>2

\* Input takes the warning away, if there is one.
LEMMA InputFits ==
  ASSUME NEW m \in Dimmers, m.dimmed = dimmer.dimmed, NEW wakes \in BOOLEAN
  PROVE  InKeeping(NoteInput(m, wakes).m, NoteInput(m, wakes).acts)
<1> DEFINE quiet == [m EXCEPT !.idle = FALSE, !.asked = FALSE]
           r == Lifts(quiet)
<1>1. quiet \in Dimmers /\ quiet.dimmed = dimmer.dimmed /\ ~quiet.idle BY DEF Dimmers
<1> HIDE DEF quiet
<1>2. InKeeping(r.m, r.acts) BY <1>1, LiftsFit
<1>3. r.acts \in {<<>>, <<"restore">>} BY DEF Lifts, Result
<1>4. NoteInput(m, wakes).m = r.m
      /\ NoteInput(m, wakes).acts \in {r.acts, <<"unblank">> \o r.acts}
  BY DEF NoteInput, Result, quiet
<1> HIDE DEF r
<1>5. InKeeping(r.m, <<"unblank">> \o r.acts) BY <1>2, <1>3, UnblankToo
<1> QED BY <1>2, <1>4, <1>5

\* A decision that leaves the warning as it is and hands out nothing.
LEMMA NothingFits ==
  ASSUME NEW m \in Dimmers, m.dimmed = dimmer.dimmed, m.latch # "none" => ~m.idle /\ ~m.dimmed
  PROVE  InKeeping(m, <<>>)
<1>1. <<>> \in Leaving /\ <<>> \notin Lifting /\ <<>> # <<"dim">> BY DEF Leaving, Lifting
<1> QED BY <1>1 DEF InKeeping, Plans

\* A report of the panel takes no warning and gives none.
LEMMA PanelFits ==
  ASSUME NEW m \in Dimmers, m.dimmed = dimmer.dimmed, m.latch # "none" => ~m.idle /\ ~m.dimmed,
         NEW on \in BOOLEAN
  PROVE  InKeeping(SetPanel(m, on).m, SetPanel(m, on).acts)
<1>1. CASE m.panelOn = on
  <2>1. SetPanel(m, on).m = m /\ SetPanel(m, on).acts = <<>> BY <1>1 DEF SetPanel, Result
  <2> QED BY <2>1, NothingFits
<1>2. CASE m.panelOn # on /\ on
  <2> DEFINE woken == [m EXCEPT !.panelOn = TRUE, !.asked = FALSE, !.idle = FALSE]
  <2>1. woken \in Dimmers /\ woken.dimmed = dimmer.dimmed /\ ~woken.idle BY DEF Dimmers
  <2>2. SetPanel(m, on) = Lifts(woken) BY <1>2 DEF SetPanel
  <2> HIDE DEF woken
  <2> QED BY <2>1, <2>2, LiftsFit
<1>3. CASE m.panelOn # on /\ ~on
  <2> DEFINE dark == [m EXCEPT !.panelOn = FALSE, !.asked = FALSE]
  <2>1. dark \in Dimmers /\ dark.dimmed = dimmer.dimmed /\ dark.latch = m.latch
        /\ dark.idle = m.idle /\ dark.dimmed = m.dimmed
    BY DEF Dimmers
  <2>2. SetPanel(m, on).m = dark /\ SetPanel(m, on).acts = <<>> BY <1>3 DEF SetPanel, Result
  <2> HIDE DEF dark
  <2>3. InKeeping(dark, <<>>) BY <2>1, NothingFits
  <2> QED BY <2>2, <2>3
<1> QED BY <1>1, <1>2, <1>3

\* The clock: a tap that ends, or the idle rule.
LEMMA TapFits ==
  ASSUME LightInv, dimmer.latch # "none", NEW r \in IdleRule(PowerTap(dimmer).m)
  PROVE  InKeeping(r.m, PowerTap(dimmer).acts \o r.acts)
<1>1. dimmer \in Dimmers /\ ~dimmer.idle /\ ~dimmer.dimmed
  BY MachineTyped DEF LightInv, PressLifts
<1> DEFINE dark  == [dimmer EXCEPT !.latch = "none", !.asked = FALSE]
           light == [dimmer EXCEPT !.latch = "none", !.asked = TRUE]
<1>2. /\ dark \in Dimmers /\ dark.latch = "none" /\ ~dark.idle /\ ~dark.dimmed
      /\ light \in Dimmers /\ light.latch = "none" /\ ~light.idle /\ ~light.dimmed
      /\ dark.dimmed = dimmer.dimmed /\ light.dimmed = dimmer.dimmed
  BY <1>1 DEF Dimmers
<1>3. \/ PowerTap(dimmer).m = dark /\ PowerTap(dimmer).acts = <<"unblank", "restore">>
      \/ PowerTap(dimmer).m = light /\ PowerTap(dimmer).acts = <<"blank">>
  BY <1>1 DEF PowerTap, Result, Dimmers
<1> HIDE DEF dark, light
<1>4. r.m = PowerTap(dimmer).m /\ r.acts = <<>>
  BY <1>2, <1>3 DEF IdleRule, MayDim, Result
<1>5. CASE PowerTap(dimmer).m = dark /\ PowerTap(dimmer).acts = <<"unblank", "restore">>
  <2>1. <<"unblank", "restore">> \o <<>> = <<"unblank", "restore">> OBVIOUS
  <2>2. /\ <<"unblank", "restore">> \notin Leaving /\ <<"unblank", "restore">> \in Lifting
        /\ <<"unblank", "restore">> # <<"dim">>
    BY DEF Leaving, Lifting
  <2>3. InKeeping(dark, <<"unblank", "restore">>) BY <1>2, <2>2 DEF InKeeping, Plans
  <2> QED BY <1>4, <1>5, <2>1, <2>3
<1>6. CASE PowerTap(dimmer).m = light /\ PowerTap(dimmer).acts = <<"blank">>
  <2>1. <<"blank">> \o <<>> = <<"blank">> OBVIOUS
  <2>2. <<"blank">> \in Leaving /\ <<"blank">> \notin Lifting /\ <<"blank">> # <<"dim">>
    BY DEF Leaving, Lifting
  <2>3. InKeeping(light, <<"blank">>) BY <1>2, <2>2 DEF InKeeping, Plans
  <2> QED BY <1>4, <1>6, <2>1, <2>3
<1> QED BY <1>3, <1>5, <1>6

\* The idle rule warns once, and not while a press is under way.
LEMMA IdleFits ==
  ASSUME LightInv, NEW r \in IdleRule(dimmer)
  PROVE  InKeeping(r.m, <<>> \o r.acts)
<1>1. dimmer \in Dimmers /\ (dimmer.latch # "none" => ~dimmer.idle /\ ~dimmer.dimmed)
  BY MachineTyped DEF LightInv, PressLifts
<1>2. CASE r = Result(dimmer, <<>>)
  <2>1. r.m = dimmer /\ r.acts = <<>> BY <1>2 DEF Result
  <2>2. <<>> \o r.acts = <<>> BY <2>1
  <2>3. InKeeping(dimmer, <<>>) BY <1>1, NothingFits
  <2> QED BY <2>1, <2>2, <2>3
<1>3. CASE MayDim(dimmer) /\ r = Result([dimmer EXCEPT !.dimmed = TRUE], <<"dim">>)
  <2> DEFINE warned == [dimmer EXCEPT !.dimmed = TRUE]
  <2>1. dimmer.idle /\ ~dimmer.dimmed /\ dimmer.latch = "none" BY <1>1, <1>3 DEF MayDim
  <2>2. warned \in Dimmers /\ warned.latch = "none" /\ warned.dimmed BY <1>1, <2>1 DEF Dimmers
  <2>3. r.m = warned /\ r.acts = <<"dim">> BY <1>3 DEF Result
  <2>4. <<>> \o r.acts = <<"dim">> BY <2>3
  <2>5. <<"dim">> \notin Leaving /\ <<"dim">> \notin Lifting BY DEF Leaving, Lifting
  <2> HIDE DEF warned
  <2>6. InKeeping(warned, <<"dim">>) BY <2>1, <2>2, <2>5 DEF InKeeping, Plans
  <2> QED BY <2>3, <2>4, <2>6
<1>4. CASE dimmer.idle /\ r = Result([dimmer EXCEPT !.asked = TRUE], <<"blank">>)
  <2> DEFINE dark == [dimmer EXCEPT !.asked = TRUE]
  <2>1. dark \in Dimmers /\ dark.latch = "none" /\ dark.dimmed = dimmer.dimmed
    BY <1>1, <1>4 DEF Dimmers
  <2>2. r.m = dark /\ r.acts = <<"blank">> BY <1>4 DEF Result
  <2>3. <<>> \o r.acts = <<"blank">> BY <2>2
  <2>4. <<"blank">> \in Leaving /\ <<"blank">> \notin Lifting /\ <<"blank">> # <<"dim">>
    BY DEF Leaving, Lifting
  <2> HIDE DEF dark
  <2>5. InKeeping(dark, <<"blank">>) BY <2>1, <2>4 DEF InKeeping, Plans
  <2> QED BY <2>2, <2>3, <2>5
<1> QED BY <1>2, <1>3, <1>4 DEF IdleRule

-----------------------------------------------------------------------------
(* Carrying out. *)

\* A step that only changes what the worker w is doing, or what it has to do.
LEMMA StepTyped ==
  ASSUME LightInv, NEW w \in Workers,
         dimmer' \in Dimmers, saved' \in Levels \cup {NoLevel}, level' \in Levels,
         lit' \in BOOLEAN, wanted' = wanted, astray' \in BOOLEAN,
         \/ todo' = todo
         \/ /\ todo[w] # <<>>
            /\ todo' = [todo EXCEPT ![w] = Tail(@)],
         \/ doing' = doing
         \/ \E at \in {"rest", "read", "set", "undim"}, value \in Levels \cup {NoLevel} :
              doing' = [doing EXCEPT ![w] = [at |-> at, value |-> value]]
  PROVE  DimTypeOK' /\ \A v \in Workers \ {w} : todo'[v] = todo[v] /\ doing'[v] = doing[v]
<1>1. DimTypeOK BY DEF LightInv
<1>2. todo' \in [Workers -> Seq({"dim", "restore", "blank", "unblank"})]
  <2>1. todo \in [Workers -> Seq({"dim", "restore", "blank", "unblank"})]
    BY <1>1 DEF DimTypeOK
  <2>2. todo[w] # <<>> => Tail(todo[w]) \in Seq({"dim", "restore", "blank", "unblank"})
    BY <2>1
  <2> QED BY <2>1, <2>2
<1>3. doing' \in [Workers -> [at: {"rest", "read", "set", "undim"},
                              value: Levels \cup {NoLevel}]]
  <2>1. doing \in [Workers -> [at: {"rest", "read", "set", "undim"},
                               value: Levels \cup {NoLevel}]]
    BY <1>1 DEF DimTypeOK
  <2>2. CASE doing' = doing BY <2>1, <2>2
  <2>3. CASE \E at \in {"rest", "read", "set", "undim"}, value \in Levels \cup {NoLevel} :
               doing' = [doing EXCEPT ![w] = [at |-> at, value |-> value]]
    BY <2>1, <2>3
  <2> QED BY <2>2, <2>3
<1>4. DimTypeOK' BY <1>1, <1>2, <1>3 DEF DimTypeOK, Dimmers
<1>5. \A v \in Workers \ {w} : todo'[v] = todo[v] /\ doing'[v] = doing[v]
  BY <1>1 DEF DimTypeOK
<1> QED BY <1>4, <1>5

\* The first of what a decision handed out, and the rest.
LEMMA HeadOfPlan ==
  ASSUME NEW acts \in Plans, acts # <<>>
  PROVE  /\ Head(acts) = "dim" => acts = <<"dim">> /\ Tail(acts) = <<>>
         /\ Head(acts) = "restore" => acts = <<"restore">> /\ Tail(acts) = <<>>
         /\ Head(acts) = "blank" => acts = <<"blank">> /\ Tail(acts) = <<>>
         /\ Head(acts) = "unblank" => \/ acts = <<"unblank">> /\ Tail(acts) = <<>>
                                      \/ /\ acts = <<"unblank", "restore">>
                                         /\ Tail(acts) = <<"restore">>
<1>1. \/ acts = <<"unblank">> \/ acts = <<"blank">> \/ acts = <<"dim">>
      \/ acts = <<"restore">> \/ acts = <<"unblank", "restore">>
  BY DEF Plans, Lifting, Leaving
<1>2. Head(<<"unblank", "restore">>) = "unblank" OBVIOUS
<1>3. Tail(<<"unblank", "restore">>) = <<"restore">> OBVIOUS
<1>4. Head(<<"unblank">>) = "unblank" /\ Tail(<<"unblank">>) = <<>> OBVIOUS
<1>5. Head(<<"dim">>) = "dim" /\ Tail(<<"dim">>) = <<>> OBVIOUS
<1>6. Head(<<"blank">>) = "blank" /\ Tail(<<"blank">>) = <<>> OBVIOUS
<1>7. Head(<<"restore">>) = "restore" /\ Tail(<<"restore">>) = <<>> OBVIOUS
<1> QED BY <1>1, <1>2, <1>3, <1>4, <1>5, <1>6, <1>7, Zenon

\* What leaves the brightness alone is one action at most, and not about it.
LEMMA LeavingIsShort ==
  ASSUME NEW acts \in Leaving, acts # <<>>
  PROVE  Head(acts) \in {"blank", "unblank"} /\ Tail(acts) = <<>>
<1>1. acts = <<"unblank">> \/ acts = <<"blank">> BY DEF Leaving
<1>2. Head(<<"unblank">>) = "unblank" /\ Tail(<<"unblank">>) = <<>> OBVIOUS
<1>3. Head(<<"blank">>) = "blank" /\ Tail(<<"blank">>) = <<>> OBVIOUS
<1> QED BY <1>1, <1>2, <1>3, Zenon

\* The capture reads the level before anything is dimmed.
LEMMA ReadKeeps == ASSUME LightInv, NEW w \in Workers, ReadBrightness(w) PROVE LightInv'
<1>1. /\ doing[w] = Rest /\ todo[w] # <<>> /\ Head(todo[w]) = "dim"
      /\ todo' = [todo EXCEPT ![w] = Tail(@)]
      /\ dimmer' = dimmer /\ saved' = saved /\ level' = level /\ lit' = lit
      /\ wanted' = wanted /\ astray' = astray
  BY DEF ReadBrightness, Begin, Drop
<1>2. PICK value \in {level, NoLevel} :
        doing' = [doing EXCEPT ![w] = [at |-> "read", value |-> value]]
  BY DEF ReadBrightness, Becomes
<1>3. DimTypeOK BY DEF LightInv
<1>4. DimTypeOK' /\ \A v \in Workers \ {w} : todo'[v] = todo[v] /\ doing'[v] = doing[v]
  <2>1. value \in Levels \cup {NoLevel} BY <1>3 DEF DimTypeOK
  <2>2. dimmer' \in Dimmers /\ saved' \in Levels \cup {NoLevel} /\ level' \in Levels
        /\ lit' \in BOOLEAN /\ astray' \in BOOLEAN
    BY <1>1, <1>3, MachineTyped DEF DimTypeOK
  <2>3. \E at \in {"rest", "read", "set", "undim"}, v \in Levels \cup {NoLevel} :
          doing' = [doing EXCEPT ![w] = [at |-> at, value |-> v]]
    BY <1>2, <2>1
  <2> QED BY <1>1, <2>2, <2>3, StepTyped
<1>5. doing'[w] = [at |-> "read", value |-> value] BY <1>2, <1>3 DEF DimTypeOK
<1>6. PressLifts' /\ SetsKnown' BY <1>1, <1>4, <1>5 DEF LightInv, PressLifts, SetsKnown
<1>7. ASSUME ~astray' PROVE Traced'
  <2>1. Traced /\ LevelKnown BY <1>1, <1>7 DEF LightInv, Traced
  <2>2. todo[w] \notin Leaving BY <1>1, LeavingIsShort
  <2>3. Sound(w) /\ OthersQuiet(w) BY <2>1, <2>2, TheBusyOne
  <2>4. todo[w] = <<"dim">> /\ Tail(todo[w]) = <<>> BY <1>1, <2>3, PlanAtHand, HeadOfPlan
  <2>5. Warns(w)
    <3>1. <<"dim">> \notin Leaving /\ <<"dim">> \notin Lifting BY DEF Leaving, Lifting
    <3>2. doing[w].at = "rest" BY <1>1 DEF Rest
    <3> QED BY <1>1, <2>3, <2>4, <3>1, <3>2
            DEF Sound, Passes, Captures, Darkens, Returns, GivesBack, Undims
  <2>6. todo'[w] = <<>> BY <1>1, <1>3, <2>4 DEF DimTypeOK
  <2>7. Captures(w)' BY <1>1, <1>5, <2>5, <2>6 DEF Captures, Warns, LevelsLeft, LevelsRead
  <2>8. OthersQuiet(w)' BY <1>4, <2>3 DEF OthersQuiet, Leaving
  <2>9. LevelKnown' BY <1>1, <2>1 DEF LevelKnown, LevelsLeft
  <2> QED BY <2>7, <2>8, <2>9 DEF Traced, Sound
<1> QED BY <1>4, <1>6, <1>7 DEF LightInv

\* The capture is kept as the way back, or as the floor.
LEMMA NoteKeeps == ASSUME LightInv, NEW w \in Workers, NoteBrightness(w) PROVE LightInv'
<1>1. /\ doing[w].at = "read" /\ saved' = doing[w].value
      /\ doing' = [doing EXCEPT ![w] = [at |-> "set", value |-> DimLevel]]
      /\ todo' = todo /\ dimmer' = dimmer /\ level' = level /\ lit' = lit
      /\ wanted' = wanted /\ astray' = astray
  BY DEF NoteBrightness, Becomes
<1>2. DimTypeOK BY DEF LightInv
<1>3. DimTypeOK' /\ \A v \in Workers \ {w} : todo'[v] = todo[v] /\ doing'[v] = doing[v]
  <2>1. DimLevel \in Levels \cup {NoLevel} BY DEF Levels
  <2>2. dimmer' \in Dimmers /\ saved' \in Levels \cup {NoLevel} /\ level' \in Levels
        /\ lit' \in BOOLEAN /\ astray' \in BOOLEAN
    BY <1>1, <1>2, MachineTyped DEF DimTypeOK
  <2> QED BY <1>1, <2>1, <2>2, StepTyped
<1>4. todo'[w] = todo[w] /\ doing'[w] = [at |-> "set", value |-> DimLevel]
  BY <1>1, <1>2 DEF DimTypeOK
<1>5. PressLifts' /\ SetsKnown'
  BY <1>1, <1>3, <1>4 DEF LightInv, PressLifts, SetsKnown, Levels
<1>6. ASSUME ~astray' PROVE Traced'
  <2>1. Traced /\ LevelKnown BY <1>1, <1>6 DEF LightInv, Traced
  <2>2. doing[w] # Rest BY <1>1 DEF Rest
  <2>3. Sound(w) /\ OthersQuiet(w) BY <2>1, <2>2, TheBusyOne
  <2>4. Captures(w)
    BY <1>1, <2>2, <2>3 DEF Sound, Passes, Warns, Darkens, Returns, GivesBack, Undims
  <2>5. Darkens(w)' BY <1>1, <1>4, <2>4 DEF Captures, Darkens, LevelsRead
  <2>6. OthersQuiet(w)' BY <1>3, <2>3 DEF OthersQuiet, Leaving
  <2>7. LevelKnown' BY <1>1, <2>1 DEF LevelKnown, LevelsLeft
  <2> QED BY <2>5, <2>6, <2>7 DEF Traced, Sound
<1> QED BY <1>3, <1>5, <1>6 DEF LightInv

\* Who returns takes the way back, and nobody else can.
LEMMA TakeKeeps == ASSUME LightInv, NEW w \in Workers, TakeBrightness(w) PROVE LightInv'
<1>1. /\ doing[w] = Rest /\ todo[w] # <<>> /\ Head(todo[w]) = "restore"
      /\ todo' = [todo EXCEPT ![w] = Tail(@)]
      /\ dimmer' = dimmer /\ saved' = NoLevel /\ level' = level /\ lit' = lit
      /\ wanted' = wanted /\ astray' = astray
  BY DEF TakeBrightness, Begin, Drop
<1>2. doing' = [doing EXCEPT ![w] =
                 IF saved # NoLevel THEN [at |-> "set", value |-> saved]
                                    ELSE [at |-> "undim", value |-> NoLevel]]
  BY DEF TakeBrightness, Becomes
<1>3. DimTypeOK BY DEF LightInv
<1>4. DimTypeOK' /\ \A v \in Workers \ {w} : todo'[v] = todo[v] /\ doing'[v] = doing[v]
  <2>1. \E at \in {"rest", "read", "set", "undim"}, value \in Levels \cup {NoLevel} :
          doing' = [doing EXCEPT ![w] = [at |-> at, value |-> value]]
    <3>1. CASE saved # NoLevel BY <1>2, <1>3, <3>1 DEF DimTypeOK
    <3>2. CASE saved = NoLevel BY <1>2, <3>2
    <3> QED BY <3>1, <3>2
  <2>2. dimmer' \in Dimmers /\ saved' \in Levels \cup {NoLevel} /\ level' \in Levels
        /\ lit' \in BOOLEAN /\ astray' \in BOOLEAN
    BY <1>1, <1>3, MachineTyped DEF DimTypeOK
  <2> QED BY <1>1, <2>1, <2>2, StepTyped
<1>5. doing'[w] = IF saved # NoLevel THEN [at |-> "set", value |-> saved]
                                     ELSE [at |-> "undim", value |-> NoLevel]
  BY <1>2, <1>3 DEF DimTypeOK
<1>6. PressLifts' /\ SetsKnown'
  <2>1. saved # NoLevel => saved \in Levels BY <1>3 DEF DimTypeOK
  <2>2. doing'[w].at = "set" => doing'[w].value \in Levels
    <3>1. CASE saved # NoLevel BY <1>5, <2>1, <3>1
    <3>2. CASE saved = NoLevel BY <1>5, <3>2
    <3> QED BY <3>1, <3>2
  <2> QED BY <1>1, <1>4, <2>2 DEF LightInv, PressLifts, SetsKnown
<1>7. ASSUME ~astray' PROVE Traced'
  <2>1. Traced /\ LevelKnown BY <1>1, <1>7 DEF LightInv, Traced
  <2>2. todo[w] \notin Leaving BY <1>1, LeavingIsShort
  <2>3. Sound(w) /\ OthersQuiet(w) BY <2>1, <2>2, TheBusyOne
  <2>4. todo[w] = <<"restore">> /\ Tail(todo[w]) = <<>>
    BY <1>1, <2>3, PlanAtHand, HeadOfPlan
  <2>5. Returns(w)
    <3>1. <<"restore">> \notin Leaving /\ <<"restore">> # <<"dim">> BY DEF Leaving
    <3>2. doing[w].at = "rest" BY <1>1 DEF Rest
    <3> QED BY <1>1, <2>3, <2>4, <3>1, <3>2
            DEF Sound, Passes, Warns, Captures, Darkens, GivesBack, Undims
  <2>6. todo'[w] = <<>> BY <1>1, <1>3, <2>4 DEF DimTypeOK
  <2>7. Sound(w)'
    <3>1. CASE saved # NoLevel
      <4>1. GivesBack(w)'
        BY <1>1, <1>5, <2>5, <2>6, <3>1 DEF Returns, GivesBack, LevelsRead, LevelsLeft
      <4> QED BY <4>1 DEF Sound
    <3>2. CASE saved = NoLevel
      <4>1. Undims(w)' BY <1>1, <1>5, <2>5, <2>6, <3>2 DEF Returns, Undims
      <4> QED BY <4>1 DEF Sound
    <3> QED BY <3>1, <3>2
  <2>8. OthersQuiet(w)' BY <1>4, <2>3 DEF OthersQuiet, Leaving
  <2>9. LevelKnown' BY <1>1, <2>1 DEF LevelKnown, LevelsLeft
  <2> QED BY <2>7, <2>8, <2>9 DEF Traced
<1> QED BY <1>4, <1>6, <1>7 DEF LightInv

\* The level is set: dimmed, or given back; or the command fails.
LEMMA SetKeeps == ASSUME LightInv, NEW w \in Workers, SetBrightness(w) PROVE LightInv'
<1>1. /\ doing[w].at \in {"set", "undim"} /\ doing' = [doing EXCEPT ![w] = Rest]
      /\ dimmer' = dimmer /\ saved' = saved /\ todo' = todo /\ lit' = lit
      /\ wanted' = wanted
      /\ \/ /\ level' = IF doing[w].at = "set" THEN doing[w].value ELSE Undimmed
            /\ astray' = astray
         \/ astray' = TRUE /\ level' = level
  BY DEF SetBrightness
<1>2. DimTypeOK BY DEF LightInv
<1>3. level' \in Levels
  <2>1. level \in Levels /\ Undimmed \in Levels
    BY <1>2 DEF DimTypeOK, Undimmed, Levels
  <2>2. doing[w].at = "set" => doing[w].value \in Levels BY DEF LightInv, SetsKnown
  <2> QED BY <1>1, <2>1, <2>2
<1>4. DimTypeOK' /\ \A v \in Workers \ {w} : todo'[v] = todo[v] /\ doing'[v] = doing[v]
  <2>1. dimmer' \in Dimmers /\ saved' \in Levels \cup {NoLevel} /\ lit' \in BOOLEAN
    BY <1>1, <1>2, MachineTyped DEF DimTypeOK
  <2>2. \E at \in {"rest", "read", "set", "undim"}, v \in Levels \cup {NoLevel} :
          doing' = [doing EXCEPT ![w] = [at |-> at, value |-> v]]
    BY <1>1 DEF Rest
  <2>3. astray' \in BOOLEAN
    <3>1. astray \in BOOLEAN BY <1>2 DEF DimTypeOK
    <3>2. astray' = astray \/ astray' = TRUE BY <1>1, Zenon
    <3> QED BY <3>1, <3>2, Zenon
  <2> QED BY <1>1, <1>3, <2>1, <2>2, <2>3, StepTyped
<1>5. doing'[w] = Rest /\ doing'[w].at = "rest" BY <1>1, <1>2 DEF DimTypeOK, Rest
<1>6. PressLifts' /\ SetsKnown' BY <1>1, <1>4, <1>5 DEF LightInv, PressLifts, SetsKnown
<1>7. ASSUME ~astray' PROVE Traced'
  <2>1. /\ level' = IF doing[w].at = "set" THEN doing[w].value ELSE Undimmed
        /\ astray' = astray
    BY <1>1, <1>7
  <2>2. Traced /\ LevelKnown BY <1>7, <2>1 DEF LightInv, Traced
  <2>3. doing[w] # Rest BY <1>1 DEF Rest
  <2>4. Sound(w) /\ OthersQuiet(w) BY <2>2, <2>3, TheBusyOne
  <2>5. Darkens(w) \/ GivesBack(w) \/ Undims(w)
    BY <1>1, <2>3, <2>4 DEF Sound, Passes, Warns, Captures, Returns
  <2>6. /\ level' \in LevelsLeft \cup {DimLevel}
        /\ ~dimmer.dimmed => level' \in LevelsLeft
    <3>1. CASE Darkens(w) BY <2>1, <3>1 DEF Darkens
    <3>2. CASE GivesBack(w) BY <2>1, <3>2 DEF GivesBack
    <3>3. CASE Undims(w)
      <4>1. level' = IF level < Floor THEN FloorLevel ELSE level
        BY <2>1, <3>3 DEF Undims, Undimmed
      <4>2. level \in {wanted, FloorLevel, DimLevel} BY <2>2 DEF LevelKnown, LevelsLeft
      <4>3. level = DimLevel => level < Floor BY LevelBounds
      <4> QED BY <4>1, <4>2, <4>3 DEF LevelsLeft
    <3> QED BY <2>5, <3>1, <3>2, <3>3
  <2>7. todo'[w] = <<>> BY <1>1, <2>5 DEF Darkens, GivesBack, Undims
  <2>8. Passes(w)'
    <3>1. dimmer.dimmed => saved \in LevelsRead
      BY <2>5 DEF Darkens, GivesBack, Undims
    <3>2. ~dimmer.dimmed => saved = NoLevel BY <2>5 DEF Darkens, GivesBack, Undims
    <3>3. <<>> \in Leaving BY DEF Leaving
    <3> QED BY <1>1, <1>5, <2>6, <2>7, <3>1, <3>2, <3>3
            DEF Passes, LevelsRead, LevelsLeft, Leaving
  <2>9. OthersQuiet(w)' BY <1>4, <2>4 DEF OthersQuiet, Leaving
  <2>10. LevelKnown' BY <1>1, <2>6 DEF LevelKnown, LevelsLeft
  <2> QED BY <2>8, <2>9, <2>10 DEF Traced, Sound
<1> QED BY <1>4, <1>6, <1>7 DEF LightInv

\* The panel goes dark or lit: the way back stays, whoever holds it.
LEMMA PanelKeeps ==
  ASSUME LightInv, NEW w \in Workers, Blank(w) \/ Unblank(w)
  PROVE  LightInv'
<1>1. /\ doing[w] = Rest /\ todo[w] # <<>> /\ Head(todo[w]) \in {"blank", "unblank"}
      /\ todo' = [todo EXCEPT ![w] = Tail(@)]
      /\ saved' = saved /\ doing' = doing /\ level' = level /\ wanted' = wanted
      /\ dimmer' = dimmer \/ dimmer' = SetPanel(dimmer, FALSE).m
      /\ lit' \in {FALSE, TRUE, lit} /\ astray' = astray
  <2>1. CASE Blank(w) BY <2>1 DEF Blank, Begin, Drop
  <2>2. CASE Unblank(w) BY <2>2 DEF Unblank, Begin, Drop
  <2> QED BY <2>1, <2>2
<1>2. DimTypeOK BY DEF LightInv
<1>3. /\ dimmer' \in Dimmers /\ dimmer'.dimmed = dimmer.dimmed
      /\ dimmer'.latch # "none" => ~dimmer'.idle /\ ~dimmer'.dimmed
  <2>1. dimmer \in Dimmers /\ (dimmer.latch # "none" => ~dimmer.idle /\ ~dimmer.dimmed)
    BY MachineTyped DEF LightInv, PressLifts
  <2>2. \/ SetPanel(dimmer, FALSE).m = dimmer
        \/ SetPanel(dimmer, FALSE).m = [dimmer EXCEPT !.panelOn = FALSE, !.asked = FALSE]
    BY DEF SetPanel, Result
  <2>3. CASE dimmer' = dimmer BY <2>1, <2>3
  <2>4. CASE dimmer' = [dimmer EXCEPT !.panelOn = FALSE, !.asked = FALSE]
    BY <2>1, <2>4 DEF Dimmers
  <2> QED BY <1>1, <2>2, <2>3, <2>4
<1>4. DimTypeOK' /\ \A v \in Workers \ {w} : todo'[v] = todo[v] /\ doing'[v] = doing[v]
  <2>1. saved' \in Levels \cup {NoLevel} /\ level' \in Levels BY <1>1, <1>2 DEF DimTypeOK
  <2>2. lit' \in BOOLEAN /\ astray' \in BOOLEAN BY <1>1, <1>2 DEF DimTypeOK
  <2> QED BY <1>1, <1>3, <2>1, <2>2, StepTyped
<1>5. todo'[w] = Tail(todo[w]) BY <1>1, <1>2 DEF DimTypeOK
<1>6. PressLifts' /\ SetsKnown' BY <1>1, <1>3 DEF LightInv, PressLifts, SetsKnown
<1>7. ASSUME ~astray' PROVE Traced'
  <2>1. Traced /\ LevelKnown BY <1>1, <1>7 DEF LightInv, Traced
  <2>2. LevelKnown' BY <1>1, <2>1 DEF LevelKnown, LevelsLeft
  <2>3. PICK u \in Workers : Sound(u) /\ OthersQuiet(u) BY <2>1 DEF Traced
  <2>4. CASE todo[w] \in Leaving
    <3>1. Tail(todo[w]) = <<>> BY <1>1, <2>4, LeavingIsShort
    <3>2. OthersQuiet(u)' BY <1>1, <1>4, <1>5, <2>3, <3>1 DEF OthersQuiet, Leaving
    <3>3. CASE u = w
      <4>1. todo[w] \notin Lifting /\ todo[w] # <<"dim">> /\ doing[w].at = "rest"
        <5>1. \A acts \in Leaving : acts \notin Lifting /\ acts # <<"dim">>
          BY DEF Leaving, Lifting
        <5> QED BY <1>1, <2>4, <5>1 DEF Rest
      <4>2. Passes(w)
        BY <2>3, <3>3, <4>1
           DEF Sound, Warns, Captures, Darkens, Returns, GivesBack, Undims
      <4>3. Passes(w)'
        BY <1>1, <1>3, <1>5, <3>1, <4>2 DEF Passes, LevelsRead, LevelsLeft, Leaving
      <4> QED BY <2>2, <3>2, <3>3, <4>3 DEF Traced, Sound
    <3>4. CASE u # w
      <4>1. todo'[u] = todo[u] /\ doing'[u] = doing[u] BY <1>4, <3>4
      <4>2. Sound(u)'
        BY <1>1, <1>3, <2>3, <4>1
           DEF Sound, Passes, Warns, Captures, Darkens, Returns, GivesBack, Undims,
               LevelsLeft, LevelsRead, Leaving, Lifting
      <4> QED BY <2>2, <3>2, <4>2 DEF Traced
    <3> QED BY <3>3, <3>4
  <2>5. CASE todo[w] \notin Leaving
    <3>1. Sound(w) /\ OthersQuiet(w) BY <2>1, <2>5, TheBusyOne
    <3>2. todo[w] = <<"unblank", "restore">> /\ Tail(todo[w]) = <<"restore">>
      BY <1>1, <2>5, <3>1, PlanAtHand, HeadOfPlan DEF Leaving
    <3>3. todo[w] # <<"dim">> BY <3>2
    <3>4. doing[w].at = "rest" BY <1>1 DEF Rest
    <3>5. Returns(w)
      BY <1>1, <2>5, <3>1, <3>3, <3>4
         DEF Sound, Passes, Warns, Captures, Darkens, GivesBack, Undims
    <3>6. <<"restore">> \in Lifting BY DEF Lifting
    <3>7. Returns(w)'
      BY <1>1, <1>3, <1>5, <3>2, <3>5, <3>6 DEF Returns, LevelsRead, Lifting
    <3>8. OthersQuiet(w)' BY <1>4, <3>1 DEF OthersQuiet, Leaving
    <3> QED BY <2>2, <3>7, <3>8 DEF Traced, Sound
  <2> QED BY <2>4, <2>5
<1> QED BY <1>4, <1>6, <1>7 DEF LightInv

\* A person who chooses a level does so at rest and undimmed, and is not astray unless
\* something is remembered.
LEMMA ChooseKeeps ==
  ASSUME LightInv, NEW value \in UserLevels, Choose(value)
  PROVE  LightInv'
<1>1. /\ AtRest /\ ~dimmer.dimmed /\ level' = value /\ wanted' = value
      /\ dimmer' = dimmer /\ saved' = saved /\ todo' = todo /\ doing' = doing /\ lit' = lit
  BY DEF Choose
<1>2. astray' = (astray /\ saved # NoLevel) BY DEF Choose
<1>3. DimTypeOK'
  <2>1. astray' \in BOOLEAN BY <1>2, Zenon
  <2> QED BY <1>1, <2>1 DEF LightInv, DimTypeOK, Levels
<1>4. PressLifts' /\ SetsKnown' BY <1>1 DEF LightInv, PressLifts, SetsKnown
<1>5. ASSUME ~astray' PROVE Traced'
  <2>1. saved = NoLevel
    <3>1. CASE astray BY <1>2, <1>5, <3>1
    <3>2. CASE ~astray
      <4>1. Passes("clock") BY <1>1, <3>2, AllRest, LevelBounds DEF LightInv
      <4> QED BY <1>1, <4>1 DEF Passes
    <3> QED BY <3>1, <3>2
  <2>2. \A v \in Workers : todo[v] = <<>> /\ doing[v] = Rest BY <1>1 DEF AtRest
  <2>3. Passes("clock")' BY <1>1, <2>1, <2>2, LevelBounds DEF Passes, LevelsLeft, Leaving
  <2>4. OthersQuiet("clock")' BY <1>1, <2>2 DEF OthersQuiet, Leaving
  <2>5. LevelKnown' BY <1>1 DEF LevelKnown, LevelsLeft
  <2> QED BY <2>3, <2>4, <2>5, LevelBounds DEF Traced, Sound
<1> QED BY <1>3, <1>4, <1>5 DEF LightInv

\* Nothing happens.
LEMMA LightStays == ASSUME LightInv, UNCHANGED dimVars PROVE LightInv'
<1>1. /\ dimmer' = dimmer /\ saved' = saved /\ todo' = todo /\ doing' = doing /\ lit' = lit
      /\ level' = level /\ wanted' = wanted /\ astray' = astray
  BY DEF dimVars
<1>2. DimTypeOK' /\ PressLifts' /\ SetsKnown'
  BY <1>1 DEF LightInv, DimTypeOK, PressLifts, SetsKnown
<1>3. ASSUME ~astray' PROVE Traced'
  <2>1. PICK w \in Workers : Sound(w) /\ OthersQuiet(w) BY <1>1, <1>3 DEF LightInv, Traced
  <2>2. Sound(w)'
    BY <1>1, <2>1 DEF Sound, Passes, Warns, Captures, Darkens, Returns, GivesBack, Undims,
                      LevelsLeft, LevelsRead
  <2>3. OthersQuiet(w)' BY <1>1, <2>1 DEF OthersQuiet
  <2>4. LevelKnown' BY <1>1, <1>3 DEF LightInv, Traced, LevelKnown, LevelsLeft
  <2> QED BY <2>2, <2>3, <2>4 DEF Traced
<1> QED BY <1>2, <1>3 DEF LightInv

-----------------------------------------------------------------------------

\* A tick decides.
LEMMA DimTickKeeps == ASSUME LightInv, DimTick PROVE LightInv'
<1>1. PICK g \in {Result(dimmer, <<>>)}
                   \cup (IF dimmer.latch # "none" THEN {PowerTap(dimmer)} ELSE {}) :
        \E r \in IdleRule(g.m) : Decide("clock", Result(r.m, g.acts \o r.acts))
  BY DEF DimTick
<1>2. PICK r \in IdleRule(g.m) : Decide("clock", Result(r.m, g.acts \o r.acts)) BY <1>1
<1>3. CASE g = Result(dimmer, <<>>)
  <2>1. g.m = dimmer /\ g.acts = <<>> BY <1>3 DEF Result
  <2>2. InKeeping(r.m, g.acts \o r.acts) BY <1>2, <2>1, IdleFits
  <2> QED BY <1>2, <2>2, DecideKeeps, LevelBounds
<1>4. CASE g = PowerTap(dimmer) /\ dimmer.latch # "none"
  <2>1. InKeeping(r.m, g.acts \o r.acts) BY <1>2, <1>4, TapFits
  <2> QED BY <1>2, <2>1, DecideKeeps, LevelBounds
<1> QED BY <1>1, <1>3, <1>4

\* A request decides.
LEMMA HandlerKeeps ==
  ASSUME LightInv, NEW h \in Handlers,
         \/ \E wakes \in BOOLEAN : Input(h, wakes)
         \/ Press(h) \/ GoesQuiet(h) \/ ReportPanel(h) \/ Unlocked(h)
  PROVE  LightInv'
<1>1. h \in Workers BY LevelBounds
<1>2. dimmer \in Dimmers /\ (dimmer.latch # "none" => ~dimmer.idle /\ ~dimmer.dimmed)
  BY MachineTyped DEF LightInv, PressLifts
<1>3. ASSUME NEW wakes \in BOOLEAN, Input(h, wakes) PROVE LightInv'
  <2> DEFINE r == NoteInput(dimmer, wakes)
  <2>1. InKeeping(r.m, r.acts) BY <1>2, InputFits
  <2>2. r = Result(r.m, r.acts) BY DEF NoteInput, Result
  <2>3. Decide(h, r) BY <1>3 DEF Input
  <2> HIDE DEF r
  <2>4. Decide(h, Result(r.m, r.acts)) BY <2>2, <2>3
  <2> QED BY <1>1, <2>1, <2>4, DecideKeeps
<1>4. CASE Press(h)
  <2> DEFINE m == [dimmer EXCEPT !.latch = IF dimmer.panelOn THEN "lit" ELSE "dark"]
             r == NoteInput(m, FALSE)
  <2>1. m \in Dimmers /\ m.dimmed = dimmer.dimmed BY <1>2 DEF Dimmers
  <2>2. r = Result(r.m, r.acts) BY DEF NoteInput, Result
  <2>3. Decide(h, r) BY <1>4 DEF Press
  <2> HIDE DEF m
  <2>4. InKeeping(r.m, r.acts) BY <2>1, InputFits
  <2> HIDE DEF r
  <2>5. Decide(h, Result(r.m, r.acts)) BY <2>2, <2>3
  <2> QED BY <1>1, <2>4, <2>5, DecideKeeps
<1>5. CASE GoesQuiet(h)
  <2> DEFINE m == [dimmer EXCEPT !.idle = TRUE]
  <2>1. dimmer.latch = "none" /\ Decide(h, Result(m, <<>>)) BY <1>5 DEF GoesQuiet
  <2>2. m \in Dimmers /\ m.dimmed = dimmer.dimmed /\ m.latch = "none"
    BY <1>2, <2>1 DEF Dimmers
  <2> HIDE DEF m
  <2>3. InKeeping(m, <<>>) BY <2>2, NothingFits
  <2> QED BY <1>1, <2>1, <2>3, DecideKeeps
<1>6. CASE ReportPanel(h)
  <2> DEFINE r == SetPanel(dimmer, lit)
  <2>1. lit \in BOOLEAN BY DEF LightInv, DimTypeOK
  <2>2. InKeeping(r.m, r.acts) BY <1>2, <2>1, PanelFits
  <2>3. r = Result(r.m, r.acts) BY DEF SetPanel, Lifts, Result
  <2>4. Decide(h, r) BY <1>6 DEF ReportPanel
  <2> HIDE DEF r
  <2>5. Decide(h, Result(r.m, r.acts)) BY <2>3, <2>4
  <2> QED BY <1>1, <2>2, <2>5, DecideKeeps
<1>7. CASE Unlocked(h)
  <2> DEFINE m == [dimmer EXCEPT !.asked = FALSE]
             r == Lifts(m)
  <2>1. /\ m \in Dimmers /\ m.dimmed = dimmer.dimmed
        /\ m.latch = dimmer.latch /\ m.idle = dimmer.idle
    BY <1>2 DEF Dimmers
  <2>2. r = Result(r.m, r.acts) BY DEF Lifts, Result
  <2>3. Decide(h, r) BY <1>7 DEF Unlocked
  <2> HIDE DEF m
  <2>4. InKeeping(r.m, r.acts) BY <1>2, <2>1, LiftsFit
  <2> HIDE DEF r
  <2>5. Decide(h, Result(r.m, r.acts)) BY <2>2, <2>3
  <2> QED BY <1>1, <2>4, <2>5, DecideKeeps
<1> QED BY <1>3, <1>4, <1>5, <1>6, <1>7

\* Every step keeps it.
LEMMA DimStepKeeps ==
  ASSUME LightInv, [DimNext]_dimVars
  PROVE  LightInv'
<1>1. CASE DimTick BY <1>1, DimTickKeeps
<1>2. ASSUME NEW h \in Handlers,
             \/ \E wakes \in BOOLEAN : Input(h, wakes)
             \/ Press(h) \/ GoesQuiet(h) \/ ReportPanel(h) \/ Unlocked(h)
      PROVE  LightInv'
  BY <1>2, HandlerKeeps
<1>3. ASSUME NEW w \in Workers, CarryOut(w) PROVE LightInv'
  <2>1. CASE ReadBrightness(w) BY <2>1, ReadKeeps
  <2>2. CASE NoteBrightness(w) BY <2>2, NoteKeeps
  <2>3. CASE TakeBrightness(w) BY <2>3, TakeKeeps
  <2>4. CASE SetBrightness(w) BY <2>4, SetKeeps
  <2>5. CASE Blank(w) \/ Unblank(w) BY <2>5, PanelKeeps
  <2> QED BY <1>3, <2>1, <2>2, <2>3, <2>4, <2>5 DEF CarryOut
<1>4. ASSUME NEW value \in UserLevels, Choose(value) PROVE LightInv' BY <1>4, ChooseKeeps
<1>5. CASE UNCHANGED dimVars BY <1>5, LightStays
<1> QED BY <1>1, <1>2, <1>3, <1>4, <1>5 DEF DimNext

\* It is stronger than the property.
LEMMA LightGivesWayBack == LightInv => DimInv
<1> SUFFICES ASSUME LightInv, AtRest, ~astray
             PROVE  IF dimmer.dimmed THEN saved \in {wanted, FloorLevel, NoLevel}
                                     ELSE level \in {wanted, FloorLevel}
  BY DEF DimInv, WayBack, LightInv
<1>1. Passes("clock") BY AllRest, LevelBounds DEF LightInv
<1> QED BY <1>1 DEF Passes, LevelsRead, LevelsLeft

\* A panel that was dimmed can always be brought back to the level the person chose (or
\* the floor's, where a capture failed), whatever decisions, blanks and lightings cross
\* the dim and the restore and whichever of them fail (the Dim and Restore actions of
\* server.rs): only a dim or a restore decided while another is being carried out, or a
\* brightness command that fails, leads astray, and then only until the person chooses
\* with nothing remembered.
THEOREM LevelComesBack == DimSpec => []DimInv
<1>1. DimInit => LightInv BY LightInit
<1>2. LightInv /\ [DimNext]_dimVars => LightInv' BY DimStepKeeps
<1>3. LightInv => DimInv BY LightGivesWayBack
<1> QED BY <1>1, <1>2, <1>3, PTL DEF DimSpec

-----------------------------------------------------------------------------
(*****************************************************************************)
(* The trail.                                                                *)
(*                                                                           *)
(* The lines that are kept are a set in the order of their numbers, whichever *)
(* file holds them.  A line that is written is a link because the writer's hash *)
(* is that of the last line, if that one is whole, and its number is above all *)
(* of the chain that goes on (ChainGoesOn); a line that is glued to an unended *)
(* one can no longer be read, and a stop or a cut takes from the end only.   *)
(* Chains are as many as starts, because a start writes one beginning that can *)
(* be read (StartsCounted).                                                  *)
(*****************************************************************************)

(* The inductive invariant. *)

\* A line has at least the entry it begins with.
LineSet == Seq(Entries) \ {<<>>}

FilesTyped == liveFile \in Seq(LineSet) /\ rotated \in [1 .. KeptFiles -> Seq(LineSet)]

\* Writing, not in memory only.
Working == trailMode \in {"file", "append"}

\* The entries and numbers up to the one that is being appended.
Landed == IF trailMode = "append" THEN made - 1 ELSE made
Used   == IF trailMode = "append" THEN nextSeq - 1 ELSE nextSeq

Numbered ==
    /\ trailMode = "append" => made >= 1 /\ nextSeq >= 1
    /\ size <= Landed /\ Len(liveFile) <= Landed
    /\ \A line \in Lines : Number(line) <= Landed

\* The same of any set of lines: links, numbers, the end of it, what begins a chain.
Linked(X) ==
    \A a, b \in X :
        /\ Number(a) < Number(b)
        /\ ~ \E line \in X : Number(a) < Number(line) /\ Number(line) < Number(b)
        /\ Parses(a) /\ Ended(a) /\ Parses(b)
        => b[1].prev = a[1].n \/ Begins(b)

Rising(X) ==
    \A a, b \in X :
        /\ Number(a) < Number(b) /\ Parses(a) /\ Parses(b)
        /\ \A line \in X :
             Number(a) < Number(line) /\ Number(line) <= Number(b) => ~Begins(line)
        => a[1].seq < b[1].seq

AtEnd(a, X) == \A line \in X : Number(line) <= Number(a)

\* The hash that goes on the next line is the one of the last, if that one is whole.
EndsIn(X, hash) == \A a \in X : AtEnd(a, X) /\ Parses(a) /\ Ended(a) => hash = Number(a)

\* In the chain that goes on all numbers are lower.
Below(X, seq) ==
    \A a \in X :
        /\ Parses(a)
        /\ \A line \in X : Number(a) < Number(line) => ~Begins(line)
        => a[1].seq < seq

Starts(X) == {a \in X : Parses(a) /\ Begins(a)}

ChainedLines(X) ==
    /\ X \subseteq LineSet /\ IsFiniteSet(X)
    /\ \A a, b \in X : Number(a) = Number(b) => a = b
    /\ Linked(X) /\ Rising(X)

\* The chain that goes on: the next hash is that of the last line, if that one is whole, and
\* the next number higher than any in the chain.  Without one nothing has landed yet.
ChainGoesOn ==
    /\ ~Working => lastHash = NoHash
    /\ lastHash = NoHash => size = 0
    /\ lastHash # NoHash => EndsIn(Lines, lastHash) /\ Below(Lines, Used)

\* The last line, when it lacks its newline: what follows is glued to it.
Unended == IF liveFile # <<>> /\ ~Ended(Last(liveFile)) THEN {Last(liveFile)} ELSE {}

\* One chain for each start; while the next line will begin one, none for this start yet, but
\* for what the next line will be glued to.
StartsCounted ==
    /\ Cardinality(Starts(Lines)) <= stops + 1
    /\ ~Working => Cardinality(Starts(Lines)) <= stops
    /\ lastHash = NoHash => Cardinality(Starts(Lines) \ Unended) <= stops

CountsTyped ==
    /\ trailMode \in {"down", "file", "append", "memory"}
    /\ nextSeq \in Nat /\ lastHash \in 0 .. MaxEntries
    /\ size \in 0 .. MaxEntries
    /\ made \in 0 .. MaxEntries /\ stops \in 0 .. MaxTrailStops

LinkInv ==
    /\ FilesTyped /\ CountsTyped /\ Numbered
    /\ LinesInOrder /\ ChainedLines(Lines)
    /\ ChainGoesOn /\ StartsCounted

-----------------------------------------------------------------------------
(* Sets of lines. *)

\* A line has a number, and at least the entry it begins with.
LEMMA LineHas ==
  ASSUME NEW a \in LineSet
  PROVE  /\ Len(a) \in Nat /\ Len(a) >= 1 /\ DOMAIN a = 1 .. Len(a)
         /\ a[1] \in Entries /\ a[Len(a)] \in Entries
         /\ Number(a) \in 1 .. MaxEntries /\ Number(a) \in Nat /\ Number(a) >= 1
<1>1. a \in Seq(Entries) /\ a # <<>>
  BY DEF LineSet
<1>2. Len(a) \in Nat /\ Len(a) >= 1 /\ DOMAIN a = 1 .. Len(a)
  BY <1>1
<1>3. a[1] \in Entries /\ a[Len(a)] \in Entries
  BY <1>1, <1>2
<1>4. MaxEntries \in Nat /\ a[1].n \in 1 .. MaxEntries
  BY <1>3, TrailConstants DEF Entries
<1> QED BY <1>2, <1>3, <1>4 DEF Number

\* Nothing that is dropped stood between two lines that are kept.
Trimmed(X, Y) ==
    /\ Y \subseteq X
    /\ \A d \in X \ Y, a, b \in Y : ~(Number(a) < Number(d) /\ Number(d) <= Number(b))

\* What is left of a chain when its ends are cut off is a chain.
LEMMA TrimmedChained ==
  ASSUME NEW X, NEW Y, ChainedLines(X), Trimmed(X, Y)
  PROVE  /\ ChainedLines(Y)
         /\ Starts(Y) \subseteq Starts(X) /\ IsFiniteSet(Starts(X))
         /\ Cardinality(Starts(Y)) <= Cardinality(Starts(X))
<1>1. X \subseteq LineSet /\ Y \subseteq X /\ IsFiniteSet(X) /\ IsFiniteSet(Y)
  BY FS_Subset DEF ChainedLines, Trimmed
<1>2. \A a \in X : Number(a) \in Nat
  BY <1>1, LineHas
<1>3. Linked(Y)
  <2> SUFFICES ASSUME NEW a \in Y, NEW b \in Y, Number(a) < Number(b),
                      ~ \E line \in Y : Number(a) < Number(line) /\ Number(line) < Number(b),
                      Parses(a), Ended(a), Parses(b)
               PROVE  b[1].prev = a[1].n \/ Begins(b)
    BY DEF Linked
  <2>1. ~ \E line \in X : Number(a) < Number(line) /\ Number(line) < Number(b)
    <3> SUFFICES ASSUME NEW line \in X, Number(a) < Number(line), Number(line) < Number(b)
                 PROVE  FALSE
      OBVIOUS
    <3>1. line \in X \ Y BY <1>1
    <3>2. Number(line) <= Number(b) BY <1>1, <1>2
    <3> QED BY <3>1, <3>2 DEF Trimmed
  <2> QED BY <1>1, <2>1 DEF ChainedLines, Linked
<1>4. Rising(Y)
  <2> SUFFICES ASSUME NEW a \in Y, NEW b \in Y, Number(a) < Number(b), Parses(a), Parses(b),
                      \A line \in Y : Number(a) < Number(line) /\ Number(line) <= Number(b)
                                        => ~Begins(line)
               PROVE  a[1].seq < b[1].seq
    BY DEF Rising
  <2>1. ASSUME NEW line \in X, Number(a) < Number(line), Number(line) <= Number(b)
        PROVE  ~Begins(line)
    <3>1. line \in Y BY <2>1 DEF Trimmed
    <3> QED BY <2>1, <3>1
  <2> QED BY <1>1, <2>1 DEF ChainedLines, Rising
<1>5. ChainedLines(Y)
  BY <1>1, <1>3, <1>4 DEF ChainedLines
<1>6. Starts(Y) \subseteq Starts(X) /\ IsFiniteSet(Starts(X))
  <2>1. Starts(Y) \subseteq Starts(X) BY <1>1 DEF Starts
  <2>2. Starts(X) \subseteq X BY DEF Starts
  <2> QED BY <1>1, <2>1, <2>2, FS_Subset
<1> QED BY <1>5, <1>6, FS_Subset

\* Older lines that are dropped are not the end.
LEMMA OlderDropped ==
  ASSUME NEW X, NEW Y, X \subseteq LineSet, Y \subseteq X,
         \A d \in X \ Y, a \in Y : Number(d) < Number(a)
  PROVE  /\ Trimmed(X, Y)
         /\ \A h : EndsIn(X, h) => EndsIn(Y, h)
         /\ \A s : Below(X, s) => Below(Y, s)
<1>1. \A a \in X : Number(a) \in Nat BY LineHas
<1>2. Trimmed(X, Y) BY <1>1 DEF Trimmed
<1>3. ASSUME NEW h, EndsIn(X, h) PROVE EndsIn(Y, h)
  <2> SUFFICES ASSUME NEW a \in Y, AtEnd(a, Y), Parses(a), Ended(a) PROVE h = Number(a)
    BY DEF EndsIn
  <2>1. AtEnd(a, X)
    BY <1>1 DEF AtEnd
  <2> QED BY <1>3, <2>1 DEF EndsIn
<1>4. ASSUME NEW s, Below(X, s) PROVE Below(Y, s)
  <2> SUFFICES ASSUME NEW a \in Y, Parses(a),
                      \A line \in Y : Number(a) < Number(line) => ~Begins(line)
               PROVE  a[1].seq < s
    BY DEF Below
  <2>1. \A line \in X : Number(a) < Number(line) => ~Begins(line)
    BY <1>1
  <2> QED BY <1>4, <2>1 DEF Below
<1> QED BY <1>2, <1>3, <1>4

\* A line that is begun goes on with the chain, or begins one.
LEMMA LineAdded ==
  ASSUME NEW X, ChainedLines(X), NEW m \in LineSet, \A a \in X : Number(a) < Number(m),
         Len(m) = 1, m[1].prev # NoHash => EndsIn(X, m[1].prev) /\ Below(X, m[1].seq)
  PROVE  /\ ChainedLines(X \cup {m})
         /\ Starts(X \cup {m}) \subseteq Starts(X) \cup {m}
         /\ m[1].prev # NoHash \/ m[1].there = "part" => Starts(X \cup {m}) = Starts(X)
         /\ m[1].prev # NoHash \/ m[1].there # "part" => Below(X \cup {m}, m[1].seq + 1)
         /\ \A h : m[1].there # "line" \/ h = Number(m) => EndsIn(X \cup {m}, h)
<1> DEFINE Y == X \cup {m}
<1>1. Y \subseteq LineSet /\ IsFiniteSet(Y) BY FS_AddElement DEF ChainedLines
<1>2. /\ \A a \in Y : Number(a) \in Nat
      /\ \A a \in Y : a[1] \in Entries /\ a[1].seq \in Nat
  BY <1>1, LineHas DEF Entries
<1>3. Begins(m) <=> m[1].prev = NoHash
  <2>1. DOMAIN m = {1} BY LineHas
  <2> QED BY <2>1 DEF Begins
<1>4. \A a, b \in Y : Number(a) = Number(b) => a = b
  BY <1>2 DEF ChainedLines
<1>5. Linked(Y)
  <2> SUFFICES ASSUME NEW a \in Y, NEW b \in Y, Number(a) < Number(b),
                      ~ \E line \in Y : Number(a) < Number(line) /\ Number(line) < Number(b),
                      Parses(a), Ended(a), Parses(b)
               PROVE  b[1].prev = a[1].n \/ Begins(b)
    BY DEF Linked
  <2>1. a \in X BY <1>2
  <2>2. CASE b \in X BY <2>1, <2>2 DEF ChainedLines, Linked
  <2>3. CASE b = m /\ m[1].prev # NoHash
    <3>1. AtEnd(a, X)
      BY <1>2, <2>1, <2>3 DEF AtEnd
    <3> QED BY <2>1, <2>3, <3>1 DEF EndsIn, Number
  <2> QED BY <1>3, <2>2, <2>3
<1>6. Rising(Y)
  <2> SUFFICES ASSUME NEW a \in Y, NEW b \in Y, Number(a) < Number(b), Parses(a), Parses(b),
                      \A line \in Y : Number(a) < Number(line) /\ Number(line) <= Number(b)
                                        => ~Begins(line)
               PROVE  a[1].seq < b[1].seq
    BY DEF Rising
  <2>1. a \in X BY <1>2
  <2>2. CASE b \in X BY <2>1, <2>2 DEF ChainedLines, Rising
  <2>3. CASE b = m
    <3>1. m[1].prev # NoHash
      BY <1>2, <1>3, <2>3
    <3>2. \A line \in X : Number(a) < Number(line) => ~Begins(line)
      BY <1>2, <2>3
    <3> QED BY <2>1, <2>3, <3>1, <3>2 DEF Below
  <2> QED BY <2>2, <2>3
<1>7. ChainedLines(Y) BY <1>1, <1>4, <1>5, <1>6 DEF ChainedLines
<1>8. /\ Starts(Y) \subseteq Starts(X) \cup {m} /\ Starts(X) \subseteq Starts(Y)
      /\ m[1].prev # NoHash \/ m[1].there = "part" => m \notin Starts(Y)
  BY <1>3 DEF Starts, Parses
<1>9. ASSUME m[1].prev # NoHash \/ m[1].there # "part" PROVE Below(Y, m[1].seq + 1)
  <2> SUFFICES ASSUME NEW a \in Y, Parses(a),
                      \A line \in Y : Number(a) < Number(line) => ~Begins(line)
               PROVE  a[1].seq < m[1].seq + 1
    BY DEF Below
  <2>1. CASE a = m BY <1>2, <2>1
  <2>2. CASE a \in X
    <3>1. m[1].prev # NoHash BY <1>3, <2>2
    <3>2. a[1].seq < m[1].seq BY <2>2, <3>1 DEF Below
    <3> QED BY <1>2, <3>2
  <2> QED BY <2>1, <2>2
<1>10. ASSUME NEW h, m[1].there # "line" \/ h = Number(m) PROVE EndsIn(Y, h)
  <2> SUFFICES ASSUME NEW a \in Y, AtEnd(a, Y), Parses(a), Ended(a) PROVE h = Number(a)
    BY DEF EndsIn
  <2>1. a = m BY <1>2 DEF AtEnd
  <2>2. m[1].there = "line" BY <2>1 DEF Ended, Last
  <2> QED BY <1>10, <2>1, <2>2
<1> QED BY <1>7, <1>8, <1>9, <1>10

\* The last line changes, and says no more than it did, or can no longer be read.
LEMMA LineChanged ==
  ASSUME NEW X, ChainedLines(X), NEW l \in X, AtEnd(l, X), NEW m \in LineSet, Number(m) = Number(l),
         Parses(m) => Parses(l) /\ m[1].prev = l[1].prev /\ m[1].seq = l[1].seq,
         Begins(l) => Begins(m)
  PROVE  /\ ChainedLines((X \ {l}) \cup {m})
         /\ Cardinality(Starts((X \ {l}) \cup {m})) <= Cardinality(Starts(X))
<1> DEFINE Y == (X \ {l}) \cup {m}
<1>1. /\ Y \subseteq LineSet /\ IsFiniteSet(Y) /\ X \subseteq LineSet /\ IsFiniteSet(X)
      /\ l \in LineSet
  BY FS_AddElement, FS_RemoveElement DEF ChainedLines
<1>2. \A a \in X \cup Y : Number(a) \in Nat
  BY <1>1, LineHas
<1>3. \A a, b \in Y : Number(a) = Number(b) => a = b
  BY DEF ChainedLines
<1>4. \A a \in X \ {l} : Number(a) < Number(m)
  BY <1>2 DEF AtEnd, ChainedLines
<1>5. Parses(m) => (Begins(m) <=> Begins(l))
  <2>1. DOMAIN m = 1 .. Len(m) /\ DOMAIN l = 1 .. Len(l) BY <1>1, LineHas
  <2> QED BY <2>1 DEF Parses, Begins
<1>6. m[1].n = l[1].n BY DEF Number
<1>7. Linked(Y)
  <2> SUFFICES ASSUME NEW a \in Y, NEW b \in Y, Number(a) < Number(b),
                      ~ \E line \in Y : Number(a) < Number(line) /\ Number(line) < Number(b),
                      Parses(a), Ended(a), Parses(b)
               PROVE  b[1].prev = a[1].n \/ Begins(b)
    BY DEF Linked
  <2>1. a \in X \ {l} BY <1>2, <1>4
  <2> DEFINE c == IF b = m THEN l ELSE b
  <2>2. c \in X /\ Number(c) = Number(b) /\ Parses(c)
    OBVIOUS
  <2>3. ~ \E line \in X : Number(a) < Number(line) /\ Number(line) < Number(c)
    <3> SUFFICES ASSUME NEW line \in X, Number(a) < Number(line), Number(line) < Number(b)
                 PROVE  FALSE
      BY <2>2
    <3>1. line # l BY <1>2, <1>4
    <3> QED BY <3>1
  <2>4. c[1].prev = a[1].n \/ Begins(c)
    BY <2>1, <2>2, <2>3 DEF ChainedLines, Linked
  <2> QED BY <1>5, <2>4
<1>8. Rising(Y)
  <2> SUFFICES ASSUME NEW a \in Y, NEW b \in Y, Number(a) < Number(b), Parses(a), Parses(b),
                      \A line \in Y : Number(a) < Number(line) /\ Number(line) <= Number(b)
                                        => ~Begins(line)
               PROVE  a[1].seq < b[1].seq
    BY DEF Rising
  <2>1. a \in X \ {l} BY <1>2, <1>4
  <2> DEFINE c == IF b = m THEN l ELSE b
  <2>2. c \in X /\ Number(c) = Number(b) /\ Parses(c) /\ c[1].seq = b[1].seq
    OBVIOUS
  <2>3. ASSUME NEW line \in X, Number(a) < Number(line), Number(line) <= Number(c)
        PROVE  ~Begins(line)
    <3>1. CASE line = l
      <4>1. m \in Y /\ Number(a) < Number(m) /\ Number(m) <= Number(b)
        BY <2>2, <2>3, <3>1
      <4> QED BY <3>1, <4>1
    <3>2. CASE line # l BY <2>2, <2>3, <3>2
    <3> QED BY <3>1, <3>2
  <2> QED BY <2>1, <2>2, <2>3 DEF ChainedLines, Rising
<1>9. Cardinality(Starts(Y)) <= Cardinality(Starts(X))
  <2>1. IsFiniteSet(Starts(X)) /\ IsFiniteSet(Starts(Y)) BY <1>1, FS_Subset DEF Starts
  <2>2. CASE m \notin Starts(Y)
    <3>1. Starts(Y) \subseteq Starts(X) BY <2>2 DEF Starts
    <3> QED BY <2>1, <3>1, FS_Subset
  <2>3. CASE m \in Starts(Y)
    <3>1. l \in Starts(X) BY <1>5, <2>3 DEF Starts
    <3>2. Starts(Y) \subseteq (Starts(X) \ {l}) \cup {m} BY DEF Starts
    <3>3. /\ IsFiniteSet(Starts(X) \ {l})
          /\ Cardinality(Starts(X) \ {l}) = Cardinality(Starts(X)) - 1
      BY <2>1, <3>1, FS_RemoveElement
    <3>4. /\ IsFiniteSet((Starts(X) \ {l}) \cup {m})
          /\ Cardinality((Starts(X) \ {l}) \cup {m}) <= Cardinality(Starts(X) \ {l}) + 1
      <4>1. Cardinality(Starts(X) \ {l}) \in Nat BY <3>3, FS_CardinalityType
      <4> QED BY <3>3, <4>1, FS_AddElement
    <3>5. Cardinality(Starts(Y)) <= Cardinality((Starts(X) \ {l}) \cup {m})
      BY <3>2, <3>4, FS_Subset
    <3>6. /\ Cardinality(Starts(Y)) \in Nat /\ Cardinality(Starts(X)) \in Nat
          /\ Cardinality((Starts(X) \ {l}) \cup {m}) \in Nat
      BY <2>1, <3>4, FS_CardinalityType
    <3> QED BY <3>3, <3>4, <3>5, <3>6
  <2> QED BY <2>2, <2>3
<1> QED BY <1>1, <1>3, <1>7, <1>8, <1>9 DEF ChainedLines

-----------------------------------------------------------------------------
(* The files. *)

FileTable == [g \in 0 .. KeptFiles |-> Kept(g)]

Tables == [0 .. KeptFiles -> Seq(LineSet)]

LinesOf(F) == UNION {Range(F[g]) : g \in 0 .. KeptFiles}

InOrderOf(F) ==
    /\ \A g \in 0 .. KeptFiles : \A i, j \in DOMAIN F[g] :
         i < j => Number(F[g][i]) < Number(F[g][j])
    /\ \A g, h \in 0 .. KeptFiles : g < h =>
         \A older \in Range(F[h]), newer \in Range(F[g]) : Number(older) < Number(newer)

\* The table of the files holds their lines, in their order.
LEMMA TableIs ==
    /\ Lines = LinesOf(FileTable) /\ (LinesInOrder <=> InOrderOf(FileTable))
    /\ FilesTyped <=> FileTable \in Tables /\ rotated = [g \in 1 .. KeptFiles |-> rotated[g]]
<1>1. \A g \in 0 .. KeptFiles : FileTable[g] = Kept(g)
  BY DEF FileTable
<1>2. Lines = LinesOf(FileTable)
  BY <1>1 DEF Lines, LinesOf
<1>3. LinesInOrder <=> InOrderOf(FileTable)
  BY <1>1 DEF LinesInOrder, InOrderOf
<1>4. KeptFiles \in Nat \ {0} BY TrailConstants
<1>5. FilesTyped => FileTable \in Tables /\ rotated = [g \in 1 .. KeptFiles |-> rotated[g]]
  BY <1>4 DEF FilesTyped, FileTable, Tables, Kept
<1>6. ASSUME FileTable \in Tables, rotated = [g \in 1 .. KeptFiles |-> rotated[g]]
      PROVE  FilesTyped
  <2>0. \A g \in 0 .. KeptFiles : Kept(g) \in Seq(LineSet)
    BY <1>1, <1>6 DEF Tables
  <2>1. liveFile \in Seq(LineSet) BY <1>4, <2>0 DEF Kept
  <2>2. \A g \in 1 .. KeptFiles : rotated[g] \in Seq(LineSet)
    <3> SUFFICES ASSUME NEW g \in 1 .. KeptFiles PROVE rotated[g] \in Seq(LineSet) OBVIOUS
    <3>1. g \in 0 .. KeptFiles /\ g # 0 BY <1>4
    <3> QED BY <2>0, <3>1 DEF Kept
  <2> QED BY <1>6, <2>1, <2>2 DEF FilesTyped
<1> QED BY <1>2, <1>3, <1>5, <1>6

\* What is in a file is at one of its places.
LEMMA RangeIsAt ==
  ASSUME NEW s \in Seq(LineSet)
  PROVE  /\ \A a : a \in Range(s) <=> \E i \in 1 .. Len(s) : a = s[i]
         /\ Range(s) \subseteq LineSet /\ DOMAIN s = 1 .. Len(s)
  BY DEF Range

\* What is in a table is at a place of one of its files.
LEMMA InTable ==
  ASSUME NEW F \in Tables
  PROVE  /\ LinesOf(F) \subseteq LineSet
         /\ \A a : a \in LinesOf(F) <=>
              \E g \in 0 .. KeptFiles : \E i \in 1 .. Len(F[g]) : a = F[g][i]
         /\ \A g \in 0 .. KeptFiles : F[g] \in Seq(LineSet) /\ DOMAIN F[g] = 1 .. Len(F[g])
<1>1. \A g \in 0 .. KeptFiles : F[g] \in Seq(LineSet)
  BY DEF Tables
<1> QED BY <1>1, RangeIsAt DEF LinesOf

\* In a table in order, an earlier place has the lower number.
LEMMA TableOrder ==
  ASSUME NEW F \in Tables, InOrderOf(F),
         NEW g \in 0 .. KeptFiles, NEW h \in 0 .. KeptFiles,
         NEW i \in 1 .. Len(F[g]), NEW j \in 1 .. Len(F[h])
  PROVE  /\ h < g \/ (g = h /\ i < j) => Number(F[g][i]) < Number(F[h][j])
         /\ Number(F[g][i]) = Number(F[h][j]) => g = h /\ i = j
         /\ Number(F[g][i]) \in Nat /\ Number(F[h][j]) \in Nat
<1>1. F[g] \in Seq(LineSet) /\ F[h] \in Seq(LineSet) BY InTable
<1>2. F[g][i] \in Range(F[g]) /\ F[h][j] \in Range(F[h])
  BY <1>1, RangeIsAt
<1>3. Number(F[g][i]) \in Nat /\ Number(F[h][j]) \in Nat
  BY <1>1, <1>2, RangeIsAt, LineHas
<1>4. KeptFiles \in Nat BY TrailConstants
<1>5. h < g => Number(F[g][i]) < Number(F[h][j])
  BY <1>2 DEF InOrderOf
<1>6. g < h => Number(F[h][j]) < Number(F[g][i])
  BY <1>2 DEF InOrderOf
<1>7. g = h /\ i < j => Number(F[g][i]) < Number(F[h][j])
  BY <1>1, InTable DEF InOrderOf
<1>8. g = h /\ j < i => Number(F[h][j]) < Number(F[g][i])
  BY <1>1, InTable DEF InOrderOf
<1>9. Len(F[g]) \in Nat /\ Len(F[h]) \in Nat BY <1>1
<1> QED BY <1>3, <1>4, <1>5, <1>6, <1>7, <1>8, <1>9

\* A number names one line.
LEMMA TableApart ==
  ASSUME NEW F \in Tables, InOrderOf(F)
  PROVE  \A a, b \in LinesOf(F) : Number(a) = Number(b) => a = b
<1> SUFFICES ASSUME NEW a \in LinesOf(F), NEW b \in LinesOf(F), Number(a) = Number(b)
             PROVE  a = b
  OBVIOUS
<1>1. PICK g \in 0 .. KeptFiles : \E i \in 1 .. Len(F[g]) : a = F[g][i] BY InTable
<1>2. PICK i \in 1 .. Len(F[g]) : a = F[g][i] BY <1>1
<1>3. PICK h \in 0 .. KeptFiles : \E j \in 1 .. Len(F[h]) : b = F[h][j] BY InTable
<1>4. PICK j \in 1 .. Len(F[h]) : b = F[h][j] BY <1>3
<1> QED BY <1>2, <1>4, TableOrder

\* The last line of the live file is the last of all.
LEMMA LastAtEnd ==
  ASSUME NEW F \in Tables, InOrderOf(F), F[0] # <<>>
  PROVE  /\ Last(F[0]) \in LinesOf(F) /\ AtEnd(Last(F[0]), LinesOf(F))
         /\ \A a \in LinesOf(F) : AtEnd(a, LinesOf(F)) => a = Last(F[0])
<1>1. 0 \in 0 .. KeptFiles /\ KeptFiles \in Nat BY TrailConstants
<1>2. F[0] \in Seq(LineSet) /\ Len(F[0]) \in 1 .. Len(F[0]) BY <1>1, InTable
<1>3. Last(F[0]) \in LinesOf(F) BY <1>1, <1>2, InTable DEF Last
<1>4. ASSUME NEW a \in LinesOf(F) PROVE Number(a) <= Number(Last(F[0]))
  <2>1. PICK g \in 0 .. KeptFiles : \E i \in 1 .. Len(F[g]) : a = F[g][i] BY InTable
  <2>2. PICK i \in 1 .. Len(F[g]) : a = F[g][i] BY <2>1
  <2>3. /\ 0 < g \/ (g = 0 /\ i < Len(F[0])) => Number(a) < Number(Last(F[0]))
        /\ Number(a) \in Nat /\ Number(Last(F[0])) \in Nat
    BY <1>1, <1>2, <2>2, TableOrder DEF Last
  <2>4. g = 0 /\ i = Len(F[0]) => a = Last(F[0]) BY <2>2 DEF Last
  <2> QED BY <1>1, <1>2, <2>3, <2>4
<1>5. \A a \in LinesOf(F) : Number(a) \in Nat BY InTable, LineHas
<1>6. ASSUME NEW a \in LinesOf(F), AtEnd(a, LinesOf(F)) PROVE a = Last(F[0])
  <2>1. Number(Last(F[0])) <= Number(a) BY <1>3, <1>6 DEF AtEnd
  <2>2. Number(a) <= Number(Last(F[0])) BY <1>4
  <2> QED BY <1>3, <1>5, <2>1, <2>2, TableApart
<1> QED BY <1>3, <1>4, <1>6 DEF AtEnd

\* What becomes of the files: they move along, with the live one or without it; the end of
\* the live one is cut off; a line is added to it; its last line is written over.
Moved(F, G) ==
    \/ G = [g \in 0 .. KeptFiles |-> IF g = 0 THEN <<>> ELSE F[g - 1]]
    \/ G = [g \in 0 .. KeptFiles |-> IF g = 0 THEN F[0] ELSE IF g = 1 THEN <<>> ELSE F[g - 1]]

CutOff(F, G, n) == G = [F EXCEPT ![0] = SubSeq(F[0], 1, n)]

Grown(F, G, m) == G = [F EXCEPT ![0] = Append(F[0], m)]

Changed(F, G, m) == G = [F EXCEPT ![0] = [F[0] EXCEPT ![Len(F[0])] = m]]

\* A table whose files are those of another, or nothing, in the same order.
LEMMA TableRotated ==
  ASSUME NEW F \in Tables, InOrderOf(F), NEW G, Moved(F, G)
  PROVE  /\ G \in Tables /\ InOrderOf(G) /\ LinesOf(G) \subseteq LinesOf(F)
         /\ \A d \in LinesOf(F) \ LinesOf(G), a \in LinesOf(G) : Number(d) < Number(a)
<1>1. KeptFiles \in Nat \ {0} BY TrailConstants
<1>2. G \in Tables
  <2>1. /\ <<>> \in Seq(LineSet) /\ F[0] \in Seq(LineSet)
        /\ \A g \in 0 .. KeptFiles : g # 0 => F[g - 1] \in Seq(LineSet)
    BY <1>1 DEF Tables
  <2> QED BY <1>1, <2>1 DEF Tables, Moved
<1> DEFINE from(g) == IF g = 0 THEN 0 ELSE g - 1
<1>3. ASSUME NEW g \in 0 .. KeptFiles, NEW i \in 1 .. Len(G[g])
      PROVE  /\ G[g] = F[from(g)] /\ from(g) \in 0 .. KeptFiles /\ from(g) < KeptFiles
  BY <1>1, <1>3 DEF Moved
<1>4. ASSUME NEW g \in 0 .. KeptFiles, NEW h \in 0 .. KeptFiles, g < h,
             NEW i \in 1 .. Len(G[g]), NEW j \in 1 .. Len(G[h])
      PROVE  from(g) < from(h)
  BY <1>1, <1>4 DEF Moved
<1>5. InOrderOf(G)
  <2>1. ASSUME NEW g \in 0 .. KeptFiles, NEW i \in DOMAIN G[g], NEW j \in DOMAIN G[g], i < j
        PROVE  Number(G[g][i]) < Number(G[g][j])
    <3>1. i \in 1 .. Len(G[g]) /\ j \in 1 .. Len(G[g]) BY <1>2, InTable
    <3>2. G[g] = F[from(g)] /\ from(g) \in 0 .. KeptFiles BY <3>1, <1>3
    <3> QED BY <2>1, <3>1, <3>2, TableOrder
  <2>2. ASSUME NEW g \in 0 .. KeptFiles, NEW h \in 0 .. KeptFiles, g < h,
               NEW older \in Range(G[h]), NEW newer \in Range(G[g])
        PROVE  Number(older) < Number(newer)
    <3>1. G[g] \in Seq(LineSet) /\ G[h] \in Seq(LineSet) BY <1>2, InTable
    <3>2. PICK i \in 1 .. Len(G[g]) : newer = G[g][i] BY <3>1, RangeIsAt
    <3>3. PICK j \in 1 .. Len(G[h]) : older = G[h][j] BY <3>1, RangeIsAt
    <3>4. from(g) < from(h) BY <1>4, <2>2
    <3>5. G[g] = F[from(g)] /\ from(g) \in 0 .. KeptFiles BY <1>3
    <3>6. G[h] = F[from(h)] /\ from(h) \in 0 .. KeptFiles BY <1>3
    <3> HIDE DEF from
    <3> QED BY <3>2, <3>3, <3>4, <3>5, <3>6, TableOrder
  <2> QED BY <2>1, <2>2 DEF InOrderOf
<1>6. ASSUME NEW a \in LinesOf(G)
      PROVE  \E g \in 0 .. KeptFiles - 1 : \E i \in 1 .. Len(F[g]) : a = F[g][i]
  <2>1. PICK g \in 0 .. KeptFiles : \E i \in 1 .. Len(G[g]) : a = G[g][i] BY <1>2, InTable
  <2>2. PICK i \in 1 .. Len(G[g]) : a = G[g][i] BY <2>1
  <2>3. G[g] = F[from(g)] /\ from(g) \in 0 .. KeptFiles - 1
    <3>1. G[g] = F[from(g)] /\ from(g) \in 0 .. KeptFiles /\ from(g) < KeptFiles BY <1>3
    <3> QED BY <1>1, <3>1
  <2> QED BY <2>2, <2>3
<1>7. ASSUME NEW g \in 0 .. KeptFiles - 1, NEW i \in 1 .. Len(F[g])
      PROVE  F[g][i] \in LinesOf(G)
  <2>1. \E h \in 0 .. KeptFiles : G[h] = F[g]
    <3>1. g + 1 \in 0 .. KeptFiles /\ 0 \in 0 .. KeptFiles BY <1>1
    <3>2. g = 0 \/ (g + 1) # 1 BY <1>1
    <3>3. G[0] = F[0] \/ G[g + 1] = F[g]
      <4>1. (g + 1) - 1 = g /\ g + 1 # 0 BY <1>1
      <4> QED BY <1>1, <3>1, <4>1 DEF Moved
    <3>4. g # 0 => G[g + 1] = F[g]
      <4>1. (g + 1) - 1 = g /\ g + 1 # 0 BY <1>1
      <4> QED BY <1>1, <3>1, <3>2, <4>1 DEF Moved
    <3> QED BY <3>1, <3>3, <3>4
  <2> QED BY <1>2, <2>1, InTable
<1>8. LinesOf(G) \subseteq LinesOf(F)
  <2>1. 0 .. KeptFiles - 1 \subseteq 0 .. KeptFiles BY <1>1
  <2> QED BY <1>6, <2>1, InTable
<1>9. ASSUME NEW d \in LinesOf(F), d \notin LinesOf(G), NEW a \in LinesOf(G)
      PROVE  Number(d) < Number(a)
  <2>1. PICK g \in 0 .. KeptFiles - 1 : \E i \in 1 .. Len(F[g]) : a = F[g][i] BY <1>6
  <2>2. PICK i \in 1 .. Len(F[g]) : a = F[g][i] BY <2>1
  <2>3. PICK h \in 0 .. KeptFiles : \E j \in 1 .. Len(F[h]) : d = F[h][j] BY InTable
  <2>4. PICK j \in 1 .. Len(F[h]) : d = F[h][j] BY <2>3
  <2>5. h = KeptFiles
    <3>1. h \notin 0 .. KeptFiles - 1 BY <1>7, <1>9, <2>4
    <3> QED BY <1>1, <3>1
  <2>6. g < h /\ g \in 0 .. KeptFiles BY <1>1, <2>5
  <2> QED BY <2>2, <2>4, <2>6, TableOrder
<1> QED BY <1>2, <1>5, <1>8, <1>9

\* What is cut off the live file was at the end.
LEMMA TableCut ==
  ASSUME NEW F \in Tables, InOrderOf(F), NEW n \in 0 .. Len(F[0]),
         NEW G, CutOff(F, G, n)
  PROVE  /\ G \in Tables /\ InOrderOf(G) /\ Trimmed(LinesOf(F), LinesOf(G))
<1>1. 0 \in 0 .. KeptFiles /\ KeptFiles \in Nat BY TrailConstants
<1>2. F[0] \in Seq(LineSet) /\ Len(F[0]) \in Nat BY <1>1, InTable
<1>3. /\ SubSeq(F[0], 1, n) \in Seq(LineSet) /\ Len(SubSeq(F[0], 1, n)) = n
      /\ \A i \in 1 .. n : SubSeq(F[0], 1, n)[i] = F[0][i]
  BY <1>2
<1>4. G \in Tables BY <1>1, <1>3 DEF Tables, CutOff, Grown, Changed
<1>5. /\ G[0] = SubSeq(F[0], 1, n)
      /\ \A g \in 0 .. KeptFiles : g # 0 => G[g] = F[g]
  BY <1>1 DEF Tables, CutOff
<1>6. \A g \in 0 .. KeptFiles : \A i \in 1 .. Len(G[g]) : i \in 1 .. Len(F[g]) /\ G[g][i] = F[g][i]
  BY <1>1, <1>2, <1>3, <1>5
<1>7. InOrderOf(G)
  <2>1. ASSUME NEW g \in 0 .. KeptFiles, NEW i \in DOMAIN G[g], NEW j \in DOMAIN G[g], i < j
        PROVE  Number(G[g][i]) < Number(G[g][j])
    <3>1. i \in 1 .. Len(G[g]) /\ j \in 1 .. Len(G[g]) BY <1>4, InTable
    <3> QED BY <2>1, <3>1, <1>6, TableOrder
  <2>2. ASSUME NEW g \in 0 .. KeptFiles, NEW h \in 0 .. KeptFiles, g < h,
               NEW older \in Range(G[h]), NEW newer \in Range(G[g])
        PROVE  Number(older) < Number(newer)
    <3>1. G[g] \in Seq(LineSet) /\ G[h] \in Seq(LineSet) BY <1>4, InTable
    <3>2. PICK i \in 1 .. Len(G[g]) : newer = G[g][i] BY <3>1, RangeIsAt
    <3>3. PICK j \in 1 .. Len(G[h]) : older = G[h][j] BY <3>1, RangeIsAt
    <3> QED BY <2>2, <3>2, <3>3, <1>6, TableOrder
  <2> QED BY <2>1, <2>2 DEF InOrderOf
<1>8. LinesOf(G) \subseteq LinesOf(F)
  BY <1>4, <1>6, InTable
<1>9. ASSUME NEW d \in LinesOf(F), d \notin LinesOf(G), NEW b \in LinesOf(G)
      PROVE  ~(Number(d) <= Number(b))
  <2>1. PICK g \in 0 .. KeptFiles : \E i \in 1 .. Len(G[g]) : b = G[g][i] BY <1>4, InTable
  <2>2. PICK i \in 1 .. Len(G[g]) : b = G[g][i] BY <2>1
  <2>3. PICK h \in 0 .. KeptFiles : \E j \in 1 .. Len(F[h]) : d = F[h][j] BY InTable
  <2>4. PICK j \in 1 .. Len(F[h]) : d = F[h][j] BY <2>3
  <2>5. ~(h # 0 \/ j \in 1 .. n)
    <3>1. ASSUME h # 0 \/ j \in 1 .. n PROVE d \in LinesOf(G)
      <4>1. j \in 1 .. Len(G[h]) /\ G[h][j] = F[h][j]
        BY <1>3, <1>5, <2>4, <3>1
      <4> QED BY <1>4, <2>4, <4>1, InTable
    <3> QED BY <1>9, <3>1
  <2>6. i \in 1 .. Len(F[g]) /\ b = F[g][i] BY <1>6, <2>2
  <2>7. h = 0 /\ j > n BY <1>2, <2>4, <2>5
  <2>8. h < g \/ (g = h /\ i < j)
    <3>1. CASE g = 0
      <4>1. i \in 1 .. n BY <1>3, <1>5, <2>2, <3>1
      <4> QED BY <1>2, <2>4, <2>7, <3>1, <4>1
    <3>2. CASE g # 0 BY <1>1, <2>7, <3>2
    <3> QED BY <3>1, <3>2
  <2>9. Number(b) < Number(d) /\ Number(b) \in Nat /\ Number(d) \in Nat
    BY <2>4, <2>6, <2>8, TableOrder
  <2> QED BY <2>9
<1>10. Trimmed(LinesOf(F), LinesOf(G))
  BY <1>8, <1>9 DEF Trimmed
<1> QED BY <1>4, <1>7, <1>10

\* A line that is begun behind all the others.
LEMMA TableGrown ==
  ASSUME NEW F \in Tables, InOrderOf(F), NEW m \in LineSet,
         \A a \in LinesOf(F) : Number(a) < Number(m),
         NEW G, Grown(F, G, m)
  PROVE  /\ G \in Tables /\ InOrderOf(G) /\ LinesOf(G) = LinesOf(F) \cup {m}
<1>1. 0 \in 0 .. KeptFiles /\ KeptFiles \in Nat BY TrailConstants
<1>2. F[0] \in Seq(LineSet) /\ Len(F[0]) \in Nat BY <1>1, InTable
<1> DEFINE s == Append(F[0], m)
<1>3. /\ s \in Seq(LineSet) /\ Len(s) = Len(F[0]) + 1 /\ s[Len(s)] = m
      /\ \A i \in 1 .. Len(F[0]) : s[i] = F[0][i]
  BY <1>2
<1>4. G \in Tables BY <1>1, <1>3 DEF Tables, CutOff, Grown, Changed
<1>5. /\ G[0] = s
      /\ \A g \in 0 .. KeptFiles : g # 0 => G[g] = F[g]
  BY <1>1 DEF Tables, Grown, Changed
<1> HIDE DEF s
<1>6. ASSUME NEW g \in 0 .. KeptFiles, NEW i \in 1 .. Len(G[g])
      PROVE  \/ i \in 1 .. Len(F[g]) /\ G[g][i] = F[g][i]
             \/ g = 0 /\ i = Len(F[0]) + 1 /\ G[g][i] = m
  BY <1>1, <1>2, <1>3, <1>5
<1>7. InOrderOf(G)
  <2>1. ASSUME NEW g \in 0 .. KeptFiles, NEW i \in DOMAIN G[g], NEW j \in DOMAIN G[g], i < j
        PROVE  Number(G[g][i]) < Number(G[g][j])
    <3>1. i \in 1 .. Len(G[g]) /\ j \in 1 .. Len(G[g]) BY <1>4, InTable
    <3>2. i \in 1 .. Len(F[g]) /\ G[g][i] = F[g][i]
      BY <1>2, <1>3, <1>5, <1>6, <2>1, <3>1
    <3>3. CASE j \in 1 .. Len(F[g]) /\ G[g][j] = F[g][j]
      BY <2>1, <3>2, <3>3, TableOrder
    <3>4. CASE G[g][j] = m
      BY <3>2, <3>4, InTable
    <3> QED BY <1>6, <3>1, <3>3, <3>4
  <2>2. ASSUME NEW g \in 0 .. KeptFiles, NEW h \in 0 .. KeptFiles, g < h,
               NEW older \in Range(G[h]), NEW newer \in Range(G[g])
        PROVE  Number(older) < Number(newer)
    <3>1. G[g] \in Seq(LineSet) /\ G[h] \in Seq(LineSet) BY <1>4, InTable
    <3>2. PICK i \in 1 .. Len(G[g]) : newer = G[g][i] BY <3>1, RangeIsAt
    <3>3. PICK j \in 1 .. Len(G[h]) : older = G[h][j] BY <3>1, RangeIsAt
    <3>4. j \in 1 .. Len(F[h]) /\ older = F[h][j]
      BY <1>1, <1>6, <2>2, <3>3
    <3>5. CASE i \in 1 .. Len(F[g]) /\ newer = F[g][i]
      BY <2>2, <3>4, <3>5, TableOrder
    <3>6. CASE newer = m
      BY <3>4, <3>6, InTable
    <3> QED BY <1>6, <3>2, <3>5, <3>6
  <2> QED BY <2>1, <2>2 DEF InOrderOf
<1>8. LinesOf(G) \subseteq LinesOf(F) \cup {m}
  <2> SUFFICES ASSUME NEW a \in LinesOf(G) PROVE a \in LinesOf(F) \cup {m} OBVIOUS
  <2>1. PICK g \in 0 .. KeptFiles : \E i \in 1 .. Len(G[g]) : a = G[g][i] BY <1>4, InTable
  <2>2. PICK i \in 1 .. Len(G[g]) : a = G[g][i] BY <2>1
  <2> QED BY <1>6, <2>2, InTable
<1>9. LinesOf(F) \cup {m} \subseteq LinesOf(G)
  <2>1. ASSUME NEW a \in LinesOf(F) PROVE a \in LinesOf(G)
    <3>1. PICK g \in 0 .. KeptFiles : \E i \in 1 .. Len(F[g]) : a = F[g][i] BY InTable
    <3>2. PICK i \in 1 .. Len(F[g]) : a = F[g][i] BY <3>1
    <3>3. i \in 1 .. Len(G[g]) /\ a = G[g][i]
      BY <1>2, <1>3, <1>5, <3>2
    <3> QED BY <1>4, <3>3, InTable
  <2>2. m \in LinesOf(G)
    <3>1. Len(G[0]) \in 1 .. Len(G[0]) /\ G[0][Len(G[0])] = m BY <1>2, <1>3, <1>5
    <3> QED BY <1>1, <1>4, <3>1, InTable
  <2> QED BY <2>1, <2>2
<1> QED BY <1>4, <1>7, <1>8, <1>9

\* The last line is written over.
LEMMA TableChanged ==
  ASSUME NEW F \in Tables, InOrderOf(F), F[0] # <<>>, NEW m \in LineSet,
         Number(m) = Number(Last(F[0])),
         NEW G, Changed(F, G, m)
  PROVE  /\ G \in Tables /\ InOrderOf(G)
         /\ LinesOf(G) = (LinesOf(F) \ {Last(F[0])}) \cup {m}
<1>1. 0 \in 0 .. KeptFiles /\ KeptFiles \in Nat BY TrailConstants
<1>2. F[0] \in Seq(LineSet) /\ Len(F[0]) \in Nat /\ Len(F[0]) >= 1 BY <1>1, InTable
<1> DEFINE s == [F[0] EXCEPT ![Len(F[0])] = m]
<1>3. /\ s \in Seq(LineSet) /\ Len(s) = Len(F[0]) /\ s[Len(F[0])] = m
      /\ \A i \in 1 .. Len(F[0]) : i # Len(F[0]) => s[i] = F[0][i]
  BY <1>2
<1>4. G \in Tables BY <1>1, <1>3 DEF Tables, CutOff, Grown, Changed
<1>5. /\ G[0] = s
      /\ \A g \in 0 .. KeptFiles : g # 0 => G[g] = F[g]
  BY <1>1 DEF Tables, Grown, Changed
<1> HIDE DEF s
<1>6. ASSUME NEW g \in 0 .. KeptFiles, NEW i \in 1 .. Len(G[g])
      PROVE  /\ i \in 1 .. Len(F[g]) /\ Number(G[g][i]) = Number(F[g][i])
             /\ \/ ~(g = 0 /\ i = Len(F[0])) /\ G[g][i] = F[g][i]
                \/ g = 0 /\ i = Len(F[0]) /\ G[g][i] = m
  <2>1. CASE g = 0
    BY <1>2, <1>3, <1>5, <2>1 DEF Last
  <2>2. CASE g # 0 BY <1>5, <2>2
  <2> QED BY <2>1, <2>2
<1>7. InOrderOf(G)
  <2>1. ASSUME NEW g \in 0 .. KeptFiles, NEW i \in DOMAIN G[g], NEW j \in DOMAIN G[g], i < j
        PROVE  Number(G[g][i]) < Number(G[g][j])
    <3>1. i \in 1 .. Len(G[g]) /\ j \in 1 .. Len(G[g]) BY <1>4, InTable
    <3> QED BY <1>6, <2>1, <3>1, TableOrder
  <2>2. ASSUME NEW g \in 0 .. KeptFiles, NEW h \in 0 .. KeptFiles, g < h,
               NEW older \in Range(G[h]), NEW newer \in Range(G[g])
        PROVE  Number(older) < Number(newer)
    <3>1. G[g] \in Seq(LineSet) /\ G[h] \in Seq(LineSet) BY <1>4, InTable
    <3>2. PICK i \in 1 .. Len(G[g]) : newer = G[g][i] BY <3>1, RangeIsAt
    <3>3. PICK j \in 1 .. Len(G[h]) : older = G[h][j] BY <3>1, RangeIsAt
    <3> QED BY <1>6, <2>2, <3>2, <3>3, TableOrder
  <2> QED BY <2>1, <2>2 DEF InOrderOf
<1>8. LinesOf(G) \subseteq (LinesOf(F) \ {Last(F[0])}) \cup {m}
  <2> SUFFICES ASSUME NEW a \in LinesOf(G), a # m PROVE a \in LinesOf(F) /\ a # Last(F[0])
    OBVIOUS
  <2>1. PICK g \in 0 .. KeptFiles : \E i \in 1 .. Len(G[g]) : a = G[g][i] BY <1>4, InTable
  <2>2. PICK i \in 1 .. Len(G[g]) : a = G[g][i] BY <2>1
  <2>3. ~(g = 0 /\ i = Len(F[0])) /\ a = F[g][i] /\ i \in 1 .. Len(F[g])
    BY <1>6, <2>2
  <2>4. Len(F[0]) \in 1 .. Len(F[0]) BY <1>2
  <2>5. Number(F[g][i]) # Number(F[0][Len(F[0])])
    <3> SUFFICES ASSUME Number(F[g][i]) = Number(F[0][Len(F[0])]) PROVE FALSE OBVIOUS
    <3>1. g = 0 /\ i = Len(F[0]) BY <1>1, <2>3, <2>4, TableOrder
    <3> QED BY <2>3, <3>1
  <2> QED BY <2>3, <2>5, InTable DEF Last
<1>9. (LinesOf(F) \ {Last(F[0])}) \cup {m} \subseteq LinesOf(G)
  <2>1. ASSUME NEW a \in LinesOf(F), a # Last(F[0]) PROVE a \in LinesOf(G)
    <3>1. PICK g \in 0 .. KeptFiles : \E i \in 1 .. Len(F[g]) : a = F[g][i] BY InTable
    <3>2. PICK i \in 1 .. Len(F[g]) : a = F[g][i] BY <3>1
    <3>3. i \in 1 .. Len(G[g]) /\ a = G[g][i]
      BY <1>2, <1>3, <1>5, <2>1, <3>2 DEF Last
    <3> QED BY <1>4, <3>3, InTable
  <2>2. m \in LinesOf(G)
    <3>1. Len(F[0]) \in 1 .. Len(G[0]) /\ G[0][Len(F[0])] = m BY <1>2, <1>3, <1>5
    <3> QED BY <1>1, <1>4, <3>1, InTable
  <2> QED BY <2>1, <2>2
<1> QED BY <1>4, <1>7, <1>8, <1>9

-----------------------------------------------------------------------------
(* The steps. *)

\* The bounds are numbers.
LEMMA EntryBounds ==
    /\ MaxEntries \in Nat /\ MaxTrailStops \in Nat
    /\ MaxLines \in Nat \ {0} /\ KeptFiles \in Nat \ {0}
    /\ NoHash = 0
  BY TrailConstants DEF NoHash

\* What is below a number is below a higher one.
LEMMA BelowMore ==
  ASSUME NEW X, X \subseteq LineSet, NEW s \in Int, NEW t \in Int, s <= t, Below(X, s)
  PROVE  Below(X, t)
<1>1. \A a \in X : a[1].seq \in Nat BY LineHas DEF Entries
<1> QED BY <1>1 DEF Below

\* The lines that begin a chain can be counted.
LEMMA StartsFinite ==
  ASSUME NEW X, IsFiniteSet(X)
  PROVE  /\ IsFiniteSet(Starts(X)) /\ Cardinality(Starts(X)) \in Nat
         /\ \A Z : /\ Cardinality(Starts(X) \ Z) \in Nat
                   /\ Cardinality(Starts(X) \ Z) <= Cardinality(Starts(X))
<1>1. IsFiniteSet(Starts(X)) /\ Cardinality(Starts(X)) \in Nat
  BY FS_Subset, FS_CardinalityType DEF Starts
<1>2. ASSUME NEW Z PROVE /\ Cardinality(Starts(X) \ Z) \in Nat
                         /\ Cardinality(Starts(X) \ Z) <= Cardinality(Starts(X))
  <2>1. Starts(X) \ Z \subseteq Starts(X) OBVIOUS
  <2> QED BY <1>1, <2>1, FS_Subset, FS_CardinalityType
<1> QED BY <1>1, <1>2

\* What the invariant says of the files, in one place.
LEMMA InvGives ==
  ASSUME LinkInv
  PROVE  /\ Lines \subseteq LineSet /\ IsFiniteSet(Lines) /\ ChainedLines(Lines)
         /\ FileTable \in Tables /\ InOrderOf(FileTable) /\ Lines = LinesOf(FileTable)
         /\ FileTable[0] = liveFile /\ liveFile \in Seq(LineSet) /\ Len(liveFile) \in Nat
         /\ \A g \in 1 .. KeptFiles : FileTable[g] = rotated[g]
         /\ Cardinality(Starts(Lines)) \in Nat
<1>1. FilesTyped /\ LinesInOrder /\ ChainedLines(Lines) BY DEF LinkInv
<1>2. FileTable \in Tables /\ InOrderOf(FileTable) /\ Lines = LinesOf(FileTable)
  BY <1>1, TableIs
<1>3. KeptFiles \in Nat BY EntryBounds
<1>4. FileTable[0] = liveFile /\ \A g \in 1 .. KeptFiles : FileTable[g] = rotated[g]
  BY <1>3 DEF FileTable, Kept
<1>5. liveFile \in Seq(LineSet) /\ Len(liveFile) \in Nat BY <1>1 DEF FilesTyped
<1> QED BY <1>1, <1>2, <1>4, <1>5, StartsFinite DEF ChainedLines

\* It is stronger than the property.
LEMMA LinkGivesTrail == LinkInv => TrailInv
<1> SUFFICES ASSUME LinkInv PROVE TrailInv OBVIOUS
<1>1. Seq(LineSet) \subseteq Seq(Seq(Entries))
  <2> SUFFICES ASSUME NEW s \in Seq(LineSet) PROVE s \in Seq(Seq(Entries)) OBVIOUS
  <2>1. s \in [1 .. Len(s) -> LineSet] /\ Len(s) \in Nat OBVIOUS
  <2>2. s \in [1 .. Len(s) -> Seq(Entries)] BY <2>1 DEF LineSet
  <2> QED BY <2>1, <2>2
<1>2. liveFile \in Seq(Seq(Entries))
  BY <1>1 DEF LinkInv, FilesTyped
<1>3. rotated \in Seq(Seq(Seq(Entries))) /\ Len(rotated) = KeptFiles
  <2>1. rotated \in [1 .. KeptFiles -> Seq(Seq(Entries))]
    BY <1>1 DEF LinkInv, FilesTyped
  <2> QED BY <2>1, EntryBounds
<1>4. TrailTypeOK
  BY <1>2, <1>3 DEF LinkInv, CountsTyped, TrailTypeOK
<1>5. ChainUnbroken
  <2>1. Starts(Lines) = Beginnings BY DEF Starts, Beginnings
  <2>2. Linked(Lines)
    <3>1. ChainedLines(Lines) BY InvGives
    <3> QED BY <3>1 DEF ChainedLines
  <2> QED BY <2>1, <2>2 DEF LinkInv, StartsCounted, Linked, ChainUnbroken, NoneBetween
<1>6. SequenceRises
  <2>1. Rising(Lines)
    <3>1. ChainedLines(Lines) BY InvGives
    <3> QED BY <3>1 DEF ChainedLines
  <2> QED BY <2>1 DEF Rising, SequenceRises
<1> QED BY <1>4, <1>5, <1>6 DEF LinkInv, TrailInv

\* It holds at the beginning.
LEMMA LinkInit == TrailInit => LinkInv
<1> SUFFICES ASSUME TrailInit PROVE LinkInv OBVIOUS
<1>1. /\ liveFile = <<>> /\ rotated = [g \in 1 .. KeptFiles |-> <<>>]
      /\ trailMode = "down" /\ nextSeq = 0 /\ lastHash = 0 /\ size = 0 /\ made = 0 /\ stops = 0
  BY EntryBounds DEF TrailInit
<1>2. Lines = {}
  <2>1. \A g \in 0 .. KeptFiles : Kept(g) = <<>> BY <1>1, EntryBounds DEF Kept
  <2>2. Range(<<>>) = {} BY DEF Range
  <2> QED BY <2>1, <2>2 DEF Lines
<1>3. FilesTyped
  <2>1. <<>> \in Seq(LineSet) OBVIOUS
  <2> QED BY <1>1, <2>1 DEF FilesTyped
<1>4. LinesInOrder
  <2>1. \A g \in 0 .. KeptFiles : Kept(g) = <<>> BY <1>1, EntryBounds DEF Kept
  <2>2. DOMAIN <<>> = {} /\ Range(<<>>) = {} BY DEF Range
  <2> QED BY <2>1, <2>2 DEF LinesInOrder
<1>5. CountsTyped /\ Numbered
  <2>1. Len(<<>>) = 0 OBVIOUS
  <2> QED BY <1>1, <1>2, <2>1, EntryBounds DEF CountsTyped, Numbered, Landed
<1>6. ChainedLines(Lines)
  BY <1>2, FS_EmptySet DEF ChainedLines, Linked, Rising
<1>7. ChainGoesOn BY <1>1, EntryBounds DEF ChainGoesOn, Working
<1>8. StartsCounted
  <2>1. Starts(Lines) = {} /\ Unended = {} BY <1>1, <1>2 DEF Starts, Unended
  <2>2. Starts(Lines) \ Unended = {} BY <2>1
  <2> QED BY <1>1, <2>1, <2>2, FS_EmptySet DEF StartsCounted
<1> QED BY <1>3, <1>4, <1>5, <1>6, <1>7, <1>8 DEF LinkInv

\* The tables of two states, as one that became of the other.
LEMMA TableSteps ==
  ASSUME LinkInv
  PROVE  /\ Rotate => Moved(FileTable, FileTable')
         /\ \A n \in 0 .. Len(liveFile) :
              liveFile' = SubSeq(liveFile, 1, n) /\ rotated' = rotated
                => CutOff(FileTable, FileTable', n)
         /\ \A m : liveFile' = Append(liveFile, m) /\ rotated' = rotated
                => Grown(FileTable, FileTable', m)
         /\ \A m : liveFile' = [liveFile EXCEPT ![Len(liveFile)] = m] /\ rotated' = rotated
                => Changed(FileTable, FileTable', m)
         /\ liveFile' = liveFile /\ rotated' = rotated => FileTable' = FileTable
<1>1. KeptFiles \in Nat \ {0} BY EntryBounds
<1>2. /\ FileTable = [g \in 0 .. KeptFiles |-> IF g = 0 THEN liveFile ELSE rotated[g]]
      /\ FileTable' = [g \in 0 .. KeptFiles |-> IF g = 0 THEN liveFile' ELSE rotated'[g]]
  BY DEF FileTable, Kept
<1>3. rotated \in [1 .. KeptFiles -> Seq(LineSet)] /\ liveFile \in Seq(LineSet)
  BY DEF LinkInv, FilesTyped
<1>4. rotated \in Seq(Seq(LineSet)) /\ Len(rotated) = KeptFiles BY <1>1, <1>3
<1>5. ASSUME NEW f \in Seq(LineSet), NEW g \in 1 .. KeptFiles
      PROVE  Oldest(<<f>> \o rotated)[g] = IF g = 1 THEN f ELSE rotated[g - 1]
  BY <1>1, <1>4 DEF Oldest
<1>6. Rotate => Moved(FileTable, FileTable')
  <2>1. CASE rotated' = Oldest(<<liveFile>> \o rotated) /\ liveFile' = <<>>
    <3>1. FileTable' = [g \in 0 .. KeptFiles |-> IF g = 0 THEN <<>> ELSE FileTable[g - 1]]
      BY <1>1, <1>2, <1>3, <1>5, <2>1
    <3> QED BY <3>1 DEF Moved
  <2>2. CASE rotated' = Oldest(<< <<>> >> \o rotated) /\ liveFile' = liveFile
    <3>0. <<>> \in Seq(LineSet) OBVIOUS
    <3>1. \A g \in 1 .. KeptFiles : rotated'[g] = IF g = 1 THEN <<>> ELSE rotated[g - 1]
      BY <1>5, <2>2, <3>0
    <3>2. FileTable' = [g \in 0 .. KeptFiles |->
                          IF g = 0 THEN FileTable[0] ELSE IF g = 1 THEN <<>> ELSE FileTable[g - 1]]
      BY <1>1, <1>2, <2>2, <3>1
    <3> QED BY <3>2 DEF Moved
  <2> QED BY <2>1, <2>2 DEF Rotate
<1>7. ASSUME NEW f, liveFile' = f, rotated' = rotated
      PROVE  FileTable' = [FileTable EXCEPT ![0] = f]
  BY <1>1, <1>2, <1>7
<1>8. FileTable[0] = liveFile BY <1>1, <1>2
<1>9. liveFile' = liveFile /\ rotated' = rotated => FileTable' = FileTable
  BY <1>2
<1> QED BY <1>6, <1>7, <1>8, <1>9 DEF CutOff, Grown, Changed

\* The files stay typed.
LEMMA FilesStay ==
  ASSUME LinkInv, FileTable' \in Tables, InOrderOf(FileTable'), rotated' = rotated \/ Rotate
  PROVE  FilesTyped' /\ LinesInOrder' /\ Lines' = LinesOf(FileTable') /\ liveFile' = FileTable'[0]
<1>1. rotated' = [g \in 1 .. KeptFiles |-> rotated'[g]]
  <2>1. CASE rotated' = rotated BY <2>1 DEF LinkInv, FilesTyped
  <2>2. CASE Rotate
    <3>1. /\ rotated \in Seq(Seq(LineSet)) /\ Len(rotated) = KeptFiles
          /\ liveFile \in Seq(LineSet) /\ <<>> \in Seq(LineSet)
      BY EntryBounds DEF LinkInv, FilesTyped
    <3>2. PICK f \in Seq(LineSet) : rotated' = Oldest(<<f>> \o rotated)
      BY <2>2, <3>1 DEF Rotate
    <3>3. SubSeq(<<f>> \o rotated, 1, KeptFiles)
            = [g \in 1 .. KeptFiles |-> (<<f>> \o rotated)[g]]
      BY <3>1, EntryBounds
    <3> QED BY <3>2, <3>3 DEF Oldest
  <2> QED BY <2>1, <2>2
<1>2. \A g \in 0 .. KeptFiles : FileTable'[g] = Kept(g)'
  BY DEF FileTable
<1>3. Lines' = LinesOf(FileTable')
  BY <1>2 DEF Lines, LinesOf
<1>4. LinesInOrder'
  BY <1>2 DEF LinesInOrder, InOrderOf
<1>5. \A g \in 0 .. KeptFiles : Kept(g)' \in Seq(LineSet)
  BY <1>2 DEF Tables
<1>6. liveFile' = FileTable'[0] /\ liveFile' \in Seq(LineSet)
  BY <1>2, <1>5, EntryBounds DEF Kept
<1>7. ASSUME NEW g \in 1 .. KeptFiles PROVE rotated'[g] \in Seq(LineSet)
  <2>1. g \in 0 .. KeptFiles /\ g # 0 BY EntryBounds
  <2> QED BY <1>5, <2>1 DEF Kept
<1> QED BY <1>1, <1>3, <1>4, <1>6, <1>7 DEF FilesTyped

\* A rotation loses the oldest lines, and no others.
LEMMA RotateTrims ==
  ASSUME LinkInv, Rotate
  PROVE  /\ FilesTyped' /\ LinesInOrder' /\ ChainedLines(Lines')
         /\ Lines' \subseteq Lines /\ Len(liveFile') <= Len(liveFile) /\ Len(liveFile') \in Nat
         /\ size' \in {0, size}
         /\ \A h : EndsIn(Lines, h) => EndsIn(Lines', h)
         /\ \A s : Below(Lines, s) => Below(Lines', s)
         /\ Cardinality(Starts(Lines')) <= Cardinality(Starts(Lines))
         /\ Cardinality(Starts(Lines')) \in Nat
<1>1. PICK F : F = FileTable OBVIOUS
<1>2. PICK G : G = FileTable' OBVIOUS
<1>3. F \in Tables /\ InOrderOf(F) /\ Lines = LinesOf(F) /\ Moved(F, G)
  BY <1>1, <1>2, InvGives, TableSteps
<1>4. /\ G \in Tables /\ InOrderOf(G) /\ LinesOf(G) \subseteq LinesOf(F)
      /\ \A d \in LinesOf(F) \ LinesOf(G), a \in LinesOf(G) : Number(d) < Number(a)
  BY <1>3, TableRotated
<1>5. FilesTyped' /\ LinesInOrder' /\ Lines' = LinesOf(G)
  BY <1>2, <1>4, FilesStay
<1>6. /\ Trimmed(Lines, Lines')
      /\ \A h : EndsIn(Lines, h) => EndsIn(Lines', h)
      /\ \A s : Below(Lines, s) => Below(Lines', s)
  BY <1>3, <1>4, <1>5, InvGives, OlderDropped
<1>7. /\ ChainedLines(Lines')
      /\ Cardinality(Starts(Lines')) <= Cardinality(Starts(Lines))
  BY <1>6, InvGives, TrimmedChained
<1>8. Cardinality(Starts(Lines')) \in Nat
  BY <1>7, StartsFinite DEF ChainedLines
<1>9. Len(liveFile') <= Len(liveFile) /\ Len(liveFile') \in Nat /\ size' \in {0, size}
  BY InvGives DEF Rotate
<1> QED BY <1>3, <1>4, <1>5, <1>6, <1>7, <1>8, <1>9

\* An append takes its number, and rotates a file that is full.
LEMMA BeginAppendLinks == ASSUME LinkInv, BeginAppend PROVE LinkInv'
<1>1. /\ made < MaxEntries /\ made' = made + 1 /\ nextSeq' = nextSeq + 1
      /\ lastHash' = lastHash /\ stops' = stops
  BY DEF BeginAppend
<1>2. CountsTyped /\ Numbered BY DEF LinkInv
<1>3. /\ made \in Nat /\ nextSeq \in Nat /\ size \in Nat /\ stops \in Nat
      /\ Len(liveFile) \in Nat
  BY <1>2, EntryBounds, InvGives DEF CountsTyped
<1>4. \A a \in Lines : Number(a) \in Nat BY InvGives, LineHas
<1>5. CASE liveFile' = liveFile /\ rotated' = rotated /\ size' = size
  <2>1. \/ trailMode = "memory" /\ trailMode' = "memory"
        \/ trailMode = "file" /\ trailMode' = "append"
    BY DEF BeginAppend
  <2>2. FileTable' = FileTable BY <1>5, TableSteps
  <2>3. FilesTyped' /\ LinesInOrder' /\ Lines' = Lines
    BY <1>5, <2>2, InvGives, FilesStay
  <2>4. CountsTyped' BY <1>1, <1>2, <1>5, <2>1, EntryBounds DEF CountsTyped
  <2>5. Numbered'
    BY <1>1, <1>2, <1>3, <1>4, <1>5, <2>1, <2>3 DEF Numbered, Landed
  <2>6. ChainedLines(Lines') BY <2>3, InvGives
  <2>7. ChainGoesOn'
    <3>1. ChainGoesOn BY DEF LinkInv
    <3>2. Used' = Used \/ lastHash = NoHash BY <1>1, <1>3, <2>1, <3>1 DEF Used, ChainGoesOn, Working
    <3> QED BY <1>1, <1>5, <2>1, <2>3, <3>1, <3>2 DEF ChainGoesOn, Working
  <2>8. StartsCounted'
    <3>1. StartsCounted BY DEF LinkInv
    <3>2. Unended' = Unended BY <1>5 DEF Unended
    <3> QED BY <1>1, <2>1, <2>3, <3>1, <3>2 DEF StartsCounted, Working
  <2> QED BY <2>3, <2>4, <2>5, <2>6, <2>7, <2>8 DEF LinkInv
<1>6. CASE trailMode = "file" /\ trailMode' = "append" /\ size >= MaxLines /\ Rotate
  <2>1. lastHash # NoHash
    BY <1>2, <1>6, EntryBounds DEF LinkInv, ChainGoesOn
  <2>2. /\ FilesTyped' /\ LinesInOrder' /\ ChainedLines(Lines')
        /\ Lines' \subseteq Lines /\ Len(liveFile') <= Len(liveFile) /\ Len(liveFile') \in Nat
        /\ size' \in {0, size}
        /\ EndsIn(Lines, lastHash) => EndsIn(Lines', lastHash)
        /\ Below(Lines, Used) => Below(Lines', Used)
        /\ Cardinality(Starts(Lines')) <= Cardinality(Starts(Lines))
        /\ Cardinality(Starts(Lines')) \in Nat
    BY <1>6, RotateTrims
  <2>3. CountsTyped'
    BY <1>1, <1>2, <1>6, <2>2, EntryBounds DEF CountsTyped
  <2>4. Numbered'
    BY <1>1, <1>2, <1>3, <1>4, <1>6, <2>2 DEF Numbered, Landed
  <2>5. ChainGoesOn'
    <3>1. Used' = Used BY <1>1, <1>3, <1>6 DEF Used
    <3>2. EndsIn(Lines, lastHash) /\ Below(Lines, Used) BY <2>1 DEF LinkInv, ChainGoesOn
    <3> QED BY <1>1, <1>6, <2>1, <2>2, <3>1, <3>2 DEF ChainGoesOn, Working
  <2>6. StartsCounted'
    <3>1. Cardinality(Starts(Lines)) <= stops + 1 BY DEF LinkInv, StartsCounted
    <3>2. Cardinality(Starts(Lines')) <= stops + 1
      BY <1>3, <2>2, <3>1, InvGives
    <3> QED BY <1>1, <1>6, <2>1, <3>2 DEF StartsCounted, Working
  <2> QED BY <2>2, <2>3, <2>4, <2>5, <2>6 DEF LinkInv
<1> QED
  <2>1. size < MaxLines \/ size >= MaxLines BY <1>3, EntryBounds
  <2> QED BY <1>5, <1>6, <2>1 DEF BeginAppend

-----------------------------------------------------------------------------
(* A line is written. *)

\* A write that fails with nothing there leaves the files alone.
LEMMA NothingWritten == ASSUME LinkInv, WriteLine("nothing") PROVE LinkInv'
<1>1. /\ trailMode = "append" /\ trailMode' = "file" /\ lastHash' = lastHash /\ size' = size
      /\ liveFile' = liveFile /\ rotated' = rotated /\ nextSeq' = nextSeq /\ made' = made
      /\ stops' = stops
  BY DEF WriteLine, Chained
<1>2. CountsTyped /\ Numbered /\ ChainGoesOn /\ StartsCounted BY DEF LinkInv
<1>3. FilesTyped' /\ LinesInOrder' /\ Lines' = Lines
  BY <1>1, TableSteps, InvGives, FilesStay
<1>4. CountsTyped' BY <1>1, <1>2 DEF CountsTyped
<1>5. Numbered'
  <2>1. \A a \in Lines : Number(a) \in Nat BY InvGives, LineHas
  <2> QED BY <1>1, <1>2, <1>3, <2>1, InvGives, EntryBounds DEF Numbered, Landed, CountsTyped
<1>6. ChainedLines(Lines') BY <1>3, InvGives
<1>7. ChainGoesOn'
  <2>1. Used \in Int /\ Used' \in Int /\ Used <= Used' BY <1>1, <1>2 DEF CountsTyped, Used
  <2>2. Below(Lines, Used) => Below(Lines, Used')
    BY <2>1, InvGives, BelowMore
  <2> QED BY <1>1, <1>2, <1>3, <2>2 DEF ChainGoesOn, Working
<1>8. StartsCounted'
  <2>1. Unended' = Unended BY <1>1 DEF Unended
  <2> QED BY <1>1, <1>2, <1>3, <2>1 DEF StartsCounted, Working
<1> QED BY <1>3, <1>4, <1>5, <1>6, <1>7, <1>8 DEF LinkInv

\* What every write does.
LEMMA WriteIs ==
  ASSUME LinkInv, NEW w \in {"line", "unended", "part"}, WriteLine(w)
  PROVE  \E e \in Entries :
           /\ e.n = made /\ e.seq = nextSeq - 1 /\ e.prev = lastHash /\ e.there = w
           /\ liveFile' = Written(e)
<1>1. /\ trailMode = "append" /\ CountsTyped /\ Numbered BY DEF LinkInv, WriteLine
<1>2. made \in 1 .. MaxEntries /\ nextSeq - 1 \in Nat
  BY <1>1, EntryBounds DEF Numbered, CountsTyped
<1> DEFINE e == [n |-> made, seq |-> nextSeq - 1, prev |-> lastHash, there |-> w]
<1>3. e \in Entries BY <1>1, <1>2 DEF Entries, CountsTyped
<1>4. liveFile' = Written(e) BY DEF WriteLine
<1> QED BY <1>3, <1>4

\* What a write does to the counts.
LEMMA WriteCounts ==
  ASSUME LinkInv, NEW w \in {"line", "unended", "part"}, WriteLine(w)
  PROVE  /\ CountsTyped' /\ trailMode' = "file" /\ trailMode = "append"
         /\ size' <= made' /\ made' = made /\ nextSeq' = nextSeq /\ rotated' = rotated
         /\ stops' = stops /\ stops \in Nat /\ made \in Nat /\ made >= 1 /\ nextSeq \in Nat
         /\ lastHash' = IF w = "line" THEN made ELSE lastHash
         /\ lastHash' # NoHash => w = "line" \/ lastHash # NoHash
         /\ lastHash' = NoHash => w # "line" /\ lastHash = NoHash /\ size' = 0
         /\ Len(liveFile) + 1 <= made /\ Used = nextSeq - 1 /\ Used' = nextSeq
         /\ Landed' = made
         /\ \A a \in Lines : Number(a) \in Nat /\ Number(a) <= made - 1
<1>1. /\ trailMode = "append" /\ trailMode' = "file" /\ made' = made /\ nextSeq' = nextSeq
      /\ rotated' = rotated /\ stops' = stops
      /\ lastHash' = (IF w = "line" THEN made ELSE lastHash)
      /\ size' = (IF w = "line" THEN size + 1 ELSE size)
  BY DEF WriteLine, Chained
<1>2. CountsTyped /\ Numbered /\ ChainGoesOn BY DEF LinkInv
<1>3. /\ stops \in Nat /\ made \in Nat /\ made >= 1 /\ nextSeq \in Nat /\ size \in Nat
      /\ made <= MaxEntries /\ Len(liveFile) \in Nat
      /\ size <= made - 1 /\ Len(liveFile) <= made - 1
      /\ \A a \in Lines : Number(a) <= made - 1
  BY <1>1, <1>2, EntryBounds, InvGives DEF CountsTyped, Numbered, Landed
<1>4. CountsTyped'
  BY <1>1, <1>2, <1>3, EntryBounds DEF CountsTyped
<1>5. lastHash' = NoHash => w # "line" /\ lastHash = NoHash /\ size' = 0
  BY <1>1, <1>2, <1>3, EntryBounds DEF ChainGoesOn
<1>6. \A a \in Lines : Number(a) \in Nat BY InvGives, LineHas
<1> QED BY <1>1, <1>3, <1>4, <1>5, <1>6 DEF Used, Landed

\* The last line had ended: the entry is a line of its own.
LEMMA NewLine ==
  ASSUME LinkInv, NEW w \in {"line", "unended", "part"}, WriteLine(w),
         liveFile = <<>> \/ Ended(Last(liveFile))
  PROVE  LinkInv'
<1>1. PICK e \in Entries :
        /\ e.n = made /\ e.seq = nextSeq - 1 /\ e.prev = lastHash /\ e.there = w
        /\ liveFile' = Written(e)
  BY WriteIs
<1>2. PICK m : m = <<e>> OBVIOUS
<1>3. m \in LineSet /\ Len(m) = 1 /\ m[1] = e /\ Last(m) = e /\ Number(m) = made
  <2>1. <<e>> \in Seq(Entries) /\ <<e>> # <<>> /\ Len(<<e>>) = 1 /\ <<e>>[1] = e
    OBVIOUS
  <2> QED BY <1>1, <1>2, <2>1 DEF LineSet, Last, Number
<1>4. /\ CountsTyped' /\ trailMode' = "file" /\ trailMode = "append"
      /\ size' <= made' /\ made' = made /\ nextSeq' = nextSeq /\ rotated' = rotated
      /\ stops' = stops /\ stops \in Nat /\ made \in Nat /\ made >= 1 /\ nextSeq \in Nat
      /\ lastHash' = (IF w = "line" THEN made ELSE lastHash)
      /\ lastHash' # NoHash => w = "line" \/ lastHash # NoHash
      /\ lastHash' = NoHash => w # "line" /\ lastHash = NoHash /\ size' = 0
      /\ Len(liveFile) + 1 <= made /\ Used = nextSeq - 1 /\ Used' = nextSeq
      /\ Landed' = made
      /\ \A a \in Lines : Number(a) \in Nat /\ Number(a) <= made - 1
  BY WriteCounts
<1>5. liveFile' = Append(liveFile, m)
  BY <1>1, <1>2 DEF Written
<1>6. PICK F : F = FileTable OBVIOUS
<1>7. PICK G : G = FileTable' OBVIOUS
<1>8. F \in Tables /\ InOrderOf(F) /\ Lines = LinesOf(F) /\ Grown(F, G, m)
  BY <1>4, <1>5, <1>6, <1>7, InvGives, TableSteps
<1>9. \A a \in Lines : Number(a) < Number(m) BY <1>3, <1>4
<1>10. G \in Tables /\ InOrderOf(G) /\ LinesOf(G) = Lines \cup {m}
  BY <1>3, <1>8, <1>9, TableGrown
<1>11. FilesTyped' /\ LinesInOrder' /\ Lines' = Lines \cup {m}
  BY <1>4, <1>7, <1>10, FilesStay
<1>12. m[1].prev # NoHash => EndsIn(Lines, m[1].prev) /\ Below(Lines, m[1].seq)
  BY <1>1, <1>3, <1>4 DEF LinkInv, ChainGoesOn
<1>13. PICK X : X = Lines OBVIOUS
<1>14. /\ ChainedLines(X \cup {m})
       /\ Starts(X \cup {m}) \subseteq Starts(X) \cup {m}
       /\ m[1].prev # NoHash \/ m[1].there = "part" => Starts(X \cup {m}) = Starts(X)
       /\ m[1].prev # NoHash \/ m[1].there # "part" => Below(X \cup {m}, m[1].seq + 1)
       /\ \A h : m[1].there # "line" \/ h = Number(m) => EndsIn(X \cup {m}, h)
  BY <1>3, <1>9, <1>12, <1>13, InvGives, LineAdded
<1>15. Numbered'
  <2>1. Len(liveFile') = Len(liveFile) + 1
    BY <1>5, InvGives
  <2> QED BY <1>3, <1>4, <1>11, <2>1 DEF Numbered
<1>16. ChainGoesOn'
  <2>1. ASSUME lastHash' # NoHash PROVE EndsIn(Lines', lastHash') /\ Below(Lines', Used')
    <3>1. EndsIn(Lines', lastHash')
      BY <1>1, <1>3, <1>4, <1>11, <1>13, <1>14
    <3>2. Below(Lines', m[1].seq + 1)
      BY <1>1, <1>3, <1>4, <1>11, <1>13, <1>14, <2>1
    <3>3. m[1].seq + 1 = Used' BY <1>1, <1>3, <1>4
    <3> QED BY <3>1, <3>2, <3>3
  <2> QED BY <1>4, <2>1 DEF ChainGoesOn, Working
<1>17. StartsCounted'
  <2>1. StartsCounted BY DEF LinkInv
  <2>2. IsFiniteSet(Starts(X)) /\ Cardinality(Starts(X)) \in Nat
    BY <1>13, InvGives, StartsFinite
  <2>3. /\ IsFiniteSet(Starts(X) \cup {m})
        /\ Cardinality(Starts(X) \cup {m}) <= Cardinality(Starts(X)) + 1
        /\ Cardinality(Starts(X) \cup {m}) \in Nat
    BY <2>2, FS_AddElement, FS_CardinalityType
  <2>4. /\ Cardinality(Starts(X \cup {m})) <= Cardinality(Starts(X) \cup {m})
        /\ Cardinality(Starts(X \cup {m})) \in Nat
    BY <1>14, <2>3, FS_Subset, FS_CardinalityType
  <2>5. CASE lastHash # NoHash
    <3>1. Starts(X \cup {m}) = Starts(X) BY <1>1, <1>3, <1>14, <2>5
    <3>2. lastHash' # NoHash BY <1>4, <2>5
    <3> QED BY <1>4, <1>11, <1>13, <2>1, <3>1, <3>2 DEF StartsCounted, Working
  <2>6. CASE lastHash = NoHash
    <3>1. Unended = {} BY DEF Unended
    <3>2. Starts(X) \ Unended = Starts(X) BY <3>1
    <3>3. Cardinality(Starts(X)) <= stops
      BY <1>13, <2>1, <2>6, <3>2 DEF StartsCounted
    <3>4. Cardinality(Starts(Lines')) <= stops + 1
      BY <1>4, <1>11, <1>13, <2>2, <2>3, <2>4, <3>3
    <3>5. ASSUME lastHash' = NoHash PROVE Cardinality(Starts(Lines') \ Unended') <= stops
      <4>1. w # "line" BY <1>4, <3>5
      <4>2. liveFile' # <<>> /\ Last(liveFile') = m
        BY <1>3, <1>5, InvGives DEF Last
      <4>3. Unended' = {m}
        BY <1>1, <1>3, <4>1, <4>2 DEF Unended, Ended
      <4>4. Starts(Lines') \ Unended' \subseteq Starts(X)
        BY <1>11, <1>13, <1>14, <4>3
      <4>5. /\ Cardinality(Starts(Lines') \ Unended') <= Cardinality(Starts(X))
            /\ Cardinality(Starts(Lines') \ Unended') \in Nat
        BY <2>2, <4>4, FS_Subset, FS_CardinalityType
      <4> QED BY <1>4, <2>2, <3>3, <4>5
    <3> QED BY <1>4, <3>4, <3>5 DEF StartsCounted, Working
  <2> QED BY <2>5, <2>6
<1> QED BY <1>4, <1>11, <1>13, <1>14, <1>15, <1>16, <1>17 DEF LinkInv

\* It had not: the entry is glued to it, and the line can no longer be read.
LEMMA GluedLine ==
  ASSUME LinkInv, NEW w \in {"line", "unended", "part"}, WriteLine(w),
         ~(liveFile = <<>> \/ Ended(Last(liveFile)))
  PROVE  LinkInv'
<1>1. PICK e \in Entries :
        /\ e.n = made /\ e.seq = nextSeq - 1 /\ e.prev = lastHash /\ e.there = w
        /\ liveFile' = Written(e)
  BY WriteIs
<1>2. PICK l : l = Last(liveFile) OBVIOUS
<1>3. PICK m : m = Append(l, e) OBVIOUS
<1>4. liveFile # <<>> /\ l = liveFile[Len(liveFile)] /\ l \in LineSet
      /\ Len(liveFile) \in 1 .. Len(liveFile)
  BY <1>2, InvGives DEF Last
<1>5. l \in Seq(Entries) /\ Len(l) \in Nat /\ Len(l) >= 1
  BY <1>4, LineHas DEF LineSet
<1>6. m \in LineSet /\ Len(m) = Len(l) + 1 /\ m[Len(m)] = e
      /\ \A i \in 1 .. Len(l) : m[i] = l[i]
  BY <1>3, <1>5 DEF LineSet
<1>7. Number(m) = Number(l) BY <1>5, <1>6 DEF Number
<1>8. ~Parses(m) BY <1>5, <1>6 DEF Parses
<1>9. DOMAIN m = 1 .. Len(m) /\ DOMAIN l = 1 .. Len(l) BY <1>4, <1>6, LineHas
<1>10. (Begins(l) => Begins(m)) /\ (lastHash = NoHash => Begins(m))
  BY <1>1, <1>5, <1>6, <1>9 DEF Begins
<1>11. /\ CountsTyped' /\ trailMode' = "file" /\ trailMode = "append"
       /\ size' <= made' /\ made' = made /\ nextSeq' = nextSeq /\ rotated' = rotated
       /\ stops' = stops /\ stops \in Nat /\ made \in Nat /\ made >= 1 /\ nextSeq \in Nat
       /\ lastHash' = (IF w = "line" THEN made ELSE lastHash)
       /\ lastHash' # NoHash => w = "line" \/ lastHash # NoHash
       /\ lastHash' = NoHash => w # "line" /\ lastHash = NoHash /\ size' = 0
       /\ Len(liveFile) + 1 <= made /\ Used = nextSeq - 1 /\ Used' = nextSeq
       /\ Landed' = made
       /\ \A a \in Lines : Number(a) \in Nat /\ Number(a) <= made - 1
  BY WriteCounts
<1>12. liveFile' = [liveFile EXCEPT ![Len(liveFile)] = m]
  BY <1>1, <1>2, <1>3, <1>4 DEF Written
<1>13. PICK F : F = FileTable OBVIOUS
<1>14. PICK G : G = FileTable' OBVIOUS
<1>15. /\ F \in Tables /\ InOrderOf(F) /\ Lines = LinesOf(F) /\ Changed(F, G, m)
       /\ F[0] # <<>> /\ l = Last(F[0])
  BY <1>2, <1>4, <1>11, <1>12, <1>13, <1>14, InvGives, TableSteps
<1>16. /\ l \in Lines /\ AtEnd(l, Lines)
  BY <1>15, LastAtEnd
<1>17. G \in Tables /\ InOrderOf(G) /\ LinesOf(G) = (Lines \ {l}) \cup {m}
  BY <1>6, <1>7, <1>15, TableChanged
<1>18. FilesTyped' /\ LinesInOrder' /\ Lines' = (Lines \ {l}) \cup {m}
  BY <1>11, <1>14, <1>17, FilesStay
<1>19. PICK X : X = Lines OBVIOUS
<1>20. ChainedLines(X) /\ l \in X /\ AtEnd(l, X) /\ X \subseteq LineSet
  BY <1>16, <1>19, InvGives
<1>21. /\ ChainedLines((X \ {l}) \cup {m})
       /\ Cardinality(Starts((X \ {l}) \cup {m})) <= Cardinality(Starts(X))
  BY <1>6, <1>7, <1>8, <1>10, <1>20, LineChanged
<1>22. \A a \in X \ {l} : Number(a) < Number(m)
  BY <1>7, <1>11, <1>19, <1>20 DEF AtEnd, ChainedLines
<1>23. Numbered'
  <2>1. Len(liveFile') = Len(liveFile) BY <1>12, InvGives
  <2>2. \A a \in Lines' : Number(a) <= made
    BY <1>7, <1>11, <1>16, <1>18
  <2> QED BY <1>11, <2>1, <2>2, InvGives DEF Numbered
<1>24. ChainGoesOn'
  <2>1. ASSUME NEW h PROVE EndsIn(Lines', h)
    <3> SUFFICES ASSUME NEW a \in Lines', AtEnd(a, Lines'), Parses(a) PROVE FALSE
      BY DEF EndsIn
    <3>1. a \in X \ {l} BY <1>8, <1>18, <1>19
    <3>2. Number(m) <= Number(a) BY <1>18 DEF AtEnd
    <3> QED BY <1>7, <1>11, <1>16, <1>19, <1>22, <3>1, <3>2
  <2>2. ASSUME lastHash' # NoHash PROVE Below(Lines', Used')
    <3> SUFFICES ASSUME NEW a \in Lines', Parses(a),
                        \A line \in Lines' : Number(a) < Number(line) => ~Begins(line)
                 PROVE  a[1].seq < Used'
      BY DEF Below
    <3>1. a \in X \ {l} BY <1>8, <1>18, <1>19
    <3>2. ~Begins(m) BY <1>18, <1>22, <3>1
    <3>3. lastHash # NoHash /\ ~Begins(l) BY <1>10, <3>2
    <3>4. \A line \in X : Number(a) < Number(line) => ~Begins(line)
      BY <1>18, <1>19, <3>3
    <3>5. Below(X, Used) BY <1>19, <3>3 DEF LinkInv, ChainGoesOn
    <3>6. a[1].seq < Used BY <3>1, <3>4, <3>5 DEF Below
    <3>7. a[1].seq \in Nat BY <1>20, <3>1, LineHas DEF Entries
    <3> QED BY <1>11, <3>6, <3>7
  <2> QED BY <1>11, <2>1, <2>2 DEF ChainGoesOn, Working
<1>25. StartsCounted'
  <2>1. StartsCounted BY DEF LinkInv
  <2>2. IsFiniteSet(Starts(X)) /\ Cardinality(Starts(X)) \in Nat
    BY <1>19, InvGives, StartsFinite
  <2>3. Cardinality(Starts(Lines')) \in Nat
    BY <1>18, <1>19, <1>21, StartsFinite DEF ChainedLines
  <2>4. Cardinality(Starts(Lines')) <= stops + 1
    BY <1>11, <1>18, <1>19, <1>21, <2>1, <2>2, <2>3 DEF StartsCounted
  <2>5. ASSUME lastHash' = NoHash PROVE Cardinality(Starts(Lines') \ Unended') <= stops
    <3>1. lastHash = NoHash BY <1>11, <2>5
    <3>2. Unended = {l} BY <1>2, <1>4 DEF Unended
    <3>3. Cardinality(Starts(X) \ {l}) <= stops
      BY <1>19, <2>1, <3>1, <3>2 DEF StartsCounted
    <3>4. Starts(Lines') \ Unended' \subseteq Starts(X) \ {l}
      BY <1>8, <1>18, <1>19 DEF Starts
    <3>5. IsFiniteSet(Starts(X) \ {l}) BY <2>2, FS_Subset
    <3>6. /\ Cardinality(Starts(Lines') \ Unended') <= Cardinality(Starts(X) \ {l})
          /\ Cardinality(Starts(Lines') \ Unended') \in Nat
          /\ Cardinality(Starts(X) \ {l}) \in Nat
      BY <3>4, <3>5, FS_Subset, FS_CardinalityType
    <3> QED BY <1>11, <3>3, <3>6
  <2> QED BY <1>11, <2>4, <2>5 DEF StartsCounted, Working
<1> QED BY <1>11, <1>18, <1>19, <1>21, <1>23, <1>24, <1>25 DEF LinkInv

-----------------------------------------------------------------------------
(* The daemon stops and starts. *)

\* What a stop leaves, however the last line came off.
LEMMA StoppedLinks ==
  ASSUME LinkInv, Stop, FilesTyped', LinesInOrder', ChainedLines(Lines'),
         Cardinality(Starts(Lines')) <= Cardinality(Starts(Lines)),
         Len(liveFile') <= Len(liveFile), Len(liveFile') \in Nat,
         \A a \in Lines' : \E b \in Lines : Number(a) = Number(b)
  PROVE  LinkInv'
<1>1. /\ trailMode' = "down" /\ stops' = stops + 1 /\ stops < MaxTrailStops
      /\ nextSeq' = 0 /\ lastHash' = NoHash /\ size' = 0 /\ made' = made
  BY DEF Stop
<1>2. CountsTyped /\ Numbered /\ StartsCounted BY DEF LinkInv
<1>3. made \in Nat /\ made <= MaxEntries /\ stops \in Nat
  BY <1>2, EntryBounds DEF CountsTyped
<1>4. CountsTyped' BY <1>1, <1>2, <1>3, EntryBounds DEF CountsTyped
<1>5. Numbered'
  <2>1. \A a \in Lines : Number(a) \in Nat BY InvGives, LineHas
  <2>2. \A a \in Lines : Number(a) <= made
    BY <1>2, <1>3, <2>1 DEF Numbered, Landed
  <2>3. Len(liveFile') <= made
    BY <1>2, <1>3, InvGives DEF Numbered, Landed
  <2> QED BY <1>1, <1>3, <2>2, <2>3 DEF Numbered, Landed
<1>6. ChainGoesOn' BY <1>1 DEF ChainGoesOn, Working
<1>7. StartsCounted'
  <2>1. /\ Cardinality(Starts(Lines')) \in Nat
        /\ Cardinality(Starts(Lines') \ Unended') \in Nat
        /\ Cardinality(Starts(Lines') \ Unended') <= Cardinality(Starts(Lines'))
    BY StartsFinite DEF ChainedLines
  <2>2. Cardinality(Starts(Lines')) <= stops + 1
    BY <1>2, <1>3, <2>1, InvGives DEF StartsCounted
  <2> QED BY <1>1, <1>3, <2>1, <2>2 DEF StartsCounted
<1> QED BY <1>4, <1>5, <1>6, <1>7 DEF LinkInv

\* What a cut leaves of the live file, and what the last line of it is.
LEMMA CutTrims ==
  ASSUME LinkInv, NEW n \in 0 .. Len(liveFile), liveFile' = SubSeq(liveFile, 1, n),
         rotated' = rotated
  PROVE  /\ FilesTyped' /\ LinesInOrder' /\ ChainedLines(Lines') /\ Lines' \subseteq Lines
         /\ Cardinality(Starts(Lines')) <= Cardinality(Starts(Lines))
         /\ Cardinality(Starts(Lines')) \in Nat
         /\ Len(liveFile') = n
         /\ n > 0 => /\ liveFile[n] \in Lines' /\ AtEnd(liveFile[n], Lines')
                     /\ \A a \in Lines' : AtEnd(a, Lines') => a = liveFile[n]
<1>1. PICK F : F = FileTable OBVIOUS
<1>2. PICK G : G = FileTable' OBVIOUS
<1>3. F \in Tables /\ InOrderOf(F) /\ Lines = LinesOf(F) /\ CutOff(F, G, n)
      /\ n \in 0 .. Len(F[0])
  BY <1>1, <1>2, InvGives, TableSteps
<1>4. G \in Tables /\ InOrderOf(G) /\ Trimmed(LinesOf(F), LinesOf(G))
  BY <1>3, TableCut
<1>5. FilesTyped' /\ LinesInOrder' /\ Lines' = LinesOf(G) /\ liveFile' = G[0]
  BY <1>2, <1>4, FilesStay
<1>6. /\ ChainedLines(Lines') /\ Lines' \subseteq Lines
      /\ Cardinality(Starts(Lines')) <= Cardinality(Starts(Lines))
  BY <1>3, <1>4, <1>5, InvGives, TrimmedChained DEF Trimmed
<1>7. Cardinality(Starts(Lines')) \in Nat
  BY <1>6, StartsFinite DEF ChainedLines
<1>8. Len(liveFile') = n /\ (n > 0 => liveFile' # <<>> /\ liveFile'[n] = liveFile[n])
  BY InvGives
<1>9. n > 0 => Last(G[0]) = liveFile[n]
  BY <1>5, <1>8 DEF Last
<1> QED BY <1>4, <1>5, <1>6, <1>7, <1>8, <1>9, LastAtEnd

\* A stop takes the last line, a part of it, its newline, or nothing.
LEMMA StopLinks == ASSUME LinkInv, Stop PROVE LinkInv'
<1>1. rotated' = rotated BY DEF Stop
<1>2. CASE liveFile' = liveFile
  <2>1. FilesTyped' /\ LinesInOrder' /\ Lines' = Lines
    BY <1>1, <1>2, TableSteps, InvGives, FilesStay
  <2> QED BY <1>2, <2>1, InvGives, StoppedLinks
<1>3. CASE liveFile # <<>> /\ liveFile' = Front(liveFile)
  <2>1. /\ Len(liveFile) - 1 \in 0 .. Len(liveFile)
        /\ liveFile' = SubSeq(liveFile, 1, Len(liveFile) - 1)
    BY <1>3, InvGives DEF Front
  <2>2. PICK n \in 0 .. Len(liveFile) : liveFile' = SubSeq(liveFile, 1, n) BY <2>1
  <2>3. /\ FilesTyped' /\ LinesInOrder' /\ ChainedLines(Lines') /\ Lines' \subseteq Lines
        /\ Cardinality(Starts(Lines')) <= Cardinality(Starts(Lines))
        /\ Len(liveFile') = n
    BY <1>1, <2>2, CutTrims
  <2> QED BY <2>2, <2>3, InvGives, StoppedLinks
<1>4. ASSUME NEW w \in {"unended", "part"},
             liveFile # <<>>, Parses(Last(liveFile)),
             liveFile' = [liveFile EXCEPT ![Len(liveFile)][1].there = w]
      PROVE  LinkInv'
  <2>1. PICK l : l = Last(liveFile) OBVIOUS
  <2>2. PICK m : m = [l EXCEPT ![1].there = w] OBVIOUS
  <2>3. l = liveFile[Len(liveFile)] /\ l \in LineSet /\ Len(liveFile) \in 1 .. Len(liveFile)
    BY <1>4, <2>1, InvGives DEF Last
  <2>4. l \in Seq(Entries) /\ Len(l) = 1 /\ l[1] \in Entries /\ Parses(l)
    BY <1>4, <2>1, <2>3, LineHas DEF LineSet, Parses
  <2>5. [l[1] EXCEPT !.there = w] \in Entries
        /\ [l[1] EXCEPT !.there = w].n = l[1].n
        /\ [l[1] EXCEPT !.there = w].seq = l[1].seq
        /\ [l[1] EXCEPT !.there = w].prev = l[1].prev
    BY <2>4 DEF Entries
  <2>6. m \in Seq(Entries) /\ Len(m) = 1 /\ m[1] = [l[1] EXCEPT !.there = w]
    <3>1. PICK e : e = [l[1] EXCEPT !.there = w] OBVIOUS
    <3>2. m = [l EXCEPT ![1] = e] BY <2>2, <3>1
    <3>3. e \in Entries BY <2>5, <3>1
    <3>4. 1 \in DOMAIN l BY <2>4
    <3>5. m \in Seq(Entries) /\ Len(m) = 1 /\ m[1] = e BY <2>4, <3>2, <3>3, <3>4
    <3> QED BY <3>1, <3>5
  <2>7. m \in LineSet /\ Number(m) = Number(l) /\ m[1].prev = l[1].prev /\ m[1].seq = l[1].seq
    BY <2>5, <2>6 DEF LineSet, Number
  <2>8. Begins(l) => Begins(m)
    <3>1. DOMAIN m = {1} /\ DOMAIN l = {1} BY <2>4, <2>6
    <3> QED BY <2>7, <3>1 DEF Begins
  <2>9. liveFile' = [liveFile EXCEPT ![Len(liveFile)] = m]
    BY <1>4, <2>2, <2>3
  <2>10. PICK F : F = FileTable OBVIOUS
  <2>11. PICK G : G = FileTable' OBVIOUS
  <2>12. /\ F \in Tables /\ InOrderOf(F) /\ Lines = LinesOf(F) /\ Changed(F, G, m)
         /\ F[0] # <<>> /\ l = Last(F[0])
    BY <1>1, <1>4, <2>1, <2>9, <2>10, <2>11, InvGives, TableSteps
  <2>13. /\ l \in Lines /\ AtEnd(l, Lines)
    BY <2>12, LastAtEnd
  <2>14. G \in Tables /\ InOrderOf(G) /\ LinesOf(G) = (Lines \ {l}) \cup {m}
    BY <2>7, <2>12, TableChanged
  <2>15. FilesTyped' /\ LinesInOrder' /\ Lines' = (Lines \ {l}) \cup {m}
    BY <1>1, <2>11, <2>14, FilesStay
  <2>16. PICK X : X = Lines OBVIOUS
  <2>17. /\ ChainedLines((X \ {l}) \cup {m})
         /\ Cardinality(Starts((X \ {l}) \cup {m})) <= Cardinality(Starts(X))
    BY <2>4, <2>7, <2>8, <2>13, <2>16, InvGives, LineChanged
  <2>18. Len(liveFile') = Len(liveFile) /\ Len(liveFile) \in Nat
    BY <2>9, InvGives
  <2>19. \A a \in Lines' : \E b \in Lines : Number(a) = Number(b)
    BY <2>7, <2>13, <2>15
  <2> QED BY <2>15, <2>16, <2>17, <2>18, <2>19, StoppedLinks
<1> QED BY <1>2, <1>3, <1>4 DEF Stop

\* What is recovered: all that stands before the first damaged line.
LEMMA RecoveredIs ==
  ASSUME LinkInv
  PROVE  \E n \in 0 .. Len(liveFile) :
           /\ Recovered = SubSeq(liveFile, 1, n)
           /\ \A i \in 1 .. n : Parses(liveFile[i])
           /\ n < Len(liveFile) => ~Parses(liveFile[n + 1])
<1>1. liveFile \in Seq(LineSet) /\ Len(liveFile) \in Nat /\ DOMAIN liveFile = 1 .. Len(liveFile)
  BY InvGives
<1> DEFINE damaged == {i \in DOMAIN liveFile : ~Parses(liveFile[i])}
<1>2. CASE damaged = {}
  <2>1. Recovered = liveFile BY <1>2 DEF Recovered, Good
  <2>2. liveFile = SubSeq(liveFile, 1, Len(liveFile)) BY <1>1
  <2>3. \A i \in 1 .. Len(liveFile) : Parses(liveFile[i]) BY <1>1, <1>2
  <2>4. Len(liveFile) \in 0 .. Len(liveFile)
    <3>1. Len(liveFile) \in Nat BY <1>1
    <3> QED BY <3>1
  <2>5. PICK n \in 0 .. Len(liveFile) : n = Len(liveFile) BY <2>4
  <2>6. Recovered = SubSeq(liveFile, 1, n) BY <2>1, <2>2, <2>5
  <2>7. \A i \in 1 .. n : Parses(liveFile[i]) BY <2>3, <2>5
  <2>8. ~(n < Len(liveFile)) BY <1>1, <2>5
  <2> QED BY <2>6, <2>7, <2>8
<1>3. CASE damaged # {}
  <2>1. damaged \in SUBSET Nat BY <1>1
  <2>2. \E x \in damaged : \A y \in damaged : x <= y
    <3> HIDE DEF damaged
    <3> QED BY <1>3, <2>1, Least
  <2>3. PICK x : x = Min(damaged) OBVIOUS
  <2>4. x \in damaged /\ \A y \in damaged : x <= y
    <3> HIDE DEF damaged
    <3> QED BY <2>2, <2>3 DEF Min
  <2>5. Recovered = SubSeq(liveFile, 1, x - 1) BY <1>3, <2>3 DEF Recovered, Good
  <2>6. x - 1 \in 0 .. Len(liveFile) /\ (x - 1) + 1 = x BY <1>1, <2>4
  <2>7. \A i \in 1 .. x - 1 : Parses(liveFile[i])
    BY <1>1, <2>4
  <2>8. ~Parses(liveFile[(x - 1) + 1]) BY <2>4, <2>6
  <2>9. PICK n \in 0 .. Len(liveFile) : n = x - 1 BY <2>6
  <2>10. Recovered = SubSeq(liveFile, 1, n) BY <2>5, <2>9
  <2>11. \A i \in 1 .. n : Parses(liveFile[i]) BY <2>7, <2>9
  <2>12. ~Parses(liveFile[n + 1]) BY <2>8, <2>9
  <2> QED BY <2>10, <2>11, <2>12
<1> QED BY <1>2, <1>3

\* A start goes on from the last line before the first damaged one.
LEMMA OpenLinks == ASSUME LinkInv, Open PROVE LinkInv'
<1>1. trailMode = "down" /\ trailMode' = "file" /\ made' = made /\ stops' = stops
  BY DEF Open
<1>2. CountsTyped /\ Numbered /\ ChainGoesOn /\ StartsCounted BY DEF LinkInv
<1>3. /\ made \in Nat /\ made <= MaxEntries /\ stops \in Nat /\ Landed = made
      /\ lastHash = NoHash /\ size = 0
      /\ Cardinality(Starts(Lines)) <= stops /\ Cardinality(Starts(Lines)) \in Nat
      /\ Landed' = made /\ Used' = nextSeq'
  BY <1>1, <1>2, EntryBounds, InvGives
     DEF CountsTyped, Landed, Used, ChainGoesOn, StartsCounted, Working
<1>4. PICK n \in 0 .. Len(liveFile) :
        /\ Recovered = SubSeq(liveFile, 1, n)
        /\ \A i \in 1 .. n : Parses(liveFile[i])
  BY RecoveredIs
<1>5. Len(liveFile) \in Nat /\ Len(liveFile) <= made /\ \A a \in Lines : Number(a) <= made
  BY <1>2, <1>3, InvGives DEF Numbered
<1>6. ASSUME FilesTyped', LinesInOrder', ChainedLines(Lines'), Lines' \subseteq Lines,
             Cardinality(Starts(Lines')) <= Cardinality(Starts(Lines)),
             Cardinality(Starts(Lines')) \in Nat,
             Len(liveFile') \in Nat, Len(liveFile') <= Len(liveFile),
             nextSeq' \in Nat, lastHash' \in 0 .. MaxEntries, size' \in 0 .. made,
             lastHash' = NoHash => size' = 0,
             lastHash' # NoHash => EndsIn(Lines', lastHash') /\ Below(Lines', nextSeq')
      PROVE  LinkInv'
  <2>1. CountsTyped' BY <1>1, <1>2, <1>3, <1>6, EntryBounds DEF CountsTyped
  <2>2. Numbered' BY <1>1, <1>3, <1>5, <1>6 DEF Numbered
  <2>3. ChainGoesOn' BY <1>1, <1>3, <1>6 DEF ChainGoesOn, Working
  <2>4. StartsCounted'
    <3>1. /\ Cardinality(Starts(Lines') \ Unended') \in Nat
          /\ Cardinality(Starts(Lines') \ Unended') <= Cardinality(Starts(Lines'))
      BY <1>6, StartsFinite DEF ChainedLines
    <3> QED BY <1>1, <1>3, <1>6, <3>1 DEF StartsCounted
  <2> QED BY <1>6, <2>1, <2>2, <2>3, <2>4 DEF LinkInv
<1>7. CASE Recovered = <<>> /\ liveFile = <<>>
  <2>1. /\ nextSeq' = 0 /\ lastHash' = NoHash /\ size' = size
        /\ liveFile' = liveFile /\ rotated' = rotated
    BY <1>7 DEF Open
  <2>2. FilesTyped' /\ LinesInOrder' /\ Lines' = Lines
    BY <2>1, TableSteps, InvGives, FilesStay
  <2> QED BY <1>3, <1>5, <1>6, <2>1, <2>2, InvGives, EntryBounds
<1>8. CASE Recovered = <<>> /\ liveFile # <<>>
  <2>1. nextSeq' = 0 /\ lastHash' = NoHash /\ Rotate
    BY <1>8 DEF Open
  <2>2. /\ FilesTyped' /\ LinesInOrder' /\ ChainedLines(Lines')
        /\ Lines' \subseteq Lines /\ Len(liveFile') <= Len(liveFile) /\ Len(liveFile') \in Nat
        /\ size' \in {0, size}
        /\ Cardinality(Starts(Lines')) <= Cardinality(Starts(Lines))
        /\ Cardinality(Starts(Lines')) \in Nat
    BY <2>1, RotateTrims
  <2> QED BY <1>3, <1>6, <2>1, <2>2, EntryBounds
<1>9. CASE Recovered # <<>>
  <2>1. PICK l : l = Last(Recovered) OBVIOUS
  <2>2. /\ liveFile' = SubSeq(liveFile, 1, n) /\ rotated' = rotated
        /\ nextSeq' = l[1].seq + 1 /\ lastHash' = l[1].n /\ size' = Len(Recovered)
    BY <1>4, <1>9, <2>1 DEF Open, FollowingSeq
  <2>3. Len(Recovered) = n /\ n > 0 /\ l = liveFile[n] /\ n <= Len(liveFile)
    BY <1>4, <1>9, <2>1, InvGives DEF Last
  <2>4. Parses(l) /\ l \in LineSet BY <1>4, <2>3, InvGives
  <2>5. l[1] \in Entries /\ l[1].n \in 1 .. MaxEntries /\ l[1].seq \in Nat
    BY <2>4, LineHas DEF Entries
  <2>6. /\ FilesTyped' /\ LinesInOrder' /\ ChainedLines(Lines') /\ Lines' \subseteq Lines
        /\ Cardinality(Starts(Lines')) <= Cardinality(Starts(Lines))
        /\ Cardinality(Starts(Lines')) \in Nat
        /\ Len(liveFile') = n
        /\ l \in Lines' /\ AtEnd(l, Lines')
        /\ \A a \in Lines' : AtEnd(a, Lines') => a = l
    BY <2>2, <2>3, CutTrims
  <2>7. EndsIn(Lines', lastHash')
    BY <2>2, <2>6 DEF EndsIn, Number
  <2>8. Below(Lines', nextSeq')
    <3> SUFFICES ASSUME NEW a \in Lines', Parses(a),
                        \A line \in Lines' : Number(a) < Number(line) => ~Begins(line)
                 PROVE  a[1].seq < nextSeq'
      BY DEF Below
    <3>1. a \in LineSet /\ a[1].seq \in Nat /\ Number(a) \in Nat /\ Number(l) \in Nat
      BY <2>4, <2>6, InvGives, LineHas DEF Entries
    <3>2. CASE a = l BY <2>2, <2>5, <3>2
    <3>3. CASE a # l
      <4>1. Number(a) < Number(l)
        BY <2>6, <3>1, <3>3 DEF AtEnd, ChainedLines
      <4>2. Rising(Lines') BY <2>6 DEF ChainedLines
      <4>3. a[1].seq < l[1].seq
        BY <2>4, <2>6, <4>1, <4>2 DEF Rising
      <4> QED BY <2>2, <2>5, <3>1, <4>3
    <3> QED BY <3>2, <3>3
  <2>9. nextSeq' \in Nat BY <2>2, <2>5
  <2>10. lastHash' \in 0 .. MaxEntries /\ lastHash' # NoHash
    BY <2>2, <2>5, EntryBounds DEF NoHash
  <2>11. size' \in 0 .. made BY <1>3, <1>5, <2>2, <2>3
  <2> QED BY <1>5, <1>6, <2>3, <2>6, <2>7, <2>8, <2>9, <2>10, <2>11
<1> QED BY <1>7, <1>8, <1>9

\* A start that is refused leaves the files alone.
LEMMA RefusedLinks == ASSUME LinkInv, OpenRefused PROVE LinkInv'
<1>1. /\ trailMode = "down" /\ trailMode' = "memory"
      /\ UNCHANGED <<liveFile, rotated, nextSeq, lastHash, size, made, stops>>
  BY DEF OpenRefused
<1>2. FilesTyped' /\ LinesInOrder' /\ Lines' = Lines
  BY <1>1, TableSteps, InvGives, FilesStay
<1>3. CountsTyped /\ Numbered /\ ChainGoesOn /\ StartsCounted BY DEF LinkInv
<1>4. CountsTyped' BY <1>1, <1>3 DEF CountsTyped
<1>5. Numbered' BY <1>1, <1>2, <1>3 DEF Numbered, Landed
<1>6. ChainGoesOn' BY <1>1, <1>2, <1>3 DEF ChainGoesOn, Working
<1>7. StartsCounted'
  <2>1. Unended' = Unended BY <1>1 DEF Unended
  <2> QED BY <1>1, <1>2, <1>3, <2>1 DEF StartsCounted, Working
<1> QED BY <1>2, <1>4, <1>5, <1>6, <1>7, InvGives DEF LinkInv

\* Nothing happens.
LEMMA LinkStays == ASSUME LinkInv, UNCHANGED trailVars PROVE LinkInv'
<1>1. UNCHANGED <<liveFile, rotated, trailMode, nextSeq, lastHash, size, made, stops>>
  BY DEF trailVars
<1>2. FilesTyped' /\ LinesInOrder' /\ Lines' = Lines
  BY <1>1, TableSteps, InvGives, FilesStay
<1>3. CountsTyped /\ Numbered /\ ChainGoesOn /\ StartsCounted BY DEF LinkInv
<1>4. CountsTyped' BY <1>1, <1>3 DEF CountsTyped
<1>5. Numbered' BY <1>1, <1>2, <1>3 DEF Numbered, Landed
<1>6. ChainGoesOn'
  <2>1. Used' = Used /\ (Working' <=> Working) BY <1>1 DEF Used, Working
  <2> QED BY <1>1, <1>2, <1>3, <2>1 DEF ChainGoesOn
<1>7. StartsCounted'
  <2>1. Unended' = Unended BY <1>1 DEF Unended
  <2> QED BY <1>1, <1>2, <1>3, <2>1 DEF StartsCounted, Working
<1> QED BY <1>2, <1>4, <1>5, <1>6, <1>7, InvGives DEF LinkInv

\* Every step keeps it.
LEMMA LinkStep == LinkInv /\ [TrailNext]_trailVars => LinkInv'
<1> SUFFICES ASSUME LinkInv, [TrailNext]_trailVars PROVE LinkInv' OBVIOUS
<1>1. CASE BeginAppend BY <1>1, BeginAppendLinks
<1>2. CASE Stop BY <1>2, StopLinks
<1>3. CASE Open BY <1>3, OpenLinks
<1>4. CASE OpenRefused BY <1>4, RefusedLinks
<1>5. ASSUME NEW w \in {"line", "unended", "part", "nothing"}, WriteLine(w) PROVE LinkInv'
  <2>1. CASE w = "nothing" BY <1>5, <2>1, NothingWritten
  <2>2. CASE w \in {"line", "unended", "part"} BY <1>5, <2>2, NewLine, GluedLine
  <2> QED BY <1>5, <2>1, <2>2
<1>6. CASE UNCHANGED trailVars BY <1>6, LinkStays
<1> QED BY <1>1, <1>2, <1>3, <1>4, <1>5, <1>6 DEF TrailNext

\* It holds in every state.
LEMMA LinksKept == TrailSpec => []LinkInv
<1> QED BY LinkInit, LinkStep, PTL DEF TrailSpec

\* The chain is unbroken and its numbers rise across torn writes, failed ones, rotations,
\* stops and recoveries.
THEOREM TrailKept == TrailSpec => []TrailInv
<1> QED BY LinksKept, LinkGivesTrail, PTL

\* A restart cuts off nothing that stands before the first damaged line.
THEOREM RestartsKeep == TrailSpec => RestartKeeps
<1> DEFINE Keeps == Open \/ OpenRefused =>
                      \A i \in DOMAIN liveFile :
                          (\A k \in 1 .. i : Parses(liveFile[k])) => liveFile[i] \in Lines'
<1>1. ASSUME LinkInv, [TrailNext]_trailVars PROVE [Keeps]_trailVars
  <2> SUFFICES ASSUME Open \/ OpenRefused, NEW i \in DOMAIN liveFile,
                      \A k \in 1 .. i : Parses(liveFile[k])
               PROVE  liveFile[i] \in Lines'
    OBVIOUS
  <2>0. /\ liveFile \in Seq(LineSet) /\ Len(liveFile) \in Nat
        /\ DOMAIN liveFile = 1 .. Len(liveFile) /\ i \in 1 .. Len(liveFile)
    BY <1>1, InvGives
  <2>1. ASSUME Open PROVE liveFile[i] \in Lines'
    <3>1. PICK n \in 0 .. Len(liveFile) :
            /\ Recovered = SubSeq(liveFile, 1, n)
            /\ n < Len(liveFile) => ~Parses(liveFile[n + 1])
      BY <1>1, RecoveredIs
    <3>2. i <= n
      <4>1. ASSUME ~(i <= n) PROVE FALSE
        <5>1. n < Len(liveFile) /\ n + 1 \in 1 .. i BY <2>0, <4>1
        <5> QED BY <3>1, <5>1
      <4> QED BY <4>1
    <3>3. Recovered # <<>> /\ SubSeq(liveFile, 1, n)[i] = liveFile[i]
          /\ i \in DOMAIN SubSeq(liveFile, 1, n)
      BY <2>0, <3>1, <3>2
    <3>4. liveFile' = SubSeq(liveFile, 1, n)
      BY <2>1, <3>1, <3>3 DEF Open
    <3>5. liveFile[i] \in Range(liveFile')
      BY <3>3, <3>4 DEF Range
    <3>6. 0 \in 0 .. KeptFiles /\ Kept(0)' = liveFile' BY EntryBounds DEF Kept
    <3> QED BY <3>5, <3>6 DEF Lines
  <2>2. ASSUME OpenRefused PROVE liveFile[i] \in Lines'
    <3>1. liveFile' = liveFile BY <2>2 DEF OpenRefused
    <3>2. liveFile[i] \in Range(liveFile') BY <3>1 DEF Range
    <3>3. 0 \in 0 .. KeptFiles /\ Kept(0)' = liveFile' BY EntryBounds DEF Kept
    <3> QED BY <3>2, <3>3 DEF Lines
  <2> QED BY <2>1, <2>2
<1> QED BY <1>1, LinksKept, PTL DEF TrailSpec, RestartKeeps
=============================================================================
