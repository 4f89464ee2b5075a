------------------------ MODULE PanelAuthorityProofs ------------------------
(***************************************************************************)
(* Theorems about PanelAuthority, for every set of handler threads, every  *)
(* idle budget and every bound on time and undelivered events.             *)
(***************************************************************************)
EXTENDS PanelAuthority, TLAPS

-----------------------------------------------------------------------------
(* The machine's operators keep its type and decide known actions. *)

Results == [m : Machines, acts : Seq(Acts)]

\* Every list of at most one known action is a list of actions.
LEMMA ActLists ==
    /\ <<>> \in Seq(Acts)
    /\ \A a \in Acts : <<a>> \in Seq(Acts)
  OBVIOUS

\* A decision is the machine after it and the actions decided.
LEMMA ResultType ==
    ASSUME NEW m \in Machines, NEW acts \in Seq(Acts)
    PROVE  /\ Result(m, acts) \in Results
           /\ Result(m, acts).m = m
           /\ Result(m, acts).acts = acts
  BY DEF Result, Results

\* The actions of the fixed lists the machine decides.
LEMMA KnownActs ==
    /\ <<"blank">> \in Seq(Acts)
    /\ <<"lock">> \in Seq(Acts)
    /\ <<"unblank">> \in Seq(Acts)
  BY ActLists DEF Acts

\* device_state.rs, request_blank: either a lock or a blank is decided.
LEMMA RequestBlankType ==
    ASSUME NEW m \in Machines
    PROVE  RequestBlank(m) \in Results
  <1>1. /\ [m EXCEPT !.asked = TRUE] \in Machines
        /\ [m EXCEPT !.pending = "armed"] \in Machines
    BY DEF Machines
  <1> QED BY <1>1, KnownActs, ResultType DEF RequestBlank

\* note_input keeps the machine's type.
LEMMA NoteInputType ==
    ASSUME NEW m \in Machines, NEW wakes \in BOOLEAN
    PROVE  NoteInput(m, wakes) \in Results
  <1> DEFINE n == [m EXCEPT !.idle = NoIdle, !.asked = FALSE, !.pending = "none"]
             acts == IF ~m.panelOn /\ wakes THEN <<"unblank">> ELSE <<>>
  <1>1. n \in Machines
    BY DEF Machines
  <1>2. acts \in Seq(Acts)
    BY KnownActs, ActLists
  <1>3. NoteInput(m, wakes) = Result(n, acts)
    BY DEF NoteInput
  <1> QED BY <1>1, <1>2, <1>3, ResultType

\* request_screen keeps the machine's type.
LEMMA RequestScreenType ==
    ASSUME NEW m \in Machines, NEW on \in BOOLEAN
    PROVE  RequestScreen(m, on) \in Results
  <1>1. [m EXCEPT !.asked = FALSE] \in Machines
    BY DEF Machines
  <1> QED
    BY <1>1, KnownActs, ActLists, ResultType, RequestBlankType
    DEF RequestScreen

\* set_panel and set_session_locked keep the machine's type.
LEMMA ReportsType ==
    ASSUME NEW m \in Machines, NEW v \in BOOLEAN
    PROVE  SetPanel(m, v) \in Machines /\ SetSessionLocked(m, v) \in Machines
  <1> DEFINE p == IF v THEN m.pending ELSE "none"
             i == IF v THEN NoIdle ELSE m.idle
  <1>1. /\ [m EXCEPT !.locked = TRUE] \in Machines
        /\ [m EXCEPT !.locked = FALSE, !.asked = FALSE, !.pending = "none"]
              \in Machines
    BY DEF Machines
  <1>2. SetSessionLocked(m, v) \in Machines
    BY <1>1 DEF SetSessionLocked
  <1>3. p \in {"none", "armed", "due"} /\ i \in 0..MaxIdle \cup {NoIdle}
    BY DEF Machines
  <1>4. [m EXCEPT !.panelOn = v, !.asked = FALSE, !.pending = p, !.idle = i]
           \in Machines
    BY <1>3 DEF Machines
  <1>5. SetPanel(m, v) \in {m, [m EXCEPT !.panelOn = v, !.asked = FALSE,
                                         !.pending = p, !.idle = i]}
    BY DEF SetPanel, Machines
  <1> QED BY <1>2, <1>4, <1>5

\* A press keeps the machine's type and decides nothing.
LEMMA PowerDownType ==
    ASSUME NEW m \in Machines
    PROVE  PowerDown(m) \in Results
  <1> DEFINE d == [m EXCEPT !.latch = IF m.panelOn THEN "lit" ELSE "dark",
                            !.press = "down"]
  <1>1. d \in Machines
    BY DEF Machines
  <1> QED BY <1>1, NoteInputType DEF PowerDown

\* A release keeps the machine's type.
LEMMA PowerUpType ==
    ASSUME NEW m \in Machines, NEW n \in PowerUp(m)
    PROVE  n \in Machines
  <1> DEFINE up == [m EXCEPT !.press = "up"]
             t == IF up.taps = 0 THEN 1 ELSE 2
  <1>1. up \in Machines /\ t \in 0..2 /\ 0 \in 0..2
    BY DEF Machines
  <1>2. /\ [up EXCEPT !.taps = 0] \in Machines
        /\ [up EXCEPT !.taps = t] \in Machines
        /\ [up EXCEPT !.taps = 0, !.latch = "none"] \in Machines
    BY <1>1 DEF Machines
  <1> QED BY <1>2 DEF PowerUp

\* A recognised tap keeps the machine's type.
LEMMA PowerTapType ==
    ASSUME NEW m \in Machines
    PROVE  PowerTap(m) \in Results
  <1> DEFINE done == [m EXCEPT !.taps = 0, !.latch = "none"]
  <1>1. done \in Machines
    <2>1. 0 \in 0..2
      OBVIOUS
    <2> QED BY <2>1 DEF Machines
  <1>2. [done EXCEPT !.asked = FALSE] \in Machines
    BY <1>1 DEF Machines
  <1> QED BY <1>1, <1>2, KnownActs, ResultType, RequestBlankType DEF PowerTap

\* Whatever the recogniser announces keeps the machine's type.
LEMMA GesturesType ==
    ASSUME NEW m \in Machines, NEW g \in Gestures(m)
    PROVE  g \in Results
  <1>1. /\ [m EXCEPT !.press = "held", !.latch = "none"] \in Machines
        /\ [m EXCEPT !.taps = 0] \in Machines
    <2>1. 0 \in 0..2
      OBVIOUS
    <2> QED BY <2>1 DEF Machines
  <1>2. \/ g = Result(m, <<>>)
        \/ g = Result([m EXCEPT !.press = "held", !.latch = "none"], <<>>)
        \/ g = PowerTap(m)
        \/ g = Result([m EXCEPT !.taps = 0], <<>>)
    BY DEF Gestures
  <1>3. <<>> \in Seq(Acts)
    BY ActLists
  <1>4. /\ Result(m, <<>>) \in Results
        /\ Result([m EXCEPT !.press = "held", !.latch = "none"], <<>>) \in Results
        /\ Result([m EXCEPT !.taps = 0], <<>>) \in Results
    BY <1>1, <1>3, ResultType
  <1>5. PowerTap(m) \in Results
    BY PowerTapType
  <1> QED BY <1>2, <1>4, <1>5

\* The rules of a tick keep the machine's type.
LEMMA TickRulesType ==
    ASSUME NEW m \in Machines, NEW budget
    PROVE  TickRules(m, budget) \in Results
  <1>1. [m EXCEPT !.pending = "none", !.asked = TRUE] \in Machines
    BY DEF Machines
  <1> QED
    BY <1>1, KnownActs, ActLists, ResultType, RequestBlankType DEF TickRules

-----------------------------------------------------------------------------
(* Type correctness. *)

\* Storing a well-typed decision keeps the type of what a decision touches.
LEMMA DecideType ==
    ASSUME PanelTypeOK, NEW w \in Workers, NEW r \in Results, Decide(w, r)
    PROVE  /\ machine' \in Machines
           /\ todo' \in [Workers -> Seq(Acts)]
           /\ doing' \in [Workers -> {"rest", "off", "dark", "on"}]
           /\ lit' \in BOOLEAN
  BY DEF PanelTypeOK, Decide, Results

\* Starting or finishing a list of actions keeps its type.
LEMMA DropType ==
    ASSUME PanelTypeOK, NEW w \in Workers, todo[w] # <<>>, Drop(w)
    PROVE  todo' \in [Workers -> Seq(Acts)]
  <1>1. Tail(todo[w]) \in Seq(Acts)
    BY DEF PanelTypeOK
  <1> QED BY <1>1 DEF PanelTypeOK, Drop

\* Asking for the lock keeps the machine's type.
LEMMA RequestLockType ==
    ASSUME PanelTypeOK, RequestLock
    PROVE  machine' \in Machines
  <1>1. [machine EXCEPT !.locked = TRUE] \in Machines
    BY DEF PanelTypeOK, Machines
  <1> QED BY <1>1 DEF RequestLock, PanelTypeOK

\* A tick keeps the types.
LEMMA TickType ==
    ASSUME PanelTypeOK, Tick
    PROVE  PanelTypeOK'
  <1>1. PICK g \in Gestures(machine) : \E budget \in Budgets(g.m) :
          LET r == TickRules(g.m, budget)
          IN  Decide("clock", Result(r.m, g.acts \o r.acts))
    BY DEF Tick
  <1>2. PICK budget \in Budgets(g.m) :
          LET r == TickRules(g.m, budget)
          IN  Decide("clock", Result(r.m, g.acts \o r.acts))
    BY <1>1
  <1> DEFINE r == TickRules(g.m, budget)
  <1>3. g \in Results
    BY GesturesType DEF PanelTypeOK
  <1>4. r \in Results
    BY <1>3, TickRulesType DEF Results
  <1> HIDE DEF r
  <1>5. Result(r.m, g.acts \o r.acts) \in Results
    <2>1. r.m \in Machines /\ g.acts \in Seq(Acts) /\ r.acts \in Seq(Acts)
      BY <1>3, <1>4 DEF Results
    <2>2. g.acts \o r.acts \in Seq(Acts)
      BY <2>1
    <2> QED BY <2>1, <2>2, ResultType
  <1>6. "clock" \in Workers
    BY DEF Workers
  <1>7. Decide("clock", Result(r.m, g.acts \o r.acts))
    BY <1>2 DEF r
  <1> QED BY <1>5, <1>6, <1>7, DecideType DEF PanelTypeOK, Tick, logind, comp

\* A request of a handler keeps the types.
LEMMA HandlerType ==
    ASSUME PanelTypeOK, NEW h \in Handlers, PanelHandlerStep(h)
    PROVE  PanelTypeOK'
  <1>1. h \in Workers /\ machine \in Machines /\ lit \in BOOLEAN
    BY DEF Workers, PanelTypeOK
  <1>2. UNCHANGED <<logind, comp>>
    BY DEF PanelHandlerStep, Input, Screen, ButtonDown, ButtonUp, ReportPanel
  <1>3. \E r \in Results : Decide(h, r)
    <2>1. ASSUME NEW b \in BOOLEAN, Input(h, b)
          PROVE  \E r \in Results : Decide(h, r)
      BY <1>1, <2>1, NoteInputType DEF Input
    <2>2. ASSUME NEW b \in BOOLEAN, Screen(h, b)
          PROVE  \E r \in Results : Decide(h, r)
      BY <1>1, <2>2, RequestScreenType DEF Screen
    <2>3. CASE ButtonDown(h)
      BY <1>1, <2>3, PowerDownType DEF ButtonDown
    <2>4. CASE ButtonUp(h)
      BY <1>1, <2>4, PowerUpType, ResultType, ActLists DEF ButtonUp
    <2>5. CASE ReportPanel(h)
      BY <1>1, <2>5, ReportsType, ResultType, ActLists DEF ReportPanel
    <2> QED BY <2>1, <2>2, <2>3, <2>4, <2>5 DEF PanelHandlerStep
  <1> QED BY <1>1, <1>2, <1>3, DecideType DEF PanelTypeOK, logind, comp

\* An event of the compositor keeps the types.
LEMMA IdleWatcherType ==
    ASSUME PanelTypeOK, IdleWatcher
    PROVE  PanelTypeOK'
  <1>1. machine \in Machines /\ "idle" \in Workers
    BY DEF Workers, PanelTypeOK
  <1> DEFINE n == [machine EXCEPT !.idle = IF @ = NoIdle THEN 0 ELSE @]
  <1>2. n \in Machines
    <2> DEFINE i == IF machine.idle = NoIdle THEN 0 ELSE machine.idle
    <2>1. i \in 0..MaxIdle \cup {NoIdle}
      BY <1>1, PanelConstants DEF Machines
    <2>2. [machine EXCEPT !.idle = i] \in Machines
      BY <1>1, <2>1 DEF Machines
    <2> QED BY <2>2
  <1>3. NoteInput(machine, FALSE) \in Results /\ Result(n, <<>>) \in Results
    BY <1>1, <1>2, NoteInputType, ResultType, ActLists
  <1>4. \E r \in Results : Decide("idle", r)
    BY <1>3 DEF IdleWatcher
  <1>5. idleNews' \in Seq({"idled", "resumed"})
    BY DEF IdleWatcher, PanelTypeOK
  <1> QED BY <1>1, <1>4, <1>5, DecideType DEF IdleWatcher, PanelTypeOK, logind

\* An edge of logind's hint keeps the types.
LEMMA HintWatcherType ==
    ASSUME PanelTypeOK, HintWatcher
    PROVE  PanelTypeOK'
  <1>1. machine \in Machines /\ hint \in BOOLEAN
    BY DEF PanelTypeOK
  <1>2. UNCHANGED <<panel, hint, overtaken, comp>>
    BY DEF HintWatcher
  <1>3. CASE watch = "read" /\ watch' = "attach" /\ UNCHANGED hintNews
               /\ \/ last' = hint /\ machine' = SetSessionLocked(machine, hint)
                  \/ last' = FALSE /\ UNCHANGED machine
    BY <1>1, <1>2, <1>3, ReportsType DEF PanelTypeOK, panel, comp
  <1>4. CASE watch' = "on" /\ UNCHANGED <<machine, last, hintNews>>
    BY <1>2, <1>4 DEF PanelTypeOK, panel, comp
  <1>5. CASE /\ hintNews # <<>>
             /\ hintNews' = Tail(hintNews)
             /\ last' = Head(hintNews)
             /\ machine' = IF Head(hintNews) # last
                             THEN SetSessionLocked(machine, Head(hintNews))
                             ELSE machine
             /\ UNCHANGED watch
    <2>1. Head(hintNews) \in BOOLEAN /\ Tail(hintNews) \in Seq(BOOLEAN)
      BY <1>5 DEF PanelTypeOK
    <2>2. machine' \in Machines
      BY <1>1, <1>5, <2>1, ReportsType
    <2> QED BY <1>2, <1>5, <2>1, <2>2 DEF PanelTypeOK, panel, comp
  <1> QED BY <1>3, <1>4, <1>5 DEF HintWatcher

\* Carrying an action out keeps the types.
LEMMA ExecuteType ==
    ASSUME PanelTypeOK, NEW w \in Workers, Execute(w)
    PROVE  PanelTypeOK'
  <1>1. CASE ExecuteLock(w)
    BY <1>1, DropType, RequestLockType
    DEF ExecuteLock, Begin, PanelTypeOK, logind, comp
  <1>2. CASE ExecuteBlank(w)
    <2>1. machine' \in Machines
      BY <1>2, RequestLockType DEF ExecuteBlank, PanelTypeOK
    <2>2. doing' \in [Workers -> {"rest", "off", "dark", "on"}]
      BY <1>2 DEF ExecuteBlank, Reach, PanelTypeOK
    <2>3. todo' \in [Workers -> Seq(Acts)]
      BY <1>2, DropType DEF ExecuteBlank, Begin
    <2> QED BY <1>2, <2>1, <2>2, <2>3 DEF ExecuteBlank, PanelTypeOK, logind, comp
  <1>3. CASE ExecuteUnblank(w)
    <2>1. doing' \in [Workers -> {"rest", "off", "dark", "on"}] /\ lit' \in BOOLEAN
      BY <1>3 DEF ExecuteUnblank, Reach, PanelTypeOK
    <2>2. todo' \in [Workers -> Seq(Acts)]
      BY <1>3, DropType DEF ExecuteUnblank, Begin
    <2>3. overtaken' \in BOOLEAN
      BY <1>3, Zenon DEF ExecuteUnblank, PanelTypeOK
    <2> QED BY <1>3, <2>1, <2>2, <2>3 DEF ExecuteUnblank, PanelTypeOK, comp
  <1>4. CASE PanelOff(w)
    BY <1>4 DEF PanelOff, Reach, PanelTypeOK, logind, comp
  <1>5. CASE Report(w)
    <2>1. machine' \in Machines
      BY <1>5, ReportsType DEF Report, PanelTypeOK
    <2> QED BY <1>5, <2>1 DEF Report, Reach, PanelTypeOK, logind, comp
  <1> QED BY <1>1, <1>2, <1>3, <1>4, <1>5 DEF Execute

\* Time, the compositor and logind keep the types.
LEMMA OutsideType ==
    ASSUME PanelTypeOK, IdleTimePasses \/ AckBudgetPasses \/ LockConfirmed \/ Environment
    PROVE  PanelTypeOK'
  <1>1. machine \in Machines
    BY DEF PanelTypeOK
  <1>2. CASE IdleTimePasses
    <2> DEFINE i == machine.idle + 1
    <2>1. i \in 0..MaxIdle
      BY <1>1, <1>2, PanelConstants DEF IdleTimePasses, Machines
    <2>2. [machine EXCEPT !.idle = i] \in Machines
      BY <1>1, <2>1 DEF Machines
    <2> QED BY <1>2, <2>2 DEF IdleTimePasses, PanelTypeOK, panel, logind, comp
  <1>3. CASE AckBudgetPasses \/ LockConfirmed
    <2>1. machine' \in Machines
      BY <1>1, <1>3 DEF AckBudgetPasses, LockConfirmed, Machines
    <2> QED
      BY <1>3, <2>1
      DEF AckBudgetPasses, LockConfirmed, PanelTypeOK, panel, logind, comp
  <1>4. CASE SessionLocks \/ SessionUnlocks
    <2>1. PICK value \in BOOLEAN : HintChanges(value)
      BY <1>4 DEF SessionLocks, SessionUnlocks
    <2>2. Append(hintNews, value) \in Seq(BOOLEAN)
      BY <2>1 DEF PanelTypeOK
    <2>3. overtaken' \in BOOLEAN
      BY <1>4, Zenon DEF SessionLocks, SessionUnlocks, PanelTypeOK
    <2> QED BY <2>1, <2>2, <2>3 DEF HintChanges, PanelTypeOK, panel, comp
  <1>5. CASE Touch \/ GoesQuiet
    <2>1. /\ Append(idleNews, "resumed") \in Seq({"idled", "resumed"})
          /\ Append(idleNews, "idled") \in Seq({"idled", "resumed"})
      BY DEF PanelTypeOK
    <2> QED BY <1>5, <2>1 DEF Touch, GoesQuiet, PanelTypeOK, panel, logind
  <1>6. CASE MonitorDies
    <2>1. /\ watch' = "dead" /\ last' = FALSE /\ hintNews' = <<>>
          /\ UNCHANGED <<machine, todo, doing, lit, hint, overtaken, quiet, idleNews>>
      BY <1>6 DEF MonitorDies, panel, comp
    <2>2. last' \in BOOLEAN
      BY <2>1, Zenon
    <2>3. hintNews' \in Seq(BOOLEAN)
      BY <2>1
    <2>4. watch' \in {"read", "attach", "on", "dead"}
      BY <2>1
    <2> QED BY <2>1, <2>2, <2>3, <2>4, Zenon DEF PanelTypeOK
  <1> QED BY <1>2, <1>3, <1>4, <1>5, <1>6 DEF Environment

\* Every action of the system keeps the types.
LEMMA StepType ==
    ASSUME PanelTypeOK, [PanelNext]_panelVars
    PROVE  PanelTypeOK'
  <1>1. CASE UNCHANGED panelVars
    BY <1>1 DEF PanelTypeOK, panelVars, panel, logind, comp
  <1> QED
    BY <1>1, TickType, HandlerType, IdleWatcherType, HintWatcherType,
       ExecuteType, OutsideType
    DEF PanelNext

\* The system starts well typed.
LEMMA TypeAtStart ==
    ASSUME PanelInit
    PROVE  PanelTypeOK
  <1>1. 0 \in 0..2
    OBVIOUS
  <1>2. machine \in Machines
    BY <1>1 DEF PanelInit, Machines
  <1>3. <<>> \in Seq(BOOLEAN) /\ <<>> \in Seq({"idled", "resumed"})
    OBVIOUS
  <1>4. todo \in [Workers -> Seq(Acts)]
    BY ActLists DEF PanelInit
  <1> QED BY <1>2, <1>3, <1>4 DEF PanelInit, PanelTypeOK

\* The machine, the threads and what surrounds them keep their types, for any
\* number of handlers and any budgets.
THEOREM TypeCorrect == PanelSpec => []PanelTypeOK
  BY TypeAtStart, StepType, PTL DEF PanelSpec

-----------------------------------------------------------------------------
(* A dark panel is a locked session, or one whose unlock overtook the dark. *)

\* DarkIsLocked is not inductive by itself: the executor that turns the panel
\* off runs after logind answered, so the answer has to survive until then or
\* be overtaken by an unlock.
Commanded == \A w \in Workers : doing[w] = "off" => hint \/ overtaken

DarkInv == PanelTypeOK /\ DarkIsLocked /\ Commanded

\* Deciding darkens nothing and starts no executor.
LEMMA DecideDark ==
    ASSUME DarkInv, UNCHANGED <<doing, lit, hint, overtaken>>
    PROVE  DarkIsLocked' /\ Commanded'
  BY DEF DarkInv, DarkIsLocked, Commanded

\* Only the action that has asked logind starts the executor that darkens.
LEMMA ExecuteDark ==
    ASSUME DarkInv, NEW w \in Workers, Execute(w)
    PROVE  DarkIsLocked' /\ Commanded'
  <1>1. hint' = hint /\ (overtaken' = overtaken \/ ExecuteUnblank(w))
    BY DEF Execute, ExecuteLock, ExecuteBlank, ExecuteUnblank, PanelOff, Report,
           logind
  <1>2. CASE ExecuteLock(w)
    BY <1>2, DecideDark DEF ExecuteLock, logind
  <1>3. CASE ExecuteBlank(w)
    <2>1. CASE MayDarken
      BY <1>3, <2>1
      DEF ExecuteBlank, logind, Reach, MayDarken, DarkInv, DarkIsLocked, Commanded,
          PanelTypeOK
    <2>2. CASE ~MayDarken
      BY <1>3, <2>2, DecideDark DEF ExecuteBlank, logind
    <2> QED BY <2>1, <2>2
  <1>4. CASE ExecuteUnblank(w)
    <2>1. CASE UNCHANGED <<doing, lit, overtaken>>
      BY <1>1, <2>1, DecideDark
    <2>2. CASE /\ Reach(w, "on")
               /\ lit' = TRUE
               /\ overtaken' = (overtaken /\ \E v \in Workers : doing[v] = "off")
      <3>1. \A v \in Workers : doing'[v] = "off" => doing[v] = "off"
        BY <2>2 DEF Reach, DarkInv, PanelTypeOK
      <3>2. Commanded'
        BY <1>1, <2>2, <3>1 DEF Commanded, DarkInv
      <3> QED BY <2>2, <3>2 DEF DarkIsLocked
    <2> QED BY <1>4, <2>1, <2>2 DEF ExecuteUnblank
  <1>5. CASE PanelOff(w)
    <2>1. hint \/ overtaken
      BY <1>5 DEF PanelOff, DarkInv, Commanded
    <2> QED
      BY <1>5, <2>1
      DEF PanelOff, Reach, logind, DarkInv, DarkIsLocked, Commanded, PanelTypeOK
  <1>6. CASE Report(w)
    BY <1>6
    DEF Report, Reach, logind, DarkInv, DarkIsLocked, Commanded, PanelTypeOK
  <1> QED BY <1>2, <1>3, <1>4, <1>5, <1>6 DEF Execute

\* Every step keeps the darkness a locked session's or an overtaken one's.
LEMMA StepDark ==
    ASSUME DarkInv, [PanelNext]_panelVars
    PROVE  DarkInv'
  <1>1. PanelTypeOK'
    BY StepType DEF DarkInv
  <1>2. CASE UNCHANGED <<doing, lit, hint, overtaken>>
    BY <1>1, <1>2, DecideDark DEF DarkInv
  <1>3. CASE UNCHANGED panelVars
    BY <1>2, <1>3 DEF panelVars, panel, logind
  <1>4. CASE Tick \/ IdleWatcher \/ HintWatcher \/ LockConfirmed
    BY <1>2, <1>4
    DEF Tick, IdleWatcher, HintWatcher, LockConfirmed, Decide, panel, logind
  <1>5. CASE \E h \in Handlers : PanelHandlerStep(h)
    BY <1>2, <1>5
    DEF PanelHandlerStep, Input, Screen, ButtonDown, ButtonUp, ReportPanel, Decide,
        logind
  <1>6. CASE \E w \in Workers : Execute(w)
    BY <1>1, <1>6, ExecuteDark DEF DarkInv
  <1>7. CASE IdleTimePasses \/ AckBudgetPasses \/ Touch \/ GoesQuiet \/ MonitorDies
    BY <1>2, <1>7
    DEF IdleTimePasses, AckBudgetPasses, Touch, GoesQuiet, MonitorDies, panel,
        logind
  <1>8. CASE SessionLocks
    BY <1>1, <1>8
    DEF SessionLocks, HintChanges, DarkInv, DarkIsLocked, Commanded
  <1>9. CASE SessionUnlocks
    <2>1. UNCHANGED <<doing, lit>>
      BY <1>9 DEF SessionUnlocks, HintChanges, panel
    <2>2. overtaken' = (~lit \/ \E w \in Workers : doing[w] = "off")
      BY <1>9 DEF SessionUnlocks
    <2>3. DarkIsLocked'
      BY <2>1, <2>2 DEF DarkIsLocked
    <2>4. Commanded'
      BY <2>1, <2>2 DEF Commanded
    <2> QED BY <1>1, <2>3, <2>4 DEF DarkInv
  <1> QED
    BY <1>3, <1>4, <1>5, <1>6, <1>7, <1>8, <1>9 DEF PanelNext, Environment

\* server.rs, execute: every path to a dark panel asks logind at the actuator,
\* so a dark panel hides a session that is locked, or one that was unlocked
\* after that answer, whatever threads, unlocks, faults of the watcher or stale
\* beliefs of the machine there are.
THEOREM DarkSafe == PanelSpec => []DarkIsLocked
  <1>1. PanelInit => DarkInv
    <2>1. PanelInit => PanelTypeOK
      BY TypeAtStart
    <2> QED BY <2>1 DEF PanelInit, DarkInv, DarkIsLocked, Commanded
  <1>2. DarkInv /\ [PanelNext]_panelVars => DarkInv'
    BY StepDark
  <1>3. DarkInv => DarkIsLocked
    BY DEF DarkInv
  <1> QED BY <1>1, <1>2, <1>3, PTL DEF PanelSpec

\* Types and darkness together: whatever the threads and watchers of sessiond do, a dark
\* panel hides a locked session, or one whose unlock overtook the darkness.
THEOREM PanelSafe == PanelSpec => []PanelInv
BY TypeCorrect, DarkSafe, PTL DEF PanelInv

-----------------------------------------------------------------------------
(* A press that began on a dark panel. *)

\* The rules of a tick, and every other operator but the power button's, leave
\* the latch alone.
LEMMA LatchKept ==
    ASSUME NEW m \in Machines, NEW b \in BOOLEAN, NEW budget
    PROVE  /\ RequestBlank(m).m.latch = m.latch
           /\ TickRules(m, budget).m.latch = m.latch
           /\ NoteInput(m, b).m.latch = m.latch
           /\ RequestScreen(m, b).m.latch = m.latch
           /\ SetPanel(m, b).latch = m.latch
           /\ SetSessionLocked(m, b).latch = m.latch
  <1>1. RequestBlank(m).m.latch = m.latch
    BY DEF RequestBlank, Result, Machines
  <1>2. TickRules(m, budget).m.latch = m.latch
    BY <1>1 DEF TickRules, Result, Machines
  <1>3. NoteInput(m, b).m.latch = m.latch
    BY DEF NoteInput, Result, Machines
  <1>4. RequestScreen(m, b).m.latch = m.latch
    BY <1>1 DEF RequestScreen, Result, Machines
  <1>5. SetPanel(m, b).latch = m.latch /\ SetSessionLocked(m, b).latch = m.latch
    BY DEF SetPanel, SetSessionLocked, Machines
  <1> QED BY <1>1, <1>2, <1>3, <1>4, <1>5

\* With the button released, only the tick that recognises its tap lets go of
\* the latch, and it decides the wake before anything else.
LEMMA TickWakes ==
    ASSUME PanelTypeOK, Tick,
           machine.latch = "dark", machine.press = "up", machine'.latch = "none"
    PROVE  todo'["clock"] # <<>> /\ Head(todo'["clock"]) = "unblank"
  <1>1. machine \in Machines /\ "clock" \in Workers
    BY DEF PanelTypeOK, Workers
  <1>2. PICK g \in Gestures(machine) : \E budget \in Budgets(g.m) :
          LET r == TickRules(g.m, budget)
          IN  Decide("clock", Result(r.m, g.acts \o r.acts))
    BY DEF Tick
  <1>3. PICK budget \in Budgets(g.m) :
          LET r == TickRules(g.m, budget)
          IN  Decide("clock", Result(r.m, g.acts \o r.acts))
    BY <1>2
  <1> DEFINE r == TickRules(g.m, budget)
  <1>4. g \in Results
    BY <1>1, GesturesType
  <1>5. r \in Results /\ r.m.latch = g.m.latch
    BY <1>4, TickRulesType, LatchKept DEF Results
  <1> HIDE DEF r
  <1>6. machine' = r.m /\ todo'["clock"] = g.acts \o r.acts
    BY <1>1, <1>3 DEF r, Decide, Result, PanelTypeOK
  <1>7. g = PowerTap(machine)
    <2>1. g.m.latch = "none"
      BY <1>5, <1>6
    <2>2. Result(machine, <<>>).m.latch = "dark"
      BY DEF Result
    <2>3. Result([machine EXCEPT !.taps = 0], <<>>).m.latch = "dark"
      BY <1>1 DEF Result, Machines
    <2> QED BY <2>1, <2>2, <2>3 DEF Gestures
  <1>8. g.acts = <<"unblank">>
    BY <1>7 DEF PowerTap, TapBeganDark, Result
  <1>9. r.acts \in Seq(Acts)
    BY <1>5 DEF Results
  <1> QED BY <1>6, <1>8, <1>9

\* No other action lets go of the latch of a released button.
LEMMA OthersKeepLatch ==
    ASSUME PanelTypeOK, [PanelNext]_panelVars, ~Tick,
           machine.latch = "dark", machine.press = "up"
    PROVE  machine'.latch # "none"
  <1>1. machine \in Machines /\ lit \in BOOLEAN /\ hint \in BOOLEAN
    BY DEF PanelTypeOK
  <1>2. CASE UNCHANGED machine
    BY <1>2
  <1>3. CASE IdleWatcher
    <2>1. CASE Head(idleNews) = "resumed"
      BY <1>1, <1>3, <2>1, LatchKept DEF IdleWatcher, Decide
    <2>2. CASE Head(idleNews) # "resumed"
      <3>1. machine' = [machine EXCEPT !.idle = IF @ = NoIdle THEN 0 ELSE @]
        BY <1>3, <2>2 DEF IdleWatcher, Decide, Result
      <3> QED BY <1>1, <3>1 DEF Machines
    <2> QED BY <2>1, <2>2
  <1>4. CASE HintWatcher
    <2>1. CASE hintNews # <<>> /\ machine' = SetSessionLocked(machine, Head(hintNews))
      <3>1. Head(hintNews) \in BOOLEAN
        BY <2>1 DEF PanelTypeOK
      <3> QED BY <1>1, <2>1, <3>1, LatchKept
    <2>2. CASE machine' = SetSessionLocked(machine, hint)
      BY <1>1, <2>2, LatchKept
    <2> QED BY <1>2, <1>4, <2>1, <2>2 DEF HintWatcher
  <1>5. CASE LockConfirmed \/ IdleTimePasses \/ AckBudgetPasses
    BY <1>1, <1>5 DEF LockConfirmed, IdleTimePasses, AckBudgetPasses, Machines
  <1>6. ASSUME NEW h \in Handlers, PanelHandlerStep(h)
        PROVE  machine'.latch # "none"
    <2>1. ASSUME NEW b \in BOOLEAN, Input(h, b) \/ Screen(h, b)
          PROVE  machine'.latch # "none"
      BY <1>1, <2>1, LatchKept DEF Input, Screen, Decide
    <2>2. CASE ButtonDown(h)
      <3> DEFINE d == [machine EXCEPT
                         !.latch = IF machine.panelOn THEN "lit" ELSE "dark",
                         !.press = "down"]
      <3>1. d \in Machines /\ d.latch # "none"
        BY <1>1 DEF Machines
      <3> HIDE DEF d
      <3>2. machine' = NoteInput(d, FALSE).m
        BY <2>2 DEF ButtonDown, PowerDown, Decide, d
      <3> QED BY <3>1, <3>2, LatchKept
    <2>3. CASE ButtonUp(h)
      BY <2>3 DEF ButtonUp
    <2>4. CASE ReportPanel(h)
      BY <1>1, <2>4, LatchKept DEF ReportPanel, Decide, Result
    <2> QED BY <1>6, <2>1, <2>2, <2>3, <2>4 DEF PanelHandlerStep
  <1>7. ASSUME NEW w \in Workers, Execute(w)
        PROVE  machine'.latch # "none"
    <2>1. CASE RequestLock
      <3>1. [machine EXCEPT !.locked = TRUE].latch = "dark"
        BY <1>1 DEF Machines
      <3> QED BY <2>1, <3>1 DEF RequestLock
    <2>2. CASE Report(w)
      BY <1>1, <2>2, LatchKept DEF Report
    <2> QED
      BY <1>2, <1>7, <2>1, <2>2
      DEF Execute, ExecuteLock, ExecuteBlank, ExecuteUnblank, PanelOff
  <1>8. CASE Environment
    BY <1>2, <1>8
    DEF Environment, SessionLocks, SessionUnlocks, HintChanges, Touch,
        GoesQuiet, MonitorDies
  <1> QED
    BY <1>2, <1>3, <1>4, <1>5, <1>6, <1>7, <1>8 DEF PanelNext, panelVars

\* device_state.rs, apply_gesture: a tap of a press that began on a dark panel
\* is announced as a wake, whatever the machine believes of the panel by then.
THEOREM DarkPressSafe == PanelSpec => DarkPressWakes
  <1>1. PanelTypeOK /\ [PanelNext]_panelVars
          => [machine.latch = "dark" /\ machine.press = "up"
                /\ machine'.latch = "none"
                => todo'["clock"] # <<>> /\ Head(todo'["clock"]) = "unblank"]_panelVars
    BY TickWakes, OthersKeepLatch
  <1> QED BY <1>1, TypeCorrect, PTL DEF PanelSpec, DarkPressWakes
=============================================================================
