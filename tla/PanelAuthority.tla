--------------------------- MODULE PanelAuthority ---------------------------
(***************************************************************************)
(* Who may darken the panel (sessiond/device_state.rs and the executor     *)
(* half of sessiond/server.rs).  The machine decides under the daemon's    *)
(* mutex; the thread that asked carries the decisions out afterwards,      *)
(* without it.  Between a decision and its effect every other thread may   *)
(* run: the clock, the idle watcher, the lock-hint watcher, the handlers.  *)
(*                                                                         *)
(* Left out here: the pre-warning dim and brightness (DimRestore), the     *)
(* evidence behind a refused double-tap, and gestures that are inert.      *)
(***************************************************************************)
EXTENDS Naturals, Sequences

CONSTANTS
    Handlers,        \* control-socket handler threads
    BlankAfter,      \* policy.lock_blank_after, in units of idle time
    BlankAfterHeld,  \* policy.lock_blank_after_held
    UnlockedAfter,   \* policy.unlocked_blank_after
    Never,           \* a budget of None
    NoIdle,          \* idle_since is None
    MaxIdle,         \* bound on idle time counted
    MaxNews,         \* bound on undelivered compositor and logind events
    UnlockRaces,     \* the session may be unlocked while the DPMS runs, or dark
    ExecutorFaults,  \* the DPMS executor may exit nonzero
    WatcherFaults    \* the first read fails, logind edges come before the monitor attaches

ASSUME PanelConstants ==
    /\ MaxIdle \in Nat /\ MaxNews \in Nat
    /\ {BlankAfter, BlankAfterHeld, UnlockedAfter} \subseteq Nat \cup {Never}
    /\ Never \notin Nat /\ NoIdle \notin Nat
    /\ UnlockRaces \in BOOLEAN
    /\ ExecutorFaults \in BOOLEAN
    /\ WatcherFaults \in BOOLEAN
    /\ Handlers \cap {"clock", "idle", "hint"} = {}

VARIABLES
    machine,   \* DeviceStateMachine, the fields a blank depends on
    todo,      \* per thread: decided actions still to be carried out
    doing,     \* per thread: how far its current action has got
    lit,       \* the panel itself
    hint,      \* logind's LockedHint
    watch,     \* lock-hint watcher: "read", "attach", "on", "dead"
    last,      \* ... and the value it reported last
    hintNews,  \* PropertiesChanged signals not read yet
    quiet,     \* compositor: no input for the quiet period
    idleNews,  \* ext_idle_notify events not read yet
    overtaken  \* an unlock came while the panel was dark or being darkened, and neither
               \* light nor a lock since (a history variable: nothing reads it)

logind == <<hint, watch, last, hintNews, overtaken>>
comp   == <<quiet, idleNews>>
panel  == <<todo, doing, lit>>
panelVars == <<machine, panel, logind, comp>>

Workers == {"clock", "idle", "hint"} \cup Handlers
Acts    == {"lock", "blank", "unblank"}

\* locked is is_locked(state); pending is pending_blank, "due" once its
\* deadline has passed; latch is press_began_dark[Power]; press and taps are
\* the power button's recogniser, counting 2 for "two or more".
Machines ==
    [locked: BOOLEAN, panelOn: BOOLEAN, asked: BOOLEAN,
     pending: {"none", "armed", "due"}, idle: 0..MaxIdle \cup {NoIdle},
     press: {"up", "down", "held"}, taps: 0..2,
     latch: {"none", "dark", "lit"}]

PanelTypeOK ==
    /\ machine \in Machines
    /\ todo \in [Workers -> Seq(Acts)]
    /\ doing \in [Workers -> {"rest", "off", "dark", "on"}]
    /\ lit \in BOOLEAN
    /\ hint \in BOOLEAN
    /\ watch \in {"read", "attach", "on", "dead"}
    /\ last \in BOOLEAN
    /\ hintNews \in Seq(BOOLEAN)
    /\ quiet \in BOOLEAN
    /\ idleNews \in Seq({"idled", "resumed"})
    /\ overtaken \in BOOLEAN

-----------------------------------------------------------------------------
(* The machine: each operator returns the machine after and the actions. *)

Result(m, acts) == [m |-> m, acts |-> acts]

\* A blank of an unlocked session asks for the lock and waits for it.
RequestBlank(m) ==
    IF m.locked THEN Result([m EXCEPT !.asked = TRUE], <<"blank">>)
                ELSE Result([m EXCEPT !.pending = "armed"], <<"lock">>)

\* Real input re-arms the rule and cancels a waiting blank; a deliberate wake
\* (double tap, squeeze) on a dark panel lights it.
NoteInput(m, wakes) ==
    Result([m EXCEPT !.idle = NoIdle, !.asked = FALSE, !.pending = "none"],
           IF ~m.panelOn /\ wakes THEN <<"unblank">> ELSE <<>>)

RequestScreen(m, on) ==
    IF on = m.panelOn THEN Result(m, <<>>)
    ELSE IF on THEN Result([m EXCEPT !.asked = FALSE], <<"unblank">>)
    ELSE RequestBlank(m)

\* The executor's report.
SetPanel(m, on) ==
    IF m.panelOn = on THEN m
    ELSE [m EXCEPT !.panelOn = on, !.asked = FALSE,
                   !.pending = IF on THEN @ ELSE "none",
                   !.idle = IF on THEN NoIdle ELSE @]

SetSessionLocked(m, locked) ==
    IF locked = m.locked THEN m
    ELSE IF locked THEN [m EXCEPT !.locked = TRUE]
    ELSE [m EXCEPT !.locked = FALSE, !.asked = FALSE, !.pending = "none"]

\* A press latches what the panel was when it began, then counts as input.
PowerDown(m) ==
    NoteInput([m EXCEPT !.latch = IF m.panelOn THEN "lit" ELSE "dark",
                        !.press = "down"], FALSE)

\* A release: the end of an announced hold, one more tap, or a hold that no
\* tick has seen.
PowerUp(m) ==
    LET up   == [m EXCEPT !.press = "up"]
        hold == [up EXCEPT !.taps = 0, !.latch = "none"]
    IN  IF m.press = "held" THEN {[up EXCEPT !.taps = 0]}
        ELSE {[up EXCEPT !.taps = IF @ = 0 THEN 1 ELSE 2], hold}

TapFindsDark(m) == ~m.panelOn

TapBeganDark(m) ==
    IF m.latch = "none" THEN ~m.panelOn ELSE m.latch = "dark"

\* A recognised tap: a wake if the press began on a dark panel, else a blank.
PowerTap(m) ==
    LET done == [m EXCEPT !.taps = 0, !.latch = "none"]
    IN  IF TapBeganDark(m)
          THEN Result([done EXCEPT !.asked = FALSE], <<"unblank">>)
          ELSE RequestBlank(done)

\* What the recogniser may announce on a tick: nothing yet, a hold while the
\* button is down, or the taps once their window has closed.  Only a single
\* tap and a hold are bound, and a hold asks nothing of the panel.
Gestures(m) ==
    {Result(m, <<>>)}
    \cup (IF m.press = "down"
            THEN {Result([m EXCEPT !.press = "held", !.latch = "none"], <<>>)}
            ELSE {})
    \cup (IF m.press = "up" /\ m.taps > 0
            THEN {IF m.taps = 1 THEN PowerTap(m)
                                ELSE Result([m EXCEPT !.taps = 0], <<>>)}
            ELSE {})

PendingWaitsForLock(m) == m.locked

PendingEnds(m) == m.locked \/ m.pending = "due"

\* The rules of one tick, after the buttons.
TickRules(m, budget) ==
    IF m.pending # "none"
      THEN IF PendingEnds(m)
             THEN Result([m EXCEPT !.pending = "none", !.asked = TRUE],
                         <<"blank">>)
             ELSE Result(m, <<>>)
    ELSE IF m.panelOn /\ ~m.asked /\ m.idle # NoIdle /\ budget # Never
            /\ m.idle >= budget
      THEN RequestBlank(m)
      ELSE Result(m, <<>>)

Budgets(m) == IF m.locked THEN {BlankAfter, BlankAfterHeld} ELSE {UnlockedAfter}

-----------------------------------------------------------------------------
(* Deciding: one section of code under the mutex. *)

Free(w) == todo[w] = <<>> /\ doing[w] = "rest"

Decide(w, r) ==
    /\ Free(w)
    /\ machine' = r.m
    /\ todo' = [todo EXCEPT ![w] = r.acts]
    /\ UNCHANGED <<doing, lit>>

\* The clock: a gesture that has become one is resolved first, then the rules
\* run on what it left.
Tick ==
    /\ \E g \in Gestures(machine) : \E budget \in Budgets(g.m) :
         LET r == TickRules(g.m, budget)
         IN  Decide("clock", Result(r.m, g.acts \o r.acts))
    /\ UNCHANGED <<logind, comp>>

\* An input request from a producer; a refused double-tap decides nothing.
Input(h, wakes) ==
    /\ Decide(h, NoteInput(machine, wakes))
    /\ UNCHANGED <<logind, comp>>

ButtonDown(h) ==
    /\ Decide(h, PowerDown(machine))
    /\ UNCHANGED <<logind, comp>>

ButtonUp(h) ==
    /\ machine.press # "up"
    /\ \E m \in PowerUp(machine) : Decide(h, Result(m, <<>>))
    /\ UNCHANGED <<logind, comp>>

Screen(h, on) ==
    /\ Decide(h, RequestScreen(machine, on))
    /\ UNCHANGED <<logind, comp>>

\* Somebody else reports what the panel really does.
ReportPanel(h) ==
    /\ Decide(h, Result(SetPanel(machine, lit), <<>>))
    /\ UNCHANGED <<logind, comp>>

\* sessiond takes the lock itself, or the shell acks one: set_tier(Locked).
LockConfirmed ==
    /\ machine' = [machine EXCEPT !.locked = TRUE]
    /\ UNCHANGED <<panel, logind, comp>>

\* The idle watcher reads its next event.
IdleWatcher ==
    /\ idleNews # <<>>
    /\ idleNews' = Tail(idleNews)
    /\ Decide("idle",
         IF Head(idleNews) = "resumed" THEN NoteInput(machine, FALSE)
         ELSE Result([machine EXCEPT !.idle = IF @ = NoIdle THEN 0 ELSE @],
                     <<>>))
    /\ UNCHANGED <<logind, quiet>>

\* The lock-hint watcher: an initial read, which may fail, then the monitor,
\* then each edge.
HintWatcher ==
    /\ Free("hint")
    /\ \/ /\ watch = "read"
          /\ watch' = "attach"
          /\ \/ last' = hint /\ machine' = SetSessionLocked(machine, hint)
             \/ WatcherFaults /\ last' = FALSE /\ UNCHANGED machine
          /\ UNCHANGED hintNews
       \/ /\ watch = "attach"
          /\ watch' = "on"
          /\ UNCHANGED <<machine, last, hintNews>>
       \/ /\ watch = "on"
          /\ hintNews # <<>>
          /\ hintNews' = Tail(hintNews)
          /\ last' = Head(hintNews)
          /\ machine' = IF Head(hintNews) # last
                          THEN SetSessionLocked(machine, Head(hintNews))
                          ELSE machine
          /\ UNCHANGED watch
    /\ UNCHANGED <<panel, hint, overtaken, comp>>

MonitorDies ==
    /\ watch # "dead"
    /\ watch' = "dead"
    /\ last' = FALSE
    /\ hintNews' = <<>>
    /\ UNCHANGED <<machine, panel, hint, overtaken, comp>>

-----------------------------------------------------------------------------
(* Carrying decisions out, without the mutex. *)

Begin(w, act) == doing[w] = "rest" /\ todo[w] # <<>> /\ Head(todo[w]) = act

Drop(w) == todo' = [todo EXCEPT ![w] = Tail(@)]

Reach(w, at) == doing' = [doing EXCEPT ![w] = at]

\* request_session_lock: a directive to the shell, which may lock later, or
\* sessiond's own lock session, which puts the machine in Locked at once.
RequestLock ==
    machine' \in {machine, [machine EXCEPT !.locked = TRUE]}

ExecuteLock(w) ==
    /\ Begin(w, "lock")
    /\ Drop(w)
    /\ RequestLock
    /\ UNCHANGED <<doing, lit, logind, comp>>

MachineSaysLocked == machine.locked

MayDarken == hint

\* A blank asks logind, at the actuator: refused unless it says locked.
ExecuteBlank(w) ==
    /\ Begin(w, "blank")
    /\ Drop(w)
    /\ IF MayDarken THEN Reach(w, "off") /\ UNCHANGED machine
                    ELSE RequestLock /\ UNCHANGED doing
    /\ UNCHANGED <<lit, logind, comp>>

ExecuteUnblank(w) ==
    /\ Begin(w, "unblank")
    /\ Drop(w)
    /\ \/ /\ Reach(w, "on")
          /\ lit' = TRUE
          /\ overtaken' = (overtaken /\ \E v \in Workers : doing[v] = "off")
       \/ ExecutorFaults /\ UNCHANGED <<doing, lit, overtaken>>
    /\ UNCHANGED <<machine, hint, watch, last, hintNews, comp>>

\* The DPMS executor turns the panel off, or fails and is only recorded.
PanelOff(w) ==
    /\ doing[w] = "off"
    /\ \/ Reach(w, "dark") /\ lit' = FALSE
       \/ ExecutorFaults /\ Reach(w, "rest") /\ UNCHANGED lit
    /\ UNCHANGED <<machine, todo, logind, comp>>

\* run_executor reports the darkness; the executor reports the light.
Report(w) ==
    /\ doing[w] \in {"dark", "on"}
    /\ Reach(w, "rest")
    /\ machine' = SetPanel(machine, doing[w] = "on")
    /\ UNCHANGED <<todo, lit, logind, comp>>

Execute(w) ==
    ExecuteLock(w) \/ ExecuteBlank(w) \/ ExecuteUnblank(w) \/ PanelOff(w)
        \/ Report(w)

-----------------------------------------------------------------------------
(* Outside: time, the compositor, logind and the person holding the phone. *)

IdleTimePasses ==
    /\ machine.idle # NoIdle
    /\ machine.idle < MaxIdle
    /\ machine' = [machine EXCEPT !.idle = @ + 1]
    /\ UNCHANGED <<panel, logind, comp>>

AckBudgetPasses ==
    /\ machine.pending = "armed"
    /\ machine' = [machine EXCEPT !.pending = "due"]
    /\ UNCHANGED <<panel, logind, comp>>

HintChanges(value) ==
    /\ hint' = value
    /\ \/ /\ watch = "on"
          /\ Len(hintNews) < MaxNews
          /\ hintNews' = Append(hintNews, value)
       \/ /\ watch = "attach" => WatcherFaults
          /\ watch # "on"
          /\ UNCHANGED hintNews
    /\ UNCHANGED <<machine, panel, watch, last, comp>>

SessionLocks ==
    /\ ~hint
    /\ HintChanges(TRUE)
    /\ overtaken' = FALSE

\* At any time: nobody holds a mutex between the actuator's question and the dark.
SessionUnlocks ==
    /\ hint
    /\ UnlockRaces \/ (lit /\ \A w \in Workers : doing[w] # "off")
    /\ HintChanges(FALSE)
    /\ overtaken' = (~lit \/ \E w \in Workers : doing[w] = "off")

\* Input the compositor sees: it reports the edges of quiet only.
Touch ==
    /\ quiet
    /\ Len(idleNews) < MaxNews
    /\ quiet' = FALSE
    /\ idleNews' = Append(idleNews, "resumed")
    /\ UNCHANGED <<machine, panel, logind>>

GoesQuiet ==
    /\ ~quiet
    /\ Len(idleNews) < MaxNews
    /\ quiet' = TRUE
    /\ idleNews' = Append(idleNews, "idled")
    /\ UNCHANGED <<machine, panel, logind>>

-----------------------------------------------------------------------------

PanelInit ==
    /\ machine = [locked |-> FALSE, panelOn |-> TRUE, asked |-> FALSE,
                  pending |-> "none", idle |-> NoIdle, press |-> "up",
                  taps |-> 0, latch |-> "none"]
    /\ todo = [w \in Workers |-> <<>>]
    /\ doing = [w \in Workers |-> "rest"]
    /\ lit = TRUE
    /\ hint \in BOOLEAN
    /\ watch = "read"
    /\ last = FALSE
    /\ hintNews = <<>>
    /\ quiet = FALSE
    /\ idleNews = <<>>
    /\ overtaken = FALSE

PanelHandlerStep(h) ==
    \/ \E b \in BOOLEAN : Input(h, b) \/ Screen(h, b)
    \/ ButtonDown(h) \/ ButtonUp(h) \/ ReportPanel(h)

Environment ==
    SessionLocks \/ SessionUnlocks \/ Touch \/ GoesQuiet \/ MonitorDies

PanelNext ==
    \/ Tick \/ IdleWatcher \/ HintWatcher \/ LockConfirmed
    \/ \E h \in Handlers : PanelHandlerStep(h)
    \/ \E w \in Workers : Execute(w)
    \/ IdleTimePasses \/ AckBudgetPasses
    \/ Environment

PanelSpec == PanelInit /\ [][PanelNext]_panelVars

\* The clock thread ticks, the watchers read, executors return and time goes
\* by.  No person, shell or handler is obliged to do anything.
PanelFairness ==
    /\ WF_panelVars(Tick) /\ WF_panelVars(IdleWatcher) /\ WF_panelVars(HintWatcher)
    /\ \A w \in Workers : WF_panelVars(Execute(w))
    /\ WF_panelVars(IdleTimePasses) /\ WF_panelVars(AckBudgetPasses)

PanelFairSpec == PanelSpec /\ PanelFairness

-----------------------------------------------------------------------------
(* Properties. *)

\* A panel dark over an unlocked session was darkened while it was locked, or unlocked
\* between the actuator's question and the dark.  It is never darkened by a blank that
\* waited out its lock budget, one decided long ago, the two routes into Locked that
\* logind knows nothing of, or a watcher that has died: all end at that question.  (The
\* comments at device_state.rs:202 and 2009 and lockhint.rs:214 say that such a blank goes
\* out on an unlocked session.  The actuator of server.rs:502 refuses it: they are older.)
DarkIsLocked == ~lit => hint \/ overtaken

\* The panel is dark only where logind said locked, whatever the machine believes.
PanelInv == PanelTypeOK /\ DarkIsLocked

\* A power press that began on a dark panel ends as a wake, even when somebody
\* else lights the panel and reports it before the tap is recognised.
DarkPressWakes ==
    [][machine.latch = "dark" /\ machine.press = "up" /\ machine'.latch = "none"
         => todo'["clock"] # <<>> /\ Head(todo'["clock"]) = "unblank"]_panelVars

\* A blank that waits for its lock stops waiting, with or without the lock,
\* unless somebody asks for it again for ever: each ask starts a new budget.
PendingResolved ==
    <>[](machine.pending # "none")
      => []<><<\E h \in Handlers : Screen(h, FALSE)>>_panelVars

\* A locked, lit screen nobody touches goes dark, through whatever the other
\* threads are carrying out at the time, unless the machine comes to believe
\* that it is dark already.
LockedIdleGoesDark ==
    (machine.locked /\ hint /\ lit /\ machine.panelOn /\ ~machine.asked
        /\ machine.idle # NoIdle)
      ~> (~lit \/ ~hint \/ ~machine.locked \/ ~machine.panelOn
            \/ machine.idle = NoIdle)

\* Nothing waits for ever: a blank for its lock, or a locked screen for the dark.
NoEndlessWait == PendingResolved /\ LockedIdleGoesDark
=============================================================================
