----------------------------- MODULE DimRestore -----------------------------
(***************************************************************************)
(* The dim warning and the brightness it must give back (sessiond/         *)
(* device_state.rs, the Dim and Restore actions of server.rs).             *)
(*                                                                         *)
(* The machine decides under its mutex; the deciding thread then carries   *)
(* its actions out without it.  A Dim reads the hardware, remembers the    *)
(* reading in the machine and sets 4%: three steps, of which only the      *)
(* second holds the mutex.  A Restore takes the reading and sets it, or    *)
(* runs blueline-undim when there is none.                                 *)
(*                                                                         *)
(* What PanelAuthority models in full (the lock, the budgets, the guard of *)
(* the blank) is a free choice here.                                       *)
(***************************************************************************)
EXTENDS Integers, Sequences

CONSTANTS
    Handlers,    \* connection threads and watchers
    UserLevels,  \* brightness levels a person may choose
    DimLevel,    \* brightnessctl set 4%
    Floor,       \* below it blueline-undim acts ...
    FloorLevel,  \* ... and sets this
    ReadFails,   \* read_brightness may answer None
    PanelFails,  \* the command that blanks or lights the panel may fail
    SetFails     \* the command that sets the brightness may fail

ASSUME LevelConstants ==
    /\ UserLevels \subseteq Nat /\ {DimLevel, Floor, FloorLevel} \subseteq Nat
    /\ DimLevel < Floor /\ Floor <= FloorLevel /\ DimLevel \notin UserLevels
    /\ {ReadFails, PanelFails, SetFails} \subseteq BOOLEAN
    /\ "clock" \notin Handlers

VARIABLES
    dimmer,  \* dimmed, panel_on, blank_requested, idle long enough, press latch
    saved,    \* brightness_before_dim
    todo,     \* actions decided and not carried out, per thread
    doing,    \* what a thread is doing to the hardware
    level,    \* the panel's brightness
    lit,      \* the panel is on
    wanted,   \* the level the person last chose
    astray    \* since the person last chose, with nothing remembered, two have been about
              \* the brightness at once or setting it has failed (nothing reads this)

dimVars == <<dimmer, saved, todo, doing, level, lit, wanted, astray>>

Workers == {"clock"} \cup Handlers
NoLevel == -1
Levels  == UserLevels \cup {DimLevel, FloorLevel}
Rest    == [at |-> "rest", value |-> NoLevel]

DimTypeOK ==
    /\ dimmer \in [dimmed: BOOLEAN, panelOn: BOOLEAN, asked: BOOLEAN,
                    idle: BOOLEAN, latch: {"none", "dark", "lit"}]
    /\ saved \in Levels \cup {NoLevel}
    /\ todo \in [Workers -> Seq({"dim", "restore", "blank", "unblank"})]
    /\ doing \in [Workers -> [at: {"rest", "read", "set", "undim"},
                              value: Levels \cup {NoLevel}]]
    /\ level \in Levels
    /\ lit \in BOOLEAN
    /\ wanted \in UserLevels
    /\ astray \in BOOLEAN

AtRest == \A w \in Workers : todo[w] = <<>> /\ doing[w] = Rest

-----------------------------------------------------------------------------
(* Deciding. *)

Result(m, acts) == [m |-> m, acts |-> acts]

\* Leaving the dim warning: the flag falls and the brightness comes back.
Lifts(m) ==
    Result([m EXCEPT !.dimmed = FALSE], IF m.dimmed THEN <<"restore">> ELSE <<>>)

\* Input lifts the dim; a deliberate wake lights a dark panel first.
NoteInput(m, wakes) ==
    LET r == Lifts([m EXCEPT !.idle = FALSE, !.asked = FALSE])
    IN  Result(r.m, IF wakes /\ ~m.panelOn THEN <<"unblank">> \o r.acts
                                           ELSE r.acts)

\* The report that the panel is on lifts the dim; off leaves it.
SetPanel(m, on) ==
    IF m.panelOn = on THEN Result(m, <<>>)
    ELSE IF on THEN Lifts([m EXCEPT !.panelOn = TRUE, !.asked = FALSE,
                                    !.idle = FALSE])
    ELSE Result([m EXCEPT !.panelOn = FALSE, !.asked = FALSE], <<>>)

\* A power tap: light the panel and restore if the press began in the dark,
\* whether or not the panel was dimmed, else darken it.
PowerTap(m) ==
    LET done == [m EXCEPT !.latch = "none"]
    IN  IF m.latch = "dark"
          THEN Result([done EXCEPT !.asked = FALSE], <<"unblank", "restore">>)
          ELSE Result([done EXCEPT !.asked = TRUE], <<"blank">>)

DimAgain(m) == m.idle /\ m.panelOn /\ ~m.asked

MayDim(m) == m.idle /\ m.panelOn /\ ~m.asked /\ ~m.dimmed

\* The idle rule: nothing yet, the warning, or the dark.
IdleRule(m) ==
    {Result(m, <<>>)}
    \cup (IF MayDim(m) THEN {Result([m EXCEPT !.dimmed = TRUE], <<"dim">>)}
                       ELSE {})
    \cup (IF m.idle /\ m.panelOn /\ ~m.asked
            THEN {Result([m EXCEPT !.asked = TRUE], <<"blank">>)} ELSE {})

AboutLight(acts) == \E i \in DOMAIN acts : acts[i] \in {"dim", "restore"}

\* Somebody has the brightness in hand.
LightInHand == \E v \in Workers : doing[v] # Rest \/ AboutLight(todo[v])

\* Whatever else is being carried out.
Decide(w, r) ==
    /\ todo[w] = <<>> /\ doing[w] = Rest
    /\ dimmer' = r.m
    /\ todo' = [todo EXCEPT ![w] = r.acts]
    /\ astray' = (astray \/ (LightInHand /\ AboutLight(r.acts)))
    /\ UNCHANGED <<saved, doing, level, lit, wanted>>

DimTick ==
    \E g \in {Result(dimmer, <<>>)}
               \cup (IF dimmer.latch # "none" THEN {PowerTap(dimmer)} ELSE {}) :
      \E r \in IdleRule(g.m) : Decide("clock", Result(r.m, g.acts \o r.acts))

Input(h, wakes) == Decide(h, NoteInput(dimmer, wakes))

Press(h) ==
    Decide(h, NoteInput([dimmer EXCEPT !.latch = IF dimmer.panelOn THEN "lit"
                                                  ELSE "dark"], FALSE))

\* The person has been away for as long as the warning waits, which is longer
\* than a press takes to become a tap.
GoesQuiet(h) ==
    /\ dimmer.latch = "none"
    /\ Decide(h, Result([dimmer EXCEPT !.idle = TRUE], <<>>))

ReportPanel(h) == Decide(h, SetPanel(dimmer, lit))

\* logind says unlocked.
Unlocked(h) == Decide(h, Lifts([dimmer EXCEPT !.asked = FALSE]))

-----------------------------------------------------------------------------
(* Carrying out. *)

Begin(w, act) == doing[w] = Rest /\ todo[w] # <<>> /\ Head(todo[w]) = act

Becomes(w, at, value) == doing' = [doing EXCEPT ![w] = [at |-> at, value |-> value]]

Drop(w) == todo' = [todo EXCEPT ![w] = Tail(@)]

\* Dim: read the hardware, unlocked ...
ReadBrightness(w) ==
    /\ Begin(w, "dim")
    /\ Drop(w)
    /\ \E value \in {level} \cup (IF ReadFails THEN {NoLevel} ELSE {}) :
         Becomes(w, "read", value)
    /\ UNCHANGED <<dimmer, saved, level, lit, wanted, astray>>

\* ... remember it under the mutex, and set 4%.
NoteBrightness(w) ==
    /\ doing[w].at = "read"
    /\ saved' = doing[w].value
    /\ Becomes(w, "set", DimLevel)
    /\ UNCHANGED <<dimmer, todo, level, lit, wanted, astray>>

\* Restore: take the reading under the mutex.
TakeBrightness(w) ==
    /\ Begin(w, "restore")
    /\ Drop(w)
    /\ saved' = NoLevel
    /\ IF saved # NoLevel THEN Becomes(w, "set", saved)
                          ELSE Becomes(w, "undim", NoLevel)
    /\ UNCHANGED <<dimmer, level, lit, wanted, astray>>

\* blueline-undim: anything under the floor is pushed up.
Undimmed == IF level < Floor THEN FloorLevel ELSE level

SetBrightness(w) ==
    /\ doing[w].at \in {"set", "undim"}
    /\ doing' = [doing EXCEPT ![w] = Rest]
    /\ \/ /\ level' = IF doing[w].at = "set" THEN doing[w].value ELSE Undimmed
          /\ UNCHANGED astray
       \/ SetFails /\ astray' = TRUE /\ UNCHANGED level
    /\ UNCHANGED <<dimmer, saved, todo, lit, wanted>>

\* The blank reports the dark itself.
Blank(w) ==
    /\ Begin(w, "blank")
    /\ Drop(w)
    /\ lit' \in {FALSE} \cup (IF PanelFails THEN {lit} ELSE {})
    /\ dimmer' = IF lit' THEN dimmer ELSE SetPanel(dimmer, FALSE).m
    /\ UNCHANGED <<saved, doing, level, wanted, astray>>

Unblank(w) ==
    /\ Begin(w, "unblank")
    /\ Drop(w)
    /\ lit' \in {TRUE} \cup (IF PanelFails THEN {lit} ELSE {})
    /\ UNCHANGED <<dimmer, saved, doing, level, wanted, astray>>

\* A person moves the slider, on a lit panel without a warning.
Choose(value) ==
    /\ AtRest /\ lit /\ ~dimmer.dimmed
    /\ level' = value /\ wanted' = value
    /\ astray' = (astray /\ saved # NoLevel)
    /\ UNCHANGED <<dimmer, saved, todo, doing, lit>>

-----------------------------------------------------------------------------

DimInit ==
    /\ dimmer = [dimmed |-> FALSE, panelOn |-> TRUE, asked |-> FALSE,
                  idle |-> FALSE, latch |-> "none"]
    /\ saved = NoLevel
    /\ todo = [w \in Workers |-> <<>>]
    /\ doing = [w \in Workers |-> Rest]
    /\ wanted \in UserLevels
    /\ level = wanted
    /\ lit = TRUE /\ astray = FALSE

CarryOut(w) ==
    ReadBrightness(w) \/ NoteBrightness(w) \/ TakeBrightness(w)
        \/ SetBrightness(w) \/ Blank(w) \/ Unblank(w)

DimNext ==
    \/ DimTick
    \/ \E h \in Handlers :
         \/ \E wakes \in BOOLEAN : Input(h, wakes)
         \/ Press(h) \/ GoesQuiet(h) \/ ReportPanel(h) \/ Unlocked(h)
    \/ \E w \in Workers : CarryOut(w)
    \/ \E value \in UserLevels : Choose(value)

DimSpec == DimInit /\ [][DimNext]_dimVars

-----------------------------------------------------------------------------
(* Properties. *)

\* At rest there is always a way back to the person's level, or to the floor's where a
\* capture failed or a tap in the dark restored nothing: it is what the panel shows, or
\* what the machine remembers while it warns, and never the level of the warning itself.
\* Blanks, lightings and decisions may cross a dim or a restore as they like; what does
\* lead astray is a dim or a restore decided while another is being carried out, or a
\* brightness command that fails, and that only until the person next chooses.
WayBack ==
    AtRest /\ ~astray => IF dimmer.dimmed THEN saved \in {wanted, FloorLevel, NoLevel}
                                          ELSE level \in {wanted, FloorLevel}

\* A panel that was dimmed can be brought back.
DimInv == DimTypeOK /\ WayBack

\* brightness_before_dim: a double save is "impossible".  (Refuted: a Restore can
\* overtake the Dim it answers, and the next capture reads the dim level.)
NoDoubleSave == saved # DimLevel
=============================================================================
