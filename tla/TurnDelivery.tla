---------------------------- MODULE TurnDelivery ----------------------------
(***************************************************************************)
(* How the events of a turn reach those who follow it                      *)
(* (handle_conversation_stream and stream_active_turn in api/handlers.rs,  *)
(* the turn journal of server/session_manager.rs).                         *)
(*                                                                         *)
(* The engine writes into a channel; one task drains it, and for each      *)
(* event first publishes it, to the journal and to the live followers, and *)
(* then passes it to the client that posted the message.  A surface that   *)
(* comes back takes the journal and the live channel in one step.          *)
(*                                                                         *)
(* The journal joins consecutive tokens into one entry; what it says is    *)
(* the same, and here an entry is an event.                                *)
(***************************************************************************)
EXTENDS Naturals, Sequences, SequencesExt

CONSTANTS
    Watchers,   \* surfaces that follow with GET /events
    MaxTurns,   \* bound: turns begun
    MaxEvents,  \* bound: events the engine sends in a turn
    EngineCap,  \* capacity of the engine's channel
    ClientCap,  \* capacity of the posting client's channel
    LiveCap     \* capacity of the live channel

ASSUME DeliveryConstants ==
    /\ {MaxTurns, MaxEvents} \subseteq Nat
    /\ {EngineCap, ClientCap, LiveCap} \subseteq Nat \ {0}
    /\ Watchers \cap Nat = {}

VARIABLES
    turn,     \* turns begun so far
    active,   \* session.turn_active
    journal,  \* session.active_turn_events
    engine,   \* run_turn: running, or how it returned, or what of that is published
    channel,  \* its events on their way to the task
    held,     \* the event the task has published and is passing to the client
    client,   \* of each turn: the client that posted it
    watch,    \* of each watcher: its stream
    log       \* everything published, per turn (nothing reads it)

vars == <<turn, active, journal, engine, channel, held, client, watch, log>>

Turns  == 1 .. MaxTurns
Done   == <<"done", 0>>
Error  == <<"error", 0>>
Events == ({"said"} \X (1 .. MaxEvents)) \cup {Done, Error}

Streams ==
    [turn: Turns \cup {0}, state: {"off", "following", "over", "lost", "gone"},
     lagged: BOOLEAN, replay: Seq(Events), live: Seq(Events), heard: Seq(Events)]

TypeOK ==
    /\ turn \in 0 .. MaxTurns
    /\ active \in BOOLEAN
    /\ journal \in Seq(Events)
    /\ engine \in {"none", "running", "failed", "ok", "done"}
    /\ channel \in Seq(Events) /\ Len(channel) <= EngineCap
    /\ held \in Seq(Events) /\ Len(held) <= 1
    /\ client \in [Turns -> [here: BOOLEAN, box: Seq(Events), heard: Seq(Events)]]
    /\ \A t \in Turns : Len(client[t].box) <= ClientCap
    /\ watch \in [Watchers -> Streams]
    /\ \A w \in Watchers : Len(watch[w].live) <= LiveCap
    /\ log \in [Turns -> Seq(Events)]

Off == [turn |-> 0, state |-> "off", lagged |-> FALSE, replay |-> <<>>,
        live |-> <<>>, heard |-> <<>>]

Nobody == [here |-> FALSE, box |-> <<>>, heard |-> <<>>]

-----------------------------------------------------------------------------
(* The turn and its engine. *)

Unclaimed == ~active

BeginTurn ==
    /\ turn < MaxTurns /\ Unclaimed
    /\ turn' = turn + 1
    /\ active' = TRUE /\ journal' = <<>> /\ engine' = "running"
    /\ client' = [client EXCEPT ![turn + 1].here = TRUE]
    /\ UNCHANGED <<channel, held, watch, log>>

Count == Len(log[turn]) + Len(channel)

Emit ==
    /\ engine = "running" /\ Count < MaxEvents /\ Len(channel) < EngineCap
    /\ channel' = Append(channel, <<"said", Count + 1>>)
    /\ UNCHANGED <<turn, active, journal, engine, held, client, watch, log>>

Return ==
    /\ engine = "running"
    /\ engine' \in {"ok", "failed"}
    /\ UNCHANGED <<turn, active, journal, channel, held, client, watch, log>>

-----------------------------------------------------------------------------
(* The task that drains it. *)

\* The oldest event makes room, and nobody is told.
ReceivedOver(s, e) ==
    IF s.state # "following" THEN s
    ELSE IF Len(s.live) = LiveCap THEN [s EXCEPT !.live = Append(Tail(@), e)]
    ELSE [s EXCEPT !.live = Append(@, e)]

\* A receiver that falls behind the channel's capacity has lost its place.
Received(s, e) ==
    IF s.state # "following" \/ s.lagged THEN s
    ELSE IF Len(s.live) = LiveCap THEN [s EXCEPT !.lagged = TRUE, !.live = <<>>]
    ELSE [s EXCEPT !.live = Append(@, e)]

JournalText(e) == IF active /\ e # Done THEN Append(journal, e) ELSE journal

Journal(e) == IF active THEN Append(journal, e) ELSE journal

\* publish_turn_event: recorded for replay and sent to every live follower.
Publish(e) ==
    /\ journal' = Journal(e)
    /\ watch' = [w \in Watchers |-> Received(watch[w], e)]
    /\ log' = [log EXCEPT ![turn] = Append(@, e)]
    /\ held' = <<e>>
    /\ UNCHANGED <<turn, active, client>>

Pass ==
    /\ held = <<>> /\ channel # <<>>
    /\ Publish(Head(channel))
    /\ channel' = Tail(channel)
    /\ UNCHANGED engine

PassError ==
    /\ held = <<>> /\ channel = <<>> /\ engine = "failed"
    /\ Publish(Error)
    /\ engine' = "ok"
    /\ UNCHANGED channel

PassDone ==
    /\ held = <<>> /\ channel = <<>> /\ engine = "ok"
    /\ Publish(Done)
    /\ engine' = "done"
    /\ UNCHANGED channel

Skipped(c) == ~c.here

\* A client that is gone is skipped; one that does not read holds everything up.
ToClient ==
    LET c == client[turn] IN
    /\ held # <<>>
    /\ \/ /\ c.here /\ Len(c.box) < ClientCap
          /\ client' = [client EXCEPT ![turn].box = Append(@, Head(held))]
       \/ Skipped(c) /\ UNCHANGED client
    /\ held' = <<>>
    /\ UNCHANGED <<turn, active, journal, engine, channel, watch, log>>

FinishTurn ==
    /\ engine = "done" /\ held = <<>>
    /\ active' = FALSE /\ journal' = <<>> /\ engine' = "none"
    /\ UNCHANGED <<turn, channel, held, client, watch, log>>

-----------------------------------------------------------------------------
(* The followers. *)

ClientReads(t) ==
    LET c == client[t] IN
    /\ c.here /\ c.box # <<>>
    /\ client' = [client EXCEPT ![t].box = Tail(@),
                                ![t].heard = Append(@, Head(c.box)),
                                ![t].here = Head(c.box) # Done]
    /\ UNCHANGED <<turn, active, journal, engine, channel, held, watch, log>>

ClientLeaves(t) ==
    /\ client[t].here
    /\ client' = [client EXCEPT ![t].here = FALSE, ![t].box = <<>>]
    /\ UNCHANGED <<turn, active, journal, engine, channel, held, watch, log>>

Watching(w, s) ==
    /\ watch' = [watch EXCEPT ![w] = s]
    /\ UNCHANGED <<turn, active, journal, engine, channel, held, client, log>>

\* GET /events: the journal and the live channel, in one step, of the turn that is
\* active; there being none, 409.
SubscribeTurn(w) ==
    /\ active /\ watch[w].state # "following"
    /\ Watching(w, [Off EXCEPT !.turn = turn, !.state = "following",
                               !.replay = journal])

Heard(s, e) ==
    [s EXCEPT !.heard = Append(@, e), !.state = IF e = Done THEN "over" ELSE "following"]

HearReplay(w) ==
    LET s == watch[w] IN
    /\ s.state = "following" /\ s.replay # <<>>
    /\ Watching(w, Heard([s EXCEPT !.replay = Tail(@)], Head(s.replay)))

HearLive(w) ==
    LET s == watch[w] IN
    /\ s.state = "following" /\ s.replay = <<>> /\ ~s.lagged /\ s.live # <<>>
    /\ Watching(w, Heard([s EXCEPT !.live = Tail(@)], Head(s.live)))

\* Lagged: told to reconnect.
FallBehind(w) ==
    LET s == watch[w] IN
    /\ s.state = "following" /\ s.replay = <<>> /\ s.lagged
    /\ Watching(w, [s EXCEPT !.state = "lost"])

WatcherLeaves(w) ==
    /\ watch[w].state = "following"
    /\ Watching(w, [watch[w] EXCEPT !.state = "gone"])

-----------------------------------------------------------------------------

Init ==
    /\ turn = 0 /\ active = FALSE /\ journal = <<>> /\ engine = "none"
    /\ channel = <<>> /\ held = <<>>
    /\ client = [t \in Turns |-> Nobody]
    /\ watch = [w \in Watchers |-> Off]
    /\ log = [t \in Turns |-> <<>>]

Task == Pass \/ PassError \/ PassDone \/ ToClient \/ FinishTurn

Follow(w) == HearReplay(w) \/ HearLive(w) \/ FallBehind(w)

Next ==
    \/ BeginTurn \/ Emit \/ Return \/ Task
    \/ \E t \in Turns : ClientReads(t) \/ ClientLeaves(t)
    \/ \E w \in Watchers : SubscribeTurn(w) \/ Follow(w) \/ WatcherLeaves(w)

Spec ==
    /\ Init /\ [][Next]_vars
    /\ WF_vars(Return) /\ WF_vars(Task)
    /\ \A t \in Turns : WF_vars(ClientReads(t))
    /\ \A w \in Watchers : WF_vars(Follow(w))

-----------------------------------------------------------------------------
(* Properties. *)

\* A posting client follows its own turn; a watcher the one it asked for.
Seats ==
    [f \in Watchers \cup Turns |->
        IF f \in Watchers
          THEN [turn |-> watch[f].turn, heard |-> watch[f].heard,
                state |-> watch[f].state]
          ELSE [turn |-> IF f <= turn THEN f ELSE 0, heard |-> client[f].heard,
                state |-> IF f > turn THEN "off"
                          ELSE IF Last(<<Error>> \o client[f].heard) = Done THEN "over"
                          ELSE IF client[f].here THEN "following" ELSE "gone"]]

Following ==
    INSTANCE TurnFollowing WITH Followers <- Watchers \cup Turns, seat <- Seats

\* Whoever follows a turn, from its start or from anywhere in it, over any surfaces
\* lost in between, hears all of it, once and in order (TurnFollowing).
HearsItAll == Following!Spec

\* A follower is never left waiting: it hears the end, is told it lost its place, or
\* goes.
FollowersEnd ==
    \A w \in Watchers : watch[w].state = "following" ~> watch[w].state # "following"

\* A surface that is lost never holds the turn up: the conversation is given back.
TurnEnds == active ~> ~active

\* Neither side of a stream waits for ever for the other.
DeliveryEnds == FollowersEnd /\ TurnEnds
=============================================================================
