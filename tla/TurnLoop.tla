------------------------------ MODULE TurnLoop ------------------------------
(***************************************************************************)
(* One conversation's turns: the engine that runs a turn (run_turn in      *)
(* server/turn.rs) and the two surfaces that start it, raise a hand at it  *)
(* and slip it notes (api/handlers.rs over HTTP, backend/local and the     *)
(* chat pane in one process).                                              *)
(*                                                                         *)
(* The model, its tools and the subconscious are free choices.  What a     *)
(* model says is a sequence of pieces, a piece being one chunk of one      *)
(* answer.  How the events of a turn reach those who watch it is           *)
(* TurnDelivery.                                                           *)
(***************************************************************************)
EXTENDS Naturals, Sequences, FiniteSets, SequencesExt

CONSTANTS
    Surfaces,       \* "server", "local" or both
    Notes,          \* interjections
    MaxTurns,       \* bound: messages a person sends
    MaxAsides,      \* bound: answers that leave a turn open of themselves
    Chunks,         \* pieces an answer is streamed in
    PeekEvery,      \* checkpoint_interval: tool rounds between two peeks, 0 for none
    Subconscious    \* n1_enabled

ASSUME TurnConstants ==
    /\ Surfaces \subseteq {"server", "local"}
    /\ {MaxTurns, Chunks} \subseteq Nat \ {0} /\ {MaxAsides, PeekEvery} \subseteq Nat
    /\ IsFiniteSet(Notes) /\ Subconscious \in BOOLEAN

VARIABLES
    surface,   \* which of the two this server process has
    claim,     \* who has the conversation: turn_active and the stream task
    signals,   \* the turn's backchannel: is there one, the hand, the notes
    engine,    \* run_turn
    history,   \* session.messages
    listening, \* a local pane still holds the turn's stream
    fate       \* of each note: accepted early enough for the turn, or late

vars == <<surface, claim, signals, engine, history, listening, fate>>

\* A turn has one answer that ends it, and one for each note that reopened it.
MaxAnswers == MaxAsides + Cardinality(Notes) + 1

Answers == 1 .. MaxAnswers
Pieces  == Answers \X (1 .. Chunks)
Whole(k) == [j \in 1 .. Chunks |-> <<k, j>>]

InLoop  == {"start", "top", "ask", "text", "tools", "peek"}
Ends    == {"ended", "failed"}
Places  == InLoop \cup Ends \cup {"rest", "stream", "settle", "halt", "n1"}

Fresh(t) ==
    [at |-> "start", turn |-> t, answers |-> 0, rounds |-> 0, left |-> <<>>,
     final |-> <<>>, carried |-> <<>>, said |-> <<>>, interrupted |-> FALSE]

Idle == [Fresh(0) EXCEPT !.at = "rest"]

TypeOK ==
    /\ surface \in Surfaces
    /\ claim \in {"free", "claimed", "streaming", "closing"}
    /\ signals \in [open: BOOLEAN, hand: BOOLEAN, notes: Seq(Notes)]
    /\ engine.at \in Places
    /\ engine.turn \in Nat /\ engine.answers \in 0 .. MaxAnswers
    /\ engine.rounds \in 0 .. MaxAnswers /\ engine.interrupted \in BOOLEAN
    /\ \A s \in {engine.left, engine.final, engine.carried, engine.said} :
         s \in Seq(Pieces)
    /\ \A i \in DOMAIN history :
         history[i] \in [who: {"user", "agent", "surfacing"}, turn: Nat,
                         text: Seq(Pieces), mark: {"none", "hand", "felt"}]
    /\ listening \in BOOLEAN
    /\ fate \in [Notes -> {"unsent", "early", "late", "read"}]

Turns == Cardinality({i \in DOMAIN history : history[i].who = "user"})

Entry(who, t, text, mark) == [who |-> who, turn |-> t, text |-> text, mark |-> mark]

AddMessage(m) == history' = Append(history, m)

-----------------------------------------------------------------------------
(* Starting and ending a turn. *)

Anyone == claim # "closing"

Unclaimed == claim = "free"

\* POST /messages: claim the conversation (a second one is answered 409), then
\* add to its history.
Post ==
    /\ surface = "server" /\ Turns < MaxTurns
    /\ Unclaimed
    /\ claim' = "claimed"
    /\ AddMessage(Entry("user", Turns + 1, <<>>, "none"))
    /\ UNCHANGED <<surface, signals, engine, listening, fate>>

\* The task that serves it: a fresh token, the notes that waited.
Install ==
    /\ claim = "claimed"
    /\ claim' = "streaming"
    /\ signals' = [signals EXCEPT !.open = TRUE, !.hand = FALSE]
    /\ engine' = Fresh(Turns)
    /\ UNCHANGED <<surface, history, listening, fate>>

Returned == claim = "streaming" /\ engine.at \in Ends

\* The engine has returned and its last event is published: the backchannel goes ...
Close ==
    /\ surface = "server" /\ Returned
    /\ claim' = "closing"
    /\ signals' = [open |-> FALSE, hand |-> FALSE, notes |-> <<>>]
    /\ UNCHANGED <<surface, engine, history, listening, fate>>

\* ... and then the claim.
Finish ==
    /\ claim = "closing"
    /\ claim' = "free"
    /\ engine' = Idle
    /\ UNCHANGED <<surface, signals, history, listening, fate>>

\* The pane sends: history, then the engine, with a token of its own and the queue
\* the pane keeps.
Submit(notes) ==
    /\ claim' = "streaming"
    /\ signals' = [open |-> TRUE, hand |-> FALSE, notes |-> notes]
    /\ engine' = Fresh(Turns + 1)
    /\ AddMessage(Entry("user", Turns + 1, <<>>, "none"))
    /\ listening' = TRUE
    /\ UNCHANGED surface

Send ==
    /\ surface = "local" /\ Turns < MaxTurns /\ claim = "free"
    /\ Submit(signals.notes)
    /\ UNCHANGED fate

Reading(n) == n \in Range(signals.notes)

\* What was queued has been read.
NotesRead == fate' = [n \in Notes |-> IF Reading(n) THEN "read" ELSE fate[n]]

\* The turn is over: a pane still there makes the notes that came too late the next
\* message.
Done ==
    /\ surface = "local" /\ Returned
    /\ \/ listening /\ signals.notes # <<>> /\ Submit(<<>>) /\ NotesRead
       \/ /\ ~listening \/ signals.notes = <<>>
          /\ claim' = "free"
          /\ engine' = Idle
          /\ signals' = [signals EXCEPT !.open = FALSE, !.hand = FALSE]
          /\ UNCHANGED <<surface, history, listening, fate>>

-----------------------------------------------------------------------------
(* The backchannel. *)

\* POST /cancel, or the pane's raised hand.
RaiseHand ==
    /\ signals.open
    /\ signals' = [signals EXCEPT !.hand = TRUE]
    /\ UNCHANGED <<surface, claim, engine, history, listening, fate>>

\* A note; over HTTP it may also come while nothing runs, and opens a backchannel.
Interject(n) ==
    /\ fate[n] = "unsent"
    /\ surface = "server" \/ claim = "streaming"
    /\ signals' = [signals EXCEPT !.open = TRUE, !.notes = Append(@, n)]
    /\ fate' = [fate EXCEPT ![n] = IF engine.at \in InLoop \cup {"rest"} THEN "early"
                                   ELSE "late"]
    /\ UNCHANGED <<surface, claim, engine, history, listening>>

\* The pane drops the stream.
Leave ==
    /\ surface = "local" /\ claim = "streaming" /\ listening
    /\ listening' = FALSE
    /\ UNCHANGED <<surface, claim, signals, engine, history, fate>>

-----------------------------------------------------------------------------
(* The engine. *)

Engine(e) ==
    /\ engine' = e
    /\ UNCHANGED <<surface, claim, signals, history, listening, fate>>

At(place) == [engine EXCEPT !.at = place]

\* The waiting notes are drained into what the model reads next.
ReadNotes == NotesRead /\ signals' = [signals EXCEPT !.notes = <<>>]

\* A hand ends the turn with what was streamed of the final answer so far.
Interrupted(final) ==
    signals.hand /\ Engine([At("settle") EXCEPT !.interrupted = TRUE, !.final = final])

\* The agent is loaded and the history read, or the agent cannot be loaded.
Start == engine.at = "start" /\ \E place \in {"top", "failed"} : Engine(At(place))

Top ==
    /\ engine.at = "top"
    /\ \/ Interrupted(engine.final)
       \/ /\ ~signals.hand
          /\ engine' = At("ask")
          /\ ReadNotes
          /\ UNCHANGED <<surface, claim, history, listening>>

\* The provider fails, or answers with nothing: the turn ends without a message.
AskFails == engine.at = "ask" /\ ~signals.hand /\ Engine(At("failed"))

\* An answer cut off at its ceiling: streamed, told to the model, and not kept.
AskClipped ==
    /\ engine.at = "ask" /\ ~signals.hand /\ engine.answers < MaxAsides
    /\ Engine([At("top") EXCEPT !.answers = @ + 1])

AskTools ==
    /\ engine.at = "ask" /\ ~signals.hand /\ engine.answers < MaxAsides
    /\ Engine([At("tools") EXCEPT !.answers = @ + 1, !.rounds = @ + 1])

AskText ==
    /\ engine.at = "ask" /\ ~signals.hand
    /\ Engine([At("text") EXCEPT !.answers = @ + 1])

AskUnraced == FALSE

\* The call is raced against the hand.
AskDropped == engine.at = "ask" /\ Interrupted(engine.final)

NoLateDrain == TRUE

NothingWaits == signals.notes = <<>>

\* A finished answer ends the turn, unless notes came in meanwhile: then it is
\* streamed whole and carried, and the model asked again.  (It also stays in
\* final_content.)
Text ==
    LET all == Whole(engine.answers) IN
    /\ engine.at = "text"
    /\ \/ NothingWaits /\ Engine([At("stream") EXCEPT !.left = all, !.final = <<>>])
       \/ /\ ~NothingWaits
          /\ engine' = [At("top") EXCEPT !.said = @ \o all, !.carried = @ \o all,
                                         !.final = all]
          /\ ReadNotes
          /\ UNCHANGED <<surface, claim, history, listening>>

KeptWhole == engine.final \o engine.left

\* Streaming the final answer.  A hand keeps what was streamed; a receiver that is
\* gone keeps everything, and the turn counts as interrupted.
Stream ==
    /\ engine.at = "stream"
    /\ \/ Interrupted(engine.final)
       \/ /\ ~signals.hand /\ engine.left # <<>> /\ listening
          /\ Engine([engine EXCEPT !.left = Tail(@),
                                   !.final = Append(@, Head(engine.left)),
                                   !.said = Append(@, Head(engine.left))])
       \/ /\ ~signals.hand /\ engine.left # <<>> /\ ~listening
          /\ Engine([At("settle") EXCEPT !.interrupted = TRUE, !.final = KeptWhole])
       \/ ~signals.hand /\ engine.left = <<>> /\ Engine(At("settle"))

\* The calls of a round, all of them; then a peek, every so often.
Tools ==
    /\ engine.at = "tools"
    /\ Engine(At(IF PeekEvery > 0 /\ engine.rounds % PeekEvery = 0 THEN "peek"
                                                                   ELSE "top"))

\* The subconscious says nothing, or "slow down", or fails; or it stops the turn.
Peek ==
    engine.at = "peek" /\ ~signals.hand /\ \E place \in {"top", "halt"} : Engine(At(place))

PeekDropped == engine.at = "peek" /\ Interrupted(engine.final)

Mark == IF engine.interrupted THEN "hand" ELSE IF engine.at = "halt" THEN "felt" ELSE "none"

LastOnly == engine.final

\* Replies finished before a note reopened the turn, and the last one.
Committed == engine.carried \o engine.final

Commit ==
    /\ engine.at \in {"settle", "halt"}
    /\ AddMessage(Entry("agent", engine.turn, Committed, Mark))
    /\ engine' = At(IF Mark = "none" /\ Subconscious THEN "n1" ELSE "ended")
    /\ UNCHANGED <<surface, claim, signals, listening, fate>>

\* The pass after the turn; the person was told the turn is complete.
AfterTurn ==
    /\ engine.at = "n1"
    /\ \/ Engine(At("ended"))
       \/ Engine(At("failed"))
       \/ /\ AddMessage(Entry("surfacing", engine.turn, <<>>, "none"))
          /\ engine' = At("ended")
          /\ UNCHANGED <<surface, claim, signals, listening, fate>>

-----------------------------------------------------------------------------

Init ==
    /\ surface \in Surfaces
    /\ claim = "free"
    /\ signals = [open |-> FALSE, hand |-> FALSE, notes |-> <<>>]
    /\ engine = Idle
    /\ history = <<>>
    /\ listening = TRUE
    /\ fate = [n \in Notes |-> "unsent"]

\* What the provider and the subconscious decide.
Provider == AskFails \/ AskClipped \/ AskTools \/ AskText \/ Peek \/ AfterTurn

\* What the code does of itself.
Code ==
    \/ Install \/ Close \/ Finish \/ Done
    \/ Start \/ Top \/ AskDropped \/ Text \/ Stream \/ Tools \/ PeekDropped \/ Commit

People == Post \/ Send \/ RaiseHand \/ Leave \/ \E n \in Notes : Interject(n)

Next == Provider \/ Code \/ People

Spec == Init /\ [][Next]_vars /\ WF_vars(Code)

-----------------------------------------------------------------------------
(* Properties. *)

\* However posts, notes, hands and late subconscious passes interleave, a reply
\* follows the message it answers and a surfacing follows the reply it is about:
\* no other turn's message comes between.
TurnsApart ==
    \A i \in DOMAIN history :
        LET e == history[i] IN
        e.who # "user" =>
            /\ i > 1 /\ history[i - 1].turn = e.turn
            /\ history[i - 1].who = IF e.who = "agent" THEN "user" ELSE "agent"

\* What the person saw of finished answers in a turn that committed is in the
\* history, in order, whatever reopened the turn or cut it short.
SaidIsKept ==
    engine.at \in {"n1", "ended"} =>
        \E i \in DOMAIN history :
            /\ history[i].who = "agent" /\ history[i].turn = engine.turn
            /\ IsPrefix(engine.said, history[i].text)

\* A reply without a mark is made of whole answers: one that was cut by a hand,
\* or whose stream broke, always says so.
WholeUnlessMarked ==
    \A i \in DOMAIN history :
        LET e == history[i] IN
        e.who = "agent" /\ e.mark = "none" =>
            /\ e.text # <<>>
            /\ Range(e.text) = {p[1] : p \in Range(e.text)} \X (1 .. Chunks)

\* What is committed of a turn is what was said in it, and is marked where it was cut.
AnswersInv == TypeOK /\ SaidIsKept /\ WholeUnlessMarked

\* A turn that ends of its own accord has read every note that was accepted before
\* its last answer was looked at.
NotesHeard ==
    engine.at \in {"stream", "n1"} =>
        \A n \in Range(signals.notes) : fate[n] # "early"

\* A raised hand ends the turn's work although the provider never answers again.
HandEnds ==
    (signals.hand /\ engine.at \in (InLoop \ {"start"}) \cup {"stream"})
        ~> engine.at \in Ends \cup {"n1", "rest"}

\* A provider that answers or fails, sooner or later, is enough for every turn to
\* give its conversation back.
TurnEnds == WF_vars(Provider) => (claim # "free" ~> claim = "free")

\* Every turn comes to its end: at once when a hand is raised, and otherwise as soon as
\* the provider answers or fails.
TurnsEnd == HandEnds /\ TurnEnds
=============================================================================
