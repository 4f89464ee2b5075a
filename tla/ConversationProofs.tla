------------------------- MODULE ConversationProofs -------------------------
(*****************************************************************************)
(* Theorems about a conversation's turns, the compactions of its messages and *)
(* the summons to other beings, for any number of turns, notes, pieces,      *)
(* answers, messages and summons.                                            *)
(*****************************************************************************)
EXTENDS TurnLoop, Summons, Compaction, FiniteSetTheorems, SequenceTheorems,
        WellFoundedInduction, TLAPS

-----------------------------------------------------------------------------
(*****************************************************************************)
(* Turns apart.                                                              *)
(*                                                                           *)
(* No other turn's message comes between a message, its reply and the      *)
(* surfacing about it: for any number of turns, notes, pieces and answers. *)
(*                                                                         *)
(* TurnsApart speaks of the history alone.  It is kept because a turn that *)
(* is under way owns the end of the history: from the moment its message   *)
(* is appended until its reply is, the last message is that message, and   *)
(* until the subconscious pass is over the last message is that reply.     *)
(* The claim is what excludes another turn meanwhile (turn_active and the  *)
(* order in which it is taken and given back).                             *)
(*****************************************************************************)

Bits == Nat \X Nat

EngineStates ==
    [at: Places, turn: Nat, answers: Nat, rounds: Nat, left: Seq(Bits),
     final: Seq(Bits), carried: Seq(Bits), said: Seq(Bits), interrupted: BOOLEAN]

Messages ==
    [who: {"user", "agent", "surfacing"}, turn: Nat, text: Seq(Bits),
     mark: {"none", "hand", "felt"}]

\* Places at which the turn's own message is still the last one.
Working == InLoop \cup {"stream", "settle", "halt"}

LastIs(h, who, t) ==
    h # <<>> /\ h[Len(h)].who = who /\ h[Len(h)].turn = t

\* The turn under way owns the end of the history, and holds the claim.
OwnsTheEnd ==
    /\ claim = "free" => engine.at = "rest"
    /\ claim = "claimed" => engine.at = "rest" /\ LastIs(history, "user", Turns)
    /\ claim = "closing" => engine.at \in Ends
    /\ engine.at \in Working => LastIs(history, "user", engine.turn)
    /\ engine.at = "n1" => LastIs(history, "agent", engine.turn)

TurnInv ==
    /\ engine \in EngineStates /\ history \in Seq(Messages)
    /\ OwnsTheEnd /\ TurnsApart

-----------------------------------------------------------------------------
(* The history. *)

\* A message that is added is the last one.
LEMMA Appending ==
    ASSUME history \in Seq(Messages), NEW msg \in Messages, AddMessage(msg)
    PROVE  /\ history' \in Seq(Messages) /\ history' # <<>>
           /\ Len(history) \in Nat /\ Len(history') = Len(history) + 1
           /\ history'[Len(history')] = msg
           /\ \A i \in 1 .. Len(history) : history'[i] = history[i]
  BY DEF AddMessage

\* Turns counts the messages of people.
LEMMA TurnsCounts ==
    ASSUME history \in Seq(Messages)
    PROVE  /\ Turns \in Nat
           /\ \A msg \in Messages :
                AddMessage(msg) /\ msg.who = "user" => Turns' = Turns + 1
<1>. DEFINE Users == {i \in DOMAIN history : history[i].who = "user"}
<1>1. IsFiniteSet(1 .. Len(history)) /\ Users \subseteq 1 .. Len(history)
  <2>1. Len(history) \in Nat /\ DOMAIN history = 1 .. Len(history)
    OBVIOUS
  <2>. QED
    BY <2>1, FS_Interval
<1>2. IsFiniteSet(Users)
  BY <1>1, FS_Subset
<1>3. Turns \in Nat
  BY <1>2, FS_CardinalityType DEF Turns
<1>4. ASSUME NEW msg \in Messages, AddMessage(msg), msg.who = "user"
      PROVE  Turns' = Turns + 1
  <2>1. /\ history' \in Seq(Messages)
        /\ Len(history) \in Nat /\ Len(history') = Len(history) + 1
        /\ history'[Len(history) + 1] = msg
        /\ \A i \in 1 .. Len(history) : history'[i] = history[i]
    BY <1>4, Appending
  <2>2. DOMAIN history' = 1 .. Len(history) + 1 /\ DOMAIN history = 1 .. Len(history)
    BY <2>1
  <2>3. {i \in DOMAIN history' : history'[i].who = "user"} = Users \cup {Len(history) + 1}
    BY <1>4, <2>1, <2>2
  <2>4. Len(history) + 1 \notin Users
    BY <2>1, <2>2
  <2>. QED
    BY <1>2, <2>3, <2>4, FS_AddElement DEF Turns
<1>. QED
  BY <1>3, <1>4

\* A message of a person may stand anywhere.
LEMMA PersonFollows ==
    ASSUME history \in Seq(Messages), TurnsApart,
           NEW msg \in Messages, AddMessage(msg), msg.who = "user"
    PROVE  TurnsApart' /\ LastIs(history', "user", msg.turn)
<1>1. LastIs(history', "user", msg.turn)
  BY Appending DEF LastIs
<1>2. TurnsApart'
  <2>. SUFFICES ASSUME NEW i \in DOMAIN history', history'[i].who # "user"
                PROVE  /\ i > 1 /\ history'[i - 1].turn = history'[i].turn
                       /\ history'[i - 1].who = IF history'[i].who = "agent" THEN "user"
                                                ELSE "agent"
    BY DEF TurnsApart
  <2>1. i \in 1 .. Len(history) /\ history'[i] = history[i]
    BY Appending
  <2>2. i > 1 /\ i - 1 \in 1 .. Len(history)
    BY <2>1 DEF TurnsApart
  <2>3. history'[i - 1] = history[i - 1]
    BY <2>2, Appending
  <2>. QED
    BY <2>1, <2>2, <2>3 DEF TurnsApart
<1>. QED
  BY <1>1, <1>2

\* A reply stands behind its message, a surfacing behind its reply.
LEMMA AnswerFollows ==
    ASSUME history \in Seq(Messages), TurnsApart, NEW msg \in Messages, AddMessage(msg),
           NEW before \in {"user", "agent"}, LastIs(history, before, msg.turn),
           msg.who = IF before = "user" THEN "agent" ELSE "surfacing"
    PROVE  TurnsApart' /\ LastIs(history', msg.who, msg.turn)
<1>1. LastIs(history', msg.who, msg.turn)
  BY Appending DEF LastIs
<1>2. TurnsApart'
  <2>. SUFFICES ASSUME NEW i \in DOMAIN history', history'[i].who # "user"
                PROVE  /\ i > 1 /\ history'[i - 1].turn = history'[i].turn
                       /\ history'[i - 1].who = IF history'[i].who = "agent" THEN "user"
                                                ELSE "agent"
    BY DEF TurnsApart
  <2>1. CASE i = Len(history) + 1
    <3>1. history'[i] = msg /\ Len(history) \in 1 .. Len(history) /\ i - 1 = Len(history)
      BY <2>1, Appending DEF LastIs
    <3>2. history'[i - 1] = history[Len(history)]
      BY <3>1, Appending
    <3>. QED
      BY <2>1, <3>1, <3>2 DEF LastIs
  <2>2. CASE i # Len(history) + 1
    <3>1. i \in 1 .. Len(history) /\ history'[i] = history[i]
      BY <2>2, Appending
    <3>2. i > 1 /\ i - 1 \in 1 .. Len(history)
      BY <3>1 DEF TurnsApart
    <3>3. history'[i - 1] = history[i - 1]
      BY <3>2, Appending
    <3>. QED
      BY <3>1, <3>2, <3>3 DEF TurnsApart
  <2>. QED
    BY <2>1, <2>2
<1>. QED
  BY <1>1, <1>2

-----------------------------------------------------------------------------
(* The engine. *)

\* A fresh turn and an idle engine are what they are called.
LEMMA FreshTyped ==
    ASSUME NEW t \in Nat
    PROVE  /\ Fresh(t) \in EngineStates /\ Fresh(t).at = "start" /\ Fresh(t).turn = t
           /\ Idle \in EngineStates /\ Idle.at = "rest"
<1>1. <<>> \in Seq(Bits)
  OBVIOUS
<1>2. \A s \in Nat : Fresh(s) \in EngineStates /\ Fresh(s).at = "start" /\ Fresh(s).turn = s
  BY <1>1 DEF Fresh, EngineStates, Places, InLoop
<1>3. Idle \in EngineStates /\ Idle.at = "rest"
  BY <1>2 DEF Idle, EngineStates, Places
<1>. QED
  BY <1>2, <1>3

\* While its turn is not committed the engine moves within the turn, or ends it.
LEMMA EngineMoves ==
    ASSUME TurnInv, UNCHANGED <<claim, history>>, engine' \in EngineStates,
           engine.at \in Working, engine'.at \in Working \cup Ends,
           engine'.turn = engine.turn
    PROVE  TurnInv'
<1>1. claim' \notin {"free", "claimed", "closing"}
  BY DEF TurnInv, OwnsTheEnd, Working, Ends, InLoop
<1>2. LastIs(history', "user", engine'.turn) /\ engine'.at # "n1"
  BY DEF TurnInv, OwnsTheEnd, LastIs, Working, Ends, InLoop
<1>3. OwnsTheEnd'
  BY <1>1, <1>2 DEF OwnsTheEnd
<1>. QED
  BY <1>3 DEF TurnInv, TurnsApart

\* What one answer adds to what was said.
LEMMA PiecesTyped ==
    ASSUME engine \in EngineStates
    PROVE  /\ Whole(engine.answers) \in Seq(Bits)
           /\ Committed \in Seq(Bits) /\ KeptWhole \in Seq(Bits)
           /\ engine.said \o Whole(engine.answers) \in Seq(Bits)
           /\ engine.carried \o Whole(engine.answers) \in Seq(Bits)
<1>1. Chunks \in Nat /\ engine.answers \in Nat
  BY TurnConstants DEF EngineStates, TurnConstants
<1>2. Whole(engine.answers) \in Seq(Bits)
  BY <1>1 DEF Whole, Bits
<1>3. /\ engine.final \in Seq(Bits) /\ engine.carried \in Seq(Bits)
      /\ engine.left \in Seq(Bits) /\ engine.said \in Seq(Bits)
  BY DEF EngineStates
<1>. QED
  BY <1>2, <1>3 DEF Committed, KeptWhole

\* The steps that neither begin, commit nor end a turn.
LEMMA WorkInv ==
    ASSUME TurnInv,
           \/ Start \/ Top \/ AskFails \/ AskClipped \/ AskTools \/ AskText \/ AskDropped
           \/ Text \/ Stream \/ Tools \/ Peek \/ PeekDropped
    PROVE  TurnInv'
<1>. USE DEF Engine, At
<1>1. engine \in EngineStates
  BY DEF TurnInv
<1>2. \A place \in Places :
        /\ [engine EXCEPT !.at = place] \in EngineStates
        /\ [engine EXCEPT !.at = place].at = place
        /\ [engine EXCEPT !.at = place].turn = engine.turn
  BY <1>1 DEF EngineStates
<1>3. CASE Start
  BY <1>2, <1>3, EngineMoves DEF Start, Working, Places, InLoop, Ends
<1>4. ASSUME NEW final \in Seq(Bits), Interrupted(final), engine.at \in Working
      PROVE  TurnInv'
  <2>1. engine' \in EngineStates /\ engine'.at = "settle" /\ engine'.turn = engine.turn
    BY <1>1, <1>4 DEF Interrupted, EngineStates, Places
  <2>. QED
    BY <1>4, <2>1, EngineMoves DEF Interrupted, Working
<1>5. engine.final \in Seq(Bits)
  BY <1>1 DEF EngineStates
<1>6. CASE Top
  BY <1>2, <1>4, <1>5, <1>6, EngineMoves DEF Top, Working, Places, InLoop
<1>7. CASE AskFails
  BY <1>2, <1>7, EngineMoves DEF AskFails, Working, Places, InLoop, Ends
<1>8. CASE AskClipped \/ AskTools \/ AskText
  <2>1. engine' \in EngineStates /\ engine'.turn = engine.turn
        /\ engine'.at \in {"top", "tools", "text"}
    <3>1. engine.answers + 1 \in Nat /\ engine.rounds + 1 \in Nat
          /\ {"top", "tools", "text"} \subseteq Places
      BY <1>1 DEF EngineStates, Places, InLoop
    <3>2. CASE AskClipped
      BY <1>1, <3>1, <3>2 DEF AskClipped, EngineStates
    <3>3. CASE AskTools
      BY <1>1, <3>1, <3>3 DEF AskTools, EngineStates
    <3>4. CASE AskText
      BY <1>1, <3>1, <3>4 DEF AskText, EngineStates
    <3>. QED
      BY <1>8, <3>2, <3>3, <3>4
  <2>. QED
    BY <1>8, <2>1, EngineMoves DEF AskClipped, AskTools, AskText, Working, InLoop
<1>9. CASE AskDropped \/ PeekDropped
  BY <1>4, <1>5, <1>9 DEF AskDropped, PeekDropped, Working, InLoop
<1>10. CASE Text
  <2>1. engine' \in EngineStates /\ engine'.turn = engine.turn
        /\ engine'.at \in {"top", "stream"}
    <3>1. {"top", "stream"} \subseteq Places /\ <<>> \in Seq(Bits)
      BY DEF Places, InLoop
    <3>2. CASE NothingWaits
      BY <1>1, <1>10, <3>1, <3>2, PiecesTyped DEF Text, EngineStates
    <3>3. CASE ~NothingWaits
      BY <1>1, <1>10, <3>1, <3>3, PiecesTyped DEF Text, EngineStates
    <3>. QED
      BY <3>2, <3>3
  <2>. QED
    BY <1>10, <2>1, EngineMoves DEF Text, Working, InLoop
<1>11. CASE Stream
  <2>1. CASE Interrupted(engine.final)
    BY <1>4, <1>5, <1>11, <2>1 DEF Stream, Working
  <2>2. CASE engine.left # <<>> /\ listening /\
             Engine([engine EXCEPT !.left = Tail(@),
                                   !.final = Append(@, Head(engine.left)),
                                   !.said = Append(@, Head(engine.left))])
    <3>1. Tail(engine.left) \in Seq(Bits) /\ Head(engine.left) \in Bits
      BY <1>1, <2>2 DEF EngineStates
    <3>2. engine' \in EngineStates /\ engine'.turn = engine.turn /\ engine'.at = "stream"
      <4>1. /\ Append(engine.final, Head(engine.left)) \in Seq(Bits)
            /\ Append(engine.said, Head(engine.left)) \in Seq(Bits)
        BY <1>1, <3>1 DEF EngineStates
      <4>. QED
        BY <1>1, <1>11, <2>2, <3>1, <4>1 DEF EngineStates, Stream
    <3>. QED
      BY <1>11, <2>2, <3>2, EngineMoves DEF Stream, Working
  <2>3. CASE Engine([At("settle") EXCEPT !.interrupted = TRUE, !.final = KeptWhole])
    <3>1. engine' \in EngineStates /\ engine'.turn = engine.turn /\ engine'.at = "settle"
      BY <1>1, <2>3, PiecesTyped DEF EngineStates, Places
    <3>. QED
      BY <1>11, <2>3, <3>1, EngineMoves DEF Stream, Working
  <2>4. CASE Engine(At("settle"))
    BY <1>2, <1>11, <2>4, EngineMoves DEF Stream, Working, Places
  <2>. QED
    BY <1>11, <2>1, <2>2, <2>3, <2>4 DEF Stream
<1>12. CASE Tools
  BY <1>2, <1>12, EngineMoves DEF Tools, Working, Places, InLoop
<1>13. CASE Peek
  BY <1>2, <1>13, EngineMoves DEF Peek, Working, Places, InLoop
<1>. QED
  BY <1>3, <1>6, <1>7, <1>8, <1>9, <1>10, <1>11, <1>12, <1>13

\* The reply goes behind the message it answers, and the turn is over or its pass
\* begins.
LEMMA CommitInv ==
    ASSUME TurnInv, Commit PROVE TurnInv'
<1>. DEFINE msg == Entry("agent", engine.turn, Committed, Mark)
<1>1. engine \in EngineStates /\ history \in Seq(Messages) /\ TurnsApart
      /\ engine.at \in Working /\ LastIs(history, "user", engine.turn)
  BY DEF TurnInv, OwnsTheEnd, Commit, Working
<1>2. engine.turn \in Nat /\ Mark \in {"none", "hand", "felt"}
  BY <1>1 DEF EngineStates, Mark
<1>3. msg \in Messages /\ msg.who = "agent" /\ msg.turn = engine.turn
  <2>1. Committed \in Seq(Bits)
    BY <1>1, PiecesTyped
  <2>. QED
    BY <1>2, <2>1 DEF Entry, Messages
<1>4. AddMessage(msg) /\ UNCHANGED claim
      /\ \E place \in {"n1", "ended"} : engine' = [engine EXCEPT !.at = place]
  BY DEF Commit, At
<1>5. engine' \in EngineStates /\ engine'.turn = engine.turn
      /\ engine'.at \in {"n1", "ended"}
  BY <1>1, <1>4 DEF EngineStates, Places, Ends
<1>. HIDE DEF msg
<1>6. history' \in Seq(Messages) /\ TurnsApart' /\ LastIs(history', "agent", engine.turn)
  BY <1>1, <1>3, <1>4, <1>5, Appending, AnswerFollows
<1>7. claim' \notin {"free", "claimed", "closing"}
  BY <1>1, <1>4 DEF TurnInv, OwnsTheEnd, Working, InLoop, Ends
<1>8. OwnsTheEnd'
  BY <1>5, <1>6, <1>7 DEF OwnsTheEnd, Working, InLoop
<1>. QED
  BY <1>5, <1>6, <1>8 DEF TurnInv

\* A surfacing is appended right behind the reply it is about.
LEMMA AfterTurnInv ==
    ASSUME TurnInv, AfterTurn PROVE TurnInv'
<1>. DEFINE msg == Entry("surfacing", engine.turn, <<>>, "none")
<1>1. engine \in EngineStates /\ history \in Seq(Messages) /\ TurnsApart
      /\ engine.at = "n1" /\ LastIs(history, "agent", engine.turn)
  BY DEF TurnInv, OwnsTheEnd, AfterTurn
<1>2. msg \in Messages /\ msg.who = "surfacing" /\ msg.turn = engine.turn
  <2>1. engine.turn \in Nat /\ <<>> \in Seq(Bits)
    BY <1>1 DEF EngineStates
  <2>. QED
    BY <2>1 DEF Entry, Messages
<1>3. UNCHANGED claim /\ (AddMessage(msg) \/ UNCHANGED history)
      /\ \E place \in Ends : engine' = [engine EXCEPT !.at = place]
  BY DEF AfterTurn, Engine, At, Ends
<1>4. engine' \in EngineStates /\ engine'.at \in Ends
  BY <1>1, <1>3 DEF EngineStates, Places, Ends
<1>. HIDE DEF msg
<1>5. history' \in Seq(Messages) /\ TurnsApart'
  <2>1. CASE AddMessage(msg)
    BY <1>1, <1>2, <2>1, Appending, AnswerFollows
  <2>2. CASE UNCHANGED history
    BY <1>1, <2>2 DEF TurnsApart
  <2>. QED
    BY <1>3, <2>1, <2>2
<1>6. claim' \notin {"free", "claimed", "closing"}
  BY <1>1, <1>3 DEF TurnInv, OwnsTheEnd, Ends
<1>7. OwnsTheEnd'
  BY <1>4, <1>6 DEF OwnsTheEnd, Working, InLoop, Ends
<1>. QED
  BY <1>4, <1>5, <1>7 DEF TurnInv

-----------------------------------------------------------------------------
(* Claiming and giving back. *)

\* A post takes the claim, if nobody has it.
LEMMA PostInv ==
    ASSUME TurnInv, Post PROVE TurnInv'
<1>. DEFINE msg == Entry("user", Turns + 1, <<>>, "none")
<1>1. history \in Seq(Messages) /\ TurnsApart /\ engine.at = "rest" /\ Turns \in Nat
  BY TurnsCounts DEF TurnInv, OwnsTheEnd, Post, Unclaimed
<1>2. msg \in Messages /\ msg.who = "user" /\ msg.turn = Turns + 1
  <2>1. Turns + 1 \in Nat /\ <<>> \in Seq(Bits)
    BY <1>1
  <2>. QED
    BY <2>1 DEF Entry, Messages
<1>3. AddMessage(msg) /\ claim' = "claimed" /\ UNCHANGED engine
  BY DEF Post
<1>. HIDE DEF msg
<1>4. /\ history' \in Seq(Messages) /\ TurnsApart' /\ Turns' = Turns + 1
      /\ LastIs(history', "user", msg.turn)
  BY <1>1, <1>2, <1>3, Appending, PersonFollows, TurnsCounts
<1>5. LastIs(history', "user", Turns')
  BY <1>2, <1>4 DEF LastIs
<1>6. OwnsTheEnd'
  BY <1>1, <1>3, <1>5 DEF OwnsTheEnd, Working, InLoop
<1>. QED
  BY <1>3, <1>4, <1>6 DEF TurnInv

\* The handler installs its signals under the claim.
LEMMA InstallInv ==
    ASSUME TurnInv, Install PROVE TurnInv'
<1>1. Turns \in Nat /\ LastIs(history, "user", Turns) /\ engine' = Fresh(Turns)
      /\ claim' = "streaming" /\ UNCHANGED history
  BY TurnsCounts DEF TurnInv, OwnsTheEnd, Install
<1>2. engine' \in EngineStates /\ engine'.at = "start" /\ engine'.turn = Turns
  BY <1>1, FreshTyped
<1>3. OwnsTheEnd'
  BY <1>1, <1>2 DEF OwnsTheEnd, LastIs
<1>. QED
  BY <1>1, <1>2, <1>3 DEF TurnInv, TurnsApart

\* A turn that is submitted begins with its own message.
LEMMA SubmitInv ==
    ASSUME TurnInv, NEW notes, Submit(notes) PROVE TurnInv'
<1>. DEFINE msg == Entry("user", Turns + 1, <<>>, "none")
<1>1. history \in Seq(Messages) /\ TurnsApart /\ Turns \in Nat
  BY TurnsCounts DEF TurnInv
<1>2. msg \in Messages /\ msg.who = "user" /\ msg.turn = Turns + 1
  <2>1. Turns + 1 \in Nat /\ <<>> \in Seq(Bits)
    BY <1>1
  <2>. QED
    BY <2>1 DEF Entry, Messages
<1>3. AddMessage(msg) /\ claim' = "streaming" /\ engine' = Fresh(Turns + 1)
  BY DEF Submit
<1>. HIDE DEF msg
<1>4. history' \in Seq(Messages) /\ TurnsApart' /\ LastIs(history', "user", msg.turn)
  BY <1>1, <1>2, <1>3, Appending, PersonFollows
<1>5. engine' \in EngineStates /\ engine'.at = "start" /\ engine'.turn = msg.turn
  BY <1>1, <1>2, <1>3, FreshTyped
<1>6. LastIs(history', "user", engine'.turn)
  BY <1>4, <1>5 DEF LastIs
<1>7. OwnsTheEnd'
  BY <1>3, <1>5, <1>6 DEF OwnsTheEnd
<1>. QED
  BY <1>4, <1>5, <1>7 DEF TurnInv

\* A turn that is over leaves the history alone.
LEMMA EndInv ==
    ASSUME TurnInv, Close \/ Finish \/ Done PROVE TurnInv'
<1>1. CASE Close
  <2>1. OwnsTheEnd'
    BY <1>1 DEF TurnInv, Close, Returned, OwnsTheEnd, LastIs
  <2>. QED
    BY <1>1, <2>1 DEF TurnInv, Close, TurnsApart
<1>2. ASSUME claim' = "free", engine' = Idle, UNCHANGED history
      PROVE  TurnInv'
  <2>1. engine' \in EngineStates /\ engine'.at = "rest"
    BY <1>2, FreshTyped
  <2>2. OwnsTheEnd'
    BY <1>2, <2>1 DEF OwnsTheEnd, Working, InLoop
  <2>. QED
    BY <1>2, <2>1, <2>2 DEF TurnInv, TurnsApart
<1>. QED
  BY <1>1, <1>2, SubmitInv DEF Finish, Done

-----------------------------------------------------------------------------

\* It holds at the beginning.
LEMMA TurnInitInv == Init => TurnInv
<1>. SUFFICES ASSUME Init PROVE TurnInv
  OBVIOUS
<1>1. engine \in EngineStates /\ engine.at = "rest" /\ claim = "free"
  BY FreshTyped DEF Init
<1>2. history = <<>> /\ history \in Seq(Messages)
  BY DEF Init
<1>. QED
  BY <1>1, <1>2 DEF TurnInv, OwnsTheEnd, TurnsApart, Working, InLoop

\* Every step keeps it.
LEMMA TurnStepInv ==
    ASSUME TurnInv, [Next]_vars PROVE TurnInv'
<1>1. CASE RaiseHand \/ Leave \/ (\E n \in Notes : Interject(n)) \/ UNCHANGED vars
  <2>1. UNCHANGED <<claim, engine, history>>
    BY <1>1 DEF RaiseHand, Leave, Interject, vars
  <2>. QED
    BY <2>1 DEF TurnInv, OwnsTheEnd, LastIs, Turns, TurnsApart
<1>2. CASE Post \/ Install \/ Send \/ Close \/ Finish \/ Done
  BY <1>2, PostInv, InstallInv, SubmitInv, EndInv DEF Send
<1>3. CASE Commit \/ AfterTurn
  BY <1>3, CommitInv, AfterTurnInv
<1>. QED
  BY <1>1, <1>2, <1>3, WorkInv DEF Next, Provider, Code, People

\* A reply follows the message it answers and a surfacing the reply it is about, with
\* nothing of another turn between (begin_turn, run_turn's commit and its pass after
\* the turn), for any number of turns and notes, on either surface.
THEOREM TurnsStayApart == Spec => []TurnsApart
<1>1. TurnInv => TurnsApart
  BY DEF TurnInv
<1>. QED
  BY <1>1, TurnInitInv, TurnStepInv, PTL DEF Spec

-----------------------------------------------------------------------------
(*****************************************************************************)
(* Answers and notes.                                                        *)
(*                                                                           *)
(* An answer costs one of the asides or a note that was read, which bounds how *)
(* often a turn asks (Spent).  What was said is at each place what was carried *)
(* over, what is committed, or a beginning of it (Accounted).  A turn that is *)
(* about to end of itself has no note left that came in time (QuietEnd).     *)
(*****************************************************************************)

ReadSoFar == {n \in Notes : fate[n] = "read"}

\* Places at which each answer so far was an aside or was reopened by a note.
Unended == {"start", "top", "ask", "tools", "peek"}

\* Answers are paid for by asides and by the notes that were read.
Spent ==
    /\ engine.answers <= MaxAsides + Cardinality(ReadSoFar)
                         + (IF engine.at \in Unended THEN 0 ELSE 1)
    /\ engine.rounds <= engine.answers
    /\ engine.at = "text" => engine.answers > 0

Queued == \A n \in Range(signals.notes) : fate[n] \in {"early", "late"}

Wholes(s) == \A p \in Range(s) : {p[1]} \X (1 .. Chunks) \subseteq Range(s)

\* What was said is what was carried, until the final answer is streamed.
Accounted ==
    /\ Wholes(engine.carried)
    /\ engine.at \in InLoop \cup {"halt"} => engine.said = engine.carried
    /\ engine.at = "stream" => engine.said = Committed /\ KeptWhole = Whole(engine.answers)
    /\ engine.at = "settle" =>
         /\ IsPrefix(engine.said, Committed)
         /\ engine.interrupted \/ engine.final = Whole(engine.answers)

\* No note accepted in time waits behind a turn that ends of itself.
QuietEnd ==
    engine.at \in {"stream", "n1"} \/ (engine.at = "settle" /\ ~engine.interrupted) =>
        \A n \in Range(signals.notes) : fate[n] # "early"

AnswerInv ==
    /\ TypeOK /\ Spent /\ Queued
    /\ Accounted /\ SaidIsKept /\ WholeUnlessMarked
    /\ QuietEnd

-----------------------------------------------------------------------------
\* What is in a sequence, in two joined and in one made longer.
LEMMA RangeIs ==
    ASSUME NEW S, NEW s \in Seq(S), NEW t \in Seq(S), NEW e \in S
    PROVE  /\ Range(s) = {s[i] : i \in 1 .. Len(s)} /\ Range(s) \subseteq S
           /\ Range(s \o t) = Range(s) \cup Range(t)
           /\ Range(Append(s, e)) = Range(s) \cup {e}
           /\ Range(<<>>) = {}
<1>1. Range(s) = {s[i] : i \in 1 .. Len(s)} /\ Range(s) \subseteq S
  BY DEF Range
<1>2. Range(s \o t) = Range(s) \cup Range(t)
  BY RangeConcatenation
<1>3. Range(Append(s, e)) = Range(s) \cup {e}
  BY DEF Range
<1>4. Range(<<>>) = {}
  BY DEF Range
<1>. QED
  BY <1>1, <1>2, <1>3, <1>4

\* A sequence begins what continues it.
LEMMA PrefixOfMore ==
    ASSUME NEW S, NEW s \in Seq(S), NEW t \in Seq(S)
    PROVE  IsPrefix(s, s \o t) /\ IsPrefix(s, s)
<1>1. Len(s) \in Nat /\ Len(s \o t) = Len(s) + Len(t) /\ Len(t) \in Nat /\ s \o t \in Seq(S)
  OBVIOUS
<1>2. SubSeq(s \o t, 1, Len(s)) = SubSeq(s, 1, Len(s))
  <2>1. CASE s = <<>>
    BY <1>1, <2>1
  <2>2. CASE s # <<>>
    BY <1>1, <2>2, SubSeqOfConcat1
  <2>. QED
    BY <2>1, <2>2
<1>. QED
  BY <1>1, <1>2 DEF IsPrefix

\* The piece that is streamed goes from what is left to what was said.
LEMMA OneMoved ==
    ASSUME NEW S, NEW s \in Seq(S), NEW t \in Seq(S), t # <<>>
    PROVE  /\ Append(s, Head(t)) \o Tail(t) = s \o t
           /\ Append(s, Head(t)) \in Seq(S) /\ Tail(t) \in Seq(S) /\ Head(t) \in S
<1>1. Append(s, Head(t)) \in Seq(S) /\ Tail(t) \in Seq(S) /\ Head(t) \in S
  OBVIOUS
<1>2. <<Head(t)>> \in Seq(S)
  BY <1>1
<1>3. Append(s, Head(t)) = s \o <<Head(t)>>
  BY <1>1, AppendIsConcat
<1>4. <<Head(t)>> \o Tail(t) = t
  OBVIOUS
<1>5. (s \o <<Head(t)>>) \o Tail(t) = s \o (<<Head(t)>> \o Tail(t))
  BY <1>1, <1>2, ConcatAssociative
<1>. QED
  BY <1>1, <1>3, <1>4, <1>5

\* An answer is all of its pieces and nothing else.
LEMMA WholeAnswer ==
    ASSUME NEW k \in Nat
    PROVE  /\ Whole(k) \in Seq({k} \X (1 .. Chunks)) /\ Whole(k) # <<>>
           /\ Range(Whole(k)) = {k} \X (1 .. Chunks)
           /\ Wholes(Whole(k)) /\ Wholes(<<>>)
<1>1. Chunks \in Nat \ {0}
  BY TurnConstants DEF TurnConstants
<1>2. Whole(k) \in Seq({k} \X (1 .. Chunks)) /\ Len(Whole(k)) = Chunks
  BY <1>1 DEF Whole
<1>3. Range(Whole(k)) = {k} \X (1 .. Chunks)
  BY <1>1 DEF Whole, Range
<1>4. Range(<<>>) = {}
  BY DEF Range
<1>. QED
  BY <1>1, <1>2, <1>3, <1>4 DEF Wholes

\* Whole answers after each other are whole.
LEMMA WholesJoin ==
    ASSUME NEW S, NEW s \in Seq(S), NEW t \in Seq(S), Wholes(s), Wholes(t)
    PROVE  Wholes(s \o t)
<1>1. Range(s \o t) = Range(s) \cup Range(t)
  BY RangeConcatenation
<1>. QED
  BY <1>1 DEF Wholes

-----------------------------------------------------------------------------
(* What the answers cost. *)

\* A note that is read pays for one more answer.
LEMMA ReadingCounts ==
    ASSUME NEW r \in SUBSET Notes, NEW q \in SUBSET Notes, q \subseteq r
    PROVE  /\ {Cardinality(q), Cardinality(r), MaxAnswers} \subseteq Nat
           /\ Cardinality(q) <= Cardinality(r)
           /\ q # r => Cardinality(q) + 1 <= Cardinality(r)
           /\ MaxAsides + Cardinality(r) + 1 <= MaxAnswers
<1>1. IsFiniteSet(Notes) /\ MaxAsides \in Nat
  BY TurnConstants DEF TurnConstants
<1>2. IsFiniteSet(r) /\ IsFiniteSet(q)
  BY <1>1, FS_Subset
<1>3. {Cardinality(q), Cardinality(r), Cardinality(Notes)} \subseteq Nat
  BY <1>1, <1>2, FS_CardinalityType
<1>4. Cardinality(q) <= Cardinality(r) /\ Cardinality(r) <= Cardinality(Notes)
  BY <1>1, <1>2, FS_Subset
<1>5. q # r => Cardinality(q) # Cardinality(r)
  BY <1>2, FS_Subset
<1>. QED
  BY <1>1, <1>3, <1>4, <1>5 DEF MaxAnswers

\* Whoever can pay for its answers has few of them.
LEMMA FewAnswers ==
    ASSUME NEW e \in EngineStates, NEW r \in SUBSET Notes, e.rounds <= e.answers,
           NEW more \in {0, 1}, e.answers <= MaxAsides + Cardinality(r) + more
    PROVE  e.answers \in 0 .. MaxAnswers /\ e.rounds \in 0 .. MaxAnswers
<1>1. e.answers \in Nat /\ e.rounds \in Nat /\ MaxAsides \in Nat
  BY TurnConstants DEF EngineStates, TurnConstants
<1>2. Cardinality(r) \in Nat /\ MaxAsides + Cardinality(r) + 1 <= MaxAnswers
      /\ MaxAnswers \in Nat
  BY ReadingCounts
<1>. QED
  BY <1>1, <1>2

-----------------------------------------------------------------------------
(* The engine's steps. *)

Streams == {engine.left, engine.final, engine.carried, engine.said}

\* The engine goes on in its turn, with what it had.
LEMMA Onward ==
    ASSUME AnswerInv, TurnInv, TurnInv', Spent',
           UNCHANGED <<surface, claim, signals, history, listening, fate>>,
           engine.at \in InLoop, engine'.at \in InLoop \cup {"halt", "failed"},
           engine'.left = engine.left, engine'.final = engine.final,
           engine'.carried = engine.carried, engine'.said = engine.said
    PROVE  AnswerInv'
<1>1. engine' \in EngineStates /\ engine'.at \in Places /\ engine'.turn \in Nat
      /\ engine'.interrupted \in BOOLEAN
  BY DEF TurnInv, EngineStates
<1>2. engine'.answers \in 0 .. MaxAnswers /\ engine'.rounds \in 0 .. MaxAnswers
  <2>1. ReadSoFar' \in SUBSET Notes
    BY DEF ReadSoFar
  <2>2. PICK more \in {0, 1} : engine'.answers <= MaxAsides + Cardinality(ReadSoFar') + more
    BY DEF Spent
  <2>. QED
    BY <1>1, <2>1, <2>2, FewAnswers DEF Spent
<1>3. TypeOK'
  BY <1>1, <1>2 DEF AnswerInv, TypeOK
<1>4. Queued' /\ WholeUnlessMarked'
  BY DEF AnswerInv, Queued, WholeUnlessMarked
<1>5. SaidIsKept' /\ QuietEnd'
  BY DEF SaidIsKept, QuietEnd, InLoop
<1>6. Accounted'
  BY DEF AnswerInv, Accounted, InLoop, Wholes
<1>. QED
  BY <1>3, <1>4, <1>5, <1>6 DEF AnswerInv

\* The steps that go on in the turn without a note, a hand or a stream.
LEMMA GoingOn ==
    ASSUME AnswerInv, TurnInv, TurnInv',
           Start \/ AskFails \/ AskClipped \/ AskTools \/ AskText \/ Tools \/ Peek
    PROVE  AnswerInv'
<1>. USE DEF Engine, At
<1>1. engine \in EngineStates
  BY DEF TurnInv
<1>2. engine.answers \in Nat /\ engine.rounds \in Nat /\ ReadSoFar' = ReadSoFar
  BY <1>1 DEF EngineStates, ReadSoFar, Start, AskFails, AskClipped, AskTools, AskText, Tools, Peek
<1>3. Cardinality(ReadSoFar) \in Nat /\ MaxAsides \in Nat
  BY ReadingCounts, TurnConstants DEF ReadSoFar, TurnConstants
<1>4. UNCHANGED <<surface, claim, signals, history, listening, fate>>
  BY DEF Start, AskFails, AskClipped, AskTools, AskText, Tools, Peek
<1>5. CASE Start \/ AskFails \/ Tools \/ Peek
  <2>1. PICK place \in {"top", "peek", "halt", "failed"} :
             engine' = [engine EXCEPT !.at = place]
    BY <1>5 DEF Start, AskFails, Tools, Peek, InLoop
  <2>2. /\ engine'.answers = engine.answers /\ engine'.rounds = engine.rounds
        /\ engine'.left = engine.left /\ engine'.final = engine.final
        /\ engine'.carried = engine.carried /\ engine'.said = engine.said
        /\ engine'.at = place
    BY <1>1, <2>1 DEF EngineStates
  <2>3. engine.at \in Unended /\ engine.at \in InLoop
    BY <1>5 DEF Start, AskFails, Tools, Peek, Unended, InLoop
  <2>4. Spent'
    BY <1>2, <1>3, <2>2, <2>3 DEF AnswerInv, Spent
  <2>. QED
    BY <1>4, <2>2, <2>3, <2>4, Onward DEF InLoop
<1>6. CASE AskClipped \/ AskTools
  <2>1. /\ engine'.answers = engine.answers + 1 /\ engine.answers < MaxAsides
        /\ engine'.rounds \in {engine.rounds, engine.rounds + 1}
        /\ engine'.left = engine.left /\ engine'.final = engine.final
        /\ engine'.carried = engine.carried /\ engine'.said = engine.said
        /\ engine'.at \in {"top", "tools"} /\ engine.at = "ask"
    BY <1>1, <1>6 DEF AskClipped, AskTools, EngineStates
  <2>2. Spent'
    BY <1>2, <1>3, <2>1 DEF AnswerInv, Spent
  <2>. QED
    BY <1>4, <2>1, <2>2, Onward DEF InLoop
<1>7. CASE AskText
  <2>1. /\ engine'.answers = engine.answers + 1 /\ engine'.rounds = engine.rounds
        /\ engine'.left = engine.left /\ engine'.final = engine.final
        /\ engine'.carried = engine.carried /\ engine'.said = engine.said
        /\ engine'.at = "text" /\ engine.at = "ask"
    BY <1>1, <1>7 DEF AskText, EngineStates
  <2>2. Spent'
    BY <1>2, <1>3, <2>1 DEF AnswerInv, Spent, Unended
  <2>. QED
    BY <1>4, <2>1, <2>2, Onward DEF InLoop
<1>. QED
  BY <1>5, <1>6, <1>7

\* The turn goes to its end with what was said of it.
LEMMA Settling ==
    ASSUME AnswerInv, TurnInv, TurnInv',
           UNCHANGED <<surface, claim, signals, history, listening, fate>>,
           engine.at \in InLoop \cup {"stream"}, engine'.at = "settle",
           engine'.answers = engine.answers, engine'.rounds = engine.rounds,
           engine'.left = engine.left, engine'.carried = engine.carried,
           engine'.said = engine.said, engine'.final \in Seq(Pieces),
           IsPrefix(engine.said, engine.carried \o engine'.final),
           \/ engine'.interrupted
           \/ engine'.final = Whole(engine.answers) /\ engine.at = "stream"
    PROVE  AnswerInv'
<1>1. engine' \in EngineStates /\ engine'.at \in Places /\ engine'.turn \in Nat
      /\ engine'.interrupted \in BOOLEAN /\ engine.answers \in Nat
  BY DEF TurnInv, EngineStates
<1>2. engine'.answers \in 0 .. MaxAnswers /\ engine'.rounds \in 0 .. MaxAnswers
  BY DEF AnswerInv, TypeOK
<1>3. TypeOK'
  BY <1>1, <1>2 DEF AnswerInv, TypeOK
<1>4. Queued' /\ WholeUnlessMarked' /\ SaidIsKept'
  BY DEF AnswerInv, Queued, WholeUnlessMarked, SaidIsKept
<1>5. QuietEnd'
  BY DEF QuietEnd, AnswerInv
<1>6. Accounted'
  BY DEF AnswerInv, Accounted, Wholes, InLoop, Committed
<1>7. Spent'
  <2>1. Cardinality(ReadSoFar) \in Nat /\ MaxAsides \in Nat /\ ReadSoFar' = ReadSoFar
    BY ReadingCounts, TurnConstants DEF ReadSoFar, TurnConstants
  <2>. QED
    BY <1>1, <2>1 DEF AnswerInv, Spent, Unended
<1>. QED
  BY <1>3, <1>4, <1>5, <1>6, <1>7 DEF AnswerInv

\* A raised hand ends the turn with what had been said of the answer.
LEMMA HandCuts ==
    ASSUME AnswerInv, TurnInv, TurnInv', Interrupted(engine.final),
           engine.at \in InLoop \cup {"stream"}
    PROVE  AnswerInv'
<1>1. engine \in EngineStates
  BY DEF TurnInv
<1>2. /\ UNCHANGED <<surface, claim, signals, history, listening, fate>>
      /\ engine'.at = "settle" /\ engine'.interrupted
      /\ engine'.answers = engine.answers /\ engine'.rounds = engine.rounds
      /\ engine'.left = engine.left /\ engine'.carried = engine.carried
      /\ engine'.said = engine.said /\ engine'.final = engine.final
  BY <1>1 DEF Interrupted, Engine, At, EngineStates
<1>3. engine.final \in Seq(Pieces) /\ engine.carried \in Seq(Pieces)
  BY DEF AnswerInv, TypeOK
<1>4. engine.said = engine.carried \/ engine.said = engine.carried \o engine.final
  BY DEF AnswerInv, Accounted, Committed
<1>5. IsPrefix(engine.said, engine.carried \o engine.final)
  <2>1. engine.carried \o engine.final \in Seq(Pieces)
    BY <1>3, ConcatProperties
  <2>. QED
    BY <1>3, <1>4, <2>1, PrefixOfMore
<1>. QED
  BY <1>2, <1>3, <1>5, Settling


\* Notes that are read were queued, and had not been read.
LEMMA NotesAreRead ==
    ASSUME AnswerInv, NotesRead
    PROVE  /\ fate' \in [Notes -> {"unsent", "early", "late", "read"}]
           /\ ReadSoFar \in SUBSET Notes /\ ReadSoFar' \in SUBSET Notes
           /\ ReadSoFar \subseteq ReadSoFar'
           /\ signals.notes # <<>> => ReadSoFar' # ReadSoFar
<1>1. signals.notes \in Seq(Notes) /\ fate \in [Notes -> {"unsent", "early", "late", "read"}]
  BY DEF AnswerInv, TypeOK
<1>2. /\ fate' \in [Notes -> {"unsent", "early", "late", "read"}]
      /\ ReadSoFar \in SUBSET Notes /\ ReadSoFar' \in SUBSET Notes
           /\ ReadSoFar \subseteq ReadSoFar'
  BY <1>1 DEF NotesRead, ReadSoFar
<1>3. ASSUME signals.notes # <<>> PROVE ReadSoFar' # ReadSoFar
  <2>1. 1 \in 1 .. Len(signals.notes)
    BY <1>1, <1>3
  <2>2. PICK n \in Notes : n \in Range(signals.notes)
    BY <1>1, <2>1 DEF Range
  <2>3. fate[n] # "read" /\ fate'[n] = "read"
    BY <2>2 DEF AnswerInv, Queued, NotesRead, Reading
  <2>. QED
    BY <2>2, <2>3 DEF ReadSoFar
<1>. QED
  BY <1>2, <1>3

\* The backchannel is emptied into the next question.
LEMMA Asking ==
    ASSUME AnswerInv, TurnInv, TurnInv', ReadNotes,
           UNCHANGED <<surface, claim, history, listening>>,
           engine.at \in {"top", "text"}, engine'.at \in {"top", "ask"},
           engine.at = "text" => signals.notes # <<>>,
           engine'.answers = engine.answers, engine'.rounds = engine.rounds,
           engine'.left = engine.left, engine'.final \in Seq(Pieces),
           engine'.carried \in Seq(Pieces), engine'.said = engine'.carried,
           Wholes(engine'.carried)
    PROVE  AnswerInv'
<1>1. engine' \in EngineStates /\ engine'.at \in Places /\ engine'.turn \in Nat
      /\ engine'.interrupted \in BOOLEAN /\ engine.answers \in Nat
  BY DEF TurnInv, EngineStates
<1>2. /\ fate' \in [Notes -> {"unsent", "early", "late", "read"}]
      /\ ReadSoFar \in SUBSET Notes /\ ReadSoFar' \in SUBSET Notes
           /\ ReadSoFar \subseteq ReadSoFar'
      /\ signals.notes # <<>> => ReadSoFar' # ReadSoFar
  BY NotesAreRead DEF ReadNotes
<1>3. signals' \in [open: BOOLEAN, hand: BOOLEAN, notes: Seq(Notes)] /\ signals'.notes = <<>>
  <2>1. signals \in [open: BOOLEAN, hand: BOOLEAN, notes: Seq(Notes)] /\ <<>> \in Seq(Notes)
    BY DEF AnswerInv, TypeOK
  <2>2. signals' = [signals EXCEPT !.notes = <<>>]
    BY DEF ReadNotes
  <2>. QED
    BY <2>1, <2>2
<1>4. engine'.answers \in 0 .. MaxAnswers /\ engine'.rounds \in 0 .. MaxAnswers
  BY DEF AnswerInv, TypeOK
<1>5. TypeOK'
  BY <1>1, <1>2, <1>3, <1>4 DEF AnswerInv, TypeOK
<1>6. Queued'
  BY <1>3 DEF Queued, Range
<1>7. WholeUnlessMarked' /\ SaidIsKept' /\ QuietEnd'
  BY DEF AnswerInv, WholeUnlessMarked, SaidIsKept, QuietEnd
<1>8. Accounted'
  BY DEF Accounted, InLoop
<1>9. Spent'
  <2>1. /\ {Cardinality(ReadSoFar), Cardinality(ReadSoFar'), MaxAsides} \subseteq Nat
        /\ Cardinality(ReadSoFar) <= Cardinality(ReadSoFar')
        /\ engine.at = "text" => Cardinality(ReadSoFar) + 1 <= Cardinality(ReadSoFar')
    BY <1>2, ReadingCounts, TurnConstants DEF TurnConstants
  <2>. QED
    BY <1>1, <2>1 DEF AnswerInv, Spent, Unended
<1>. QED
  BY <1>5, <1>6, <1>7, <1>8, <1>9 DEF AnswerInv

\* The top of the loop reads the notes before it asks.
LEMMA TopAsks ==
    ASSUME AnswerInv, TurnInv, TurnInv', Top PROVE AnswerInv'
<1>1. CASE Interrupted(engine.final)
  BY <1>1, HandCuts DEF Top, InLoop
<1>2. CASE engine' = At("ask") /\ ReadNotes /\ UNCHANGED <<surface, claim, history, listening>>
  <2>1. engine \in EngineStates
    BY DEF TurnInv
  <2>2. /\ engine'.answers = engine.answers /\ engine'.rounds = engine.rounds
        /\ engine'.left = engine.left /\ engine'.final = engine.final
        /\ engine'.carried = engine.carried /\ engine'.said = engine.said
        /\ engine'.at = "ask" /\ engine.at = "top"
    BY <1>2, <2>1 DEF EngineStates, At, Top
  <2>3. engine.final \in Seq(Pieces) /\ engine.carried \in Seq(Pieces)
    BY DEF AnswerInv, TypeOK
  <2>4. Wholes(engine.carried) /\ engine.said = engine.carried
    BY <2>2 DEF AnswerInv, Accounted, InLoop
  <2>. QED
    BY <1>2, <2>2, <2>3, <2>4, Asking
<1>. QED
  BY <1>1, <1>2 DEF Top


\* An answer in text is streamed, or is reopened by the notes that came meanwhile.
LEMMA TextEnds ==
    ASSUME AnswerInv, TurnInv, TurnInv', Text PROVE AnswerInv'
<1>. DEFINE all == Whole(engine.answers)
<1>1. engine \in EngineStates /\ engine.at = "text"
  BY DEF TurnInv, Text
<1>2. engine.answers \in Answers /\ engine.answers \in Nat
  <2>1. engine.answers \in 0 .. MaxAnswers /\ engine.answers > 0
    BY <1>1 DEF AnswerInv, TypeOK, Spent
  <2>. QED
    BY <2>1 DEF Answers
<1>3. /\ all \in Seq(Pieces) /\ all # <<>> /\ Wholes(all)
      /\ engine.carried \in Seq(Pieces) /\ engine.said = engine.carried
      /\ Wholes(engine.carried) /\ <<>> \in Seq(Pieces)
  <2>1. all \in Seq({engine.answers} \X (1 .. Chunks))
    BY <1>2, WholeAnswer
  <2>2. {engine.answers} \X (1 .. Chunks) \subseteq Pieces
    BY <1>2 DEF Pieces
  <2>3. all \in Seq(Pieces)
    BY <2>1, <2>2, SeqMonotonic
  <2>4. all # <<>> /\ Wholes(all)
    BY <1>2, WholeAnswer
  <2>5. engine.carried \in Seq(Pieces) /\ <<>> \in Seq(Pieces)
    BY DEF AnswerInv, TypeOK
  <2>6. engine.said = engine.carried /\ Wholes(engine.carried)
    BY <1>1 DEF AnswerInv, Accounted, InLoop
  <2>. QED
    BY <2>3, <2>4, <2>5, <2>6
<1>. HIDE DEF all
<1>4. CASE ~NothingWaits
  <2>1. /\ ReadNotes /\ UNCHANGED <<surface, claim, history, listening>>
        /\ engine' = [engine EXCEPT !.at = "top", !.said = engine.said \o all,
                                    !.carried = engine.carried \o all, !.final = all]
    BY <1>4 DEF Text, At, all
  <2>2. /\ engine'.at = "top" /\ engine'.answers = engine.answers
        /\ engine'.rounds = engine.rounds /\ engine'.left = engine.left
        /\ engine'.final = all /\ engine'.carried = engine.carried \o all
        /\ engine'.said = engine.said \o all
    BY <1>1, <2>1 DEF EngineStates
  <2>3. engine.carried \o all \in Seq(Pieces) /\ Wholes(engine.carried \o all)
    BY <1>3, ConcatProperties, WholesJoin
  <2>. QED
    BY <1>1, <1>3, <1>4, <2>1, <2>2, <2>3, Asking DEF NothingWaits
<1>5. CASE NothingWaits
  <2>1. /\ UNCHANGED <<surface, claim, signals, history, listening, fate>>
        /\ engine' = [engine EXCEPT !.at = "stream", !.left = all, !.final = <<>>]
    BY <1>1, <1>5 DEF Text, At, Engine, all, NothingWaits
  <2>2. /\ engine'.at = "stream" /\ engine'.answers = engine.answers
        /\ engine'.rounds = engine.rounds /\ engine'.left = all
        /\ engine'.final = <<>> /\ engine'.carried = engine.carried
        /\ engine'.said = engine.said /\ engine'.turn = engine.turn
        /\ engine'.interrupted = engine.interrupted
    BY <1>1, <2>1 DEF EngineStates
  <2>3. TypeOK'
    BY <1>1, <1>3, <2>1, <2>2 DEF AnswerInv, TypeOK, Places
  <2>4. Queued' /\ WholeUnlessMarked' /\ SaidIsKept'
    BY <2>1, <2>2 DEF AnswerInv, Queued, WholeUnlessMarked, SaidIsKept
  <2>5. QuietEnd'
    BY <1>5, <2>1 DEF NothingWaits, QuietEnd, Range
  <2>6. Accounted'
    <3>1. engine.carried \o <<>> = engine.carried /\ <<>> \o all = all
      BY <1>3, ConcatEmptySeq
    <3>. QED
      BY <1>3, <2>2, <3>1 DEF Accounted, Wholes, Committed, KeptWhole, InLoop, all
  <2>7. Spent'
    <3>1. ReadSoFar' = ReadSoFar
      BY <2>1 DEF ReadSoFar
    <3>. QED
      BY <1>1, <2>2, <3>1 DEF AnswerInv, Spent, Unended
  <2>. QED
    BY <2>3, <2>4, <2>5, <2>6, <2>7 DEF AnswerInv
<1>. QED
  BY <1>4, <1>5

\* A piece that is streamed has been said, the last one of them ends the answer.
LEMMA Streaming ==
    ASSUME AnswerInv, TurnInv, TurnInv', Stream PROVE AnswerInv'
<1>1. engine \in EngineStates /\ engine.at = "stream"
  BY DEF TurnInv, Stream
<1>2. PICK c \in Seq(Pieces), f \in Seq(Pieces), l \in Seq(Pieces) :
        /\ engine.carried = c /\ engine.final = f /\ engine.left = l
        /\ engine.said = c \o f /\ f \o l = Whole(engine.answers)
  <2>1. /\ engine.final \in Seq(Pieces) /\ engine.left \in Seq(Pieces)
        /\ engine.carried \in Seq(Pieces)
    BY DEF AnswerInv, TypeOK
  <2>2. /\ engine.said = engine.carried \o engine.final
        /\ engine.final \o engine.left = Whole(engine.answers)
    BY <1>1 DEF AnswerInv, Accounted, Committed, KeptWhole
  <2>. QED
    BY <2>1, <2>2
<1>3. CASE Interrupted(engine.final)
  BY <1>1, <1>3, HandCuts
<1>4. CASE engine.left # <<>> /\ listening /\
           Engine([engine EXCEPT !.left = Tail(@),
                                 !.final = Append(@, Head(engine.left)),
                                 !.said = Append(@, Head(engine.left))])
  <2>1. UNCHANGED <<surface, claim, signals, history, listening, fate>>
    BY <1>4 DEF Engine
  <2>2. /\ engine'.left = Tail(l) /\ engine'.final = Append(f, Head(l))
        /\ engine'.said = Append(c \o f, Head(l)) /\ engine'.carried = c
        /\ engine'.at = "stream" /\ engine'.answers = engine.answers
        /\ engine'.rounds = engine.rounds /\ engine'.turn = engine.turn
        /\ engine'.interrupted = engine.interrupted
    BY <1>1, <1>2, <1>4 DEF EngineStates, Engine
  <2>3. l # <<>>
    BY <1>2, <1>4
  <2>4. /\ Append(f, Head(l)) \o Tail(l) = f \o l
        /\ Append(f, Head(l)) \in Seq(Pieces) /\ Tail(l) \in Seq(Pieces)
        /\ Append(c \o f, Head(l)) \in Seq(Pieces)
        /\ Append(c \o f, Head(l)) = c \o Append(f, Head(l))
    <3>. HIDE DEF Pieces
    <3>1. Append(f, Head(l)) \o Tail(l) = f \o l
      BY <2>3, OneMoved
    <3>2. /\ Append(f, Head(l)) \in Seq(Pieces) /\ Tail(l) \in Seq(Pieces)
      BY <2>3, OneMoved
    <3>3. Append(c \o f, Head(l)) \in Seq(Pieces)
      BY <2>3
    <3>4. Append(c \o f, Head(l)) = c \o Append(f, Head(l))
      <4>1. PICK h \in Pieces : h = Head(l)
        BY <2>3
      <4>2. Append(c \o f, h) = c \o Append(f, h)
        BY SMTT(60)
      <4>. QED
        BY <4>1, <4>2
    <3>. QED
      BY <3>1, <3>2, <3>3, <3>4
  <2>5. TypeOK'
    BY <1>1, <2>1, <2>2, <2>4 DEF AnswerInv, TypeOK
  <2>6. Queued' /\ WholeUnlessMarked' /\ SaidIsKept'
    BY <2>1, <2>2 DEF AnswerInv, Queued, WholeUnlessMarked, SaidIsKept
  <2>7. QuietEnd'
    BY <1>1, <2>1 DEF AnswerInv, QuietEnd
  <2>8. Accounted'
    BY <1>2, <2>2, <2>4 DEF AnswerInv, Accounted, Wholes, InLoop, Committed, KeptWhole
  <2>9. Spent'
    <3>1. ReadSoFar' = ReadSoFar
      BY <2>1 DEF ReadSoFar
    <3>. QED
      BY <1>1, <2>2, <3>1 DEF AnswerInv, Spent, Unended
  <2>. QED
    BY <2>5, <2>6, <2>7, <2>8, <2>9 DEF AnswerInv
<1>5. CASE Engine([At("settle") EXCEPT !.interrupted = TRUE, !.final = KeptWhole])
  <2>1. UNCHANGED <<surface, claim, signals, history, listening, fate>>
    BY <1>5 DEF Engine
  <2>2. /\ engine'.at = "settle" /\ engine'.interrupted
        /\ engine'.answers = engine.answers /\ engine'.rounds = engine.rounds
        /\ engine'.left = engine.left /\ engine'.carried = engine.carried
        /\ engine'.said = engine.said /\ engine'.final = f \o l
    BY <1>1, <1>2, <1>5 DEF EngineStates, Engine, At, KeptWhole
  <2>3. f \o l \in Seq(Pieces) /\ c \o f \in Seq(Pieces)
    BY ConcatProperties
  <2>4. IsPrefix(c \o f, c \o (f \o l))
    <3>1. c \o (f \o l) = (c \o f) \o l
      BY ConcatAssociative
    <3>. QED
      BY <2>3, <3>1, PrefixOfMore
  <2>. QED
    BY <1>1, <1>2, <2>1, <2>2, <2>3, <2>4, Settling
<1>6. CASE engine.left = <<>> /\ Engine(At("settle"))
  <2>1. UNCHANGED <<surface, claim, signals, history, listening, fate>>
    BY <1>6 DEF Engine
  <2>2. /\ engine'.at = "settle"
        /\ engine'.answers = engine.answers /\ engine'.rounds = engine.rounds
        /\ engine'.left = engine.left /\ engine'.carried = engine.carried
        /\ engine'.said = engine.said /\ engine'.final = engine.final
    BY <1>1, <1>6 DEF EngineStates, Engine, At
  <2>3. f \o <<>> = f /\ c \o f \in Seq(Pieces) /\ l = <<>>
    BY <1>2, <1>6, ConcatEmptySeq, ConcatProperties
  <2>4. engine'.final = Whole(engine.answers) /\ engine'.final \in Seq(Pieces)
    BY <1>2, <2>2, <2>3
  <2>5. IsPrefix(engine.said, engine.carried \o engine'.final)
    BY <1>2, <2>2, <2>3, PrefixOfMore
  <2>. QED
    BY <1>1, <2>1, <2>2, <2>4, <2>5, Settling
<1>. QED
  BY <1>3, <1>4, <1>5, <1>6 DEF Stream


-----------------------------------------------------------------------------
(* The history. *)

SaidMessages == [who: {"user", "agent", "surfacing"}, turn: Nat, text: Seq(Pieces),
         mark: {"none", "hand", "felt"}]

\* Messages are only added, and one that is unmarked is made of whole answers.
LEMMA HistoryKept ==
    ASSUME AnswerInv, TurnInv, NEW msg \in Messages, msg \in SaidMessages, AddMessage(msg),
           msg.who = "agent" /\ msg.mark = "none" => msg.text # <<>> /\ Wholes(msg.text)
    PROVE  /\ \A i \in DOMAIN history' : history'[i] \in SaidMessages
           /\ WholeUnlessMarked'
           /\ \A i \in DOMAIN history : i \in DOMAIN history' /\ history'[i] = history[i]
           /\ Len(history') \in DOMAIN history' /\ history'[Len(history')] = msg
<1>1. /\ history \in Seq(Messages) /\ history' \in Seq(Messages)
      /\ Len(history) \in Nat /\ Len(history') = Len(history) + 1
      /\ history'[Len(history')] = msg
      /\ \A i \in 1 .. Len(history) : history'[i] = history[i]
  BY Appending DEF TurnInv
<1>2. DOMAIN history = 1 .. Len(history) /\ DOMAIN history' = 1 .. Len(history) + 1
  BY <1>1
<1>3. \A i \in DOMAIN history : history[i] \in SaidMessages
  BY DEF AnswerInv, TypeOK, SaidMessages
<1>4. \A i \in DOMAIN history' : history'[i] \in SaidMessages
  BY <1>1, <1>2, <1>3
<1>5. WholeUnlessMarked'
  <2>. SUFFICES ASSUME NEW i \in DOMAIN history',
                       history'[i].who = "agent", history'[i].mark = "none"
                PROVE  /\ history'[i].text # <<>>
                       /\ Range(history'[i].text)
                            = {p[1] : p \in Range(history'[i].text)} \X (1 .. Chunks)
    BY DEF WholeUnlessMarked
  <2>1. CASE i \in 1 .. Len(history)
    BY <1>1, <1>2, <2>1 DEF AnswerInv, WholeUnlessMarked
  <2>2. CASE i = Len(history')
    <3>1. history'[i] = msg /\ msg.text \in Seq(Pieces) /\ msg.text # <<>> /\ Wholes(msg.text)
      BY <1>1, <2>2 DEF SaidMessages
    <3>2. PICK s \in Seq(Pieces) : s = msg.text
      BY <3>1
    <3>3. \A p \in Range(s) : \E k \in Answers, j \in 1 .. Chunks : p = <<k, j>>
      BY DEF Pieces, Range
    <3>4. Range(s) = {p[1] : p \in Range(s)} \X (1 .. Chunks)
      BY <3>1, <3>2, <3>3 DEF Wholes
    <3>. QED
      BY <3>1, <3>2, <3>4
  <2>. QED
    BY <1>1, <1>2, <2>1, <2>2
<1>. QED
  BY <1>1, <1>2, <1>4, <1>5

\* The reply that is committed is what was said, marked when it was cut.
LEMMA Committing ==
    ASSUME AnswerInv, TurnInv, TurnInv', Commit PROVE AnswerInv'
<1>. DEFINE msg == Entry("agent", engine.turn, Committed, Mark)
<1>1. engine \in EngineStates /\ engine.turn \in Nat /\ engine.answers \in Nat
  BY DEF TurnInv, EngineStates
<1>2. Mark \in {"none", "hand", "felt"}
  BY DEF Mark
<1>3. engine.carried \in Seq(Pieces) /\ engine.final \in Seq(Pieces) /\ Committed \in Seq(Pieces)
  <2>1. engine.carried \in Seq(Pieces) /\ engine.final \in Seq(Pieces)
    BY DEF AnswerInv, TypeOK
  <2>. QED
    BY <2>1, ConcatProperties DEF Committed
<1>4. IsPrefix(engine.said, Committed)
  <2>1. CASE engine.at = "settle"
    BY <2>1 DEF AnswerInv, Accounted
  <2>2. CASE engine.at = "halt"
    <3>1. engine.said = engine.carried
      BY <2>2 DEF AnswerInv, Accounted
    <3>. QED
      BY <1>3, <3>1, PrefixOfMore DEF Committed
  <2>. QED
    BY <2>1, <2>2 DEF Commit
<1>5. msg \in SaidMessages /\ msg \in Messages /\ msg.who = "agent" /\ msg.turn = engine.turn
      /\ msg.text = Committed /\ msg.mark = Mark
  <2>1. Committed \in Seq(Bits)
    BY <1>1, PiecesTyped
  <2>. QED
    BY <1>1, <1>2, <1>3, <2>1 DEF Entry, SaidMessages, Messages
<1>6. Mark = "none" => Committed # <<>> /\ Wholes(Committed)
  <2>1. SUFFICES ASSUME Mark = "none" PROVE Committed # <<>> /\ Wholes(Committed)
    OBVIOUS
  <2>2. engine.at = "settle" /\ ~engine.interrupted
    BY <2>1 DEF Mark, Commit
  <2>3. engine.final = Whole(engine.answers) /\ Wholes(engine.carried)
    BY <2>2 DEF AnswerInv, Accounted
  <2>4. engine.final # <<>> /\ Wholes(engine.final)
    BY <1>1, <2>3, WholeAnswer
  <2>. QED
    BY <1>3, <2>3, <2>4, WholesJoin, ConcatEqualIffEmpty DEF Committed
<1>7. AddMessage(msg) /\ UNCHANGED <<surface, claim, signals, listening, fate>>
      /\ engine' = At(IF Mark = "none" /\ Subconscious THEN "n1" ELSE "ended")
  BY DEF Commit
<1>. HIDE DEF msg
<1>8. /\ engine'.at \in {"n1", "ended"}
      /\ engine'.at = "n1" => Mark = "none"
      /\ engine'.answers = engine.answers /\ engine'.rounds = engine.rounds
      /\ engine'.left = engine.left /\ engine'.carried = engine.carried
      /\ engine'.said = engine.said /\ engine'.final = engine.final
      /\ engine'.turn = engine.turn /\ engine'.interrupted = engine.interrupted
  BY <1>1, <1>7 DEF EngineStates, At
<1>9. /\ \A i \in DOMAIN history' : history'[i] \in SaidMessages
      /\ WholeUnlessMarked'
      /\ Len(history') \in DOMAIN history' /\ history'[Len(history')] = msg
  BY <1>5, <1>6, <1>7, HistoryKept
<1>10. TypeOK'
  BY <1>1, <1>7, <1>8, <1>9 DEF AnswerInv, TypeOK, SaidMessages, Places, Ends
<1>11. Queued' /\ Spent'
  <2>1. ReadSoFar' = ReadSoFar
    BY <1>7 DEF ReadSoFar
  <2>. QED
    BY <1>7, <1>8, <2>1 DEF AnswerInv, Queued, Spent, Unended, Commit
<1>12. Accounted'
  BY <1>8 DEF AnswerInv, Accounted, Wholes, InLoop
<1>13. SaidIsKept'
  BY <1>4, <1>5, <1>8, <1>9 DEF SaidIsKept
<1>14. QuietEnd'
  <2>1. Mark = "none" => engine.at = "settle" /\ ~engine.interrupted
    BY DEF Mark, Commit
  <2>. QED
    BY <1>7, <1>8, <2>1 DEF AnswerInv, QuietEnd
<1>. QED
  BY <1>9, <1>10, <1>11, <1>12, <1>13, <1>14 DEF AnswerInv

\* The pass after the turn leaves what was said and committed alone.
LEMMA AfterTurns ==
    ASSUME AnswerInv, TurnInv, TurnInv', AfterTurn PROVE AnswerInv'
<1>. DEFINE msg == Entry("surfacing", engine.turn, <<>>, "none")
<1>1. engine \in EngineStates /\ engine.turn \in Nat /\ engine.at = "n1"
  BY DEF TurnInv, EngineStates, AfterTurn
<1>2. UNCHANGED <<surface, claim, signals, listening, fate>>
      /\ (AddMessage(msg) \/ UNCHANGED history)
      /\ \E place \in Ends : engine' = At(place)
  BY DEF AfterTurn, Engine, Ends
<1>3. msg \in SaidMessages /\ msg \in Messages /\ msg.who = "surfacing"
  <2>1. <<>> \in Seq(Pieces) /\ <<>> \in Seq(Bits)
    OBVIOUS
  <2>. QED
    BY <1>1, <2>1 DEF Entry, SaidMessages, Messages
<1>. HIDE DEF msg
<1>4. /\ engine'.at \in Ends
      /\ engine'.answers = engine.answers /\ engine'.rounds = engine.rounds
      /\ engine'.left = engine.left /\ engine'.carried = engine.carried
      /\ engine'.said = engine.said /\ engine'.final = engine.final
      /\ engine'.turn = engine.turn /\ engine'.interrupted = engine.interrupted
  BY <1>1, <1>2 DEF EngineStates, At
<1>5. /\ \A i \in DOMAIN history' : history'[i] \in SaidMessages
      /\ WholeUnlessMarked'
      /\ \A i \in DOMAIN history : i \in DOMAIN history' /\ history'[i] = history[i]
  <2>1. CASE AddMessage(msg)
    BY <1>3, <2>1, HistoryKept
  <2>2. CASE UNCHANGED history
    BY <2>2 DEF AnswerInv, TypeOK, WholeUnlessMarked, SaidMessages
  <2>. QED
    BY <1>2, <2>1, <2>2
<1>6. TypeOK'
  BY <1>1, <1>2, <1>4, <1>5 DEF AnswerInv, TypeOK, SaidMessages, Places
<1>7. Queued' /\ Spent'
  <2>1. ReadSoFar' = ReadSoFar
    BY <1>2 DEF ReadSoFar
  <2>. QED
    BY <1>1, <1>2, <1>4, <2>1 DEF AnswerInv, Queued, Spent, Unended, Ends
<1>8. Accounted' /\ QuietEnd'
  BY <1>4 DEF AnswerInv, Accounted, Wholes, InLoop, Ends, QuietEnd
<1>9. SaidIsKept'
  BY <1>1, <1>4, <1>5 DEF AnswerInv, SaidIsKept
<1>. QED
  BY <1>5, <1>6, <1>7, <1>8, <1>9 DEF AnswerInv


-----------------------------------------------------------------------------
(* Claiming and giving back. *)

\* A fresh turn has no answers yet, and nothing said.
LEMMA FreshAnswers ==
    ASSUME NEW t \in Nat
    PROVE  /\ \A e \in {Fresh(t), Idle} :
                /\ e \in EngineStates /\ e.at \in {"start", "rest"}
                /\ e.answers = 0 /\ e.rounds = 0 /\ e.left = <<>> /\ e.final = <<>>
                /\ e.carried = <<>> /\ e.said = <<>>
           /\ <<>> \in Seq(Pieces) /\ Wholes(<<>>)
           /\ MaxAnswers \in Nat /\ MaxAsides \in Nat
<1>1. Fresh(t) \in EngineStates /\ Idle \in EngineStates /\ Idle.at = "rest"
  BY FreshTyped
<1>2. \A e \in {Fresh(t), Idle} :
        /\ e \in EngineStates /\ e.at \in {"start", "rest"}
        /\ e.answers = 0 /\ e.rounds = 0 /\ e.left = <<>> /\ e.final = <<>>
        /\ e.carried = <<>> /\ e.said = <<>>
  <2>1. /\ Fresh(t).at = "start" /\ Fresh(t).answers = 0 /\ Fresh(t).rounds = 0
        /\ Fresh(t).left = <<>> /\ Fresh(t).final = <<>>
        /\ Fresh(t).carried = <<>> /\ Fresh(t).said = <<>>
    BY DEF Fresh
  <2>2. /\ Idle.answers = 0 /\ Idle.rounds = 0 /\ Idle.left = <<>> /\ Idle.final = <<>>
        /\ Idle.carried = <<>> /\ Idle.said = <<>>
    BY DEF Fresh, Idle
  <2>. QED
    BY <1>1, <2>1, <2>2
<1>3. <<>> \in Seq(Pieces) /\ Wholes(<<>>)
  <2>1. Wholes(<<>>)
    BY DEF Wholes, Range
  <2>. QED
    BY <2>1
<1>4. MaxAnswers \in Nat /\ MaxAsides \in Nat
  BY ReadingCounts, TurnConstants DEF TurnConstants
<1>. QED
  BY <1>2, <1>3, <1>4

\* A turn that begins, and no turn, have said nothing.
LEMMA NothingSaid ==
    ASSUME AnswerInv, TurnInv', NEW t \in Nat, engine' \in {Fresh(t), Idle},
           surface' = surface, claim' \in {"free", "claimed", "streaming", "closing"},
           signals' \in [open: BOOLEAN, hand: BOOLEAN, notes: Seq(Notes)],
           listening' \in BOOLEAN,
           fate' \in [Notes -> {"unsent", "early", "late", "read"}], Queued',
           \A i \in DOMAIN history' : history'[i] \in SaidMessages, WholeUnlessMarked'
    PROVE  AnswerInv'
<1>1. /\ engine' \in EngineStates /\ engine'.at \in {"start", "rest"}
      /\ engine'.answers = 0 /\ engine'.rounds = 0 /\ engine'.left = <<>>
      /\ engine'.final = <<>> /\ engine'.carried = <<>> /\ engine'.said = <<>>
      /\ <<>> \in Seq(Pieces) /\ Wholes(<<>>) /\ MaxAnswers \in Nat /\ MaxAsides \in Nat
  BY FreshAnswers
<1>2. engine'.at \in Places /\ engine'.turn \in Nat /\ engine'.interrupted \in BOOLEAN
  BY <1>1 DEF EngineStates
<1>3. TypeOK'
  BY <1>1, <1>2 DEF AnswerInv, TypeOK, SaidMessages
<1>4. Spent'
  <2>1. ReadSoFar' \in SUBSET Notes
    BY DEF ReadSoFar
  <2>2. Cardinality(ReadSoFar') \in Nat
    BY <2>1, ReadingCounts
  <2>. QED
    BY <1>1, <2>2 DEF Spent
<1>5. Accounted' /\ SaidIsKept' /\ QuietEnd'
  BY <1>1 DEF Accounted, SaidIsKept, QuietEnd, Wholes
<1>. QED
  BY <1>3, <1>4, <1>5 DEF AnswerInv

\* What a person says is kept as it is.
LEMMA PersonKept ==
    ASSUME AnswerInv, TurnInv, AddMessage(Entry("user", Turns + 1, <<>>, "none"))
    PROVE  (\A i \in DOMAIN history' : history'[i] \in SaidMessages) /\ WholeUnlessMarked'
<1>. DEFINE msg == Entry("user", Turns + 1, <<>>, "none")
<1>1. msg \in SaidMessages /\ msg \in Messages /\ msg.who = "user"
  <2>1. Turns + 1 \in Nat /\ <<>> \in Seq(Pieces) /\ <<>> \in Seq(Bits)
    BY TurnsCounts DEF TurnInv
  <2>. QED
    BY <2>1 DEF Entry, SaidMessages, Messages
<1>. HIDE DEF msg
<1>2. AddMessage(msg)
  BY DEF msg
<1>. QED
  BY <1>1, <1>2, HistoryKept

\* Nothing is taken out of a history that does not change.
LEMMA StayKept ==
    ASSUME AnswerInv, UNCHANGED history
    PROVE  (\A i \in DOMAIN history' : history'[i] \in SaidMessages) /\ WholeUnlessMarked'
  BY DEF AnswerInv, TypeOK, SaidMessages, WholeUnlessMarked

\* A turn that is submitted takes its notes along.
LEMMA Submitting ==
    ASSUME AnswerInv, TurnInv, TurnInv', NEW notes \in Seq(Notes), Submit(notes),
           fate' \in [Notes -> {"unsent", "early", "late", "read"}],
           \A n \in Range(notes) : fate'[n] \in {"early", "late"}
    PROVE  AnswerInv'
<1>1. Turns + 1 \in Nat
  BY TurnsCounts DEF TurnInv
<1>2. (\A i \in DOMAIN history' : history'[i] \in SaidMessages) /\ WholeUnlessMarked'
  BY PersonKept DEF Submit
<1>3. /\ engine' = Fresh(Turns + 1) /\ surface' = surface /\ claim' = "streaming"
      /\ signals' = [open |-> TRUE, hand |-> FALSE, notes |-> notes] /\ listening' = TRUE
  BY DEF Submit
<1>4. signals' \in [open: BOOLEAN, hand: BOOLEAN, notes: Seq(Notes)] /\ Queued'
  BY <1>3 DEF Queued
<1>. QED
  BY <1>1, <1>2, <1>3, <1>4, NothingSaid

\* The steps that take the claim, give it back or begin a turn.
LEMMA Claims ==
    ASSUME AnswerInv, TurnInv, TurnInv', Post \/ Install \/ Send \/ Finish \/ Done
    PROVE  AnswerInv'
<1>1. /\ signals \in [open: BOOLEAN, hand: BOOLEAN, notes: Seq(Notes)]
      /\ fate \in [Notes -> {"unsent", "early", "late", "read"}]
      /\ listening \in BOOLEAN /\ Queued /\ claim \in {"free", "claimed", "streaming", "closing"}
  BY DEF AnswerInv, TypeOK
<1>2. Turns \in Nat /\ engine \in EngineStates
  BY TurnsCounts DEF TurnInv
<1>3. CASE Post
  <2>1. (\A i \in DOMAIN history' : history'[i] \in SaidMessages) /\ WholeUnlessMarked'
    BY <1>3, PersonKept DEF Post
  <2>2. UNCHANGED <<surface, signals, engine, listening, fate>> /\ claim' = "claimed"
    BY <1>3 DEF Post
  <2>3. engine.at = "rest"
    BY <1>3 DEF Post, Unclaimed, TurnInv, OwnsTheEnd
  <2>4. TypeOK'
    BY <2>1, <2>2 DEF AnswerInv, TypeOK, SaidMessages
  <2>5. Spent' /\ Queued'
    <3>1. ReadSoFar' = ReadSoFar
      BY <2>2 DEF ReadSoFar
    <3>. QED
      BY <2>2, <3>1 DEF AnswerInv, Spent, Queued
  <2>6. Accounted' /\ SaidIsKept' /\ QuietEnd'
    BY <2>2, <2>3 DEF AnswerInv, Accounted, Wholes, SaidIsKept, QuietEnd, InLoop
  <2>. QED
    BY <2>1, <2>4, <2>5, <2>6 DEF AnswerInv
<1>4. CASE Install
  <2>1. /\ engine' = Fresh(Turns) /\ claim' = "streaming"
        /\ signals' = [signals EXCEPT !.open = TRUE, !.hand = FALSE]
        /\ UNCHANGED <<surface, history, listening, fate>>
    BY <1>4 DEF Install
  <2>2. signals' \in [open: BOOLEAN, hand: BOOLEAN, notes: Seq(Notes)]
        /\ signals'.notes = signals.notes
    BY <1>1, <2>1
  <2>3. Queued'
    BY <1>1, <2>1, <2>2 DEF Queued
  <2>. QED
    BY <1>1, <1>2, <2>1, <2>2, <2>3, StayKept, NothingSaid
<1>5. CASE Finish
  <2>1. /\ engine' = Idle /\ claim' = "free"
        /\ UNCHANGED <<surface, signals, history, listening, fate>>
    BY <1>5 DEF Finish
  <2>2. Queued'
    BY <1>1, <2>1 DEF Queued
  <2>. QED
    BY <1>1, <1>2, <2>1, <2>2, StayKept, NothingSaid
<1>6. CASE Send
  BY <1>1, <1>6, Submitting DEF Send, Queued
<1>7. CASE Done
  <2>1. CASE Submit(<<>>) /\ NotesRead
    <3>1. fate' \in [Notes -> {"unsent", "early", "late", "read"}]
      BY <2>1, NotesAreRead
    <3>2. <<>> \in Seq(Notes) /\ Range(<<>>) = {}
      BY DEF Range
    <3>. QED
      BY <2>1, <3>1, <3>2, Submitting
  <2>2. CASE /\ claim' = "free" /\ engine' = Idle
             /\ signals' = [signals EXCEPT !.open = FALSE, !.hand = FALSE]
             /\ UNCHANGED <<surface, history, listening, fate>>
    <3>1. signals' \in [open: BOOLEAN, hand: BOOLEAN, notes: Seq(Notes)]
          /\ signals'.notes = signals.notes
      BY <1>1, <2>2
    <3>2. Queued'
      BY <1>1, <2>2, <3>1 DEF Queued
    <3>. QED
      BY <1>1, <1>2, <2>2, <3>1, <3>2, StayKept, NothingSaid
  <2>. QED
    BY <1>7, <2>1, <2>2 DEF Done
<1>. QED
  BY <1>3, <1>4, <1>5, <1>6, <1>7

\* The steps of the people who listen, write, raise a hand or leave.
LEMMA Signals ==
    ASSUME AnswerInv, TurnInv, TurnInv',
           Close \/ RaiseHand \/ Leave \/ (\E n \in Notes : Interject(n)) \/ UNCHANGED vars
    PROVE  AnswerInv'
<1>1. /\ signals \in [open: BOOLEAN, hand: BOOLEAN, notes: Seq(Notes)]
      /\ fate \in [Notes -> {"unsent", "early", "late", "read"}]
      /\ listening \in BOOLEAN /\ Queued
  BY DEF AnswerInv, TypeOK
<1>2. UNCHANGED <<surface, engine, history>>
      /\ claim' \in {"free", "claimed", "streaming", "closing"}
  BY DEF Close, RaiseHand, Leave, Interject, vars, AnswerInv, TypeOK
<1>3. WholeUnlessMarked' /\ SaidIsKept' /\ Accounted'
  BY <1>2 DEF AnswerInv, WholeUnlessMarked, SaidIsKept, Accounted, Wholes, Committed, KeptWhole
<1>4. CASE Close \/ RaiseHand \/ Leave \/ UNCHANGED vars
  <2>1. signals' \in [open: BOOLEAN, hand: BOOLEAN, notes: Seq(Notes)]
        /\ signals'.notes \in {<<>>, signals.notes}
    <3>1. <<>> \in Seq(Notes)
      OBVIOUS
    <3>2. CASE Close
      BY <3>1, <3>2 DEF Close
    <3>3. CASE RaiseHand
      BY <1>1, <3>3 DEF RaiseHand
    <3>4. CASE Leave \/ UNCHANGED vars
      BY <1>1, <3>4 DEF Leave, vars
    <3>. QED
      BY <1>4, <3>2, <3>3, <3>4
  <2>2. listening' \in BOOLEAN /\ fate' = fate
    BY <1>1, <1>4 DEF Close, RaiseHand, Leave, vars
  <2>3. Range(signals'.notes) \subseteq Range(signals.notes)
    BY <2>1 DEF Range
  <2>4. TypeOK'
    BY <1>2, <2>1, <2>2 DEF AnswerInv, TypeOK
  <2>5. Queued' /\ QuietEnd'
    BY <1>2, <2>2, <2>3 DEF AnswerInv, Queued, QuietEnd
  <2>6. Spent'
    <3>1. ReadSoFar' = ReadSoFar
      BY <2>2 DEF ReadSoFar
    <3>. QED
      BY <1>2, <3>1 DEF AnswerInv, Spent
  <2>. QED
    BY <1>3, <2>4, <2>5, <2>6 DEF AnswerInv
<1>5. ASSUME NEW n \in Notes, Interject(n) PROVE AnswerInv'
  <2>1. /\ fate[n] = "unsent" /\ listening' = listening
        /\ signals' = [signals EXCEPT !.open = TRUE, !.notes = Append(signals.notes, n)]
        /\ fate' = [fate EXCEPT ![n] = IF engine.at \in InLoop \cup {"rest"} THEN "early"
                                       ELSE "late"]
    BY <1>5 DEF Interject
  <2>2. Append(signals.notes, n) \in Seq(Notes)
        /\ Range(Append(signals.notes, n)) = Range(signals.notes) \cup {n}
        /\ Range(signals.notes) \subseteq Notes
    <3>1. signals.notes \in Seq(Notes)
      BY <1>1
    <3>. QED
      BY <3>1, RangeIs
  <2>3. signals' \in [open: BOOLEAN, hand: BOOLEAN, notes: Seq(Notes)]
        /\ signals'.notes = Append(signals.notes, n)
    BY <1>1, <2>1, <2>2
  <2>4. /\ fate' \in [Notes -> {"unsent", "early", "late", "read"}]
        /\ \A m \in Notes \ {n} : fate'[m] = fate[m]
        /\ fate'[n] \in {"early", "late"}
        /\ engine.at \notin InLoop \cup {"rest"} => fate'[n] = "late"
    BY <1>1, <2>1
  <2>5. TypeOK'
    BY <1>2, <2>1, <2>3, <2>4 DEF AnswerInv, TypeOK
  <2>6. Queued'
    BY <1>1, <2>2, <2>3, <2>4 DEF Queued
  <2>7. QuietEnd'
    <3>1. engine.at \in {"stream", "n1", "settle"} => engine.at \notin InLoop \cup {"rest"}
      BY DEF InLoop
    <3>. QED
      BY <1>2, <2>2, <2>3, <2>4, <3>1 DEF AnswerInv, QuietEnd
  <2>8. Spent'
    <3>1. ReadSoFar' = ReadSoFar
      BY <2>1, <2>4 DEF ReadSoFar
    <3>. QED
      BY <1>2, <3>1 DEF AnswerInv, Spent
  <2>. QED
    BY <1>3, <2>5, <2>6, <2>7, <2>8 DEF AnswerInv
<1>. QED
  BY <1>4, <1>5

-----------------------------------------------------------------------------

\* It holds at the beginning.
LEMMA AnswerInitInv == Init => AnswerInv
<1>. SUFFICES ASSUME Init PROVE AnswerInv
  OBVIOUS
<1>1. /\ engine \in EngineStates /\ engine.at = "rest"
      /\ engine.answers = 0 /\ engine.rounds = 0 /\ engine.left = <<>> /\ engine.final = <<>>
      /\ engine.carried = <<>> /\ engine.said = <<>>
      /\ <<>> \in Seq(Pieces) /\ Wholes(<<>>) /\ MaxAnswers \in Nat /\ MaxAsides \in Nat
  BY FreshAnswers, FreshTyped DEF Init
<1>2. /\ signals = [open |-> FALSE, hand |-> FALSE, notes |-> <<>>]
      /\ history = <<>> /\ listening = TRUE /\ claim = "free" /\ surface \in Surfaces
      /\ fate = [n \in Notes |-> "unsent"]
  BY DEF Init
<1>3. TypeOK
  <2>1. <<>> \in Seq(Notes)
    OBVIOUS
  <2>2. engine.at \in Places /\ engine.turn \in Nat /\ engine.interrupted \in BOOLEAN
    BY <1>1 DEF EngineStates
  <2>. QED
    BY <1>1, <1>2, <2>1, <2>2 DEF TypeOK
<1>4. Spent
  <2>1. ReadSoFar \in SUBSET Notes
    BY DEF ReadSoFar
  <2>2. Cardinality(ReadSoFar) \in Nat
    BY <2>1, ReadingCounts
  <2>. QED
    BY <1>1, <2>2 DEF Spent
<1>5. Queued /\ Accounted /\ SaidIsKept /\ WholeUnlessMarked /\ QuietEnd
  BY <1>1, <1>2 DEF Queued, Range, Accounted, SaidIsKept, WholeUnlessMarked, QuietEnd, InLoop
<1>. QED
  BY <1>3, <1>4, <1>5 DEF AnswerInv

\* Every step keeps it.
LEMMA AnswerStepInv ==
    ASSUME AnswerInv, TurnInv, TurnInv', [Next]_vars PROVE AnswerInv'
<1>1. CASE Start \/ AskFails \/ AskClipped \/ AskTools \/ AskText \/ Tools \/ Peek
  BY <1>1, GoingOn
<1>2. CASE AskDropped \/ PeekDropped
  BY <1>2, HandCuts DEF AskDropped, PeekDropped, InLoop
<1>3. CASE Top \/ Text \/ Stream
  BY <1>3, TopAsks, TextEnds, Streaming
<1>4. CASE Commit \/ AfterTurn
  BY <1>4, Committing, AfterTurns
<1>5. CASE Post \/ Install \/ Send \/ Finish \/ Done
  BY <1>5, Claims
<1>6. CASE Close \/ RaiseHand \/ Leave \/ (\E n \in Notes : Interject(n)) \/ UNCHANGED vars
  BY <1>6, Signals
<1>. QED
  BY <1>1, <1>2, <1>3, <1>4, <1>5, <1>6 DEF Next, Provider, Code, People

\* What was said of finished answers is in what is committed, and a reply without a mark
\* is made of whole answers, however notes reopen the turn, hands and broken streams cut
\* it and subconscious passes fail (run_turn).  Of the types, the bound on how often a
\* turn asks is the one that has to be proved.
THEOREM AnswersKept == Spec => []AnswersInv
<1>1. AnswerInv => AnswersInv
  BY DEF AnswerInv, AnswersInv
<1>2. Init => TurnInv /\ AnswerInv
  BY TurnInitInv, AnswerInitInv
<1>3. (TurnInv /\ AnswerInv) /\ [Next]_vars => (TurnInv /\ AnswerInv)'
  BY TurnStepInv, AnswerStepInv
<1>. QED
  BY <1>1, <1>2, <1>3, PTL DEF Spec

\* A turn that ends of its own accord has read every note that was accepted before its
\* last answer was looked at (interject, and run_turn's look at the notes before it
\* streams an answer in text).
THEOREM NotesAreHeard == Spec => []NotesHeard
<1>1. AnswerInv => NotesHeard
  BY DEF AnswerInv, QuietEnd, NotesHeard
<1>2. Init => TurnInv /\ AnswerInv
  BY TurnInitInv, AnswerInitInv
<1>3. (TurnInv /\ AnswerInv) /\ [Next]_vars => (TurnInv /\ AnswerInv)'
  BY TurnStepInv, AnswerStepInv
<1>. QED
  BY <1>1, <1>2, <1>3, PTL DEF Spec

-----------------------------------------------------------------------------
(*****************************************************************************)
(* Summons.                                                                  *)
(*                                                                           *)
(* The reply to a summons is under way once at most.  One thing stands for a *)
(* summons wherever it is: the request on the way out or heard by the peer, the *)
(* peer's knowledge of whom to answer, or the reply on the way back or home  *)
(* (OneTicket).  No step makes two of it, and losing it only leaves none.    *)
(*****************************************************************************)

Once(q, e) == \A i, j \in DOMAIN q : q[i] = e /\ q[j] = e => i = j

\* Where the one thing that stands for a summons can be: its request on the way out, or
\* heard, whom to answer kept, its reply on the way back, or home.
OneTicket(id, out, heard, kept, back, home) ==
    \E at \in {"out", "heard", "kept", "back", "home"} :
        /\ Request(id) \in Range(out) => at = "out"
        /\ Request(id) \in Range(heard) => at = "heard"
        /\ id \in kept => at = "kept"
        /\ Response(id) \in Range(back) => at = "back"
        /\ Response(id) \in Range(home) => at = "home"

Routed(id, out, heard, kept, back, home) ==
    /\ OneTicket(id, out, heard, kept, back, home)
    /\ Once(out, Request(id)) /\ Once(heard, Request(id))
    /\ Once(back, Response(id)) /\ Once(home, Response(id))

Unheard(id, out, heard, kept, back, home) ==
    /\ Request(id) \notin Range(out) /\ Request(id) \notin Range(heard) /\ id \notin kept
    /\ Response(id) \notin Range(back) /\ Response(id) \notin Range(home)

Wires == ears \in [Sides -> Seq(SummonEvents)] /\ line \in [Sides -> Seq(SummonEvents)]

RoutesKept ==
    \A id \in Summoned :
        /\ Routed(id, line["caller"], ears["peer"], inbound, line["peer"], ears["caller"])
        /\ id \notin asked =>
             Unheard(id, line["caller"], ears["peer"], inbound, line["peer"], ears["caller"])

\* Only what is over a minute old is written off.
LateOnly == expired \subseteq due /\ (timing # NoSummon => timing \in due)

CourierInv ==
    /\ SummonTypeOK /\ Wires
    /\ RoutesKept
    /\ NeverSilent
    /\ LateOnly /\ TimeoutsAreLate

-----------------------------------------------------------------------------
(* Queues. *)

\* A queue without its head has nothing that was not there, and nothing twice.
LEMMA TailOnce ==
    ASSUME NEW S, NEW q \in Seq(S), q # <<>>
    PROVE  /\ Tail(q) \in Seq(S) /\ Head(q) \in S /\ Head(q) \in Range(q)
           /\ Range(Tail(q)) \subseteq Range(q) /\ Range(q) \subseteq Range(Tail(q)) \cup {Head(q)}
           /\ \A e : Once(q, e) => Once(Tail(q), e)
           /\ Once(q, Head(q)) => Head(q) \notin Range(Tail(q))
<1>1. /\ Tail(q) \in Seq(S) /\ Head(q) \in S /\ Head(q) = q[1]
      /\ Len(q) \in Nat \ {0} /\ Len(Tail(q)) = Len(q) - 1
      /\ \A i \in 1 .. Len(q) - 1 : Tail(q)[i] = q[i + 1]
  OBVIOUS
<1>2. DOMAIN q = 1 .. Len(q) /\ DOMAIN Tail(q) = 1 .. Len(q) - 1
  BY <1>1
<1>3. \A i \in 1 .. Len(q) - 1 : i + 1 \in 1 .. Len(q) /\ i + 1 # 1
  BY <1>1
<1>4. Head(q) \in Range(q) /\ Range(Tail(q)) \subseteq Range(q)
  BY <1>1, <1>2, <1>3 DEF Range
<1>5. Range(q) \subseteq Range(Tail(q)) \cup {Head(q)}
  <2>. SUFFICES ASSUME NEW i \in 1 .. Len(q) PROVE q[i] \in Range(Tail(q)) \cup {Head(q)}
    BY <1>2 DEF Range
  <2>1. CASE i = 1
    BY <1>1, <2>1
  <2>2. CASE i # 1
    <3>1. i - 1 \in 1 .. Len(q) - 1 /\ q[i] = Tail(q)[i - 1]
      BY <1>1, <2>2
    <3>. QED
      BY <1>2, <3>1 DEF Range
  <2>. QED
    BY <2>1, <2>2
<1>6. ASSUME NEW e, Once(q, e) PROVE Once(Tail(q), e)
  <2>1. \A i, j \in 1 .. Len(q) - 1 : i + 1 = j + 1 => i = j
    BY <1>1
  <2>. QED
    BY <1>1, <1>2, <1>3, <1>6, <2>1 DEF Once
<1>7. Once(q, Head(q)) => Head(q) \notin Range(Tail(q))
  BY <1>1, <1>2, <1>3 DEF Once, Range
<1>. QED
  BY <1>1, <1>4, <1>5, <1>6, <1>7

\* A queue with one more event has that event, once if it was not there.
LEMMA AppendOnce ==
    ASSUME NEW S, NEW q \in Seq(S), NEW x \in S
    PROVE  /\ Append(q, x) \in Seq(S) /\ Range(Append(q, x)) = Range(q) \cup {x}
           /\ \A e : Once(q, e) /\ (x = e => e \notin Range(q)) => Once(Append(q, x), e)
<1>1. /\ Append(q, x) \in Seq(S) /\ Len(q) \in Nat
      /\ DOMAIN Append(q, x) = 1 .. Len(q) + 1 /\ DOMAIN q = 1 .. Len(q)
      /\ \A i \in 1 .. Len(q) : Append(q, x)[i] = q[i]
      /\ Append(q, x)[Len(q) + 1] = x
  OBVIOUS
<1>2. \A i \in 1 .. Len(q) + 1 : i \in 1 .. Len(q) \/ i = Len(q) + 1
  BY <1>1
<1>3. Range(Append(q, x)) = Range(q) \cup {x}
  BY <1>1, <1>2 DEF Range
<1>4. ASSUME NEW e, Once(q, e), x = e => e \notin Range(q) PROVE Once(Append(q, x), e)
  BY <1>1, <1>2, <1>4 DEF Once, Range
<1>. QED
  BY <1>1, <1>3, <1>4

\* An empty queue has nothing, and so nothing twice.
LEMMA NoneOnce ==
    /\ Range(<<>>) = {} /\ \A e : Once(<<>>, e)
  BY DEF Range, Once

\* Requests and replies are told apart, and so are those of two summons.
LEMMA Sent ==
    /\ \A i, j \in Summoned :
         /\ Request(i) = Request(j) => i = j
         /\ Response(i) = Response(j) => i = j
         /\ Request(i) # Response(j)
         /\ Request(i) \in SummonEvents /\ Response(i) \in SummonEvents
    /\ \A i \in Summoned : Request(i)[1] = "request" /\ Request(i)[2] = i
                           /\ Response(i)[1] = "response"
    /\ Other("caller") = "peer" /\ Other("peer") = "caller"
<1>1. Other("caller") = "peer" /\ Other("peer") = "caller"
  BY DEF Other, Sides
<1>2. \A i, j \in Summoned :
         /\ Request(i) = Request(j) => i = j
         /\ Response(i) = Response(j) => i = j
         /\ Request(i) # Response(j)
  BY DEF Request, Response
<1>. QED
  BY <1>1, <1>2 DEF SummonEvents, Request, Response


-----------------------------------------------------------------------------
(* One thing stands for a summons, wherever it goes. *)

Queues == Seq(SummonEvents)

\* A queue loses its head.
LEMMA HeadGone ==
    ASSUME NEW q \in Queues, q # <<>>
    PROVE  \E e \in SummonEvents, rest \in Queues :
             /\ e = Head(q) /\ rest = Tail(q) /\ e \in Range(q)
             /\ Range(rest) \subseteq Range(q) /\ Range(q) \subseteq Range(rest) \cup {e}
             /\ \A x : Once(q, x) => Once(rest, x) /\ (e = x => x \notin Range(rest))
<1>1. /\ Tail(q) \in Queues /\ Head(q) \in SummonEvents /\ Head(q) \in Range(q)
      /\ Range(Tail(q)) \subseteq Range(q) /\ Range(q) \subseteq Range(Tail(q)) \cup {Head(q)}
  BY TailOnce DEF Queues
<1>2. \A x : Once(q, x) => Once(Tail(q), x)
  BY TailOnce DEF Queues
<1>3. Once(q, Head(q)) => Head(q) \notin Range(Tail(q))
  BY TailOnce DEF Queues
<1>. QED
  BY <1>1, <1>2, <1>3

\* A route from which something is lost is a route still.
LEMMA RouteShrinks ==
    ASSUME NEW id \in Summoned,
           NEW out, NEW heard, NEW kept, NEW back, NEW home,
           NEW out2, NEW heard2, NEW kept2, NEW back2, NEW home2,
           Range(out2) \subseteq Range(out), Range(heard2) \subseteq Range(heard),
           kept2 \subseteq kept, Range(back2) \subseteq Range(back),
           Response(id) \in Range(home2) => Response(id) \in Range(home),
           Once(out, Request(id)) => Once(out2, Request(id)),
           Once(heard, Request(id)) => Once(heard2, Request(id)),
           Once(back, Response(id)) => Once(back2, Response(id)),
           Once(home, Response(id)) => Once(home2, Response(id))
    PROVE  /\ Routed(id, out, heard, kept, back, home)
                => Routed(id, out2, heard2, kept2, back2, home2)
           /\ Unheard(id, out, heard, kept, back, home)
                => Unheard(id, out2, heard2, kept2, back2, home2)
  BY DEF Routed, OneTicket, Unheard

\* The line carries the caller's next event to where the peer hears it.
LEMMA RequestCrosses ==
    ASSUME NEW id \in Summoned, NEW out \in Queues, NEW heard \in Queues, NEW kept,
           NEW back, NEW home, out # <<>>
    PROVE  /\ Routed(id, out, heard, kept, back, home)
                => Routed(id, Tail(out), Append(heard, Head(out)), kept, back, home)
           /\ Unheard(id, out, heard, kept, back, home)
                => Unheard(id, Tail(out), Append(heard, Head(out)), kept, back, home)
<1>1. PICK e \in SummonEvents, rest \in Queues :
        /\ e = Head(out) /\ rest = Tail(out) /\ e \in Range(out)
        /\ Range(rest) \subseteq Range(out)
        /\ \A x : Once(out, x) => Once(rest, x) /\ (e = x => x \notin Range(rest))
  BY HeadGone
<1>2. /\ Range(Append(heard, e)) = Range(heard) \cup {e}
      /\ Once(heard, Request(id)) /\ (e = Request(id) => Request(id) \notin Range(heard))
           => Once(Append(heard, e), Request(id))
  BY AppendOnce DEF Queues
<1>. QED
  BY <1>1, <1>2 DEF Routed, OneTicket, Unheard

\* The line carries the peer's next event back to the caller.
LEMMA ReplyCrosses ==
    ASSUME NEW id \in Summoned, NEW back \in Queues, NEW home \in Queues, NEW kept,
           NEW out, NEW heard, back # <<>>
    PROVE  /\ Routed(id, out, heard, kept, back, home)
                => Routed(id, out, heard, kept, Tail(back), Append(home, Head(back)))
           /\ Unheard(id, out, heard, kept, back, home)
                => Unheard(id, out, heard, kept, Tail(back), Append(home, Head(back)))
<1>1. PICK e \in SummonEvents, rest \in Queues :
        /\ e = Head(back) /\ rest = Tail(back) /\ e \in Range(back)
        /\ Range(rest) \subseteq Range(back)
        /\ \A x : Once(back, x) => Once(rest, x) /\ (e = x => x \notin Range(rest))
  BY HeadGone
<1>2. /\ Range(Append(home, e)) = Range(home) \cup {e}
      /\ Once(home, Response(id)) /\ (e = Response(id) => Response(id) \notin Range(home))
           => Once(Append(home, e), Response(id))
  BY AppendOnce DEF Queues
<1>. QED
  BY <1>1, <1>2 DEF Routed, OneTicket, Unheard

\* The peer hears an event: it keeps whom to answer, answers at once or drops it.
LEMMA PeerTakes ==
    ASSUME NEW id \in Summoned, NEW i \in Summoned,
           NEW heard \in Queues, NEW back \in Queues, NEW kept, NEW out, NEW home,
           heard # <<>>, Head(heard) = Request(i), NEW kept2, NEW back2,
           \/ kept2 = kept /\ back2 \in {back, Append(back, Response(i))}
           \/ kept2 = kept \cup {i} /\ back2 = back
    PROVE  /\ Routed(id, out, heard, kept, back, home)
                => Routed(id, out, Tail(heard), kept2, back2, home)
           /\ Unheard(id, out, heard, kept, back, home)
                => Unheard(id, out, Tail(heard), kept2, back2, home)
<1>1. PICK e \in SummonEvents, rest \in Queues :
        /\ e = Head(heard) /\ rest = Tail(heard) /\ e \in Range(heard)
        /\ Range(rest) \subseteq Range(heard)
        /\ \A x : Once(heard, x) => Once(rest, x) /\ (e = x => x \notin Range(rest))
  BY HeadGone
<1>2. /\ Range(Append(back, Response(i))) = Range(back) \cup {Response(i)}
      /\ Once(back, Response(id)) /\ (Response(i) = Response(id) => Response(id) \notin Range(back))
           => Once(Append(back, Response(i)), Response(id))
  BY AppendOnce, Sent DEF Queues
<1>3. Response(i) = Response(id) => i = id
  BY Sent
<1>. QED
  BY <1>1, <1>2, <1>3 DEF Routed, OneTicket, Unheard

\* The peer answers one whom it kept, and keeps it no longer.
LEMMA PeerSends ==
    ASSUME NEW id \in Summoned, NEW i \in Summoned, NEW back \in Queues, NEW kept,
           NEW out, NEW heard, NEW home, i \in kept,
           NEW kept2, kept2 \subseteq kept, i \notin kept2,
           NEW back2, back2 \in {back, Append(back, Response(i))}
    PROVE  /\ Routed(id, out, heard, kept, back, home)
                => Routed(id, out, heard, kept2, back2, home)
           /\ Unheard(id, out, heard, kept, back, home)
                => Unheard(id, out, heard, kept2, back2, home)
<1>1. /\ Range(Append(back, Response(i))) = Range(back) \cup {Response(i)}
      /\ Once(back, Response(id)) /\ (Response(i) = Response(id) => Response(id) \notin Range(back))
           => Once(Append(back, Response(i)), Response(id))
  BY AppendOnce, Sent DEF Queues
<1>2. Response(i) = Response(id) => i = id
  BY Sent
<1>. QED
  BY <1>1, <1>2 DEF Routed, OneTicket, Unheard

\* The caller publishes a request, which its own bus hears too.
LEMMA CallerAsks ==
    ASSUME NEW id \in Summoned, NEW i \in Summoned, NEW out \in Queues, NEW home \in Queues,
           NEW heard, NEW kept, NEW back, NEW out2 \in {out, Append(out, Request(i))}
    PROVE  /\ (/\ Routed(id, out, heard, kept, back, home)
               /\ id = i => Unheard(id, out, heard, kept, back, home))
                => Routed(id, out2, heard, kept, back, Append(home, Request(i)))
           /\ (id # i /\ Unheard(id, out, heard, kept, back, home))
                => Unheard(id, out2, heard, kept, back, Append(home, Request(i)))
<1>1. /\ Range(Append(out, Request(i))) = Range(out) \cup {Request(i)}
      /\ Once(out, Request(id)) /\ (Request(i) = Request(id) => Request(id) \notin Range(out))
           => Once(Append(out, Request(i)), Request(id))
  BY AppendOnce, Sent DEF Queues
<1>2. /\ Range(Append(home, Request(i))) = Range(home) \cup {Request(i)}
      /\ Once(home, Response(id)) => Once(Append(home, Request(i)), Response(id))
  BY AppendOnce, Sent DEF Queues
<1>3. (Request(i) = Request(id) => i = id) /\ Request(i) # Response(id)
  BY Sent
<1>. QED
  BY <1>1, <1>2, <1>3 DEF Routed, OneTicket, Unheard


-----------------------------------------------------------------------------
(* Steps: the wires and what travels on them. *)

\* What a step does to the queues: "caller" and "peer" are the two sides.
LEMMA WireValues ==
    Wires => /\ {ears["caller"], ears["peer"], line["caller"], line["peer"]} \subseteq Queues
             /\ \A s \in Sides : ears[s] \in Queues /\ line[s] \in Queues
  BY DEF Wires, Queues, Sides

\* A queue that loses its head or gains an event is a queue.
LEMMA QueueEnds ==
    /\ \A q \in Queues : q # <<>> => Tail(q) \in Queues /\ Head(q) \in SummonEvents
    /\ \A q \in Queues, e \in SummonEvents : Append(q, e) \in Queues
    /\ <<>> \in Queues
  BY DEF Queues

\* A summons that is sent has one route.
LEMMA SummonRoutes ==
    ASSUME CourierInv, NEW id \in Summoned, Summon(id) PROVE Wires' /\ RoutesKept'
<1>1. /\ Wires /\ RoutesKept /\ id \notin asked /\ asked' = asked \cup {id}
      /\ inbound' = inbound /\ Request(id) \in SummonEvents
      /\ ears' = [ears EXCEPT !["caller"] = Append(ears["caller"], Request(id))]
      /\ line' = [line EXCEPT !["caller"] = IF up["caller"]
                                              THEN Append(line["caller"], Request(id))
                                              ELSE line["caller"]]
  BY Sent DEF CourierInv, Summon, Sends, peer
<1>2. PICK out \in Queues, home \in Queues, heard \in Queues, back \in Queues :
        /\ out = line["caller"] /\ home = ears["caller"]
        /\ heard = ears["peer"] /\ back = line["peer"]
  BY <1>1, WireValues
<1>3. PICK out2 \in {out, Append(out, Request(id))} :
        /\ line' = [line EXCEPT !["caller"] = out2]
  BY <1>1, <1>2
<1>4. Append(home, Request(id)) \in Queues /\ out2 \in Queues
  BY <1>1, QueueEnds
<1>5. /\ ears'["caller"] = Append(home, Request(id)) /\ ears'["peer"] = heard
      /\ line'["caller"] = out2 /\ line'["peer"] = back
      /\ Wires'
  BY <1>1, <1>2, <1>3, <1>4 DEF Wires, Sides, Queues
<1>6. ASSUME NEW i \in Summoned
      PROVE  /\ Routed(i, out2, heard, inbound, back, Append(home, Request(id)))
             /\ i \notin asked' =>
                  Unheard(i, out2, heard, inbound, back, Append(home, Request(id)))
  <2>1. /\ Routed(i, out, heard, inbound, back, home)
        /\ i \notin asked => Unheard(i, out, heard, inbound, back, home)
    BY <1>1, <1>2 DEF RoutesKept
  <2>. QED
    BY <1>1, <2>1, CallerAsks
<1>7. RoutesKept'
  BY <1>1, <1>5, <1>6 DEF RoutesKept
<1>. QED
  BY <1>5, <1>7

\* What the line carries keeps to its route.
LEMMA CarryRoutes ==
    ASSUME CourierInv, NEW s \in Sides, Carry(s) PROVE Wires' /\ RoutesKept'
<1>1. /\ Wires /\ RoutesKept /\ UNCHANGED <<asked, inbound>> /\ line[s] # <<>>
      /\ line' = [line EXCEPT ![s] = Tail(line[s])]
      /\ ears' = [ears EXCEPT ![Other(s)] = Append(ears[Other(s)], Head(line[s]))]
  BY DEF CourierInv, Carry, peer
<1>2. PICK out \in Queues, home \in Queues, heard \in Queues, back \in Queues :
        /\ out = line["caller"] /\ home = ears["caller"]
        /\ heard = ears["peer"] /\ back = line["peer"]
  BY <1>1, WireValues
<1>3. CASE s = "caller"
  <2>1. /\ out # <<>> /\ line' = [line EXCEPT !["caller"] = Tail(out)]
        /\ ears' = [ears EXCEPT !["peer"] = Append(heard, Head(out))]
    BY <1>1, <1>2, <1>3, Sent
  <2>2. Tail(out) \in Queues /\ Append(heard, Head(out)) \in Queues
    BY <2>1, QueueEnds
  <2>3. /\ ears'["caller"] = home /\ ears'["peer"] = Append(heard, Head(out))
        /\ line'["caller"] = Tail(out) /\ line'["peer"] = back
        /\ Wires'
    BY <1>1, <1>2, <2>1, <2>2 DEF Wires, Sides, Queues
  <2>4. ASSUME NEW i \in Summoned
        PROVE  /\ Routed(i, Tail(out), Append(heard, Head(out)), inbound, back, home)
               /\ i \notin asked =>
                    Unheard(i, Tail(out), Append(heard, Head(out)), inbound, back, home)
    <3>1. /\ Routed(i, out, heard, inbound, back, home)
          /\ i \notin asked => Unheard(i, out, heard, inbound, back, home)
      BY <1>1, <1>2 DEF RoutesKept
    <3>. QED
      BY <2>1, <3>1, RequestCrosses
  <2>. QED
    BY <1>1, <2>3, <2>4 DEF RoutesKept
<1>4. CASE s = "peer"
  <2>1. /\ back # <<>> /\ line' = [line EXCEPT !["peer"] = Tail(back)]
        /\ ears' = [ears EXCEPT !["caller"] = Append(home, Head(back))]
    BY <1>1, <1>2, <1>4, Sent
  <2>2. Tail(back) \in Queues /\ Append(home, Head(back)) \in Queues
    BY <2>1, QueueEnds
  <2>3. /\ ears'["caller"] = Append(home, Head(back)) /\ ears'["peer"] = heard
        /\ line'["caller"] = out /\ line'["peer"] = Tail(back)
        /\ Wires'
    BY <1>1, <1>2, <2>1, <2>2 DEF Wires, Sides, Queues
  <2>4. ASSUME NEW i \in Summoned
        PROVE  /\ Routed(i, out, heard, inbound, Tail(back), Append(home, Head(back)))
               /\ i \notin asked =>
                    Unheard(i, out, heard, inbound, Tail(back), Append(home, Head(back)))
    <3>1. /\ Routed(i, out, heard, inbound, back, home)
          /\ i \notin asked => Unheard(i, out, heard, inbound, back, home)
      BY <1>1, <1>2 DEF RoutesKept
    <3>. QED
      BY <2>1, <3>1, ReplyCrosses
  <2>. QED
    BY <1>1, <2>3, <2>4 DEF RoutesKept
<1>. QED
  BY <1>3, <1>4 DEF Sides

\* The queues of a step that only loses events.
LEMMA LossRoutes ==
    ASSUME CourierInv, Wires', asked' = asked, inbound' \subseteq inbound,
           \A s \in Sides :
             /\ ears'[s] \in {ears[s], Tail(ears[s]), <<>>} /\ (ears[s] = <<>> => ears'[s] = <<>>)
             /\ line'[s] \in {line[s], Tail(line[s]), <<>>} /\ (line[s] = <<>> => line'[s] = <<>>)
    PROVE  RoutesKept'
<1>1. ASSUME NEW q \in Queues, NEW r \in {q, Tail(q), <<>>}, q = <<>> => r = <<>>
      PROVE  Range(r) \subseteq Range(q) /\ \A x : Once(q, x) => Once(r, x)
  <2>1. CASE r = <<>>
    BY <2>1, NoneOnce
  <2>2. CASE r = Tail(q) /\ q # <<>>
    <3>1. PICK e, rest : /\ rest = Tail(q) /\ Range(rest) \subseteq Range(q)
                         /\ \A x : Once(q, x) => Once(rest, x) /\ (e = x => x \notin Range(rest))
      BY <2>2, HeadGone
    <3>. QED
      BY <2>2, <3>1
  <2>. QED
    BY <1>1, <2>1, <2>2
<1>2. ASSUME NEW i \in Summoned
      PROVE  /\ Routed(i, line'["caller"], ears'["peer"], inbound', line'["peer"],
                       ears'["caller"])
             /\ i \notin asked =>
                  Unheard(i, line'["caller"], ears'["peer"], inbound', line'["peer"],
                          ears'["caller"])
  <2>1. /\ Routed(i, line["caller"], ears["peer"], inbound, line["peer"], ears["caller"])
        /\ i \notin asked =>
             Unheard(i, line["caller"], ears["peer"], inbound, line["peer"], ears["caller"])
    BY DEF CourierInv, RoutesKept
  <2>2. \A s \in Sides :
          /\ Range(ears'[s]) \subseteq Range(ears[s])
          /\ \A x : Once(ears[s], x) => Once(ears'[s], x)
          /\ Range(line'[s]) \subseteq Range(line[s])
          /\ \A x : Once(line[s], x) => Once(line'[s], x)
    BY <1>1, WireValues DEF CourierInv
  <2>. QED
    BY <2>1, <2>2, RouteShrinks DEF Sides
<1>. QED
  BY <1>2 DEF RoutesKept

\* Of side s, ears or line have lost their head, or all.
Loses(s, q, r) ==
    /\ q \in {ears[s], Tail(ears[s]), <<>>} /\ (ears[s] = <<>> => q = <<>>)
    /\ r \in {line[s], Tail(line[s]), <<>>} /\ (line[s] = <<>> => r = <<>>)
    /\ ears' = [ears EXCEPT ![s] = q] /\ line' = [line EXCEPT ![s] = r]

\* Breaks, lags, restarts and registrations only lose events.
LEMMA LosingSteps ==
    ASSUME CourierInv,
           \/ \E s \in Sides : LinkBreaks(s) \/ Reconnects(s) \/ Lags(s) \/ Restarts(s)
           \/ \E id \in Summoned : Register(id) \/ Found(id)
    PROVE  Wires' /\ RoutesKept'
<1>1. Wires
  BY DEF CourierInv
<1>2. asked' = asked /\ inbound' \subseteq inbound
  BY DEF LinkBreaks, Reconnects, Lags, Restarts, Register, Found, peer
<1>3. \E s \in Sides : \E q, r : Loses(s, q, r)
  <2>1. \A s \in Sides : ears = [ears EXCEPT ![s] = ears[s]] /\ line = [line EXCEPT ![s] = line[s]]
    BY <1>1 DEF Wires
  <2>2. ASSUME NEW s \in Sides, LinkBreaks(s) PROVE Loses(s, ears[s], <<>>)
    BY <2>1, <2>2 DEF LinkBreaks, Loses
  <2>3. ASSUME NEW s \in Sides, Reconnects(s) PROVE Loses(s, ears[s], line[s])
    BY <2>1, <2>3 DEF Reconnects, Loses
  <2>4. ASSUME NEW s \in Sides, Lags(s)
        PROVE  Loses(s, ears[s], Tail(line[s])) \/ Loses(s, Tail(ears[s]), line[s])
    BY <2>1, <2>4 DEF Lags, Loses
  <2>5. ASSUME NEW s \in Sides, Restarts(s) PROVE Loses(s, <<>>, <<>>)
    BY <2>1, <2>5 DEF Restarts, Loses
  <2>6. ASSUME NEW id \in Summoned, Register(id) \/ Found(id)
        PROVE  Loses("caller", Tail(ears["caller"]), line["caller"]) /\ "caller" \in Sides
    BY <2>1, <2>6 DEF Register, Found, Hears, Sides, Loses
  <2>. QED
    BY <2>2, <2>3, <2>4, <2>5, <2>6
<1>4. PICK s \in Sides : \E q, r : Loses(s, q, r)
  BY <1>3
<1>5. PICK q, r : Loses(s, q, r)
  BY <1>4
<1>6. q \in Queues /\ r \in Queues
  BY <1>1, <1>5, WireValues, QueueEnds DEF Loses
<1>7. Wires'
  BY <1>1, <1>5, <1>6 DEF Wires, Loses, Queues
<1>8. \A t \in Sides :
        /\ ears'[t] \in {ears[t], Tail(ears[t]), <<>>} /\ (ears[t] = <<>> => ears'[t] = <<>>)
        /\ line'[t] \in {line[t], Tail(line[t]), <<>>} /\ (line[t] = <<>> => line'[t] = <<>>)
  BY <1>1, <1>5 DEF Wires, Loses
<1>. QED
  BY <1>2, <1>7, <1>8, LossRoutes


\* A peer that hears a request keeps the one route of it.
LEMMA PeerRoutes ==
    ASSUME CourierInv, NEW id \in Summoned, PeerHears(id) PROVE Wires' /\ RoutesKept'
<1>1. /\ Wires /\ RoutesKept /\ asked' = asked
      /\ ears["peer"] # <<>> /\ Head(ears["peer"]) = Request(id)
      /\ ears' = [ears EXCEPT !["peer"] = Tail(ears["peer"])]
      /\ Response(id) \in SummonEvents
  BY Sent DEF CourierInv, PeerHears, Hears
<1>2. PICK out \in Queues, home \in Queues, heard \in Queues, back \in Queues :
        /\ out = line["caller"] /\ home = ears["caller"]
        /\ heard = ears["peer"] /\ back = line["peer"]
  BY <1>1, WireValues
<1>3. PICK back2 \in {back, Append(back, Response(id))} :
        /\ line' = [line EXCEPT !["peer"] = back2]
        /\ \/ inbound' = inbound
           \/ inbound' = inbound \cup {id} /\ back2 = back
  <2>1. line = [line EXCEPT !["peer"] = line["peer"]]
    BY <1>1 DEF Wires, Sides
  <2>. QED
    BY <1>2, <2>1 DEF PeerHears, Sends
<1>4. back2 \in Queues /\ Tail(heard) \in Queues /\ heard # <<>> /\ Head(heard) = Request(id)
  BY <1>1, <1>2, QueueEnds
<1>5. /\ ears'["caller"] = home /\ ears'["peer"] = Tail(heard)
      /\ line'["caller"] = out /\ line'["peer"] = back2
      /\ Wires'
  BY <1>1, <1>2, <1>3, <1>4 DEF Wires, Sides, Queues
<1>6. ASSUME NEW i \in Summoned
      PROVE  /\ Routed(i, out, Tail(heard), inbound', back2, home)
             /\ i \notin asked => Unheard(i, out, Tail(heard), inbound', back2, home)
  <2>1. /\ Routed(i, out, heard, inbound, back, home)
        /\ i \notin asked => Unheard(i, out, heard, inbound, back, home)
    BY <1>1, <1>2 DEF RoutesKept
  <2>2. PICK kept, kept2 : kept = inbound /\ kept2 = inbound'
    OBVIOUS
  <2>. QED
    BY <1>3, <1>4, <2>1, <2>2, PeerTakes
<1>. QED
  BY <1>1, <1>5, <1>6 DEF RoutesKept

\* A peer that finds a reply in its outbox sends it on the one route of it.
LEMMA ScanRoutes ==
    ASSUME CourierInv, NEW id \in Summoned, ScanOutbox(id) PROVE Wires' /\ RoutesKept'
<1>1. /\ Wires /\ RoutesKept /\ asked' = asked /\ ears' = ears /\ id \in inbound
      /\ inbound' = inbound \ {id} /\ Response(id) \in SummonEvents
  BY Sent DEF CourierInv, ScanOutbox, Unanswered
<1>2. PICK out \in Queues, home \in Queues, heard \in Queues, back \in Queues :
        /\ out = line["caller"] /\ home = ears["caller"]
        /\ heard = ears["peer"] /\ back = line["peer"]
  BY <1>1, WireValues
<1>3. PICK back2 \in {back, Append(back, Response(id))} :
        line' = [line EXCEPT !["peer"] = back2]
  BY <1>2 DEF ScanOutbox, Sends
<1>4. back2 \in Queues
  BY <1>1, QueueEnds
<1>5. line'["caller"] = out /\ line'["peer"] = back2 /\ Wires'
  BY <1>1, <1>2, <1>3, <1>4 DEF Wires, Sides, Queues
<1>6. ASSUME NEW i \in Summoned
      PROVE  /\ Routed(i, out, heard, inbound', back2, home)
             /\ i \notin asked => Unheard(i, out, heard, inbound', back2, home)
  <2>1. /\ Routed(i, out, heard, inbound, back, home)
        /\ i \notin asked => Unheard(i, out, heard, inbound, back, home)
    BY <1>1, <1>2 DEF RoutesKept
  <2>2. PICK kept, kept2 : kept = inbound /\ kept2 = inbound'
    OBVIOUS
  <2>3. kept2 \subseteq kept /\ id \in kept /\ id \notin kept2
    BY <1>1, <2>2
  <2>. QED
    BY <2>1, <2>2, <2>3, PeerSends
<1>. QED
  BY <1>1, <1>2, <1>5, <1>6 DEF RoutesKept

\* Whatever happens, one thing stands for a summons.
LEMMA RouteStep ==
    ASSUME CourierInv, [SummonNext]_summonVars PROVE Wires' /\ RoutesKept'
<1>1. CASE \E id \in Summoned : Summon(id) \/ PeerHears(id) \/ ScanOutbox(id)
  BY <1>1, SummonRoutes, PeerRoutes, ScanRoutes
<1>2. CASE \E s \in Sides : Carry(s)
  BY <1>2, CarryRoutes
<1>3. CASE \/ \E s \in Sides : LinkBreaks(s) \/ Reconnects(s) \/ Lags(s) \/ Restarts(s)
           \/ \E id \in Summoned : Register(id) \/ Found(id)
  BY <1>3, LosingSteps
<1>4. CASE \/ Lands \/ Prunes \/ UNCHANGED summonVars
           \/ \E id \in Summoned : Replies(id) \/ MinutePasses(id)
  <2>1. UNCHANGED <<asked, ears, line, inbound>>
    BY <1>4 DEF Lands, Prunes, Prune, PruneTakes, PruneWrites, Replies, MinutePasses,
                summonVars, links, peer
  <2>. QED
    BY <2>1 DEF CourierInv, Wires, RoutesKept
<1>. QED
  BY <1>1, <1>2, <1>3, <1>4 DEF SummonNext, Listens

-----------------------------------------------------------------------------
(* Steps: the caller. *)

Typed ==
    /\ asked \subseteq Summoned /\ inFlight \subseteq Summoned /\ due \subseteq Summoned
    /\ expired \subseteq Summoned /\ inbound \subseteq Summoned /\ begun \subseteq Summoned
    /\ outbox \subseteq Summoned /\ gone \subseteq Summoned
    /\ landing \in Summoned \cup {NoSummon} /\ timing \in Summoned \cup {NoSummon}
    /\ \A s \in Sides : ears[s] \in Queues /\ line[s] \in Queues
    /\ up \in [Sides -> BOOLEAN] /\ faults \in 0 .. MaxFaults
    /\ surfaced \in [Summoned -> {"none", "answer", "timeout"}]

\* Every step keeps the types.
LEMMA TypesKept ==
    ASSUME CourierInv, Wires', [SummonNext]_summonVars PROVE SummonTypeOK'
<1>1. Typed
  BY DEF CourierInv, SummonTypeOK, Typed, Queues
<1>. SUFFICES Typed'
  BY DEF SummonTypeOK, Typed, Queues
<1>6. Fault => faults' \in 0 .. MaxFaults
  BY <1>1, SummonConstants DEF Typed, Fault, SummonConstants
<1>2. \A s \in Sides : ears'[s] \in Queues /\ line'[s] \in Queues
  BY DEF Wires, Queues
<1>3. ASSUME NEW id \in Summoned,
             \/ Summon(id) \/ PeerHears(id) \/ Replies(id) \/ ScanOutbox(id)
             \/ MinutePasses(id) \/ Register(id) \/ Found(id) \/ PruneTakes(id)
      PROVE  Typed'
  <2>. USE DEF Typed, links, caller, peer
  <2>1. CASE Summon(id)
    BY <1>1, <1>2, <2>1 DEF Summon
  <2>2. CASE PeerHears(id)
    BY <1>6, <1>1, <1>2, <2>2 DEF PeerHears
  <2>3. CASE Replies(id)
    BY <1>1, <2>3 DEF Replies
  <2>4. CASE ScanOutbox(id)
    BY <1>6, <1>1, <1>2, <2>4 DEF ScanOutbox, Unanswered
  <2>5. CASE MinutePasses(id)
    BY <1>1, <1>2, <2>5 DEF MinutePasses
  <2>6. CASE Register(id)
    BY <1>1, <1>2, <2>6 DEF Register
  <2>7. CASE Found(id)
    BY <1>1, <1>2, <2>7 DEF Found
  <2>8. CASE PruneTakes(id)
    BY <1>1, <1>2, <2>8 DEF PruneTakes
  <2>. QED
    BY <1>3, <2>1, <2>2, <2>3, <2>4, <2>5, <2>6, <2>7, <2>8
<1>4. ASSUME NEW s \in Sides,
             Carry(s) \/ LinkBreaks(s) \/ Reconnects(s) \/ Lags(s) \/ Restarts(s)
      PROVE  Typed'
  <2>. USE DEF Typed, links, caller, peer
  <2>1. CASE Carry(s)
    BY <1>1, <1>2, <2>1 DEF Carry
  <2>2. CASE LinkBreaks(s)
    BY <1>6, <1>1, <1>2, <2>2 DEF LinkBreaks
  <2>3. CASE Reconnects(s)
    BY <1>1, <1>2, <2>3 DEF Reconnects
  <2>4. CASE Lags(s)
    <3>1. gone' \in SUBSET Summoned
      <4>1. ASSUME NEW e \in SummonEvents, Forgets(e) PROVE gone' \in SUBSET Summoned
        <5>1. \A id \in Summoned : Request(id)[2] = id /\ Response(id)[1] = "response"
          BY DEF Request, Response
        <5>. QED
          BY <1>1, <4>1, <5>1 DEF Forgets, SummonEvents
      <4>2. ears[s] # <<>> => Head(ears[s]) \in SummonEvents
        BY <1>1, QueueEnds
      <4>. QED
        BY <1>1, <2>4, <4>1, <4>2 DEF Lags
    <3>. QED
      BY <1>6, <1>1, <1>2, <2>4, <3>1 DEF Lags
  <2>5. CASE Restarts(s)
    BY <1>6, <1>1, <1>2, <2>5 DEF Restarts
  <2>. QED
    BY <1>4, <2>1, <2>2, <2>3, <2>4, <2>5
<1>5. CASE Lands \/ Prune \/ PruneWrites \/ UNCHANGED summonVars
  <2>. USE DEF Typed, links, caller, peer
  <2>1. CASE Lands
    BY <1>6, <1>1, <1>2, <2>1 DEF Lands
  <2>2. CASE Prune
    BY <1>1, <1>2, <2>2 DEF Prune, OverAMinute
  <2>3. CASE PruneWrites
    BY <1>6, <1>1, <1>2, <2>3 DEF PruneWrites
  <2>4. CASE UNCHANGED summonVars
    BY <1>1, <2>4 DEF summonVars
  <2>. QED
    BY <1>5, <2>1, <2>2, <2>3, <2>4
<1>. QED
  BY <1>3, <1>4, <1>5 DEF SummonNext, Listens, Prunes

\* A summons that was made is somewhere, or the caller forgot it.
LEMMA SomewhereKept ==
    ASSUME CourierInv, [SummonNext]_summonVars PROVE NeverSilent'
<1>1. NeverSilent /\ SummonTypeOK /\ Wires
  BY DEF CourierInv
<1>2. ASSUME asked' = asked, gone \subseteq gone', inFlight \subseteq inFlight',
             {landing, timing} \ {NoSummon} \subseteq {landing', timing'},
             \A id \in asked : surfaced[id] # "none" => surfaced'[id] # "none",
             \A id \in asked \ gone' : Request(id) \in Range(ears["caller"]) =>
                Request(id) \in Range(ears'["caller"]) \/ id \in inFlight'
      PROVE  NeverSilent'
  BY <1>1, <1>2, SummonConstants DEF NeverSilent, SummonTypeOK, SummonConstants
<1>3. {ears["caller"], ears["peer"]} \subseteq Queues
  BY <1>1, WireValues
<1>4. ASSUME NEW id \in Summoned, Summon(id) PROVE NeverSilent'
  <2>1. /\ asked' = asked \cup {id} /\ UNCHANGED <<gone, inFlight, landing, timing, surfaced>>
        /\ ears' = [ears EXCEPT !["caller"] = Append(ears["caller"], Request(id))]
    BY <1>4 DEF Summon, caller
  <2>2. PICK home \in Queues : home = ears["caller"]
    BY <1>3
  <2>3. Range(Append(home, Request(id))) = Range(home) \cup {Request(id)}
    BY Sent, AppendOnce DEF Queues
  <2>4. ears'["caller"] = Append(home, Request(id))
    BY <1>1, <2>1, <2>2 DEF Wires, Sides
  <2>. QED
    BY <1>1, <2>1, <2>2, <2>3, <2>4 DEF NeverSilent
<1>5. ASSUME NEW id \in Summoned, PeerHears(id) \/ Replies(id) \/ ScanOutbox(id) \/ MinutePasses(id)
      PROVE  NeverSilent'
  <2>1. \/ UNCHANGED <<asked, caller, gone>>
        \/ UNCHANGED <<asked, inFlight, landing, timing, surfaced, gone>>
    BY <1>5 DEF PeerHears, Replies, ScanOutbox, MinutePasses
  <2>2. ears'["caller"] = ears["caller"]
    BY <1>1, <1>5 DEF PeerHears, Hears, Replies, ScanOutbox, MinutePasses, links, Wires, Sides
  <2>. QED
    BY <1>1, <2>1, <2>2 DEF NeverSilent, caller
<1>6. ASSUME NEW s \in Sides, Carry(s) PROVE NeverSilent'
  <2>1. /\ line[s] # <<>> /\ UNCHANGED <<asked, gone, inFlight, landing, timing, surfaced>>
        /\ ears' = [ears EXCEPT ![Other(s)] = Append(@, Head(line[s]))]
    BY <1>6 DEF Carry, caller
  <2>2. Range(ears["caller"]) \subseteq Range(ears'["caller"])
    <3>1. PICK home \in Queues, e \in SummonEvents : home = ears["caller"] /\ e = Head(line[s])
      BY <1>1, <1>3, <2>1, WireValues, QueueEnds
    <3>2. ears'["caller"] = home \/ ears'["caller"] = Append(home, e)
      BY <1>1, <2>1, <3>1 DEF Wires, Sides
    <3>3. Range(Append(home, e)) = Range(home) \cup {e}
      BY AppendOnce DEF Queues
    <3>. QED
      BY <3>1, <3>2, <3>3
  <2>. QED
    BY <1>1, <2>1, <2>2 DEF NeverSilent
<1>7. ASSUME NEW s \in Sides, LinkBreaks(s) \/ Reconnects(s) PROVE NeverSilent'
  BY <1>1, <1>7 DEF LinkBreaks, Reconnects, caller, NeverSilent
<1>8. ASSUME NEW id \in Summoned, Register(id) \/ Found(id) PROVE NeverSilent'
  <2>1. PICK home \in Queues, e \in SummonEvents, rest \in Queues :
          /\ home = ears["caller"] /\ e = Head(home) /\ rest = Tail(home)
          /\ Range(home) \subseteq Range(rest) \cup {e} /\ home # <<>>
    <3>1. ears["caller"] # <<>>
      BY <1>8 DEF Register, Found, Hears
    <3>. QED
      BY <1>3, <3>1, HeadGone
  <2>2. ears'["caller"] = rest
    BY <1>1, <1>8, <2>1 DEF Register, Found, Hears, Wires, Sides
  <2>3. CASE Register(id)
    <3>1. e = Request(id) /\ inFlight' = inFlight \cup {id}
          /\ UNCHANGED <<asked, gone, landing, timing, surfaced>>
      BY <2>1, <2>3 DEF Register, Hears
    <3>2. \A i \in asked : Request(i) = e => i = id
      BY <1>1, <3>1, Sent DEF SummonTypeOK
    <3>. QED
      BY <1>2, <2>1, <2>2, <3>1, <3>2
  <2>4. CASE Found(id)
    <3>1. e = Response(id) /\ landing = NoSummon
          /\ UNCHANGED <<asked, gone, inFlight, timing, surfaced>>
      BY <2>1, <2>4 DEF Found, Hears
    <3>2. \A i \in asked : Request(i) # e
      BY <1>1, <3>1, Sent DEF SummonTypeOK
    <3>. QED
      BY <1>2, <2>1, <2>2, <3>1, <3>2
  <2>. QED
    BY <1>8, <2>3, <2>4
<1>9. ASSUME NEW s \in Sides, Lags(s) PROVE NeverSilent'
  <2>1. UNCHANGED <<asked, inFlight, landing, timing, surfaced>>
    BY <1>9 DEF Lags, caller
  <2>2. CASE gone' = gone /\ ears'["caller"] = ears["caller"]
    BY <1>1, <2>1, <2>2 DEF NeverSilent
  <2>3. CASE /\ s = "caller" /\ ears["caller"] # <<>> /\ Forgets(Head(ears["caller"]))
             /\ ears' = [ears EXCEPT !["caller"] = Tail(@)]
    <3>1. PICK home \in Queues, e \in SummonEvents, rest \in Queues :
            /\ home = ears["caller"] /\ e = Head(home) /\ rest = Tail(home)
            /\ Range(home) \subseteq Range(rest) \cup {e}
      BY <1>3, <2>3, HeadGone
    <3>2. ears'["caller"] = rest /\ Forgets(e)
      BY <1>1, <2>3, <3>1 DEF Wires, Sides
    <3>3. \A i \in asked : Request(i) = e => i \in gone' \/ i \in inFlight
      <4>. SUFFICES ASSUME NEW i \in asked, Request(i) = e PROVE i \in gone' \/ i \in inFlight
        OBVIOUS
      <4>1. e[1] = "request" /\ e[2] = i
        BY DEF Request
      <4>. QED
        BY <3>2, <4>1 DEF Forgets
    <3>4. gone \subseteq gone'
      BY <3>2 DEF Forgets
    <3>. QED
      BY <1>2, <2>1, <3>1, <3>2, <3>3, <3>4
  <2>. QED
    BY <1>1, <1>9, <2>2, <2>3 DEF Lags, Wires, Sides
<1>10. CASE Lands
  <2>1. /\ landing \in Summoned /\ landing' = NoSummon /\ inFlight' = inFlight \ {landing}
        /\ UNCHANGED <<asked, ears, timing>>
        /\ \/ surfaced' = [surfaced EXCEPT ![landing] = "answer"] /\ gone' = gone
           \/ surfaced' = surfaced /\ gone' = gone \cup {landing}
    BY <1>1, <1>10 DEF Lands, links, SummonTypeOK
  <2>2. asked \subseteq Summoned /\ DOMAIN surfaced = Summoned
    BY <1>1 DEF SummonTypeOK
  <2>. QED
    BY <1>1, <2>1, <2>2 DEF NeverSilent
<1>11. CASE PruneWrites
  <2>1. /\ timing \in Summoned /\ timing' = NoSummon
        /\ UNCHANGED <<asked, ears, landing, inFlight>>
        /\ \/ surfaced' = [surfaced EXCEPT ![timing] = "timeout"] /\ gone' = gone
           \/ surfaced' = surfaced /\ gone' = gone \cup {timing}
    BY <1>1, <1>11 DEF PruneWrites, links, SummonTypeOK
  <2>2. asked \subseteq Summoned /\ DOMAIN surfaced = Summoned
    BY <1>1 DEF SummonTypeOK
  <2>. QED
    BY <1>1, <2>1, <2>2 DEF NeverSilent
<1>12. ASSUME NEW id \in Summoned, PruneTakes(id) PROVE NeverSilent'
  <2>1. /\ timing = NoSummon /\ inFlight' = inFlight \ {id}
        /\ timing' = IF id \in inFlight THEN id ELSE NoSummon
        /\ UNCHANGED <<asked, ears, landing, surfaced, gone>>
    BY <1>12 DEF PruneTakes, links
  <2>2. \A i \in asked : i # NoSummon
    BY <1>1, SummonConstants DEF SummonTypeOK, SummonConstants
  <2>. QED
    BY <1>1, <2>1, <2>2 DEF NeverSilent
<1>13. CASE Prune \/ UNCHANGED summonVars
  BY <1>1, <1>13 DEF Prune, links, summonVars, NeverSilent
<1>14. ASSUME NEW s \in Sides, Restarts(s) PROVE NeverSilent'
  <2>1. asked' = asked /\ surfaced' = surfaced
    BY <1>14 DEF Restarts
  <2>2. CASE gone' = gone \cup {id \in asked : surfaced[id] = "none"}
    BY <2>1, <2>2 DEF NeverSilent
  <2>3. CASE s = "peer" /\ UNCHANGED <<gone, inFlight, landing, timing>>
    <3>1. ears'["caller"] = ears["caller"]
      BY <1>1, <1>14, <2>3 DEF Restarts, Wires, Sides
    <3>. QED
      BY <1>1, <2>1, <2>3, <3>1 DEF NeverSilent
  <2>. QED
    BY <1>14, <2>2, <2>3 DEF Restarts
<1>. QED
  BY <1>4, <1>5, <1>6, <1>7, <1>8, <1>9, <1>10, <1>11, <1>12, <1>13, <1>14
  DEF SummonNext, Listens, Prunes

\* What is written off is over a minute old.
LEMMA LateKept ==
    ASSUME CourierInv, [SummonNext]_summonVars PROVE LateOnly' /\ TimeoutsAreLate'
<1>1. LateOnly /\ TimeoutsAreLate /\ SummonTypeOK
  BY DEF CourierInv
<1>2. CASE UNCHANGED <<due, expired, timing, surfaced>>
  BY <1>1, <1>2 DEF LateOnly, TimeoutsAreLate
<1>3. ASSUME NEW id \in Summoned, MinutePasses(id) \/ PruneTakes(id)
      PROVE  LateOnly' /\ TimeoutsAreLate'
  BY <1>1, <1>3 DEF MinutePasses, PruneTakes, LateOnly, TimeoutsAreLate
<1>4. CASE Lands \/ Prune \/ PruneWrites
  BY <1>1, <1>4 DEF Lands, Prune, PruneWrites, OverAMinute, LateOnly, TimeoutsAreLate,
                    SummonTypeOK
<1>5. ASSUME NEW s \in Sides, Restarts(s) PROVE LateOnly' /\ TimeoutsAreLate'
  BY <1>1, <1>5 DEF Restarts, LateOnly, TimeoutsAreLate
<1>6. ASSUME NEW id \in Summoned,
             \/ Summon(id) \/ PeerHears(id) \/ Replies(id) \/ ScanOutbox(id)
             \/ Register(id) \/ Found(id)
      PROVE  UNCHANGED <<due, expired, timing, surfaced>>
  BY <1>6 DEF Summon, PeerHears, Replies, ScanOutbox, Register, Found, caller
<1>7. ASSUME NEW s \in Sides, Carry(s) \/ LinkBreaks(s) \/ Reconnects(s) \/ Lags(s)
      PROVE  UNCHANGED <<due, expired, timing, surfaced>>
  BY <1>7 DEF Carry, LinkBreaks, Reconnects, Lags, caller
<1>8. CASE UNCHANGED summonVars
  BY <1>2, <1>8 DEF summonVars
<1>. QED
  BY <1>2, <1>3, <1>4, <1>5, <1>6, <1>7, <1>8 DEF SummonNext, Listens, Prunes

-----------------------------------------------------------------------------

\* It holds at the beginning.
LEMMA CourierInit == SummonInit => CourierInv
<1>. SUFFICES ASSUME SummonInit PROVE CourierInv
  OBVIOUS
<1>. USE DEF SummonInit
<1>1. Wires /\ ears["caller"] = <<>> /\ ears["peer"] = <<>> /\ line["caller"] = <<>>
      /\ line["peer"] = <<>>
  <2>1. <<>> \in Seq(SummonEvents)
    OBVIOUS
  <2>. QED
    BY <2>1 DEF Wires, Sides
<1>2. SummonTypeOK
  BY <1>1, SummonConstants DEF SummonTypeOK, SummonConstants, Wires
<1>3. RoutesKept
  BY <1>1, NoneOnce DEF RoutesKept, Routed, OneTicket, Unheard
<1>4. NeverSilent /\ LateOnly /\ TimeoutsAreLate
  BY DEF NeverSilent, LateOnly, TimeoutsAreLate
<1>. QED
  BY <1>1, <1>2, <1>3, <1>4 DEF CourierInv

\* A summons with one route has its reply under way once at most.
LEMMA CourierRoutesOnce == CourierInv => RoutedOnce
<1>. SUFFICES ASSUME CourierInv, NEW id \in Summoned
              PROVE  /\ \A i, j \in InTransit(id) : i = j
                     /\ InTransit(id) # {} => id \notin inbound
  BY DEF RoutedOnce
<1>1. PICK back \in Queues, home \in Queues : back = line["peer"] /\ home = ears["caller"]
  BY WireValues DEF CourierInv
<1>2. PICK out, heard : Routed(id, out, heard, inbound, back, home)
  BY <1>1 DEF CourierInv, RoutesKept
<1>3. /\ \A i, j \in 1 .. Len(back) : back[i] = Response(id) /\ back[j] = Response(id) => i = j
      /\ \A i, j \in 1 .. Len(home) : home[i] = Response(id) /\ home[j] = Response(id) => i = j
      /\ \A i \in 1 .. Len(back), j \in 1 .. Len(home) :
           ~(back[i] = Response(id) /\ home[j] = Response(id))
      /\ \A i \in 1 .. Len(back) : back[i] = Response(id) => id \notin inbound
      /\ \A i \in 1 .. Len(home) : home[i] = Response(id) => id \notin inbound
  <2>1. DOMAIN back = 1 .. Len(back) /\ DOMAIN home = 1 .. Len(home)
    BY DEF Queues
  <2>2. /\ \A i \in 1 .. Len(back) : back[i] \in Range(back)
        /\ \A i \in 1 .. Len(home) : home[i] \in Range(home)
    BY <2>1 DEF Range
  <2>. QED
    BY <1>2, <2>1, <2>2 DEF Routed, OneTicket, Once
<1>4. /\ Len(back) \in Nat /\ Len(home) \in Nat
      /\ DOMAIN (back \o home) = 1 .. Len(back) + Len(home)
      /\ \A i \in 1 .. Len(back) + Len(home) :
           (back \o home)[i] = IF i <= Len(back) THEN back[i] ELSE home[i - Len(back)]
  BY ConcatProperties DEF Queues
<1>5. \A i \in InTransit(id) :
        \/ i \in 1 .. Len(back) /\ back[i] = Response(id)
        \/ i - Len(back) \in 1 .. Len(home) /\ home[i - Len(back)] = Response(id) /\ i \in Nat
  <2>1. InTransit(id) = {i \in 1 .. Len(back) + Len(home) : (back \o home)[i] = Response(id)}
    BY <1>1, <1>4 DEF InTransit
  <2>2. \A i \in 1 .. Len(back) + Len(home) :
          \/ i \in 1 .. Len(back) /\ i <= Len(back)
          \/ i - Len(back) \in 1 .. Len(home) /\ ~(i <= Len(back)) /\ i \in Nat
    BY <1>4
  <2>. QED
    BY <1>4, <2>1, <2>2
<1>6. \A i, j \in InTransit(id) : i = j
  <2>. SUFFICES ASSUME NEW i \in InTransit(id), NEW j \in InTransit(id) PROVE i = j
    OBVIOUS
  <2>1. CASE i \in 1 .. Len(back)
    BY <1>3, <1>4, <1>5, <2>1
  <2>2. CASE i \notin 1 .. Len(back)
    BY <1>3, <1>4, <1>5, <2>2
  <2>. QED
    BY <2>1, <2>2
<1>. QED
  BY <1>3, <1>5, <1>6

\* However lines break, buses lag and either side restarts: a summons is somewhere or has
\* its file in the caller's inbox, its reply is routed home once, and a timeout is told
\* of it only after a minute (dispatch_summon, handle_event, scan_outbox, prune_expired).
THEOREM SummonsKept == SummonSpec => []SummonInv
<1>1. CourierInv => SummonInv
  BY CourierRoutesOnce DEF CourierInv, SummonInv
<1>2. CourierInv /\ [SummonNext]_summonVars => CourierInv'
  BY RouteStep, TypesKept, SomewhereKept, LateKept DEF CourierInv
<1>. QED
  BY <1>1, <1>2, CourierInit, PTL DEF SummonSpec

-----------------------------------------------------------------------------
(*****************************************************************************)
(* Compactions.                                                              *)
(*                                                                           *)
(* Messages carry their numbers, so what is left of a conversation is known by *)
(* them.  A call that is there has all its results behind it, with nothing else *)
(* between (Answered, Between); a call is lost only together with all that is *)
(* before it but the first message (CutBefore), which is what the walk back from *)
(* a cutoff relies on: a result at the cutoff has its call in the run of results *)
(* before it, or nowhere.  That the latest results are not cleared is counted *)
(* from the end (LatestKept), which cutting a beginning off does not change. *)
(*****************************************************************************)

(* Counting. *)

\* A set of numbers that is not empty has a least one.
LEMMA LeastOf ==
  ASSUME NEW T \in SUBSET Nat, T # {}
  PROVE  \E x \in T : \A y \in T : x <= y
<1> DEFINE R == OpToRel(<, Nat)
<1>1. IsWellFoundedOn(R, Nat) BY NatLessThanWellFounded
<1>2. \A x, y \in Nat : <<x, y>> \in R <=> x < y BY DEF OpToRel
<1> HIDE DEF R
<1>3. PICK x \in T : \A y \in T : ~ (<<y, x>> \in R) BY <1>1, WFMin
<1>4. \A y \in T : x <= y
  <2> TAKE y \in T
  <2>1. x \in Nat /\ y \in Nat OBVIOUS
  <2>2. ~ (y < x) BY <1>2, <1>3, <2>1
  <2> QED BY <2>1, <2>2
<1> QED BY <1>3, <1>4

\* One that has a bound has a greatest.
LEMMA GreatestOf ==
  ASSUME NEW n \in Nat, NEW T \in SUBSET (0 .. n), T # {}
  PROVE  /\ \E x \in T : \A y \in T : x >= y
         /\ Max(T) \in T /\ \A y \in T : Max(T) >= y
<1> DEFINE D == {n - x : x \in T}
<1>1. \A x \in T : n - x \in Nat OBVIOUS
<1>2. \A x \in T : n - x \in D OBVIOUS
<1>3. \A d \in D : \E x \in T : d = n - x OBVIOUS
<1> HIDE DEF D
<1>4. D \in SUBSET Nat /\ D # {} BY <1>1, <1>2, <1>3
<1>5. PICK d \in D : \A e \in D : d <= e BY <1>4, LeastOf
<1>6. PICK x \in T : d = n - x BY <1>3
<1>7. \A y \in T : x >= y BY <1>2, <1>5, <1>6
<1>8. \E z \in T : \A y \in T : z >= y BY <1>7
<1> QED BY <1>8 DEF Max

\* What is covered by another set has no more elements.
LEMMA Covered ==
  ASSUME NEW S, IsFiniteSet(S), NEW T, NEW f,
         \A t \in T : \E s \in S : f[s] = t
  PROVE  IsFiniteSet(T) /\ Cardinality(T) <= Cardinality(S)
         /\ Cardinality(T) \in Nat /\ Cardinality(S) \in Nat
<1> DEFINE D == {s \in S : f[s] \in T}
           e == [s \in D |-> f[s]]
<1>1. IsFiniteSet(D) /\ Cardinality(D) <= Cardinality(S) BY FS_Subset
<1>2. e \in Surjection(D, T) BY DEF Surjection
<1> HIDE DEF D, e
<1>3. IsFiniteSet(T) /\ Cardinality(T) <= Cardinality(D)
  BY <1>1, <1>2, FS_Surjection
<1>4. Cardinality(T) \in Nat /\ Cardinality(S) \in Nat /\ Cardinality(D) \in Nat
  BY <1>1, <1>3, FS_CardinalityType
<1> QED BY <1>1, <1>3, <1>4

\* A finite set of numbers has them in order, and Nth counts through them.
LEMMA InOrder ==
  ASSUME NEW K \in SUBSET Nat, IsFiniteSet(K)
  PROVE  /\ Cardinality(K) \in Nat
         /\ \A i \in 1 .. Cardinality(K) : Nth(K, i) \in K
         /\ \A i, j \in 1 .. Cardinality(K) : i < j => Nth(K, i) < Nth(K, j)
         /\ \A p \in K : \E i \in 1 .. Cardinality(K) : Nth(K, i) = p
<1> DEFINE Under(p) == {q \in K : q < p}
           r(p) == Cardinality(Under(p))
<1>1. PICK N \in Nat : N = Cardinality(K) BY FS_CardinalityType
<1>2. \A p \in K : IsFiniteSet(Under(p)) /\ r(p) \in Nat /\ r(p) <= N - 1
  <2> TAKE p \in K
  <2>1. Under(p) \in SUBSET K /\ p \notin Under(p) OBVIOUS
  <2>2. IsFiniteSet(Under(p)) /\ r(p) <= N /\ r(p) \in Nat /\ (N = r(p) => K = Under(p))
    BY <1>1, <2>1, FS_Subset, FS_CardinalityType
  <2> QED BY <2>1, <2>2
<1>3. \A p, q \in K : p < q => r(p) < r(q)
  <2> SUFFICES ASSUME NEW p \in K, NEW q \in K, p < q PROVE r(p) < r(q) OBVIOUS
  <2>1. IsFiniteSet(Under(p)) /\ IsFiniteSet(Under(q)) /\ r(p) \in Nat /\ r(q) \in Nat BY <1>2
  <2>2. p \notin Under(p) /\ Under(p) \cup {p} \in SUBSET Under(q)
    <3>1. \A x \in K : x \in Nat OBVIOUS
    <3>2. p \notin Under(p) BY <3>1
    <3>3. \A x \in Under(p) : x \in Under(q) BY <3>1
    <3>4. p \in Under(q) OBVIOUS
    <3> HIDE DEF Under
    <3> QED BY <3>2, <3>3, <3>4
  <2>3. Cardinality(Under(p) \cup {p}) = r(p) + 1 BY <2>1, <2>2, FS_AddElement
  <2>4. Cardinality(Under(p) \cup {p}) <= r(q) BY <2>1, <2>2, FS_Subset
  <2> QED BY <2>1, <2>3, <2>4
<1>4. \A i \in 0 .. N - 1 : \E p \in K : r(p) = i
  <2> DEFINE missing == {i \in 0 .. N - 1 : ~ \E p \in K : r(p) = i}
  <2>1. SUFFICES ASSUME missing # {} PROVE FALSE OBVIOUS
  <2>2. missing \in SUBSET Nat BY <1>1
  <2>3. PICK i \in missing : \A j \in missing : i <= j
    <3> HIDE DEF missing
    <3> QED BY <2>1, <2>2, LeastOf
  <2>4. i \in Nat /\ i <= N - 1 /\ ~ \E p \in K : r(p) = i BY <1>1, <2>3
  <2>5. CASE i = 0
    <3>1. K # {} BY <1>1, <2>4, <2>5, FS_EmptySet
    <3>2. PICK m \in K : \A q \in K : m <= q BY <3>1, LeastOf
    <3>3. Under(m) = {}
      <4>1. \A x \in K : x \in Nat OBVIOUS
      <4>2. \A x \in K : ~(x < m) BY <3>2, <4>1
      <4> QED BY <4>2
    <3>4. r(m) = 0 BY <3>3, FS_EmptySet
    <3> QED BY <2>4, <2>5, <3>4
  <2>6. CASE i # 0
    <3>1. i - 1 \in 0 .. N - 1 /\ ~(i <= i - 1) BY <1>1, <2>4, <2>6
    <3>2. i - 1 \notin missing BY <2>3, <3>1
    <3>3. PICK p \in K : r(p) = i - 1 BY <3>1, <3>2
    <3> DEFINE above == {q \in K : q > p}
    <3>0. \A x \in K : x \in Nat OBVIOUS
    <3>4. IsFiniteSet(Under(p)) /\ p \notin Under(p) BY <1>2, <3>0
    <3>5. /\ IsFiniteSet(Under(p) \cup {p})
          /\ Cardinality(Under(p) \cup {p}) = i
      <4>1. IsFiniteSet(Under(p) \cup {p}) /\ Cardinality(Under(p) \cup {p}) = r(p) + 1
        <5> HIDE DEF Under
        <5> QED BY <3>4, FS_AddElement
      <4>2. (i - 1) + 1 = i BY <2>4
      <4> QED BY <3>3, <4>1, <4>2
    <3>6. above # {}
      <4>1. SUFFICES ASSUME above = {} PROVE FALSE OBVIOUS
      <4>2. \A x \in K : x \in Under(p) \/ x = p BY <3>0, <4>1
      <4>3. Under(p) \subseteq K OBVIOUS
      <4>4. K = Under(p) \cup {p}
        <5> HIDE DEF Under
        <5> QED BY <4>2, <4>3
      <4>5. N = i
        <5> HIDE DEF Under
        <5> QED BY <1>1, <3>5, <4>4
      <4> QED BY <1>1, <2>4, <4>5
    <3>7. above \in SUBSET Nat OBVIOUS
    <3>8. PICK q \in above : \A x \in above : q <= x
      <4> HIDE DEF above
      <4> QED BY <3>6, <3>7, LeastOf
    <3>9. Under(q) = Under(p) \cup {p}
      <4>1. q \in K /\ p < q /\ p \in K BY <3>8
      <4>2. \A x \in Under(q) : x \in Under(p) \/ x = p BY <3>0, <3>8
      <4>3. \A x \in Under(p) : x \in Under(q) BY <3>0, <4>1
      <4>4. p \in Under(q) BY <4>1
      <4> HIDE DEF Under
      <4> QED BY <4>2, <4>3, <4>4
    <3>10. r(q) = i /\ q \in K BY <3>5, <3>8, <3>9
    <3> QED BY <2>4, <3>10
  <2> QED BY <2>5, <2>6
<1>5. \A i \in 1 .. N : Nth(K, i) \in K /\ r(Nth(K, i)) = i - 1
  <2> TAKE i \in 1 .. N
  <2>1. i - 1 \in 0 .. N - 1 BY <1>1
  <2>2. PICK p \in K : r(p) = i - 1 BY <1>4, <2>1
  <2>3. \E x \in K : Cardinality({q \in K : q < x}) = i - 1 BY <2>2
  <2>4. Nth(K, i) = CHOOSE x \in K : Cardinality({q \in K : q < x}) = i - 1 BY DEF Nth
  <2>5. Nth(K, i) \in K /\ Cardinality({q \in K : q < Nth(K, i)}) = i - 1 BY <2>3, <2>4
  <2> QED BY <2>5
<1>6. \A i, j \in 1 .. N : i < j => Nth(K, i) < Nth(K, j)
  <2> SUFFICES ASSUME NEW i \in 1 .. N, NEW j \in 1 .. N, i < j,
                      ~ (Nth(K, i) < Nth(K, j))
               PROVE  FALSE
    OBVIOUS
  <2>1. PICK p \in K : p = Nth(K, i) BY <1>5
  <2>2. PICK q \in K : q = Nth(K, j) BY <1>5
  <2>3. r(p) = i - 1 /\ r(q) = j - 1 BY <1>5, <2>1, <2>2
  <2>4. q = p \/ q < p BY <2>1, <2>2
  <2> HIDE DEF Under
  <2>5. q < p => r(q) < r(p) BY <1>3
  <2>6. i \in Nat /\ j \in Nat BY <1>1
  <2> QED BY <2>3, <2>4, <2>5, <2>6
<1>7. \A p \in K : \E i \in 1 .. N : Nth(K, i) = p
  <2> TAKE p \in K
  <2>1. r(p) \in Nat /\ r(p) <= N - 1 BY <1>2
  <2>0. r(p) + 1 \in 1 .. N
    <3> HIDE DEF r
    <3> QED BY <1>1, <2>1
  <2>2. PICK i \in 1 .. N : i = r(p) + 1 BY <2>0
  <2>3. PICK q \in K : q = Nth(K, i) BY <1>5
  <2>4. r(q) = r(p) BY <1>1, <1>5, <2>1, <2>2, <2>3
  <2> HIDE DEF Under
  <2>5. ~(p < q) /\ ~(q < p) BY <1>2, <1>3, <2>4
  <2>6. q = p BY <2>5
  <2> QED BY <2>3, <2>6
<1> HIDE DEF Under
<1> QED BY <1>1, <1>5, <1>6, <1>7

-----------------------------------------------------------------------------
(* The inductive invariant. *)

Msgs ==
    [id: 1 .. MaxMessages, kind: Kinds, calls: 0 .. MaxCalls,
     of: (0 .. MaxMessages) \X (0 .. MaxCalls), trivial: BOOLEAN, cleared: BOOLEAN]

Paired == {"call", "result"}

\* What is true of each message.
Sound(m, n) ==
    /\ m.id <= n
    /\ m.kind = "result" => m.of[1] >= 1 /\ m.of[2] >= 1 /\ m.id = m.of[1] + m.of[2]
    /\ m.trivial => m.kind \notin Paired

\* Messages are in the order of their numbers, and results in that of their calls.
Ordered(h) ==
    \A i, j \in DOMAIN h : i < j =>
        /\ h[i].id < h[j].id
        /\ h[i].kind = "result" /\ h[j].kind = "result" => h[i].of[1] <= h[j].of[1]

\* A call that is there has all its results.
Answered(h) ==
    \A i \in DOMAIN h : h[i].kind = "call" =>
        \A c \in 1 .. h[i].calls :
            \E k \in DOMAIN h : h[k].kind = "result" /\ h[k].of = <<h[i].id, c>>

\* What a result belongs to is a call with that many.
Belongs(h) ==
    \A c, k \in DOMAIN h :
        h[k].kind = "result" /\ h[c].id = h[k].of[1]
        => h[c].kind = "call" /\ h[k].of[2] <= h[c].calls

\* A call is only ever lost with all before it, but for the first message.
CutBefore(h) ==
    \A i, k \in DOMAIN h :
        1 < i /\ i < k /\ h[k].kind = "result" /\ h[i].id < h[k].of[1]
        => \E c \in DOMAIN h : h[c].id = h[k].of[1]

Later(h, i) == {j \in DOMAIN h : i < j /\ h[j].kind = "result"}

LatestKept(h) ==
    \A i \in DOMAIN h :
        h[i].kind = "result" /\ h[i].cleared => Cardinality(Later(h, i)) >= KeepRecent

Anchored(h, n) ==
    /\ h = <<>> => n = 0
    /\ h # <<>> => h[1].id = 1 /\ h[1].kind \notin Paired

History(h, n) ==
    /\ h \in Seq(Msgs) /\ n \in Nat /\ n <= MaxMessages
    /\ \A i \in DOMAIN h : Sound(h[i], n)
    /\ Anchored(h, n) /\ Ordered(h)
    /\ Answered(h) /\ Belongs(h) /\ CutBefore(h) /\ LatestKept(h)

ConversationInv == History(messages, added) /\ panicked \in BOOLEAN

\* The bounds are numbers.
LEMMA CompactionBounds ==
    /\ PreserveRecent \in Nat /\ MaxWalkBack \in Nat /\ KeepRecent \in Nat
    /\ MaxCalls \in Nat /\ MaxMessages \in Nat
  BY CompactionConstants

\* What a message is made of.
LEMMA MessageHas ==
  ASSUME NEW m \in Msgs
  PROVE  /\ m.id \in Nat /\ m.id >= 1 /\ m.calls \in Nat
         /\ m.of[1] \in Nat /\ m.of[2] \in Nat /\ m.of = <<m.of[1], m.of[2]>>
         /\ m.kind \in Kinds /\ m.trivial \in BOOLEAN /\ m.cleared \in BOOLEAN
<1>1. /\ m.id \in 1 .. MaxMessages /\ m.calls \in 0 .. MaxCalls
      /\ m.of \in (0 .. MaxMessages) \X (0 .. MaxCalls)
      /\ m.kind \in Kinds /\ m.trivial \in BOOLEAN /\ m.cleared \in BOOLEAN
  BY DEF Msgs
<1>2. PICK a \in 0 .. MaxMessages, b \in 0 .. MaxCalls : m.of = <<a, b>>
  BY <1>1
<1>3. m.of[1] = a /\ m.of[2] = b BY <1>2
<1> QED BY <1>1, <1>2, <1>3, CompactionBounds

\* What a history is made of.
LEMMA HistoryHas ==
  ASSUME NEW h, NEW n, History(h, n)
  PROVE  /\ Len(h) \in Nat /\ DOMAIN h = 1 .. Len(h)
         /\ \A i \in DOMAIN h :
              /\ h[i] \in Msgs /\ h[i].id \in Nat /\ h[i].id >= 1 /\ h[i].id <= n
              /\ h[i].of[1] \in Nat /\ h[i].of[2] \in Nat
              /\ h[i].of = <<h[i].of[1], h[i].of[2]>>
         /\ \A i, j \in DOMAIN h : h[i].id = h[j].id => i = j
         /\ \A i \in DOMAIN h :
              /\ IsFiniteSet(Later(h, i)) /\ Cardinality(Later(h, i)) \in Nat
              /\ h[i].kind \in Paired => i > 1
<1>1. /\ h \in Seq(Msgs) /\ Len(h) \in Nat /\ DOMAIN h = 1 .. Len(h)
      /\ \A i \in DOMAIN h : h[i] \in Msgs /\ h[i].id <= n
  BY DEF History, Sound
<1>2. \A i \in DOMAIN h :
              /\ h[i] \in Msgs /\ h[i].id \in Nat /\ h[i].id >= 1 /\ h[i].id <= n
              /\ h[i].of[1] \in Nat /\ h[i].of[2] \in Nat
              /\ h[i].of = <<h[i].of[1], h[i].of[2]>>
  BY <1>1, MessageHas
<1>3. ASSUME NEW i \in DOMAIN h, NEW j \in DOMAIN h, h[i].id = h[j].id PROVE i = j
  <2>1. i < j => h[i].id < h[j].id BY DEF History, Ordered
  <2>2. j < i => h[j].id < h[i].id BY DEF History, Ordered
  <2>3. i \in Nat /\ j \in Nat BY <1>1
  <2>4. h[i].id \in Nat /\ h[j].id \in Nat BY <1>2
  <2>5. ~(i < j) /\ ~(j < i) BY <1>3, <2>1, <2>2, <2>4
  <2> QED BY <2>3, <2>5
<1>4. ASSUME NEW i \in DOMAIN h
      PROVE  /\ IsFiniteSet(Later(h, i)) /\ Cardinality(Later(h, i)) \in Nat
             /\ h[i].kind \in Paired => i > 1
  <2>1. IsFiniteSet(1 .. Len(h)) BY <1>1, FS_Interval
  <2>2. Later(h, i) \in SUBSET (1 .. Len(h)) BY <1>1 DEF Later
  <2>3. IsFiniteSet(Later(h, i)) BY <2>1, <2>2, FS_Subset
  <2>4. Cardinality(Later(h, i)) \in Nat BY <2>3, FS_CardinalityType
  <2>5. i \in Nat /\ i >= 1 /\ h # <<>> BY <1>1
  <2>6. i = 1 => h[i].kind \notin Paired BY <2>5 DEF History, Anchored
  <2> QED BY <2>3, <2>4, <2>5, <2>6
<1> QED BY <1>1, <1>2, <1>3, <1>4

\* The invariant is stronger than the property.
LEMMA HistoryGives == ConversationInv => MessagesInv
<1> SUFFICES ASSUME ConversationInv PROVE MessagesInv OBVIOUS
<1>1. History(messages, added) BY DEF ConversationInv
<1>2. MessagesTypeOK
  <2>1. added \in 0 .. MaxMessages BY <1>1, CompactionBounds DEF History
  <2>2. \A i \in DOMAIN messages : messages[i] \in Msgs BY <1>1, HistoryHas
  <2> QED BY <2>1, <2>2 DEF MessagesTypeOK, ConversationInv, Msgs
<1>3. OrderKept BY <1>1 DEF OrderKept, History, Anchored, Ordered
<1>4. LatestIntact
  <2>1. \A i \in DOMAIN messages : LaterResults(i) = Later(messages, i)
    BY DEF LaterResults, Later
  <2> QED BY <1>1, <2>1 DEF LatestIntact, History, LatestKept
<1> QED BY <1>2, <1>3, <1>4 DEF MessagesInv

\* It holds at the beginning.
LEMMA ConversationInit == CompactionInit => ConversationInv
<1> SUFFICES ASSUME CompactionInit PROVE ConversationInv OBVIOUS
<1>1. messages = <<>> /\ added = 0 /\ panicked = FALSE BY DEF CompactionInit
<1>2. DOMAIN messages = {} BY <1>1
<1>3. messages \in Seq(Msgs) /\ added \in Nat /\ added <= MaxMessages
  BY <1>1, CompactionBounds
<1>4. Anchored(messages, added) BY <1>1 DEF Anchored
<1>5. /\ Ordered(messages) /\ Answered(messages) /\ Belongs(messages)
      /\ CutBefore(messages) /\ LatestKept(messages)
      /\ \A i \in DOMAIN messages : Sound(messages[i], added)
  BY <1>2 DEF Ordered, Answered, Belongs, CutBefore, LatestKept
<1> QED BY <1>1, <1>3, <1>4, <1>5 DEF ConversationInv, History

-----------------------------------------------------------------------------
(* What a plan keeps. *)

\* The positions a plan keeps: the first, and with any other every call and every
\* result behind it.
Keeping(h, keep) ==
    /\ keep \subseteq Positions(h) /\ 0 \in keep
    /\ \A p \in keep, q \in Positions(h) :
         0 < p /\ p < q /\ AtPosition(h, q).kind \in Paired => q \in keep

\* How the messages of one history are found in another, of which they are kept.
Within(new, h, g) ==
    /\ new # <<>> /\ new \in Seq(Msgs)
    /\ \A i \in DOMAIN new : g[i] \in DOMAIN h /\ new[i] = h[g[i]]
    /\ \A i, j \in DOMAIN new : i < j => g[i] < g[j]
    /\ g[1] = 1
    /\ \A i \in DOMAIN new, p \in DOMAIN h :
         1 < i /\ g[i] < p /\ h[p].kind \in Paired => \E j \in DOMAIN new : g[j] = p

\* What is kept by such a plan.
LEMMA KeptWithin ==
  ASSUME NEW h, NEW n, History(h, n), NEW keep, Keeping(h, keep)
  PROVE  \E g : /\ Within(Kept(h, keep), h, g)
               /\ \A q \in DOMAIN h :
                    q - 1 \in keep <=> \E i \in DOMAIN Kept(h, keep) : g[i] = q
<1>1. h \in Seq(Msgs) /\ Len(h) \in Nat /\ DOMAIN h = 1 .. Len(h)
      /\ \A i \in DOMAIN h : h[i] \in Msgs
  BY HistoryHas DEF History
<1>2. keep \in SUBSET Nat /\ \A p \in keep : p + 1 \in 1 .. Len(h) /\ p \in Nat
  BY <1>1 DEF Keeping, Positions
<1>3. IsFiniteSet(keep)
  <2>1. IsFiniteSet(0 .. Len(h) - 1) BY <1>1, FS_Interval
  <2> QED BY <2>1, FS_Subset DEF Keeping, Positions
<1>4. PICK N : N = Cardinality(keep) OBVIOUS
<1>5. /\ N \in Nat
      /\ \A i \in 1 .. N : Nth(keep, i) \in keep
      /\ \A i, j \in 1 .. N : i < j => Nth(keep, i) < Nth(keep, j)
      /\ \A p \in keep : \E i \in 1 .. N : Nth(keep, i) = p
  BY <1>2, <1>3, <1>4, InOrder
<1> DEFINE g == [i \in 1 .. N |-> Nth(keep, i) + 1]
           new == Kept(h, keep)
<1>6. new = [i \in 1 .. N |-> h[Nth(keep, i) + 1]] BY <1>4 DEF Kept, AtPosition
<1>7. \A i \in 1 .. N : Nth(keep, i) + 1 \in DOMAIN h BY <1>1, <1>2, <1>5
<1>8. new \in Seq(Msgs) /\ DOMAIN new = 1 .. N
  <2>1. \A i \in 1 .. N : h[Nth(keep, i) + 1] \in Msgs BY <1>1, <1>7
  <2> QED BY <1>5, <1>6, <2>1
<1>9. new # <<>> /\ 1 \in 1 .. N
  <2>1. PICK i \in 1 .. N : Nth(keep, i) = 0 BY <1>5 DEF Keeping
  <2>2. 1 \in 1 .. N
    <3>1. N >= 1 BY <1>5, <2>1
    <3> QED BY <1>5, <3>1
  <2>3. 1 \in DOMAIN new BY <1>8, <2>2
  <2>4. new # <<>>
    <3> HIDE DEF new
    <3> QED BY <2>3
  <2> QED BY <2>2, <2>4
<1>10. \A i \in 1 .. N : g[i] \in DOMAIN h /\ new[i] = h[g[i]] BY <1>6, <1>7
<1>11. \A i, j \in 1 .. N : i < j => g[i] < g[j]
  <2> SUFFICES ASSUME NEW i \in 1 .. N, NEW j \in 1 .. N, i < j PROVE g[i] < g[j] OBVIOUS
  <2>1. Nth(keep, i) < Nth(keep, j) /\ Nth(keep, i) \in Nat /\ Nth(keep, j) \in Nat
    BY <1>2, <1>5
  <2> QED BY <2>1
<1>12. g[1] = 1
  <2>1. PICK i \in 1 .. N : Nth(keep, i) = 0 BY <1>5 DEF Keeping
  <2>2. Nth(keep, 1) \in Nat BY <1>2, <1>5, <1>9
  <2>3. 1 < i => Nth(keep, 1) < Nth(keep, i) BY <1>5, <1>9
  <2>4. i = 1 BY <1>5, <2>1, <2>2, <2>3
  <2> QED BY <1>9, <2>1, <2>4
<1>13. ASSUME NEW i \in 1 .. N, NEW p \in DOMAIN h, 1 < i, g[i] < p, h[p].kind \in Paired
       PROVE  \E j \in 1 .. N : g[j] = p
  <2>1. g[1] < g[i] BY <1>9, <1>11, <1>13
  <2>2. PICK q : q = Nth(keep, i) OBVIOUS
  <2>3. q \in keep /\ q \in Nat /\ g[i] = q + 1 BY <1>2, <1>5, <2>2
  <2>4. 0 < q /\ q < p - 1 /\ p - 1 \in Positions(h) /\ p \in Nat
    BY <1>1, <1>12, <1>13, <2>1, <2>3 DEF Positions
  <2>5. AtPosition(h, p - 1) = h[p] BY <2>4 DEF AtPosition
  <2>6. p - 1 \in keep BY <1>13, <2>3, <2>4, <2>5 DEF Keeping
  <2>7. PICK j \in 1 .. N : Nth(keep, j) = p - 1 BY <1>5, <2>6
  <2>8. g[j] = p BY <2>4, <2>7
  <2> QED BY <2>8
<1>15. \A q \in DOMAIN h : q - 1 \in keep <=> \E i \in 1 .. N : g[i] = q
  <2> TAKE q \in DOMAIN h
  <2>1. q \in Nat BY <1>1
  <2>2. ASSUME q - 1 \in keep PROVE \E i \in 1 .. N : g[i] = q
    <3>1. PICK i \in 1 .. N : Nth(keep, i) = q - 1 BY <1>5, <2>2
    <3>2. g[i] = q BY <2>1, <3>1
    <3> QED BY <3>2
  <2>3. ASSUME NEW i \in 1 .. N, g[i] = q PROVE q - 1 \in keep
    <3>1. Nth(keep, i) \in Nat /\ Nth(keep, i) + 1 = q BY <1>2, <1>5, <2>3
    <3>2. q - 1 = Nth(keep, i) BY <2>1, <3>1
    <3> QED BY <1>5, <3>2
  <2> QED BY <2>2, <2>3
<1> HIDE DEF g, new
<1>14. Within(new, h, g) BY <1>8, <1>9, <1>10, <1>11, <1>12, <1>13 DEF Within
<1> QED BY <1>8, <1>14, <1>15 DEF new

\* It is a history still.
LEMMA KeptHistory ==
  ASSUME NEW h, NEW n, History(h, n), NEW new, NEW g, Within(new, h, g)
  PROVE  History(new, n)
<1>1. /\ Len(h) \in Nat /\ DOMAIN h = 1 .. Len(h)
      /\ \A i \in DOMAIN h :
              /\ h[i] \in Msgs /\ h[i].id \in Nat /\ h[i].id >= 1 /\ h[i].id <= n
              /\ h[i].of[1] \in Nat /\ h[i].of[2] \in Nat
              /\ h[i].of = <<h[i].of[1], h[i].of[2]>>
      /\ \A i, j \in DOMAIN h : h[i].id = h[j].id => i = j
      /\ \A i \in DOMAIN h :
              /\ IsFiniteSet(Later(h, i)) /\ Cardinality(Later(h, i)) \in Nat
              /\ h[i].kind \in Paired => i > 1
  BY HistoryHas
<1>2. /\ new # <<>> /\ new \in Seq(Msgs)
      /\ \A i \in DOMAIN new : g[i] \in DOMAIN h /\ new[i] = h[g[i]]
      /\ \A i, j \in DOMAIN new : i < j => g[i] < g[j]
      /\ g[1] = 1
      /\ \A i \in DOMAIN new, p \in DOMAIN h :
           1 < i /\ g[i] < p /\ h[p].kind \in Paired => \E j \in DOMAIN new : g[j] = p
  BY DEF Within
<1>3. DOMAIN new = 1 .. Len(new) /\ Len(new) \in Nat /\ 1 \in DOMAIN new BY <1>2
<1>4. \A i \in DOMAIN new : g[i] \in Nat /\ i \in Nat /\ i >= 1 BY <1>1, <1>2, <1>3
<1>5. \A i, j \in DOMAIN new : g[i] < g[j] => i < j
  <2> SUFFICES ASSUME NEW i \in DOMAIN new, NEW j \in DOMAIN new, g[i] < g[j], ~(i < j)
               PROVE  FALSE
    OBVIOUS
  <2>1. i = j \/ j < i BY <1>4
  <2>2. j < i => g[j] < g[i] BY <1>2
  <2> QED BY <1>4, <2>1, <2>2
\* A place in the old one, behind one that is kept, of what is kept too.
<1>6. ASSUME NEW i \in DOMAIN new, new[i].kind \in Paired,
             NEW p \in DOMAIN h, g[i] < p, h[p].kind \in Paired
      PROVE  \E j \in DOMAIN new : g[j] = p
  <2>1. g[i] > 1 BY <1>1, <1>2, <1>6
  <2>2. 1 < i BY <1>2, <1>3, <1>4, <2>1
  <2> QED BY <1>2, <1>6, <2>2
<1>7. n \in Nat /\ n <= MaxMessages /\ \A i \in DOMAIN new : Sound(new[i], n)
  BY <1>2 DEF History
<1>8. Anchored(new, n)
  <2>1. new[1] = h[1] /\ h # <<>> BY <1>1, <1>2, <1>3
  <2> QED BY <1>2, <2>1 DEF History, Anchored
<1>9. Ordered(new)
  <2> SUFFICES ASSUME NEW i \in DOMAIN new, NEW j \in DOMAIN new, i < j
               PROVE  /\ new[i].id < new[j].id
                      /\ new[i].kind = "result" /\ new[j].kind = "result"
                         => new[i].of[1] <= new[j].of[1]
    BY DEF Ordered
  <2>1. g[i] < g[j] BY <1>2
  <2> QED BY <1>2, <2>1 DEF History, Ordered
<1>10. Answered(new)
  <2> SUFFICES ASSUME NEW i \in DOMAIN new, new[i].kind = "call", NEW c \in 1 .. new[i].calls
               PROVE  \E k \in DOMAIN new :
                        new[k].kind = "result" /\ new[k].of = <<new[i].id, c>>
    BY DEF Answered
  <2>0. g[i] \in DOMAIN h /\ new[i] = h[g[i]] /\ Answered(h) BY <1>2 DEF History
  <2>1. PICK p \in DOMAIN h : h[p].kind = "result" /\ h[p].of = <<new[i].id, c>>
    BY <2>0 DEF Answered
  <2>2. h[p].id = h[p].of[1] + h[p].of[2] /\ h[p].of[2] >= 1 BY <2>1 DEF History, Sound
  <2>3. h[g[i]].id < h[p].id
    <3>1. h[p].of[1] = h[g[i]].id BY <1>2, <2>1
    <3> QED BY <1>1, <1>2, <2>2, <3>1
  <2>4. g[i] < p
    <3>1. p < g[i] => h[p].id < h[g[i]].id BY <1>2 DEF History, Ordered
    <3>2. p \in Nat /\ h[p].id \in Nat /\ h[g[i]].id \in Nat BY <1>1, <1>2
    <3> QED BY <1>4, <2>3, <3>1, <3>2
  <2>5. PICK k \in DOMAIN new : g[k] = p BY <1>6, <2>1, <2>4 DEF Paired
  <2> QED BY <1>2, <2>1, <2>5
<1>11. Belongs(new)
  <2> SUFFICES ASSUME NEW c \in DOMAIN new, NEW k \in DOMAIN new,
                      new[k].kind = "result", new[c].id = new[k].of[1]
               PROVE  new[c].kind = "call" /\ new[k].of[2] <= new[c].calls
    BY DEF Belongs
  <2>1. /\ g[c] \in DOMAIN h /\ new[c] = h[g[c]] /\ g[k] \in DOMAIN h /\ new[k] = h[g[k]]
        /\ Belongs(h)
    BY <1>2 DEF History
  <2> QED BY <2>1 DEF Belongs
<1>12. CutBefore(new)
  <2> SUFFICES ASSUME NEW i \in DOMAIN new, NEW k \in DOMAIN new, 1 < i, i < k,
                      new[k].kind = "result", new[i].id < new[k].of[1]
               PROVE  \E c \in DOMAIN new : new[c].id = new[k].of[1]
    BY DEF CutBefore
  <2>1. g[1] < g[i] /\ g[i] < g[k] BY <1>2, <1>3
  <2>2. PICK c \in DOMAIN h : h[c].id = h[g[k]].of[1]
    BY <1>2, <2>1 DEF History, CutBefore
  <2>3. h[c].kind = "call" BY <1>2, <2>2 DEF History, Belongs
  <2>4. g[i] < c
    <3>1. h[g[i]].id < h[c].id BY <1>2, <2>2
    <3>2. c < g[i] => h[c].id < h[g[i]].id BY <1>2 DEF History, Ordered
    <3>3. c \in Nat /\ h[c].id \in Nat /\ h[g[i]].id \in Nat BY <1>1, <1>2
    <3> QED BY <1>4, <3>1, <3>2, <3>3
  <2>5. PICK j \in DOMAIN new : g[j] = c BY <1>2, <2>3, <2>4 DEF Paired
  <2> QED BY <1>2, <2>2, <2>5
<1>13. LatestKept(new)
  <2> SUFFICES ASSUME NEW i \in DOMAIN new, new[i].kind = "result", new[i].cleared
               PROVE  Cardinality(Later(new, i)) >= KeepRecent
    BY DEF LatestKept
  <2>1. Cardinality(Later(h, g[i])) >= KeepRecent BY <1>2 DEF History, LatestKept
  <2>2. IsFiniteSet(Later(new, i))
    <3>1. IsFiniteSet(1 .. Len(new)) BY <1>3, FS_Interval
    <3>2. Later(new, i) \in SUBSET (1 .. Len(new)) BY <1>3 DEF Later
    <3> QED BY <3>1, <3>2, FS_Subset
  <2>3. \A p \in Later(h, g[i]) : \E j \in Later(new, i) : g[j] = p
    <3> SUFFICES ASSUME NEW p \in Later(h, g[i]) PROVE \E j \in Later(new, i) : g[j] = p
      OBVIOUS
    <3>1. p \in DOMAIN h /\ g[i] < p /\ h[p].kind = "result" BY DEF Later
    <3>2. PICK j \in DOMAIN new : g[j] = p BY <1>6, <3>1 DEF Paired
    <3>3. i < j BY <1>5, <3>1, <3>2
    <3> QED BY <1>2, <3>1, <3>2, <3>3 DEF Later
  <2>4. /\ Cardinality(Later(h, g[i])) <= Cardinality(Later(new, i))
        /\ Cardinality(Later(h, g[i])) \in Nat /\ Cardinality(Later(new, i)) \in Nat
    BY <2>2, <2>3, Covered
  <2> QED BY <2>1, <2>4, CompactionBounds
<1> QED BY <1>2, <1>7, <1>8, <1>9, <1>10, <1>11, <1>12, <1>13 DEF History

-----------------------------------------------------------------------------
(* What is added. *)

\* What is added at once: one message, or a call and all its results.
Exchange(new, n) ==
    /\ new \in Seq(Msgs) /\ new # <<>>
    /\ \A i \in DOMAIN new : new[i].id = n + i /\ ~new[i].cleared
    /\ new[1].kind # "result"
    /\ new[1].kind = "call" => ~new[1].trivial /\ new[1].calls = Len(new) - 1
    /\ \A i \in DOMAIN new : i > 1 =>
         /\ new[i].kind = "result" /\ new[i].of = <<n + 1, i - 1>> /\ ~new[i].trivial
         /\ new[1].kind = "call"

\* A history with such an exchange is one.
LEMMA Grown ==
  ASSUME NEW h, NEW n, History(h, n), NEW new, Exchange(new, n),
         n + Len(new) <= MaxMessages, h = <<>> => new[1].kind \notin Paired
  PROVE  History(h \o new, n + Len(new))
<1>1. /\ Len(h) \in Nat /\ DOMAIN h = 1 .. Len(h) /\ h \in Seq(Msgs) /\ n \in Nat
      /\ \A i \in DOMAIN h :
              /\ h[i] \in Msgs /\ h[i].id \in Nat /\ h[i].id >= 1 /\ h[i].id <= n
              /\ h[i].of[1] \in Nat /\ h[i].of[2] \in Nat
      /\ \A i \in DOMAIN h :
              IsFiniteSet(Later(h, i)) /\ Cardinality(Later(h, i)) \in Nat
  BY HistoryHas DEF History
<1>2. PICK L \in Nat : L = Len(h) BY <1>1
<1>3. PICK M \in Nat : M = Len(new) BY DEF Exchange
<1>4. PICK t : t = h \o new OBVIOUS
<1>5. new \in Seq(Msgs) /\ M >= 1 /\ DOMAIN new = 1 .. M BY <1>3 DEF Exchange
<1>6. /\ t \in Seq(Msgs) /\ Len(t) = L + M /\ DOMAIN t = 1 .. L + M
      /\ \A i \in 1 .. L : t[i] = h[i]
      /\ \A i \in 1 .. M : t[L + i] = new[i]
  BY <1>1, <1>2, <1>3, <1>4, <1>5
<1>7. \A i \in DOMAIN t : i \in Nat /\ (i \in 1 .. L \/ (i > L /\ i - L \in 1 .. M))
  BY <1>6
<1>8. \A i \in 1 .. L :
        /\ t[i] = h[i] /\ i \in DOMAIN h /\ t[i].id \in Nat /\ t[i].id <= n
        /\ t[i].of[1] \in Nat /\ t[i].of[2] \in Nat
        /\ t[i].kind = "result" => t[i].of[1] < t[i].id /\ t[i].of[1] <= n
  <2> TAKE i \in 1 .. L
  <2>1. t[i] = h[i] /\ i \in DOMAIN h BY <1>1, <1>2, <1>6
  <2>2. t[i].id \in Nat /\ t[i].id <= n /\ t[i].of[1] \in Nat /\ t[i].of[2] \in Nat
    BY <1>1, <2>1
  <2>3. t[i].kind = "result" => t[i].of[2] >= 1 /\ t[i].id = t[i].of[1] + t[i].of[2]
    BY <2>1 DEF History, Sound
  <2> QED BY <1>1, <2>1, <2>2, <2>3
<1>9. \A i \in DOMAIN t : i > L =>
        /\ i - L \in DOMAIN new /\ t[i] = new[i - L]
        /\ t[i].id = n + (i - L) /\ ~t[i].cleared
        /\ i = L + 1 => t[i] = new[1] /\ t[i].kind # "result"
        /\ i > L + 1 => /\ t[i].kind = "result" /\ t[i].of[1] = n + 1
                        /\ t[i].of[2] = (i - L) - 1 /\ t[i].of = <<n + 1, (i - L) - 1>>
                        /\ ~t[i].trivial /\ new[1].kind = "call"
  <2> SUFFICES ASSUME NEW i \in DOMAIN t, i > L
               PROVE  /\ i - L \in DOMAIN new /\ t[i] = new[i - L]
                      /\ t[i].id = n + (i - L) /\ ~t[i].cleared
                      /\ i = L + 1 => t[i] = new[1] /\ t[i].kind # "result"
                      /\ i > L + 1 => /\ t[i].kind = "result" /\ t[i].of[1] = n + 1
                                      /\ t[i].of[2] = (i - L) - 1
                                      /\ t[i].of = <<n + 1, (i - L) - 1>>
                                      /\ ~t[i].trivial /\ new[1].kind = "call"
    OBVIOUS
  <2>1. i \in Nat /\ i - L \in 1 .. M /\ L + (i - L) = i BY <1>6
  <2>2. PICK k \in 1 .. M : k = i - L BY <2>1
  <2>3. i = L + k /\ t[i] = new[k] /\ k \in DOMAIN new BY <1>5, <1>6, <2>1, <2>2
  <2>4. t[i].id = n + k /\ ~t[i].cleared BY <2>3 DEF Exchange
  <2>5. k = 1 => t[i] = new[1] /\ t[i].kind # "result" BY <2>3 DEF Exchange
  <2>6. k > 1 => /\ t[i].kind = "result" /\ t[i].of = <<n + 1, k - 1>> /\ ~t[i].trivial
                 /\ new[1].kind = "call"
    BY <2>3 DEF Exchange
  <2>7. k > 1 => t[i].of[1] = n + 1 /\ t[i].of[2] = k - 1 BY <2>6
  <2>8. (k = 1 <=> i = L + 1) /\ (k > 1 <=> i > L + 1) BY <2>3
  <2> QED BY <2>2, <2>3, <2>4, <2>5, <2>6, <2>7, <2>8
<1>10. L + 1 \in DOMAIN t BY <1>5, <1>6
<1>11. \A i \in DOMAIN t : Sound(t[i], n + M)
  <2> TAKE i \in DOMAIN t
  <2>1. CASE i \in 1 .. L
    <3>1. Sound(h[i], n) BY <1>8, <2>1 DEF History
    <3> QED BY <1>1, <1>8, <2>1, <3>1 DEF Sound
  <2>2. CASE i > L
    <3>1. t[i].id <= n + M BY <1>1, <1>5, <1>9, <2>2
    <3>2. t[i].kind = "result" =>
            /\ t[i].of[1] >= 1 /\ t[i].of[2] >= 1 /\ t[i].id = t[i].of[1] + t[i].of[2]
      <4>1. ASSUME t[i].kind = "result"
            PROVE  t[i].of[1] >= 1 /\ t[i].of[2] >= 1 /\ t[i].id = t[i].of[1] + t[i].of[2]
        <5>1. i # L + 1 /\ i \in Nat BY <1>7, <1>9, <2>2, <4>1
        <5>2. i > L + 1 BY <2>2, <5>1
        <5>3. t[i].of[1] = n + 1 /\ t[i].of[2] = (i - L) - 1 /\ t[i].id = n + (i - L)
          BY <1>9, <2>2, <5>2
        <5>4. n \in Nat /\ L \in Nat BY <1>1, <1>2
        <5> QED BY <5>1, <5>2, <5>3, <5>4
      <4> QED BY <4>1
    <3>3. t[i].trivial => t[i].kind \notin Paired
      <4>1. i > L + 1 => ~t[i].trivial BY <1>9
      <4>2. i = L + 1 => (t[i].kind = "call" => ~t[i].trivial) /\ t[i].kind # "result"
        BY <1>9 DEF Exchange
      <4>3. i = L + 1 \/ i > L + 1 BY <1>7, <2>2
      <4> QED BY <4>1, <4>2, <4>3, <1>9 DEF Paired
    <3> QED BY <3>1, <3>2, <3>3 DEF Sound
  <2> QED BY <1>7, <2>1, <2>2
<1>12. Anchored(t, n + M)
  <2>1. t # <<>> BY <1>10
  <2>2. CASE L = 0
    <3>1. h = <<>> /\ n = 0 BY <1>1, <1>2, <2>2 DEF History, Anchored
    <3>2. t[1] = new[1] /\ new[1].id = n + 1 BY <1>9, <1>10, <2>2
    <3> QED BY <2>1, <3>1, <3>2 DEF Anchored
  <2>3. CASE L # 0
    <3>1. h # <<>> /\ t[1] = h[1] BY <1>1, <1>2, <1>6, <2>3
    <3> QED BY <2>1, <3>1 DEF History, Anchored
  <2> QED BY <2>2, <2>3
<1>13. Ordered(t)
  <2> SUFFICES ASSUME NEW i \in DOMAIN t, NEW j \in DOMAIN t, i < j
               PROVE  /\ t[i].id < t[j].id
                      /\ t[i].kind = "result" /\ t[j].kind = "result"
                         => t[i].of[1] <= t[j].of[1]
    BY DEF Ordered
  <2>1. CASE j \in 1 .. L
    <3>1. i \in 1 .. L BY <1>7, <2>1
    <3> QED BY <1>8, <2>1, <3>1 DEF History, Ordered
  <2>2. CASE i \in 1 .. L /\ j > L
    <3>1. t[i].id < t[j].id BY <1>1, <1>7, <1>8, <1>9, <2>2
    <3>2. ASSUME t[i].kind = "result", t[j].kind = "result" PROVE t[i].of[1] <= t[j].of[1]
      <4>1. j > L + 1 BY <1>7, <1>9, <2>2, <3>2
      <4>2. t[j].of[1] = n + 1 /\ t[i].of[1] <= n /\ t[i].of[1] \in Nat
        BY <1>8, <1>9, <2>2, <3>2, <4>1
      <4> QED BY <1>1, <4>2
    <3> QED BY <3>1, <3>2
  <2>3. CASE i > L /\ j > L
    <3>1. t[i].id < t[j].id BY <1>1, <1>7, <1>9, <2>3
    <3>2. ASSUME t[i].kind = "result", t[j].kind = "result" PROVE t[i].of[1] <= t[j].of[1]
      <4>1. j > L + 1 /\ i > L + 1 BY <1>7, <1>9, <2>3, <3>2
      <4>2. t[j].of[1] = n + 1 /\ t[i].of[1] = n + 1 BY <1>9, <4>1
      <4> QED BY <1>1, <4>2
    <3> QED BY <3>1, <3>2
  <2> QED BY <1>7, <2>1, <2>2, <2>3
<1>14. Answered(t)
  <2> SUFFICES ASSUME NEW i \in DOMAIN t, t[i].kind = "call", NEW c \in 1 .. t[i].calls
               PROVE  \E k \in DOMAIN t : t[k].kind = "result" /\ t[k].of = <<t[i].id, c>>
    BY DEF Answered
  <2>1. CASE i \in 1 .. L
    <3>1. PICK k \in DOMAIN h : h[k].kind = "result" /\ h[k].of = <<t[i].id, c>>
      BY <1>8, <2>1 DEF History, Answered
    <3>2. k \in 1 .. L /\ k \in DOMAIN t BY <1>1, <1>2, <1>6
    <3> QED BY <1>6, <3>1, <3>2
  <2>2. CASE i > L
    <3>1. i = L + 1
      <4>1. i > L + 1 => t[i].kind = "result" BY <1>9
      <4> QED BY <1>7, <2>2, <4>1
    <3>2. t[i].calls = M - 1 /\ t[i].id = n + 1 BY <1>3, <1>9, <3>1 DEF Exchange
    <3>3. L + c + 1 \in DOMAIN t /\ L + c + 1 > L + 1 /\ (L + c + 1) - L - 1 = c
      BY <1>6, <3>2
    <3>4. PICK k \in DOMAIN t : k = L + c + 1 BY <3>3
    <3>5. t[k].kind = "result" /\ t[k].of = <<n + 1, (k - L) - 1>> /\ (k - L) - 1 = c
      BY <1>9, <3>3, <3>4
    <3> QED BY <3>2, <3>5
  <2> QED BY <1>7, <2>1, <2>2
<1>15. Belongs(t)
  <2> SUFFICES ASSUME NEW c \in DOMAIN t, NEW k \in DOMAIN t,
                      t[k].kind = "result", t[c].id = t[k].of[1]
               PROVE  t[c].kind = "call" /\ t[k].of[2] <= t[c].calls
    BY DEF Belongs
  <2>1. CASE k \in 1 .. L
    <3>1. t[c].id <= n BY <1>8, <2>1
    <3>2. c \in 1 .. L BY <1>1, <1>7, <1>9, <3>1
    <3> QED BY <1>8, <2>1, <3>2 DEF History, Belongs
  <2>2. CASE k > L
    <3>1. k > L + 1 BY <1>7, <1>9, <2>2
    <3>2. t[k].of[1] = n + 1 /\ t[k].of[2] = (k - L) - 1 /\ new[1].kind = "call"
      BY <1>9, <3>1
    <3>3. c > L BY <1>1, <1>7, <1>8, <3>2
    <3>4. c = L + 1 BY <1>1, <1>7, <1>9, <3>2, <3>3
    <3>5. t[c] = new[1] /\ new[1].calls = M - 1 BY <1>3, <1>9, <3>2, <3>4 DEF Exchange
    <3>6. (k - L) - 1 <= M - 1 BY <1>6
    <3> QED BY <3>2, <3>5, <3>6
  <2> QED BY <1>7, <2>1, <2>2
<1>16. CutBefore(t)
  <2> SUFFICES ASSUME NEW i \in DOMAIN t, NEW k \in DOMAIN t, 1 < i, i < k,
                      t[k].kind = "result", t[i].id < t[k].of[1]
               PROVE  \E c \in DOMAIN t : t[c].id = t[k].of[1]
    BY DEF CutBefore
  <2>1. CASE k \in 1 .. L
    <3>1. i \in 1 .. L BY <1>7, <2>1
    <3>2. PICK c \in DOMAIN h : h[c].id = t[k].of[1]
      BY <1>8, <2>1, <3>1 DEF History, CutBefore
    <3>3. c \in 1 .. L /\ c \in DOMAIN t BY <1>1, <1>2, <1>6
    <3> QED BY <1>6, <3>2, <3>3
  <2>2. CASE k > L
    <3>1. k > L + 1 BY <1>7, <1>9, <2>2
    <3>2. t[k].of[1] = n + 1 /\ t[L + 1].id = n + ((L + 1) - L) BY <1>9, <1>10, <3>1
    <3> QED BY <1>10, <3>2
  <2> QED BY <1>7, <2>1, <2>2
<1>17. LatestKept(t)
  <2> SUFFICES ASSUME NEW i \in DOMAIN t, t[i].kind = "result", t[i].cleared
               PROVE  Cardinality(Later(t, i)) >= KeepRecent
    BY DEF LatestKept
  <2>1. i \in 1 .. L BY <1>7, <1>9
  <2>2. Cardinality(Later(h, i)) >= KeepRecent BY <1>8, <2>1 DEF History, LatestKept
  <2>3. Later(h, i) \subseteq Later(t, i)
    <3> SUFFICES ASSUME NEW j \in Later(h, i) PROVE j \in Later(t, i) OBVIOUS
    <3>1. j \in DOMAIN h /\ i < j /\ h[j].kind = "result" BY DEF Later
    <3>2. j \in 1 .. L /\ j \in DOMAIN t BY <1>1, <1>2, <1>6, <3>1
    <3> QED BY <1>6, <3>1, <3>2 DEF Later
  <2>4. IsFiniteSet(Later(t, i))
    <3>1. IsFiniteSet(1 .. L + M)
      <4>1. 1 \in Int /\ L + M \in Int BY <1>2, <1>3
      <4> QED BY <4>1, FS_Interval
    <3>2. Later(t, i) \in SUBSET (1 .. L + M) BY <1>6 DEF Later
    <3> QED BY <3>1, <3>2, FS_Subset
  <2>5. /\ Cardinality(Later(h, i)) <= Cardinality(Later(t, i))
        /\ Cardinality(Later(h, i)) \in Nat /\ Cardinality(Later(t, i)) \in Nat
    BY <2>3, <2>4, FS_Subset, FS_CardinalityType
  <2> QED BY <2>2, <2>5, CompactionBounds
<1> QED BY <1>1, <1>3, <1>4, <1>6, <1>11, <1>12, <1>13, <1>14, <1>15, <1>16, <1>17 DEF History

\* A message alone is an exchange.
LEMMA Alone ==
  ASSUME NEW n \in Nat, n + 1 <= MaxMessages, NEW m \in Msgs, m.id = n + 1,
         m.kind \notin Paired, ~m.cleared
  PROVE  Exchange(<<m>>, n) /\ Len(<<m>>) = 1 /\ <<m>>[1] = m
<1>1. /\ <<m>> \in Seq(Msgs) /\ <<m>> # <<>> /\ <<m>>[1] = m /\ Len(<<m>>) = 1
      /\ DOMAIN <<m>> = {1}
  OBVIOUS
<1> QED BY <1>1 DEF Exchange, Paired

\* A message is one.
LEMMA MessageIs ==
  ASSUME NEW id \in 1 .. MaxMessages, NEW kind \in Kinds
  PROVE  /\ Message(id, kind) \in Msgs
         /\ Message(id, kind).id = id /\ Message(id, kind).kind = kind
         /\ Message(id, kind).calls = 0 /\ ~Message(id, kind).cleared
         /\ ~Message(id, kind).trivial
  BY CompactionBounds DEF Message, Msgs

\* A person or she says something.
LEMMA SaysKeeps ==
  ASSUME ConversationInv, NEW kind \in Kinds \ Paired, NEW trivial \in BOOLEAN,
         Says(kind, trivial)
  PROVE  ConversationInv'
<1>1. PICK m : m = [Message(added + 1, kind) EXCEPT !.trivial = trivial] OBVIOUS
<1>2. Adds(<<m>>) BY <1>1 DEF Says
<1>3. /\ added + Len(<<m>>) <= MaxMessages /\ messages' = messages \o <<m>>
      /\ added' = added + Len(<<m>>) /\ panicked' = panicked
  BY <1>2 DEF Adds
<1>4. added \in Nat /\ Len(<<m>>) = 1 BY DEF ConversationInv, History
<1>5. added + 1 \in 1 .. MaxMessages BY <1>3, <1>4, CompactionBounds
<1>6. PICK b : b = Message(added + 1, kind) OBVIOUS
<1>7. b \in Msgs /\ b.id = added + 1 /\ b.kind = kind /\ ~b.cleared
  BY <1>5, <1>6, MessageIs
<1>8. m = [b EXCEPT !.trivial = trivial] BY <1>1, <1>6
<1>9. m \in Msgs /\ m.id = added + 1 /\ m.kind = kind /\ ~m.cleared
  BY <1>7, <1>8 DEF Msgs
<1>10. Exchange(<<m>>, added) /\ <<m>>[1] = m
  BY <1>3, <1>4, <1>9, Alone
<1>11. History(messages \o <<m>>, added + Len(<<m>>))
  BY <1>3, <1>9, <1>10, Grown DEF ConversationInv
<1> QED BY <1>3, <1>11 DEF ConversationInv

\* She calls tools, and they answer.
LEMMA RoundKeeps ==
  ASSUME ConversationInv, NEW c \in 1 .. MaxCalls, messages # <<>>, Round(c)
  PROVE  ConversationInv'
<1>1. PICK m : m = [Message(added + 1, "call") EXCEPT !.calls = c] OBVIOUS
<1>2. PICK s : s = [j \in 1 .. c |-> [Message(added + 1 + j, "result") EXCEPT
                                        !.of = <<added + 1, j>>]] OBVIOUS
<1>3. PICK new : new = <<m>> \o s OBVIOUS
<1>4. Adds(new) BY <1>1, <1>2, <1>3 DEF Round
<1>5. /\ added + Len(new) <= MaxMessages /\ messages' = messages \o new
      /\ added' = added + Len(new) /\ panicked' = panicked
  BY <1>4 DEF Adds
<1>6. added \in Nat /\ c \in Nat /\ c >= 1 BY CompactionBounds DEF ConversationInv, History
<1>7. Len(s) = c /\ DOMAIN s = 1 .. c /\ Len(new) = c + 1
  BY <1>2, <1>3, <1>6
<1>8. added + 1 + c <= MaxMessages /\ added + 1 \in 1 .. MaxMessages
  BY <1>5, <1>6, <1>7, CompactionBounds
<1>9. m \in Msgs /\ m.id = added + 1 /\ m.kind = "call" /\ ~m.cleared /\ ~m.trivial
      /\ m.calls = c
  <2>1. PICK b : b = Message(added + 1, "call") OBVIOUS
  <2>2. b \in Msgs /\ b.id = added + 1 /\ b.kind = "call" /\ ~b.cleared /\ ~b.trivial
    BY <1>8, <2>1, MessageIs DEF Kinds
  <2>3. m = [b EXCEPT !.calls = c] /\ c \in 0 .. MaxCalls BY <1>1, <2>1
  <2> QED BY <2>2, <2>3 DEF Msgs
<1>10. \A j \in 1 .. c :
         /\ s[j] \in Msgs /\ s[j].id = added + 1 + j /\ s[j].kind = "result"
         /\ ~s[j].cleared /\ ~s[j].trivial /\ s[j].of = <<added + 1, j>>
  <2> TAKE j \in 1 .. c
  <2>1. PICK b : b = Message(added + 1 + j, "result") OBVIOUS
  <2>2. added + 1 + j \in 1 .. MaxMessages BY <1>6, <1>8, CompactionBounds
  <2>3. b \in Msgs /\ b.id = added + 1 + j /\ b.kind = "result" /\ ~b.cleared /\ ~b.trivial
    BY <2>1, <2>2, MessageIs DEF Kinds
  <2>4. s[j] = [b EXCEPT !.of = <<added + 1, j>>] BY <1>2, <2>1
  <2>5. <<added + 1, j>> \in (0 .. MaxMessages) \X (0 .. MaxCalls)
    BY <1>6, <1>8, CompactionBounds
  <2> QED BY <2>3, <2>4, <2>5 DEF Msgs
<1>11. /\ new \in Seq(Msgs) /\ new # <<>> /\ DOMAIN new = 1 .. c + 1 /\ new[1] = m
       /\ \A i \in 2 .. c + 1 : new[i] = s[i - 1] /\ i - 1 \in 1 .. c
  <2>1. s \in Seq(Msgs)
    <3>1. \A j \in 1 .. c : s[j] \in Msgs BY <1>10
    <3>2. s = [j \in 1 .. c |-> s[j]] BY <1>2
    <3>3. s \in [1 .. c -> Msgs] BY <3>1, <3>2
    <3> QED BY <1>6, <3>3
  <2>2. <<m>> \in Seq(Msgs) /\ Len(<<m>>) = 1 /\ <<m>>[1] = m BY <1>9
  <2> QED BY <1>3, <1>6, <1>7, <2>1, <2>2
<1>12. \A i \in DOMAIN new : i = 1 \/ i \in 2 .. c + 1 BY <1>6, <1>11
<1>13. Exchange(new, added)
  <2>1. \A i \in DOMAIN new : new[i].id = added + i /\ ~new[i].cleared
    <3> TAKE i \in DOMAIN new
    <3>1. CASE i = 1 BY <1>9, <1>11, <3>1
    <3>2. CASE i \in 2 .. c + 1
      <4>1. new[i].id = added + 1 + (i - 1) /\ ~new[i].cleared BY <1>10, <1>11, <3>2
      <4> QED BY <1>6, <3>2, <4>1
    <3> QED BY <1>12, <3>1, <3>2
  <2>2. \A i \in DOMAIN new : i > 1 =>
          /\ new[i].kind = "result" /\ new[i].of = <<added + 1, i - 1>> /\ ~new[i].trivial
    BY <1>10, <1>11, <1>12
  <2>3. new[1].kind = "call" /\ ~new[1].trivial /\ new[1].calls = Len(new) - 1
    BY <1>6, <1>7, <1>9, <1>11
  <2> QED BY <1>11, <2>1, <2>2, <2>3 DEF Exchange
<1>14. History(messages \o new, added + Len(new))
  BY <1>5, <1>13, Grown DEF ConversationInv
<1> QED BY <1>5, <1>14 DEF ConversationInv

-----------------------------------------------------------------------------
(* The strategies. *)

\* Clearing touches nothing but the contents of results, and those of old calls only.
LEMMA MicroHistory ==
  ASSUME NEW h, NEW n, History(h, n)
  PROVE  /\ History(Microcompacted(h), n)
         /\ DOMAIN Microcompacted(h) = DOMAIN h
         /\ \A i \in DOMAIN h :
              /\ Microcompacted(h)[i].id = h[i].id /\ Microcompacted(h)[i].kind = h[i].kind
              /\ Microcompacted(h)[i].of = h[i].of /\ Microcompacted(h)[i].calls = h[i].calls
<1>1. /\ Len(h) \in Nat /\ DOMAIN h = 1 .. Len(h) /\ h \in Seq(Msgs)
      /\ \A i \in DOMAIN h :
              /\ h[i] \in Msgs /\ h[i].id \in Nat
              /\ h[i].of[1] \in Nat /\ h[i].of[2] \in Nat
              /\ h[i].of = <<h[i].of[1], h[i].of[2]>>
              /\ IsFiniteSet(Later(h, i)) /\ Cardinality(Later(h, i)) \in Nat
  BY HistoryHas DEF History
<1>2. PICK t : t = Microcompacted(h) OBVIOUS
<1>3. t = [i \in DOMAIN h |-> [h[i] EXCEPT !.cleared = @ \/ h[i].of \in OldCalls(h)]]
  BY <1>2 DEF Microcompacted
<1>4. DOMAIN t = DOMAIN h BY <1>3
<1>5. \A i \in DOMAIN h :
        /\ t[i] \in Msgs /\ t[i].id = h[i].id /\ t[i].kind = h[i].kind /\ t[i].of = h[i].of
        /\ t[i].calls = h[i].calls /\ t[i].trivial = h[i].trivial
        /\ t[i].cleared = (h[i].cleared \/ h[i].of \in OldCalls(h))
  <2> TAKE i \in DOMAIN h
  <2>1. PICK m \in Msgs : m = h[i] BY <1>1
  <2>2. PICK b : b = (m.cleared \/ m.of \in OldCalls(h)) OBVIOUS
  <2>3. b \in BOOLEAN BY <2>2
  <2>4. t[i] = [m EXCEPT !.cleared = b] BY <1>3, <2>1, <2>2
  <2>5. /\ t[i] \in Msgs /\ t[i].id = m.id /\ t[i].kind = m.kind /\ t[i].of = m.of
        /\ t[i].calls = m.calls /\ t[i].trivial = m.trivial /\ t[i].cleared = b
    BY <2>3, <2>4 DEF Msgs
  <2> QED BY <2>1, <2>2, <2>5
<1>6. t \in Seq(Msgs) /\ (t = <<>> <=> h = <<>>)
  <2>1. t \in [1 .. Len(h) -> Msgs] BY <1>1, <1>3, <1>4, <1>5
  <2>2. t \in Seq(Msgs) /\ Len(t) = Len(h) BY <1>1, <2>1
  <2> QED BY <1>1, <2>2
<1>7. \A i \in DOMAIN t : Sound(t[i], n)
  <2> TAKE i \in DOMAIN t
  <2>1. Sound(h[i], n) BY <1>4 DEF History
  <2> QED BY <1>4, <1>5, <2>1 DEF Sound
<1>8. Anchored(t, n)
  <2>1. h # <<>> => 1 \in DOMAIN h BY <1>1
  <2> QED BY <1>5, <1>6, <2>1 DEF History, Anchored
<1>9. Ordered(t)
  <2> SUFFICES ASSUME NEW i \in DOMAIN t, NEW j \in DOMAIN t, i < j
               PROVE  /\ t[i].id < t[j].id
                      /\ t[i].kind = "result" /\ t[j].kind = "result"
                         => t[i].of[1] <= t[j].of[1]
    BY DEF Ordered
  <2> QED BY <1>4, <1>5 DEF History, Ordered
<1>10. Answered(t)
  <2> SUFFICES ASSUME NEW i \in DOMAIN t, t[i].kind = "call", NEW c \in 1 .. t[i].calls
               PROVE  \E k \in DOMAIN t : t[k].kind = "result" /\ t[k].of = <<t[i].id, c>>
    BY DEF Answered
  <2>1. PICK k \in DOMAIN h : h[k].kind = "result" /\ h[k].of = <<h[i].id, c>>
    BY <1>4, <1>5 DEF History, Answered
  <2> QED BY <1>4, <1>5, <2>1
<1>11. Belongs(t)
  <2> SUFFICES ASSUME NEW c \in DOMAIN t, NEW k \in DOMAIN t,
                      t[k].kind = "result", t[c].id = t[k].of[1]
               PROVE  t[c].kind = "call" /\ t[k].of[2] <= t[c].calls
    BY DEF Belongs
  <2> QED BY <1>4, <1>5 DEF History, Belongs
<1>12. CutBefore(t)
  <2> SUFFICES ASSUME NEW i \in DOMAIN t, NEW k \in DOMAIN t, 1 < i, i < k,
                      t[k].kind = "result", t[i].id < t[k].of[1]
               PROVE  \E c \in DOMAIN t : t[c].id = t[k].of[1]
    BY DEF CutBefore
  <2>1. PICK c \in DOMAIN h : h[c].id = h[k].of[1]
    BY <1>4, <1>5 DEF History, CutBefore
  <2> QED BY <1>4, <1>5, <2>1
<1>13. LatestKept(t)
  <2> SUFFICES ASSUME NEW i \in DOMAIN t, t[i].kind = "result", t[i].cleared
               PROVE  Cardinality(Later(t, i)) >= KeepRecent
    BY DEF LatestKept
  <2>1. Later(t, i) = Later(h, i) BY <1>4, <1>5 DEF Later
  <2>2. i \in DOMAIN h /\ h[i].kind = "result" BY <1>4, <1>5
  <2>3. CASE h[i].cleared BY <2>1, <2>2, <2>3 DEF History, LatestKept
  <2>4. CASE h[i].of \in OldCalls(h)
    <3> DEFINE after == {d \in CallIds(h) : Precedes(h[i].of, d)}
    <3>1. Cardinality(after) >= KeepRecent BY <2>4 DEF OldCalls
    <3>2. \A d \in after : \E p \in Later(h, i) : h[p].of = d
      <4> SUFFICES ASSUME NEW d \in after PROVE \E p \in Later(h, i) : h[p].of = d OBVIOUS
      <4>1. d \in CallIds(h) /\ Precedes(h[i].of, d) OBVIOUS
      <4>2. PICK m \in Range(h) : m.kind = "call" /\ d \in {m.id} \X (1 .. m.calls)
        BY <4>1 DEF CallIds
      <4>3. PICK a \in DOMAIN h : m = h[a] BY <4>2 DEF Range
      <4>4. PICK c \in 1 .. h[a].calls : d = <<h[a].id, c>> BY <4>2, <4>3
      <4>5. PICK p \in DOMAIN h : h[p].kind = "result" /\ h[p].of = d
        BY <4>2, <4>3, <4>4 DEF History, Answered
      <4>6. i < p
        <5>1. i \in Nat /\ p \in Nat BY <1>1, <2>2
        <5>2. /\ h[p].id = h[p].of[1] + h[p].of[2] /\ h[i].id = h[i].of[1] + h[i].of[2]
              /\ h[p].id \in Nat /\ h[p].of[1] \in Nat /\ h[p].of[2] \in Nat
              /\ h[i].id \in Nat /\ h[i].of[1] \in Nat /\ h[i].of[2] \in Nat
          BY <1>1, <2>2, <4>5 DEF History, Sound
        <5>3. \/ h[i].of[1] < h[p].of[1]
              \/ h[i].of[1] = h[p].of[1] /\ h[i].of[2] < h[p].of[2]
          BY <4>1, <4>5 DEF Precedes
        <5>4. p < i => h[p].of[1] <= h[i].of[1] /\ h[p].id < h[i].id
          BY <2>2, <4>5 DEF History, Ordered
        <5>5. p # i BY <5>2, <5>3
        <5>6. ~(p < i) BY <5>2, <5>3, <5>4
        <5> QED BY <5>1, <5>5, <5>6
      <4> QED BY <4>5, <4>6 DEF Later
    <3> DEFINE f == [p \in Later(h, i) |-> h[p].of]
    <3>3. \A d \in after : \E p \in Later(h, i) : f[p] = d BY <3>2
    <3>4. IsFiniteSet(Later(h, i)) BY <1>1, <2>2
    <3> HIDE DEF after, f
    <3>5. /\ Cardinality(after) <= Cardinality(Later(h, i))
          /\ Cardinality(after) \in Nat /\ Cardinality(Later(h, i)) \in Nat
      BY <3>3, <3>4, Covered
    <3> QED BY <2>1, <3>1, <3>5, CompactionBounds
  <2> QED BY <1>5, <2>2, <2>3, <2>4
<1>14. History(t, n)
  BY <1>6, <1>7, <1>8, <1>9, <1>10, <1>11, <1>12, <1>13 DEF History
<1> QED BY <1>2, <1>4, <1>5, <1>14

\* The less of two numbers.
LEMMA LessOfTwo ==
  ASSUME NEW a \in Nat, NEW b \in Nat
  PROVE  /\ Min({a, b}) \in Nat /\ Min({a, b}) <= a /\ Min({a, b}) <= b
         /\ Min({a, b}) \in {a, b}
<1>1. \E x \in {a, b} : \A y \in {a, b} : x <= y
  <2>1. CASE a <= b BY <2>1
  <2>2. CASE b <= a BY <2>2
  <2> QED BY <2>1, <2>2
<1>2. Min({a, b}) \in {a, b} /\ \A y \in {a, b} : Min({a, b}) <= y
  BY <1>1 DEF Min
<1> QED BY <1>2

\* adjust_cutoff_for_tool_pair: the cutoff goes back over results, and stops at the limit,
\* at the beginning, or at what is none.
LEMMA WalkedBack ==
  ASSUME NEW h, NEW c \in Nat
  PROVE  \E k \in 0 .. c :
           /\ AdjustCutoff(h, c) = c - k /\ k <= MaxWalkBack
           /\ \A j \in 0 .. k - 1 : c < Len(h) /\ AtPosition(h, c - j).kind = "result"
           /\ k < MaxWalkBack /\ k < c /\ c < Len(h) => AtPosition(h, c - k).kind # "result"
<1> DEFINE Results(k) == \A j \in 0 .. k - 1 :
                            c < Len(h) /\ AtPosition(h, c - j).kind = "result"
           T == {k \in 0 .. Min({MaxWalkBack, c}) : Results(k)}
<1>1. PICK l \in Nat : /\ l = Min({MaxWalkBack, c}) /\ l <= MaxWalkBack /\ l <= c
                     /\ l \in {MaxWalkBack, c}
  BY LessOfTwo, CompactionBounds
<1>2. T \in SUBSET (0 .. l) BY <1>1
<1>3. 0 \in T BY <1>1
<1>4. Max(T) \in T /\ \A y \in T : Max(T) >= y
  <2> HIDE DEF T
  <2> QED BY <1>2, <1>3, GreatestOf
<1>5. PICK k : k = Max(T) OBVIOUS
<1>6. AdjustCutoff(h, c) = c - k BY <1>5 DEF AdjustCutoff
<1>7. k \in 0 .. l /\ Results(k) /\ \A y \in T : k >= y BY <1>1, <1>4, <1>5
<1>8. k \in 0 .. c /\ k <= MaxWalkBack /\ k \in Nat BY <1>1, <1>7, CompactionBounds
<1>9. ASSUME k < MaxWalkBack, k < c, c < Len(h), AtPosition(h, c - k).kind = "result"
      PROVE  FALSE
  <2>1. k + 1 \in 0 .. l BY <1>1, <1>7, <1>9
  <2>2. \A j \in 0 .. (k + 1) - 1 : j \in 0 .. k - 1 \/ j = k BY <1>8
  <2>3. Results(k + 1) BY <1>7, <1>9, <2>2
  <2>4. k + 1 \in T BY <1>1, <2>1, <2>3
  <2> QED BY <1>7, <1>8, <2>4
<1> HIDE DEF T
<1> QED BY <1>6, <1>7, <1>8, <1>9

\* A window keeps a history.
LEMMA WindowKeeps ==
  ASSUME NEW h, NEW n, History(h, n), NEW cutoff \in Nat, cutoff >= 1, cutoff <= Len(h),
         h # <<>>
  PROVE  History(Window(h, cutoff), n)
<1>1. Len(h) \in Nat /\ Len(h) >= 1 BY HistoryHas DEF History
<1>2. Keeping(h, FromCutoff(h, cutoff))
  BY <1>1 DEF Keeping, FromCutoff, Positions
<1> QED BY <1>2, KeptWithin, KeptHistory DEF Window

\* So does culling.
LEMMA CullKeeps ==
  ASSUME NEW h, NEW n, History(h, n), h # <<>>
  PROVE  /\ Keeping(h, Positions(h) \ Culled(h))
         /\ History(Kept(h, Positions(h) \ Culled(h)), n)
<1>1. Len(h) \in Nat /\ Len(h) >= 1 /\ DOMAIN h = 1 .. Len(h) BY HistoryHas DEF History
<1>2. \A q \in Culled(h) : q >= 1 BY DEF Culled
<1>3. \A q \in Positions(h) \cap Culled(h) : AtPosition(h, q).kind \notin Paired
  <2> TAKE q \in Positions(h) \cap Culled(h)
  <2>1. q + 1 \in DOMAIN h /\ AtPosition(h, q) = h[q + 1] BY <1>1 DEF Positions, AtPosition
  <2>2. h[q + 1].trivial BY <2>1 DEF Culled
  <2> QED BY <2>1, <2>2 DEF History, Sound
<1>4. 0 \in Positions(h) /\ 0 \notin Culled(h) BY <1>1, <1>2 DEF Positions
<1>5. Keeping(h, Positions(h) \ Culled(h)) BY <1>3, <1>4 DEF Keeping
<1> QED BY <1>5, KeptWithin, KeptHistory

\* A note is a message that is no call and no result.
LEMMA NoteKeeps ==
  ASSUME NEW h, NEW n, History(h, n), n = added, added < MaxMessages
  PROVE  History(WithNote(h, Note), n + 1)
<1>1. PICK m : m = Message(added + 1, "system") OBVIOUS
<1>2. n \in Nat /\ added + 1 \in 1 .. MaxMessages /\ n + 1 <= MaxMessages
  BY CompactionBounds DEF History
<1>3. m \in Msgs /\ m.id = n + 1 /\ m.kind \notin Paired /\ ~m.cleared
  BY <1>1, <1>2, MessageIs DEF Kinds, Paired
<1>4. Note = <<m>> BY <1>1 DEF Note
<1>5. Exchange(<<m>>, n) /\ Len(<<m>>) = 1 /\ <<m>>[1] = m BY <1>2, <1>3, Alone
<1>6. History(h \o <<m>>, n + Len(<<m>>)) BY <1>2, <1>3, <1>5, Grown
<1> QED BY <1>4, <1>5, <1>6 DEF WithNote

\* Where a slide cuts.
LEMMA SlideCuts ==
  ASSUME NEW h, NEW n, History(h, n), ~NothingToSlide(h)
  PROVE  /\ h # <<>> /\ Len(h) \in Nat /\ Len(h) - PreserveRecent \in Nat
         /\ Len(h) - PreserveRecent >= 2 /\ Len(h) - PreserveRecent <= Len(h)
         /\ SlideCutoff(h) \in Nat /\ SlideCutoff(h) <= Len(h)
<1>1. Len(h) \in Nat BY HistoryHas
<1>2. Len(h) >= 3 /\ PreserveRecent + 1 < Len(h)
  BY <1>1, CompactionBounds DEF NothingToSlide, TooShort
<1>3. h # <<>> BY <1>2
<1>4. PICK c \in Nat : c = Len(h) - PreserveRecent /\ c >= 2 /\ c <= Len(h)
  <2>1. PICK l \in Nat, p \in Nat : l = Len(h) /\ p = PreserveRecent
    BY <1>1, CompactionBounds
  <2>2. l - p \in Nat /\ l - p >= 2 /\ l - p <= l BY <1>2, <2>1
  <2> QED BY <2>1, <2>2
<1>5. PICK k \in 0 .. c : AdjustCutoff(h, c) = c - k BY WalkedBack
<1> QED BY <1>1, <1>3, <1>4, <1>5 DEF SlideCutoff

\* What each strategy leaves is a history.
LEMMA CompactKeeps == ASSUME ConversationInv, Compact PROVE ConversationInv'
<1>1. History(messages, added) /\ panicked \in BOOLEAN BY DEF ConversationInv
<1>2. CASE CompactMicro
  <2>1. messages' = Microcompacted(messages) /\ added' = added + 0 /\ panicked' = panicked
    BY <1>2 DEF CompactMicro, Replace
  <2>2. added \in Nat BY <1>1 DEF History
  <2> QED BY <1>1, <2>1, <2>2, MicroHistory DEF ConversationInv
<1>3. CASE CompactCull
  <2>1. /\ messages' = Kept(messages, Positions(messages) \ Culled(messages))
        /\ added' = added + 0 /\ panicked' = panicked /\ ~TooShort(messages)
    BY <1>3 DEF CompactCull, Replace
  <2>2. added \in Nat /\ messages # <<>> BY <1>1, <2>1 DEF History, TooShort
  <2> QED BY <1>1, <2>1, <2>2, CullKeeps DEF ConversationInv
<1>4. CASE CompactSlide
  <2>1. /\ messages' = Window(messages, SlideCutoff(messages)) /\ added' = added + 0
        /\ panicked' = panicked /\ ~NothingToSlide(messages) /\ SlideCutoff(messages) > 1
    BY <1>4 DEF CompactSlide, Replace
  <2>2. added \in Nat BY <1>1 DEF History
  <2>3. History(messages', added)
    BY <1>1, <2>1, SlideCuts, WindowKeeps
  <2> QED BY <1>1, <2>1, <2>2, <2>3 DEF ConversationInv
<1>5. CASE CompactReflect
  <2>1. CASE /\ ~NothingToSlide(messages) /\ SlideCutoff(messages) > 1 /\ added < MaxMessages
             /\ Replace(WithNote(Window(messages, SlideCutoff(messages)), Note), 1)
    <3>1. /\ messages' = WithNote(Window(messages, SlideCutoff(messages)), Note)
          /\ added' = added + 1 /\ panicked' = panicked
      BY <2>1 DEF Replace
    <3>2. PICK w : w = Window(messages, SlideCutoff(messages)) OBVIOUS
    <3>3. History(w, added) BY <1>1, <2>1, <3>2, SlideCuts, WindowKeeps
    <3>4. History(WithNote(w, Note), added + 1) BY <2>1, <3>3, NoteKeeps
    <3> QED BY <1>1, <3>1, <3>2, <3>4 DEF ConversationInv
  <2>2. CASE panicked' = TRUE /\ UNCHANGED <<messages, added>>
    BY <1>1, <2>2 DEF ConversationInv
  <2> QED BY <1>5, <2>1, <2>2 DEF CompactReflect
<1>6. CASE CompactSummary
  <2>1. /\ ~TooShort(messages) /\ added < MaxMessages
        /\ messages' = WithNote(Window(messages, Len(messages) - Preserved(messages)), Note)
        /\ added' = added + 1 /\ panicked' = panicked
    BY <1>6 DEF CompactSummary, Replace
  <2>2. Len(messages) \in Nat /\ Len(messages) >= 3 /\ messages # <<>>
    BY <1>1, <2>1, HistoryHas DEF TooShort
  <2>3. PICK p \in Nat : p = Preserved(messages) /\ p <= Len(messages) - 2
    <3>1. Len(messages) - 2 \in Nat BY <2>2
    <3> QED BY <3>1, LessOfTwo, CompactionBounds DEF Preserved
  <2>4. PICK c \in Nat : c = Len(messages) - p /\ c >= 1 /\ c <= Len(messages)
    BY <2>2, <2>3
  <2>5. PICK w : w = Window(messages, c) OBVIOUS
  <2>6. History(w, added) BY <1>1, <2>2, <2>4, <2>5, WindowKeeps
  <2>7. History(WithNote(w, Note), added + 1) BY <2>1, <2>6, NoteKeeps
  <2> QED BY <1>1, <2>1, <2>3, <2>4, <2>5, <2>7 DEF ConversationInv
<1> QED BY <1>2, <1>3, <1>4, <1>5, <1>6 DEF Compact, Slides

\* Every step keeps it.
LEMMA ConversationStep ==
  ConversationInv /\ [CompactionNext]_conversation => ConversationInv'
<1> SUFFICES ASSUME ConversationInv, [CompactionNext]_conversation PROVE ConversationInv'
  OBVIOUS
<1>1. ASSUME NEW kind \in {"user", "text"}, NEW trivial \in BOOLEAN, Says(kind, trivial)
      PROVE  ConversationInv'
  <2>1. kind \in Kinds \ Paired BY DEF Kinds, Paired
  <2> QED BY <1>1, <2>1, SaysKeeps
<1>2. CASE Says("system", FALSE)
  <2>1. "system" \in Kinds \ Paired BY DEF Kinds, Paired
  <2> QED BY <1>2, <2>1, SaysKeeps
<1>3. ASSUME messages # <<>>, NEW c \in 1 .. MaxCalls, Round(c) PROVE ConversationInv'
  BY <1>3, RoundKeeps
<1>4. CASE Compact BY <1>4, CompactKeeps
<1>5. CASE UNCHANGED conversation
  BY <1>5 DEF conversation, ConversationInv
<1> QED BY <1>1, <1>2, <1>3, <1>4, <1>5 DEF CompactionNext

\* It holds in every state.
LEMMA HistoriesKept == CompactionSpec => []ConversationInv
<1> QED BY ConversationInit, ConversationStep, PTL DEF CompactionSpec

\* However a conversation is compacted, in whatever order: its first message stays the
\* first, nothing is twice or out of order, and of the latest results none is cleared.
THEOREM MessagesKept == CompactionSpec => []MessagesInv
<1> QED BY HistoriesKept, HistoryGives, PTL

-----------------------------------------------------------------------------
(* Calls and results stay together. *)

\* In a history only a result can have lost its call.
LEMMA PartedIs ==
  ASSUME NEW h, NEW n, History(h, n)
  PROVE  \A p : p \in Parted(h) <=>
           \E r \in DOMAIN h : /\ h[r].kind = "result" /\ h[r].of = p
                               /\ \A c \in DOMAIN h : h[c].id # h[r].of[1]
<1> DEFINE calls == {<<m.id, 0>> : m \in {x \in Range(h) : x.kind = "call" /\
                        \E j \in 1 .. x.calls : \A r \in Range(h) : r.of # <<x.id, j>>}}
           results == {m.of : m \in {x \in Range(h) : x.kind = "result" /\
                          \A c \in Range(h) : c.id # x.of[1]}}
<1>1. Parted(h) = calls \cup results BY DEF Parted
<1>2. calls = {}
  <2>1. ASSUME NEW m \in Range(h), m.kind = "call", NEW j \in 1 .. m.calls
        PROVE  \E r \in Range(h) : r.of = <<m.id, j>>
    <3>1. PICK i \in DOMAIN h : m = h[i] BY DEF Range
    <3>2. PICK k \in DOMAIN h : h[k].of = <<m.id, j>>
      BY <2>1, <3>1 DEF History, Answered
    <3>3. h[k] \in Range(h) BY DEF Range
    <3> QED BY <3>2, <3>3
  <2> QED BY <2>1
<1>3. ASSUME NEW p
      PROVE  p \in results <=>
               \E r \in DOMAIN h : /\ h[r].kind = "result" /\ h[r].of = p
                                   /\ \A c \in DOMAIN h : h[c].id # h[r].of[1]
  <2>1. ASSUME p \in results
        PROVE  \E r \in DOMAIN h : /\ h[r].kind = "result" /\ h[r].of = p
                                   /\ \A c \in DOMAIN h : h[c].id # h[r].of[1]
    <3>1. PICK m \in Range(h) : /\ m.kind = "result" /\ p = m.of
                                /\ \A c \in Range(h) : c.id # m.of[1]
      BY <2>1
    <3>2. PICK r \in DOMAIN h : m = h[r] BY DEF Range
    <3>3. \A c \in DOMAIN h : h[c] \in Range(h) BY DEF Range
    <3> QED BY <3>1, <3>2, <3>3
  <2>2. ASSUME NEW r \in DOMAIN h, h[r].kind = "result", h[r].of = p,
               \A c \in DOMAIN h : h[c].id # h[r].of[1]
        PROVE  p \in results
    <3>1. h[r] \in Range(h) BY DEF Range
    <3>2. \A c \in Range(h) : c.id # h[r].of[1] BY <2>2 DEF Range
    <3> QED BY <2>2, <3>1, <3>2
  <2> QED BY <2>1, <2>2
<1> HIDE DEF calls, results
<1> QED BY <1>1, <1>2, <1>3

\* Clearing parts nothing.
LEMMA MicroParts ==
  ASSUME NEW h, NEW n, History(h, n)
  PROVE  Parted(Microcompacted(h)) \subseteq Parted(h)
<1>1. PICK t : t = Microcompacted(h) OBVIOUS
<1>2. /\ History(t, n) /\ DOMAIN t = DOMAIN h
      /\ \A i \in DOMAIN h : t[i].id = h[i].id /\ t[i].kind = h[i].kind /\ t[i].of = h[i].of
  BY <1>1, MicroHistory
<1> SUFFICES ASSUME NEW p \in Parted(t) PROVE p \in Parted(h) BY <1>1
<1>3. PICK r \in DOMAIN t : /\ t[r].kind = "result" /\ t[r].of = p
                            /\ \A c \in DOMAIN t : t[c].id # t[r].of[1]
  BY <1>2, PartedIs
<1>4. r \in DOMAIN h /\ h[r].kind = "result" /\ h[r].of = p
      /\ \A c \in DOMAIN h : h[c].id # h[r].of[1]
  BY <1>2, <1>3
<1> QED BY <1>4, PartedIs

\* What a plan that keeps calls and results parts has its call in front of what it keeps.
LEMMA KeptParts ==
  ASSUME NEW h, NEW n, History(h, n), NEW keep, Keeping(h, keep),
         NEW p \in Parted(Kept(h, keep)) \ Parted(h)
  PROVE  \E r, c \in DOMAIN h :
           /\ h[r].kind = "result" /\ h[r].of = p /\ r - 1 \in keep
           /\ h[c].id = p[1] /\ h[c].kind = "call" /\ p[2] <= h[c].calls
           /\ c - 1 \notin keep /\ c < r /\ 1 < c
<1>1. PICK new : new = Kept(h, keep) OBVIOUS
<1>2. PICK g : /\ Within(new, h, g)
               /\ \A q \in DOMAIN h : q - 1 \in keep <=> \E i \in DOMAIN new : g[i] = q
  BY <1>1, KeptWithin
<1>3. History(new, n) BY <1>2, KeptHistory
<1>4. PICK k \in DOMAIN new : /\ new[k].kind = "result" /\ new[k].of = p
                              /\ \A c \in DOMAIN new : new[c].id # new[k].of[1]
  BY <1>1, <1>3, PartedIs
<1>5. \A i \in DOMAIN new : g[i] \in DOMAIN h /\ new[i] = h[g[i]] BY <1>2 DEF Within
<1>6. PICK r \in DOMAIN h : r = g[k] BY <1>5
<1>7. h[r].kind = "result" /\ h[r].of = p /\ r - 1 \in keep BY <1>2, <1>4, <1>5, <1>6
<1>8. PICK c \in DOMAIN h : h[c].id = p[1]
  <2>1. p \notin Parted(h) OBVIOUS
  <2> QED BY <1>7, <2>1, PartedIs
<1>9. h[c].kind = "call" /\ p[2] <= h[c].calls BY <1>7, <1>8 DEF History, Belongs
<1>10. c - 1 \notin keep
  <2> SUFFICES ASSUME c - 1 \in keep PROVE FALSE OBVIOUS
  <2>1. PICK i \in DOMAIN new : g[i] = c BY <1>2
  <2>2. new[i].id = p[1] BY <1>5, <1>8, <2>1
  <2> QED BY <1>4, <2>2
<1>11. c < r
  <2>1. h[r].id = h[r].of[1] + h[r].of[2] /\ h[r].of[2] >= 1 BY <1>7 DEF History, Sound
  <2>2. r < c => h[r].id < h[c].id BY DEF History, Ordered
  <2>3. /\ r \in Nat /\ c \in Nat /\ h[r].id \in Nat /\ h[c].id \in Nat
        /\ h[r].of[1] \in Nat /\ h[r].of[2] \in Nat
    BY HistoryHas
  <2>4. h[r].of[1] = h[c].id BY <1>7, <1>8
  <2>5. r # c BY <2>1, <2>3, <2>4
  <2> QED BY <2>1, <2>2, <2>3, <2>4, <2>5
<1>12. 1 < c BY <1>9, HistoryHas DEF Paired
<1> QED BY <1>7, <1>8, <1>9, <1>10, <1>11, <1>12

\* Culling parts nothing, for a call is nothing it takes out.
LEMMA CullParts ==
  ASSUME NEW h, NEW n, History(h, n), h # <<>>
  PROVE  Parted(Kept(h, Positions(h) \ Culled(h))) \subseteq Parted(h)
<1>1. PICK keep : keep = Positions(h) \ Culled(h) OBVIOUS
<1>2. Keeping(h, keep) BY <1>1, CullKeeps
<1> SUFFICES ASSUME NEW p \in Parted(Kept(h, keep)) \ Parted(h) PROVE FALSE BY <1>1
<1>3. PICK c \in DOMAIN h : h[c].kind = "call" /\ c - 1 \notin keep /\ 1 < c
  <2>1. \E r, c \in DOMAIN h :
           /\ h[r].kind = "result" /\ h[r].of = p /\ r - 1 \in keep
           /\ h[c].id = p[1] /\ h[c].kind = "call" /\ p[2] <= h[c].calls
           /\ c - 1 \notin keep /\ c < r /\ 1 < c
    BY <1>2, KeptParts
  <2> QED BY <2>1
<1>4. Len(h) \in Nat /\ c \in Nat /\ c <= Len(h) BY HistoryHas
<1>5. c - 1 \in Positions(h) /\ AtPosition(h, c - 1) = h[c]
  BY <1>3, <1>4 DEF Positions, AtPosition
<1>6. h[c].trivial BY <1>1, <1>3, <1>5 DEF Culled
<1> QED BY <1>3, <1>6 DEF History, Sound, Paired

\* Numbers rise by one at least from each message to the next.
LEMMA Spaced ==
  ASSUME NEW h, NEW n, History(h, n), NEW i \in DOMAIN h, NEW j \in DOMAIN h, i < j
  PROVE  h[j].id >= h[i].id + (j - i)
<1>1. /\ DOMAIN h = 1 .. Len(h) /\ Len(h) \in Nat
      /\ \A x \in DOMAIN h : h[x].id \in Nat /\ x \in Nat
  BY HistoryHas
<1> DEFINE T == {d \in Nat : \E x, y \in DOMAIN h : y = x + d /\ h[y].id < h[x].id + d}
<1>2. T = {}
  <2> SUFFICES ASSUME T # {} PROVE FALSE OBVIOUS
  <2>1. T \in SUBSET Nat OBVIOUS
  <2>2. PICK d \in T : \A e \in T : d <= e
    <3> HIDE DEF T
    <3> QED BY <2>1, LeastOf
  <2>3. d \in Nat BY <2>2
  <2>4. PICK x \in DOMAIN h, y \in DOMAIN h : y = x + d /\ h[y].id < h[x].id + d BY <2>2
  <2>5. d # 0
    <3> SUFFICES ASSUME d = 0 PROVE FALSE OBVIOUS
    <3>1. x = y BY <1>1, <2>4
    <3> QED BY <1>1, <2>4, <3>1
  <2>6. /\ x \in Nat /\ y \in Nat /\ x >= 1 /\ y <= Len(h) /\ Len(h) \in Nat /\ y = x + d
        /\ h[x].id \in Nat /\ h[y].id \in Nat /\ h[y].id < h[x].id + d
    BY <1>1, <2>4
  <2>7. PICK e \in Nat : e = d - 1 /\ e + 1 = d /\ e < d BY <2>3, <2>5
  <2>8. PICK z \in 1 .. Len(h) : z = x + e /\ z < y
    <3> HIDE DEF T
    <3>1. (x + e) + 1 = y BY <2>3, <2>6, <2>7
    <3>2. x + e \in Nat /\ x + e >= 1 BY <2>6, <2>7
    <3>3. x + e \in 1 .. Len(h) /\ x + e < y BY <2>6, <3>1, <3>2
    <3> QED BY <3>3
  <2>9. z \in DOMAIN h /\ h[z].id \in Nat BY <1>1, <2>8
  <2>10. e \notin T BY <2>2, <2>3, <2>7
  <2>11. ~(h[z].id < h[x].id + e) BY <2>7, <2>8, <2>9, <2>10
  <2>12. h[z].id < h[y].id BY <2>8, <2>9 DEF History, Ordered
  <2> HIDE DEF T
  <2> QED BY <2>3, <2>6, <2>7, <2>9, <2>11, <2>12
<1>3. j - i \in Nat /\ j = i + (j - i) BY <1>1
<1>4. j - i \notin T BY <1>2
<1>5. ~(h[j].id < h[i].id + (j - i)) BY <1>3, <1>4
<1> QED BY <1>1, <1>3, <1>5

\* Between a call and a result of it there are only results of it.
LEMMA Between ==
  ASSUME NEW h, NEW n, History(h, n), NEW c \in DOMAIN h, NEW r \in DOMAIN h,
         h[r].kind = "result", h[c].id = h[r].of[1],
         NEW q \in DOMAIN h, c < q, q <= r
  PROVE  h[q].kind = "result" /\ h[q].of[1] = h[c].id
<1>1. /\ \A x \in DOMAIN h : /\ h[x].id \in Nat /\ x \in Nat
                             /\ h[x].of[1] \in Nat /\ h[x].of[2] \in Nat
      /\ \A i, j \in DOMAIN h : h[i].id = h[j].id => i = j
  BY HistoryHas
<1>2. h[c].kind = "call" /\ h[r].of[2] <= h[c].calls BY DEF History, Belongs
<1>3. h[c].calls \in Nat BY HistoryHas, MessageHas
<1>4. h[c].id < h[q].id BY DEF History, Ordered
<1>5. h[q].id <= h[r].id
  <2>1. q < r => h[q].id < h[r].id BY DEF History, Ordered
  <2> QED BY <1>1, <2>1
<1>6. h[r].id = h[c].id + h[r].of[2] BY DEF History, Sound
<1>7. h[q].id - h[c].id \in 1 .. h[c].calls BY <1>1, <1>2, <1>3, <1>4, <1>5, <1>6
<1>8. PICK s \in DOMAIN h :
        h[s].kind = "result" /\ h[s].of = <<h[c].id, h[q].id - h[c].id>>
  BY <1>2, <1>7 DEF History, Answered
<1>9. h[s].of[1] = h[c].id /\ h[s].of[2] = h[q].id - h[c].id BY <1>8
<1>10. h[s].id = h[s].of[1] + h[s].of[2] BY <1>8 DEF History, Sound
<1>11. h[s].id = h[q].id BY <1>1, <1>9, <1>10
<1>12. s = q BY <1>1, <1>11
<1> QED BY <1>8, <1>9, <1>12

\* A slide parts a result from a call with more results than the walk goes back over.
LEMMA SlideParts ==
  ASSUME NEW h, NEW n, History(h, n), ~NothingToSlide(h), SlideCutoff(h) > 1,
         NEW p \in Parted(Window(h, SlideCutoff(h))) \ Parted(h)
  PROVE  \E m \in Range(h) : m.id = p[1] /\ m.calls > MaxWalkBack
<1>1. /\ Len(h) \in Nat /\ DOMAIN h = 1 .. Len(h)
      /\ \A x \in DOMAIN h : /\ h[x].id \in Nat /\ x \in Nat /\ h[x].calls \in Nat
                             /\ h[x].of[1] \in Nat /\ h[x].of[2] \in Nat
  BY HistoryHas, MessageHas
<1>2. PICK cut \in Nat : cut = SlideCutoff(h) /\ cut <= Len(h) /\ cut > 1 BY SlideCuts
<1>3. h # <<>> BY SlideCuts
<1>4. PICK c0 \in Nat : c0 = Len(h) - PreserveRecent /\ c0 >= 2 /\ c0 <= Len(h)
  BY SlideCuts
<1>5. Keeping(h, FromCutoff(h, cut))
  BY <1>1, <1>2, <1>3 DEF Keeping, FromCutoff, Positions
<1>6. p \in Parted(Kept(h, FromCutoff(h, cut))) \ Parted(h) BY <1>2 DEF Window
<1>7. PICK r \in DOMAIN h, c \in DOMAIN h :
           /\ h[r].kind = "result" /\ h[r].of = p /\ r - 1 \in FromCutoff(h, cut)
           /\ h[c].id = p[1] /\ h[c].kind = "call" /\ p[2] <= h[c].calls
           /\ c - 1 \notin FromCutoff(h, cut) /\ c < r /\ 1 < c
  BY <1>5, <1>6, KeptParts
<1>8. h[c].id = h[r].of[1] /\ c \in Nat /\ r \in Nat /\ r <= Len(h) BY <1>1, <1>7
<1>9. r >= cut + 1 /\ c <= cut
  <2>1. r - 1 # 0 /\ r - 1 \in {0} \cup cut .. Len(h) - 1 BY <1>7, <1>8 DEF FromCutoff
  <2>2. c - 1 \notin cut .. Len(h) - 1 BY <1>7 DEF FromCutoff
  <2>3. c - 1 \in Nat /\ c - 1 <= Len(h) - 1 BY <1>1, <1>7, <1>8
  <2> QED BY <1>1, <1>2, <1>8, <2>1, <2>2, <2>3
<1>10. cut + 1 \in DOMAIN h /\ h[cut + 1].kind = "result"
  <2>1. cut + 1 \in DOMAIN h /\ c < cut + 1 /\ cut + 1 <= r
    BY <1>1, <1>2, <1>8, <1>9
  <2> QED BY <1>7, <1>8, <2>1, Between
<1>11. PICK k \in 0 .. c0 :
           /\ AdjustCutoff(h, c0) = c0 - k /\ k <= MaxWalkBack
           /\ \A j \in 0 .. k - 1 : c0 < Len(h) /\ AtPosition(h, c0 - j).kind = "result"
           /\ k < MaxWalkBack /\ k < c0 /\ c0 < Len(h)
              => AtPosition(h, c0 - k).kind # "result"
  BY WalkedBack
<1>12. cut = c0 - k /\ k \in Nat BY <1>2, <1>4, <1>11 DEF SlideCutoff
<1>13. c0 < Len(h)
  <2>1. CASE k = 0
    <3>1. cut = c0 /\ cut + 1 <= Len(h) BY <1>1, <1>2, <1>4, <1>8, <1>9, <1>12, <2>1
    <3> QED BY <1>1, <1>4, <3>1
  <2>2. CASE k # 0
    <3>1. 0 \in 0 .. k - 1 BY <1>12, <2>2
    <3> QED BY <1>11, <3>1
  <2> QED BY <2>1, <2>2
<1>14. k = MaxWalkBack
  <2>1. AtPosition(h, c0 - k) = h[cut + 1] BY <1>12 DEF AtPosition
  <2>2. k < c0 BY <1>2, <1>12
  <2> QED BY <1>10, <1>11, <1>13, <2>1, <2>2, <1>12, CompactionBounds
<1>15. \A q \in cut + 1 .. c0 + 1 : q \in DOMAIN h /\ h[q].kind = "result"
  <2> TAKE q \in cut + 1 .. c0 + 1
  <2>1. q \in DOMAIN h /\ q \in Nat BY <1>1, <1>2, <1>4, <1>13
  <2>2. CASE q = cut + 1 BY <1>10, <2>2
  <2>3. CASE q # cut + 1
    <3>1. PICK j \in 0 .. k - 1 : j = c0 + 1 - q BY <1>2, <1>4, <1>12, <2>1, <2>3
    <3>2. (c0 - j) + 1 = q
      <4>1. j = c0 + 1 - q /\ c0 \in Nat /\ q \in Nat /\ q <= c0 + 1
        BY <2>1, <3>1, <1>4, <1>12
      <4> QED BY <4>1
    <3>3. AtPosition(h, c0 - j) = h[q] BY <3>2 DEF AtPosition
    <3> QED BY <1>11, <2>1, <3>1, <3>3
  <2> QED BY <2>1, <2>2, <2>3
<1>16. PICK x \in DOMAIN h : x = c0 + 1 /\ h[x].kind = "result" /\ x > c
  <2>1. c0 + 1 \in cut + 1 .. c0 + 1 /\ c0 + 1 > c BY <1>4, <1>8, <1>9, <1>12
  <2> QED BY <1>15, <2>1
<1>17. h[x].of[1] = h[c].id
  <2>1. CASE x <= r BY <1>7, <1>8, <1>16, <2>1, Between
  <2>2. CASE ~(x <= r)
    <3>1. r < x BY <1>1, <1>8, <2>2
    <3>2. h[r].of[1] <= h[x].of[1] BY <1>7, <1>16, <3>1 DEF History, Ordered
    <3>3. ASSUME h[c].id < h[x].of[1] PROVE FALSE
      <4>1. PICK d \in DOMAIN h : h[d].id = h[x].of[1]
        BY <1>7, <1>16, <3>3 DEF History, CutBefore
      <4>2. h[d].kind = "call" BY <1>16, <4>1 DEF History, Belongs
      <4>3. d \in Nat /\ x \in Nat BY <1>1
      <4>4. c < d
        <5>1. d < c => h[d].id < h[c].id BY DEF History, Ordered
        <5> QED BY <1>1, <1>8, <3>3, <4>1, <4>3, <5>1
      <4>5. d < x
        <5>1. h[x].id = h[x].of[1] + h[x].of[2] /\ h[x].of[2] >= 1
          BY <1>16 DEF History, Sound
        <5>2. x < d => h[x].id < h[d].id BY DEF History, Ordered
        <5>3. x # d BY <1>16, <4>2
        <5> QED BY <1>1, <4>1, <4>3, <5>1, <5>2, <5>3
      <4>6. d \notin cut + 1 .. c0 + 1 BY <1>15, <4>2
      <4>7. d <= r BY <1>9, <1>16, <1>2, <1>8, <4>3, <4>5, <4>6
      <4>8. h[d].kind = "result" BY <1>7, <1>8, <4>4, <4>7, Between
      <4> QED BY <4>2, <4>8
    <3> QED BY <1>1, <1>8, <3>2, <3>3
  <2> QED BY <2>1, <2>2
<1>18. h[x].of[2] <= h[c].calls BY <1>16, <1>17 DEF History, Belongs
<1>19. h[x].id = h[x].of[1] + h[x].of[2] BY <1>16 DEF History, Sound
<1>20. h[x].id >= h[c].id + (x - c) BY <1>8, <1>16, Spaced
<1>21. x - c >= MaxWalkBack + 1 /\ x \in Nat
  BY <1>1, <1>4, <1>8, <1>9, <1>12, <1>14, <1>16
<1>22. h[c].calls > MaxWalkBack
  BY <1>1, <1>8, <1>17, <1>18, <1>19, <1>20, <1>21, CompactionBounds
<1>23. h[c] \in Range(h) BY DEF Range
<1> QED BY <1>7, <1>22, <1>23

\* A note parts nothing.
LEMMA NoteParts ==
  ASSUME NEW h, NEW n, History(h, n), n = added, added < MaxMessages
  PROVE  Parted(WithNote(h, Note)) \subseteq Parted(h)
<1>1. PICK m : m = Message(added + 1, "system") OBVIOUS
<1>2. PICK t : t = WithNote(h, Note) OBVIOUS
<1>3. t = h \o <<m>> BY <1>1, <1>2 DEF WithNote, Note
<1>4. History(t, n + 1) BY <1>2, NoteKeeps
<1>5. /\ h \in Seq(Msgs) /\ Len(h) \in Nat /\ DOMAIN h = 1 .. Len(h)
  BY HistoryHas DEF History
<1>6. m \in Msgs /\ m.kind = "system"
  <2>1. added + 1 \in 1 .. MaxMessages BY CompactionBounds DEF History
  <2> QED BY <1>1, <2>1, MessageIs DEF Kinds
<1>7. /\ DOMAIN t = 1 .. Len(h) + 1 /\ \A i \in DOMAIN h : i \in DOMAIN t /\ t[i] = h[i]
      /\ t[Len(h) + 1] = m
  BY <1>3, <1>5, <1>6
<1> SUFFICES ASSUME NEW p \in Parted(t) PROVE p \in Parted(h) BY <1>2
<1>8. PICK r \in DOMAIN t : /\ t[r].kind = "result" /\ t[r].of = p
                            /\ \A c \in DOMAIN t : t[c].id # t[r].of[1]
  BY <1>4, PartedIs
<1>9. r # Len(h) + 1 BY <1>6, <1>7, <1>8
<1>10. r \in DOMAIN h BY <1>5, <1>7, <1>9
<1> QED BY <1>7, <1>8, <1>10, PartedIs

\* A cutoff that went back to the very first message stands before a result without call.
LEMMA PanicParts ==
  ASSUME NEW h, NEW n, History(h, n), ~NothingToSlide(h), SlideCutoff(h) = 0
  PROVE  Parted(h) # {}
<1>1. PICK c0 \in Nat : c0 = Len(h) - PreserveRecent /\ c0 >= 2 /\ c0 <= Len(h)
  BY SlideCuts
<1>2. PICK k \in 0 .. c0 :
        /\ AdjustCutoff(h, c0) = c0 - k /\ k <= MaxWalkBack
        /\ \A j \in 0 .. k - 1 : c0 < Len(h) /\ AtPosition(h, c0 - j).kind = "result"
        /\ k < MaxWalkBack /\ k < c0 /\ c0 < Len(h)
           => AtPosition(h, c0 - k).kind # "result"
  <2>1. c0 \in Nat OBVIOUS
  <2>2. \A c \in Nat : \E k \in 0 .. c :
           /\ AdjustCutoff(h, c) = c - k /\ k <= MaxWalkBack
           /\ \A j \in 0 .. k - 1 : c < Len(h) /\ AtPosition(h, c - j).kind = "result"
           /\ k < MaxWalkBack /\ k < c /\ c < Len(h) => AtPosition(h, c - k).kind # "result"
    BY WalkedBack
  <2> QED BY <2>1, <2>2
<1>3. k = c0 BY <1>1, <1>2 DEF SlideCutoff
<1>4. c0 - 1 \in 0 .. k - 1 /\ c0 - (c0 - 1) = 1 BY <1>1, <1>3
<1>5. AtPosition(h, 1).kind = "result" BY <1>2, <1>4
<1>6. h[2].kind = "result" BY <1>5 DEF AtPosition
<1>7. 2 \in DOMAIN h /\ 1 \in DOMAIN h
  <2>1. Len(h) \in Nat /\ DOMAIN h = 1 .. Len(h) BY HistoryHas
  <2> QED BY <1>1, <2>1
<1>8. ASSUME NEW c \in DOMAIN h, h[c].id = h[2].of[1] PROVE FALSE
  <2>1. h[c].kind = "call" BY <1>6, <1>7, <1>8 DEF History, Belongs
  <2>2. c \in Nat /\ c > 1 BY <2>1, HistoryHas DEF Paired
  <2>3. h[2].id = h[2].of[1] + h[2].of[2] /\ h[2].of[2] >= 1
    BY <1>6, <1>7 DEF History, Sound
  <2>4. c # 2 BY <1>6, <2>1
  <2>5. 2 < c => h[2].id < h[c].id BY <1>7 DEF History, Ordered
  <2>6. /\ h[2].id \in Nat /\ h[c].id \in Nat /\ h[2].of[1] \in Nat /\ h[2].of[2] \in Nat
    BY <1>7, HistoryHas
  <2> QED BY <1>8, <2>2, <2>3, <2>4, <2>5, <2>6
<1>9. h[2].of \in Parted(h) BY <1>6, <1>7, <1>8, PartedIs
<1> QED BY <1>9

\* Culling and clearing part no call from a result, a slide only one with more results than
\* the walk goes back over; and only where one is parted already can a slide panic.
THEOREM PairsKeptTogether == CompactionSpec => PairsHold
<1> DEFINE Pairs == (CompactMicro \/ CompactCull \/ Slides) =>
                      \A p \in Parted(messages') \ Parted(messages) :
                        Slides /\ \E m \in Range(messages) :
                                     m.id = p[1] /\ m.calls > MaxWalkBack
           Panics == panicked' # panicked => Parted(messages) # {}
<1>1. ASSUME ConversationInv, [CompactionNext]_conversation
      PROVE  [Pairs]_conversation /\ [Panics]_conversation
  <2>0. History(messages, added) BY <1>1 DEF ConversationInv
  <2>1. ASSUME CompactMicro PROVE Parted(messages') \subseteq Parted(messages)
    BY <2>0, <2>1, MicroParts DEF CompactMicro, Replace
  <2>2. ASSUME CompactCull PROVE Parted(messages') \subseteq Parted(messages)
    <3>1. /\ messages' = Kept(messages, Positions(messages) \ Culled(messages))
          /\ ~TooShort(messages)
      BY <2>2 DEF CompactCull, Replace
    <3>2. messages # <<>> BY <3>1 DEF TooShort
    <3> QED BY <2>0, <3>1, <3>2, CullParts
  <2>3. ASSUME Slides, NEW p \in Parted(messages') \ Parted(messages)
        PROVE  \E m \in Range(messages) : m.id = p[1] /\ m.calls > MaxWalkBack
    <3>1. CASE CompactSlide
      <4>1. /\ ~NothingToSlide(messages) /\ SlideCutoff(messages) > 1
            /\ messages' = Window(messages, SlideCutoff(messages))
        BY <3>1 DEF CompactSlide, Replace
      <4> QED BY <2>0, <2>3, <4>1, SlideParts
    <3>2. CASE CompactReflect
      <4>1. CASE /\ ~NothingToSlide(messages) /\ SlideCutoff(messages) > 1
                 /\ added < MaxMessages
                 /\ Replace(WithNote(Window(messages, SlideCutoff(messages)), Note), 1)
        <5>1. messages' = WithNote(Window(messages, SlideCutoff(messages)), Note)
          BY <4>1 DEF Replace
        <5>2. PICK w : w = Window(messages, SlideCutoff(messages)) OBVIOUS
        <5>3. History(w, added) BY <2>0, <4>1, <5>2, SlideCuts, WindowKeeps
        <5>4. Parted(WithNote(w, Note)) \subseteq Parted(w)
          BY <4>1, <5>3, NoteParts
        <5>5. p \in Parted(w) \ Parted(messages) BY <2>3, <5>1, <5>2, <5>4
        <5> QED BY <2>0, <4>1, <5>2, <5>5, SlideParts
      <4>2. CASE UNCHANGED <<messages, added>> BY <2>3, <4>2
      <4> QED BY <3>2, <4>1, <4>2 DEF CompactReflect
    <3> QED BY <2>3, <3>1, <3>2 DEF Slides
  <2>4. ASSUME panicked' # panicked PROVE Parted(messages) # {}
    <3>1. CASE CompactReflect
      <4>1. ~NothingToSlide(messages) /\ SlideCutoff(messages) = 0
        BY <2>4, <3>1 DEF CompactReflect, Replace
      <4> QED BY <2>0, <4>1, PanicParts
    <3>2. CASE ~CompactReflect
      <4>1. CASE Compact
        BY <2>4, <3>2, <4>1
           DEF Compact, CompactMicro, CompactCull, CompactSlide, CompactSummary, Slides,
               Replace
      <4>2. CASE ~Compact
        BY <1>1, <2>4, <4>2 DEF CompactionNext, conversation, Says, Round, Adds
      <4> QED BY <4>1, <4>2
    <3> QED BY <3>1, <3>2
  <2> QED BY <2>1, <2>2, <2>3, <2>4
<1> QED BY <1>1, HistoriesKept, PTL
     DEF CompactionSpec, PairsHold, PairsKept, PanicsOnlyAfterParting
=============================================================================
