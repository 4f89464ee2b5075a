-------------------------- MODULE TurnDeliveryProofs --------------------------
(***************************************************************************)
(* Whoever follows a turn hears all of it, once and in order: TurnDelivery *)
(* implements TurnFollowing, for any number of turns, events and surfaces  *)
(* and whatever the channels hold.                                         *)
(*                                                                         *)
(* A follower's stream is in three parts: what it has heard, what it was   *)
(* given of the journal, and what is still to come.  Put together they are *)
(* always the log of its turn (StreamHears); while it keeps up, what is to *)
(* come stands in its live channel, and what stands after that is of       *)
(* another turn, which it never hears because the log it is following ends *)
(* in Done.  For the client that posted, the third part is the event the   *)
(* task holds (PostersHear).  A receiver that has lost its place is        *)
(* promised nothing about its channel, and never reads it.                 *)
(***************************************************************************)
EXTENDS MCDelivery, EventFanOutProofs, SequenceTheorems, TLAPS

Posters == [here: BOOLEAN, box: Seq(Events), heard: Seq(Events)]

Parts ==
    /\ turn \in 0 .. MaxTurns /\ active \in BOOLEAN
    /\ engine \in {"none", "running", "failed", "ok", "done"}
    /\ journal \in Seq(Events) /\ channel \in Seq(Events) /\ held \in Seq(Events)
    /\ client \in [Turns -> Posters]
    /\ watch \in [Watchers -> Streams]
    /\ log \in [Turns -> Seq(Events)]

Bounded ==
    /\ Len(channel) <= EngineCap /\ Len(held) <= 1
    /\ \A t \in Turns : Len(client[t].box) <= ClientCap
    /\ \A w \in Watchers : Len(watch[w].live) <= LiveCap

LEMMA TypesAreParts == TypeOK <=> Parts /\ Bounded
  BY DEF TypeOK, Parts, Bounded, Posters

\* The turn's claim is held while its engine is at work.
Claimed ==
    /\ active <=> engine # "none"
    /\ active => turn \in Turns
    /\ engine \in {"none", "done"} => channel = <<>>
    /\ engine = "none" => held = <<>>
    /\ \A i \in 1 .. Len(channel) : channel[i] # Done

TurnInv == Parts /\ Bounded /\ Claimed

LEMMA Caps ==
    /\ MaxTurns \in Nat /\ MaxEvents \in Nat
    /\ EngineCap \in Nat /\ ClientCap \in Nat /\ LiveCap \in Nat
    /\ EngineCap >= 1 /\ ClientCap >= 1 /\ LiveCap >= 1
  BY DeliveryConstants

LEMMA AnEvent == Done \in Events /\ Error \in Events /\ Done # Error
  BY DEF Events, Done, Error

LEMMA Said ==
    ASSUME NEW n \in 1 .. MaxEvents
    PROVE  <<"said", n>> \in Events /\ <<"said", n>> # Done
  BY DEF Events, Done

LEMMA EmptyStream == Off \in Streams /\ Nobody \in Posters
<1>1. <<>> \in Seq(Events)
  OBVIOUS
<1>. QED
  BY <1>1 DEF Off, Streams, Nobody, Posters

\* The fields of a stream.
LEMMA StreamParts ==
    ASSUME Parts, NEW w \in Watchers
    PROVE  /\ watch[w] \in Streams
           /\ watch[w].replay \in Seq(Events) /\ watch[w].live \in Seq(Events)
           /\ watch[w].heard \in Seq(Events) /\ watch[w].turn \in Turns \cup {0}
           /\ watch[w].lagged \in BOOLEAN
  BY DEF Parts, Streams

LEMMA PosterParts ==
    ASSUME Parts, NEW t \in Turns
    PROVE  /\ client[t] \in Posters
           /\ client[t].box \in Seq(Events) /\ client[t].heard \in Seq(Events)
           /\ client[t].here \in BOOLEAN
  BY DEF Parts, Posters

-----------------------------------------------------------------------------

LEMMA TurnInit == Init => TurnInv
<1>. SUFFICES ASSUME Init PROVE TurnInv
  OBVIOUS
<1>1. /\ turn = 0 /\ active = FALSE /\ journal = <<>> /\ engine = "none"
      /\ channel = <<>> /\ held = <<>>
      /\ client = [t \in Turns |-> Nobody]
      /\ watch = [w \in Watchers |-> Off]
      /\ log = [t \in Turns |-> <<>>]
  BY DEF Init
<1>2. <<>> \in Seq(Events) /\ Len(<<>>) = 0
  OBVIOUS
<1>3. turn \in 0 .. MaxTurns /\ active \in BOOLEAN
  <2>1. 0 \in 0 .. MaxTurns
    BY Caps
  <2>. QED
    BY <1>1, <2>1
<1>4. Parts
  BY <1>1, <1>2, <1>3, EmptyStream DEF Parts
<1>5. EngineCap \in Nat /\ ClientCap \in Nat /\ LiveCap \in Nat
  BY Caps
<1>6. \A t \in Turns : client[t].box = <<>>
  BY <1>1 DEF Nobody
<1>7. \A w \in Watchers : watch[w].live = <<>>
  BY <1>1 DEF Off
<1>8. Bounded
  BY <1>1, <1>2, <1>5, <1>6, <1>7 DEF Bounded
<1>9. Claimed
  BY <1>1, <1>2 DEF Claimed
<1>. QED
  BY <1>4, <1>8, <1>9 DEF TurnInv

LEMMA BeginTurnInv == ASSUME TurnInv, BeginTurn PROVE TurnInv'
<1>1. /\ turn < MaxTurns /\ ~active /\ turn' = turn + 1 /\ active' = TRUE
      /\ journal' = <<>> /\ engine' = "running"
      /\ client' = [client EXCEPT ![turn + 1].here = TRUE]
      /\ UNCHANGED <<channel, held, watch, log>>
  BY DEF BeginTurn, Unclaimed
<1>2. turn' \in Turns /\ turn' \in 0 .. MaxTurns
  BY <1>1, Caps DEF TurnInv, Parts, Turns
<1>3. <<>> \in Seq(Events)
  OBVIOUS
<1>4. client' \in [Turns -> Posters] /\ \A t \in Turns : client'[t].box = client[t].box
  <2>1. client \in [Turns -> Posters] /\ turn + 1 \in Turns
    BY <1>1, <1>2 DEF TurnInv, Parts
  <2>2. [client[turn + 1] EXCEPT !.here = TRUE] \in Posters
    BY <2>1 DEF Posters
  <2>. QED
    BY <1>1, <2>1, <2>2 DEF Posters
<1>5. Parts'
  BY <1>1, <1>2, <1>3, <1>4 DEF TurnInv, Parts
<1>6. Bounded'
  BY <1>1, <1>4 DEF TurnInv, Bounded
<1>7. Claimed'
  BY <1>1, <1>2 DEF TurnInv, Claimed
<1>. QED
  BY <1>5, <1>6, <1>7 DEF TurnInv

LEMMA EmitInv == ASSUME TurnInv, Emit PROVE TurnInv'
<1>. DEFINE e == <<"said", Count + 1>>
<1>1. /\ engine = "running" /\ Count < MaxEvents /\ Len(channel) < EngineCap
      /\ channel' = Append(channel, e)
      /\ UNCHANGED <<turn, active, journal, engine, held, client, watch, log>>
  BY DEF Emit
<1>2. channel \in Seq(Events) /\ log \in [Turns -> Seq(Events)] /\ turn \in Turns
  BY <1>1 DEF TurnInv, Parts, Claimed
<1>3. Count \in Nat
  BY <1>2, LenProperties DEF Count
<1>4. e \in Events /\ e # Done
  <2>1. Count + 1 \in 1 .. MaxEvents
    BY <1>1, <1>3, Caps
  <2>. QED
    BY <2>1, Said
<1>5. /\ channel' \in Seq(Events) /\ Len(channel') = Len(channel) + 1
      /\ \A i \in 1 .. Len(channel) : channel'[i] = channel[i]
      /\ channel'[Len(channel) + 1] = e /\ Len(channel) \in Nat
  BY <1>1, <1>2, <1>4, AppendProperties, LenProperties
<1>6. Parts'
  BY <1>1, <1>5 DEF TurnInv, Parts
<1>7. Bounded'
  BY <1>1, <1>5, Caps DEF TurnInv, Bounded
<1>8. Claimed'
  BY <1>1, <1>4, <1>5 DEF TurnInv, Claimed
<1>. QED
  BY <1>6, <1>7, <1>8 DEF TurnInv

LEMMA ReturnInv == ASSUME TurnInv, Return PROVE TurnInv'
<1>1. Parts'
  BY DEF TurnInv, Parts, Return
<1>2. Bounded' /\ Claimed'
  BY DEF TurnInv, Bounded, Claimed, Return
<1>. QED
  BY <1>1, <1>2 DEF TurnInv

\* What a follower's stream is after an event: the rest of it is left alone.
LEMMA ReceivedEvent ==
    ASSUME NEW s \in Streams, Len(s.live) <= LiveCap, NEW e \in Events
    PROVE  /\ Received(s, e) \in Streams /\ Len(Received(s, e).live) <= LiveCap
           /\ Received(s, e).turn = s.turn /\ Received(s, e).state = s.state
           /\ Received(s, e).replay = s.replay /\ Received(s, e).heard = s.heard
           /\ \/ s.state # "following" \/ Received(s, e).lagged = TRUE
              \/ s.lagged = FALSE /\ Received(s, e).live = Append(s.live, e)
<1>1. s.live \in Seq(Events) /\ s.lagged \in BOOLEAN /\ <<>> \in Seq(Events)
  BY DEF Streams
<1>2. CASE s.state # "following" \/ s.lagged
  BY <1>2 DEF Received
<1>3. CASE s.state = "following" /\ ~s.lagged /\ Len(s.live) = LiveCap
  <2>1. Received(s, e) = [s EXCEPT !.lagged = TRUE, !.live = <<>>]
    BY <1>3 DEF Received
  <2>2. [s EXCEPT !.lagged = TRUE, !.live = <<>>] \in Streams
    BY <1>1 DEF Streams
  <2>. QED
    BY <2>1, <2>2, Caps DEF Streams
<1>4. CASE s.state = "following" /\ ~s.lagged /\ Len(s.live) # LiveCap
  <2>1. Received(s, e) = [s EXCEPT !.live = Append(@, e)]
    BY <1>4 DEF Received
  <2>2. Append(s.live, e) \in Seq(Events) /\ Len(Append(s.live, e)) = Len(s.live) + 1
        /\ Len(s.live) \in Nat
    BY <1>1, AppendProperties, LenProperties
  <2>3. [s EXCEPT !.live = Append(@, e)] \in Streams
    BY <2>2 DEF Streams
  <2>4. Len(s.live) + 1 <= LiveCap
    BY <1>4, <2>2, Caps
  <2>. QED
    BY <1>4, <2>1, <2>2, <2>3, <2>4 DEF Streams
<1>. QED
  BY <1>2, <1>3, <1>4

LEMMA StreamReceives ==
    ASSUME TurnInv, NEW w \in Watchers, NEW e \in Events
    PROVE  /\ Received(watch[w], e) \in Streams
           /\ Received(watch[w], e).turn = watch[w].turn
           /\ Received(watch[w], e).state = watch[w].state
           /\ Received(watch[w], e).replay = watch[w].replay
           /\ Received(watch[w], e).heard = watch[w].heard
           /\ \/ watch[w].state # "following" \/ Received(watch[w], e).lagged = TRUE
              \/ /\ watch[w].lagged = FALSE
                 /\ Received(watch[w], e).live = Append(watch[w].live, e)
<1>1. watch[w] \in Streams /\ Len(watch[w].live) <= LiveCap
  BY DEF TurnInv, Parts, Bounded
<1>. QED
  BY <1>1, ReceivedEvent, Zenon

\* Publishing an event, within the types.
LEMMA Published ==
    ASSUME TurnInv, NEW e \in Events, Publish(e), active
    PROVE  /\ UNCHANGED <<turn, active, client>>
           /\ journal' = Append(journal, e) /\ journal' \in Seq(Events)
           /\ held' = <<e>> /\ held' \in Seq(Events) /\ Len(held') <= 1
           /\ log' \in [Turns -> Seq(Events)]
           /\ log'[turn] = Append(log[turn], e)
           /\ \A t \in Turns \ {turn} : log'[t] = log[t]
           /\ watch' \in [Watchers -> Streams]
           /\ \A w \in Watchers : /\ watch'[w] = Received(watch[w], e)
                                  /\ Len(watch'[w].live) <= LiveCap
<1>1. /\ UNCHANGED <<turn, active, client>> /\ journal' = Append(journal, e)
      /\ held' = <<e>> /\ log' = [log EXCEPT ![turn] = Append(@, e)]
      /\ watch' = [w \in Watchers |-> Received(watch[w], e)]
  BY DEF Publish, Journal
<1>2. /\ journal \in Seq(Events) /\ log \in [Turns -> Seq(Events)] /\ turn \in Turns
      /\ watch \in [Watchers -> Streams]
      /\ \A w \in Watchers : Len(watch[w].live) <= LiveCap
  BY DEF TurnInv, Parts, Bounded, Claimed
<1>3. journal' \in Seq(Events) /\ Append(log[turn], e) \in Seq(Events)
  BY <1>1, <1>2, AppendProperties
<1>4. held' \in Seq(Events) /\ Len(held') = 1
  BY <1>1
<1>5. /\ log' \in [Turns -> Seq(Events)] /\ log'[turn] = Append(log[turn], e)
      /\ \A t \in Turns \ {turn} : log'[t] = log[t]
  BY <1>1, <1>2, <1>3
<1>6. \A w \in Watchers : /\ watch'[w] = Received(watch[w], e) /\ watch'[w] \in Streams
                          /\ Len(watch'[w].live) <= LiveCap
  BY <1>1, <1>2, ReceivedEvent
<1>7. watch' \in [Watchers -> Streams]
  BY <1>1, <1>6
<1>. QED
  BY <1>1, <1>3, <1>4, <1>5, <1>6, <1>7

\* Which event the task publishes.
LEMMA TaskPublishes ==
    ASSUME TurnInv, Pass \/ PassError \/ PassDone
    PROVE  /\ active /\ held = <<>> /\ engine \in {"running", "failed", "ok"}
           /\ \E e \in Events : Publish(e) /\ (e = Done <=> engine' = "done")
           /\ engine' \in {"running", "failed", "ok", "done"}
           /\ channel' \in Seq(Events) /\ Len(channel') <= EngineCap
           /\ engine' = "done" => channel' = <<>>
           /\ \A i \in 1 .. Len(channel') : channel'[i] # Done
<1>0. channel \in Seq(Events) /\ Len(channel) <= EngineCap /\ Len(channel) \in Nat
      /\ \A i \in 1 .. Len(channel) : channel[i] # Done
  BY LenProperties DEF TurnInv, Parts, Bounded, Claimed
<1>1. CASE Pass
  <2>1. /\ held = <<>> /\ channel # <<>> /\ Publish(Head(channel))
        /\ channel' = Tail(channel) /\ engine' = engine
    BY <1>1 DEF Pass
  <2>2. engine \in {"running", "failed", "ok"} /\ active
    BY <2>1 DEF TurnInv, Parts, Claimed
  <2>3. /\ Head(channel) \in Events /\ Tail(channel) \in Seq(Events)
        /\ Len(Tail(channel)) = Len(channel) - 1
        /\ \A i \in 1 .. Len(Tail(channel)) : Tail(channel)[i] = channel[i + 1]
    BY <1>0, <2>1, HeadTailProperties
  <2>4. Head(channel) = channel[1] /\ 1 \in 1 .. Len(channel)
    BY <1>0, <2>1
  <2>5. \A i \in 1 .. Len(Tail(channel)) : Tail(channel)[i] # Done
    BY <1>0, <2>3
  <2>. QED
    BY <1>0, <2>1, <2>2, <2>3, <2>4, <2>5, Caps
<1>2. CASE PassError
  BY <1>0, <1>2, AnEvent DEF PassError, TurnInv, Claimed
<1>3. CASE PassDone
  BY <1>0, <1>3, AnEvent DEF PassDone, TurnInv, Claimed
<1>. QED
  BY <1>1, <1>2, <1>3

LEMMA TaskInv == ASSUME TurnInv, Pass \/ PassError \/ PassDone PROVE TurnInv'
<1>1. PICK e \in Events : Publish(e) /\ (e = Done <=> engine' = "done")
  BY TaskPublishes
<1>2. /\ active /\ engine' \in {"running", "failed", "ok", "done"}
      /\ channel' \in Seq(Events) /\ Len(channel') <= EngineCap
      /\ engine' = "done" => channel' = <<>>
      /\ \A i \in 1 .. Len(channel') : channel'[i] # Done
  BY TaskPublishes
<1>3. /\ UNCHANGED <<turn, active, client>> /\ journal' \in Seq(Events)
      /\ held' \in Seq(Events) /\ Len(held') <= 1
      /\ log' \in [Turns -> Seq(Events)] /\ watch' \in [Watchers -> Streams]
      /\ \A w \in Watchers : Len(watch'[w].live) <= LiveCap
  BY <1>1, <1>2, Published
<1>4. Parts'
  BY <1>2, <1>3 DEF TurnInv, Parts
<1>5. Bounded'
  BY <1>2, <1>3 DEF TurnInv, Bounded
<1>6. Claimed'
  BY <1>2, <1>3 DEF TurnInv, Claimed
<1>. QED
  BY <1>4, <1>5, <1>6 DEF TurnInv

\* A client's place takes a new value of the right form.
LEMMA ClientChanges ==
    ASSUME TurnInv, NEW t \in Turns, NEW c \in Posters, Len(c.box) <= ClientCap,
           client' = [client EXCEPT ![t] = c],
           UNCHANGED <<turn, active, journal, engine, channel, watch, log>>,
           held' = held \/ (held' = <<>> /\ engine # "none")
    PROVE  TurnInv'
<1>1. client' \in [Turns -> Posters]
      /\ \A u \in Turns : Len(client'[u].box) <= ClientCap
  BY DEF TurnInv, Parts, Bounded
<1>2. held' \in Seq(Events) /\ Len(held') <= 1 /\ (engine = "none" => held' = <<>>)
  <2>1. held \in Seq(Events) /\ Len(held) <= 1 /\ (engine = "none" => held = <<>>)
    BY DEF TurnInv, Parts, Bounded, Claimed
  <2>2. <<>> \in Seq(Events) /\ Len(<<>>) = 0
    OBVIOUS
  <2>3. CASE held' = held
    BY <2>1, <2>3
  <2>4. CASE held' = <<>> /\ engine # "none"
    BY <2>2, <2>4
  <2>. QED
    BY <2>3, <2>4
<1>3. Parts'
  BY <1>1, <1>2 DEF TurnInv, Parts
<1>4. Bounded'
  BY <1>1, <1>2 DEF TurnInv, Bounded
<1>5. Claimed'
  BY <1>2 DEF TurnInv, Claimed
<1>. QED
  BY <1>3, <1>4, <1>5 DEF TurnInv

LEMMA StreamChanges ==
    ASSUME TurnInv, NEW w \in Watchers, NEW s \in Streams, Len(s.live) <= LiveCap,
           Watching(w, s)
    PROVE  TurnInv'
<1>1. /\ watch' = [watch EXCEPT ![w] = s]
      /\ UNCHANGED <<turn, active, journal, engine, channel, held, client, log>>
  BY DEF Watching
<1>2. watch' \in [Watchers -> Streams]
      /\ \A v \in Watchers : Len(watch'[v].live) <= LiveCap
  BY <1>1 DEF TurnInv, Parts, Bounded
<1>3. Parts'
  BY <1>1, <1>2 DEF TurnInv, Parts
<1>4. Bounded' /\ Claimed'
  BY <1>1, <1>2 DEF TurnInv, Bounded, Claimed
<1>. QED
  BY <1>3, <1>4 DEF TurnInv

-----------------------------------------------------------------------------
(* What is heard and what is still to come. *)

\* The first of what is to come goes over to what is heard.
LEMMA HeardOneMore ==
    ASSUME NEW S, NEW h \in Seq(S), NEW r \in Seq(S), r # <<>>
    PROVE  /\ Head(r) \in S /\ Tail(r) \in Seq(S)
           /\ Append(h, Head(r)) \in Seq(S)
           /\ Append(h, Head(r)) \o Tail(r) = h \o r
           /\ Len(h) < Len(h \o r) /\ (h \o r)[Len(h) + 1] = Head(r)
<1>. DEFINE k == Append(h, Head(r))
<1>1. /\ Head(r) \in S /\ Tail(r) \in Seq(S) /\ Len(Tail(r)) = Len(r) - 1
      /\ \A i \in 1 .. Len(Tail(r)) : Tail(r)[i] = r[i + 1]
  BY HeadTailProperties
<1>2. Len(h) \in Nat /\ Len(r) \in Nat /\ Len(r) >= 1 /\ Head(r) = r[1]
  BY LenProperties
<1>3. /\ k \in Seq(S) /\ Len(k) = Len(h) + 1 /\ k[Len(h) + 1] = Head(r)
      /\ \A i \in 1 .. Len(h) : k[i] = h[i]
  BY <1>1, AppendProperties
<1>4. /\ k \o Tail(r) \in Seq(S) /\ Len(k \o Tail(r)) = Len(h) + 1 + (Len(r) - 1)
      /\ \A i \in 1 .. Len(h) + 1 + (Len(r) - 1) :
           (k \o Tail(r))[i] = IF i <= Len(h) + 1 THEN k[i] ELSE Tail(r)[i - (Len(h) + 1)]
  BY <1>1, <1>2, <1>3, ConcatProperties
<1>5. /\ h \o r \in Seq(S) /\ Len(h \o r) = Len(h) + Len(r)
      /\ \A i \in 1 .. Len(h) + Len(r) :
           (h \o r)[i] = IF i <= Len(h) THEN h[i] ELSE r[i - Len(h)]
  BY ConcatProperties
<1>6. ASSUME NEW i \in 1 .. Len(h) + Len(r)
      PROVE  (k \o Tail(r))[i] = (h \o r)[i]
  <2>1. CASE i <= Len(h)
    BY <1>2, <1>3, <1>4, <1>5, <2>1
  <2>2. CASE i = Len(h) + 1
    BY <1>2, <1>3, <1>4, <1>5, <2>2
  <2>3. CASE i > Len(h) + 1
    <3>1. i - (Len(h) + 1) \in 1 .. Len(Tail(r))
          /\ i - (Len(h) + 1) + 1 = i - Len(h)
      BY <1>1, <1>2, <2>3
    <3>2. (k \o Tail(r))[i] = Tail(r)[i - (Len(h) + 1)]
      BY <1>2, <1>4, <2>3
    <3>3. (h \o r)[i] = r[i - Len(h)]
      BY <1>2, <1>5, <2>3
    <3>. QED
      BY <1>1, <3>1, <3>2, <3>3
  <2>. QED
    BY <1>2, <2>1, <2>2, <2>3
<1>7. k \o Tail(r) = h \o r
  BY <1>2, <1>4, <1>5, <1>6, SeqEqual
<1>. QED
  BY <1>1, <1>2, <1>3, <1>5, <1>7

LEMMA HeadOfMore ==
    ASSUME NEW S, NEW b \in Seq(S), NEW x \in Seq(S), b # <<>>
    PROVE  /\ b \o x \in Seq(S) /\ b \o x # <<>>
           /\ Head(b \o x) = Head(b) /\ Tail(b \o x) = Tail(b) \o x
<1>1. <<>> \in Seq(S) /\ Len(<<>>) = 0
  OBVIOUS
<1>2. Tail(b) \in Seq(S) /\ Head(b) \in S /\ Append(<<>>, Head(b)) \o Tail(b) = <<>> \o b
  BY <1>1, HeardOneMore
<1>3. b = <<Head(b)>> \o Tail(b) /\ <<Head(b)>> \in Seq(S)
  BY <1>2, ConcatEmptySeq
<1>4. b \o x = <<Head(b)>> \o (Tail(b) \o x)
  BY <1>2, <1>3, ConcatAssociative
<1>5. Tail(b) \o x \in Seq(S)
  BY <1>2, ConcatProperties
<1>6. b \o x = <<Head(b)>> \o (Tail(b) \o x) /\ Len(b \o x) = 1 + Len(Tail(b) \o x)
  BY <1>3, <1>4, <1>5, ConcatProperties
<1>7. b \o x \in Seq(S) /\ b \o x # <<>>
  BY <1>5, <1>6, ConcatProperties, LenProperties
<1>8. Head(b \o x) = Head(b)
  <2>1. (<<Head(b)>> \o (Tail(b) \o x))[1] = Head(b)
    BY <1>3, <1>5, ConcatProperties, LenProperties
  <2>. QED
    BY <1>6, <1>7, <2>1
<1>9. Tail(b \o x) = Tail(b) \o x
  <2>1. /\ Tail(b \o x) \in Seq(S) /\ Len(Tail(b \o x)) = Len(b \o x) - 1
        /\ \A i \in 1 .. Len(Tail(b \o x)) : Tail(b \o x)[i] = (b \o x)[i + 1]
    BY <1>7, HeadTailProperties
  <2>2. Len(Tail(b) \o x) \in Nat
    BY <1>5, LenProperties
  <2>3. \A i \in 1 .. Len(Tail(b) \o x) :
          (<<Head(b)>> \o (Tail(b) \o x))[i + 1] = (Tail(b) \o x)[i]
    BY <1>3, <1>5, <2>2, ConcatProperties
  <2>. QED
    BY <1>5, <1>6, <2>1, <2>2, <2>3, SeqEqual
<1>. QED
  BY <1>7, <1>8, <1>9

LEMMA AddedLater ==
    ASSUME NEW S, NEW h \in Seq(S), NEW r \in Seq(S), NEW e \in S
    PROVE  Append(h \o r, e) = h \o Append(r, e)
<1>1. h \o r \in Seq(S) /\ <<e>> \in Seq(S)
  BY ConcatProperties
<1>2. Append(h \o r, e) = (h \o r) \o <<e>> /\ Append(r, e) = r \o <<e>>
  BY <1>1, AppendIsConcat
<1>3. (h \o r) \o <<e>> = h \o (r \o <<e>>)
  BY <1>1, ConcatAssociative
<1>. QED
  BY <1>2, <1>3

-----------------------------------------------------------------------------

Ends(h) == h # <<>> /\ h[Len(h)] = Done

\* A turn that is over ends in Done, and the one that is not does not.
Logged ==
    /\ \A t \in Turns :
         IF t > turn THEN log[t] = <<>> /\ client[t] = Nobody
         ELSE Ends(log[t]) <=> ~(t = turn /\ engine \in {"running", "failed", "ok"})
    /\ active => journal = log[turn]

OnItsWay(t) == IF t = turn THEN held ELSE <<>>

\* What a posting client has heard, what is in its channel and what the task holds
\* are the turn.
PostersHear ==
    \A t \in Turns : t <= turn /\ client[t].here =>
        /\ ~Ends(client[t].heard)
        /\ client[t].heard \o (client[t].box \o OnItsWay(t)) = log[t]

\* What a follower has heard, the journal's part and the rest are the turn; while it
\* keeps up the rest is in its channel, and only another turn's events after it.
StreamHears(s) ==
    /\ s.turn \in Turns /\ s.turn <= turn /\ ~Ends(s.heard)
    /\ \E rest, extra \in Seq(Events) :
         /\ s.heard \o (s.replay \o rest) = log[s.turn]
         /\ s.lagged \/ s.live = rest \o extra
         /\ s.turn = turn => extra = <<>>

StreamsHear == \A w \in Watchers : watch[w].state = "following" => StreamHears(watch[w])

FollowInv == TurnInv /\ Logged /\ PostersHear /\ StreamsHear

LEMMA FollowInit == Init => FollowInv
<1>. SUFFICES ASSUME Init PROVE FollowInv
  OBVIOUS
<1>1. /\ turn = 0 /\ active = FALSE
      /\ client = [t \in Turns |-> Nobody]
      /\ watch = [w \in Watchers |-> Off]
      /\ log = [t \in Turns |-> <<>>]
  BY DEF Init
<1>2. Logged
  BY <1>1, Caps DEF Logged, Turns
<1>3. PostersHear
  BY <1>1 DEF PostersHear, Nobody
<1>4. StreamsHear
  BY <1>1 DEF StreamsHear, Off
<1>. QED
  BY <1>2, <1>3, <1>4, TurnInit DEF FollowInv

\* A log that has not ended is no longer than what has not ended of it.
LEMMA NotAllHeard ==
    ASSUME NEW h \in Seq(Events), ~Ends(h), Ends(h \o <<>>) PROVE FALSE
  BY ConcatEmptySeq

\* The seats are the abstract specification's.
WatcherSeat(w) == Following!Seat(watch[w].turn, watch[w].heard, watch[w].state)

PosterSeat(t) ==
    IF t > turn THEN Following!Seat(0, client[t].heard, "off")
    ELSE Following!Seat(t, client[t].heard,
           IF Ends(client[t].heard) THEN "over"
           ELSE IF client[t].here THEN "following" ELSE "gone")

LEMMA LastHeard ==
    ASSUME NEW h \in Seq(Events)
    PROVE  (Last(<<Error>> \o h) = Done) <=> Ends(h)
<1>1. <<Error>> \in Seq(Events) /\ Len(<<Error>>) = 1 /\ Len(h) \in Nat
  BY AnEvent, LenProperties
<1>2. /\ Len(<<Error>> \o h) = 1 + Len(h)
      /\ \A i \in 1 .. 1 + Len(h) :
           (<<Error>> \o h)[i] = IF i <= 1 THEN <<Error>>[i] ELSE h[i - 1]
  BY <1>1, ConcatProperties
<1>3. CASE h = <<>>
  <2>1. Len(h) = 0
    BY <1>3
  <2>2. (<<Error>> \o h)[1] = Error
    BY <1>1, <1>2
  <2>. QED
    BY <1>2, <1>3, <2>1, <2>2, AnEvent DEF Last, Ends
<1>4. CASE h # <<>>
  <2>1. Len(h) >= 1
    BY <1>4, EmptySeq
  <2>2. (<<Error>> \o h)[1 + Len(h)] = h[Len(h)]
    BY <1>1, <1>2, <2>1
  <2>. QED
    BY <1>2, <1>4, <2>2 DEF Last, Ends
<1>. QED
  BY <1>3, <1>4

SeatsStand ==
    /\ Seats = [f \in Watchers \cup Turns |-> Seats[f]]
    /\ \A w \in Watchers : Seats[w] = WatcherSeat(w)
    /\ \A t \in Turns : t \notin Watchers /\ Seats[t] = PosterSeat(t)

LEMMA SeatsAre == TurnInv => SeatsStand
<1>. SUFFICES ASSUME TurnInv PROVE SeatsStand
  OBVIOUS
<1>1. Seats = [f \in Watchers \cup Turns |-> Seats[f]]
  BY DEF Seats
<1>2. \A w \in Watchers : Seats[w] = WatcherSeat(w)
  BY DEF Seats, WatcherSeat, Following!Seat
<1>3. ASSUME NEW t \in Turns
      PROVE  t \notin Watchers /\ Seats[t] = PosterSeat(t)
  <2>1. t \notin Watchers /\ t \in Nat
    BY DeliveryConstants DEF Turns
  <2>2. (Last(<<Error>> \o client[t].heard) = Done) <=> Ends(client[t].heard)
    BY PosterParts, LastHeard DEF TurnInv
  <2>3. turn \in Nat
    BY DEF TurnInv, Parts
  <2>4. t > turn <=> ~(t <= turn)
    BY <2>1, <2>3
  <2>. QED
    BY <2>1, <2>2, <2>4 DEF Seats, PosterSeat, Following!Seat
<1>. QED
  BY <1>1, <1>2, <1>3 DEF SeatsStand

LEMMA SeatsAreNext == TurnInv' => SeatsStand'
  BY SeatsAre, PTL

\* A step of the detailed specification that the followers do not see.
LEMMA SeatsKept ==
    ASSUME TurnInv, TurnInv',
           \A w \in Watchers : WatcherSeat(w)' = WatcherSeat(w),
           \A t \in Turns : PosterSeat(t)' = PosterSeat(t)
    PROVE  Seats' = Seats
<1>1. SeatsStand /\ SeatsStand'
  BY SeatsAre, SeatsAreNext
<1>2. \A f \in Watchers \cup Turns : Seats'[f] = Seats[f]
  BY <1>1 DEF SeatsStand
<1>. QED
  BY <1>1, <1>2 DEF SeatsStand

\* One follower's seat changes.
LEMMA SeatTaken ==
    ASSUME TurnInv, TurnInv', NEW f \in Watchers \cup Turns, NEW x, Seats'[f] = x,
           \A w \in Watchers \ {f} : WatcherSeat(w)' = WatcherSeat(w),
           \A t \in Turns \ {f} : PosterSeat(t)' = PosterSeat(t)
    PROVE  Seats' = [Seats EXCEPT ![f] = x]
<1>1. SeatsStand /\ SeatsStand'
  BY SeatsAre, SeatsAreNext
<1>2. \A g \in (Watchers \cup Turns) \ {f} : Seats'[g] = Seats[g]
  BY <1>1 DEF SeatsStand
<1>3. /\ Seats = [g \in Watchers \cup Turns |-> Seats[g]]
      /\ Seats' = [g \in Watchers \cup Turns |-> Seats'[g]]
  BY <1>1 DEF SeatsStand
<1>. QED
  BY <1>2, <1>3

Follows == FollowInv' /\ [Following!Next]_(Following!vars)

\* The engine's own steps, and the end of a turn.
LEMMA EngineFollows ==
    ASSUME FollowInv, TurnInv', UNCHANGED <<turn, held, client, watch, log>>,
           engine' \in {"running", "failed", "ok"} <=> engine \in {"running", "failed", "ok"},
           active' => active /\ journal' = journal
    PROVE  Follows
<1>1. Logged' /\ PostersHear' /\ StreamsHear'
  BY DEF FollowInv, Logged, PostersHear, StreamsHear, StreamHears, OnItsWay
<1>2. Seats' = Seats
  BY SeatsKept DEF FollowInv, WatcherSeat, PosterSeat
<1>. QED
  BY <1>1, <1>2 DEF Follows, FollowInv, Following!vars

LEMMA BeginTurnFollows == ASSUME FollowInv, TurnInv', BeginTurn PROVE Follows
<1>. DEFINE n == turn + 1
<1>1. /\ turn < MaxTurns /\ ~active /\ turn' = n /\ active' = TRUE
      /\ journal' = <<>> /\ engine' = "running"
      /\ client' = [client EXCEPT ![n].here = TRUE]
      /\ UNCHANGED <<channel, held, watch, log>>
  BY DEF BeginTurn, Unclaimed
<1>2. turn \in Nat /\ n \in Turns /\ held = <<>> /\ engine = "none"
      /\ client \in [Turns -> Posters] /\ log \in [Turns -> Seq(Events)]
  BY <1>1, Caps DEF FollowInv, TurnInv, Parts, Claimed, Turns
<1>3. /\ log[n] = <<>> /\ client[n] = Nobody
      /\ \A t \in Turns : t < n => Ends(log[t])
  <2>1. n > turn /\ \A t \in Turns : t < n => ~(t > turn)
    BY <1>2 DEF Turns
  <2>. QED
    BY <1>2, <2>1 DEF FollowInv, Logged
<1>4. /\ client'[n] = [Nobody EXCEPT !.here = TRUE]
      /\ \A t \in Turns \ {n} : client'[t] = client[t]
  BY <1>1, <1>2, <1>3
<1>5. \A t \in Turns : /\ t > n => t > turn
                       /\ ~(t > n) /\ t # n => t < n /\ t <= turn /\ ~(t > turn)
  BY <1>2 DEF Turns
<1>6. Logged'
  BY <1>1, <1>2, <1>3, <1>4, <1>5 DEF FollowInv, Logged, Ends
<1>7. PostersHear'
  <2>. SUFFICES ASSUME NEW t \in Turns, t <= n, client'[t].here
                PROVE  /\ ~Ends(client'[t].heard)
                       /\ client'[t].heard \o (client'[t].box \o OnItsWay(t)') = log[t]
    BY <1>1 DEF PostersHear
  <2>1. OnItsWay(t)' = <<>> /\ OnItsWay(t) = <<>>
    BY <1>1, <1>2 DEF OnItsWay
  <2>2. CASE t = n
    <3>1. client'[t].heard = <<>> /\ client'[t].box = <<>>
      BY <1>4, <2>2 DEF Nobody
    <3>2. <<>> \o (<<>> \o <<>>) = <<>>
      BY ConcatEmptySeq, EmptySeq
    <3>. QED
      BY <1>3, <2>1, <2>2, <3>1, <3>2 DEF Ends
  <2>3. CASE t # n
    <3>1. t <= turn
      BY <1>2, <2>3 DEF Turns
    <3>. QED
      BY <1>4, <2>1, <2>3, <3>1 DEF FollowInv, PostersHear
  <2>. QED
    BY <2>2, <2>3
<1>8. StreamsHear'
  <2>. SUFFICES ASSUME NEW w \in Watchers, watch[w].state = "following"
                PROVE  StreamHears(watch[w])'
    BY <1>1 DEF StreamsHear
  <2>1. StreamHears(watch[w])
    BY DEF FollowInv, StreamsHear
  <2>2. watch[w].turn <= n /\ watch[w].turn # n
    BY <1>2, <2>1 DEF StreamHears, Turns
  <2>. QED
    BY <1>1, <2>1, <2>2 DEF StreamHears
<1>9. Following!Join(n, n)
  <2>1. SeatsStand /\ SeatsStand'
    BY SeatsAre, SeatsAreNext DEF FollowInv
  <2>2. n > turn /\ ~(n > n)
    BY <1>2
  <2>3. Seats[n].state # "following"
    BY <1>2, <2>1, <2>2 DEF SeatsStand, PosterSeat, Following!Seat
  <2>4. Seats'[n] = Following!Seat(n, <<>>, "following")
    BY <1>1, <1>2, <1>4, <2>1, <2>2 DEF SeatsStand, PosterSeat, Nobody, Ends
  <2>5. \A t \in Turns \ {n} : PosterSeat(t)' = PosterSeat(t)
    BY <1>1, <1>4, <1>5 DEF PosterSeat
  <2>6. \A w \in Watchers : WatcherSeat(w)' = WatcherSeat(w)
    BY <1>1 DEF WatcherSeat
  <2>7. Seats' = [Seats EXCEPT ![n] = Following!Seat(n, <<>>, "following")]
    BY <1>2, <2>4, <2>5, <2>6, SeatTaken DEF FollowInv
  <2>. QED
    BY <1>1, <2>3, <2>7 DEF Following!Join
<1>10. Following!Next
  BY <1>2, <1>9 DEF Following!Next
<1>. QED
  BY <1>6, <1>7, <1>8, <1>10 DEF Follows, FollowInv

LEMMA EventsLater ==
    \A h, r \in Seq(Events), e \in Events :
        /\ h \o Append(r, e) = Append(h \o r, e)
        /\ h \o r \in Seq(Events) /\ Append(r, e) \in Seq(Events)
  BY AddedLater, ConcatProperties, AppendProperties

LEMMA EventsHeard ==
    \A h, r \in Seq(Events) : r # <<>> =>
        /\ Head(r) \in Events /\ Append(h, Head(r)) \in Seq(Events)
        /\ Append(h, Head(r)) \o Tail(r) = h \o r
        /\ Len(h) < Len(h \o r) /\ (h \o r)[Len(h) + 1] = Head(r)
<1>. SUFFICES ASSUME NEW h \in Seq(Events), NEW r \in Seq(Events), r # <<>>
              PROVE  /\ Head(r) \in Events /\ Append(h, Head(r)) \in Seq(Events)
                     /\ Append(h, Head(r)) \o Tail(r) = h \o r
                     /\ Len(h) < Len(h \o r) /\ (h \o r)[Len(h) + 1] = Head(r)
  OBVIOUS
<1>. QED
  BY HeardOneMore

LEMMA EndsWith ==
    ASSUME NEW h \in Seq(Events), NEW e \in Events
    PROVE  Ends(Append(h, e)) <=> e = Done
  BY AppendProperties DEF Ends

\* An event more of the turn is one more that is to come, for a stream of that turn;
\* for one of another turn it is one to come after those.
LEMMA StreamGrows ==
    ASSUME FollowInv, NEW e \in Events, Publish(e), active, NEW w \in Watchers,
           watch[w].state = "following"
    PROVE  StreamHears(watch[w])'
<1>. DEFINE s == watch[w]
            z == watch'[w]
<1>1. /\ UNCHANGED turn /\ z = Received(s, e)
      /\ log'[turn] = Append(log[turn], e)
      /\ \A t \in Turns \ {turn} : log'[t] = log[t]
  BY Published DEF FollowInv
<1>2. StreamHears(s)
  BY DEF FollowInv, StreamsHear
<1>3. PICK rest \in Seq(Events), extra \in Seq(Events) :
        /\ s.heard \o (s.replay \o rest) = log[s.turn]
        /\ s.lagged \/ s.live = rest \o extra
        /\ s.turn = turn => extra = <<>>
  BY <1>2 DEF StreamHears
<1>4. s \in Streams /\ Len(s.live) <= LiveCap /\ s.heard \in Seq(Events)
      /\ s.replay \in Seq(Events) /\ s.live \in Seq(Events) /\ s.lagged \in BOOLEAN
  BY StreamParts DEF FollowInv, TurnInv, Bounded
<1>5. /\ z.turn = s.turn /\ z.heard = s.heard /\ z.replay = s.replay
      /\ z.lagged \/ (~s.lagged /\ z.live = Append(s.live, e))
  <2>1. /\ z \in Streams /\ z.turn = s.turn /\ z.heard = s.heard /\ z.replay = s.replay
        /\ z.lagged = TRUE \/ (s.lagged = FALSE /\ z.live = Append(s.live, e))
    BY <1>1, StreamReceives, Zenon DEF FollowInv
  <2>2. z.lagged \in BOOLEAN
    BY <2>1 DEF Streams
  <2>. QED
    BY <2>1, <2>2
<1>6. CASE s.turn = turn
  <2>1. /\ s.replay \o rest \in Seq(Events) /\ Append(rest, e) \in Seq(Events)
    BY <1>4, ConcatProperties, AppendProperties
  <2>2. z.heard \o (z.replay \o Append(rest, e)) = log'[z.turn]
    <3>1. s.replay \o Append(rest, e) = Append(s.replay \o rest, e)
      BY <1>4, EventsLater
    <3>2. s.heard \o Append(s.replay \o rest, e) = Append(s.heard \o (s.replay \o rest), e)
      BY <1>4, <2>1, EventsLater
    <3>. QED
      BY <1>1, <1>3, <1>5, <1>6, <3>1, <3>2
  <2>3. z.lagged \/ z.live = Append(rest, e) \o <<>>
    <3>1. rest \o <<>> = rest /\ Append(rest, e) \o <<>> = Append(rest, e)
      BY <2>1, ConcatEmptySeq
    <3>. QED
      BY <1>3, <1>5, <1>6, <3>1
  <2>4. <<>> \in Seq(Events)
    OBVIOUS
  <2>. QED
    BY <1>1, <1>2, <1>5, <2>1, <2>2, <2>3, <2>4 DEF StreamHears
<1>7. CASE s.turn # turn
  <2>1. Append(extra, e) \in Seq(Events)
    BY AppendProperties
  <2>2. z.heard \o (z.replay \o rest) = log'[z.turn]
    BY <1>1, <1>2, <1>3, <1>5, <1>7 DEF StreamHears
  <2>3. z.lagged \/ z.live = rest \o Append(extra, e)
    <3>1. rest \o Append(extra, e) = Append(rest \o extra, e)
      BY EventsLater
    <3>2. CASE s.live = rest \o extra
      BY <1>5, <3>1, <3>2
    <3>3. CASE s.lagged
      BY <1>5, <3>3
    <3>. QED
      BY <1>3, <3>2, <3>3
  <2>. QED
    BY <1>1, <1>2, <1>5, <1>7, <2>1, <2>2, <2>3 DEF StreamHears
<1>. QED
  BY <1>6, <1>7

LEMMA TaskFollows ==
    ASSUME FollowInv, TurnInv', Pass \/ PassError \/ PassDone PROVE Follows
<1>1. PICK e \in Events : Publish(e) /\ (e = Done <=> engine' = "done")
  BY TaskPublishes DEF FollowInv
<1>2. /\ active /\ held = <<>> /\ engine \in {"running", "failed", "ok"}
      /\ engine' \in {"running", "failed", "ok", "done"}
  BY TaskPublishes DEF FollowInv
<1>3. /\ UNCHANGED <<turn, active, client>> /\ journal' = Append(journal, e)
      /\ held' = <<e>> /\ log'[turn] = Append(log[turn], e)
      /\ \A t \in Turns \ {turn} : log'[t] = log[t]
      /\ \A w \in Watchers : watch'[w] = Received(watch[w], e)
  BY <1>1, <1>2, Published DEF FollowInv
<1>4. turn \in Turns /\ turn \in Nat /\ log[turn] \in Seq(Events)
      /\ log \in [Turns -> Seq(Events)]
  <2>1. turn \in Turns /\ log \in [Turns -> Seq(Events)]
    BY <1>2 DEF FollowInv, TurnInv, Parts, Claimed
  <2>. QED
    BY <2>1, Caps DEF Turns
<1>5. ~(turn > turn) /\ ~Ends(log[turn]) /\ journal = log[turn]
  BY <1>2, <1>4 DEF FollowInv, Logged
<1>6. Ends(log'[turn]) <=> e = Done
  BY <1>3, <1>4, AppendProperties DEF Ends
<1>7. Logged'
  <2>1. \A t \in Turns \ {turn} : Ends(log'[t]) <=> Ends(log[t])
    BY <1>3 DEF Ends
  <2>2. engine' \in {"running", "failed", "ok"} <=> e # Done
    BY <1>1, <1>2
  <2>. QED
    BY <1>3, <1>4, <1>5, <1>6, <2>1, <2>2 DEF FollowInv, Logged
<1>8. PostersHear'
  <2>. SUFFICES ASSUME NEW t \in Turns, t <= turn, client[t].here
                PROVE  /\ ~Ends(client[t].heard)
                       /\ client[t].heard \o (client[t].box \o OnItsWay(t)') = log'[t]
    BY <1>3 DEF PostersHear
  <2>1. /\ ~Ends(client[t].heard)
        /\ client[t].heard \o (client[t].box \o OnItsWay(t)) = log[t]
    BY DEF FollowInv, PostersHear
  <2>2. CASE t # turn
    BY <1>3, <2>1, <2>2 DEF OnItsWay
  <2>3. CASE t = turn
    <3>1. client[t].box \in Seq(Events) /\ client[t].heard \in Seq(Events)
      BY PosterParts DEF FollowInv, TurnInv
    <3>2. client[t].box \o <<>> = client[t].box
          /\ client[t].box \o <<e>> = Append(client[t].box, e)
      BY <3>1, ConcatEmptySeq, AppendIsConcat
    <3>3. client[t].heard \o Append(client[t].box, e)
            = Append(client[t].heard \o client[t].box, e)
      BY <3>1, EventsLater
    <3>. QED
      BY <1>2, <1>3, <2>1, <2>3, <3>2, <3>3 DEF OnItsWay
  <2>. QED
    BY <2>2, <2>3
<1>9. ASSUME NEW w \in Watchers
      PROVE  watch'[w].state = watch[w].state /\ watch'[w].turn = watch[w].turn
             /\ watch'[w].heard = watch[w].heard
  BY <1>3, StreamReceives DEF FollowInv
<1>10. StreamsHear'
  BY <1>1, <1>2, <1>9, StreamGrows DEF StreamsHear
<1>11. Seats' = Seats
  BY <1>3, <1>9, SeatsKept DEF FollowInv, WatcherSeat, PosterSeat
<1>12. Following!Publish(turn, e)
  <2>1. log' = [log EXCEPT ![turn] = Append(@, e)]
    BY <1>1 DEF Publish
  <2>. QED
    BY <1>5, <1>11, <2>1 DEF Following!Publish, Following!Over, Ends
<1>13. Following!Next
  BY <1>4, <1>12 DEF Following!Next
<1>. QED
  BY <1>7, <1>8, <1>10, <1>13 DEF Follows, FollowInv

\* The posting client of turn t is in another state, c.
LEMMA PosterMoves ==
    ASSUME FollowInv, TurnInv', NEW t \in Turns, NEW c \in Posters, t <= turn,
           client' = [client EXCEPT ![t] = c],
           UNCHANGED <<turn, active, journal, engine, watch, log>>,
           \A u \in Turns \ {t} : OnItsWay(u)' = OnItsWay(u),
           c.here => ~Ends(c.heard) /\ c.heard \o (c.box \o OnItsWay(t)') = log[t]
    PROVE  /\ FollowInv' /\ PosterSeat(t) = Seats[t]
           /\ Seats' = [Seats EXCEPT ![t] = PosterSeat(t)']
<1>1. client'[t] = c /\ \A u \in Turns \ {t} : client'[u] = client[u]
  BY DEF FollowInv, TurnInv, Parts
<1>2. t \in Nat /\ turn \in Nat /\ ~(t > turn)
  BY DEF FollowInv, TurnInv, Parts, Turns
<1>3. Logged' /\ StreamsHear'
  BY <1>1, <1>2 DEF FollowInv, Logged, StreamsHear, StreamHears
<1>4. PostersHear'
  BY <1>1 DEF FollowInv, PostersHear
<1>5. SeatsStand /\ SeatsStand'
  BY SeatsAre, SeatsAreNext DEF FollowInv
<1>6. /\ \A u \in Turns \ {t} : PosterSeat(u)' = PosterSeat(u)
      /\ \A w \in Watchers : WatcherSeat(w)' = WatcherSeat(w)
  BY <1>1 DEF PosterSeat, WatcherSeat
<1>7. Seats'[t] = PosterSeat(t)' /\ Seats[t] = PosterSeat(t)
  BY <1>5 DEF SeatsStand
<1>8. Seats' = [Seats EXCEPT ![t] = PosterSeat(t)']
  BY <1>6, <1>7, SeatTaken DEF FollowInv
<1>. QED
  BY <1>3, <1>4, <1>7, <1>8 DEF FollowInv

LEMMA ToClientFollows == ASSUME FollowInv, ToClient PROVE Follows
<1>1. /\ held # <<>> /\ held' = <<>>
      /\ UNCHANGED <<turn, active, journal, engine, channel, watch, log>>
  BY DEF ToClient
<1>2. turn \in Turns /\ engine # "none" /\ turn <= turn
  <2>1. turn \in Turns /\ engine # "none"
    BY <1>1 DEF FollowInv, TurnInv, Claimed
  <2>. QED
    BY <2>1, Caps DEF Turns
<1>3. held \in Seq(Events) /\ Len(held) = 1
  <2>1. held \in Seq(Events) /\ Len(held) <= 1
    BY DEF FollowInv, TurnInv, Parts, Bounded
  <2>2. Len(held) \in Nat \ {0}
    BY <1>1, <2>1, EmptySeq
  <2>3. \A n \in Nat \ {0} : n <= 1 => n = 1
    OBVIOUS
  <2>. QED
    BY <2>1, <2>2, <2>3, Zenon
<1>. DEFINE e == Head(held)
            old == client[turn]
<1>4. e \in Events /\ held = <<e>>
  BY <1>3
<1>5. /\ old \in Posters /\ old.box \in Seq(Events) /\ old.heard \in Seq(Events)
      /\ old.here \in BOOLEAN /\ client \in [Turns -> Posters] /\ Len(old.box) <= ClientCap
      /\ Len(old.box) \in Nat
  BY <1>2, PosterParts, LenProperties DEF FollowInv, TurnInv, Parts, Bounded
<1>6. \A u \in Turns \ {turn} : OnItsWay(u)' = OnItsWay(u)
  BY <1>1 DEF OnItsWay
<1>7. CASE /\ old.here /\ Len(old.box) < ClientCap
           /\ client' = [client EXCEPT ![turn].box = Append(@, e)]
  <2>. DEFINE new == [old EXCEPT !.box = Append(@, e)]
  <2>1. client' = [client EXCEPT ![turn] = new]
    BY <1>5, <1>7
  <2>2. /\ Append(old.box, e) \in Seq(Events)
        /\ Len(Append(old.box, e)) = Len(old.box) + 1
        /\ Append(old.box, e) = old.box \o <<e>>
    BY <1>4, <1>5, AppendProperties, AppendIsConcat
  <2>3. /\ new \in Posters /\ new.here = old.here /\ new.heard = old.heard
        /\ new.box = Append(old.box, e) /\ Len(new.box) <= ClientCap
    <3>1. /\ new.here = old.here /\ new.heard = old.heard
          /\ new.box = Append(old.box, e) /\ new \in Posters
      BY <1>5, <2>2 DEF Posters
    <3>2. Len(old.box) + 1 <= ClientCap
      BY <1>5, <1>7, Caps
    <3>. QED
      BY <2>2, <3>1, <3>2
  <2>4. TurnInv'
    BY <1>1, <1>2, <2>1, <2>3, ClientChanges DEF FollowInv
  <2>5. /\ ~Ends(old.heard) /\ old.heard \o (old.box \o held) = log[turn]
    BY <1>2, <1>7 DEF FollowInv, PostersHear, OnItsWay
  <2>6. ~Ends(new.heard) /\ new.heard \o (new.box \o OnItsWay(turn)') = log[turn]
    <3>1. Append(old.box, e) \o <<>> = Append(old.box, e)
      BY <2>2, ConcatEmptySeq
    <3>. QED
      BY <1>1, <1>4, <2>2, <2>3, <2>5, <3>1 DEF OnItsWay
  <2>7. /\ FollowInv' /\ PosterSeat(turn) = Seats[turn]
        /\ Seats' = [Seats EXCEPT ![turn] = PosterSeat(turn)']
    BY <1>1, <1>2, <1>6, <2>1, <2>3, <2>4, <2>6, PosterMoves
  <2>8. PosterSeat(turn)' = PosterSeat(turn)
    BY <1>1, <1>2, <1>5, <2>1, <2>3 DEF PosterSeat
  <2>9. SeatsStand
    BY SeatsAre DEF FollowInv
  <2>10. Seats' = Seats
    BY <2>7, <2>8, <2>9 DEF SeatsStand
  <2>. QED
    BY <1>1, <2>7, <2>10 DEF Follows, Following!vars
<1>8. CASE ~old.here /\ UNCHANGED client
  <2>1. TurnInv'
    <3>1. client' = [client EXCEPT ![turn] = old]
      BY <1>5, <1>8
    <3>. QED
      BY <1>1, <1>2, <1>5, <3>1, ClientChanges DEF FollowInv
  <2>2. Logged' /\ StreamsHear'
    BY <1>1, <1>8 DEF FollowInv, Logged, StreamsHear, StreamHears
  <2>3. PostersHear'
    BY <1>1, <1>6, <1>8 DEF FollowInv, PostersHear
  <2>4. Seats' = Seats
    BY <1>1, <1>8, <2>1, SeatsKept DEF FollowInv, WatcherSeat, PosterSeat
  <2>. QED
    BY <1>1, <2>1, <2>2, <2>3, <2>4 DEF Follows, FollowInv, Following!vars
<1>. QED
  BY <1>7, <1>8 DEF ToClient, Skipped

LEMMA ClientReadsFollows ==
    ASSUME FollowInv, NEW t \in Turns, ClientReads(t) PROVE Follows
<1>. DEFINE old == client[t]
            e == Head(old.box)
            new == [here |-> e # Done, box |-> Tail(old.box), heard |-> Append(old.heard, e)]
            rest == old.box \o OnItsWay(t)
<1>1. /\ old.here /\ old.box # <<>>
      /\ UNCHANGED <<turn, active, journal, engine, channel, held, watch, log>>
  BY DEF ClientReads
<1>2. /\ old \in Posters /\ old.box \in Seq(Events) /\ old.heard \in Seq(Events)
      /\ client \in [Turns -> Posters] /\ Len(old.box) <= ClientCap
      /\ Len(old.box) \in Nat /\ held \in Seq(Events)
  BY PosterParts, LenProperties DEF FollowInv, TurnInv, Parts, Bounded
<1>3. t \in Nat /\ turn \in Nat /\ t <= turn
  <2>1. t \in Nat /\ turn \in Nat
    BY DEF FollowInv, TurnInv, Parts, Turns
  <2>2. ~(t > turn)
    BY <1>1 DEF FollowInv, Logged, Nobody
  <2>. QED
    BY <2>1, <2>2
<1>4. ~Ends(old.heard) /\ old.heard \o rest = log[t]
  BY <1>1, <1>3 DEF FollowInv, PostersHear
<1>5. OnItsWay(t) \in Seq(Events) /\ \A u \in Turns : OnItsWay(u)' = OnItsWay(u)
  BY <1>1, <1>2, EmptySeq DEF OnItsWay
<1>6. /\ rest \in Seq(Events) /\ rest # <<>> /\ Head(rest) = e
      /\ Tail(rest) = Tail(old.box) \o OnItsWay(t)
  BY <1>1, <1>2, <1>5, HeadOfMore
<1>7. /\ e \in Events /\ Append(old.heard, e) \in Seq(Events)
      /\ Append(old.heard, e) \o Tail(rest) = log[t]
      /\ Len(old.heard) < Len(log[t]) /\ log[t][Len(old.heard) + 1] = e
  <2>1. PICK h, r : h = old.heard /\ r = rest
    OBVIOUS
  <2>2. h \in Seq(Events) /\ r \in Seq(Events) /\ r # <<>> /\ Head(r) = e /\ h \o r = log[t]
    BY <1>2, <1>4, <1>6, <2>1
  <2>3. /\ Head(r) \in Events /\ Append(h, Head(r)) \in Seq(Events)
        /\ Append(h, Head(r)) \o Tail(r) = h \o r
        /\ Len(h) < Len(h \o r) /\ (h \o r)[Len(h) + 1] = Head(r)
    BY <2>2, HeardOneMore
  <2>. QED
    BY <2>1, <2>2, <2>3
<1>8. Tail(old.box) \in Seq(Events) /\ Len(Tail(old.box)) = Len(old.box) - 1
  BY <1>1, <1>2, HeadTailProperties
<1>9. new \in Posters /\ Len(new.box) <= ClientCap
  BY <1>2, <1>7, <1>8, Caps DEF Posters
<1>10. client' = [client EXCEPT ![t] = new]
  <2>1. client'[t] = new /\ client' \in [Turns -> Posters]
        /\ \A u \in Turns \ {t} : client'[u] = client[u]
    BY <1>2, <1>7, <1>8, <1>9 DEF ClientReads, Posters
  <2>. QED
    BY <1>2, <2>1
<1>11. TurnInv'
  BY <1>1, <1>9, <1>10, ClientChanges DEF FollowInv
<1>12. Ends(new.heard) <=> e = Done
  BY <1>2, <1>7, AppendProperties DEF Ends
<1>13. new.here => ~Ends(new.heard) /\ new.heard \o (new.box \o OnItsWay(t)') = log[t]
  BY <1>5, <1>6, <1>7, <1>12
<1>14. /\ FollowInv' /\ PosterSeat(t) = Seats[t]
       /\ Seats' = [Seats EXCEPT ![t] = PosterSeat(t)']
  BY <1>1, <1>3, <1>5, <1>9, <1>10, <1>11, <1>13, PosterMoves
<1>15. Seats[t] = Following!Seat(t, old.heard, "following")
  BY <1>1, <1>3, <1>4, <1>14 DEF PosterSeat
<1>16. PosterSeat(t)' = Following!Seat(t, Append(old.heard, e),
                           IF e = Done THEN "over" ELSE "following")
  <2>1. client'[t] = new
    BY <1>2, <1>10
  <2>2. client'[t].heard = Append(old.heard, e) /\ client'[t].here = (e # Done)
    <3>1. new.heard = Append(old.heard, e)
      OBVIOUS
    <3>2. new.here = (e # Done)
      OBVIOUS
    <3>. QED
      BY <2>1, <3>1, <3>2
  <2>3. turn' = turn /\ ~(t > turn)
    BY <1>1, <1>3
  <2>4. CASE e = Done
    BY <1>12, <2>2, <2>3, <2>4 DEF PosterSeat
  <2>5. CASE e # Done
    BY <1>12, <2>2, <2>3, <2>5 DEF PosterSeat
  <2>. QED
    BY <2>4, <2>5
<1>17. Following!Hear(t)
  <2>1. /\ Seats[t].turn = t /\ Seats[t].heard = old.heard
        /\ Seats[t].state = "following"
    BY <1>15 DEF Following!Seat
  <2>2. log[Seats[t].turn][Len(Seats[t].heard) + 1] = e
        /\ Len(Seats[t].heard) < Len(log[Seats[t].turn])
    BY <1>7, <2>1
  <2>3. Seats' = [Seats EXCEPT ![t] =
                    Following!Seat(t, Append(old.heard, e),
                      IF e = Done THEN "over" ELSE "following")]
    BY <1>14, <1>16
  <2>. QED
    BY <1>1, <2>1, <2>2, <2>3 DEF Following!Hear
<1>. QED
  BY <1>14, <1>17 DEF Follows, Following!Next

LEMMA ClientLeavesFollows ==
    ASSUME FollowInv, NEW t \in Turns, ClientLeaves(t) PROVE Follows
<1>. DEFINE old == client[t]
            new == [old EXCEPT !.here = FALSE, !.box = <<>>]
<1>1. /\ old.here
      /\ UNCHANGED <<turn, active, journal, engine, channel, held, watch, log>>
  BY DEF ClientLeaves
<1>2. old \in Posters /\ client \in [Turns -> Posters] /\ <<>> \in Seq(Events)
  BY PosterParts DEF FollowInv, TurnInv, Parts
<1>3. t \in Nat /\ turn \in Nat /\ t <= turn
  <2>1. t \in Nat /\ turn \in Nat
    BY DEF FollowInv, TurnInv, Parts, Turns
  <2>2. ~(t > turn)
    BY <1>1 DEF FollowInv, Logged, Nobody
  <2>. QED
    BY <2>1, <2>2
<1>4. /\ new \in Posters /\ new.here = FALSE /\ new.box = <<>> /\ new.heard = old.heard
  BY <1>2 DEF Posters
<1>5. Len(new.box) <= ClientCap
  BY <1>4, Caps
<1>6. client' = [client EXCEPT ![t] = new]
  BY <1>2 DEF ClientLeaves
<1>7. TurnInv'
  BY <1>1, <1>4, <1>5, <1>6, ClientChanges DEF FollowInv
<1>8. \A u \in Turns : OnItsWay(u)' = OnItsWay(u)
  BY <1>1 DEF OnItsWay
<1>9. /\ FollowInv' /\ PosterSeat(t) = Seats[t]
      /\ Seats' = [Seats EXCEPT ![t] = PosterSeat(t)']
  BY <1>1, <1>3, <1>4, <1>6, <1>7, <1>8, PosterMoves
<1>10. ~Ends(old.heard)
  BY <1>1, <1>3 DEF FollowInv, PostersHear
<1>11. Seats[t] = Following!Seat(t, old.heard, "following")
  BY <1>1, <1>3, <1>9, <1>10 DEF PosterSeat
<1>12. PosterSeat(t)' = Following!Seat(t, old.heard, "gone")
  <2>1. client'[t] = new
    BY <1>2, <1>6
  <2>. QED
    BY <1>1, <1>3, <1>4, <1>10, <2>1 DEF PosterSeat
<1>13. Following!Stop(t, "gone")
  <2>1. [Seats[t] EXCEPT !.state = "gone"] = PosterSeat(t)' /\ Seats[t].state = "following"
    BY <1>11, <1>12 DEF Following!Seat
  <2>2. Seats' = [Seats EXCEPT ![t] = [Seats[t] EXCEPT !.state = "gone"]]
    BY <1>9, <2>1
  <2>. QED
    BY <1>1, <2>1, <2>2 DEF Following!Stop
<1>. QED
  BY <1>9, <1>13 DEF Follows, Following!Next

\* The stream of follower w is in another state, s.
LEMMA StreamMoves ==
    ASSUME FollowInv, NEW w \in Watchers, NEW s \in Streams, Len(s.live) <= LiveCap,
           Watching(w, s), s.state = "following" => StreamHears(s)
    PROVE  /\ FollowInv' /\ log' = log /\ Seats[w] = WatcherSeat(w)
           /\ Seats' = [Seats EXCEPT ![w] = Following!Seat(s.turn, s.heard, s.state)]
<1>1. /\ watch' = [watch EXCEPT ![w] = s]
      /\ UNCHANGED <<turn, active, journal, engine, channel, held, client, log>>
  BY DEF Watching
<1>2. TurnInv'
  BY StreamChanges DEF FollowInv
<1>3. watch'[w] = s /\ \A v \in Watchers \ {w} : watch'[v] = watch[v]
  BY <1>1 DEF FollowInv, TurnInv, Parts
<1>4. Logged' /\ PostersHear'
  BY <1>1 DEF FollowInv, Logged, PostersHear, OnItsWay
<1>5. StreamsHear'
  <2>. SUFFICES ASSUME NEW v \in Watchers, watch'[v].state = "following"
                PROVE  StreamHears(watch[v])'
    BY DEF StreamsHear
  <2>1. CASE v = w
    <3>1. watch'[v] = s /\ StreamHears(s)
      BY <1>3, <2>1
    <3>. QED
      BY <1>1, <3>1 DEF StreamHears
  <2>2. CASE v # w
    <3>1. watch'[v] = watch[v]
      BY <1>3, <2>2
    <3>2. StreamHears(watch[v])
      BY <3>1 DEF FollowInv, StreamsHear
    <3>. QED
      BY <1>1, <3>1, <3>2 DEF StreamHears
  <2>. QED
    BY <2>1, <2>2
<1>6. SeatsStand /\ SeatsStand'
  BY <1>2, SeatsAre, SeatsAreNext DEF FollowInv
<1>7. /\ \A t \in Turns : PosterSeat(t)' = PosterSeat(t)
      /\ \A v \in Watchers \ {w} : WatcherSeat(v)' = WatcherSeat(v)
  BY <1>1, <1>3 DEF PosterSeat, WatcherSeat
<1>8. Seats'[w] = Following!Seat(s.turn, s.heard, s.state) /\ Seats[w] = WatcherSeat(w)
  BY <1>3, <1>6 DEF SeatsStand, WatcherSeat
<1>9. Seats' = [Seats EXCEPT ![w] = Following!Seat(s.turn, s.heard, s.state)]
  BY <1>2, <1>7, <1>8, SeatTaken DEF FollowInv
<1>. QED
  BY <1>1, <1>2, <1>4, <1>5, <1>8, <1>9 DEF FollowInv

\* The journal is the turn so far, and nothing is in the stream's own channel yet.
LEMMA SubscribeFollows ==
    ASSUME FollowInv, NEW w \in Watchers, SubscribeTurn(w) PROVE Follows
<1>. DEFINE s == [Off EXCEPT !.turn = turn, !.state = "following", !.replay = journal]
<1>1. active /\ watch[w].state # "following" /\ Watching(w, s)
  BY DEF SubscribeTurn
<1>2. /\ turn \in Turns /\ journal = log[turn] /\ journal \in Seq(Events)
      /\ <<>> \in Seq(Events) /\ turn \in Nat
  BY <1>1 DEF FollowInv, TurnInv, Parts, Claimed, Logged, Turns
<1>3. /\ s \in Streams /\ s.turn = turn /\ s.state = "following" /\ s.replay = journal
      /\ s.live = <<>> /\ s.heard = <<>>
  BY <1>2 DEF Off, Streams
<1>4. Len(s.live) <= LiveCap
  BY <1>3, Caps
<1>5. StreamHears(s)
  <2>1. <<>> \o (journal \o <<>>) = journal /\ <<>> = <<>> \o <<>>
    BY <1>2, ConcatEmptySeq
  <2>2. s.turn <= turn /\ ~Ends(s.heard)
    BY <1>2, <1>3 DEF Ends
  <2>. QED
    BY <1>2, <1>3, <2>1, <2>2 DEF StreamHears
<1>6. /\ FollowInv' /\ log' = log /\ Seats[w] = WatcherSeat(w)
      /\ Seats' = [Seats EXCEPT ![w] = Following!Seat(s.turn, s.heard, s.state)]
  BY <1>1, <1>3, <1>4, <1>5, StreamMoves
<1>7. Seats[w].state # "following"
  BY <1>1, <1>6 DEF WatcherSeat, Following!Seat
<1>8. Following!Join(w, turn)
  BY <1>3, <1>6, <1>7 DEF Following!Join
<1>. QED
  BY <1>2, <1>6, <1>8 DEF Follows, Following!Next

\* A follower hears the next event, e, of its turn, and its stream becomes z.
LEMMA HearsNext ==
    ASSUME FollowInv, NEW w \in Watchers, NEW e \in Events, NEW z \in Streams,
           watch[w].state = "following", Watching(w, z), Len(z.live) <= LiveCap,
           Len(watch[w].heard) < Len(log[watch[w].turn]),
           log[watch[w].turn][Len(watch[w].heard) + 1] = e,
           z.turn = watch[w].turn, z.heard = Append(watch[w].heard, e),
           z.state = (IF e = Done THEN "over" ELSE "following"),
           z.state = "following" => StreamHears(z)
    PROVE  Follows
<1>1. /\ FollowInv' /\ log' = log /\ Seats[w] = WatcherSeat(w)
      /\ Seats' = [Seats EXCEPT ![w] = Following!Seat(z.turn, z.heard, z.state)]
  BY StreamMoves
<1>2. /\ Seats[w].turn = watch[w].turn /\ Seats[w].heard = watch[w].heard
      /\ Seats[w].state = "following"
  BY <1>1 DEF WatcherSeat, Following!Seat
<1>3. log[Seats[w].turn][Len(Seats[w].heard) + 1] = e
      /\ Len(Seats[w].heard) < Len(log[Seats[w].turn])
  BY <1>2
<1>4. Seats' = [Seats EXCEPT ![w] =
                  Following!Seat(Seats[w].turn, Append(Seats[w].heard, e),
                    IF e = Done THEN "over" ELSE "following")]
  BY <1>1, <1>2
<1>5. Following!Hear(w)
  BY <1>1, <1>2, <1>3, <1>4 DEF Following!Hear
<1>. QED
  BY <1>1, <1>5 DEF Follows, Following!Next

\* They hear of it, or go.
LEMMA StopFollows ==
    ASSUME FollowInv, NEW w \in Watchers, FallBehind(w) \/ WatcherLeaves(w) PROVE Follows
<1>. DEFINE s == watch[w]
<1>1. PICK state \in {"lost", "gone"} :
        s.state = "following" /\ Watching(w, [s EXCEPT !.state = state])
  BY DEF FallBehind, WatcherLeaves
<1>. DEFINE z == [s EXCEPT !.state = state]
<1>2. s \in Streams /\ Len(s.live) <= LiveCap
  BY DEF FollowInv, TurnInv, Parts, Bounded
<1>3. /\ z \in Streams /\ z.state = state /\ z.turn = s.turn /\ z.heard = s.heard
      /\ z.live = s.live /\ state # "following"
  BY <1>2 DEF Streams
<1>4. /\ FollowInv' /\ log' = log /\ Seats[w] = WatcherSeat(w)
      /\ Seats' = [Seats EXCEPT ![w] = Following!Seat(z.turn, z.heard, z.state)]
  BY <1>1, <1>2, <1>3, StreamMoves
<1>5. Following!Stop(w, state)
  <2>1. /\ [Seats[w] EXCEPT !.state = state] = Following!Seat(z.turn, z.heard, z.state)
        /\ Seats[w].state = "following"
    BY <1>1, <1>3, <1>4 DEF WatcherSeat, Following!Seat
  <2>2. Seats' = [Seats EXCEPT ![w] = [Seats[w] EXCEPT !.state = state]]
    BY <1>4, <2>1
  <2>. QED
    BY <1>4, <2>1, <2>2 DEF Following!Stop
<1>. QED
  BY <1>4, <1>5 DEF Follows, Following!Next

LEMMA HearReplayFollows ==
    ASSUME FollowInv, NEW w \in Watchers, HearReplay(w) PROVE Follows
<1>. DEFINE s == watch[w]
            e == Head(s.replay)
            z == Heard([s EXCEPT !.replay = Tail(@)], e)
<1>1. s.state = "following" /\ s.replay # <<>> /\ Watching(w, z)
  BY DEF HearReplay
<1>2. /\ s \in Streams /\ s.heard \in Seq(Events) /\ s.replay \in Seq(Events)
      /\ Len(s.live) <= LiveCap
  BY StreamParts DEF FollowInv, TurnInv, Bounded
<1>3. PICK rest \in Seq(Events), extra \in Seq(Events) :
        /\ s.heard \o (s.replay \o rest) = log[s.turn]
        /\ s.lagged \/ s.live = rest \o extra
        /\ s.turn = turn => extra = <<>>
  BY <1>1 DEF FollowInv, StreamsHear, StreamHears
<1>4. s.turn \in Turns /\ s.turn <= turn
  BY <1>1 DEF FollowInv, StreamsHear, StreamHears
<1>5. /\ e \in Events /\ Tail(s.replay) \in Seq(Events)
      /\ Append(s.heard, e) \in Seq(Events)
      /\ Append(s.heard, e) \o (Tail(s.replay) \o rest) = log[s.turn]
      /\ Len(s.heard) < Len(log[s.turn]) /\ log[s.turn][Len(s.heard) + 1] = e
  <2>1. PICK h, b : h = s.heard /\ b = s.replay
    OBVIOUS
  <2>2. /\ h \in Seq(Events) /\ b \in Seq(Events) /\ b # <<>> /\ Head(b) = e
        /\ h \o (b \o rest) = log[s.turn]
    BY <1>1, <1>2, <1>3, <2>1
  <2>3. PICK r : r = b \o rest
    OBVIOUS
  <2>4. r \in Seq(Events) /\ r # <<>> /\ Head(r) = Head(b) /\ Tail(r) = Tail(b) \o rest
    BY <2>2, <2>3, HeadOfMore
  <2>5. /\ Head(r) \in Events /\ Append(h, Head(r)) \in Seq(Events)
        /\ Append(h, Head(r)) \o Tail(r) = h \o r
        /\ Len(h) < Len(h \o r) /\ (h \o r)[Len(h) + 1] = Head(r)
    BY <2>2, <2>4, EventsHeard
  <2>6. Tail(b) \in Seq(Events)
    BY <2>2, HeadTailProperties
  <2>. QED
    BY <2>1, <2>2, <2>3, <2>4, <2>5, <2>6
<1>6. /\ z \in Streams /\ z.turn = s.turn /\ z.heard = Append(s.heard, e)
      /\ z.replay = Tail(s.replay) /\ z.live = s.live /\ z.lagged = s.lagged
      /\ z.state = (IF e = Done THEN "over" ELSE "following")
  BY <1>2, <1>5 DEF Heard, Streams
<1>7. Ends(z.heard) <=> e = Done
  BY <1>2, <1>5, <1>6, EndsWith
<1>8. z.state = "following" => StreamHears(z)
  <2>1. z.heard \o (z.replay \o rest) = log[z.turn]
    BY <1>5, <1>6
  <2>2. z.lagged \/ z.live = rest \o extra
    BY <1>3, <1>6
  <2>. QED
    BY <1>3, <1>4, <1>6, <1>7, <2>1, <2>2 DEF StreamHears
<1>9. Len(z.live) <= LiveCap
  BY <1>2, <1>6
<1>. QED
  BY <1>1, <1>5, <1>6, <1>8, <1>9, HearsNext

\* What is first in the channel is the turn's next event: were there none to come,
\* all of it would have been heard, its end too, or the channel would be empty.
LEMMA HearLiveFollows ==
    ASSUME FollowInv, NEW w \in Watchers, HearLive(w) PROVE Follows
<1>. DEFINE s == watch[w]
            e == Head(s.live)
            z == Heard([s EXCEPT !.live = Tail(@)], e)
<1>1. /\ s.state = "following" /\ s.replay = <<>> /\ ~s.lagged /\ s.live # <<>>
      /\ Watching(w, z)
  BY DEF HearLive
<1>2. /\ s \in Streams /\ s.heard \in Seq(Events) /\ s.live \in Seq(Events)
      /\ Len(s.live) <= LiveCap
  BY StreamParts DEF FollowInv, TurnInv, Bounded
<1>3. s.turn \in Turns /\ s.turn <= turn /\ ~Ends(s.heard)
  BY <1>1 DEF FollowInv, StreamsHear, StreamHears
<1>4. PICK rest \in Seq(Events), extra \in Seq(Events) :
        /\ s.heard \o (s.replay \o rest) = log[s.turn]
        /\ s.live = rest \o extra
        /\ s.turn = turn => extra = <<>>
  BY <1>1 DEF FollowInv, StreamsHear, StreamHears
<1>5. s.heard \o rest = log[s.turn]
  BY <1>1, <1>4, ConcatEmptySeq
<1>6. rest # <<>>
  <2>. SUFFICES ASSUME rest = <<>> PROVE FALSE
    OBVIOUS
  <2>1. log[s.turn] = s.heard /\ s.live = extra
    BY <1>2, <1>4, <1>5, ConcatEmptySeq
  <2>2. s.turn # turn
    BY <1>1, <1>4, <2>1
  <2>3. s.turn \in Nat /\ turn \in Nat
    BY <1>3 DEF FollowInv, TurnInv, Parts, Turns
  <2>4. ~(s.turn > turn)
    BY <1>3, <2>3
  <2>5. Ends(log[s.turn])
    BY <1>3, <2>2, <2>4 DEF FollowInv, Logged
  <2>. QED
    BY <1>3, <2>1, <2>5
<1>7. /\ e = Head(rest) /\ Tail(s.live) = Tail(rest) \o extra
      /\ Tail(s.live) \in Seq(Events) /\ Tail(rest) \in Seq(Events)
      /\ Len(Tail(s.live)) = Len(s.live) - 1 /\ Len(s.live) \in Nat
  BY <1>1, <1>2, <1>4, <1>6, HeadOfMore, HeadTailProperties, LenProperties
<1>8. /\ e \in Events /\ Append(s.heard, e) \in Seq(Events)
      /\ Append(s.heard, e) \o Tail(rest) = log[s.turn]
      /\ Len(s.heard) < Len(log[s.turn]) /\ log[s.turn][Len(s.heard) + 1] = e
  <2>1. PICK h : h = s.heard
    OBVIOUS
  <2>2. h \in Seq(Events) /\ h \o rest = log[s.turn]
    BY <1>2, <1>5, <2>1
  <2>3. /\ Head(rest) \in Events /\ Append(h, Head(rest)) \in Seq(Events)
        /\ Append(h, Head(rest)) \o Tail(rest) = h \o rest
        /\ Len(h) < Len(h \o rest) /\ (h \o rest)[Len(h) + 1] = Head(rest)
    BY <1>6, <2>2, EventsHeard
  <2>. QED
    BY <1>7, <2>1, <2>2, <2>3
<1>9. /\ z \in Streams /\ z.turn = s.turn /\ z.heard = Append(s.heard, e)
      /\ z.replay = <<>> /\ z.live = Tail(s.live) /\ z.lagged = s.lagged
      /\ z.state = (IF e = Done THEN "over" ELSE "following")
  BY <1>1, <1>2, <1>7, <1>8 DEF Heard, Streams
<1>10. Ends(z.heard) <=> e = Done
  BY <1>2, <1>8, <1>9, EndsWith
<1>11. z.state = "following" => StreamHears(z)
  <2>1. <<>> \o Tail(rest) = Tail(rest)
    BY <1>7, ConcatEmptySeq
  <2>2. z.heard \o (z.replay \o Tail(rest)) = log[z.turn]
    BY <1>8, <1>9, <2>1
  <2>3. z.live = Tail(rest) \o extra
    BY <1>7, <1>9
  <2>. QED
    BY <1>3, <1>4, <1>7, <1>9, <1>10, <2>2, <2>3 DEF StreamHears
<1>12. Len(z.live) <= LiveCap
  <2>1. \A n \in Nat : n <= LiveCap => n - 1 <= LiveCap
    BY Caps
  <2>. QED
    BY <1>2, <1>7, <1>9, <2>1
<1>. QED
  BY <1>1, <1>8, <1>9, <1>11, <1>12, HearsNext

-----------------------------------------------------------------------------

LEMMA FinishTurnInv == ASSUME TurnInv, FinishTurn PROVE TurnInv'
<1>1. /\ engine = "done" /\ held = <<>> /\ active' = FALSE /\ journal' = <<>>
      /\ engine' = "none" /\ UNCHANGED <<turn, channel, held, client, watch, log>>
  BY DEF FinishTurn
<1>2. <<>> \in Seq(Events)
  OBVIOUS
<1>3. active' \in BOOLEAN
  BY <1>1, Zenon
<1>4. Parts'
  BY <1>1, <1>2, <1>3 DEF TurnInv, Parts
<1>5. Bounded'
  BY <1>1 DEF TurnInv, Bounded
<1>6. Claimed'
  BY <1>1 DEF TurnInv, Claimed
<1>. QED
  BY <1>4, <1>5, <1>6 DEF TurnInv

LEMMA FollowStep ==
    ASSUME FollowInv, [Next]_vars PROVE Follows
<1>. TurnInv
  BY DEF FollowInv
<1>1. CASE UNCHANGED vars
  <2>1. TurnInv'
    BY <1>1 DEF vars, TurnInv, Parts, Bounded, Claimed
  <2>. QED
    BY <1>1, <2>1, EngineFollows DEF vars
<1>2. CASE BeginTurn
  BY <1>2, BeginTurnInv, BeginTurnFollows
<1>3. CASE Emit
  BY <1>3, EmitInv, EngineFollows DEF Emit
<1>4. CASE Return
  BY <1>4, ReturnInv, EngineFollows DEF Return
<1>5. CASE Task
  <2>1. CASE Pass \/ PassError \/ PassDone
    BY <2>1, TaskInv, TaskFollows
  <2>2. CASE ToClient
    BY <2>2, ToClientFollows
  <2>3. CASE FinishTurn
    BY <2>3, FinishTurnInv, EngineFollows DEF FinishTurn
  <2>. QED
    BY <1>5, <2>1, <2>2, <2>3 DEF Task
<1>6. ASSUME NEW t \in Turns, ClientReads(t) \/ ClientLeaves(t)
      PROVE  Follows
  BY <1>6, ClientReadsFollows, ClientLeavesFollows
<1>7. ASSUME NEW w \in Watchers, SubscribeTurn(w) \/ Follow(w) \/ WatcherLeaves(w)
      PROVE  Follows
  BY <1>7, SubscribeFollows, HearReplayFollows, HearLiveFollows, StopFollows DEF Follow
<1>. QED
  BY <1>1, <1>2, <1>3, <1>4, <1>5, <1>6, <1>7 DEF Next

LEMMA SeatsAtFirst == Init => Following!Init
<1>. SUFFICES ASSUME Init PROVE Following!Init
  OBVIOUS
<1>1. /\ turn = 0 /\ log = [t \in Turns |-> <<>>]
      /\ client = [t \in Turns |-> Nobody] /\ watch = [w \in Watchers |-> Off]
  BY DEF Init
<1>2. SeatsStand
  BY TurnInit, SeatsAre
<1>3. \A w \in Watchers : Seats[w] = Following!Seat(0, <<>>, "off")
  BY <1>1, <1>2 DEF SeatsStand, WatcherSeat, Off
<1>4. \A t \in Turns : Seats[t] = Following!Seat(0, <<>>, "off")
  <2>1. \A t \in Turns : t > 0
    BY DEF Turns
  <2>. QED
    BY <1>1, <1>2, <2>1 DEF SeatsStand, PosterSeat, Nobody
<1>5. Seats = [f \in Watchers \cup Turns |-> Following!Seat(0, <<>>, "off")]
  BY <1>2, <1>3, <1>4 DEF SeatsStand
<1>. QED
  BY <1>1, <1>5 DEF Following!Init

\* The types of a turn's delivery, with every channel within its capacity.
THEOREM TurnTypes == Spec => []TypeOK
<1>1. FollowInv => TypeOK
  BY TypesAreParts DEF FollowInv, TurnInv
<1>2. FollowInv /\ [Next]_vars => FollowInv'
  BY FollowStep DEF Follows
<1>. QED
  BY <1>1, <1>2, FollowInit, PTL DEF Spec

\* Whoever follows a turn (the client that posted it and every GET /events, joined at
\* any moment) hears it from its first event, each once and in order, until Done, or is
\* told that it lost its place: publish_turn_event and stream_active_turn implement
\* TurnFollowing, for any number of surfaces and any capacities.
THEOREM FollowersHearItAll == Spec => HearsItAll
<1>1. FollowInv /\ [Next]_vars => FollowInv' /\ [Following!Next]_(Following!vars)
  BY FollowStep DEF Follows
<1>. QED
  BY <1>1, FollowInit, SeatsAtFirst, PTL DEF Spec, HearsItAll, Following!Spec

\* The two daemons together: neither disturbs the other, so what each keeps is kept.
THEOREM DeliveryKept == DeliverySpec => []DeliveryInv
<1>. DEFINE Both == OrderInv /\ FollowInv
<1>1. DeliveryInit => Both
  BY OrderInit, FollowInit DEF DeliveryInit
<1>2. Both /\ [DeliveryNext]_all => Both'
  <2>. SUFFICES ASSUME Both, [DeliveryNext]_all PROVE Both'
    OBVIOUS
  <2>1. [FanNext]_fanVars /\ [Next]_vars
    BY DEF DeliveryNext, InSessiond, InServer, all
  <2>. QED
    BY <2>1, OrderStep, FollowStep DEF Follows
<1>3. Both => DeliveryInv
  BY OrderGivesTypes, PlaceGivesHeldOnce, TypesAreParts
  DEF OrderInv, FollowInv, TurnInv, DeliveryInv
<1>. QED
  BY <1>1, <1>2, <1>3, PTL DEF DeliverySpec
=============================================================================
