-------------------------- MODULE EventFanOutProofs --------------------------
(***************************************************************************)
(* A subscriber's socket is never in two places, and it hears new entries  *)
(* only, each once and in order, for any number of connections and entries.*)
(*                                                                         *)
(* The first part is about places: a socket is in the list, or with one    *)
(* thread, which either has still to write to it or has written; it is     *)
(* lost only when its peer is gone.  What is to be known besides is where  *)
(* sockets may be at all: a thread holds some only between its two         *)
(* sections, and a connection that has not subscribed is nowhere.          *)
(*                                                                         *)
(* The second is about the cursor.  Nobody has heard anything past it, and *)
(* what was over when a connection subscribed is behind it too; a batch is *)
(* what lies between two places of it.  So what a thread is about to write *)
(* is later than all that the sockets in its hands have had, whatever the  *)
(* other threads push meanwhile: they have other sockets.                  *)
(*                                                                         *)
(* The third is about the label: an intent is declared only while the      *)
(* request that declared it is being handled.                              *)
(***************************************************************************)
EXTENDS EventFanOut, FiniteSetTheorems, SequenceTheorems, TLAPS

With(c, t) == c \in hand[t] \cup kept[t]

Holding(c) == {t \in Threads : With(c, t)}

Records == [by : Threads \cup {"boot"}, intent : Conns \cup {None}]

Positions == {"rest", "marked", "handled", "answer", "push", "writing"}

\* The trail, the sockets and who holds them, typed.
PlacesTyped ==
    /\ trail \in Seq(Records) /\ intent \in Conns \cup {None}
    /\ subscribers \subseteq Conns
    /\ pc \in [Threads -> Positions]
    /\ hand \in [Threads -> SUBSET Conns] /\ kept \in [Threads -> SUBSET Conns]
    /\ attach \in [Conns -> Int]

\* A socket is in one place, if any.
OnePlace ==
    \A c \in Conns :
        /\ \A t, u \in Threads : With(c, t) /\ With(c, u) => t = u
        /\ c \in subscribers => \A t \in Threads : ~With(c, t)
        /\ \A t \in Threads : c \notin hand[t] \cap kept[t]

\* Between its sections only, and only of those that have subscribed.
HeldWhileWriting ==
    /\ \A t \in Threads : pc[t] # "writing" => hand[t] = {} /\ kept[t] = {}
    /\ \A c \in Conns : attach[c] = -1 =>
         c \notin subscribers /\ \A t \in Threads : ~With(c, t)

NotForgotten ==
    \A c \in open \cap Conns :
        attach[c] # -1 => c \in subscribers \/ \E t \in Threads : With(c, t)

PlaceInv == PlacesTyped /\ OnePlace /\ HeldWhileWriting /\ NotForgotten

LEMMA PlaceGivesHeldOnce == PlaceInv => HeldOnce
<1>. SUFFICES ASSUME PlaceInv, NEW c \in Conns
              PROVE  /\ Cardinality(Holding(c)) + (IF c \in subscribers THEN 1 ELSE 0) <= 1
                     /\ \A t \in Threads : c \notin hand[t] \cap kept[t]
                     /\ c \in open /\ attach[c] # -1
                          => c \in subscribers \/ Holding(c) # {}
  BY DEF HeldOnce, Holding, With
<1>1. CASE Holding(c) = {}
  BY <1>1, FS_EmptySet DEF PlaceInv, OnePlace, NotForgotten, Holding
<1>2. CASE Holding(c) # {}
  <2>1. PICK t \in Threads : With(c, t)
    BY <1>2 DEF Holding
  <2>2. Holding(c) = {t} /\ c \notin subscribers
    BY <2>1 DEF PlaceInv, OnePlace, Holding
  <2>3. Cardinality(Holding(c)) = 1
    BY <2>2, FS_Singleton
  <2>. QED
    BY <1>2, <2>2, <2>3 DEF PlaceInv, OnePlace
<1>. QED
  BY <1>1, <1>2

-----------------------------------------------------------------------------

LEMMA PlaceInit == FanInit => PlaceInv
<1>. SUFFICES ASSUME FanInit PROVE PlaceInv
  OBVIOUS
<1>1. [by |-> "boot", intent |-> None] \in Records
  BY DEF Records
<1>2. trail \in Seq(Records)
  BY <1>1 DEF FanInit
<1>. QED
  BY <1>2
  DEF FanInit, PlaceInv, PlacesTyped, Positions, OnePlace, HeldWhileWriting, NotForgotten,
      With

\* Steps that leave the list and the threads' hands alone.
LEMMA PlacesStay ==
    ASSUME PlaceInv, UNCHANGED <<subscribers, hand, kept, attach>>, open' \subseteq open,
           trail' \in Seq(Records), intent' \in Conns \cup {None},
           pc' \in [Threads -> Positions],
           \A t \in Threads : pc[t] = "writing" => pc'[t] = "writing"
    PROVE  PlaceInv'
<1>1. PlacesTyped' /\ OnePlace' /\ NotForgotten'
  BY DEF PlaceInv, PlacesTyped, OnePlace, NotForgotten, With
<1>2. HeldWhileWriting'
  BY DEF PlaceInv, HeldWhileWriting, With
<1>. QED
  BY <1>1, <1>2 DEF PlaceInv

\* A thread that is not writing holds nothing.
LEMMA GoesOn ==
    ASSUME PlaceInv, NEW t \in Threads, NEW a \in Positions \ {"writing"},
           NEW b \in Positions, Goes(t, a, b)
    PROVE  /\ pc' \in [Threads -> Positions]
           /\ \A u \in Threads : pc[u] = "writing" => pc'[u] = "writing"
           /\ hand[t] = {} /\ kept[t] = {}
  BY DEF PlaceInv, PlacesTyped, HeldWhileWriting, Goes

LEMMA TrailGrows ==
    ASSUME PlaceInv, NEW t \in Threads, Append1(t) \/ UNCHANGED trail
    PROVE  trail' \in Seq(Records)
<1>1. [by |-> t, intent |-> intent] \in Records /\ trail \in Seq(Records)
  BY DEF Records, PlaceInv, PlacesTyped
<1>. QED
  BY <1>1 DEF Append1

LEMMA RequestInv ==
    ASSUME PlaceInv, NEW c \in Conns,
           Mark(c) \/ Handle(c) \/ Unmark(c) \/ Answer(c) \/ Close(c)
    PROVE  PlaceInv'
<1>1. c \in Threads /\ trail \in Seq(Records) /\ intent \in Conns \cup {None}
      /\ pc \in [Threads -> Positions]
  BY DEF Threads, PlaceInv, PlacesTyped
<1>2. CASE Close(c)
  BY <1>1, <1>2, PlacesStay DEF Close, locked, writing
<1>3. CASE Mark(c) \/ Handle(c) \/ Unmark(c) \/ Answer(c)
  <2>1. UNCHANGED <<subscribers, hand, kept, attach, open>>
    BY <1>3 DEF Mark, Handle, Unmark, Answer, locked, writing
  <2>2. \E a \in Positions \ {"writing"}, b \in Positions : Goes(c, a, b)
    BY <1>3 DEF Mark, Handle, Unmark, Answer, Positions
  <2>3. trail' \in Seq(Records)
    BY <1>1, <1>3, TrailGrows DEF Mark, Handle, Unmark, Answer
  <2>4. intent' \in Conns \cup {None}
    BY <1>1, <1>3 DEF Mark, Handle, Unmark, Withdrawn, Answer
  <2>5. pc' \in [Threads -> Positions]
        /\ \A u \in Threads : pc[u] = "writing" => pc'[u] = "writing"
    BY <1>1, <2>2, GoesOn
  <2>. QED
    BY <2>1, <2>3, <2>4, <2>5, PlacesStay
<1>. QED
  BY <1>2, <1>3

LEMMA FanTickInv ==
    ASSUME PlaceInv, FanTick PROVE PlaceInv'
<1>1. "clock" \in Threads /\ {"rest", "push"} \subseteq Positions \ {"writing"}
  BY DEF Threads, Positions
<1>2. UNCHANGED <<subscribers, hand, kept, attach, open, intent>>
  BY DEF FanTick, locked, writing
<1>3. pc' \in [Threads -> Positions]
      /\ \A u \in Threads : pc[u] = "writing" => pc'[u] = "writing"
  BY <1>1, GoesOn DEF FanTick
<1>4. trail' \in Seq(Records) /\ intent' \in Conns \cup {None}
  BY <1>1, <1>2, TrailGrows DEF FanTick, PlaceInv, PlacesTyped
<1>. QED
  BY <1>2, <1>3, <1>4, PlacesStay

\* Whoever subscribes was nowhere before.
LEMMA SubscribeInv ==
    ASSUME PlaceInv, NEW c \in Conns, Subscribe(c) PROVE PlaceInv'
<1>1. c \in Threads /\ {"marked", "handled"} \subseteq Positions \ {"writing"}
  BY DEF Threads, Positions
<1>2. pc' \in [Threads -> Positions]
      /\ \A u \in Threads : pc[u] = "writing" => pc'[u] = "writing"
  BY <1>1, GoesOn DEF Subscribe
<1>3. NextSeq \in Nat
  <2>1. Len(trail) \in Nat
    BY DEF PlaceInv, PlacesTyped
  <2>. QED
    BY <2>1, FanOutConstants DEF NextSeq
<1>4. /\ UNCHANGED <<trail, intent, hand, kept, open>>
      /\ subscribers' = subscribers \cup {c} /\ attach' \in [Conns -> Int]
      /\ attach[c] = -1 /\ attach'[c] # -1 /\ \A d \in Conns \ {c} : attach'[d] = attach[d]
  BY <1>3 DEF Subscribe, writing, PlaceInv, PlacesTyped
<1>5. c \notin subscribers /\ \A t \in Threads : ~With(c, t)
  BY <1>4 DEF PlaceInv, HeldWhileWriting
<1>6. \A d \in Conns, t \in Threads : With(d, t)' <=> With(d, t)
  BY <1>4 DEF With
<1>7. PlacesTyped'
  BY <1>2, <1>4 DEF PlaceInv, PlacesTyped
<1>8. OnePlace'
  BY <1>4, <1>5, <1>6 DEF PlaceInv, OnePlace
<1>9. HeldWhileWriting'
  BY <1>2, <1>4, <1>6 DEF PlaceInv, HeldWhileWriting
<1>10. NotForgotten'
  BY <1>4, <1>6 DEF PlaceInv, NotForgotten
<1>. QED
  BY <1>7, <1>8, <1>9, <1>10 DEF PlaceInv

\* The list is taken out: what was in it is with the thread.
LEMMA BeginPushInv ==
    ASSUME PlaceInv, NEW t \in Threads, Push(t) PROVE PlaceInv'
<1>1. {"rest", "push", "writing"} \subseteq Positions
  BY DEF Positions
<1>2. UNCHANGED <<trail, intent, attach, open>>
  BY DEF Push
<1>3. CASE UNCHANGED <<subscribers, writing>> /\ Goes(t, "push", "rest")
  <2>1. pc' \in [Threads -> Positions]
        /\ \A u \in Threads : pc[u] = "writing" => pc'[u] = "writing"
    BY <1>1, <1>3, GoesOn
  <2>. QED
    BY <1>2, <1>3, <2>1, PlacesStay DEF writing, PlaceInv, PlacesTyped
<1>4. CASE /\ Goes(t, "push", "writing") /\ UNCHANGED kept
           /\ hand' = [hand EXCEPT ![t] = subscribers] /\ subscribers' = {}
  <2>1. pc' \in [Threads -> Positions] /\ hand[t] = {} /\ kept[t] = {}
        /\ pc'[t] = "writing" /\ \A u \in Threads \ {t} : pc'[u] = pc[u]
    BY <1>1, <1>4, GoesOn DEF Goes, PlaceInv, PlacesTyped
  <2>2. hand'[t] = subscribers /\ \A u \in Threads \ {t} : hand'[u] = hand[u]
    BY <1>4 DEF PlaceInv, PlacesTyped
  <2>3. PlacesTyped'
    BY <1>2, <1>4, <2>1 DEF PlaceInv, PlacesTyped
  <2>4. \A d \in Conns : /\ With(d, t)' <=> d \in subscribers
                         /\ \A u \in Threads \ {t} : With(d, u)' <=> With(d, u)
    BY <1>4, <2>1, <2>2 DEF With
  <2>5. OnePlace'
    BY <1>4, <2>1, <2>2, <2>4 DEF PlaceInv, OnePlace
  <2>6. HeldWhileWriting'
    BY <1>2, <1>4, <2>1, <2>2, <2>4 DEF PlaceInv, HeldWhileWriting
  <2>7. NotForgotten'
    <3>1. \A d \in Conns : ~With(d, t)
      BY <2>1 DEF With
    <3>. QED
      BY <1>2, <2>4, <3>1 DEF PlaceInv, NotForgotten
  <2>. QED
    BY <2>3, <2>5, <2>6, <2>7 DEF PlaceInv
<1>. QED
  BY <1>3, <1>4 DEF Push, BeginPush

\* A socket is written to and kept, or dropped with its peer gone.
LEMMA WriteInv ==
    ASSUME PlaceInv, NEW t \in Threads, NEW s \in Conns, Write(t, s) PROVE PlaceInv'
<1>1. /\ UNCHANGED <<trail, intent, subscribers, pc, attach, open>>
      /\ pc[t] = "writing" /\ s \in hand[t]
      /\ hand'[t] = hand[t] \ {s} /\ \A u \in Threads \ {t} : hand'[u] = hand[u]
      /\ hand' \in [Threads -> SUBSET Conns]
  BY DEF Write, locked, PlaceInv, PlacesTyped
<1>2. /\ kept' \in [Threads -> SUBSET Conns]
      /\ \A u \in Threads \ {t} : kept'[u] = kept[u]
      /\ kept'[t] = IF s \in open THEN kept[t] \cup {s} ELSE kept[t]
  <2>1. kept \in [Threads -> SUBSET Conns]
    BY DEF PlaceInv, PlacesTyped
  <2>2. IF s \in open THEN kept' = [kept EXCEPT ![t] = @ \cup {s}] ELSE kept' = kept
    BY DEF Write
  <2>. QED
    BY <2>1, <2>2
<1>3. s \notin kept[t] /\ s \notin subscribers /\ With(s, t)
  BY <1>1 DEF PlaceInv, OnePlace, With
<1>4. \A d \in Conns, u \in Threads :
        With(d, u)' <=> With(d, u) /\ (d = s /\ u = t => s \in open)
  BY <1>1, <1>2, <1>3 DEF With
<1>5. PlacesTyped'
  BY <1>1, <1>2 DEF PlaceInv, PlacesTyped
<1>6. OnePlace'
  BY <1>1, <1>2, <1>3, <1>4 DEF PlaceInv, OnePlace
<1>7. HeldWhileWriting'
  BY <1>1, <1>2, <1>4 DEF PlaceInv, HeldWhileWriting
<1>8. NotForgotten'
  BY <1>1, <1>4 DEF PlaceInv, NotForgotten
<1>. QED
  BY <1>5, <1>6, <1>7, <1>8 DEF PlaceInv

\* What was written to goes back to the list, beside what attached meanwhile.
LEMMA EndPushInv ==
    ASSUME PlaceInv, NEW t \in Threads, EndPush(t) PROVE PlaceInv'
<1>1. /\ UNCHANGED <<trail, intent, hand, attach, open>> /\ hand[t] = {}
      /\ subscribers' = subscribers \cup kept[t]
      /\ kept' \in [Threads -> SUBSET Conns] /\ kept'[t] = {}
      /\ \A u \in Threads \ {t} : kept'[u] = kept[u]
  BY DEF EndPush, PutBack, PlaceInv, PlacesTyped
<1>2. /\ pc' \in [Threads -> Positions] /\ pc'[t] = "rest"
      /\ \A u \in Threads \ {t} : pc'[u] = pc[u]
  BY DEF EndPush, Goes, PlaceInv, PlacesTyped, Positions
<1>3. \A d \in Conns : /\ With(d, t) <=> d \in kept[t]
                       /\ ~With(d, t)'
                       /\ \A u \in Threads \ {t} : With(d, u)' <=> With(d, u)
  BY <1>1 DEF With
<1>4. PlacesTyped'
  BY <1>1, <1>2 DEF PlaceInv, PlacesTyped
<1>5. OnePlace'
  BY <1>1, <1>3 DEF PlaceInv, OnePlace
<1>6. HeldWhileWriting'
  BY <1>1, <1>2, <1>3 DEF PlaceInv, HeldWhileWriting
<1>7. NotForgotten'
  BY <1>1, <1>3 DEF PlaceInv, NotForgotten
<1>. QED
  BY <1>4, <1>5, <1>6, <1>7 DEF PlaceInv

LEMMA PlaceStep ==
    ASSUME PlaceInv, [FanNext]_fanVars PROVE PlaceInv'
<1>1. CASE UNCHANGED fanVars
  BY <1>1
  DEF PlaceInv, PlacesTyped, OnePlace, HeldWhileWriting, NotForgotten, With, fanVars,
      locked, writing
<1>2. ASSUME NEW c \in Conns, ConnStep(c) \/ Close(c)
      PROVE  PlaceInv'
  BY <1>2, RequestInv, SubscribeInv DEF ConnStep
<1>3. ASSUME NEW t \in Threads, PushStep(t)
      PROVE  PlaceInv'
  BY <1>3, BeginPushInv, EndPushInv, WriteInv DEF PushStep
<1>. QED
  BY <1>1, <1>2, <1>3, FanTickInv DEF FanNext

-----------------------------------------------------------------------------
(* The cursor. *)

Numbers == 0 .. MaxSeq

\* The numbers given out so far, and where the cursor stands among them.
NumbersTyped ==
    /\ Len(trail) >= 1 /\ NextSeq <= MaxSeq
    /\ pushed = 0 \/ pushed \in Seqs
    /\ batch \in [Threads -> SUBSET Numbers]
    /\ attach \in [Conns -> -1 .. MaxSeq]
    /\ inbox \in [Conns -> Seq(Numbers)]
    /\ open \subseteq Conns
    /\ served \subseteq Numbers
    /\ before \in [Conns -> SUBSET Numbers]

UpTo(ns, n) == \A m \in ns : m <= n

HeardBy(c) == {inbox[c][i] : i \in DOMAIN inbox[c]}

\* A batch is a run of consecutive numbers the cursor has passed.
BatchesPushed ==
    \A t \in Threads :
        IF pc[t] = "writing"
          THEN /\ \E a, b \in Nat : a <= b /\ b <= pushed /\ batch[t] = a .. b
               /\ UpTo(OwnEntries(t), pushed)
          ELSE batch[t] = {}

\* Nobody has heard or is known to have missed anything past the cursor.
BehindCursor ==
    /\ UpTo(served, pushed)
    /\ \A c \in Conns : /\ UpTo(HeardBy(c), pushed) /\ UpTo(before[c], pushed)
                        /\ attach[c] = -1 => inbox[c] = <<>>

\* What a thread is about to write to a socket is later than all it has had.
NewToHolder ==
    \A t \in Threads : \A c \in hand[t] : \A n \in batch[t] :
        n \notin before[c] /\ \A m \in HeardBy(c) : m < n

OrderInv ==
    /\ PlaceInv /\ NumbersTyped
    /\ BatchesPushed /\ BehindCursor /\ NewToHolder
    /\ HeardInOrder /\ NoStaleBurst

LEMMA OrderGivesTypes == OrderInv => FanTypeOK
<1>. SUFFICES ASSUME OrderInv PROVE FanTypeOK
  OBVIOUS
<1>1. Len(trail) \in Nat /\ FirstSeq \in Nat /\ MaxSeq \in Nat
  BY FanOutConstants DEF OrderInv, PlaceInv, PlacesTyped
<1>2. Seqs \subseteq Numbers
  BY <1>1 DEF OrderInv, NumbersTyped, Seqs, NextSeq, Numbers
<1>3. pushed \in Numbers
  <2>1. pushed = 0 \/ pushed \in Seqs
    BY DEF OrderInv, NumbersTyped
  <2>2. 0 \in Numbers
    BY <1>1 DEF Numbers
  <2>. QED
    BY <1>2, <2>1, <2>2
<1>. QED
  BY <1>3
  DEF OrderInv, PlaceInv, PlacesTyped, NumbersTyped, Numbers, FanTypeOK, Records, Positions

\* The numbers of a run, one after the other.
LEMMA OrderedRun ==
    ASSUME NEW a \in Nat, NEW b \in Nat, a <= b, b <= MaxSeq
    PROVE  /\ Ordered(a .. b) \in Seq(Numbers)
           /\ \A i \in DOMAIN Ordered(a .. b) : Ordered(a .. b)[i] \in a .. b
           /\ \A i, j \in DOMAIN Ordered(a .. b) :
                i < j => Ordered(a .. b)[i] < Ordered(a .. b)[j]
<1>. DEFINE n == Cardinality(a .. b)
            q == Ordered(a .. b)
            Rising(f) == \A i, j \in 1 .. n : i < j => f[i] < f[j]
            w == [i \in 1 .. n |-> a + i - 1]
<1>1. n = b - a + 1 /\ n \in Nat
  BY FS_Interval
<1>2. w \in [1 .. n -> a .. b] /\ Rising(w)
  BY <1>1
<1>3. q \in [1 .. n -> a .. b] /\ Rising(q)
  BY <1>2 DEF Ordered
<1>4. DOMAIN q = 1 .. n
  BY <1>3
<1>5. \A i \in 1 .. n : q[i] \in Numbers
  <2>1. a .. b \subseteq Numbers
    BY FanOutConstants DEF Numbers
  <2>. QED
    BY <1>3, <2>1
<1>6. q \in [1 .. n -> Numbers]
  BY <1>3, <1>5
<1>7. q \in Seq(Numbers)
  BY <1>1, <1>6
<1>. QED
  BY <1>3, <1>4, <1>7

-----------------------------------------------------------------------------

LEMMA OrderInit == FanInit => OrderInv
<1>. SUFFICES ASSUME FanInit PROVE OrderInv
  OBVIOUS
<1>1. PlaceInv
  BY PlaceInit
<1>2. Len(trail) = 1 /\ pushed = 0
  BY DEF FanInit
<1>3. NumbersTyped
  BY <1>2, FanOutConstants DEF FanInit, NumbersTyped, NextSeq, Numbers
<1>4. /\ pc = [t \in Threads |-> "rest"] /\ batch = [t \in Threads |-> {}]
      /\ hand = [t \in Threads |-> {}]
      /\ inbox = [c \in Conns |-> <<>>] /\ served = {}
      /\ before = [c \in Conns |-> {}]
  BY DEF FanInit
<1>5. \A c \in Conns : inbox[c] = <<>> /\ HeardBy(c) = {} /\ before[c] = {}
  BY <1>4 DEF HeardBy
<1>6. BehindCursor
  BY <1>4, <1>5 DEF BehindCursor, UpTo
<1>7. BatchesPushed /\ NewToHolder /\ HeardInOrder /\ NoStaleBurst
  BY <1>4, <1>5 DEF BatchesPushed, NewToHolder, HeardInOrder, NoStaleBurst
<1>. QED
  BY <1>1, <1>3, <1>6, <1>7 DEF OrderInv

\* An entry more: the others' own entries are what they were.
LEMMA EntryAdded ==
    ASSUME OrderInv, NEW t \in Threads, Append1(t)
    PROVE  /\ Len(trail') = Len(trail) + 1 /\ NextSeq' <= MaxSeq
           /\ Seqs \subseteq Seqs'
           /\ \A u \in Threads \ {t} : OwnEntries(u)' = OwnEntries(u)
<1>. DEFINE e == [by |-> t, intent |-> intent]
<1>1. trail \in Seq(Records) /\ e \in Records /\ Len(trail) \in Nat
  BY DEF OrderInv, PlaceInv, PlacesTyped, Records
<1>2. trail' = Append(trail, e) /\ NextSeq < MaxSeq /\ NextSeq = FirstSeq + Len(trail)
  BY DEF Append1, NextSeq
<1>3. /\ Len(trail') = Len(trail) + 1
      /\ \A i \in 1 .. Len(trail) : trail'[i] = trail[i]
      /\ trail'[Len(trail) + 1] = e
  BY <1>1, <1>2
<1>4. NextSeq' = NextSeq + 1
  BY <1>1, <1>3, FanOutConstants DEF NextSeq
<1>5. Seqs' = FirstSeq .. NextSeq /\ Seqs = FirstSeq .. NextSeq - 1
  BY <1>1, <1>2, <1>4, FanOutConstants DEF Seqs
<1>6. \A n \in Seqs : Entry(n)' = Entry(n)
  BY <1>1, <1>2, <1>3, <1>5, FanOutConstants DEF Entry
<1>7. ASSUME NEW n, n = NextSeq
      PROVE  Entry(n)'.by = t
  <2>1. n - FirstSeq + 1 = Len(trail) + 1
    BY <1>1, <1>2, <1>7, FanOutConstants
  <2>2. Entry(n)' = e
    BY <1>3, <2>1 DEF Entry
  <2>. QED
    BY <2>2
<1>8. Seqs \subseteq Seqs'
  BY <1>1, <1>2, <1>5, FanOutConstants
<1>9. ASSUME NEW u \in Threads \ {t}
      PROVE  OwnEntries(u)' = OwnEntries(u)
  <2>1. OwnEntries(u)' = {n \in Seqs' : Entry(n)'.by = u}
    BY DEF OwnEntries
  <2>2. \A n \in Seqs' : n \in Seqs \/ n = NextSeq
    BY <1>1, <1>2, <1>5, FanOutConstants
  <2>3. NextSeq \notin Seqs
    BY <1>1, <1>2, <1>5, FanOutConstants
  <2>. QED
    BY <1>5, <1>6, <1>7, <2>1, <2>2, <2>3, <1>8 DEF OwnEntries
<1>. QED
  BY <1>1, <1>2, <1>3, <1>4, <1>9, <1>8, FanOutConstants

LEMMA Bounds ==
    ASSUME OrderInv
    PROVE  /\ NextSeq \in Nat /\ NextSeq <= MaxSeq /\ HeadSeq \in Seqs
           /\ Seqs \subseteq Numbers /\ Seqs = FirstSeq .. HeadSeq
           /\ HeadSeq \in Nat /\ pushed \in Nat /\ pushed <= HeadSeq
<1>1. Len(trail) \in Nat /\ Len(trail) >= 1 /\ FirstSeq \in Nat /\ MaxSeq \in Nat
  BY FanOutConstants DEF OrderInv, PlaceInv, PlacesTyped, NumbersTyped
<1>2. pushed = 0 \/ pushed \in Seqs
  BY DEF OrderInv, NumbersTyped
<1>3. NextSeq <= MaxSeq
  BY DEF OrderInv, NumbersTyped
<1>4. NextSeq = FirstSeq + Len(trail) /\ HeadSeq = NextSeq - 1
  BY DEF NextSeq, HeadSeq
<1>5. Seqs = FirstSeq .. HeadSeq
  BY DEF Seqs, HeadSeq
<1>6. \A n \in Seqs : n \in Nat /\ n <= HeadSeq
  BY <1>1, <1>4, <1>5
<1>7. CASE pushed = 0
  BY <1>1, <1>3, <1>4, <1>5, <1>7 DEF Numbers
<1>8. CASE pushed \in Seqs
  BY <1>1, <1>3, <1>4, <1>5, <1>6, <1>8 DEF Numbers
<1>. QED
  BY <1>2, <1>7, <1>8

\* Steps that move no cursor and write to nobody; a thread records while it holds nothing.
LEMMA OrderStays ==
    ASSUME NEW t \in Threads, OrderInv, PlaceInv', open' \subseteq open,
           UNCHANGED <<pushed, hand, batch, attach, inbox, served, before>>,
           UNCHANGED trail \/ Append1(t),
           pc[t] # "writing" \/ UNCHANGED trail,
           \A u \in Threads : pc'[u] = "writing" <=> pc[u] = "writing"
    PROVE  OrderInv'
<1>1. /\ Len(trail') >= 1 /\ NextSeq' <= MaxSeq /\ Seqs \subseteq Seqs'
      /\ \A u \in Threads : pc[u] = "writing" => OwnEntries(u)' = OwnEntries(u)
  <2>1. CASE UNCHANGED trail
    BY <2>1, Bounds DEF NextSeq, Seqs, OwnEntries, Entry, OrderInv, NumbersTyped
  <2>2. CASE Append1(t) /\ pc[t] # "writing"
    <3>1. Len(trail) >= 1 /\ Len(trail) \in Nat
      BY DEF OrderInv, NumbersTyped, PlaceInv, PlacesTyped
    <3>. QED
      BY <2>2, <3>1, EntryAdded
  <2>. QED
    BY <2>1, <2>2
<1>2. NumbersTyped'
  BY <1>1 DEF OrderInv, NumbersTyped
<1>3. BatchesPushed'
  BY <1>1 DEF OrderInv, BatchesPushed, UpTo
<1>4. BehindCursor' /\ NewToHolder' /\ HeardInOrder' /\ NoStaleBurst'
  BY DEF OrderInv, BehindCursor, NewToHolder, HeardInOrder, NoStaleBurst, HeardBy, UpTo
<1>. QED
  BY <1>2, <1>3, <1>4 DEF OrderInv

LEMMA RequestOrder ==
    ASSUME OrderInv, PlaceInv', NEW c \in Conns,
           Mark(c) \/ Handle(c) \/ Unmark(c) \/ Answer(c) \/ Close(c)
    PROVE  OrderInv'
<1>1. c \in Threads /\ pc \in [Threads -> Positions]
  BY DEF Threads, OrderInv, PlaceInv, PlacesTyped
<1>2. /\ UNCHANGED <<pushed, hand, batch, attach, inbox, served, before>>
      /\ open' \subseteq open
      /\ UNCHANGED trail \/ Append1(c)
  BY DEF Mark, Handle, Unmark, Answer, Close, locked, writing, history
<1>3. /\ pc[c] # "writing"
      /\ \A u \in Threads : pc'[u] = "writing" <=> pc[u] = "writing"
  BY <1>1 DEF Mark, Handle, Unmark, Answer, Close, Goes
<1>. QED
  BY <1>1, <1>2, <1>3, OrderStays

LEMMA FanTickOrder ==
    ASSUME OrderInv, PlaceInv', FanTick PROVE OrderInv'
<1>1. "clock" \in Threads /\ pc \in [Threads -> Positions]
  BY DEF Threads, OrderInv, PlaceInv, PlacesTyped
<1>2. /\ UNCHANGED <<pushed, hand, batch, attach, inbox, served, before>>
      /\ open' \subseteq open
      /\ UNCHANGED trail \/ Append1("clock")
  BY DEF FanTick, locked, writing, history
<1>3. /\ pc["clock"] # "writing"
      /\ \A u \in Threads : pc'[u] = "writing" <=> pc[u] = "writing"
  BY <1>1 DEF FanTick, Goes
<1>. QED
  BY <1>1, <1>2, <1>3, OrderStays

\* Whoever subscribes has heard nothing, and what is over is behind the cursor.
LEMMA SubscribeOrder ==
    ASSUME OrderInv, PlaceInv', NEW c \in Conns, Subscribe(c) PROVE OrderInv'
<1>1. c \in Threads /\ pc \in [Threads -> Positions] /\ attach[c] = -1
      /\ before \in [Conns -> SUBSET Numbers] /\ served \subseteq Numbers
      /\ attach \in [Conns -> -1 .. MaxSeq]
  BY DEF Threads, OrderInv, PlaceInv, PlacesTyped, NumbersTyped, Subscribe
<1>2. /\ UNCHANGED <<trail, pushed, hand, batch, open, inbox, served>>
      /\ attach' = [attach EXCEPT ![c] = NextSeq]
      /\ before' = [before EXCEPT ![c] = served]
      /\ \A u \in Threads : pc'[u] = "writing" <=> pc[u] = "writing"
  BY <1>1 DEF Subscribe, writing, Goes
<1>3. NextSeq \in -1 .. MaxSeq /\ NextSeq # -1
  BY Bounds, FanOutConstants
<1>4. NumbersTyped'
  BY <1>1, <1>2, <1>3 DEF OrderInv, NumbersTyped, NextSeq, Seqs
<1>5. BatchesPushed'
  BY <1>2 DEF OrderInv, BatchesPushed, UpTo, OwnEntries, Entry, Seqs, NextSeq
<1>6. BehindCursor'
  BY <1>1, <1>2, <1>3 DEF OrderInv, BehindCursor, UpTo, HeardBy
<1>7. \A t \in Threads : c \notin hand[t]
  BY <1>1 DEF OrderInv, PlaceInv, HeldWhileWriting, With
<1>8. NewToHolder'
  <2>. SUFFICES ASSUME NEW t \in Threads, NEW d \in hand[t], NEW n \in batch[t]
                PROVE  n \notin before'[d] /\ \A m \in HeardBy(d) : m < n
    BY <1>2 DEF NewToHolder, HeardBy
  <2>1. d \in Conns /\ d # c
    BY <1>7 DEF OrderInv, PlaceInv, PlacesTyped
  <2>. QED
    BY <1>1, <1>2, <2>1 DEF OrderInv, NewToHolder
<1>9. HeardInOrder'
  BY <1>2 DEF OrderInv, HeardInOrder
<1>10. NoStaleBurst'
  <2>1. inbox[c] = <<>>
    BY <1>1 DEF OrderInv, BehindCursor
  <2>2. DOMAIN inbox[c] = {}
    BY <2>1
  <2>. QED
    BY <1>1, <1>2, <2>2 DEF OrderInv, NoStaleBurst
<1>. QED
  BY <1>4, <1>5, <1>6, <1>8, <1>9, <1>10 DEF OrderInv

LEMMA OwnBounds ==
    ASSUME OrderInv, NEW t \in Threads
    PROVE  OwnEntries(t) \subseteq Numbers /\ UpTo(OwnEntries(t), HeadSeq)
<1>1. OwnEntries(t) \subseteq Seqs
  BY DEF OwnEntries
<1>2. \A n \in Seqs : n <= HeadSeq
  BY Bounds
<1>. QED
  BY <1>1, <1>2, Bounds DEF UpTo

\* A cursor that moves on leaves nobody ahead of it.
LEMMA CursorMoves ==
    ASSUME OrderInv, pushed' = HeadSeq, UNCHANGED <<attach, inbox, before>>,
           served' = served \/ \E t \in Threads : served' = served \cup OwnEntries(t)
    PROVE  /\ served' \subseteq Numbers /\ BehindCursor'
           /\ \A ns : UpTo(ns, pushed) /\ ns \subseteq Nat => UpTo(ns, pushed')
<1>1. pushed \in Nat /\ HeadSeq \in Nat /\ pushed <= HeadSeq
  BY Bounds
<1>2. \A ns : UpTo(ns, pushed) /\ ns \subseteq Nat => UpTo(ns, pushed')
  <2>. SUFFICES ASSUME NEW ns, UpTo(ns, pushed), ns \subseteq Nat, NEW m \in ns
                PROVE  m <= HeadSeq
    BY DEF UpTo
  <2>1. m \in Nat /\ m <= pushed
    BY DEF UpTo
  <2>. QED
    BY <1>1, <2>1
<1>3. Numbers \subseteq Nat
  BY FanOutConstants DEF Numbers
<1>4. served \subseteq Numbers /\ inbox \in [Conns -> Seq(Numbers)]
      /\ before \in [Conns -> SUBSET Numbers]
  BY DEF OrderInv, NumbersTyped
<1>5. \A c \in Conns : HeardBy(c) \subseteq Nat /\ before[c] \subseteq Nat
  <2>. SUFFICES ASSUME NEW c \in Conns PROVE HeardBy(c) \subseteq Nat
    BY <1>3, <1>4
  <2>1. inbox[c] \in Seq(Numbers)
    BY <1>4
  <2>2. \A i \in DOMAIN inbox[c] : inbox[c][i] \in Numbers
    BY <2>1, ElementOfSeq, LenProperties
  <2>. QED
    BY <1>3, <2>2 DEF HeardBy
<1>6. served' \subseteq Numbers /\ UpTo(served', HeadSeq)
  <2>1. UpTo(served, HeadSeq)
    BY <1>2, <1>3, <1>4 DEF OrderInv, BehindCursor
  <2>. QED
    BY <1>4, <2>1, OwnBounds DEF UpTo
<1>7. ASSUME NEW c \in Conns
      PROVE  /\ UpTo(HeardBy(c), pushed)' /\ UpTo(before[c], pushed)'
             /\ attach'[c] = -1 => inbox'[c] = <<>>
  <2>1. UpTo(HeardBy(c), pushed) /\ UpTo(before[c], pushed)
        /\ (attach[c] = -1 => inbox[c] = <<>>)
    BY DEF OrderInv, BehindCursor
  <2>2. UpTo(HeardBy(c), HeadSeq) /\ UpTo(before[c], HeadSeq)
    BY <1>2, <1>5, <2>1
  <2>. QED
    BY <2>1, <2>2 DEF UpTo, HeardBy
<1>. QED
  BY <1>2, <1>6, <1>7 DEF BehindCursor, UpTo

LEMMA BeginOrder ==
    ASSUME OrderInv, PlaceInv', NEW t \in Threads, Push(t) PROVE OrderInv'
<1>1. /\ UNCHANGED <<trail, attach, open, inbox, before>> /\ pushed' = HeadSeq
      /\ served' = served \/ served' = served \cup OwnEntries(t)
  BY DEF Push, BeginPush, CursorAlone
<1>2. /\ served' \subseteq Numbers /\ BehindCursor'
      /\ \A ns : UpTo(ns, pushed) /\ ns \subseteq Nat => UpTo(ns, pushed')
  BY <1>1, CursorMoves
<1>3. pushed \in Nat /\ HeadSeq \in Nat /\ pushed <= HeadSeq /\ HeadSeq \in Seqs
      /\ FirstSeq \in Nat /\ Seqs = FirstSeq .. HeadSeq /\ Seqs \subseteq Numbers
      /\ Numbers \subseteq Nat
  BY Bounds, FanOutConstants DEF Numbers
<1>4. pc \in [Threads -> Positions] /\ hand \in [Threads -> SUBSET Conns]
      /\ batch \in [Threads -> SUBSET Numbers]
  BY DEF OrderInv, PlaceInv, PlacesTyped, NumbersTyped
<1>5. HeardInOrder' /\ NoStaleBurst'
  BY <1>1 DEF OrderInv, HeardInOrder, NoStaleBurst
<1>6. \A u \in Threads : OwnEntries(u)' = OwnEntries(u)
  BY <1>1 DEF OwnEntries, Entry, Seqs, NextSeq
<1>7. \A u \in Threads \ {t} : pc'[u] = pc[u] /\ batch'[u] = batch[u] /\ hand'[u] = hand[u]
  BY <1>4 DEF Push, BeginPush, Goes, writing
<1>8. ASSUME NEW u \in Threads \ {t}
      PROVE  IF pc'[u] = "writing"
               THEN /\ \E a, b \in Nat : a <= b /\ b <= pushed' /\ batch'[u] = a .. b
                    /\ UpTo(OwnEntries(u), pushed)'
               ELSE batch'[u] = {}
  <2>1. CASE pc[u] # "writing"
    BY <1>7, <2>1 DEF OrderInv, BatchesPushed
  <2>2. CASE pc[u] = "writing"
    <3>1. PICK a \in Nat, b \in Nat : a <= b /\ b <= pushed /\ batch[u] = a .. b
      BY <2>2 DEF OrderInv, BatchesPushed
    <3>2. b <= pushed'
      BY <1>1, <1>3, <3>1
    <3>3. UpTo(OwnEntries(u), pushed)'
      BY <1>1, <1>6, OwnBounds DEF UpTo
    <3>. QED
      BY <1>7, <2>2, <3>1, <3>2, <3>3
  <2>. QED
    BY <2>1, <2>2
<1>9. CASE UNCHANGED writing /\ Goes(t, "push", "rest")
  <2>1. pc[t] = "push" /\ pc'[t] = "rest" /\ UNCHANGED <<hand, batch>>
    BY <1>4, <1>9 DEF Goes, writing
  <2>2. batch[t] = {}
    BY <2>1 DEF OrderInv, BatchesPushed
  <2>3. BatchesPushed'
    BY <1>8, <2>1, <2>2 DEF BatchesPushed
  <2>4. NumbersTyped'
    BY <1>1, <1>2, <1>3, <2>1 DEF OrderInv, NumbersTyped, NextSeq, Seqs
  <2>5. NewToHolder'
    BY <1>1, <2>1 DEF OrderInv, NewToHolder, HeardBy
  <2>. QED
    BY <1>2, <1>5, <2>3, <2>4, <2>5 DEF OrderInv
<1>10. CASE /\ Goes(t, "push", "writing") /\ Since(pushed) # {}
            /\ batch' = [batch EXCEPT ![t] = Since(pushed)]
            /\ hand' = [hand EXCEPT ![t] = subscribers]
  <2>. DEFINE a == IF pushed + 1 >= FirstSeq THEN pushed + 1 ELSE FirstSeq
  <2>1. pc'[t] = "writing" /\ batch'[t] = Since(pushed) /\ hand'[t] = subscribers
    BY <1>4, <1>10 DEF Goes
  <2>2. a \in Nat /\ a <= HeadSeq /\ Since(pushed) = a .. HeadSeq
    BY <1>3, <1>10 DEF Since
  <2>3. Since(pushed) \subseteq Numbers /\ \A n \in Since(pushed) : n > pushed
    BY <1>3 DEF Since
  <2>4. BatchesPushed'
    <3>1. \E x, y \in Nat : x <= y /\ y <= pushed' /\ batch'[t] = x .. y
      BY <1>1, <1>3, <2>1, <2>2
    <3>2. UpTo(OwnEntries(t), pushed)'
      BY <1>1, <1>6, OwnBounds DEF UpTo
    <3>. QED
      BY <1>8, <2>1, <3>1, <3>2 DEF BatchesPushed
  <2>5. NumbersTyped'
    <3>1. batch' \in [Threads -> SUBSET Numbers]
      BY <1>4, <1>10, <2>3
    <3>. QED
      BY <1>1, <1>2, <1>3, <3>1 DEF OrderInv, NumbersTyped, NextSeq, Seqs
  <2>6. ASSUME NEW c \in subscribers, NEW n \in Since(pushed)
        PROVE  n \notin before[c] /\ \A m \in HeardBy(c) : m < n
    <3>1. c \in Conns
      BY DEF OrderInv, PlaceInv, PlacesTyped
    <3>2. UpTo(HeardBy(c), pushed) /\ UpTo(before[c], pushed)
      BY <3>1 DEF OrderInv, BehindCursor
    <3>3. n > pushed /\ n \in Nat
      BY <1>3, <2>3
    <3>4. HeardBy(c) \subseteq Nat
      <4>1. inbox[c] \in Seq(Numbers)
        BY <3>1 DEF OrderInv, NumbersTyped
      <4>2. \A i \in DOMAIN inbox[c] : inbox[c][i] \in Numbers
        BY <4>1, ElementOfSeq, LenProperties
      <4>. QED
        BY <1>3, <4>2 DEF HeardBy
    <3>. QED
      BY <1>3, <3>2, <3>3, <3>4 DEF UpTo
  <2>7. NewToHolder'
    <3>. SUFFICES ASSUME NEW u \in Threads, NEW c \in hand'[u], NEW n \in batch'[u]
                  PROVE  n \notin before[c] /\ \A m \in HeardBy(c) : m < n
      BY <1>1 DEF NewToHolder, HeardBy
    <3>1. CASE u = t
      BY <2>1, <2>6, <3>1
    <3>2. CASE u # t
      BY <1>7, <3>2 DEF OrderInv, NewToHolder
    <3>. QED
      BY <3>1, <3>2
  <2>. QED
    BY <1>2, <1>5, <2>4, <2>5, <2>7 DEF OrderInv
<1>. QED
  BY <1>9, <1>10 DEF Push, BeginPush

LEMMA Shifted ==
    ASSUME NEW a \in Nat, NEW b \in Nat, NEW i \in 1 .. a + b, i > a
    PROVE  i - a \in 1 .. b
  OBVIOUS

\* The events of a batch follow what the socket has had, in order.
LEMMA WriteOrder ==
    ASSUME OrderInv, PlaceInv', NEW t \in Threads, NEW s \in Conns, Write(t, s)
    PROVE  OrderInv'
<1>1. /\ pc[t] = "writing" /\ s \in hand[t]
      /\ UNCHANGED <<trail, pushed, pc, batch, attach, open, served, before>>
      /\ hand' = [hand EXCEPT ![t] = @ \ {s}]
  BY DEF Write, locked, history
<1>2. hand \in [Threads -> SUBSET Conns] /\ inbox \in [Conns -> Seq(Numbers)]
      /\ batch \in [Threads -> SUBSET Numbers]
  BY DEF OrderInv, PlaceInv, PlacesTyped, NumbersTyped
<1>3. \A u \in Threads : hand'[u] \subseteq hand[u]
  BY <1>1, <1>2
<1>4. s \notin hand'[t] /\ \A u \in Threads \ {t} : s \notin hand[u]
  BY <1>1, <1>2 DEF OrderInv, PlaceInv, OnePlace, With
<1>5. BatchesPushed'
  BY <1>1 DEF OrderInv, BatchesPushed, UpTo, OwnEntries, Entry, Seqs, NextSeq
<1>6. CASE UNCHANGED inbox
  BY <1>1, <1>3, <1>5, <1>6
  DEF OrderInv, NumbersTyped, NextSeq, Seqs, BehindCursor, UpTo, HeardBy, NewToHolder,
      HeardInOrder, NoStaleBurst
<1>7. CASE inbox' = [inbox EXCEPT ![s] = @ \o Ordered(batch[t])]
  <2>. DEFINE old == inbox[s]
              q == Ordered(batch[t])
  <2>1. PICK a \in Nat, b \in Nat : a <= b /\ b <= pushed /\ batch[t] = a .. b
    BY <1>1 DEF OrderInv, BatchesPushed
  <2>2. b <= MaxSeq /\ pushed \in Nat
    <3>1. pushed \in Nat /\ HeadSeq \in Nat /\ pushed <= HeadSeq /\ HeadSeq \in 0 .. MaxSeq
      BY Bounds DEF Numbers
    <3>. QED
      BY <2>1, <3>1, FanOutConstants
  <2>3. /\ q \in Seq(Numbers) /\ \A i \in DOMAIN q : q[i] \in batch[t]
        /\ \A i, j \in DOMAIN q : i < j => q[i] < q[j]
    BY <2>1, <2>2, OrderedRun
  <2>4. /\ old \in Seq(Numbers) /\ old \o q \in Seq(Numbers)
        /\ Len(old \o q) = Len(old) + Len(q) /\ Len(old) \in Nat /\ Len(q) \in Nat
        /\ \A i \in 1 .. Len(old) + Len(q) :
             (old \o q)[i] = IF i <= Len(old) THEN old[i] ELSE q[i - Len(old)]
    BY <1>2, <2>3, ConcatProperties, LenProperties
  <2>5. /\ inbox'[s] = old \o q /\ inbox' \in [Conns -> Seq(Numbers)]
        /\ \A c \in Conns \ {s} : inbox'[c] = inbox[c]
    BY <1>2, <1>7, <2>4
  <2>6. DOMAIN old = 1 .. Len(old) /\ DOMAIN q = 1 .. Len(q)
        /\ DOMAIN inbox'[s] = 1 .. Len(old) + Len(q)
    BY <2>3, <2>4, <2>5, LenProperties
  <2>7. ASSUME NEW i \in DOMAIN inbox'[s]
        PROVE  \/ i \in DOMAIN old /\ inbox'[s][i] = old[i]
               \/ /\ i > Len(old) /\ i - Len(old) \in DOMAIN q
                  /\ inbox'[s][i] = q[i - Len(old)]
    <3>1. i \in 1 .. Len(old) + Len(q)
      BY <2>6
    <3>2. inbox'[s][i] = IF i <= Len(old) THEN old[i] ELSE q[i - Len(old)]
      BY <2>4, <2>5, <3>1
    <3>3. CASE i <= Len(old)
      BY <2>4, <2>6, <3>1, <3>2, <3>3
    <3>4. CASE i > Len(old)
      <4>1. i - Len(old) \in 1 .. Len(q)
        <5>1. Len(old) \in Nat /\ Len(q) \in Nat
          BY <2>4
        <5>. QED
          BY <3>1, <3>4, <5>1, Shifted
      <4>2. ~(i <= Len(old))
        BY <2>4, <3>1, <3>4
      <4>. QED
        BY <2>6, <3>2, <3>4, <4>1, <4>2
    <3>. QED
      BY <2>4, <3>1, <3>3, <3>4
  <2>8. ASSUME NEW i \in DOMAIN inbox'[s]
        PROVE  inbox'[s][i] \in HeardBy(s) \cup batch[t]
    BY <2>3, <2>7 DEF HeardBy
  <2>9. \A n \in batch[t] : n \notin before[s] /\ \A m \in HeardBy(s) : m < n
    BY <1>1 DEF OrderInv, NewToHolder
  <2>10. HeardInOrder'
    <3>. SUFFICES ASSUME NEW i \in DOMAIN inbox'[s], NEW j \in DOMAIN inbox'[s], i < j
                  PROVE  inbox'[s][i] < inbox'[s][j]
      BY <2>5 DEF OrderInv, HeardInOrder
    <3>0. i \in Nat /\ j \in Nat
      BY <2>4, <2>6
    <3>1. CASE j \in DOMAIN old
      <4>1. i \in DOMAIN old
        BY <2>4, <2>6, <3>0, <3>1
      <4>. QED
        BY <2>4, <2>5, <2>6, <3>1, <4>1 DEF OrderInv, HeardInOrder
    <3>2. CASE i \in DOMAIN old /\ j \notin DOMAIN old
      <4>1. inbox'[s][j] = q[j - Len(old)] /\ j - Len(old) \in DOMAIN q
        BY <2>7, <3>2
      <4>2. inbox'[s][i] = old[i]
        <5>1. ~(i > Len(old))
          BY <2>4, <2>6, <3>2
        <5>. QED
          BY <2>7, <5>1
      <4>. QED
        BY <2>3, <2>9, <3>2, <4>1, <4>2 DEF HeardBy
    <3>3. CASE i \notin DOMAIN old /\ j \notin DOMAIN old
      <4>1. /\ inbox'[s][i] = q[i - Len(old)] /\ i - Len(old) \in DOMAIN q
            /\ inbox'[s][j] = q[j - Len(old)] /\ j - Len(old) \in DOMAIN q
        BY <2>7, <3>3
      <4>2. i - Len(old) < j - Len(old)
        BY <2>4, <3>0
      <4>. QED
        BY <2>3, <4>1, <4>2
    <3>. QED
      BY <3>1, <3>2, <3>3
  <2>11. NoStaleBurst'
    <3>. SUFFICES ASSUME NEW i \in DOMAIN inbox'[s] PROVE inbox'[s][i] \notin before[s]
      BY <1>1, <2>5 DEF OrderInv, NoStaleBurst
    <3>1. \A m \in HeardBy(s) : m \notin before[s]
      BY DEF OrderInv, NoStaleBurst, HeardBy
    <3>. QED
      BY <2>8, <2>9, <3>1
  <2>12. BehindCursor'
    <3>1. \A n \in batch[t] : n <= pushed
      BY <2>1, <2>2
    <3>2. UpTo(HeardBy(s), pushed)'
      BY <1>1, <2>8, <3>1 DEF OrderInv, BehindCursor, UpTo, HeardBy
    <3>3. attach[s] # -1
      BY <1>1 DEF OrderInv, PlaceInv, HeldWhileWriting, With
    <3>. QED
      BY <1>1, <2>5, <3>2, <3>3 DEF OrderInv, BehindCursor, UpTo, HeardBy
  <2>13. NewToHolder'
    <3>. SUFFICES ASSUME NEW u \in Threads, NEW c \in hand'[u], NEW n \in batch[u]
                  PROVE  n \notin before[c] /\ \A m \in HeardBy(c)' : m < n
      BY <1>1 DEF NewToHolder
    <3>1. c \in hand[u] /\ c \in Conns /\ c # s
      BY <1>2, <1>3, <1>4
    <3>2. HeardBy(c)' = HeardBy(c)
      BY <2>5, <3>1 DEF HeardBy
    <3>. QED
      BY <3>1, <3>2 DEF OrderInv, NewToHolder
  <2>14. NumbersTyped'
    BY <1>1, <2>5 DEF OrderInv, NumbersTyped, NextSeq, Seqs
  <2>. QED
    BY <1>5, <2>10, <2>11, <2>12, <2>13, <2>14 DEF OrderInv
<1>. QED
  BY <1>6, <1>7 DEF Write

LEMMA EndOrder ==
    ASSUME OrderInv, PlaceInv', NEW t \in Threads, EndPush(t) PROVE OrderInv'
<1>1. /\ UNCHANGED <<trail, pushed, hand, attach, open, inbox, before>>
      /\ pc[t] = "writing" /\ hand[t] = {}
      /\ batch' = [batch EXCEPT ![t] = {}] /\ served' = served \cup OwnEntries(t)
  BY DEF EndPush, Goes
<1>2. pc \in [Threads -> Positions] /\ batch \in [Threads -> SUBSET Numbers]
      /\ served \subseteq Numbers
  BY DEF OrderInv, PlaceInv, PlacesTyped, NumbersTyped
<1>3. /\ pc'[t] = "rest" /\ batch'[t] = {}
      /\ \A u \in Threads \ {t} : pc'[u] = pc[u] /\ batch'[u] = batch[u]
  BY <1>1, <1>2 DEF EndPush, Goes
<1>4. UpTo(OwnEntries(t), pushed)
  BY <1>1 DEF OrderInv, BatchesPushed
<1>5. NumbersTyped'
  BY <1>1, <1>2, OwnBounds DEF OrderInv, NumbersTyped, NextSeq, Seqs
<1>6. BatchesPushed'
  BY <1>1, <1>3 DEF OrderInv, BatchesPushed, UpTo, OwnEntries, Entry, Seqs, NextSeq
<1>7. BehindCursor'
  BY <1>1, <1>4 DEF OrderInv, BehindCursor, UpTo, HeardBy
<1>8. NewToHolder'
  BY <1>1, <1>3 DEF OrderInv, NewToHolder, HeardBy
<1>9. HeardInOrder' /\ NoStaleBurst'
  BY <1>1 DEF OrderInv, HeardInOrder, NoStaleBurst
<1>. QED
  BY <1>5, <1>6, <1>7, <1>8, <1>9 DEF OrderInv

LEMMA OrderStep ==
    ASSUME OrderInv, [FanNext]_fanVars PROVE OrderInv'
<1>. PlaceInv'
  BY PlaceStep DEF OrderInv
<1>1. CASE UNCHANGED fanVars
  BY <1>1
  DEF OrderInv, NumbersTyped, BatchesPushed, BehindCursor, NewToHolder, HeardInOrder,
      NoStaleBurst, UpTo, HeardBy, OwnEntries, Entry, Seqs, NextSeq, fanVars, locked,
      writing, history
<1>2. ASSUME NEW c \in Conns, ConnStep(c) \/ Close(c)
      PROVE  OrderInv'
  BY <1>2, RequestOrder, SubscribeOrder DEF ConnStep
<1>3. ASSUME NEW t \in Threads, PushStep(t)
      PROVE  OrderInv'
  BY <1>3, BeginOrder, EndOrder, WriteOrder DEF PushStep
<1>. QED
  BY <1>1, <1>2, <1>3, FanTickOrder DEF FanNext

-----------------------------------------------------------------------------
(* The label. *)

\* The intent declared is that of a request under way.
Declared(c) == c = None \/ pc[c] \in {"marked", "handled"}

LabelInv == PlaceInv /\ Declared(intent)

\* What is recorded is labelled with what is declared.
LEMMA LabelGiven ==
    ASSUME LabelInv, NEW t \in Threads, Append1(t)
    PROVE  trail'[Len(trail')].intent = intent
<1>. DEFINE e == [by |-> t, intent |-> intent]
<1>1. trail' = Append(trail, e) /\ trail \in Seq(Records)
  BY DEF Append1, LabelInv, PlaceInv, PlacesTyped
<1>2. e \in Records
  BY DEF Records, LabelInv, PlaceInv, PlacesTyped
<1>3. trail'[Len(trail')] = e
  BY <1>1, <1>2, AppendProperties
<1>. QED
  BY <1>3

LEMMA LabelStep ==
    ASSUME LabelInv, [FanNext]_fanVars
    PROVE  /\ LabelInv'
           /\ trail' # trail => Declared(trail'[Len(trail')].intent)
<1>. PlaceInv /\ PlaceInv'
  BY PlaceStep DEF LabelInv
<1>1. /\ pc \in [Threads -> Positions] /\ Conns \subseteq Threads /\ "clock" \notin Conns
      /\ None \notin Conns /\ intent \in Conns \cup {None}
  BY FanOutConstants DEF PlaceInv, PlacesTyped, Threads
<1>2. CASE UNCHANGED <<pc, intent, trail>>
  BY <1>2 DEF LabelInv, Declared
\* The clock changes no request.
<1>3. CASE FanTick
  <2>1. UNCHANGED intent /\ \A c \in Conns : pc'[c] = pc[c]
    BY <1>1, <1>3 DEF FanTick, Goes
  <2>2. Declared(intent)'
    BY <1>1, <2>1 DEF LabelInv, Declared
  <2>3. trail' # trail => trail'[Len(trail')].intent = intent
    BY <1>3, LabelGiven DEF FanTick, Threads
  <2>. QED
    BY <2>2, <2>3 DEF LabelInv
<1>4. ASSUME NEW c \in Conns, Mark(c)
      PROVE  LabelInv' /\ UNCHANGED trail
  BY <1>1, <1>4 DEF Mark, Goes, LabelInv, Declared
\* A request that is being handled goes on being handled, and is no other.
<1>5. ASSUME NEW c \in Conns, Handle(c) \/ Subscribe(c)
      PROVE  /\ LabelInv'
             /\ trail' # trail => Declared(trail'[Len(trail')].intent)
  <2>1. /\ UNCHANGED intent /\ pc[c] = "marked"
        /\ pc' = [pc EXCEPT ![c] = "handled"]
    BY <1>5 DEF Handle, Subscribe, Goes
  <2>2. Declared(intent)'
    BY <1>1, <2>1 DEF LabelInv, Declared
  <2>3. trail' # trail => trail'[Len(trail')].intent = intent
    BY <1>1, <1>5, LabelGiven DEF Handle, Subscribe
  <2>. QED
    BY <2>2, <2>3 DEF LabelInv
<1>6. ASSUME NEW c \in Conns, Unmark(c)
      PROVE  LabelInv' /\ UNCHANGED trail
  BY <1>6 DEF Unmark, Withdrawn, LabelInv, Declared
<1>7. ASSUME NEW c \in Conns, Answer(c) \/ Close(c)
      PROVE  LabelInv' /\ UNCHANGED trail
  <2>1. /\ UNCHANGED <<intent, trail>>
        /\ \A d \in Conns : pc[d] \in {"marked", "handled"} => pc'[d] = pc[d]
    BY <1>1, <1>7 DEF Answer, Close, Goes
  <2>. QED
    BY <1>1, <2>1 DEF LabelInv, Declared
<1>8. ASSUME NEW t \in Threads, PushStep(t)
      PROVE  LabelInv' /\ UNCHANGED trail
  <2>1. /\ UNCHANGED <<intent, trail>>
        /\ \A d \in Conns : pc[d] \in {"marked", "handled"} => pc'[d] = pc[d]
    BY <1>1, <1>8 DEF PushStep, Push, BeginPush, EndPush, Write, Goes
  <2>. QED
    BY <1>1, <2>1 DEF LabelInv, Declared
<1>. QED
  BY <1>2, <1>3, <1>4, <1>5, <1>6, <1>7, <1>8 DEF FanNext, ConnStep, fanVars

-----------------------------------------------------------------------------

\* A subscriber's socket is in the list or in the hands of exactly one thread (fan_out
\* takes the list out under the mutex, writes without it and puts the survivors back
\* beside those that came meanwhile), for any number of connections and entries.
THEOREM SocketsHeldOnce == FanSpec => []HeldOnce
  BY PlaceInit, PlaceStep, PlaceGivesHeldOnce, PTL DEF FanSpec

LEMMA OrderAlways == FanSpec => []OrderInv
  BY OrderInit, OrderStep, PTL DEF FanSpec

\* A subscriber hears each entry at most once and in the trail's order (last_pushed_seq
\* is moved in the section in which the list is taken out), however many threads push.
THEOREM EntriesHeardInOrder == FanSpec => []HeardInOrder
<1>1. OrderInv => HeardInOrder
  BY DEF OrderInv
<1>. QED
  BY <1>1, OrderAlways, PTL

\* What was over before a connection subscribed is never pushed to it: whoever recorded
\* it had already moved the cursor past it.
THEOREM NoBurstOfOldNews == FanSpec => []NoStaleBurst
<1>1. OrderInv => NoStaleBurst
  BY DEF OrderInv
<1>. QED
  BY <1>1, OrderAlways, PTL

\* Whatever is recorded, by the clock or a request, is labelled with nothing or with the
\* intent of a request that is being handled at that moment (set_intent before it and
\* its withdrawal after it), for any number of connections interleaved.
THEOREM LabelsAreLive == FanSpec => LabelsLive
<1>1. FanInit => LabelInv
  BY PlaceInit DEF LabelInv, Declared, FanInit
<1>2. LabelInv /\ [FanNext]_fanVars =>
        [trail' # trail =>
           LET label == trail'[Len(trail')].intent
           IN  label = None \/ pc[label] \in {"marked", "handled"}]_fanVars
  BY LabelStep DEF Declared
<1>3. LabelInv /\ [FanNext]_fanVars => LabelInv'
  BY LabelStep
<1>. QED
  BY <1>1, <1>2, <1>3, PTL DEF FanSpec, LabelsLive
=============================================================================
