---------------------------- MODULE EventFanOut ----------------------------
(***************************************************************************)
(* Subscribers of the forensic trail (sessiond/server.rs: fan_out,         *)
(* handle_connection, the subscribe request; the trail's append, since and *)
(* head_seq in device_state.rs).                                           *)
(*                                                                         *)
(* A connection that has subscribed is a socket in the daemon's list.      *)
(* Every thread that may have recorded something - a connection after its  *)
(* answer, the clock after its tick - takes the list out under the mutex,  *)
(* writes without it and puts the survivors back.                          *)
(*                                                                         *)
(* Every entry here is notable, and a batch reaches one socket in one      *)
(* step: nobody else holds the socket meanwhile.  A connection subscribes  *)
(* at most once.                                                           *)
(***************************************************************************)
EXTENDS Integers, Sequences, FiniteSets

CONSTANTS
    Conns,     \* connections, each served by a handler thread of its own
    None,      \* no intent declared
    FirstSeq,  \* the daemon's own opening entry: 0 only for a new trail
    MaxSeq     \* bound: entries are recorded while next_seq is below it

ASSUME FanOutConstants ==
    /\ None \notin Conns
    /\ "clock" \notin Conns
    /\ FirstSeq \in Nat /\ MaxSeq \in Nat /\ FirstSeq < MaxSeq

Threads == Conns \cup {"clock"}

VARIABLES
    trail,        \* the entries: who recorded each, and its intent
    intent,       \* the intent declared to the trail
    subscribers,  \* Daemon.subscribers
    pushed,       \* Daemon.last_pushed_seq
    pc,           \* per thread: where its request or tick has got to
    hand,         \* per thread: sockets taken out and not yet written to
    kept,         \* per thread: sockets written to, to be put back
    batch,        \* per thread: sequence numbers it is writing
    attach,       \* per connection: next_seq when it subscribed, or -1
    open,         \* connections whose peer is still there
    inbox,        \* per connection: the events it has received
    served,       \* entries whose thread has finished its own fan_out
    before        \* per connection: what had been served when it subscribed

locked  == <<subscribers, pushed>>
writing == <<hand, kept, batch>>
history == <<served, before>>
fanVars == <<trail, intent, locked, pc, writing, attach, open, inbox, history>>

NextSeq == FirstSeq + Len(trail)
Seqs    == FirstSeq..(NextSeq - 1)
Entry(n) == trail[n - FirstSeq + 1]

\* The highest sequence in memory.
HeadSeq == NextSeq - 1

SinceInclusive(n) == {s \in Seqs : s >= n}

Since(n) == {s \in Seqs : s > n}

FanTypeOK ==
    /\ trail \in Seq([by : Threads \cup {"boot"}, intent : Conns \cup {None}])
    /\ intent \in Conns \cup {None}
    /\ subscribers \subseteq Conns /\ open \subseteq Conns
    /\ pushed \in 0..MaxSeq /\ (pushed = 0 \/ pushed \in Seqs)
    /\ pc \in [Threads -> {"rest", "marked", "handled", "answer", "push", "writing"}]
    /\ hand \in [Threads -> SUBSET Conns] /\ kept \in [Threads -> SUBSET Conns]
    /\ batch \in [Threads -> SUBSET (0..MaxSeq)]
    /\ attach \in [Conns -> -1..MaxSeq]
    /\ inbox \in [Conns -> Seq(0..MaxSeq)]
    /\ served \subseteq 0..MaxSeq
    /\ before \in [Conns -> SUBSET (0..MaxSeq)]

Goes(t, a, b) == pc[t] = a /\ pc' = [pc EXCEPT ![t] = b]

-----------------------------------------------------------------------------
(* One request of a connection, one tick of the clock. *)

Append1(t) ==
    /\ NextSeq < MaxSeq
    /\ trail' = Append(trail, [by |-> t, intent |-> intent])

\* The request's intent is declared to the trail ...
Mark(c) ==
    /\ c \in open
    /\ Goes(c, "rest", "marked")
    /\ intent' = c
    /\ UNCHANGED <<trail, locked, writing, attach, open, inbox, history>>

\* ... the request is handled, recording an entry or nothing ...
Handle(c) ==
    /\ Goes(c, "marked", "handled")
    /\ Append1(c) \/ UNCHANGED trail
    /\ UNCHANGED <<intent, locked, writing, attach, open, inbox, history>>

Subscribe(c) ==
    /\ attach[c] = -1
    /\ Goes(c, "marked", "handled")
    /\ attach' = [attach EXCEPT ![c] = NextSeq]
    /\ subscribers' = subscribers \cup {c}
    /\ before' = [before EXCEPT ![c] = served]
    /\ UNCHANGED <<trail, intent, pushed, writing, open, inbox, served>>

WithdrawnUnlessSubscribed(c) == IF attach[c] # -1 THEN intent ELSE None

Withdrawn(c) == None

\* ... the intent is withdrawn, and the answer written before the events.
Unmark(c) ==
    /\ Goes(c, "handled", "answer")
    /\ intent' = Withdrawn(c)
    /\ UNCHANGED <<trail, locked, writing, attach, open, inbox, history>>

\* The answer of a peer that has gone may fail, and then nothing is pushed.
Answer(c) ==
    /\ \/ Goes(c, "answer", "push")
       \/ c \notin open /\ Goes(c, "answer", "rest")
    /\ UNCHANGED <<trail, intent, locked, writing, attach, open, inbox, history>>

FanTick ==
    /\ Goes("clock", "rest", "push")
    /\ Append1("clock") \/ UNCHANGED trail
    /\ UNCHANGED <<intent, locked, writing, attach, open, inbox, history>>

-----------------------------------------------------------------------------
(* fan_out. *)

OwnEntries(t) == {n \in Seqs : Entry(n).by = t}

\* With nobody listening, the cursor advances all the same.
CursorAlone == HeadSeq

\* First section under the mutex.
BeginPush(t) ==
    \/ /\ subscribers = {}
       /\ Goes(t, "push", "rest")
       /\ pushed' = CursorAlone
       /\ served' = served \cup OwnEntries(t)
       /\ UNCHANGED <<subscribers, writing>>
    \/ /\ subscribers # {}
       /\ Since(pushed) = {}
       /\ Goes(t, "push", "rest")
       /\ pushed' = HeadSeq
       /\ served' = served \cup OwnEntries(t)
       /\ UNCHANGED <<subscribers, writing>>
    \/ /\ subscribers # {}
       /\ Since(pushed) # {}
       /\ Goes(t, "push", "writing")
       /\ batch' = [batch EXCEPT ![t] = Since(pushed)]
       /\ pushed' = HeadSeq
       /\ hand' = [hand EXCEPT ![t] = subscribers]
       /\ subscribers' = {}
       /\ UNCHANGED <<kept, served>>

Push(t) ==
    /\ BeginPush(t)
    /\ UNCHANGED <<trail, intent, attach, open, inbox, before>>

\* The numbers of a batch, oldest first.
Ordered(ns) ==
    CHOOSE q \in [1..Cardinality(ns) -> ns] :
        \A i, j \in 1..Cardinality(ns) : i < j => q[i] < q[j]

\* One socket at a time: the whole batch, or the socket is gone and dropped.
Write(t, s) ==
    /\ pc[t] = "writing"
    /\ s \in hand[t]
    /\ hand' = [hand EXCEPT ![t] = @ \ {s}]
    /\ \/ /\ s \in open
          /\ inbox' = [inbox EXCEPT ![s] = @ \o Ordered(batch[t])]
          /\ kept' = [kept EXCEPT ![t] = @ \cup {s}]
       \/ /\ s \notin open
          /\ UNCHANGED <<inbox, kept>>
    /\ UNCHANGED <<trail, intent, locked, pc, batch, attach, open, history>>

PutBack(t) == subscribers \cup kept[t]

\* Second section: what attached meanwhile is still in the list.
EndPush(t) ==
    /\ Goes(t, "writing", "rest")
    /\ hand[t] = {}
    /\ subscribers' = PutBack(t)
    /\ kept' = [kept EXCEPT ![t] = {}]
    /\ batch' = [batch EXCEPT ![t] = {}]
    /\ served' = served \cup OwnEntries(t)
    /\ UNCHANGED <<trail, intent, pushed, hand, attach, open, inbox, before>>

\* A peer goes away.  Nobody notices while its request is being handled, so that
\* moment is put off to the answer.
Close(c) ==
    /\ c \in open
    /\ pc[c] \in {"rest", "answer"}
    /\ open' = open \ {c}
    /\ UNCHANGED <<trail, intent, locked, pc, writing, attach, inbox, history>>

-----------------------------------------------------------------------------

FanInit ==
    /\ trail = <<[by |-> "boot", intent |-> None]>>
    /\ intent = None
    /\ subscribers = {} /\ open = Conns
    /\ pushed = 0
    /\ pc = [t \in Threads |-> "rest"]
    /\ hand = [t \in Threads |-> {}] /\ kept = [t \in Threads |-> {}]
    /\ batch = [t \in Threads |-> {}]
    /\ attach = [c \in Conns |-> -1]
    /\ inbox = [c \in Conns |-> <<>>]
    /\ served = {} /\ before = [c \in Conns |-> {}]

PushStep(t) == Push(t) \/ EndPush(t) \/ \E s \in Conns : Write(t, s)

ConnStep(c) == Mark(c) \/ Handle(c) \/ Subscribe(c) \/ Unmark(c) \/ Answer(c)

FanNext ==
    \/ \E c \in Conns : ConnStep(c) \/ Close(c)
    \/ FanTick
    \/ \E t \in Threads : PushStep(t)

FanSpec == FanInit /\ [][FanNext]_fanVars

-----------------------------------------------------------------------------
(* Properties. *)

\* A subscriber's socket is in the list or in the hands of exactly one thread:
\* two threads never write to it at once, and whoever attaches while the others
\* are being written to is not forgotten.
HeldOnce ==
    \A c \in Conns :
        LET holders == {t \in Threads : c \in hand[t] \cup kept[t]}
        IN  /\ Cardinality(holders) + (IF c \in subscribers THEN 1 ELSE 0) <= 1
            /\ \A t \in Threads : c \notin hand[t] \cap kept[t]
            /\ c \in open /\ attach[c] # -1
                 => c \in subscribers \/ holders # {}

\* A subscriber hears each entry at most once and in the trail's order, however
\* many threads push.
HeardInOrder ==
    \A c \in Conns : \A i, j \in DOMAIN inbox[c] :
        i < j => inbox[c][i] < inbox[c][j]

\* An entry carries an intent only while the request that declared it is still being
\* handled: no label outlives its request, however requests set and withdraw the one
\* field they share.  (Whose entry it is, the field does not know: a tick, or another
\* request, that records meanwhile is labelled with it, or finds it withdrawn.)
LabelsLive ==
    [][trail' # trail =>
         LET label == trail'[Len(trail')].intent
         IN  label = None \/ pc[label] \in {"marked", "handled"}]_fanVars

\* What was over before a connection subscribed is not news to it.
NoStaleBurst ==
    \A c \in Conns : \A i \in DOMAIN inbox[c] : inbox[c][i] \notin before[c]

\* server.rs, fan_out: every notable entry since the last push goes to "every
\* subscriber".  (Refuted: a push that finds the list taken out moves the cursor
\* over entries that the sockets outside the list never get.)
AllHear ==
    (\A t \in Threads : pc[t] = "rest") =>
        \A c \in open : attach[c] # -1 =>
            \A n \in Seqs : n >= attach[c]
                => \E i \in DOMAIN inbox[c] : inbox[c][i] = n
=============================================================================
