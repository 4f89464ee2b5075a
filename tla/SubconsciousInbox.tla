------------------------- MODULE SubconsciousInbox -------------------------
(***************************************************************************)
(* The boxes through which the subconscious reaches the primary            *)
(* (core/subconscious/mod.rs) and the end of a subconscious pass that uses *)
(* them (on_response in server/consciousness_engine.rs): its observations  *)
(* are queued one by one, the most pressing thought of all is surfaced,    *)
(* and marked as delivered.  A local message takes all that is urgent along *)
(* (drain_intrusive_surfacings in backend/local/consciousness.rs).          *)
(*                                                                         *)
(* A box is a file that is read, changed and written; between any two of   *)
(* these steps another pass may run or the server may stop.  A write is    *)
(* refused by the file's character limit or read_only, or it happens and   *)
(* its git commit fails: the caller cannot tell the two apart.  A file that *)
(* is being written is cut short first: one who reads it then, or after a  *)
(* stop, finds nothing.                                                    *)
(***************************************************************************)
EXTENDS Naturals, FiniteSets, SequencesExt, FiniteSetsExt

CONSTANTS
    Inboxers,      \* passes of one agent that may overlap
    Thoughts,      \* what she may notice: an observation has a new id each time, and a
                   \* name here is used again once nothing is left of its last one
    Beat,          \* the heartbeat of a quiet pass
    MaxAtOnce,     \* bound: observations of one pass
    BoxLimit,      \* items until a box reaches the limit of its frontmatter
    LedgerMax,     \* SENT_LEDGER_MAX (30)
    MaxHalts,      \* bound: times the server stops
    WritesFail     \* a write may be refused, a commit may fail

ASSUME InboxConstants ==
    /\ Beat \notin Thoughts /\ {MaxAtOnce, BoxLimit, LedgerMax} \subseteq Nat \ {0}
    /\ LedgerMax <= BoxLimit /\ MaxHalts \in Nat /\ WritesFail \in BOOLEAN

VARIABLES
    box,       \* the files: pending.md, intrusive.md, sent.md
    inboxer,   \* what each pass is doing
    queued,    \* thoughts whose write to a box went through
    recorded,  \* thoughts that have been in the ledger
    dropped,   \* thoughts that went with a box written from an older copy of it or cut
               \* short by a stop (nothing reads these three)
    halts      \* times the server has stopped

tally  == <<queued, recorded, dropped>>
inbox == <<box, inboxer, tally, halts>>

Urgencies == {"critical", "high", "low"}
Items     == (Thoughts \X Urgencies) \cup {<<Beat, "low">>}
Boxes     == {"pending", "intrusive", "sent"}

NoFiles == [b \in Boxes |-> <<>>]

\* A pass: where it is, what it has still to queue, the boxes as it read them, the
\* thoughts it has surfaced and not yet marked.
Resting == [at |-> "rest", todo |-> <<>>, read |-> NoFiles, top |-> <<>>]

InboxTypeOK ==
    /\ \A b \in Boxes : box[b] \in Seq(Items)
    /\ Len(box["sent"]) <= LedgerMax
    /\ \A p \in Inboxers :
         /\ inboxer[p].at \in {"rest", "queue", "write", "pick", "mark", "sent", "remove"}
         /\ inboxer[p].todo \in Seq(Items) /\ inboxer[p].top \in Seq(Items)
         /\ \A b \in Boxes : inboxer[p].read[b] \in Seq(Items)
    /\ queued \subseteq Thoughts /\ recorded \subseteq Thoughts
    /\ dropped \subseteq Thoughts /\ halts \in 0 .. MaxHalts

-----------------------------------------------------------------------------

Goes(p, s) == inboxer' = [inboxer EXCEPT ![p] = s]

\* The outcomes of writing a box: done, done but not committed, refused.
Outcomes(items) ==
    IF Len(items) > BoxLimit THEN {"refused"}
    ELSE {"ok"} \cup (IF WritesFail THEN {"uncommitted", "refused"} ELSE {})

WriteBox(b, items, outcome) ==
    box' = IF outcome = "refused" THEN box ELSE [box EXCEPT ![b] = items]

\* The thoughts among some items.
Named(items) == Thoughts \cap {item[1] : item \in items}

\* What is dropped from a box by writing what was made of an older copy of it.
DroppedBy(s, b, outcome) ==
    IF outcome = "refused" THEN {} ELSE Named(Range(box[b]) \ Range(s.read[b]))

\* Something is left of a thought: in a box, or in what a pass holds of one.
Left(t) ==
    \/ t \in Named(Range(box["pending"]) \cup Range(box["intrusive"]))
    \/ \E p \in Inboxers :
         LET s == inboxer[p] IN
         \/ t \in Named(Range(s.todo) \cup Range(s.top))
         \/ t \in Named(Range(s.read["pending"]) \cup Range(s.read["intrusive"]))

Target(item) == IF item[2] = "low" THEN "pending" ELSE "intrusive"

\* Where mark_delivered found the thought.
RemovesFrom(s) ==
    IF Head(s.top) \in Range(s.read["intrusive"]) THEN "intrusive" ELSE "pending"

\* The file a pass is writing.
Writing(s) ==
    CASE s.at = "write"  -> {Target(Head(s.todo))}
      [] s.at = "sent"   -> {"sent"}
      [] s.at = "remove" -> {RemovesFrom(s)}
      [] OTHER           -> {}

UnderWrite == UNION {Writing(inboxer[p]) : p \in Inboxers}

\* The boxes, some of them cut short.
Cut(bs) == [b \in Boxes |-> IF b \in bs THEN <<>> ELSE box[b]]

\* What she noticed, of any urgency; nothing is a heartbeat.
Notice(p, new) ==
    /\ inboxer[p].at = "rest"
    /\ \A i \in DOMAIN new : ~Left(new[i][1])
    /\ \A i, j \in DOMAIN new : new[i][1] = new[j][1] => i = j
    /\ Goes(p, [Resting EXCEPT !.at = "queue",
                            !.todo = IF new = <<>> THEN << <<Beat, "low">> >> ELSE new])
    /\ queued' = queued \ Named(Range(new))
    /\ recorded' = recorded \ Named(Range(new))
    /\ dropped' = dropped \ Named(Range(new))
    /\ UNCHANGED <<box, halts>>

QueueRead(p) ==
    LET s == inboxer[p] IN
    /\ s.at = "queue" /\ s.todo # <<>>
    /\ \E cut \in SUBSET UnderWrite : Goes(p, [s EXCEPT !.at = "write", !.read = Cut(cut)])
    /\ UNCHANGED <<box, tally, halts>>

QueueWrite(p) ==
    LET s == inboxer[p]
        item == Head(s.todo)
        new  == Append(s.read[Target(item)], item)
    IN  /\ s.at = "write"
        /\ \E outcome \in Outcomes(new) :
             /\ WriteBox(Target(item), new, outcome)
             /\ queued' = IF outcome = "refused" THEN queued
                          ELSE queued \cup Named({item})
             /\ dropped' = dropped \cup DroppedBy(s, Target(item), outcome)
        /\ Goes(p, [s EXCEPT !.at = "queue", !.todo = Tail(@), !.read = NoFiles])
        /\ UNCHANGED <<recorded, halts>>

Rank(item) == CASE item[2] = "critical" -> 3 [] item[2] = "high" -> 2 [] item[2] = "low" -> 1

\* pick_top: max_by_key gives the last of the greatest.
TopOf(items) ==
    CHOOSE i \in DOMAIN items :
        \A j \in DOMAIN items :
            \/ Rank(items[i]) > Rank(items[j])
            \/ Rank(items[i]) = Rank(items[j]) /\ j <= i

\* next_to_surface: the intrusive box before the pending one.
NextBox(b) == IF b["intrusive"] # <<>> THEN b["intrusive"] ELSE b["pending"]

\* The thought goes to the cockpit and into the turn; then it is marked.
Surface(p) ==
    LET s == inboxer[p] IN
    /\ s.at = "queue" /\ s.todo = <<>>
    /\ \E cut \in SUBSET UnderWrite :
         LET items == NextBox(Cut(cut)) IN
         IF items = <<>> THEN Goes(p, Resting)
         ELSE Goes(p, [s EXCEPT !.at = "mark", !.top = <<items[TopOf(items)]>>])
    /\ UNCHANGED <<box, tally, halts>>

\* A message of the local surface: every intrusive item goes with it, marked one by one.
Drain(p) ==
    /\ inboxer[p].at = "rest" /\ box["intrusive"] # <<>>
    /\ Goes(p, [Resting EXCEPT !.at = "mark", !.top = box["intrusive"]])
    /\ UNCHANGED <<box, tally, halts>>

\* The next one to mark, whether or not this one could be.
Marked(s) ==
    IF Len(s.top) = 1 THEN Resting
    ELSE [s EXCEPT !.at = "mark", !.top = Tail(@), !.read = NoFiles]

\* mark_delivered: all three boxes are read; an item another pass has delivered is
\* none of its business.
MarkRead(p) ==
    LET s == inboxer[p] IN
    /\ s.at = "mark"
    /\ \E cut \in SUBSET UnderWrite :
         IF Head(s.top) \in Range(Cut(cut)["intrusive"] \o Cut(cut)["pending"])
           THEN Goes(p, [s EXCEPT !.at = "sent", !.read = Cut(cut)])
           ELSE Goes(p, Marked(s))
    /\ UNCHANGED <<box, tally, halts>>

\* The ledger rolls.
Roll(items) ==
    IF Len(items) > LedgerMax THEN SubSeq(items, Len(items) - LedgerMax + 1, Len(items))
                              ELSE items

AnyOutcome(outcome) == TRUE

Recorded(outcome) == outcome = "ok"

\* Record first: where that fails the item stays where it is ...
MarkSent(p) ==
    LET s   == inboxer[p]
        new == Roll(Append(s.read["sent"], Head(s.top)))
    IN
    /\ s.at = "sent"
    /\ \E outcome \in Outcomes(new) :
         /\ WriteBox("sent", new, outcome)
         /\ recorded' = IF outcome = "refused" THEN recorded
                        ELSE recorded \cup Named({Head(s.top)})
         /\ Goes(p, IF Recorded(outcome) THEN [s EXCEPT !.at = "remove"] ELSE Marked(s))
    /\ UNCHANGED <<queued, dropped, halts>>

StillThere(items, item) == items

\* Items have ids; of equal ones here the last is the one that was surfaced.
Without(items, item) == RemoveAt(items, Max({i \in DOMAIN items : items[i] = item}))

\* ... and then remove.
MarkRemove(p) ==
    LET s    == inboxer[p]
        item == Head(s.top)
        from == RemovesFrom(s)
        new  == Without(s.read[from], item)
    IN  /\ s.at = "remove"
        /\ \E outcome \in Outcomes(new) :
             /\ WriteBox(from, new, outcome)
             /\ dropped' = dropped \cup DroppedBy(s, from, outcome)
        /\ Goes(p, Marked(s))
        /\ UNCHANGED <<queued, recorded, halts>>

\* The server stops: the files stay, but for one that is being written.
InboxStop ==
    /\ halts < MaxHalts
    /\ halts' = halts + 1
    /\ inboxer' = [p \in Inboxers |-> Resting]
    /\ \E cut \in SUBSET UnderWrite :
         /\ box' = Cut(cut)
         /\ dropped' = dropped \cup Named(UNION {Range(box[b]) : b \in cut \ {"sent"}})
    /\ UNCHANGED <<queued, recorded>>

InboxInit ==
    /\ box = NoFiles /\ inboxer = [p \in Inboxers |-> Resting]
    /\ queued = {} /\ recorded = {} /\ dropped = {} /\ halts = 0

Observations ==
    UNION {[1 .. n -> Thoughts \X Urgencies] : n \in 0 .. MaxAtOnce}

Beginning(p) == \E new \in Observations : Notice(p, new)

InboxStep(p) ==
    \/ QueueRead(p) \/ QueueWrite(p) \/ Surface(p)
    \/ MarkRead(p) \/ MarkSent(p) \/ MarkRemove(p)

InboxNext == (\E p \in Inboxers : Beginning(p) \/ Drain(p) \/ InboxStep(p)) \/ InboxStop

\* The boxes take what is written to them, now and then.
Records(p) == MarkSent(p) /\ inboxer'[p].at = "remove"
Removes(p) == MarkRemove(p) /\ box' # box

\* Turns go on, and so passes do.
InboxSpec ==
    /\ InboxInit /\ [][InboxNext]_inbox
    /\ \A p \in Inboxers :
         /\ WF_inbox(Beginning(p)) /\ WF_inbox(InboxStep(p))
         /\ SF_inbox(Records(p)) /\ SF_inbox(Removes(p))

-----------------------------------------------------------------------------
(* Properties. *)

WaitsIn(t, b) == \E i \in DOMAIN box[b] : box[b][i][1] = t

\* No refusal, failed commit or stop between any two steps loses a thought: one that
\* was queued is in a box until it has been in the ledger, unless the box it was in
\* was written from a copy read before the thought was there, or was cut short.
ThoughtKept ==
    \A t \in queued :
        \/ WaitsIn(t, "pending") \/ WaitsIn(t, "intrusive")
        \/ t \in recorded \cup dropped

\* A pass that runs alone, and is not stopped, drops nothing.
AloneKept == (\A p, q \in Inboxers : p = q) /\ halts = 0 => dropped = {}

\* The boxes hold what was queued, through every stop between two of their files.
InboxInv == InboxTypeOK /\ ThoughtKept /\ AloneKept

\* Nothing surfaces before something more urgent that waits in either box, but for what
\* waits in a box that another pass is writing at that moment.
UrgentFirst ==
    [][\A p \in Inboxers : inboxer[p].at = "queue" /\ inboxer'[p].at = "mark" =>
         \A b \in {"pending", "intrusive"} \ UnderWrite : \A i \in DOMAIN box[b] :
           Rank(box[b][i]) <= Rank(Head(inboxer'[p].top))]_inbox

Surfaces(item) == \E p \in Inboxers : item \in Range(inboxer[p].top)

\* She notices something new that is as urgent.
NewAsUrgent(item) ==
    \E p \in Inboxers :
        /\ Beginning(p)
        /\ \E new \in Range(inboxer'[p].todo) : Rank(new) >= Rank(item)

\* An urgent thought surfaces in the end, unless its box is cut short, whatever less
\* urgent ones keep coming and however often a ledger that refuses brings others back;
\* only new ones that are as urgent, noticed for ever, may come before it for ever.
UrgentHeard ==
    \A item \in Thoughts \X {"critical", "high"} :
        \/ item \in Range(box["intrusive"]) ~> Surfaces(item) \/ item[1] \in dropped
        \/ []<><<NewAsUrgent(item)>>_inbox

\* An urgent thought surfaces, and before any that is less urgent.
UrgentServed == UrgentFirst /\ UrgentHeard
=============================================================================
