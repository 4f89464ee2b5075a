----------------------------- MODULE Compaction -----------------------------
(***************************************************************************)
(* What the five compaction strategies do to a conversation               *)
(* (core/compact/strategy.rs and the part of core/compact/mod.rs that      *)
(* carries a plan out), over any sequence of messages and compactions.     *)
(*                                                                         *)
(* A message keeps what the strategies look at: who it is from, whether it *)
(* calls tools or answers a call, whether it is a bare acknowledgement.    *)
(* Positions count from 0, as in the code.  That the conversation may      *)
(* change while a compaction is under way is in SubThread.                 *)
(* Every call here is of a tool whose results may be cleared (the seven of *)
(* COMPACTABLE_TOOLS); a call and its results are added in one step.       *)
(***************************************************************************)
EXTENDS Naturals, FiniteSets, SequencesExt, FiniteSetsExt

CONSTANTS
    PreserveRecent,  \* cfg.preserve_recent (20)
    MaxWalkBack,     \* max_walk_back of adjust_cutoff_for_tool_pair (8)
    KeepRecent,      \* keep_recent of MicrocompactStrategy (5)
    MaxCalls,        \* bound: tool calls in one message
    MaxMessages      \* bound: messages ever added

ASSUME CompactionConstants ==
    {PreserveRecent, MaxWalkBack, KeepRecent, MaxCalls, MaxMessages} \subseteq Nat

VARIABLES
    messages,  \* session.messages
    added,     \* messages added so far
    panicked   \* a strategy has panicked

conversation == <<messages, added, panicked>>

Kinds == {"system", "user", "text", "call", "result"}

Message(id, kind) ==
    [id |-> id, kind |-> kind, calls |-> 0, of |-> <<0, 0>>, trivial |-> FALSE,
     cleared |-> FALSE]

MessagesTypeOK ==
    /\ added \in 0 .. MaxMessages /\ panicked \in BOOLEAN
    /\ \A i \in DOMAIN messages :
         messages[i] \in [id: 1 .. MaxMessages, kind: Kinds, calls: 0 .. MaxCalls,
                          of: (0 .. MaxMessages) \X (0 .. MaxCalls),
                          trivial: BOOLEAN, cleared: BOOLEAN]

-----------------------------------------------------------------------------
(* The conversation grows. *)

Adds(new) ==
    /\ added + Len(new) <= MaxMessages
    /\ messages' = messages \o new
    /\ added' = added + Len(new)
    /\ UNCHANGED panicked

Says(kind, trivial) ==
    Adds(<<[Message(added + 1, kind) EXCEPT !.trivial = trivial]>>)

\* One message with n tool calls, and the n results.
Round(n) ==
    Adds(<<[Message(added + 1, "call") EXCEPT !.calls = n]>>
         \o [j \in 1 .. n |-> [Message(added + 1 + j, "result") EXCEPT
                                 !.of = <<added + 1, j>>]])

-----------------------------------------------------------------------------
(* The strategies. *)

AtPosition(h, i) == h[i + 1]

Positions(h) == 0 .. Len(h) - 1

\* The i-th of them, in order.
Nth(keep, i) == CHOOSE p \in keep : Cardinality({q \in keep : q < p}) = i - 1

\* What is at the positions of keep_indices.
Kept(h, keep) == [i \in 1 .. Cardinality(keep) |-> AtPosition(h, Nth(keep, i))]

\* keep_indices: the first message and everything from the cutoff on.
FromCutoff(h, cutoff) == {0} \cup cutoff .. Len(h) - 1

Window(h, cutoff) == Kept(h, FromCutoff(h, cutoff))

AdjustOverCalls(h, cutoff) ==
    LET Pairs(k) == \A j \in 0 .. k - 1 :
            AtPosition(h, cutoff - j).kind \in {"result", "call"}
    IN  cutoff - Max({k \in 0 .. Min({MaxWalkBack, cutoff}) : Pairs(k)})

\* adjust_cutoff_for_tool_pair: back over results, so far and no further.
AdjustCutoff(h, cutoff) ==
    LET Results(k) == \A j \in 0 .. k - 1 :
            cutoff < Len(h) /\ AtPosition(h, cutoff - j).kind = "result"
        steps == Max({k \in 0 .. Min({MaxWalkBack, cutoff}) : Results(k)})
    IN  cutoff - steps

TooShort(h) == Len(h) < 3

\* SlidingWindow and SlidingReflect: where the tail begins, if there is a middle.
SlideCutoff(h) == AdjustCutoff(h, Len(h) - PreserveRecent)

NothingToSlide(h) == TooShort(h) \/ PreserveRecent + 1 >= Len(h)

Preserved(h) == Min({PreserveRecent, Len(h) - 2})

\* An acknowledgement in the middle; system messages and tool pairs are kept.
Culled(h) == {i \in 1 .. Len(h) - Preserved(h) - 1 : AtPosition(h, i).trivial}

\* The calls of the conversation, in order, as pairs of message and number.
CallIds(h) ==
    UNION {{m.id} \X (1 .. m.calls) : m \in {n \in Range(h) : n.kind = "call"}}

Precedes(a, b) == a[1] < b[1] \/ (a[1] = b[1] /\ a[2] < b[2])

OldCallsLoosely(h) ==
    {c \in CallIds(h) :
        Cardinality({d \in CallIds(h) : Precedes(c, d)}) >= KeepRecent - 1}

\* All but the last KeepRecent calls.
OldCalls(h) ==
    {c \in CallIds(h) : Cardinality({d \in CallIds(h) : Precedes(c, d)}) >= KeepRecent}

Microcompacted(h) ==
    [i \in DOMAIN h |-> [h[i] EXCEPT !.cleared = @ \/ h[i].of \in OldCalls(h)]]

\* The note goes behind everything that was kept.
WithNote(kept, note) == kept \o note

-----------------------------------------------------------------------------
(* compact: what becomes of the messages. *)

Replace(new, notes) ==
    /\ messages' = new
    /\ added' = added + notes
    /\ UNCHANGED panicked

Note == <<Message(added + 1, "system")>>

CompactMicro ==
    /\ Microcompacted(messages) # messages
    /\ Replace(Microcompacted(messages), 0)

CompactCull ==
    /\ ~TooShort(messages) /\ Culled(messages) # {}
    /\ Replace(Kept(messages, Positions(messages) \ Culled(messages)), 0)

CompactSlide ==
    /\ ~NothingToSlide(messages) /\ SlideCutoff(messages) > 1
    /\ Replace(Window(messages, SlideCutoff(messages)), 0)

\* With the note of what was about to be lost.  The model's silence or failure
\* leaves the plain slide; a cutoff walked back to the very first message is a
\* slice that ends before it begins.
CompactReflect ==
    /\ ~NothingToSlide(messages)
    /\ \/ /\ SlideCutoff(messages) > 1 /\ added < MaxMessages
          /\ Replace(WithNote(Window(messages, SlideCutoff(messages)), Note), 1)
       \/ /\ SlideCutoff(messages) = 0
          /\ panicked' = TRUE
          /\ UNCHANGED <<messages, added>>

\* A summary; where the model fails, nothing changes.
CompactSummary ==
    /\ ~TooShort(messages) /\ added < MaxMessages
    /\ Replace(WithNote(Window(messages, Len(messages) - Preserved(messages)), Note), 1)

Slides == CompactSlide \/ CompactReflect

Compact == CompactMicro \/ CompactCull \/ Slides \/ CompactSummary

CompactionInit == messages = <<>> /\ added = 0 /\ panicked = FALSE

CompactionNext ==
    \/ \E kind \in {"user", "text"}, trivial \in BOOLEAN : Says(kind, trivial)
    \/ messages = <<>> /\ Says("system", FALSE)
    \/ messages # <<>> /\ \E n \in 1 .. MaxCalls : Round(n)
    \/ Compact

CompactionSpec == CompactionInit /\ [][CompactionNext]_conversation

-----------------------------------------------------------------------------
(* Properties. *)

\* Whatever was compacted, in whatever order: who she is, the first message, is
\* still the first; nothing is there twice or out of order.
OrderKept ==
    /\ messages # <<>> => messages[1].id = 1
    /\ \A i, j \in DOMAIN messages : i < j => messages[i].id < messages[j].id

\* The results and calls of a conversation that have lost the other side.
Parted(h) ==
    {<<m.id, 0>> : m \in {n \in Range(h) : n.kind = "call" /\ \E j \in 1 .. n.calls :
                            \A r \in Range(h) : r.of # <<n.id, j>>}}
    \cup {m.of : m \in {n \in Range(h) : n.kind = "result" /\
                          \A c \in Range(h) : c.id # n.of[1]}}

\* Culling and clearing part no call from a result; a slide parts one only where
\* the call has more results than the walk goes back over, even after earlier
\* compactions have left their marks.
PairsKept ==
    [][(CompactMicro \/ CompactCull \/ Slides) =>
         \A p \in Parted(messages') \ Parted(messages) :
           Slides /\ \E m \in Range(messages) : m.id = p[1] /\ m.calls > MaxWalkBack
      ]_conversation

LaterResults(i) == {j \in DOMAIN messages : i < j /\ messages[j].kind = "result"}

\* The latest results are never the cleared ones: behind a cleared one there are as
\* many as are to be kept.
LatestIntact ==
    \A i \in DOMAIN messages :
        messages[i].kind = "result" /\ messages[i].cleared
        => Cardinality(LaterResults(i)) >= KeepRecent

\* However often a history is compacted, it stays one history and ends as it was.
MessagesInv == MessagesTypeOK /\ OrderKept /\ LatestIntact

\* A slide panics only on a conversation in which something, a summary or a call
\* with too many results, has already parted a pair.
PanicsOnlyAfterParting ==
    [][panicked' # panicked => Parted(messages) # {}]_conversation

\* Whatever is compacted after whatever else, calls and results go together, and what
\* can part them is also the only thing that can make a slide panic.
PairsHold == PairsKept /\ PanicsOnlyAfterParting
=============================================================================
