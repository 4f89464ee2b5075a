------------------------------ MODULE SubThread ------------------------------
(***************************************************************************)
(* The subconscious's own conversation, in memory and on disk              *)
(* (server/session_manager.rs, core/conversation/store.rs), under the      *)
(* passes that read and extend it (subconscious_tool_loop in               *)
(* server/consciousness_engine.rs), the compactions that cut it            *)
(* (core/compact/mod.rs) and the restarts it has to survive.               *)
(*                                                                         *)
(* Passes of one agent overlap when two of its conversations end a turn at *)
(* about the same time.  Every add_message hands a copy of the whole       *)
(* thread to a task of its own that truncates the file, writes it and      *)
(* rewrites the record; nothing orders these tasks.                        *)
(***************************************************************************)
EXTENDS Naturals, FiniteSets, SequencesExt

CONSTANTS
    Passes,    \* post-turn passes
    Earlier,   \* one of them may have ended in an earlier process
    Threads,   \* conversation ids
    Nothing,   \* no thread, no file
    Torn,      \* a file that does not parse
    MaxStops   \* bound: times the server stops

\* What a pass adds, its exchange and its answer, and the note of a compaction.
Messages == Passes \X {"user", "agent", "note"}
History  == Seq(Messages)

ASSUME ThreadConstants ==
    /\ Earlier \subseteq Passes
    /\ Nothing \notin Threads /\ Torn # Nothing /\ MaxStops \in Nat
    /\ {Nothing, Torn} \cap History = {}

VARIABLES
    live,    \* sessions: the messages of each thread in memory, or Nothing
    recent,  \* the threads in memory by updated_at, latest last
    file,    \* messages.jsonl
    record,  \* conversation.json: none, one that parses, or one that does not
    saves,   \* save tasks under way
    pass,    \* what each pass is doing
    cut,     \* threads whose history was rewritten and not only extended
    stops    \* times the server has stopped

threadVars == <<live, recent, file, record, saves, pass, cut, stops>>

memory == <<live, recent>>
onDisk == <<file, record>>

ThreadTypeOK ==
    /\ \A c \in Threads :
         /\ live[c] = Nothing \/ live[c] \in History
         /\ file[c] \in {Nothing, Torn} \/ file[c] \in History
         /\ record[c] \in {"none", "broken", "whole"}
    /\ Range(recent) = {c \in Threads : live[c] # Nothing} /\ IsInjective(recent)
    /\ \A s \in saves :
         s.thread \in Threads /\ s.messages \in History \cup {Nothing}
            /\ s.at \in {"open", "write", "record", "rewrite"}
    /\ \A p \in Passes :
         /\ pass[p].at \in {"new", "find", "load", "insert", "create", "ask", "read",
                            "cut", "user", "agent", "over", "lost"}
         /\ pass[p].thread \in Threads \cup {Nothing}
    /\ cut \subseteq Threads /\ stops \in 0 .. MaxStops

-----------------------------------------------------------------------------
(* Saving: save_messages, then the record. *)

Save(c, messages, at) == [thread |-> c, messages |-> messages, at |-> at]

Moves(s, at) == saves' = (saves \ {s}) \cup {[s EXCEPT !.at = at]}

\* The file is truncated ...
SaveOpen(s) ==
    /\ s.at = "open"
    /\ file' = [file EXCEPT ![s.thread] = <<>>]
    /\ Moves(s, "write")
    /\ UNCHANGED <<memory, record, pass, cut, stops>>

\* What is left when one write lands on another that began the file anew before it:
\* the longer text, where one continues the other; else it, or a torn line.
Overlaid(old, new) ==
    IF old = <<>> \/ old = Nothing THEN {new}
    ELSE IF old = Torn THEN {Torn, new}
    ELSE IF IsPrefix(new, old) THEN {old}
    ELSE IF IsPrefix(old, new) THEN {new}
    ELSE {new, Torn}

\* ... and written.
SaveWrite(s) ==
    /\ s.at = "write"
    /\ \E text \in Overlaid(file[s.thread], s.messages) :
         file' = [file EXCEPT ![s.thread] = text]
    /\ Moves(s, "record")
    /\ UNCHANGED <<memory, record, pass, cut, stops>>

\* Another task is about to write this record, which was whole when that one read it.
Rewritten(c) == \E s \in saves : s.thread = c /\ s.at = "rewrite" /\ s.messages # Nothing

\* The record is read, one that does not parse is left alone, and truncated; it may have
\* been read before another task truncated it ...
SaveRecord(s) ==
    /\ s.at = "record"
    /\ \/ /\ record[s.thread] = "whole" \/ Rewritten(s.thread)
          /\ record' = [record EXCEPT ![s.thread] = "broken"]
          /\ Moves(s, "rewrite")
       \/ /\ record[s.thread] # "whole"
          /\ saves' = saves \ {s} /\ UNCHANGED record
    /\ UNCHANGED <<memory, file, pass, cut, stops>>

\* ... and written: one that another has written since is not always as long as this, and
\* then its end stays behind this one's.  (A new thread's record is only this.)
SaveRewrite(s) ==
    /\ s.at = "rewrite"
    /\ \E text \in {"whole"} \cup (IF record[s.thread] = "whole" THEN {"broken"} ELSE {}) :
         record' = [record EXCEPT ![s.thread] = text]
    /\ saves' = saves \ {s}
    /\ UNCHANGED <<memory, file, pass, cut, stops>>

Saves(s) == SaveOpen(s) \/ SaveWrite(s) \/ SaveRecord(s) \/ SaveRewrite(s)

-----------------------------------------------------------------------------
(* Memory. *)

\* A thread is in it once.
Remove1(s, c) ==
    IF c \in Range(s) THEN RemoveAt(s, CHOOSE i \in DOMAIN s : s[i] = c) ELSE s

Lengthened(c, m) == Append(live[c], m)

Copied(c, m) == Lengthened(c, m)

\* add_message: in memory at once, on disk by a task.
ThreadMessage(c, m) ==
    /\ live' = [live EXCEPT ![c] = Lengthened(c, m)]
    /\ recent' = Append(Remove1(recent, c), c)
    /\ saves' = saves \cup {Save(c, Copied(c, m), "open")}

ThreadAt(p, at) == pass' = [pass EXCEPT ![p].at = at]

On(p, at, c) == pass' = [pass EXCEPT ![p].at = at, ![p].thread = c]

BeginPass(p) ==
    /\ pass[p].at = "new"
    /\ ThreadAt(p, "find")
    /\ UNCHANGED <<memory, onDisk, saves, cut, stops>>

Latest == Last(recent)

\* subconscious_session_id: the latest thread in memory, or what the disk has.
Find(p) ==
    /\ pass[p].at = "find"
    /\ IF recent # <<>> THEN On(p, "ask", Latest) ELSE ThreadAt(p, "load")
    /\ UNCHANGED <<memory, onDisk, saves, cut, stops>>

InMemory(c) == live[c] # Nothing

\* load_persisted: a thread with a readable record that is not in memory is read ...
Load(p, c) ==
    /\ pass[p].at = "load"
    /\ record[c] = "whole" /\ ~InMemory(c)
    /\ pass' = [pass EXCEPT ![p].at = "insert", ![p].thread = c, ![p].read = file[c]]
    /\ UNCHANGED <<memory, onDisk, saves, cut, stops>>

\* A file that cannot be read is an empty history.
Read(text) == IF text \in {Nothing, Torn} THEN <<>> ELSE text

\* ... and put there, whatever is there by now.  It is older than what is.
Insert(p) ==
    LET c == pass[p].thread IN
    /\ pass[p].at = "insert"
    /\ live' = [live EXCEPT ![c] = Read(pass[p].read)]
    /\ recent' = <<c>> \o Remove1(recent, c)
    /\ pass' = [pass EXCEPT ![p].at = "load", ![p].thread = Nothing, ![p].read = <<>>]
    /\ cut' = IF live[c] = Nothing THEN cut ELSE cut \cup {c}
    /\ UNCHANGED <<onDisk, saves, stops>>

\* All of them are in memory: the latest, or ...
Loaded(p) ==
    /\ pass[p].at = "load"
    /\ \A c \in Threads : record[c] = "whole" => live[c] # Nothing
    /\ IF recent # <<>> THEN On(p, "ask", Latest) ELSE ThreadAt(p, "create")
    /\ UNCHANGED <<memory, onDisk, saves, cut, stops>>

\* ... a new one, with an id nobody has used.
Create(p) ==
    /\ pass[p].at = "create"
    /\ \E c \in Threads :
         /\ live[c] = Nothing /\ file[c] = Nothing /\ record[c] = "none"
         /\ live' = [live EXCEPT ![c] = <<>>]
         /\ recent' = Append(recent, c)
         /\ saves' = saves \cup {Save(c, Nothing, "rewrite")}
         /\ On(p, "ask", c)
    /\ UNCHANGED <<onDisk, cut, stops>>

\* The model answers; or the pass fails, or halts, and leaves nothing; or she wants,
\* or needs, her thread compacted.
Ask(p) ==
    /\ pass[p].at = "ask"
    /\ \E at \in {"user", "over", "read"} : ThreadAt(p, at)
    /\ UNCHANGED <<memory, onDisk, saves, cut, stops>>

\* The exchange is appended, message by message.
Persist(p) ==
    LET c == pass[p].thread IN
    /\ pass[p].at \in {"user", "agent"}
    /\ ThreadMessage(c, <<p, pass[p].at>>)
    /\ ThreadAt(p, IF pass[p].at = "user" THEN "agent" ELSE "over")
    /\ UNCHANGED <<onDisk, cut, stops>>

\* compact: the messages of the latest thread are copied ...
CompactRead(p) ==
    /\ pass[p].at = "read"
    /\ pass' = [pass EXCEPT ![p].at = "cut", ![p].read = live[Latest]]
    /\ UNCHANGED <<memory, onDisk, saves, cut, stops>>

MergedPlan(p, h) == {live[Latest] \o SubSeq(h, k, Len(h)) : k \in 2 .. Len(h)}

\* The first message and the end, from the k-th on.
FirstAndFrom(h, k) == <<Head(h)>> \o SubSeq(h, k, Len(h))

\* What a plan leaves: the first message, the end, perhaps a note (Compaction).
Planned(p, h) ==
    UNION {{FirstAndFrom(h, k), Append(FirstAndFrom(h, k), <<p, "note">>)} :
             k \in 3 .. Len(h)}

\* ... and, after the model has looked at them, put in place of those of the thread
\* that is the latest by then.  Nothing is saved.  If she asked for it her pass goes on.
CompactWrite(p) ==
    /\ pass[p].at = "cut"
    /\ \/ UNCHANGED <<live, cut>>
       \/ \E new \in Planned(p, pass[p].read) :
            live' = [live EXCEPT ![Latest] = new] /\ cut' = cut \cup {Latest}
    /\ \E at \in {"user", "over"} :
         pass' = [pass EXCEPT ![p].at = at, ![p].read = <<>>]
    /\ UNCHANGED <<recent, onDisk, saves, stops>>

\* The server stops; what was in memory is gone, and so is what was under way.
ServerStops ==
    /\ stops < MaxStops
    /\ stops' = stops + 1
    /\ live' = [c \in Threads |-> Nothing]
    /\ recent' = <<>> /\ saves' = {}
    /\ pass' = [p \in Passes |-> IF pass[p].at \in {"new", "over"} THEN pass[p]
                                 ELSE [at |-> "lost", thread |-> Nothing, read |-> <<>>]]
    /\ UNCHANGED <<onDisk, cut>>

-----------------------------------------------------------------------------

\* What the earlier process left.
Left(p) == << <<p, "user">>, <<p, "agent">> >>

ThreadInit ==
    /\ live = [c \in Threads |-> Nothing]
    /\ recent = <<>>
    /\ \/ /\ file = [c \in Threads |-> Nothing]
          /\ record = [c \in Threads |-> "none"]
       \/ \E p \in Earlier :
            LET old == CHOOSE c \in Threads : TRUE IN
            /\ file = [c \in Threads |-> IF c = old THEN Left(p) ELSE Nothing]
            /\ record = [c \in Threads |-> IF c = old THEN "whole" ELSE "none"]
    /\ saves = {}
    /\ pass = [p \in Passes |-> [at |-> IF p \in Earlier THEN "over" ELSE "new",
                                 thread |-> Nothing, read |-> <<>>]]
    /\ cut = {} /\ stops = 0

Works(p) ==
    \/ Find(p) \/ (\E c \in Threads : Load(p, c)) \/ Insert(p) \/ Loaded(p)
    \/ Create(p) \/ Ask(p) \/ Persist(p) \/ CompactRead(p) \/ CompactWrite(p)

ThreadNext ==
    \/ \E p \in Passes : BeginPass(p) \/ Works(p)
    \/ \E s \in saves : Saves(s)
    \/ ServerStops

ThreadSpec == ThreadInit /\ [][ThreadNext]_threadVars

-----------------------------------------------------------------------------
(* Properties. *)

ThreadOrdered(h) ==
    \A i, j \in DOMAIN h : i < j =>
        h[i] # h[j] /\ ~(h[i][1] = h[j][1] /\ h[i][2] = "agent" /\ h[j][2] = "user")

\* However passes, loads, saves, compactions and restarts overlap, no thread, in
\* memory or on disk, says anything twice or an answer before its exchange.
InOrder ==
    \A c \in Threads :
        /\ live[c] # Nothing => ThreadOrdered(live[c])
        /\ file[c] \notin {Nothing, Torn} => ThreadOrdered(file[c])

\* The unordered saves never leave a torn file, and the file is always a beginning
\* of what is in memory, as long as nobody rewrote the history: they all write
\* beginnings of one text.
FileBegins ==
    \A c \in Threads \ cut :
        /\ file[c] # Torn
        /\ live[c] # Nothing /\ file[c] # Nothing => IsPrefix(file[c], live[c])

\* What a thread says in memory and on disk is one text, in order.
ThreadInv == ThreadTypeOK /\ InOrder /\ FileBegins

\* "every `add_message` writes to disk, and this restores it": once no save is under
\* way, what a thread that was only ever extended says is on disk.  (Refuted: an
\* earlier copy may be written last.)
SavedAtRest ==
    \A c \in Threads \ cut :
        live[c] # Nothing /\ (\A s \in saves : s.thread # c) => Read(file[c]) = live[c]
=============================================================================
