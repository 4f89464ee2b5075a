---------------------------- MODULE ForensicTrail ----------------------------
(***************************************************************************)
(* The file of the forensic trail (sessiond/device_state.rs: ForensicLog's *)
(* append, TrailWriter's open, write and rotate).                          *)
(*                                                                         *)
(* Each line carries the hash of the line before it.  The file may refuse  *)
(* a line or take part of it, the power may go with the last line half on  *)
(* disk, and the daemon that starts afterwards continues the chain.        *)
(*                                                                         *)
(* A hash is the number of the entry it is taken of; a line is the entries *)
(* on it, more than one when a line was begun where another had not ended. *)
(* Sizes are counted in lines.  What the directory or the file refuses at  *)
(* start-up ends the same way: the trail is in memory only.                *)
(***************************************************************************)
EXTENDS Naturals, Sequences, SequencesExt

CONSTANTS
    MaxEntries,    \* bound: entries recorded
    MaxTrailStops, \* bound: stops of the daemon
    MaxLines,      \* the size at which a file is rotated (FORENSIC_MAX_BYTES)
    KeptFiles      \* FORENSIC_KEEP

ASSUME TrailConstants ==
    /\ {MaxEntries, MaxTrailStops} \subseteq Nat
    /\ {MaxLines, KeptFiles} \subseteq Nat \ {0}

VARIABLES
    liveFile,  \* the live file: a sequence of lines
    rotated,   \* the files behind it, newest first
    trailMode, \* the daemon: down, at rest, in an append, or in memory only
    nextSeq,   \* TrailWriter.next_seq
    lastHash,  \* TrailWriter.last_hash
    size,      \* TrailWriter.bytes
    made,      \* entries made so far: the next one's own number less one
    stops      \* stops so far

trailVars ==
    <<liveFile, rotated, trailMode, nextSeq, lastHash, size, made, stops>>

NoHash == 0

Entries ==
    [n: 1 .. MaxEntries, seq: Nat, prev: 0 .. MaxEntries,
     there: {"line", "unended", "part"}]

\* A line parses when it holds one entry, and all of it.
Parses(line) == Len(line) = 1 /\ line[1].there # "part"

Ended(line) == Last(line).there = "line"

TrailTypeOK ==
    /\ liveFile \in Seq(Seq(Entries)) /\ rotated \in Seq(Seq(Seq(Entries)))
    /\ Len(rotated) = KeptFiles
    /\ trailMode \in {"down", "file", "append", "memory"}
    /\ nextSeq \in Nat /\ lastHash \in 0 .. MaxEntries
    /\ size \in 0 .. MaxEntries
    /\ made \in 0 .. MaxEntries /\ stops \in 0 .. MaxTrailStops

-----------------------------------------------------------------------------
(* Writing.                                                                *)

Oldest(files) == SubSeq(files, 1, KeptFiles)

\* rotate: the generations move along, and the live file is the first of them.  When
\* it cannot be renamed it keeps growing, the others having moved already.
Rotate ==
    \/ /\ rotated' = Oldest(<<liveFile>> \o rotated)
       /\ liveFile' = <<>> /\ size' = 0
    \/ /\ rotated' = Oldest(<< <<>> >> \o rotated)
       /\ UNCHANGED <<liveFile, size>>

\* append: the sequence moves on, whatever becomes of the line.
BeginAppend ==
    /\ made < MaxEntries
    /\ made' = made + 1 /\ nextSeq' = nextSeq + 1
    /\ \/ /\ trailMode = "memory"
          /\ UNCHANGED <<trailMode, liveFile, rotated, size>>
       \/ /\ trailMode = "file" /\ trailMode' = "append"
          /\ IF size < MaxLines THEN UNCHANGED <<liveFile, rotated, size>> ELSE Rotate
    /\ UNCHANGED <<lastHash, stops>>

\* The file with an entry written behind what is there.
Written(entry) ==
    IF liveFile = <<>> \/ Ended(Last(liveFile)) THEN Append(liveFile, <<entry>>)
    ELSE [liveFile EXCEPT ![Len(liveFile)] = Append(@, entry)]

AlwaysChained(landed) == made

\* The chain only advances on a line that landed.
Chained(landed) == IF landed THEN made ELSE lastHash

\* The line lands; or the write fails with nothing there, a part of it, or all but
\* the newline.
WriteLine(w) ==
    /\ trailMode = "append" /\ trailMode' = "file"
    /\ lastHash' = Chained(w = "line")
    /\ size' = IF w = "line" THEN size + 1 ELSE size
    /\ liveFile' = IF w = "nothing" THEN liveFile
               ELSE Written([n |-> made, seq |-> nextSeq - 1, prev |-> lastHash,
                             there |-> w])
    /\ UNCHANGED <<rotated, nextSeq, made, stops>>

-----------------------------------------------------------------------------
(* Stopping and starting.                                                  *)

\* The power goes, or the daemon does: the last line may reach the disk without its
\* newline, in part, or not at all.
Stop ==
    /\ trailMode # "down" /\ stops < MaxTrailStops
    /\ trailMode' = "down" /\ stops' = stops + 1
    /\ \/ UNCHANGED liveFile
       \/ /\ liveFile # <<>> /\ Parses(Last(liveFile)) /\ Ended(Last(liveFile))
          /\ \/ \E w \in {"unended", "part"} :
                  liveFile' = [liveFile EXCEPT ![Len(liveFile)][1].there = w]
             \/ liveFile' = Front(liveFile)
    /\ nextSeq' = 0 /\ lastHash' = NoHash /\ size' = 0
    /\ UNCHANGED <<rotated, made>>

\* The lines before the first that does not parse.
Good ==
    LET damaged == {i \in DOMAIN liveFile : ~Parses(liveFile[i])}
    IN  IF damaged = {} THEN liveFile ELSE SubSeq(liveFile, 1, Min(damaged) - 1)

GoodButLast == IF Good = liveFile THEN liveFile ELSE SubSeq(Good, 1, Len(Good) - 1)

Recovered == Good

FollowingSeq(entry) == entry.seq + 1

\* open: what follows the last good line is cut off, and the chain goes on from there;
\* a file with no good line is moved aside, and the chain starts anew.
Open ==
    /\ trailMode = "down" /\ trailMode' = "file"
    /\ IF Recovered = <<>>
       THEN /\ nextSeq' = 0 /\ lastHash' = NoHash
            /\ IF liveFile = <<>> THEN UNCHANGED <<liveFile, rotated, size>> ELSE Rotate
       ELSE /\ liveFile' = Recovered
            /\ nextSeq' = FollowingSeq(Last(Recovered)[1])
            /\ lastHash' = Last(Recovered)[1].n
            /\ size' = Len(Recovered)
            /\ UNCHANGED rotated
    /\ UNCHANGED <<made, stops>>

\* No directory, no reading the file, no cutting it.
OpenRefused ==
    /\ trailMode = "down" /\ trailMode' = "memory"
    /\ UNCHANGED <<liveFile, rotated, nextSeq, lastHash, size, made, stops>>

TrailInit ==
    /\ liveFile = <<>> /\ rotated = [g \in 1 .. KeptFiles |-> <<>>]
    /\ trailMode = "down"
    /\ nextSeq = 0 /\ lastHash = NoHash /\ size = 0
    /\ made = 0 /\ stops = 0

TrailNext ==
    \/ BeginAppend \/ Stop \/ Open \/ OpenRefused
    \/ \E w \in {"line", "unended", "part", "nothing"} : WriteLine(w)

TrailSpec == TrailInit /\ [][TrailNext]_trailVars

-----------------------------------------------------------------------------
(* Properties.                                                             *)

\* The files, newest first, and every line that is kept.
Kept(g) == IF g = 0 THEN liveFile ELSE rotated[g]
Lines == UNION {Range(Kept(g)) : g \in 0 .. KeptFiles}

\* A line is known by the entry it begins with.
Number(line) == line[1].n

Begins(line) == \E p \in DOMAIN line : line[p].prev = NoHash

\* The files hold their lines in the order in which they were begun, and an older file
\* older ones: "before" and "between" below are so of the lines' places too.
LinesInOrder ==
    /\ \A g \in 0 .. KeptFiles : \A i, j \in DOMAIN Kept(g) :
         i < j => Number(Kept(g)[i]) < Number(Kept(g)[j])
    /\ \A g, h \in 0 .. KeptFiles : g < h =>
         \A older \in Range(Kept(h)), newer \in Range(Kept(g)) : Number(older) < Number(newer)

NoneBetween(a, b) == ~ \E line \in Lines : Number(a) < Number(line) /\ Number(line) < Number(b)

Beginnings == {line \in Lines : Parses(line) /\ Begins(line)}

\* Two neighbouring lines that parse are links of one chain, across rotations, failed
\* writes and restarts, and no new chain begins but at a start of the daemon.  (A line
\* without its newline may be one the daemon was told it could not write.)
ChainUnbroken ==
    /\ \A a, b \in Lines :
         /\ Number(a) < Number(b) /\ NoneBetween(a, b)
         /\ Parses(a) /\ Ended(a) /\ Parses(b)
         => b[1].prev = a[1].n \/ Begins(b)
    /\ Cardinality(Beginnings) <= stops + 1

\* Within a chain the sequence numbers a subscriber's cursor is made of only rise,
\* gaps and damaged lines between them or not.
SequenceRises ==
    \A a, b \in Lines :
        /\ Number(a) < Number(b) /\ Parses(a) /\ Parses(b)
        /\ \A line \in Lines :
             Number(a) < Number(line) /\ Number(line) <= Number(b) => ~Begins(line)
        => a[1].seq < b[1].seq

\* Neither failed writes nor rotations nor restarts leave a trail whose links or numbers
\* do not follow one another.
TrailInv == TrailTypeOK /\ LinesInOrder /\ ChainUnbroken /\ SequenceRises

\* A restart costs no line of the live file that stands before the first damaged one:
\* it is still there, or in the file moved aside.
RestartKeeps ==
    [][Open \/ OpenRefused =>
         \A i \in DOMAIN liveFile :
             (\A k \in 1 .. i : Parses(liveFile[k])) => liveFile[i] \in Lines']_trailVars
=============================================================================
