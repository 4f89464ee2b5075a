--------------------------- MODULE RecordsProofs ---------------------------
\* What is on file survives: the logins of a provider, the secrets, and the
\* subconscious's own thread.  They share nothing, so each part has its own inductive
\* invariant.
EXTENDS Logins, SecretStore, SubThread, FiniteSetTheorems, SequenceTheorems, TLAPS

-----------------------------------------------------------------------------
(* Logins. *)

\* A refresh that the endpoint may still see, and one that it has granted.
Live == {"sent", "granted", "writing"}
Has  == {"granted", "writing"}

Statuses == {200, 401, 429}

RequestRecords ==
    [pc: {"idle", "token", "refreshing", "asking", "rotate", "trying", "through"},
     left: 0 .. MaxAttempts, slot: Slots, pair: Pairs, status: Statuses]

RefreshRecords ==
    [slot: Slots, from: Pairs, got: Pairs \cup {Gone}, saw: Pairs \cup {Gone},
     step: {"none", "sent", "granted", "refused", "writing"}]

TokensTyped ==
    /\ owner \in [Slots -> [Pairs -> Nat]] /\ unspent \in [Slots -> SUBSET Pairs]
    /\ issued \in [Slots -> Pairs]
    /\ ending \in [Slots -> Nat] /\ ended \in [Slots -> Nat]

\* Only the request that has the mutex refreshes, and who is on the way has an attempt left.
Turns ==
    /\ refresh.step # "none" => mutex # NoRequest
    /\ \A r \in Requests :
         /\ mutex = r => at[r].pc \in {"refreshing", "trying"}
         /\ at[r].pc \notin {"idle", "through"} => at[r].left >= 1

\* Nobody has a pair that was not issued.
Known ==
    /\ \A s \in Slots :
         /\ disk[s] \in 0 .. issued[s] /\ theirs[s] \in 0 .. issued[s]
         /\ held[s] \in 1 .. issued[s]
         /\ unspent[s] \subseteq 1 .. issued[s]
    /\ refresh.step \in Live => refresh.from \in 1 .. issued[refresh.slot]
    /\ refresh.step \in Has => refresh.got \in 1 .. issued[refresh.slot]

\* Who logged in, counted from one.
Counted ==
    \A s \in Slots : \E n \in Nat : {owner[s][p] : p \in 1 .. issued[s]} = 1 .. n

\* What `claude` is about to write is good, and nobody else has it.
Waiting ==
    \A s \in Slots :
        /\ disk[s] = Gone => theirs[s] # Gone
        /\ theirs[s] # Gone =>
             /\ theirs[s] \in unspent[s] \ {disk[s], held[s]}
             /\ refresh.slot = s /\ refresh.step \in Live => theirs[s] # refresh.from
             /\ refresh.slot = s /\ refresh.step \in Has => theirs[s] # refresh.got

\* What was granted is good, nobody else has it, and it speaks as what it was granted for.
Grant ==
    refresh.step \in Has =>
        /\ refresh.got \in unspent[refresh.slot]
        /\ refresh.got \notin {disk[refresh.slot], held[refresh.slot]}
        /\ refresh.from \notin unspent[refresh.slot]
        /\ owner[refresh.slot][refresh.got] = owner[refresh.slot][refresh.from]
        /\ refresh.step = "writing" => refresh.saw \in {Gone, refresh.from}

\* Where the login is: with `claude`, on file, or granted for what is on file; and whose.
Somewhere ==
    \A s \in Slots \ lost :
        /\ \/ theirs[s] # Gone
           \/ disk[s] \in unspent[s]
           \/ refresh.slot = s /\ refresh.step \in Has /\ disk[s] = refresh.from
        /\ LastToLogIn(s, IF theirs[s] = Gone THEN disk[s] ELSE theirs[s])

PairsInv == Known /\ Counted /\ Waiting /\ Grant /\ Somewhere

KeptInv == LoginTypeOK /\ TokensTyped /\ Turns /\ PairsInv

-----------------------------------------------------------------------------
(* Data. *)

LEMMA Numbers ==
    /\ Files \in Nat \ {0} /\ MaxAttempts \in Nat \ {0} /\ MaxIssued \in Nat \ {0}
    /\ MaxOther \in Nat \ {0} /\ MaxOther <= MaxIssued
    /\ NoRequest \notin Requests
    /\ 1 \in Slots /\ 1 \in Pairs /\ Gone \notin Pairs
<1>1. /\ Files \in Nat \ {0} /\ MaxAttempts \in Nat \ {0} /\ MaxIssued \in Nat \ {0}
      /\ MaxOther \in Nat \ {0} /\ MaxOther <= MaxIssued
      /\ NoRequest \notin Requests
  BY LoginConstants
<1> QED BY <1>1 DEF Slots, Pairs, Gone

LEMMA NextSlot == ASSUME NEW s \in Slots PROVE (s % Files) + 1 \in Slots
<1>1. Files \in Nat \ {0} /\ s \in Nat BY Numbers DEF Slots
<1>2. s % Files \in 0 .. Files - 1 BY <1>1
<1> QED BY <1>1, <1>2 DEF Slots

LEMMA RoomForAnother ==
  ASSUME TokensTyped, NEW s \in Slots, Room(s)
  PROVE  issued[s] + 1 \in Pairs /\ issued[s] \in Nat
<1>1. issued[s] \in 1 .. MaxIssued BY DEF TokensTyped, Pairs
<1>2. issued[s] < MaxIssued BY <1>1, Numbers DEF Room
<1> QED BY <1>1, <1>2, Numbers DEF Pairs

LEMMA Idle ==
    /\ Unasked \in RequestRecords /\ Unasked.pc = "idle"
    /\ NoRefresh \in RefreshRecords /\ NoRefresh.step = "none" /\ NoRefresh.got = Gone
  BY Numbers DEF Unasked, Statuses, RequestRecords, NoRefresh, RefreshRecords

\* Somebody else has a number of their own.
LEMMA SomeoneNew ==
  ASSUME NEW s \in Slots, NEW n \in Nat, {owner[s][p] : p \in 1 .. issued[s]} = 1 .. n
  PROVE  SomeoneElse(s) = n + 1
<1>1. Cardinality(1 .. n) = n
  <2>1. Cardinality(1 .. n) = IF 1 > n THEN 0 ELSE n - 1 + 1 BY FS_Interval
  <2> QED BY <2>1
<1>2. Cardinality({owner[s][p] : p \in 1 .. issued[s]}) = n
  <2> HIDE DEF Slots
  <2> QED BY <1>1, Zenon
<1>3. SomeoneElse(s) = 1 + Cardinality({owner[s][p] : p \in 1 .. issued[s]}) BY DEF SomeoneElse
<1> QED BY <1>2, <1>3

-----------------------------------------------------------------------------
(* A request moves. *)

Elsewhere(r) == \A q \in Requests \ {r} : at'[q] = at[q]

LEMMA OneMoves ==
  ASSUME at \in [Requests -> RequestRecords], NEW r \in Requests, NEW new \in RequestRecords,
         at' = [at EXCEPT ![r] = new]
  PROVE  at' \in [Requests -> RequestRecords] /\ Elsewhere(r) /\ at'[r] = new
  BY DEF Elsewhere

LEMMA ThreeFields ==
  ASSUME NEW f, NEW r \in DOMAIN f, NEW a, NEW b, NEW c
  PROVE  [f EXCEPT ![r].pc = a, ![r].pair = b, ![r].status = c]
       = [f EXCEPT ![r] = [[[f[r] EXCEPT !.pc = a] EXCEPT !.pair = b] EXCEPT !.status = c]]
  OBVIOUS

LEMMA EndsMoves ==
  ASSUME at \in [Requests -> RequestRecords], NEW r \in Requests, Ends(r)
  PROVE  at' \in [Requests -> RequestRecords] /\ Elsewhere(r) /\ at'[r].pc = "idle"
  BY Idle DEF Ends, Elsewhere

LEMMA AgainMoves ==
  ASSUME at \in [Requests -> RequestRecords], NEW r \in Requests, at[r].left >= 1, Again(r)
  PROVE  /\ at' \in [Requests -> RequestRecords] /\ Elsewhere(r)
         /\ at'[r].pc \in {"token", "through"}
         /\ at'[r].pc # "through" => at'[r].left >= 1
<1>1. /\ at[r].left \in 0 .. MaxAttempts /\ at[r].left - 1 \in 0 .. MaxAttempts
      /\ at[r].left > 1 => at[r].left - 1 >= 1
  <2>1. at[r].left \in 0 .. MaxAttempts BY DEF RequestRecords
  <2> QED BY <2>1, Numbers
<1>2. PICK new : new = [Unasked EXCEPT !.pc = IF at[r].left > 1 THEN "token" ELSE "through",
                                       !.left = at[r].left - 1]
  OBVIOUS
<1>3. /\ new \in RequestRecords /\ new.pc \in {"token", "through"}
      /\ new.pc # "through" => new.left >= 1
  <2>1. PICK pc \in {"token", "through"} : pc = IF at[r].left > 1 THEN "token" ELSE "through"
    OBVIOUS
  <2>2. PICK left \in 0 .. MaxAttempts : left = at[r].left - 1 BY <1>1
  <2>3. pc = "token" => left >= 1 BY <1>1, <2>1, <2>2
  <2>4. new = [pc |-> pc, left |-> left, slot |-> 1, pair |-> 1, status |-> 200]
    BY <1>2, <2>1, <2>2 DEF Unasked
  <2> QED BY <2>1, <2>3, <2>4, Numbers DEF RequestRecords, Statuses
<1>4. at' = [at EXCEPT ![r] = new] BY <1>2 DEF Again
<1> QED BY <1>3, <1>4 DEF Elsewhere

LEMMA GoesMoves ==
  ASSUME at \in [Requests -> RequestRecords], NEW r \in Requests,
         NEW pc \in {"refreshing", "trying"}, Goes(r, pc)
  PROVE  /\ at' \in [Requests -> RequestRecords] /\ Elsewhere(r)
         /\ at'[r].pc = pc /\ at'[r].left = at[r].left
  BY DEF Goes, RequestRecords, Elsewhere

LEMMA AsksMoves ==
  ASSUME at \in [Requests -> RequestRecords], NEW r \in Requests,
         NEW s \in Slots, NEW p \in Pairs, Asks(r, s, p)
  PROVE  /\ at' \in [Requests -> RequestRecords] /\ Elsewhere(r)
         /\ at'[r].pc = "asking" /\ at'[r].left = at[r].left
<1>1. PICK new : new = [at[r] EXCEPT !.pc = "asking", !.slot = s, !.pair = p] OBVIOUS
<1>2. new \in RequestRecords /\ new.pc = "asking" /\ new.left = at[r].left
  <2>1. PICK old : old = at[r] OBVIOUS
  <2>2. old \in RequestRecords BY <2>1
  <2>3. new = [old EXCEPT !.pc = "asking", !.slot = s, !.pair = p] BY <1>1, <2>1
  <2>4. old.left \in 0 .. MaxAttempts /\ old.status \in Statuses
    BY <2>2 DEF RequestRecords
  <2>5. new = [pc |-> "asking", left |-> old.left, slot |-> s, pair |-> p,
               status |-> old.status]
    BY <2>2, <2>3 DEF RequestRecords
  <2> QED BY <2>1, <2>4, <2>5 DEF RequestRecords
<1>3. at' = [at EXCEPT ![r] = new] BY <1>1 DEF Asks
<1> QED BY <1>2, <1>3 DEF Elsewhere

LEMMA TurnedFields ==
  ASSUME NEW old \in RequestRecords, NEW status \in Statuses
  PROVE  /\ [[[old EXCEPT !.pc = "rotate"] EXCEPT !.pair = 1] EXCEPT !.status = status]
               \in RequestRecords
         /\ [[[old EXCEPT !.pc = "rotate"] EXCEPT !.pair = 1] EXCEPT !.status = status].left
               = old.left
<1>1. PICK a : a = [old EXCEPT !.pc = "rotate"] OBVIOUS
<1>2. PICK b : b = [a EXCEPT !.pair = 1] OBVIOUS
<1>3. PICK c : c = [b EXCEPT !.status = status] OBVIOUS
<1>4. a \in RequestRecords /\ a.left = old.left BY <1>1 DEF RequestRecords
<1>5. b \in RequestRecords /\ b.left = old.left BY <1>2, <1>4, Numbers DEF RequestRecords, Statuses
<1>6. c \in RequestRecords /\ c.left = old.left BY <1>3, <1>5 DEF RequestRecords
<1> QED BY <1>1, <1>2, <1>3, <1>6

\* Who has the mutex, and how far its refresh is.
LEMMA TurnsTaken ==
  ASSUME Turns, NEW r \in Requests, Elsewhere(r),
         at'[r].pc \notin {"idle", "through"} => at'[r].left >= 1,
         \/ mutex' = mutex /\ mutex # r /\ refresh'.step = refresh.step
         \/ mutex' = NoRequest /\ mutex \in {r, NoRequest} /\ refresh'.step = "none"
         \/ /\ mutex' = r /\ mutex \in {r, NoRequest}
            /\ at'[r].pc \in {"refreshing", "trying"}
  PROVE  Turns'
<1>1. NoRequest \notin Requests BY Numbers
<1>2. /\ \A q \in Requests : at[q].pc \notin {"idle", "through"} => at[q].left >= 1
      /\ \A q \in Requests : mutex = q => at[q].pc \in {"refreshing", "trying"}
      /\ refresh.step # "none" => mutex # NoRequest
  BY DEF Turns
<1>3. \A q \in Requests : at'[q].pc \notin {"idle", "through"} => at'[q].left >= 1
  BY <1>2 DEF Elsewhere
<1>4. CASE mutex' = mutex /\ mutex # r /\ refresh'.step = refresh.step
  <2>1. \A q \in Requests : mutex' = q => at'[q].pc \in {"refreshing", "trying"}
    BY <1>2, <1>4 DEF Elsewhere
  <2> QED BY <1>2, <1>3, <1>4, <2>1 DEF Turns
<1>5. CASE mutex' = NoRequest /\ refresh'.step = "none"
  BY <1>1, <1>3, <1>5 DEF Turns
<1>6. CASE mutex' = r /\ at'[r].pc \in {"refreshing", "trying"}
  BY <1>1, <1>3, <1>6 DEF Turns
<1> QED BY <1>4, <1>5, <1>6

\* Nobody's turn changes.
LEMMA TurnsStay ==
  ASSUME Turns, at' = at, mutex' = mutex, refresh.step = "none" => refresh'.step = "none"
  PROVE  Turns'
  BY DEF Turns

-----------------------------------------------------------------------------
(* Pairs. *)

\* The endpoint and `claude` do nothing: what is in memory is what was there, or on file,
\* or granted and not under way any more; a refresh begins, is compared with the file, or
\* is over, and what it was granted is lost or was not for what is on file.
LEMMA PairsStay ==
  ASSUME LoginTypeOK, TokensTyped, PairsInv,
         disk' = disk, issued' = issued, owner' = owner, unspent' = unspent,
         theirs' = theirs, lost \subseteq lost',
         \A s \in Slots :
           \/ held'[s] = held[s]
           \/ held'[s] = disk[s] /\ disk[s] # Gone /\ refresh.step \notin Has
           \/ /\ refresh.step \in Has /\ s = refresh.slot /\ held'[s] = refresh.got
              /\ refresh'.step \notin Live,
         \/ refresh' = refresh
         \/ /\ refresh'.step \notin Live
            /\ refresh.step \in Has =>
                 refresh.slot \in lost' \/ disk[refresh.slot] # refresh.from
         \/ /\ refresh.step \notin Live /\ refresh'.step \notin Has
            /\ refresh'.slot \in Slots /\ refresh'.from = held'[refresh'.slot]
         \/ /\ refresh.step = "granted" /\ held' = held
            /\ disk[refresh.slot] \in {Gone, refresh.from}
            /\ refresh'.slot = refresh.slot /\ refresh'.from = refresh.from
            /\ refresh'.got = refresh.got /\ refresh'.step = "writing"
            /\ refresh'.saw = disk[refresh.slot]
  PROVE  PairsInv'
<1> USE DEF PairsInv
<1>1. refresh \in RefreshRecords /\ refresh.slot \in Slots BY DEF LoginTypeOK, RefreshRecords
<1>2. Counted' BY DEF Counted
<1>4. Known'
  <2>1. \A s \in Slots : held'[s] \in 1 .. issued[s]
    <3> SUFFICES ASSUME NEW s \in Slots PROVE held'[s] \in 1 .. issued[s] OBVIOUS
    <3>1. disk[s] # Gone => disk[s] \in 1 .. issued[s] BY DEF Known, Gone, TokensTyped, Pairs
    <3> QED BY <3>1 DEF Known
  <2>2. \A s \in Slots :
          /\ disk'[s] \in 0 .. issued'[s] /\ theirs'[s] \in 0 .. issued'[s]
          /\ unspent'[s] \subseteq 1 .. issued'[s]
    BY DEF Known
  <2>3. refresh'.step \in Live => refresh'.from \in 1 .. issued'[refresh'.slot]
    BY <2>1 DEF Known, Live
  <2>4. refresh'.step \in Has => refresh'.got \in 1 .. issued'[refresh'.slot]
    BY DEF Known, Live, Has
  <2> QED BY <2>1, <2>2, <2>3, <2>4 DEF Known
<1>5. Waiting'
  <2> SUFFICES ASSUME NEW s \in Slots, theirs[s] # Gone
               PROVE  /\ theirs[s] # held'[s]
                      /\ refresh'.slot = s /\ refresh'.step \in Live => theirs[s] # refresh'.from
                      /\ refresh'.slot = s /\ refresh'.step \in Has => theirs[s] # refresh'.got
    BY DEF Waiting
  <2>1. /\ theirs[s] \notin {disk[s], held[s]}
        /\ refresh.slot = s /\ refresh.step \in Live => theirs[s] # refresh.from
        /\ refresh.slot = s /\ refresh.step \in Has => theirs[s] # refresh.got
    BY DEF Waiting
  <2>2. theirs[s] # held'[s] BY <2>1
  <2> QED BY <2>1, <2>2 DEF Live, Has
<1>6. Grant'
  <2> SUFFICES ASSUME refresh'.step \in Has PROVE Grant' BY DEF Grant
  <2>1. CASE refresh' = refresh
    <3>1. held'[refresh.slot] # refresh.got BY <1>1, <2>1 DEF Grant, Has, Live
    <3> QED BY <2>1, <3>1 DEF Grant
  <2>2. CASE refresh.step = "granted" /\ held' = held
            /\ disk[refresh.slot] \in {Gone, refresh.from}
            /\ refresh'.slot = refresh.slot /\ refresh'.from = refresh.from
            /\ refresh'.got = refresh.got /\ refresh'.saw = disk[refresh.slot]
    BY <2>2 DEF Grant, Has
  <2> QED BY <2>1, <2>2 DEF Has, Live
<1>7. Somewhere'
  <2> SUFFICES ASSUME NEW s \in Slots \ lost'
               PROVE  /\ \/ theirs[s] # Gone
                         \/ disk[s] \in unspent[s]
                         \/ refresh'.slot = s /\ refresh'.step \in Has /\ disk[s] = refresh'.from
                      /\ LastToLogIn(s, IF theirs[s] = Gone THEN disk[s] ELSE theirs[s])
    BY DEF Somewhere, LastToLogIn
  <2>1. /\ \/ theirs[s] # Gone
           \/ disk[s] \in unspent[s]
           \/ refresh.slot = s /\ refresh.step \in Has /\ disk[s] = refresh.from
        /\ LastToLogIn(s, IF theirs[s] = Gone THEN disk[s] ELSE theirs[s])
    BY DEF Somewhere
  <2> QED BY <2>1 DEF Has, Live
<1> QED BY <1>2, <1>4, <1>5, <1>6, <1>7

-----------------------------------------------------------------------------
(* The beginning, and time. *)

LEMMA LoginsInitHolds == LoginInit => KeptInv
<1> SUFFICES ASSUME LoginInit PROVE KeptInv OBVIOUS
<1>1. /\ \A s \in Slots : disk[s] = 1 /\ held[s] = 1 /\ issued[s] = 1 /\ theirs[s] = Gone
                        /\ unspent[s] = {1} /\ ending[s] = 0 /\ ended[s] = 0
      /\ \A s \in Slots : owner[s] = [p \in Pairs |-> 1]
      /\ lost = {} /\ refresh.step = "none" /\ mutex = NoRequest
  BY Idle DEF LoginInit
<1>2. LoginTypeOK
  BY <1>1, Numbers, Idle DEF LoginInit, LoginTypeOK, Statuses, RequestRecords, RefreshRecords
<1>3. TokensTyped BY <1>1, Numbers DEF LoginInit, TokensTyped
<1>4. Turns BY <1>1, Numbers, Idle DEF LoginInit, Turns
<1>5. Known BY <1>1 DEF Known, Live, Has, Gone
<1>6. Counted
  <2> SUFFICES ASSUME NEW s \in Slots PROVE {owner[s][p] : p \in 1 .. issued[s]} = 1 .. 1
    BY DEF Counted
  <2> QED BY <1>1, Numbers
<1>7. Waiting /\ Grant BY <1>1 DEF Waiting, Grant, Has, Gone
<1>8. Somewhere
  <2> SUFFICES ASSUME NEW s \in Slots PROVE disk[s] \in unspent[s] /\ LastToLogIn(s, disk[s])
    BY <1>1 DEF Somewhere
  <2>1. \A q \in 1 .. issued[s] : q = 1 BY <1>1
  <2> QED BY <1>1, <2>1, Numbers DEF LastToLogIn
<1> QED BY <1>2, <1>3, <1>4, <1>5, <1>6, <1>7, <1>8 DEF KeptInv, PairsInv

LEMMA TimeKeeps ==
  ASSUME KeptInv, NEW s \in Slots, Ending(s) \/ RunsOut(s) \/ WindowReturns(s)
  PROVE  KeptInv'
<1> USE DEF KeptInv
<1>1. /\ disk' = disk /\ held' = held /\ active' = active /\ mutex' = mutex /\ at' = at
      /\ refresh' = refresh /\ issued' = issued /\ owner' = owner /\ unspent' = unspent
      /\ theirs' = theirs /\ lost' = lost
  BY DEF Ending, RunsOut, WindowReturns, tokens
<1>2. Turns' BY <1>1, TurnsStay
<1>3. PairsInv' BY <1>1, PairsStay
<1>4. /\ ending \in [Slots -> Nat] /\ ended \in [Slots -> Nat] /\ issued \in [Slots -> Pairs]
      /\ \A t \in Slots : issued[t] \in Nat
  BY Numbers DEF TokensTyped, Pairs
<1>5. CASE Ending(s)
  <2>1. LoginTypeOK' BY <1>1, <1>4, <1>5 DEF Ending, LoginTypeOK
  <2>2. TokensTyped' BY <1>1, <1>4, <1>5 DEF Ending, TokensTyped
  <2> QED BY <1>2, <1>3, <2>1, <2>2
<1>6. CASE RunsOut(s)
  <2>1. LoginTypeOK' BY <1>1, <1>4, <1>6 DEF RunsOut, LoginTypeOK
  <2>2. TokensTyped' BY <1>1, <1>4, <1>6 DEF RunsOut, TokensTyped
  <2> QED BY <1>2, <1>3, <2>1, <2>2
<1>7. CASE WindowReturns(s)
  <2>1. LoginTypeOK' BY <1>1, <1>7 DEF WindowReturns, tokens, LoginTypeOK
  <2>2. TokensTyped' BY <1>1, <1>7 DEF WindowReturns, tokens, TokensTyped
  <2> QED BY <1>2, <1>3, <2>1, <2>2
<1> QED BY <1>5, <1>6, <1>7

\* A request that moves without the mutex.
LEMMA MovesKeeps ==
  ASSUME KeptInv, NEW r \in Requests, mutex # r, Elsewhere(r),
         at' \in [Requests -> RequestRecords],
         at'[r].pc \notin {"idle", "through"} => at'[r].left >= 1,
         UNCHANGED <<disk, held, resting, active, mutex, refresh, tokens, theirs, lost>>
  PROVE  KeptInv'
<1>1. LoginTypeOK' /\ TokensTyped'
  BY DEF KeptInv, LoginTypeOK, TokensTyped, tokens, Statuses, RequestRecords
<1>2. Turns' BY TurnsTaken DEF KeptInv
<1>3. PairsInv' BY PairsStay DEF KeptInv, tokens
<1> QED BY <1>1, <1>2, <1>3 DEF KeptInv

LEMMA AlreadyTyped ==
  ASSUME KeptInv
  PROVE  /\ at \in [Requests -> RequestRecords] /\ refresh \in RefreshRecords
         /\ refresh.slot \in Slots
         /\ \A r \in Requests : at[r] \in RequestRecords /\ at[r].slot \in Slots
         /\ \A r \in Requests : at[r].pc \notin {"idle", "through"} => at[r].left >= 1
         /\ \A r \in Requests : mutex = r => at[r].pc \in {"refreshing", "trying"}
         /\ mutex = NoRequest => refresh.step = "none"
<1>1. at \in [Requests -> RequestRecords] /\ refresh \in RefreshRecords
  BY DEF KeptInv, LoginTypeOK, Statuses, RequestRecords, RefreshRecords
<1>2. \A r \in Requests : at[r] \in RequestRecords /\ at[r].slot \in Slots
  BY <1>1 DEF RequestRecords
<1>3. refresh.slot \in Slots BY <1>1 DEF RefreshRecords
<1> QED BY <1>1, <1>2, <1>3 DEF KeptInv, Turns

LEMMA BeginKeeps == ASSUME KeptInv, NEW r \in Requests, Begin(r) PROVE KeptInv'
<1>1. PICK new : new = [Unasked EXCEPT !.pc = "token", !.left = MaxAttempts] OBVIOUS
<1>2. new \in RequestRecords /\ new.left >= 1
  <2>1. new = [pc |-> "token", left |-> MaxAttempts, slot |-> 1, pair |-> 1, status |-> 200]
    BY <1>1 DEF Unasked
  <2>2. MaxAttempts \in 0 .. MaxAttempts /\ MaxAttempts >= 1 BY Numbers
  <2> QED BY <2>1, <2>2, Numbers DEF RequestRecords, Statuses
<1>3. at' = [at EXCEPT ![r] = new] /\ mutex # r
  BY <1>1, AlreadyTyped DEF Begin
<1>4. /\ at' \in [Requests -> RequestRecords] /\ Elsewhere(r) /\ at'[r].left >= 1
  BY <1>2, <1>3, AlreadyTyped DEF Elsewhere
<1> QED BY <1>3, <1>4, MovesKeeps DEF Begin

LEMMA AnsweredKeeps ==
  ASSUME KeptInv, NEW r \in Requests, Answered(r) \/ Transient(r) \/ Turned(r) PROVE KeptInv'
<1>1. /\ at[r].pc = "asking" /\ mutex # r /\ at[r].left >= 1
      /\ UNCHANGED <<disk, held, resting, active, mutex, refresh, tokens, theirs, lost>>
  BY AlreadyTyped DEF Answered, Transient, Turned
<1>2. CASE Ends(r) BY <1>1, <1>2, AlreadyTyped, EndsMoves, MovesKeeps
<1>3. CASE Again(r) BY <1>1, <1>3, AlreadyTyped, AgainMoves, MovesKeeps
<1>4. CASE Turned(r)
  <2>1. PICK status \in Statuses :
          status = IF at[r].pair > ended[at[r].slot] THEN 429 ELSE 401
    BY DEF Statuses
  <2>2. at' = [at EXCEPT ![r].pc = "rotate", ![r].pair = 1, ![r].status = status]
    BY <1>4, <2>1, Zenon DEF Turned
  <2>3. at' = [at EXCEPT ![r] =
               [[[at[r] EXCEPT !.pc = "rotate"] EXCEPT !.pair = 1] EXCEPT !.status = status]]
    <3>1. r \in DOMAIN at BY AlreadyTyped
    <3> QED BY <2>2, <3>1, ThreeFields, Zenon
  <2>4. at \in [Requests -> RequestRecords] /\ at[r] \in RequestRecords BY AlreadyTyped
  <2>5. PICK old \in RequestRecords : old = at[r] BY <2>4
  <2>6. PICK new : new = [[[old EXCEPT !.pc = "rotate"] EXCEPT !.pair = 1]
                              EXCEPT !.status = status]
    OBVIOUS
  <2>7. new \in RequestRecords BY <2>6, TurnedFields, Zenon
  <2>8. new.left = at[r].left BY <2>5, <2>6, TurnedFields, Zenon
  <2>9. at' = [at EXCEPT ![r] = new] BY <2>3, <2>5, <2>6, Zenon
  <2>10. at' \in [Requests -> RequestRecords] /\ Elsewhere(r) /\ at'[r] = new
    BY <2>4, <2>7, <2>9, OneMoves
  <2> QED BY <1>1, <2>8, <2>10, MovesKeeps
<1> QED BY <1>2, <1>3, <1>4 DEF Answered, Transient

-----------------------------------------------------------------------------
(* A request refreshes, or leaves a login for another. *)

\* The endpoint and `claude` do nothing, and what is in memory is typed.
LEMMA TypesStay ==
  ASSUME KeptInv, disk' = disk, UNCHANGED tokens, theirs' = theirs,
         \A s \in Slots : held'[s] \in Pairs, held' = [s \in Slots |-> held'[s]],
         resting' \subseteq Slots, active' \in Slots, mutex' \in Requests \cup {NoRequest},
         at' \in [Requests -> RequestRecords], refresh' \in RefreshRecords,
         lost' \subseteq Slots
  PROVE  LoginTypeOK' /\ TokensTyped'
<1>1. held' \in [Slots -> Pairs] OBVIOUS
<1> QED BY <1>1 DEF KeptInv, LoginTypeOK, TokensTyped, tokens, Statuses, RequestRecords,
                    RefreshRecords

LEMMA AdoptedPair ==
  ASSUME KeptInv, NEW s \in Slots
  PROVE  /\ Adopted(s) \in Pairs
         /\ Adopted(s) = held[s] \/ (Adopted(s) = disk[s] /\ disk[s] # Gone)
  BY DEF Adopted, KeptInv, LoginTypeOK

LEMMA SentTyped ==
  ASSUME NEW s \in Slots, NEW p \in Pairs
  PROVE  /\ Sent(s, p) \in RefreshRecords /\ Sent(s, p).slot = s /\ Sent(s, p).from = p
         /\ Sent(s, p).step = "sent"
<1>1. Sent(s, p) = [slot |-> s, from |-> p, got |-> Gone, saw |-> Gone, step |-> "sent"]
  <2>1. PICK x : x = [NoRefresh EXCEPT !.slot = s, !.from = p] OBVIOUS
  <2>2. x = [slot |-> s, from |-> p, got |-> Gone, saw |-> Gone, step |-> "none"]
    BY <2>1 DEF NoRefresh
  <2>3. Sent(s, p) = [x EXCEPT !.step = "sent"] BY <2>1 DEF Sent
  <2> QED BY <2>2, <2>3
<1> QED BY <1>1 DEF RefreshRecords

LEMMA NotHas ==
    /\ "none" \notin Live /\ "refused" \notin Live /\ "sent" \notin Has /\ "sent" \in Live
    /\ Has \subseteq Live
  BY DEF Live, Has

LEMMA TakeTokenKeeps == ASSUME KeptInv, NEW r \in Requests, TakeToken(r) PROVE KeptInv'
<1>1. PICK p \in Pairs : p = Adopted(active) BY AdoptedPair DEF KeptInv, LoginTypeOK
<1>2. /\ active \in Slots /\ held \in [Slots -> Pairs]
      /\ resting \subseteq Slots /\ lost \subseteq Slots
  BY DEF KeptInv, LoginTypeOK
<1>3. /\ mutex = NoRequest /\ refresh.step = "none" /\ at[r].left >= 1
      /\ at \in [Requests -> RequestRecords] /\ refresh \in RefreshRecords
  <2>1. at[r].pc = "token" /\ mutex = NoRequest BY DEF TakeToken
  <2> QED BY <2>1, AlreadyTyped
<1>4. /\ held' = [held EXCEPT ![active] = p] /\ disk' = disk /\ resting' = resting
      /\ active' = active /\ UNCHANGED tokens /\ theirs' = theirs /\ lost' = lost
      /\ \/ Asks(r, active, p) /\ mutex' = mutex /\ refresh' = refresh
         \/ Goes(r, "refreshing") /\ mutex' = r /\ refresh' = Sent(active, p)
  BY <1>1 DEF TakeToken
<1>5. /\ \A s \in Slots : held'[s] \in Pairs /\ held'[active] = p
      /\ held' = [s \in Slots |-> held'[s]]
  BY <1>2, <1>4
<1>6. \A s \in Slots : held'[s] = held[s] \/ (held'[s] = disk[s] /\ disk[s] # Gone)
  BY <1>1, <1>2, <1>4, AdoptedPair
<1>7. /\ at' \in [Requests -> RequestRecords] /\ Elsewhere(r) /\ at'[r].left >= 1
      /\ at'[r].pc \in {"asking", "refreshing"}
      /\ mutex' = r => at'[r].pc = "refreshing"
  <2>1. NoRequest \notin Requests BY Numbers
  <2>2. CASE Asks(r, active, p) /\ mutex' = mutex
    BY <1>2, <1>3, <2>1, <2>2, AsksMoves
  <2>3. CASE Goes(r, "refreshing") BY <1>3, <2>3, GoesMoves
  <2> QED BY <1>4, <2>2, <2>3
<1>8. /\ refresh' \in RefreshRecords /\ mutex' \in Requests \cup {NoRequest}
      /\ refresh'.step \notin Has
      /\ \/ refresh' = refresh
         \/ refresh'.slot = active /\ refresh'.from = p
  BY <1>1, <1>2, <1>3, <1>4, SentTyped, NotHas
<1>9. LoginTypeOK' /\ TokensTyped'
  BY <1>2, <1>4, <1>5, <1>7, <1>8, TypesStay
<1>10. Turns' BY <1>3, <1>4, <1>7, TurnsTaken DEF KeptInv
<1>11. PairsInv'
  BY <1>2, <1>3, <1>4, <1>5, <1>6, <1>8, NotHas, PairsStay DEF KeptInv, tokens
<1> QED BY <1>9, <1>10, <1>11 DEF KeptInv

LEMMA EndpointFailsKeeps == ASSUME KeptInv, EndpointFails PROVE KeptInv'
<1>1. /\ refresh.step \in {"sent", "granted"}
      /\ refresh' = [NoRefresh EXCEPT !.slot = refresh.slot, !.step = "refused"]
      /\ lost' = IF refresh.step = "granted" THEN lost \cup {refresh.slot} ELSE lost
      /\ UNCHANGED <<disk, held, resting, active, mutex, at, tokens, theirs>>
  BY DEF EndpointFails
<1>2. refresh' = [slot |-> refresh.slot, from |-> 1, got |-> Gone, saw |-> Gone,
                  step |-> "refused"]
  BY <1>1 DEF NoRefresh
<1>3. refresh' \in RefreshRecords /\ refresh'.step = "refused"
  BY <1>2, Numbers, AlreadyTyped DEF RefreshRecords
<1>4. /\ held \in [Slots -> Pairs] /\ resting \subseteq Slots /\ active \in Slots
      /\ mutex \in Requests \cup {NoRequest} /\ lost \subseteq Slots
  BY DEF KeptInv, LoginTypeOK
<1>5. LoginTypeOK' /\ TokensTyped'
  <2>1. lost' \subseteq Slots BY <1>1, <1>4, AlreadyTyped
  <2> QED BY <1>1, <1>3, <1>4, <2>1, AlreadyTyped, TypesStay
<1>6. Turns' BY <1>1, TurnsStay DEF KeptInv
<1>7. PairsInv'
  <2>1. refresh.step \in Has => refresh.slot \in lost' BY <1>1 DEF Has
  <2> QED BY <1>1, <1>3, <2>1, NotHas, PairsStay DEF KeptInv, tokens
<1> QED BY <1>5, <1>6, <1>7 DEF KeptInv

LEMMA RotateKeeps == ASSUME KeptInv, NEW r \in Requests, Rotate(r) PROVE KeptInv'
<1>1. /\ at[r].pc = "rotate" /\ mutex = NoRequest
      /\ resting' = resting \cup {at[r].slot}
      /\ \/ Again(r) /\ mutex' = mutex /\ refresh' = refresh
         \/ /\ Goes(r, "trying") /\ mutex' = r
            /\ refresh' = [NoRefresh EXCEPT !.slot = (at[r].slot % Files) + 1]
      /\ UNCHANGED <<disk, held, active, tokens, theirs, lost>>
  BY DEF Rotate
<1>2. at[r].left >= 1 /\ refresh.step = "none" /\ at[r].slot \in Slots
      /\ at \in [Requests -> RequestRecords] /\ refresh \in RefreshRecords
  BY <1>1, AlreadyTyped
<1>3. refresh' \in RefreshRecords /\ refresh'.step = "none"
  <2>1. PICK s \in Slots : s = (at[r].slot % Files) + 1 BY <1>2, NextSlot
  <2>2. [NoRefresh EXCEPT !.slot = s]
          = [slot |-> s, from |-> 1, got |-> Gone, saw |-> Gone, step |-> "none"]
    BY DEF NoRefresh
  <2>3. [NoRefresh EXCEPT !.slot = s] \in RefreshRecords
        /\ [NoRefresh EXCEPT !.slot = s].step = "none"
    BY <2>2, Numbers DEF RefreshRecords
  <2> QED BY <1>1, <1>2, <2>1, <2>3
<1>4. /\ at' \in [Requests -> RequestRecords] /\ Elsewhere(r)
      /\ at'[r].pc # "through" => at'[r].left >= 1
      /\ mutex' = r => at'[r].pc = "trying"
  <2>1. NoRequest \notin Requests BY Numbers
  <2>2. CASE Again(r) /\ mutex' = mutex BY <1>1, <1>2, <2>1, <2>2, AgainMoves
  <2>3. CASE Goes(r, "trying") BY <1>2, <2>3, GoesMoves
  <2> QED BY <1>1, <2>2, <2>3
<1>5. /\ held \in [Slots -> Pairs] /\ resting' \subseteq Slots /\ active \in Slots
      /\ mutex' \in Requests \cup {NoRequest} /\ lost \subseteq Slots
  BY <1>1, <1>2 DEF KeptInv, LoginTypeOK
<1>6. LoginTypeOK' /\ TokensTyped' BY <1>1, <1>3, <1>4, <1>5, TypesStay
<1>7. Turns' BY <1>1, <1>2, <1>3, <1>4, TurnsTaken DEF KeptInv
<1>8. PairsInv' BY <1>1, <1>2, <1>3, NotHas, PairsStay DEF KeptInv, tokens
<1> QED BY <1>6, <1>7, <1>8 DEF KeptInv

LEMMA HaltedKeeps == ASSUME KeptInv, NEW r \in Requests, Halted(r) PROVE KeptInv'
<1>1. /\ refresh.step = "writing" => mutex # r
      /\ Ends(r)
      /\ IF mutex = r THEN Released ELSE mutex' = mutex /\ refresh' = refresh
      /\ lost' = IF mutex = r /\ refresh.step = "granted" THEN lost \cup {refresh.slot}
                 ELSE lost
      /\ UNCHANGED <<disk, held, resting, active, tokens, theirs>>
  BY DEF Halted
<1>2. at' \in [Requests -> RequestRecords] /\ Elsewhere(r) /\ at'[r].pc = "idle"
  BY <1>1, AlreadyTyped, EndsMoves
<1>3. /\ held \in [Slots -> Pairs] /\ resting \subseteq Slots /\ active \in Slots
      /\ mutex \in Requests \cup {NoRequest} /\ lost \subseteq Slots
  BY DEF KeptInv, LoginTypeOK
<1>4. mutex' \in Requests \cup {NoRequest} /\ refresh' \in RefreshRecords /\ lost' \subseteq Slots
  BY <1>1, <1>3, Idle, AlreadyTyped DEF Released
<1>5. LoginTypeOK' /\ TokensTyped' BY <1>1, <1>2, <1>3, <1>4, TypesStay
<1>6. Turns' BY <1>1, <1>2, Idle, TurnsTaken DEF KeptInv, Released
<1>7. PairsInv'
  <2>1. CASE mutex = r
    <3>1. refresh'.step \notin Live BY <1>1, <2>1, Idle, NotHas DEF Released
    <3>2. refresh.step \in Has => refresh.slot \in lost' BY <1>1, <2>1 DEF Has
    <3> QED BY <1>1, <3>1, <3>2, PairsStay DEF KeptInv, tokens
  <2>2. CASE mutex # r BY <1>1, <2>2, PairsStay DEF KeptInv, tokens
  <2> QED BY <2>1, <2>2
<1> QED BY <1>5, <1>6, <1>7 DEF KeptInv

-----------------------------------------------------------------------------
(* A pair is issued. *)

\* As one who is known, or as somebody else.
Issues(s, o, good) ==
    /\ Room(s)
    /\ issued' = [issued EXCEPT ![s] = issued[s] + 1]
    /\ owner' = [owner EXCEPT ![s][issued[s] + 1] = o]
    /\ unspent' = [unspent EXCEPT ![s] = good]
    /\ good \subseteq 1 .. issued[s] + 1
    /\ o \in {owner[s][p] : p \in 1 .. issued[s]} \/ o = SomeoneElse(s)
    /\ ending' = ending /\ ended' = ended

LEMMA PairsOf ==
  ASSUME KeptInv, NEW s \in Slots
  PROVE  /\ issued[s] \in Pairs /\ issued[s] \in Nat /\ 1 .. issued[s] \subseteq Pairs
         /\ \A p \in 1 .. issued[s] : owner[s][p] \in Nat
         /\ ended[s] \in Nat /\ ending[s] \in Nat /\ ended[s] <= ending[s] /\ ending[s] <= issued[s]
<1>1. issued[s] \in 1 .. MaxIssued BY DEF KeptInv, TokensTyped, Pairs
<1>2. issued[s] \in Nat /\ 1 .. issued[s] \subseteq 1 .. MaxIssued BY <1>1, Numbers
<1>3. owner[s] \in [Pairs -> Nat] BY DEF KeptInv, TokensTyped
<1>4. ended[s] \in Nat /\ ending[s] \in Nat /\ ended[s] <= ending[s] /\ ending[s] <= issued[s]
  BY DEF KeptInv, TokensTyped, LoginTypeOK
<1> QED BY <1>1, <1>2, <1>3, <1>4 DEF Pairs

LEMMA PairIssued ==
  ASSUME KeptInv, NEW s \in Slots, NEW o, NEW good, Issues(s, o, good)
  PROVE  /\ TokensTyped' /\ Counted'
         /\ issued'[s] = issued[s] + 1 /\ unspent'[s] = good
         /\ owner'[s][issued[s] + 1] = o
         /\ \A p \in 1 .. issued[s] : owner'[s][p] = owner[s][p]
         /\ \A t \in Slots \ {s} :
              owner'[t] = owner[t] /\ issued'[t] = issued[t] /\ unspent'[t] = unspent[t]
         /\ \A t \in Slots :
              /\ unspent'[t] \subseteq 1 .. issued'[t]
              /\ ended'[t] <= ending'[t] /\ ending'[t] <= issued'[t]
         /\ o \in Nat
         /\ o = SomeoneElse(s) => \A p \in 1 .. issued[s] : owner[s][p] < o
<1> DEFINE new == issued[s] + 1
           people == {owner[s][p] : p \in 1 .. issued[s]}
<1>1. /\ issued \in [Slots -> Pairs] /\ owner \in [Slots -> [Pairs -> Nat]]
      /\ unspent \in [Slots -> SUBSET Pairs]
      /\ ending \in [Slots -> Nat] /\ ended \in [Slots -> Nat]
      /\ \A t \in Slots : unspent[t] \subseteq 1 .. issued[t]
  BY DEF KeptInv, TokensTyped, PairsInv, Known
<1>2. new \in Pairs /\ new \in Nat /\ issued[s] \in Nat BY RoomForAnother DEF KeptInv, Issues
<1>3. PICK n \in Nat : people = 1 .. n BY DEF KeptInv, PairsInv, Counted
<1>4. SomeoneElse(s) = n + 1 BY <1>3, SomeoneNew
<1>5. /\ o \in 1 .. n + 1
      /\ o = SomeoneElse(s) => \A p \in 1 .. issued[s] : owner[s][p] < o
  <2>1. o \in people \/ o = n + 1 BY <1>4 DEF Issues
  <2>2. o \in 1 .. n + 1 BY <1>3, <2>1
  <2>3. \A p \in 1 .. issued[s] : owner[s][p] \in people OBVIOUS
  <2>4. \A p \in 1 .. issued[s] : owner[s][p] \in 1 .. n BY <1>3, <2>3
  <2> QED BY <1>4, <2>2, <2>4
<1>6. /\ issued'[s] = new /\ \A t \in Slots \ {s} : issued'[t] = issued[t]
      /\ issued' \in [Slots -> Pairs]
  BY <1>1, <1>2 DEF Issues
<1>7. /\ owner'[s][new] = o /\ \A p \in Pairs \ {new} : owner'[s][p] = owner[s][p]
      /\ \A t \in Slots \ {s} : owner'[t] = owner[t]
      /\ owner' \in [Slots -> [Pairs -> Nat]]
  BY <1>1, <1>2, <1>5 DEF Issues
<1>8. \A p \in 1 .. issued[s] : p \in Pairs \ {new} BY <1>2, PairsOf
<1>9. /\ unspent'[s] = good /\ good \subseteq 1 .. new
      /\ \A t \in Slots \ {s} : unspent'[t] = unspent[t]
      /\ unspent' \in [Slots -> SUBSET Pairs]
  <2>1. good \subseteq 1 .. new BY DEF Issues
  <2>2. 1 .. new \subseteq Pairs
    <3>1. new \in 1 .. MaxIssued BY <1>2 DEF Pairs
    <3> QED BY <3>1, Numbers DEF Pairs
  <2> QED BY <1>1, <2>1, <2>2 DEF Issues
<1>10. TokensTyped' BY <1>1, <1>6, <1>7, <1>9 DEF TokensTyped, Issues
<1>11. Counted'
  <2>1. \A t \in Slots \ {s} :
          {owner'[t][p] : p \in 1 .. issued'[t]} = {owner[t][p] : p \in 1 .. issued[t]}
    BY <1>6, <1>7
  <2>2. {owner'[s][p] : p \in 1 .. new} = people \cup {o}
    <3>1. \A p \in 1 .. new : p = new \/ p \in 1 .. issued[s] BY <1>2
    <3>2. \A p \in 1 .. issued[s] : p \in 1 .. new /\ owner'[s][p] = owner[s][p]
      BY <1>2, <1>7, <1>8
    <3>3. new \in 1 .. new BY <1>2
    <3> QED BY <1>7, <3>1, <3>2, <3>3
  <2>3. people \cup {o} = 1 .. n \/ people \cup {o} = 1 .. n + 1
    <3>1. o \in 1 .. n \/ o = n + 1 BY <1>5
    <3> QED BY <1>3, <3>1
  <2>4. n + 1 \in Nat OBVIOUS
  <2>5. \E m \in Nat : {owner'[s][p] : p \in 1 .. issued'[s]} = 1 .. m
    BY <1>6, <2>2, <2>3, <2>4
  <2>6. \A t \in Slots : \E m \in Nat : {owner[t][p] : p \in 1 .. issued[t]} = 1 .. m
    BY DEF KeptInv, PairsInv, Counted
  <2>7. ASSUME NEW t \in Slots
        PROVE \E m \in Nat : {owner'[t][p] : p \in 1 .. issued'[t]} = 1 .. m
    <3>1. CASE t = s BY <2>5, <3>1
    <3>2. CASE t # s
      <4>1. {owner'[t][p] : p \in 1 .. issued'[t]} = {owner[t][p] : p \in 1 .. issued[t]}
        BY <2>1, <3>2
      <4>2. PICK m \in Nat : {owner[t][p] : p \in 1 .. issued[t]} = 1 .. m BY <2>6
      <4>3. {owner'[t][p] : p \in 1 .. issued'[t]} = 1 .. m BY <4>1, <4>2
      <4> QED BY <4>3
    <3> QED BY <3>1, <3>2
  <2> QED BY <2>7 DEF Counted
<1>12. \A t \in Slots :
         /\ unspent'[t] \subseteq 1 .. issued'[t]
         /\ ended'[t] <= ending'[t] /\ ending'[t] <= issued'[t]
  <2>1. ending' = ending /\ ended' = ended BY DEF Issues
  <2> SUFFICES ASSUME NEW t \in Slots
               PROVE  /\ unspent'[t] \subseteq 1 .. issued'[t]
                      /\ ended'[t] <= ending'[t] /\ ending'[t] <= issued'[t]
    OBVIOUS
  <2>2. /\ issued[t] \in Nat /\ ended[t] \in Nat /\ ending[t] \in Nat
        /\ ended[t] <= ending[t] /\ ending[t] <= issued[t]
    BY PairsOf
  <2>3. CASE t = s
    <3>1. unspent'[t] \subseteq 1 .. issued'[t] BY <1>6, <1>9, <2>3
    <3>2. ending[t] <= issued'[t] BY <1>2, <1>6, <2>2, <2>3
    <3> QED BY <2>1, <2>2, <3>1, <3>2
  <2>4. CASE t # s
    <3>1. unspent'[t] \subseteq 1 .. issued'[t] BY <1>1, <1>6, <1>9, <2>4
    <3> QED BY <1>6, <2>1, <2>2, <2>4, <3>1
  <2> QED BY <2>3, <2>4
<1> QED BY <1>2, <1>5, <1>6, <1>7, <1>8, <1>9, <1>10, <1>11, <1>12

LEMMA LatestMoves ==
  ASSUME KeptInv, NEW s \in Slots, NEW o, NEW good, Issues(s, o, good),
         NEW new, new = issued[s] + 1
  PROVE  /\ \A t \in Slots \ {s} : \A q : LastToLogIn(t, q) => LastToLogIn(t, q)'
         /\ \A q \in 1 .. issued[s] : LastToLogIn(s, q) /\ o <= owner[s][q] => LastToLogIn(s, q)'
         /\ (\A p \in 1 .. issued[s] : owner[s][p] <= o) => LastToLogIn(s, new)'
<1>1. /\ issued'[s] = issued[s] + 1 /\ owner'[s][issued[s] + 1] = o /\ o \in Nat
      /\ \A p \in 1 .. issued[s] : owner'[s][p] = owner[s][p]
      /\ \A t \in Slots \ {s} : owner'[t] = owner[t] /\ issued'[t] = issued[t]
  BY PairIssued
<1>2. issued[s] \in Nat BY PairsOf
<1>3. \A p \in 1 .. issued[s] + 1 : p = issued[s] + 1 \/ p \in 1 .. issued[s] BY <1>2
<1>4. ASSUME NEW t \in Slots \ {s}, NEW q, LastToLogIn(t, q) PROVE LastToLogIn(t, q)'
  BY <1>1, <1>4 DEF LastToLogIn
<1>5. ASSUME NEW q \in 1 .. issued[s], LastToLogIn(s, q), o <= owner[s][q] PROVE LastToLogIn(s, q)'
  BY <1>1, <1>3, <1>5 DEF LastToLogIn
<1>6. ASSUME \A p \in 1 .. issued[s] : owner[s][p] <= o PROVE LastToLogIn(s, new)'
  <2>1. \A p \in 1 .. issued'[s] : owner'[s][p] <= o BY <1>1, <1>3, <1>6
  <2> QED BY <1>1, <2>1 DEF LastToLogIn
<1> QED BY <1>4, <1>5, <1>6

LEMMA EndpointGrantsKeeps == ASSUME KeptInv, EndpointGrants PROVE KeptInv'
<1>1. PICK s \in Slots : s = refresh.slot BY AlreadyTyped
<1>2. /\ LoginTypeOK /\ TokensTyped /\ Turns /\ Known /\ Counted /\ Waiting /\ Grant
      /\ Somewhere
  BY DEF KeptInv, PairsInv
<1>3. /\ refresh.step = "sent" /\ refresh.from \in unspent[s] /\ Granted(s, refresh.from)
      /\ refresh' = [refresh EXCEPT !.step = "granted", !.got = issued[s] + 1]
      /\ UNCHANGED <<disk, held, resting, active, mutex, at, ending, ended, theirs, lost>>
  BY <1>1 DEF EndpointGrants
<1>4. PICK from \in 1 .. issued[s] : from = refresh.from
  BY <1>1, <1>2, <1>3 DEF Known
<1>5. PICK new : new = issued[s] + 1 OBVIOUS
<1>6. new \in Pairs /\ new \in Nat /\ issued[s] \in Nat /\ Room(s) /\ from # new
      /\ \A p \in 0 .. issued[s] : p # new
  <2>1. Room(s) BY <1>3 DEF Granted
  <2>2. new \in Pairs /\ issued[s] \in Nat BY <1>2, <1>5, <2>1, RoomForAnother
  <2> QED BY <1>5, <2>1, <2>2
<1> DEFINE good == (unspent[s] \ {from}) \cup {new}
<1>7. Issues(s, owner[s][from], good)
  <2>1. good \subseteq 1 .. issued[s] + 1 BY <1>2, <1>5, <1>6 DEF Known
  <2>2. owner[s][from] \in {owner[s][p] : p \in 1 .. issued[s]} OBVIOUS
  <2> QED BY <1>3, <1>4, <1>5, <1>6, <2>1, <2>2 DEF Granted, Issues
<1>8. /\ TokensTyped' /\ Counted' /\ issued'[s] = new /\ unspent'[s] = good
      /\ owner'[s][new] = owner[s][from] /\ owner'[s][from] = owner[s][from]
      /\ \A t \in Slots \ {s} :
            owner'[t] = owner[t] /\ issued'[t] = issued[t] /\ unspent'[t] = unspent[t]
      /\ \A t \in Slots :
            /\ unspent'[t] \subseteq 1 .. issued'[t]
            /\ ended'[t] <= ending'[t] /\ ending'[t] <= issued'[t]
  BY <1>5, <1>7, PairIssued
<1>9. /\ refresh'.slot = s /\ refresh'.from = from /\ refresh'.got = new
      /\ refresh'.step = "granted" /\ refresh' \in RefreshRecords
  <2>1. refresh \in RefreshRecords BY AlreadyTyped
  <2> QED BY <1>1, <1>3, <1>4, <1>5, <1>6, <2>1 DEF RefreshRecords
<1>10. LoginTypeOK' BY <1>2, <1>3, <1>8, <1>9 DEF LoginTypeOK, TokensTyped, RefreshRecords
<1>11. Turns' BY <1>2, <1>3, <1>9, TurnsStay
<1>12. \A t \in Slots : \A p : p \in 0 .. issued[t] => p \in 0 .. issued'[t]
  <2>1. \A p \in 0 .. issued[s] : p \in 0 .. new BY <1>5, <1>6
  <2> QED BY <1>8, <2>1
<1>13. \A t \in Slots : \A p : p \in 1 .. issued[t] => p \in 1 .. issued'[t]
  <2>1. \A p \in 1 .. issued[s] : p \in 1 .. new BY <1>5, <1>6
  <2> QED BY <1>8, <2>1
<1>14. Known'
  <2>1. new \in 1 .. issued'[s] /\ from \in 1 .. issued'[s] BY <1>6, <1>8, <1>13
  <2> QED BY <1>2, <1>3, <1>8, <1>9, <1>12, <1>13, <2>1 DEF Known
<1>15. Waiting'
  <2> SUFFICES ASSUME NEW t \in Slots
               PROVE  /\ disk[t] = Gone => theirs[t] # Gone
                      /\ theirs[t] # Gone =>
                           /\ theirs[t] \in unspent'[t] \ {disk[t], held[t]}
                           /\ t = s => theirs[t] # from /\ theirs[t] # new
    BY <1>3, <1>9 DEF Waiting
  <2>1. /\ disk[t] = Gone => theirs[t] # Gone
        /\ theirs[t] # Gone =>
             /\ theirs[t] \in unspent[t] \ {disk[t], held[t]}
             /\ t = s => theirs[t] # from
    BY <1>1, <1>2, <1>3, <1>4 DEF Waiting, Live
  <2>2. theirs[t] \in 0 .. issued[t] BY <1>2 DEF Known
  <2> QED BY <1>6, <1>8, <2>1, <2>2
<1>16. Grant'
  <2>1. disk[s] # new /\ held[s] # new
    <3>1. disk[s] \in 0 .. issued[s] /\ held[s] \in 1 .. issued[s] BY <1>2 DEF Known
    <3> QED BY <1>6, <3>1
  <2> QED BY <1>3, <1>6, <1>8, <1>9, <2>1 DEF Grant
<1>17. Somewhere'
  <2> SUFFICES ASSUME NEW t \in Slots \ lost
               PROVE  /\ \/ theirs[t] # Gone
                         \/ disk[t] \in unspent'[t]
                         \/ s = t /\ disk[t] = from
                      /\ LastToLogIn(t, IF theirs[t] = Gone THEN disk[t] ELSE theirs[t])'
    BY <1>3, <1>9 DEF Somewhere, Has
  <2>1. PICK p : p = IF theirs[t] = Gone THEN disk[t] ELSE theirs[t] OBVIOUS
  <2>2. /\ theirs[t] # Gone \/ disk[t] \in unspent[t]
        /\ LastToLogIn(t, p)
    BY <1>2, <1>3, <2>1 DEF Somewhere, Has
  <2>3. \/ theirs[t] # Gone
        \/ disk[t] \in unspent'[t]
        \/ s = t /\ disk[t] = from
    BY <1>8, <2>2
  <2>4. p \in 1 .. issued[t]
    <3>1. p # Gone BY <1>2, <2>1 DEF Waiting
    <3>2. p \in 0 .. issued[t] BY <1>2, <2>1 DEF Known
    <3> QED BY <3>1, <3>2, PairsOf DEF Gone
  <2>5. LastToLogIn(t, p)'
    <3>1. CASE t = s
      <4>1. owner[s][from] <= owner[s][p] BY <2>2, <3>1 DEF LastToLogIn
      <4> QED BY <1>7, <2>2, <2>4, <3>1, <4>1, LatestMoves
    <3>2. CASE t # s BY <1>7, <2>2, <3>2, LatestMoves
    <3> QED BY <3>1, <3>2
  <2> QED BY <1>3, <2>1, <2>3, <2>5 DEF LastToLogIn
<1> QED BY <1>8, <1>10, <1>11, <1>14, <1>15, <1>16, <1>17 DEF KeptInv, PairsInv

-----------------------------------------------------------------------------
(* `claude`. *)

\* It has a pair of its own, of the one who is on file or of somebody else.
LEMMA TheirsIssued ==
  ASSUME KeptInv, NEW s \in Slots, NEW o, NEW good, Issues(s, o, good),
         theirs[s] = Gone, theirs' = [theirs EXCEPT ![s] = issued[s] + 1],
         issued[s] + 1 \in good,
         unspent[s] \ {disk[s]} \subseteq good, good \subseteq unspent[s] \cup {issued[s] + 1},
         \/ disk' = disk /\ o = owner[s][disk[s]]
         \/ disk' = [disk EXCEPT ![s] = Gone] /\ o = SomeoneElse(s),
         UNCHANGED <<held, resting, active, mutex, at, refresh, lost>>
  PROVE  KeptInv'
<1>1. /\ LoginTypeOK /\ TokensTyped /\ Turns /\ Known /\ Counted /\ Waiting /\ Grant
      /\ Somewhere
  BY DEF KeptInv, PairsInv
<1>2. PICK new : new = issued[s] + 1 OBVIOUS
<1>3. new \in Pairs /\ new \in Nat /\ issued[s] \in Nat /\ new # Gone
      /\ \A p \in 0 .. issued[s] : p # new
  <2>1. Room(s) BY DEF Issues
  <2>2. new \in Pairs /\ issued[s] \in Nat BY <1>1, <1>2, <2>1, RoomForAnother
  <2>3. new \in Nat /\ new # Gone /\ \A p \in 0 .. issued[s] : p # new BY <1>2, <2>2 DEF Gone
  <2> QED BY <2>2, <2>3
<1>4. /\ TokensTyped' /\ Counted' /\ issued'[s] = new /\ unspent'[s] = good
      /\ owner'[s][new] = o /\ o \in Nat
      /\ \A p \in 1 .. issued[s] : owner'[s][p] = owner[s][p]
      /\ \A t \in Slots \ {s} :
            owner'[t] = owner[t] /\ issued'[t] = issued[t] /\ unspent'[t] = unspent[t]
      /\ \A t \in Slots :
            /\ unspent'[t] \subseteq 1 .. issued'[t]
            /\ ended'[t] <= ending'[t] /\ ending'[t] <= issued'[t]
      /\ o = SomeoneElse(s) => \A p \in 1 .. issued[s] : owner[s][p] < o
  BY <1>2, PairIssued
<1>5. /\ theirs'[s] = new /\ \A t \in Slots \ {s} : theirs'[t] = theirs[t]
      /\ theirs' \in [Slots -> Pairs \cup {Gone}]
      /\ disk'[s] \in {disk[s], Gone} /\ \A t \in Slots \ {s} : disk'[t] = disk[t]
      /\ disk' \in [Slots -> Pairs \cup {Gone}]
  BY <1>1, <1>2, <1>3 DEF LoginTypeOK
<1>6. LoginTypeOK' BY <1>1, <1>4, <1>5 DEF LoginTypeOK, TokensTyped
<1>7. Turns' BY <1>1, TurnsStay
<1>8. \A t \in Slots : \A p : p \in 0 .. issued[t] => p \in 0 .. issued'[t]
  <2>1. \A p \in 0 .. issued[s] : p \in 0 .. new BY <1>2, <1>3
  <2> QED BY <1>4, <2>1
<1>9. \A t \in Slots : \A p : p \in 1 .. issued[t] => p \in 1 .. issued'[t]
  <2>1. \A p \in 1 .. issued[s] : p \in 1 .. new BY <1>2, <1>3
  <2> QED BY <1>4, <2>1
<1>10. Known'
  <2>1. \A t \in Slots : disk'[t] \in 0 .. issued'[t] /\ theirs'[t] \in 0 .. issued'[t]
    <3>1. new \in 0 .. issued'[s] /\ Gone \in 0 .. issued'[s] BY <1>3, <1>4 DEF Gone
    <3> QED BY <1>1, <1>5, <1>8, <3>1 DEF Known
  <2>2. refresh.slot \in Slots BY AlreadyTyped
  <2> QED BY <1>1, <1>4, <1>9, <2>1, <2>2, NotHas DEF Known
<1>11. disk[s] # Gone BY <1>1 DEF Waiting
<1>12. /\ disk[s] # new /\ held[s] # new
       /\ refresh.slot = s /\ refresh.step \in Live => refresh.from # new
       /\ refresh.slot = s /\ refresh.step \in Has => refresh.got # new
  <2>1. disk[s] \in 0 .. issued[s] /\ held[s] \in 1 .. issued[s] BY <1>1 DEF Known
  <2>2. refresh.slot = s /\ refresh.step \in Live => refresh.from \in 1 .. issued[s]
    BY <1>1 DEF Known
  <2>3. refresh.slot = s /\ refresh.step \in Has => refresh.got \in 1 .. issued[s]
    BY <1>1 DEF Known
  <2> QED BY <1>3, <2>1, <2>2, <2>3
<1>13. Waiting'
  <2> SUFFICES ASSUME NEW t \in Slots
               PROVE  /\ disk'[t] = Gone => theirs'[t] # Gone
                      /\ theirs'[t] # Gone =>
                           /\ theirs'[t] \in unspent'[t] \ {disk'[t], held[t]}
                           /\ refresh.slot = t /\ refresh.step \in Live => theirs'[t] # refresh.from
                           /\ refresh.slot = t /\ refresh.step \in Has => theirs'[t] # refresh.got
    BY DEF Waiting
  <2>1. CASE t = s BY <1>2, <1>3, <1>4, <1>5, <1>12, <2>1
  <2>2. CASE t # s BY <1>1, <1>4, <1>5, <2>2 DEF Waiting
  <2> QED BY <2>1, <2>2
<1>14. Grant'
  <2> SUFFICES ASSUME refresh.step \in Has PROVE Grant' BY DEF Grant
  <2>1. refresh.slot \in Slots BY AlreadyTyped
  <2>2. CASE refresh.slot # s
    BY <1>1, <1>4, <1>5, <2>1, <2>2 DEF Grant
  <2>3. CASE refresh.slot = s
    <3>1. /\ refresh.got \in unspent[s] /\ refresh.got \notin {disk[s], held[s]}
          /\ refresh.from \notin unspent[s]
          /\ owner[s][refresh.got] = owner[s][refresh.from]
          /\ refresh.step = "writing" => refresh.saw \in {Gone, refresh.from}
      BY <1>1, <2>3 DEF Grant
    <3>2. refresh.from \in 1 .. issued[s] /\ refresh.got \in 1 .. issued[s]
      BY <1>1, <2>3, NotHas DEF Known
    <3>3. refresh.got \in good /\ refresh.from \notin good
      <4>1. refresh.from # new /\ unspent[s] \ {disk[s]} \subseteq good BY <1>12, <2>3, NotHas
      <4>2. refresh.got \in good BY <3>1, <4>1
      <4>3. good \subseteq unspent[s] \cup {new} BY <1>2
      <4> QED BY <3>1, <4>1, <4>2, <4>3
    <3>4. refresh.got # Gone BY <3>2 DEF Gone
    <3> QED BY <1>4, <1>5, <2>3, <3>1, <3>2, <3>3, <3>4 DEF Grant
  <2> QED BY <2>2, <2>3
<1>15. Somewhere'
  <2> SUFFICES ASSUME NEW t \in Slots \ lost
               PROVE  /\ \/ theirs'[t] # Gone
                         \/ disk'[t] \in unspent'[t]
                         \/ refresh.slot = t /\ refresh.step \in Has /\ disk'[t] = refresh.from
                      /\ LastToLogIn(t, IF theirs[t] = Gone THEN disk[t] ELSE theirs[t])'
    BY DEF Somewhere
  <2>1. CASE t = s
    <3>1. LastToLogIn(s, disk[s]) BY <1>1, <2>1 DEF Somewhere
    <3>2. \A p \in 1 .. issued[s] : owner[s][p] <= o
      <4>1. CASE o = owner[s][disk[s]] BY <3>1, <4>1 DEF LastToLogIn
      <4>2. CASE o = SomeoneElse(s) BY <1>4, <4>2, PairsOf
      <4> QED BY <4>1, <4>2
    <3>3. LastToLogIn(s, new)' BY <1>2, <3>2, LatestMoves
    <3> QED BY <1>3, <1>5, <2>1, <3>3 DEF LastToLogIn
  <2>2. CASE t # s
    <3>1. PICK p : p = IF theirs[t] = Gone THEN disk[t] ELSE theirs[t] OBVIOUS
    <3>2. /\ \/ theirs[t] # Gone
             \/ disk[t] \in unspent[t]
             \/ refresh.slot = t /\ refresh.step \in Has /\ disk[t] = refresh.from
          /\ LastToLogIn(t, p)
      BY <1>1, <3>1 DEF Somewhere
    <3>3. LastToLogIn(t, p)' BY <1>2, <2>2, <3>2, LatestMoves
    <3>4. disk'[t] = disk[t] /\ theirs'[t] = theirs[t] /\ unspent'[t] = unspent[t]
      BY <1>4, <1>5, <2>2
    <3> QED BY <3>1, <3>2, <3>3, <3>4 DEF LastToLogIn
  <2> QED BY <2>1, <2>2
<1> QED BY <1>4, <1>6, <1>7, <1>10, <1>13, <1>14, <1>15 DEF KeptInv, PairsInv

LEMMA ClaudeRefreshesKeeps == ASSUME KeptInv, NEW s \in Slots, ClaudeRefreshes(s) PROVE KeptInv'
<1>1. /\ theirs[s] = Gone /\ disk[s] \in unspent[s] /\ Granted(s, disk[s])
      /\ theirs' = [theirs EXCEPT ![s] = issued[s] + 1]
      /\ UNCHANGED <<disk, held, resting, active, mutex, at, refresh, ending, ended, lost>>
  BY DEF ClaudeRefreshes
<1>2. issued[s] \in Nat /\ unspent[s] \subseteq 1 .. issued[s]
  BY PairsOf DEF KeptInv, PairsInv, Known
<1> DEFINE good == (unspent[s] \ {disk[s]}) \cup {issued[s] + 1}
<1>3. Issues(s, owner[s][disk[s]], good)
  <2>1. good \subseteq 1 .. issued[s] + 1 BY <1>2
  <2>2. owner[s][disk[s]] \in {owner[s][p] : p \in 1 .. issued[s]} BY <1>1, <1>2
  <2> QED BY <1>1, <2>1, <2>2 DEF Granted, Issues
<1> QED BY <1>1, <1>3, TheirsIssued

LEMMA LogInKeeps == ASSUME KeptInv, NEW s \in Slots, LogIn(s) PROVE KeptInv'
<1>1. issued[s] \in Nat /\ unspent[s] \subseteq 1 .. issued[s]
  BY PairsOf DEF KeptInv, PairsInv, Known
<1> DEFINE good == unspent[s] \cup {issued[s] + 1}
<1>2. /\ theirs[s] = Gone /\ theirs' = [theirs EXCEPT ![s] = issued[s] + 1]
      /\ disk' = [disk EXCEPT ![s] = Gone]
      /\ UNCHANGED <<held, resting, active, mutex, at, refresh, lost>>
  BY DEF LogIn
<1>3. Issues(s, SomeoneElse(s), good)
  <2>1. good \subseteq 1 .. issued[s] + 1 BY <1>1
  <2> QED BY <2>1 DEF LogIn, Issues
<1> QED BY <1>2, <1>3, TheirsIssued

LEMMA ClaudeWritesKeeps == ASSUME KeptInv, NEW s \in Slots, ClaudeWrites(s) PROVE KeptInv'
<1>1. /\ LoginTypeOK /\ TokensTyped /\ Turns /\ Known /\ Counted /\ Waiting /\ Grant
      /\ Somewhere
  BY DEF KeptInv, PairsInv
<1>2. /\ theirs[s] # Gone /\ disk' = [disk EXCEPT ![s] = theirs[s]]
      /\ theirs' = [theirs EXCEPT ![s] = Gone]
      /\ lost' = IF LastToLogIn(s, theirs[s]) THEN lost \ {s} ELSE lost
      /\ UNCHANGED <<held, resting, active, mutex, at, refresh, tokens>>
  BY DEF ClaudeWrites
<1>3. /\ disk'[s] = theirs[s] /\ theirs'[s] = Gone
      /\ \A t \in Slots \ {s} : disk'[t] = disk[t] /\ theirs'[t] = theirs[t]
      /\ disk' \in [Slots -> Pairs \cup {Gone}] /\ theirs' \in [Slots -> Pairs \cup {Gone}]
      /\ lost' \subseteq Slots
  BY <1>1, <1>2 DEF LoginTypeOK
<1>4. LoginTypeOK' /\ TokensTyped' BY <1>1, <1>2, <1>3 DEF LoginTypeOK, TokensTyped, tokens
<1>5. Turns' BY <1>1, <1>2, TurnsStay
<1>6. Counted'
  <2>1. owner' = owner /\ issued' = issued /\ Counted BY <1>1, <1>2 DEF tokens
  <2> SUFFICES ASSUME NEW t \in Slots
               PROVE  \E n \in Nat : {owner'[t][p] : p \in 1 .. issued'[t]} = 1 .. n
    BY DEF Counted
  <2>2. PICK n \in Nat : {owner[t][p] : p \in 1 .. issued[t]} = 1 .. n BY <2>1 DEF Counted
  <2>3. {owner'[t][p] : p \in 1 .. issued'[t]} = {owner[t][p] : p \in 1 .. issued[t]} BY <2>1
  <2> QED BY <2>2, <2>3
<1>7. Known'
  <2>1. Gone \in 0 .. issued[s] BY PairsOf DEF Gone
  <2> QED BY <1>1, <1>2, <1>3, <2>1 DEF Known, tokens
<1>8. Waiting' BY <1>1, <1>2, <1>3 DEF Waiting, tokens
<1>9. Grant' BY <1>1, <1>2, <1>3, AlreadyTyped DEF Grant, Waiting, tokens
<1>10. Somewhere'
  <2> SUFFICES ASSUME NEW t \in Slots \ lost'
               PROVE  /\ \/ theirs'[t] # Gone
                         \/ disk'[t] \in unspent[t]
                         \/ refresh.slot = t /\ refresh.step \in Has /\ disk'[t] = refresh.from
                      /\ LastToLogIn(t, IF theirs[t] = Gone THEN disk[t] ELSE theirs[t])'
    BY <1>2 DEF Somewhere, tokens
  <2>1. CASE t = s
    <3>1. disk'[s] \in unspent[s] BY <1>1, <1>2, <1>3 DEF Waiting
    <3>2. LastToLogIn(s, theirs[s])
      <4>1. CASE s \in lost BY <1>2, <2>1, <4>1
      <4>2. CASE s \notin lost BY <1>1, <1>2, <4>2 DEF Somewhere
      <4> QED BY <4>1, <4>2
    <3> QED BY <1>2, <1>3, <2>1, <3>1, <3>2 DEF LastToLogIn, tokens
  <2>2. CASE t # s
    <3>1. t \notin lost BY <1>2, <2>2
    <3> QED BY <1>1, <1>2, <1>3, <2>2, <3>1 DEF Somewhere, LastToLogIn, tokens
  <2> QED BY <2>1, <2>2
<1> QED BY <1>4, <1>5, <1>6, <1>7, <1>8, <1>9, <1>10 DEF KeptInv, PairsInv

-----------------------------------------------------------------------------
(* A refresh ends. *)

\* What Refreshed does: the pair is in memory, and the request goes on with it, or with a
\* login that is everybody's by now.
LEMMA RefreshedMoves ==
  ASSUME KeptInv, NEW r \in Requests, mutex = r, refresh.step \in Has, Refreshed(r)
  PROVE  /\ held' = [held EXCEPT ![refresh.slot] = refresh.got]
         /\ held'[refresh.slot] = refresh.got
         /\ \A t \in Slots \ {refresh.slot} : held'[t] = held[t]
         /\ held' = [t \in Slots |-> held'[t]] /\ \A t \in Slots : held'[t] \in Pairs
         /\ refresh.got \in Pairs
         /\ mutex' = NoRequest /\ refresh' = NoRefresh /\ active' \in Slots
         /\ at' \in [Requests -> RequestRecords] /\ Turns'
<1>1. PICK s \in Slots : s = refresh.slot BY AlreadyTyped
<1>2. refresh.got \in Pairs
  <2>1. refresh.got \in 1 .. issued[s] BY <1>1 DEF KeptInv, PairsInv, Known
  <2> QED BY <2>1, PairsOf
<1>3. /\ held' = [held EXCEPT ![s] = refresh.got]
      /\ mutex' = NoRequest /\ refresh' = NoRefresh
      /\ IF at[r].pc = "refreshing" THEN Asks(r, s, refresh.got) /\ active' = active
                                   ELSE Again(r) /\ active' = s
  BY <1>1 DEF Refreshed, Released
<1>4. held \in [Slots -> Pairs] /\ active \in Slots BY DEF KeptInv, LoginTypeOK
<1>5. at[r].left >= 1 /\ at \in [Requests -> RequestRecords]
  <2>1. at[r].pc \in {"refreshing", "trying"} BY AlreadyTyped
  <2> QED BY <2>1, AlreadyTyped
<1>6. /\ at' \in [Requests -> RequestRecords] /\ Elsewhere(r)
      /\ at'[r].pc # "through" => at'[r].left >= 1
  BY <1>2, <1>3, <1>5, AsksMoves, AgainMoves
<1>7. Turns' BY <1>3, <1>6, Idle, TurnsTaken DEF KeptInv
<1>8. /\ held'[s] = refresh.got /\ \A t \in Slots \ {s} : held'[t] = held[t]
      /\ held' = [t \in Slots |-> held'[t]] /\ \A t \in Slots : held'[t] \in Pairs
  BY <1>2, <1>3, <1>4
<1> QED BY <1>1, <1>2, <1>3, <1>4, <1>6, <1>7, <1>8

LEMMA ComparesKeeps == ASSUME KeptInv, NEW r \in Requests, Compares(r) PROVE KeptInv'
<1>1. /\ mutex = r /\ refresh.step = "granted"
      /\ UNCHANGED <<disk, resting, tokens, theirs, lost>>
  BY DEF Compares
<1>2. /\ held \in [Slots -> Pairs] /\ resting \subseteq Slots /\ active \in Slots
      /\ disk \in [Slots -> Pairs \cup {Gone}]
      /\ mutex \in Requests \cup {NoRequest} /\ lost \subseteq Slots
  BY DEF KeptInv, LoginTypeOK
<1>3. CASE StillOurs
  <2>1. /\ refresh' = [refresh EXCEPT !.step = "writing", !.saw = disk[refresh.slot]]
        /\ UNCHANGED <<held, active, mutex, at>>
    BY <1>3 DEF Compares
  <2>2. refresh \in RefreshRecords /\ refresh.slot \in Slots BY AlreadyTyped
  <2>3. /\ refresh' \in RefreshRecords
        /\ refresh'.slot = refresh.slot /\ refresh'.from = refresh.from
        /\ refresh'.got = refresh.got /\ refresh'.step = "writing"
        /\ refresh'.saw = disk[refresh.slot]
    BY <1>2, <2>1, <2>2 DEF RefreshRecords
  <2>4. LoginTypeOK' /\ TokensTyped' BY <1>1, <1>2, <2>1, <2>3, AlreadyTyped, TypesStay
  <2>5. Turns' BY <1>1, <2>1, TurnsStay DEF KeptInv
  <2>6. PairsInv' BY <1>1, <1>3, <2>1, <2>3, PairsStay DEF KeptInv, tokens, StillOurs
  <2> QED BY <2>4, <2>5, <2>6 DEF KeptInv
<1>4. CASE ~StillOurs
  <2>1. Refreshed(r) BY <1>4 DEF Compares
  <2>2. refresh.step \in Has BY <1>1 DEF Has
  <2>3. /\ held'[refresh.slot] = refresh.got
        /\ \A t \in Slots \ {refresh.slot} : held'[t] = held[t]
        /\ held' = [t \in Slots |-> held'[t]] /\ \A t \in Slots : held'[t] \in Pairs
        /\ mutex' = NoRequest /\ refresh' = NoRefresh /\ active' \in Slots
        /\ at' \in [Requests -> RequestRecords] /\ Turns'
    BY <1>1, <2>1, <2>2, RefreshedMoves
  <2>4. LoginTypeOK' /\ TokensTyped' BY <1>1, <1>2, <2>3, Idle, TypesStay
  <2>5. PairsInv'
    <3>1. refresh'.step \notin Live BY <2>3, Idle, NotHas
    <3>2. disk[refresh.slot] # refresh.from BY <1>4 DEF StillOurs
    <3> QED BY <1>1, <2>2, <2>3, <3>1, <3>2, PairsStay DEF KeptInv, tokens
  <2> QED BY <2>3, <2>4, <2>5 DEF KeptInv
<1> QED BY <1>3, <1>4

LEMMA RefreshFailsKeeps == ASSUME KeptInv, NEW r \in Requests, RefreshFails(r) PROVE KeptInv'
<1>1. PICK s \in Slots : s = refresh.slot BY AlreadyTyped
<1>2. /\ mutex = r /\ refresh.step = "refused"
      /\ UNCHANGED <<disk, resting, active, tokens, theirs, lost>>
      /\ IF at[r].pc = "refreshing"
           THEN /\ held' = [held EXCEPT ![s] = Reread(s)]
                /\ Asks(r, s, Reread(s)) /\ Released
           ELSE /\ refresh' = [NoRefresh EXCEPT !.slot = (s % Files) + 1]
                /\ UNCHANGED <<held, at, mutex>>
  BY <1>1 DEF RefreshFails
<1>3. /\ held \in [Slots -> Pairs] /\ resting \subseteq Slots /\ active \in Slots
      /\ mutex \in Requests \cup {NoRequest} /\ lost \subseteq Slots
  BY DEF KeptInv, LoginTypeOK
<1>4. refresh' \in RefreshRecords /\ refresh'.step = "none"
  <2>1. PICK t \in Slots : t = (s % Files) + 1 BY NextSlot
  <2>2. [NoRefresh EXCEPT !.slot = t]
          = [slot |-> t, from |-> 1, got |-> Gone, saw |-> Gone, step |-> "none"]
    BY DEF NoRefresh
  <2>3. [NoRefresh EXCEPT !.slot = t] \in RefreshRecords
        /\ [NoRefresh EXCEPT !.slot = t].step = "none"
    BY <2>2, Numbers DEF RefreshRecords
  <2> QED BY <1>2, <2>1, <2>3, Idle DEF Released
<1>5. refresh.step \notin Has /\ refresh'.step \notin Live BY <1>2, <1>4, NotHas DEF Has
<1>6. CASE at[r].pc = "refreshing"
  <2>1. PICK p \in Pairs : /\ p = Reread(s)
                           /\ p = held[s] \/ (p = disk[s] /\ disk[s] # Gone)
    BY <1>3, AdoptedPair DEF Reread
  <2>2. held' = [held EXCEPT ![s] = p] /\ Asks(r, s, p) /\ mutex' = NoRequest
    BY <1>2, <1>6, <2>1 DEF Released
  <2>3. at[r].left >= 1 /\ at \in [Requests -> RequestRecords] BY <1>6, AlreadyTyped
  <2>4. /\ at' \in [Requests -> RequestRecords] /\ Elsewhere(r) /\ at'[r].left >= 1
    BY <2>2, <2>3, AsksMoves
  <2>5. /\ held' = [t \in Slots |-> held'[t]] /\ \A t \in Slots : held'[t] \in Pairs
        /\ \A t \in Slots : held'[t] = held[t] \/ (held'[t] = disk[t] /\ disk[t] # Gone)
    BY <1>3, <2>1, <2>2
  <2>6. LoginTypeOK' /\ TokensTyped' BY <1>2, <1>3, <1>4, <2>2, <2>4, <2>5, TypesStay
  <2>7. Turns' BY <1>2, <1>4, <2>2, <2>4, TurnsTaken DEF KeptInv
  <2>8. PairsInv' BY <1>2, <1>5, <2>5, PairsStay DEF KeptInv, tokens
  <2> QED BY <2>6, <2>7, <2>8 DEF KeptInv
<1>7. CASE at[r].pc # "refreshing"
  <2>1. held' = held /\ at' = at /\ mutex' = mutex BY <1>2, <1>7
  <2>2. LoginTypeOK' /\ TokensTyped' BY <1>2, <1>3, <1>4, <2>1, AlreadyTyped, TypesStay
  <2>3. Turns' BY <1>2, <1>4, <2>1, TurnsStay DEF KeptInv
  <2>4. PairsInv' BY <1>2, <1>5, <2>1, PairsStay DEF KeptInv, tokens
  <2> QED BY <2>2, <2>3, <2>4 DEF KeptInv
<1> QED BY <1>6, <1>7

LEMMA RenamesKeeps == ASSUME KeptInv, NEW r \in Requests, Renames(r) PROVE KeptInv'
<1>1. PICK s \in Slots : s = refresh.slot BY AlreadyTyped
<1>2. /\ LoginTypeOK /\ TokensTyped /\ Known /\ Counted /\ Waiting /\ Grant /\ Somewhere
  BY DEF KeptInv, PairsInv
<1>3. /\ mutex = r /\ refresh.step = "writing" /\ refresh.step \in Has /\ Refreshed(r)
      /\ \/ /\ disk' = [disk EXCEPT ![s] = refresh.got]
            /\ lost' = IF disk[s] \in {refresh.saw, Gone} THEN lost ELSE lost \cup {s}
         \/ disk' = disk /\ lost' = lost \cup {s}
      /\ UNCHANGED <<resting, tokens, theirs>>
  BY <1>1 DEF Renames, Has
<1>4. /\ held'[s] = refresh.got /\ \A t \in Slots \ {s} : held'[t] = held[t]
      /\ held' = [t \in Slots |-> held'[t]] /\ \A t \in Slots : held'[t] \in Pairs
      /\ refresh.got \in Pairs
      /\ mutex' = NoRequest /\ refresh' = NoRefresh /\ active' \in Slots
      /\ at' \in [Requests -> RequestRecords] /\ Turns'
  BY <1>1, <1>3, RefreshedMoves
<1>5. /\ disk'[s] \in {disk[s], refresh.got} /\ \A t \in Slots \ {s} : disk'[t] = disk[t]
      /\ disk' \in [Slots -> Pairs \cup {Gone}] /\ lost' \subseteq Slots /\ lost \subseteq lost'
      /\ s \notin lost' => disk'[s] = refresh.got /\ disk[s] \in {refresh.saw, Gone}
  BY <1>2, <1>3, <1>4 DEF LoginTypeOK
<1>6. /\ refresh.got \in unspent[s] /\ refresh.got \in 1 .. issued[s]
      /\ owner[s][refresh.got] = owner[s][refresh.from]
      /\ refresh.saw \in {Gone, refresh.from}
      /\ theirs[s] # Gone => theirs[s] # refresh.got
      /\ refresh.got # Gone
  BY <1>1, <1>2, <1>3 DEF Grant, Known, Waiting, Gone
<1>7. held' \in [Slots -> Pairs] BY <1>4
<1>8. LoginTypeOK' /\ TokensTyped'
  <2>1. /\ resting' \subseteq Slots /\ mutex' \in Requests \cup {NoRequest}
        /\ refresh' \in RefreshRecords
    BY <1>2, <1>3, <1>4, Idle DEF LoginTypeOK
  <2> QED BY <1>2, <1>3, <1>4, <1>5, <1>7, <2>1
          DEF LoginTypeOK, TokensTyped, tokens, Statuses, RequestRecords, RefreshRecords
<1>9. refresh'.step \notin Live BY <1>4, Idle, NotHas
<1>10. owner' = owner /\ issued' = issued /\ unspent' = unspent /\ theirs' = theirs
  BY <1>3 DEF tokens
<1>11. Counted'
  <2>1. owner' = owner /\ issued' = issued /\ Counted BY <1>2, <1>10
  <2> QED BY <2>1 DEF Counted
<1>12. Known'
  <2>1. refresh.got \in 0 .. issued[s] BY <1>6
  <2>2. \A t \in Slots : disk'[t] \in 0 .. issued[t] /\ held'[t] \in 1 .. issued[t]
    BY <1>2, <1>4, <1>5, <1>6, <2>1 DEF Known
  <2> QED BY <1>2, <1>9, <1>10, <2>2, NotHas DEF Known
<1>13. Waiting' BY <1>2, <1>4, <1>5, <1>6, <1>9, <1>10, NotHas DEF Waiting
<1>14. Grant' BY <1>9, NotHas DEF Grant
<1>15. Somewhere'
  <2> SUFFICES ASSUME NEW t \in Slots \ lost'
               PROVE  /\ theirs[t] # Gone \/ disk'[t] \in unspent[t]
                      /\ LastToLogIn(t, IF theirs[t] = Gone THEN disk'[t] ELSE theirs[t])
    BY <1>10 DEF Somewhere, LastToLogIn
  <2>1. CASE t = s
    <3>1. disk'[s] = refresh.got /\ disk[s] \in {refresh.saw, Gone} /\ s \notin lost
      BY <1>5, <2>1
    <3>2. LastToLogIn(s, IF theirs[s] = Gone THEN disk[s] ELSE theirs[s])
      BY <1>2, <3>1 DEF Somewhere
    <3>3. CASE theirs[s] # Gone BY <1>6, <2>1, <3>1, <3>2, <3>3
    <3>4. CASE theirs[s] = Gone
      <4>1. disk[s] # Gone BY <1>2, <3>4 DEF Waiting
      <4>2. disk[s] = refresh.from BY <1>6, <3>1, <4>1
      <4>3. LastToLogIn(s, refresh.got) BY <1>6, <3>2, <3>4, <4>2 DEF LastToLogIn
      <4> QED BY <1>6, <2>1, <3>1, <3>4, <4>3
    <3> QED BY <3>3, <3>4
  <2>2. CASE t # s
    <3>1. t \notin lost /\ disk'[t] = disk[t] BY <1>5, <2>2
    <3>2. /\ theirs[t] # Gone \/ disk[t] \in unspent[t]
          /\ LastToLogIn(t, IF theirs[t] = Gone THEN disk[t] ELSE theirs[t])
      BY <1>1, <1>2, <2>2, <3>1 DEF Somewhere
    <3> QED BY <3>1, <3>2
  <2> QED BY <2>1, <2>2
<1> QED BY <1>4, <1>8, <1>11, <1>12, <1>13, <1>14, <1>15 DEF KeptInv, PairsInv

LEMMA TriesKeeps == ASSUME KeptInv, NEW r \in Requests, Tries(r) PROVE KeptInv'
<1>1. PICK s \in Slots : s = refresh.slot BY AlreadyTyped
<1>2. PICK p \in Pairs : /\ p = Adopted(s)
                         /\ p = held[s] \/ (p = disk[s] /\ disk[s] # Gone)
  BY AdoptedPair
<1>3. /\ mutex = r /\ at[r].pc = "trying" /\ refresh.step = "none"
      /\ UNCHANGED <<disk, resting, tokens, theirs, lost>>
  BY DEF Tries
<1>4. /\ held \in [Slots -> Pairs] /\ resting \subseteq Slots /\ active \in Slots
      /\ mutex \in Requests \cup {NoRequest} /\ lost \subseteq Slots
  BY DEF KeptInv, LoginTypeOK
<1>5. /\ at[r].left >= 1 /\ at \in [Requests -> RequestRecords] /\ refresh \in RefreshRecords
      /\ refresh.step \notin Has /\ refresh.step \notin Live
  BY <1>3, AlreadyTyped, NotHas
<1>6. \/ (Ends(r) \/ Again(r)) /\ Released /\ UNCHANGED <<held, active>>
      \/ /\ held' = [held EXCEPT ![s] = p] /\ UNCHANGED <<active, mutex, at>>
         /\ refresh' = [refresh EXCEPT !.slot = (s % Files) + 1]
      \/ held' = [held EXCEPT ![s] = p] /\ Again(r) /\ active' = s /\ Released
      \/ held' = [held EXCEPT ![s] = p] /\ refresh' = Sent(s, p) /\ UNCHANGED <<active, mutex, at>>
  BY <1>1, <1>2 DEF Tries, NoOther
<1>7. /\ held' = [t \in Slots |-> held'[t]] /\ \A t \in Slots : held'[t] \in Pairs
      /\ \A t \in Slots : held'[t] = held[t] \/ (held'[t] = disk[t] /\ disk[t] # Gone)
      /\ refresh'.step = "sent" => held'[s] = p
  <2>1. CASE held' = held
    <3>1. refresh'.step = "sent" => held'[s] = p
      BY <1>3, <1>4, <1>6, <2>1, Idle DEF Released
    <3> QED BY <1>4, <2>1, <3>1
  <2>2. CASE held' = [held EXCEPT ![s] = p] BY <1>2, <1>4, <2>2
  <2> QED BY <1>6, <2>1, <2>2
<1>8. CASE (Ends(r) \/ Again(r)) /\ Released /\ active' \in Slots
  <2>1. /\ at' \in [Requests -> RequestRecords] /\ Elsewhere(r)
        /\ at'[r].pc \notin {"idle", "through"} => at'[r].left >= 1
    BY <1>5, <1>8, EndsMoves, AgainMoves
  <2>2. mutex' = NoRequest /\ refresh' \in RefreshRecords /\ refresh'.step = "none"
    BY <1>8, Idle DEF Released
  <2>3. LoginTypeOK' /\ TokensTyped' BY <1>3, <1>4, <1>7, <1>8, <2>1, <2>2, TypesStay
  <2>4. Turns' BY <1>3, <2>1, <2>2, TurnsTaken DEF KeptInv
  <2>5. PairsInv' BY <1>3, <1>5, <1>7, <2>2, NotHas, PairsStay DEF KeptInv, tokens
  <2> QED BY <2>3, <2>4, <2>5 DEF KeptInv
<1>9. CASE /\ UNCHANGED <<active, mutex, at>>
           /\ refresh' = [refresh EXCEPT !.slot = (s % Files) + 1] \/ refresh' = Sent(s, p)
  <2>1. /\ refresh' \in RefreshRecords /\ refresh'.step \notin Has
        /\ refresh'.step \in Live =>
             refresh'.slot = s /\ refresh'.from = p /\ refresh'.step = "sent"
    <3>1. CASE refresh' = Sent(s, p) BY <3>1, SentTyped, NotHas
    <3>2. CASE refresh' = [refresh EXCEPT !.slot = (s % Files) + 1]
      <4>1. PICK t \in Slots : t = (s % Files) + 1 BY NextSlot
      <4>2. refresh' = [refresh EXCEPT !.slot = t] BY <3>2, <4>1
      <4>3. refresh' \in RefreshRecords /\ refresh'.step = refresh.step
        BY <1>5, <4>2 DEF RefreshRecords
      <4> QED BY <1>5, <4>3
    <3> QED BY <1>9, <3>1, <3>2
  <2>2. LoginTypeOK' /\ TokensTyped' BY <1>3, <1>4, <1>5, <1>7, <1>9, <2>1, TypesStay
  <2>3. Turns'
    <3>1. at'[r].pc \in {"refreshing", "trying"} /\ at'[r].left >= 1 /\ Elsewhere(r)
      BY <1>3, <1>5, <1>9 DEF Elsewhere
    <3> QED BY <1>3, <1>9, <3>1, TurnsTaken DEF KeptInv
  <2>4. PairsInv'
    <3>1. CASE refresh'.step \in Live
      <4>1. refresh'.slot \in Slots /\ refresh'.from = held'[refresh'.slot]
        BY <1>7, <2>1, <3>1
      <4> QED BY <1>3, <1>5, <1>7, <2>1, <4>1, PairsStay DEF KeptInv, tokens
    <3>2. CASE refresh'.step \notin Live
      BY <1>3, <1>5, <1>7, <3>2, PairsStay DEF KeptInv, tokens
    <3> QED BY <3>1, <3>2
  <2> QED BY <2>2, <2>3, <2>4 DEF KeptInv
<1> QED BY <1>4, <1>6, <1>8, <1>9

-----------------------------------------------------------------------------

LEMMA CompletionKeeps == ASSUME KeptInv, NEW r \in Requests, Completion(r) PROVE KeptInv'
  BY BeginKeeps, TakeTokenKeeps, ComparesKeeps, RenamesKeeps, RefreshFailsKeeps, AnsweredKeeps,
     RotateKeeps, TriesKeeps, HaltedKeeps
  DEF Completion

LEMMA LoginsStepKeeps == ASSUME KeptInv, [LoginNext]_loginVars PROVE KeptInv'
<1>1. ASSUME NEW r \in Requests, Completion(r) PROVE KeptInv' BY <1>1, CompletionKeeps
<1>2. CASE EndpointGrants BY <1>2, EndpointGrantsKeeps
<1>3. CASE EndpointFails BY <1>3, EndpointFailsKeeps
<1>4. ASSUME NEW s \in Slots,
             \/ Ending(s) \/ RunsOut(s) \/ WindowReturns(s)
             \/ ClaudeRefreshes(s) \/ LogIn(s) \/ ClaudeWrites(s)
      PROVE  KeptInv'
  BY <1>4, TimeKeeps, ClaudeRefreshesKeeps, LogInKeeps, ClaudeWritesKeeps
<1>5. CASE UNCHANGED loginVars
  <2>1. UNCHANGED <<disk, held, resting, active, mutex, at, refresh, tokens, theirs, lost>>
    BY <1>5 DEF loginVars, tokens
  <2>2. LoginTypeOK' /\ TokensTyped' BY <2>1 DEF KeptInv, LoginTypeOK, TokensTyped, tokens
  <2>3. Turns' BY <2>1, TurnsStay DEF KeptInv
  <2>4. PairsInv' BY <2>1, PairsStay DEF KeptInv, tokens
  <2> QED BY <2>2, <2>3, <2>4 DEF KeptInv
<1> QED BY <1>1, <1>2, <1>3, <1>4, <1>5 DEF LoginNext

LEMMA KeptGivesLogin == KeptInv => LoginInv
<1> SUFFICES ASSUME KeptInv PROVE LoginInv OBVIOUS
<1>1. LoginKept
  <2> SUFFICES ASSUME NEW s \in Slots \ lost
               PROVE  \/ {disk[s], held[s], theirs[s]} \cap unspent[s] # {}
                      \/ refresh.slot = s /\ refresh.got \in unspent[s]
    BY DEF LoginKept
  <2>1. CASE theirs[s] # Gone BY <2>1 DEF KeptInv, PairsInv, Waiting
  <2>2. CASE disk[s] \in unspent[s] BY <2>2
  <2>3. CASE refresh.slot = s /\ refresh.step \in Has BY <2>3 DEF KeptInv, PairsInv, Grant
  <2> QED BY <2>1, <2>2, <2>3 DEF KeptInv, PairsInv, Somewhere
<1>2. PersonStands BY DEF KeptInv, PairsInv, Somewhere, PersonStands
<1> QED BY <1>1, <1>2 DEF KeptInv, LoginInv

\* However requests, `claude` and the person who logs in race for the files, and wherever
\* a request is stopped: somebody has the refresh token that works, and what is on file
\* speaks for the one who logged in last, unless a pair was lost on its way.
THEOREM LoginsKept == LoginSpec => []LoginInv
<1>1. LoginSpec => []KeptInv
  <2>1. KeptInv /\ [LoginNext]_loginVars => KeptInv' BY LoginsStepKeeps
  <2> QED BY LoginsInitHolds, <2>1, PTL DEF LoginSpec
<1> QED BY <1>1, KeptGivesLogin, PTL

-----------------------------------------------------------------------------
(* Secrets. *)

\* What a file says of an item.
SecretIn(found, i) == IF found.items[i] = Absent THEN Absent ELSE found.items[i].secret

\* Everything in a file can be opened with one key.
SealedBy(found, key) ==
    /\ found.machine = key /\ found.passphrase \in {NoKey, key}
    /\ \A i \in Ids : found.items[i] # Absent => found.items[i].key = key

CallsTyped ==
    \A c \in Callers :
        /\ serving = "down" => calls[c] = NoCall
        /\ calls[c].pc # "idle" => calls[c].id \in Ids
        /\ calls[c].pc \in {"create", "set"} => calls[c].secret \in Secrets

\* What is in memory, while the daemon runs.
MemoryInv ==
    IF serving = "down"
      THEN kept = EmptyFile /\ toServe = {} /\ objects = {}
      ELSE /\ storeKey \in Keys /\ SealedBy(kept, storeKey)
           /\ \A i \in Ids : promised[i] # Unsure => promised[i] = SecretIn(kept, i)

\* What a restart finds.
DiskInv ==
    IF saved \in {NoStore, Blank}
      THEN \A i \in Ids : promised[i] # Unsure => promised[i] = Absent
      ELSE /\ saved.machine \in Keys /\ SealedBy(saved, saved.machine)
           /\ \A i \in Ids : promised[i] # Unsure => promised[i] = SecretIn(saved, i)

\* Nobody but the call that is creating it knows of an id that was not stored yet.
Unheard(i) ==
    /\ kept.items[i] = Absent /\ i \notin toServe /\ i \notin objects
    /\ saved \notin {NoStore, Blank} => saved.items[i] = Absent

FreshIds ==
    /\ \A i \in unused : Unheard(i) /\ \A c \in Callers : calls[c].id # i \/ calls[c].pc = "idle"
    /\ \A c \in Callers : calls[c].pc = "create" /\ calls[c].new =>
         /\ Unheard(calls[c].id)
         /\ \A d \in Callers \ {c} : calls[d].id # calls[c].id \/ calls[d].pc = "idle"

\* An item that is back before the object it had is gone.
Returning ==
    \A c \in Callers : calls[c].pc = "unserve" /\ calls[c].id \in Stored => calls[c].id \in astray

StoreInv ==
    /\ SecretTypeOK /\ CallsTyped /\ MemoryInv /\ DiskInv
    /\ FreshIds /\ Returning /\ ItemsServed

USE SecretConstants, StoreConstants

-----------------------------------------------------------------------------
(* Files. *)

LEMMA EmptyTyped == EmptyFile \in StoreFile
  BY DEF EmptyFile, StoreFile

LEMMA FilesApart == ASSUME NEW f \in StoreFile PROVE f \notin {NoStore, Blank}
  OBVIOUS

LEMMA KeptTyped ==
  ASSUME NEW f \in StoreFile, NEW i \in Ids, NEW x \in Item \cup {Absent}
  PROVE  /\ [f EXCEPT !.items[i] = x] \in StoreFile
         /\ [f EXCEPT !.items[i] = x].items[i] = x
         /\ \A j \in Ids \ {i} : [f EXCEPT !.items[i] = x].items[j] = f.items[j]
         /\ [f EXCEPT !.items[i] = x].machine = f.machine
         /\ [f EXCEPT !.items[i] = x].passphrase = f.passphrase
  BY DEF StoreFile

LEMMA ItemFields ==
  ASSUME NEW a \in Attributes, NEW s \in Secrets, NEW k \in Keys
  PROVE  /\ [attributes |-> a, secret |-> s, key |-> k] \in Item
         /\ [attributes |-> a, secret |-> s, key |-> k] # Absent
  BY DEF Item

LEMMA ItemWith ==
  ASSUME NEW x \in Item
  PROVE  x.attributes \in Attributes /\ x.secret \in Secrets /\ x.key \in Keys /\ x # Absent
  BY DEF Item

\* What a write leaves, if the new file is sealed with the key in memory, says what callers
\* will have been told, and a failure tells nobody anything new.
LEMMA WritesKeep ==
  ASSUME SecretTypeOK, MemoryInv, DiskInv, serving # "down",
         serving' = serving, storeKey' = storeKey,
         NEW f \in StoreFile, NEW ok \in BOOLEAN, Writes(f, ok), SealedBy(f, storeKey),
         \A j \in Ids : promised'[j] # Unsure => promised'[j] = SecretIn(f, j),
         ~ok => \A j \in Ids : promised'[j] # Unsure => promised'[j] = promised[j]
  PROVE  /\ MemoryInv' /\ DiskInv'
         /\ kept' \in StoreFile /\ saved' \in StoreFile \cup {NoStore, Blank}
         /\ fails' \in 0 .. MaxFails
<1>1. kept' = f BY DEF Writes
<1>2. storeKey \in Keys BY DEF MemoryInv
<1>3. MemoryInv' BY <1>1, <1>2 DEF MemoryInv, SealedBy, SecretIn
<1>4. CASE ok /\ saved' = f /\ fails' = fails
  <2>1. saved' \notin {NoStore, Blank} BY <1>4
  <2>2. saved'.machine = storeKey BY <1>4 DEF SealedBy
  <2>3. SealedBy(saved', saved'.machine) BY <1>4, <2>2
  <2>4. DiskInv' BY <1>2, <1>4, <2>1, <2>2, <2>3 DEF DiskInv, SealedBy, SecretIn
  <2> QED BY <1>1, <1>3, <1>4, <2>4 DEF SecretTypeOK
<1>5. CASE ~ok /\ fails < MaxFails /\ fails' = fails + 1 /\ saved' = saved
  <2>1. DiskInv' BY <1>5 DEF DiskInv, SealedBy, SecretIn
  <2> QED BY <1>1, <1>3, <1>5, <2>1 DEF SecretTypeOK
<1> QED BY <1>4, <1>5 DEF Writes

\* Fields of a call under way.
LEMMA CallFields ==
  ASSUME SecretTypeOK, CallsTyped, NEW c \in Callers, calls[c].pc # "idle"
  PROVE  /\ serving # "down" /\ calls[c].id \in Ids /\ calls[c].attributes \in Attributes
         /\ calls[c].pc \in {"create", "set"} => calls[c].secret \in Secrets
<1>1. calls[c] # NoCall BY DEF NoCall
<1> QED BY <1>1 DEF SecretTypeOK, CallsTyped

CallRecords ==
    [pc: {"idle", "create", "serve", "set", "describe", "delete", "unserve"},
     id: Ids \cup {Absent}, attributes: Attributes, secret: Secrets \cup {Absent},
     new: BOOLEAN]

\* A call that goes on, or returns, having touched no item but its own.
GoesOn(c) ==
    /\ calls[c].pc # "idle"
    /\ Returns(c) \/ Proceeds(c, "serve") \/ Proceeds(c, "unserve")
    /\ serving' = serving /\ toServe' = toServe /\ unused' = unused
    /\ objects' \subseteq objects \cup {calls[c].id}
    /\ \A j \in Ids \ {calls[c].id} : kept'.items[j] = kept.items[j]
    /\ saved' = saved \/ saved' = kept'

LEMMA GoesOnCalls ==
  ASSUME SecretTypeOK, CallsTyped, NEW c \in Callers, GoesOn(c)
  PROVE  /\ CallsTyped'
         /\ calls' \in [Callers -> CallRecords]
         /\ \A d \in Callers \ {c} : calls'[d] = calls[d]
         /\ calls'[c].pc \in {"idle", "serve", "unserve"}
         /\ calls'[c].pc # "idle" => calls'[c].id = calls[c].id
<1>1. serving # "down" BY CallFields DEF GoesOn
<1>2. CASE Returns(c)
  BY <1>1, <1>2 DEF CallRecords, SecretTypeOK, CallsTyped, GoesOn, Returns, NoCall
<1>3. ASSUME NEW pc \in {"serve", "unserve"}, Proceeds(c, pc)
      PROVE  /\ calls'[c] = [calls[c] EXCEPT !.pc = pc]
             /\ calls' \in [Callers -> CallRecords]
             /\ \A d \in Callers \ {c} : calls'[d] = calls[d]
             /\ calls'[c].pc = pc /\ calls'[c].id = calls[c].id
  BY <1>3 DEF CallRecords, SecretTypeOK, Proceeds
<1>4. CASE ~ Returns(c)
  <2>1. calls[c].id \in Ids BY CallFields DEF GoesOn
  <2>2. PICK pc \in {"serve", "unserve"} : Proceeds(c, pc) BY <1>4 DEF GoesOn
  <2>3. CallsTyped' BY <1>1, <1>3, <2>1, <2>2 DEF CallsTyped, GoesOn
  <2> QED BY <1>3, <2>2, <2>3
<1> QED BY <1>2, <1>4

LEMMA GoesOnFresh ==
  ASSUME SecretTypeOK, CallsTyped, FreshIds, NEW c \in Callers, GoesOn(c)
  PROVE  FreshIds'
<1> DEFINE i == calls[c].id
<1>1. /\ \A d \in Callers \ {c} : calls'[d] = calls[d]
      /\ calls'[c].pc \in {"idle", "serve", "unserve"}
      /\ calls'[c].pc # "idle" => calls'[c].id = calls[c].id
  BY GoesOnCalls
<1>2. i \in Ids /\ calls[c].pc # "idle" BY CallFields DEF GoesOn
<1>3. ASSUME NEW j \in Ids, j # i, Unheard(j) PROVE Unheard(j)'
  BY <1>3 DEF Unheard, GoesOn
<1>4. ASSUME NEW j \in unused'
      PROVE  Unheard(j)' /\ \A d \in Callers : calls'[d].id # j \/ calls'[d].pc = "idle"
  <2>1. j \in unused /\ j \in Ids /\ j # i BY <1>2, <1>4 DEF FreshIds, GoesOn, SecretTypeOK
  <2> QED BY <1>1, <1>3, <2>1 DEF FreshIds
<1>5. ASSUME NEW d \in Callers, calls'[d].pc = "create", calls'[d].new
      PROVE  /\ Unheard(calls[d].id)' /\ calls'[d] = calls[d]
             /\ \A e \in Callers \ {d} : calls'[e].id # calls'[d].id \/ calls'[e].pc = "idle"
  <2>1. d # c /\ calls'[d] = calls[d] BY <1>1, <1>5
  <2>2. calls[d].id # i BY <1>2, <1>5, <2>1 DEF FreshIds
  <2>3. calls[d].id \in Ids BY <1>5, <2>1, CallFields
  <2>4. Unheard(calls[d].id) BY <1>5, <2>1 DEF FreshIds
  <2>5. Unheard(calls[d].id)' BY <1>3, <2>2, <2>3, <2>4, <2>1 DEF Unheard, GoesOn
  <2> QED BY <1>1, <1>5, <2>1, <2>2, <2>5 DEF FreshIds
<1> QED BY <1>4, <1>5 DEF FreshIds, Unheard

-----------------------------------------------------------------------------
(* The daemon. *)

LEMMA StoreInitHolds == SecretInit => StoreInv
<1> SUFFICES ASSUME SecretInit PROVE StoreInv OBVIOUS
<1>1. kept = EmptyFile /\ EmptyFile \in StoreFile BY EmptyTyped DEF SecretInit
<1>2. SecretTypeOK BY <1>1 DEF SecretInit, SecretTypeOK, NoCall
<1>3. /\ \A c \in Callers : calls[c] = NoCall
      /\ \A c \in Callers : calls[c].pc = "idle"
  BY DEF SecretInit, NoCall
<1>4. CallsTyped BY <1>3 DEF CallsTyped, SecretInit
<1>5. MemoryInv /\ DiskInv BY DEF SecretInit, MemoryInv, DiskInv
<1>6. FreshIds BY <1>3 DEF SecretInit, FreshIds, Unheard, EmptyFile
<1>7. Returning /\ ItemsServed BY <1>3 DEF SecretInit, Returning, ItemsServed
<1> QED BY <1>2, <1>4, <1>5, <1>6, <1>7 DEF StoreInv

LEMMA OpenStoreKeeps == ASSUME StoreInv, OpenStore PROVE StoreInv'
<1> USE DEF StoreInv
<1> DEFINE found == IF saved \in {NoStore, Blank} THEN EmptyFile ELSE saved
<1>0. /\ serving = "down" /\ serving' = "named" /\ toServe' = toServe
      /\ objects' = objects /\ calls' = calls /\ unused' = unused /\ fails' = fails
      /\ promised' = promised /\ astray' = astray
  BY DEF OpenStore
<1>1. found \in StoreFile BY EmptyTyped DEF SecretTypeOK
<1>2. /\ \A i \in Ids : promised[i] # Unsure => promised[i] = SecretIn(found, i)
      /\ \A i \in Ids : Unheard(i) => found.items[i] = Absent
      /\ found.machine # NoKey => found.machine \in Keys /\ SealedBy(found, found.machine)
      /\ found.machine = NoKey => saved \in {NoStore, Blank}
  BY DEF DiskInv, SecretIn, EmptyFile, Unheard, NoKey, Keys
<1>3. /\ \A c \in Callers : calls[c] = NoCall
      /\ \A c \in Callers : calls[c].pc = "idle"
  <2>1. \A c \in Callers : calls[c] = NoCall BY <1>0 DEF CallsTyped
  <2>2. NoCall.pc = "idle" BY DEF NoCall
  <2> QED BY <2>1, <2>2
<1>4. toServe = {} /\ objects = {} BY <1>0 DEF MemoryInv
<1>5. /\ kept' \in StoreFile /\ saved' \in StoreFile \cup {NoStore, Blank}
      /\ storeKey' \in Keys /\ minted' \in 0 .. MaxKeys
      /\ SealedBy(kept', storeKey')
      /\ kept'.items = found.items
      /\ saved' = saved \/ saved' = kept'
  <2>1. CASE found.machine # NoKey
    <3>1. kept' = found /\ storeKey' = found.machine /\ saved' = saved /\ minted' = minted
      BY <2>1 DEF OpenStore
    <3> QED BY <1>1, <1>2, <2>1, <3>1 DEF SecretTypeOK
  <2>2. CASE found.machine = NoKey
    <3>1. /\ minted < MaxKeys /\ minted' = minted + 1 /\ storeKey' = minted + 1
          /\ kept' = [found EXCEPT !.machine = minted + 1]
          /\ saved' = saved \/ saved' = kept'
      BY <2>2 DEF OpenStore
    <3>2. minted + 1 \in Keys /\ minted + 1 \in 0 .. MaxKeys BY <3>1 DEF SecretTypeOK, Keys
    <3>3. kept' \in StoreFile /\ kept'.machine = minted + 1 /\ kept'.items = found.items
          /\ kept'.passphrase = found.passphrase
      BY <1>1, <3>1, <3>2 DEF StoreFile
    <3>4. found = EmptyFile BY <1>2, <2>2
    <3>5. SealedBy(kept', minted + 1) BY <3>3, <3>4 DEF SealedBy, EmptyFile
    <3> QED BY <3>1, <3>2, <3>3, <3>5 DEF SecretTypeOK
  <2> QED BY <2>1, <2>2
<1>6. SecretTypeOK' BY <1>0, <1>5 DEF SecretTypeOK
<1>7. CallsTyped' BY <1>0, <1>3 DEF CallsTyped, NoCall
<1>8. MemoryInv' BY <1>0, <1>2, <1>5 DEF MemoryInv, SecretIn
<1>9. DiskInv'
  <2>1. CASE saved' = saved BY <1>0, <2>1 DEF DiskInv, SecretIn, SealedBy
  <2>2. CASE saved' = kept'
    <3>1. saved' \notin {NoStore, Blank} /\ saved'.machine = storeKey'
      BY <1>5, <2>2 DEF SealedBy
    <3> QED BY <1>0, <1>2, <1>5, <2>2, <3>1 DEF DiskInv, SecretIn, SealedBy
  <2> QED BY <1>5, <2>1, <2>2
<1>10. \A i \in Ids : Unheard(i) => Unheard(i)' BY <1>0, <1>2, <1>5 DEF Unheard
<1>11. FreshIds' BY <1>0, <1>3, <1>10 DEF FreshIds, Unheard, SecretTypeOK
<1>12. Returning' BY <1>0, <1>3 DEF Returning
<1>13. ItemsServed' BY <1>0 DEF ItemsServed
<1> QED BY <1>6, <1>7, <1>8, <1>9, <1>11, <1>12, <1>13

LEMMA ListItemsKeeps == ASSUME StoreInv, ListItems PROVE StoreInv'
<1> USE DEF StoreInv, ListItems
<1>1. SecretTypeOK' BY DEF SecretTypeOK, Stored
<1>2. CallsTyped' BY DEF CallsTyped
<1>3. MemoryInv' /\ DiskInv' BY DEF MemoryInv, DiskInv, SealedBy, SecretIn
<1>4. \A i \in Ids : Unheard(i) => Unheard(i)' BY DEF Unheard, Stored
<1>5. FreshIds'
  <2>1. \A i \in unused : Unheard(i)' BY <1>4 DEF FreshIds, SecretTypeOK
  <2>2. \A c \in Callers : calls[c].pc = "create" /\ calls[c].new => Unheard(calls[c].id)'
    BY <1>4, CallFields DEF FreshIds, Unheard
  <2> QED BY <2>1, <2>2 DEF FreshIds, Unheard
<1>6. Returning' BY DEF Returning, Stored
<1>7. ItemsServed' BY DEF ItemsServed, Stored, Coming
<1> QED BY <1>1, <1>2, <1>3, <1>5, <1>6, <1>7

LEMMA ServeItemKeeps == ASSUME StoreInv, NEW i \in Ids, ServeItem(i) PROVE StoreInv'
<1> USE DEF StoreInv, ServeItem
<1>1. SecretTypeOK' BY DEF SecretTypeOK
<1>2. CallsTyped' BY DEF CallsTyped
<1>3. MemoryInv' /\ DiskInv' BY DEF MemoryInv, DiskInv, SealedBy, SecretIn
<1>4. \A j \in Ids : Unheard(j) => Unheard(j)' BY DEF Unheard
<1>5. FreshIds'
  <2>1. \A j \in unused : Unheard(j)' BY <1>4 DEF FreshIds, SecretTypeOK
  <2>2. \A c \in Callers : calls[c].pc = "create" /\ calls[c].new => Unheard(calls[c].id)'
    BY <1>4, CallFields DEF FreshIds, Unheard
  <2> QED BY <2>1, <2>2 DEF FreshIds, Unheard
<1>6. Returning' BY DEF Returning, Stored
<1>7. ItemsServed' BY DEF ItemsServed, Stored, Coming
<1> QED BY <1>1, <1>2, <1>3, <1>5, <1>6, <1>7

LEMMA DaemonStopsKeeps == ASSUME StoreInv, DaemonStops PROVE StoreInv'
<1> USE DEF StoreInv, DaemonStops
<1>1. \A c \in Callers : calls'[c] = NoCall /\ calls'[c].pc = "idle" BY DEF NoCall
<1>2. SecretTypeOK' BY EmptyTyped DEF SecretTypeOK, NoCall
<1>3. CallsTyped' BY <1>1 DEF CallsTyped
<1>4. MemoryInv' /\ DiskInv' BY DEF MemoryInv, DiskInv, SealedBy, SecretIn
<1>5. \A i \in Ids : Unheard(i) => Unheard(i)' BY DEF Unheard, EmptyFile
<1>6. FreshIds' BY <1>1, <1>5 DEF FreshIds, Unheard, SecretTypeOK
<1>7. Returning' BY <1>1 DEF Returning
<1>8. ItemsServed' BY DEF ItemsServed
<1> QED BY <1>2, <1>3, <1>4, <1>6, <1>7, <1>8

LEMMA SetPassphraseKeeps ==
  ASSUME StoreInv, NEW ok \in BOOLEAN, SetPassphrase(ok) PROVE StoreInv'
<1> DEFINE f == [kept EXCEPT !.passphrase = storeKey]
<1>0. /\ serving # "down" /\ serving' = serving /\ toServe' = toServe /\ objects' = objects
      /\ storeKey' = storeKey /\ calls' = calls /\ unused' = unused /\ minted' = minted
      /\ promised' = promised /\ astray' = astray /\ Writes(f, ok)
  BY DEF SetPassphrase, Untouched
<1>1. SecretTypeOK /\ CallsTyped /\ MemoryInv /\ DiskInv /\ FreshIds /\ Returning
      /\ ItemsServed
  BY DEF StoreInv
<1>2. storeKey \in Keys /\ kept \in StoreFile BY <1>0, <1>1 DEF MemoryInv, SecretTypeOK
<1>3. f \in StoreFile /\ f.items = kept.items /\ f.machine = kept.machine
      /\ f.passphrase = storeKey
  BY <1>2 DEF StoreFile
<1>4. SealedBy(f, storeKey) BY <1>0, <1>1, <1>3 DEF MemoryInv, SealedBy
<1>5. \A j \in Ids : promised'[j] # Unsure => promised'[j] = SecretIn(f, j)
  BY <1>0, <1>1, <1>3 DEF MemoryInv, SecretIn
<1>6. /\ MemoryInv' /\ DiskInv'
      /\ kept' \in StoreFile /\ saved' \in StoreFile \cup {NoStore, Blank}
      /\ fails' \in 0 .. MaxFails
  <2> HIDE DEF f
  <2> QED BY <1>0, <1>1, <1>3, <1>4, <1>5, WritesKeep
<1>7. SecretTypeOK' BY <1>0, <1>1, <1>6 DEF SecretTypeOK
<1>8. kept' = f /\ (saved' = saved \/ saved' = kept') BY <1>0 DEF Writes
<1>9. CallsTyped' BY <1>0, <1>1 DEF CallsTyped
<1>10. \A i \in Ids : Unheard(i) => Unheard(i)' BY <1>0, <1>3, <1>8 DEF Unheard
<1>11. FreshIds'
  <2>1. \A i \in unused : Unheard(i)' BY <1>1, <1>10 DEF FreshIds, SecretTypeOK
  <2>2. \A c \in Callers : calls[c].pc = "create" /\ calls[c].new => Unheard(calls[c].id)'
    BY <1>0, <1>1, <1>10, CallFields DEF FreshIds, Unheard
  <2> QED BY <1>0, <1>1, <2>1, <2>2 DEF FreshIds, Unheard
<1>12. kept'.items = kept.items BY <1>3, <1>8
<1>13. Returning' BY <1>0, <1>1, <1>12 DEF Returning, Stored
<1>14. ItemsServed' BY <1>0, <1>1, <1>12 DEF ItemsServed, Stored, Coming
<1> QED BY <1>6, <1>7, <1>9, <1>11, <1>13, <1>14 DEF StoreInv

-----------------------------------------------------------------------------
(* Calls that start. *)

\* Of an item somebody knows, or of one nobody knew of until now.
LEMMA StartsKeeps ==
  ASSUME StoreInv, NEW c \in Callers, NEW call \in CallRecords,
         call.pc \in {"create", "set", "describe", "delete"}, call.id \in Ids,
         call.pc \in {"create", "set"} => call.secret \in Secrets,
         Starts(c, call), unused' \subseteq unused, call.id \notin unused',
         IF call.pc = "create" /\ call.new THEN call.id \in unused ELSE ~Unheard(call.id)
  PROVE  StoreInv'
<1> USE DEF StoreInv
<1>0. /\ serving # "down" /\ serving' = serving /\ toServe' = toServe /\ kept' = kept
      /\ storeKey' = storeKey /\ saved' = saved /\ objects' = objects /\ minted' = minted
      /\ fails' = fails /\ promised' = promised /\ astray' = astray
      /\ calls' = [calls EXCEPT ![c] = call] /\ calls[c] = NoCall
  BY DEF Starts
<1>1. /\ calls' \in [Callers -> CallRecords] /\ calls'[c] = call
      /\ \A d \in Callers \ {c} : calls'[d] = calls[d]
      /\ calls[c].pc = "idle"
  BY <1>0 DEF SecretTypeOK, CallRecords, NoCall
<1>2. SecretTypeOK' BY <1>0, <1>1 DEF SecretTypeOK, CallRecords
<1>3. CallsTyped' BY <1>0, <1>1 DEF CallsTyped
<1>4. MemoryInv' /\ DiskInv' BY <1>0 DEF MemoryInv, DiskInv, SealedBy, SecretIn
<1>5. \A j \in Ids : Unheard(j) => Unheard(j)' BY <1>0 DEF Unheard
<1>6. ASSUME NEW d \in Callers, calls[d].pc = "create", calls[d].new PROVE calls[d].id # call.id
  BY <1>6 DEF FreshIds
<1>7. \A j \in unused' :
        Unheard(j)' /\ \A d \in Callers : calls'[d].id # j \/ calls'[d].pc = "idle"
  BY <1>1, <1>5 DEF FreshIds, SecretTypeOK
<1>8. ASSUME NEW d \in Callers, calls'[d].pc = "create", calls'[d].new
      PROVE  /\ Unheard(calls[d].id)'
             /\ \A e \in Callers \ {d} :
                  calls'[e].id # calls'[d].id \/ calls'[e].pc = "idle"
  <2>1. CASE d = c
    <3>1. call.id \in unused BY <1>1, <1>8, <2>1
    <3>2. Unheard(call.id) BY <3>1 DEF FreshIds
    <3>3. Unheard(calls[d].id)' BY <1>0, <1>1, <2>1, <3>2 DEF Unheard
    <3> QED BY <1>1, <2>1, <3>1, <3>3 DEF FreshIds
  <2>2. CASE d # c
    <3>1. calls'[d] = calls[d] /\ calls[d].pc = "create" /\ calls[d].new BY <1>1, <1>8, <2>2
    <3>2. Unheard(calls[d].id) BY <3>1 DEF FreshIds
    <3>3. Unheard(calls[d].id)' BY <1>0, <3>1, <3>2 DEF Unheard
    <3>4. calls[d].id # call.id BY <1>6, <3>1
    <3> QED BY <1>1, <2>2, <3>1, <3>3, <3>4 DEF FreshIds
  <2> QED BY <2>1, <2>2
<1>9. FreshIds' BY <1>7, <1>8 DEF FreshIds, Unheard
<1>10. Returning' BY <1>0, <1>1 DEF Returning, Stored
<1>11. ItemsServed'
  <2>1. Coming \subseteq Coming' BY <1>1 DEF Coming
  <2> QED BY <1>0, <2>1 DEF ItemsServed, Stored
<1> QED BY <1>2, <1>3, <1>4, <1>9, <1>10, <1>11

LEMMA CreateItemKeeps ==
  ASSUME StoreInv, NEW c \in Callers, NEW attributes \in Attributes, NEW secret \in Secrets,
         NEW replace \in BOOLEAN, CreateItem(c, attributes, secret, replace)
  PROVE  StoreInv'
<1> DEFINE over == replace /\ Found(attributes) # {}
<1>1. PICK i \in Ids :
        /\ over \/ unused # {}
        /\ i \in IF over THEN Found(attributes) ELSE {CHOOSE j \in unused : TRUE}
        /\ unused' = unused \ {i}
        /\ Starts(c, [pc |-> "create", id |-> i, attributes |-> attributes,
                      secret |-> secret, new |-> ~over])
  BY DEF CreateItem
<1>2. IF over THEN i \in Stored ELSE i \in unused
  <2>1. over => i \in Stored BY <1>1 DEF Found
  <2>2. unused # {} => (CHOOSE j \in unused : TRUE) \in unused OBVIOUS
  <2> QED BY <1>1, <2>1, <2>2
<1>3. over \in BOOLEAN OBVIOUS
<1> HIDE DEF over
<1>4. PICK call : call = [pc |-> "create", id |-> i, attributes |-> attributes,
                          secret |-> secret, new |-> ~over]
  OBVIOUS
<1>5. /\ call \in CallRecords /\ call.pc = "create" /\ call.id = i /\ call.secret = secret
      /\ call.new = ~over
  BY <1>3, <1>4 DEF CallRecords
<1>6. IF call.pc = "create" /\ call.new THEN call.id \in unused ELSE ~Unheard(call.id)
  BY <1>2, <1>5 DEF Unheard, Stored
<1>7. Starts(c, call) BY <1>1, <1>4
<1>8. unused' \subseteq unused /\ call.id \notin unused' BY <1>1, <1>5
<1> QED BY <1>5, <1>6, <1>7, <1>8, StartsKeeps

LEMMA OnItemKeeps ==
  ASSUME StoreInv, NEW c \in Callers, NEW i \in Ids, NEW pc \in {"set", "describe", "delete"},
         NEW attributes \in Attributes, NEW secret \in Secrets \cup {Absent},
         pc = "set" => secret \in Secrets, OnItem(c, i, pc, attributes, secret)
  PROVE  StoreInv'
<1>1. PICK call : call = [pc |-> pc, id |-> i, attributes |-> attributes, secret |-> secret,
                          new |-> FALSE]
  OBVIOUS
<1>2. /\ call \in CallRecords /\ call.pc = pc /\ call.id = i /\ call.secret = secret
      /\ call.new = FALSE
  BY <1>1 DEF CallRecords
<1>3. Starts(c, call) /\ unused' = unused /\ i \in objects BY <1>1 DEF OnItem
<1>4. ~Unheard(i) /\ i \notin unused BY <1>3 DEF Unheard, StoreInv, FreshIds
<1> QED BY <1>2, <1>3, <1>4, StartsKeeps

-----------------------------------------------------------------------------
(* Calls under way. *)

LEMMA TypesGoOn ==
  ASSUME SecretTypeOK, CallsTyped, NEW c \in Callers, GoesOn(c),
         kept' \in StoreFile, saved' \in StoreFile \cup {NoStore, Blank},
         fails' \in 0 .. MaxFails, storeKey' = storeKey, minted' = minted,
         promised' \in [Ids -> Secrets \cup {Absent, Unsure}], astray' \subseteq Ids
  PROVE  SecretTypeOK'
<1>1. calls' \in [Callers -> CallRecords] BY GoesOnCalls
<1>2. calls[c].id \in Ids BY CallFields DEF GoesOn
<1>3. objects' \subseteq Ids BY <1>2 DEF GoesOn, SecretTypeOK
<1> QED BY <1>1, <1>3 DEF SecretTypeOK, CallRecords, GoesOn

LEMMA ToldPromises ==
  ASSUME SecretTypeOK, NEW i \in Ids, NEW what \in Secrets \cup {Absent}, NEW ok \in BOOLEAN,
         Told(i, what, ok)
  PROVE  /\ promised' \in [Ids -> Secrets \cup {Absent, Unsure}]
         /\ promised'[i] = IF ok THEN what ELSE Unsure
         /\ \A j \in Ids \ {i} : promised'[j] = promised[j]
  BY DEF SecretTypeOK, Told

\* A call that writes the item it is about, and tells its caller.
LEMMA ItemWritten ==
  ASSUME StoreInv, NEW c \in Callers, calls[c].pc # "idle", NEW ok \in BOOLEAN,
         NEW x \in Item \cup {Absent}, x # Absent => x.key = storeKey,
         Writes([kept EXCEPT !.items[calls[c].id] = x], ok),
         promised' \in [Ids -> Secrets \cup {Absent, Unsure}],
         \A j \in Ids \ {calls[c].id} : promised'[j] = promised[j],
         ~ok => promised'[calls[c].id] \in {Unsure, promised[calls[c].id]},
         promised'[calls[c].id] \in {Unsure, IF x = Absent THEN Absent ELSE x.secret},
         Returns(c) \/ Proceeds(c, "serve") \/ Proceeds(c, "unserve"),
         Untouched, objects' = objects, astray' \subseteq Ids
  PROVE  /\ SecretTypeOK' /\ CallsTyped' /\ MemoryInv' /\ DiskInv' /\ FreshIds'
         /\ kept'.items[calls[c].id] = x
         /\ \A j \in Ids \ {calls[c].id} : kept'.items[j] = kept.items[j]
         /\ Stored' = IF x = Absent THEN Stored \ {calls[c].id} ELSE Stored \cup {calls[c].id}
<1>0. SecretTypeOK /\ CallsTyped /\ MemoryInv /\ DiskInv /\ FreshIds BY DEF StoreInv
<1>1. PICK i \in Ids : i = calls[c].id BY <1>0, CallFields
<1>2. serving # "down" BY <1>0, CallFields
<1>3. PICK f : f = [kept EXCEPT !.items[i] = x] OBVIOUS
<1>4. kept \in StoreFile /\ storeKey \in Keys /\ SealedBy(kept, storeKey)
  BY <1>0, <1>2 DEF SecretTypeOK, MemoryInv
<1>5. /\ f \in StoreFile /\ f.items[i] = x /\ f.machine = kept.machine
      /\ f.passphrase = kept.passphrase
      /\ \A j \in Ids \ {i} : f.items[j] = kept.items[j]
  BY <1>3, <1>4, KeptTyped
<1>6. SealedBy(f, storeKey) BY <1>4, <1>5 DEF SealedBy
<1>7. Writes(f, ok) BY <1>1, <1>3
<1>8. \A j \in Ids : promised'[j] # Unsure => promised'[j] = SecretIn(f, j)
  BY <1>0, <1>1, <1>2, <1>5 DEF MemoryInv, SecretIn
<1>9. ~ok => \A j \in Ids : promised'[j] # Unsure => promised'[j] = promised[j]
  BY <1>1
<1>10. serving' = serving /\ storeKey' = storeKey /\ minted' = minted BY DEF Untouched
<1>11. /\ MemoryInv' /\ DiskInv'
       /\ kept' \in StoreFile /\ saved' \in StoreFile \cup {NoStore, Blank}
       /\ fails' \in 0 .. MaxFails
  BY <1>0, <1>2, <1>5, <1>6, <1>7, <1>8, <1>9, <1>10, WritesKeep
<1>12. kept' = f /\ (saved' = saved \/ saved' = kept') BY <1>7 DEF Writes
<1>13. GoesOn(c) BY <1>1, <1>5, <1>12 DEF GoesOn, Untouched
<1>14. SecretTypeOK' BY <1>0, <1>10, <1>11, <1>13, TypesGoOn
<1>15. CallsTyped' /\ FreshIds' BY <1>0, <1>13, GoesOnCalls, GoesOnFresh
<1>16. Stored' = IF x = Absent THEN Stored \ {i} ELSE Stored \cup {i}
  BY <1>5, <1>12 DEF Stored
<1> QED BY <1>1, <1>5, <1>11, <1>12, <1>14, <1>15, <1>16

LEMMA CreateStoresKeeps ==
  ASSUME StoreInv, NEW c \in Callers, NEW ok \in BOOLEAN, CreateStores(c, ok) PROVE StoreInv'
<1>0. SecretTypeOK /\ CallsTyped /\ MemoryInv /\ Returning /\ ItemsServed BY DEF StoreInv
<1>1. calls[c].pc = "create" /\ calls[c].pc # "idle" BY DEF CreateStores
<1>2. PICK i \in Ids : i = calls[c].id BY <1>0, <1>1, CallFields
<1>3. PICK secret \in Secrets : secret = calls[c].secret BY <1>0, <1>1, CallFields
<1>4. calls[c].attributes \in Attributes /\ storeKey \in Keys
  BY <1>0, <1>1, CallFields DEF MemoryInv
<1>5. PICK x : x = [attributes |-> calls[c].attributes, secret |-> secret, key |-> storeKey]
  OBVIOUS
<1>6. x \in Item /\ x # Absent /\ x.key = storeKey /\ x.secret = secret
  BY <1>4, <1>5, ItemFields
<1>7. /\ Writes([kept EXCEPT !.items[i] = x], ok)
      /\ Told(i, secret, ok) /\ Untouched /\ objects' = objects
      /\ IF ok /\ calls[c].new THEN Proceeds(c, "serve") ELSE Returns(c)
      /\ astray' = IF i \in Stored \/ (ok /\ calls[c].new) THEN astray ELSE astray \cup {i}
  BY <1>2, <1>3, <1>5 DEF CreateStores, Put
<1>8. /\ promised' \in [Ids -> Secrets \cup {Absent, Unsure}]
      /\ promised'[i] = IF ok THEN secret ELSE Unsure
      /\ \A j \in Ids \ {i} : promised'[j] = promised[j]
  BY <1>0, <1>7, ToldPromises
<1>9. astray' \subseteq Ids /\ astray \subseteq astray' BY <1>0, <1>7 DEF SecretTypeOK
<1>10. /\ SecretTypeOK' /\ CallsTyped' /\ MemoryInv' /\ DiskInv' /\ FreshIds'
       /\ Stored' = Stored \cup {i}
  BY <1>1, <1>2, <1>6, <1>7, <1>8, <1>9, ItemWritten
<1>11. /\ \A d \in Callers \ {c} : calls'[d] = calls[d]
       /\ IF ok /\ calls[c].new THEN calls'[c].pc = "serve" /\ calls'[c].id = i
                                ELSE calls'[c].pc = "idle"
  BY <1>0, <1>2, <1>7 DEF SecretTypeOK, Returns, Proceeds, NoCall
<1>12. Returning'
  <2> SUFFICES ASSUME NEW d \in Callers, calls'[d].pc = "unserve", calls'[d].id \in Stored'
               PROVE  calls'[d].id \in astray'
    BY DEF Returning
  <2>1. d # c /\ calls'[d] = calls[d] BY <1>11
  <2>2. CASE calls[d].id \in Stored BY <1>0, <1>9, <2>1, <2>2 DEF Returning
  <2>3. CASE calls[d].id \notin Stored
    <3>1. calls[d].id = i /\ i \notin Stored BY <1>10, <2>1, <2>3
    <3>2. ~calls[c].new BY <1>1, <1>2, <2>1, <3>1 DEF StoreInv, FreshIds
    <3> QED BY <1>7, <2>1, <3>1, <3>2
  <2> QED BY <2>2, <2>3
<1>13. ItemsServed'
  <2>1. Coming \subseteq Coming' /\ (ok /\ calls[c].new => i \in Coming')
    BY <1>1, <1>11 DEF Coming
  <2>2. serving' = serving /\ toServe' = toServe BY <1>7 DEF Untouched
  <2>3. i \in Stored \/ i \in Coming' \/ i \in astray' BY <1>7, <2>1
  <2> QED BY <1>0, <1>7, <1>9, <1>10, <2>1, <2>2, <2>3 DEF ItemsServed
<1> QED BY <1>10, <1>12, <1>13 DEF StoreInv

LEMMA SetSecretKeeps ==
  ASSUME StoreInv, NEW c \in Callers, NEW ok \in BOOLEAN, SetSecret(c, ok) PROVE StoreInv'
<1>0. SecretTypeOK /\ CallsTyped /\ MemoryInv /\ Returning /\ ItemsServed BY DEF StoreInv
<1>1. calls[c].pc = "set" /\ calls[c].pc # "idle" BY DEF SetSecret
<1>2. PICK i \in Ids : i = calls[c].id BY <1>0, <1>1, CallFields
<1>3. PICK secret \in Secrets : secret = calls[c].secret BY <1>0, <1>1, CallFields
<1>4. kept \in StoreFile /\ storeKey \in Keys
  BY <1>0, <1>1, CallFields DEF MemoryInv, SecretTypeOK
<1>5. PICK a \in Attributes :
        a = IF i \in Stored THEN kept.items[i].attributes ELSE NoAttributes
  BY <1>4, ItemWith DEF Stored, StoreFile
<1>6. PICK x : x = [attributes |-> a, secret |-> secret, key |-> storeKey] OBVIOUS
<1>7. x \in Item /\ x # Absent /\ x.key = storeKey /\ x.secret = secret
  BY <1>4, <1>6, ItemFields
<1>8. /\ Writes([kept EXCEPT !.items[i] = x], ok)
      /\ Told(i, secret, ok) /\ Untouched /\ objects' = objects /\ Returns(c)
      /\ astray' = IF i \in Stored THEN astray ELSE astray \cup {i}
  BY <1>2, <1>3, <1>5, <1>6 DEF SetSecret, Put
<1>9. /\ promised' \in [Ids -> Secrets \cup {Absent, Unsure}]
      /\ promised'[i] = IF ok THEN secret ELSE Unsure
      /\ \A j \in Ids \ {i} : promised'[j] = promised[j]
  BY <1>0, <1>8, ToldPromises
<1>10. astray' \subseteq Ids /\ astray \subseteq astray' BY <1>0, <1>8 DEF SecretTypeOK
<1>11. /\ SecretTypeOK' /\ CallsTyped' /\ MemoryInv' /\ DiskInv' /\ FreshIds'
       /\ Stored' = Stored \cup {i}
  BY <1>1, <1>2, <1>7, <1>8, <1>9, <1>10, ItemWritten
<1>12. /\ \A d \in Callers \ {c} : calls'[d] = calls[d]
       /\ calls'[c].pc = "idle"
  BY <1>0, <1>8 DEF SecretTypeOK, Returns, NoCall
<1>13. i \in Stored \/ i \in astray' BY <1>8
<1>14. Returning' BY <1>0, <1>10, <1>11, <1>12, <1>13 DEF Returning
<1>15. ItemsServed'
  <2>1. Coming \subseteq Coming' BY <1>1, <1>12 DEF Coming
  <2> QED BY <1>0, <1>8, <1>10, <1>11, <1>13, <2>1 DEF ItemsServed, Untouched
<1> QED BY <1>11, <1>14, <1>15 DEF StoreInv

\* A call that is over without having changed what is stored.
LEMMA OverKeeps ==
  ASSUME StoreInv, NEW c \in Callers, calls[c].pc # "idle", Returns(c), Untouched,
         kept' = kept, saved' = saved, fails' = fails, promised' = promised, astray' = astray,
         objects' \subseteq objects \cup {calls[c].id}
  PROVE  /\ SecretTypeOK' /\ CallsTyped' /\ MemoryInv' /\ DiskInv' /\ FreshIds' /\ Returning'
         /\ \A d \in Callers \ {c} : calls'[d] = calls[d]
         /\ calls'[c].pc = "idle" /\ Stored' = Stored
<1>0. SecretTypeOK /\ CallsTyped /\ MemoryInv /\ DiskInv /\ FreshIds /\ Returning
  BY DEF StoreInv
<1>1. GoesOn(c) BY DEF GoesOn, Untouched
<1>2. SecretTypeOK' BY <1>0, <1>1, TypesGoOn DEF SecretTypeOK, Untouched
<1>3. CallsTyped' /\ FreshIds' BY <1>0, <1>1, GoesOnCalls, GoesOnFresh
<1>4. serving # "down" BY <1>0, CallFields
<1>5. MemoryInv' /\ DiskInv' BY <1>0, <1>4 DEF MemoryInv, DiskInv, SealedBy, SecretIn, Untouched
<1>6. /\ \A d \in Callers \ {c} : calls'[d] = calls[d]
      /\ calls'[c].pc = "idle"
  BY <1>0 DEF SecretTypeOK, Returns, NoCall
<1>7. Stored' = Stored BY DEF Stored
<1>8. Returning' BY <1>0, <1>6, <1>7 DEF Returning
<1> QED BY <1>2, <1>3, <1>5, <1>6, <1>7, <1>8

LEMMA CreateServesKeeps ==
  ASSUME StoreInv, NEW c \in Callers, CreateServes(c) PROVE StoreInv'
<1>1. /\ calls[c].pc = "serve" /\ objects' = objects \cup {calls[c].id} /\ Returns(c)
      /\ Untouched /\ kept' = kept /\ saved' = saved /\ fails' = fails
      /\ promised' = promised /\ astray' = astray
  BY DEF CreateServes
<1>2. /\ SecretTypeOK' /\ CallsTyped' /\ MemoryInv' /\ DiskInv' /\ FreshIds' /\ Returning'
      /\ \A d \in Callers \ {c} : calls'[d] = calls[d]
      /\ Stored' = Stored
  BY <1>1, OverKeeps
<1>3. Coming \subseteq Coming' \cup {calls[c].id} BY <1>2 DEF Coming
<1>4. ItemsServed' BY <1>1, <1>2, <1>3 DEF StoreInv, ItemsServed, Untouched
<1> QED BY <1>2, <1>4 DEF StoreInv

LEMMA DeleteUnservesKeeps ==
  ASSUME StoreInv, NEW c \in Callers, DeleteUnserves(c) PROVE StoreInv'
<1>1. /\ calls[c].pc = "unserve" /\ objects' = objects \ {calls[c].id} /\ Returns(c)
      /\ Untouched /\ kept' = kept /\ saved' = saved /\ fails' = fails
      /\ promised' = promised /\ astray' = astray
  BY DEF DeleteUnserves
<1>2. /\ SecretTypeOK' /\ CallsTyped' /\ MemoryInv' /\ DiskInv' /\ FreshIds' /\ Returning'
      /\ \A d \in Callers \ {c} : calls'[d] = calls[d]
      /\ Stored' = Stored
  BY <1>1, OverKeeps
<1>3. Coming \subseteq Coming' BY <1>1, <1>2 DEF Coming
<1>4. calls[c].id \in Stored => calls[c].id \in astray BY <1>1 DEF StoreInv, Returning
<1>5. ItemsServed' BY <1>1, <1>2, <1>3, <1>4 DEF StoreInv, ItemsServed, Untouched
<1> QED BY <1>2, <1>5 DEF StoreInv

LEMMA DescribeKeeps ==
  ASSUME StoreInv, NEW c \in Callers, NEW ok \in BOOLEAN, Describe(c, ok) PROVE StoreInv'
<1>0. SecretTypeOK /\ CallsTyped /\ MemoryInv /\ Returning /\ ItemsServed BY DEF StoreInv
<1>1. /\ calls[c].pc = "describe" /\ calls[c].pc # "idle" /\ Returns(c) /\ Untouched
      /\ objects' = objects /\ promised' = promised /\ astray' = astray
  BY DEF Describe
<1>2. PICK i \in Ids : i = calls[c].id BY <1>0, <1>1, CallFields
<1>3. /\ \A d \in Callers \ {c} : calls'[d] = calls[d]
      /\ calls'[c].pc = "idle"
  BY <1>0, <1>1 DEF SecretTypeOK, Returns, NoCall
<1>4. Coming \subseteq Coming' BY <1>1, <1>3 DEF Coming
<1>5. CASE i \in Stored
  <2>1. kept \in StoreFile /\ storeKey \in Keys /\ serving # "down"
    BY <1>0, <1>1, CallFields DEF MemoryInv, SecretTypeOK
  <2>2. calls[c].attributes \in Attributes BY <1>0, <1>1, CallFields
  <2>3. PICK secret \in Secrets : secret = kept.items[i].secret
    BY <1>5, <2>1, ItemWith DEF Stored, StoreFile
  <2>4. PICK x : x = [attributes |-> calls[c].attributes, secret |-> secret, key |-> storeKey]
    OBVIOUS
  <2>5. x \in Item /\ x # Absent /\ x.key = storeKey /\ x.secret = secret
    BY <2>1, <2>2, <2>4, ItemFields
  <2>6. Writes([kept EXCEPT !.items[i] = x], ok) BY <1>2, <1>5, <2>3, <2>4 DEF Describe, Put
  <2>7. promised[i] \in {Unsure, secret}
    BY <1>0, <1>5, <2>1, <2>3 DEF MemoryInv, SecretIn, Stored
  <2>8. promised \in [Ids -> Secrets \cup {Absent, Unsure}] /\ astray \subseteq Ids
    BY <1>0 DEF SecretTypeOK
  <2>9. /\ SecretTypeOK' /\ CallsTyped' /\ MemoryInv' /\ DiskInv' /\ FreshIds'
        /\ Stored' = Stored \cup {i}
    BY <1>1, <1>2, <2>5, <2>6, <2>7, <2>8, ItemWritten
  <2>10. Stored' = Stored BY <1>5, <2>9
  <2>11. Returning' BY <1>0, <1>1, <1>3, <2>10 DEF Returning
  <2>12. ItemsServed' BY <1>0, <1>1, <1>4, <2>10 DEF ItemsServed, Untouched
  <2> QED BY <2>9, <2>11, <2>12 DEF StoreInv
<1>6. CASE i \notin Stored
  <2>1. kept' = kept /\ saved' = saved /\ fails' = fails BY <1>2, <1>6 DEF Describe
  <2>2. /\ SecretTypeOK' /\ CallsTyped' /\ MemoryInv' /\ DiskInv' /\ FreshIds' /\ Returning'
        /\ Stored' = Stored
    BY <1>1, <2>1, OverKeeps
  <2>3. ItemsServed' BY <1>0, <1>1, <1>4, <2>2 DEF ItemsServed, Untouched
  <2> QED BY <2>2, <2>3 DEF StoreInv
<1> QED BY <1>5, <1>6

LEMMA DeleteItemKeeps ==
  ASSUME StoreInv, NEW c \in Callers, NEW ok \in BOOLEAN, DeleteItem(c, ok) PROVE StoreInv'
<1>0. SecretTypeOK /\ CallsTyped /\ MemoryInv /\ Returning /\ ItemsServed BY DEF StoreInv
<1>1. calls[c].pc = "delete" /\ calls[c].pc # "idle" BY DEF DeleteItem
<1>2. PICK i \in Ids : i = calls[c].id BY <1>0, <1>1, CallFields
<1>3. /\ Writes([kept EXCEPT !.items[i] = Absent], ok)
      /\ IF ok THEN Proceeds(c, "unserve") ELSE Returns(c)
      /\ Told(i, Absent, ok) /\ Untouched /\ objects' = objects /\ astray' = astray
  BY <1>2 DEF DeleteItem
<1>4. /\ promised' \in [Ids -> Secrets \cup {Absent, Unsure}]
      /\ promised'[i] = IF ok THEN Absent ELSE Unsure
      /\ \A j \in Ids \ {i} : promised'[j] = promised[j]
  BY <1>0, <1>3, ToldPromises
<1>5. astray' \subseteq Ids BY <1>0, <1>3 DEF SecretTypeOK
<1>6. /\ SecretTypeOK' /\ CallsTyped' /\ MemoryInv' /\ DiskInv' /\ FreshIds'
      /\ Stored' = Stored \ {i}
  BY <1>1, <1>2, <1>3, <1>4, <1>5, ItemWritten
<1>7. /\ \A d \in Callers \ {c} : calls'[d] = calls[d]
      /\ IF ok THEN calls'[c].pc = "unserve" /\ calls'[c].id = i ELSE calls'[c].pc = "idle"
  BY <1>0, <1>2, <1>3 DEF SecretTypeOK, Returns, Proceeds, NoCall
<1>8. Returning' BY <1>0, <1>3, <1>6, <1>7 DEF Returning
<1>9. ItemsServed'
  <2>1. Coming \subseteq Coming' BY <1>1, <1>7 DEF Coming
  <2> QED BY <1>0, <1>3, <1>6, <2>1 DEF ItemsServed, Untouched
<1> QED BY <1>6, <1>8, <1>9 DEF StoreInv

-----------------------------------------------------------------------------

LEMMA CallKeeps == ASSUME StoreInv, NEW c \in Callers, Call(c) PROVE StoreInv'
<1>1. ASSUME NEW a \in Attributes, NEW s \in Secrets, NEW replace \in BOOLEAN,
             CreateItem(c, a, s, replace)
      PROVE  StoreInv'
  BY <1>1, CreateItemKeeps
<1>2. ASSUME NEW a \in Attributes, NEW s \in Secrets, NEW i \in Ids,
             \/ OnItem(c, i, "set", NoAttributes, s)
             \/ OnItem(c, i, "describe", a, Absent)
             \/ OnItem(c, i, "delete", NoAttributes, Absent)
      PROVE  StoreInv'
  <2>1. CASE OnItem(c, i, "set", NoAttributes, s) BY <2>1, OnItemKeeps
  <2>2. CASE OnItem(c, i, "describe", a, Absent) BY <2>2, OnItemKeeps
  <2>3. CASE OnItem(c, i, "delete", NoAttributes, Absent) BY <2>3, OnItemKeeps
  <2> QED BY <1>2, <2>1, <2>2, <2>3
<1>3. CASE CreateServes(c) BY <1>3, CreateServesKeeps
<1>4. CASE DeleteUnserves(c) BY <1>4, DeleteUnservesKeeps
<1>5. ASSUME NEW ok \in BOOLEAN,
             CreateStores(c, ok) \/ SetSecret(c, ok) \/ Describe(c, ok) \/ DeleteItem(c, ok)
      PROVE  StoreInv'
  BY <1>5, CreateStoresKeeps, SetSecretKeeps, DescribeKeeps, DeleteItemKeeps
<1> QED BY <1>1, <1>2, <1>3, <1>4, <1>5 DEF Call

LEMMA StoreStepKeeps == ASSUME StoreInv, [SecretNext]_secretVars PROVE StoreInv'
<1>1. CASE OpenStore BY <1>1, OpenStoreKeeps
<1>2. CASE ListItems BY <1>2, ListItemsKeeps
<1>3. CASE DaemonStops BY <1>3, DaemonStopsKeeps
<1>4. ASSUME NEW i \in Ids, ServeItem(i) PROVE StoreInv' BY <1>4, ServeItemKeeps
<1>5. ASSUME NEW ok \in BOOLEAN, SetPassphrase(ok) PROVE StoreInv' BY <1>5, SetPassphraseKeeps
<1>6. ASSUME NEW c \in Callers, Call(c) PROVE StoreInv' BY <1>6, CallKeeps
<1>7. CASE UNCHANGED secretVars
  BY <1>7 DEF secretVars, StoreInv, SecretTypeOK, CallsTyped, MemoryInv, DiskInv, SealedBy,
              SecretIn, FreshIds, Unheard, Returning, ItemsServed, Stored, Coming
<1> QED BY <1>1, <1>2, <1>3, <1>4, <1>5, <1>6, <1>7 DEF SecretNext

LEMMA StoreGivesSecret == StoreInv => SecretInv
<1> SUFFICES ASSUME StoreInv PROVE SecretInv OBVIOUS
<1>1. PromisesKept BY DEF StoreInv, DiskInv, PromisesKept, SecretIn
<1>2. SealsOpen
  <2>1. \A i \in Stored : kept.items[i].key = storeKey
    BY DEF StoreInv, MemoryInv, SealedBy, Stored, EmptyFile
  <2>2. saved \notin {NoStore, Blank} =>
          /\ saved.passphrase \in {NoKey, saved.machine}
          /\ \A i \in Ids : saved.items[i] # Absent => saved.items[i].key = saved.machine
    BY DEF StoreInv, DiskInv, SealedBy
  <2> QED BY <2>1, <2>2 DEF SealsOpen
<1> QED BY <1>1, <1>2 DEF StoreInv, SecretInv

\* Whatever callers overlap, writes fail and the daemon is stopped between two steps of a
\* call: the last word a caller had of an item is what a restart finds, either wrap of the
\* store key opens every item, and an item without an object is on its way to one.
THEOREM SecretsKept == SecretSpec => []SecretInv
<1>1. SecretSpec => []StoreInv
  <2>1. StoreInv /\ [SecretNext]_secretVars => StoreInv' BY StoreStepKeeps
  <2> QED BY StoreInitHolds, <2>1, PTL DEF SecretSpec
<1> QED BY <1>1, StoreGivesSecret, PTL

-----------------------------------------------------------------------------
(***************************************************************************)
(* The thread.  Whatever a task saves, a pass reads or a stop leaves is a  *)
(* copy that somebody made, so the invariant is about all of them: every   *)
(* copy says only what passes may have said by now, each thing once and an *)
(* answer after its exchange.  What may have been said only grows, as      *)
(* passes go on; so a copy that waits stays in order, and a message that   *)
(* is new to every copy can be put at the end of any of them.              *)
(*                                                                         *)
(* A thread that nobody has compacted has one text besides: what is in     *)
(* memory, of which all else is a beginning, and which is what the file    *)
(* says when it comes back.                                                *)
(***************************************************************************)

Texts == History \cup {Nothing, Torn}

PassRecords ==
    [at: {"new", "find", "load", "insert", "create", "ask", "read", "cut", "user", "agent",
          "over", "lost"},
     thread: Threads \cup {Nothing}, read: Texts]

SaveRecords ==
    [thread: Threads, messages: History \cup {Nothing},
     at: {"open", "write", "record", "rewrite"}]

ThreadsTyped ==
    /\ live \in [Threads -> History \cup {Nothing}] /\ file \in [Threads -> Texts]
    /\ record \in [Threads -> {"none", "broken", "whole"}]
    /\ recent \in Seq(Threads) /\ IsInjective(recent)
    /\ Range(recent) = {c \in Threads : live[c] # Nothing}
    /\ saves \in SUBSET SaveRecords /\ pass \in [Passes -> PassRecords]
    /\ cut \in SUBSET Threads /\ stops \in 0 .. MaxStops

\* Who has a thread, or saves one, has one that is in memory.
AtWork ==
    /\ \A p \in Passes :
         /\ pass[p].at \in {"ask", "read", "cut", "user", "agent"}
            => pass[p].thread \in Threads /\ live[pass[p].thread] # Nothing
         /\ pass[p].at = "insert" => pass[p].thread \in Threads
         /\ pass[p].at = "cut" => pass[p].read \in History
    /\ \A s \in saves :
         /\ live[s.thread] # Nothing
         /\ s.at \in {"open", "write"} => s.messages \in History

\* How far a pass has got with what it says, and how far it is when it has said it.
Got(to)    == IF to = "user" THEN 1 ELSE IF to = "agent" THEN 2
              ELSE IF to \in {"over", "lost"} THEN 3 ELSE 0
Takes(who) == IF who = "note" THEN 1 ELSE IF who = "user" THEN 2 ELSE 3

\* What may have been said by now.
MaySay == {m \in Messages : Takes(m[2]) <= Got(pass[m[1]].at)}

\* Every copy of a thread there is, in memory, on disk, on the way to it or from it.
Copies ==
    ({live[c] : c \in Threads} \cup {file[c] : c \in Threads}
     \cup {s.messages : s \in saves} \cup {pass[p].read : p \in Passes}) \cap History

Orderly(h, said) == ThreadOrdered(h) /\ \A i \in DOMAIN h : h[i] \in said

CopiesOrderly == \A h \in Copies : Orderly(h, MaySay)

\* Of a thread that was only extended there is one text: everything is a beginning of
\* what is in memory; and while it is not there, the file does not change.
OneText ==
    \A c \in Threads \ cut :
        /\ file[c] # Torn
        /\ live[c] # Nothing =>
             /\ file[c] # Nothing => IsPrefix(file[c], live[c])
             /\ \A s \in saves :
                  s.thread = c /\ s.messages # Nothing => IsPrefix(s.messages, live[c])
        /\ live[c] = Nothing =>
             \A p \in Passes :
                pass[p].at = "insert" /\ pass[p].thread = c => pass[p].read = file[c]

ThreadsInv == ThreadsTyped /\ AtWork /\ CopiesOrderly /\ OneText

-----------------------------------------------------------------------------
(* Sequences. *)

\* A beginning, place by place.
LEMMA BeginningIs ==
  ASSUME NEW S, NEW s \in Seq(S), NEW t \in Seq(S)
  PROVE  IsPrefix(s, t) <=> Len(s) <= Len(t) /\ \A i \in 1 .. Len(s) : s[i] = t[i]
<1>1. Len(s) \in Nat /\ Len(t) \in Nat OBVIOUS
<1>2. CASE Len(s) <= Len(t)
  <2>1. /\ SubSeq(s, 1, Len(s)) = [i \in 1 .. Len(s) |-> s[i]]
        /\ SubSeq(t, 1, Len(s)) = [i \in 1 .. Len(s) |-> t[i]]
    BY <1>1, <1>2
  <2>2. SubSeq(s, 1, Len(s)) = SubSeq(t, 1, Len(s)) <=> \A i \in 1 .. Len(s) : s[i] = t[i]
    BY <2>1
  <2> QED BY <1>2, <2>2 DEF IsPrefix
<1>3. CASE ~(Len(s) <= Len(t)) BY <1>3 DEF IsPrefix
<1> QED BY <1>2, <1>3

\* What was a beginning stays one of what is longer; a text is one of itself; so is none.
LEMMA Beginnings ==
  ASSUME NEW S, NEW s \in Seq(S), NEW t \in Seq(S)
  PROVE  /\ \A x \in S : IsPrefix(s, t) => IsPrefix(s, Append(t, x))
         /\ IsPrefix(t, t) /\ IsPrefix(<<>>, t)
<1>1. ASSUME NEW x \in S, IsPrefix(s, t) PROVE IsPrefix(s, Append(t, x))
  <2>1. PICK u : u = Append(t, x) OBVIOUS
  <2> u \in Seq(S) BY <2>1
  <2>2. /\ Len(u) = Len(t) + 1 /\ Len(t) \in Nat /\ Len(s) \in Nat
        /\ \A i \in 1 .. Len(t) : u[i] = t[i]
    BY <2>1
  <2>3. Len(s) <= Len(t) /\ \A i \in 1 .. Len(s) : s[i] = t[i] BY <1>1, BeginningIs
  <2>4. Len(s) <= Len(u) BY <2>2, <2>3
  <2>5. \A i \in 1 .. Len(s) : s[i] = u[i] BY <2>2, <2>3
  <2> QED BY <2>1, <2>4, <2>5, BeginningIs
<1>2. IsPrefix(t, t) BY BeginningIs
<1>3. IsPrefix(<<>>, t)
  <2>1. PICK e : e = <<>> OBVIOUS
  <2> e \in Seq(S) BY <2>1, EmptySeq
  <2>2. Len(e) = 0 /\ Len(t) \in Nat BY <2>1
  <2>3. Len(e) <= Len(t) /\ \A i \in 1 .. Len(e) : e[i] = t[i] BY <2>2
  <2>4. IsPrefix(e, t) BY <2>3, BeginningIs
  <2> QED BY <2>1, <2>4
<1> QED BY <1>1, <1>2, <1>3

\* Of two beginnings of one text one is a beginning of the other.
LEMMA OneBegins ==
  ASSUME NEW S, NEW s \in Seq(S), NEW t \in Seq(S), NEW u \in Seq(S),
         IsPrefix(s, u), IsPrefix(t, u)
  PROVE  IsPrefix(s, t) \/ IsPrefix(t, s)
<1>1. Len(s) <= Len(u) /\ \A i \in 1 .. Len(s) : s[i] = u[i] BY BeginningIs
<1>2. Len(t) <= Len(u) /\ \A i \in 1 .. Len(t) : t[i] = u[i] BY BeginningIs
<1>3. Len(s) \in Nat /\ Len(t) \in Nat OBVIOUS
<1>4. CASE Len(s) <= Len(t)
  <2>1. \A i \in 1 .. Len(s) : s[i] = t[i] BY <1>1, <1>2, <1>3, <1>4
  <2> QED BY <1>4, <2>1, BeginningIs
<1>5. CASE Len(t) <= Len(s)
  <2>1. \A i \in 1 .. Len(t) : t[i] = s[i] BY <1>1, <1>2, <1>3, <1>5
  <2> QED BY <1>5, <2>1, BeginningIs
<1> QED BY <1>3, <1>4, <1>5

\* What is left when one is taken out of those that are in it once.
LEMMA TakenOut ==
  ASSUME NEW S, NEW s \in Seq(S), IsInjective(s), NEW c
  PROVE  /\ Remove1(s, c) \in Seq(S) /\ IsInjective(Remove1(s, c))
         /\ Range(Remove1(s, c)) = Range(s) \ {c}
<1>1. CASE c \notin Range(s) BY <1>1 DEF Remove1
<1>2. CASE c \in Range(s)
  <2>1. PICK n \in Nat : n = Len(s) /\ DOMAIN s = 1 .. n /\ \A i \in 1 .. n : s[i] \in S
    OBVIOUS
  <2>2. PICK k \in DOMAIN s : k = CHOOSE i \in DOMAIN s : s[i] = c
    <3>1. \E i \in DOMAIN s : s[i] = c BY <1>2 DEF Range
    <3> QED BY <3>1
  <2>3. s[k] = c
    <3>1. \E i \in DOMAIN s : s[i] = c BY <1>2 DEF Range
    <3> QED BY <2>2, <3>1
  <2>4. \A i \in DOMAIN s : s[i] = c => i = k BY <2>3 DEF IsInjective
  <2>5. k \in Nat /\ k >= 1 /\ k <= n BY <2>1
  <2>6. PICK t : t = Remove1(s, c) OBVIOUS
  <2>7. t = SubSeq(s, 1, k - 1) \o SubSeq(s, k + 1, n)
    BY <1>2, <2>1, <2>2, <2>6 DEF Remove1, RemoveAt
  <2>8. /\ SubSeq(s, 1, k - 1) \in Seq(S) /\ Len(SubSeq(s, 1, k - 1)) = k - 1
        /\ \A i \in 1 .. k - 1 : SubSeq(s, 1, k - 1)[i] = s[i]
    BY <2>1, <2>5
  <2>9. /\ SubSeq(s, k + 1, n) \in Seq(S) /\ Len(SubSeq(s, k + 1, n)) = n - k
        /\ \A i \in 1 .. n - k : SubSeq(s, k + 1, n)[i] = s[i + k]
    BY <2>1, <2>5
  <2>10. /\ t \in Seq(S) /\ Len(t) = n - 1 /\ DOMAIN t = 1 .. n - 1
         /\ \A i \in 1 .. n - 1 : t[i] = IF i < k THEN s[i] ELSE s[i + 1]
    <3>1. PICK a \in Seq(S), b \in Seq(S) :
             a = SubSeq(s, 1, k - 1) /\ b = SubSeq(s, k + 1, n)
      BY <2>8, <2>9
    <3>2. Len(a) = k - 1 /\ Len(b) = n - k BY <2>8, <2>9, <3>1
    <3>3. t = a \o b BY <2>7, <3>1
    <3>4. /\ t \in Seq(S) /\ Len(t) = Len(a) + Len(b)
          /\ \A i \in 1 .. Len(a) : t[i] = a[i]
          /\ \A i \in Len(a) + 1 .. Len(a) + Len(b) : t[i] = b[i - Len(a)]
      BY <3>3, ConcatProperties
    <3>5. Len(t) = n - 1 BY <2>5, <3>2, <3>4
    <3>6. ASSUME NEW i \in 1 .. n - 1 PROVE t[i] = IF i < k THEN s[i] ELSE s[i + 1]
      <4>1. CASE i < k
        <5>1. i \in 1 .. k - 1 BY <2>5, <4>1
        <5> QED BY <2>8, <3>1, <3>2, <3>4, <4>1, <5>1
      <4>2. CASE ~(i < k)
        <5>1. i \in Len(a) + 1 .. Len(a) + Len(b) BY <2>5, <3>2, <4>2
        <5>2. PICK j \in 1 .. n - k : j = i - (k - 1) /\ j + k = i + 1
          <6>1. PICK j \in Nat : j = (i + 1) - k BY <2>5, <4>2
          <6>2. j >= 1 /\ j <= n - k /\ j = i - (k - 1) /\ j + k = i + 1
            BY <2>5, <4>2, <6>1
          <6> QED BY <2>5, <6>1, <6>2
        <5>3. t[i] = b[j] BY <3>2, <3>4, <5>1, <5>2
        <5>4. b[j] = s[j + k] BY <2>9, <3>1, <5>2
        <5> QED BY <4>2, <5>2, <5>3, <5>4
      <4> QED BY <4>1, <4>2
    <3> QED BY <3>4, <3>5, <3>6
  <2>11. IsInjective(t)
    <3> SUFFICES ASSUME NEW i \in DOMAIN t, NEW j \in DOMAIN t, t[i] = t[j] PROVE i = j
      BY DEF IsInjective
    <3>1. i \in 1 .. n - 1 /\ j \in 1 .. n - 1 BY <2>10
    <3>2. PICK x \in DOMAIN s : x = IF i < k THEN i ELSE i + 1 BY <2>1, <3>1
    <3>3. PICK y \in DOMAIN s : y = IF j < k THEN j ELSE j + 1 BY <2>1, <3>1
    <3>4. t[i] = s[x] /\ t[j] = s[y] BY <2>10, <3>1, <3>2, <3>3
    <3>5. x = y BY <3>4 DEF IsInjective
    <3> QED BY <2>5, <3>1, <3>2, <3>3, <3>5
  <2>12. Range(t) = Range(s) \ {c}
    <3>1. ASSUME NEW x \in Range(t) PROVE x \in Range(s) \ {c}
      <4>1. PICK i \in DOMAIN t : x = t[i] BY DEF Range
      <4>2. i \in 1 .. n - 1 BY <2>10
      <4>3. PICK j \in DOMAIN s : j = IF i < k THEN i ELSE i + 1 BY <2>1, <4>2
      <4>4. x = s[j] /\ j # k BY <2>5, <2>10, <4>1, <4>2, <4>3
      <4> QED BY <2>4, <4>4 DEF Range
    <3>2. ASSUME NEW x \in Range(s) \ {c} PROVE x \in Range(t)
      <4>1. PICK j \in DOMAIN s : x = s[j] BY DEF Range
      <4>2. j # k BY <2>3, <4>1
      <4>3. PICK i \in 1 .. n - 1 : i = IF j < k THEN j ELSE j - 1 BY <2>1, <2>5, <4>2
      <4>4. i < k => i = j BY <2>1, <2>5, <4>2, <4>3
      <4>5. ~(i < k) => i + 1 = j BY <2>1, <2>5, <4>2, <4>3
      <4>6. t[i] = s[j] BY <2>10, <4>3, <4>4, <4>5
      <4> QED BY <2>10, <4>1, <4>3, <4>6 DEF Range
    <3> QED BY <3>1, <3>2
  <2> QED BY <2>6, <2>10, <2>11, <2>12
<1> QED BY <1>1, <1>2

\* A thread that is put last is in it ...
LEMMA PutLast ==
  ASSUME NEW S, NEW s \in Seq(S), NEW c \in S
  PROVE  Range(Append(s, c)) = Range(s) \cup {c}
<1>0. PICK t : t = Append(s, c) OBVIOUS
<1>1. PICK n \in Nat : n = Len(s) /\ DOMAIN s = 1 .. n OBVIOUS
<1>2. DOMAIN t = 1 .. n + 1 /\ t[n + 1] = c /\ \A i \in 1 .. n : t[i] = s[i]
  BY <1>0, <1>1
<1>3. \A x \in Range(t) : x \in Range(s) \cup {c}
  <2> TAKE x \in Range(t)
  <2>1. PICK i \in DOMAIN t : x = t[i] BY DEF Range
  <2>2. i \in 1 .. n \/ i = n + 1 BY <1>1, <1>2
  <2> QED BY <1>1, <1>2, <2>1, <2>2 DEF Range
<1>4. \A x \in Range(s) : x \in Range(t)
  <2> TAKE x \in Range(s)
  <2>1. PICK i \in DOMAIN s : x = s[i] BY DEF Range
  <2>2. i \in DOMAIN t /\ t[i] = s[i] BY <1>1, <1>2
  <2> QED BY <2>1, <2>2 DEF Range
<1>5. c \in Range(t)
  <2>1. n + 1 \in DOMAIN t BY <1>1, <1>2
  <2> QED BY <1>2, <2>1 DEF Range
<1> QED BY <1>0, <1>3, <1>4, <1>5

\* ... and in it once.
LEMMA LastOnce ==
  ASSUME NEW S, NEW s \in Seq(S), NEW c \in S, c \notin Range(s), IsInjective(s),
         NEW t, t = Append(s, c)
  PROVE  IsInjective(t)
<1>1. PICK n \in Nat : n = Len(s) /\ DOMAIN s = 1 .. n OBVIOUS
<1>2. \A i \in 1 .. n : s[i] # c BY <1>1 DEF Range
<1>3. DOMAIN t = 1 .. n + 1 /\ t[n + 1] = c /\ \A i \in 1 .. n : t[i] = s[i] BY <1>1
<1> SUFFICES ASSUME NEW i \in DOMAIN t, NEW j \in DOMAIN t, t[i] = t[j] PROVE i = j
  BY DEF IsInjective
<1>4. i \in 1 .. n \/ i = n + 1 BY <1>1, <1>3
<1>5. j \in 1 .. n \/ j = n + 1 BY <1>1, <1>3
<1> QED BY <1>1, <1>2, <1>3, <1>4, <1>5 DEF IsInjective

\* A thread that is put first is in it once.
LEMMA PutInOrder ==
  ASSUME NEW S, NEW s \in Seq(S), IsInjective(s), NEW c \in S, c \notin Range(s)
  PROVE  /\ <<c>> \o s \in Seq(S) /\ IsInjective(<<c>> \o s)
         /\ Range(<<c>> \o s) = Range(s) \cup {c}
<1>1. PICK n \in Nat : n = Len(s) /\ DOMAIN s = 1 .. n /\ \A i \in 1 .. n : s[i] \in S
  OBVIOUS
<1>2. \A i \in 1 .. n : s[i] # c BY <1>1 DEF Range
<1>7. PICK u : u = <<c>> \o s OBVIOUS
<1> u \in Seq(S)
  <2>1. <<c>> \in Seq(S) OBVIOUS
  <2> QED BY <1>7, <2>1, ConcatProperties
<1>8. /\ DOMAIN u = 1 .. n + 1 /\ u[1] = c /\ \A i \in 1 .. n : u[i + 1] = s[i]
  <2>0. PICK a : a = <<c>> OBVIOUS
  <2> a \in Seq(S) BY <2>0
  <2>1. Len(a) = 1 /\ a[1] = c BY <2>0
  <2>2. u = a \o s BY <1>7, <2>0
  <2>3. /\ Len(u) = Len(a) + Len(s)
        /\ \A i \in 1 .. Len(a) : u[i] = a[i]
        /\ \A i \in Len(a) + 1 .. Len(a) + Len(s) : u[i] = s[i - Len(a)]
    BY <2>2, ConcatProperties
  <2>4. ASSUME NEW i \in 1 .. n PROVE u[i + 1] = s[i]
    <3>1. i + 1 \in Len(a) + 1 .. Len(a) + Len(s) /\ (i + 1) - Len(a) = i BY <1>1, <2>1
    <3> QED BY <2>3, <3>1
  <2>5. 1 \in 1 .. Len(a) BY <2>1
  <2>6. u[1] = c BY <2>1, <2>3, <2>5
  <2>7. Len(u) = n + 1 BY <1>1, <2>1, <2>3
  <2>8. DOMAIN u = 1 .. n + 1 BY <2>7
  <2> QED BY <2>4, <2>6, <2>8
<1>9. \A i \in DOMAIN u : i = 1 \/ \E j \in 1 .. n : i = j + 1 /\ u[i] = s[j]
  <2> TAKE i \in DOMAIN u
  <2>1. CASE i # 1
    <3>1. PICK j \in 1 .. n : j = i - 1 /\ i = j + 1 BY <1>1, <1>8, <2>1
    <3> QED BY <1>8, <3>1
  <2> QED BY <2>1
<1>10. IsInjective(u)
  <2> SUFFICES ASSUME NEW i \in DOMAIN u, NEW j \in DOMAIN u, u[i] = u[j] PROVE i = j
    BY DEF IsInjective
  <2>1. i = 1 \/ \E x \in 1 .. n : i = x + 1 /\ u[i] = s[x] BY <1>9
  <2>2. j = 1 \/ \E x \in 1 .. n : j = x + 1 /\ u[j] = s[x] BY <1>9
  <2> QED BY <1>1, <1>2, <1>8, <2>1, <2>2 DEF IsInjective
<1>11. Range(u) = Range(s) \cup {c}
  <2>1. \A x \in Range(u) : x \in Range(s) \cup {c}
    <3> TAKE x \in Range(u)
    <3>1. PICK i \in DOMAIN u : x = u[i] BY DEF Range
    <3> QED BY <1>1, <1>8, <1>9, <3>1 DEF Range
  <2>2. \A x \in Range(s) : x \in Range(u)
    <3> TAKE x \in Range(s)
    <3>1. PICK i \in DOMAIN s : x = s[i] BY DEF Range
    <3>2. PICK j \in DOMAIN u : j = i + 1 BY <1>1, <1>8
    <3> QED BY <1>1, <1>8, <3>1, <3>2 DEF Range
  <2>3. c \in Range(u)
    <3>1. 1 \in DOMAIN u BY <1>1, <1>8
    <3> QED BY <1>8, <3>1 DEF Range
  <2> QED BY <2>1, <2>2, <2>3
<1> QED BY <1>7, <1>10, <1>11

-----------------------------------------------------------------------------
(* What is said. *)

\* The constants.
LEMMA NoText ==
    /\ Nothing \notin History /\ Torn \notin History /\ Torn # Nothing
    /\ Nothing \notin Threads /\ MaxStops \in Nat /\ Earlier \subseteq Passes
  BY ThreadConstants

\* A message is somebody's.
LEMMA MessageIsOf ==
  ASSUME NEW m \in Messages
  PROVE  /\ m[1] \in Passes /\ m[2] \in {"user", "agent", "note"} /\ m = <<m[1], m[2]>>
  BY DEF Messages

\* What is orderly stays so when more may be said.
LEMMA MoreToSay ==
  ASSUME NEW h, NEW X, NEW Y, X \subseteq Y, Orderly(h, X)
  PROVE  Orderly(h, Y)
  BY DEF Orderly

\* Nothing is said in an empty text.
LEMMA EmptyOrderly == \A X : <<>> \in History /\ Orderly(<<>>, X)
<1>1. <<>> \in History BY DEF History
<1>2. PICK e : e = <<>> OBVIOUS
<1>3. DOMAIN e = {} BY <1>2
<1> QED BY <1>1, <1>2, <1>3 DEF Orderly, ThreadOrdered

\* One more message, that nobody had said, and no exchange behind its answer.
LEMMA OneMore ==
  ASSUME NEW h \in History, NEW X, NEW Y, Orderly(h, X), X \subseteq Y,
         NEW m \in Messages, m \notin X, m \in Y,
         m[2] = "user" => <<m[1], "agent">> \notin X
  PROVE  Append(h, m) \in History /\ Orderly(Append(h, m), Y)
<1>1. PICK t : t = Append(h, m) OBVIOUS
<1>2. PICK n \in Nat : n = Len(h) /\ DOMAIN h = 1 .. n BY DEF History
<1>3. /\ t \in History /\ DOMAIN t = 1 .. n + 1 /\ t[n + 1] = m
      /\ \A i \in 1 .. n : t[i] = h[i]
  BY <1>1, <1>2 DEF History
<1>4. \A i \in 1 .. n : h[i] \in X /\ h[i] \in Messages
  BY <1>2 DEF Orderly, History
<1>5. \A i \in DOMAIN t : i \in 1 .. n \/ i = n + 1 BY <1>2, <1>3
<1>6. \A i \in DOMAIN t : t[i] \in Y BY <1>3, <1>4, <1>5
<1>7. ThreadOrdered(t)
  <2> SUFFICES ASSUME NEW i \in DOMAIN t, NEW j \in DOMAIN t, i < j
               PROVE  t[i] # t[j] /\ ~(t[i][1] = t[j][1] /\ t[i][2] = "agent" /\ t[j][2] = "user")
    BY DEF ThreadOrdered
  <2>1. i \in 1 .. n BY <1>2, <1>3
  <2>2. CASE j \in 1 .. n
    BY <1>2, <1>3, <2>1, <2>2 DEF Orderly, ThreadOrdered
  <2>3. CASE j = n + 1
    <3>1. t[j] = m /\ t[i] = h[i] /\ h[i] \in X /\ h[i] \in Messages
      BY <1>3, <1>4, <2>1, <2>3
    <3>2. h[i] # m BY <3>1
    <3>3. h[i] = <<h[i][1], h[i][2]>> BY <3>1, MessageIsOf
    <3> QED BY <3>1, <3>2, <3>3
  <2> QED BY <1>5, <2>2, <2>3
<1> QED BY <1>1, <1>3, <1>6, <1>7 DEF Orderly

\* A plan leaves the first, the end, and perhaps a note.
LEMMA PlanOrderly ==
  ASSUME NEW h \in History, NEW X, NEW Y, Orderly(h, X), X \subseteq Y,
         NEW p \in Passes, <<p, "note">> \notin X, <<p, "note">> \in Y,
         NEW new \in Planned(p, h)
  PROVE  new \in History /\ Orderly(new, Y)
<1>1. PICK n \in Nat : n = Len(h) /\ DOMAIN h = 1 .. n BY DEF History
<1>2. PICK k \in 3 .. n :
        new \in {FirstAndFrom(h, k), Append(FirstAndFrom(h, k), <<p, "note">>)}
  BY <1>1 DEF Planned
<1>3. \A i \in 1 .. n : h[i] \in Messages /\ h[i] \in X BY <1>1 DEF History, Orderly
<1>4. PICK a : a = <<Head(h)>> OBVIOUS
<1>5. PICK b : b = SubSeq(h, k, n) OBVIOUS
<1>6. k \in Nat /\ k >= 3 /\ k <= n /\ 1 \in 1 .. n BY <1>1
<1>7. Head(h) = h[1] BY <1>1, <1>6 DEF History
<1>8. a \in History /\ Len(a) = 1 /\ a[1] = h[1] BY <1>3, <1>4, <1>6, <1>7 DEF History
<1>9. PICK l \in Nat : l = (n - k) + 1 /\ l >= 1 BY <1>6
<1>10. b \in History /\ Len(b) = l /\ \A i \in 1 .. l : b[i] = h[(k + i) - 1]
  <2>1. \A i \in k .. n : h[i] \in Messages BY <1>3, <1>6
  <2>2. k \in Nat /\ n \in Nat /\ h \in Seq(Messages) /\ n <= Len(h) /\ k >= 1
    BY <1>1, <1>6 DEF History
  <2>3. SubSeq(h, k, n) \in Seq(Messages) /\ Len(SubSeq(h, k, n)) = (n - k) + 1
    BY <1>6, <2>2
  <2>4. \A i \in 1 .. (n - k) + 1 : SubSeq(h, k, n)[i] = h[(k + i) - 1]
    BY <1>6, <2>2
  <2> QED BY <1>5, <1>9, <2>3, <2>4 DEF History
<1>11. PICK t : t = a \o b /\ t = FirstAndFrom(h, k) BY <1>1, <1>4, <1>5 DEF FirstAndFrom
<1>12. /\ t \in History /\ Len(t) = 1 + l /\ t[1] = h[1]
       /\ \A i \in 2 .. 1 + l : t[i] = h[(k + i) - 2]
  <2>1. /\ t \in Seq(Messages) /\ Len(t) = Len(a) + Len(b)
        /\ \A i \in 1 .. Len(a) : t[i] = a[i]
        /\ \A i \in Len(a) + 1 .. Len(a) + Len(b) : t[i] = b[i - Len(a)]
    <3>1. a \in Seq(Messages) /\ b \in Seq(Messages) BY <1>8, <1>10 DEF History
    <3>2. t = a \o b BY <1>11
    <3> QED BY <3>1, <3>2, ConcatProperties
  <2>2. 1 \in 1 .. Len(a) BY <1>8
  <2>3. ASSUME NEW i \in 2 .. 1 + l PROVE t[i] = h[(k + i) - 2]
    <3>1. PICK j \in 1 .. l : j = i - 1 BY <1>9
    <3>2. i \in Len(a) + 1 .. Len(a) + Len(b) /\ i - Len(a) = j BY <1>8, <1>10, <3>1
    <3>3. t[i] = h[(k + j) - 1] BY <1>10, <2>1, <3>2
    <3>4. (k + j) - 1 = (k + i) - 2 BY <1>6, <3>1
    <3> QED BY <3>3, <3>4
  <2> QED BY <1>8, <1>10, <2>1, <2>2, <2>3 DEF History
<1>13. ASSUME NEW i \in 1 .. 1 + l
       PROVE  \E x \in 1 .. n : t[i] = h[x] /\ (i = 1 => x = 1) /\ (i > 1 => x = (k + i) - 2)
  <2>1. CASE i = 1 BY <1>6, <1>12, <2>1
  <2>2. CASE i # 1
    <3>1. i \in 2 .. 1 + l BY <1>9, <2>2
    <3>2. PICK x \in 1 .. n : x = (k + i) - 2 BY <1>6, <1>9, <3>1
    <3> QED BY <1>12, <2>2, <3>1, <3>2
  <2> QED BY <2>1, <2>2
<1>14. Orderly(t, X)
  <2>1. DOMAIN t = 1 .. 1 + l BY <1>9, <1>12 DEF History
  <2>2. \A i \in DOMAIN t : t[i] \in X BY <1>3, <1>13, <2>1
  <2>3. ASSUME NEW i \in DOMAIN t, NEW j \in DOMAIN t, i < j
        PROVE  t[i] # t[j] /\ ~(t[i][1] = t[j][1] /\ t[i][2] = "agent" /\ t[j][2] = "user")
    <3>1. PICK x \in 1 .. n : t[i] = h[x] /\ (i = 1 => x = 1) /\ (i > 1 => x = (k + i) - 2)
      BY <1>13, <2>1
    <3>2. PICK y \in 1 .. n : t[j] = h[y] /\ (j = 1 => y = 1) /\ (j > 1 => y = (k + j) - 2)
      BY <1>13, <2>1
    <3>3. i \in Nat /\ j \in Nat /\ i >= 1 BY <1>9, <2>1
    <3>4. x < y BY <1>6, <2>3, <3>1, <3>2, <3>3
    <3> QED BY <1>1, <3>1, <3>2, <3>4 DEF Orderly, ThreadOrdered
  <2> QED BY <2>2, <2>3 DEF Orderly, ThreadOrdered
<1>15. CASE new = t BY <1>12, <1>14, <1>15, MoreToSay
<1>16. CASE new = Append(t, <<p, "note">>)
  <2>1. PICK m \in Messages : m = <<p, "note">> /\ m[2] = "note" BY DEF Messages
  <2> QED BY <1>12, <1>14, <1>16, <2>1, OneMore
<1> QED BY <1>2, <1>11, <1>15, <1>16

-----------------------------------------------------------------------------
(* What steps have in common. *)

\* How far a pass has got is a number.
LEMMA GotIs == \A to : Got(to) \in 0 .. 3
  BY DEF Got

\* What a copy is, now and then.
LEMMA CopyIs ==
  /\ \A h : h \in Copies <=>
        /\ h \in History
        /\ \/ \E c \in Threads : h = live[c] \/ h = file[c]
           \/ \E s \in saves : h = s.messages
           \/ \E p \in Passes : h = pass[p].read
  /\ \A h : h \in Copies' <=>
        /\ h \in History
        /\ \/ \E c \in Threads : h = live'[c] \/ h = file'[c]
           \/ \E s \in saves' : h = s.messages
           \/ \E p \in Passes : h = pass'[p].read
<1>1. \A h : h \in Copies <=>
        /\ h \in History
        /\ \/ \E c \in Threads : h = live[c] \/ h = file[c]
           \/ \E s \in saves : h = s.messages
           \/ \E p \in Passes : h = pass[p].read
  BY DEF Copies
<1>2. \A h : h \in Copies' <=>
        /\ h \in History
        /\ \/ \E c \in Threads : h = live'[c] \/ h = file'[c]
           \/ \E s \in saves' : h = s.messages
           \/ \E p \in Passes : h = pass'[p].read
  BY DEF Copies
<1> QED BY <1>1, <1>2

\* Where no pass goes back, no less may have been said.
LEMMA SaysMore ==
  ASSUME \A p \in Passes : Got(pass[p].at) <= Got(pass'[p].at)
  PROVE  MaySay \subseteq MaySay'
<1> SUFFICES ASSUME NEW m \in MaySay PROVE m \in MaySay' OBVIOUS
<1>1. m \in Messages /\ Takes(m[2]) <= Got(pass[m[1]].at) BY DEF MaySay
<1>2. m[1] \in Passes BY <1>1, MessageIsOf
<1>3. Got(pass[m[1]].at) <= Got(pass'[m[1]].at) BY <1>2
<1>4. Takes(m[2]) \in Nat BY DEF Takes
<1>5. PICK a \in 0 .. 3, b \in 0 .. 3 : a = Got(pass[m[1]].at) /\ b = Got(pass'[m[1]].at)
  BY GotIs
<1>6. Takes(m[2]) <= Got(pass'[m[1]].at) BY <1>1, <1>3, <1>4, <1>5
<1> QED BY <1>1, <1>6 DEF MaySay

\* Copies stay orderly if the new ones are.
LEMMA CopiesKept ==
  ASSUME CopiesOrderly, MaySay \subseteq MaySay',
         \A h \in Copies' : h \in Copies \/ Orderly(h, MaySay')
  PROVE  CopiesOrderly'
<1>1. \A h \in Copies : Orderly(h, MaySay') BY MoreToSay DEF CopiesOrderly
<1> QED BY <1>1 DEF CopiesOrderly

\* One pass goes on.
LEMMA OneGoes ==
  ASSUME ThreadsTyped, NEW p \in Passes, NEW r \in PassRecords, pass' = [pass EXCEPT ![p] = r]
  PROVE  /\ pass' \in [Passes -> PassRecords] /\ pass'[p] = r
         /\ \A q \in Passes : q # p => pass'[q] = pass[q]
  BY DEF ThreadsTyped

\* One pass that goes on takes nothing back.
LEMMA OneSaysMore ==
  ASSUME ThreadsTyped, NEW p \in Passes, NEW r \in PassRecords, pass' = [pass EXCEPT ![p] = r],
         Got(pass[p].at) <= Got(r.at)
  PROVE  MaySay \subseteq MaySay'
<1>1. \A q \in Passes : Got(pass[q].at) <= Got(pass'[q].at)
  <2> TAKE q \in Passes
  <2>1. PICK a \in 0 .. 3 : a = Got(pass[q].at) BY GotIs
  <2>2. CASE q = p BY <2>2, OneGoes
  <2>3. CASE q # p BY <2>1, <2>3, OneGoes
  <2> QED BY <2>2, <2>3
<1> QED BY <1>1, SaysMore

\* To another place ...
LEMMA ThreadAtIs ==
  ASSUME ThreadsTyped, NEW p \in Passes, NEW to, ThreadAt(p, to),
         to \in {"new", "find", "load", "insert", "create", "ask", "read", "cut", "user",
                 "agent", "over", "lost"}
  PROVE  \E r \in PassRecords :
           /\ pass' = [pass EXCEPT ![p] = r]
           /\ r.at = to /\ r.thread = pass[p].thread /\ r.read = pass[p].read
<1>1. PICK o \in PassRecords : o = pass[p] BY DEF ThreadsTyped
<1>2. PICK r : r = [o EXCEPT !.at = to] OBVIOUS
<1>3. r \in PassRecords /\ r.at = to /\ r.thread = o.thread /\ r.read = o.read
  BY <1>2 DEF PassRecords
<1>4. pass' = [pass EXCEPT ![p] = r] BY <1>1, <1>2 DEF ThreadAt
<1> QED BY <1>1, <1>3, <1>4

\* ... or with a thread.
LEMMA OnIs ==
  ASSUME ThreadsTyped, NEW p \in Passes, NEW to, NEW c \in Threads, On(p, to, c),
         to \in {"new", "find", "load", "insert", "create", "ask", "read", "cut", "user",
                 "agent", "over", "lost"}
  PROVE  \E r \in PassRecords :
           /\ pass' = [pass EXCEPT ![p] = r]
           /\ r.at = to /\ r.thread = c /\ r.read = pass[p].read
<1>1. PICK o \in PassRecords : o = pass[p] BY DEF ThreadsTyped
<1>2. PICK r : r = [o EXCEPT !.at = to, !.thread = c] OBVIOUS
<1>3. r \in PassRecords /\ r.at = to /\ r.thread = c /\ r.read = o.read
  BY <1>2 DEF PassRecords
<1>4. pass' = [pass EXCEPT ![p] = r] BY <1>1, <1>2 DEF On, ThreadsTyped
<1> QED BY <1>1, <1>3, <1>4

\* The latest thread is one that is in memory.
LEMMA LatestLives ==
  ASSUME ThreadsTyped, recent # <<>>
  PROVE  Latest \in Threads /\ live[Latest] # Nothing /\ live[Latest] \in History
<1>1. PICK n \in Nat : n = Len(recent) /\ DOMAIN recent = 1 .. n BY DEF ThreadsTyped
<1>2. n # 0 BY <1>1 DEF ThreadsTyped
<1>3. n \in DOMAIN recent BY <1>1, <1>2
<1>4. Latest \in Range(recent) BY <1>1, <1>3 DEF Latest, Last, Range
<1> QED BY <1>4 DEF ThreadsTyped

\* Whoever has a thread is not alone in memory.
LEMMA NotForgotten ==
  ASSUME ThreadsTyped, NEW c \in Threads, live[c] # Nothing
  PROVE  recent # <<>>
<1>1. c \in Range(recent) BY DEF ThreadsTyped
<1>2. PICK i \in DOMAIN recent : recent[i] = c BY <1>1 DEF Range
<1> QED BY <1>2

\* A pass goes on and nothing else happens.
LEMMA PassOnly ==
  ASSUME ThreadsInv, UNCHANGED <<live, recent, file, record, saves, cut, stops>>,
         NEW p \in Passes, NEW r \in PassRecords, pass' = [pass EXCEPT ![p] = r],
         Got(pass[p].at) <= Got(r.at),
         r.at \in {"ask", "read", "cut", "user", "agent"}
           => r.thread \in Threads /\ live[r.thread] # Nothing,
         r.at = "insert" => r.thread \in Threads /\ r.read = file[r.thread],
         r.at = "cut" => r.read \in History,
         r.read \in History => r.read \in Copies \cup {<<>>}
  PROVE  ThreadsInv'
<1> USE DEF ThreadsInv
<1>1. /\ pass' \in [Passes -> PassRecords] /\ pass'[p] = r
      /\ \A q \in Passes : q # p => pass'[q] = pass[q]
  BY OneGoes
<1>2. ThreadsTyped' BY <1>1 DEF ThreadsTyped
<1>3. AtWork' BY <1>1 DEF AtWork
<1>4. MaySay \subseteq MaySay' BY OneSaysMore
<1>5. ASSUME NEW h \in Copies' PROVE h \in Copies \/ Orderly(h, MaySay')
  <2>1. h \in History BY CopyIs
  <2>2. CASE \E q \in Passes : h = pass'[q].read
    <3>1. PICK q \in Passes : h = pass'[q].read BY <2>2
    <3>2. CASE q = p
      <4>1. h \in Copies \cup {<<>>} BY <1>1, <2>1, <3>1, <3>2
      <4> QED BY <4>1, EmptyOrderly
    <3>3. CASE q # p BY <1>1, <2>1, <3>1, <3>3, CopyIs
    <3> QED BY <3>2, <3>3
  <2>3. CASE \E c \in Threads : h = live[c] \/ h = file[c] BY <2>1, <2>3, CopyIs
  <2>4. CASE \E s \in saves : h = s.messages BY <2>1, <2>4, CopyIs
  <2> QED BY <2>2, <2>3, <2>4, CopyIs
<1>6. CopiesOrderly' BY <1>4, <1>5, CopiesKept
<1>7. OneText' BY <1>1 DEF OneText
<1> QED BY <1>2, <1>3, <1>6, <1>7

\* Saves move on, and files with them.
LEMMA SaveStays ==
  ASSUME ThreadsInv, UNCHANGED <<live, recent, pass, cut, stops>>,
         file' \in [Threads -> Texts], record' \in [Threads -> {"none", "broken", "whole"}],
         saves' \in SUBSET SaveRecords,
         \A s \in saves' : \E t \in saves :
            /\ s.thread = t.thread /\ s.messages = t.messages
            /\ s.at \in {"open", "write"} => t.at \in {"open", "write"},
         \A c \in Threads : \/ file'[c] = file[c]
                            \/ \E t \in saves :
                                 /\ t.thread = c /\ t.messages \in History
                                 /\ \/ file'[c] \in {<<>>, t.messages}
                                    \/ file'[c] \in Overlaid(file[c], t.messages)
  PROVE  ThreadsInv'
<1> USE DEF ThreadsInv
<1>1. ThreadsTyped' BY DEF ThreadsTyped
<1>2. AtWork'
  <2>1. \A s \in saves' : /\ live'[s.thread] # Nothing
                          /\ s.at \in {"open", "write"} => s.messages \in History
    BY DEF AtWork
  <2> QED BY <2>1 DEF AtWork
<1>3. MaySay' = MaySay BY DEF MaySay
<1>4. ASSUME NEW o \in Texts, NEW t \in History, NEW x \in Overlaid(o, t)
      PROVE  x = o \/ x = t \/ x = Torn
  BY DEF Overlaid
<1>5. ASSUME NEW h \in Copies' PROVE h \in Copies \/ Orderly(h, MaySay')
  <2>1. h \in History BY CopyIs
  <2>2. CASE \E s \in saves' : h = s.messages
    <3>1. PICK t \in saves : h = t.messages BY <2>2
    <3> QED BY <2>1, <3>1, CopyIs
  <2>3. CASE \E c \in Threads : h = live[c] BY <2>1, <2>3, CopyIs
  <2>4. CASE \E q \in Passes : h = pass[q].read BY <2>1, <2>4, CopyIs
  <2>5. CASE \E c \in Threads : h = file'[c]
    <3>1. PICK c \in Threads : h = file'[c] BY <2>5
    <3>2. CASE file'[c] = file[c] BY <2>1, <3>1, <3>2, CopyIs
    <3>3. CASE file'[c] # file[c]
      <4>1. PICK t \in saves : /\ t.thread = c /\ t.messages \in History
                               /\ \/ file'[c] \in {<<>>, t.messages}
                                  \/ file'[c] \in Overlaid(file[c], t.messages)
        BY <3>3
      <4>2. file[c] \in Texts BY DEF ThreadsTyped
      <4>3. h \in {<<>>, t.messages} BY <1>4, <2>1, <3>1, <3>3, <4>1, <4>2, NoText
      <4>4. t.messages \in Copies BY <4>1, CopyIs
      <4> QED BY <4>3, <4>4, EmptyOrderly
    <3> QED BY <3>2, <3>3
  <2> QED BY <2>2, <2>3, <2>4, <2>5, CopyIs
<1>6. CopiesOrderly'
  <2>1. MaySay \subseteq MaySay' BY <1>3
  <2> QED BY <1>5, <2>1, CopiesKept
<1>7. OneText'
  <2> SUFFICES ASSUME NEW c \in Threads \ cut
               PROVE  /\ file'[c] # Torn
                      /\ live[c] # Nothing =>
                           /\ file'[c] # Nothing => IsPrefix(file'[c], live[c])
                           /\ \A s \in saves' : s.thread = c /\ s.messages # Nothing
                                                => IsPrefix(s.messages, live[c])
                      /\ live[c] = Nothing =>
                           \A q \in Passes : pass[q].at = "insert" /\ pass[q].thread = c
                                             => pass[q].read = file'[c]
    BY DEF OneText
  <2>1. live[c] # Nothing =>
           \A s \in saves' : s.thread = c /\ s.messages # Nothing
                             => IsPrefix(s.messages, live[c])
    BY DEF OneText
  <2>2. CASE file'[c] = file[c] BY <2>1, <2>2 DEF OneText
  <2>3. CASE file'[c] # file[c]
    <3>1. PICK t \in saves : /\ t.thread = c /\ t.messages \in History
                             /\ \/ file'[c] \in {<<>>, t.messages}
                                \/ file'[c] \in Overlaid(file[c], t.messages)
      BY <2>3
    <3>2. live[c] # Nothing /\ live[c] \in History
      BY <3>1 DEF AtWork, ThreadsTyped
    <3>3. IsPrefix(t.messages, live[c]) BY <3>1, <3>2, NoText DEF OneText
    <3>4. file[c] \in Texts /\ file[c] # Torn
          /\ (file[c] # Nothing => IsPrefix(file[c], live[c]))
      BY <3>2 DEF ThreadsTyped, OneText
    <3>5. file'[c] \in {<<>>, t.messages}
      <4>1. CASE file[c] \in {<<>>, Nothing} BY <2>3, <3>1, <4>1 DEF Overlaid
      <4>2. CASE file[c] \notin {<<>>, Nothing}
        <5>1. file[c] \in History /\ IsPrefix(file[c], live[c]) BY <3>4, <4>2 DEF Texts
        <5>2. IsPrefix(t.messages, file[c]) \/ IsPrefix(file[c], t.messages)
          BY <3>1, <3>2, <3>3, <5>1, OneBegins DEF History
        <5> QED BY <2>3, <3>1, <3>4, <4>2, <5>2 DEF Overlaid
      <4> QED BY <4>1, <4>2
    <3>6. IsPrefix(<<>>, live[c]) BY <3>2, Beginnings DEF History
    <3>7. file'[c] # Torn BY <3>1, <3>5, NoText, EmptyOrderly
    <3> QED BY <2>1, <3>2, <3>3, <3>5, <3>6, <3>7
  <2> QED BY <2>2, <2>3
<1> QED BY <1>1, <1>2, <1>6, <1>7

-----------------------------------------------------------------------------
(* The steps. *)

\* It is stronger than the property.
LEMMA GivesThread == ThreadsInv => ThreadInv
<1> SUFFICES ASSUME ThreadsInv PROVE ThreadInv OBVIOUS
<1> USE DEF ThreadsInv
<1>1. ThreadTypeOK
  <2>1. \A s \in saves : s \in SaveRecords BY DEF ThreadsTyped
  <2>2. \A p \in Passes : pass[p] \in PassRecords BY DEF ThreadsTyped
  <2> QED BY <2>1, <2>2 DEF ThreadTypeOK, ThreadsTyped, SaveRecords, PassRecords, Texts
<1>2. InOrder
  <2>1. \A c \in Threads : live[c] # Nothing => live[c] \in Copies
    BY CopyIs DEF ThreadsTyped
  <2>2. \A c \in Threads : file[c] \notin {Nothing, Torn} => file[c] \in Copies
    BY CopyIs DEF ThreadsTyped, Texts
  <2> QED BY <2>1, <2>2 DEF InOrder, CopiesOrderly, Orderly
<1>3. FileBegins BY DEF FileBegins, OneText
<1> QED BY <1>1, <1>2, <1>3 DEF ThreadInv

\* It holds at the beginning.
LEMMA ThreadsInit == ThreadInit => ThreadsInv
<1> SUFFICES ASSUME ThreadInit PROVE ThreadsInv OBVIOUS
<1>1. /\ live = [c \in Threads |-> Nothing] /\ recent = <<>> /\ saves = {} /\ cut = {}
      /\ stops = 0
      /\ pass = [p \in Passes |-> [at |-> IF p \in Earlier THEN "over" ELSE "new",
                                   thread |-> Nothing, read |-> <<>>]]
  BY DEF ThreadInit
<1>2. \A p \in Passes : /\ pass[p] \in PassRecords /\ pass[p].read = <<>>
                        /\ pass[p].at = IF p \in Earlier THEN "over" ELSE "new"
  BY <1>1, EmptyOrderly DEF PassRecords, Texts
<1>3. ASSUME NEW p \in Earlier
      PROVE  Left(p) \in History /\ Orderly(Left(p), MaySay)
  <2>1. p \in Passes /\ pass[p].at = "over" BY <1>2, NoText
  <2>a. PICK u : u = <<p, "user">> OBVIOUS
  <2>b. PICK a : a = <<p, "agent">> OBVIOUS
  <2>2. u \in Messages /\ u[1] = p /\ u[2] = "user" BY <2>1, <2>a DEF Messages
  <2>3. a \in Messages /\ a[1] = p /\ a[2] = "agent" BY <2>1, <2>b DEF Messages
  <2>4. u \in MaySay /\ a \in MaySay BY <2>1, <2>2, <2>3 DEF MaySay, Takes, Got
  <2>5. PICK h : h = <<u, a>> OBVIOUS
  <2>6. h \in History /\ DOMAIN h = 1 .. 2 /\ h[1] = u /\ h[2] = a
    <3>1. Len(h) = 2 /\ h[1] = u /\ h[2] = a BY <2>5
    <3>2. h \in Seq(Messages) BY <2>2, <2>3, <2>5
    <3> QED BY <3>1, <3>2 DEF History
  <2>7. Orderly(h, MaySay)
    <3>1. \A i \in DOMAIN h : h[i] \in MaySay BY <2>4, <2>6
    <3>2. ASSUME NEW i \in DOMAIN h, NEW j \in DOMAIN h, i < j
          PROVE  h[i] # h[j] /\ ~(h[i][1] = h[j][1] /\ h[i][2] = "agent" /\ h[j][2] = "user")
      <4>1. i = 1 /\ j = 2 BY <2>6, <3>2
      <4> QED BY <2>2, <2>3, <2>6, <4>1
    <3> QED BY <3>1, <3>2 DEF Orderly, ThreadOrdered
  <2> QED BY <2>a, <2>b, <2>5, <2>6, <2>7 DEF Left
<1>4. /\ file \in [Threads -> Texts] /\ record \in [Threads -> {"none", "broken", "whole"}]
      /\ \A c \in Threads : \/ file[c] = Nothing
                            \/ \E p \in Earlier : file[c] = Left(p)
  <2>1. CASE /\ file = [c \in Threads |-> Nothing]
             /\ record = [c \in Threads |-> "none"]
    BY <2>1 DEF Texts
  <2>2. CASE \E p \in Earlier :
               LET old == CHOOSE c \in Threads : TRUE IN
               /\ file = [c \in Threads |-> IF c = old THEN Left(p) ELSE Nothing]
               /\ record = [c \in Threads |-> IF c = old THEN "whole" ELSE "none"]
    <3>0. PICK o : o = CHOOSE c \in Threads : TRUE OBVIOUS
    <3>1. PICK p \in Earlier :
            /\ file = [c \in Threads |-> IF c = o THEN Left(p) ELSE Nothing]
            /\ record = [c \in Threads |-> IF c = o THEN "whole" ELSE "none"]
      BY <2>2, <3>0
    <3> QED BY <1>3, <3>1 DEF Texts
  <2> QED BY <2>1, <2>2 DEF ThreadInit
<1>5. ThreadsTyped
  <2>1. recent \in Seq(Threads) /\ IsInjective(recent) /\ Range(recent) = {}
    BY <1>1 DEF IsInjective, Range
  <2>2. stops \in 0 .. MaxStops BY <1>1, NoText
  <2>3. pass \in [Passes -> PassRecords] BY <1>1, <1>2
  <2> QED BY <1>1, <1>4, <2>1, <2>2, <2>3 DEF ThreadsTyped
<1>6. AtWork BY <1>1, <1>2 DEF AtWork
<1>7. CopiesOrderly
  <2> SUFFICES ASSUME NEW h \in Copies PROVE Orderly(h, MaySay) BY DEF CopiesOrderly
  <2>1. h \in History BY CopyIs
  <2>2. CASE \E c \in Threads : h = file[c] BY <1>3, <1>4, <2>1, <2>2, NoText
  <2>3. CASE \E q \in Passes : h = pass[q].read BY <1>2, <2>3, EmptyOrderly
  <2>4. ~(\E c \in Threads : h = live[c]) BY <1>1, <2>1, NoText
  <2> QED BY <1>1, <2>2, <2>3, <2>4, CopyIs
<1>8. OneText BY <1>1, <1>2, <1>3, <1>4, NoText DEF OneText
<1> QED BY <1>5, <1>6, <1>7, <1>8 DEF ThreadsInv

\* A save's four steps.
LEMMA SavesKeep ==
  ASSUME ThreadsInv, NEW s \in saves, Saves(s)
  PROVE  ThreadsInv'
<1> USE DEF ThreadsInv
<1>1. PICK c \in Threads : c = s.thread BY DEF ThreadsTyped, SaveRecords
<1>2. s \in SaveRecords BY DEF ThreadsTyped
<1>3. ASSUME NEW to \in {"write", "record", "rewrite"}, Moves(s, to),
             to = "write" => s.at = "open"
      PROVE  /\ saves' \in SUBSET SaveRecords
             /\ \A x \in saves' : \E t \in saves :
                  /\ x.thread = t.thread /\ x.messages = t.messages
                  /\ x.at \in {"open", "write"} => t.at \in {"open", "write"}
  <2>1. PICK r : r = [s EXCEPT !.at = to] OBVIOUS
  <2>2. r \in SaveRecords /\ r.at = to /\ r.thread = s.thread /\ r.messages = s.messages
    BY <1>2, <2>1 DEF SaveRecords
  <2>3. \A x \in saves' : x \in saves \/ x = r BY <1>3, <2>1 DEF Moves
  <2>4. \A x \in saves' : x \in SaveRecords BY <2>2, <2>3 DEF ThreadsTyped
  <2>5. ASSUME NEW x \in saves'
        PROVE  \E t \in saves : /\ x.thread = t.thread /\ x.messages = t.messages
                                /\ x.at \in {"open", "write"} => t.at \in {"open", "write"}
    <3>1. CASE x \in saves BY <3>1
    <3>2. CASE x = r
      <4>1. r.at \in {"open", "write"} => s.at \in {"open", "write"} BY <1>3, <2>2
      <4> QED BY <2>2, <3>2, <4>1
    <3> QED BY <2>3, <3>1, <3>2
  <2> QED BY <2>4, <2>5
<1>4. /\ file \in [Threads -> Texts] /\ record \in [Threads -> {"none", "broken", "whole"}]
      /\ saves \in SUBSET SaveRecords
  BY DEF ThreadsTyped
<1>5. CASE SaveOpen(s)
  <2>1. /\ file' = [file EXCEPT ![c] = <<>>] /\ record' = record /\ Moves(s, "write")
        /\ UNCHANGED <<live, recent, pass, cut, stops>> /\ s.at = "open"
    BY <1>1, <1>5 DEF SaveOpen, memory
  <2>2. s.messages \in History BY <2>1 DEF AtWork
  <2>3. file' \in [Threads -> Texts] BY <1>4, <2>1, EmptyOrderly DEF Texts
  <2>4. \A d \in Threads : \/ file'[d] = file[d]
                           \/ s.thread = d /\ file'[d] \in {<<>>, s.messages}
    BY <1>1, <1>4, <2>1
  <2>5. \A x \in saves' : \E t \in saves :
                  /\ x.thread = t.thread /\ x.messages = t.messages
                  /\ x.at \in {"open", "write"} => t.at \in {"open", "write"}
    BY <1>3, <2>1
  <2>6. saves' \in SUBSET SaveRecords BY <1>3, <2>1
  <2> QED BY <1>4, <2>1, <2>2, <2>3, <2>4, <2>5, <2>6, SaveStays
<1>6. CASE SaveWrite(s)
  <2>1. PICK text \in Overlaid(file[c], s.messages) :
          /\ file' = [file EXCEPT ![c] = text] /\ record' = record /\ Moves(s, "record")
          /\ UNCHANGED <<live, recent, pass, cut, stops>> /\ s.at = "write"
    BY <1>1, <1>6 DEF SaveWrite, memory
  <2>2. s.messages \in History BY <2>1 DEF AtWork
  <2>3. text \in Texts
    <3>1. file[c] \in Texts BY <1>4
    <3> QED BY <2>2, <3>1 DEF Overlaid, Texts
  <2>4. file' \in [Threads -> Texts] BY <1>4, <2>1, <2>3
  <2>5. \A d \in Threads : \/ file'[d] = file[d]
                           \/ s.thread = d /\ file'[d] \in Overlaid(file[d], s.messages)
    BY <1>1, <1>4, <2>1
  <2>6. \A x \in saves' : \E t \in saves :
                  /\ x.thread = t.thread /\ x.messages = t.messages
                  /\ x.at \in {"open", "write"} => t.at \in {"open", "write"}
    BY <1>3, <2>1
  <2>7. saves' \in SUBSET SaveRecords BY <1>3, <2>1
  <2> QED BY <1>4, <2>1, <2>2, <2>4, <2>5, <2>6, <2>7, SaveStays
<1>7. CASE SaveRecord(s)
  <2>1. /\ UNCHANGED <<live, recent, file, pass, cut, stops>>
        /\ \/ record' = [record EXCEPT ![c] = "broken"] /\ Moves(s, "rewrite")
           \/ saves' = saves \ {s} /\ record' = record
    BY <1>1, <1>7 DEF SaveRecord, memory
  <2>2. record' \in [Threads -> {"none", "broken", "whole"}] BY <1>4, <2>1
  <2>3. /\ \A x \in saves' : \E t \in saves :
                  /\ x.thread = t.thread /\ x.messages = t.messages
                  /\ x.at \in {"open", "write"} => t.at \in {"open", "write"}
        /\ saves' \in SUBSET SaveRecords
    <3>1. CASE Moves(s, "rewrite") BY <1>3, <3>1
    <3>2. CASE saves' = saves \ {s} BY <1>4, <3>2
    <3> QED BY <2>1, <3>1, <3>2
  <2> QED BY <1>4, <2>1, <2>2, <2>3, SaveStays
<1>8. CASE SaveRewrite(s)
  <2>1. /\ UNCHANGED <<live, recent, file, pass, cut, stops>>
        /\ \/ record' = [record EXCEPT ![c] = "whole"]
           \/ record' = [record EXCEPT ![c] = "broken"]
        /\ saves' = saves \ {s}
    BY <1>1, <1>8 DEF SaveRewrite, memory
  <2>2. record' \in [Threads -> {"none", "broken", "whole"}] BY <1>4, <2>1
  <2>3. /\ \A x \in saves' : \E t \in saves :
                  /\ x.thread = t.thread /\ x.messages = t.messages
                  /\ x.at \in {"open", "write"} => t.at \in {"open", "write"}
        /\ saves' \in SUBSET SaveRecords
    BY <1>4, <2>1
  <2> QED BY <1>4, <2>1, <2>2, <2>3, SaveStays
<1> QED BY <1>5, <1>6, <1>7, <1>8 DEF Saves

\* A pass looks, and chooses what to do.
LEMMA LooksKeep ==
  ASSUME ThreadsInv, NEW p \in Passes,
         BeginPass(p) \/ Find(p) \/ (\E c \in Threads : Load(p, c)) \/ Loaded(p)
         \/ Ask(p) \/ CompactRead(p)
  PROVE  ThreadsInv'
<1> USE DEF ThreadsInv
<1>1. PICK o \in PassRecords : o = pass[p] BY DEF ThreadsTyped
<1>2. o.read \in Texts /\ (o.read \in History => o.read \in Copies)
  BY <1>1, CopyIs DEF PassRecords
<1>3. UNCHANGED <<live, recent, file, record, saves, cut, stops>>
  BY DEF BeginPass, Find, Load, Loaded, Ask, CompactRead, memory, onDisk
<1>4. CASE BeginPass(p)
  <2>1. o.at = "new" /\ ThreadAt(p, "find") BY <1>1, <1>4 DEF BeginPass
  <2>2. PICK r \in PassRecords : /\ pass' = [pass EXCEPT ![p] = r] /\ r.at = "find"
                                 /\ r.thread = o.thread /\ r.read = o.read
    BY <1>1, <2>1, ThreadAtIs
  <2>3. Got(pass[p].at) <= Got(r.at) BY <1>1, <2>1, <2>2 DEF Got
  <2> QED BY <1>2, <1>3, <2>2, <2>3, PassOnly
<1>5. CASE Find(p) \/ Loaded(p)
  <2>1. /\ o.at \in {"find", "load"}
        /\ \/ recent # <<>> /\ On(p, "ask", Latest)
           \/ ThreadAt(p, "load") \/ ThreadAt(p, "create")
    BY <1>1, <1>5 DEF Find, Loaded
  <2>2. CASE recent # <<>> /\ On(p, "ask", Latest)
    <3>1. Latest \in Threads /\ live[Latest] # Nothing BY <2>2, LatestLives
    <3>2. PICK r \in PassRecords : /\ pass' = [pass EXCEPT ![p] = r] /\ r.at = "ask"
                                   /\ r.thread = Latest /\ r.read = o.read
      BY <1>1, <2>2, <3>1, OnIs
    <3>3. Got(pass[p].at) <= Got(r.at) BY <1>1, <2>1, <3>2 DEF Got
    <3> QED BY <1>2, <1>3, <3>1, <3>2, <3>3, PassOnly
  <2>3. CASE ThreadAt(p, "load") \/ ThreadAt(p, "create")
    <3>1. PICK r \in PassRecords : /\ pass' = [pass EXCEPT ![p] = r]
                                   /\ r.at \in {"load", "create"}
                                   /\ r.thread = o.thread /\ r.read = o.read
      BY <1>1, <2>3, ThreadAtIs
    <3>2. Got(pass[p].at) <= Got(r.at) BY <1>1, <2>1, <3>1 DEF Got
    <3> QED BY <1>2, <1>3, <3>1, <3>2, PassOnly
  <2> QED BY <2>1, <2>2, <2>3
<1>6. CASE \E c \in Threads : Load(p, c)
  <2>1. PICK c \in Threads :
          /\ o.at = "load"
          /\ pass' = [pass EXCEPT ![p].at = "insert", ![p].thread = c, ![p].read = file[c]]
    BY <1>1, <1>6 DEF Load
  <2>2. PICK r : r = [o EXCEPT !.at = "insert", !.thread = c, !.read = file[c]] OBVIOUS
  <2>3. file[c] \in Texts BY DEF ThreadsTyped
  <2>4. r \in PassRecords /\ r.at = "insert" /\ r.thread = c /\ r.read = file[c]
    BY <2>2, <2>3 DEF PassRecords
  <2>5. pass' = [pass EXCEPT ![p] = r] BY <1>1, <2>1, <2>2 DEF ThreadsTyped
  <2>6. r.read \in History => r.read \in Copies BY <2>4, CopyIs
  <2>7. Got(pass[p].at) <= Got(r.at) BY <1>1, <2>1, <2>4 DEF Got
  <2> QED BY <1>3, <2>4, <2>5, <2>6, <2>7, PassOnly
<1>7. CASE Ask(p)
  <2>1. PICK to \in {"user", "over", "read"} : o.at = "ask" /\ ThreadAt(p, to)
    BY <1>1, <1>7 DEF Ask
  <2>2. PICK r \in PassRecords : /\ pass' = [pass EXCEPT ![p] = r] /\ r.at = to
                                 /\ r.thread = o.thread /\ r.read = o.read
    BY <1>1, <2>1, ThreadAtIs
  <2>3. o.thread \in Threads /\ live[o.thread] # Nothing BY <1>1, <2>1 DEF AtWork
  <2>4. Got(pass[p].at) <= Got(r.at) BY <1>1, <2>1, <2>2 DEF Got
  <2> QED BY <1>2, <1>3, <2>2, <2>3, <2>4, PassOnly
<1>8. CASE CompactRead(p)
  <2>1. o.at = "read" /\ pass' = [pass EXCEPT ![p].at = "cut", ![p].read = live[Latest]]
    BY <1>1, <1>8 DEF CompactRead
  <2>2. o.thread \in Threads /\ live[o.thread] # Nothing BY <1>1, <2>1 DEF AtWork
  <2>3. live[Latest] \in History /\ Latest \in Threads
    BY <2>2, NotForgotten, LatestLives
  <2>4. PICK r : r = [o EXCEPT !.at = "cut", !.read = live[Latest]] OBVIOUS
  <2>5. r \in PassRecords /\ r.at = "cut" /\ r.thread = o.thread /\ r.read = live[Latest]
    BY <2>3, <2>4 DEF PassRecords, Texts
  <2>6. pass' = [pass EXCEPT ![p] = r] BY <1>1, <2>1, <2>4 DEF ThreadsTyped
  <2>7. r.read \in Copies BY <2>3, <2>5, CopyIs
  <2>8. Got(pass[p].at) <= Got(r.at) BY <1>1, <2>1, <2>5 DEF Got
  <2> QED BY <1>3, <2>2, <2>3, <2>5, <2>6, <2>7, <2>8, PassOnly
<1> QED BY <1>4, <1>5, <1>6, <1>7, <1>8

\* A message is said, once, and a copy is on its way to the file.
LEMMA PersistKeeps ==
  ASSUME ThreadsInv, NEW p \in Passes, Persist(p)
  PROVE  ThreadsInv'
<1> USE DEF ThreadsInv
<1>1. PICK o \in PassRecords : o = pass[p] BY DEF ThreadsTyped
<1>2. PICK c : c = o.thread OBVIOUS
<1>3. PICK next \in {"agent", "over"} :
        /\ o.at \in {"user", "agent"} /\ next = IF o.at = "user" THEN "agent" ELSE "over"
        /\ ThreadMessage(c, <<p, o.at>>) /\ ThreadAt(p, next)
        /\ UNCHANGED <<file, record, cut, stops>>
  BY <1>1, <1>2 DEF Persist, onDisk
<1>4. c \in Threads /\ live[c] # Nothing /\ live[c] \in History
  BY <1>1, <1>2, <1>3 DEF AtWork, ThreadsTyped
<1>5. PICK m : m = <<p, o.at>> OBVIOUS
<1>6. m \in Messages /\ m[1] = p /\ m[2] = o.at BY <1>3, <1>5 DEF Messages
<1>7. PICK new : new = Append(live[c], m) OBVIOUS
<1>8. new \in History BY <1>4, <1>6, <1>7 DEF History
<1>9. /\ live' = [live EXCEPT ![c] = new]
      /\ recent' = Append(Remove1(recent, c), c)
      /\ saves' = saves \cup {Save(c, new, "open")}
  BY <1>3, <1>5, <1>7 DEF ThreadMessage, Lengthened, Copied
<1>10. PICK s : s = Save(c, new, "open") OBVIOUS
<1>11. /\ s \in SaveRecords /\ s.thread = c /\ s.messages = new
  BY <1>4, <1>8, <1>10 DEF Save, SaveRecords
<1>12. PICK r \in PassRecords : /\ pass' = [pass EXCEPT ![p] = r] /\ r.at = next
                                /\ r.thread = c /\ r.read = o.read
  BY <1>1, <1>2, <1>3, ThreadAtIs
<1>13. /\ pass' \in [Passes -> PassRecords] /\ pass'[p] = r
       /\ \A q \in Passes : q # p => pass'[q] = pass[q]
  BY <1>12, OneGoes
<1>14. /\ live' \in [Threads -> History \cup {Nothing}] /\ live'[c] = new
       /\ \A d \in Threads : d # c => live'[d] = live[d]
       /\ \A d \in Threads : live'[d] # Nothing <=> live[d] # Nothing
  BY <1>4, <1>8, <1>9, NoText DEF ThreadsTyped
<1>15. ThreadsTyped'
  <2>1. c \in Range(recent) BY <1>4 DEF ThreadsTyped
  <2>2. PICK rest : rest = Remove1(recent, c) OBVIOUS
  <2>3. rest \in Seq(Threads) /\ IsInjective(rest) /\ Range(rest) = Range(recent) \ {c}
    BY <2>2, TakenOut DEF ThreadsTyped
  <2>4. /\ recent' \in Seq(Threads) /\ IsInjective(recent')
        /\ Range(recent') = Range(rest) \cup {c}
    <3>1. PICK t : t = Append(rest, c) OBVIOUS
    <3>2. c \notin Range(rest) /\ c \in Threads BY <1>4, <2>3
    <3>3. IsInjective(t) BY <2>3, <3>1, <3>2, LastOnce
    <3>4. rest \in Seq(Threads) /\ c \in Threads BY <2>3, <3>2
    <3>5. Range(t) = Range(rest) \cup {c} BY <3>1, <3>4, PutLast
    <3>6. t \in Seq(Threads) BY <3>1, <3>4
    <3>7. recent' = t BY <1>9, <2>2, <3>1
    <3> QED BY <3>3, <3>5, <3>6, <3>7
  <2>5. Range(recent') = {d \in Threads : live'[d] # Nothing}
    BY <1>14, <2>1, <2>3, <2>4 DEF ThreadsTyped
  <2>6. saves' \in SUBSET SaveRecords BY <1>9, <1>10, <1>11 DEF ThreadsTyped
  <2> QED BY <1>3, <1>13, <1>14, <2>4, <2>5, <2>6 DEF ThreadsTyped
<1>16. AtWork'
  <2>1. \A q \in Passes :
          /\ pass'[q].at \in {"ask", "read", "cut", "user", "agent"}
             => pass'[q].thread \in Threads /\ live'[pass'[q].thread] # Nothing
          /\ pass'[q].at = "insert" => pass'[q].thread \in Threads
          /\ pass'[q].at = "cut" => pass'[q].read \in History
    BY <1>4, <1>12, <1>13, <1>14 DEF AtWork
  <2>2. \A x \in saves' : x \in saves \/ x = s BY <1>9, <1>10
  <2>3. \A x \in saves' : /\ live'[x.thread] # Nothing
                          /\ x.at \in {"open", "write"} => x.messages \in History
    <3> TAKE x \in saves'
    <3>1. CASE x = s BY <1>4, <1>8, <1>11, <1>14, <3>1
    <3>2. CASE x \in saves
      <4>1. x.thread \in Threads BY <3>2 DEF ThreadsTyped, SaveRecords
      <4> QED BY <1>14, <3>2, <4>1 DEF AtWork
    <3> QED BY <2>2, <3>1, <3>2
  <2> QED BY <2>1, <2>3 DEF AtWork
<1>17. CopiesOrderly'
  <2>1. Got(pass[p].at) <= Got(r.at) BY <1>1, <1>3, <1>12 DEF Got
  <2>2. MaySay \subseteq MaySay' BY <1>12, <2>1, OneSaysMore
  <2>3. m \notin MaySay BY <1>1, <1>3, <1>6 DEF MaySay, Takes, Got
  <2>4. m \in MaySay' BY <1>3, <1>6, <1>12, <1>13 DEF MaySay, Takes, Got
  <2>5. o.at = "user" => <<p, "agent">> \notin MaySay
    <3>1. PICK a : a = <<p, "agent">> OBVIOUS
    <3>2. a[1] = p /\ a[2] = "agent" BY <3>1
    <3> QED BY <1>1, <3>1, <3>2 DEF MaySay, Takes, Got
  <2>6. Orderly(live[c], MaySay)
    <3>1. live[c] \in Copies BY <1>4, CopyIs
    <3> QED BY <3>1 DEF CopiesOrderly
  <2>7. Orderly(new, MaySay')
    <3>1. PICK h \in History : h = live[c] BY <1>4
    <3> QED BY <1>6, <1>7, <2>2, <2>3, <2>4, <2>5, <2>6, <3>1, OneMore
  <2>8. ASSUME NEW h \in Copies' PROVE h \in Copies \/ h = new
    <3>1. h \in History BY CopyIs
    <3>2. CASE \E d \in Threads : h = live'[d] \/ h = file'[d]
      BY <1>3, <1>14, <3>1, <3>2, CopyIs
    <3>3. CASE \E x \in saves' : h = x.messages
      BY <1>9, <1>10, <1>11, <3>1, <3>3, CopyIs
    <3>4. CASE \E q \in Passes : h = pass'[q].read
      BY <1>1, <1>12, <1>13, <3>1, <3>4, CopyIs
    <3> QED BY <3>2, <3>3, <3>4, CopyIs
  <2> QED BY <2>2, <2>7, <2>8, CopiesKept
<1>18. OneText'
  <2> SUFFICES ASSUME NEW d \in Threads \ cut
               PROVE  /\ file[d] # Torn
                      /\ live'[d] # Nothing =>
                           /\ file[d] # Nothing => IsPrefix(file[d], live'[d])
                           /\ \A x \in saves' : x.thread = d /\ x.messages # Nothing
                                                => IsPrefix(x.messages, live'[d])
                      /\ live'[d] = Nothing =>
                           \A q \in Passes : pass'[q].at = "insert" /\ pass'[q].thread = d
                                             => pass'[q].read = file[d]
    BY <1>3 DEF OneText
  <2>1. CASE d # c
    <3>1. live'[d] = live[d] BY <1>14, <2>1
    <3>2. \A x \in saves' : x.thread = d => x \in saves BY <1>9, <1>10, <1>11, <2>1
    <3> QED BY <1>3, <1>12, <1>13, <3>1, <3>2 DEF OneText
  <2>2. CASE d = c
    <3>1. live'[d] = new /\ new # Nothing BY <1>8, <1>14, <2>2, NoText
    <3>2. \A x : x \in History /\ IsPrefix(x, live[c]) => IsPrefix(x, new)
      BY <1>4, <1>6, <1>7, Beginnings DEF History
    <3>3. IsPrefix(new, new) BY <1>8, Beginnings DEF History
    <3>4. file[d] # Torn /\ (file[d] # Nothing => IsPrefix(file[d], new))
      BY <1>4, <2>2, <3>2 DEF OneText, ThreadsTyped, Texts
    <3>5. ASSUME NEW x \in saves', x.thread = d, x.messages # Nothing
          PROVE  IsPrefix(x.messages, new)
      <4>1. CASE x = s BY <1>11, <3>3, <4>1
      <4>2. CASE x \in saves
        <5>1. x.messages \in History BY <3>5, <4>2 DEF ThreadsTyped, SaveRecords
        <5> QED BY <1>4, <2>2, <3>2, <3>5, <4>2, <5>1 DEF OneText
      <4> QED BY <1>9, <1>10, <4>1, <4>2
    <3> QED BY <3>1, <3>4, <3>5
  <2> QED BY <2>1, <2>2
<1> QED BY <1>15, <1>16, <1>17, <1>18

\* A thread is read into memory: for the first time, what the file has; or over what is
\* there already, which then counts as rewritten.
LEMMA InsertKeeps ==
  ASSUME ThreadsInv, NEW p \in Passes, Insert(p)
  PROVE  ThreadsInv'
<1> USE DEF ThreadsInv
<1>1. PICK o \in PassRecords : o = pass[p] BY DEF ThreadsTyped
<1>2. PICK c : c = o.thread OBVIOUS
<1>3. PICK new : new = Read(o.read) OBVIOUS
<1>4. /\ o.at = "insert"
      /\ live' = [live EXCEPT ![c] = new]
      /\ recent' = <<c>> \o Remove1(recent, c)
      /\ pass' = [pass EXCEPT ![p].at = "load", ![p].thread = Nothing, ![p].read = <<>>]
      /\ cut' = IF live[c] = Nothing THEN cut ELSE cut \cup {c}
      /\ UNCHANGED <<file, record, saves, stops>>
  BY <1>1, <1>2, <1>3 DEF Insert, onDisk
<1>5. c \in Threads BY <1>1, <1>2, <1>4 DEF AtWork
<1>6. new \in History /\ (o.read \in History => new = o.read)
      /\ (o.read \notin History => new = <<>>)
  BY <1>3, EmptyOrderly, NoText DEF Read, PassRecords, Texts
<1>7. PICK r : r = [o EXCEPT !.at = "load", !.thread = Nothing, !.read = <<>>] OBVIOUS
<1>8. r \in PassRecords /\ r.at = "load" /\ r.read = <<>>
  BY <1>7, EmptyOrderly DEF PassRecords, Texts
<1>9. pass' = [pass EXCEPT ![p] = r] BY <1>1, <1>4, <1>7 DEF ThreadsTyped
<1>10. /\ pass' \in [Passes -> PassRecords] /\ pass'[p] = r
       /\ \A q \in Passes : q # p => pass'[q] = pass[q]
  BY <1>8, <1>9, OneGoes
<1>11. /\ live' \in [Threads -> History \cup {Nothing}] /\ live'[c] = new
       /\ \A d \in Threads : d # c => live'[d] = live[d]
       /\ \A d \in Threads : live'[d] # Nothing <=> live[d] # Nothing \/ d = c
  BY <1>4, <1>5, <1>6, NoText DEF ThreadsTyped
<1>12. ThreadsTyped'
  <2>1. PICK rest : rest = Remove1(recent, c) OBVIOUS
  <2>2. rest \in Seq(Threads) /\ IsInjective(rest) /\ Range(rest) = Range(recent) \ {c}
    BY <2>1, TakenOut DEF ThreadsTyped
  <2>3. /\ recent' \in Seq(Threads) /\ IsInjective(recent')
        /\ Range(recent') = Range(rest) \cup {c}
    BY <1>4, <1>5, <2>1, <2>2, PutInOrder
  <2>4. Range(recent') = {d \in Threads : live'[d] # Nothing}
    BY <1>5, <1>11, <2>2, <2>3 DEF ThreadsTyped
  <2>5. cut' \in SUBSET Threads BY <1>4, <1>5 DEF ThreadsTyped
  <2> QED BY <1>4, <1>10, <1>11, <2>3, <2>4, <2>5 DEF ThreadsTyped
<1>13. AtWork'
  <2>1. \A q \in Passes :
          /\ pass'[q].at \in {"ask", "read", "cut", "user", "agent"}
             => pass'[q].thread \in Threads /\ live'[pass'[q].thread] # Nothing
          /\ pass'[q].at = "insert" => pass'[q].thread \in Threads
          /\ pass'[q].at = "cut" => pass'[q].read \in History
    BY <1>8, <1>10, <1>11 DEF AtWork
  <2>2. \A x \in saves : x.thread \in Threads BY DEF ThreadsTyped, SaveRecords
  <2>3. \A x \in saves' : /\ live'[x.thread] # Nothing
                          /\ x.at \in {"open", "write"} => x.messages \in History
    BY <1>4, <1>11, <2>2 DEF AtWork
  <2> QED BY <2>1, <2>3 DEF AtWork
<1>14. CopiesOrderly'
  <2>1. Got(pass[p].at) <= Got(r.at) BY <1>1, <1>4, <1>8 DEF Got
  <2>2. MaySay \subseteq MaySay' BY <1>8, <1>9, <2>1, OneSaysMore
  <2>3. new \in Copies \/ new = <<>> BY <1>1, <1>6, CopyIs
  <2>4. ASSUME NEW h \in Copies' PROVE h \in Copies \/ h = <<>>
    <3>1. h \in History BY CopyIs
    <3>2. CASE \E d \in Threads : h = live'[d] \/ h = file'[d]
      BY <1>4, <1>11, <2>3, <3>1, <3>2, CopyIs
    <3>3. CASE \E x \in saves' : h = x.messages BY <1>4, <3>1, <3>3, CopyIs
    <3>4. CASE \E q \in Passes : h = pass'[q].read BY <1>8, <1>10, <3>1, <3>4, CopyIs
    <3> QED BY <3>2, <3>3, <3>4, CopyIs
  <2> QED BY <2>2, <2>4, EmptyOrderly, CopiesKept
<1>15. OneText'
  <2>0. file' = file /\ saves' = saves BY <1>4
  <2> SUFFICES ASSUME NEW d \in Threads \ cut'
               PROVE  /\ file[d] # Torn
                      /\ live'[d] # Nothing =>
                           /\ file[d] # Nothing => IsPrefix(file[d], live'[d])
                           /\ \A x \in saves : x.thread = d /\ x.messages # Nothing
                                               => IsPrefix(x.messages, live'[d])
                      /\ live'[d] = Nothing =>
                           \A q \in Passes : pass'[q].at = "insert" /\ pass'[q].thread = d
                                             => pass'[q].read = file[d]
    BY <2>0 DEF OneText
  <2>1. d \notin cut BY <1>4
  <2>2. CASE d # c BY <1>8, <1>10, <1>11, <2>1, <2>2 DEF OneText
  <2>3. CASE d = c
    <3>1. live[c] = Nothing BY <1>4, <2>3
    <3>2. live'[d] = new /\ new # Nothing BY <1>6, <1>11, <2>3, NoText
    <3>3. \A x \in saves : x.thread # d BY <2>3, <3>1 DEF AtWork
    <3>4. o.read = file[d] /\ file[d] # Torn
      BY <1>1, <1>2, <1>4, <2>1, <2>3, <3>1 DEF OneText
    <3>5. file[d] # Nothing => file[d] = new BY <1>6, <3>4 DEF ThreadsTyped, Texts
    <3>6. IsPrefix(new, new) BY <1>6, Beginnings DEF History
    <3> QED BY <3>2, <3>3, <3>4, <3>5, <3>6
  <2> QED BY <2>2, <2>3
<1> QED BY <1>12, <1>13, <1>14, <1>15

\* A new thread, with an id that nobody has.
LEMMA CreateKeeps ==
  ASSUME ThreadsInv, NEW p \in Passes, Create(p)
  PROVE  ThreadsInv'
<1> USE DEF ThreadsInv
<1>1. PICK o \in PassRecords : o = pass[p] BY DEF ThreadsTyped
<1>2. PICK c \in Threads :
        /\ o.at = "create" /\ live[c] = Nothing /\ file[c] = Nothing
        /\ live' = [live EXCEPT ![c] = <<>>]
        /\ recent' = Append(recent, c)
        /\ saves' = saves \cup {Save(c, Nothing, "rewrite")}
        /\ On(p, "ask", c)
        /\ UNCHANGED <<file, record, cut, stops>>
  BY <1>1 DEF Create, onDisk
<1>3. PICK s : s = Save(c, Nothing, "rewrite") OBVIOUS
<1>4. s \in SaveRecords /\ s.thread = c /\ s.messages = Nothing /\ s.at = "rewrite"
  BY <1>3 DEF Save, SaveRecords
<1>5. PICK r \in PassRecords : /\ pass' = [pass EXCEPT ![p] = r] /\ r.at = "ask"
                               /\ r.thread = c /\ r.read = o.read
  BY <1>1, <1>2, OnIs
<1>6. /\ pass' \in [Passes -> PassRecords] /\ pass'[p] = r
      /\ \A q \in Passes : q # p => pass'[q] = pass[q]
  BY <1>5, OneGoes
<1>7. /\ live' \in [Threads -> History \cup {Nothing}] /\ live'[c] = <<>>
      /\ \A d \in Threads : d # c => live'[d] = live[d]
      /\ \A d \in Threads : live'[d] # Nothing <=> live[d] # Nothing \/ d = c
      /\ <<>> # Nothing
  BY <1>2, EmptyOrderly, NoText DEF ThreadsTyped
<1>8. ThreadsTyped'
  <2>1. c \notin Range(recent) BY <1>2 DEF ThreadsTyped
  <2>2. recent' = Append(recent, c) BY <1>2
  <2>3. recent \in Seq(Threads) /\ IsInjective(recent) BY DEF ThreadsTyped
  <2>4. /\ recent' \in Seq(Threads) /\ IsInjective(recent')
        /\ Range(recent') = Range(recent) \cup {c}
    <3>1. PICK l : l = recent OBVIOUS
    <3>2. PICK t : t = Append(l, c) OBVIOUS
    <3>3. l \in Seq(Threads) /\ IsInjective(l) /\ c \notin Range(l) BY <2>1, <2>3, <3>1
    <3>4. c \in Threads BY <1>2
    <3>5. IsInjective(t) BY <3>2, <3>3, <3>4, LastOnce
    <3>6. Range(t) = Range(l) \cup {c} BY <3>2, <3>3, <3>4, PutLast
    <3>7. t \in Seq(Threads) BY <3>2, <3>3, <3>4
    <3>8. recent' = t BY <2>2, <3>1, <3>2
    <3> QED BY <3>1, <3>5, <3>6, <3>7, <3>8
  <2>5. Range(recent') = {d \in Threads : live'[d] # Nothing}
    BY <1>7, <2>4 DEF ThreadsTyped
  <2>6. saves' \in SUBSET SaveRecords BY <1>2, <1>3, <1>4 DEF ThreadsTyped
  <2> QED BY <1>2, <1>6, <1>7, <2>4, <2>5, <2>6 DEF ThreadsTyped
<1>9. AtWork'
  <2>1. \A q \in Passes :
          /\ pass'[q].at \in {"ask", "read", "cut", "user", "agent"}
             => pass'[q].thread \in Threads /\ live'[pass'[q].thread] # Nothing
          /\ pass'[q].at = "insert" => pass'[q].thread \in Threads
          /\ pass'[q].at = "cut" => pass'[q].read \in History
    BY <1>5, <1>6, <1>7 DEF AtWork
  <2>2. \A x \in saves' : /\ live'[x.thread] # Nothing
                          /\ x.at \in {"open", "write"} => x.messages \in History
    <3> TAKE x \in saves'
    <3>1. CASE x = s BY <1>4, <1>7, <3>1
    <3>2. CASE x \in saves
      <4>1. x.thread \in Threads BY <3>2 DEF ThreadsTyped, SaveRecords
      <4> QED BY <1>7, <3>2, <4>1 DEF AtWork
    <3> QED BY <1>2, <1>3, <3>1, <3>2
  <2> QED BY <2>1, <2>2 DEF AtWork
<1>10. CopiesOrderly'
  <2>1. Got(pass[p].at) <= Got(r.at) BY <1>1, <1>2, <1>5 DEF Got
  <2>2. MaySay \subseteq MaySay' BY <1>5, <2>1, OneSaysMore
  <2>3. ASSUME NEW h \in Copies' PROVE h \in Copies \/ h = <<>>
    <3>1. h \in History BY CopyIs
    <3>2. CASE \E d \in Threads : h = live'[d] \/ h = file'[d]
      BY <1>2, <1>7, <3>1, <3>2, CopyIs
    <3>3. CASE \E x \in saves' : h = x.messages
      BY <1>2, <1>3, <1>4, <3>1, <3>3, CopyIs, NoText
    <3>4. CASE \E q \in Passes : h = pass'[q].read
      BY <1>1, <1>5, <1>6, <3>1, <3>4, CopyIs
    <3> QED BY <3>2, <3>3, <3>4, CopyIs
  <2> QED BY <2>2, <2>3, EmptyOrderly, CopiesKept
<1>11. OneText'
  <2>0. file' = file /\ cut' = cut BY <1>2
  <2> SUFFICES ASSUME NEW d \in Threads \ cut
               PROVE  /\ file[d] # Torn
                      /\ live'[d] # Nothing =>
                           /\ file[d] # Nothing => IsPrefix(file[d], live'[d])
                           /\ \A x \in saves' : x.thread = d /\ x.messages # Nothing
                                                => IsPrefix(x.messages, live'[d])
                      /\ live'[d] = Nothing =>
                           \A q \in Passes : pass'[q].at = "insert" /\ pass'[q].thread = d
                                             => pass'[q].read = file[d]
    BY <2>0 DEF OneText
  <2>1. \A x \in saves' : x \in saves \/ x = s BY <1>2, <1>3
  <2>2. CASE d # c BY <1>4, <1>5, <1>6, <1>7, <2>1, <2>2 DEF OneText
  <2>3. CASE d = c
    <3>1. \A x \in saves : x.thread # d BY <1>2, <2>3 DEF AtWork
    <3>2. \A x \in saves' : x.thread = d => x.messages = Nothing BY <1>4, <2>1, <3>1
    <3> QED BY <1>2, <1>7, <2>3, <3>2, NoText
  <2> QED BY <2>2, <2>3
<1> QED BY <1>8, <1>9, <1>10, <1>11

\* A compaction puts what its plan left in place of the latest thread, which from then on
\* counts as rewritten.
LEMMA CompactWriteKeeps ==
  ASSUME ThreadsInv, NEW p \in Passes, CompactWrite(p)
  PROVE  ThreadsInv'
<1> USE DEF ThreadsInv
<1>1. PICK o \in PassRecords : o = pass[p] BY DEF ThreadsTyped
<1>2. PICK to \in {"user", "over"} :
        /\ o.at = "cut" /\ pass' = [pass EXCEPT ![p].at = to, ![p].read = <<>>]
        /\ UNCHANGED <<recent, file, record, saves, stops>>
  BY <1>1 DEF CompactWrite, onDisk
<1>3. o.thread \in Threads /\ live[o.thread] # Nothing /\ o.read \in History
  BY <1>1, <1>2 DEF AtWork
<1>4. Latest \in Threads /\ live[Latest] # Nothing /\ live[Latest] \in History
  BY <1>3, NotForgotten, LatestLives
<1>5. PICK r : r = [o EXCEPT !.at = to, !.read = <<>>] OBVIOUS
<1>6. r \in PassRecords /\ r.at = to /\ r.read = <<>> /\ r.thread = o.thread
  BY <1>5, EmptyOrderly DEF PassRecords, Texts
<1>7. pass' = [pass EXCEPT ![p] = r] BY <1>1, <1>2, <1>5 DEF ThreadsTyped
<1>8. /\ pass' \in [Passes -> PassRecords] /\ pass'[p] = r
      /\ \A q \in Passes : q # p => pass'[q] = pass[q]
  BY <1>6, <1>7, OneGoes
<1>9. Got(pass[p].at) <= Got(r.at) BY <1>1, <1>2, <1>6 DEF Got
<1>10. CASE UNCHANGED <<live, cut>>
  <2>1. r.at \in {"ask", "read", "cut", "user", "agent"}
          => r.thread \in Threads /\ live[r.thread] # Nothing
    BY <1>3, <1>6
  <2>2. UNCHANGED <<live, recent, file, record, saves, cut, stops>> BY <1>2, <1>10
  <2> QED BY <1>6, <1>7, <1>9, <2>1, <2>2, PassOnly
<1>11. CASE \E new \in Planned(p, pass[p].read) :
              live' = [live EXCEPT ![Latest] = new] /\ cut' = cut \cup {Latest}
  <2>1. PICK new \in Planned(p, o.read) :
          live' = [live EXCEPT ![Latest] = new] /\ cut' = cut \cup {Latest}
    BY <1>1, <1>11
  <2>2. PICK c \in Threads : c = Latest BY <1>4
  <2>3. MaySay \subseteq MaySay' BY <1>6, <1>7, <1>9, OneSaysMore
  <2>4. new \in History /\ Orderly(new, MaySay')
    <3>1. PICK m : m = <<p, "note">> OBVIOUS
    <3>2. m \in Messages /\ m[1] = p /\ m[2] = "note" BY <3>1 DEF Messages
    <3>3. m \notin MaySay BY <1>1, <1>2, <3>2 DEF MaySay, Takes, Got
    <3>4. m \in MaySay' BY <1>2, <1>6, <1>8, <3>2 DEF MaySay, Takes, Got
    <3>5. Orderly(o.read, MaySay)
      <4>1. o.read \in Copies BY <1>1, <1>3, CopyIs
      <4> QED BY <4>1 DEF CopiesOrderly
    <3>6. PICK h \in History : h = o.read BY <1>3
    <3>7. new \in Planned(p, h) /\ Orderly(h, MaySay) BY <2>1, <3>5, <3>6
    <3> QED BY <2>3, <3>1, <3>3, <3>4, <3>7, PlanOrderly
  <2>5. /\ live' \in [Threads -> History \cup {Nothing}] /\ live'[c] = new
        /\ \A d \in Threads : d # c => live'[d] = live[d]
        /\ \A d \in Threads : live'[d] # Nothing <=> live[d] # Nothing
    BY <1>4, <2>1, <2>2, <2>4, NoText DEF ThreadsTyped
  <2>6. ThreadsTyped' BY <1>2, <1>8, <2>1, <2>2, <2>5 DEF ThreadsTyped
  <2>7. AtWork'
    <3>1. \A q \in Passes :
            /\ pass'[q].at \in {"ask", "read", "cut", "user", "agent"}
               => pass'[q].thread \in Threads /\ live'[pass'[q].thread] # Nothing
            /\ pass'[q].at = "insert" => pass'[q].thread \in Threads
            /\ pass'[q].at = "cut" => pass'[q].read \in History
      BY <1>2, <1>3, <1>6, <1>8, <2>5 DEF AtWork
    <3>2. \A x \in saves : x.thread \in Threads BY DEF ThreadsTyped, SaveRecords
    <3>3. \A x \in saves' : /\ live'[x.thread] # Nothing
                            /\ x.at \in {"open", "write"} => x.messages \in History
      BY <1>2, <2>5, <3>2 DEF AtWork
    <3> QED BY <3>1, <3>3 DEF AtWork
  <2>8. CopiesOrderly'
    <3>1. ASSUME NEW h \in Copies' PROVE h \in Copies \/ h = new \/ h = <<>>
      <4>1. h \in History BY CopyIs
      <4>2. CASE \E d \in Threads : h = live'[d] \/ h = file'[d]
        BY <1>2, <2>5, <4>1, <4>2, CopyIs
      <4>3. CASE \E x \in saves' : h = x.messages BY <1>2, <4>1, <4>3, CopyIs
      <4>4. CASE \E q \in Passes : h = pass'[q].read BY <1>6, <1>8, <4>1, <4>4, CopyIs
      <4> QED BY <4>2, <4>3, <4>4, CopyIs
    <3> QED BY <2>3, <2>4, <3>1, EmptyOrderly, CopiesKept
  <2>9. OneText'
    <3>0. file' = file /\ saves' = saves BY <1>2
    <3> SUFFICES ASSUME NEW d \in Threads \ cut'
                 PROVE  /\ file[d] # Torn
                        /\ live'[d] # Nothing =>
                             /\ file[d] # Nothing => IsPrefix(file[d], live'[d])
                             /\ \A x \in saves : x.thread = d /\ x.messages # Nothing
                                                 => IsPrefix(x.messages, live'[d])
                        /\ live'[d] = Nothing =>
                             \A q \in Passes : pass'[q].at = "insert" /\ pass'[q].thread = d
                                               => pass'[q].read = file[d]
      BY <3>0 DEF OneText
    <3>1. d \notin cut /\ d # c BY <2>1, <2>2
    <3>2. r.at # "insert" BY <1>2, <1>6
    <3> QED BY <1>8, <2>5, <3>1, <3>2 DEF OneText
  <2> QED BY <2>6, <2>7, <2>8, <2>9
<1> QED BY <1>10, <1>11 DEF CompactWrite

\* A stop leaves what is on disk.
LEMMA StopKeeps ==
  ASSUME ThreadsInv, ServerStops
  PROVE  ThreadsInv'
<1> USE DEF ThreadsInv
<1>1. /\ stops < MaxStops /\ stops' = stops + 1
      /\ live' = [c \in Threads |-> Nothing] /\ recent' = <<>> /\ saves' = {}
      /\ pass' = [p \in Passes |-> IF pass[p].at \in {"new", "over"} THEN pass[p]
                                   ELSE [at |-> "lost", thread |-> Nothing, read |-> <<>>]]
      /\ UNCHANGED <<file, record, cut>>
  BY DEF ServerStops, onDisk
<1>2. \A p \in Passes : pass[p] \in PassRecords BY DEF ThreadsTyped
<1>3. \A p \in Passes :
        /\ pass'[p] \in PassRecords /\ pass'[p].at \in {"new", "over", "lost"}
        /\ (pass'[p] = pass[p] \/ (pass'[p].read = <<>> /\ pass'[p].at = "lost"))
  <2> TAKE p \in Passes
  <2>1. PICK o \in PassRecords : o = pass[p] BY <1>2
  <2>2. CASE o.at \in {"new", "over"} BY <1>1, <2>1, <2>2
  <2>3. CASE o.at \notin {"new", "over"}
    <3>1. PICK r : r = [at |-> "lost", thread |-> Nothing, read |-> <<>>] OBVIOUS
    <3>2. r \in PassRecords /\ r.at = "lost" /\ r.read = <<>>
      BY <3>1, EmptyOrderly DEF PassRecords, Texts
    <3>3. pass'[p] = r BY <1>1, <2>1, <2>3, <3>1
    <3> QED BY <3>2, <3>3
  <2> QED BY <2>2, <2>3
<1>4. ThreadsTyped'
  <2>1. recent' \in Seq(Threads) /\ IsInjective(recent') /\ Range(recent') = {}
    BY <1>1 DEF IsInjective, Range
  <2>2. stops' \in 0 .. MaxStops
    <3>1. stops \in 0 .. MaxStops BY DEF ThreadsTyped
    <3> QED BY <1>1, <3>1, NoText
  <2>3. pass' \in [Passes -> PassRecords] BY <1>1, <1>3
  <2> QED BY <1>1, <2>1, <2>2, <2>3 DEF ThreadsTyped
<1>5. AtWork' BY <1>1, <1>3 DEF AtWork
<1>6. CopiesOrderly'
  <2>1. \A p \in Passes : Got(pass[p].at) <= Got(pass'[p].at)
    <3> TAKE p \in Passes
    <3>1. PICK a \in 0 .. 3 : a = Got(pass[p].at) BY GotIs
    <3>2. CASE pass'[p] = pass[p] BY <3>1, <3>2
    <3>3. CASE pass'[p].at = "lost"
      <4>1. Got(pass'[p].at) = 3 BY <3>3 DEF Got
      <4> QED BY <3>1, <4>1
    <3> QED BY <1>3, <3>2, <3>3
  <2>2. MaySay \subseteq MaySay' BY <2>1, SaysMore
  <2>3. ASSUME NEW h \in Copies' PROVE h \in Copies \/ h = <<>>
    <3>1. h \in History BY CopyIs
    <3>2. CASE \E d \in Threads : h = live'[d] \/ h = file'[d]
      BY <1>1, <3>1, <3>2, CopyIs, NoText
    <3>3. CASE \E q \in Passes : h = pass'[q].read BY <1>3, <3>1, <3>3, CopyIs
    <3> QED BY <1>1, <3>2, <3>3, CopyIs
  <2> QED BY <2>2, <2>3, EmptyOrderly, CopiesKept
<1>7. OneText'
  <2>1. \A c \in Threads : live'[c] = Nothing BY <1>1
  <2>2. \A p \in Passes : pass'[p].at # "insert" BY <1>3
  <2>3. \A c \in Threads \ cut' : file'[c] # Torn BY <1>1 DEF OneText
  <2> QED BY <2>1, <2>2, <2>3 DEF OneText
<1> QED BY <1>4, <1>5, <1>6, <1>7

\* Every step keeps it.
LEMMA ThreadStep == ThreadsInv /\ [ThreadNext]_threadVars => ThreadsInv'
<1> SUFFICES ASSUME ThreadsInv, [ThreadNext]_threadVars PROVE ThreadsInv' OBVIOUS
<1>1. CASE \E p \in Passes : BeginPass(p) \/ Works(p)
  <2>1. PICK p \in Passes : BeginPass(p) \/ Works(p) BY <1>1
  <2>2. CASE BeginPass(p) \/ Find(p) \/ (\E c \in Threads : Load(p, c)) \/ Loaded(p)
             \/ Ask(p) \/ CompactRead(p)
    BY <2>2, LooksKeep
  <2>3. CASE Insert(p) BY <2>3, InsertKeeps
  <2>4. CASE Create(p) BY <2>4, CreateKeeps
  <2>5. CASE Persist(p) BY <2>5, PersistKeeps
  <2>6. CASE CompactWrite(p) BY <2>6, CompactWriteKeeps
  <2> QED BY <2>1, <2>2, <2>3, <2>4, <2>5, <2>6 DEF Works
<1>2. CASE \E s \in saves : Saves(s) BY <1>2, SavesKeep
<1>3. CASE ServerStops BY <1>3, StopKeeps
<1>4. CASE UNCHANGED threadVars
  BY <1>4 DEF threadVars, ThreadsInv, ThreadsTyped, AtWork, CopiesOrderly, Copies, MaySay,
              OneText
<1> QED BY <1>1, <1>2, <1>3, <1>4 DEF ThreadNext

\* However passes, loads, saves, compactions and stops overlap, no thread says anything
\* twice or an answer before its exchange, in memory or on disk; and of a thread that was
\* only extended the file is never torn and always a beginning of what is in memory
\* (add_message's tasks, load_persisted, DefaultCompactionEngine::compact).
THEOREM ThreadsKept == ThreadSpec => []ThreadInv
<1>1. ThreadSpec => []ThreadsInv BY ThreadsInit, ThreadStep, PTL DEF ThreadSpec
<1> QED BY <1>1, GivesThread, PTL
=============================================================================
