------------------------------- MODULE Logins -------------------------------
(***************************************************************************)
(* The logins of a subscription provider (bridge/claude_subscription.rs):  *)
(* several credential files, each shared with `claude`, copies of them in  *)
(* memory, and the requests that refresh a login or leave it for another.  *)
(*                                                                         *)
(* A login is a pair of tokens, here a number in the order of issue at its *)
(* file: the access token ends with time, the refresh token with its one   *)
(* use.  A person may log in as somebody else.                             *)
(*                                                                         *)
(* The endpoint always answers a refresh with a new refresh token.         *)
(***************************************************************************)
EXTENDS Naturals, FiniteSets

CONSTANTS
    Files,       \* how many credential files there are; the first is the primary
    Requests,    \* completions under way
    NoRequest,
    MaxAttempts, \* max_attempts
    MaxIssued,   \* bound: pairs issued at each file
    MaxOther,    \* bound: pairs issued at each but the primary
    NetFails     \* answers are lost, requests dropped, writes refused

ASSUME LoginConstants ==
    /\ {Files, MaxAttempts, MaxIssued, MaxOther} \subseteq Nat \ {0}
    /\ MaxOther <= MaxIssued
    /\ NoRequest \notin Requests /\ NetFails \in BOOLEAN

Slots == 1 .. Files
Gone  == 0 \* a file without tokens, or half written
Pairs == 1 .. MaxIssued

VARIABLES
    disk,    \* the pair in each file
    held,    \* accounts.tokens: the pair in memory
    resting, \* logins whose resumes_at_ms has not come
    active,  \* accounts.active
    mutex,   \* who has the mutex of accounts
    at,      \* each request
    refresh, \* the refresh of the mutex's holder
    issued,  \* the last pair issued at each file
    owner,   \* as whom each pair speaks
    unspent, \* pairs whose refresh token was not used
    ending,  \* the last pair inside the refresh window, and ...
    ended,   \* ... the last that has run out
    theirs,  \* what `claude` is about to write
    lost     \* files at which a granted pair was lost on its way, until the one who logged
             \* in last has written another (nothing reads it)

loginVars == <<disk, held, resting, active, mutex, at, refresh, issued, owner, unspent,
               ending, ended, theirs, lost>>

tokens == <<issued, owner, unspent, ending, ended>>

Unasked == [pc |-> "idle", left |-> 0, slot |-> 1, pair |-> 1, status |-> 200]
NoRefresh == [slot |-> 1, from |-> 1, got |-> Gone, saw |-> Gone, step |-> "none"]

LoginTypeOK ==
    /\ disk \in [Slots -> Pairs \cup {Gone}] /\ held \in [Slots -> Pairs]
    /\ resting \subseteq Slots /\ active \in Slots
    /\ mutex \in Requests \cup {NoRequest}
    /\ at \in [Requests ->
         [pc: {"idle", "token", "refreshing", "asking", "rotate", "trying", "through"},
          left: 0 .. MaxAttempts, slot: Slots, pair: Pairs, status: {200, 401, 429}]]
    /\ refresh \in
         [slot: Slots, from: Pairs, got: Pairs \cup {Gone}, saw: Pairs \cup {Gone},
          step: {"none", "sent", "granted", "refused", "writing"}]
    /\ issued \in [Slots -> Pairs] /\ theirs \in [Slots -> Pairs \cup {Gone}]
    /\ \A s \in Slots :
         /\ unspent[s] \subseteq 1 .. issued[s]
         /\ ended[s] <= ending[s] /\ ending[s] <= issued[s]
    /\ lost \subseteq Slots

-----------------------------------------------------------------------------
(* Tokens, at the endpoint. *)

Room(s) == issued[s] < IF s = 1 THEN MaxIssued ELSE MaxOther

\* A pair of the same person as `from`, whose refresh token is used up.
Granted(s, from) ==
    LET new == issued[s] + 1 IN
    /\ Room(s)
    /\ issued' = [issued EXCEPT ![s] = new]
    /\ owner' = [owner EXCEPT ![s][new] = owner[s][from]]
    /\ unspent' = [unspent EXCEPT ![s] = (unspent[s] \ {from}) \cup {new}]

\* Time passes for the oldest pair that is still fresh, or still good.
Ending(s) ==
    /\ ending[s] < issued[s]
    /\ ending' = [ending EXCEPT ![s] = @ + 1]
    /\ UNCHANGED <<disk, held, resting, active, mutex, at, refresh, issued, owner,
                   unspent, ended, theirs, lost>>

RunsOut(s) ==
    /\ ended[s] < ending[s]
    /\ ended' = [ended EXCEPT ![s] = @ + 1]
    /\ UNCHANGED <<disk, held, resting, active, mutex, at, refresh, issued, owner,
                   unspent, ending, theirs, lost>>

WindowReturns(s) ==
    /\ s \in resting
    /\ resting' = resting \ {s}
    /\ UNCHANGED <<disk, held, active, mutex, at, refresh, tokens, theirs, lost>>

-----------------------------------------------------------------------------
(* `claude`, the other process. *)

ClaudeRefreshes(s) ==
    /\ theirs[s] = Gone /\ disk[s] \in unspent[s]
    /\ Granted(s, disk[s])
    /\ theirs' = [theirs EXCEPT ![s] = issued[s] + 1]
    /\ UNCHANGED <<disk, held, resting, active, mutex, at, refresh, ending, ended, lost>>

\* The person logs in as somebody else: the file is gone until it is written.
SomeoneElse(s) == 1 + Cardinality({owner[s][p] : p \in 1 .. issued[s]})

LogIn(s) ==
    LET new == issued[s] + 1 IN
    /\ theirs[s] = Gone /\ Room(s)
    /\ disk' = [disk EXCEPT ![s] = Gone]
    /\ theirs' = [theirs EXCEPT ![s] = new]
    /\ issued' = [issued EXCEPT ![s] = new]
    /\ owner' = [owner EXCEPT ![s][new] = SomeoneElse(s)]
    /\ unspent' = [unspent EXCEPT ![s] = @ \cup {new}]
    /\ UNCHANGED <<held, resting, active, mutex, at, refresh, ending, ended, lost>>

\* Nobody has logged in since the one a pair speaks for.
LastToLogIn(s, p) == \A q \in 1 .. issued[s] : owner[s][q] <= owner[s][p]

ClaudeWrites(s) ==
    /\ theirs[s] # Gone
    /\ disk' = [disk EXCEPT ![s] = theirs[s]]
    /\ theirs' = [theirs EXCEPT ![s] = Gone]
    /\ lost' = IF LastToLogIn(s, theirs[s]) THEN lost \ {s} ELSE lost
    /\ UNCHANGED <<held, resting, active, mutex, at, refresh, tokens>>

-----------------------------------------------------------------------------
(* A request gets its token. *)

Goes(r, pc) == at' = [at EXCEPT ![r].pc = pc]

Ends(r) == at' = [at EXCEPT ![r] = Unasked]

Asks(r, s, p) ==
    at' = [at EXCEPT ![r].pc = "asking", ![r].slot = s, ![r].pair = p]

\* chat_completion_with_strain.
Begin(r) ==
    /\ at[r].pc = "idle"
    /\ at' = [at EXCEPT ![r] = [Unasked EXCEPT !.pc = "token", !.left = MaxAttempts]]
    /\ UNCHANGED <<disk, held, resting, active, mutex, refresh, tokens, theirs, lost>>

\* adopt_file_if_changed: the file is whose it says, unless it is being written.
Adopted(s) == IF disk[s] = Gone THEN held[s] ELSE disk[s]

Sent(s, p) == [NoRefresh EXCEPT !.slot = s, !.from = p, !.step = "sent"]

\* current_access_token: the pair on file, refreshed under the mutex near its end.
TakeToken(r) ==
    LET p == Adopted(active) IN
    /\ at[r].pc = "token" /\ mutex = NoRequest
    /\ held' = [held EXCEPT ![active] = p]
    /\ IF p > ending[active]
         THEN Asks(r, active, p) /\ UNCHANGED <<mutex, refresh>>
         ELSE Goes(r, "refreshing") /\ mutex' = r /\ refresh' = Sent(active, p)
    /\ UNCHANGED <<disk, resting, active, tokens, theirs, lost>>

EndpointGrants ==
    LET s == refresh.slot IN
    /\ refresh.step = "sent" /\ refresh.from \in unspent[s]
    /\ Granted(s, refresh.from)
    /\ refresh' = [refresh EXCEPT !.step = "granted", !.got = issued[s] + 1]
    /\ UNCHANGED <<disk, held, resting, active, mutex, at, ending, ended, theirs, lost>>

\* The token is spent, or the network does not answer, or not any more.
EndpointFails ==
    /\ \/ refresh.step = "sent" /\ (NetFails \/ refresh.from \notin unspent[refresh.slot])
       \/ refresh.step = "granted" /\ NetFails
    /\ refresh' = [NoRefresh EXCEPT !.slot = refresh.slot, !.step = "refused"]
    /\ lost' = IF refresh.step = "granted" THEN lost \cup {refresh.slot} ELSE lost
    /\ UNCHANGED <<disk, held, resting, active, mutex, at, tokens, theirs>>

Released == mutex' = NoRequest /\ refresh' = NoRefresh

\* The next attempt, if there is one.  Nothing asks whether there is.
Again(r) ==
    at' = [at EXCEPT ![r] =
             [Unasked EXCEPT !.pc = IF at[r].left > 1 THEN "token" ELSE "through",
                             !.left = at[r].left - 1]]

\* What was refreshed is used: by the one who asked, or as everybody's new login.
Refreshed(r) ==
    LET s == refresh.slot IN
    /\ held' = [held EXCEPT ![s] = refresh.got]
    /\ Released
    /\ IF at[r].pc = "refreshing"
         THEN Asks(r, s, refresh.got) /\ UNCHANGED active
         ELSE Again(r) /\ active' = s

Overwrite == TRUE

\* The file is nobody's, or still holds what was refreshed.
StillOurs == disk[refresh.slot] \in {Gone, refresh.from}

\* write_back_credentials reads the file, and leaves it alone if it moved on ...
Compares(r) ==
    /\ mutex = r /\ refresh.step = "granted"
    /\ IF StillOurs
         THEN /\ refresh' = [refresh EXCEPT !.step = "writing", !.saw = disk[refresh.slot]]
              /\ UNCHANGED <<held, active, mutex, at>>
         ELSE Refreshed(r)
    /\ UNCHANGED <<disk, resting, tokens, theirs, lost>>

\* ... or puts another in its place, whatever it holds by then.
Renames(r) ==
    LET s == refresh.slot IN
    /\ mutex = r /\ refresh.step = "writing"
    /\ \/ /\ disk' = [disk EXCEPT ![s] = refresh.got]
          /\ lost' = IF disk[s] \in {refresh.saw, Gone} THEN lost ELSE lost \cup {s}
       \/ NetFails /\ UNCHANGED disk /\ lost' = lost \cup {s}
    /\ Refreshed(r)
    /\ UNCHANGED <<resting, tokens, theirs>>

\* reread_credentials: what another process has refreshed, if it still answers.
Reread(s) == IF disk[s] > ended[s] THEN Adopted(s) ELSE held[s]

RefreshFails(r) ==
    LET s == refresh.slot IN
    /\ mutex = r /\ refresh.step = "refused"
    /\ IF at[r].pc = "refreshing"
         THEN /\ held' = [held EXCEPT ![s] = Reread(s)]
              /\ Asks(r, s, Reread(s)) /\ Released
         ELSE /\ refresh' = [NoRefresh EXCEPT !.slot = (s % Files) + 1]
              /\ UNCHANGED <<held, at, mutex>>
    /\ UNCHANGED <<disk, resting, active, tokens, theirs, lost>>

-----------------------------------------------------------------------------
(* The answer, and another login. *)

Answered(r) ==
    /\ at[r].pc = "asking" /\ at[r].pair > ended[at[r].slot]
    /\ Ends(r)
    /\ UNCHANGED <<disk, held, resting, active, mutex, refresh, tokens, theirs, lost>>

\* Overloaded, unreachable, or nothing in the answer.
Transient(r) ==
    /\ at[r].pc = "asking"
    /\ IF at[r].left > 1 THEN Again(r) ELSE Ends(r)
    /\ UNCHANGED <<disk, held, resting, active, mutex, refresh, tokens, theirs, lost>>

\* The window is spent, or the token says nothing any more.
Turned(r) ==
    /\ at[r].pc = "asking"
    /\ at' = [at EXCEPT ![r].pc = "rotate", ![r].pair = 1,
                        ![r].status = IF at[r].pair > ended[at[r].slot] THEN 429 ELSE 401]
    /\ UNCHANGED <<disk, held, resting, active, mutex, refresh, tokens, theirs, lost>>

\* Nowhere to go: a spent window is waited for, a dead login is not.
NoOther(r) ==
    IF at[r].status = 429 /\ at[r].left > 1 THEN Again(r) ELSE Ends(r)

\* rotate_account: the login rests; somebody else may have moved on already.
Rotate(r) ==
    /\ at[r].pc = "rotate" /\ mutex = NoRequest
    /\ resting' = resting \cup {at[r].slot}
    /\ IF active # at[r].slot
         THEN Again(r) /\ UNCHANGED <<mutex, refresh>>
         ELSE /\ Goes(r, "trying") /\ mutex' = r
              /\ refresh' = [NoRefresh EXCEPT !.slot = (at[r].slot % Files) + 1]
    /\ UNCHANGED <<disk, held, active, tokens, theirs, lost>>

\* The other logins in turn: not one that rests, and one that can authenticate.
Tries(r) ==
    LET s == refresh.slot
        p == Adopted(s) IN
    /\ mutex = r /\ at[r].pc = "trying" /\ refresh.step = "none"
    /\ \/ /\ s = at[r].slot
          /\ NoOther(r) /\ Released /\ UNCHANGED <<held, active>>
       \/ /\ s # at[r].slot
          /\ held' = [held EXCEPT ![s] = p]
          /\ \/ /\ s \in resting
                /\ refresh' = [refresh EXCEPT !.slot = (s % Files) + 1]
                /\ UNCHANGED <<active, mutex, at>>
             \/ /\ s \notin resting /\ p > ended[s]
                /\ Again(r) /\ active' = s /\ Released
             \/ /\ s \notin resting /\ p <= ended[s]
                /\ refresh' = Sent(s, p) /\ UNCHANGED <<active, mutex, at>>
    /\ UNCHANGED <<disk, resting, tokens, theirs, lost>>

\* A hand is raised: the request ends where it waits.
Halted(r) ==
    /\ NetFails /\ at[r].pc \notin {"idle", "through"}
    /\ refresh.step = "writing" => mutex # r
    /\ Ends(r)
    /\ IF mutex = r THEN Released ELSE UNCHANGED <<mutex, refresh>>
    /\ lost' = IF mutex = r /\ refresh.step = "granted" THEN lost \cup {refresh.slot}
               ELSE lost
    /\ UNCHANGED <<disk, held, resting, active, tokens, theirs>>

-----------------------------------------------------------------------------

LoginInit ==
    /\ disk = [s \in Slots |-> 1] /\ held = disk
    /\ resting = {} /\ active = 1 /\ mutex = NoRequest
    /\ at = [r \in Requests |-> Unasked] /\ refresh = NoRefresh
    /\ issued = [s \in Slots |-> 1] /\ owner = [s \in Slots |-> [p \in Pairs |-> 1]]
    /\ unspent = [s \in Slots |-> {1}]
    /\ ending = [s \in Slots |-> 0] /\ ended = ending
    /\ theirs = [s \in Slots |-> Gone] /\ lost = {}

Completion(r) ==
    \/ Begin(r) \/ TakeToken(r) \/ Compares(r) \/ Renames(r) \/ RefreshFails(r)
    \/ Answered(r) \/ Transient(r) \/ Turned(r) \/ Rotate(r) \/ Tries(r) \/ Halted(r)

LoginNext ==
    \/ \E r \in Requests : Completion(r)
    \/ EndpointGrants \/ EndpointFails
    \/ \E s \in Slots :
         \/ Ending(s) \/ RunsOut(s) \/ WindowReturns(s)
         \/ ClaudeRefreshes(s) \/ LogIn(s) \/ ClaudeWrites(s)

LoginSpec == LoginInit /\ [][LoginNext]_loginVars

-----------------------------------------------------------------------------
(* Properties. *)

\* Refresh tokens are used once, by whoever comes first: however requests and `claude`
\* race, somebody still has the one that works, unless it was lost on its way.
LoginKept ==
    \A s \in Slots \ lost :
        \/ {disk[s], held[s], theirs[s]} \cap unspent[s] # {}
        \/ refresh.slot = s /\ refresh.got \in unspent[s]

\* "Writing then replaces a live login with one from an account they left": a file that
\* is written is the login of the person who logged in last, unless it changed between
\* the comparison and the rename.
PersonStands ==
    \A s \in Slots \ lost :
        theirs[s] = Gone => LastToLogIn(s, disk[s])

\* A login outlives its refreshes, and is the person's.
LoginInv == LoginTypeOK /\ LoginKept /\ PersonStands

\* "retry loop returns or bails": no completion runs off the end of its attempts.
\* (Refuted: the last attempt may move to another login and continue.)
RetryLoopReturns == \A r \in Requests : at[r].pc # "through"
=============================================================================
