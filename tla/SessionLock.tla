---------------------------- MODULE SessionLock ----------------------------
(***************************************************************************)
(* The lock authority of souveraine-sessiond (sessiond/server.rs and       *)
(* sessiond/lock.rs): who holds ext-session-lock, who holds the shell's    *)
(* authority lease, and how one is handed to the other.                    *)
(*                                                                         *)
(* Actors, and where they interleave.  Every read or write of the Daemon   *)
(* struct happens under one mutex, so a section of code between taking and *)
(* dropping that mutex is one action here; a thread that drops it and      *)
(* later takes it again is two.                                            *)
(*   - one handler thread per client connection (conn, hb, reply);         *)
(*   - the lock-session threads (thread), each a Wayland client of its own;*)
(*   - the 15 s ack timers (timers), each remembering a generation;        *)
(*   - threads that have decided to take the lock back and are about to    *)
(*     call spawn_lock_session (spawners);                                 *)
(*   - the compositor and the shell processes, which are external.         *)
(***************************************************************************)
EXTENDS Naturals, FiniteSets

CONSTANTS
    Conns,            \* client connections to the control socket
    Pids,             \* processes a shell can run in
    Threads,          \* identities of lock-session threads
    NoOne,            \* nobody: Option::None
    MaxGen,           \* bound on heartbeat_gen: registrations explored
    InitialLock,      \* TRUE unless started with --no-initial-lock
    ChannelFaults,    \* lock::channel() may fail (fd exhaustion)
    SessionFaults,    \* lock::run may return Err
    SupersededSpeaks  \* a scene superseded by its own reload may still ack

ASSUME ConstantsAssumption ==
    /\ MaxGen \in Nat
    /\ InitialLock \in BOOLEAN
    /\ ChannelFaults \in BOOLEAN
    /\ SessionFaults \in BOOLEAN
    /\ SupersededSpeaks \in BOOLEAN
    /\ NoOne \notin Conns \cup Pids \cup Threads
    /\ Pids \cap Threads = {}

VARIABLES
    phase,        \* Daemon.phase
    controller,   \* Daemon.controller: the running lock-session thread
    gen,          \* Daemon.heartbeat_gen
    shellAlive,   \* Daemon.shell_alive
    shellPid,     \* Daemon.shell_pid
    directives,   \* Daemon.shell_directives: the connection it writes to
    tierLocked,   \* is_locked(Daemon.device_state.state())
    conn,         \* per connection: its handler thread's position
    hb,           \* per connection: the handler's `heartbeat`, 0 for None
    pidOf,        \* per connection: SO_PEERCRED, NoOne once it is closed
    hung,         \* connections whose peer has closed, EOF not read yet
    reply,        \* per connection: the last answer to its shell_ready
    thread,       \* per lock-session thread: its position in lock::run
    released,     \* threads with a Msg::Release queued
    timers,       \* generations with an ack timer running
    spawners,     \* threads about to call spawn_lock_session, by reason
    locked,       \* compositor: the session is locked
    owner,        \* compositor: the client whose lock is live
    alive,        \* shell processes that are running
    answered      \* since the shell died an attempt at the lock has ended without it, or
                  \* an ack was taken (a history variable: nothing reads it)

daemonVars == <<phase, controller, gen, shellAlive, shellPid, directives,
                tierLocked>>
connVars   == <<conn, hb, pidOf, hung, reply>>
threadVars == <<thread, released, timers, spawners>>
worldVars  == <<locked, owner, alive>>
vars       == <<daemonVars, connVars, threadVars, worldVars, answered>>

Phases     == {"holding", "awaiting_shell_lock", "released", "idle"}
Positions  == {"none", "starting", "asked", "locked", "released", "denied",
               "failed"}
\* held/must_lock of the answer: handoff is true/true, free is false/false,
\* a reload answers held=false and must_lock from the machine's tier; lease
\* is the refusal "already registered", late the refusal after the 5 s wait.
Replies    == {"none", "handoff", "free", "reload_locked", "reload_open",
               "lease", "late"}
Reasons    == {"eof", "ack", "request"}

TypeOK ==
    /\ phase \in Phases
    /\ controller \in Threads \cup {NoOne}
    /\ gen \in 0..MaxGen
    /\ shellAlive \in BOOLEAN
    /\ shellPid \in Pids \cup {NoOne}
    /\ directives \in Conns \cup {NoOne}
    /\ tierLocked \in BOOLEAN
    /\ conn \in [Conns -> {"closed", "ready", "waiting"}]
    /\ hb \in [Conns -> 0..MaxGen]
    /\ pidOf \in [Conns -> Pids \cup {NoOne}]
    /\ hung \subseteq Conns
    /\ reply \in [Conns -> Replies]
    /\ thread \in [Threads -> Positions]
    /\ released \subseteq Threads
    /\ timers \subseteq 0..MaxGen
    /\ spawners \subseteq Reasons
    /\ locked \in BOOLEAN
    /\ owner \in Threads \cup Pids \cup {NoOne}
    /\ alive \subseteq Pids
    /\ answered \in BOOLEAN

-----------------------------------------------------------------------------
(* Taking the lock: spawn_lock_session and the thread it starts. *)

\* The body of spawn_lock_session once the channel exists: the controller
\* and the phase are set under the mutex, the thread starts after it.
StartThread(t) ==
    /\ thread[t] = "none"
    /\ controller' = t
    /\ phase' = "holding"
    /\ tierLocked' = TRUE
    /\ thread' = [thread EXCEPT ![t] = "starting"]

\* An attempt at the lock, or an ack, has come to its end while no shell was alive.
Answered(ended) == answered' = (answered \/ (ended /\ ~shellAlive))

MayStartAnyway == TRUE

MayStart == controller = NoOne

\* Whoever decided to take the lock calls spawn_lock_session: nothing if a
\* session already runs, nothing if the channel cannot be made.
SpawnLockSession(r) ==
    /\ r \in spawners
    /\ spawners' = spawners \ {r}
    /\ \/ /\ MayStart
          /\ \E t \in Threads : StartThread(t)
          /\ UNCHANGED answered
       \/ /\ ~MayStart \/ ChannelFaults
          /\ Answered(MayStart)
          /\ UNCHANGED <<controller, phase, tierLocked, thread>>
    /\ UNCHANGED <<gen, shellAlive, shellPid, directives, connVars, released,
                   timers, worldVars>>

\* mgr.lock(): a live lock client makes the compositor refuse; an unlocked
\* session or an abandoned lock is granted (misc:allow_session_lock_restore).
ThreadAsks(t) ==
    /\ thread[t] = "starting"
    /\ IF owner = NoOne
         THEN /\ thread' = [thread EXCEPT ![t] = "asked"]
              /\ owner' = t
              /\ locked' = TRUE
         ELSE /\ thread' = [thread EXCEPT ![t] = "denied"]
              /\ UNCHANGED <<owner, locked>>
    /\ UNCHANGED <<daemonVars, connVars, released, timers, spawners, alive, answered>>

\* The compositor's verdict, after a frame is on every output.
ThreadLocked(t) ==
    /\ thread[t] = "asked"
    /\ thread' = [thread EXCEPT ![t] = "locked"]
    /\ UNCHANGED <<daemonVars, connVars, released, timers, spawners, worldVars,
                   answered>>

\* Both loops of lock::run poll the channel; Release returns from run, which
\* drops the Wayland connection and leaves the session locked and ownerless.
ThreadReleases(t) ==
    /\ thread[t] \in {"asked", "locked"}
    /\ t \in released
    /\ thread' = [thread EXCEPT ![t] = "released"]
    /\ owner' = NoOne
    /\ UNCHANGED <<daemonVars, connVars, released, timers, spawners, locked,
                   alive, answered>>

\* run returns Err (no Wayland display, no lock manager, no verdict in 60 s, a
\* poll or read error) or the compositor revokes the lock.  Its connection
\* goes with it.
ThreadFails(t) ==
    /\ SessionFaults
    /\ thread[t] \in {"starting", "asked", "locked"}
    /\ \E end \in {"denied", "failed"} : thread' = [thread EXCEPT ![t] = end]
    /\ owner' = IF owner = t THEN NoOne ELSE owner
    /\ UNCHANGED <<daemonVars, connVars, released, timers, spawners, locked,
                   alive, answered>>

\* What the thread leaves as the phase, by outcome.
PhaseAfter(t) ==
    IF thread[t] = "released" THEN "awaiting_shell_lock"
    ELSE IF shellAlive THEN "released" ELSE "idle"

NotArmed == timers

\* start_ack_timer remembers the generation that was current at the release.
Armed == timers \cup {gen}

\* The tail of the thread: the controller is cleared and the outcome becomes
\* the phase, under the mutex.  Only a release arms the ack timer.
ThreadEnds(t) ==
    /\ thread[t] \in {"released", "denied", "failed"}
    /\ thread' = [thread EXCEPT ![t] = "none"]
    /\ released' = released \ {t}
    /\ controller' = NoOne
    /\ phase' = PhaseAfter(t)
    /\ timers' = IF thread[t] = "released" THEN Armed ELSE timers
    /\ Answered(thread[t] # "released")
    /\ UNCHANGED <<gen, shellAlive, shellPid, directives, tierLocked, connVars,
                   spawners, worldVars>>

\* start_ack_timer, 15 s later: if nobody confirmed a lock and nobody has
\* registered since, decide to take it back.
AckTimerFires(g) ==
    /\ g \in timers
    /\ timers' = timers \ {g}
    /\ spawners' = IF phase = "awaiting_shell_lock" /\ gen = g
                     THEN spawners \cup {"ack"} ELSE spawners
    /\ UNCHANGED <<daemonVars, connVars, thread, released, worldVars, answered>>

-----------------------------------------------------------------------------
(* The control socket: one handler thread per connection. *)

Accept(c, p) ==
    /\ conn[c] = "closed"
    /\ p \in alive
    /\ conn' = [conn EXCEPT ![c] = "ready"]
    /\ pidOf' = [pidOf EXCEPT ![c] = p]
    /\ UNCHANGED <<daemonVars, hb, hung, reply, threadVars, worldVars, answered>>

NextGen == gen + 1

\* Bump heartbeat_gen and make this connection the heartbeat under it.
BecomeHeartbeat(c) ==
    /\ gen < MaxGen
    /\ gen' = NextGen
    /\ hb' = [hb EXCEPT ![c] = NextGen]
    /\ directives' = c

AnyProcess(c) == TRUE

SameProcess(c) == shellPid = pidOf[c]

\* shell_ready while a lease is held: the holder's own process is a scene
\* reload and supersedes in place; anyone else is refused.
ReadyWhileHeld(c) ==
    /\ shellAlive
    /\ conn[c] = "ready"
    /\ \/ /\ SameProcess(c)
          /\ BecomeHeartbeat(c)
          /\ reply' = [reply EXCEPT ![c] = IF tierLocked THEN "reload_locked"
                                                         ELSE "reload_open"]
       \/ /\ ~SameProcess(c)
          /\ reply' = [reply EXCEPT ![c] = "lease"]
          /\ UNCHANGED <<gen, hb, directives>>
    /\ UNCHANGED <<phase, controller, shellAlive, shellPid, tierLocked, conn,
                   pidOf, hung, threadVars, worldVars, answered>>

\* shell_ready with no lease held: register, then either ask the lock-session
\* thread to release and wait for it, or answer at once.
ReadyWhileFree(c) ==
    /\ ~shellAlive
    /\ conn[c] = "ready"
    /\ BecomeHeartbeat(c)
    /\ shellAlive' = TRUE
    /\ shellPid' = pidOf[c]
    /\ answered' = FALSE
    /\ IF controller # NoOne
         THEN /\ released' = released \cup {controller}
              /\ conn' = [conn EXCEPT ![c] = "waiting"]
              /\ UNCHANGED <<reply, phase>>
         ELSE /\ reply' = [reply EXCEPT ![c] = "free"]
              /\ phase' = IF phase = "idle" THEN "released" ELSE phase
              /\ UNCHANGED <<released, conn>>
    /\ UNCHANGED <<controller, tierLocked, pidOf, hung, thread, timers,
                   spawners, worldVars>>

LockAskedToGo == controller = NoOne \/ controller \in released

LockGone == controller = NoOne

\* The condvar wait ends because the thread has gone...
HandoffDone(c) ==
    /\ conn[c] = "waiting"
    /\ LockGone
    /\ conn' = [conn EXCEPT ![c] = "ready"]
    /\ reply' = [reply EXCEPT ![c] = "handoff"]
    /\ UNCHANGED <<daemonVars, hb, pidOf, hung, threadVars, worldVars, answered>>

\* ...or because 5 s passed.  The refusal leaves the registration in place.
HandoffLate(c) ==
    /\ conn[c] = "waiting"
    /\ ~LockGone
    /\ conn' = [conn EXCEPT ![c] = "ready"]
    /\ reply' = [reply EXCEPT ![c] = "late"]
    /\ UNCHANGED <<daemonVars, hb, pidOf, hung, threadVars, worldVars, answered>>

\* A bridge acks once per registration that owed a lock, when its own
\* process's surface is secure; only `heartbeat.is_some()` is checked here.
LockedAck(c) ==
    /\ conn[c] = "ready"
    /\ hb[c] # 0
    /\ reply[c] \in {"handoff", "reload_locked"}
    /\ owner = pidOf[c]
    /\ SupersededSpeaks \/ hb[c] = gen
    /\ phase' = "released"
    /\ tierLocked' = TRUE
    /\ reply' = [reply EXCEPT ![c] = "none"]
    /\ Answered(TRUE)
    /\ UNCHANGED <<controller, gen, shellAlive, shellPid, directives, conn, hb,
                   pidOf, hung, threadVars, worldVars>>

\* A client's `lock`: refused while a live shell owns steady state.
LockRequest ==
    /\ phase # "holding"
    /\ ~shellAlive \/ phase = "idle"
    /\ spawners' = spawners \cup {"request"}
    /\ UNCHANGED <<daemonVars, connVars, thread, released, timers, worldVars,
                   answered>>

\* request_session_lock: a blank needs a lock first.  A live shell with a
\* working directive channel is told to; otherwise sessiond takes it itself.
LockForBlank ==
    /\ ~shellAlive \/ directives = NoOne \/ directives \in hung
    /\ spawners' = spawners \cup {"request"}
    /\ UNCHANGED <<daemonVars, connVars, thread, released, timers, worldVars,
                   answered>>

EverRegistered(c) == TRUE

IsCurrent(c) == hb[c] = gen

RetakeOnlyAcked ==
    IF controller = NoOne /\ phase = "released" THEN spawners \cup {"eof"}
                                               ELSE spawners

\* The EOF handler's retake: only when no lock session already runs.
RetakeAtEof ==
    IF controller = NoOne THEN spawners \cup {"eof"} ELSE spawners

\* EOF on a connection: if it was the live heartbeat the shell died, and the
\* session is locked unless a lock session already runs.
ReadEof(c) ==
    /\ conn[c] = "ready"
    /\ c \in hung
    /\ conn' = [conn EXCEPT ![c] = "closed"]
    /\ hung' = hung \ {c}
    /\ hb' = [hb EXCEPT ![c] = 0]
    /\ pidOf' = [pidOf EXCEPT ![c] = NoOne]
    /\ reply' = [reply EXCEPT ![c] = "none"]
    /\ IF hb[c] # 0 /\ IsCurrent(c) /\ shellAlive
         THEN /\ shellAlive' = FALSE
              /\ shellPid' = NoOne
              /\ directives' = NoOne
              /\ spawners' = RetakeAtEof
         ELSE UNCHANGED <<shellAlive, shellPid, directives, spawners>>
    /\ UNCHANGED <<phase, controller, gen, tierLocked, thread, released, timers,
                   worldVars, answered>>

\* logind's LockedHint reaches the machine.  The shell writes the hint,
\* sessiond's own lock does not, and logind may refuse it: any value, any time.
LockHintEdge ==
    /\ tierLocked' \in BOOLEAN
    /\ UNCHANGED <<phase, controller, gen, shellAlive, shellPid, directives,
                   connVars, threadVars, worldVars, answered>>

-----------------------------------------------------------------------------
(* The shell processes and the compositor, external. *)

ShellStarts(p) ==
    /\ p \notin alive
    /\ owner # p
    /\ \A c \in Conns : conn[c] = "closed" \/ pidOf[c] # p
    /\ alive' = alive \cup {p}
    /\ UNCHANGED <<daemonVars, connVars, threadVars, locked, owner, answered>>

\* The process exits: its control sockets close.  Its Wayland connection is a
\* different descriptor, closed by a step of its own.
ShellExits(p) ==
    /\ p \in alive
    /\ alive' = alive \ {p}
    /\ hung' = hung \cup {c \in Conns : conn[c] # "closed" /\ pidOf[c] = p}
    /\ UNCHANGED <<daemonVars, conn, hb, pidOf, reply, threadVars, locked,
                   owner, answered>>

CompositorSeesExit(p) ==
    /\ owner = p
    /\ p \notin alive
    /\ owner' = NoOne
    /\ UNCHANGED <<daemonVars, connVars, threadVars, locked, alive, answered>>

\* One scene closes its socket while its process lives on.
SceneCloses(c) ==
    /\ conn[c] # "closed"
    /\ hung' = hung \cup {c}
    /\ UNCHANGED <<daemonVars, conn, hb, pidOf, reply, threadVars, worldVars,
                   answered>>

ShellLocks(p) ==
    /\ p \in alive
    /\ owner = NoOne
    /\ owner' = p
    /\ locked' = TRUE
    /\ UNCHANGED <<daemonVars, connVars, threadVars, alive, answered>>

ShellUnlocks(p) ==
    /\ p \in alive
    /\ owner = p
    /\ owner' = NoOne
    /\ locked' = FALSE
    /\ UNCHANGED <<daemonVars, connVars, threadVars, alive, answered>>

-----------------------------------------------------------------------------

\* A daemon that has just started: run() up to the accept loop.
FreshDaemon(first) ==
    /\ gen' = 0
    /\ shellAlive' = FALSE
    /\ shellPid' = NoOne
    /\ directives' = NoOne
    /\ conn' = [c \in Conns |-> "closed"]
    /\ pidOf' = [c \in Conns |-> NoOne]
    /\ hb' = [c \in Conns |-> 0]
    /\ hung' = {}
    /\ reply' = [c \in Conns |-> "none"]
    /\ released' = {}
    /\ timers' = {}
    /\ spawners' = {}
    /\ thread' = [t \in Threads |->
                    IF InitialLock /\ t = first THEN "starting" ELSE "none"]
    /\ controller' = IF InitialLock THEN first ELSE NoOne
    /\ phase' = IF InitialLock THEN "holding" ELSE "idle"
    /\ tierLocked' = InitialLock
    /\ answered' = FALSE

\* The daemon crashes or is upgraded; systemd starts it again.  Its sockets
\* and its Wayland connection close, so a lock it held is left abandoned.
DaemonRestarts ==
    /\ \E t \in Threads : FreshDaemon(t)
    /\ owner' = IF owner \in Threads THEN NoOne ELSE owner
    /\ UNCHANGED <<locked, alive>>

Init ==
    /\ gen = 0
    /\ shellAlive = FALSE
    /\ shellPid = NoOne
    /\ directives = NoOne
    /\ conn = [c \in Conns |-> "closed"]
    /\ hb = [c \in Conns |-> 0]
    /\ pidOf = [c \in Conns |-> NoOne]
    /\ hung = {}
    /\ reply = [c \in Conns |-> "none"]
    /\ released = {}
    /\ timers = {}
    /\ spawners = {}
    /\ locked = FALSE
    /\ owner = NoOne
    /\ alive = {}
    /\ \E first \in Threads :
         /\ thread = [t \in Threads |->
                        IF InitialLock /\ t = first THEN "starting" ELSE "none"]
         /\ controller = IF InitialLock THEN first ELSE NoOne
    /\ phase = IF InitialLock THEN "holding" ELSE "idle"
    /\ tierLocked = InitialLock
    /\ answered = FALSE

ThreadStep(t) ==
    ThreadAsks(t) \/ ThreadLocked(t) \/ ThreadReleases(t) \/ ThreadEnds(t)

HandlerStep(c) ==
    HandoffDone(c) \/ HandoffLate(c) \/ ReadEof(c)

Next ==
    \/ \E r \in Reasons : SpawnLockSession(r)
    \/ \E t \in Threads : ThreadStep(t) \/ ThreadFails(t)
    \/ \E g \in 0..MaxGen : AckTimerFires(g)
    \/ \E c \in Conns :
         \/ HandlerStep(c)
         \/ ReadyWhileHeld(c) \/ ReadyWhileFree(c) \/ LockedAck(c)
         \/ SceneCloses(c)
         \/ \E p \in Pids : Accept(c, p)
    \/ LockRequest \/ LockForBlank \/ LockHintEdge
    \/ \E p \in Pids :
         \/ ShellStarts(p) \/ ShellExits(p) \/ CompositorSeesExit(p)
         \/ ShellLocks(p) \/ ShellUnlocks(p)
    \/ DaemonRestarts

Spec == Init /\ [][Next]_vars

\* Threads that hold no lock get scheduled, sleeps end, the condvar wait is
\* bounded, and the compositor answers a lock request and a closed socket.
\* No client, shell process or restart is ever obliged to do anything.
Fairness ==
    /\ \A r \in Reasons : WF_vars(SpawnLockSession(r))
    /\ \A t \in Threads : WF_vars(ThreadStep(t))
    /\ \A g \in 0..MaxGen : WF_vars(AckTimerFires(g))
    /\ \A c \in Conns : WF_vars(HandlerStep(c))
    /\ \A p \in Pids : WF_vars(CompositorSeesExit(p))

FairSpec == Spec /\ Fairness

-----------------------------------------------------------------------------
(* Properties. *)

Holds(c) == conn[c] # "closed" /\ hb[c] # 0 /\ hb[c] = gen

\* The lease exists exactly while one running handler can give it back: the
\* shell counts as alive if and only if some open connection carries the
\* current heartbeat generation, and then its process is the recorded holder
\* and the directives go down that connection (handle_connection, ShellReady).
LeaseBacked ==
    /\ shellAlive <=> \E c \in Conns : Holds(c)
    /\ \A c \in Conns : Holds(c) => shellPid = pidOf[c] /\ directives = c

\* No two connections were ever given the same generation, so at most one
\* EOF can end the lease.
GenerationsDistinct ==
    \A c, d \in Conns : hb[c] # 0 /\ hb[c] = hb[d] => c = d

\* A registration that is over can end nobody else's lease.
LeaseOwned == TypeOK /\ LeaseBacked /\ GenerationsDistinct

\* The comment on Daemon.controller: present exactly while a lock-session
\* thread is running -- however many threads race into spawn_lock_session.
ControllerExact ==
    \A t \in Threads : thread[t] # "none" <=> controller = t

\* phase says holding only while a lock session runs, so `lock` never answers
\* "already" for a session nobody is holding.
HoldingIsReal == phase = "holding" => controller # NoOne

\* What the daemon says of its lock session is what its threads are doing.
ControllerTrue == ControllerExact /\ HoldingIsReal

\* Once a registered shell is gone, and however that races its own handoff, either a
\* lock session runs, or a thread is on its way to start one, or the ack timer of this
\* very generation will -- until one attempt has come to its end without the lock
\* (another locker, a session that failed, no channel), or a scene the shell had
\* superseded has acked.  After that sessiond tries no more by itself: EOF is read once.
DeadShellCovered ==
    ~shellAlive /\ gen > 0 =>
        \/ controller # NoOne
        \/ spawners # {}
        \/ phase = "awaiting_shell_lock" /\ gen \in timers
        \/ answered

\* The shell is told to lock only after sessiond's own lock client is gone:
\* the compositor refuses a second locker while the first is connected.
HandoffAfterRelease ==
    [][\A c \in Conns :
         conn[c] = "waiting" /\ conn'[c] = "ready" /\ reply'[c] = "handoff"
           => owner' \notin Threads]_vars

\* The lease as an exclusive, revocable token (AuthorityLease).
Lease == INSTANCE AuthorityLease WITH
    open <- {c \in Conns : conn[c] # "closed"},
    pid <- pidOf,
    holder <- IF shellAlive THEN CHOOSE c \in Conns : Holds(c) ELSE NoOne

LeaseSpec == Lease!Spec

\* A shell that has gone is answered: a lock session is started, or one that ran has
\* ended without the lock, or a shell is back -- it never waits for a request.
DeadShellAnswered ==
    (~shellAlive /\ gen > 0) ~> (controller # NoOne \/ shellAlive \/ answered)
=============================================================================
