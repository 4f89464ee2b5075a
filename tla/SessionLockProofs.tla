------------------------- MODULE SessionLockProofs -------------------------
(***************************************************************************)
(* Theorems about SessionLock, for any number of connections, processes,   *)
(* lock-session threads and registrations.                                 *)
(***************************************************************************)
EXTENDS SessionLock, TLAPS

\* The history of an answer is a truth value.
LEMMA AnsweredTyped == ASSUME NEW ended, Answered(ended) PROVE answered' \in BOOLEAN
  BY DEF Answered

\* Every step keeps each variable of the lock authority in its type.
LEMMA TypeStep == TypeOK /\ [Next]_vars => TypeOK'
<1> SUFFICES ASSUME TypeOK, [Next]_vars PROVE TypeOK'
  OBVIOUS
<1> USE DEF TypeOK, Phases, Positions, Replies, Reasons, daemonVars, connVars,
            threadVars, worldVars
<1>1. ASSUME NEW r \in Reasons, SpawnLockSession(r) PROVE TypeOK'
  <2>1. answered' \in BOOLEAN
    BY <1>1, AnsweredTyped DEF SpawnLockSession
  <2>2. QED BY <1>1, <2>1 DEF SpawnLockSession, StartThread
<1>2. ASSUME NEW t \in Threads, ThreadStep(t) \/ ThreadFails(t) PROVE TypeOK'
  <2>1. CASE ThreadAsks(t)      BY <2>1 DEF ThreadAsks
  <2>2. CASE ThreadLocked(t)    BY <2>2 DEF ThreadLocked
  <2>3. CASE ThreadReleases(t)  BY <2>3 DEF ThreadReleases
  <2>4. CASE ThreadEnds(t)
    <3>1. answered' \in BOOLEAN
      BY <2>4, AnsweredTyped DEF ThreadEnds
    <3>2. QED BY <2>4, <3>1 DEF PhaseAfter, Armed, ThreadEnds
  <2>5. CASE ThreadFails(t)     BY <2>5 DEF ThreadFails
  <2>6. QED BY <1>2, <2>1, <2>2, <2>3, <2>4, <2>5 DEF ThreadStep
<1>3. ASSUME NEW g \in 0..MaxGen, AckTimerFires(g) PROVE TypeOK'
  BY <1>3 DEF AckTimerFires
<1>4. ASSUME NEW c \in Conns, HandlerStep(c) PROVE TypeOK'
  <2>1. CASE HandoffDone(c)  BY <2>1 DEF HandoffDone
  <2>2. CASE HandoffLate(c)  BY <2>2 DEF HandoffLate
  <2>3. CASE ReadEof(c)
    <3>1. shellAlive' \in BOOLEAN /\ shellPid' \in Pids \cup {NoOne}
          /\ directives' \in Conns \cup {NoOne} /\ spawners' \subseteq Reasons
      BY <2>3 DEF RetakeAtEof, ReadEof
    <3>2. /\ conn' \in [Conns -> {"closed", "ready", "waiting"}]
          /\ hb' \in [Conns -> 0..MaxGen]
          /\ pidOf' \in [Conns -> Pids \cup {NoOne}]
          /\ hung' \subseteq Conns
          /\ reply' \in [Conns -> Replies]
      BY <2>3, ConstantsAssumption DEF RetakeAtEof, ReadEof
    <3>3. QED BY <2>3, <3>1, <3>2 DEF RetakeAtEof, ReadEof
  <2>4. QED BY <1>4, <2>1, <2>2, <2>3 DEF HandlerStep
<1>5. ASSUME NEW c \in Conns, ReadyWhileHeld(c) PROVE TypeOK'
  BY <1>5, ConstantsAssumption DEF NextGen, ReadyWhileHeld, BecomeHeartbeat
<1>6. ASSUME NEW c \in Conns, ReadyWhileFree(c) PROVE TypeOK'
  <2>1. pidOf[c] \in Pids \cup {NoOne} /\ gen' \in 0..MaxGen /\ gen' = gen + 1
    BY <1>6, ConstantsAssumption DEF NextGen, ReadyWhileFree, BecomeHeartbeat
  <2>2. CASE controller # NoOne
    BY <1>6, <2>1, <2>2 DEF NextGen, ReadyWhileFree, BecomeHeartbeat
  <2>3. CASE controller = NoOne
    BY <1>6, <2>1, <2>3 DEF NextGen, ReadyWhileFree, BecomeHeartbeat
  <2>4. QED BY <2>2, <2>3
<1>7. ASSUME NEW c \in Conns, LockedAck(c) PROVE TypeOK'
  <2>1. answered' \in BOOLEAN
    BY <1>7, AnsweredTyped DEF LockedAck
  <2>2. QED BY <1>7, <2>1 DEF LockedAck
<1>8. ASSUME NEW c \in Conns, SceneCloses(c) PROVE TypeOK'
  BY <1>8 DEF SceneCloses
<1>9. ASSUME NEW c \in Conns, NEW p \in Pids, Accept(c, p) PROVE TypeOK'
  BY <1>9 DEF Accept
<1>10. ASSUME LockRequest \/ LockForBlank \/ LockHintEdge PROVE TypeOK'
  BY <1>10 DEF LockRequest, LockForBlank, LockHintEdge
<1>11. ASSUME NEW p \in Pids,
              \/ ShellStarts(p) \/ ShellExits(p) \/ CompositorSeesExit(p)
              \/ ShellLocks(p) \/ ShellUnlocks(p)
       PROVE TypeOK'
  <2>1. CASE ShellStarts(p)         BY <2>1 DEF ShellStarts
  <2>2. CASE ShellExits(p)          BY <2>2 DEF ShellExits
  <2>3. CASE CompositorSeesExit(p)  BY <2>3 DEF CompositorSeesExit
  <2>4. CASE ShellLocks(p)          BY <2>4 DEF ShellLocks
  <2>5. CASE ShellUnlocks(p)        BY <2>5 DEF ShellUnlocks
  <2>6. QED BY <1>11, <2>1, <2>2, <2>3, <2>4, <2>5
<1>12. ASSUME DaemonRestarts PROVE TypeOK'
  <2>1. PICK first \in Threads : FreshDaemon(first)
    BY <1>12 DEF DaemonRestarts
  <2>2. thread' \in [Threads -> Positions] /\ controller' \in Threads \cup {NoOne}
        /\ phase' \in Phases /\ tierLocked' \in BOOLEAN
    BY <2>1, ConstantsAssumption DEF FreshDaemon
  <2>3. /\ gen' \in 0..MaxGen /\ timers' \subseteq 0..MaxGen
        /\ hb' \in [Conns -> 0..MaxGen]
    BY <2>1, ConstantsAssumption DEF FreshDaemon
  <2>4. /\ owner' \in Threads \cup Pids \cup {NoOne}
        /\ locked' \in BOOLEAN /\ alive' \subseteq Pids
    BY <1>12 DEF DaemonRestarts
  <2>5. QED
    BY <2>1, <2>2, <2>3, <2>4 DEF FreshDaemon
<1>13. ASSUME UNCHANGED vars PROVE TypeOK'
  BY <1>13 DEF vars
<1>14. QED
  BY <1>1, <1>2, <1>3, <1>4, <1>5, <1>6, <1>7, <1>8, <1>9, <1>10, <1>11,
     <1>12, <1>13 DEF Next

\* Type correctness of the lock authority (Daemon, the lock-session threads,
\* the handlers and the compositor), for every value of the constants.
THEOREM TypeCorrect == Spec => []TypeOK
<1>1. ASSUME Init PROVE TypeOK
  <2>1. PICK first \in Threads :
          /\ thread = [t \in Threads |->
                        IF InitialLock /\ t = first THEN "starting" ELSE "none"]
          /\ controller = IF InitialLock THEN first ELSE NoOne
    BY <1>1 DEF Init
  <2>2. thread \in [Threads -> Positions] /\ controller \in Threads \cup {NoOne}
    BY <2>1 DEF Positions
  <2>3. /\ gen \in 0..MaxGen /\ hb \in [Conns -> 0..MaxGen]
        /\ tierLocked \in BOOLEAN /\ phase \in Phases
    BY <1>1, ConstantsAssumption DEF Init, Phases
  <2>4. QED
    BY <1>1, <2>2, <2>3 DEF Init, TypeOK, Replies
<1>2. QED
  BY <1>1, TypeStep, PTL DEF Spec

-----------------------------------------------------------------------------
(* The lease.  LeaseBacked is not inductive on its own: a new generation is  *)
(* fresh only because no handler carries one above heartbeat_gen, and a      *)
(* closed connection must carry none at all.                                 *)

LeaseInv ==
    /\ \A c \in Conns : hb[c] <= gen
    /\ \A c \in Conns : conn[c] = "closed" => hb[c] = 0
    /\ GenerationsDistinct
    /\ LeaseBacked

leaseState == <<gen, shellAlive, shellPid, directives, hb, pidOf>>

\* A step that moves handlers only between running positions, and leaves the
\* registration alone, keeps the lease invariant.
LEMMA LeaseFrame ==
  ASSUME LeaseInv, UNCHANGED leaseState,
         \A c \in Conns : conn'[c] = "closed" <=> conn[c] = "closed"
  PROVE  LeaseInv'
BY DEF LeaseInv, leaseState, GenerationsDistinct, LeaseBacked, Holds

\* Registering a connection under a fresh generation, as a first registration
\* or as a reload of the holding process.
LEMMA LeaseRegister ==
  ASSUME TypeOK, LeaseInv, NEW c \in Conns, BecomeHeartbeat(c),
         conn[c] # "closed", shellAlive', shellPid' = pidOf[c],
         UNCHANGED pidOf,
         \A d \in Conns : conn'[d] = "closed" <=> conn[d] = "closed"
  PROVE  LeaseInv'
<1>1. gen' = gen + 1 /\ gen \in Nat
  BY ConstantsAssumption DEF NextGen, BecomeHeartbeat, TypeOK
<1>2. /\ hb'[c] = gen + 1 /\ directives' = c
      /\ \A d \in Conns \ {c} : hb'[d] = hb[d] /\ hb'[d] <= gen
  BY DEF NextGen, BecomeHeartbeat, TypeOK, LeaseInv
<1>3. \A d \in Conns : hb[d] \in Nat
  BY ConstantsAssumption DEF TypeOK
<1>4. \A d \in Conns : Holds(d)' <=> d = c
  BY <1>1, <1>2, <1>3 DEF Holds
<1>5. GenerationsDistinct'
  BY <1>1, <1>2, <1>3 DEF GenerationsDistinct, LeaseInv
<1>6. LeaseBacked'
  BY <1>2, <1>4 DEF LeaseBacked
<1>7. \A d \in Conns : hb'[d] <= gen' /\ (conn'[d] = "closed" => hb'[d] = 0)
  BY <1>1, <1>2, <1>3 DEF LeaseInv
<1>8. QED BY <1>5, <1>6, <1>7 DEF LeaseInv

\* Closing a connection ends the lease if it is the heartbeat, and only then.
LEMMA LeaseEof ==
  ASSUME TypeOK, LeaseInv, NEW c \in Conns, ReadEof(c)
  PROVE  LeaseInv'
<1>1. /\ conn'[c] = "closed" /\ hb'[c] = 0 /\ gen' = gen
      /\ \A d \in Conns \ {c} :
            conn'[d] = conn[d] /\ hb'[d] = hb[d] /\ pidOf'[d] = pidOf[d]
  BY DEF RetakeAtEof, ReadEof, TypeOK
<1>2. ~Holds(c)' /\ \A d \in Conns \ {c} : Holds(d)' <=> Holds(d)
  BY <1>1 DEF Holds
<1>3. conn[c] # "closed"
  BY DEF RetakeAtEof, ReadEof
<1>4. LeaseBacked'
  <2>1. CASE hb[c] # 0 /\ hb[c] = gen /\ shellAlive
    <3>1. ~shellAlive'
      BY <2>1 DEF RetakeAtEof, ReadEof, IsCurrent
    <3>2. \A d \in Conns \ {c} : ~Holds(d)
      BY <2>1 DEF Holds, LeaseInv, GenerationsDistinct
    <3>3. QED BY <1>2, <3>1, <3>2 DEF LeaseBacked
  <2>2. CASE ~(hb[c] # 0 /\ hb[c] = gen /\ shellAlive)
    <3>1. UNCHANGED <<shellAlive, shellPid, directives>>
      BY <2>2 DEF RetakeAtEof, ReadEof, IsCurrent
    <3>2. ~Holds(c)
      BY <2>2, <1>3 DEF Holds, LeaseInv, LeaseBacked
    <3>3. QED BY <1>1, <1>2, <3>1, <3>2 DEF LeaseBacked, LeaseInv
  <2>3. QED BY <2>1, <2>2
<1>5. GenerationsDistinct'
  BY <1>1 DEF GenerationsDistinct, LeaseInv
<1>6. \A d \in Conns : hb'[d] <= gen' /\ (conn'[d] = "closed" => hb'[d] = 0)
  BY <1>1, ConstantsAssumption DEF LeaseInv, TypeOK
<1>7. QED BY <1>4, <1>5, <1>6 DEF LeaseInv

\* A freshly started daemon has no lease and no connection.
LEMMA LeaseFresh ==
  ASSUME NEW first \in Threads, FreshDaemon(first)
  PROVE  LeaseInv'
BY DEF FreshDaemon, LeaseInv, GenerationsDistinct, LeaseBacked, Holds

LEMMA LeaseStep == TypeOK /\ LeaseInv /\ [Next]_vars => LeaseInv'
<1> SUFFICES ASSUME TypeOK, LeaseInv, [Next]_vars PROVE LeaseInv'
  OBVIOUS
<1> USE DEF daemonVars, connVars, threadVars, worldVars
<1>1. ASSUME NEW r \in Reasons, SpawnLockSession(r) PROVE LeaseInv'
  BY <1>1, LeaseFrame DEF SpawnLockSession, leaseState
<1>2. ASSUME NEW t \in Threads, ThreadStep(t) \/ ThreadFails(t) PROVE LeaseInv'
  BY <1>2, LeaseFrame DEF PhaseAfter, Armed, ThreadStep, ThreadAsks,
       ThreadLocked, ThreadReleases,
     ThreadEnds, ThreadFails, leaseState
<1>3. ASSUME NEW g \in 0..MaxGen, AckTimerFires(g) PROVE LeaseInv'
  BY <1>3, LeaseFrame DEF AckTimerFires, leaseState
<1>4. ASSUME NEW c \in Conns, HandoffDone(c) \/ HandoffLate(c) PROVE LeaseInv'
  <2>1. \A d \in Conns : conn'[d] = "closed" <=> conn[d] = "closed"
    BY <1>4 DEF HandoffDone, HandoffLate, TypeOK
  <2>2. QED BY <1>4, <2>1, LeaseFrame DEF HandoffDone, HandoffLate, leaseState
<1>5. ASSUME NEW c \in Conns, ReadEof(c) PROVE LeaseInv'
  BY <1>5, LeaseEof
<1>6. ASSUME NEW c \in Conns, ReadyWhileHeld(c) PROVE LeaseInv'
  <2>1. CASE SameProcess(c) /\ BecomeHeartbeat(c)
    BY <1>6, <2>1, LeaseRegister DEF ReadyWhileHeld, SameProcess
  <2>2. CASE UNCHANGED <<gen, hb, directives>>
    BY <1>6, <2>2, LeaseFrame DEF ReadyWhileHeld, leaseState
  <2>3. QED BY <1>6, <2>1, <2>2 DEF ReadyWhileHeld
<1>7. ASSUME NEW c \in Conns, ReadyWhileFree(c) PROVE LeaseInv'
  <2>1. \A d \in Conns : conn'[d] = "closed" <=> conn[d] = "closed"
    BY <1>7 DEF ReadyWhileFree, TypeOK
  <2>2. QED BY <1>7, <2>1, LeaseRegister DEF ReadyWhileFree
<1>8. ASSUME NEW c \in Conns, LockedAck(c) PROVE LeaseInv'
  BY <1>8, LeaseFrame DEF LockedAck, leaseState
<1>9. ASSUME NEW c \in Conns, SceneCloses(c) PROVE LeaseInv'
  BY <1>9, LeaseFrame DEF SceneCloses, leaseState
<1>10. ASSUME NEW c \in Conns, NEW p \in Pids, Accept(c, p) PROVE LeaseInv'
  <2>1. /\ hb[c] = 0 /\ hb' = hb /\ gen' = gen /\ shellAlive' = shellAlive
        /\ shellPid' = shellPid /\ directives' = directives
        /\ \A d \in Conns \ {c} : conn'[d] = conn[d] /\ pidOf'[d] = pidOf[d]
        /\ conn'[c] = "ready"
    BY <1>10 DEF Accept, LeaseInv, TypeOK
  <2>2. ASSUME NEW d \in Conns
        PROVE (Holds(d)' <=> Holds(d)) /\ (Holds(d) => pidOf'[d] = pidOf[d])
    <3>1. CASE d = c   BY <2>1, <3>1 DEF Holds
    <3>2. CASE d # c   BY <2>1, <3>2 DEF Holds
    <3>3. QED BY <3>1, <3>2
  <2>3. LeaseBacked'
    BY <2>1, <2>2 DEF LeaseInv, LeaseBacked
  <2>4. QED BY <2>1, <2>3 DEF LeaseInv, GenerationsDistinct
<1>11. ASSUME \/ LockRequest \/ LockForBlank \/ LockHintEdge
              \/ \E p \in Pids :
                    \/ ShellStarts(p) \/ ShellExits(p) \/ CompositorSeesExit(p)
                    \/ ShellLocks(p) \/ ShellUnlocks(p)
       PROVE LeaseInv'
  BY <1>11, LeaseFrame DEF LockRequest, LockForBlank, LockHintEdge, ShellStarts,
     ShellExits, CompositorSeesExit, ShellLocks, ShellUnlocks, leaseState
<1>12. ASSUME DaemonRestarts PROVE LeaseInv'
  BY <1>12, LeaseFresh DEF DaemonRestarts
<1>13. ASSUME UNCHANGED vars PROVE LeaseInv'
  BY <1>13, LeaseFrame DEF vars, leaseState
<1>14. QED
  BY <1>1, <1>2, <1>3, <1>4, <1>5, <1>6, <1>7, <1>8, <1>9, <1>10, <1>11,
     <1>12, <1>13 DEF Next, HandlerStep

LEMMA LeaseInit == Init => LeaseInv
BY DEF Init, LeaseInv, GenerationsDistinct, LeaseBacked, Holds

\* The lease can always be given back: shell_alive holds exactly while one
\* running handler carries the current generation, and no two handlers ever
\* carry the same one (ShellReady and the EOF path of handle_connection).
THEOREM LeaseSafe == Spec => [](LeaseBacked /\ GenerationsDistinct)
<1>1. LeaseInv => LeaseBacked /\ GenerationsDistinct
  BY DEF LeaseInv
<1>2. QED
  BY <1>1, LeaseInit, LeaseStep, TypeCorrect, PTL DEF Spec

\* No two open connections ever carry the same generation (the heartbeat's adoption of
\* it, and the increment on every other way in).
THEOREM GenerationsSafe == Spec => []GenerationsDistinct
<1>1. LeaseInv => GenerationsDistinct
  BY DEF LeaseInv
<1>2. QED
  BY <1>1, LeaseInit, LeaseStep, TypeCorrect, PTL DEF Spec

-----------------------------------------------------------------------------
(* The lock-session threads. *)

ThreadInv ==
    /\ ControllerExact
    /\ HoldingIsReal
    /\ \A t \in Threads : owner = t => thread[t] \in {"asked", "locked"}

threadState == <<phase, controller, thread, owner>>

LEMMA ThreadFrame ==
  ASSUME ThreadInv, UNCHANGED threadState
  PROVE  ThreadInv'
BY DEF ThreadInv, threadState, ControllerExact, HoldingIsReal

\* A thread moves through lock::run while the controller stays with it.
LEMMA ThreadMoves ==
  ASSUME TypeOK, ThreadInv, NEW t \in Threads, UNCHANGED <<phase, controller>>,
         NEW q \in Positions, thread' = [thread EXCEPT ![t] = q],
         thread[t] # "none", q # "none",
         \/ owner' = t /\ q \in {"asked", "locked"}
         \/ owner' = NoOne
         \/ owner' = owner /\ (owner # t \/ q \in {"asked", "locked"})
  PROVE  ThreadInv'
<1>1. thread'[t] = q /\ \A u \in Threads \ {t} : thread'[u] = thread[u]
  BY DEF TypeOK
<1>2. ControllerExact' /\ HoldingIsReal'
  BY <1>1 DEF ThreadInv, ControllerExact, HoldingIsReal
<1>3. \A u \in Threads : owner' = u => thread'[u] \in {"asked", "locked"}
  BY <1>1, ConstantsAssumption DEF ThreadInv
<1>4. QED BY <1>2, <1>3 DEF ThreadInv

LEMMA ThreadStarts ==
  ASSUME TypeOK, ThreadInv, NEW t \in Threads, StartThread(t), MayStart,
         owner' = owner
  PROVE  ThreadInv'
<1>1. thread'[t] = "starting" /\ \A u \in Threads \ {t} : thread'[u] = thread[u]
  BY DEF StartThread, TypeOK
<1>2. \A u \in Threads : thread[u] = "none"
  BY ConstantsAssumption DEF MayStart, ThreadInv, ControllerExact
<1>3. ControllerExact' /\ HoldingIsReal'
  BY <1>1, <1>2, ConstantsAssumption
     DEF StartThread, ControllerExact, HoldingIsReal
<1>4. \A u \in Threads : owner' # u
  BY <1>2 DEF ThreadInv
<1>5. QED BY <1>3, <1>4 DEF ThreadInv

LEMMA ThreadFinishes ==
  ASSUME TypeOK, ThreadInv, NEW t \in Threads, ThreadEnds(t)
  PROVE  ThreadInv'
<1>1. /\ thread'[t] = "none" /\ \A u \in Threads \ {t} : thread'[u] = thread[u]
      /\ controller' = NoOne /\ phase' # "holding" /\ owner' = owner
      /\ thread[t] \in {"released", "denied", "failed"}
  BY DEF PhaseAfter, Armed, ThreadEnds, TypeOK, worldVars
<1>2. controller = t /\ owner # t
  BY <1>1 DEF ThreadInv, ControllerExact
<1>3. \A u \in Threads : thread'[u] = "none"
  BY <1>1, <1>2 DEF ThreadInv, ControllerExact
<1>4. ControllerExact' /\ HoldingIsReal'
  BY <1>1, <1>3, ConstantsAssumption DEF ControllerExact, HoldingIsReal
<1>5. \A u \in Threads : owner' # u
  BY <1>1, <1>2 DEF ThreadInv, ControllerExact
<1>6. QED BY <1>4, <1>5 DEF ThreadInv

LEMMA ThreadFresh ==
  ASSUME NEW first \in Threads, FreshDaemon(first), owner' \notin Threads
  PROVE  ThreadInv'
<1>1. \A t \in Threads : thread'[t] # "none" <=> controller' = t
  BY ConstantsAssumption DEF FreshDaemon
<1>2. HoldingIsReal'
  BY ConstantsAssumption DEF FreshDaemon, HoldingIsReal
<1>3. QED BY <1>1, <1>2 DEF ThreadInv, ControllerExact

LEMMA ThreadInvStep == TypeOK /\ ThreadInv /\ [Next]_vars => ThreadInv'
<1> SUFFICES ASSUME TypeOK, ThreadInv, [Next]_vars PROVE ThreadInv'
  OBVIOUS
<1> USE DEF daemonVars, connVars, threadVars, worldVars
<1>1. ASSUME NEW r \in Reasons, SpawnLockSession(r) PROVE ThreadInv'
  <2>1. CASE MayStart /\ \E t \in Threads : StartThread(t)
    BY <1>1, <2>1, ThreadStarts DEF SpawnLockSession
  <2>2. CASE UNCHANGED <<controller, phase, tierLocked, thread>>
    BY <1>1, <2>2, ThreadFrame DEF SpawnLockSession, threadState
  <2>3. QED BY <1>1, <2>1, <2>2 DEF SpawnLockSession
<1>2. ASSUME NEW t \in Threads, ThreadStep(t) \/ ThreadFails(t) PROVE ThreadInv'
  <2>1. CASE ThreadAsks(t)
    <3>1. CASE owner = NoOne
      BY <2>1, <3>1, ThreadMoves DEF ThreadAsks, Positions
    <3>2. CASE owner # NoOne
      <4>1. owner # t
        BY <2>1 DEF ThreadAsks, ThreadInv
      <4>2. QED BY <2>1, <3>2, <4>1, ThreadMoves DEF ThreadAsks, Positions
    <3>3. QED BY <3>1, <3>2
  <2>2. CASE ThreadLocked(t)
    BY <2>2, ThreadMoves DEF ThreadLocked, Positions
  <2>3. CASE ThreadReleases(t)
    BY <2>3, ThreadMoves DEF ThreadReleases, Positions
  <2>4. CASE ThreadEnds(t)
    BY <2>4, ThreadFinishes
  <2>5. CASE ThreadFails(t)
    BY <2>5, ThreadMoves DEF ThreadFails, Positions
  <2>6. QED BY <1>2, <2>1, <2>2, <2>3, <2>4, <2>5 DEF ThreadStep
<1>3. ASSUME NEW g \in 0..MaxGen, AckTimerFires(g) PROVE ThreadInv'
  BY <1>3, ThreadFrame DEF AckTimerFires, threadState
<1>4. ASSUME NEW c \in Conns,
             \/ HandlerStep(c) \/ ReadyWhileHeld(c) \/ SceneCloses(c)
             \/ \E p \in Pids : Accept(c, p)
      PROVE ThreadInv'
  BY <1>4, ThreadFrame DEF RetakeAtEof, HandlerStep, HandoffDone, HandoffLate,
       ReadEof,
     ReadyWhileHeld, SceneCloses, Accept, threadState
<1>5. ASSUME NEW c \in Conns, ReadyWhileFree(c) \/ LockedAck(c) PROVE ThreadInv'
  <2>1. UNCHANGED <<controller, thread, owner>>
    BY <1>5 DEF ReadyWhileFree, LockedAck
  <2>2. phase' = phase \/ phase' = "released"
    BY <1>5 DEF ReadyWhileFree, LockedAck
  <2>3. QED BY <2>1, <2>2 DEF ThreadInv, ControllerExact, HoldingIsReal
<1>6. ASSUME LockRequest \/ LockForBlank \/ LockHintEdge PROVE ThreadInv'
  BY <1>6, ThreadFrame DEF LockRequest, LockForBlank, LockHintEdge, threadState
<1>7. ASSUME NEW p \in Pids,
             \/ ShellStarts(p) \/ ShellExits(p) \/ CompositorSeesExit(p)
             \/ ShellLocks(p) \/ ShellUnlocks(p)
      PROVE ThreadInv'
  <2>1. UNCHANGED <<phase, controller, thread>>
    BY <1>7 DEF ShellStarts, ShellExits, CompositorSeesExit, ShellLocks,
       ShellUnlocks
  <2>2. owner' \in {owner, NoOne, p}
    BY <1>7 DEF ShellStarts, ShellExits, CompositorSeesExit, ShellLocks,
       ShellUnlocks
  <2>3. QED
    BY <2>1, <2>2, ConstantsAssumption
       DEF ThreadInv, ControllerExact, HoldingIsReal
<1>8. ASSUME DaemonRestarts PROVE ThreadInv'
  <2>1. owner' \notin Threads
    BY <1>8, ConstantsAssumption DEF DaemonRestarts
  <2>2. QED BY <1>8, <2>1, ThreadFresh DEF DaemonRestarts
<1>9. ASSUME UNCHANGED vars PROVE ThreadInv'
  BY <1>9, ThreadFrame DEF vars, threadState
<1>10. QED
  BY <1>1, <1>2, <1>3, <1>4, <1>5, <1>6, <1>7, <1>8, <1>9 DEF Next

LEMMA ThreadInvInit == Init => ThreadInv
<1> SUFFICES ASSUME Init PROVE ThreadInv
  OBVIOUS
<1>1. \A t \in Threads : thread[t] # "none" <=> controller = t
  BY ConstantsAssumption DEF Init
<1>2. HoldingIsReal /\ owner = NoOne
  BY ConstantsAssumption DEF Init, HoldingIsReal
<1>3. QED BY <1>1, <1>2, ConstantsAssumption DEF ThreadInv, ControllerExact

\* However many threads race into spawn_lock_session, Daemon.controller is
\* present exactly while one lock-session thread runs, and the phase says
\* holding only then.
THEOREM ControllerSafe == Spec => [](ControllerExact /\ HoldingIsReal)
<1>1. ThreadInv => ControllerExact /\ HoldingIsReal
  BY DEF ThreadInv
<1>2. QED BY <1>1, ThreadInvInit, ThreadInvStep, TypeCorrect, PTL DEF Spec

\* The phase says Holding only while a lock-session thread is there to hold (the phase
\* and the controller are set in different places).
THEOREM HoldingSafe == Spec => []HoldingIsReal
<1>1. ThreadInv => HoldingIsReal
  BY DEF ThreadInv
<1>2. QED BY <1>1, ThreadInvInit, ThreadInvStep, TypeCorrect, PTL DEF Spec

\* A shell is told "held, must_lock" only when no lock client of sessiond is
\* connected any more, so its own lock request cannot be refused by ours.
THEOREM HandoffSafe == Spec => HandoffAfterRelease
<1>1. ASSUME TypeOK, ThreadInv, [Next]_vars, NEW c \in Conns,
             conn[c] = "waiting", conn'[c] = "ready", reply'[c] = "handoff"
      PROVE  owner' \notin Threads
  <2> USE DEF daemonVars, connVars, threadVars, worldVars
  <2>1. CASE \E d \in Conns : HandoffDone(d)
    <3>1. controller = NoOne /\ owner' = owner
      BY <2>1 DEF HandoffDone, LockGone
    <3>2. QED BY <1>1, <3>1, ConstantsAssumption DEF ThreadInv, ControllerExact
  <2>2. CASE \E d \in Conns : HandoffLate(d)
    <3>1. PICK d \in Conns : HandoffLate(d)
      BY <2>2
    <3>2. d = c
      BY <1>1, <3>1 DEF HandoffLate, TypeOK
    <3>3. reply'[c] = "late"
      BY <1>1, <3>1, <3>2 DEF HandoffLate, TypeOK
    <3>4. QED BY <1>1, <3>3
  <2>3. CASE \E d \in Conns : ReadyWhileFree(d)
    BY <1>1, <2>3 DEF ReadyWhileFree, TypeOK
  <2>4. CASE \E d \in Conns : ReadEof(d) \/ \E p \in Pids : Accept(d, p)
    BY <1>1, <2>4 DEF RetakeAtEof, ReadEof, Accept, TypeOK
  <2>5. CASE DaemonRestarts
    BY <1>1, <2>5 DEF DaemonRestarts, FreshDaemon
  <2>6. CASE conn' = conn
    BY <1>1, <2>6
  <2>7. QED
    BY <1>1, <2>1, <2>2, <2>3, <2>4, <2>5, <2>6 DEF PhaseAfter, Armed, Next,
         vars, HandlerStep,
       SpawnLockSession, ThreadStep, ThreadAsks, ThreadLocked, ThreadReleases,
       ThreadEnds, ThreadFails, AckTimerFires, ReadyWhileHeld, LockedAck,
       SceneCloses, LockRequest, LockForBlank, LockHintEdge, ShellStarts,
       ShellExits, CompositorSeesExit, ShellLocks, ShellUnlocks
<1>2. TypeOK /\ ThreadInv /\ [Next]_vars =>
        [\A c \in Conns :
           conn[c] = "waiting" /\ conn'[c] = "ready" /\ reply'[c] = "handoff"
             => owner' \notin Threads]_vars
  BY <1>1
<1>3. QED
  BY <1>2, ThreadInvInit, ThreadInvStep, TypeCorrect, PTL
     DEF Spec, HandoffAfterRelease

-----------------------------------------------------------------------------
(* A dead shell is covered, whatever fails: who takes the cover away - the   *)
(* attempt that ends, the channel that cannot be made, the ack of a          *)
(* superseded scene that ends the wait the timer guards - is remembered, and *)
(* nothing else does.                                                        *)

LEMMA DeadShellStep ==
  ASSUME TypeOK, DeadShellCovered, [Next]_vars
  PROVE  DeadShellCovered'
<1> USE DEF daemonVars, connVars, threadVars, worldVars
<1>1. ASSUME NEW r \in Reasons, SpawnLockSession(r) PROVE DeadShellCovered'
  <2>1. CASE MayStart
    <3>1. \/ controller' \in Threads
          \/ answered' = (answered \/ ~shellAlive) /\ shellAlive' = shellAlive
      BY <1>1, <2>1 DEF SpawnLockSession, StartThread, Answered
    <3>2. QED BY <3>1, ConstantsAssumption DEF DeadShellCovered
  <2>2. CASE ~MayStart
    BY <1>1, <2>2 DEF SpawnLockSession, MayStart, DeadShellCovered, Answered
  <2>3. QED BY <2>1, <2>2
<1>2. ASSUME NEW t \in Threads, ThreadEnds(t) PROVE DeadShellCovered'
  <2>1. CASE thread[t] = "released"
    BY <1>2, <2>1, ConstantsAssumption DEF PhaseAfter, Armed, ThreadEnds,
         DeadShellCovered, TypeOK
  <2>2. CASE thread[t] # "released"
    BY <1>2, <2>2 DEF ThreadEnds, Answered, DeadShellCovered
  <2>3. QED BY <2>1, <2>2
<1>3. ASSUME NEW t \in Threads,
             \/ ThreadAsks(t) \/ ThreadLocked(t) \/ ThreadReleases(t)
             \/ ThreadFails(t)
      PROVE DeadShellCovered'
  BY <1>3 DEF ThreadAsks, ThreadLocked, ThreadReleases, ThreadFails,
     DeadShellCovered
<1>4. ASSUME NEW g \in 0..MaxGen, AckTimerFires(g) PROVE DeadShellCovered'
  <2>1. CASE phase = "awaiting_shell_lock" /\ gen = g
    BY <1>4, <2>1 DEF AckTimerFires, DeadShellCovered
  <2>2. CASE ~(phase = "awaiting_shell_lock" /\ gen = g)
    BY <1>4, <2>2 DEF AckTimerFires, DeadShellCovered
  <2>3. QED BY <2>1, <2>2
<1>5. ASSUME NEW c \in Conns, ReadEof(c) PROVE DeadShellCovered'
  <2>1. CASE hb[c] # 0 /\ IsCurrent(c) /\ shellAlive
    BY <1>5, <2>1 DEF RetakeAtEof, ReadEof, DeadShellCovered
  <2>2. CASE ~(hb[c] # 0 /\ IsCurrent(c) /\ shellAlive)
    BY <1>5, <2>2 DEF RetakeAtEof, ReadEof, DeadShellCovered
  <2>3. QED BY <2>1, <2>2
<1>6. ASSUME NEW c \in Conns,
             \/ HandoffDone(c) \/ HandoffLate(c) \/ SceneCloses(c)
             \/ ReadyWhileHeld(c) \/ ReadyWhileFree(c)
             \/ \E p \in Pids : Accept(c, p)
      PROVE DeadShellCovered'
  BY <1>6 DEF HandoffDone, HandoffLate, SceneCloses, Accept, ReadyWhileHeld,
     ReadyWhileFree, DeadShellCovered
<1>7. ASSUME NEW c \in Conns, LockedAck(c) PROVE DeadShellCovered'
  BY <1>7 DEF LockedAck, Answered, DeadShellCovered
<1>8. ASSUME \/ LockRequest \/ LockForBlank \/ LockHintEdge
             \/ \E p \in Pids :
                   \/ ShellStarts(p) \/ ShellExits(p) \/ CompositorSeesExit(p)
                   \/ ShellLocks(p) \/ ShellUnlocks(p)
      PROVE DeadShellCovered'
  BY <1>8 DEF LockRequest, LockForBlank, LockHintEdge, ShellStarts, ShellExits,
     CompositorSeesExit, ShellLocks, ShellUnlocks, DeadShellCovered
<1>9. ASSUME DaemonRestarts PROVE DeadShellCovered'
  BY <1>9 DEF DaemonRestarts, FreshDaemon, DeadShellCovered
<1>10. ASSUME UNCHANGED vars PROVE DeadShellCovered'
  BY <1>10 DEF vars, DeadShellCovered
<1>11. QED
  BY <1>1, <1>2, <1>3, <1>4, <1>5, <1>6, <1>7, <1>8, <1>9, <1>10
     DEF Next, HandlerStep, ThreadStep

\* A registered shell that is gone always leaves a lock session, a thread about to start
\* one, or this generation's ack timer behind (the EOF handler, spawn_lock_session, the
\* tail of the thread and start_ack_timer), until an attempt has ended without the lock
\* or the ack of a superseded scene was taken -- with channels that cannot be made,
\* sessions that fail and scenes that speak late all allowed.
THEOREM DeadShellSafe == Spec => []DeadShellCovered
<1>1. Init => DeadShellCovered
  BY DEF Init, DeadShellCovered
<1>2. TypeOK /\ DeadShellCovered /\ [Next]_vars => DeadShellCovered'
  BY DeadShellStep
<1>3. QED BY <1>1, <1>2, TypeCorrect, PTL DEF Spec

-----------------------------------------------------------------------------
(* The daemon implements the abstract lease. *)

holderBar == IF shellAlive THEN CHOOSE c \in Conns : Holds(c) ELSE NoOne
openBar   == {c \in Conns : conn[c] # "closed"}

\* The current holder is the only one, so the refinement mapping names it.
LEMMA HolderIs ==
  ASSUME LeaseInv, NEW c \in Conns, Holds(c)
  PROVE  holderBar = c
<1>1. \A d \in Conns : Holds(d) => d = c
  BY DEF LeaseInv, GenerationsDistinct, Holds
<1>2. shellAlive
  BY DEF LeaseInv, LeaseBacked
<1>3. QED BY <1>1, <1>2 DEF holderBar

LEMMA HolderIsNext ==
  ASSUME LeaseInv', NEW c \in Conns, Holds(c)'
  PROVE  holderBar' = c
<1>1. \A d \in Conns : Holds(d)' => d = c
  BY DEF LeaseInv, GenerationsDistinct, Holds
<1>2. shellAlive'
  BY DEF LeaseInv, LeaseBacked
<1>3. QED BY <1>1, <1>2 DEF holderBar

\* The abstract holder changes only if the lease does: a step after which the
\* same connections hold the lease leaves the mapped holder alone.
LEMMA HolderKept ==
  ASSUME LeaseInv, LeaseInv', shellAlive' = shellAlive,
         \A c \in Conns : Holds(c)' <=> Holds(c)
  PROVE  holderBar' = holderBar
<1>1. CASE shellAlive
  <2>1. PICK c \in Conns : Holds(c)
    BY <1>1 DEF LeaseInv, LeaseBacked
  <2>2. holderBar = c
    BY <2>1, HolderIs
  <2>3. holderBar' = c
    BY <2>1, HolderIsNext
  <2>4. QED BY <2>2, <2>3
<1>2. CASE ~shellAlive
  BY <1>2 DEF holderBar
<1>3. QED BY <1>1, <1>2

\* A step that leaves the registration and the set of open connections alone
\* is a stutter of the abstract lease.
LEMMA LeaseStutter ==
  ASSUME LeaseInv, LeaseInv', UNCHANGED leaseState,
         \A c \in Conns : conn'[c] = "closed" <=> conn[c] = "closed"
  PROVE  UNCHANGED <<openBar, pidOf, holderBar>>
<1>1. openBar' = openBar /\ pidOf' = pidOf
  BY DEF openBar, leaseState
<1>2. holderBar' = holderBar
  BY HolderKept DEF Holds, leaseState
<1>3. QED BY <1>1, <1>2

\* Registering, for the first time or as a reload, is the abstract Take.
LEMMA RegisterTakes ==
  ASSUME LeaseInv, LeaseInv', NEW c \in Conns, Holds(c)', conn[c] # "closed",
         UNCHANGED pidOf, ~shellAlive \/ pidOf[c] = shellPid,
         \A d \in Conns : conn'[d] = "closed" <=> conn[d] = "closed"
  PROVE  Lease!Take(c)
<1>1. holderBar' = c
  BY HolderIsNext
<1>2. openBar' = openBar /\ c \in openBar
  BY DEF openBar
<1>3. holderBar = NoOne \/ pidOf[holderBar] = pidOf[c]
  <2>1. CASE shellAlive
    <3>1. PICK d \in Conns : Holds(d)
      BY <2>1 DEF LeaseInv, LeaseBacked
    <3>2. holderBar = d
      BY <3>1, HolderIs
    <3>3. pidOf[d] = shellPid
      BY <3>1 DEF LeaseInv, LeaseBacked
    <3>4. QED BY <2>1, <3>2, <3>3
  <2>2. CASE ~shellAlive
    BY <2>2 DEF holderBar
  <2>3. QED BY <2>1, <2>2
<1>4. QED BY <1>1, <1>2, <1>3 DEF Lease!Take, openBar, holderBar

\* Reading an EOF is the abstract Close, whoever held the lease.
LEMMA EofCloses ==
  ASSUME TypeOK, LeaseInv, LeaseInv', NEW c \in Conns, ReadEof(c)
  PROVE  Lease!Close(c)
<1>1. /\ conn[c] # "closed" /\ conn'[c] = "closed" /\ gen' = gen
      /\ pidOf' = [pidOf EXCEPT ![c] = NoOne]
      /\ \A d \in Conns \ {c} : conn'[d] = conn[d] /\ hb'[d] = hb[d]
  BY DEF RetakeAtEof, ReadEof, TypeOK
<1>2. openBar' = openBar \ {c} /\ c \in openBar
  BY <1>1 DEF openBar
<1>3. \A d \in Conns \ {c} : Holds(d)' <=> Holds(d)
  BY <1>1 DEF Holds
<1>4. holderBar' = IF holderBar = c THEN NoOne ELSE holderBar
  <2>1. CASE Holds(c)
    <3>1. holderBar = c
      BY <2>1, HolderIs
    <3>2. ~shellAlive'
      BY <2>1 DEF RetakeAtEof, ReadEof, IsCurrent, Holds, LeaseInv, LeaseBacked
    <3>3. QED BY <3>1, <3>2 DEF holderBar
  <2>2. CASE ~Holds(c)
    <3>1. ~Holds(c)' /\ shellAlive' = shellAlive
      BY <1>1, <2>2 DEF RetakeAtEof, Holds, ReadEof, IsCurrent
    <3>2. holderBar' = holderBar
      BY <1>3, <2>2, <3>1, HolderKept
    <3>3. holderBar # c
      <4>1. CASE shellAlive
        <5>1. PICK d \in Conns : Holds(d)
          BY <4>1 DEF LeaseInv, LeaseBacked
        <5>2. QED BY <2>2, <5>1, HolderIs
      <4>2. CASE ~shellAlive
        BY <4>2, ConstantsAssumption DEF holderBar
      <4>3. QED BY <4>1, <4>2
    <3>4. QED BY <3>2, <3>3
  <2>3. QED BY <2>1, <2>2
<1>5. QED BY <1>1, <1>2, <1>4 DEF Lease!Close, openBar, holderBar

LEMMA AcceptConnects ==
  ASSUME TypeOK, LeaseInv, LeaseInv', NEW c \in Conns, NEW p \in Pids,
         Accept(c, p)
  PROVE  Lease!Connect(c, p)
<1>1. /\ conn[c] = "closed" /\ conn'[c] = "ready" /\ hb[c] = 0
      /\ hb' = hb /\ gen' = gen /\ shellAlive' = shellAlive
      /\ pidOf' = [pidOf EXCEPT ![c] = p]
      /\ \A d \in Conns \ {c} : conn'[d] = conn[d]
  BY DEF Accept, TypeOK, LeaseInv, daemonVars
<1>2. openBar' = openBar \cup {c} /\ c \notin openBar
  BY <1>1 DEF openBar
<1>3. ASSUME NEW d \in Conns PROVE Holds(d)' <=> Holds(d)
  <2>1. CASE d = c  BY <1>1, <2>1 DEF Holds
  <2>2. CASE d # c  BY <1>1, <2>2 DEF Holds
  <2>3. QED BY <2>1, <2>2
<1>4. holderBar' = holderBar
  BY <1>1, <1>3, HolderKept
<1>5. QED BY <1>1, <1>2, <1>4 DEF Lease!Connect, openBar, holderBar

LEMMA LeaseSimulates ==
  ASSUME TypeOK, LeaseInv, LeaseInv', [Next]_vars
  PROVE  [Lease!Next]_(Lease!leaseVars)
<1> USE DEF daemonVars, connVars, threadVars, worldVars
<1> DEFINE Stutter == UNCHANGED <<openBar, pidOf, holderBar>>
<1>1. Stutter => UNCHANGED Lease!leaseVars
  BY DEF Lease!leaseVars, openBar, holderBar
<1>2. ASSUME NEW c \in Conns, ReadyWhileHeld(c) PROVE Lease!Take(c) \/ Stutter
  <2>1. CASE SameProcess(c) /\ BecomeHeartbeat(c)
    <3>1. Holds(c)'
      BY <1>2, <2>1, ConstantsAssumption
         DEF NextGen, BecomeHeartbeat, ReadyWhileHeld, Holds, TypeOK
    <3>2. QED BY <1>2, <2>1, <3>1, RegisterTakes DEF ReadyWhileHeld, SameProcess
  <2>2. CASE UNCHANGED <<gen, hb, directives>>
    BY <1>2, <2>2, LeaseStutter DEF ReadyWhileHeld, leaseState
  <2>3. QED BY <1>2, <2>1, <2>2 DEF ReadyWhileHeld
<1>3. ASSUME NEW c \in Conns, ReadyWhileFree(c) PROVE Lease!Take(c)
  <2>1. \A d \in Conns : conn'[d] = "closed" <=> conn[d] = "closed"
    BY <1>3 DEF ReadyWhileFree, TypeOK
  <2>2. Holds(c)'
    BY <1>3, <2>1, ConstantsAssumption
       DEF NextGen, BecomeHeartbeat, ReadyWhileFree, Holds, TypeOK
  <2>3. QED BY <1>3, <2>1, <2>2, RegisterTakes DEF ReadyWhileFree
<1>4. ASSUME NEW c \in Conns, HandoffDone(c) \/ HandoffLate(c) PROVE Stutter
  <2>1. \A d \in Conns : conn'[d] = "closed" <=> conn[d] = "closed"
    BY <1>4 DEF HandoffDone, HandoffLate, TypeOK
  <2>2. QED BY <1>4, <2>1, LeaseStutter DEF HandoffDone, HandoffLate, leaseState
<1>5. ASSUME DaemonRestarts PROVE Lease!Restart
  <2>1. openBar' = {} /\ pidOf' = [c \in Conns |-> NoOne] /\ ~shellAlive'
    BY <1>5 DEF DaemonRestarts, FreshDaemon, openBar
  <2>2. QED BY <2>1 DEF Lease!Restart, openBar, holderBar
<1>6. CASE \/ \E r \in Reasons : SpawnLockSession(r)
           \/ \E t \in Threads : ThreadStep(t) \/ ThreadFails(t)
           \/ \E g \in 0..MaxGen : AckTimerFires(g)
           \/ \E c \in Conns : LockedAck(c) \/ SceneCloses(c)
           \/ LockRequest \/ LockForBlank \/ LockHintEdge
           \/ UNCHANGED vars
  <2>1. conn' = conn /\ UNCHANGED leaseState
    BY <1>6 DEF PhaseAfter, Armed, SpawnLockSession, ThreadStep, ThreadAsks,
         ThreadLocked,
       ThreadReleases, ThreadEnds, ThreadFails, AckTimerFires, LockedAck,
       SceneCloses, LockRequest, LockForBlank, LockHintEdge, vars, leaseState
  <2>2. QED BY <1>1, <2>1, LeaseStutter
<1>7. CASE \E p \in Pids :
              \/ ShellStarts(p) \/ ShellExits(p) \/ CompositorSeesExit(p)
              \/ ShellLocks(p) \/ ShellUnlocks(p)
  <2>1. conn' = conn /\ UNCHANGED leaseState
    BY <1>7 DEF ShellStarts, ShellExits, CompositorSeesExit, ShellLocks,
       ShellUnlocks, leaseState
  <2>2. QED BY <1>1, <2>1, LeaseStutter
<1>8. QED
  BY <1>1, <1>2, <1>3, <1>4, <1>5, <1>6, <1>7, EofCloses, AcceptConnects
     DEF Next, HandlerStep, Lease!Next

\* The registration and EOF handling of sessiond implement the exclusive lease
\* of AuthorityLease: nothing but the holder's own process takes it over, and
\* nothing but the holder's own EOF (or a restart) frees it.
THEOREM LeaseImplemented == Spec => LeaseSpec
<1>1. Init => Lease!Init
  BY DEF Init, Lease!Init, Lease!leaseVars
<1>2. TypeOK /\ LeaseInv /\ LeaseInv' /\ [Next]_vars
        => [Lease!Next]_(Lease!leaseVars)
  BY LeaseSimulates
<1>3. QED
  BY <1>1, <1>2, LeaseInit, LeaseStep, TypeCorrect, PTL
     DEF Spec, LeaseSpec, Lease!Spec

-----------------------------------------------------------------------------

\* For any number of connections, processes and threads: the lease has one holder, which
\* no other connection's end can take (note_ready, handle_connection).
THEOREM LeaseOwnedAlways == Spec => []LeaseOwned
BY TypeCorrect, LeaseSafe, GenerationsSafe, PTL DEF LeaseOwned

\* However many threads race into spawn_lock_session, controller and phase say what the
\* one that won is doing.
THEOREM ControllerTrueAlways == Spec => []ControllerTrue
BY ControllerSafe, HoldingSafe, PTL DEF ControllerTrue
=============================================================================
