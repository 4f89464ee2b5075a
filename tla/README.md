# A verification of Souveraine

Souveraine is an agent runtime that also owns the device it runs on: a server
for an agent's conversations and background life, and a set of daemons for the
phone under it. This directory holds TLA+ modules translated from that code, the
TLC configurations that check them on small instances, and TLAPS proofs of their
most important properties. Two parts carry the weight: `souveraine-sessiond`
(`src/src/sessiond/`), the daemon that decides whether the session is locked,
whether the panel is lit and what a button means, and the consciousness
(`src/src/server/`, `src/src/core/`, `src/src/backend/`), whose turns, threads,
thoughts, heartbeats, logins and summons run beside each other.
`PROJECT.json` ties every definition to the lines it stands for and every
property to the hazards it is for.

Contents: [inventory](#inventory) · [how it works](#how-it-works) ·
[modules](#modules) · [runs](#runs) · [bounds](#bounds) · [fairness](#fairness) ·
[proofs](#proofs) · [findings](#findings) · [divergences](#divergences) ·
[plan](#plan) · [not modelled](#not-modelled)

## Inventory

### The session daemon (`src/src/sessiond/`)

| Part | State | Operations | What makes it hard | Correct when | Module |
|---|---|---|---|---|---|
| Lock authority (`server.rs`, `lock.rs`) | `phase`, `controller`, `heartbeat_gen`, `shell_alive`, `shell_pid`, `shell_directives` | `shell_ready`, `locked_ack`, `lock`, heartbeat EOF, handoff, ack timer, lock-session thread | three kinds of thread race into `spawn_lock_session`; a handoff waits on a condvar while the world moves; EOFs and timers arrive late | one lock session at a time; the lease has one holder; a dead shell is covered until an attempt has ended | `SessionLock`, `AuthorityLease` |
| Device state machine (`device_state.rs`) | `state`, `panel_on`, `blank_requested`, `pending_blank`, `idle_since`, button recognisers | `note_input`, `button_edge`, `request_screen`, `set_panel`, `set_session_locked`, `tick` | decides under the mutex what others carry out later without it | nobody darkens an unlocked session; a press in the dark wakes; an idle locked screen goes dark | `PanelAuthority` |
| Dim | `dimmed`, `brightness_before_dim` | dim, restore | three steps, one under the mutex | the person's brightness comes back, unless two were about it at once | `DimRestore` |
| Evidence | `sensor_evidence`, `evidence_seen`, `observed_since`, `double_tap_refusals`, source health | `update_sensors_from`, `expire_stale_evidence`, `evaluate_source_health`, `note_input_gated` | several rules share one stamp; silence is the signal | outages are paired and never false; a dead sensor stops vetoing; an insisting person is let in | `SourceHealth`, `ProximityVeto` |
| Executors (`server.rs`: `execute`, `run_executor`) | none | lock, blank, unblank, dim, restore, volume, power, links | external commands, run unlocked, that fail or finish late | their reports describe the hardware | with their deciders |
| Subscribers (`server.rs`: `fan_out`) | `subscribers`, `last_pushed_seq` | `subscribe`, a push after every request and tick | the list is taken out, written to without the mutex and put back | once, in order, nobody forgotten | `EventFanOut` |
| Forensic trail | `next_seq`, file, hash chain | append, write, rotate, recover | torn writes, rotation, restart | a verifiable chain with increasing numbers | `ForensicTrail` |
| Policy | the policy in use and the file | `set_policy`, `save`, `load` | applied field by field, checked on the way | what is saved is valid; an `ok` survives a restart | `PolicySettings` |
| Watchers (`idle.rs`, `lockhint.rs`) | last value seen | idled, resumed, LockedHint edges | edges only; start-up windows; dead monitors | the machine follows what they watch | `PanelAuthority` |
| Bearer posture (`bearer.rs`) | candidate and its time, applied posture | probe, tick | flapping links | applied only after settling | `BearerPosture` |
| Power requests | one latch | admit, ask logind, execute, finish | a wait between admission and execution, four ways out | the latch is always released | `PowerRequest` |

### The consciousness

| Part | State | What makes it hard | Correct when | Module |
|---|---|---|---|---|
| Turn loop (`server/turn.rs`, `api/handlers.rs`, `backend/local/`) | claim, turn, cancellation, interjections, history | notes and hands arrive at any await; the pass after a turn runs on when the person may post again | turns never mix; what was said is kept and marked where cut; a hand ends the turn | `TurnLoop` |
| Delivery of a turn (`session_manager.rs`, `api/handlers.rs`) | journal, broadcast channel, engine channel | surfaces come and go; channels have capacities | all of it, once, in order, or told; nobody waits for ever | `TurnDelivery`, `TurnFollowing` |
| Compaction (`core/compact/`) | history | the cut must not part a call from its result | a valid shorter history | `Compaction` |
| The subconscious's thread (`session_manager.rs`, `core/conversation/store.rs`, `consciousness_engine.rs`) | thread in memory, file, record, save tasks | unordered saves, hydration across an await, two passes | memory and disk are one text | `SubThread` |
| Subconscious boxes (`core/subconscious/`) | pending, intrusive, ledger | two files per surfacing, writes that fail after happening | nothing queued is lost to a refusal or a stop between two files; the urgent surfaces first | `SubconsciousInbox` |
| Heartbeats (`core/nervous/cron.rs`, `handler.rs`, `pending.rs`) | schedules, bus, active sessions, stash | crash between saving and sending; sessions that are counted | each slot once; findings wait for the next session | `Heartbeats` |
| Logins (`bridge/claude_subscription.rs`) | credential files shared with `claude`, tokens in memory, active login | one-time refresh tokens, a second writer, lost answers | somebody always holds a token that works; a person's login stands | `Logins` |
| Secret service (`secrets/`, `bin/souveraine-secrets.rs`) | items in memory, the file, key wraps, D-Bus objects | calls on many threads that take the mutex twice, objects outside of it, writes that fail | what a caller was told survives a restart; every item opens, and is in reach | `SecretStore` |
| Summons (`server/summon_handler.rs`, `server/federation/bridge.rs`, `core/tools/agent.rs`) | `in_flight`, `inbound`, two buses, two links | loss on links, buses and restarts; pruning races answering | an answer or a timeout comes; a reply goes home once | `Summons` |

### The rest

| Part | State | What makes it hard |
|---|---|---|
| Agent inventory, device registry, energy (`server/`) | maps | little: one critical section each |
| Shell bridge (`SessiondBridge.qml`) | registered, needs-ack, retry timers | two scenes of one process |
| machined, gitea store, tools, sensorium, identity, prompt, configuration, interfaces, desktop, packaging | mostly none | I/O and text |

## How it works

The parts of sessiond talk through one `Mutex<Daemon>`. Requests arrive on a socket,
one handler thread per connection (`handle_connection`); a clock thread ticks
(`spawn_clock`); the idle and lock-hint watchers call in; a lock session has its
own thread (`lock::run`), and every release of a lock to the shell starts an ack
timer thread. All of them do the same: take the mutex, let the state machine
decide, drop the mutex, carry out the decided actions (`execute`), and take the
mutex again to report. Everything that may block happens without the mutex, so
each decision is separated from its effect by a window in which every other thread
runs. That is where the hazards are.

The consciousness is asynchronous tasks over concurrent maps. A message claims its
conversation and starts a turn; the turn's engine awaits a provider (through a
login), tools, and the channel its events leave by; the surface that posted drains
that channel, and others may follow the journal. After the reply a pass of the
subconscious runs on its own thread and queues thoughts, the next message drains the
urgent ones, heartbeats start turns nobody asked for, and a turn may summon another
being. Every await is a point at which the others run, and every file is read,
changed and written in separate steps.

In the modules, a section of code under a mutex, or between two awaits, is one
action; code that drops the mutex, or awaits, is two or more. `PROJECT.json` lists
each hazard at its line.

## Modules

| Module | Of | Checked through | Proved in |
|---|---|---|---|
| `AuthorityLease` | what others rely on: an exclusive, revocable lease | `SessionLock` implements it | |
| `SessionLock` | the lock authority | `MCAuthorities`, `MCSessionLock` | `SessionLockProofs` |
| `PanelAuthority` | panel rules, power button, watchers, executors of the panel | `MCAuthorities`, `MCPanelAuthority` | `PanelAuthorityProofs` |
| `DimRestore` | the dim warning and the brightness it gives back | `MCSmallParts`, `MCDimRestore` | `SessiondPartsProofs` |
| `SourceHealth` | staleness and outages of evidence | `MCSmallParts` | `SessiondPartsProofs` |
| `ProximityVeto` | proximity, Observed, the tap-to-wake veto | `MCSmallParts`, `MCProximityVeto` | `SessiondPartsProofs` |
| `PolicySettings` | `set_policy` and the policy file | `MCSmallParts` | `SessiondPartsProofs` |
| `ForensicTrail` | the trail's file | `MCSmallParts` | `SessiondPartsProofs` |
| `BearerPosture` | which link carries the traffic | `MCSmallParts` | `SessiondPartsProofs` |
| `PowerRequest` | power verbs | `MCSmallParts` | `SessiondPartsProofs` |
| `EventFanOut` | subscribers of the trail | `MCDelivery`, `MCEventFanOut` | `EventFanOutProofs` |
| `TurnFollowing` | what a follower of a turn is promised | `TurnDelivery` implements it | `TurnDeliveryProofs` |
| `TurnDelivery` | a turn's journal, channels and followers | `MCDelivery` | `TurnDeliveryProofs` |
| `TurnLoop` | a conversation's turns | `MCConversation` | `ConversationProofs` |
| `Compaction` | the five strategies | `MCConversation` | `ConversationProofs` |
| `Summons` | summons between two beings | `MCConversation` | `ConversationProofs` |
| `SubThread` | the subconscious's thread and its files | `MCRecords`, `MCSubThread` | `RecordsProofs` |
| `Logins` | logins of the subscription provider | `MCRecords`, `MCLogins` | `RecordsProofs` |
| `SecretStore` | the secret service's store, file and objects | `MCRecords` | `RecordsProofs` |
| `SubconsciousInbox` | the boxes of thoughts | `MCSmallParts` | `NervousProofs` |
| `Heartbeats` | schedules, background turns, the stash | `MCSmallParts` | `NervousProofs` |

The modules an MC module puts together share no variables: a behaviour of it is a
behaviour of one of them, chosen at the start. They are run together because the
questions are of one kind; the components that do interact are one module
(`SessionLock` holds handlers, lock sessions, timers and compositor; `PanelAuthority`
machine, executors, watchers and logind; `Heartbeats` sensor, handler, turns and
stash; `Summons` tool, bus, bridge and both handlers).

### sessiond

**`SessionLock`, `AuthorityLease`.** Who holds ext-session-lock, and who holds the
shell's lease. The variables follow `Daemon` (`phase`, `controller`, `gen` for
`heartbeat_gen`, `shellAlive`, `shellPid`, `directives`), the handler thread of
each connection (`conn`, `hb`, the reply it owes), the lock-session threads
(`thread`), the ack timers that are running, and the threads that have decided
to take the lock back and have not yet called `spawn_lock_session` (`spawners`).
`ReadyWhileHeld` is the half of `shell_ready` up to the condvar wait, `HandoffDone`
and `HandoffLate` its two ends. The compositor (`locked`, `owner`) and the shell
processes are external, as `sessiond` and the bridge use them: a second lock client
is refused while one is live, a dead client's lock may be adopted. `answered` is history: since
the shell died an attempt at the lock has ended without it, or a superseded scene has acked. The refinement
maps the lease's holder to the connection that carries the current generation.

**`PanelAuthority`.** The record `machine` is `DeviceStateMachine` restricted to the
panel: `locked` is `is_locked(state)`, `asked` is `blank_requested`, `pending` is
`pending_blank` ("due" once its deadline has passed), `idle` counts from
`idle_since`, `press`, `taps` and `latch` are the power button's recogniser and
`press_began_dark`. Each method of the machine is an operator from a machine to a
machine and a list of actions; `Decide` is any thread that calls one under the
mutex, and `todo` and `doing` are what it is then carrying out without it: `Execute`
takes the actions in order, `PanelOff` is the DPMS command, `Report` the second
section of `run_executor`. The lock-hint watcher has its start-up (read, then
attach) and its death; logind and the compositor are external. Whether a held or a
lying phone's budget applies is a free choice of two, as is whether a request for the
lock ends in sessiond's own session or in a directive to the shell. `overtaken` is history: an
unlock came while the panel was dark or being darkened, and neither light nor a lock since.

**`DimRestore`.** The same machine cut down to what moves the brightness, with the
hardware's level and the level the person chose. Dim is three steps (read, note, set)
and Restore two (take, set), of which only the middle and the first hold the mutex. Any thread
decides while others carry out; `astray` is history and says that one was about the brightness
while another was, or that setting it failed, since the person last chose.

**`SourceHealth`.** Per source: the flag it raised, its stamp, the health recorded
and the number of outages opened less those closed. A tick runs the staleness rule
and then the outage rules, in the code's order, on one state; `SetTTL` is `set_policy` giving
readings another time to live, below or above the time a source may be silent. `Flagged` are the
sources whose evidence is a flag that expires; `Expected` those the policy names.

**`ProximityVeto`.** `SensorInput` includes the handler's own write of the reading
(`server.rs:1624`) that comes before the machine's debounce. `Reconsider` is the rule
for Observed evaluated on every reading; `DoubleTap` is `note_input_gated`. `Recent` is its
queue, which forgets from the front. Two
variables are history: how long every reading has been near, and the ages of refused
taps.

**`EventFanOut`.** A connection's request is four steps (declare the intent, handle,
withdraw the intent, answer) and the push after it three kinds of step (take the list
and the batch, write one socket, put back). Every entry is notable and the ring never
wraps within the bound.

**`PolicySettings`.** A request names any subset of the settings; the ones it names are
assigned and checked in the code's order, a refusal leaves through the code's early
return, and an accepted request is saved, or not. `Restart` loads the file or falls
back to the defaults.

**`ForensicTrail`.** A line is the entries on it and whether its newline is there;
a hash is the number of the entry it is taken of. Writes may be refused or taken in
part, a stop may take half of the last line, and `Open` is the recovery: the file is
continued, cut off at the first damaged line, or moved aside. The properties know a line
by the number of the entry it begins with, and `LinesInOrder` says that the files hold
them in the order of these numbers, whichever of them a line is in.

**`BearerPosture`.** `BearerTick` is the clock's tick: probe if one is due, note the
candidate, decide after the settling window, and run the commands, which may fail.

**`PowerRequest`.** A caller is admitted under the mutex, asks logind and executes
without it, and finishes under it; `Tell` is every answer that leaves early.

### The consciousness

**`TurnLoop`.** `claim` is the session manager's claim on a conversation, `engine`
where the turn is, `signals` the hand and the notes (`TurnSignals`), `history` the
messages. A provider's answer is a sequence of pieces, a tool round, an empty answer or a
failure; `Peek` and `NothingWaits` are the two places at which notes are read, and the
pass after the turn (`n1`) is part of the engine's run. `Surfaces` chooses between
a turn started over HTTP and one started in the same process, which clean up
differently.

**`TurnDelivery`, `TurnFollowing`.** The engine's bounded channel, the one task that
drains it into journal, broadcast channel and the posting client, clients that go
away, and watchers that take journal and live channel in one step. The mapping
gives each follower what it has heard; `TurnFollowing` says it hears a beginning of
the turn, then all of it, or is told it fell behind.

**`Compaction`.** Messages keep what the strategies look at. A plan is the set of the
positions it keeps (`keep_indices`), and `Kept` carries it out. `AdjustCutoff` is
`adjust_cutoff_for_tool_pair` with its walk of at most eight; slices whose ends have
crossed set `panicked`. A call and its results are added in one step, and every call is of a
tool whose results may be cleared (seven are, `COMPACTABLE_TOOLS`).

**`SubThread`.** `pass` follows a pass from finding the thread to its last
`add_message`; each `add_message` puts a task with a copy into `saves`, whose four steps
(open and truncate, write, record, rewrite) interleave freely; two that overlap may leave a
record that does not parse. A stop keeps only `file` and `record`.

**`SubconsciousInbox`.** Read, change and write of each file are separate steps; a
refused write happens or not, and the pass cannot tell. A file that is being written is
cut short first: one who reads it then, and a server that stops then, leaves or finds it
empty (`Cut`). Thoughts are noticed without end: a name is used again once nothing is left
of its last observation. `queued`, `recorded` and `dropped` are history. `mark_delivered`
reads its boxes at one instant here, and a box torn so that a beginning of it still parses
is not distinguished from an empty one.

**`Heartbeats`.** The sensor's loop (wait for an idle agent, advance, persist, send), the
bus that drops its oldest event, the handler's background turn counted in
`active_sessions`, its surfacings appended to the stash, and a session that takes them.
`CountOff` is what the task does after its turn, and does not when the turn panics.

**`Logins`.** A pair of tokens is a number in the order of issue at its file: that the
access token still works (`ended`), is inside the refresh window (`ending`), that the
refresh token is unused (`unspent`) and as whom it speaks (`owner`) are properties of
the number. `disk` is the credential file, `held` the copy in memory, `mutex` the async
mutex, which a refresh keeps across its request to the endpoint. `TakeToken` is
`current_access_token`, `Compares` and `Renames` the two halves of
`write_back_credentials`, `Rotate` and `Tries` `rotate_account`. `claude` and the person
at it are external: a refresh of theirs, a login as somebody else, a file that is
absent or half written for a moment. `lost` marks the files at which the code cannot
know: an answer that never arrived, a write that failed, a change between the
comparison and the rename, until the person's next login is written there.

**`Summons`.** `ears` and `line` are what each side's listener and bridge have yet to
read of its bus. The tool's event reaches both (`Summon`, `Register`, `Carry`); the
peer accepts, refuses or fails to write it (`PeerHears`), its agent may answer
(`Replies`) and the outbox is scanned (`ScanOutbox`). A response is found, and only
then taken out and written (`Found`, `Lands`); pruning makes a list and takes out and
writes one after the other (`Prune`, `PruneTakes`, `PruneWrites`). Links break and lose
what waits, readers lag and lose their oldest event, either side restarts with empty
maps.

**`SecretStore`.** `kept` is `SecretStore.file`, `saved` the file, `objects` what the object
server knows, `toServe` what start-up has yet to register after it has claimed the name. A
call is its sections under the mutex (`CreateItem` searches, `CreateStores` sets;
`SetSecret`, `Describe`, `DeleteItem`) and what it does to the object server afterwards.
`promised` is what callers were last told, `astray` the items that calls wrote without
giving them an object; both are history. A persisted file is replaced as a whole, so a
stop inside `persist` is a write that fails, and then a stop.

## Runs

A run's properties ending in `Inv` are conjunctions, one line per question they ask.

| Run | Property | Says |
|---|---|---|
| `authorities` | `LeaseOwned` | `LeaseBacked`: the shell is alive exactly while one open connection carries the current generation; `GenerationsDistinct`: one EOF at most ends a lease |
| | `ControllerTrue` | `ControllerExact`, `HoldingIsReal`: no two lock sessions, no phantom one |
| | `DeadShellCovered` | a shell that died is covered by a lock session, one on its way or its ack timer, until one attempt has ended without the lock (which sessiond does not repeat by itself) or a superseded scene has acked |
| | `HandoffAfterRelease` | the shell is told to lock only once sessiond's client is gone |
| | `LeaseSpec` | the authority implements `AuthorityLease` |
| | `PanelInv` | `DarkIsLocked`: nobody darkens an unlocked session; a panel is dark over one only where the unlock came after the actuator had asked logind, with failing executors, lost LockedHint edges, a monitor that dies and unlocks at any moment |
| | `DarkPressWakes` | a power press that began in the dark ends as a wake although somebody else lit the panel first |
| `session_lock_live` | `DeadShellAnswered` | a shell that goes away is answered without anybody asking: a lock session starts, one has ended without the lock, or a shell is back, with every fault |
| `panel_live` | `NoEndlessWait` | `PendingResolved`, `LockedIdleGoesDark`: a blank waiting for its lock is resolved; a locked screen nobody touches goes dark, also after the lock-hint monitor died |
| `small_parts` | `HealthInv`, `SilenceNoticed` | outages are paired and never false, told twice only where a reading was let live longer than its source; an expected source's silence is noticed; both while `set_policy` changes the time to live |
| | `ProximityInv`, `ObservedKept`, `DeadSensorReleases` | an insisting person is let in (that a pocket is kept out is not a property here); Observed lasts its dwell and ends; a dead sensor stops vetoing |
| | `PolicyInv` | what is on file is sane, and an ok survives a restart |
| | `DimInv` | at rest the person's level, or the floor's, is on the panel or remembered, unless two were about the brightness at once or a command failed since the person last chose |
| | `TrailInv`, `RestartKeeps` | links follow each other and numbers rise across torn writes, rotations and restarts; a restart keeps every line before the first damaged one |
| | `PowerInv` | the latch is up exactly while one caller's request is under way |
| | `SettledOnly`, `BearerFollows` | a link is preferred only after a whole settling window; one that stays better is preferred in the end, and from then on |
| | `InboxInv`, `UrgentServed` | no refusal or stop between two files loses a thought; an urgent one surfaces before any lesser one in a box nobody is writing, and in the end unless new ones as urgent never stop |
| | `BeatInv`, `SlotsServed` | what was stashed waits or was shown; each slot of a schedule is fired once, and one that is due is fired unless some turn is under way again by then |
| `conversation` | `TurnsApart` | a reply follows the message it answers, a surfacing the reply it is about |
| | `AnswersInv` | what was said in a committed turn is in the history, marked where it was cut |
| | `NotesHeard` | notes accepted before the last look are read |
| | `TurnsEnd` | a hand ends the turn though the provider never answers; otherwise an answering provider is enough |
| | `MessagesInv`, `PairsHold` | compactions keep first, order and latest; calls and results stay together below the walk-back's reach |
| | `SummonInv` | a summons is always somewhere or has its file; a reply is sent home once; a timeout comes after a minute |
| | `SummonsSurface` | an answer or a timeout comes, whatever links and peer do |
| `delivery` | `DeliveryInv`, `LabelsLive` | a subscriber's socket is in one hand, entries are heard in order and none from before the subscription burst; an entry carries an intent only while the request that declared it is being handled (it may be another's entry) |
| | `HearsItAll` | whoever follows a turn hears all of it once, in order, or is told (refinement of `TurnFollowing`) |
| | `DeliveryEnds` | no follower and no turn waits for ever |
| `records` | `ThreadInv` | a thread says nothing twice or out of order; unordered saves never leave a torn file, and the file is a beginning of what is in memory |
| | `LoginInv` | `LoginKept`: somebody holds a refresh token that works; `PersonStands`: a file never goes back to a login the person has left |
| | `SecretInv` | `PromisesKept`: what a caller was told of an item is on file; `SealsOpen`: either wrap's key opens every item; `ItemsServed`: an item without an object awaits one, or came of a failed call or after its deletion |
| `proximity_debounce`, `fan_out_all`, `dim_double`, `sub_thread_saved`, `logins_retry` | `NearIsDebounced`, `AllHear`, `NoDoubleSave`, `SavedAtRest`, `RetryLoopReturns` | refuted, see [findings](#findings) |

No passing run checks for deadlock: each bounded model has an end (clocks, counters
and conversations stop at their bounds, a shell may stay away, a completion may not be
asked for). That something happens is what the liveness properties are for.

## Bounds

- `authorities`: two connections, two processes, two lock threads, `MaxGen = 2`
  registrations. Two are what a supersession, a stale EOF, a stale timer and a
  handoff during a handoff need. All faults are on, and unlocks come at any moment. The panel's budgets have
  run out as soon as it is quiet (`BlankAfter = MaxIdle = 0`: for safety, when a budget runs out
  is any moment anyway; `panel_live` has budgets of one unit), `MaxNews = 1` event in flight per
  watcher, one handler besides the clock and two watchers, so every pair of threads
  that may overlap does. Connections, processes and threads are interchangeable, and
  no liveness is checked here: the run uses their symmetry. Its `VIEW` forgets which
  answer a shell got and keeps whether the answer owes a lock, which is all that any
  guard asks of it later.
- `session_lock_live`: the same module with one process and one lock thread, without
  symmetry and with every fault on. `panel_live`: without the faults under which the property
  is not promised (see [divergences](#divergences)), and without unlocks in the dark, which
  end what the property waits for (it holds with them too; the run is then half as long again).
- `small_parts`: thresholds a unit apart and clocks that saturate one past the last, since a
  comparison has only "before", "at" and "after"; a time to live below a source's and one
  above it; two user levels, one under the floor and one above it;
  two durations per setting and `MaxNamed = 2` settings in one request, which is what
  "assigned, then refused by the other" needs; four trail entries over files of two lines with
  one rotated file kept and two stops; a settling window of two; two callers and two verbs;
  one pass at a time over two names of thoughts, noticed again and again, and a heartbeat, with
  a box of two and a ledger of one that refuse, and one stop (passes that overlap are in the
  proofs, for any number); two schedules, two beats, two turns of sessions, one panic, a bus of
  one and one crash.
- `conversation`: two messages, one note, answers of two pieces, a peek after every round; an
  eight-message history around a window of two with a walk-back of two and calls of up
  to three results, one more than the walk reaches; two summons and one fault.
- `delivery`: two connections and the clock with entries below `MaxSeq = 3`, which is what a
  push overtaken by another needs; two turns of two events over channels of one and two, a
  client and a watcher.
- `records`: two overlapping passes, an earlier one, two threads, one stop; two files, two
  completions of two attempts (the code's `max_attempts` is four: the second is
  the last, and a longer run repeats what is between), three pairs at the first file,
  which a refresh and a login of somebody else need, and none but the first at the
  second, whose refresh would only repeat the first's. A login whose granted
  pair was lost on its way is not followed (`Followed`): until the person logs in again
  the properties promise nothing of it. The secrets have two items, two secrets, two calls,
  two store keys (a file that was empty is opened twice), one failed write and any
  number of restarts. Two secrets tell an overwrite that was lost from one
  that was written; all attributes are alike there, so that a
  search finds everything. Callers are interchangeable, and so are secrets.

## Fairness

Threads, tasks, sleeps and the passing of time are fair; people, providers, peers, links,
logind and `claude` are not, unless a property says so itself.

- `SessionLock`: lock-session threads, handler threads inside a section, ack timers and
  the compositor's noticing of a dead client (`Fairness`). No shell is obliged to start,
  answer, ack or die.
- `PanelAuthority`: the clock ticks, watchers read, executors return and time passes, per
  thread (`PanelFairness`).
- `SourceHealth`, `ProximityVeto`, `BearerPosture`: the clock's tick and time. `ObservedEnds` and
  `BearerFollows` state as their own premise that the sensor keeps reporting, or a link
  stays better.
- `SubconsciousInbox`: passes run; strong fairness of the two writes says that a box or a
  ledger does not refuse for ever. That new thoughts as urgent may come for ever, and before
  an older one for ever, is part of the property (see [divergences](#divergences)). Without fair
  writes a thought that cannot be recorded is
  surfaced again and again, which is what the code does.
- `Heartbeats`: the sensor's own task only. No turn need end, one that panics is never
  counted off, and the sensor may miss the moments between two turns (weak fairness of
  `Wake`): the property lets a slot wait while there are sessions.
- `TurnLoop`: the engine's own steps (`Code`). The provider is fair only in the premise of
  `TurnEnds`; `HandEnds` needs it not.
- `TurnDelivery`: the draining task, the engine's return, and each surface that is
  connected reads or goes; a surface that stays and does not read blocks the turn (see
  [divergences](#divergences)).
- `Summons`: the caller's listener and pruner run and the minute passes.

## Proofs

Proved by TLAPS for every value of the constants, with no bound on connections, threads,
handlers, sources, callers, turns, notes, summons, logins or secrets. The listed theorems
are in `PROJECT.json`. Every invariant of the passing runs is proved; what a
theorem assumes besides the modules' own `ASSUME`s stands in its statement, and below.

- `SessionLockProofs`: `TypeCorrect`, `LeaseSafe`, `GenerationsSafe`, `LeaseOwnedAlways`,
  `ControllerSafe`, `HoldingSafe`, `ControllerTrueAlways`, `HandoffSafe`, `DeadShellSafe`,
  `LeaseImplemented`. The invariant relates every connection's `hb` to `gen` (no open
  connection is ahead of the counter, no two are equal), the controller to the one running
  thread, and each running thread's stage to the compositor's owner. `LeaseBacked` alone is
  not inductive, because a registration is only safe if no other connection already
  carries the next generation; that is what `LeaseInv` adds, and `ThreadInv` does the same
  for the lock-session threads. `DeadShellSafe` holds with all faults: its
  history variable `answered` is set by an attempt that ends without the lock, and by a
  superseded scene's ack, and by nothing else.
  `LeaseImplemented` is the refinement of `AuthorityLease`.
- `PanelAuthorityProofs`: `TypeCorrect`, `DarkSafe` and `PanelSafe`, for any faults of
  the executors and watchers and unlocks at any moment, with the invariant that while a thread
  is past the actuator's question the session is locked or an unlock has overtaken it
  (`overtaken`), and `DarkPressSafe` from the type invariant
  and the power latch.
- `EventFanOutProofs`: `SocketsHeldOnce`, `EntriesHeardInOrder`, `NoBurstOfOldNews`,
  `LabelsAreLive`. Sockets are partitioned among the list and the threads' hands
  (`PlaceInv`). Order is about the cursor: what is in any hand's batch lies behind it and
  later than everything the sockets in that hand have had, whatever other threads push
  meanwhile, because they have other sockets. A label is alive because the intent that
  stands is that of a request between its two critical sections.
- `TurnDeliveryProofs`: `TurnTypes`, `FollowersHearItAll` and `DeliveryKept`. The refinement
  of `TurnFollowing` maps every step to a step or a stutter. `FollowInv` says that what a
  follower has heard, has yet to replay and has yet to receive is the turn's log, unless it
  has lagged, and that a client's box, the task's hand and the channel hold the rest of it
  in order. `DeliveryKept` joins it with the four of the fan-out.
- `SessiondPartsProofs`, one part per module:
  - source health: `SourcesTyped`, `OutagesPairedAlways`, `NoFalseAlarms`,
    `StaleFlagsAlwaysFall`, `HealthSafe`. Pairing needs the invariant that a source called
    down keeps its stamp and has no raised flag, and one called absent has no stamp;
    otherwise a flag that expires after the outage opens a second one. That happens only once
    readings were let live longer than sources (`reversed`), and then once per silence: absent
    becomes nothing else but live;
  - the policy: `PolicyTyped`, `PolicySavedSane`, `PolicyOkSurvives`, `PolicySafe`. A file is
    only ever the policy at the moment of an accepted request, and a loaded policy is that
    file or the defaults; the answer is forgotten by the next request;
  - the bearer: `BearerTyped`, `BearerSettled`. The invariant says how the history of what was
    preferred at each tick ends: in as many ticks of the candidate as its clock has run;
  - power: `PowerTyped`, `LatchSafe`, `PowerSafe`. `LatchOwned` is inductive;
  - proximity: `InsistenceWins`, `ObservedStays`. The machine's queue of refusals is not the
    history of refusals: it is emptied by a burst and forgets from the front. `Counted` says
    that for each age within the window the queue holds no fewer of that age or younger
    than there were; since a tap is refused only while the queue is shorter than a burst,
    neither were there more;
  - the dim: `LevelComesBack`, for threads that decide and carry out as they like and commands
    that fail. The level is lost where two are about the brightness at once or setting it
    fails (see [findings](#findings)), and `astray` marks those moments only, until the person
    chooses again. `LightInv` says that otherwise one worker at most is about the brightness
    and names the situations it can be in, from the
    warning's capture to the return; in each of them the level is on the panel, in
    `saved`, or in the worker's hand;
  - the trail: `TrailKept`, `RestartsKeep`. The lines that are kept are a set in the order of
    their numbers, to which a write adds at the end, and from which a stop, a cut and a
    rotation take at either end (`Trimmed`): nothing comes between two lines that were
    neighbours. What is written is a link because the writer's hash is that of the last
    line, if that one is whole, and its number is above all of the chain that goes on
    (`ChainGoesOn`); what is glued to a line without its newline can no longer be read. A
    start writes one beginning that can be read (`StartsCounted`), so chains are no more
    than starts.
- `NervousProofs`: `BeatsKept`, `SlotsSentOnce`, `InboxTypes`, `ThoughtsKept`,
  `MostUrgentFirst`. `Behind` says that
  a slot that was sent, or is about to be, lies before its schedule's next run in memory
  and on disk, unless its advance could not be saved; `TakenInv` that what a session is about to
  show has everything stashed that was neither shown nor lost. `ThoughtsKept` is for any
  number of passes: what a box holds and a writer has not read goes to `dropped` with the
  write, so that every thought a write takes out was dropped or recorded first. The
  part that says `dropped` stays empty needs more: with one pass, what it has read is still
  what the boxes hold when it writes. `MostUrgentFirst` needs no such thing: a stale copy that is written back is still of the urgencies of its box
  (`SortedInv`), and of these `pick_top` takes the highest (`TopIsThere`).
- `ConversationProofs`: `TurnsStayApart`, `AnswersKept`, `NotesAreHeard`, `SummonsKept`,
  `MessagesKept`, `PairsKeptTogether`.
  `TurnsApart` looks at neighbours in the history; its invariant adds what the last message
  is while the engine is at each place, and that nobody else may append there while a
  claim is held or a pass runs on. `AnswerInv` accounts for what was said: it is what is
  carried until the final answer, then a prefix of it and the pieces so far (`Accounted`); that
  the turn ends at all costs each answer an aside or a note (`Spent`); and no note accepted
  in time waits behind a turn that ends of itself (`QuietEnd`). A summons' reply is routed
  home once because its one ticket is in one place, if any: the request on its way or
  heard, the peer's knowledge of whom to answer, or the reply on its way or home
  (`OneTicket`). What a compaction keeps is the old history at rising positions
  (`Within`), among them the first. Neither property is inductive: a slide tears
  no pair because a call that is there has all its results (`Answered`), with nothing
  else between it and the last of them (`Between`), so that the walk back comes to
  the call unless it has gone as far as it may; and a result without its call, which
  a summary leaves behind, has lost with it all that was before it but the first message
  (`CutBefore`), without which a later slide could be stopped by such a result
  short of its own call. `LatestKept` counts the results behind a cleared one. The
  limits are any numbers: `MaxWalkBack`, `KeepRecent` and `PreserveRecent` may be 0.
- `RecordsProofs`: `LoginsKept`, `SecretsKept`, `ThreadsKept`. The invariant of the logins says where the one
  working pair of a file can be (`Somewhere`: with `claude`, on file, or granted for what is
  on file) and that nobody else has it (`Waiting`, `Grant`), for the files at which no answer
  was lost (`lost`). The invariant of the secrets says that memory and file, each in its own
  state, agree with what callers were told, and that an id that was not stored yet is
  known to nobody but the call that is creating it. `ThreadInv` speaks of memory and of
  files, but what a file will say is on its way in the copies that tasks save, and what memory
  will say in what passes have read; so the invariant is about all of them. Every copy
  says only what may have been said by now (`CopiesOrderly`), each thing once and an answer
  after its exchange; what may have been said (`MaySay`) only grows as passes go on, so a
  copy may wait, and what a pass says next is in no copy yet. Where nobody has compacted
  the thread there is one text: all copies are beginnings of what is in memory, two
  overlaid writes leave the longer one, and what was read from a file to be put in memory
  is still what the file says (`OneText`), since nothing saves a thread that is not in memory
  (`AtWork`).

Constants are assumed to be what the code makes of them: bounds are natural numbers, times
and capacities positive, what stands for nobody or nothing is none of the values
(`StoreConstants`, `FanOutConstants`, `ThreadConstants`), and a trail begins below its bound
(`FirstSeq < MaxSeq`).

Only model-checked: all liveness, which is out of the prover's reach
(`DeadShellAnswered`, `PendingResolved`, `LockedIdleGoesDark`, `SilenceNoticed`,
`DeadSensorReleases`, `ObservedEnds`, `BearerFollows`, `UrgentHeard`, `HeartbeatComes`, `TurnsEnd`,
`DeliveryEnds`, `SummonsSurface`).

## Findings

What a run refutes, each against the repository's own words (quoted in `PROJECT.json`):

1. `AllHear` (`server.rs:1351`): `fan_out` takes the subscriber list out while writing;
   another thread that pushes meanwhile finds nobody, moves the cursor to the head, and
   its entries reach nobody.
2. `NearIsDebounced` (`server.rs:1624`): `sensor_input` stores the reading in the evidence
   before the debounce compares the reading with that evidence, so one near sample is
   believed at once.
3. `NoDoubleSave` (`server.rs:364`): input between the decision to dim and its carrying out
   lets the restore overtake the dim; the panel stays at 4 % and the next warning saves
   that as the person's level.
4. `SavedAtRest` (`session_manager.rs:194`): save tasks are not ordered, and the copy without
   the last message may be the last one written.
5. `RetryLoopReturns` (`claude_subscription.rs:557`): the last attempt may find its login spent,
   move to another and continue; there is no attempt left, and `unreachable!` is reached.

## Divergences

Met while modelling; they are not kept as runs here. The formula, where there is one,
is refuted by TLC on these modules.

### sessiond

| Where | What the code does | Formula |
|---|---|---|
| `server.rs:916` | a lock session that fails on its way leaves the phase idle and nobody with the lock, and is not tried again until the next request or EOF: a dead shell may stay uncovered, although the protocol has sessiond take the lock back on EOF at any point (`protocol.rs:20-21`) | `DeadShellCovered` with `answered` only where another client has the lock |
| `server.rs:939` | the ack timer only acts for its own generation; a registration during the handoff disarms it and no other is armed (protocol.rs step 4) | `phase = "awaiting_shell_lock" ~> phase # "awaiting_shell_lock"` |
| `server.rs:1332` | the retake after an EOF is tried once and can lose to the dying shell's own lock | `~shellAlive /\ gen > 0 /\ locked /\ owner = NoOne => controller # NoOne \/ spawners # {} \/ gen \in timers` |
| `server.rs:1548` | `locked_ack` asks whether the connection ever registered, not whether its generation is current: a superseded scene can confirm a lock the new one has not taken | `DeadShellCovered` without its `answered` |
| `server.rs:502` | a due blank whose lock never came is refused by the actuator, which asks logind, and not retried until input. `device_state.rs:202-211` and `2009-2025` and `lockhint.rs:214-217` and `252-256` say that such a panel goes dark unlocked: these comments are older than the refusal | `(machine.pending = "due" /\ ~hint) ~> (~lit \/ hint \/ (machine.pending = "none" /\ ~machine.asked))` |
| `server.rs:975` | a late report of darkness overwrites the wake after it | all threads free `=> machine.panelOn = lit` |
| `device_state.rs:2783` | a wake without input starts no budget under a quiet compositor | `<>[](quiet /\ lit /\ machine.panelOn /\ machine.idle = NoIdle) => []<>` a handler step |
| `server.rs:502` | the session may be unlocked between logind's answer and the DPMS command | `[][lit /\ ~lit' => hint]_panelVars`, with `UnlockRaces` |
| `lockhint.rs:281` | an edge between the first read and the monitor is lost (`WatcherFaults`) | watcher at rest `=> last = hint` |
| `idle.rs:173` | the compositor restarts: the watcher reconnects, and no resumed is delivered for the idled it had | |
| `device_state.rs:2246` | an expired flag takes the stamp the outage rule measures from, so the source is never Down; an expected one is called Absent instead | `[][Tick => \A s \in spoken : silence[s] > DownAfter => health'[s] = "down"]_vars` |
| `device_state.rs:2268` | with `evidence_ttl > source_down_after`, Down becomes Absent without a report, and one silence is told twice, although "One entry per outage edge" (`device_state.rs:2294`) | `OutagesPaired` without its last line |
| `device_state.rs:2580` | an allowed double tap does not clear earlier refusals | `[][DoubleTap /\ taps' = <<>> => refusals' = <<>>]_proximityVars` |
| `server.rs:1979` | a new subscriber may hear an entry from before it subscribed | `inbox[c][i] >= attach[c]` |
| `server.rs:1318` | another thread's push may precede the answer to the request that caused it | own entries not heard before the answer |
| `server.rs:1376` | a line and its newline are two writes on clones of one socket: an answer may land between them | |
| `server.rs:1299` | intent is one shared field: overlapping requests mislabel each other's entries | `Entry(n).intent` is its author's |
| `device_state.rs:1900` | a tap in the dark restores with nothing captured, so the floor raises a panel run deliberately dark | `doing[w].at # "undim"` without a failed capture |
| `server.rs:381` | a restore consumes the captured level before the command has succeeded | `AtRest /\ ~dimmer.dimmed => level # DimLevel`, with `SetFails` |
| `server.rs:1921` | a refused `set_policy` leaves what it named before the check in force | `[][told' = "refused" => policy' = policy]_policyVars` |
| `server.rs:1920` | `dim_grace` is checked against one of three budgets | `policy.grace < policy.held` after an ok |
| `device_state.rs:1269` | a write that lacks only its newline counts as refused although the line parses; the next entry is glued to it and both are lost at the next start | `Ended` dropped from `ChainUnbroken` |
| `device_state.rs:1269` | a tear in the middle makes the next start move aside intact lines after it; a stop between a rotation and its first line starts a new chain at 0; numbers of a lost tail are used again | |
| `server.rs`, `apply_link_preference` | the posture counts as applied before its commands have run, and a failed command is not tried again; a tunnel that is switched on later is not pinned | |

### The consciousness

| Where | What the code does |
|---|---|
| `server/turn.rs` | an answer cut at its length (`length`) was streamed and is not kept; a provider that fails in a later round drops the text and the tool blocks carried so far |
| `server/turn.rs` | a hand accepted on the previous turn's signals, before the new ones are installed, is overwritten; a hand raised in the pass after the reply is not raced against it while the conversation still answers 409 |
| `server/turn.rs` | `max_tool_rounds` is only ever compared with 0; what was carried is committed twice when a hand ends a reopened turn |
| `api/handlers.rs:538` | the signals go with the turn, and a note in their queue with them, although `handlers.rs:687` says it waits |
| `api/handlers.rs` | a client that stays connected and does not read blocks the drain, and with it the turn |
| `core/compact/strategy.rs:463` | the walk-back ends after eight results: a call with more is parted from some, although `config.rs:131` says never |
| `core/compact/strategy.rs` | a summary parts pairs, after which a slide's slice can have its ends crossed and panic |
| `core/subconscious/mod.rs:323` | `pick_top` takes the last of equals: one new urgent thought per pass keeps an older one waiting for ever, and a quiet pass's heartbeats, always the latest, a low one (`UrgentHeard` without `NewAsUrgent`) |
| `core/subconscious/mod.rs` | two overlapping passes, or a drain during one, lose a thought, and so does a stop while a box is being written: a box that does not parse is emptied at the next start (`dropped = {}` with two `Inboxers`, or after a stop) |
| `server/session_manager.rs:346` | hydration overwrites a thread another task loaded and extended meanwhile; two first passes create two threads |
| `core/compact/mod.rs:326` | the compacted history is not saved until the next message is |
| `core/conversation/store.rs` | a record torn by a stop, or left with the end of a longer one by two saves that overlap (`store.rs:149-153` tells of one), loses the whole thread |
| `backend/local/consciousness.rs:12` | "by the time we get here the agent is idle" holds when the event was sent, not when the turn starts |
| `core/nervous/pending.rs:79` | "a half-written line loses that one entry, never the rest": the entry appended after it is glued to it and lost too; an append between `take`'s read and its remove is deleted |
| `core/nervous/cron.rs` | a `Once` entry never fires; while something is due and a session active the loop has no sleep of its own to rest on |
| `backend/local/mod.rs:361` | a turn task that panics is not counted off, and the heartbeats wait for ever (`HeartbeatComes` without `~Idle`) |
| `bridge/claude_subscription.rs:733` | "continuing in-memory" after a failed write-back: the next call adopts the file, with the pair that is spent |
| `bridge/claude_subscription.rs:685` | a hand raised during a refresh drops the future, and with it the answer that held the only unused refresh token; so does a lost response |
| `bridge/claude_subscription.rs:848` | comparison and rename are two steps; `claude` may write between them and be overwritten. A file without tokens passes the comparison: a logged-out login is written back |
| `bridge/claude_subscription.rs:357` | a 401 for a token that was replaced meanwhile parks the slot's fresh one; `resumes_at_ms` stays when another account logs in; "until then the login is not tried" (140) does not hold of the active one when no other is available |
| `bridge/claude_subscription.rs:600` | the error's excerpt is cut at a byte, not a character |
| `server/summon_handler.rs:588` | an answer later than a minute is dropped, although the tool says "the answer will surface ... when it lands" (`core/tools/agent.rs:200`) |
| `server/summon_handler.rs:349` | the listener lets go of the map before it takes the summons out, and the pruner may take it between: both write the one file, and a timeout may overwrite the answer |
| `server/summon_handler.rs:300` | a refusal carries its text as `reason`, and the inbox is written from `result` |
| `server/summon_handler.rs:176` | a reply may be read while the agent is still writing it |
| `server/summon_handler.rs:46` | what is in flight is in memory only: after a restart of the caller neither answer nor timeout comes (`gone` in `SummonsSurface`) |
| `secrets/item.rs:104` | `set_secret` does not ask whether the item is still there: after a deletion it stores it again, without label, attributes or object |
| `secrets/collection.rs:84` | `create_item` with `replace` searches and stores in two sections: two callers make two items of the same attributes, or one stores an item the other deleted. One that replaces an item without an object does not give it one |
| `secrets/store.rs:264` | a call that failed to write has changed memory; the next one that succeeds writes the change after all. `set_label` and `set_attributes` report no failure |
| `bin/souveraine-secrets.rs:90` | "a client whose call races our startup finds the objects already there": those of the items are registered after the name is claimed (`serving = "named" => Stored \subseteq objects`) |
| `server/listener.rs` | `while let Ok` ends the wake watcher when it lags once |

## Plan

Done, in this order: `SessionLock`, `PanelAuthority`, `DimRestore`, `SourceHealth`,
`ProximityVeto`, `EventFanOut`, `PolicySettings`; `ForensicTrail`, `BearerPosture`,
`PowerRequest`; `TurnLoop`, `TurnDelivery`, `Compaction`, `SubThread`, `SubconsciousInbox`,
`Heartbeats`; `Logins`, `Summons`, `SecretStore`.

Next:

1. The openai provider's OAuth refresh (`bridge/oauth/refresh.rs`), against the promise that
   `LoginKept` states for the subscription.
2. Restarts in `Logins`, and a third being in `Summons`.
3. The idle watcher's reconnection, and the gesture recognisers of all buttons.
4. Proofs: every safety property of the passing runs has one; what is modelled next comes
   with its own.

## Not modelled

Drawing (`draw.rs`), wire encoding, the HTTP and D-Bus surfaces, the model providers'
protocols, tools, prompt and memory text, the terminal and QML interfaces, packaging: no state
whose interleavings matter, or pure I/O. Who may summon whom is a signature and a list.
Registries (inventory, devices, energy) hold what the last call put there. machined signs
and keeps nothing. Bytes within one socket write, the ring's 1000 entries and the notability
filter are below `EventFanOut`'s grain. Belief decay is floating point. A power
failure that undoes a rename is not distinguished from a stop before it. Most of the
repository's lines are these parts, so the share of it that the modules stand for is small;
`PROJECT.json` gives each component's status and reason.
