# Termarc: a verification project

Termarc is a desktop terminal (Tauri: a Rust backend, a Vue frontend in one or
more windows) in which coding agents run as terminals and may start *subagents*,
child terminals the agent names, watches, stops and takes results from through
the command line. These TLA+ modules model the parts of it in which several
threads, windows and processes have to agree; TLC checks them on small
instances, and TLAPS proves their safety for all instances.
Paths below are relative to the repository root.

## 1. Inventory

| Component (source) | State | Operations | Talks to |
|---|---|---|---|
| Subagent registry (`src-tauri/src/subagents/registry.rs`, `runtime.rs`, `model.rs`) | top-level terminals per window, reservations, records with their input and stop handlers, one mutex, one condition variable | reserve, acknowledge, finish, roll back, attach, detach, Pi state, progress, result, clear, stop, wait, exited, failed, shutdown, list, output | called by everything below; calls the stop handlers of the PTY layer outside its lock |
| Output history (`subagents/output.rs`) | bounded byte buffers with cursors, escape stripper | append, read | registry |
| Spawn router (`src-tauri/src/spawn_router.rs`) | none of its own: one channel per reservation | route (emit, wait five seconds, finish or roll back), close, acknowledge | registry, events to windows |
| Frontend spawn service (`src/services/subagentSpawns.ts`) | the tab of each request, queue of registrations | answer a spawn event, answer a close event, register terminals | spawn router, terminal tabs |
| PTY sessions (`src-tauri/src/pty.rs`) | map of sessions with input queue and killer; a reader and a waiter thread each | start, input, resize, stop, reap, stop for a window, shut down | registry (attach, output, exited, failed, stop) |
| Terminal tabs (`src/composables/useTerminalTabs.ts`, `src/terminal/terminalStart.ts`) | tabs with status, generation, timers | open, start, stop, restart, auto-restart, close | PTY sessions |
| Workspace router (`src-tauri/src/workspace_router.rs`) | snapshot per window, pending entry per request, one mutex | route, register, acknowledge, unregister window | events to windows |
| Workspace control service (`src/services/workspaceControl.ts`) | none | perform a request, acknowledge it | workspace router, tabs, projects |
| Control server (`src-tauri/src/control/`) | sixteen workers, a counter of connections, socket, shutdown flags | accept, read, dispatch, answer, shut down | registry, routers |
| Application (`src-tauri/src/lib.rs`, `windows.rs`) | windows | window destroyed, exit | PTY sessions, routers |
| Pi extension (`extensions/pi/termarc/`) | ledger of notifications in the session file, claims in the Pi process, watcher tasks | spawn, list, watch, reconcile, notify, shut down, report, clear | control server through the command line |
| Project store (`src-tauri/src/projects.rs`, `project_local_config.rs`, `src/composables/useProjects.ts`) | two JSON files, a write lock, the window's copy, a queue of saves | load, save, reorder, save or remove one agent | file system |
| Command line (`src-tauri/src/cli.rs`, `control/client.rs`) | none | parse, ask, page, follow, change projects | control server, project files |
| Refresh loops, desktop integration, installers, user interface | local | | |

How they meet. A CLI process connects to the control server; a worker thread
runs `route`, `stop` or `wait`. `route` reserves an id in the registry, emits an
event to the window that hosts the parent, and sleeps on a channel. The window's
script opens a tab and calls `start_pty`, which spawns the child, stores a
session, and attaches the child's handlers to the registry; the script then
acknowledges, which wakes `route`. Meanwhile the user may close the tab or the
window, the child may exit, a client may stop it, the five seconds may pass, the
application may end. The child's output goes through the reader thread into the
record, its end through the waiter thread. The Pi extension of the parent waits
for its end through the command line and tells the parent's session. Workspace
requests take the way of a spawn without the child.

### What is hard, and what is right

- *Registry.* `stop` leaves its critical section to call a handler; attach,
  detach, rollback and shutdown race; retention prunes inside nearly every
  operation; results come from separate processes with retries; waits poll. It
  is right when a terminal id names one thing, a stop is never lost nor doubled,
  handlers are released exactly at the end of a child, rollbacks are complete,
  running records are never pruned, results never regress, history is final,
  waits do not hang: in short, when every subagent lives the life
  `SubagentLifecycle` describes.
- *Listings and output.* A client reads in many requests what changes between
  them. Right when nothing is skipped or repeated unsaid.
- *Spawn.* The router, the script, the PTY layer and the event loop each hold a
  part of one spawn. It is right when no live child is out of everybody's reach,
  both sides agree about success, a failed spawn and a destroyed window leave no
  child, every route returns.
- *Workspace router.* The lock, the one-slot channel and the timeout interact;
  router and script read a request's fields in different orders. It is right when
  only the window a request was routed to answers it, the wait can always be
  answered, every request returns, nobody else performs it, and both are about
  the same thing.
- *Control server.* A counter without a lock, flags, joins. Right when an
  accepted connection has a worker, a refused request has not been performed, a
  shutdown ends, and both ends agree on messages and timeouts.
- *Project store.* Two files, a queue, saves that go around it, another process.
  Right when no agent is lost and what the window shows is what the files get.
- *Watchers.* Reloads, overlaps and crashes. Right when every completion is told,
  once where no crash intervenes, and a shutdown leaves nothing behind.
- *Terminal tabs.* Awaited calls of one tab overlap.

`PROJECT.json` lists each hazard at its line, with the properties that cover it.

## 2. Modules

| Module | Models |
|---|---|
| `SubagentRegistry` | the registry: one action per critical section, with the pruning, notifying and clean-up each contains |
| `SubagentLifecycle` | abstract: the life of a subagent and the stops asked of it |
| `RegistryLifecycle` | the refinement mapping from the first to the second |
| `SubagentSpawn` | extends the registry with the spawn router, the frontend service, the tab, the PTY session, the stop threads and the event loop |
| `SubagentListing` | a listing, page by page, of a registry that changes |
| `OutputHistory` | the bounded buffers and the escape stripper, as operators |
| `SubagentFollowing` | extends them with the reader and waiter threads and a client that follows |
| `SubagentWatchers` | the Pi extension's notifications for one child |
| `WorkspaceActions` | workspace requests and their three readers: command line, router, script |
| `WorkspaceRouter` | extends them with the router's threads, the event loop and the scripts |
| `ControlProtocol` | the messages and the timeouts of both ends, as operators |
| `ControlServer` | extends them with the listener, the workers, the shutdown and the clients |
| `ProjectStore` | the agents of a project in both files, the window, the backend and the command line |
| `MC...` | constants and symmetry for TLC |
| `SubagentRegistry_proofs` | the registry: types, the inductive invariant, safety, retention, and that it implements the life cycle |
| `SubagentSpawn_proofs` | the composition implements the registry; agreement and ownership |
| `SubagentListing_proofs` | listings are exact |
| `SubagentFollowing_proofs` | buffers, stripper, a client's cursors and the order of output and exit |
| `SubagentWatchers_proofs` | deliveries and shutdowns of the watchers |
| `WorkspaceRouter_proofs` | safety of the workspace router, and its agreement with the scripts |
| `ControlServer_proofs` | the pool, what was performed, and the agreement of both ends |
| `ProjectStore_proofs` | control, names, what is saved, ranks, what stays on disk |

Operators whose comment begins with *Slip* are plausible mistakes; the
specifications do not use them. Each property is paired in `PROJECT.json` with
one, and is violated when the slip takes the place of the definition below it.

### SubagentRegistry

`topLevel`, `reservations`, `records` are the three maps of `RegistryInner`; a
record keeps the fields that the code branches on (lifecycle, terminal, parent,
window, Pi state, both handlers as booleans, the stop mark, end time, revision,
result sequence and content). `stops` and `waits` hold one call per thread: what it is
doing between two critical sections. `cancelled` is the flag of
the control server's shutdown, `now` the wall clock in units of the model.
`spawn` is the environment's own knowledge about an id, as the callers' code
guarantees it: the frontend starts the tab of a spawn once
(`subagentSpawns.ts:74`), and `route` finishes or rolls back once.

- Every operation that takes the lock through `lock()` also prunes
  (`prune_completed_records`): `Prune` is a part of the action. The order of ends is by
  time and then by id, which stands for the code's (creation time, id).
- `stop` is `StopBegin`, `StopHandler`, `StopFailed` or `StopDone`: the code
  marks the record and clones the handler, calls it unlocked, and locks again.
- `wait` is `WaitBegin`, `WaitWake`, `WaitDeadline`, `WaitCancelled` and
  `WaitReturn`; in the deadline branch the code still holds the lock, so what it
  sees and what it answers belong to one action.
- `now` does not go back. The code reads `SystemTime`: a clock that is set back
  keeps completed records for longer and orders ends by the wrong clock.
- `Lock` stands for reads and refused operations, whose only effect is pruning.
- An update that the code applies and that changes nothing a property can see is
  a revision step; `MaxRevision` bounds these.

Bounds: `MaxId`, `MaxSeq`, `MaxRevision`, `MaxClock`, each named in a guard; when
they are used up the system stops, hence `CHECK_DEADLOCK FALSE`.

`SubagentLifecycle` knows no terminals, reservations, clocks or limits. A
subagent starts once, ends once, in the way that was asked for, and any step may
forget subagents that are over: that is all a user of the registry can rely on
where retention is concerned. `LivesAsPromised` is the refinement, under
`LifeOf`, `AskedOf` and `CallsOf`.

### SubagentSpawn

One program counter per party and id: `route` (the thread of the control
server), `frontend` (the handler of the event), `tab`, `pty` (`start_pty`),
`child` (alive, dead, drained by the reader, reported by the waiter thread);
`channel` is the one-slot channel; `session` the PTY map; `window`, `targets`
and `current` follow `stop_for_window` of the destroyed window; `exit` and
`kills` follow the shutdown. Every step that reaches the registry is the
registry's own action in conjunction.

- A kill takes effect at once. A child that ignores the signal is outside the
  model; the hazard list says what that leaves open.
- `Emitter::emit` of Tauri 2 reaches all windows. The script of another window
  does not know the parent and acknowledges a failure (`OtherWindowRefuses`):
  the router cannot tell its answer from the owner's.
- Tauri runs synchronous commands on the main thread. The model lets them
  interleave with the event loop as well, which allows more behaviours than the
  build has; no property depends on the serialisation, and the violation in section 4 does not need it.
- When the window is destroyed its script stops where it is.

### SubagentListing

The registry is reduced to what a listing sees: which ids have a record, and the
parent of each. Ids are reserved in order and attached in any order, since each
spawn is routed by a thread of its own. A page takes the first ids after the
cursor until it has `limit` of them or the next one does not fit the frame;
the sizes of the statuses are chosen anew for every page. A status that fits no
page fails the listing (`registry.rs:532`). `steady` is history: the ids that
have matched since the command began.

### OutputHistory and SubagentFollowing

A byte is told apart by its class, as the stripper does, and `Stream` marks
which bytes are text. In the run the marks are written by hand, from what escape
sequences are, and `MarkAssumption` has TLC compare them with the stripper's states.
Reads cut the stream anywhere, also within an escape sequence. A stripper's limit
the marks respect: `output.rs` knows CSI, OSC and two-byte sequences; a device
control string is shown as text. A chunk as large as the buffer cannot come from the PTY's
reader, whose buffer has 16 KiB, yet `append` has the branch, and so has the model.
The reader and the waiter thread share the flags of `pty.rs`; `held` is a
descendant of the child that keeps the terminal open. An error of a read ends the
reader as an end of file does (`pty.rs:393`; on Unix it is how the end is told), and
is not a case of its own. What a terminal
prints when its tab is started again is not part of the model.

### WorkspaceActions and WorkspaceRouter

A request has the fields of `WorkspaceAction`; `Parsed` is what `cli.rs` lets
through, `Names` what `WorkspaceRouter::target` looks for, `Dispatched` what the
script makes of the request in a window that has loaded certain things: it is
performed, read or refused. `RoutedAsPerformed` compares the last two over all
requests and all windows.

`asks`, `target`, `route`, `answer` belong to the calls of `route`; `pending`
and `channel` to the router, `snapshot` and `closed` to its windows, `script` to
each window's handler of each event. `main` is the event loop: it does one thing
at a time, and it may block in a `send`. In `acknowledge` it sends after the
unlock, in `unregister_window` with the lock held (`LockFree`). A script knows
`Knows[w]` and may have registered less, because it listens before it registers.
What an action does to tabs is one step.

### ControlProtocol and ControlServer

Results are records of JSON fields: the ones always there, the optional ones,
the ones that may be null; `Decode` takes the first variant of the untagged
`ControlResult` that reads them. The server has one listener, a queue, workers
that are created on demand, and the counter `active`, which the listener loads
into `listener.seen` before it acts on it. `Drop` raises the server's flag,
cancels the dispatcher's waits, and joins. Clients send one request, or rubbish,
or nothing, and may leave. `performed` is history, for clients that still wait.

- `AcceptFails`: any error of `accept` but two ends the listener, and with it the
  service (`server.rs:186`); connections that come later are refused by nobody.
- A client that connects right after its answer may be refused as busy: the
  worker lowers the counter after it has answered.
- Writes have no timeout in the code; the model's writes always return, and
  `DropReturns` is about a server whose clients read their answers. A worker
  that panics would leak a slot of the counter; handlers do not panic here.
- Routes are not cancelled at shutdown, although the comment at
  `dispatch.rs:49` speaks of in-flight control requests: they end by their own timeout.

### ProjectStore

A definition is its rank in the order; each store is a function from agents to
ranks. The window is one thread whose steps last to its next await: `queue` is
the chain behind `savePromise`, `job` its head, `edit` the saves and removals of
one agent that go around it. Nothing in the code keeps these from overlapping (the
form has no busy state, the menu deletes at any moment, `App.vue:642`), so neither
does the model: `Call` bounds how many await at a time, and what needs no await
(a global save, `SaveGlobal`) may come in between. Each call keeps the stores it
computed before its await (`before`, `after`) and shows them afterwards. The backend's saves are tasks that take the write lock,
read, write one file or two, and may roll back. The command line loads and
saves under the same lock. Definitions of commands follow the same code with
other names and are not repeated.

`mishaps` records what the code does not recover from, at the step where it happens:

- `overlap`: an edit of an agent overlaps an order;
- `stale`: a call begins to await while another one awaits, or shows, after its
  await, stores computed before something else changed them;
- `unsynced`: a write is reported as failed that was not;
- `torn`: an order has reached one of its two files.

Each property names the ones it excuses. `SettledIsSaved` excuses all four,
`AgentStaysOnDisk` all but `torn`, `RanksStayDistinct` all but `stale`,
`RenameSurvives` none. What `stale` costs is in section 4.

### SubagentWatchers

One child of one session; `Owner` are instances of the extension in the Pi
process. `ledger` and `tracked` are the session file, `claims`, `owners` and
`accepted` the process-wide maps, `rec` and `watch` the tasks of each instance. A
crash clears all but the session file; a shutdown cancels a generation and waits.
`sent`, `lapsed` and `failed` are history.

- `persist` and `send` are modelled as asynchronous callbacks, as the class is
  written; those of `index.ts` are synchronous, which is a special case. What a
  callback does takes effect at once (`index.ts:373`), and its answer comes later.
- `shutdown` awaits the reconciliation, `watcherTasks` and `notificationTasks`
  (`Settled`). A spawn tool's `watch()` that awaits its record is in none of them
  (`watchers.ts:206-221`), so the shutdown may return first; that call then finds its
  generation gone and does nothing (`Overtaken`), and the next instance finds
  the child in the session file.
- Pi runs no tool while a handler of the session's start lists the children;
  otherwise a stale list could stop the watcher of a new child
  (`watchers.ts:248-252`), and the completion would not be told.
- Tree navigation goes to branches with the same entries. Records are not
  forgotten or detached meanwhile. `ownedPending` is written and never read.
- A delivery of a cancelled generation that is still under way is shared by its
  successor, which does not repeat it: `failed` excuses it. What an overlapping
  instance delivered is forgotten when that instance shuts down: `lapsed`.

## 3. Runs

| Run | Instance | Shows |
|---|---|---|
| `Registry` | 2 ids, 2 terminals, 2 windows, 2 stop threads, limit 1 | stops race with exits, failures, pruning, rollback and shutdown: marks, handlers, terminals, rollbacks and pruning stay right; the life cycle is implemented |
| `RegistryReports` | 1 Pi child, 2 sequences, 1 waiter, TTL 0, fair | late reports, history, waits that end |
| `Spawn` | 1 spawn, 1 stop thread and the event loop, fair | ownership of the child, agreement, termination |
| `SpawnLateAck` | the same, unfair | violated: see below |
| `Listing` | 4 ids, pages of 1 to 3, two sizes of statuses | listings are exact while the registry changes |
| `Following` | 3 streams with escape sequences, buffers of 3 bytes, reads of 1, 2 and 4, fair | buffers, cursors, the order of output and exit |
| `Watchers` | 1 child, 2 instances, 1 result, crashes, fair | messages once and in the end, shutdowns |
| `Workspace` | 2 windows, 2 requests, fair | who may answer, that somebody can, that requests return, that router and script agree |
| `WorkspaceOwner` | 2 windows, 1 request with a project and a parent | violated: see below |
| `ControlServer` | 2 clients, 2 workers, waits and workspace requests, fair | the pool, refusals, shutdown, both ends' agreement |
| `ProjectStore` | 2 agents, 2 calls at a time, 3 edits, 1 failure, 1 crash, 1 rename by the command line | no agent is lost, files and window agree, ranks stay orderable, but for the mishaps each property names |
| `ProjectOverride` | the same without a crash | violated: see below |

Why these bounds. Two ids are the least with which one record can take another's
terminal or place in the history; two ends with a limit of one are the least
with which pruning can choose wrongly. Two stop threads are the least
that can double a stop. The TTL, which needs a clock and an end but no second id, is in
`RegistryReports`. Interactions inside one spawn are between its parties, and
registry-level interactions between two spawns are in `Registry`. Four ids let a
listing of two pages lose one, gain one and detach one. Streams of nine bytes
fill a buffer of three several times; a read of four bytes replaces it. Both
windows of `Workspace` know one project, so that ownership changes with every
registration: nobody's, one window's, both windows'; one kind of request is
enough, since `route` uses nothing of it but what it names. In `WorkspaceOwner`
the first window has a terminal, too. Two workers and two clients fill the pool,
and a third client is not needed for a refusal: one that calls again may come
before its worker has lowered the counter. Three edits are the least for an order, an override
and its removal, and for two calls that await and a global save between them. Two instances of the extension overlap where `Overlap` allows:
for a child that is a process, which has one completion; for a Pi child, with
its results, instances follow each other. Messages are counted to two.

Symmetry is used for terminals, windows and stop threads in `Registry` and for
agents and calls in the project runs, which check invariants, action properties and a
safety refinement; never with liveness. Type correctness is proved for every
component, as a part of its inductive invariant, instead of run.

### Fairness

- `RegistryReports`: the waiting thread wakes (`WaitWake`). The code polls every
  25 ms besides the condition variable, so a wake-up cannot be lost for good.
- `Spawn`: threads of the control server, the PTY layer's threads and the stop
  threads run, `recv_timeout` expires, the event loop completes what it began.
  No fairness for the user, the client, the child or the script, so
  `RouteReturns` holds without a frontend that answers.
- `Workspace`: the same for `route` and for the event loop, none for scripts.
- `ControlServer`: threads run, and requests other than waits end by the timeouts
  of their routers. A wait may last a day: only its cancellation ends it here.
- `Following`: both threads run, and the drain timeout expires. A read that
  blocks for ever stays blocked; it is cancelled, and no child has to end.
- `Watchers`: callbacks answer, commands return or are killed at their timeout,
  tasks that wait for them go on. Neither child nor user has to do anything.
  `Notified` speaks of sessions that are left alone from some time on: a reload
  may always come before the message.

## 4. Where code and comments disagree

`SpawnLateAck`. `subagentSpawns.ts:90` relies on a rejected acknowledgement to
learn that the backend rolled the spawn back. An acknowledgement that arrives
between the router's timeout and its rollback is accepted: the lookup finds the
reservation, and the send finds the receiver alive and the slot free. The tab
stays, its subagent is unknown, its child is killed and the client was told
`spawn_timeout`.

`WorkspaceOwner`. `workspaceControl.ts:32` speaks of the owning renderer. The
event reaches every window, and each script performs the request before its
acknowledgement is refused. `terminals create --project p --parent t` is routed to
the window of `t`; every other window with `p` creates a terminal at the top
level of `p`.

`ProjectOverride`. `useProjects.ts:185` says that the global copy is persisted
before a local override is removed. An order that is being saved meanwhile and
fails restores its own copies of both stores (`useProjects.ts:297`), and with
them drops the global copy; the flush saves a project without it, and the
override is removed: the agent is in neither file.

What reading the code shows, and no run is about:

- *Stuck event loop.* A late acknowledgement fills the slot, the window is
  destroyed before `route` removes its entry, and `unregister_window` waits in
  `send`, holding the lock that `route` needs to go away. No comment denies this
  state. The predicate `Stuck` of `WorkspaceRouter` names it; `RequestsReturn`
  excepts it, and `OneAnswerInTime` shows that nothing but an answer after the
  timeout leads to it.
- *Orders.* A save of one agent that overlaps an order shows what it computed
  before the order, and the other way round; `mishaps` excuses it (`overlap`).
- *Overlapping edits* (`stale`). A save of A to the project awaits
  (`useProjects.ts:205`); B is added as global and the timer flushes it; A's
  answer shows the stores computed before B, and the next snapshot removes B
  from `projects.json`. Two overlapping saves to the project each write a whole
  `.termarc.json`: the later one drops the agent of the earlier. A failing flush of an
  override puts back the local agents as they were before (`useProjects.ts:193`):
  what another save has written to `.termarc.json` meanwhile is on file and no
  longer shown. No comment or test of the repository speaks of two such calls, hence
  no run. Ranks are not touched: `RanksStayDistinct` does not excuse it.
- A window's whole-project save (`projects.rs:286`) writes the list of projects it
  loaded: what another process added since is lost. `RenameSurvives` excepts it.
- *Listings.* A test's comment (`registry.rs:1982`) says that ids are monotonic
  cursor keys, so that a record that is added remains discoverable on a later
  page. An id is reserved before it is attached; a record attached after the page
  that would have held it is not listed. `ListingIsExact` promises records that
  were there when the listing began. A single status that is too large for a page
  fails every listing that reaches it (`registry.rs:532`).
- *Workspace requests.* `wait` answers at once, although the command line offers
  `--timeout`. `subterminals create --project` without `--parent` is let through
  by the command line and refused by the script. A parent overrides the id for
  routing, not for the script (`Mixed`).
- *Watchers.* One failed wait ends a watcher, although `index.ts:552` promises
  a follow-up. A child that settles between two waits is told when the next one
  times out, up to 300 s later, with the status read at the top of the loop,
  although a test (`index.test.ts:126`) says that a mere timeout tells nothing.
- Two applications that start or stop together may remove each other's socket
  (`server.rs:120`): not modelled.
- *RunningNeverPruned.* With a limit below the number of running children,
  shutdown ends and prunes a running record in a single step. The property admits
  that disjunct; `subagents/README.md` says that active records are never pruned,
  which remains true of any record while it is active.

## 5. Proofs

TLAPS checks these for every value of the constants: any number of ids,
terminals, windows, clients, workers, agents and instances, any limits, any
streams. Every safety property of the passing runs is stated by a theorem. Each
inductive invariant below was first checked by TLC as an invariant of the
component's run.

The assumptions are named in the modules. Most say that a bound is a number or
that `None` (`NoneAssumption`) is none of the values it is told from.
`RouterAssumption` says that requests are ones the command line lets through and
that windows know things that can be loaded together; `MarkAssumption` that the
marked bytes of a stream are those a stripper shows that reads it from its
beginning, in one piece: what is proved is that cutting the stream, buffering it
and reading it in any way comes to the same.

*Registry.* `TypeCorrect`, and from the inductive invariant `RegistryInv`:
`CapabilitiesCorrect`, `StopsCorrect`, `TerminalsCorrect`, `RollbackCorrect`,
`DetachCorrect`, `ResultCorrect`, `RetentionCorrect`, and the action
properties `CompletedCorrect` and `ResultOrderCorrect`.

`RunningCorrect` and `NewestCorrect` are about what pruning removes.
`PruneDropsOldest`: what is dropped ended no later than what is kept, by its age
or by the order of ends, and what ends now is dropped only when the limit is
filled by others. `NextPrunes` shows that every step changes the records
first (`SameEnd` for those that had ended) and prunes last, and `EndsCorrect` that
no end lies in the future: so a subagent that ends in a step is the newest there is.

The properties are not inductive alone. `RegistryInv` adds `SpawnProgress`, that
reservations and records match what the callers have done with an id (without
it, an attach might meet a record, or a stop call an id that was never
spawned), and `StopsHold`, that a stop call under way has its record's mark and
finds its handler in place (without it, a failing handler could clear a mark it
does not own). The proof avoids a case per action and conjunct. Each
action is shown once to make one of a few *changes*:

- `NextChanges`: records change by pruning, by an update of one running record
  that leaves its identity alone, by an end, an attach or a rollback;
- `NextMoves`: `spawn` and the reservations of an id move along their life;
- `NextStops`: a stop call begins, runs, or returns;

and each conjunct is then shown to survive these changes. The lemmas on
retention (`Prune` keeps the running records and no more than the limit of the
others) use the library's facts on cardinality.

*Life cycle.* `LifecycleImplemented`: `Spec` implies the abstract specification
under the mapping. A step is mapped by what it does to each record (kept, or
forgotten once it is over: `KeptLife`) and to the one it is about; `RegistryInv`
supplies that the one had the life the abstract step asks for.

*Spawn.* `SpawnImplementsRegistry`: every step of the composition is a step of
the registry or leaves it alone, so all the theorems above hold of the
composition (`RegistryHolds`). On top of them `SuccessesAgree` and
`ChildrenAreOwned`, whose invariant relates the program counters of router,
frontend and PTY layer to the registry's record.

*Listings.* `ListingsAreExact`, from `CollectedUpToCursor`: up to the cursor a
listing has what matched all along, once, and beyond it nothing. The lemmas
give finite sets of ids a first and a last element, by well-foundedness of `<`.

*Workspace router.* `AnswerCorrect`, `AnswerableCorrect` and `OneAnswerCorrect`
from `RouterInv`. Its parts say that entries, messages, answers and an
acknowledgement under way belong to the window their request was routed to
(`Targeted`, `EventLoop`), that no script acknowledges before the event
(`Unheard`), and that an entry that was answered and is still there was answered
by a script that is done with it (`AnsweredOnce`): without this a second
acknowledgement could fill the slot of a request that was answered in time.
`RoutedCorrect` compares `Names` with `Dispatched` for all requests, whatever
things there are: a window that carries a request out has what it was routed by
(`PerformedHasSubject`), and one that has it misses nothing (`SubjectIsFound`).

*Control server.* `AcceptedCorrect` from `PoolInv`: the listener decides by a
value it loaded earlier, and `SeenIsUpperBound` says that the counter has at most
been lowered since; with `WorkersInOrder` a connection that is handed over
finds an idle worker or gets a new one. `RefusedCorrect` from `ConnInv`:
`ConnectionsApart`, `SentOnce` and `RunningIsUnanswered` say that a connection
is in one place and carries one request, `PerformedIsAnswered` that what was
performed for a client that waits was answered or will be. `ProtocolCorrect`
combines `ResultsToldApart`, by cases over the variants with any optional
fields, and `ClientWaits`, arithmetic over the timeouts of three files.

*Output.* `HistoryCorrect`, `FollowerCorrect` and `ExitCorrect` from
`FollowInv`: the buffers are the newest bytes of what was written (`OutputInv`),
what a client has is right up to its cursor (`ClientInv`), a reader at the end
has written all (`DoneAtEof`). The library's induction theorems cannot be used
here, since they take an operator as a parameter; the lemma `Reaches` takes a set
instead and is proved by its least missing element. With it `StripChunks` shows that
stripping two chunks one after the other is stripping their concatenation.

*Watchers.* `RecordsCorrect` and `OnceCorrect` from `DeliveryInv`, which follows
one key: `ClaimBacked` says how far the delivery that holds the claim has come on
file and in Pi's queue, `Remembered` who still knows of a message that was queued
(without it a second instance could queue it again), `Followed` what the two
promise. `QuietCorrect` from `TaskInv`, whose part `InstanceQuiet` says that what a
shutdown has cancelled stays so while it waits: no reconciliation is fresh or
chained, and every watcher is of an old generation. When the shutdown returns, only a
`watch()` that awaits its record can be left, and it is overtaken: no later step of
it watches, owns or delivers anything. No assumption that the shutdown waited for it is
needed. `DeliveriesCorrect` is both.

*Project store.* Four invariants on top of each other. `ControlInv`
(`ControlCorrect`): who writes holds the lock and knows what it writes over, and
each call of the window has its task in the backend. From it `RenameCorrect`.
`SavedInv` (`SavedCorrect`) says for each stage of the queue's job and of each
call what each file holds: what differs from `projects.json` is marked, being
saved, or will be marked if the save fails. `Solo` says that before the first mishap
one call awaits, which it does not assume but follows from what counts as one. `RankInv` (`RanksCorrect`) says that
all stores that may be shown or written *agree*: no rank is two agents', in two
stores together; an edit draws its ranks from them (`Drawn`), a snapshot and a
rollback bring old ones back. Only an order sets new ones, and while it runs
nothing but the old stores on one side, and the new on the other, has to agree
(`OrderRanks`). `DiskInv` (`DiskCorrect`) says that what is on file is also shown as
global or on file in the project (`Safe`), that a snapshot that waits would leave
it so, and that an override is removed only when what the edit shows as global is
on file. Unlike the others it holds after torn orders, too, so that
`AgentStaysOnDisk` is proved across crashes between an order's two files.
`SavedInv` holds until the first mishap, as its property does. `RankInv` does not
rest on it and holds also of calls that overlap each other: whatever two calls
put back, their ranks were drawn from, or shown with, the same stores.

Only model-checked: the liveness properties, which are out of the prover's reach
(`WaiterSeesTheEnd`, `RouteReturns`, `FailedSpawnEnds`, `WindowStopsItsChildren`,
`RequestsReturn`, `DropReturns`, `ExitIsPublished`, `Notified`,
`ShutdownReturns`), and of course the properties that three runs refute. That
the operators of `OutputHistory` read escape sequences as a terminal would is
compared on the run's streams alone.

## 6. Not modelled

- *Terminal tabs of the user's own commands* (start, restart, auto-restart): one
  window and no thread; the PTY layer keeps one session per terminal whatever they
  do. Their overlaps are in the hazard list, without a property.
- *Result sequences* of the Pi extension: by the clock of one process. The
  registry's acceptance of sequences is modelled and proved.
- *Refresh loops*: one request in flight and one queued, in one component.
- *Agent extension and link installers, desktop integration*: file copies and
  external programs.
- *User interface, in-process runner, formatting of command output*: presentation.
- Within modelled components: input and resizing of terminals, sessions without a
  subagent, validation of texts, older versions of the watchers' entries and their
  cap of 4096 keys, the socket file, several windows that save projects, poisoned
  mutexes.

## 7. Plan

Done: registry, life cycle, spawn, listings, output, watchers, workspace requests
and router, control server, project store; proofs of the safety of all of them.
In this order, what is left:

1. `SubagentSpawn`: the safety behind `WindowStopsItsChildren` as an invariant
   (TLC first), that a window whose stops have ended has no child nobody stops.
2. Lemmas that several proof modules repeat (first elements, appended sequences)
   in a module of their own, if there is room for one.
3. `SocketFile`: two applications, one path, start and stop.
4. `TerminalTabs`: start, stop, restart and auto-restart of one tab with the
   generation counter; PTY shell sessions below it.
