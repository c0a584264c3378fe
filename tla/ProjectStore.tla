----------------------------- MODULE ProjectStore -----------------------------
(***************************************************************************)
(* How the definitions of a project's agents reach the disk:               *)
(* src/composables/useProjects.ts in the window, src-tauri/src/projects.rs *)
(* and project_local_config.rs behind it, and the command line's project   *)
(* commands (cli.rs), which write the same file from another process.      *)
(*                                                                         *)
(* An agent is defined globally (projects.json), in the project            *)
(* (.termarc.json), or in both: then the project's definition overrides    *)
(* the global one.  Each definition has a rank in the order all agents of  *)
(* the project share.  What else a definition says is not told apart.      *)
(*                                                                         *)
(* The window is a single thread: a step of it lasts to its next await.    *)
(* It saves whole-project snapshots and orders through one queue           *)
(* (savePromise); saving and removing one agent goes around that queue, and *)
(* nothing keeps several such calls from overlapping.  Every save is a task  *)
(* of its own in the backend and holds a lock.                             *)
(*                                                                         *)
(* An operator whose comment starts with "Slip" is a plausible mistake in  *)
(* the definition below it; no specification uses it.                      *)
(***************************************************************************)
EXTENDS Naturals, Sequences, FiniteSets

CONSTANTS
  Agent,       \* agents of the project
  Call,        \* bound: calls of saveAgent and removeAgent that await at a time
  Absent,      \* not in a list
  Unranked,    \* order: None
  MaxEdits,    \* bound: what the user does
  MaxFaults,   \* bound: writes that fail
  MaxCrashes   \* bound: times the application dies

ASSUME StoreAssumption ==
  /\ IsFiniteSet(Agent)
  /\ Absent # Unranked /\ {Absent, Unranked} \cap Nat = {}
  /\ Call \cap {"queue", "cli", "nobody", "save", "order"} = {}
  /\ MaxEdits \in Nat /\ MaxFaults \in Nat /\ MaxCrashes \in Nat

Rank == 0 .. Cardinality(Agent) - 1
Slot == Rank \cup {Absent, Unranked}
Store == [Agent -> Slot]            \* agents of one storage, each with its order
Empty == [a \in Agent |-> Absent]

NoFile == <<>>
Name == {"first", "renamed"}        \* the rest of the project: its name

-----------------------------------------------------------------------------
(* Orders *)

Has(store) == {a \in Agent : store[a] # Absent}
Effective(both) ==
  [a \in Agent |-> IF both.local[a] # Absent THEN both.local[a] ELSE both.global[a]]

RanksDiffer(store) ==
  \A a, b \in Agent : a # b /\ store[a] \in Rank => store[a] # store[b]

(* validate_command_store; the ranks are required in an order save only. *)
ValidStore(store, rankRequired) ==
  /\ RanksDiffer(store)
  /\ rankRequired => \A a \in Agent : store[a] # Unranked

(* validate_mixed_command_order *)
ValidMixed(both) ==
  /\ ValidStore(both.global, TRUE) /\ ValidStore(both.local, TRUE)
  /\ RanksDiffer(Effective(both))
  /\ {Effective(both)[a] : a \in Has(Effective(both))}
       = 0 .. Cardinality(Has(Effective(both))) - 1

(* effectiveCommandOrder accepts the stores *)
Orderable(both) ==
  /\ RanksDiffer(both.global) /\ RanksDiffer(both.local)
  /\ RanksDiffer(Effective(both))

(* The orders of all agents.  Unranked ones come last, in an order of their  *)
(* own.                                                                      *)
Orders(both) ==
  LET ids == Has(Effective(both)) IN
    {f \in [ids -> 0 .. Cardinality(ids) - 1] : \A a, b \in ids : a # b => f[a] # f[b]}

Shown(both) ==
  {f \in Orders(both) : \A a, b \in DOMAIN f :
     LET e == Effective(both) IN
       e[a] \in Rank /\ (e[b] \in Rank => e[a] < e[b]) => f[a] < f[b]}

Reranked(f, store) == [a \in Agent |-> IF store[a] = Absent THEN Absent ELSE f[a]]
RerankedBoth(f, both) ==
  [global |-> Reranked(f, both.global), local |-> Reranked(f, both.local)]

(* replaceCommand: the order comes from the live project, where it has one. *)
Replaced(store, a, slot, include) ==
  [store EXCEPT ![a] = IF ~include THEN Absent
                       ELSE IF slot = Unranked /\ @ # Absent THEN @ ELSE slot]

SavedIn(both, a, storage) ==
  LET live == Effective(both)[a]
      slot == IF live = Absent THEN Unranked ELSE live
  IN [global |-> Replaced(both.global, a, slot, storage = "global"),
      local  |-> Replaced(both.local, a, slot, storage = "project")]

Without(both, a) ==
  [global |-> [both.global EXCEPT ![a] = Absent], local |-> [both.local EXCEPT ![a] = Absent]]

-----------------------------------------------------------------------------
VARIABLES
  globalFile,  \* projects.json
  localFile,   \* .termarc.json
  lock,        \* who holds project_config_write_lock
  task,        \* the backend's saves for the queue and for each call: what of which
               \* stores and name it writes, how far it is, the project it began from
  cli,         \* the command line, and the project it has read
  window,      \* "closed" or "loaded"
  live,        \* projects.value: the stores of the window's project, global and local
  title,       \* and the rest of it
  dirty,       \* persistenceDirty
  timer,       \* saveTimer is set
  queue,       \* the jobs behind savePromise, the running one first: "save",
               \* "order", or the call that awaits this save
  job,         \* how far the running one is
  edit,        \* the saves and removals of one agent that await, by call
  edits, faults, crashes,
  removed,     \* agents the user has asked this window to remove
  mishaps      \* what has happened that the code does not recover from: "overlap",
               \* "stale", "unsynced" or "torn"

fileVars == <<globalFile, localFile>>
backendVars == <<lock, task>>
windowVars == <<window, live, title, dirty, timer, queue, job>>
counters == <<edits, faults, crashes>>
vars == <<fileVars, backendVars, cli, windowVars, edit, counters, removed, mishaps>>

Project == [agents : Store, name : Name]
Local == IF localFile = NoFile THEN Empty ELSE localFile

Nobody == "nobody"
Caller == {"queue"} \cup Call
None == [op |-> "none"]

Alone(store) == [global |-> store, local |-> Empty]

Closed ==
  /\ window' = "closed"
  /\ live' = Alone(Empty) /\ title' = "first"
  /\ dirty' = FALSE /\ timer' = FALSE /\ queue' = <<>> /\ job' = None

(* A project with any agents, all of them global, in some order. *)
Init ==
  /\ globalFile \in {p \in Project : p.name = "first" /\ ValidMixed(Alone(p.agents))}
  /\ localFile \in {NoFile, Empty}
  /\ lock = Nobody /\ task = [c \in Caller |-> None] /\ cli = [op |-> "idle"]
  /\ window = "closed" /\ live = Alone(Empty) /\ title = "first"
  /\ dirty = FALSE /\ timer = FALSE /\ queue = <<>> /\ job = None
  /\ edit = [c \in Call |-> None]
  /\ edits = 0 /\ faults = 0 /\ crashes = 0 /\ removed = {} /\ mishaps = {}

-----------------------------------------------------------------------------
(* The backend: save_projects, save_project_agent_order and                  *)
(* save_local_project_agents, each under project_config_write_lock.          *)

(* atomic_write: a failure leaves the file alone, unless it is the directory *)
(* that could not be synced: the new file is then in place all the same.     *)
Written == {"ok", "failed", "unsynced"}

Faulty(outcome) == faults' = IF outcome = "ok" THEN faults ELSE faults + 1
MayFail(outcome) == outcome # "ok" => faults < MaxFaults
Replaces(outcome) == outcome # "failed"

Happens(what, when) == mishaps' = IF when THEN mishaps \cup {what} ELSE mishaps

Ends(c, result) == task' = [task EXCEPT ![c].op = result] /\ lock' = Nobody
Goes(c, op) == task' = [task EXCEPT ![c].op = op] /\ UNCHANGED lock

Accepted(t) ==
  CASE t.kind = "snapshot" -> ValidStore(t.to.global, FALSE)
    [] t.kind = "local"    -> ValidStore(t.to.local, FALSE)
    [] t.kind = "order"    -> ValidMixed(t.to)

(* The lock, the validation and, for an order, the read of the global file.  *)
Acquire(c) ==
  /\ task[c].op = "waiting" /\ lock = Nobody
  /\ IF Accepted(task[c])
     THEN /\ lock' = c
          /\ task' = [task EXCEPT ![c].op = IF task[c].kind = "local" THEN "writingLocal"
                                            ELSE "writing",
                                  ![c].from = globalFile]
     ELSE Ends(c, "err")
  /\ UNCHANGED <<fileVars, cli, windowVars, edit, counters, removed, mishaps>>

SnapshotWrite(c, outcome) ==
  /\ task[c].op = "writing" /\ task[c].kind = "snapshot"
  /\ globalFile' = IF Replaces(outcome)
                   THEN [agents |-> task[c].to.global, name |-> task[c].name] ELSE globalFile
  /\ Ends(c, IF outcome = "ok" THEN "ok" ELSE "err")
  /\ Happens("unsynced", outcome = "unsynced")
  /\ UNCHANGED localFile

WritesLocal(t) == localFile # NoFile \/ Has(t.to.local) # {}

OrderWrite(c, outcome) ==
  /\ task[c].op = "writing" /\ task[c].kind = "order"
  /\ globalFile' = IF Replaces(outcome)
                   THEN [task[c].from EXCEPT !.agents = task[c].to.global] ELSE globalFile
  /\ IF outcome = "ok" /\ WritesLocal(task[c]) THEN Goes(c, "writingLocal")
     ELSE Ends(c, IF outcome = "ok" THEN "ok" ELSE "err")
  /\ Happens("unsynced", outcome = "unsynced")
  /\ UNCHANGED localFile

(* Slip: the global file keeps the order the local one has not got. *)
LocalFailedKept(c) == Ends(c, "err")

LocalFailed(c) == IF task[c].kind = "order" THEN Goes(c, "rollingBack") ELSE Ends(c, "err")

(* project_local_config::save *)
LocalWrite(c, outcome) ==
  /\ task[c].op = "writingLocal"
  /\ localFile' = IF Replaces(outcome) THEN task[c].to.local ELSE localFile
  /\ IF outcome = "ok" THEN Ends(c, "ok") ELSE LocalFailed(c)
  /\ Happens("unsynced", outcome = "unsynced")
  /\ UNCHANGED globalFile

RollBack(c, outcome) ==
  /\ task[c].op = "rollingBack"
  /\ globalFile' = IF Replaces(outcome) THEN task[c].from ELSE globalFile
  /\ Ends(c, "err")
  /\ Happens("torn", outcome # "ok")
  /\ UNCHANGED localFile

Write(c, outcome) ==
  /\ MayFail(outcome) /\ Faulty(outcome)
  /\ \/ SnapshotWrite(c, outcome) \/ OrderWrite(c, outcome)
     \/ LocalWrite(c, outcome) \/ RollBack(c, outcome)
  /\ UNCHANGED <<cli, windowVars, edit, edits, crashes, removed>>

(* termarc projects rename: lock, load, save.  (create and delete do the     *)
(* same to the list of projects.)                                            *)

(* Slip: the projects are loaded before the lock is taken. *)
CliLoadsUnlocked ==
  /\ cli.op = "idle"
  /\ cli' = [op |-> "writing", read |-> globalFile]
  /\ UNCHANGED <<fileVars, backendVars, windowVars, edit, counters, removed, mishaps>>

CliLoads ==
  /\ cli.op = "idle" /\ lock = Nobody
  /\ lock' = "cli"
  /\ cli' = [op |-> "writing", read |-> globalFile]
  /\ UNCHANGED <<fileVars, task, windowVars, edit, counters, removed, mishaps>>

CliSaves ==
  /\ cli.op = "writing"
  /\ globalFile' = [cli.read EXCEPT !.name = "renamed"]
  /\ cli' = [op |-> "done"]
  /\ lock' = IF lock = "cli" THEN Nobody ELSE lock
  /\ UNCHANGED <<localFile, task, windowVars, edit, counters, removed, mishaps>>

-----------------------------------------------------------------------------
(* The queue: savePromise = savePromise.catch(...).then(job)                 *)

(* saveAgent goes on, when its flush has ended, before the window does       *)
(* anything else: its reaction was there before that of the next job.        *)
Running == window = "loaded"
Free == Running /\ \A c \in Call : edit[c].op \notin {"flushed", "unflushed"}

CallBackend(c, kind, both) ==
  task' = [task EXCEPT ![c] = [op |-> "waiting", kind |-> kind, to |-> both, name |-> title,
                               from |-> globalFile]]
Answered(c) == task[c].op \in {"ok", "err"}

MarkDirty == dirty' = TRUE /\ timer' = TRUE

(* load *)
Load ==
  /\ window = "closed"
  /\ window' = "loaded"
  /\ live' = [global |-> globalFile.agents, local |-> Local] /\ title' = globalFile.name
  /\ removed' = {}
  /\ UNCHANGED <<fileVars, backendVars, cli, dirty, timer, queue, job, edit, counters,
                 mishaps>>

(* setProjectTerminals, reorderProjects, ...: what only marks the store.     *)
Touch ==
  /\ Free /\ edits < MaxEdits
  /\ edits' = edits + 1
  /\ MarkDirty
  /\ UNCHANGED <<fileVars, backendVars, cli, window, live, title, queue, job, edit, faults,
                 crashes, removed, mishaps>>

TimerFires ==
  /\ Free /\ timer
  /\ timer' = FALSE
  /\ queue' = Append(queue, "save")
  /\ UNCHANGED <<fileVars, backendVars, cli, window, live, title, dirty, job, edit, counters,
                 removed, mishaps>>

(* reorderAgents takes its place in the queue *)
Reorder ==
  /\ Free /\ edits < MaxEdits
  /\ edits' = edits + 1
  /\ queue' = Append(queue, "order")
  /\ UNCHANGED <<fileVars, backendVars, cli, window, live, title, dirty, timer, job, edit,
                 faults, crashes, removed, mishaps>>

Leaves(result) ==
  /\ queue' = Tail(queue) /\ job' = None
  /\ edit' = IF Head(queue) \in Call THEN [edit EXCEPT ![Head(queue)].op = result] ELSE edit

(* persistDirtyProjects, which an order does first *)
Persist ==
  /\ Free /\ queue # <<>> /\ job = None
  /\ IF dirty
     THEN /\ CallBackend("queue", "snapshot", live)
          /\ dirty' = FALSE
          /\ job' = [op |-> "saving"] /\ UNCHANGED <<queue, edit>>
     ELSE /\ UNCHANGED <<task, dirty>>
          /\ IF Head(queue) = "order" THEN job' = [op |-> "saved"] /\ UNCHANGED <<queue, edit>>
             ELSE Leaves("flushed")
  /\ UNCHANGED <<fileVars, lock, cli, window, live, title, timer, counters, removed, mishaps>>

(* Slip: the window believes that what it has tried to save is saved. *)
PersistFailedClean == dirty' = dirty

PersistFailed == dirty' = TRUE

Persisted ==
  /\ Free /\ job.op = "saving" /\ Answered("queue")
  /\ task' = [task EXCEPT !["queue"] = None]
  /\ IF task["queue"].op = "ok"
     THEN /\ UNCHANGED dirty
          /\ IF Head(queue) = "order" THEN job' = [op |-> "saved"] /\ UNCHANGED <<queue, edit>>
             ELSE Leaves("flushed")
     ELSE PersistFailed /\ Leaves("unflushed")
  /\ UNCHANGED <<fileVars, lock, cli, window, live, title, timer, counters, removed, mishaps>>

(* The new order is shown before it is saved.  Nothing is done if the stores *)
(* cannot be ordered, or are in that order already.                          *)
OrderShown ==
  /\ Free /\ job.op = "saved"
  /\ \/ \E f \in Orders(live) :
          /\ Orderable(live) /\ Shown(live) # {f}
          /\ live' = RerankedBoth(f, live)
          /\ CallBackend("queue", "order", live')
          /\ job' = [op |-> "ordering", before |-> live]
          /\ Happens("overlap", \E c \in Call : edit[c] # None)
          /\ UNCHANGED <<queue, edit>>
     \/ /\ Leaves("flushed")
        /\ UNCHANGED <<live, task, mishaps>>
  /\ UNCHANGED <<fileVars, lock, cli, window, title, dirty, timer, counters, removed>>

OrderAnswered ==
  /\ Free /\ job.op = "ordering" /\ Answered("queue")
  /\ task' = [task EXCEPT !["queue"] = None]
  /\ live' = IF task["queue"].op = "ok" THEN live ELSE job.before
  /\ Leaves("flushed")
  /\ UNCHANGED <<fileVars, lock, cli, window, title, dirty, timer, counters, removed, mishaps>>

-----------------------------------------------------------------------------
(* saveAgent and removeAgent, which await outside the queue                  *)

(* Agents that are shown can be edited, those that were removed have gone     *)
(* for good: a new agent has a new id.                                       *)
CanEdit(a) ==
  /\ Free /\ edits < MaxEdits
  /\ a \in removed => Effective(live)[a] # Absent
Edited == edits' = edits + 1

Overlap == IF job.op = "ordering" THEN {"overlap"} ELSE {}

(* A change that is shown at once *)
AtOnce == mishaps' = mishaps \cup Overlap /\ UNCHANGED <<edit, task>>

(* and one that awaits, with stores that were computed before.               *)
Awaits(c, op, after) ==
  /\ edit[c] = None
  /\ edit' = [edit EXCEPT ![c] = [op |-> op, before |-> live, after |-> after]]
  /\ mishaps' = mishaps \cup Overlap \cup (IF \E d \in Call : edit[d] # None THEN {"stale"} ELSE {})

Returns(c) == edit' = [edit EXCEPT ![c] = None]

(* The window shows what a call has computed from what was shown then.       *)
PutsBack(both, seen) == live' = both /\ Happens("stale", live # seen)

SaveLocal(c, both) == CallBackend(c, "local", both)

(* A definition that is global, or was not in the project, needs no await.   *)
SaveGlobal(a) ==
  /\ CanEdit(a) /\ Edited /\ AtOnce
  /\ live.local[a] = Absent
  /\ live' = SavedIn(live, a, "global")
  /\ MarkDirty
  /\ UNCHANGED <<fileVars, lock, cli, window, title, queue, job, faults, crashes, removed>>

SaveInProject(c, a) ==
  /\ CanEdit(a) /\ Edited
  /\ LET after == SavedIn(live, a, "project") IN
       SaveLocal(c, after) /\ Awaits(c, "savingLocal", after)
  /\ UNCHANGED <<fileVars, lock, cli, windowVars, faults, crashes, removed>>

(* Slip: as saveCommand does it, which removes the override first. *)
OverrideRemovedFirst(c, a) ==
  /\ CanEdit(a) /\ Edited
  /\ live.local[a] # Absent
  /\ LET after == SavedIn(live, a, "global") IN
       SaveLocal(c, after) /\ Awaits(c, "savingLocal", after)
  /\ UNCHANGED <<fileVars, lock, cli, windowVars, faults, crashes, removed>>

(* From the project to global: first the global copy is flushed, *)
SaveOverride(c, a) ==
  /\ CanEdit(a) /\ Edited
  /\ live.local[a] # Absent
  /\ LET after == SavedIn(live, a, "global") IN
       live' = after /\ Awaits(c, "flushing", after)
  /\ dirty' = TRUE /\ timer' = FALSE
  /\ queue' = Append(queue, c)
  /\ UNCHANGED <<fileVars, backendVars, cli, window, title, job, faults, crashes, removed>>

(* then the override is removed, *)
Flushed(c) ==
  /\ Running /\ edit[c].op = "flushed"
  /\ SaveLocal(c, edit[c].after)
  /\ edit' = [edit EXCEPT ![c].op = "removingLocal"]
  /\ UNCHANGED <<fileVars, lock, cli, windowVars, counters, removed, mishaps>>

(* and a failure of either shows what is still there. *)
Unflushed(c) ==
  /\ Running /\ edit[c].op = "unflushed"
  /\ PutsBack(edit[c].before, edit[c].after)
  /\ Returns(c)
  /\ UNCHANGED <<fileVars, backendVars, cli, window, title, dirty, timer, queue, job, counters,
                 removed>>

OverrideRemoved(c) ==
  /\ Free /\ edit[c].op = "removingLocal" /\ Answered(c)
  /\ IF task[c].op = "ok" THEN UNCHANGED <<live, mishaps>>
     ELSE PutsBack([global |-> edit[c].after.global, local |-> edit[c].before.local], edit[c].after)
  /\ task' = [task EXCEPT ![c] = None]
  /\ Returns(c)
  /\ UNCHANGED <<fileVars, lock, cli, window, title, dirty, timer, queue, job, counters,
                 removed>>

RemoveAgent(c, a) ==
  /\ CanEdit(a) /\ Edited
  /\ Effective(live)[a] # Absent
  /\ removed' = removed \cup {a}
  /\ IF live.local[a] # Absent
     THEN /\ SaveLocal(c, Without(live, a)) /\ Awaits(c, "savingLocal", Without(live, a))
          /\ UNCHANGED <<live, dirty, timer>>
     ELSE live' = Without(live, a) /\ MarkDirty /\ AtOnce
  /\ UNCHANGED <<fileVars, lock, cli, window, title, queue, job, faults, crashes>>

(* The stores computed before the await are shown. *)
LocalSaved(c) ==
  /\ Free /\ edit[c].op = "savingLocal" /\ Answered(c)
  /\ IF task[c].op = "ok" THEN PutsBack(edit[c].after, edit[c].before) /\ MarkDirty
     ELSE UNCHANGED <<live, dirty, timer, mishaps>>
  /\ task' = [task EXCEPT ![c] = None]
  /\ Returns(c)
  /\ UNCHANGED <<fileVars, lock, cli, window, title, queue, job, counters, removed>>

-----------------------------------------------------------------------------
(* An order has written one of its two files. *)
Halfway(t) == t.op \in {"writingLocal", "rollingBack"} /\ t.kind = "order"

(* The application dies, and with it its tasks and their locks.              *)
Crash ==
  /\ Running /\ crashes < MaxCrashes
  /\ crashes' = crashes + 1
  /\ Closed
  /\ task' = [c \in Caller |-> None] /\ edit' = [c \in Call |-> None]
  /\ lock' = IF lock \in Caller THEN Nobody ELSE lock
  /\ Happens("torn", \E c \in Caller : Halfway(task[c]))
  /\ UNCHANGED <<fileVars, cli, edits, faults, removed>>

Edits ==
  \/ Touch \/ Reorder
  \/ \E a \in Agent :
       \/ SaveGlobal(a)
       \/ \E c \in Call : SaveInProject(c, a) \/ SaveOverride(c, a) \/ RemoveAgent(c, a)

Window ==
  \/ Load \/ TimerFires
  \/ Persist \/ Persisted \/ OrderShown \/ OrderAnswered
  \/ \E c \in Call : Flushed(c) \/ Unflushed(c) \/ OverrideRemoved(c) \/ LocalSaved(c)

Backend == \E c \in Caller : Acquire(c) \/ \E outcome \in Written : Write(c, outcome)

Next == Edits \/ Window \/ Backend \/ CliLoads \/ CliSaves \/ Crash

StoreSpec == Init /\ [][Next]_vars

-----------------------------------------------------------------------------
(* Properties *)

(* What an order has written counts when it is complete. *)
Committed ==
  IF \E c \in Caller : Halfway(task[c])
  THEN task[lock].from.agents ELSE globalFile.agents

OnDisk == Has(Committed) \cup Has(Local)

(* An agent that has reached one of the files stays in one until the user    *)
(* asks to remove it, wherever the application dies and whichever write      *)
(* fails, unless an order and a save of an agent overlapped, a save put back *)
(* what another one had changed, or a write was reported as failed that was  *)
(* not.                                                                      *)
AgentStaysOnDisk ==
  [][mishaps' \subseteq {"torn"} => OnDisk \ removed' \subseteq OnDisk']_vars

(* Once nothing is under way, and nothing is marked as unsaved, the files    *)
(* hold what the window shows: no failed, repeated or overtaken save leaves  *)
(* them apart for good, until one of the mishaps.                            *)
Settled == Running /\ ~dirty /\ queue = <<>> /\ \A c \in Call : edit[c] = None
SettledIsSaved ==
  Settled /\ mishaps = {} =>
    globalFile.agents = live.global /\ Local = live.local

(* The agents can be ordered, and a snapshot of them is accepted: no sequence *)
(* of edits, orders and failures, nor edits that overwrite each other, gives  *)
(* two of them one rank, unless an order was written to one of its two files *)
(* only, or overlapped an edit.                                              *)
RanksStayDistinct == Running /\ mishaps \subseteq {"stale"} => Orderable(live)

(* A name written by another process is replaced by a window's snapshot of   *)
(* the whole project only: no save that is about the agents puts back what   *)
(* it has read.                                                              *)
RenameSurvives ==
  [][globalFile'.name # globalFile.name =>
       \/ cli'.op = "done" /\ cli.op # "done"
       \/ \E c \in Caller : lock = c /\ task[c].kind = "snapshot"]_vars

(* The comment in saveAgent (useProjects.ts:185): the global copy is         *)
(* persisted before the override is removed.                                 *)
GlobalCopyFirst ==
  [][\A c \in Call :
       edit[c].op = "removingLocal" /\ lock = c /\ mishaps \subseteq {"overlap"} =>
         (Has(Local) \ Has(Local')) \ removed \subseteq Has(globalFile.agents)]_vars
=============================================================================
