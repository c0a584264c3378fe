-------------------------- MODULE SubagentRegistry --------------------------
(***************************************************************************)
(* The runtime registry of subagents, src-tauri/src/subagents/registry.rs. *)
(*                                                                         *)
(* One mutex guards three maps: the top-level terminals each window has    *)
(* registered, the reservations of spawns still being routed, and the      *)
(* records of attached subagents.  Every operation that runs inside one    *)
(* critical section is one action.  Operations that leave the critical     *)
(* section and come back (stop, wait) are split at exactly those points    *)
(* and run by callers: threads of the control server, Tauri commands.      *)
(*                                                                         *)
(* An operator whose comment starts with "Slip" is a plausible mistake in  *)
(* the definition below it.  No specification uses it; it shows which      *)
(* property would notice.                                                  *)
(*                                                                         *)
(* The environment is the code that calls the registry, and the variable   *)
(* spawn records what it has done with each id: the frontend starts the    *)
(* tab of a spawn once, so an id is attached at most once, and             *)
(* SpawnRouter::route then finishes or rolls back its reservation once.    *)
(* The PTY layer reports the exit or the failure of what it attached.      *)
(***************************************************************************)
EXTENDS Integers, FiniteSets

CONSTANTS
  Terminal,        \* terminal ids of the frontend
  Window,          \* window labels
  Kind,            \* process kinds spawned, a subset of ProcessKind
  Stopper,         \* threads that call stop
  Waiter,          \* control connections that call wait
  None,            \* Rust's Option::None
  MaxId,           \* bound: reservations ever made
  MaxSeq,          \* bound: result mutation sequence numbers
  MaxRevision,     \* bound: revision at which optional updates stop
  MaxClock,        \* bound: the wall clock, in units of the model
  CompletedLimit,  \* RegistryConfig::completed_record_limit
  Ttl              \* RegistryConfig::completed_record_ttl, in clock units

ASSUME RegistryAssumption ==
  /\ MaxId \in Nat /\ MaxSeq \in Nat /\ MaxRevision \in Nat /\ MaxClock \in Nat
  /\ CompletedLimit \in Nat /\ Ttl \in Nat
  /\ Kind \subseteq {"pi", "process"}
  /\ None \notin Terminal \cup Window \cup Nat

Id == 1 .. MaxId              \* subagent-<sequence>
PiState == {"processing", "waiting", "stopped"}
Lifecycle == {"running", "exited", "stopped", "error"}
Legacy == 0                   \* a report without a sequence number
Sequence == 1 .. MaxSeq

Reservation ==
  [parent : Terminal, window : Window, kind : Kind, detached : BOOLEAN]

Record ==
  [lifecycle     : Lifecycle,
   terminal      : Terminal,
   parent        : Terminal \cup {None},
   window        : Window,
   kind          : Kind,
   piState       : PiState \cup {None},
   input         : BOOLEAN,                \* runtime.input is Some
   stop          : BOOLEAN,                \* runtime.stop is Some
   stopRequested : BOOLEAN,
   result        : Nat \cup {None},        \* sequence of the stored report
   resultSeq     : Nat \cup {None},        \* latest_result_sequence
   revision      : Nat,
   ended         : Nat]

ASSUME NoneAssumption ==
  None \notin Reservation \cup Record \cup PiState

NoStop == [op |-> "idle"]
StopCall == [op : {"calling", "ok", "err"}, id : Id]

WaitOutcome == {"answered", "timedOut", "gone", "shutdown"}
NoWait == [op |-> "idle"]
WaitCall ==
  [op : {"waiting"} \cup WaitOutcome, id : Id, revision : Nat, untilResult : BOOLEAN]

VARIABLES
  nextId,         \* next_subagent_id
  topLevel,       \* top_level_terminals: the window that registered each
  reservations,
  records,
  spawn,          \* how far the spawn of each id has come
  stops,          \* the stop call each stopper is in
  waits,          \* the wait call each waiter is in
  cancelled,      \* the control server is shutting down
  now             \* timestamp_millis()

vars == <<nextId, topLevel, reservations, records, spawn, stops, waits, cancelled, now>>

TypeOK ==
  /\ nextId \in 0 .. MaxId
  /\ topLevel \in [Terminal -> Window \cup {None}]
  /\ reservations \in [Id -> Reservation \cup {None}]
  /\ records \in [Id -> Record \cup {None}]
  /\ spawn \in [Id -> {"none", "routing", "attached", "finished", "rolledBack"}]
  /\ stops \in [Stopper -> StopCall \cup {NoStop}]
  /\ waits \in [Waiter -> WaitCall \cup {NoWait}]
  /\ cancelled \in BOOLEAN
  /\ now \in Nat

Exists(recs, i) == recs[i] # None
Running(recs, i) == Exists(recs, i) /\ recs[i].lifecycle = "running"
Completed(recs) == {i \in Id : Exists(recs, i) /\ recs[i].lifecycle # "running"}
Reserved(i) == reservations[i] # None

Routing(i) == spawn[i] \in {"routing", "attached"}

Init ==
  /\ nextId = 0
  /\ topLevel = [t \in Terminal |-> None]
  /\ reservations = [i \in Id |-> None]
  /\ records = [i \in Id |-> None]
  /\ spawn = [i \in Id |-> "none"]
  /\ stops = [c \in Stopper |-> NoStop]
  /\ waits = [c \in Waiter |-> NoWait]
  /\ cancelled = FALSE
  /\ now = 0

-----------------------------------------------------------------------------
(* prune_completed_records: drop what has outlived the TTL, then the oldest *)
(* completed records above the limit.  The code breaks ties of ended_at by  *)
(* (created_at, id); ids are handed out in the order of created_at.         *)

Fresh(recs) == {i \in Completed(recs) : recs[i].ended + Ttl >= now}

(* Slip: the newest completions go first. *)
EndedAfter(recs, i, j) == recs[i].ended > recs[j].ended

EndedBefore(recs, i, j) ==
  \/ recs[i].ended < recs[j].ended
  \/ recs[i].ended = recs[j].ended /\ i < j

Retained(recs, kept) ==
  /\ \/ kept = Fresh(recs) /\ Cardinality(kept) <= CompletedLimit
     \/ Cardinality(kept) = CompletedLimit
  /\ \A i \in Fresh(recs) \ kept, j \in kept : EndedBefore(recs, i, j)

Without(recs, ids) == [i \in Id |-> IF i \in ids THEN None ELSE recs[i]]

Retentions(recs) == {kept \in SUBSET Fresh(recs) : Retained(recs, kept)}

(* Slip: the limit counts the running records too. *)
PruneRunning(recs) == {Without(recs, Id \ kept) : kept \in Retentions(recs)}

Prune(recs) == {Without(recs, Completed(recs) \ kept) : kept \in Retentions(recs)}
(* lock() prunes before any operation looks at the maps.  This action is    *)
(* also every operation that only reads (status, list, result, output,      *)
(* send_input, close_target, observability) or is refused by a check.       *)
Lock ==
  /\ records' \in Prune(records)
  /\ UNCHANGED <<nextId, topLevel, reservations, spawn, stops, waits, cancelled, now>>

Tick ==
  /\ now < MaxClock
  /\ now' = now + 1
  /\ UNCHANGED <<nextId, topLevel, reservations, records, spawn, stops, waits, cancelled>>

-----------------------------------------------------------------------------
(* Top-level terminals *)

(* Slip: the terminals of subagents are not looked at. *)
CanRegisterChild(recs, w, terminals) == \A t \in terminals : topLevel[t] \in {w, None}

CanRegister(recs, w, terminals) ==
  /\ \A i \in Id : Exists(recs, i) => recs[i].terminal \notin terminals
  /\ \A t \in terminals : topLevel[t] \in {w, None}

(* A registration replaces the whole set of its window, after every entry   *)
(* has passed both checks.                                                  *)
RegisterTopLevelTerminals(w, terminals) ==
  \E live \in Prune(records) :
    /\ CanRegister(live, w, terminals)
    /\ topLevel' = [t \in Terminal |->
                      IF t \in terminals THEN w
                      ELSE IF topLevel[t] = w THEN None ELSE topLevel[t]]
    /\ records' = live
    /\ UNCHANGED <<nextId, reservations, spawn, stops, waits, cancelled, now>>

UnregisterWindow(w) ==
  /\ topLevel' = [t \in Terminal |-> IF topLevel[t] = w THEN None ELSE topLevel[t]]
  /\ UNCHANGED <<nextId, reservations, records, spawn, stops, waits, cancelled, now>>

-----------------------------------------------------------------------------
(* Reservations, attachment, detachment *)

Reserve(parent, kind) ==
  /\ nextId < MaxId
  /\ topLevel[parent] # None
  /\ nextId' = nextId + 1
  /\ reservations' = [reservations EXCEPT ![nextId + 1] =
       [parent |-> parent, window |-> topLevel[parent], kind |-> kind,
        detached |-> FALSE]]
  /\ spawn' = [spawn EXCEPT ![nextId + 1] = "routing"]
  /\ records' \in Prune(records)
  /\ UNCHANGED <<topLevel, stops, waits, cancelled, now>>

(* Called by the router once, after it has seen the record of an             *)
(* acknowledged spawn.  When shutdown has cleared the reservation it fails,  *)
(* and the router returns that error without a rollback.                     *)
FinishReservation(i) ==
  /\ spawn[i] = "attached"
  /\ spawn' = [spawn EXCEPT ![i] = "finished"]
  /\ reservations' = [reservations EXCEPT ![i] = None]
  /\ records' \in Prune(records)
  /\ UNCHANGED <<nextId, topLevel, stops, waits, cancelled, now>>

(* Slip: a record attached meanwhile survives the rollback. *)
RollbackReservationOnly(i) ==
  /\ Routing(i)
  /\ spawn' = [spawn EXCEPT ![i] = "rolledBack"]
  /\ reservations' = [reservations EXCEPT ![i] = None]
  /\ UNCHANGED <<nextId, topLevel, records, stops, waits, cancelled, now>>

RollbackReservation(i) ==
  /\ Routing(i)
  /\ spawn' = [spawn EXCEPT ![i] = "rolledBack"]
  /\ reservations' = [reservations EXCEPT ![i] = None]
  /\ records' = Without(records, {i})
  /\ UNCHANGED <<nextId, topLevel, stops, waits, cancelled, now>>

(* Slip: a detach that came before the attach is forgotten. *)
ReservedParent(reservation) == reservation.parent

ParentOf(reservation) == IF reservation.detached THEN None ELSE reservation.parent

NewRecord(reservation, terminal) ==
  [lifecycle |-> "running", terminal |-> terminal,
   parent |-> ParentOf(reservation),
   window |-> reservation.window, kind |-> reservation.kind, piState |-> None,
   input |-> TRUE, stop |-> TRUE, stopRequested |-> FALSE,
   result |-> None, resultSeq |-> None, revision |-> 0, ended |-> 0]

CanAttach(recs, i, terminal) ==
  /\ ~Exists(recs, i)
  /\ Reserved(i)
  /\ ~reservations[i].detached => topLevel[reservations[i].parent] # None
  /\ \A j \in Id : Exists(recs, j) => recs[j].terminal # terminal

(* The frontend attaches the terminal of a tab it has just created, whose   *)
(* id no window has registered as top-level.                                *)
Attach(i, terminal) ==
  \E live \in Prune(records) :
    /\ spawn[i] = "routing" /\ topLevel[terminal] = None
    /\ CanAttach(live, i, terminal)
    /\ records' = [live EXCEPT ![i] = NewRecord(reservations[i], terminal)]
    /\ spawn' = [spawn EXCEPT ![i] = "attached"]
    /\ UNCHANGED <<nextId, topLevel, reservations, stops, waits, cancelled, now>>

Bumped(record) == [record EXCEPT !.revision = @ + 1]

(* detach: all ids must belong to the parent, through the record or the     *)
(* reservation, before any of them changes.                                 *)
Detach(parent, ids) ==
  \E live \in Prune(records) :
    /\ \A i \in ids : \/ Exists(live, i) /\ live[i].parent = parent
                      \/ Reserved(i) /\ reservations[i].parent = parent
    /\ \A i \in ids : Exists(live, i) => live[i].revision < MaxRevision
    /\ records' = [i \in Id |-> IF i \in ids /\ Exists(live, i)
                                THEN [Bumped(live[i]) EXCEPT !.parent = None]
                                ELSE live[i]]
    /\ reservations' = [i \in Id |-> IF i \in ids /\ Reserved(i)
                                     THEN [reservations[i] EXCEPT !.detached = TRUE]
                                     ELSE reservations[i]]
    /\ UNCHANGED <<nextId, topLevel, spawn, stops, waits, cancelled, now>>

-----------------------------------------------------------------------------
(* Reports from the child *)

(* update_pi_state does not ask whether the record is still running. *)
UpdatePiState(i, state) ==
  \E live \in Prune(records) :
    /\ Exists(live, i)
    /\ live[i].piState # state
    /\ live[i].revision < MaxRevision
    /\ records' = [live EXCEPT ![i] = [Bumped(@) EXCEPT !.piState = state]]
    /\ UNCHANGED <<nextId, topLevel, reservations, spawn, stops, waits, cancelled, now>>

(* Slip: a report is taken from a child that has ended. *)
ResultOwnerEver(recs, i) == Exists(recs, i) /\ recs[i].kind = "pi"

(* validate_result_owner *)
ResultOwner(recs, i) == Running(recs, i) /\ recs[i].kind = "pi"

(* update_progress: the text itself is not told apart. *)
UpdateProgress(i) ==
  \E live \in Prune(records) :
    /\ ResultOwner(live, i)
    /\ live[i].revision < MaxRevision
    /\ records' = [live EXCEPT ![i] = Bumped(@)]
    /\ UNCHANGED <<nextId, topLevel, reservations, spawn, stops, waits, cancelled, now>>

(* Slip: unsequenced reports are always taken. *)
AcceptsLegacy(record, seq) ==
  (record.resultSeq # None /\ seq # Legacy) => record.resultSeq < seq

(* accept_result_sequence: sequenced mutations strictly increase, and once  *)
(* one was accepted an unsequenced report is refused.                       *)
Accepts(record, seq) ==
  record.resultSeq # None => seq # Legacy /\ record.resultSeq < seq

AcceptedSeq(record, seq) == IF seq = Legacy THEN record.resultSeq ELSE seq

UpdateResult(i, seq) ==
  \E live \in Prune(records) :
    /\ ResultOwner(live, i)
    /\ Accepts(live[i], seq)
    /\ live[i].revision < MaxRevision
    /\ records' = [live EXCEPT ![i] =
         [Bumped(@) EXCEPT !.result = seq, !.resultSeq = AcceptedSeq(live[i], seq)]]
    /\ UNCHANGED <<nextId, topLevel, reservations, spawn, stops, waits, cancelled, now>>

ClearResult(i, seq) ==
  \E live \in Prune(records) :
    /\ ResultOwner(live, i)
    /\ Accepts(live[i], seq)
    /\ live[i].revision < MaxRevision
    /\ records' = [live EXCEPT ![i] =
         [Bumped(@) EXCEPT !.result = None, !.resultSeq = seq]]
    /\ UNCHANGED <<nextId, topLevel, reservations, spawn, stops, waits, cancelled, now>>

-----------------------------------------------------------------------------
(* stop: mark the record and clone its handler under the lock, run the      *)
(* handler outside it, then undo the mark or drop the handlers.             *)

(* Slip: a stop that is under way is not noticed. *)
CanStopAgain(recs, i) == Running(recs, i)

CanStop(recs, i) == Running(recs, i) /\ ~recs[i].stopRequested

StopBegin(c, i) ==
  \E live \in Prune(records) :
    /\ stops[c].op = "idle"
    /\ CanStop(live, i)
    /\ records' = [live EXCEPT ![i].stopRequested = TRUE]
    /\ IF live[i].stop THEN stops' = [stops EXCEPT ![c] = [op |-> "calling", id |-> i]]
       ELSE UNCHANGED stops
    /\ UNCHANGED <<nextId, topLevel, reservations, spawn, waits, cancelled, now>>

(* The handler kills the child, or fails. *)
StopHandler(c, outcome) ==
  /\ stops[c].op = "calling"
  /\ stops' = [stops EXCEPT ![c].op = outcome]
  /\ UNCHANGED <<nextId, topLevel, reservations, records, spawn, waits, cancelled, now>>

(* Slip: a failed stop leaves its mark. *)
StopFailedMarked(c) ==
  /\ stops[c].op = "err"
  /\ stops' = [stops EXCEPT ![c] = NoStop]
  /\ UNCHANGED <<nextId, topLevel, reservations, records, spawn, waits, cancelled, now>>

StopFailed(c) ==
  LET i == stops[c].id IN
    /\ stops[c].op = "err"
    /\ records' = IF Running(records, i)
                  THEN [records EXCEPT ![i].stopRequested = FALSE]
                  ELSE records
    /\ stops' = [stops EXCEPT ![c] = NoStop]
    /\ UNCHANGED <<nextId, topLevel, reservations, spawn, waits, cancelled, now>>

Released(record) == [record EXCEPT !.input = FALSE, !.stop = FALSE]

StopDone(c) ==
  LET i == stops[c].id IN
    /\ stops[c].op = "ok"
    /\ records' = IF Exists(records, i) /\ records[i].stopRequested
                  THEN [records EXCEPT ![i] = Released(@)]
                  ELSE records
    /\ stops' = [stops EXCEPT ![c] = NoStop]
    /\ UNCHANGED <<nextId, topLevel, reservations, spawn, waits, cancelled, now>>

-----------------------------------------------------------------------------
(* Completion *)

(* Slip: an ended child keeps its handlers. *)
EndedHolding(record, lifecycle) ==
  [Bumped(record) EXCEPT !.lifecycle = lifecycle, !.ended = now]

Ended(record, lifecycle) ==
  [Bumped(Released(record)) EXCEPT !.lifecycle = lifecycle, !.ended = now]

ExitedAs(i) ==
  [records EXCEPT ![i] = Ended(@, IF records[i].stopRequested THEN "stopped" ELSE "exited")]

(* Slip: an exit does not prune. *)
ExitedUnpruned(i) ==
  /\ Running(records, i)
  /\ records' = ExitedAs(i)
  /\ UNCHANGED <<nextId, topLevel, reservations, spawn, stops, waits, cancelled, now>>

(* exited and failed ignore a record that no longer runs. *)
Exited(i) ==
  /\ Running(records, i)
  /\ records' \in Prune(ExitedAs(i))
  /\ UNCHANGED <<nextId, topLevel, reservations, spawn, stops, waits, cancelled, now>>

Failed(i) ==
  /\ Running(records, i)
  /\ records' \in Prune([records EXCEPT ![i] = Ended(@, "error")])
  /\ UNCHANGED <<nextId, topLevel, reservations, spawn, stops, waits, cancelled, now>>

(* shutdown: the handlers it takes are called after the unlock; in this     *)
(* module nothing depends on that.                                          *)
Shutdown ==
  /\ reservations' = [i \in Id |-> None]
  /\ records' \in Prune([i \in Id |->
       IF Running(records, i)
       THEN [Ended(records[i], "stopped") EXCEPT !.stopRequested = TRUE]
       ELSE IF Exists(records, i) THEN Released(records[i]) ELSE None])
  /\ UNCHANGED <<nextId, topLevel, spawn, stops, waits, cancelled, now>>

-----------------------------------------------------------------------------
(* wait_with_result_cancellable.  The condition variable is polled every    *)
(* 25 ms, so a waiter may look at the record again at any time.             *)

StillWaiting(recs, call) ==
  /\ Running(recs, call.id)
  /\ IF call.untilResult THEN recs[call.id].result = None
     ELSE recs[call.id].revision = call.revision

Outcome(c, outcome) == waits' = [waits EXCEPT ![c].op = outcome]

WaitBegin(c, i, untilResult) ==
  \E live \in Prune(records) :
    /\ waits[c].op = "idle"
    /\ Exists(live, i)
    /\ records' = live
    /\ waits' = [waits EXCEPT ![c] =
         [op |-> IF Running(live, i) /\ ~(untilResult /\ live[i].result # None)
                 THEN "waiting" ELSE "answered",
          id |-> i, revision |-> live[i].revision, untilResult |-> untilResult]]
    /\ UNCHANGED <<nextId, topLevel, reservations, spawn, stops, cancelled, now>>

(* Slip: a vanished record is taken for a spurious wakeup. *)
WaitWakePresent(c) ==
  /\ waits[c].op = "waiting"
  /\ Exists(records, waits[c].id) /\ ~StillWaiting(records, waits[c])
  /\ Outcome(c, "answered")
  /\ UNCHANGED <<nextId, topLevel, reservations, records, spawn, stops, cancelled, now>>

WaitWake(c) ==
  /\ waits[c].op = "waiting"
  /\ \/ ~Exists(records, waits[c].id) /\ Outcome(c, "gone")
     \/ /\ Exists(records, waits[c].id)
        /\ ~StillWaiting(records, waits[c])
        /\ Outcome(c, "answered")
  /\ UNCHANGED <<nextId, topLevel, reservations, records, spawn, stops, cancelled, now>>

WaitDeadline(c) ==
  /\ waits[c].op = "waiting"
  /\ Outcome(c, IF ~Exists(records, waits[c].id) THEN "gone"
                ELSE IF StillWaiting(records, waits[c]) THEN "timedOut"
                ELSE "answered")
  /\ UNCHANGED <<nextId, topLevel, reservations, records, spawn, stops, cancelled, now>>

(* The flag is looked at with the lock held, after the record was found to be *)
(* still waited for.                                                         *)
WaitCancelled(c) ==
  /\ waits[c].op = "waiting"
  /\ cancelled
  /\ Exists(records, waits[c].id) /\ StillWaiting(records, waits[c])
  /\ Outcome(c, "shutdown")
  /\ UNCHANGED <<nextId, topLevel, reservations, records, spawn, stops, cancelled, now>>

WaitReturn(c) ==
  /\ waits[c].op \in WaitOutcome
  /\ waits' = [waits EXCEPT ![c] = NoWait]
  /\ UNCHANGED <<nextId, topLevel, reservations, records, spawn, stops, cancelled, now>>

(* The control server is dropped: it raises its flag and wakes all waiters. *)
CancelWaits ==
  /\ ~cancelled
  /\ cancelled' = TRUE
  /\ UNCHANGED <<nextId, topLevel, reservations, records, spawn, stops, waits, now>>

-----------------------------------------------------------------------------
Terminals ==
  \/ \E w \in Window : \/ \E ts \in SUBSET Terminal : RegisterTopLevelTerminals(w, ts)
                       \/ UnregisterWindow(w)
  \/ \E t \in Terminal, kind \in Kind : Reserve(t, kind)
  \/ \E t \in Terminal, i \in Id : Attach(i, t)
  \/ \E t \in Terminal, ids \in (SUBSET Id) \ {{}} : Detach(t, ids)

Reports ==
  \E i \in Id :
    \/ \E state \in PiState : UpdatePiState(i, state)
    \/ UpdateProgress(i)
    \/ \E seq \in Sequence \cup {Legacy} : UpdateResult(i, seq)
    \/ \E seq \in Sequence : ClearResult(i, seq)

Stops ==
  \E c \in Stopper :
    \/ \E i \in Id : StopBegin(c, i)
    \/ \E outcome \in {"ok", "err"} : StopHandler(c, outcome)
    \/ StopFailed(c)
    \/ StopDone(c)

Waits ==
  \E c \in Waiter :
    \/ \E i \in Id, untilResult \in BOOLEAN : WaitBegin(c, i, untilResult)
    \/ WaitWake(c)
    \/ WaitDeadline(c)
    \/ WaitCancelled(c)
    \/ WaitReturn(c)
    \/ CancelWaits

Endings ==
  \/ \E i \in Id : FinishReservation(i) \/ RollbackReservation(i) \/ Exited(i) \/ Failed(i)
  \/ Shutdown

Next ==
  \/ Lock
  \/ Tick
  \/ Terminals
  \/ Reports
  \/ Stops
  \/ Waits
  \/ Endings

Spec == Init /\ [][Next]_vars

(* A waiter's 25 ms poll is the only step the registry itself guarantees.   *)
FairSpec == Spec /\ \A c \in Waiter : WF_vars(WaitWake(c))

-----------------------------------------------------------------------------
(* Properties *)

(* A terminal id names one thing: no two records hold the same terminal, and *)
(* no record's terminal is at the same time registered as a top-level parent *)
(* by some window (attach and register_top_level_terminals race).            *)
TerminalOwnedOnce ==
  \A i \in Id : Exists(records, i) =>
    /\ topLevel[records[i].terminal] = None
    /\ \A j \in Id \ {i} : Exists(records, j) => records[j].terminal # records[i].terminal

(* The input and stop capabilities of a child are released as soon as its    *)
(* record stops running, whichever of exit, failure, stop and shutdown wins. *)
CapabilitiesReleased ==
  \A i \in Completed(records) : ~records[i].input /\ ~records[i].stop

Stopping(c, i) == stops[c].op # "idle" /\ stops[c].id = i

(* A running record can be stopped, unless a stop is under way or its kill   *)
(* was delivered: stop_requested is never left set by a stop that failed.    *)
StopMarkBacked ==
  \A i \in Id : Running(records, i) =>
    IF records[i].stop
    THEN /\ records[i].input
         /\ records[i].stopRequested => \E c \in Stopper : Stopping(c, i)
    ELSE ~records[i].input /\ records[i].stopRequested

(* Two stop calls never run the handler of one record together.              *)
OneStopPerRecord ==
  \A i \in Id : \A c, d \in Stopper : Stopping(c, i) /\ Stopping(d, i) => c = d

(* A reservation lives only while its route call does, and a rolled back     *)
(* spawn leaves neither reservation nor record, however attach races it.     *)
RollbackIsFinal ==
  \A i \in Id : /\ Reserved(i) => Routing(i)
                /\ spawn[i] = "rolledBack" => ~Reserved(i) /\ ~Exists(records, i)

(* A subagent detached from its parent stays detached, also when the detach  *)
(* came before the PTY attached.                                             *)
DetachedHasNoParent ==
  \A i \in Id : Reserved(i) /\ Exists(records, i) =>
    records[i].parent = IF reservations[i].detached THEN None ELSE reservations[i].parent

(* At most completed_record_limit completed records exist between any two    *)
(* operations, not only right after a pruning one.                           *)
CompletedBounded == Cardinality(Completed(records)) <= CompletedLimit

(* The stored report is the newest accepted one: it carries the last accepted *)
(* sequence, or is an unsequenced report from before the first.              *)
ResultIsNewest ==
  \A i \in Id : Exists(records, i) /\ records[i].result # None =>
    IF records[i].result = Legacy THEN records[i].resultSeq = None
    ELSE records[i].resultSeq = records[i].result

(* A result, once sequenced, changes only by a mutation with a higher        *)
(* sequence: a late report never undoes a clear.                             *)
ResultNeverRegresses ==
  [][\A i \in Id : Exists(records, i) /\ Exists(records', i) =>
       \/ records'[i].result = records[i].result
       \/ records[i].resultSeq = None
       \/ records'[i].resultSeq # None /\ records'[i].resultSeq > records[i].resultSeq]_vars

(* "Active records are never pruned": a running record disappears only when  *)
(* its own spawn is rolled back, or when the step that ended it (shutdown     *)
(* ends many at once) filled the retention with records just as recent.       *)
RunningNeverPruned ==
  [][\A i \in Id : Running(records, i) /\ ~Exists(records', i) =>
       \/ Routing(i) /\ spawn'[i] = "rolledBack"
       \/ /\ Cardinality(Completed(records')) = CompletedLimit
          /\ \A j \in Completed(records') : records'[j].ended = now]_vars

EndTime(i) == IF Running(records, i) THEN now ELSE records[i].ended

(* Retention drops the oldest completions first: whatever a step drops, also  *)
(* a child that ends in that very step, ended before everything it keeps.     *)
NewestAreRetained ==
  [][\A i, j \in Id :
       (/\ Exists(records, i) /\ ~Exists(records', i)
        /\ spawn'[i] = spawn[i]
        /\ j \in Completed(records'))
       => EndTime(i) <= records'[j].ended]_vars

(* A completed record is history: neither a late report nor a second exit,   *)
(* failure, stop or shutdown changes how it ended or what it produced.       *)
CompletedIsFinal ==
  [][\A i \in Completed(records) : Exists(records', i) =>
       /\ records'[i].lifecycle = records[i].lifecycle
       /\ records'[i].ended = records[i].ended
       /\ records'[i].result = records[i].result
       /\ records'[i].resultSeq = records[i].resultSeq]_vars

(* A waiter never hangs on a subagent that has ended, was rolled back or was  *)
(* pruned while it waited.                                                    *)
WaiterSeesTheEnd ==
  \A c \in Waiter, i \in Id :
    (waits[c].op = "waiting" /\ waits[c].id = i /\ ~Running(records, i))
      ~> (waits[c].op # "waiting")
=============================================================================
