------------------------ MODULE SubagentRegistry_proofs ------------------------
(***************************************************************************)
(* Theorems about the subagent registry, for every value of its constants,  *)
(* in three parts: the type of its state; the safety invariants, which       *)
(* follow from what one step may do to one record (NextChanges); and that    *)
(* the registry implements the life cycle of subagents, because a step keeps *)
(* each record or forgets it once it is over, but for the one it is about.   *)
(***************************************************************************)
EXTENDS RegistryLifecycle, FiniteSetTheorems, TLAPS

-----------------------------------------------------------------------------
(* First part: types *)

Records == [Id -> Record \cup {None}]

-----------------------------------------------------------------------------
(* Pruning *)

(* Pruning keeps the type of the map, keeps a record as it is or drops it,   *)
(* and drops only completed records.                                         *)
LEMMA PruneKeeps ==
  ASSUME NEW recs \in Records, NEW live \in Prune(recs)
  PROVE  /\ live \in Records
         /\ \A i \in Id : \/ live[i] = recs[i]
                          \/ live[i] = None /\ Exists(recs, i) /\ ~Running(recs, i)
<1>1. PICK kept \in Retentions(recs) : live = Without(recs, Completed(recs) \ kept)
  BY DEF Prune
<1>2. live = [i \in Id |-> IF i \in Completed(recs) \ kept THEN None ELSE recs[i]]
  BY <1>1 DEF Without
<1>3. live \in Records
  BY <1>2 DEF Records
<1>4. ASSUME NEW i \in Id
      PROVE  \/ live[i] = recs[i]
             \/ live[i] = None /\ Exists(recs, i) /\ ~Running(recs, i)
  BY <1>2 DEF Completed, Running
<1> QED
  BY <1>3, <1>4

-----------------------------------------------------------------------------
(* The operations on one record stay within its type. *)

(* A new revision keeps a record's type. *)
LEMMA BumpedType == ASSUME NEW r \in Record PROVE Bumped(r) \in Record
BY DEF Bumped, Record

(* Releasing the handlers keeps a record's type. *)
LEMMA ReleasedType == ASSUME NEW r \in Record PROVE Released(r) \in Record
BY DEF Released, Record

(* Ending a record keeps its type. *)
LEMMA EndedType ==
  ASSUME NEW r \in Record, NEW lifecycle \in Lifecycle, now \in Nat
  PROVE  Ended(r, lifecycle) \in Record
<1> DEFINE held == Bumped(Released(r))
           named == [held EXCEPT !.lifecycle = lifecycle]
<1>1. held \in Record
  BY ReleasedType, BumpedType
<1>2. named \in Record
  <2> HIDE DEF held
  <2> QED
    BY <1>1 DEF Record
<1>3. [named EXCEPT !.ended = now] \in Record
  <2> HIDE DEF named
  <2> QED
    BY <1>2 DEF Record
<1> QED
  BY <1>3 DEF Ended

(* Ending a record and marking it, as shutdown does, keeps its type. *)
LEMMA EndedMarkType ==
  ASSUME NEW r \in Record, now \in Nat
  PROVE  [Ended(r, "stopped") EXCEPT !.stopRequested = TRUE] \in Record
<1> DEFINE ended == Ended(r, "stopped")
<1>1. ended \in Record
  BY EndedType DEF Lifecycle
<1> HIDE DEF ended
<1>2. [ended EXCEPT !.stopRequested = TRUE] \in Record
  BY <1>1 DEF Record
<1> QED
  BY <1>2 DEF ended

(* Storing a report keeps a record's type. *)
LEMMA ReportType ==
  ASSUME NEW r \in Record, NEW seq \in Sequence \cup {Legacy}
  PROVE  [Bumped(r) EXCEPT !.result = seq, !.resultSeq = AcceptedSeq(r, seq)] \in Record
<1> DEFINE reported == [Bumped(r) EXCEPT !.result = seq]
<1>1. seq \in Nat /\ AcceptedSeq(r, seq) \in Nat \cup {None}
  BY DEF AcceptedSeq, Sequence, Legacy, Record
<1>2. reported \in Record
  BY <1>1, BumpedType DEF Record
<1> HIDE DEF reported
<1>3. [reported EXCEPT !.resultSeq = AcceptedSeq(r, seq)] \in Record
  BY <1>1, <1>2 DEF Record
<1> QED
  BY <1>3 DEF reported

(* Clearing the report keeps a record's type. *)
LEMMA ClearType ==
  ASSUME NEW r \in Record, NEW seq \in Sequence
  PROVE  [Bumped(r) EXCEPT !.result = None, !.resultSeq = seq] \in Record
<1> DEFINE cleared == [Bumped(r) EXCEPT !.result = None]
<1>1. cleared \in Record
  BY BumpedType DEF Record
<1> HIDE DEF cleared
<1>2. [cleared EXCEPT !.resultSeq = seq] \in Record
  BY <1>1 DEF Record, Sequence
<1> QED
  BY <1>2 DEF cleared

(* The record of an attached reservation is a record. *)
LEMMA NewRecordType ==
  ASSUME NEW reservation \in Reservation, NEW terminal \in Terminal
  PROVE  NewRecord(reservation, terminal) \in Record
BY DEF NewRecord, ParentOf, Reservation, Record, Lifecycle

-----------------------------------------------------------------------------
(* Type correctness *)

(* The initial state has its type. *)
LEMMA TypeInit == Init => TypeOK
<1> SUFFICES ASSUME Init PROVE TypeOK
  OBVIOUS
<1>1. nextId \in 0 .. MaxId /\ now \in Nat
  BY RegistryAssumption DEF Init
<1>2. /\ topLevel \in [Terminal -> Window \cup {None}]
      /\ reservations \in [Id -> Reservation \cup {None}]
      /\ records \in [Id -> Record \cup {None}]
  BY DEF Init
<1>3. /\ spawn \in [Id -> {"none", "routing", "attached", "finished", "rolledBack"}]
      /\ stops \in [Stopper -> StopCall \cup {NoStop}]
      /\ waits \in [Waiter -> WaitCall \cup {NoWait}]
  BY DEF Init
<1>4. cancelled \in BOOLEAN
  BY DEF Init
<1> QED
  BY <1>1, <1>2, <1>3, <1>4 DEF TypeOK

(* Every step keeps the type of the state. *)
LEMMA TypeNext == TypeOK /\ [Next]_vars => TypeOK'
<1> SUFFICES ASSUME TypeOK, [Next]_vars PROVE TypeOK'
  OBVIOUS
<1> USE RegistryAssumption, NoneAssumption DEF TypeOK
<1>0. records \in Records
  BY DEF Records
<1>1. CASE Lock
  BY <1>0, <1>1, PruneKeeps DEF Lock, Records
<1>2. CASE Tick
  BY <1>2 DEF Tick
<1>3. CASE Terminals
  <2>1. ASSUME NEW w \in Window, NEW ts \in SUBSET Terminal,
               RegisterTopLevelTerminals(w, ts)
        PROVE  TypeOK'
    BY <1>0, <2>1, PruneKeeps DEF RegisterTopLevelTerminals, Records
  <2>2. ASSUME NEW w \in Window, UnregisterWindow(w)
        PROVE  TypeOK'
    BY <2>2 DEF UnregisterWindow
  <2>3. ASSUME NEW t \in Terminal, NEW kind \in Kind, Reserve(t, kind)
        PROVE  TypeOK'
    <3>1. records' \in Records
      BY <1>0, <2>3, PruneKeeps DEF Reserve
    <3>2. nextId + 1 \in Id /\ nextId' \in 0 .. MaxId
      BY <2>3 DEF Reserve, Id
    <3>3. reservations' \in [Id -> Reservation \cup {None}]
      BY <2>3, <3>2 DEF Reserve, Reservation
    <3> QED
      BY <2>3, <3>1, <3>2, <3>3 DEF Reserve, Records
  <2>4. ASSUME NEW t \in Terminal, NEW i \in Id, Attach(i, t)
        PROVE  TypeOK'
    <3>1. PICK live \in Prune(records) :
            /\ CanAttach(live, i, t)
            /\ records' = [live EXCEPT ![i] = NewRecord(reservations[i], t)]
            /\ spawn' = [spawn EXCEPT ![i] = "attached"]
            /\ UNCHANGED <<nextId, topLevel, reservations, stops, waits, cancelled, now>>
      BY <2>4 DEF Attach
    <3>2. NewRecord(reservations[i], t) \in Record
      BY <3>1, NewRecordType DEF CanAttach, Reserved
    <3> QED
      BY <1>0, <3>1, <3>2, PruneKeeps DEF Records
  <2>5. ASSUME NEW t \in Terminal, NEW ids \in (SUBSET Id) \ {{}}, Detach(t, ids)
        PROVE  TypeOK'
    <3>1. PICK live \in Prune(records) :
            /\ records' = [i \in Id |-> IF i \in ids /\ Exists(live, i)
                                        THEN [Bumped(live[i]) EXCEPT !.parent = None]
                                        ELSE live[i]]
            /\ reservations' = [i \in Id |-> IF i \in ids /\ Reserved(i)
                                     THEN [reservations[i] EXCEPT !.detached = TRUE]
                                     ELSE reservations[i]]
            /\ UNCHANGED <<nextId, topLevel, spawn, stops, waits, cancelled, now>>
      BY <2>5 DEF Detach
    <3>2. live \in Records
      BY <1>0, PruneKeeps
    <3>3. ASSUME NEW r \in Record PROVE [Bumped(r) EXCEPT !.parent = None] \in Record
      BY BumpedType DEF Record
    <3>4. records' \in Records
      BY <3>1, <3>2, <3>3 DEF Records, Exists
    <3>5. reservations' \in [Id -> Reservation \cup {None}]
      <4>1. ASSUME NEW reservation \in Reservation
            PROVE  [reservation EXCEPT !.detached = TRUE] \in Reservation
        BY DEF Reservation
      <4> QED
        BY <3>1, <4>1 DEF Reserved
    <3> QED
      BY <3>1, <3>4, <3>5 DEF Records
  <2> QED
    BY <1>3, <2>1, <2>2, <2>3, <2>4, <2>5 DEF Terminals
<1>4. CASE Reports
  <2>1. ASSUME NEW i \in Id, NEW state \in PiState, UpdatePiState(i, state)
        PROVE  TypeOK'
    <3>1. PICK live \in Prune(records) :
            /\ Exists(live, i)
            /\ records' = [live EXCEPT ![i] = [Bumped(@) EXCEPT !.piState = state]]
            /\ UNCHANGED <<nextId, topLevel, reservations, spawn, stops, waits, cancelled, now>>
      BY <2>1 DEF UpdatePiState
    <3>2. [Bumped(live[i]) EXCEPT !.piState = state] \in Record
      BY <1>0, <3>1, PruneKeeps, BumpedType DEF Records, Exists, Record
    <3> QED
      BY <1>0, <3>1, <3>2, PruneKeeps DEF Records
  <2>2. ASSUME NEW i \in Id, UpdateProgress(i)
        PROVE  TypeOK'
    BY <1>0, <2>2, PruneKeeps, BumpedType
    DEF UpdateProgress, ResultOwner, Running, Exists, Records
  <2>3. ASSUME NEW i \in Id, NEW seq \in Sequence \cup {Legacy}, UpdateResult(i, seq)
        PROVE  TypeOK'
    <3>1. PICK live \in Prune(records) :
            /\ Exists(live, i)
            /\ records' = [live EXCEPT ![i] =
                 [Bumped(@) EXCEPT !.result = seq, !.resultSeq = AcceptedSeq(live[i], seq)]]
            /\ UNCHANGED <<nextId, topLevel, reservations, spawn, stops, waits, cancelled, now>>
      BY <2>3 DEF UpdateResult, ResultOwner, Running
    <3>2. live[i] \in Record /\ live \in Records
      BY <1>0, <3>1, PruneKeeps DEF Records, Exists
    <3>4. [Bumped(live[i]) EXCEPT !.result = seq, !.resultSeq = AcceptedSeq(live[i], seq)]
            \in Record
      BY <3>2, ReportType
    <3> QED
      BY <3>1, <3>2, <3>4 DEF Records
  <2>4. ASSUME NEW i \in Id, NEW seq \in Sequence, ClearResult(i, seq)
        PROVE  TypeOK'
    <3>1. PICK live \in Prune(records) :
            /\ Exists(live, i)
            /\ records' = [live EXCEPT ![i] =
                 [Bumped(@) EXCEPT !.result = None, !.resultSeq = seq]]
            /\ UNCHANGED <<nextId, topLevel, reservations, spawn, stops, waits, cancelled, now>>
      BY <2>4 DEF ClearResult, ResultOwner, Running
    <3>2. live[i] \in Record /\ live \in Records
      BY <1>0, <3>1, PruneKeeps DEF Records, Exists
    <3>3. [Bumped(live[i]) EXCEPT !.result = None, !.resultSeq = seq] \in Record
      BY <3>2, ClearType
    <3> QED
      BY <3>1, <3>2, <3>3 DEF Records
  <2> QED
    BY <1>4, <2>1, <2>2, <2>3, <2>4 DEF Reports
<1>5. CASE Stops
  <2> SUFFICES ASSUME NEW c \in Stopper,
                      \/ \E i \in Id : StopBegin(c, i)
                      \/ \E outcome \in {"ok", "err"} : StopHandler(c, outcome)
                      \/ StopFailed(c)
                      \/ StopDone(c)
               PROVE  TypeOK'
    BY <1>5 DEF Stops
  <2> USE DEF StopCall, NoStop
  <2>1. ASSUME NEW i \in Id, StopBegin(c, i)
        PROVE  TypeOK'
    <3>1. PICK live \in Prune(records) :
            /\ CanStop(live, i)
            /\ records' = [live EXCEPT ![i].stopRequested = TRUE]
      BY <2>1 DEF StopBegin
    <3>2. live \in Records /\ live[i] \in Record
      BY <1>0, <3>1, PruneKeeps DEF Records, CanStop, Running, Exists
    <3>3. records' \in Records
      BY <3>1, <3>2 DEF Records, Record
    <3> QED
      BY <2>1, <3>3 DEF StopBegin, Records
  <2>2. ASSUME NEW outcome \in {"ok", "err"}, StopHandler(c, outcome)
        PROVE  TypeOK'
    BY <2>2 DEF StopHandler
  <2>3. CASE StopFailed(c)
    <3>1. stops[c].id \in Id
      BY <2>3 DEF StopFailed
    <3>2. records' \in Records
      <4>1. ASSUME NEW r \in Record
            PROVE  [r EXCEPT !.stopRequested = FALSE] \in Record
        BY DEF Record
      <4>2. records' = IF Running(records, stops[c].id)
                       THEN [records EXCEPT ![stops[c].id] = [@ EXCEPT !.stopRequested = FALSE]]
                       ELSE records
        BY <2>3 DEF StopFailed
      <4> QED
        BY <1>0, <3>1, <4>1, <4>2 DEF Running, Exists, Records
    <3> QED
      BY <2>3, <3>2 DEF StopFailed, Records
  <2>4. CASE StopDone(c)
    <3>1. stops[c].id \in Id
      BY <2>4 DEF StopDone
    <3>2. records' \in Records
      BY <1>0, <2>4, <3>1, ReleasedType DEF StopDone, Exists, Records
    <3> QED
      BY <2>4, <3>2 DEF StopDone, Records
  <2> QED
    BY <2>1, <2>2, <2>3, <2>4
<1>6. CASE Waits
  <2> SUFFICES ASSUME NEW c \in Waiter,
                      \/ \E i \in Id, untilResult \in BOOLEAN : WaitBegin(c, i, untilResult)
                      \/ WaitWake(c)
                      \/ WaitDeadline(c)
                      \/ WaitCancelled(c)
                      \/ WaitReturn(c)
                      \/ CancelWaits
               PROVE  TypeOK'
    BY <1>6 DEF Waits
  <2> USE DEF WaitCall, NoWait, WaitOutcome
  <2>1. ASSUME NEW i \in Id, NEW untilResult \in BOOLEAN, WaitBegin(c, i, untilResult)
        PROVE  TypeOK'
    <3>1. PICK live \in Prune(records) :
            /\ Exists(live, i)
            /\ records' = live
            /\ waits' = [waits EXCEPT ![c] =
                 [op |-> IF Running(live, i) /\ ~(untilResult /\ live[i].result # None)
                         THEN "waiting" ELSE "answered",
                  id |-> i, revision |-> live[i].revision, untilResult |-> untilResult]]
      BY <2>1 DEF WaitBegin
    <3>2. live \in Records /\ live[i].revision \in Nat
      BY <1>0, <3>1, PruneKeeps DEF Records, Exists, Record
    <3>3. waits' \in [Waiter -> WaitCall \cup {NoWait}]
      BY <3>1, <3>2
    <3> QED
      BY <2>1, <3>1, <3>2, <3>3 DEF WaitBegin, Records
  <2>2. ASSUME NEW outcome \in WaitOutcome, waits[c].op = "waiting", Outcome(c, outcome)
        PROVE  waits' \in [Waiter -> WaitCall \cup {NoWait}]
    BY <2>2 DEF Outcome
  <2>3. CASE WaitWake(c)
    BY <2>2, <2>3 DEF WaitWake
  <2>4. CASE WaitDeadline(c)
    BY <2>2, <2>4 DEF WaitDeadline
  <2>5. CASE WaitCancelled(c)
    BY <2>2, <2>5 DEF WaitCancelled
  <2>6. CASE WaitReturn(c)
    BY <2>6 DEF WaitReturn
  <2>7. CASE CancelWaits
    BY <2>7 DEF CancelWaits
  <2> QED
    BY <2>1, <2>3, <2>4, <2>5, <2>6, <2>7
<1>7. CASE Endings
  <2>1. ASSUME NEW i \in Id, FinishReservation(i)
        PROVE  TypeOK'
    BY <1>0, <2>1, PruneKeeps DEF FinishReservation, Records
  <2>2. ASSUME NEW i \in Id, RollbackReservation(i)
        PROVE  TypeOK'
    BY <2>2 DEF RollbackReservation, Without
  <2>3. ASSUME NEW i \in Id, Exited(i)
        PROVE  TypeOK'
    <3>1. ExitedAs(i) \in Records
      BY <1>0, <2>3, EndedType DEF Exited, ExitedAs, Running, Exists, Records, Lifecycle
    <3> QED
      BY <2>3, <3>1, PruneKeeps DEF Exited, Records
  <2>4. ASSUME NEW i \in Id, Failed(i)
        PROVE  TypeOK'
    <3>1. [records EXCEPT ![i] = Ended(@, "error")] \in Records
      BY <1>0, <2>4, EndedType DEF Failed, Running, Exists, Records, Lifecycle
    <3> QED
      BY <2>4, <3>1, PruneKeeps DEF Failed, Records
  <2>5. CASE Shutdown
    <3> DEFINE stopped == [i \in Id |->
                 IF Running(records, i)
                 THEN [Ended(records[i], "stopped") EXCEPT !.stopRequested = TRUE]
                 ELSE IF Exists(records, i) THEN Released(records[i]) ELSE None]
    <3>2. stopped \in Records
      BY <1>0, EndedMarkType, ReleasedType DEF Records, Running, Exists
    <3>3. records' \in Prune(stopped)
      BY <2>5 DEF Shutdown
    <3> HIDE DEF stopped
    <3> QED
      BY <2>5, <3>2, <3>3, PruneKeeps DEF Shutdown, Records
  <2> QED
    BY <1>7, <2>1, <2>2, <2>3, <2>4, <2>5 DEF Endings
<1>8. CASE UNCHANGED vars
  BY <1>8 DEF vars
<1> QED
  BY <1>1, <1>2, <1>3, <1>4, <1>5, <1>6, <1>7, <1>8 DEF Next

(* The registry's state always has its type. *)
THEOREM TypeCorrect == Spec => []TypeOK
BY TypeInit, TypeNext, PTL DEF Spec

-----------------------------------------------------------------------------
(* Second part: safety *)

(* What an operation may do to a record it keeps: only Detach, one of the     *)
(* operations grouped as Terminals, changes its parent.                      *)
NewReport(r, s) ==
  \/ s.result = Legacy /\ r.resultSeq = None /\ s.resultSeq = None
  \/ /\ s.resultSeq \in Sequence
     /\ r.resultSeq # None => r.resultSeq < s.resultSeq
     /\ s.result \in {None, s.resultSeq}

Updated(r, s) ==
  /\ s.terminal = r.terminal
  /\ s.parent = r.parent \/ Terminals
  /\ \/ s.lifecycle = r.lifecycle /\ s.ended = r.ended
     \/ r.lifecycle = "running" /\ s.lifecycle # "running" /\ ~s.input /\ ~s.stop
  /\ r.lifecycle # "running" => (s.input => r.input) /\ (s.stop => r.stop)
  /\ \/ s.result = r.result /\ s.resultSeq = r.resultSeq
     \/ r.lifecycle = "running" /\ s.lifecycle = "running" /\ NewReport(r, s)

(* Only a stop call touches the handlers and the mark of a running record.   *)
Quiet(r, s) ==
  s.lifecycle = "running" =>
    s.input = r.input /\ s.stop = r.stop /\ s.stopRequested = r.stopRequested

Changed(i) ==
  \/ records'[i] = None
  \/ /\ Exists(records, i) /\ Exists(records', i)
     /\ Updated(records[i], records'[i])
     /\ Stops \/ Quiet(records[i], records'[i])
  \/ /\ spawn[i] = "routing" /\ spawn'[i] = "attached"
     /\ Reserved(i)
     /\ \E t \in Terminal :
          /\ records'[i] = NewRecord(reservations[i], t)
          /\ topLevel[t] = None
          /\ \A j \in Id \ {i} : Exists(records', j) => records'[j].terminal # t

-----------------------------------------------------------------------------
(* The operations on one record *)

(* Keeping a record is an update. *)
LEMMA KeptUpdated == ASSUME NEW r \in Record PROVE Updated(r, r) /\ Quiet(r, r)
BY DEF Updated, Quiet

(* A new revision is an update that leaves the handlers alone. *)
LEMMA BumpedUpdated ==
  ASSUME NEW r \in Record PROVE Updated(r, Bumped(r)) /\ Quiet(r, Bumped(r))
BY DEF Updated, Quiet, Bumped, Record

(* Releasing the handlers is an update, quiet on a completed record. *)
LEMMA ReleasedUpdated ==
  ASSUME NEW r \in Record
  PROVE  /\ Updated(r, Released(r))
         /\ r.lifecycle # "running" => Quiet(r, Released(r))
BY DEF Updated, Quiet, Released, Record

(* Ending a running record is an update, by an exit or by the shutdown. *)
LEMMA EndedUpdated ==
  ASSUME NEW r \in Record, NEW lifecycle \in Lifecycle \ {"running"},
         r.lifecycle = "running"
  PROVE  /\ Updated(r, Ended(r, lifecycle))
         /\ Quiet(r, Ended(r, lifecycle))
         /\ Updated(r, [Ended(r, lifecycle) EXCEPT !.stopRequested = TRUE])
         /\ Quiet(r, [Ended(r, lifecycle) EXCEPT !.stopRequested = TRUE])
BY DEF Updated, Quiet, Ended, Bumped, Released, Record

(* Marking a record as being stopped, or unmarking it, is an update. *)
LEMMA MarkedUpdated ==
  ASSUME NEW r \in Record, NEW b \in BOOLEAN
  PROVE  Updated(r, [r EXCEPT !.stopRequested = b])
BY DEF Updated, Record

(* Dropping the parent is an update when a Terminals step does it. *)
LEMMA DetachedUpdated ==
  ASSUME NEW r \in Record, Terminals
  PROVE  /\ Updated(r, [Bumped(r) EXCEPT !.parent = None])
         /\ Quiet(r, [Bumped(r) EXCEPT !.parent = None])
BY DEF Updated, Quiet, Bumped, Record

(* A new Pi state is an update that leaves the handlers alone. *)
LEMMA StateUpdated ==
  ASSUME NEW r \in Record, NEW state \in PiState
  PROVE  /\ Updated(r, [Bumped(r) EXCEPT !.piState = state])
         /\ Quiet(r, [Bumped(r) EXCEPT !.piState = state])
BY DEF Updated, Quiet, Bumped, Record

(* An accepted report is an update that brings a new report. *)
LEMMA ReportUpdated ==
  ASSUME NEW r \in Record, NEW seq \in Sequence \cup {Legacy},
         r.lifecycle = "running", Accepts(r, seq)
  PROVE  /\ Updated(r, [Bumped(r) EXCEPT !.result = seq, !.resultSeq = AcceptedSeq(r, seq)])
         /\ Quiet(r, [Bumped(r) EXCEPT !.result = seq, !.resultSeq = AcceptedSeq(r, seq)])
BY DEF Updated, Quiet, NewReport, Bumped, Record, Accepts, AcceptedSeq, Sequence, Legacy

(* An accepted clear is an update that brings a new report. *)
LEMMA ClearUpdated ==
  ASSUME NEW r \in Record, NEW seq \in Sequence,
         r.lifecycle = "running", Accepts(r, seq)
  PROVE  /\ Updated(r, [Bumped(r) EXCEPT !.result = None, !.resultSeq = seq])
         /\ Quiet(r, [Bumped(r) EXCEPT !.result = None, !.resultSeq = seq])
BY DEF Updated, Quiet, NewReport, Bumped, Record, Accepts, Sequence, Legacy

-----------------------------------------------------------------------------
(* One step *)

(* A record that a step keeps as it is, prunes, or replaces by an update of   *)
(* what pruning left of it.                                                  *)
LEMMA PrunedUpdate ==
  ASSUME records \in Records, NEW live \in Prune(records), NEW i \in Id,
         \/ records'[i] = live[i]
         \/ /\ Exists(live, i) /\ Exists(records', i)
            /\ Updated(live[i], records'[i])
            /\ Stops \/ Quiet(live[i], records'[i])
  PROVE  Changed(i)
<1>1. live[i] = records[i] \/ live[i] = None
  BY PruneKeeps
<1>2. records[i] # None => records[i] \in Record
  BY DEF Records
<1> QED
  BY <1>1, <1>2, KeptUpdated DEF Changed, Exists

(* A step that updates one record, or none, of the pruned map. *)
LEMMA UpdatedThenPruned ==
  ASSUME records \in Records, NEW recs \in Records, records' \in Prune(recs), NEW i \in Id,
         \/ recs[i] = records[i]
         \/ /\ Exists(records, i)
            /\ Updated(records[i], recs[i])
            /\ Quiet(records[i], recs[i])
  PROVE  Changed(i)
<1>1. records'[i] = recs[i] \/ records'[i] = None
  BY PruneKeeps
<1>2. records[i] # None => records[i] \in Record
  BY DEF Records
<1> QED
  BY <1>1, <1>2, KeptUpdated DEF Changed, Exists

(* What any step may do to one record. *)
LEMMA NextChanges ==
  ASSUME TypeOK, [Next]_vars, NEW i \in Id
  PROVE  Changed(i)
<1>0. records \in Records
  BY DEF TypeOK, Records
<1>a. ASSUME records' = records PROVE Changed(i)
  BY <1>0, <1>a, KeptUpdated DEF Changed, Exists, Records
<1>b. ASSUME records' \in Prune(records) PROVE Changed(i)
  BY <1>0, <1>b, UpdatedThenPruned
<1>c. ASSUME NEW j \in Id, NEW live \in Prune(records), NEW r \in Record,
             Exists(live, j), Updated(live[j], r), Stops \/ Quiet(live[j], r), records' = [live EXCEPT ![j] = r]
      PROVE  Changed(i)
  <2>1. live \in Records
    BY <1>0, PruneKeeps
  <2>2. CASE i = j
    <3>1. records'[i] = r /\ r # None
      BY <1>c, <2>1, <2>2, NoneAssumption DEF Records
    <3> QED
      BY <1>0, <1>c, <2>2, <3>1, PrunedUpdate DEF Exists
  <2>3. CASE i # j
    BY <1>0, <1>c, <2>1, <2>3, PrunedUpdate DEF Records
  <2> QED
    BY <2>2, <2>3
<1>1. CASE Lock
  BY <1>b, <1>1 DEF Lock
<1>2. CASE Tick
  BY <1>a, <1>2 DEF Tick
<1>3. CASE Terminals
  <2>1. ASSUME NEW w \in Window, NEW ts \in SUBSET Terminal,
               RegisterTopLevelTerminals(w, ts)
        PROVE  Changed(i)
    BY <1>b, <2>1 DEF RegisterTopLevelTerminals
  <2>2. ASSUME NEW w \in Window, UnregisterWindow(w)
        PROVE  Changed(i)
    BY <1>a, <2>2 DEF UnregisterWindow
  <2>3. ASSUME NEW t \in Terminal, NEW kind \in Kind, Reserve(t, kind)
        PROVE  Changed(i)
    BY <1>b, <2>3 DEF Reserve
  <2>4. ASSUME NEW t \in Terminal, NEW j \in Id, Attach(j, t)
        PROVE  Changed(i)
    <3>1. PICK live \in Prune(records) :
            /\ spawn[j] = "routing" /\ topLevel[t] = None
            /\ CanAttach(live, j, t)
            /\ records' = [live EXCEPT ![j] = NewRecord(reservations[j], t)]
      BY <2>4 DEF Attach
    <3>2. live \in Records
      BY <1>0, PruneKeeps
    <3>3. CASE i = j
      BY <2>4, <3>1, <3>2, <3>3 DEF Attach, Changed, CanAttach, Records, Exists, TypeOK
    <3>4. CASE i # j
      BY <1>0, <3>1, <3>2, <3>4, PrunedUpdate DEF Records
    <3> QED
      BY <3>3, <3>4
  <2>5. ASSUME NEW t \in Terminal, NEW ids \in (SUBSET Id) \ {{}}, Detach(t, ids)
        PROVE  Changed(i)
    <3>1. PICK live \in Prune(records) :
            records' = [j \in Id |-> IF j \in ids /\ Exists(live, j)
                                     THEN [Bumped(live[j]) EXCEPT !.parent = None]
                                     ELSE live[j]]
      BY <2>5 DEF Detach
    <3>2. live[i] \in Record \cup {None}
      BY <1>0, PruneKeeps DEF Records
    <3>3. CASE i \in ids /\ Exists(live, i)
      <4>1. records'[i] = [Bumped(live[i]) EXCEPT !.parent = None]
        BY <3>1, <3>3
      <4>2. records'[i] \in Record
        BY <3>2, <3>3, <4>1, BumpedType DEF Exists, Record
      <4> QED
        BY <1>0, <1>3, <3>2, <3>3, <4>1, <4>2, DetachedUpdated, PrunedUpdate, NoneAssumption
        DEF Exists
    <3>4. CASE ~(i \in ids /\ Exists(live, i))
      BY <1>0, <3>1, <3>4, PrunedUpdate
    <3> QED
      BY <3>3, <3>4
  <2> QED
    BY <1>3, <2>1, <2>2, <2>3, <2>4, <2>5 DEF Terminals
<1>4. CASE Reports
  <2>1. ASSUME NEW j \in Id, NEW live \in Prune(records), Exists(live, j)
        PROVE  live[j] \in Record
    BY <1>0, <2>1, PruneKeeps DEF Records, Exists
  <2>2. ASSUME NEW j \in Id, NEW state \in PiState, UpdatePiState(j, state)
        PROVE  Changed(i)
    <3>1. PICK live \in Prune(records) :
            /\ Exists(live, j)
            /\ records' = [live EXCEPT ![j] = [Bumped(@) EXCEPT !.piState = state]]
      BY <2>2 DEF UpdatePiState
    <3>2. [Bumped(live[j]) EXCEPT !.piState = state] \in Record
      BY <2>1, <3>1, BumpedType DEF Record
    <3> QED
      BY <1>c, <2>1, <3>1, <3>2, StateUpdated
  <2>3. ASSUME NEW j \in Id, UpdateProgress(j)
        PROVE  Changed(i)
    BY <1>c, <2>1, <2>3, BumpedType, BumpedUpdated DEF UpdateProgress, ResultOwner, Running
  <2>4. ASSUME NEW j \in Id, NEW seq \in Sequence \cup {Legacy}, UpdateResult(j, seq)
        PROVE  Changed(i)
    <3>1. PICK live \in Prune(records) :
            /\ Exists(live, j) /\ live[j].lifecycle = "running"
            /\ Accepts(live[j], seq)
            /\ records' = [live EXCEPT ![j] =
                 [Bumped(@) EXCEPT !.result = seq, !.resultSeq = AcceptedSeq(live[j], seq)]]
      BY <2>4 DEF UpdateResult, ResultOwner, Running
    <3>2. [Bumped(live[j]) EXCEPT !.result = seq, !.resultSeq = AcceptedSeq(live[j], seq)]
            \in Record
      BY <2>1, <3>1, ReportType
    <3> QED
      BY <1>c, <2>1, <3>1, <3>2, ReportUpdated
  <2>5. ASSUME NEW j \in Id, NEW seq \in Sequence, ClearResult(j, seq)
        PROVE  Changed(i)
    <3>1. PICK live \in Prune(records) :
            /\ Exists(live, j) /\ live[j].lifecycle = "running"
            /\ Accepts(live[j], seq)
            /\ records' = [live EXCEPT ![j] =
                 [Bumped(@) EXCEPT !.result = None, !.resultSeq = seq]]
      BY <2>5 DEF ClearResult, ResultOwner, Running
    <3>2. [Bumped(live[j]) EXCEPT !.result = None, !.resultSeq = seq] \in Record
      BY <2>1, <3>1, ClearType
    <3> QED
      BY <1>c, <2>1, <3>1, <3>2, ClearUpdated
  <2> QED
    BY <1>4, <2>2, <2>3, <2>4, <2>5 DEF Reports
<1>5. CASE Stops
  <2> USE <1>5
  <2> SUFFICES ASSUME NEW c \in Stopper,
                      \/ \E j \in Id : StopBegin(c, j)
                      \/ \E outcome \in {"ok", "err"} : StopHandler(c, outcome)
                      \/ StopFailed(c)
                      \/ StopDone(c)
               PROVE  Changed(i)
    BY <1>5 DEF Stops
  <2>1. ASSUME NEW j \in Id, StopBegin(c, j)
        PROVE  Changed(i)
    <3>1. PICK live \in Prune(records) :
            /\ CanStop(live, j)
            /\ records' = [live EXCEPT ![j] = [@ EXCEPT !.stopRequested = TRUE]]
      BY <2>1 DEF StopBegin
    <3>2. live[j] \in Record /\ Exists(live, j)
      BY <1>0, <3>1, PruneKeeps DEF Records, CanStop, Running, Exists
    <3>3. [live[j] EXCEPT !.stopRequested = TRUE] \in Record
      BY <3>2 DEF Record
    <3> QED
      BY <1>c, <3>1, <3>2, <3>3, MarkedUpdated
  <2>2. ASSUME NEW outcome \in {"ok", "err"}, StopHandler(c, outcome)
        PROVE  Changed(i)
    BY <1>a, <2>2 DEF StopHandler
  <2>3. CASE StopFailed(c)
    <3>1. records' = IF Running(records, stops[c].id)
                     THEN [records EXCEPT ![stops[c].id] = [@ EXCEPT !.stopRequested = FALSE]]
                     ELSE records
      BY <2>3 DEF StopFailed
    <3>2. ASSUME NEW r \in Record PROVE [r EXCEPT !.stopRequested = FALSE] \in Record
      BY DEF Record
    <3>3. CASE Running(records, i) /\ stops[c].id = i
      <4>1. records'[i] = [records[i] EXCEPT !.stopRequested = FALSE] /\ records[i] \in Record
        BY <1>0, <3>1, <3>3 DEF Records, Running, Exists
      <4> QED
        BY <3>2, <3>3, <4>1, MarkedUpdated, NoneAssumption DEF Changed, Running, Exists
    <3>4. CASE ~(Running(records, i) /\ stops[c].id = i)
      <4>1. records'[i] = records[i]
        BY <1>0, <3>1, <3>4 DEF Records
      <4> QED
        BY <1>0, <4>1, KeptUpdated DEF Changed, Exists, Records
    <3> QED
      BY <3>3, <3>4
  <2>4. CASE StopDone(c)
    <3>1. records' = records \/ records' = [records EXCEPT ![stops[c].id] = Released(@)]
      BY <2>4 DEF StopDone
    <3>2. CASE records'[i] = records[i]
      BY <1>0, <3>2, KeptUpdated DEF Changed, Exists, Records
    <3>3. CASE records'[i] # records[i]
      <4>1. stops[c].id = i /\ Exists(records, i)
        BY <1>0, <2>4, <3>1, <3>3 DEF Records, StopDone, Exists
      <4>2. records'[i] = Released(records[i]) /\ records[i] \in Record
        BY <1>0, <3>1, <3>3, <4>1 DEF Records, Exists
      <4> QED
        BY <4>1, <4>2, ReleasedUpdated, ReleasedType, NoneAssumption DEF Changed, Exists
    <3> QED
      BY <3>2, <3>3
  <2> QED
    BY <2>1, <2>2, <2>3, <2>4
<1>6. CASE Waits
  BY <1>a, <1>b, <1>6
  DEF Waits, WaitBegin, WaitWake, WaitDeadline, WaitCancelled, WaitReturn, CancelWaits
<1>7. CASE Endings
  <2>1. ASSUME NEW j \in Id, FinishReservation(j)
        PROVE  Changed(i)
    BY <1>b, <2>1 DEF FinishReservation
  <2>2. ASSUME NEW j \in Id, RollbackReservation(j)
        PROVE  Changed(i)
    <3>1. records'[i] = None \/ records'[i] = records[i]
      BY <2>2 DEF RollbackReservation, Without
    <3> QED
      BY <1>0, <3>1, KeptUpdated DEF Changed, Exists, Records
  <2>3. ASSUME NEW j \in Id, NEW lifecycle \in Lifecycle \ {"running"}, Running(records, j),
               records' \in Prune([records EXCEPT ![j] = Ended(@, lifecycle)])
        PROVE  Changed(i)
    <3>1. records[j] \in Record /\ records[j].lifecycle = "running"
      BY <1>0, <2>3 DEF Records, Running, Exists
    <3>2. Ended(records[j], lifecycle) \in Record
      BY <3>1, EndedType DEF TypeOK
    <3>3. [records EXCEPT ![j] = Ended(@, lifecycle)] \in Records
      BY <1>0, <3>2 DEF Records
    <3>4. /\ Updated(records[j], Ended(records[j], lifecycle))
          /\ Quiet(records[j], Ended(records[j], lifecycle))
      BY <3>1, EndedUpdated
    <3> QED
      BY <1>0, <2>3, <3>3, <3>4, UpdatedThenPruned DEF Records, Running
  <2>4. ASSUME NEW j \in Id, Exited(j)
        PROVE  Changed(i)
    BY <2>3, <2>4 DEF Exited, ExitedAs, Lifecycle
  <2>5. ASSUME NEW j \in Id, Failed(j)
        PROVE  Changed(i)
    BY <2>3, <2>5 DEF Failed, Lifecycle
  <2>6. CASE Shutdown
    <3> DEFINE stopped == [j \in Id |->
                 IF Running(records, j)
                 THEN [Ended(records[j], "stopped") EXCEPT !.stopRequested = TRUE]
                 ELSE IF Exists(records, j) THEN Released(records[j]) ELSE None]
    <3>1. stopped \in Records
      BY <1>0, EndedMarkType, ReleasedType DEF Records, Running, Exists, TypeOK
    <3>2. \/ stopped[i] = records[i]
          \/ /\ Exists(records, i)
             /\ Updated(records[i], stopped[i])
             /\ Quiet(records[i], stopped[i])
      BY <1>0, EndedUpdated, ReleasedUpdated DEF Records, Running, Exists, Lifecycle
    <3>3. records' \in Prune(stopped)
      BY <2>6 DEF Shutdown
    <3> HIDE DEF stopped
    <3> QED
      BY <1>0, <3>1, <3>2, <3>3, UpdatedThenPruned
  <2> QED
    BY <1>7, <2>1, <2>2, <2>4, <2>5, <2>6 DEF Endings
<1>8. CASE UNCHANGED vars
  BY <1>a, <1>8 DEF vars
<1> QED
  BY <1>1, <1>2, <1>3, <1>4, <1>5, <1>6, <1>7, <1>8 DEF Next

-----------------------------------------------------------------------------
(* The inductive invariant *)

(* How far the spawn of an id has come bounds what may exist for it: an id    *)
(* not handed out has nothing, a record was attached, a reservation is still  *)
(* routed, and a stop call is about an id that has been attached.             *)
SpawnProgress ==
  /\ \A i \in Id : i > nextId => spawn[i] = "none"
  /\ \A i \in Id : Exists(records, i) => spawn[i] \in {"attached", "finished"}
  /\ \A i \in Id : Reserved(i) => Routing(i)
  /\ \A c \in Stopper : stops[c].op # "idle" =>
       spawn[stops[c].id] \in {"attached", "finished", "rolledBack"}

(* A stop call that has not returned holds the mark of its running record,    *)
(* and the handler is still there for it.                                    *)
StopsHold ==
  \A c \in Stopper, i \in Id : Stopping(c, i) /\ Running(records, i) =>
    records[i].stop /\ records[i].stopRequested

Progress == TypeOK /\ SpawnProgress

RegistryInv ==
  /\ Progress
  /\ StopsHold /\ OneStopPerRecord /\ StopMarkBacked
  /\ CapabilitiesReleased
  /\ TerminalOwnedOnce
  /\ DetachedHasNoParent
  /\ ResultIsNewest
  /\ CompletedBounded

-----------------------------------------------------------------------------
(* How a step moves the spawn of an id *)

SpawnMoved(i) ==
  \/ /\ spawn'[i] = spawn[i]
     /\ reservations'[i] # None => Reserved(i)
     /\ i > nextId' => i > nextId
  \/ i > nextId /\ i = nextId' /\ spawn'[i] = "routing"
  \/ spawn[i] = "routing" /\ spawn'[i] = "attached" /\ nextId' = nextId
  \/ /\ spawn[i] = "attached" /\ spawn'[i] = "finished" /\ nextId' = nextId
     /\ reservations'[i] = None
  \/ /\ Routing(i) /\ spawn'[i] = "rolledBack" /\ nextId' = nextId
     /\ reservations'[i] = None /\ records'[i] = None

(* How any step moves the spawn of one id. *)
LEMMA NextMoves ==
  ASSUME TypeOK, [Next]_vars, NEW i \in Id
  PROVE  SpawnMoved(i)
<1> USE DEF SpawnMoved
<1>a. ASSUME UNCHANGED <<nextId, reservations, spawn>> PROVE SpawnMoved(i)
  BY <1>a DEF Reserved
<1>1. CASE Lock \/ Tick \/ Reports \/ Stops \/ Waits \/ UNCHANGED vars
  <2>1. CASE Lock \/ Tick \/ UNCHANGED vars
    BY <1>a, <2>1 DEF Lock, Tick, vars
  <2>2. CASE Reports
    BY <1>a, <2>2 DEF Reports, UpdatePiState, UpdateProgress, UpdateResult, ClearResult
  <2>3. CASE Stops
    BY <1>a, <2>3 DEF Stops, StopBegin, StopHandler, StopFailed, StopDone
  <2>4. CASE Waits
    BY <1>a, <2>4 DEF Waits, WaitBegin, WaitWake, WaitDeadline, WaitCancelled, WaitReturn, CancelWaits
  <2> QED
    BY <1>1, <2>1, <2>2, <2>3, <2>4
<1>2. CASE Terminals
  <2>1. ASSUME NEW w \in Window, \/ \E ts \in SUBSET Terminal : RegisterTopLevelTerminals(w, ts)
                                 \/ UnregisterWindow(w)
        PROVE  SpawnMoved(i)
    BY <1>a, <2>1 DEF RegisterTopLevelTerminals, UnregisterWindow
  <2>2. ASSUME NEW t \in Terminal, NEW kind \in Kind, Reserve(t, kind)
        PROVE  SpawnMoved(i)
    BY <2>2 DEF Reserve, TypeOK, Reserved, Id
  <2>3. ASSUME NEW t \in Terminal, NEW j \in Id, Attach(j, t)
        PROVE  SpawnMoved(i)
    BY <2>3 DEF Attach, TypeOK, Reserved
  <2>4. ASSUME NEW t \in Terminal, NEW ids \in (SUBSET Id) \ {{}}, Detach(t, ids)
        PROVE  SpawnMoved(i)
    <3>1. /\ UNCHANGED <<nextId, spawn>>
          /\ reservations' = [j \in Id |-> IF j \in ids /\ Reserved(j)
                                     THEN [reservations[j] EXCEPT !.detached = TRUE]
                                     ELSE reservations[j]]
      BY <2>4 DEF Detach
    <3> QED
      BY <3>1 DEF Reserved
  <2> QED
    BY <1>2, <2>1, <2>2, <2>3, <2>4 DEF Terminals
<1>3. CASE Endings
  <2>1. ASSUME NEW j \in Id, FinishReservation(j)
        PROVE  SpawnMoved(i)
    BY <2>1 DEF FinishReservation, TypeOK, Reserved
  <2>2. ASSUME NEW j \in Id, RollbackReservation(j)
        PROVE  SpawnMoved(i)
    BY <2>2 DEF RollbackReservation, TypeOK, Reserved, Without
  <2>3. ASSUME NEW j \in Id, Exited(j) \/ Failed(j)
        PROVE  SpawnMoved(i)
    BY <1>a, <2>3 DEF Exited, Failed
  <2>4. CASE Shutdown
    BY <2>4 DEF Shutdown
  <2> QED
    BY <1>3, <2>1, <2>2, <2>3, <2>4 DEF Endings
<1> QED
  BY <1>1, <1>2, <1>3 DEF Next

(* How a step moves a stop call: it begins on a record that runs and is not   *)
(* marked, or goes on with the same id, or returns.                          *)
StopMoved(c) ==
  \/ stops'[c] = stops[c]
  \/ stops'[c] = NoStop
  \/ /\ stops[c].op = "calling"
     /\ stops'[c].op \in {"ok", "err"} /\ stops'[c].id = stops[c].id
     /\ records' = records
  \/ \E i \in Id :
       /\ CanStop(records, i) /\ records[i].stop
       /\ stops'[c] = [op |-> "calling", id |-> i]
       /\ Exists(records', i) /\ records'[i].stop /\ records'[i].stopRequested
       /\ \A d \in Stopper \ {c} : stops'[d] = stops[d]

(* How any step moves the stop calls. *)
LEMMA NextStops ==
  ASSUME TypeOK, [Next]_vars, NEW c \in Stopper
  PROVE  StopMoved(c)
<1> USE DEF StopMoved
<1>0. records \in Records
  BY DEF TypeOK, Records
<1>1. CASE Lock \/ Tick \/ Reports \/ Waits \/ UNCHANGED vars
  BY <1>1
  DEF Lock, Tick, Reports, Waits, vars, UpdatePiState, UpdateProgress, UpdateResult,
      ClearResult, WaitBegin, WaitWake, WaitDeadline, WaitCancelled, WaitReturn, CancelWaits
<1>2. CASE Terminals
  BY <1>2 DEF Terminals, RegisterTopLevelTerminals, UnregisterWindow, Reserve, Attach, Detach
<1>3. CASE Endings
  BY <1>3 DEF Endings, FinishReservation, RollbackReservation, Exited, Failed, Shutdown
<1>4. CASE Stops
  <2> SUFFICES ASSUME NEW d \in Stopper,
                      \/ \E j \in Id : StopBegin(d, j)
                      \/ \E outcome \in {"ok", "err"} : StopHandler(d, outcome)
                      \/ StopFailed(d)
                      \/ StopDone(d)
               PROVE  StopMoved(c)
    BY <1>4 DEF Stops
  <2>1. ASSUME NEW j \in Id, StopBegin(d, j)
        PROVE  StopMoved(c)
    <3>1. PICK live \in Prune(records) :
            /\ CanStop(live, j)
            /\ records' = [live EXCEPT ![j] = [@ EXCEPT !.stopRequested = TRUE]]
            /\ IF live[j].stop THEN stops' = [stops EXCEPT ![d] = [op |-> "calling", id |-> j]]
               ELSE UNCHANGED stops
      BY <2>1 DEF StopBegin
    <3>2. live \in Records /\ live[j] = records[j] /\ live[j] \in Record /\ CanStop(records, j)
      BY <1>0, <3>1, PruneKeeps DEF Records, CanStop, Running, Exists
    <3>3. records'[j] = [live[j] EXCEPT !.stopRequested = TRUE]
      BY <3>1, <3>2 DEF Records
    <3>4. records'[j] \in Record /\ records'[j].stopRequested /\ records'[j].stop = live[j].stop
      BY <3>2, <3>3 DEF Record
    <3>5. Exists(records', j)
      BY <3>4, NoneAssumption DEF Exists
    <3> QED
      BY <3>1, <3>2, <3>4, <3>5 DEF TypeOK
  <2>2. ASSUME NEW outcome \in {"ok", "err"}, StopHandler(d, outcome)
        PROVE  StopMoved(c)
    <3>1. /\ stops[d].op = "calling" /\ records' = records
          /\ stops' = [stops EXCEPT ![d] = [@ EXCEPT !.op = outcome]]
      BY <2>2 DEF StopHandler
    <3>2. stops[d] \in StopCall
      BY <3>1 DEF TypeOK, NoStop
    <3>3. /\ [stops[d] EXCEPT !.op = outcome].op = outcome
          /\ [stops[d] EXCEPT !.op = outcome].id = stops[d].id
      BY <3>2 DEF StopCall
    <3> QED
      BY <3>1, <3>3 DEF TypeOK
  <2>3. CASE StopFailed(d) \/ StopDone(d)
    BY <2>3 DEF StopFailed, StopDone, TypeOK
  <2> QED
    BY <2>1, <2>2, <2>3
<1> QED
  BY <1>1, <1>2, <1>3, <1>4 DEF Next

(* Every step preserves the relation of spawns, reservations and records. *)
LEMMA ProgressNext == Progress /\ [Next]_vars => Progress'
<1> SUFFICES ASSUME TypeOK, SpawnProgress, [Next]_vars PROVE SpawnProgress'
  BY TypeNext DEF Progress
<1>1. \A i \in Id : Changed(i) /\ SpawnMoved(i)
  BY NextChanges, NextMoves
<1>2. \A i \in Id : spawn[i] \in {"none", "routing", "attached", "finished", "rolledBack"}
  BY DEF TypeOK
<1>3. ASSUME NEW i \in Id, i > nextId' PROVE spawn'[i] = "none"
  <2>1. i \in Int /\ nextId \in Int /\ nextId' \in Int
    BY TypeNext DEF TypeOK, Id
  <2>2. i > nextId => spawn[i] = "none"
    BY DEF SpawnProgress
  <2>3. CASE spawn'[i] = spawn[i] /\ i > nextId
    BY <2>2, <2>3
  <2>4. CASE i = nextId'
    BY <1>3, <2>1, <2>4
  <2>5. CASE spawn[i] \in {"routing", "attached"} /\ nextId' = nextId
    BY <1>3, <2>2, <2>5
  <2> QED
    BY <1>1, <1>3, <2>3, <2>4, <2>5 DEF SpawnMoved, Routing
<1>4. ASSUME NEW i \in Id, Exists(records', i) PROVE spawn'[i] \in {"attached", "finished"}
  <2>1. Exists(records, i) \/ (spawn[i] = "routing" /\ spawn'[i] = "attached")
    BY <1>1, <1>4 DEF Changed, Exists
  <2>2. CASE Exists(records, i)
    BY <1>1, <1>4, <2>2 DEF SpawnMoved, SpawnProgress, Exists
  <2> QED
    BY <2>1, <2>2
<1>5. ASSUME NEW i \in Id, reservations'[i] # None
      PROVE  spawn'[i] \in {"routing", "attached"}
  BY <1>1, <1>5 DEF SpawnMoved, SpawnProgress, Routing
<1>6. ASSUME NEW c \in Stopper, stops'[c].op # "idle"
      PROVE  spawn'[stops'[c].id] \in {"attached", "finished", "rolledBack"}
  <2> DEFINE i == stops'[c].id
  <2>1. /\ i \in Id
        /\ spawn[i] \in {"attached", "finished", "rolledBack"}
    <3>1. StopMoved(c)
      BY NextStops
    <3>2. ASSUME NEW d \in Stopper, stops[d].op # "idle"
          PROVE  /\ stops[d].id \in Id
                 /\ spawn[stops[d].id] \in {"attached", "finished", "rolledBack"}
      BY <3>2 DEF TypeOK, NoStop, StopCall, SpawnProgress
    <3>3. CASE stops'[c] = stops[c]
      BY <1>6, <3>2, <3>3
    <3>4. CASE stops'[c] = NoStop
      BY <1>6, <3>4 DEF NoStop
    <3>5. CASE stops[c].op = "calling" /\ stops'[c].id = stops[c].id
      BY <3>2, <3>5
    <3>6. ASSUME NEW j \in Id, CanStop(records, j), stops'[c] = [op |-> "calling", id |-> j]
          PROVE  /\ stops'[c].id \in Id
                 /\ spawn[stops'[c].id] \in {"attached", "finished", "rolledBack"}
      BY <3>6 DEF CanStop, Running, SpawnProgress
    <3> QED
      BY <3>1, <3>3, <3>4, <3>5, <3>6 DEF StopMoved
  <2>2. i > nextId => spawn[i] = "none"
    BY <2>1 DEF SpawnProgress
  <2> HIDE DEF i
  <2>3. spawn'[i] \in {"attached", "finished", "rolledBack"}
    BY <1>1, <2>1, <2>2 DEF SpawnMoved, Routing
  <2> QED
    BY <2>3 DEF i
<1> QED
  BY <1>3, <1>4, <1>5, <1>6 DEF SpawnProgress, Reserved, Routing

-----------------------------------------------------------------------------
(* The invariants are preserved *)

StopInv == StopsHold /\ OneStopPerRecord /\ StopMarkBacked

(* Only the steps of stop calls change where these calls are. *)
LEMMA OnlyStopsMove == [Next]_vars /\ ~Stops => stops' = stops
BY DEF Next, Lock, Tick, Reports, Waits, vars, UpdatePiState, UpdateProgress, UpdateResult,
  ClearResult, WaitBegin, WaitWake, WaitDeadline, WaitCancelled, WaitReturn, CancelWaits,
  Terminals, RegisterTopLevelTerminals, UnregisterWindow, Reserve, Attach, Detach,
  Endings, FinishReservation, RollbackReservation, Exited, Failed, Shutdown

(* A step that is not of a stop call leaves the marks of running records alone. *)
LEMMA StopInvOthers ==
  ASSUME Progress, StopInv, [Next]_vars, ~Stops
  PROVE  StopInv'
<1>0. TypeOK /\ SpawnProgress /\ StopsHold /\ OneStopPerRecord /\ StopMarkBacked
  BY DEF Progress, StopInv
<1>1. stops' = stops
  BY OnlyStopsMove
<1>2. ASSUME NEW i \in Id, Running(records', i)
      PROVE  \/ /\ Running(records, i)
                /\ Quiet(records[i], records'[i])
             \/ /\ spawn[i] = "routing"
                /\ records'[i].input /\ records'[i].stop /\ ~records'[i].stopRequested
  <2>1. Changed(i)
    BY <1>0, NextChanges
  <2>2. CASE /\ Exists(records, i) /\ Updated(records[i], records'[i])
             /\ Quiet(records[i], records'[i])
    BY <1>2, <2>2 DEF Updated, Running
  <2>3. CASE /\ spawn[i] = "routing"
             /\ \E t \in Terminal : records'[i] = NewRecord(reservations[i], t)
    BY <2>3 DEF NewRecord
  <2> QED
    BY <1>2, <2>1, <2>2, <2>3 DEF Changed, Running, Exists
<1>3. StopsHold'
  <2> SUFFICES ASSUME NEW c \in Stopper, NEW i \in Id, Stopping(c, i), Running(records', i)
               PROVE  records'[i].stop /\ records'[i].stopRequested
    BY <1>1 DEF StopsHold, Stopping, Running, Exists
  <2>1. spawn[i] # "routing"
    BY <1>0 DEF SpawnProgress, Stopping
  <2> QED
    BY <1>0, <1>2, <2>1 DEF StopsHold, Quiet, Running
<1>4. OneStopPerRecord'
  BY <1>0, <1>1 DEF OneStopPerRecord, Stopping
<1>5. StopMarkBacked'
  <2> SUFFICES ASSUME NEW i \in Id, Running(records', i)
               PROVE  IF records'[i].stop
                      THEN /\ records'[i].input
                           /\ records'[i].stopRequested => \E c \in Stopper : Stopping(c, i)
                      ELSE ~records'[i].input /\ records'[i].stopRequested
    BY <1>1 DEF StopMarkBacked, Stopping, Running, Exists
  <2> QED
    BY <1>0, <1>2 DEF StopMarkBacked, Quiet, Running
<1> QED
  BY <1>3, <1>4, <1>5 DEF StopInv

(* The steps of stop calls preserve what is known of marks and calls. *)
LEMMA StopInvStops ==
  ASSUME Progress, StopInv, Stops
  PROVE  StopInv'
<1>0. /\ TypeOK /\ SpawnProgress /\ StopsHold /\ OneStopPerRecord /\ StopMarkBacked
      /\ records \in Records
  BY DEF Progress, StopInv, TypeOK, Records
<1>1. ASSUME NEW c \in Stopper, NEW j \in Id, StopBegin(c, j)
      PROVE  StopInv'
  <2>1. PICK live \in Prune(records) :
          /\ stops[c].op = "idle"
          /\ CanStop(live, j)
          /\ records' = [live EXCEPT ![j] = [@ EXCEPT !.stopRequested = TRUE]]
          /\ IF live[j].stop THEN stops' = [stops EXCEPT ![c] = [op |-> "calling", id |-> j]]
             ELSE UNCHANGED stops
    BY <1>1 DEF StopBegin
  <2>2. live \in Records /\ live[j] = records[j] /\ records[j] \in Record /\ CanStop(records, j)
    BY <1>0, <2>1, PruneKeeps DEF Records, CanStop, Running, Exists
  <2>3. records[j].stop /\ records[j].input
    BY <1>0, <2>2 DEF StopMarkBacked, CanStop
  <2>4. stops' = [stops EXCEPT ![c] = [op |-> "calling", id |-> j]]
    BY <2>1, <2>2, <2>3
  <2>5. /\ records'[j].stop /\ records'[j].input /\ records'[j].stopRequested
        /\ \A i \in Id \ {j} : records'[i] = records[i] \/ records'[i] = None
    BY <1>0, <2>1, <2>2, <2>3, PruneKeeps DEF Records, Record
  <2>6. \A d \in Stopper : ~Stopping(d, j)
    BY <1>0, <2>2 DEF StopsHold, CanStop
  <2>7. \A d \in Stopper, i \in Id :
          (stops'[d].op # "idle" /\ stops'[d].id = i) <=> (Stopping(d, i) \/ (d = c /\ i = j))
    <3>1. \A d \in Stopper \ {c} : stops'[d] = stops[d]
      BY <1>0, <2>4 DEF TypeOK
    <3>2. stops'[c] = [op |-> "calling", id |-> j]
      BY <1>0, <2>4 DEF TypeOK
    <3> QED
      BY <2>1, <3>1, <3>2 DEF Stopping
  <2>8. StopsHold'
    BY <1>0, <2>5, <2>6, <2>7 DEF StopsHold, Stopping, Running, Exists
  <2>9. OneStopPerRecord'
    BY <1>0, <2>6, <2>7 DEF OneStopPerRecord, Stopping
  <2>10. StopMarkBacked'
    BY <1>0, <2>5, <2>7 DEF StopMarkBacked, Stopping, Running, Exists
  <2> QED
    BY <2>8, <2>9, <2>10 DEF StopInv
<1>2. ASSUME NEW c \in Stopper, NEW outcome \in {"ok", "err"}, StopHandler(c, outcome)
      PROVE  StopInv'
  <2>1. /\ stops[c].op = "calling" /\ records' = records
        /\ stops' = [stops EXCEPT ![c] = [@ EXCEPT !.op = outcome]]
    BY <1>2 DEF StopHandler
  <2>2. stops[c] \in StopCall
    BY <1>0, <2>1 DEF TypeOK, NoStop
  <2>3. \A d \in Stopper, i \in Id :
          (stops'[d].op # "idle" /\ stops'[d].id = i) <=> Stopping(d, i)
    <3>1. \A d \in Stopper \ {c} : stops'[d] = stops[d]
      BY <1>0, <2>1 DEF TypeOK
    <3>2. stops'[c].op = outcome /\ stops'[c].id = stops[c].id
      BY <1>0, <2>1, <2>2 DEF TypeOK, StopCall
    <3> QED
      BY <2>1, <3>1, <3>2 DEF Stopping
  <2>4. StopsHold' /\ OneStopPerRecord' /\ StopMarkBacked'
    BY <1>0, <2>1, <2>3
    DEF StopsHold, OneStopPerRecord, StopMarkBacked, Stopping, Running, Exists
  <2> QED
    BY <2>4 DEF StopInv
<1>3. ASSUME NEW c \in Stopper, StopFailed(c) \/ StopDone(c)
      PROVE  StopInv'
  <2> DEFINE j == stops[c].id
  <2>1. stops' = [stops EXCEPT ![c] = NoStop] /\ stops[c].op \in {"ok", "err"}
    BY <1>3 DEF StopFailed, StopDone
  <2>2. j \in Id /\ Stopping(c, j)
    BY <1>0, <2>1 DEF TypeOK, NoStop, StopCall, Stopping
  <2>3. \A d \in Stopper, i \in Id :
          (stops'[d].op # "idle" /\ stops'[d].id = i) <=> (Stopping(d, i) /\ d # c)
    <3>1. \A d \in Stopper \ {c} : stops'[d] = stops[d]
      BY <1>0, <2>1 DEF TypeOK
    <3>2. stops'[c].op = "idle"
      BY <1>0, <2>1 DEF TypeOK, NoStop
    <3> QED
      BY <3>1, <3>2 DEF Stopping
  <2>4. \A d \in Stopper : Stopping(d, j) => d = c
    BY <1>0, <2>2 DEF OneStopPerRecord
  <2>5. \A i \in Id \ {j} : records'[i] = records[i]
    BY <1>0, <1>3 DEF StopFailed, StopDone, Records
  <2>6. Running(records, j) =>
          /\ records[j].stop /\ records[j].stopRequested /\ records[j].input
          /\ records[j] \in Record
    BY <1>0, <2>2 DEF StopsHold, StopMarkBacked, Running, Exists, Records
  <2>7. ASSUME Running(records', j)
        PROVE  IF records'[j].stop
               THEN records'[j].input /\ ~records'[j].stopRequested
               ELSE ~records'[j].input /\ records'[j].stopRequested
    <3>1. CASE StopFailed(c)
      <4>1. records' = IF Running(records, j)
                       THEN [records EXCEPT ![j] = [@ EXCEPT !.stopRequested = FALSE]]
                       ELSE records
        BY <3>1 DEF StopFailed
      <4>2. Running(records, j)
        BY <2>7, <4>1
      <4>3. records'[j] = [records[j] EXCEPT !.stopRequested = FALSE]
        BY <1>0, <2>2, <4>1, <4>2 DEF Records
      <4> QED
        BY <2>6, <4>2, <4>3 DEF Record
    <3>2. CASE StopDone(c)
      <4>1. records' = IF Exists(records, j) /\ records[j].stopRequested
                       THEN [records EXCEPT ![j] = Released(@)]
                       ELSE records
        BY <3>2 DEF StopDone
      <4>2. Running(records, j)
        BY <1>0, <2>2, <2>7, <4>1 DEF Running, Exists, Released, Records, Record
      <4>3. records'[j] = Released(records[j])
        BY <1>0, <2>2, <2>6, <4>1, <4>2 DEF Records, Running
      <4> QED
        BY <2>6, <4>2, <4>3 DEF Released, Record
    <3> QED
      BY <1>3, <3>1, <3>2
  <2> HIDE DEF j
  <2>8. StopsHold'
    BY <1>0, <2>3, <2>4, <2>5 DEF StopsHold, Stopping, Running, Exists
  <2>9. OneStopPerRecord'
    BY <1>0, <2>3 DEF OneStopPerRecord, Stopping
  <2>10. StopMarkBacked'
    <3> SUFFICES ASSUME NEW i \in Id, Running(records', i)
                 PROVE  IF records'[i].stop
                        THEN /\ records'[i].input
                             /\ records'[i].stopRequested =>
                                  \E d \in Stopper : Stopping(d, i) /\ d # c
                        ELSE ~records'[i].input /\ records'[i].stopRequested
      BY <2>3 DEF StopMarkBacked, Stopping, Running, Exists
    <3>1. CASE i = j
      BY <2>7, <3>1
    <3>2. CASE i # j
      <4>1. \A d \in Stopper : Stopping(d, i) => d # c
        BY <2>2, <3>2 DEF Stopping
      <4> QED
        BY <1>0, <2>5, <3>2, <4>1 DEF StopMarkBacked, Running, Exists
    <3> QED
      BY <3>1, <3>2
  <2> QED
    BY <2>8, <2>9, <2>10 DEF StopInv
<1> QED
  BY <1>1, <1>2, <1>3 DEF Stops

(* Every step preserves CapabilitiesReleased. *)
LEMMA CapabilitiesNext ==
  ASSUME TypeOK, CapabilitiesReleased, [Next]_vars
  PROVE  CapabilitiesReleased'
<1> SUFFICES ASSUME NEW i \in Id, Exists(records', i), records'[i].lifecycle # "running"
             PROVE  ~records'[i].input /\ ~records'[i].stop
  BY DEF CapabilitiesReleased, Completed, Exists
<1>1. Changed(i)
  BY NextChanges
<1>2. CASE Exists(records, i) /\ Updated(records[i], records'[i])
  <2>1. records[i].lifecycle # "running" => ~records[i].input /\ ~records[i].stop
    BY <1>2 DEF CapabilitiesReleased, Completed
  <2> QED
    BY <1>2, <2>1 DEF Updated
<1>3. CASE \E t \in Terminal : records'[i] = NewRecord(reservations[i], t)
  BY <1>3 DEF NewRecord
<1> QED
  BY <1>1, <1>2, <1>3 DEF Changed, Exists

(* Every step preserves ResultIsNewest. *)
LEMMA ResultNext ==
  ASSUME TypeOK, ResultIsNewest, [Next]_vars
  PROVE  ResultIsNewest'
<1> SUFFICES ASSUME NEW i \in Id, Exists(records', i), records'[i].result # None
             PROVE  IF records'[i].result = Legacy THEN records'[i].resultSeq = None
                    ELSE records'[i].resultSeq = records'[i].result
  BY DEF ResultIsNewest, Exists
<1>1. Changed(i)
  BY NextChanges
<1>2. CASE Exists(records, i) /\ Updated(records[i], records'[i])
  <2>1. CASE records'[i].result = records[i].result /\ records'[i].resultSeq = records[i].resultSeq
    BY <1>2, <2>1 DEF ResultIsNewest
  <2>2. CASE NewReport(records[i], records'[i])
    BY <2>2 DEF NewReport, Legacy, Sequence
  <2> QED
    BY <1>2, <2>1, <2>2 DEF Updated
<1>3. CASE \E t \in Terminal : records'[i] = NewRecord(reservations[i], t)
  BY <1>3 DEF NewRecord
<1> QED
  BY <1>1, <1>2, <1>3 DEF Changed, Exists

(* The terminals registered as top-level, when they change, avoid those of the *)
(* records that are left.                                                     *)
LEMMA TopLevelMoves ==
  ASSUME TypeOK, [Next]_vars, NEW t \in Terminal
  PROVE  \/ topLevel'[t] \in {topLevel[t], None}
         \/ \A i \in Id : Exists(records', i) => records'[i].terminal # t
<1>0. records \in Records /\ topLevel[t] \in Window \cup {None}
  BY DEF TypeOK, Records
<1>1. CASE Lock \/ Tick \/ Reports \/ Stops \/ Waits \/ Endings \/ UNCHANGED vars
  <2>1. topLevel' = topLevel
    BY <1>1
    DEF Lock, Tick, Reports, Stops, Waits, Endings, vars, UpdatePiState, UpdateProgress,
        UpdateResult, ClearResult, StopBegin, StopHandler, StopFailed, StopDone, WaitBegin,
        WaitWake, WaitDeadline, WaitCancelled, WaitReturn, CancelWaits, FinishReservation,
        RollbackReservation, Exited, Failed, Shutdown
  <2> QED
    BY <2>1
<1>2. ASSUME NEW w \in Window, NEW ts \in SUBSET Terminal, RegisterTopLevelTerminals(w, ts)
      PROVE  \/ topLevel'[t] \in {topLevel[t], None}
             \/ \A i \in Id : Exists(records', i) => records'[i].terminal # t
  BY <1>2 DEF RegisterTopLevelTerminals, CanRegister
<1>3. ASSUME NEW w \in Window, UnregisterWindow(w)
      PROVE  topLevel'[t] \in {topLevel[t], None}
  BY <1>3 DEF UnregisterWindow
<1>4. CASE \/ \E u \in Terminal, kind \in Kind : Reserve(u, kind)
           \/ \E u \in Terminal, i \in Id : Attach(i, u)
           \/ \E u \in Terminal, ids \in (SUBSET Id) \ {{}} : Detach(u, ids)
  BY <1>4 DEF Reserve, Attach, Detach
<1> QED
  BY <1>1, <1>2, <1>3, <1>4 DEF Next, Terminals

(* Every step preserves TerminalOwnedOnce. *)
LEMMA TerminalNext ==
  ASSUME Progress, TerminalOwnedOnce, [Next]_vars
  PROVE  TerminalOwnedOnce'
<1>0. TypeOK
  BY DEF Progress
<1>1. ASSUME NEW i \in Id, Exists(records', i)
      PROVE  /\ records'[i].terminal \in Terminal
             /\ \/ /\ Exists(records, i)
                   /\ records'[i].terminal = records[i].terminal
                \/ /\ topLevel[records'[i].terminal] = None
                   /\ \A j \in Id \ {i} : Exists(records', j) =>
                        records'[j].terminal # records'[i].terminal
  <2>1. Changed(i)
    BY <1>0, NextChanges
  <2>2. records'[i] \in Record
    BY <1>0, <1>1, TypeNext DEF TypeOK, Exists
  <2>3. ASSUME NEW t \in Terminal, records'[i] = NewRecord(reservations[i], t)
        PROVE  records'[i].terminal = t
    BY <2>3 DEF NewRecord
  <2> QED
    BY <1>1, <2>1, <2>2, <2>3 DEF Changed, Updated, Record, Exists
<1>2. ASSUME NEW i \in Id, Exists(records', i)
      PROVE  topLevel'[records'[i].terminal] = None
  <2>1. topLevel[records'[i].terminal] = None
    BY <1>1, <1>2 DEF TerminalOwnedOnce
  <2> QED
    BY <1>0, <1>1, <1>2, <2>1, TopLevelMoves
<1>3. ASSUME NEW i \in Id, NEW j \in Id \ {i}, Exists(records', i), Exists(records', j)
      PROVE  records'[j].terminal # records'[i].terminal
  BY <1>1, <1>3 DEF TerminalOwnedOnce
<1> QED
  BY <1>2, <1>3 DEF TerminalOwnedOnce, Exists

(* Reserve and Detach are the only steps that write a reservation.            *)
LEMMA ReservationMoves ==
  ASSUME [Next]_vars, ~Terminals, NEW i \in Id
  PROVE  reservations'[i] \in {reservations[i], None}
<1>1. CASE Lock \/ Tick \/ Reports \/ Stops \/ Waits \/ UNCHANGED vars
  <2>1. reservations' = reservations
    BY <1>1
    DEF Lock, Tick, Reports, Stops, Waits, vars, UpdatePiState, UpdateProgress, UpdateResult,
        ClearResult, StopBegin, StopHandler, StopFailed, StopDone, WaitBegin, WaitWake,
        WaitDeadline, WaitCancelled, WaitReturn, CancelWaits
  <2> QED
    BY <2>1
<1>2. CASE Endings
  <2>1. \/ reservations' = reservations
        \/ \E j \in Id : reservations' = [reservations EXCEPT ![j] = None]
        \/ reservations' = [j \in Id |-> None]
    BY <1>2 DEF Endings, FinishReservation, RollbackReservation, Exited, Failed, Shutdown
  <2>2. CASE reservations' = reservations
    BY <2>2
  <2>3. ASSUME NEW j \in Id, reservations' = [reservations EXCEPT ![j] = None]
        PROVE  reservations'[i] \in {reservations[i], None}
    BY <2>3
  <2>4. CASE reservations' = [j \in Id |-> None]
    BY <2>4
  <2> QED
    BY <2>1, <2>2, <2>3, <2>4
<1> QED
  BY <1>1, <1>2 DEF Next

(* Every step preserves DetachedHasNoParent. *)
LEMMA DetachedNext ==
  ASSUME Progress, DetachedHasNoParent, [Next]_vars
  PROVE  DetachedHasNoParent'
<1>0. TypeOK /\ SpawnProgress /\ records \in Records
  BY DEF Progress, TypeOK, Records
<1> SUFFICES ASSUME NEW i \in Id, reservations'[i] # None, records'[i] # None
             PROVE  records'[i].parent = ParentOf(reservations'[i])
  BY DEF DetachedHasNoParent, Reserved, Exists, ParentOf
<1>1. Changed(i)
  BY <1>0, NextChanges
<1>2. CASE ~Terminals
  <2>1. reservations'[i] = reservations[i]
    BY <1>2, ReservationMoves
  <2>2. CASE Exists(records, i) /\ Updated(records[i], records'[i])
    BY <1>2, <2>1, <2>2 DEF Updated, DetachedHasNoParent, Reserved, ParentOf
  <2>3. CASE \E t \in Terminal : records'[i] = NewRecord(reservations[i], t)
    BY <2>1, <2>3 DEF NewRecord
  <2> QED
    BY <1>1, <2>2, <2>3 DEF Changed
<1>3. ASSUME NEW live \in Prune(records), records' = live, reservations'[i] = reservations[i]
      PROVE  records'[i].parent = ParentOf(reservations'[i])
  BY <1>0, <1>3, PruneKeeps DEF DetachedHasNoParent, Reserved, Exists, ParentOf
<1>4. ASSUME NEW w \in Window, NEW ts \in SUBSET Terminal, RegisterTopLevelTerminals(w, ts)
      PROVE  records'[i].parent = ParentOf(reservations'[i])
  BY <1>3, <1>4 DEF RegisterTopLevelTerminals
<1>5. ASSUME NEW w \in Window, UnregisterWindow(w)
      PROVE  records'[i].parent = ParentOf(reservations'[i])
  BY <1>5 DEF UnregisterWindow, DetachedHasNoParent, Reserved, Exists, ParentOf
<1>6. ASSUME NEW t \in Terminal, NEW kind \in Kind, Reserve(t, kind)
      PROVE  records'[i].parent = ParentOf(reservations'[i])
  <2>1. Exists(records, i)
    BY <1>0, <1>6, PruneKeeps DEF Reserve, Exists
  <2>2. i # nextId + 1
    BY <1>0, <1>6, <2>1 DEF SpawnProgress, TypeOK, Id
  <2>3. reservations'[i] = reservations[i]
    BY <1>0, <1>6, <2>2 DEF Reserve, TypeOK
  <2> QED
    BY <1>3, <1>6, <2>3 DEF Reserve
<1>7. ASSUME NEW t \in Terminal, NEW j \in Id, Attach(j, t)
      PROVE  records'[i].parent = ParentOf(reservations'[i])
  <2>1. PICK live \in Prune(records) :
          /\ records' = [live EXCEPT ![j] = NewRecord(reservations[j], t)]
          /\ reservations' = reservations
    BY <1>7 DEF Attach
  <2>2. CASE i = j
    BY <1>0, <2>1, <2>2, PruneKeeps DEF NewRecord, Records
  <2>3. CASE i # j
    <3>1. records'[i] = live[i] /\ live[i] = records[i]
      BY <1>0, <2>1, <2>3, PruneKeeps DEF Records
    <3> QED
      BY <2>1, <3>1 DEF DetachedHasNoParent, Reserved, Exists, ParentOf
  <2> QED
    BY <2>2, <2>3
<1>8. ASSUME NEW t \in Terminal, NEW ids \in (SUBSET Id) \ {{}}, Detach(t, ids)
      PROVE  records'[i].parent = ParentOf(reservations'[i])
  <2>1. PICK live \in Prune(records) :
          /\ records' = [j \in Id |-> IF j \in ids /\ Exists(live, j)
                                      THEN [Bumped(live[j]) EXCEPT !.parent = None]
                                      ELSE live[j]]
          /\ reservations' = [j \in Id |-> IF j \in ids /\ Reserved(j)
                                     THEN [reservations[j] EXCEPT !.detached = TRUE]
                                     ELSE reservations[j]]
    BY <1>8 DEF Detach
  <2>2. live[i] = records[i] /\ Exists(records, i) /\ records[i] \in Record
    BY <1>0, <2>1, PruneKeeps DEF Records, Exists
  <2>3. Reserved(i) /\ reservations[i] \in Reservation
    <3>1. Reserved(i)
      BY <2>1 DEF Reserved
    <3>2. reservations[i] \in Reservation \cup {None}
      BY <1>0 DEF TypeOK
    <3> QED
      BY <3>1, <3>2 DEF Reserved
  <2>4. CASE i \in ids
    <3>1. records'[i] = [Bumped(records[i]) EXCEPT !.parent = None]
      BY <2>1, <2>2, <2>4 DEF Exists
    <3>2. records'[i].parent = None
      BY <2>2, <3>1, BumpedType DEF Record
    <3>3. reservations'[i] = [reservations[i] EXCEPT !.detached = TRUE]
      BY <2>1, <2>3, <2>4
    <3>4. reservations'[i].detached
      BY <2>3, <3>3 DEF Reservation
    <3> QED
      BY <3>2, <3>4 DEF ParentOf
  <2>5. CASE i \notin ids
    BY <2>1, <2>2, <2>3, <2>5 DEF DetachedHasNoParent, ParentOf
  <2> QED
    BY <2>4, <2>5
<1> QED
  BY <1>2, <1>4, <1>5, <1>6, <1>7, <1>8 DEF Terminals

-----------------------------------------------------------------------------
(* Retention *)

(* There are finitely many completed records. *)
LEMMA CompletedFinite ==
  ASSUME NEW recs
  PROVE  IsFiniteSet(Completed(recs))
<1>1. IsFiniteSet(Id)
  BY RegistryAssumption, FS_Interval DEF Id
<1> QED
  BY <1>1, FS_Subset DEF Completed

(* Fewer completed records are within the limit too. *)
LEMMA FewerCompleted ==
  ASSUME NEW recs, NEW more, Completed(recs) \subseteq Completed(more),
         Cardinality(Completed(more)) <= CompletedLimit
  PROVE  Cardinality(Completed(recs)) <= CompletedLimit
<1>1. Cardinality(Completed(recs)) <= Cardinality(Completed(more))
  BY CompletedFinite, FS_Subset
<1>2. Cardinality(Completed(recs)) \in Nat /\ Cardinality(Completed(more)) \in Nat
  BY CompletedFinite, FS_CardinalityType
<1> QED
  BY <1>1, <1>2, RegistryAssumption

(* What pruning leaves is within the limit. *)
LEMMA PruneBounds ==
  ASSUME NEW recs \in Records, NEW live \in Prune(recs)
  PROVE  Cardinality(Completed(live)) <= CompletedLimit
<1>1. PICK kept \in Retentions(recs) : live = Without(recs, Completed(recs) \ kept)
  BY DEF Prune
<1>2. kept \subseteq Completed(recs) /\ Cardinality(kept) <= CompletedLimit
  BY RegistryAssumption DEF Retentions, Retained, Fresh
<1>3. Completed(live) = kept
  BY <1>1, <1>2 DEF Without, Completed, Exists
<1> QED
  BY <1>2, <1>3

(* Every step preserves CompletedBounded. *)
LEMMA CompletedNext ==
  ASSUME Progress, CompletedBounded, [Next]_vars
  PROVE  CompletedBounded'
<1>0. TypeOK /\ records \in Records
  BY DEF Progress, TypeOK, Records
<1>a. ASSUME Completed(records') \subseteq Completed(records) PROVE CompletedBounded'
  <2>1. Cardinality(Completed(records')) <= CompletedLimit
    BY <1>a, FewerCompleted DEF CompletedBounded
  <2> QED
    BY <2>1 DEF CompletedBounded, Completed, Exists
<1>b. ASSUME NEW recs \in Records, NEW live \in Prune(recs),
             Completed(records') \subseteq Completed(live)
      PROVE  CompletedBounded'
  <2>1. Cardinality(Completed(records')) <= CompletedLimit
    BY <1>b, PruneBounds, FewerCompleted
  <2> QED
    BY <2>1 DEF CompletedBounded, Completed, Exists
<1>c. ASSUME NEW live \in Prune(records), NEW j \in Id, NEW r,
             records' = [live EXCEPT ![j] = r],
             r.lifecycle = "running" \/ (Exists(live, j) /\ live[j].lifecycle = r.lifecycle)
      PROVE  CompletedBounded'
  <2>1. live \in Records
    BY <1>0, PruneKeeps
  <2>2. Completed(records') \subseteq Completed(live)
    BY <1>c, <2>1 DEF Completed, Exists, Records
  <2> QED
    BY <1>0, <1>b, <2>2
<1>1. CASE Lock
  BY <1>0, <1>1, <1>b DEF Lock
<1>2. CASE Tick \/ UNCHANGED vars
  BY <1>2, <1>a DEF Tick, vars
<1>3. CASE Terminals
  <2>1. ASSUME NEW w \in Window, NEW ts \in SUBSET Terminal, RegisterTopLevelTerminals(w, ts)
        PROVE  CompletedBounded'
    BY <1>0, <1>b, <2>1 DEF RegisterTopLevelTerminals
  <2>2. ASSUME NEW w \in Window, UnregisterWindow(w)
        PROVE  CompletedBounded'
    BY <1>a, <2>2 DEF UnregisterWindow
  <2>3. ASSUME NEW t \in Terminal, NEW kind \in Kind, Reserve(t, kind)
        PROVE  CompletedBounded'
    BY <1>0, <1>b, <2>3 DEF Reserve
  <2>4. ASSUME NEW t \in Terminal, NEW j \in Id, Attach(j, t)
        PROVE  CompletedBounded'
    <3>1. NewRecord(reservations[j], t).lifecycle = "running"
      BY DEF NewRecord
    <3>2. PICK live \in Prune(records) :
            records' = [live EXCEPT ![j] = NewRecord(reservations[j], t)]
      BY <2>4 DEF Attach
    <3> QED
      BY <1>c, <3>1, <3>2
  <2>5. ASSUME NEW t \in Terminal, NEW ids \in (SUBSET Id) \ {{}}, Detach(t, ids)
        PROVE  CompletedBounded'
    <3>1. PICK live \in Prune(records) :
            records' = [j \in Id |-> IF j \in ids /\ Exists(live, j)
                                     THEN [Bumped(live[j]) EXCEPT !.parent = None]
                                     ELSE live[j]]
      BY <2>5 DEF Detach
    <3>2. live \in Records
      BY <1>0, PruneKeeps
    <3>3. ASSUME NEW r \in Record
          PROVE  [Bumped(r) EXCEPT !.parent = None].lifecycle = r.lifecycle
      BY DEF Bumped, Record
    <3>4. Completed(records') \subseteq Completed(live)
      BY <3>1, <3>2, <3>3 DEF Completed, Exists, Records
    <3> QED
      BY <1>0, <1>b, <3>4
  <2> QED
    BY <1>3, <2>1, <2>2, <2>3, <2>4, <2>5 DEF Terminals
<1>4. CASE Reports
  <2>1. ASSUME NEW j \in Id, NEW live \in Prune(records), Exists(live, j)
        PROVE  live[j] \in Record
    BY <1>0, <2>1, PruneKeeps DEF Records, Exists
  <2>2. ASSUME NEW j \in Id, NEW state \in PiState, UpdatePiState(j, state)
        PROVE  CompletedBounded'
    <3>1. ASSUME NEW r \in Record
          PROVE  [Bumped(r) EXCEPT !.piState = state].lifecycle = r.lifecycle
      BY DEF Bumped, Record
    <3> QED
      BY <1>c, <2>1, <2>2, <3>1 DEF UpdatePiState
  <2>3. ASSUME NEW j \in Id, UpdateProgress(j)
        PROVE  CompletedBounded'
    <3>1. PICK live \in Prune(records) :
            Exists(live, j) /\ records' = [live EXCEPT ![j] = Bumped(@)]
      BY <2>3 DEF UpdateProgress, ResultOwner, Running
    <3>2. Bumped(live[j]).lifecycle = live[j].lifecycle
      BY <2>1, <3>1 DEF Bumped, Record
    <3>3. records' = [live EXCEPT ![j] = Bumped(live[j])]
      BY <3>1
    <3> QED
      BY <1>c, <3>1, <3>2, <3>3
  <2>4. ASSUME NEW j \in Id, NEW seq \in Sequence \cup {Legacy}, UpdateResult(j, seq)
        PROVE  CompletedBounded'
    <3>1. ASSUME NEW r \in Record
          PROVE  [Bumped(r) EXCEPT !.result = seq, !.resultSeq = AcceptedSeq(r, seq)].lifecycle
                   = r.lifecycle
      BY DEF Bumped, Record
    <3>2. PICK live \in Prune(records) :
            /\ Exists(live, j)
            /\ records' = [live EXCEPT ![j] =
                 [Bumped(@) EXCEPT !.result = seq, !.resultSeq = AcceptedSeq(live[j], seq)]]
      BY <2>4 DEF UpdateResult, ResultOwner, Running
    <3>3. live[j] \in Record
      BY <2>1, <3>2
    <3> QED
      BY <1>c, <3>1, <3>2, <3>3
  <2>5. ASSUME NEW j \in Id, NEW seq \in Sequence, ClearResult(j, seq)
        PROVE  CompletedBounded'
    <3>1. ASSUME NEW r \in Record
          PROVE  [Bumped(r) EXCEPT !.result = None, !.resultSeq = seq].lifecycle = r.lifecycle
      BY DEF Bumped, Record
    <3>2. PICK live \in Prune(records) :
            /\ Exists(live, j)
            /\ records' = [live EXCEPT ![j] =
                 [Bumped(@) EXCEPT !.result = None, !.resultSeq = seq]]
      BY <2>5 DEF ClearResult, ResultOwner, Running
    <3>3. live[j] \in Record
      BY <2>1, <3>2
    <3> QED
      BY <1>c, <3>1, <3>2, <3>3
  <2> QED
    BY <1>4, <2>2, <2>3, <2>4, <2>5 DEF Reports
<1>5. CASE Stops
  <2>1. ASSUME NEW c \in Stopper, NEW j \in Id, StopBegin(c, j)
        PROVE  CompletedBounded'
    <3>1. PICK live \in Prune(records) :
            /\ CanStop(live, j)
            /\ records' = [live EXCEPT ![j] = [@ EXCEPT !.stopRequested = TRUE]]
      BY <2>1 DEF StopBegin
    <3>2. live[j] \in Record /\ Exists(live, j)
      BY <1>0, <3>1, PruneKeeps DEF Records, CanStop, Running, Exists
    <3>3. [live[j] EXCEPT !.stopRequested = TRUE].lifecycle = live[j].lifecycle
      BY <3>2 DEF Record
    <3> QED
      BY <1>c, <3>1, <3>2, <3>3
  <2>2. ASSUME NEW c \in Stopper, NEW outcome \in {"ok", "err"}, StopHandler(c, outcome)
        PROVE  CompletedBounded'
    BY <1>a, <2>2 DEF StopHandler
  <2>3. ASSUME NEW c \in Stopper, StopFailed(c)
        PROVE  Completed(records') \subseteq Completed(records)
    <3>1. ASSUME NEW q \in Record
          PROVE  [q EXCEPT !.stopRequested = FALSE].lifecycle = q.lifecycle
      BY DEF Record
    <3>2. records' = IF Running(records, stops[c].id)
                     THEN [records EXCEPT ![stops[c].id] = [@ EXCEPT !.stopRequested = FALSE]]
                     ELSE records
      BY <2>3 DEF StopFailed
    <3> QED
      BY <1>0, <3>1, <3>2 DEF Completed, Running, Exists, Records
  <2>4. ASSUME NEW c \in Stopper, StopDone(c)
        PROVE  Completed(records') \subseteq Completed(records)
    <3>1. ASSUME NEW q \in Record PROVE Released(q).lifecycle = q.lifecycle
      BY DEF Released, Record
    <3>2. \/ records' = records
          \/ /\ Exists(records, stops[c].id)
             /\ records' = [records EXCEPT ![stops[c].id] = Released(@)]
      BY <2>4 DEF StopDone
    <3> QED
      BY <1>0, <3>1, <3>2 DEF Completed, Exists, Records
  <2> QED
    BY <1>5, <1>a, <2>1, <2>2, <2>3, <2>4 DEF Stops
<1>6. CASE Waits
  <2>1. ASSUME NEW c \in Waiter, NEW i \in Id, NEW untilResult \in BOOLEAN,
               WaitBegin(c, i, untilResult)
        PROVE  CompletedBounded'
    BY <1>0, <1>b, <2>1 DEF WaitBegin
  <2>2. ASSUME NEW c \in Waiter, \/ WaitWake(c) \/ WaitDeadline(c) \/ WaitCancelled(c)
                                 \/ WaitReturn(c) \/ CancelWaits
        PROVE  CompletedBounded'
    BY <1>a, <2>2 DEF WaitWake, WaitDeadline, WaitCancelled, WaitReturn, CancelWaits
  <2> QED
    BY <1>6, <2>1, <2>2 DEF Waits
<1>7. CASE Endings
  <2>1. ASSUME NEW j \in Id, FinishReservation(j)
        PROVE  CompletedBounded'
    BY <1>0, <1>b, <2>1 DEF FinishReservation
  <2>2. ASSUME NEW j \in Id, RollbackReservation(j)
        PROVE  CompletedBounded'
    <3>1. Completed(records') \subseteq Completed(records)
      BY <1>0, <2>2 DEF RollbackReservation, Without, Completed, Exists
    <3> QED
      BY <1>a, <3>1
  <2>3. ASSUME NEW j \in Id, NEW lifecycle \in Lifecycle, Running(records, j),
               records' \in Prune([records EXCEPT ![j] = Ended(@, lifecycle)])
        PROVE  CompletedBounded'
    <3>1. [records EXCEPT ![j] = Ended(@, lifecycle)] \in Records
      BY <1>0, <2>3, EndedType DEF Records, Running, Exists, TypeOK
    <3> QED
      BY <1>b, <2>3, <3>1
  <2>4. ASSUME NEW j \in Id, Exited(j) \/ Failed(j)
        PROVE  CompletedBounded'
    BY <2>3, <2>4 DEF Exited, ExitedAs, Failed, Lifecycle
  <2>5. CASE Shutdown
    <3>1. [j \in Id |->
             IF Running(records, j)
             THEN [Ended(records[j], "stopped") EXCEPT !.stopRequested = TRUE]
             ELSE IF Exists(records, j) THEN Released(records[j]) ELSE None] \in Records
      BY <1>0, EndedMarkType, ReleasedType DEF Records, Running, Exists, TypeOK
    <3> QED
      BY <1>b, <2>5, <3>1 DEF Shutdown
  <2> QED
    BY <1>7, <2>1, <2>2, <2>4, <2>5 DEF Endings
<1> QED
  BY <1>1, <1>2, <1>3, <1>4, <1>5, <1>6, <1>7 DEF Next

-----------------------------------------------------------------------------
(* What retention drops *)

(* A record that ends in a step ends now; a completed one has ended.          *)
EndedInPast == \A i \in Completed(records) : records[i].ended <= now

(* A step that prunes does so once, on the records with the ends it brings:   *)
(* what it does to the others after or before that moves none of them into    *)
(* or out of history.                                                        *)
PrunesOnce ==
  \E recs \in Records : \E live \in Prune(recs) :
    /\ \A i \in Id : Exists(recs, i) => Exists(records, i)
    /\ \A i \in Id : Exists(records, i) => Exists(recs, i)
    /\ \A i \in Completed(recs) : recs[i].ended = EndTime(i)
    /\ \A i \in Id : Exists(live, i) => Exists(records', i)
    /\ Completed(records') = Completed(live)
    /\ \A i \in Completed(live) : records'[i].ended = live[i].ended

DropsNone ==
  /\ \A i \in Id : Exists(records, i) => Exists(records', i)
  /\ \A i \in Completed(records') : i \in Completed(records) /\ records'[i].ended = records[i].ended

RollsBack ==
  \E i \in Id : Routing(i) /\ spawn'[i] = "rolledBack" /\ records' = Without(records, {i})

(* The changes to one record that leave its end alone.                        *)
SameEnd(r, s) == s # None /\ s.lifecycle = r.lifecycle /\ s.ended = r.ended

LEMMA BumpedSameEnd == ASSUME NEW r \in Record PROVE SameEnd(r, Bumped(r))
BY NoneAssumption, BumpedType DEF SameEnd, Bumped, Record

LEMMA DetachedSameEnd ==
  ASSUME NEW r \in Record PROVE SameEnd(r, [Bumped(r) EXCEPT !.parent = None])
<1> DEFINE s == [Bumped(r) EXCEPT !.parent = None]
<1>1. s.lifecycle = r.lifecycle /\ s.ended = r.ended
  BY DEF Bumped, Record
<1>2. s \in Record
  BY BumpedType DEF Record
<1> QED
  BY <1>1, <1>2, NoneAssumption DEF SameEnd

LEMMA StateSameEnd ==
  ASSUME NEW r \in Record, NEW state \in PiState
  PROVE  SameEnd(r, [Bumped(r) EXCEPT !.piState = state])
<1> DEFINE s == [Bumped(r) EXCEPT !.piState = state]
<1>1. s.lifecycle = r.lifecycle /\ s.ended = r.ended
  BY DEF Bumped, Record
<1>2. s \in Record
  BY BumpedType DEF Record
<1> QED
  BY <1>1, <1>2, NoneAssumption DEF SameEnd

LEMMA ReportSameEnd ==
  ASSUME NEW r \in Record, NEW seq \in Sequence \cup {Legacy}
  PROVE  SameEnd(r, [Bumped(r) EXCEPT !.result = seq, !.resultSeq = AcceptedSeq(r, seq)])
<1> DEFINE s == [Bumped(r) EXCEPT !.result = seq, !.resultSeq = AcceptedSeq(r, seq)]
<1>1. s.lifecycle = r.lifecycle /\ s.ended = r.ended
  BY DEF Bumped, Record
<1>2. s \in Record
  BY ReportType
<1> QED
  BY <1>1, <1>2, NoneAssumption DEF SameEnd

LEMMA ClearSameEnd ==
  ASSUME NEW r \in Record, NEW seq \in Sequence
  PROVE  SameEnd(r, [Bumped(r) EXCEPT !.result = None, !.resultSeq = seq])
<1> DEFINE s == [Bumped(r) EXCEPT !.result = None, !.resultSeq = seq]
<1>1. s.lifecycle = r.lifecycle /\ s.ended = r.ended
  BY DEF Bumped, Record
<1>2. s \in Record
  BY ClearType
<1> QED
  BY <1>1, <1>2, NoneAssumption DEF SameEnd

LEMMA MarkedSameEnd ==
  ASSUME NEW r \in Record, NEW b \in BOOLEAN
  PROVE  SameEnd(r, [r EXCEPT !.stopRequested = b])
<1> DEFINE s == [r EXCEPT !.stopRequested = b]
<1>1. s.lifecycle = r.lifecycle /\ s.ended = r.ended
  BY DEF Record
<1>2. s \in Record
  BY DEF Record
<1> QED
  BY <1>1, <1>2, NoneAssumption DEF SameEnd

LEMMA ReleasedSameEnd == ASSUME NEW r \in Record PROVE SameEnd(r, Released(r))
BY NoneAssumption, ReleasedType DEF SameEnd, Released, Record

(* Ending a record takes the time of the step.                                *)
LEMMA EndsNow ==
  ASSUME NEW r \in Record, NEW lifecycle \in Lifecycle \ {"running"}, now \in Nat
  PROVE  /\ LET s == Ended(r, lifecycle)
            IN s # None /\ s.lifecycle # "running" /\ s.ended = now
         /\ LET s == [Ended(r, "stopped") EXCEPT !.stopRequested = TRUE]
            IN s # None /\ s.lifecycle # "running" /\ s.ended = now
<1>1. Ended(r, lifecycle) # None /\ [Ended(r, "stopped") EXCEPT !.stopRequested = TRUE] # None
  BY EndedType, EndedMarkType, NoneAssumption
<1>2. Ended(r, lifecycle).lifecycle = lifecycle /\ Ended(r, lifecycle).ended = now
  BY DEF Ended, Bumped, Released, Record
<1>3. LET s == [Ended(r, "stopped") EXCEPT !.stopRequested = TRUE]
      IN s.lifecycle = "stopped" /\ s.ended = now
  BY DEF Ended, Bumped, Released, Record
<1> QED
  BY <1>1, <1>2, <1>3

LEMMA NextPrunes ==
  ASSUME TypeOK, [Next]_vars
  PROVE  PrunesOnce \/ DropsNone \/ RollsBack
<1>0. records \in Records /\ now \in Nat
  BY DEF TypeOK, Records
<1>a. ASSUME UNCHANGED records PROVE DropsNone
  BY <1>a DEF DropsNone, Exists, Completed
<1>b. ASSUME NEW live \in Prune(records), NEW ids \in SUBSET Id,
             \A i \in Id : i \notin ids => records'[i] = live[i],
             \A i \in ids : \/ Exists(live, i) /\ SameEnd(live[i], records'[i])
                            \/ ~Exists(live, i) /\ Running(records', i)
      PROVE  PrunesOnce
  <2>1. Completed(records') = Completed(live) /\ \A i \in Id : Exists(live, i) => Exists(records', i)
    BY <1>b DEF Completed, Exists, Running, SameEnd
  <2>2. \A i \in Completed(live) : records'[i].ended = live[i].ended
    BY <1>b DEF Completed, Exists, SameEnd
  <2>3. \A i \in Completed(records) : records[i].ended = EndTime(i)
    BY DEF Completed, EndTime, Running
  <2> QED
    BY <1>0, <2>1, <2>2, <2>3 DEF PrunesOnce
<1>c. ASSUME records' \in Prune(records) PROVE PrunesOnce
  <2>1. \A i \in Completed(records) : records[i].ended = EndTime(i)
    BY DEF Completed, EndTime, Running
  <2> QED
    BY <1>0, <1>c, <2>1 DEF PrunesOnce, Exists
<1>d. ASSUME NEW live \in Prune(records), NEW j \in Id, NEW r, records' = [live EXCEPT ![j] = r],
             \/ Exists(live, j) /\ SameEnd(live[j], r)
             \/ ~Exists(live, j) /\ r # None /\ r.lifecycle = "running"
      PROVE  PrunesOnce
  <2>1. live \in Records
    BY <1>0, PruneKeeps
  <2> DEFINE ids == {j}
  <2>2. /\ ids \in SUBSET Id
        /\ \A i \in Id : i \notin ids => records'[i] = live[i]
        /\ \A i \in ids : \/ Exists(live, i) /\ SameEnd(live[i], records'[i])
                          \/ ~Exists(live, i) /\ Running(records', i)
    BY <1>d, <2>1 DEF Records, Exists, Running
  <2> HIDE DEF ids
  <2> QED
    BY <1>b, <2>2
<1>e. ASSUME NEW recs \in Records, records' \in Prune(recs),
             \A i \in Id : Exists(recs, i) <=> Exists(records, i),
             \A i \in Completed(recs) : recs[i].ended = EndTime(i)
      PROVE  PrunesOnce
  BY <1>e DEF PrunesOnce, Exists
<1>f. ASSUME NEW live \in Prune(records), NEW i \in Id, Exists(live, i)
      PROVE  live[i] \in Record
  BY <1>0, <1>f, PruneKeeps DEF Records, Exists
<1>1. CASE Lock
  BY <1>1, <1>c DEF Lock
<1>2. CASE Tick \/ UNCHANGED vars
  BY <1>2, <1>a DEF Tick, vars
<1>3. CASE Terminals
  <2>1. ASSUME NEW w \in Window, NEW ts \in SUBSET Terminal, RegisterTopLevelTerminals(w, ts)
        PROVE  PrunesOnce
    BY <1>c, <2>1 DEF RegisterTopLevelTerminals
  <2>2. ASSUME NEW w \in Window, UnregisterWindow(w)
        PROVE  DropsNone
    BY <1>a, <2>2 DEF UnregisterWindow
  <2>3. ASSUME NEW t \in Terminal, NEW kind \in Kind, Reserve(t, kind)
        PROVE  PrunesOnce
    BY <1>c, <2>3 DEF Reserve
  <2>4. ASSUME NEW t \in Terminal, NEW j \in Id, Attach(j, t)
        PROVE  PrunesOnce
    <3>1. PICK live \in Prune(records) :
            /\ CanAttach(live, j, t)
            /\ records' = [live EXCEPT ![j] = NewRecord(reservations[j], t)]
      BY <2>4 DEF Attach
    <3>2. NewRecord(reservations[j], t) # None /\ NewRecord(reservations[j], t).lifecycle = "running"
      <4>1. reservations[j] \in Reservation
        BY <3>1 DEF CanAttach, Reserved, TypeOK
      <4> QED
        BY <4>1, NewRecordType, NoneAssumption DEF NewRecord
    <3> QED
      BY <1>d, <3>1, <3>2 DEF CanAttach
  <2>5. ASSUME NEW t \in Terminal, NEW ids \in (SUBSET Id) \ {{}}, Detach(t, ids)
        PROVE  PrunesOnce
    <3>1. PICK live \in Prune(records) :
            records' = [j \in Id |-> IF j \in ids /\ Exists(live, j)
                                     THEN [Bumped(live[j]) EXCEPT !.parent = None]
                                     ELSE live[j]]
      BY <2>5 DEF Detach
    <3> DEFINE changed == {j \in ids : Exists(live, j)}
    <3>2. \A i \in Id : i \notin changed => records'[i] = live[i]
      BY <3>1
    <3>3. \A i \in changed : Exists(live, i) /\ SameEnd(live[i], records'[i])
      BY <1>f, <3>1, DetachedSameEnd
    <3> QED
      BY <1>b, <3>2, <3>3
  <2> QED
    BY <1>3, <2>1, <2>2, <2>3, <2>4, <2>5 DEF Terminals
<1>4. CASE Reports
  <2>1. ASSUME NEW j \in Id, NEW state \in PiState, UpdatePiState(j, state)
        PROVE  PrunesOnce
    BY <1>d, <1>f, <2>1, StateSameEnd DEF UpdatePiState
  <2>2. ASSUME NEW j \in Id, UpdateProgress(j)
        PROVE  PrunesOnce
    BY <1>d, <1>f, <2>2, BumpedSameEnd DEF UpdateProgress, ResultOwner, Running
  <2>3. ASSUME NEW j \in Id, NEW seq \in Sequence \cup {Legacy}, UpdateResult(j, seq)
        PROVE  PrunesOnce
    <3>1. PICK live \in Prune(records) :
            /\ Exists(live, j)
            /\ records' = [live EXCEPT ![j] =
                 [Bumped(live[j]) EXCEPT !.result = seq, !.resultSeq = AcceptedSeq(live[j], seq)]]
      BY <2>3 DEF UpdateResult, ResultOwner, Running
    <3>2. SameEnd(live[j], [Bumped(live[j]) EXCEPT !.result = seq, !.resultSeq = AcceptedSeq(live[j], seq)])
      BY <1>f, <3>1, ReportSameEnd
    <3> QED
      BY <1>d, <3>1, <3>2
  <2>4. ASSUME NEW j \in Id, NEW seq \in Sequence, ClearResult(j, seq)
        PROVE  PrunesOnce
    <3>1. PICK live \in Prune(records) :
            /\ Exists(live, j)
            /\ records' = [live EXCEPT ![j] =
                 [Bumped(live[j]) EXCEPT !.result = None, !.resultSeq = seq]]
      BY <2>4 DEF ClearResult, ResultOwner, Running
    <3>2. SameEnd(live[j], [Bumped(live[j]) EXCEPT !.result = None, !.resultSeq = seq])
      BY <1>f, <3>1, ClearSameEnd
    <3> QED
      BY <1>d, <3>1, <3>2
  <2> QED
    BY <1>4, <2>1, <2>2, <2>3, <2>4 DEF Reports
<1>5. CASE Stops
  <2>1. ASSUME NEW c \in Stopper, NEW j \in Id, StopBegin(c, j)
        PROVE  PrunesOnce
    <3>1. PICK live \in Prune(records) :
            /\ CanStop(live, j)
            /\ records' = [live EXCEPT ![j] = [live[j] EXCEPT !.stopRequested = TRUE]]
      BY <2>1 DEF StopBegin
    <3>2. Exists(live, j)
      BY <3>1 DEF CanStop, Running
    <3>3. SameEnd(live[j], [live[j] EXCEPT !.stopRequested = TRUE])
      BY <1>f, <3>2, MarkedSameEnd
    <3> QED
      BY <1>d, <3>1, <3>2, <3>3
  <2>2. ASSUME NEW j \in Id, NEW r, Exists(records, j), SameEnd(records[j], r),
               records' = [records EXCEPT ![j] = r]
        PROVE  DropsNone
    BY <1>0, <2>2 DEF DropsNone, SameEnd, Exists, Completed, Records
  <2>3. ASSUME NEW c \in Stopper, NEW outcome \in {"ok", "err"}, StopHandler(c, outcome)
        PROVE  DropsNone
    BY <1>a, <2>3 DEF StopHandler
  <2>4. ASSUME NEW c \in Stopper, StopFailed(c) \/ StopDone(c) PROVE stops[c].id \in Id
    BY <2>4 DEF StopFailed, StopDone, TypeOK, StopCall, NoStop
  <2>5. ASSUME NEW c \in Stopper, StopFailed(c)
        PROVE  DropsNone
    <3>1. \/ records' = records
          \/ /\ Exists(records, stops[c].id)
             /\ records' = [records EXCEPT ![stops[c].id] = [records[stops[c].id] EXCEPT !.stopRequested = FALSE]]
      BY <2>5 DEF StopFailed, Running
    <3>2. ASSUME NEW r \in Record PROVE SameEnd(r, [r EXCEPT !.stopRequested = FALSE])
      BY MarkedSameEnd
    <3> QED
      BY <1>0, <1>a, <2>2, <2>4, <2>5, <3>1, <3>2 DEF Records, Exists
  <2>6. ASSUME NEW c \in Stopper, StopDone(c)
        PROVE  DropsNone
    <3>1. \/ records' = records
          \/ /\ Exists(records, stops[c].id)
             /\ records' = [records EXCEPT ![stops[c].id] = Released(records[stops[c].id])]
      BY <2>6 DEF StopDone
    <3> QED
      BY <1>0, <1>a, <2>2, <2>4, <2>6, <3>1, ReleasedSameEnd DEF Records, Exists
  <2> QED
    BY <1>5, <2>1, <2>3, <2>5, <2>6 DEF Stops
<1>6. CASE Waits
  <2>1. ASSUME NEW c \in Waiter, NEW i \in Id, NEW untilResult \in BOOLEAN,
               WaitBegin(c, i, untilResult)
        PROVE  PrunesOnce
    BY <1>c, <2>1 DEF WaitBegin
  <2>2. ASSUME NEW c \in Waiter, \/ WaitWake(c) \/ WaitDeadline(c) \/ WaitCancelled(c)
                                 \/ WaitReturn(c) \/ CancelWaits
        PROVE  DropsNone
    BY <1>a, <2>2 DEF WaitWake, WaitDeadline, WaitCancelled, WaitReturn, CancelWaits
  <2> QED
    BY <1>6, <2>1, <2>2 DEF Waits
<1>7. CASE Endings
  <2>1. ASSUME NEW j \in Id, FinishReservation(j)
        PROVE  PrunesOnce
    BY <1>c, <2>1 DEF FinishReservation
  <2>2. ASSUME NEW j \in Id, RollbackReservation(j)
        PROVE  RollsBack
    BY <2>2 DEF RollbackReservation, RollsBack, TypeOK
  <2>3. ASSUME NEW j \in Id, NEW lifecycle \in Lifecycle \ {"running"}, Running(records, j),
               records' \in Prune([records EXCEPT ![j] = Ended(@, lifecycle)])
        PROVE  PrunesOnce
    <3> DEFINE recs == [records EXCEPT ![j] = Ended(@, lifecycle)]
    <3>1. records[j] \in Record
      BY <1>0, <2>3 DEF Records, Running, Exists
    <3>2. recs \in Records
      BY <1>0, <3>1, EndedType DEF Records
    <3>3. \A i \in Id : recs[i] = IF i = j THEN Ended(records[j], lifecycle) ELSE records[i]
      BY <1>0 DEF Records
    <3>4. recs[j] # None /\ recs[j].lifecycle # "running" /\ recs[j].ended = now
      BY <1>0, <3>1, <3>3, EndsNow
    <3>5. \A i \in Id : Exists(recs, i) <=> Exists(records, i)
      BY <2>3, <3>3, <3>4 DEF Exists, Running
    <3>6. \A i \in Completed(recs) : recs[i].ended = EndTime(i)
      BY <2>3, <3>3, <3>4 DEF Completed, EndTime, Running
    <3> HIDE DEF recs
    <3> QED
      BY <1>e, <2>3, <3>2, <3>5, <3>6 DEF recs
  <2>4. ASSUME NEW j \in Id, Exited(j) \/ Failed(j)
        PROVE  PrunesOnce
    BY <2>3, <2>4 DEF Exited, ExitedAs, Failed, Lifecycle
  <2>5. CASE Shutdown
    <3> DEFINE recs == [i \in Id |->
                          IF Running(records, i)
                          THEN [Ended(records[i], "stopped") EXCEPT !.stopRequested = TRUE]
                          ELSE IF Exists(records, i) THEN Released(records[i]) ELSE None]
    <3>1. \A i \in Id : Exists(records, i) => records[i] \in Record
      BY <1>0 DEF Records, Exists
    <3>2. recs \in Records
      BY <1>0, <3>1, EndedMarkType, ReleasedType DEF Records, Running
    <3>3. \A i \in Id : Running(records, i) =>
            Exists(recs, i) /\ recs[i].lifecycle # "running" /\ recs[i].ended = now
      BY <1>0, <3>1, EndsNow DEF Running, Exists, Lifecycle
    <3>4. \A i \in Id : Exists(records, i) /\ ~Running(records, i) =>
            Exists(recs, i) /\ recs[i].ended = records[i].ended
      BY <3>1, ReleasedSameEnd DEF SameEnd, Exists
    <3>5. \A i \in Id : ~Exists(records, i) => ~Exists(recs, i)
      BY DEF Exists, Running
    <3>6. \A i \in Id : Exists(recs, i) <=> Exists(records, i)
      BY <3>3, <3>4, <3>5
    <3>7. \A i \in Completed(recs) : recs[i].ended = EndTime(i)
      BY <3>3, <3>4, <3>6 DEF Completed, EndTime
    <3>8. records' \in Prune(recs)
      BY <2>5 DEF Shutdown
    <3> HIDE DEF recs
    <3> QED
      BY <1>e, <3>2, <3>6, <3>7, <3>8
  <2> QED
    BY <1>7, <2>1, <2>2, <2>4, <2>5 DEF Endings
<1> QED
  BY <1>1, <1>2, <1>3, <1>4, <1>5, <1>6, <1>7 DEF Next

(* What is dropped ended no later than what is kept; and what has just ended  *)
(* is dropped only when the limit is reached.                                 *)
LEMMA PruneDropsOldest ==
  ASSUME now \in Nat, NEW recs \in Records, NEW live \in Prune(recs),
         NEW i \in Completed(recs), ~Exists(live, i)
  PROVE  /\ \A j \in Completed(live) : /\ j \in Completed(recs) /\ live[j] = recs[j]
                                       /\ recs[i].ended <= recs[j].ended
         /\ recs[i].ended = now => Cardinality(Completed(live)) = CompletedLimit
<1>1. PICK kept \in Retentions(recs) : live = Without(recs, Completed(recs) \ kept)
  BY DEF Prune
<1>2. kept \subseteq Fresh(recs) /\ Retained(recs, kept) /\ Fresh(recs) \subseteq Completed(recs)
  BY <1>1 DEF Retentions, Fresh
<1>3. Completed(live) = kept
  BY <1>1, <1>2 DEF Without, Completed, Exists
<1>4. i \notin kept
  BY <1>3 DEF Completed
<1>5. \A j \in Completed(recs) : j \in Id /\ recs[j] \in Record /\ recs[j].ended \in Nat
  BY DEF Completed, Exists, Records, Record
<1>6. ASSUME NEW j \in kept
      PROVE  j \in Completed(recs) /\ live[j] = recs[j] /\ recs[i].ended <= recs[j].ended
  <2>1. j \in Completed(recs) /\ live[j] = recs[j] /\ recs[j].ended + Ttl >= now
    BY <1>1, <1>2, <1>5 DEF Without, Fresh
  <2>2. CASE i \in Fresh(recs)
    <3>1. EndedBefore(recs, i, j)
      BY <1>2, <1>4, <2>2 DEF Retained
    <3> QED
      BY <1>5, <2>1, <3>1 DEF EndedBefore
  <2>3. CASE i \notin Fresh(recs)
    <3>1. ~(recs[i].ended + Ttl >= now)
      BY <2>3 DEF Fresh
    <3> QED
      BY <1>5, <2>1, <3>1, RegistryAssumption
  <2> QED
    BY <2>1, <2>2, <2>3
<1>7. ASSUME recs[i].ended = now PROVE Cardinality(Completed(live)) = CompletedLimit
  <2>1. i \in Fresh(recs)
    BY <1>5, <1>7, RegistryAssumption DEF Fresh
  <2> QED
    BY <1>2, <1>3, <1>4, <2>1 DEF Retained
<1> QED
  BY <1>3, <1>6, <1>7

LEMMA EndedInPastNext ==
  ASSUME TypeOK, EndedInPast, [Next]_vars
  PROVE  EndedInPast'
<1>1. now' \in Nat /\ now <= now' /\ now \in Nat
  <2>1. now \in Nat
    BY DEF TypeOK
  <2>2. CASE Tick
    BY <2>1, <2>2 DEF Tick
  <2>3. CASE Terminals
    <3>1. ASSUME NEW w \in Window, NEW ts \in SUBSET Terminal, RegisterTopLevelTerminals(w, ts) PROVE now' = now
      BY <3>1 DEF RegisterTopLevelTerminals
    <3>2. ASSUME NEW w \in Window, UnregisterWindow(w) PROVE now' = now
      BY <3>2 DEF UnregisterWindow
    <3>3. ASSUME NEW t \in Terminal, NEW kind \in Kind, Reserve(t, kind) PROVE now' = now
      BY <3>3 DEF Reserve
    <3>4. ASSUME NEW t \in Terminal, NEW i \in Id, Attach(i, t) PROVE now' = now
      BY <3>4 DEF Attach
    <3>5. ASSUME NEW t \in Terminal, NEW ids \in (SUBSET Id) \ {{}}, Detach(t, ids) PROVE now' = now
      BY <3>5 DEF Detach
    <3> QED
      BY <2>1, <2>3, <3>1, <3>2, <3>3, <3>4, <3>5 DEF Terminals
  <2>4. CASE Reports
    <3>1. ASSUME NEW i \in Id, NEW state \in PiState, UpdatePiState(i, state) PROVE now' = now
      BY <3>1 DEF UpdatePiState
    <3>2. ASSUME NEW i \in Id, UpdateProgress(i) PROVE now' = now
      BY <3>2 DEF UpdateProgress
    <3>3. ASSUME NEW i \in Id, NEW seq \in Sequence \cup {Legacy}, UpdateResult(i, seq) PROVE now' = now
      BY <3>3 DEF UpdateResult
    <3>4. ASSUME NEW i \in Id, NEW seq \in Sequence, ClearResult(i, seq) PROVE now' = now
      BY <3>4 DEF ClearResult
    <3> QED
      BY <2>1, <2>4, <3>1, <3>2, <3>3, <3>4 DEF Reports
  <2>5. CASE Stops
    BY <2>1, <2>5 DEF Stops, StopBegin, StopHandler, StopFailed, StopDone
  <2>6. CASE Waits
    BY <2>1, <2>6 DEF Waits, WaitBegin, WaitWake, WaitDeadline, WaitCancelled, WaitReturn, CancelWaits
  <2>7. CASE Endings
    <3>1. ASSUME NEW i \in Id, FinishReservation(i) PROVE now' = now
      BY <3>1 DEF FinishReservation
    <3>2. ASSUME NEW i \in Id, RollbackReservation(i) PROVE now' = now
      BY <3>2 DEF RollbackReservation
    <3>3. ASSUME NEW i \in Id, Exited(i) PROVE now' = now
      BY <3>3 DEF Exited
    <3>4. ASSUME NEW i \in Id, Failed(i) PROVE now' = now
      BY <3>4 DEF Failed
    <3>5. ASSUME Shutdown PROVE now' = now
      BY <3>5 DEF Shutdown
    <3> QED
      BY <2>1, <2>7, <3>1, <3>2, <3>3, <3>4, <3>5 DEF Endings
  <2>8. CASE Lock \/ UNCHANGED vars
    BY <2>1, <2>8 DEF Lock, vars
  <2> QED
    BY <2>2, <2>3, <2>4, <2>5, <2>6, <2>7, <2>8 DEF Next
<1>2. \A i \in Completed(records) : records[i].ended \in Nat
  BY DEF TypeOK, Completed, Exists, Record
<1>3. \A i \in Completed(records') : \/ records'[i].ended = now
                                     \/ i \in Completed(records) /\ records'[i].ended = records[i].ended
  <2>1. CASE DropsNone
    BY <2>1 DEF DropsNone
  <2>2. CASE RollsBack
    BY <2>2 DEF RollsBack, Without, Completed, Exists
  <2>3. CASE PrunesOnce
    <3>a. PICK recs \in Records : \E live \in Prune(recs) :
            /\ \A i \in Id : Exists(recs, i) => Exists(records, i)
            /\ \A i \in Completed(recs) : recs[i].ended = EndTime(i)
            /\ Completed(records') = Completed(live)
            /\ \A i \in Completed(live) : records'[i].ended = live[i].ended
      BY <2>3 DEF PrunesOnce
    <3>1. PICK live \in Prune(recs) :
            /\ \A i \in Id : Exists(recs, i) => Exists(records, i)
            /\ \A i \in Completed(recs) : recs[i].ended = EndTime(i)
            /\ Completed(records') = Completed(live)
            /\ \A i \in Completed(live) : records'[i].ended = live[i].ended
      BY <3>a
    <3>2. \A i \in Completed(live) : live[i] = recs[i] /\ i \in Completed(recs)
      BY PruneKeeps DEF Completed, Exists
    <3> QED
      BY <3>1, <3>2 DEF EndTime, Completed, Running
  <2> QED
    BY <2>1, <2>2, <2>3, NextPrunes
<1>4. \A i \in Completed(records') : records'[i].ended <= now'
  BY <1>1, <1>2, <1>3 DEF EndedInPast
<1> QED
  BY <1>4 DEF EndedInPast, Completed, Exists

-----------------------------------------------------------------------------
(* The theorems *)

(* The inductive invariant holds in the initial state. *)
LEMMA RegistryInit == Init => RegistryInv
<1> SUFFICES ASSUME Init PROVE RegistryInv
  OBVIOUS
<1>1. TypeOK
  BY TypeInit
<1>2. SpawnProgress
  BY DEF Init, SpawnProgress, Exists, Reserved, NoStop
<1>3. \A i \in Id : ~Exists(records, i) /\ ~Running(records, i)
  BY DEF Init, Exists, Running
<1>4. \A c \in Stopper, i \in Id : ~Stopping(c, i)
  BY DEF Init, Stopping, NoStop
<1>5. StopsHold /\ OneStopPerRecord /\ StopMarkBacked /\ CapabilitiesReleased
  BY <1>3, <1>4 DEF StopsHold, OneStopPerRecord, StopMarkBacked, CapabilitiesReleased, Completed
<1>6. TerminalOwnedOnce /\ DetachedHasNoParent /\ ResultIsNewest
  BY <1>3 DEF TerminalOwnedOnce, DetachedHasNoParent, ResultIsNewest
<1>7. CompletedBounded
  <2>1. Completed(records) = {}
    BY <1>3 DEF Completed
  <2> QED
    BY <2>1, FS_EmptySet, RegistryAssumption DEF CompletedBounded
<1> QED
  BY <1>1, <1>2, <1>5, <1>6, <1>7 DEF RegistryInv, Progress

(* Every step preserves the inductive invariant. *)
LEMMA RegistryNext == RegistryInv /\ [Next]_vars => RegistryInv'
<1> SUFFICES ASSUME RegistryInv, [Next]_vars PROVE RegistryInv'
  OBVIOUS
<1>1. Progress /\ TypeOK
  BY DEF RegistryInv, Progress
<1>2. Progress'
  BY <1>1, ProgressNext
<1>3. StopInv'
  <2>1. StopInv
    BY DEF RegistryInv, StopInv
  <2> QED
    BY <1>1, <2>1, StopInvOthers, StopInvStops
<1>4. CapabilitiesReleased' /\ ResultIsNewest'
  BY <1>1, CapabilitiesNext, ResultNext DEF RegistryInv
<1>5. TerminalOwnedOnce' /\ DetachedHasNoParent' /\ CompletedBounded'
  BY <1>1, TerminalNext, DetachedNext, CompletedNext DEF RegistryInv
<1> QED
  BY <1>2, <1>3, <1>4, <1>5 DEF RegistryInv, StopInv

(* The inductive invariant of the registry: its parts relate each record to its
   reservation, its spawn, its stop calls, its report and the retention limit. *)
THEOREM RegistryInvariant == Spec => []RegistryInv
BY RegistryInit, RegistryNext, PTL DEF Spec

(* The handlers of a subagent that has ended are released.                    *)
THEOREM CapabilitiesCorrect == Spec => []CapabilitiesReleased
<1>1. RegistryInv => CapabilitiesReleased
  BY DEF RegistryInv
<1> QED
  BY <1>1, RegistryInvariant, PTL

(* A running subagent can be stopped unless a stop has it in hand, and no two  *)
(* stop calls ever have it together.                                          *)
THEOREM StopsCorrect == Spec => [](StopMarkBacked /\ OneStopPerRecord)
<1>1. RegistryInv => StopMarkBacked /\ OneStopPerRecord
  BY DEF RegistryInv
<1> QED
  BY <1>1, RegistryInvariant, PTL

(* A terminal is never owned twice, however attach and registration race.      *)
THEOREM TerminalsCorrect == Spec => []TerminalOwnedOnce
<1>1. RegistryInv => TerminalOwnedOnce
  BY DEF RegistryInv
<1> QED
  BY <1>1, RegistryInvariant, PTL

(* What was rolled back is gone for good.                                      *)
THEOREM RollbackCorrect == Spec => []RollbackIsFinal
<1>1. RegistryInv => RollbackIsFinal
  BY DEF RegistryInv, Progress, SpawnProgress, RollbackIsFinal, Routing
<1> QED
  BY <1>1, RegistryInvariant, PTL

(* A detach holds, whether it found the reservation or the record.             *)
THEOREM DetachCorrect == Spec => []DetachedHasNoParent
<1>1. RegistryInv => DetachedHasNoParent
  BY DEF RegistryInv
<1> QED
  BY <1>1, RegistryInvariant, PTL

(* The stored result is the newest accepted one.                               *)
THEOREM ResultCorrect == Spec => []ResultIsNewest
<1>1. RegistryInv => ResultIsNewest
  BY DEF RegistryInv
<1> QED
  BY <1>1, RegistryInvariant, PTL

(* Completed records never exceed the limit.                                   *)
THEOREM RetentionCorrect == Spec => []CompletedBounded
<1>1. RegistryInv => CompletedBounded
  BY DEF RegistryInv
<1> QED
  BY <1>1, RegistryInvariant, PTL

(* How a subagent ended, and what it had produced by then, never changes.      *)
THEOREM CompletedCorrect == Spec => CompletedIsFinal
<1>1. ASSUME RegistryInv, [Next]_vars
      PROVE  [\A i \in Completed(records) : Exists(records', i) =>
                /\ records'[i].lifecycle = records[i].lifecycle
                /\ records'[i].ended = records[i].ended
                /\ records'[i].result = records[i].result
                /\ records'[i].resultSeq = records[i].resultSeq]_vars
  <2> SUFFICES ASSUME NEW i \in Completed(records), Exists(records', i)
               PROVE  /\ records'[i].lifecycle = records[i].lifecycle
                      /\ records'[i].ended = records[i].ended
                      /\ records'[i].result = records[i].result
                      /\ records'[i].resultSeq = records[i].resultSeq
    OBVIOUS
  <2>1. i \in Id /\ Exists(records, i) /\ records[i].lifecycle # "running"
    BY DEF Completed
  <2>2. Changed(i) /\ spawn[i] # "routing"
    BY <1>1, <2>1, NextChanges DEF RegistryInv, Progress, SpawnProgress
  <2> QED
    BY <2>1, <2>2 DEF Changed, Updated, Exists
<1> QED
  BY <1>1, RegistryInvariant, PTL DEF Spec, CompletedIsFinal

(* A sequenced result is only ever replaced by a later one.                    *)
THEOREM ResultOrderCorrect == Spec => ResultNeverRegresses
<1>1. ASSUME RegistryInv, [Next]_vars
      PROVE  [\A i \in Id : Exists(records, i) /\ Exists(records', i) =>
                \/ records'[i].result = records[i].result
                \/ records[i].resultSeq = None
                \/ records'[i].resultSeq # None /\ records'[i].resultSeq > records[i].resultSeq]_vars
  <2> SUFFICES ASSUME NEW i \in Id, Exists(records, i), Exists(records', i)
               PROVE  \/ records'[i].result = records[i].result
                      \/ records[i].resultSeq = None
                      \/ /\ records'[i].resultSeq # None
                         /\ records'[i].resultSeq > records[i].resultSeq
    OBVIOUS
  <2>1. Changed(i) /\ spawn[i] # "routing"
    BY <1>1, NextChanges DEF RegistryInv, Progress, SpawnProgress
  <2>2. Updated(records[i], records'[i])
    BY <2>1 DEF Changed, Exists
  <2>3. CASE NewReport(records[i], records'[i])
    <3>1. records[i].resultSeq \in Nat \cup {None} /\ None \notin Nat
      BY <1>1, RegistryAssumption DEF RegistryInv, Progress, TypeOK, Record, Exists
    <3> QED
      BY <2>3, <3>1 DEF NewReport, Sequence
  <2> QED
    BY <2>2, <2>3 DEF Updated
<1> QED
  BY <1>1, RegistryInvariant, PTL DEF Spec, ResultNeverRegresses

(* Completed records have ended by now.                                       *)
LEMMA EndsCorrect == Spec => []EndedInPast
<1>1. Init => EndedInPast
  BY DEF Init, EndedInPast, Completed, Exists
<1>2. RegistryInv /\ EndedInPast /\ [Next]_vars => EndedInPast'
  BY EndedInPastNext DEF RegistryInv, Progress
<1> QED
  BY <1>1, <1>2, RegistryInvariant, PTL DEF Spec

(* "Active records are never pruned": a child that runs disappears only when   *)
(* its own spawn is rolled back, or in the step that ends it, when the limit   *)
(* is filled with records that ended no earlier.                              *)
THEOREM RunningCorrect == Spec => RunningNeverPruned
<1>1. ASSUME RegistryInv, EndedInPast, EndedInPast', [Next]_vars
      PROVE  [\A i \in Id : Running(records, i) /\ ~Exists(records', i) =>
                \/ Routing(i) /\ spawn'[i] = "rolledBack"
                \/ /\ Cardinality(Completed(records')) = CompletedLimit
                   /\ \A j \in Completed(records') : records'[j].ended = now]_vars
  <2> SUFFICES ASSUME NEW i \in Id, Running(records, i), ~Exists(records', i),
                      ~(Routing(i) /\ spawn'[i] = "rolledBack")
               PROVE  /\ Cardinality(Completed(records')) = CompletedLimit
                      /\ \A j \in Completed(records') : records'[j].ended = now
    OBVIOUS
  <2>1. TypeOK /\ now \in Nat
    BY <1>1 DEF RegistryInv, Progress, TypeOK
  <2>2. ~DropsNone
    BY DEF DropsNone, Running
  <2>3. ~RollsBack
    BY DEF RollsBack, Without, Running, Exists
  <2>a. PICK recs \in Records : \E live \in Prune(recs) :
          /\ \A j \in Id : Exists(recs, j) => Exists(records, j)
          /\ \A j \in Id : Exists(records, j) => Exists(recs, j)
          /\ \A j \in Completed(recs) : recs[j].ended = EndTime(j)
          /\ \A j \in Id : Exists(live, j) => Exists(records', j)
          /\ Completed(records') = Completed(live)
          /\ \A j \in Completed(live) : records'[j].ended = live[j].ended
    BY <1>1, <2>1, <2>2, <2>3, NextPrunes DEF PrunesOnce
  <2>4. PICK live \in Prune(recs) :
          /\ \A j \in Id : Exists(recs, j) => Exists(records, j)
          /\ \A j \in Id : Exists(records, j) => Exists(recs, j)
          /\ \A j \in Completed(recs) : recs[j].ended = EndTime(j)
          /\ \A j \in Id : Exists(live, j) => Exists(records', j)
          /\ Completed(records') = Completed(live)
          /\ \A j \in Completed(live) : records'[j].ended = live[j].ended
    BY <2>a
  <2>5. ~Exists(live, i) /\ Exists(recs, i)
    BY <2>4 DEF Running
  <2>6. i \in Completed(recs)
    BY <2>5, PruneKeeps DEF Completed, Running, Exists
  <2>7. recs[i].ended = now
    BY <2>4, <2>6 DEF EndTime
  <2>8. Cardinality(Completed(live)) = CompletedLimit
    BY <2>1, <2>5, <2>6, <2>7, PruneDropsOldest
  <2>9. ASSUME NEW j \in Completed(live) PROVE live[j].ended = now
    <3>1. j \in Completed(recs) /\ live[j] = recs[j] /\ now <= recs[j].ended
      BY <2>1, <2>5, <2>6, <2>7, PruneDropsOldest
    <3>2. recs[j].ended = now \/ (j \in Completed(records) /\ recs[j].ended = records[j].ended)
      BY <2>4, <3>1 DEF EndTime, Completed, Running
    <3>3. recs[j].ended \in Nat /\ (j \in Completed(records) => records[j].ended <= now)
      BY <1>1, <3>1 DEF EndedInPast, Completed, Exists, Records, Record
    <3> QED
      BY <2>1, <3>1, <3>2, <3>3
  <2> QED
    BY <2>4, <2>8, <2>9
<1> QED
  BY <1>1, RegistryInvariant, EndsCorrect, PTL DEF Spec, RunningNeverPruned

(* Whatever a step drops, also a child that ends in it, ended no later than    *)
(* each completed record it keeps.                                            *)
THEOREM NewestCorrect == Spec => NewestAreRetained
<1>1. ASSUME RegistryInv, [Next]_vars
      PROVE  [\A i, j \in Id :
                (/\ Exists(records, i) /\ ~Exists(records', i)
                 /\ spawn'[i] = spawn[i]
                 /\ j \in Completed(records'))
                => EndTime(i) <= records'[j].ended]_vars
  <2> SUFFICES ASSUME NEW i \in Id, NEW j \in Id, Exists(records, i), ~Exists(records', i),
                      spawn'[i] = spawn[i], j \in Completed(records')
               PROVE  EndTime(i) <= records'[j].ended
    OBVIOUS
  <2>1. TypeOK /\ now \in Nat
    BY <1>1 DEF RegistryInv, Progress, TypeOK
  <2>2. ~DropsNone
    BY DEF DropsNone
  <2>3. ~RollsBack
    BY DEF RollsBack, Without, Exists, Routing
  <2>a. PICK recs \in Records : \E live \in Prune(recs) :
          /\ \A k \in Id : Exists(records, k) => Exists(recs, k)
          /\ \A k \in Completed(recs) : recs[k].ended = EndTime(k)
          /\ \A k \in Id : Exists(live, k) => Exists(records', k)
          /\ Completed(records') = Completed(live)
          /\ \A k \in Completed(live) : records'[k].ended = live[k].ended
    BY <1>1, <2>1, <2>2, <2>3, NextPrunes DEF PrunesOnce
  <2>4. PICK live \in Prune(recs) :
          /\ \A k \in Id : Exists(records, k) => Exists(recs, k)
          /\ \A k \in Completed(recs) : recs[k].ended = EndTime(k)
          /\ \A k \in Id : Exists(live, k) => Exists(records', k)
          /\ Completed(records') = Completed(live)
          /\ \A k \in Completed(live) : records'[k].ended = live[k].ended
    BY <2>a
  <2>5. ~Exists(live, i) /\ Exists(recs, i)
    BY <2>4
  <2>6. i \in Completed(recs)
    BY <2>5, PruneKeeps DEF Completed, Running, Exists
  <2>7. live[j] = recs[j] /\ recs[i].ended <= recs[j].ended
    BY <2>1, <2>4, <2>5, <2>6, PruneDropsOldest
  <2> QED
    BY <2>4, <2>6, <2>7
<1> QED
  BY <1>1, RegistryInvariant, PTL DEF Spec, NewestAreRetained

-----------------------------------------------------------------------------
(* Third part: the life cycle *)

Lives == {"none", "running", "forgotten"} \cup Life!Over
LifeNow == LifeOf(records, spawn)
AskedNow == AskedOf(records)
CallsNow == CallsOf(stops)

(* Same life, and same mark. *)
Alike(r, s) == s.lifecycle = r.lifecycle /\ s.stopRequested = r.stopRequested

Kept(i) ==
  \/ Exists(records, i) /\ Exists(records', i) /\ Alike(records[i], records'[i])
  \/ ~Exists(records', i) /\ ~Running(records, i)

SpawnKept(i) ==
  \/ spawn'[i] = spawn[i]
  \/ {spawn[i], spawn'[i]} = {"none", "routing"}
  \/ {spawn[i], spawn'[i]} = {"attached", "finished"}

(* The life of each subagent is one of the abstract ones, before a step and   *)
(* after it.                                                                 *)
LEMMA LifeType ==
  /\ TypeOK => LifeNow \in [Id -> Lives]
  /\ TypeOK' => LifeNow' \in [Id -> Lives]
BY DEF TypeOK, LifeNow, LifeOf, Lives, Life!Over, Record, Lifecycle, Exists

(* A subagent whose record is kept keeps its life, or is forgotten after it. *)
LEMMA KeptLife ==
  ASSUME RegistryInv, RegistryInv', NEW i \in Id, Kept(i), SpawnKept(i)
  PROVE  /\ \/ LifeNow'[i] = LifeNow[i]
            \/ LifeNow[i] \in Life!Over /\ LifeNow'[i] = "forgotten"
         /\ i \in AskedNow' <=> i \in AskedNow
<1>1. Exists(records, i) => /\ spawn[i] \in {"attached", "finished"}
                            /\ records[i].lifecycle \in Lifecycle
  BY DEF RegistryInv, Progress, SpawnProgress, TypeOK, Record, Exists
<1>2. Exists(records', i) => Exists(records, i)
  BY DEF Kept
<1>3. i \in AskedNow' <=> i \in AskedNow
  BY DEF Kept, Alike, AskedNow, AskedOf, Running, Exists
<1>4. LifeNow[i] = IF Exists(records, i) THEN records[i].lifecycle
                   ELSE IF spawn[i] \in {"none", "routing"} THEN "none" ELSE "forgotten"
  BY DEF LifeNow, LifeOf
<1>5. LifeNow'[i] = IF Exists(records', i) THEN records'[i].lifecycle
                    ELSE IF spawn'[i] \in {"none", "routing"} THEN "none" ELSE "forgotten"
  BY DEF LifeNow, LifeOf
<1>6. CASE Exists(records', i)
  BY <1>2, <1>3, <1>4, <1>5, <1>6 DEF Kept, Alike
<1>7. CASE ~Exists(records', i) /\ Exists(records, i)
  <2>1. records[i].lifecycle \in Life!Over
    BY <1>1, <1>7 DEF Kept, Running, Lifecycle, Life!Over
  <2>2. spawn'[i] \notin {"none", "routing"}
    BY <1>1, <1>7 DEF SpawnKept
  <2> QED
    BY <1>3, <1>4, <1>5, <1>7, <2>1, <2>2
<1>8. CASE ~Exists(records', i) /\ ~Exists(records, i)
  BY <1>3, <1>4, <1>5, <1>8 DEF SpawnKept
<1> QED
  BY <1>6, <1>7, <1>8

(* A step that keeps every record, and every call, only forgets. *)
LEMMA KeptForgets ==
  ASSUME RegistryInv, RegistryInv', \A i \in Id : Kept(i) /\ SpawnKept(i)
  PROVE  LifeNow' \in Life!Forgetting(LifeNow) /\ AskedNow' = AskedNow
<1>1. LifeNow' \in [Id -> Lives]
  BY LifeType DEF RegistryInv, Progress
<1>2. \A i \in Id : \/ LifeNow'[i] = LifeNow[i]
                    \/ LifeNow[i] \in Life!Over /\ LifeNow'[i] = "forgotten"
  BY KeptLife
<1>3. AskedNow' = AskedNow
  <2>1. \A i \in Id : i \in AskedNow' <=> i \in AskedNow
    BY KeptLife
  <2>2. AskedNow \subseteq Id /\ AskedNow' \subseteq Id
    BY DEF AskedNow, AskedOf
  <2> QED
    BY <2>1, <2>2
<1> QED
  BY <1>1, <1>2, <1>3 DEF Life!Forgetting, Lives

-----------------------------------------------------------------------------
(* The steps that keep every record *)

(* Pruning keeps a record or drops one that is over; what an operation then   *)
(* leaves alike is kept.                                                     *)
LEMMA PrunedKept ==
  ASSUME records \in Records, NEW live \in Prune(records), NEW i \in Id,
         \/ records'[i] = live[i]
         \/ Exists(live, i) /\ Exists(records', i) /\ Alike(live[i], records'[i])
  PROVE  Kept(i)
BY PruneKeeps DEF Kept, Alike, Exists, Running

(* An operation on one record, of what pruning left, that keeps it alike. *)
LEMMA OneKept ==
  ASSUME records \in Records, NEW live \in Prune(records), NEW j \in Id, NEW r \in Record,
         Exists(live, j), Alike(live[j], r), records' = [live EXCEPT ![j] = r], NEW i \in Id
  PROVE  Kept(i)
<1>1. live \in Records
  BY PruneKeeps
<1>2. CASE i = j
  BY <1>1, <1>2, PrunedKept, NoneAssumption DEF Records, Exists
<1>3. CASE i # j
  BY <1>1, <1>3, PrunedKept DEF Records
<1> QED
  BY <1>2, <1>3

(* The reports of a child keep its life. *)
LEMMA ReportsKeep ==
  ASSUME TypeOK, Reports, NEW i \in Id PROVE Kept(i)
<1>0. records \in Records
  BY DEF TypeOK, Records
<1>1. ASSUME NEW j \in Id, NEW live \in Prune(records), Exists(live, j)
      PROVE  live[j] \in Record
  BY <1>0, <1>1, PruneKeeps DEF Records, Exists
<1>2. ASSUME NEW j \in Id, NEW state \in PiState, UpdatePiState(j, state)
      PROVE  Kept(i)
  <2>1. PICK live \in Prune(records) :
          /\ Exists(live, j)
          /\ records' = [live EXCEPT ![j] = [Bumped(@) EXCEPT !.piState = state]]
    BY <1>2 DEF UpdatePiState
  <2>2. /\ [Bumped(live[j]) EXCEPT !.piState = state] \in Record
        /\ Alike(live[j], [Bumped(live[j]) EXCEPT !.piState = state])
    BY <1>1, <2>1, BumpedType DEF Record, Alike, Bumped
  <2> QED
    BY <1>0, <2>1, <2>2, OneKept
<1>3. ASSUME NEW j \in Id, UpdateProgress(j) PROVE Kept(i)
  <2>1. PICK live \in Prune(records) :
          Exists(live, j) /\ records' = [live EXCEPT ![j] = Bumped(@)]
    BY <1>3 DEF UpdateProgress, ResultOwner, Running
  <2>2. Bumped(live[j]) \in Record /\ Alike(live[j], Bumped(live[j]))
    BY <1>1, <2>1, BumpedType DEF Record, Alike, Bumped
  <2> QED
    BY <1>0, <2>1, <2>2, OneKept
<1>4. ASSUME NEW j \in Id, NEW seq \in Sequence \cup {Legacy}, UpdateResult(j, seq)
      PROVE  Kept(i)
  <2>1. PICK live \in Prune(records) :
          /\ Exists(live, j)
          /\ records' = [live EXCEPT ![j] =
               [Bumped(@) EXCEPT !.result = seq, !.resultSeq = AcceptedSeq(live[j], seq)]]
    BY <1>4 DEF UpdateResult, ResultOwner, Running
  <2> DEFINE r == [Bumped(live[j]) EXCEPT !.result = seq, !.resultSeq = AcceptedSeq(live[j], seq)]
  <2>2. live[j] \in Record
    BY <1>1, <2>1
  <2>3. r \in Record
    BY <2>2, ReportType
  <2>4. r.lifecycle = live[j].lifecycle /\ r.stopRequested = live[j].stopRequested
    BY <2>2 DEF Record, Bumped
  <2>5. Alike(live[j], r)
    BY <2>4 DEF Alike
  <2> QED
    BY <1>0, <2>1, <2>3, <2>5, OneKept
<1>5. ASSUME NEW j \in Id, NEW seq \in Sequence, ClearResult(j, seq)
      PROVE  Kept(i)
  <2>1. PICK live \in Prune(records) :
          /\ Exists(live, j)
          /\ records' = [live EXCEPT ![j] = [Bumped(@) EXCEPT !.result = None, !.resultSeq = seq]]
    BY <1>5 DEF ClearResult, ResultOwner, Running
  <2> DEFINE r == [Bumped(live[j]) EXCEPT !.result = None, !.resultSeq = seq]
  <2>2. r \in Record /\ Alike(live[j], r)
    BY <1>1, <2>1, ClearType DEF Record, Alike, Bumped
  <2> QED
    BY <1>0, <2>1, <2>2, OneKept
<1> QED
  BY <1>2, <1>3, <1>4, <1>5 DEF Reports

(* A detach keeps the life of what it detaches. *)
LEMMA DetachKeeps ==
  ASSUME TypeOK, NEW t \in Terminal, NEW ids \in SUBSET Id, Detach(t, ids), NEW i \in Id
  PROVE  Kept(i)
<1>0. records \in Records
  BY DEF TypeOK, Records
<1>1. PICK live \in Prune(records) :
        records' = [j \in Id |-> IF j \in ids /\ Exists(live, j)
                                 THEN [Bumped(live[j]) EXCEPT !.parent = None] ELSE live[j]]
  BY DEF Detach
<1>2. CASE i \in ids /\ Exists(live, i)
  <2>1. live[i] \in Record
    BY <1>0, <1>2, PruneKeeps DEF Records, Exists
  <2>2. records'[i] = [Bumped(live[i]) EXCEPT !.parent = None]
    BY <1>1, <1>2
  <2>3. records'[i] \in Record /\ Alike(live[i], records'[i])
    BY <2>1, <2>2, BumpedType DEF Record, Alike, Bumped
  <2> QED
    BY <1>0, <1>2, <2>3, PrunedKept, NoneAssumption DEF Exists
<1>3. CASE ~(i \in ids /\ Exists(live, i))
  BY <1>0, <1>1, <1>3, PrunedKept
<1> QED
  BY <1>2, <1>3

(* What the registry does besides starting, stopping and ending subagents. *)
Uneventful ==
  \/ Lock \/ Tick \/ Reports \/ Waits
  \/ \E w \in Window : \/ \E ts \in SUBSET Terminal : RegisterTopLevelTerminals(w, ts)
                       \/ UnregisterWindow(w)
  \/ \E t \in Terminal, kind \in Kind : Reserve(t, kind)
  \/ \E t \in Terminal, ids \in (SUBSET Id) \ {{}} : Detach(t, ids)
  \/ \E i \in Id : FinishReservation(i)
  \/ UNCHANGED vars

(* All of that keeps every record and every spawn. *)
LEMMA UneventfulKeeps ==
  ASSUME RegistryInv, Uneventful, NEW i \in Id
  PROVE  Kept(i) /\ SpawnKept(i)
<1>0. TypeOK /\ SpawnProgress /\ records \in Records
  BY DEF RegistryInv, Progress, TypeOK, Records
<1>a. ASSUME records' = records PROVE Kept(i)
  BY <1>0, <1>a DEF Kept, Alike, Exists, Running
<1>b. ASSUME records' \in Prune(records) PROVE Kept(i)
  BY <1>0, <1>b, PrunedKept
<1>1. CASE Lock \/ Tick \/ UNCHANGED vars
  BY <1>a, <1>b, <1>1 DEF Lock, Tick, vars, SpawnKept
<1>2. CASE Reports
  <2>1. UNCHANGED <<spawn, stops>>
    BY <1>2 DEF Reports, UpdatePiState, UpdateProgress, UpdateResult, ClearResult
  <2> QED
    BY <1>0, <1>2, <2>1, ReportsKeep DEF SpawnKept
<1>3. CASE Waits
  <2>1. records' = records \/ records' \in Prune(records)
    BY <1>3 DEF Waits, WaitBegin, WaitWake, WaitDeadline, WaitCancelled, WaitReturn, CancelWaits
  <2>2. UNCHANGED <<spawn, stops>>
    BY <1>3 DEF Waits, WaitBegin, WaitWake, WaitDeadline, WaitCancelled, WaitReturn, CancelWaits
  <2> QED
    BY <1>a, <1>b, <2>1, <2>2 DEF SpawnKept
<1>4. ASSUME NEW w \in Window, \/ \E ts \in SUBSET Terminal : RegisterTopLevelTerminals(w, ts)
                               \/ UnregisterWindow(w)
      PROVE  Kept(i) /\ SpawnKept(i)
  BY <1>a, <1>b, <1>4 DEF RegisterTopLevelTerminals, UnregisterWindow, SpawnKept
<1>5. ASSUME NEW t \in Terminal, NEW kind \in Kind, Reserve(t, kind)
      PROVE  Kept(i) /\ SpawnKept(i)
  <2>1. spawn' = [spawn EXCEPT ![nextId + 1] = "routing"] /\ records' \in Prune(records)
    BY <1>5 DEF Reserve
  <2>2. i = nextId + 1 => spawn[i] = "none"
    BY <1>0 DEF SpawnProgress, TypeOK, Id
  <2> QED
    BY <1>0, <1>b, <1>5, <2>1, <2>2 DEF Reserve, SpawnKept, TypeOK
<1>6. ASSUME NEW t \in Terminal, NEW ids \in (SUBSET Id) \ {{}}, Detach(t, ids)
      PROVE  Kept(i) /\ SpawnKept(i)
  <2>1. UNCHANGED <<spawn, stops>>
    BY <1>6 DEF Detach
  <2> QED
    BY <1>0, <1>6, <2>1, DetachKeeps DEF SpawnKept
<1>7. ASSUME NEW j \in Id, FinishReservation(j)
      PROVE  Kept(i) /\ SpawnKept(i)
  BY <1>0, <1>b, <1>7 DEF FinishReservation, SpawnKept, TypeOK
<1> QED
  BY <1>1, <1>2, <1>3, <1>4, <1>5, <1>6, <1>7 DEF Uneventful

(* None of it touches a stop call. *)
LEMMA UneventfulCalls == Uneventful => stops' = stops
BY DEF Uneventful, Lock, Tick, vars, Reports, UpdatePiState, UpdateProgress, UpdateResult,
       ClearResult, Waits, WaitBegin, WaitWake, WaitDeadline, WaitCancelled, WaitReturn,
       CancelWaits, RegisterTopLevelTerminals, UnregisterWindow, Reserve, Detach,
       FinishReservation

(* So it maps to forgetting what is over. *)
LEMMA UneventfulForgets ==
  ASSUME RegistryInv, RegistryInv', Uneventful
  PROVE  Life!Forget
<1>1. CallsNow' = CallsNow
  BY UneventfulCalls DEF CallsNow, CallsOf
<1>2. LifeNow' \in Life!Forgetting(LifeNow) /\ AskedNow' = AskedNow
  BY UneventfulKeeps, KeptForgets
<1> QED
  BY <1>1, <1>2 DEF Life!Forget, LifeNow, AskedNow, CallsNow

-----------------------------------------------------------------------------
(* The steps that start, roll back and end subagents *)

(* All other subagents keep their lives, or are forgotten; the one the step   *)
(* is about has the life the step gives it, or is forgotten after it.        *)
LEMMA OneMoves ==
  ASSUME RegistryInv, RegistryInv', NEW i \in Id, NEW next \in Lives,
         \A j \in Id \ {i} : Kept(j) /\ SpawnKept(j),
         LifeNow'[i] = next \/ (next \in Life!Over /\ LifeNow'[i] = "forgotten")
  PROVE  /\ LifeNow' \in Life!Forgetting([LifeNow EXCEPT ![i] = next])
         /\ AskedNow' \ {i} = AskedNow \ {i}
<1>1. LifeNow \in [Id -> Lives] /\ LifeNow' \in [Id -> Lives]
  BY LifeType DEF RegistryInv, Progress
<1>2. \A j \in Id \ {i} :
         /\ \/ LifeNow'[j] = LifeNow[j]
            \/ LifeNow[j] \in Life!Over /\ LifeNow'[j] = "forgotten"
         /\ j \in AskedNow' <=> j \in AskedNow
  BY KeptLife
<1>3. AskedNow \subseteq Id /\ AskedNow' \subseteq Id
  BY DEF AskedNow, AskedOf
<1>4. AskedNow' \ {i} = AskedNow \ {i}
  BY <1>2, <1>3
<1>5. LifeNow' \in Life!Forgetting([LifeNow EXCEPT ![i] = next])
  <2> DEFINE l == [LifeNow EXCEPT ![i] = next]
  <2>1. l[i] = next /\ \A j \in Id \ {i} : l[j] = LifeNow[j]
    BY <1>1
  <2>2. \A j \in Id : LifeNow'[j] = l[j] \/ (l[j] \in Life!Over /\ LifeNow'[j] = "forgotten")
    BY <1>2, <2>1
  <2> QED
    BY <1>1, <2>2 DEF Life!Forgetting, Lives
<1> QED
  BY <1>4, <1>5

(* An attach starts a subagent. *)
LEMMA AttachStarts ==
  ASSUME RegistryInv, RegistryInv', NEW t \in Terminal, NEW i \in Id, Attach(i, t)
  PROVE  Life!Start(i)
<1>0. TypeOK /\ SpawnProgress /\ records \in Records
  BY DEF RegistryInv, Progress, TypeOK, Records
<1>1. PICK live \in Prune(records) :
        /\ spawn[i] = "routing" /\ spawn' = [spawn EXCEPT ![i] = "attached"]
        /\ records' = [live EXCEPT ![i] = NewRecord(reservations[i], t)]
        /\ Reserved(i)
        /\ stops' = stops
  BY DEF Attach, CanAttach
<1>2. live \in Records
  BY <1>0, PruneKeeps
<1>3. ~Exists(records, i)
  BY <1>0, <1>1 DEF SpawnProgress
<1>4. /\ records'[i] = NewRecord(reservations[i], t)
      /\ \A j \in Id \ {i} : records'[j] = live[j]
  BY <1>1, <1>2 DEF Records
<1>5. records'[i].lifecycle = "running" /\ ~records'[i].stopRequested /\ Exists(records', i)
  <2>1. reservations[i] \in Reservation
    BY <1>0, <1>1 DEF TypeOK, Reserved
  <2>2. records'[i] \in Record
    BY <1>4, <2>1, NewRecordType
  <2>3. /\ NewRecord(reservations[i], t).lifecycle = "running"
        /\ NewRecord(reservations[i], t).stopRequested = FALSE
    BY DEF NewRecord
  <2> QED
    BY <1>4, <2>2, <2>3, NoneAssumption DEF Exists
<1>6. LifeNow[i] = "none" /\ LifeNow'[i] = "running"
  BY <1>1, <1>3, <1>5 DEF LifeNow, LifeOf
<1>7. \A j \in Id \ {i} : Kept(j) /\ SpawnKept(j)
  BY <1>0, <1>1, <1>4, PrunedKept DEF SpawnKept, TypeOK
<1>8. /\ LifeNow' \in Life!Forgetting([LifeNow EXCEPT ![i] = "running"])
      /\ AskedNow' \ {i} = AskedNow \ {i}
  BY <1>6, <1>7, OneMoves DEF Lives
<1>9. i \notin AskedNow /\ i \notin AskedNow'
  BY <1>3, <1>5 DEF AskedNow, AskedOf, Running
<1>10. CallsNow' = CallsNow
  BY <1>1 DEF CallsNow, CallsOf
<1> QED
  BY <1>6, <1>8, <1>9, <1>10 DEF Life!Start, LifeNow, AskedNow, CallsNow

(* A rollback forgets a subagent. *)
LEMMA RollbackForgets ==
  ASSUME RegistryInv, RegistryInv', NEW i \in Id, RollbackReservation(i)
  PROVE  Life!RollBackSpawn(i)
<1>0. TypeOK /\ SpawnProgress /\ records \in Records
  BY DEF RegistryInv, Progress, TypeOK, Records
<1>1. /\ spawn' = [spawn EXCEPT ![i] = "rolledBack"]
      /\ records' = [j \in Id |-> IF j \in {i} THEN None ELSE records[j]]
      /\ stops' = stops
  BY DEF RollbackReservation, Without
<1>2. LifeNow' = [LifeNow EXCEPT ![i] = "forgotten"]
  BY <1>0, <1>1 DEF LifeNow, LifeOf, TypeOK, Exists
<1>3. AskedNow' = AskedNow \ {i}
  BY <1>1 DEF AskedNow, AskedOf, Running, Exists
<1>4. CallsNow' = CallsNow
  BY <1>1 DEF CallsNow, CallsOf
<1> QED
  BY <1>2, <1>3, <1>4 DEF Life!RollBackSpawn, LifeNow, AskedNow, CallsNow

(* The end of one subagent, which may be forgotten at once. *)
LEMMA OneEnds ==
  ASSUME RegistryInv, RegistryInv', NEW i \in Id, NEW how \in Life!Over, Running(records, i),
         how = "error" \/ how = IF i \in AskedNow THEN "stopped" ELSE "exited",
         records' \in Prune([records EXCEPT ![i] = Ended(@, how)]), UNCHANGED <<spawn, stops>>
  PROVE  Life!End(i, how)
<1> DEFINE recs == [records EXCEPT ![i] = Ended(records[i], how)]
<1>0. TypeOK /\ SpawnProgress /\ records \in Records
  BY DEF RegistryInv, Progress, TypeOK, Records
<1>1. Exists(records, i) /\ records[i].lifecycle = "running" /\ records[i] \in Record
  BY <1>0 DEF Running, Exists, Records
<1>2. Ended(records[i], how) \in Record /\ Ended(records[i], how).lifecycle = how
  <2>1. how \in Lifecycle /\ now \in Nat
    BY <1>0 DEF Life!Over, Lifecycle, TypeOK
  <2>2. Ended(records[i], how) \in Record
    BY <1>1, <2>1, EndedType
  <2>3. Bumped(Released(records[i])) \in Record
    BY <1>1, ReleasedType, BumpedType
  <2>4. Ended(records[i], how).lifecycle = how
    BY <2>3 DEF Ended, Record
  <2> QED
    BY <2>2, <2>4
<1>3. recs \in Records /\ recs[i] = Ended(records[i], how) /\ \A j \in Id \ {i} : recs[j] = records[j]
  BY <1>0, <1>2 DEF Records
<1>4. \A j \in Id : records'[j] = recs[j] \/ (records'[j] = None /\ ~Running(recs, j))
  BY <1>3, PruneKeeps
<1>5. \A j \in Id \ {i} : Kept(j) /\ SpawnKept(j)
  BY <1>3, <1>4 DEF Kept, Alike, SpawnKept, Running, Exists
<1>6. LifeNow[i] = "running"
  BY <1>1 DEF LifeNow, LifeOf
<1>7. LifeNow'[i] = how \/ LifeNow'[i] = "forgotten"
  <2>1. spawn'[i] \notin {"none", "routing"}
    BY <1>0, <1>1 DEF SpawnProgress
  <2> QED
    BY <1>2, <1>3, <1>4, <2>1 DEF LifeNow, LifeOf, Exists
<1>8. i \notin AskedNow'
  <2>1. ~Running(records', i)
    BY <1>2, <1>3, <1>4 DEF Running, Exists, Life!Over
  <2> QED
    BY <2>1 DEF AskedNow, AskedOf
<1>9. /\ LifeNow' \in Life!Forgetting([LifeNow EXCEPT ![i] = how])
      /\ AskedNow' = AskedNow \ {i}
  BY <1>5, <1>7, <1>8, OneMoves DEF Lives
<1>10. CallsNow' = CallsNow
  BY DEF CallsNow, CallsOf
<1> QED
  BY <1>6, <1>9, <1>10 DEF Life!End, LifeNow, AskedNow, CallsNow

(* An exit ends a subagent as stopped exactly if it was asked to stop. *)
LEMMA ExitEnds ==
  ASSUME RegistryInv, RegistryInv', NEW i \in Id, Exited(i)
  PROVE  \E how \in Life!Over : Life!End(i, how)
<1> DEFINE how == IF records[i].stopRequested THEN "stopped" ELSE "exited"
<1>1. how \in Life!Over /\ how = IF i \in AskedNow THEN "stopped" ELSE "exited"
  BY DEF Exited, AskedNow, AskedOf, Life!Over
<1>2. /\ Running(records, i) /\ UNCHANGED <<spawn, stops>>
      /\ records' \in Prune([records EXCEPT ![i] = Ended(@, how)])
  BY DEF Exited, ExitedAs
<1> QED
  BY <1>1, <1>2, OneEnds

(* A failure ends a subagent. *)
LEMMA FailureEnds ==
  ASSUME RegistryInv, RegistryInv', NEW i \in Id, Failed(i)
  PROVE  \E how \in Life!Over : Life!End(i, how)
<1>1. "error" \in Life!Over
  BY DEF Life!Over
<1>2. /\ Running(records, i) /\ UNCHANGED <<spawn, stops>>
      /\ records' \in Prune([records EXCEPT ![i] = Ended(@, "error")])
  BY DEF Failed
<1> QED
  BY <1>1, <1>2, OneEnds

(* A shutdown ends all that run. *)
LEMMA ShutdownEnds ==
  ASSUME RegistryInv, RegistryInv', Shutdown
  PROVE  Life!EndAll
<1> DEFINE recs == [i \in Id |->
             IF Running(records, i)
             THEN [Ended(records[i], "stopped") EXCEPT !.stopRequested = TRUE]
             ELSE IF Exists(records, i) THEN Released(records[i]) ELSE None]
           lives == [i \in Id |-> IF LifeNow[i] = "running" THEN "stopped" ELSE LifeNow[i]]
<1>0. TypeOK /\ SpawnProgress /\ records \in Records
  BY DEF RegistryInv, Progress, TypeOK, Records
<1>1. records' \in Prune(recs) /\ UNCHANGED <<spawn, stops>>
  BY DEF Shutdown
<1>2. ASSUME NEW i \in Id, Exists(records, i)
      PROVE  /\ recs[i] \in Record
             /\ recs[i].lifecycle = IF Running(records, i) THEN "stopped" ELSE records[i].lifecycle
  <2>1. records[i] \in Record /\ now \in Nat
    BY <1>0, <1>2 DEF Records, Exists, TypeOK
  <2>2. CASE Running(records, i)
    <3>1. Ended(records[i], "stopped") \in Record
      BY <2>1, EndedType DEF Lifecycle
    <3>2. Bumped(Released(records[i])) \in Record
      BY <2>1, ReleasedType, BumpedType
    <3>3. Ended(records[i], "stopped").lifecycle = "stopped"
      BY <3>2 DEF Ended, Record
    <3>4. recs[i] = [Ended(records[i], "stopped") EXCEPT !.stopRequested = TRUE]
      BY <2>2
    <3>5. recs[i] \in Record
      BY <2>1, <3>4, EndedMarkType
    <3> HIDE DEF recs
    <3> QED
      BY <2>2, <3>1, <3>3, <3>4, <3>5 DEF Record
  <2>3. CASE ~Running(records, i)
    <3>1. recs[i] = Released(records[i])
      BY <1>2, <2>3
    <3> QED
      BY <2>1, <2>3, <3>1, ReleasedType DEF Released, Record
  <2> QED
    BY <2>2, <2>3
<1>3. \A i \in Id : ~Exists(records, i) => recs[i] = None
  BY DEF Running
<1>4. recs \in Records
  <2>1. \A i \in Id : recs[i] \in Record \cup {None}
    BY <1>2, <1>3
  <2> QED
    BY <2>1 DEF Records
<1> HIDE DEF recs
<1>5. \A i \in Id : \/ records'[i] = recs[i]
                    \/ records'[i] = None /\ Exists(recs, i) /\ ~Running(recs, i)
  BY <1>1, <1>4, PruneKeeps
<1>6. \A i \in Id : Exists(recs, i) <=> Exists(records, i)
  BY <1>2, <1>3, NoneAssumption DEF Exists
<1>7. ASSUME NEW i \in Id
      PROVE  /\ LifeNow'[i] = lives[i] \/ (lives[i] \in Life!Over /\ LifeNow'[i] = "forgotten")
             /\ ~Running(records', i)
  <2>1. LifeNow[i] = IF Exists(records, i) THEN records[i].lifecycle
                     ELSE IF spawn[i] \in {"none", "routing"} THEN "none" ELSE "forgotten"
    BY DEF LifeNow, LifeOf
  <2>2. LifeNow'[i] = IF Exists(records', i) THEN records'[i].lifecycle
                      ELSE IF spawn[i] \in {"none", "routing"} THEN "none" ELSE "forgotten"
    BY <1>1 DEF LifeNow, LifeOf
  <2>3. CASE Exists(records, i)
    <3>1. records[i].lifecycle \in Lifecycle /\ spawn[i] \notin {"none", "routing"}
      BY <1>0, <2>3 DEF Records, Exists, Record, SpawnProgress
    <3>2. lives[i] \in Life!Over /\ recs[i].lifecycle = lives[i]
      BY <1>2, <2>1, <2>3, <3>1 DEF Running, Life!Over, Lifecycle
    <3> QED
      BY <1>5, <1>6, <2>2, <2>3, <3>1, <3>2 DEF Exists, Running, Life!Over
  <2>4. CASE ~Exists(records, i)
    <3>1. lives[i] = LifeNow[i]
      BY <2>1, <2>4
    <3> QED
      BY <1>5, <1>6, <2>1, <2>2, <2>4, <3>1 DEF Exists, Running
  <2> QED
    BY <2>3, <2>4
<1>8. LifeNow' \in Life!Forgetting(lives)
  <2>1. LifeNow' \in [Id -> Lives]
    BY LifeType DEF RegistryInv, Progress
  <2> QED
    BY <1>7, <2>1 DEF Life!Forgetting, Lives
<1>9. AskedNow' = {}
  BY <1>7 DEF AskedNow, AskedOf
<1>10. CallsNow' = CallsNow
  BY <1>1 DEF CallsNow, CallsOf
<1> QED
  BY <1>8, <1>9, <1>10 DEF Life!EndAll, LifeNow, AskedNow, CallsNow

-----------------------------------------------------------------------------
(* The steps of a stop call *)

(* A stop that begins is asked for: the subagent runs, and no stop of it is   *)
(* under way or was delivered.                                               *)
LEMMA BeginAsks ==
  ASSUME RegistryInv, RegistryInv', NEW c \in Stopper, NEW i \in Id, StopBegin(c, i)
  PROVE  Life!Ask(c, i)
<1>0. TypeOK /\ SpawnProgress /\ StopMarkBacked /\ records \in Records
  BY DEF RegistryInv, Progress, TypeOK, Records
<1>1. PICK live \in Prune(records) :
        /\ stops[c].op = "idle"
        /\ CanStop(live, i)
        /\ records' = [live EXCEPT ![i] = [@ EXCEPT !.stopRequested = TRUE]]
        /\ IF live[i].stop THEN stops' = [stops EXCEPT ![c] = [op |-> "calling", id |-> i]]
           ELSE UNCHANGED stops
        /\ UNCHANGED spawn
  BY DEF StopBegin
<1>2. live \in Records /\ live[i] = records[i] /\ live[i] \in Record /\ CanStop(records, i)
  BY <1>0, <1>1, PruneKeeps DEF Records, CanStop, Running, Exists
<1>3. live[i].stop
  BY <1>0, <1>2 DEF StopMarkBacked, CanStop
<1>4. /\ records'[i] = [live[i] EXCEPT !.stopRequested = TRUE]
      /\ \A j \in Id \ {i} : records'[j] = live[j]
  BY <1>1, <1>2 DEF Records
<1>5. /\ records'[i] \in Record /\ records'[i].stopRequested
      /\ records'[i].lifecycle = "running"
  BY <1>2, <1>4 DEF Record, CanStop, Running
<1>6. Exists(records', i)
  BY <1>5, NoneAssumption DEF Exists
<1>7. LifeNow[i] = "running" /\ LifeNow'[i] = "running"
  BY <1>2, <1>5, <1>6 DEF LifeNow, LifeOf, CanStop, Running
<1>8. i \notin AskedNow /\ i \in AskedNow'
  BY <1>2, <1>5, <1>6 DEF AskedNow, AskedOf, CanStop, Running
<1>9. /\ LifeNow' \in Life!Forgetting([LifeNow EXCEPT ![i] = "running"])
      /\ AskedNow' \ {i} = AskedNow \ {i}
  <2>1. \A j \in Id \ {i} : Kept(j) /\ SpawnKept(j)
    BY <1>0, <1>1, <1>4, PrunedKept DEF SpawnKept
  <2> QED
    BY <1>7, <2>1, OneMoves DEF Lives
<1>10. [LifeNow EXCEPT ![i] = "running"] = LifeNow
  BY <1>0, <1>7, LifeType
<1>11. /\ CallsNow[c] = None
       /\ CallsNow' = [CallsNow EXCEPT ![c] = i]
  <2>1. stops[c] = NoStop
    BY <1>0, <1>1 DEF TypeOK, StopCall
  <2>2. stops' = [stops EXCEPT ![c] = [op |-> "calling", id |-> i]]
    BY <1>1, <1>3
  <2>3. [op |-> "calling", id |-> i] # NoStop
    BY DEF NoStop
  <2> QED
    BY <1>0, <2>1, <2>2, <2>3 DEF CallsNow, CallsOf, TypeOK
<1> QED
  BY <1>7, <1>8, <1>9, <1>10, <1>11 DEF Life!Ask, LifeNow, AskedNow, CallsNow

(* A call that returns is none any more. *)
LEMMA ReturnedCall ==
  ASSUME TypeOK, NEW c \in Stopper, stops[c].op \in {"ok", "err"},
         stops' = [stops EXCEPT ![c] = NoStop]
  PROVE  /\ CallsNow[c] = stops[c].id /\ stops[c].id \in Id /\ CallsNow[c] # None
         /\ CallsNow' = [CallsNow EXCEPT ![c] = None]
<1>1. stops[c] \in StopCall /\ stops[c] # NoStop
  BY DEF TypeOK, NoStop
<1>2. None \notin Id
  BY RegistryAssumption DEF Id
<1> QED
  BY <1>1, <1>2 DEF CallsNow, CallsOf, TypeOK, StopCall

(* A failed stop takes back what was asked. *)
LEMMA FailedFails ==
  ASSUME RegistryInv, RegistryInv', NEW c \in Stopper, StopFailed(c)
  PROVE  Life!StopFails(c)
<1> DEFINE i == stops[c].id
<1>0. TypeOK /\ records \in Records
  BY DEF RegistryInv, Progress, TypeOK, Records
<1>1. /\ stops[c].op = "err" /\ stops' = [stops EXCEPT ![c] = NoStop] /\ UNCHANGED spawn
      /\ records' = IF Running(records, i)
                    THEN [records EXCEPT ![i] = [@ EXCEPT !.stopRequested = FALSE]]
                    ELSE records
  BY DEF StopFailed
<1>2. /\ CallsNow[c] = i /\ i \in Id /\ CallsNow[c] # None
      /\ CallsNow' = [CallsNow EXCEPT ![c] = None]
  BY <1>0, <1>1, ReturnedCall
<1> HIDE DEF i
<1>3. LifeNow' = LifeNow /\ AskedNow' = AskedNow \ {i}
  <2>1. CASE Running(records, i)
    <3>1. records[i] \in Record
      BY <1>0, <1>2, <2>1 DEF Records, Running, Exists
    <3>2. /\ records'[i] = [records[i] EXCEPT !.stopRequested = FALSE]
          /\ \A j \in Id \ {i} : records'[j] = records[j]
      BY <1>0, <1>1, <1>2, <2>1 DEF Records
    <3>3. /\ records'[i] \in Record /\ records'[i].lifecycle = records[i].lifecycle
          /\ records'[i].stopRequested = FALSE
      BY <3>1, <3>2 DEF Record
    <3>4. Exists(records', i) /\ Exists(records, i)
      BY <2>1, <3>3, NoneAssumption DEF Exists, Running
    <3>5. \A j \in Id : Exists(records', j) <=> Exists(records, j)
      BY <3>2, <3>4 DEF Exists
    <3>6. \A j \in Id : Exists(records, j) => records'[j].lifecycle = records[j].lifecycle
      BY <3>2, <3>3
    <3>7. LifeNow' = LifeNow
      BY <1>1, <3>5, <3>6 DEF LifeNow, LifeOf
    <3>8. AskedNow' = AskedNow \ {i}
      BY <3>2, <3>3, <3>5 DEF AskedNow, AskedOf, Running, Exists
    <3> QED
      BY <3>7, <3>8
  <2>2. CASE ~Running(records, i)
    BY <1>1, <2>2 DEF LifeNow, LifeOf, AskedNow, AskedOf
  <2> QED
    BY <2>1, <2>2
<1> QED
  BY <1>2, <1>3 DEF Life!StopFails, LifeNow, AskedNow, CallsNow

(* A stop that succeeded leaves what was asked. *)
LEMMA DoneSucceeds ==
  ASSUME RegistryInv, RegistryInv', NEW c \in Stopper, StopDone(c)
  PROVE  Life!StopSucceeds(c)
<1> DEFINE i == stops[c].id
<1>0. TypeOK /\ records \in Records
  BY DEF RegistryInv, Progress, TypeOK, Records
<1>1. /\ stops[c].op = "ok" /\ stops' = [stops EXCEPT ![c] = NoStop] /\ UNCHANGED spawn
      /\ records' = IF Exists(records, i) /\ records[i].stopRequested
                    THEN [records EXCEPT ![i] = Released(@)] ELSE records
  BY DEF StopDone
<1>2. /\ CallsNow[c] = i /\ i \in Id /\ CallsNow[c] # None
      /\ CallsNow' = [CallsNow EXCEPT ![c] = None]
  BY <1>0, <1>1, ReturnedCall
<1> HIDE DEF i
<1>3. ASSUME NEW j \in Id
      PROVE  /\ Exists(records', j) <=> Exists(records, j)
             /\ Exists(records, j) => Alike(records[j], records'[j])
  <2>1. CASE records'[j] = records[j]
    BY <2>1 DEF Exists, Alike
  <2>2. CASE records'[j] # records[j]
    <3>1. Exists(records, j) /\ records'[j] = Released(records[j])
      BY <1>0, <1>1, <1>2, <2>2 DEF Records
    <3>2. records[j] \in Record
      BY <1>0, <3>1 DEF Records, Exists
    <3>3. records'[j] \in Record
      BY <3>1, <3>2, ReleasedType
    <3>4. Alike(records[j], records'[j])
      BY <3>1, <3>2 DEF Released, Record, Alike
    <3> QED
      BY <3>1, <3>3, <3>4, NoneAssumption DEF Exists
  <2> QED
    BY <2>1, <2>2
<1>4. LifeNow' = LifeNow /\ AskedNow' = AskedNow
  BY <1>1, <1>3 DEF LifeNow, LifeOf, AskedNow, AskedOf, Running, Alike
<1> QED
  BY <1>2, <1>4 DEF Life!StopSucceeds, LifeNow, AskedNow, CallsNow

-----------------------------------------------------------------------------
(* The refinement *)

(* The initial states map to the initial state of the life cycle. *)
LEMMA LifecycleStart == Init => Life!LifecycleInit
BY DEF Init, Life!LifecycleInit, LifeOf, AskedOf, CallsOf, Exists, Running, NoStop

(* Every step maps to a step of the life cycle, or to none. *)
LEMMA LifecycleStep ==
  ASSUME RegistryInv, RegistryInv', [Next]_vars
  PROVE  [Life!LifecycleNext]_(Life!lifeVars)
<1> USE DEF Life!LifecycleNext
<1>1. CASE Uneventful
  BY <1>1, UneventfulForgets
<1>2. ASSUME NEW t \in Terminal, NEW i \in Id, Attach(i, t)
      PROVE  Life!LifecycleNext
  BY <1>2, AttachStarts
<1>3. ASSUME NEW i \in Id, RollbackReservation(i)
      PROVE  Life!LifecycleNext
  BY <1>3, RollbackForgets
<1>4. ASSUME NEW i \in Id, Exited(i) \/ Failed(i)
      PROVE  Life!LifecycleNext
  BY <1>4, ExitEnds, FailureEnds
<1>5. CASE Shutdown
  BY <1>5, ShutdownEnds
<1>6. ASSUME NEW c \in Stopper, NEW i \in Id, StopBegin(c, i)
      PROVE  Life!LifecycleNext
  BY <1>6, BeginAsks
<1>7. ASSUME NEW c \in Stopper, NEW outcome \in {"ok", "err"}, StopHandler(c, outcome)
      PROVE  UNCHANGED Life!lifeVars
  <2>1. /\ stops[c].op = "calling" /\ stops' = [stops EXCEPT ![c] = [@ EXCEPT !.op = outcome]]
        /\ UNCHANGED <<records, spawn>>
    BY <1>7 DEF StopHandler
  <2>2. TypeOK
    BY DEF RegistryInv, Progress
  <2>3. stops[c] \in StopCall /\ stops[c] # NoStop
    BY <2>1, <2>2 DEF TypeOK, NoStop
  <2>4. /\ [stops[c] EXCEPT !.op = outcome] # NoStop
        /\ [stops[c] EXCEPT !.op = outcome].id = stops[c].id
    BY <1>7, <2>3 DEF StopCall, NoStop
  <2>5. CallsNow' = CallsNow
    BY <2>1, <2>2, <2>3, <2>4 DEF CallsNow, CallsOf, TypeOK
  <2> QED
    BY <2>1, <2>5 DEF Life!lifeVars, LifeOf, AskedOf, CallsNow
<1>8. ASSUME NEW c \in Stopper, StopFailed(c) \/ StopDone(c)
      PROVE  Life!LifecycleNext
  BY <1>8, FailedFails, DoneSucceeds
<1> QED
  BY <1>1, <1>2, <1>3, <1>4, <1>5, <1>6, <1>7, <1>8
  DEF Next, Terminals, Stops, Endings, Uneventful

(* The registry implements the life cycle it promises.                       *)
THEOREM LifecycleImplemented == Spec => LivesAsPromised
<1>1. RegistryInv /\ RegistryInv' /\ [Next]_vars => [Life!LifecycleNext]_(Life!lifeVars)
  BY LifecycleStep
<1> QED
  BY <1>1, LifecycleStart, RegistryInvariant, PTL DEF Spec, LivesAsPromised, Life!LifecycleSpec

=============================================================================
