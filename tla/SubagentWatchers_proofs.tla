------------------------- MODULE SubagentWatchers_proofs -------------------------
(***************************************************************************)
(* Safety of the Pi extension's watchers for any number of instances and    *)
(* results: what is on file follows what was queued, a message is queued    *)
(* once, and nothing is left of an instance that has shut down.             *)
(***************************************************************************)
EXTENDS SubagentWatchers, TLAPS

(* A status that was read, and the key it called for. *)
Status == [running : BOOLEAN, available : BOOLEAN, key : Key \cup {None}]

Sighting == Status \cup {None}

(* A task that may notify has read a status. *)
Reconciliations ==
  {r \in [pc : {"idle", "list", "listed", "await"}, fresh : BOOLEAN, seen : Sighting,
          next : BOOLEAN] :
     r.pc \in {"listed", "await"} => r.seen # None}

Tasks ==
  {w \in [pc : {"off", "track", "top", "exec", "answer", "await", "retry"},
          at : {"top", "answer"}, life : {"live", "aborted", "stale"}, seen : Sighting,
          until : {"result", "change"}, changed : BOOLEAN] :
     w.pc \in {"top", "answer", "await", "retry"} => w.seen # None}

Claiming ==
  [owner : Owner \cup {None}, step : {"none", "pending", "sent", "delivered", "done"},
   fresh : BOOLEAN]

-----------------------------------------------------------------------------
(* The instances *)

ChildTyped ==
  /\ child \in [running : BOOLEAN, settled : BOOLEAN, result : Key]
  /\ made \in Key

TasksTyped ==
  /\ mode \in [Owner -> {"off", "on", "stopping"}]
  /\ rec \in [Owner -> Reconciliations]
  /\ watch \in [Owner -> Tasks]

(* What a shutdown cancels stays cancelled, so that nothing is left of an       *)
(* instance that is off but a watch() that will find itself overtaken.         *)
InstanceQuiet(o) ==
  /\ mode[o] = "stopping" =>
       /\ ~rec[o].fresh /\ ~rec[o].next
       /\ watch[o].pc = "off" \/ watch[o].life = "stale"
  /\ mode[o] = "off" =>
       /\ rec[o].pc = "idle" /\ o \notin owned
       /\ watch[o].pc = "off" \/ Overtaken(watch[o])

TasksQuiet == \A o \in Owner : InstanceQuiet(o)

TaskInv == ChildTyped /\ TasksTyped /\ TasksQuiet

-----------------------------------------------------------------------------
(* The deliveries *)

DeliveryTyped ==
  /\ mode \in [Owner -> {"off", "on", "stopping"}]
  /\ ledger \in [Key -> {"none", "pending", "delivered"}]
  /\ owners \in [Key -> SUBSET Owner]
  /\ accepted \subseteq Key
  /\ claims \in [Key -> Claiming]
  /\ sent \in [Key -> 0 .. 2]
  /\ lapsed \subseteq Key

(* How far a delivery has come is on file and queued; and it belongs to an     *)
(* instance that is not off.                                                  *)
ClaimBacked(k) ==
  /\ claims[k].step # "none" => claims[k].owner \in Owner /\ mode[claims[k].owner] # "off"
  /\ claims[k].step = "none" => claims[k].owner = None
  /\ claims[k].step \in {"pending", "sent", "delivered"} => ledger[k] # "none"
  /\ claims[k].step = "pending" => sent[k] = 0 \/ k \in lapsed
  /\ claims[k].step \in {"sent", "delivered"} => sent[k] > 0
  /\ claims[k].step = "delivered" => ledger[k] = "delivered"

(* Only what is recorded is remembered, by instances that are not off; and     *)
(* what was queued is being recorded or held for queued, or is remembered, or  *)
(* on file for the next session, or forgotten with an instance.               *)
Remembered(k) ==
  /\ \A o \in owners[k] : mode[o] # "off"
  /\ owners[k] # {} => ledger[k] = "delivered"
  /\ sent[k] > 0 =>
       \/ claims[k].step \in {"sent", "delivered"}
       \/ k \in accepted
       \/ owners[k] # {}
       \/ ledger[k] = "delivered" /\ \A o \in Owner : mode[o] = "off"
       \/ k \in lapsed

(* What follows about the key from the two: see RecordsFollowMessages and       *)
(* QueuedOnce.                                                                *)
Followed(k) ==
  /\ sent[k] > 0 => ledger[k] # "none"
  /\ ledger[k] = "delivered" \/ k \in accepted \/ Delivered(k) => sent[k] > 0
  /\ sent[k] > 1 => k \in lapsed

DeliveryInv ==
  /\ DeliveryTyped
  /\ \A k \in Key : ClaimBacked(k) /\ Remembered(k) /\ Followed(k)

-----------------------------------------------------------------------------
(* What becomes of a task *)

LEMMA SeenStatus == ASSUME ChildTyped PROVE Seen(child) \in Status /\ Seen(child) # None
<1>1. Notification(child) \in Key \cup {None}
  BY ResultAssumption DEF ChildTyped, Notification, Key
<1>2. Seen(child) \in Status
  BY <1>1 DEF Seen, Status, ChildTyped
<1> QED
  BY <1>2, NoneAssumption DEF Status

LEMMA TaskStarts ==
  /\ Unwatched \in Tasks /\ Unwatched.pc = "off"
  /\ [Unwatched EXCEPT !.pc = "track"] \in Tasks
  /\ \A status \in Status : [Unwatched EXCEPT !.pc = "top", !.seen = status] \in Tasks
<1>1. Unwatched \in Tasks /\ Unwatched.pc = "off"
  BY DEF Unwatched, Tasks, Sighting
<1>2. [Unwatched EXCEPT !.pc = "track"] \in Tasks
  BY DEF Unwatched, Tasks, Sighting
<1>3. ASSUME NEW status \in Status PROVE [Unwatched EXCEPT !.pc = "top", !.seen = status] \in Tasks
  <2>1. status # None
    BY NoneAssumption DEF Status
  <2> QED
    BY <2>1 DEF Unwatched, Tasks, Sighting
<1> QED
  BY <1>1, <1>2, <1>3

(* Being cancelled, or told that the revision has changed, moves no task.      *)
LEMMA TaskMarked ==
  ASSUME NEW w \in Tasks
  PROVE  /\ \A life \in {"aborted", "stale"} :
              /\ [w EXCEPT !.life = life] \in Tasks
              /\ [w EXCEPT !.life = life].pc = w.pc /\ [w EXCEPT !.life = life].life = life
         /\ [w EXCEPT !.changed = TRUE] \in Tasks
         /\ [w EXCEPT !.changed = TRUE].pc = w.pc /\ [w EXCEPT !.changed = TRUE].life = w.life
<1>1. ASSUME NEW life \in {"aborted", "stale"}
      PROVE  /\ [w EXCEPT !.life = life] \in Tasks
             /\ [w EXCEPT !.life = life].pc = w.pc /\ [w EXCEPT !.life = life].life = life
  BY DEF Tasks
<1>2. /\ [w EXCEPT !.changed = TRUE] \in Tasks
      /\ [w EXCEPT !.changed = TRUE].pc = w.pc /\ [w EXCEPT !.changed = TRUE].life = w.life
  BY DEF Tasks
<1> QED
  BY <1>1, <1>2

(* A task that has read a status may notify, wait and try again.               *)
LEMMA TaskWaits ==
  ASSUME NEW w \in Tasks, w.seen # None
  PROVE  /\ [w EXCEPT !.pc = "retry"] \in Tasks
         /\ \A at \in {"top", "answer"} :
              /\ [w EXCEPT !.at = at] \in Tasks
              /\ [[w EXCEPT !.at = at] EXCEPT !.pc = "await"] \in Tasks
              /\ [w EXCEPT !.at = at].seen = w.seen
<1>1. [w EXCEPT !.pc = "retry"] \in Tasks
  BY DEF Tasks
<1>2. ASSUME NEW at \in {"top", "answer"}
      PROVE  [w EXCEPT !.at = at] \in Tasks /\ [w EXCEPT !.at = at].seen = w.seen
  BY DEF Tasks
<1>3. ASSUME NEW v \in Tasks, v.seen # None PROVE [v EXCEPT !.pc = "await"] \in Tasks
  BY <1>3 DEF Tasks
<1>4. ASSUME NEW at \in {"top", "answer"} PROVE [[w EXCEPT !.at = at] EXCEPT !.pc = "await"] \in Tasks
  <2> DEFINE v == [w EXCEPT !.at = at]
  <2>1. v \in Tasks /\ v.seen # None
    BY <1>2
  <2> HIDE DEF v
  <2>2. [v EXCEPT !.pc = "await"] \in Tasks
    BY <1>3, <2>1
  <2> QED
    BY <2>2 DEF v
<1> QED
  BY <1>1, <1>2, <1>4

LEMMA TaskAfterTop ==
  ASSUME NEW w \in Tasks
  PROVE  AfterTop(w) \in Tasks /\ AfterTop(w).pc \in {"off", "exec"}
<1>1. CASE w.life = "stale" \/ (w.seen # None /\ ~w.seen.running)
  BY <1>1, TaskStarts DEF AfterTop
<1>2. CASE ~(w.life = "stale" \/ (w.seen # None /\ ~w.seen.running))
  <2>1. AfterTop(w) = [pc |-> "exec", at |-> "top", life |-> w.life, seen |-> None,
                       until |-> IF w.seen # None /\ w.seen.available THEN "change" ELSE "result",
                       changed |-> FALSE]
    BY <1>2 DEF AfterTop, Unwatched
  <2> QED
    BY <2>1 DEF Tasks, Sighting
<1> QED
  BY <1>1, <1>2

LEMMA TaskAfter ==
  ASSUME NEW w \in Tasks, w.seen # None
  PROVE  After(w) \in Tasks /\ After(w).pc \in {"off", "exec", "top"}
<1>1. AfterAnswer(w) \in Tasks /\ AfterAnswer(w).pc \in {"off", "top"}
  <2>1. CASE w.life = "stale" \/ ~w.seen.running
    BY <2>1, TaskStarts DEF AfterAnswer
  <2>2. CASE ~(w.life = "stale" \/ ~w.seen.running)
    <3>1. AfterAnswer(w) = [w EXCEPT !.pc = "top", !.at = "top"]
      BY <2>2 DEF AfterAnswer
    <3> QED
      BY <3>1 DEF Tasks
  <2> QED
    BY <2>1, <2>2
<1> QED
  BY <1>1, TaskAfterTop DEF After

(* A task of a cancelled generation does nothing more.                         *)
LEMMA TaskStale ==
  ASSUME NEW w, w.life = "stale"
  PROVE  AfterTop(w).pc = "off" /\ After(w).pc = "off"
BY DEF After, AfterTop, AfterAnswer, Unwatched

LEMMA TaskAnswered ==
  ASSUME ChildTyped, NEW w \in Tasks
  PROVE  Answered(w) \in Tasks
<1>1. ASSUME NEW pc \in {"top", "answer"} PROVE [w EXCEPT !.pc = pc, !.seen = Seen(child)] \in Tasks
  <2>1. Seen(child) \in Sighting /\ Seen(child) # None
    BY SeenStatus DEF Sighting
  <2> QED
    BY <2>1 DEF Tasks
<1> QED
  BY <1>1 DEF Answered

LEMMA ReconciliationMoves ==
  ASSUME ChildTyped, NEW r \in Reconciliations
  PROVE  /\ Resting \in Reconciliations /\ Resting.pc = "idle"
         /\ Listing \in Reconciliations
         /\ Finished(r) \in Reconciliations
         /\ [r EXCEPT !.pc = "listed", !.seen = Seen(child)] \in Reconciliations
         /\ r.seen # None => /\ [r EXCEPT !.pc = "listed"] \in Reconciliations
                             /\ [r EXCEPT !.pc = "await"] \in Reconciliations
         /\ \A next \in BOOLEAN : /\ [r EXCEPT !.fresh = FALSE, !.next = next] \in Reconciliations
                                  /\ [r EXCEPT !.fresh = FALSE, !.next = next].pc = r.pc
<1>1. Resting \in Reconciliations /\ Resting.pc = "idle" /\ Listing \in Reconciliations
  BY DEF Resting, Listing, Reconciliations, Sighting
<1>2. Finished(r) \in Reconciliations
  BY <1>1 DEF Finished
<1>3. [r EXCEPT !.pc = "listed", !.seen = Seen(child)] \in Reconciliations
  <2>1. Seen(child) \in Sighting /\ Seen(child) # None
    BY SeenStatus DEF Sighting
  <2> QED
    BY <2>1 DEF Reconciliations
<1>4. ASSUME r.seen # None
      PROVE  [r EXCEPT !.pc = "listed"] \in Reconciliations /\ [r EXCEPT !.pc = "await"] \in Reconciliations
  BY <1>4 DEF Reconciliations
<1>5. ASSUME NEW next \in BOOLEAN
      PROVE  /\ [r EXCEPT !.fresh = FALSE, !.next = next] \in Reconciliations
             /\ [r EXCEPT !.fresh = FALSE, !.next = next].pc = r.pc
  BY DEF Reconciliations
<1> QED
  BY <1>1, <1>2, <1>3, <1>4, <1>5

-----------------------------------------------------------------------------
(* The instances *)

(* A step of one instance, after which what is cancelled is so.                *)
LEMMA OneInstance ==
  ASSUME TaskInv, ChildTyped', NEW o \in Owner, InstanceQuiet(o)',
         \A p \in Owner \ {o} : p \in owned' => p \in owned,
         UNCHANGED mode \/ \E m \in {"off", "on", "stopping"} : mode' = [mode EXCEPT ![o] = m],
         UNCHANGED rec \/ \E r \in Reconciliations : RecTo(o, r),
         UNCHANGED watch \/ \E w \in Tasks : WatchTo(o, w)
  PROVE  TaskInv'
<1>1. TasksTyped'
  BY DEF TaskInv, TasksTyped, RecTo, WatchTo
<1>2. \A p \in Owner \ {o} : mode'[p] = mode[p] /\ rec'[p] = rec[p] /\ watch'[p] = watch[p]
  BY DEF TaskInv, TasksTyped, RecTo, WatchTo
<1>3. ASSUME NEW p \in Owner \ {o} PROVE InstanceQuiet(p)'
  BY <1>2 DEF TaskInv, TasksQuiet, InstanceQuiet
<1> QED
  BY <1>1, <1>3 DEF TaskInv, TasksQuiet

(* A step of an instance that is on, and stays so.                             *)
LEMMA InstanceOn ==
  ASSUME NEW o \in Owner, mode'[o] = "on"
  PROVE  InstanceQuiet(o)'
BY DEF InstanceQuiet

LEMMA TaskInit == Init => TaskInv
<1> SUFFICES ASSUME Init PROVE TaskInv
  OBVIOUS
<1>1. ChildTyped
  BY ResultAssumption DEF Init, ChildTyped, Key
<1>2. Resting \in Reconciliations /\ Resting.pc = "idle"
  BY <1>1 DEF Resting, Reconciliations, Sighting
<1>3. TasksTyped /\ TasksQuiet
  BY <1>2, TaskStarts DEF Init, TasksTyped, TasksQuiet, InstanceQuiet
<1> QED
  BY <1>1, <1>3 DEF TaskInv

LEMMA TaskChild ==
  ASSUME TaskInv, Child
  PROVE  TaskInv'
<1>1. PICK s : Revised(s) /\ s \in [running : BOOLEAN, settled : BOOLEAN, result : Key] /\ made' \in Key
  <2>1. ASSUME NEW n \in Key, NEW b \in BOOLEAN
        PROVE  /\ [child EXCEPT !.result = n] \in [running : BOOLEAN, settled : BOOLEAN, result : Key]
               /\ [child EXCEPT !.settled = b] \in [running : BOOLEAN, settled : BOOLEAN, result : Key]
               /\ [child EXCEPT !.running = b] \in [running : BOOLEAN, settled : BOOLEAN, result : Key]
    BY DEF TaskInv, ChildTyped
  <2>2. CASE ChildReports
    <3>1. made + 1 \in Key
      BY <2>2, ResultAssumption DEF ChildReports, TaskInv, ChildTyped, Key
    <3> QED
      BY <2>1, <2>2, <3>1 DEF ChildReports
  <2>3. CASE ChildClears
    <3>1. 0 \in Key
      BY ResultAssumption DEF Key
    <3> QED
      BY <2>1, <2>3, <3>1 DEF ChildClears, TaskInv, ChildTyped
  <2>4. CASE ChildTurns
    BY <2>1, <2>4 DEF ChildTurns, TaskInv, ChildTyped
  <2>5. CASE ChildProgresses
    BY <2>5 DEF ChildProgresses, TaskInv, ChildTyped
  <2>6. CASE ChildEnds
    BY <2>1, <2>6 DEF ChildEnds, TaskInv, ChildTyped
  <2> QED
    BY <2>2, <2>3, <2>4, <2>5, <2>6 DEF Child
<1>2. ChildTyped' /\ UNCHANGED <<mode, rec, owned>>
  BY <1>1 DEF Revised, ChildTyped
<1>3. \A o \in Owner : watch[o] \in Tasks
  BY DEF TaskInv, TasksTyped
<1>4. /\ watch' \in [Owner -> Tasks]
      /\ \A o \in Owner : watch'[o].pc = watch[o].pc /\ watch'[o].life = watch[o].life
  BY <1>1, <1>3, TaskMarked DEF Revised
<1>5. ASSUME NEW o \in Owner PROVE InstanceQuiet(o)'
  BY <1>2, <1>4 DEF TaskInv, TasksQuiet, InstanceQuiet, Overtaken
<1> QED
  BY <1>2, <1>4, <1>5 DEF TaskInv, TasksTyped, TasksQuiet

LEMMA TaskReleased ==
  ASSUME TaskInv, NEW k \in Key, ClaimReleases(k)
  PROVE  TaskInv'
<1>1. ChildTyped' /\ UNCHANGED mode
  BY DEF ClaimReleases, childVars, TaskInv, ChildTyped
<1>2. \A o \in Owner : rec[o] \in Reconciliations /\ watch[o] \in Tasks
  BY DEF TaskInv, TasksTyped
<1>3. \A o \in Owner : Waits(o, watch[o], k) => watch[o].pc = "await" /\ watch[o].seen # None
  BY <1>2 DEF Waits, Tasks
<1>4. \A o \in Owner : Waits(o, rec[o], k) => rec[o].pc = "await" /\ rec[o].seen # None
  BY <1>2 DEF Waits, Reconciliations
<1>5. watch' \in [Owner -> Tasks]
  BY <1>2, <1>3, TaskAfter, TaskWaits DEF ClaimReleases
<1>6. rec' \in [Owner -> Reconciliations]
  BY <1>2, <1>4, ReconciliationMoves DEF ClaimReleases, TaskInv
<1>7. ASSUME NEW o \in Owner PROVE InstanceQuiet(o)'
  <2>1. /\ InstanceQuiet(o) /\ UNCHANGED <<mode, owned>>
        /\ rec[o] \in Reconciliations /\ watch[o] \in Tasks
    BY <1>2 DEF ClaimReleases, TaskInv, TasksQuiet
  <2>2. watch'[o] = watch[o] \/ watch[o].pc = "await"
    BY DEF ClaimReleases, Waits
  <2>3. rec'[o] = rec[o] \/ rec[o].pc = "await"
    BY DEF ClaimReleases, Waits
  <2>4. CASE mode[o] = "off"
    BY <2>1, <2>2, <2>3, <2>4 DEF InstanceQuiet, Overtaken
  <2>5. CASE mode[o] = "stopping"
    <3>1. ~rec'[o].fresh /\ ~rec'[o].next
      <4>1. rec'[o] \in {rec[o], Finished(rec[o]), [rec[o] EXCEPT !.pc = "listed"]}
        BY DEF ClaimReleases
      <4>2. ~rec[o].fresh /\ ~rec[o].next /\ Finished(rec[o]) = Resting
        BY <2>1, <2>5 DEF InstanceQuiet, Finished
      <4>3. ~Resting.fresh /\ ~Resting.next
        BY DEF Resting
      <4>4. [rec[o] EXCEPT !.pc = "listed"].fresh = rec[o].fresh /\ [rec[o] EXCEPT !.pc = "listed"].next = rec[o].next
        BY <2>1 DEF Reconciliations
      <4> QED
        BY <4>1, <4>2, <4>3, <4>4
    <3>2. watch'[o].pc = "off" \/ watch'[o].life = "stale"
      <4>1. watch'[o] \in {watch[o], After(watch[o]), [watch[o] EXCEPT !.pc = "retry"]}
        BY DEF ClaimReleases
      <4>2. CASE watch'[o] = watch[o]
        BY <2>1, <2>5, <4>2 DEF InstanceQuiet
      <4>3. CASE watch'[o] # watch[o]
        <5>1. watch[o].life = "stale"
          BY <2>1, <2>2, <2>5, <4>3 DEF InstanceQuiet
        <5>2. After(watch[o]).pc = "off"
          BY <5>1, TaskStale
        <5>3. [watch[o] EXCEPT !.pc = "retry"].life = "stale"
          BY <2>1, <5>1 DEF Tasks
        <5> QED
          BY <4>1, <4>3, <5>2, <5>3
      <4> QED
        BY <4>2, <4>3
    <3> QED
      BY <2>1, <2>5, <3>1, <3>2 DEF InstanceQuiet
  <2>6. CASE mode[o] \notin {"off", "stopping"}
    BY <2>1, <2>6 DEF InstanceQuiet
  <2> QED
    BY <2>4, <2>5, <2>6
<1> QED
  BY <1>1, <1>5, <1>6, <1>7 DEF TaskInv, TasksTyped, TasksQuiet

LEMMA TaskWatcher ==
  ASSUME TaskInv, NEW o \in Owner, Watcher(o)
  PROVE  TaskInv' /\ (WatchNotifies(o) => mode[o] # "off")
<1>1. watch[o] \in Tasks /\ watch[o].pc # "off" /\ InstanceQuiet(o)
  BY DEF Watcher, WatchStarts, WatchNotifies, WatchAnswers, TaskInv, TasksTyped, TasksQuiet
<1>2. UNCHANGED <<mode, rec>> /\ ChildTyped'
  BY DEF Watcher, WatchStarts, WatchNotifies, WatchAnswers, Unmoved, childVars, TaskInv, ChildTyped
<1>3. \E w \in Tasks : WatchTo(o, w)
  <2>1. CASE WatchStarts(o)
    BY <1>1, <2>1, TaskAfterTop DEF WatchStarts
  <2>2. CASE WatchAnswers(o)
    BY <1>1, <2>2, TaskStarts, TaskAnswered DEF WatchAnswers, TaskInv
  <2>3. CASE WatchNotifies(o)
    <3>1. watch[o].seen # None
      BY <1>1, <2>3 DEF WatchNotifies, Tasks
    <3>2. ASSUME NEW at \in {"top", "answer"}, Notify(o, at) PROVE \E w \in Tasks : WatchTo(o, w)
      <4> DEFINE w == [watch[o] EXCEPT !.at = at]
      <4>1. w \in Tasks /\ w.seen # None /\ [w EXCEPT !.pc = "await"] \in Tasks
        BY <1>1, <3>1, TaskWaits
      <4>2. After(w) \in Tasks
        BY <4>1, TaskAfter
      <4>3. WatchTo(o, After(w)) \/ WatchTo(o, [w EXCEPT !.pc = "await"])
        BY <3>2 DEF Notify
      <4> QED
        BY <4>1, <4>2, <4>3
    <3>3. watch[o].at \in {"top", "answer"}
      BY <1>1 DEF Tasks
    <3> QED
      BY <2>3, <3>2, <3>3, TaskStarts DEF WatchNotifies
  <2> QED
    BY <2>1, <2>2, <2>3 DEF Watcher
<1>4. mode[o] = "off" => WatchStarts(o) /\ watch[o].life = "stale"
  BY <1>1 DEF Watcher, WatchNotifies, WatchAnswers, InstanceQuiet, Overtaken
<1>5. /\ watch[o].life = "stale" => (o \in owned' => o \in owned)
      /\ \A p \in Owner \ {o} : p \in owned' => p \in owned
  BY DEF Watcher, WatchStarts, WatchNotifies, WatchAnswers, Unmoved
<1>6. watch[o].life = "stale" => watch'[o].pc = "off" \/ watch'[o].life = "stale"
  <2> SUFFICES ASSUME watch[o].life = "stale" PROVE watch'[o].pc = "off" \/ watch'[o].life = "stale"
    OBVIOUS
  <2>1. \A w : WatchTo(o, w) => watch'[o] = w
    BY DEF WatchTo, TaskInv, TasksTyped
  <2>2. WatchTo(o, Unwatched) => watch'[o].pc = "off"
    BY <2>1, TaskStarts
  <2>3. CASE WatchStarts(o)
    BY <2>1, <2>3, TaskStale DEF WatchStarts
  <2>4. CASE WatchAnswers(o)
    BY <2>2, <2>4 DEF WatchAnswers
  <2>5. CASE WatchNotifies(o)
    <3>1. ASSUME NEW at, Notify(o, at) PROVE watch'[o].pc = "off"
      <4>1. [watch[o] EXCEPT !.at = at].life = "stale"
        BY <1>1 DEF Tasks
      <4>2. WatchTo(o, After([watch[o] EXCEPT !.at = at]))
        BY <3>1, <4>1 DEF Notify, Wanted
      <4> QED
        BY <2>1, <4>1, <4>2, TaskStale
    <3> QED
      BY <2>2, <2>5, <3>1 DEF WatchNotifies
  <2> QED
    BY <2>3, <2>4, <2>5 DEF Watcher
<1>7. mode[o] = "off" => watch'[o].pc = "off"
  <2> SUFFICES ASSUME mode[o] = "off" PROVE watch'[o].pc = "off"
    OBVIOUS
  <2>1. WatchTo(o, AfterTop(watch[o])) /\ AfterTop(watch[o]).pc = "off"
    BY <1>4, TaskStale DEF WatchStarts
  <2> QED
    BY <2>1 DEF WatchTo, TaskInv, TasksTyped
<1>8. InstanceQuiet(o)'
  BY <1>1, <1>2, <1>4, <1>5, <1>6, <1>7 DEF InstanceQuiet
<1>9. WatchNotifies(o) => mode[o] # "off"
  BY <1>1 DEF WatchNotifies, InstanceQuiet, Overtaken
<1> QED
  BY <1>2, <1>3, <1>5, <1>8, <1>9, OneInstance

LEMMA TaskReconciler ==
  ASSUME TaskInv, NEW o \in Owner, Reconciler(o)
  PROVE  TaskInv' /\ mode[o] # "off"
<1>1. rec[o] \in Reconciliations /\ watch[o] \in Tasks /\ rec[o].pc # "idle" /\ mode[o] # "off" /\ ChildTyped
      /\ InstanceQuiet(o)
  BY DEF Reconciler, ReconcileLists, ReconcileActs, TaskInv, TasksTyped, TasksQuiet, InstanceQuiet
<1>2. UNCHANGED <<mode, owned>> /\ ChildTyped'
  BY DEF Reconciler, ReconcileLists, ReconcileActs, Unmoved, childVars, TaskInv, ChildTyped
<1>3. ASSUME mode[o] = "stopping"
      PROVE  /\ ~rec'[o].fresh /\ ~rec'[o].next /\ watch'[o] = watch[o]
  <2>1. ~rec[o].fresh /\ ~rec[o].next /\ Finished(rec[o]) = Resting
    BY <1>1, <1>3 DEF InstanceQuiet, Finished
  <2>2. RecTo(o, Resting)
    BY <2>1 DEF Reconciler, ReconcileLists, ReconcileActs, Wanted
  <2>3. rec'[o] = Resting
    BY <2>2 DEF RecTo, TaskInv, TasksTyped
  <2>4. watch'[o] = watch[o]
    BY <2>1 DEF Reconciler, ReconcileLists, ReconcileActs, WatchTo, TaskInv, TasksTyped
  <2> QED
    BY <2>3, <2>4 DEF Resting
<1>4. InstanceQuiet(o)'
  BY <1>1, <1>2, <1>3 DEF InstanceQuiet
<1>5. CASE ReconcileLists(o)
  <2>1. UNCHANGED watch /\ \E r \in Reconciliations : RecTo(o, r)
    BY <1>1, <1>5, ReconciliationMoves DEF ReconcileLists
  <2> QED
    BY <1>1, <1>2, <1>4, <2>1, OneInstance
<1>6. CASE ReconcileActs(o)
  <2>1. rec[o].seen \in Status
    BY <1>1, <1>6 DEF ReconcileActs, Reconciliations, Sighting
  <2>2. \E w \in Tasks : WatchTo(o, w)
    BY <1>1, <1>6, <2>1, TaskStarts, TaskMarked DEF ReconcileActs
  <2>3. \E r \in Reconciliations : RecTo(o, r)
    <3>1. [rec[o] EXCEPT !.pc = "await"] \in Reconciliations /\ Finished(rec[o]) \in Reconciliations
      BY <1>1, <2>1, ReconciliationMoves, NoneAssumption DEF Status
    <3>2. RecTo(o, Finished(rec[o])) \/ RecTo(o, [rec[o] EXCEPT !.pc = "await"])
      BY <1>6 DEF ReconcileActs
    <3> QED
      BY <3>1, <3>2
  <2> QED
    BY <1>1, <1>2, <1>4, <2>2, <2>3, OneInstance
<1> QED
  BY <1>1, <1>5, <1>6 DEF Reconciler

LEMMA TaskSession ==
  ASSUME TaskInv, NEW o \in Owner, Session(o)
  PROVE  TaskInv'
<1>1. rec[o] \in Reconciliations /\ watch[o] \in Tasks /\ ChildTyped
  BY DEF TaskInv, TasksTyped
<1>2. ChildTyped'
  BY DEF Session, ToolSpawns, Start, Navigate, ShutdownBegins, Restored, childVars, TaskInv, ChildTyped
<1>3. ASSUME CancelWatch(o)
      PROVE  \E w \in Tasks : WatchTo(o, w) /\ (w.pc = "off" \/ w.life = "stale")
  BY <1>1, <1>3, TaskStarts, TaskMarked DEF CancelWatch
<1>4. ASSUME Restored(o)
      PROVE  /\ \E w \in Tasks : WatchTo(o, w)
             /\ \E r \in Reconciliations : RecTo(o, r)
             /\ \A p \in Owner \ {o} : p \in owned' => p \in owned
  <2>1. \E r \in Reconciliations : RecTo(o, r)
    BY <1>1, <1>4, ReconciliationMoves DEF Restored
  <2> QED
    BY <1>3, <1>4, <2>1 DEF Restored
<1>5. CASE ToolSpawns(o)
  <2>1. mode'[o] = "on" /\ UNCHANGED <<mode, owned, rec>> /\ \E w \in Tasks : WatchTo(o, w)
    BY <1>5, TaskStarts DEF ToolSpawns
  <2> QED
    BY <1>2, <2>1, InstanceOn, OneInstance
<1>6. CASE Start(o)
  <2>1. mode' = [mode EXCEPT ![o] = "on"] /\ mode'[o] = "on"
    BY <1>6 DEF Start, TaskInv, TasksTyped
  <2> QED
    BY <1>2, <1>4, <1>6, <2>1, InstanceOn, OneInstance DEF Start
<1>7. CASE Navigate(o)
  <2>1. UNCHANGED mode /\ mode'[o] = "on"
    BY <1>7 DEF Navigate
  <2> QED
    BY <1>2, <1>4, <1>7, <2>1, InstanceOn, OneInstance DEF Navigate
<1>8. CASE ShutdownBegins(o)
  <2>1. mode' = [mode EXCEPT ![o] = "stopping"] /\ mode'[o] = "stopping" /\ UNCHANGED owned
    BY <1>8 DEF ShutdownBegins, TaskInv, TasksTyped
  <2>2. PICK w \in Tasks : WatchTo(o, w) /\ (w.pc = "off" \/ w.life = "stale")
    BY <1>3, <1>8 DEF ShutdownBegins
  <2>3. PICK r \in Reconciliations : RecTo(o, r) /\ ~r.fresh /\ ~r.next
    <3>1. /\ [rec[o] EXCEPT !.fresh = FALSE, !.next = FALSE] \in Reconciliations
          /\ RecTo(o, [rec[o] EXCEPT !.fresh = FALSE, !.next = FALSE])
      BY <1>1, <1>8, ReconciliationMoves DEF ShutdownBegins
    <3>2. /\ ~[rec[o] EXCEPT !.fresh = FALSE, !.next = FALSE].fresh
          /\ ~[rec[o] EXCEPT !.fresh = FALSE, !.next = FALSE].next
      BY <1>1 DEF Reconciliations
    <3> QED
      BY <3>1, <3>2
  <2>4. watch'[o] = w /\ rec'[o] = r
    BY <2>2, <2>3 DEF WatchTo, RecTo, TaskInv, TasksTyped
  <2>5. InstanceQuiet(o)'
    BY <2>1, <2>2, <2>3, <2>4 DEF InstanceQuiet
  <2> QED
    BY <1>2, <2>1, <2>2, <2>3, <2>5, OneInstance
<1> QED
  BY <1>5, <1>6, <1>7, <1>8 DEF Session

(* An instance ends with what its shutdown cancelled: a watch() that is not      *)
(* awaited is overtaken.                                                      *)
LEMMA TaskShutdown ==
  ASSUME TaskInv, NEW o \in Owner, ShutdownEnds(o)
  PROVE  TaskInv'
<1>1. /\ mode[o] = "stopping" /\ mode' = [mode EXCEPT ![o] = "off"] /\ owned' = owned \ {o}
      /\ UNCHANGED <<child, made, rec, watch>>
      /\ rec[o].pc = "idle" /\ watch[o].pc \in {"off", "track"}
  BY DEF ShutdownEnds, Settled, childVars
<1>2. mode'[o] = "off" /\ ChildTyped'
  BY <1>1 DEF TaskInv, TasksTyped, ChildTyped
<1>3. watch[o].pc = "off" \/ Overtaken(watch[o])
  BY <1>1 DEF TaskInv, TasksQuiet, InstanceQuiet, Overtaken
<1>4. InstanceQuiet(o)'
  BY <1>1, <1>2, <1>3 DEF InstanceQuiet
<1> QED
  BY <1>1, <1>2, <1>4, OneInstance

LEMMA TaskCrash ==
  ASSUME TaskInv, Crash
  PROVE  TaskInv'
<1>1. Resting \in Reconciliations /\ Resting.pc = "idle"
  BY DEF Resting, Reconciliations, Sighting
<1> QED
  BY <1>1, TaskStarts DEF Crash, childVars, TaskInv, ChildTyped, TasksTyped, TasksQuiet, InstanceQuiet

LEMMA TaskNext == TaskInv /\ [Next]_vars => TaskInv'
<1> SUFFICES ASSUME TaskInv, [Next]_vars PROVE TaskInv'
  OBVIOUS
<1>1. ASSUME UNCHANGED <<child, made, mode, owned, rec, watch>> PROVE TaskInv'
  BY <1>1 DEF TaskInv, ChildTyped, TasksTyped, TasksQuiet, InstanceQuiet
<1>2. ASSUME NEW k \in Key, Deliver(k) PROVE TaskInv'
  <2>1. CASE ClaimSends(k) \/ ClaimRecords(k) \/ ClaimRemembers(k)
    BY <1>1, <2>1 DEF ClaimSends, ClaimRecords, ClaimRemembers, childVars, instanceVars
  <2> QED
    BY <1>2, <2>1, TaskReleased DEF Deliver
<1>3. CASE UNCHANGED vars
  BY <1>1, <1>3 DEF vars, childVars, instanceVars
<1> QED
  BY <1>2, <1>3, TaskChild, TaskCrash, TaskWatcher, TaskReconciler, TaskSession, TaskShutdown DEF Next

-----------------------------------------------------------------------------
(* The deliveries *)

(* A step that touches one key, and no instance's mode.                        *)
LEMMA OneKey ==
  ASSUME DeliveryInv, DeliveryTyped', UNCHANGED mode, NEW k \in Key,
         \A q \in Key \ {k} :
           /\ claims'[q] = claims[q] /\ ledger'[q] = ledger[q] /\ owners'[q] = owners[q]
           /\ sent'[q] = sent[q] /\ (q \in accepted' <=> q \in accepted)
           /\ (q \in lapsed' <=> q \in lapsed),
         ClaimBacked(k)', Remembered(k)', Followed(k)'
  PROVE  DeliveryInv'
<1>1. ASSUME NEW q \in Key \ {k} PROVE ClaimBacked(q)' /\ Remembered(q)' /\ Followed(q)'
  BY DEF DeliveryInv, ClaimBacked, Remembered, Followed, Delivered
<1> QED
  BY <1>1 DEF DeliveryInv

LEMMA DeliveryUnchanged ==
  ASSUME DeliveryInv, UNCHANGED <<ledger, owners, accepted, claims, mode, sent, lapsed>>
  PROVE  DeliveryInv'
BY DEF DeliveryInv, DeliveryTyped, ClaimBacked, Remembered, Followed, Delivered

LEMMA DeliveryInit == Init => DeliveryInv
<1> SUFFICES ASSUME Init PROVE DeliveryInv
  OBVIOUS
<1>1. NoClaim \in Claiming
  BY DEF NoClaim, Claiming
<1>2. DeliveryTyped
  BY <1>1 DEF Init, DeliveryTyped
<1>3. ASSUME NEW k \in Key PROVE ClaimBacked(k) /\ Remembered(k) /\ Followed(k)
  BY DEF Init, ClaimBacked, Remembered, Followed, Delivered, NoClaim
<1> QED
  BY <1>2, <1>3 DEF DeliveryInv

(* Recording never takes back that a message was delivered.                    *)
LEMMA RecordedAt ==
  ASSUME DeliveryTyped, NEW k \in Key, NEW state \in {"pending", "delivered"}
  PROVE  /\ Recorded(k, state) \in [Key -> {"none", "pending", "delivered"}]
         /\ Recorded(k, state)[k] \in {state, "delivered"}
         /\ ledger[k] = "delivered" => Recorded(k, state)[k] = "delivered"
         /\ state = "pending" /\ ledger[k] # "delivered" => Recorded(k, state)[k] = "pending"
         /\ \A q \in Key \ {k} : Recorded(k, state)[q] = ledger[q]
BY DEF Recorded, DeliveryTyped

LEMMA SteppedAt ==
  ASSUME DeliveryTyped, NEW k \in Key,
         NEW step \in {"none", "pending", "sent", "delivered", "done"}, StepTo(k, step)
  PROVE  /\ claims' \in [Key -> Claiming]
         /\ claims'[k].step = step /\ claims'[k].owner = claims[k].owner
         /\ \A q \in Key \ {k} : claims'[q] = claims[q]
<1>1. [claims[k] EXCEPT !.step = step] \in Claiming
  BY DEF DeliveryTyped, Claiming
<1>2. claims' = [claims EXCEPT ![k] = [claims[k] EXCEPT !.step = step]]
  BY DEF StepTo
<1>3. claims'[k] = [claims[k] EXCEPT !.step = step]
  BY <1>2 DEF DeliveryTyped
<1>4. claims'[k].step = step /\ claims'[k].owner = claims[k].owner
  BY <1>3 DEF DeliveryTyped, Claiming
<1> QED
  BY <1>1, <1>2, <1>4 DEF DeliveryTyped

(* A delivery that begins finds nothing queued, but what an instance forgot.    *)
LEMMA AwaitKeeps ==
  ASSUME DeliveryInv, NEW o \in Owner, mode[o] # "off", NEW k \in Key, owners[k] = {}, Await(o, k),
         UNCHANGED <<owners, accepted, mode, sent, lapsed>>
  PROVE  DeliveryInv'
<1>1. CASE claims[k] # NoClaim
  BY <1>1, DeliveryUnchanged DEF Await
<1>2. CASE claims[k] = NoClaim
  <2>1. ASSUME NEW step \in {"pending", "delivered", "done"}, Claimed(o, k, step)
        PROVE  /\ claims' \in [Key -> Claiming]
               /\ claims'[k].step = step /\ claims'[k].owner = o
               /\ \A q \in Key \ {k} : claims'[q] = claims[q]
    BY <2>1 DEF Claimed, DeliveryInv, DeliveryTyped, Claiming
  <2>2. o # None /\ claims[k].step = "none"
    BY <1>2, NoneAssumption DEF NoClaim
  <2>3. sent[k] > 0 => k \in accepted \/ k \in lapsed
    BY <2>2 DEF DeliveryInv, Remembered
  <2>4. DeliveryTyped /\ sent[k] \in 0 .. 2 /\ ClaimBacked(k) /\ Remembered(k) /\ Followed(k)
    BY DEF DeliveryInv, DeliveryTyped
  <2>5. CASE Fails /\ Claimed(o, k, "done")
    <3>1. DeliveryTyped'
      BY <2>1, <2>4, <2>5 DEF Fails, DeliveryTyped
    <3>2. ClaimBacked(k)' /\ Remembered(k)' /\ Followed(k)'
      BY <2>1, <2>2, <2>3, <2>4, <2>5 DEF Fails, ClaimBacked, Remembered, Followed, Delivered
    <3> QED
      BY <2>1, <2>5, <3>1, <3>2, OneKey DEF Fails
  <2>6. CASE ~(Fails /\ Claimed(o, k, "done"))
    <3> DEFINE state == IF k \in accepted THEN "delivered" ELSE "pending"
    <3>1. ledger' = Recorded(k, state) /\ Claimed(o, k, state)
      BY <1>2, <2>6 DEF Await, Claim
    <3>2. state \in {"pending", "delivered"} /\ (state = "delivered" <=> k \in accepted)
      OBVIOUS
    <3> HIDE DEF state
    <3>3. /\ ledger' \in [Key -> {"none", "pending", "delivered"}]
          /\ ledger'[k] \in {state, "delivered"}
          /\ ledger[k] = "delivered" => ledger'[k] = "delivered"
          /\ state = "pending" /\ ledger[k] # "delivered" => ledger'[k] = "pending"
          /\ \A q \in Key \ {k} : ledger'[q] = ledger[q]
      BY <2>4, <3>1, <3>2, RecordedAt
    <3>4. DeliveryTyped'
      BY <2>1, <2>4, <3>1, <3>2, <3>3 DEF DeliveryTyped
    <3>5. claims'[k].step = state /\ claims'[k].owner = o
      BY <2>1, <3>1, <3>2
    <3>6. ClaimBacked(k)'
      BY <2>2, <2>3, <2>4, <3>2, <3>3, <3>5 DEF ClaimBacked, Followed
    <3>7. Remembered(k)'
      BY <2>3, <2>4, <3>2, <3>3 DEF Remembered
    <3>8. Followed(k)'
      BY <2>4, <3>2, <3>3 DEF Followed, Delivered
    <3> QED
      BY <2>1, <3>1, <3>2, <3>3, <3>4, <3>6, <3>7, <3>8, OneKey
  <2> QED
    BY <2>5, <2>6
<1> QED
  BY <1>1, <1>2

LEMMA SendKeeps ==
  ASSUME DeliveryInv, NEW k \in Key, ClaimSends(k)
  PROVE  DeliveryInv'
<1>1. /\ DeliveryTyped /\ sent[k] \in 0 .. 2 /\ ClaimBacked(k) /\ Remembered(k) /\ Followed(k)
      /\ claims[k].step = "pending" /\ UNCHANGED <<ledger, owners, accepted, mode, lapsed>>
  BY DEF DeliveryInv, DeliveryTyped, ClaimSends, sessionVars, instanceVars
<1>2. CASE StepTo(k, "done") /\ UNCHANGED sent
  <2>1. /\ claims' \in [Key -> Claiming]
        /\ claims'[k].step = "done" /\ claims'[k].owner = claims[k].owner
        /\ \A q \in Key \ {k} : claims'[q] = claims[q]
    BY <1>1, <1>2, SteppedAt
  <2>2. DeliveryTyped'
    BY <1>1, <1>2, <2>1 DEF DeliveryTyped
  <2>3. ClaimBacked(k)' /\ Remembered(k)' /\ Followed(k)'
    BY <1>1, <1>2, <2>1 DEF ClaimBacked, Remembered, Followed, Delivered
  <2> QED
    BY <1>1, <1>2, <2>1, <2>2, <2>3, OneKey
<1>3. CASE StepTo(k, "sent") /\ sent' = [sent EXCEPT ![k] = IF @ < 2 THEN @ + 1 ELSE @]
  <2>1. /\ claims' \in [Key -> Claiming]
        /\ claims'[k].step = "sent" /\ claims'[k].owner = claims[k].owner
        /\ \A q \in Key \ {k} : claims'[q] = claims[q]
    BY <1>1, <1>3, SteppedAt
  <2>2. /\ sent' \in [Key -> 0 .. 2] /\ \A q \in Key \ {k} : sent'[q] = sent[q]
        /\ sent'[k] > 0 /\ (sent[k] = 0 => sent'[k] = 1)
    BY <1>1, <1>3 DEF DeliveryTyped
  <2>3. DeliveryTyped'
    BY <1>1, <2>1, <2>2 DEF DeliveryTyped
  <2>4. ClaimBacked(k)' /\ Remembered(k)' /\ Followed(k)'
    BY <1>1, <2>1, <2>2 DEF ClaimBacked, Remembered, Followed, Delivered
  <2> QED
    BY <1>1, <2>1, <2>2, <2>3, <2>4, OneKey
<1> QED
  BY <1>2, <1>3 DEF ClaimSends, Unsent

LEMMA RecordKeeps ==
  ASSUME DeliveryInv, NEW k \in Key, ClaimRecords(k)
  PROVE  DeliveryInv'
<1>1. /\ DeliveryTyped /\ sent[k] \in 0 .. 2 /\ ClaimBacked(k) /\ Remembered(k) /\ Followed(k)
      /\ claims[k].step = "sent" /\ UNCHANGED <<owners, mode, sent, lapsed>>
      /\ accepted' = accepted \cup {k}
  BY DEF DeliveryInv, DeliveryTyped, ClaimRecords, Taken, instanceVars
<1>2. CASE Fails /\ StepTo(k, "done")
  <2>1. /\ claims' \in [Key -> Claiming]
        /\ claims'[k].step = "done" /\ claims'[k].owner = claims[k].owner
        /\ \A q \in Key \ {k} : claims'[q] = claims[q]
    BY <1>1, <1>2, SteppedAt
  <2>2. DeliveryTyped'
    BY <1>1, <1>2, <2>1 DEF DeliveryTyped, Fails
  <2>3. ClaimBacked(k)' /\ Remembered(k)' /\ Followed(k)'
    BY <1>1, <1>2, <2>1 DEF ClaimBacked, Remembered, Followed, Delivered, Fails
  <2> QED
    BY <1>1, <1>2, <2>1, <2>2, <2>3, OneKey DEF Fails
<1>3. CASE ledger' = Recorded(k, "delivered") /\ StepTo(k, "delivered")
  <2>1. /\ claims' \in [Key -> Claiming]
        /\ claims'[k].step = "delivered" /\ claims'[k].owner = claims[k].owner
        /\ \A q \in Key \ {k} : claims'[q] = claims[q]
    BY <1>1, <1>3, SteppedAt
  <2>2. /\ ledger' \in [Key -> {"none", "pending", "delivered"}] /\ ledger'[k] = "delivered"
        /\ \A q \in Key \ {k} : ledger'[q] = ledger[q]
    BY <1>1, <1>3, RecordedAt
  <2>3. DeliveryTyped'
    BY <1>1, <2>1, <2>2 DEF DeliveryTyped
  <2>4. ClaimBacked(k)' /\ Remembered(k)' /\ Followed(k)'
    BY <1>1, <2>1, <2>2 DEF ClaimBacked, Remembered, Followed, Delivered
  <2> QED
    BY <1>1, <2>1, <2>2, <2>3, <2>4, OneKey
<1> QED
  BY <1>2, <1>3 DEF ClaimRecords

LEMMA RememberKeeps ==
  ASSUME DeliveryInv, NEW k \in Key, ClaimRemembers(k)
  PROVE  DeliveryInv'
<1>1. /\ DeliveryTyped /\ sent[k] \in 0 .. 2 /\ ClaimBacked(k) /\ Remembered(k) /\ Followed(k)
      /\ claims[k].step = "delivered" /\ UNCHANGED <<ledger, mode, sent, lapsed>>
      /\ accepted' = accepted \ {k} /\ StepTo(k, "done")
  BY DEF DeliveryInv, DeliveryTyped, ClaimRemembers, sessionVars, history, instanceVars
<1>2. /\ claims' \in [Key -> Claiming]
      /\ claims'[k].step = "done" /\ claims'[k].owner = claims[k].owner
      /\ \A q \in Key \ {k} : claims'[q] = claims[q]
  BY <1>1, SteppedAt
<1>3. claims[k].owner \in Owner /\ mode[claims[k].owner] # "off"
  BY <1>1 DEF ClaimBacked
<1>4. /\ owners' \in [Key -> SUBSET Owner] /\ owners'[k] = owners[k] \cup {claims[k].owner}
      /\ \A q \in Key \ {k} : owners'[q] = owners[q]
  BY <1>1, <1>3 DEF ClaimRemembers, DeliveryTyped
<1>5. DeliveryTyped'
  BY <1>1, <1>2, <1>4 DEF DeliveryTyped
<1>6. ClaimBacked(k)' /\ Followed(k)'
  BY <1>1, <1>2, <1>4 DEF ClaimBacked, Followed, Delivered
<1>7. Remembered(k)'
  BY <1>1, <1>3, <1>4 DEF ClaimBacked, Remembered
<1> QED
  BY <1>1, <1>2, <1>4, <1>5, <1>6, <1>7, OneKey

LEMMA ReleaseKeeps ==
  ASSUME DeliveryInv, NEW k \in Key, ClaimReleases(k)
  PROVE  DeliveryInv'
<1>1. /\ DeliveryTyped /\ sent[k] \in 0 .. 2 /\ ClaimBacked(k) /\ Remembered(k) /\ Followed(k)
      /\ claims[k].step = "done" /\ UNCHANGED <<ledger, owners, accepted, mode, sent, lapsed>>
      /\ claims' = [claims EXCEPT ![k] = NoClaim]
  BY DEF DeliveryInv, DeliveryTyped, ClaimReleases, sessionVars, history
<1>2. NoClaim \in Claiming /\ NoClaim.step = "none" /\ NoClaim.owner = None
  BY DEF NoClaim, Claiming
<1>3. /\ claims' \in [Key -> Claiming] /\ claims'[k] = NoClaim
      /\ \A q \in Key \ {k} : claims'[q] = claims[q]
  BY <1>1, <1>2 DEF DeliveryTyped
<1>4. DeliveryTyped'
  BY <1>1, <1>3 DEF DeliveryTyped
<1>5. ClaimBacked(k)' /\ Remembered(k)' /\ Followed(k)'
  BY <1>1, <1>2, <1>3 DEF ClaimBacked, Remembered, Followed, Delivered
<1> QED
  BY <1>1, <1>3, <1>4, <1>5, OneKey

(* Cancelling an instance's deliveries neither moves nor disowns them.         *)
LEMMA CancelledClaims ==
  ASSUME DeliveryTyped, NEW o \in Owner, CancelClaims(o)
  PROVE  /\ claims' \in [Key -> Claiming]
         /\ \A k \in Key : claims'[k].step = claims[k].step /\ claims'[k].owner = claims[k].owner
<1>1. ASSUME NEW c \in Claiming
      PROVE  /\ [c EXCEPT !.fresh = FALSE] \in Claiming
             /\ [c EXCEPT !.fresh = FALSE].step = c.step /\ [c EXCEPT !.fresh = FALSE].owner = c.owner
  BY DEF Claiming
<1>2. \A k \in Key : claims[k] \in Claiming
  BY DEF DeliveryTyped
<1> QED
  BY <1>1, <1>2 DEF CancelClaims

(* An instance that reads the session file remembers what is on it.            *)
LEMMA RestoreKeeps ==
  ASSUME DeliveryInv, NEW o \in Owner, Restored(o),
         mode' \in [Owner -> {"off", "on", "stopping"}], mode'[o] = "on",
         \A p \in Owner \ {o} : mode'[p] = mode[p]
  PROVE  DeliveryInv'
<1>1. /\ DeliveryTyped /\ UNCHANGED <<ledger, accepted, sent, lapsed>>
      /\ claims' \in [Key -> Claiming]
      /\ \A k \in Key : claims'[k].step = claims[k].step /\ claims'[k].owner = claims[k].owner
  BY CancelledClaims DEF DeliveryInv, Restored, sessionVars, history
<1>2. owners' = [k \in Key |-> IF ledger[k] = "delivered" THEN owners[k] \cup {o}
                               ELSE owners[k] \ {o}]
  BY DEF Restored
<1>3. DeliveryTyped'
  BY <1>1, <1>2 DEF DeliveryTyped
<1>4. \A p \in Owner : mode[p] # "off" => mode'[p] # "off"
  OBVIOUS
<1>5. ASSUME NEW k \in Key PROVE ClaimBacked(k)' /\ Remembered(k)' /\ Followed(k)'
  <2>1. /\ ClaimBacked(k) /\ Remembered(k) /\ Followed(k) /\ owners[k] \subseteq Owner
        /\ sent[k] \in 0 .. 2
    BY DEF DeliveryInv, DeliveryTyped
  <2>2. ClaimBacked(k)'
    BY <1>1, <1>4, <2>1 DEF ClaimBacked
  <2>3. /\ ledger[k] = "delivered" => owners'[k] = owners[k] \cup {o}
        /\ ledger[k] # "delivered" => owners[k] = {} /\ owners'[k] = {}
    BY <1>2, <2>1 DEF Remembered
  <2>4. Remembered(k)'
    BY <1>1, <1>4, <2>1, <2>3 DEF Remembered
  <2>5. Followed(k)'
    BY <1>1, <2>1, <2>3 DEF Followed, Delivered
  <2> QED
    BY <2>2, <2>4, <2>5
<1> QED
  BY <1>3, <1>5 DEF DeliveryInv

LEMMA SessionKeeps ==
  ASSUME DeliveryInv, NEW o \in Owner, Session(o)
  PROVE  DeliveryInv'
<1>1. CASE ToolSpawns(o)
  BY <1>1, DeliveryUnchanged DEF ToolSpawns, processVars
<1>2. ASSUME Start(o) \/ Navigate(o) PROVE DeliveryInv'
  <2>1. /\ mode' \in [Owner -> {"off", "on", "stopping"}] /\ mode'[o] = "on"
        /\ \A p \in Owner \ {o} : mode'[p] = mode[p]
    BY <1>2 DEF DeliveryInv, DeliveryTyped, Start, Navigate
  <2>2. Restored(o)
    BY <1>2 DEF Start, Navigate
  <2> QED
    BY <2>1, <2>2, RestoreKeeps
<1>3. CASE ShutdownBegins(o)
  <2>1. /\ DeliveryTyped /\ UNCHANGED <<ledger, owners, accepted, sent, lapsed>>
        /\ claims' \in [Key -> Claiming]
        /\ \A k \in Key : claims'[k].step = claims[k].step /\ claims'[k].owner = claims[k].owner
    BY <1>3, CancelledClaims DEF DeliveryInv, ShutdownBegins, sessionVars, history
  <2>2. /\ mode' \in [Owner -> {"off", "on", "stopping"}]
        /\ \A p \in Owner : mode'[p] = "off" <=> mode[p] = "off"
    BY <1>3, <2>1 DEF ShutdownBegins, DeliveryTyped
  <2>3. DeliveryTyped'
    BY <2>1, <2>2 DEF DeliveryTyped
  <2>4. ASSUME NEW k \in Key PROVE ClaimBacked(k)' /\ Remembered(k)' /\ Followed(k)'
    BY <2>1, <2>2 DEF DeliveryInv, DeliveryTyped, ClaimBacked, Remembered, Followed, Delivered
  <2> QED
    BY <2>3, <2>4 DEF DeliveryInv
<1> QED
  BY <1>1, <1>2, <1>3 DEF Session

(* What only the instance remembered is on file for the next session, if no    *)
(* other instance is left, and forgotten otherwise.                           *)
LEMMA ShutdownKeeps ==
  ASSUME DeliveryInv, NEW o \in Owner, ShutdownEnds(o)
  PROVE  DeliveryInv'
<1>1. /\ DeliveryTyped /\ UNCHANGED <<ledger, accepted, claims, sent>>
      /\ mode[o] = "stopping" /\ mode' = [mode EXCEPT ![o] = "off"] /\ ClaimsOf(o) = {}
      /\ owners' = [k \in Key |-> owners[k] \ {o}]
      /\ lapsed' = lapsed \cup {k \in Key : owners[k] = {o} /\ Others(o) # {}}
  BY DEF DeliveryInv, ShutdownEnds, Settled, sessionVars
<1>2. mode'[o] = "off" /\ \A p \in Owner \ {o} : mode'[p] = mode[p]
  BY <1>1 DEF DeliveryTyped
<1>3. DeliveryTyped'
  BY <1>1 DEF DeliveryTyped
<1>4. ASSUME NEW k \in Key PROVE ClaimBacked(k)' /\ Remembered(k)' /\ Followed(k)'
  <2>1. /\ ClaimBacked(k) /\ Remembered(k) /\ Followed(k) /\ owners[k] \subseteq Owner
        /\ sent[k] \in 0 .. 2 /\ claims[k].owner # o /\ owners'[k] = owners[k] \ {o}
    BY <1>1 DEF DeliveryInv, DeliveryTyped, ClaimsOf
  <2>2. k \in lapsed => k \in lapsed'
    BY <1>1
  <2>3. ClaimBacked(k)'
    BY <1>1, <1>2, <2>1, <2>2 DEF ClaimBacked
  <2>4. owners'[k] = {} /\ owners[k] # {} => k \in lapsed' \/ \A p \in Owner : mode'[p] = "off"
    BY <1>1, <1>2, <2>1 DEF Others
  <2>5. Remembered(k)'
    BY <1>1, <1>2, <2>1, <2>2, <2>4 DEF Remembered
  <2>6. Followed(k)'
    BY <1>1, <2>1, <2>2 DEF Followed, Delivered
  <2> QED
    BY <2>3, <2>5, <2>6
<1> QED
  BY <1>3, <1>4 DEF DeliveryInv

LEMMA CrashKeeps ==
  ASSUME DeliveryInv, Crash
  PROVE  DeliveryInv'
<1>1. NoClaim \in Claiming /\ NoClaim.step = "none" /\ NoClaim.owner = None
  BY DEF NoClaim, Claiming
<1>2. DeliveryTyped /\ UNCHANGED <<ledger, lapsed>>
  BY DEF DeliveryInv, Crash, sessionVars
<1>3. DeliveryTyped'
  BY <1>1, <1>2 DEF Crash, DeliveryTyped
<1>4. ASSUME NEW k \in Key PROVE ClaimBacked(k)' /\ Remembered(k)' /\ Followed(k)'
  <2>1. /\ Followed(k) /\ claims'[k] = NoClaim /\ owners'[k] = {} /\ k \notin accepted'
        /\ sent'[k] = IF ledger[k] = "delivered" THEN sent[k] ELSE 0
        /\ \A o \in Owner : mode'[o] = "off"
    BY DEF DeliveryInv, Crash
  <2> QED
    BY <1>1, <1>2, <2>1 DEF ClaimBacked, Remembered, Followed, Delivered
<1> QED
  BY <1>3, <1>4 DEF DeliveryInv

(* A caller that finds a key to be notified is of an instance that is not off. *)
LEMMA WantedKey ==
  ASSUME NEW o \in Owner, NEW k \in Key \cup {None}, NEW fresh, Wanted(o, k, fresh) # None
  PROVE  k \in Key /\ owners[k] = {} /\ Wanted(o, k, fresh) = k
BY DEF Wanted, Delivered

LEMMA WatcherKeeps ==
  ASSUME DeliveryInv, TaskInv, NEW o \in Owner, Watcher(o)
  PROVE  DeliveryInv'
<1>1. CASE WatchStarts(o) \/ WatchAnswers(o)
  BY <1>1, DeliveryUnchanged DEF WatchStarts, WatchAnswers, sessionVars, processVars, history
<1>2. CASE WatchNotifies(o)
  <2>1. /\ UNCHANGED <<owners, accepted, mode, sent, lapsed>> /\ mode[o] # "off"
        /\ watch[o] \in Tasks /\ watch[o].seen \in Status
    BY <1>2, TaskWatcher DEF WatchNotifies, Unmoved, TaskInv, TasksTyped, Tasks, Sighting
  <2>2. CASE NoDelivery
    BY <2>1, <2>2, DeliveryUnchanged DEF NoDelivery
  <2>3. ASSUME ~NoDelivery, NEW at, Notify(o, at) PROVE DeliveryInv'
    <3> DEFINE fresh == watch[o].life # "stale"
               key == watch[o].seen.key
    <3>1. [watch[o] EXCEPT !.at = at].seen = watch[o].seen /\ [watch[o] EXCEPT !.at = at].life = watch[o].life
      BY <2>1 DEF Tasks
    <3>2. Wanted(o, key, fresh) # None /\ Await(o, Wanted(o, key, fresh))
      BY <2>3, <3>1 DEF Notify
    <3>3. key \in Key \cup {None}
      BY <2>1 DEF Status
    <3>4. key \in Key /\ owners[key] = {} /\ Wanted(o, key, fresh) = key
      BY <3>2, <3>3, WantedKey
    <3> QED
      BY <2>1, <3>2, <3>4, AwaitKeeps
  <2> QED
    BY <1>2, <2>2, <2>3 DEF WatchNotifies
<1> QED
  BY <1>1, <1>2 DEF Watcher

LEMMA ReconcilerKeeps ==
  ASSUME DeliveryInv, TaskInv, NEW o \in Owner, Reconciler(o)
  PROVE  DeliveryInv'
<1>1. CASE ReconcileLists(o)
  BY <1>1, DeliveryUnchanged DEF ReconcileLists, sessionVars, processVars
<1>2. CASE ReconcileActs(o)
  <2>1. /\ UNCHANGED <<owners, accepted, mode, sent, lapsed>> /\ mode[o] # "off"
        /\ rec[o].seen \in Status
    BY <1>2, TaskReconciler DEF ReconcileActs, Unmoved, TaskInv, TasksTyped, Reconciliations, Sighting
  <2> DEFINE key == rec[o].seen.key
             fresh == rec[o].fresh
  <2>2. CASE NoDelivery
    BY <2>1, <2>2, DeliveryUnchanged DEF NoDelivery
  <2>3. CASE ~NoDelivery
    <3>1. Wanted(o, key, fresh) # None /\ Await(o, Wanted(o, key, fresh))
      BY <1>2, <2>3 DEF ReconcileActs
    <3>2. key \in Key \cup {None}
      BY <2>1 DEF Status
    <3>3. key \in Key /\ owners[key] = {} /\ Wanted(o, key, fresh) = key
      BY <3>1, <3>2, WantedKey
    <3> QED
      BY <2>1, <3>1, <3>3, AwaitKeeps
  <2> QED
    BY <2>2, <2>3
<1> QED
  BY <1>1, <1>2 DEF Reconciler

LEMMA DeliveryNext == DeliveryInv /\ TaskInv /\ [Next]_vars => DeliveryInv'
<1> SUFFICES ASSUME DeliveryInv, TaskInv, [Next]_vars PROVE DeliveryInv'
  OBVIOUS
<1>1. CASE Child
  BY <1>1, DeliveryUnchanged DEF Child, ChildReports, ChildClears, ChildTurns, ChildProgresses,
    ChildEnds, Revised, sessionVars, processVars, history
<1>2. CASE UNCHANGED vars
  BY <1>2, DeliveryUnchanged DEF vars, sessionVars, processVars, instanceVars, history
<1>3. ASSUME NEW k \in Key, Deliver(k) PROVE DeliveryInv'
  BY <1>3, SendKeeps, RecordKeeps, RememberKeeps, ReleaseKeeps DEF Deliver
<1> QED
  BY <1>1, <1>2, <1>3, CrashKeeps, WatcherKeeps, ReconcilerKeeps, SessionKeeps, ShutdownKeeps DEF Next

-----------------------------------------------------------------------------
(* What the invariant gives *)

(* Whatever the instances do, and whatever fails or crashes, their tasks and    *)
(* the deliveries of watchers.ts are as the two invariants say.                *)
THEOREM DeliveriesCorrect == Spec => [](TaskInv /\ DeliveryInv)
<1>1. Init => TaskInv /\ DeliveryInv
  BY TaskInit, DeliveryInit
<1>2. (TaskInv /\ DeliveryInv) /\ [Next]_vars => TaskInv' /\ DeliveryInv'
  BY TaskNext, DeliveryNext
<1> QED
  BY <1>1, <1>2, PTL DEF Spec

(* watchers.ts, deliver: the session file says pending before a follow-up       *)
(* message is queued and delivered only after, and what the process holds for   *)
(* queued was queued, whichever callback fails and wherever Pi crashes.        *)
THEOREM RecordsCorrect == Spec => []RecordsFollowMessages
<1>1. DeliveryInv => RecordsFollowMessages
  BY DEF DeliveryInv, Followed, RecordsFollowMessages
<1> QED
  BY <1>1, DeliveriesCorrect, PTL

(* watchers.ts, deliver: of a key one message is queued, by however many        *)
(* instances, but for the key that an instance forgot with its shutdown.        *)
THEOREM OnceCorrect == Spec => []QueuedOnce
<1>1. DeliveryInv => QueuedOnce
  BY DEF DeliveryInv, Followed, QueuedOnce
<1> QED
  BY <1>1, DeliveriesCorrect, PTL

(* index.ts, session_shutdown: no delivery, no reconciliation, no watcher, no    *)
(* child and no memory is left of an instance whose shutdown has returned, but  *)
(* for a spawn tool's watch() that its shutdown has overtaken.                 *)
THEOREM QuietCorrect == Spec => []QuietAfterShutdown
<1>1. ASSUME TaskInv, DeliveryInv PROVE QuietAfterShutdown
  <2>1. ASSUME NEW o \in Owner, mode[o] = "off", NEW k \in Key
        PROVE  claims[k].owner # o /\ o \notin owners[k]
    BY <1>1, <2>1, NoneAssumption DEF DeliveryInv, ClaimBacked, Remembered
  <2>2. ASSUME NEW o \in Owner, mode[o] = "off"
        PROVE  rec[o].pc = "idle" /\ o \notin owned /\ (watch[o].pc = "off" \/ Overtaken(watch[o]))
    BY <1>1, <2>2 DEF TaskInv, TasksQuiet, InstanceQuiet
  <2> QED
    BY <2>1, <2>2 DEF QuietAfterShutdown, ClaimsOf
<1> QED
  BY <1>1, DeliveriesCorrect, PTL

=============================================================================
