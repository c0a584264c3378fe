-------------------------- MODULE SubagentWatchers --------------------------
(* The Pi extension's watchers (watchers.ts, index.ts): a Pi session is told, *)
(* by one follow-up message per key, that a subagent it spawned has a new      *)
(* result or has ended.  One child of one session; Owner are the extension's   *)
(* instances in the Pi process, whose lives may overlap.  What the callbacks   *)
(* persist and what they send takes effect at once, and they answer later.     *)
EXTENDS Integers, FiniteSets

CONSTANTS
  Owner,      \* instances of the extension
  MaxResult,  \* bound: the results a child produces
  Overlap,    \* bound: the kinds of children for which instances overlap
  None        \* no key, no owner

ASSUME ResultAssumption == MaxResult \in Nat
ASSUME OverlapAssumption == Overlap \subseteq {"pi", "process"}

VARIABLES
  kind,      \* Termarc's registry: "pi" or "process"
  child,     \* Termarc's registry: the child's status
  made,      \* the results produced so far
  tracked,   \* session file: whether the child is the session's
  ledger,    \* session file: what is recorded of each key
  owners,    \* process: the instances that remember a key as delivered
  accepted,  \* process: keys that Pi took but that are not recorded
  claims,    \* process: the delivery under way of each key
  mode,      \* an instance is off, on or stopping
  owned,     \* the instances that have the child in ownedTracked
  rec,       \* the reconciliation of an instance
  watch,     \* the watcher of an instance
  sent,      \* history: the messages queued for each key, counted to two
  lapsed,    \* history: keys that only an instance now shut down remembered
  failed     \* history: a callback or a command has failed, or a delivery
             \* of a cancelled generation was waited for

childVars == <<kind, child, made>>
sessionVars == <<tracked, ledger>>
processVars == <<owners, accepted, claims>>
instanceVars == <<mode, owned, rec, watch>>
history == <<sent, lapsed, failed>>
vars == <<childVars, sessionVars, processVars, instanceVars, history>>

-----------------------------------------------------------------------------
(* Keys: 0 is the end without a result, n > 0 the n-th result.               *)
Key == 0 .. MaxResult

NoClaim == [owner |-> None, step |-> "none", fresh |-> FALSE]

(* A reconciliation, and whether one more is chained to it. *)
Resting == [pc |-> "idle", fresh |-> FALSE, seen |-> None, next |-> FALSE]

Listing == [pc |-> "list", fresh |-> TRUE, seen |-> None, next |-> FALSE]

(* A watcher task; "aborted" by a reconciliation, "stale" with its generation. *)
Unwatched == [pc |-> "off", at |-> "top", life |-> "live", seen |-> None,
              until |-> "result", changed |-> FALSE]

(* The key a status calls for. *)
Notification(s) ==
  CASE s.result > 0 /\ (s.settled \/ ~s.running) -> s.result
    [] s.result = 0 /\ ~s.running -> 0
    [] OTHER -> None

(* What is used of a status that has been read. *)
Seen(s) == [running |-> s.running, available |-> s.result > 0, key |-> Notification(s)]

ASSUME NoneAssumption ==
  /\ None \notin Owner \cup Key
  /\ None \notin [running : BOOLEAN, available : BOOLEAN, key : Key \cup {None}]

Delivered(k) == owners[k] # {}

ClaimsOf(o) == {k \in Key : claims[k].owner = o}

(* An entry in controllers. *)
Watched(o) == watch[o].pc \notin {"off", "track"} /\ watch[o].life # "stale"

Init ==
  /\ kind \in {"pi", "process"}
  /\ child = [running |-> TRUE, settled |-> FALSE, result |-> 0] /\ made = 0
  /\ tracked = "no" /\ ledger = [k \in Key |-> "none"]
  /\ owners = [k \in Key |-> {}] /\ accepted = {} /\ claims = [k \in Key |-> NoClaim]
  /\ mode = [o \in Owner |-> "off"] /\ owned = {}
  /\ rec = [o \in Owner |-> Resting] /\ watch = [o \in Owner |-> Unwatched]
  /\ sent = [k \in Key |-> 0] /\ lapsed = {} /\ failed = FALSE

-----------------------------------------------------------------------------
(* The child, as Termarc's registry shows it.  Every report, also one of      *)
(* progress, changes its revision.                                            *)

Revised(s) ==
  /\ child.running
  /\ child' = s
  /\ watch' = [o \in Owner |-> IF watch[o].pc = "exec" /\ watch[o].until = "change"
                               THEN [watch[o] EXCEPT !.changed = TRUE] ELSE watch[o]]
  /\ UNCHANGED <<kind, sessionVars, processVars, mode, owned, rec, history>>

(* Only a Pi child has a state and results. *)
ChildReports ==
  /\ kind = "pi"
  /\ made < MaxResult
  /\ made' = made + 1
  /\ Revised([child EXCEPT !.result = made + 1])

ChildClears == child.result > 0 /\ Revised([child EXCEPT !.result = 0]) /\ UNCHANGED made

ChildTurns == kind = "pi" /\ Revised([child EXCEPT !.settled = ~@]) /\ UNCHANGED made

ChildProgresses == Revised(child) /\ UNCHANGED made

ChildEnds == Revised([child EXCEPT !.running = FALSE]) /\ UNCHANGED made

-----------------------------------------------------------------------------
(* Delivery: deliver and persistDelivered.  A claim is what a task of         *)
(* notificationTasks and an entry of claims have in common.                   *)

(* "delivered" is not taken back by a later "pending". *)
Recorded(k, state) ==
  [ledger EXCEPT ![k] = IF @ = "delivered" THEN @ ELSE state]

Claimed(o, k, step) ==
  claims' = [claims EXCEPT ![k] = [owner |-> o, step |-> step, fresh |-> TRUE]]

Fails == failed' = TRUE /\ UNCHANGED ledger

(* A delivery starts with its first record; what Pi took is only recorded.    *)
Claim(o, k) ==
  LET state == IF k \in accepted THEN "delivered" ELSE "pending"
  IN  \/ /\ ledger' = Recorded(k, state)
         /\ Claimed(o, k, state)
         /\ UNCHANGED failed
      \/ Fails /\ Claimed(o, k, "done")

StepTo(k, step) == claims' = [claims EXCEPT ![k].step = step]

(* Slip: a message that was not queued is recorded nevertheless. *)
UnsentRecorded(k) == StepTo(k, "sent")

Unsent(k) == StepTo(k, "done")

ClaimSends(k) ==
  /\ claims[k].step = "pending"
  /\ \/ ~claims[k].fresh /\ Unsent(k) /\ UNCHANGED <<sent, failed>>
     \/ /\ claims[k].fresh
        /\ \/ /\ StepTo(k, "sent")
              /\ sent' = [sent EXCEPT ![k] = IF @ < 2 THEN @ + 1 ELSE @]
              /\ UNCHANGED failed
           \/ Unsent(k) /\ failed' = TRUE /\ UNCHANGED sent
  /\ UNCHANGED <<childVars, sessionVars, owners, accepted, instanceVars, lapsed>>

(* Slip: the process does not remember what Pi took. *)
TakenNot(k) == accepted

Taken(k) == accepted \cup {k}

ClaimRecords(k) ==
  /\ claims[k].step = "sent"
  /\ accepted' = Taken(k)
  /\ \/ ledger' = Recorded(k, "delivered") /\ StepTo(k, "delivered") /\ UNCHANGED failed
     \/ Fails /\ StepTo(k, "done")
  /\ UNCHANGED <<childVars, tracked, owners, instanceVars, sent, lapsed>>

ClaimRemembers(k) ==
  /\ claims[k].step = "delivered"
  /\ accepted' = accepted \ {k}
  /\ owners' = [owners EXCEPT ![k] = @ \cup {claims[k].owner}]
  /\ StepTo(k, "done")
  /\ UNCHANGED <<childVars, sessionVars, instanceVars, history>>

-----------------------------------------------------------------------------
(* maybeNotify, called by an instance's reconciliation and by its watcher     *)

(* What the caller has to wait for: None, or a key. *)
Wanted(o, k, fresh) ==
  IF k = None \/ ~fresh \/ o \notin owned THEN None
  ELSE IF Delivered(k) THEN None ELSE k

(* Starts a delivery, or waits for the one there is. *)
Await(o, k) ==
  IF claims[k] = NoClaim
  THEN Claim(o, k)
  ELSE /\ failed' = (failed \/ (claims[k].owner = o /\ ~claims[k].fresh))
       /\ UNCHANGED <<ledger, claims>>

NoDelivery == UNCHANGED <<ledger, claims, failed>>

(* The end of a reconciliation starts the one that was chained to it. *)
Finished(r) == IF r.next THEN Listing ELSE Resting

(* run, after the maybeNotify at the top and after the one of an answer.      *)
AfterTop(w) ==
  IF w.life = "stale" \/ (w.seen # None /\ ~w.seen.running) THEN Unwatched
  ELSE [Unwatched EXCEPT !.pc = "exec", !.life = w.life,
                         !.until = IF w.seen # None /\ w.seen.available THEN "change" ELSE "result"]

AfterAnswer(w) ==
  IF w.life = "stale" \/ ~w.seen.running THEN Unwatched
  ELSE [w EXCEPT !.pc = "top", !.at = "top"]

After(w) == IF w.at = "top" THEN AfterTop(w) ELSE AfterAnswer(w)

WatchTo(o, w) == watch' = [watch EXCEPT ![o] = w]

RecTo(o, r) == rec' = [rec EXCEPT ![o] = r]

(* Slip: done is awaited by the owner alone. *)
WaitsOwn(o, caller, k) ==
  caller.pc = "await" /\ caller.seen.key = k /\ claims[k].owner = o

Waits(o, caller, k) == caller.pc = "await" /\ caller.seen.key = k

(* done: the owner's callers return, those of other instances try again.      *)
ClaimReleases(k) ==
  /\ claims[k].step = "done"
  /\ claims' = [claims EXCEPT ![k] = NoClaim]
  /\ watch' = [o \in Owner |->
       IF ~Waits(o, watch[o], k) THEN watch[o]
       ELSE IF claims[k].owner = o THEN After(watch[o]) ELSE [watch[o] EXCEPT !.pc = "retry"]]
  /\ rec' = [o \in Owner |->
       IF ~Waits(o, rec[o], k) THEN rec[o]
       ELSE IF claims[k].owner = o THEN Finished(rec[o]) ELSE [rec[o] EXCEPT !.pc = "listed"]]
  /\ UNCHANGED <<childVars, sessionVars, owners, accepted, mode, owned, history>>

-----------------------------------------------------------------------------
(* watch and run *)

(* The spawn tool has made the child and tracks it.  Pi runs no tool while a  *)
(* session handler lists the children.                                        *)
ToolSpawns(o) ==
  /\ mode[o] = "on" /\ rec[o].pc = "idle"
  /\ tracked = "no"
  /\ WatchTo(o, [Unwatched EXCEPT !.pc = "track"])
  /\ \/ tracked' = "yes" /\ UNCHANGED failed
     \/ tracked' = "failed" /\ failed' = TRUE
  /\ UNCHANGED <<childVars, ledger, processVars, mode, owned, rec, sent, lapsed>>

(* What the tool and the reconciliation have in common to do first. *)
WatchStarts(o) ==
  /\ watch[o].pc = "track"
  /\ WatchTo(o, AfterTop(watch[o]))
  /\ owned' = IF watch[o].life = "stale" THEN owned ELSE owned \cup {o}
  /\ UNCHANGED <<childVars, sessionVars, processVars, mode, rec, history>>

Notify(o, at) ==
  LET w == [watch[o] EXCEPT !.at = at]
      k == Wanted(o, w.seen.key, w.life # "stale")
  IN  IF k = None
      THEN WatchTo(o, After(w)) /\ NoDelivery
      ELSE WatchTo(o, [w EXCEPT !.pc = "await"]) /\ Await(o, k)

Unmoved == UNCHANGED <<childVars, tracked, owners, accepted, mode, owned, sent, lapsed>>

WatchNotifies(o) ==
  /\ watch[o].pc \in {"top", "answer", "retry"}
  /\ IF watch[o].pc # "retry" /\ watch[o].life # "live"
     THEN WatchTo(o, Unwatched) /\ NoDelivery
     ELSE Notify(o, IF watch[o].pc = "retry" THEN watch[o].at ELSE watch[o].pc)
  /\ Unmoved /\ UNCHANGED rec

(* The registry ends a wait. *)
Over(w) ==
  \/ ~child.running
  \/ w.until = "result" /\ child.result > 0
  \/ w.until = "change" /\ w.changed

(* Slip: a wait that timed out ends the watcher. *)
WaitGivenUp(w) ==
  IF Over(w) THEN [w EXCEPT !.pc = "answer", !.seen = Seen(child)] ELSE Unwatched

(* A wait that timed out brings a status back all the same. *)
Answered(w) ==
  [w EXCEPT !.pc = IF Over(w) THEN "answer" ELSE "top", !.seen = Seen(child)]

(* The command returns, is killed or fails. *)
WatchAnswers(o) ==
  /\ watch[o].pc = "exec"
  /\ \/ watch[o].life # "live" /\ WatchTo(o, Unwatched) /\ UNCHANGED failed
     \/ /\ watch[o].life = "live"
        /\ \/ WatchTo(o, Answered(watch[o])) /\ UNCHANGED failed
           \/ WatchTo(o, Unwatched) /\ failed' = TRUE
  /\ UNCHANGED <<childVars, sessionVars, processVars, mode, owned, rec, sent, lapsed>>

-----------------------------------------------------------------------------
(* reconcile *)

ReconcileLists(o) ==
  /\ rec[o].pc = "list"
  /\ \/ rec[o].fresh /\ RecTo(o, [rec[o] EXCEPT !.pc = "listed", !.seen = Seen(child)])
        /\ UNCHANGED failed
     \/ rec[o].fresh /\ RecTo(o, Finished(rec[o])) /\ failed' = TRUE
     \/ ~rec[o].fresh /\ RecTo(o, Finished(rec[o])) /\ UNCHANGED failed
  /\ UNCHANGED <<childVars, sessionVars, processVars, mode, owned, watch, sent, lapsed>>

(* A child that runs is watched; one that has ended is no longer, and told.   *)
ReconcileActs(o) ==
  /\ rec[o].pc = "listed"
  /\ LET r == rec[o]
         mine == r.fresh /\ o \in owned
         k == Wanted(o, r.seen.key, r.fresh)
     IN  /\ WatchTo(o, IF mine /\ r.seen.running /\ ~Watched(o)
                       THEN [Unwatched EXCEPT !.pc = "top", !.seen = r.seen]
                       ELSE IF mine /\ ~r.seen.running /\ Watched(o)
                       THEN [watch[o] EXCEPT !.life = "aborted"]
                       ELSE watch[o])
         /\ IF r.seen.running \/ k = None
            THEN RecTo(o, Finished(r)) /\ NoDelivery
            ELSE RecTo(o, [r EXCEPT !.pc = "await"]) /\ Await(o, k)
  /\ Unmoved

-----------------------------------------------------------------------------
(* Instances and sessions *)

(* cancelGeneration *)
CancelClaims(o) ==
  claims' = [k \in Key |-> IF claims[k].owner = o THEN [claims[k] EXCEPT !.fresh = FALSE]
                           ELSE claims[k]]

CancelWatch(o) ==
  WatchTo(o, IF watch[o].pc = "off" THEN Unwatched ELSE [watch[o] EXCEPT !.life = "stale"])

(* restore and reconcile, from the session file. *)
Restored(o) ==
  /\ CancelClaims(o)
  /\ CancelWatch(o)
  /\ owned' = IF tracked = "yes" THEN owned \cup {o} ELSE owned \ {o}
  /\ owners' = [k \in Key |-> IF ledger[k] = "delivered" THEN owners[k] \cup {o}
                              ELSE owners[k] \ {o}]
  /\ RecTo(o, IF rec[o].pc = "idle" THEN Listing
              ELSE [rec[o] EXCEPT !.fresh = FALSE, !.next = TRUE])
  /\ UNCHANGED <<childVars, sessionVars, accepted, history>>

Others(o) == {p \in Owner \ {o} : mode[p] # "off"}

(* session_start of a new instance. *)
Start(o) ==
  /\ mode[o] = "off"
  /\ kind \in Overlap \/ Others(o) = {}
  /\ mode' = [mode EXCEPT ![o] = "on"]
  /\ Restored(o)

(* session_tree, to a branch that holds the same entries. *)
Navigate(o) ==
  /\ mode[o] = "on"
  /\ UNCHANGED mode
  /\ Restored(o)

(* session_shutdown *)
ShutdownBegins(o) ==
  /\ mode[o] = "on"
  /\ mode' = [mode EXCEPT ![o] = "stopping"]
  /\ CancelClaims(o)
  /\ CancelWatch(o)
  /\ RecTo(o, [rec[o] EXCEPT !.fresh = FALSE, !.next = FALSE])
  /\ UNCHANGED <<childVars, sessionVars, owners, accepted, owned, history>>

(* Slip: only the watcher tasks are awaited. *)
SettledWatch(o) == rec[o].pc = "idle" /\ watch[o].pc \in {"off", "track"}

(* The reconciliation, watcherTasks and notificationTasks.  A spawn tool's      *)
(* watch() that still records its child is in none of them.                    *)
Settled(o) == rec[o].pc = "idle" /\ watch[o].pc \in {"off", "track"} /\ ClaimsOf(o) = {}

(* Tasks have settled; the instance's share of the process state is released. *)
ShutdownEnds(o) ==
  /\ mode[o] = "stopping"
  /\ Settled(o)
  /\ mode' = [mode EXCEPT ![o] = "off"]
  /\ owned' = owned \ {o}
  /\ owners' = [k \in Key |-> owners[k] \ {o}]
  /\ lapsed' = lapsed \cup {k \in Key : owners[k] = {o} /\ Others(o) # {}}
  /\ UNCHANGED <<childVars, sessionVars, accepted, claims, rec, watch, sent, failed>>

(* The Pi process ends: only the session file is left, and a message that it  *)
(* does not record may have been queued in vain or may be queued again.       *)
Crash ==
  /\ \E o \in Owner : mode[o] # "off"
  /\ owners' = [k \in Key |-> {}] /\ accepted' = {} /\ claims' = [k \in Key |-> NoClaim]
  /\ mode' = [o \in Owner |-> "off"] /\ owned' = {}
  /\ rec' = [o \in Owner |-> Resting] /\ watch' = [o \in Owner |-> Unwatched]
  /\ sent' = [k \in Key |-> IF ledger[k] = "delivered" THEN sent[k] ELSE 0]
  /\ UNCHANGED <<childVars, sessionVars, lapsed, failed>>

-----------------------------------------------------------------------------
Child == ChildReports \/ ChildClears \/ ChildTurns \/ ChildProgresses \/ ChildEnds

Deliver(k) == ClaimSends(k) \/ ClaimRecords(k) \/ ClaimRemembers(k) \/ ClaimReleases(k)

Watcher(o) == WatchStarts(o) \/ WatchNotifies(o) \/ WatchAnswers(o)

Reconciler(o) == ReconcileLists(o) \/ ReconcileActs(o)

Session(o) == ToolSpawns(o) \/ Start(o) \/ Navigate(o) \/ ShutdownBegins(o)

Next ==
  \/ Child
  \/ Crash
  \/ \E k \in Key : Deliver(k)
  \/ \E o \in Owner : Watcher(o) \/ Reconciler(o) \/ Session(o) \/ ShutdownEnds(o)

Spec == Init /\ [][Next]_vars

(* Callbacks answer, commands return or are killed at their timeout, and what *)
(* waits for them goes on.  Nothing obliges the child or the user.            *)
FairSpec ==
  /\ Spec
  /\ \A k \in Key : WF_vars(Deliver(k))
  /\ \A o \in Owner : WF_vars(Watcher(o)) /\ WF_vars(Reconciler(o)) /\ WF_vars(ShutdownEnds(o))

-----------------------------------------------------------------------------
(* Properties *)

(* README.md, Pi subagent completion delivery: a message is queued once for a  *)
(* key, but for one that a crash found queued and not recorded, and for one     *)
(* that an overlapping instance queued after this one had read the session     *)
(* file, and forgot with its shutdown.                                         *)
QueuedOnce == \A k \in Key : sent[k] > 1 => k \in lapsed

(* Pending is on file before a message is queued and delivered only after, so  *)
(* that a crash may repeat a message and never loses one; a key the process    *)
(* holds for queued was queued.                                                *)
RecordsFollowMessages ==
  \A k \in Key :
    /\ sent[k] > 0 => ledger[k] # "none"
    /\ ledger[k] = "delivered" \/ k \in accepted \/ Delivered(k) => sent[k] > 0

(* A spawn tool's watch() that was overtaken: it does nothing after its record. *)
Overtaken(w) == w.pc = "track" /\ w.life = "stale"

(* index.ts: no task of an instance whose shutdown has returned is left, nor    *)
(* does the instance own a child or a key; but a tool's watch() that records    *)
(* its child is not awaited, and may be left until it finds itself overtaken.   *)
QuietAfterShutdown ==
  \A o \in Owner : mode[o] = "off" =>
    /\ ClaimsOf(o) = {} /\ rec[o].pc = "idle"
    /\ watch[o].pc = "off" \/ Overtaken(watch[o])
    /\ o \notin owned /\ \A k \in Key : o \notin owners[k]

Told ==
  \A k \in Key :
    (\E o \in Owner : mode[o] = "on" /\ o \in owned) /\ Notification(child) = k
      => sent[k] > 0 \/ failed

LeftAlone == <>[][~Child /\ ~Crash /\ \A o \in Owner : ~Session(o)]_vars

(* A session hears of what has become of its child, unless a callback or a     *)
(* command has failed, or a delivery of a cancelled generation was waited for. *)
Notified == LeftAlone => []<>Told

(* index.ts: Pi awaits session_shutdown, which must therefore return.          *)
ShutdownReturns == \A o \in Owner : (mode[o] = "stopping") ~> (mode[o] = "off")
=============================================================================
