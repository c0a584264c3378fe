--------------------------- MODULE SubagentSpawn ---------------------------
(***************************************************************************)
(* The spawn of a subagent across the threads that take part in it:        *)
(*                                                                         *)
(*   route     SpawnRouter::route on a control-server thread reserves an   *)
(*             id, emits the spawn event, waits five seconds for the       *)
(*             acknowledgement, then finishes or rolls back;               *)
(*   frontend  handleSubagentSpawnRequest creates a tab, starts its PTY    *)
(*             and acknowledges, and closes the tab if that is refused;    *)
(*   pty       start_pty_session spawns the child, stores the session and  *)
(*             attaches, and its waiter thread reports the exit;           *)
(*   main      the event loop: a destroyed window stops its sessions, and  *)
(*             the exit of the application shuts everything down.          *)
(*                                                                         *)
(* They meet in the registry (SubagentRegistry), in the map of sessions    *)
(* and in the acknowledgement channel, a sync_channel of capacity one.     *)
(***************************************************************************)
EXTENDS SubagentRegistry

CONSTANTS
  Parent,     \* terminals the window registers as top-level
  TabOf,      \* TabOf[i]: the terminal of the tab created for id i
  TheWindow,  \* the window that hosts the parents and the new tabs
  Main        \* the event-loop thread, one of Stopper

ASSUME SpawnAssumption ==
  /\ TheWindow \in Window /\ Main \in Stopper
  /\ TabOf \in [Id -> Terminal \ Parent]
  /\ Parent \subseteq Terminal

VARIABLES
  route,      \* where the route call of each id is
  channel,    \* the acknowledgement waiting in its channel
  frontend,   \* where the handler of each spawn event is
  tab,        \* the tab of each id, and how far closing it is
  pty,        \* where the start_pty_session call of each id is
  child,      \* the child process
  session,    \* the id has an entry in AppState.sessions
  window,     \* where the destruction of the window is
  targets,    \* sessions stop_for_window has still to stop
  current,    \* the one it is stopping, or 0
  exit,       \* where AppState::shutdown is
  kills       \* stop handlers and killers shutdown has still to call

routeVars == <<route, channel>>
frontendVars == <<frontend, tab>>
ptyVars == <<pty, child, session>>
mainVars == <<window, targets, current, exit, kills>>
registryVars == vars
spawnVars == <<vars, routeVars, frontendVars, ptyVars, mainVars>>

SpawnTypeOK ==
  /\ route \in [Id -> {"none", "emit", "recv", "check", "finish", "rollback",
                       "kill", "ok", "lost", "failed"}]
  /\ channel \in [Id -> {"empty", "success", "failure"}]
  /\ frontend \in [Id -> {"none", "notified", "starting", "reportOk", "reportErr",
                          "sendOk", "sendErr", "accepted", "refused", "done"}]
  /\ tab \in [Id -> {"none", "open", "closed", "stopPty", "stopChild", "gone"}]
  /\ pty \in [Id -> {"none", "called", "spawned", "inserted", "undo", "ok", "failed"}]
  /\ child \in [Id -> {"none", "alive", "dead", "drained", "reported"}]
  /\ session \in [Id -> BOOLEAN]
  /\ window \in {"open", "stopping", "gone"}
  /\ targets \subseteq Id
  /\ current \in 0 .. MaxId
  /\ exit \in {"no", "registry", "killing", "done"}
  /\ kills \subseteq Id

SpawnInit ==
  /\ Init
  /\ route = [i \in Id |-> "none"]
  /\ channel = [i \in Id |-> "empty"]
  /\ frontend = [i \in Id |-> "none"]
  /\ tab = [i \in Id |-> "none"]
  /\ pty = [i \in Id |-> "none"]
  /\ child = [i \in Id |-> "none"]
  /\ session = [i \in Id |-> FALSE]
  /\ window = "open"
  /\ targets = {}
  /\ current = 0
  /\ exit = "no"
  /\ kills = {}

RouteTo(i, pc) == route' = [route EXCEPT ![i] = pc]
FrontendTo(i, pc) == frontend' = [frontend EXCEPT ![i] = pc]
TabTo(i, pc) == tab' = [tab EXCEPT ![i] = pc]
PtyTo(i, pc) == pty' = [pty EXCEPT ![i] = pc]

(* The process is gone once shutdown has returned; the script of a window   *)
(* that is being destroyed no longer runs.                                  *)
Up == exit # "done"
Script == Up /\ window = "open"

(* A kill takes effect at once; it has no effect on a child that is gone.   *)
Killed(ids) == [i \in Id |-> IF i \in ids /\ child[i] = "alive" THEN "dead" ELSE child[i]]

-----------------------------------------------------------------------------
(* SpawnRouter::route *)

RouteReserve(parent, kind) ==
  /\ Up
  /\ Reserve(parent, kind)
  /\ RouteTo(nextId + 1, "emit")
  /\ UNCHANGED <<channel, frontendVars, ptyVars, mainVars>>

(* The event is emitted to every window; the one that hosts the parent gets  *)
(* it only if its script still runs.                                         *)
RouteEmit(i) ==
  /\ Up
  /\ route[i] = "emit"
  /\ \/ RouteTo(i, "recv") /\ (IF Script THEN FrontendTo(i, "notified") ELSE UNCHANGED frontend)
     \/ RouteTo(i, "rollback") /\ UNCHANGED frontend
  /\ UNCHANGED <<registryVars, channel, tab, ptyVars, mainVars>>

(* Slip: any acknowledgement counts as a success. *)
AnyAck(ack) == "check"

OnAck(ack) == IF ack = "success" THEN "check" ELSE "rollback"

RouteReceive(i) ==
  /\ Up
  /\ route[i] = "recv"
  /\ channel[i] # "empty"
  /\ RouteTo(i, OnAck(channel[i]))
  /\ channel' = [channel EXCEPT ![i] = "empty"]
  /\ UNCHANGED <<registryVars, frontendVars, ptyVars, mainVars>>

(* Slip: recv without a timeout returns only once the sender is dropped. *)
RouteRecvForever(i) ==
  /\ Up
  /\ route[i] = "recv"
  /\ channel[i] = "empty" /\ ~Reserved(i)
  /\ RouteTo(i, "rollback")
  /\ UNCHANGED <<registryVars, channel, frontendVars, ptyVars, mainVars>>

(* recv_timeout fails: five seconds are over, or shutdown dropped the       *)
(* reservation's sender and no acknowledge call holds another.              *)
RouteTimeout(i) ==
  /\ Up
  /\ route[i] = "recv"
  /\ channel[i] = "empty"
  /\ RouteTo(i, "rollback")
  /\ UNCHANGED <<registryVars, channel, frontendVars, ptyVars, mainVars>>

RouteCheck(i) ==
  /\ Up
  /\ route[i] = "check"
  /\ \E live \in Prune(records) :
       /\ records' = live
       /\ RouteTo(i, IF Exists(live, i) THEN "finish" ELSE "rollback")
  /\ UNCHANGED <<nextId, topLevel, reservations, spawn, stops, waits, cancelled, now>>
  /\ UNCHANGED <<channel, frontendVars, ptyVars, mainVars>>

RouteFinish(i) ==
  /\ Up
  /\ route[i] = "finish"
  /\ FinishReservation(i)
  /\ RouteTo(i, IF Reserved(i) THEN "ok" ELSE "lost")
  /\ UNCHANGED <<channel, frontendVars, ptyVars, mainVars>>

(* Slip: the child of a rolled back record is not killed. *)
AfterRollbackOnly(i) == "failed"

AfterRollback(i) == IF Exists(records, i) /\ records[i].stop THEN "kill" ELSE "failed"

(* rollback_reservation takes the stop handler under the lock ...           *)
RouteRollback(i) ==
  /\ Up
  /\ route[i] = "rollback"
  /\ RollbackReservation(i)
  /\ RouteTo(i, AfterRollback(i))
  /\ UNCHANGED <<channel, frontendVars, ptyVars, mainVars>>

(* ... and calls it after the unlock. *)
RouteKill(i) ==
  /\ Up
  /\ route[i] = "kill"
  /\ RouteTo(i, "failed")
  /\ child' = Killed({i})
  /\ UNCHANGED <<registryVars, channel, frontendVars, pty, session, mainVars>>

(* The receiver lives until route returns. *)
ReceiverAlive(i) == route[i] \notin {"none", "ok", "lost", "failed"}

-----------------------------------------------------------------------------
(* handleSubagentSpawnRequest *)

(* The parent may be gone from the script's own list, or the tab may fail.  *)
FrontendStart(i) ==
  /\ Script
  /\ frontend[i] = "notified"
  /\ \/ FrontendTo(i, "starting") /\ TabTo(i, "open") /\ PtyTo(i, "called")
     \/ FrontendTo(i, "reportErr") /\ UNCHANGED <<tab, pty>>
  /\ UNCHANGED <<registryVars, routeVars, child, session, mainVars>>

(* startTab settles: a tab that was closed meanwhile stops the new session   *)
(* and reports a cancelled start; a failed start closes its tab.             *)
FrontendStarted(i) ==
  /\ Script
  /\ frontend[i] = "starting"
  /\ \/ pty[i] = "ok" /\ tab[i] = "open" /\ FrontendTo(i, "reportOk") /\ UNCHANGED tab
     \/ pty[i] = "ok" /\ tab[i] = "closed" /\ FrontendTo(i, "reportErr") /\ TabTo(i, "stopPty")
     \/ pty[i] = "failed" /\ FrontendTo(i, "reportErr") /\ TabTo(i, "gone")
  /\ UNCHANGED <<registryVars, routeVars, ptyVars, mainVars>>

(* closeTab, by the user, by a close event or by a refused acknowledgement.  *)
(* A tab whose start is still pending leaves its session to startTab.        *)
TabClose(i) ==
  /\ Script
  /\ \/ tab[i] = "open" /\ TabTo(i, IF frontend[i] = "starting" THEN "closed" ELSE "stopPty")
        /\ FrontendTo(i, IF frontend[i] = "refused" THEN "done" ELSE frontend[i])
     \/ frontend[i] = "refused" /\ tab[i] # "open" /\ FrontendTo(i, "done") /\ UNCHANGED tab
  /\ UNCHANGED <<registryVars, routeVars, ptyVars, mainVars>>

(* acknowledge() clones the reservation's sender under the lock ...          *)
AckLookup(i) ==
  /\ Script
  /\ frontend[i] \in {"reportOk", "reportErr"}
  /\ Lock
  /\ FrontendTo(i, IF Reserved(i)
                   THEN IF frontend[i] = "reportOk" THEN "sendOk" ELSE "sendErr"
                   ELSE IF frontend[i] = "reportOk" THEN "refused" ELSE "done")
  /\ UNCHANGED <<routeVars, tab, ptyVars, mainVars>>

Ack(i) == IF frontend[i] = "sendOk" THEN "success" ELSE "failure"

(* ... and sends after the unlock; the send fails once the buffer is full or *)
(* the receiver is dropped.                                                  *)
AckSend(i) ==
  /\ Up
  /\ frontend[i] \in {"sendOk", "sendErr"}
  /\ IF ReceiverAlive(i) /\ channel[i] = "empty"
     THEN /\ channel' = [channel EXCEPT ![i] = Ack(i)]
          /\ FrontendTo(i, IF frontend[i] = "sendOk" THEN "accepted" ELSE "done")
     ELSE /\ FrontendTo(i, IF frontend[i] = "sendOk" THEN "refused" ELSE "done")
          /\ UNCHANGED channel
  /\ UNCHANGED <<registryVars, route, tab, ptyVars, mainVars>>

(* The script of another window does not know the parent and acknowledges a  *)
(* failure; it ignores what becomes of it.                                   *)
OtherWindowRefuses(i) ==
  /\ Up
  /\ ReceiverAlive(i) /\ route[i] # "emit"
  /\ Reserved(i) /\ channel[i] = "empty"
  /\ channel' = [channel EXCEPT ![i] = "failure"]
  /\ Lock
  /\ UNCHANGED <<route, frontendVars, ptyVars, mainVars>>

-----------------------------------------------------------------------------
(* pty.rs: starting, stopping and reaping the child *)

PtySpawn(i) ==
  /\ Up
  /\ pty[i] = "called"
  /\ \/ PtyTo(i, "spawned") /\ child' = [child EXCEPT ![i] = "alive"]
     \/ PtyTo(i, "failed") /\ UNCHANGED child
  /\ UNCHANGED <<registryVars, routeVars, frontendVars, session, mainVars>>

PtyInsert(i) ==
  /\ Up
  /\ pty[i] = "spawned"
  /\ PtyTo(i, "inserted")
  /\ session' = [session EXCEPT ![i] = TRUE]
  /\ UNCHANGED <<registryVars, routeVars, frontendVars, child, mainVars>>

PtyAttach(i) ==
  /\ Up
  /\ pty[i] = "inserted"
  /\ \/ Attach(i, TabOf[i]) /\ PtyTo(i, "ok")
     \/ /\ \E live \in Prune(records) : ~CanAttach(live, i, TabOf[i]) /\ records' = live
        /\ PtyTo(i, "undo")
        /\ UNCHANGED <<nextId, topLevel, reservations, spawn, stops, waits, cancelled, now>>
  /\ UNCHANGED <<routeVars, frontendVars, child, session, mainVars>>

(* Slip: a refused attach removes the session but leaves the child. *)
PtyUndoSession(i) ==
  /\ Up
  /\ pty[i] = "undo"
  /\ PtyTo(i, "failed")
  /\ session' = [session EXCEPT ![i] = FALSE]
  /\ UNCHANGED <<registryVars, routeVars, frontendVars, child, mainVars>>

PtyUndo(i) ==
  /\ Up
  /\ pty[i] = "undo"
  /\ PtyTo(i, "failed")
  /\ session' = [session EXCEPT ![i] = FALSE]
  /\ child' = [child EXCEPT ![i] = "reported"]
  /\ UNCHANGED <<registryVars, routeVars, frontendVars, mainVars>>

ChildExits(i) ==
  /\ child[i] = "alive"
  /\ child' = Killed({i})
  /\ UNCHANGED <<registryVars, routeVars, frontendVars, pty, session, mainVars>>

(* The waiter thread: finish_pty_reader removes the session ...              *)
WaiterDrain(i) ==
  /\ Up
  /\ pty[i] = "ok"
  /\ child[i] = "dead"
  /\ child' = [child EXCEPT ![i] = "drained"]
  /\ session' = [session EXCEPT ![i] = FALSE]
  /\ UNCHANGED <<registryVars, routeVars, frontendVars, pty, mainVars>>

(* ... and the outcome of wait() goes to the registry. *)
WaiterReport(i) ==
  /\ Up
  /\ child[i] = "drained"
  /\ child' = [child EXCEPT ![i] = "reported"]
  /\ \/ Exited(i) \/ Failed(i)
     \/ ~Running(records, i) /\ UNCHANGED registryVars
  /\ UNCHANGED <<routeVars, frontendVars, pty, session, mainVars>>

(* Slip: the session is dropped without stopping its subagent. *)
SkipStop(c, i) == Lock

(* registry.stop called by a thread: either it begins, or there is nothing   *)
(* to stop.                                                                  *)
StopOrSkip(c, i) ==
  \/ StopBegin(c, i)
  \/ Lock /\ ~CanStop(records, i)

(* stop_pty_session: without a session there is nothing to do.               *)
StopPty(i) ==
  /\ Up
  /\ tab[i] = "stopPty"
  /\ TabTo(i, IF session[i] THEN "stopChild" ELSE "gone")
  /\ session' = [session EXCEPT ![i] = FALSE]
  /\ UNCHANGED <<registryVars, routeVars, frontend, pty, child, mainVars>>

StopPtyChild(c, i) ==
  /\ Up
  /\ c # Main /\ stops[c].op = "idle"
  /\ tab[i] = "stopChild"
  /\ StopOrSkip(c, i)
  /\ TabTo(i, "gone")
  /\ UNCHANGED <<routeVars, frontend, ptyVars, mainVars>>

(* A stop or close request of a client. *)
ClientStop(c, i) ==
  /\ Up
  /\ c # Main
  /\ StopBegin(c, i)
  /\ UNCHANGED <<routeVars, frontendVars, ptyVars, mainVars>>

(* The handler fails only on a child that is gone. *)
StopRuns(c) ==
  /\ Up
  /\ \/ StopHandler(c, "ok") /\ child' = Killed({stops[c].id})
     \/ StopHandler(c, "err") /\ child[stops[c].id] # "alive" /\ UNCHANGED child
  /\ UNCHANGED <<routeVars, frontendVars, pty, session, mainVars>>

StopReturns(c) ==
  /\ Up
  /\ StopFailed(c) \/ StopDone(c)
  /\ UNCHANGED <<routeVars, frontendVars, ptyVars, mainVars>>

-----------------------------------------------------------------------------
(* lib.rs: a destroyed window, the end of the application *)

WindowDestroyed ==
  /\ window = "open" /\ exit = "no"
  /\ window' = "stopping"
  /\ targets' = {i \in Id : session[i]}
  /\ UNCHANGED <<registryVars, routeVars, frontendVars, ptyVars, current, exit, kills>>

WindowStop(i) ==
  /\ Up
  /\ i \in targets /\ current = 0
  /\ StopOrSkip(Main, i)
  /\ current' = i
  /\ targets' = targets \ {i}
  /\ UNCHANGED <<routeVars, frontendVars, ptyVars, window, exit, kills>>

WindowRemove ==
  /\ Up
  /\ current # 0 /\ stops[Main].op = "idle"
  /\ session' = [session EXCEPT ![current] = FALSE]
  /\ current' = 0
  /\ UNCHANGED <<registryVars, routeVars, frontendVars, pty, child, window, targets, exit, kills>>

WindowUnregister ==
  /\ Up
  /\ window = "stopping" /\ targets = {} /\ current = 0
  /\ window' = "gone"
  /\ UnregisterWindow(TheWindow)
  /\ UNCHANGED <<routeVars, frontendVars, ptyVars, targets, current, exit, kills>>

ExitSessions ==
  /\ exit = "no" /\ window # "stopping"
  /\ exit' = "registry"
  /\ kills' = {i \in Id : session[i]}
  /\ session' = [i \in Id |-> FALSE]
  /\ UNCHANGED <<registryVars, routeVars, frontendVars, pty, child, window, targets, current>>

ExitRegistry ==
  /\ exit = "registry"
  /\ exit' = "killing"
  /\ Shutdown
  /\ kills' = kills \cup {i \in Id : Exists(records, i) /\ records[i].stop}
  /\ UNCHANGED <<routeVars, frontendVars, ptyVars, window, targets, current>>

ExitKills ==
  /\ exit = "killing"
  /\ exit' = "done"
  /\ kills' = {}
  /\ child' = Killed(kills)
  /\ UNCHANGED <<registryVars, routeVars, frontendVars, pty, session, window, targets, current>>

-----------------------------------------------------------------------------
(* The registrations of the window, which may still arrive while it is being *)
(* destroyed, and the detachment of children when a parent is closed.        *)
Registration ==
  /\ Up
  /\ \/ \E ts \in SUBSET Parent : RegisterTopLevelTerminals(TheWindow, ts)
     \/ Script /\ \E p \in Parent, i \in Id : Detach(p, {i})
  /\ UNCHANGED <<routeVars, frontendVars, ptyVars, mainVars>>

RouteStep(i) ==
  \/ RouteEmit(i) \/ RouteReceive(i) \/ RouteTimeout(i) \/ RouteCheck(i)
  \/ RouteFinish(i) \/ RouteRollback(i) \/ RouteKill(i)

FrontendStep(i) ==
  FrontendStart(i) \/ FrontendStarted(i) \/ AckLookup(i) \/ AckSend(i)

PtyStep(i) ==
  \/ PtySpawn(i) \/ PtyInsert(i) \/ PtyAttach(i) \/ PtyUndo(i)
  \/ WaiterDrain(i) \/ WaiterReport(i) \/ StopPty(i)
  \/ \E c \in Stopper : StopPtyChild(c, i)

StopStep(c) == StopRuns(c) \/ StopReturns(c)

(* What the event loop has begun it also ends. *)
MainStep ==
  \/ (\E i \in Id : WindowStop(i)) \/ WindowRemove \/ WindowUnregister
  \/ ExitRegistry \/ ExitKills

SpawnNext ==
  \/ \E p \in Parent, kind \in Kind : RouteReserve(p, kind)
  \/ \E i \in Id : \/ RouteStep(i) \/ FrontendStep(i) \/ PtyStep(i) \/ TabClose(i)
                  \/ OtherWindowRefuses(i) \/ ChildExits(i)
  \/ \E c \in Stopper : StopStep(c) \/ \E i \in Id : ClientStop(c, i)
  \/ MainStep
  \/ WindowDestroyed \/ ExitSessions
  \/ Registration

SpawnSpec == SpawnInit /\ [][SpawnNext]_spawnVars

(* Threads run and recv_timeout expires.  Nothing obliges the user, a client *)
(* or a child to do anything, and the script is not trusted to answer.       *)
FairSpawnSpec ==
  /\ SpawnSpec
  /\ \A i \in Id : WF_spawnVars(RouteStep(i)) /\ WF_spawnVars(PtyStep(i))
  /\ \A c \in Stopper : WF_spawnVars(StopStep(c))
  /\ WF_spawnVars(MainStep)

-----------------------------------------------------------------------------
(* Properties *)

(* Every live child can still be killed: through its record's stop handler,  *)
(* or because some thread already holds that handler or the child itself.    *)
ChildIsOwned ==
  \A i \in Id : child[i] = "alive" /\ Up =>
    \/ Running(records, i) /\ records[i].stop
    \/ pty[i] \in {"spawned", "inserted", "undo"}
    \/ route[i] = "kill"
    \/ \E c \in Stopper : stops[c].op = "calling" /\ stops[c].id = i
    \/ i \in kills

(* A route that reports success was acknowledged by a script that was told   *)
(* so, for a subagent that was attached.                                     *)
SuccessIsAgreed ==
  \A i \in Id : route[i] = "ok" =>
    frontend[i] = "accepted" /\ spawn[i] = "finished" /\ pty[i] = "ok"

(* subagentSpawns.ts: the script learns of a rollback from its rejected      *)
(* acknowledgement, so it never keeps the tab of a spawn the backend undid.  *)
AcceptedIsTracked ==
  \A i \in Id : ~(frontend[i] = "accepted" /\ spawn[i] = "rolledBack")

(* While the application runs, a route call always returns.                  *)
RouteReturns ==
  \A i \in Id : (route[i] = "emit") ~> (~Up \/ route[i] \in {"ok", "lost", "failed"})

(* A spawn that is reported as failed leaves no child behind.                *)
FailedSpawnEnds ==
  \A i \in Id : (route[i] = "failed") ~> (~Up \/ child[i] # "alive")

(* Once its window is destroyed no subagent of it goes on running, whatever  *)
(* its spawn was doing at that moment.                                       *)
WindowStopsItsChildren ==
  \A i \in Id : (window = "gone" /\ child[i] = "alive") ~> (~Up \/ child[i] # "alive")
=============================================================================
