------------------------- MODULE SubagentSpawn_proofs -------------------------
(***************************************************************************)
(* Theorems about the spawn of subagents, for every value of the constants. *)
(* Every step of a spawn is a step of the registry or leaves it alone, so    *)
(* what is proved of the registry holds of the composition.                 *)
(***************************************************************************)
EXTENDS SubagentSpawn, SubagentRegistry_proofs

LEMMA RouteIsRegistry ==
  ASSUME NEW i \in Id, RouteStep(i)
  PROVE  [Next]_vars
<1> USE SpawnAssumption
<1>1. CASE RouteEmit(i) \/ RouteReceive(i) \/ RouteTimeout(i) \/ RouteKill(i)
  BY <1>1 DEF RouteEmit, RouteReceive, RouteTimeout, RouteKill, registryVars
<1>2. CASE RouteCheck(i)
  BY <1>2 DEF RouteCheck, Next, Lock
<1>3. CASE RouteFinish(i)
  BY <1>3 DEF RouteFinish, Next, Endings
<1>4. CASE RouteRollback(i)
  BY <1>4 DEF RouteRollback, Next, Endings
<1> QED
  BY <1>1, <1>2, <1>3, <1>4 DEF RouteStep

LEMMA FrontendIsRegistry ==
  ASSUME NEW i \in Id, FrontendStep(i) \/ TabClose(i) \/ OtherWindowRefuses(i)
  PROVE  [Next]_vars
<1>1. CASE FrontendStart(i) \/ FrontendStarted(i) \/ AckSend(i) \/ TabClose(i)
  BY <1>1 DEF FrontendStart, FrontendStarted, AckSend, TabClose, registryVars
<1>2. CASE AckLookup(i) \/ OtherWindowRefuses(i)
  BY <1>2 DEF AckLookup, OtherWindowRefuses, Next
<1> QED
  BY <1>1, <1>2 DEF FrontendStep

LEMMA SkipIsRegistry ==
  ASSUME NEW c \in Stopper, NEW i \in Id, StopOrSkip(c, i)
  PROVE  [Next]_vars
BY DEF StopOrSkip, Next, Stops

LEMMA PtyIsRegistry ==
  ASSUME NEW i \in Id, PtyStep(i) \/ ChildExits(i)
  PROVE  [Next]_vars
<1> USE SpawnAssumption
<1>1. CASE PtySpawn(i) \/ PtyInsert(i) \/ PtyUndo(i) \/ WaiterDrain(i) \/ StopPty(i) \/ ChildExits(i)
  BY <1>1 DEF PtySpawn, PtyInsert, PtyUndo, WaiterDrain, StopPty, ChildExits, registryVars
<1>2. CASE PtyAttach(i)
  <2>1. CASE Attach(i, TabOf[i])
    BY <2>1 DEF Next, Terminals
  <2>2. CASE /\ \E live \in Prune(records) : ~CanAttach(live, i, TabOf[i]) /\ records' = live
             /\ UNCHANGED <<nextId, topLevel, reservations, spawn, stops, waits, cancelled, now>>
    BY <2>2 DEF Next, Lock
  <2> QED
    BY <1>2, <2>1, <2>2 DEF PtyAttach
<1>3. CASE WaiterReport(i)
  BY <1>3 DEF WaiterReport, registryVars, Next, Endings
<1>4. ASSUME NEW c \in Stopper, StopPtyChild(c, i) PROVE [Next]_vars
  BY <1>4, SkipIsRegistry DEF StopPtyChild
<1> QED
  BY <1>1, <1>2, <1>3, <1>4 DEF PtyStep

LEMMA StopIsRegistry ==
  ASSUME NEW c \in Stopper, StopStep(c) \/ \E i \in Id : ClientStop(c, i)
  PROVE  [Next]_vars
<1>1. CASE StopRuns(c)
  BY <1>1 DEF StopRuns, Next, Stops
<1>2. CASE StopReturns(c)
  BY <1>2 DEF StopReturns, Next, Stops
<1>3. CASE \E i \in Id : ClientStop(c, i)
  BY <1>3 DEF ClientStop, Next, Stops
<1> QED
  BY <1>1, <1>2, <1>3 DEF StopStep

LEMMA MainIsRegistry ==
  ASSUME MainStep \/ WindowDestroyed \/ ExitSessions \/ Registration
  PROVE  [Next]_vars
<1> USE SpawnAssumption
<1>1. CASE WindowRemove \/ ExitKills \/ WindowDestroyed \/ ExitSessions
  BY <1>1 DEF WindowRemove, ExitKills, WindowDestroyed, ExitSessions, registryVars
<1>2. ASSUME NEW i \in Id, WindowStop(i) PROVE [Next]_vars
  BY <1>2, SkipIsRegistry DEF WindowStop
<1>3. CASE WindowUnregister
  BY <1>3 DEF WindowUnregister, Next, Terminals
<1>4. CASE ExitRegistry
  BY <1>4 DEF ExitRegistry, Next, Endings
<1>5. CASE Registration
  <2>1. ASSUME NEW ts \in SUBSET Parent, RegisterTopLevelTerminals(TheWindow, ts)
        PROVE  Next
    BY <2>1 DEF Next, Terminals
  <2>2. ASSUME NEW p \in Parent, NEW i \in Id, Detach(p, {i})
        PROVE  Next
    BY <2>2 DEF Next, Terminals
  <2> QED
    BY <1>5, <2>1, <2>2 DEF Registration
<1> QED
  BY <1>1, <1>2, <1>3, <1>4, <1>5 DEF MainStep

LEMMA StepIsRegistry == [SpawnNext]_spawnVars => [Next]_vars
<1> USE SpawnAssumption
<1> SUFFICES ASSUME [SpawnNext]_spawnVars PROVE [Next]_vars
  OBVIOUS
<1>1. ASSUME NEW p \in Parent, NEW kind \in Kind, RouteReserve(p, kind) PROVE [Next]_vars
  BY <1>1 DEF RouteReserve, Next, Terminals
<1>2. CASE UNCHANGED spawnVars
  BY <1>2 DEF spawnVars
<1> QED
  BY <1>1, <1>2, RouteIsRegistry, FrontendIsRegistry, PtyIsRegistry, StopIsRegistry,
     MainIsRegistry DEF SpawnNext

(* Routing, scripts, PTYs, windows and the end of the application use the     *)
(* registry only as its specification allows: the environment SubagentRegistry *)
(* assumes is the one SubagentSpawn describes.                                *)
THEOREM SpawnImplementsRegistry == SpawnSpec => Spec
<1>1. SpawnInit => Init
  BY DEF SpawnInit
<1> QED
  BY <1>1, StepIsRegistry, PTL DEF SpawnSpec, Spec

(* So the invariants of the registry hold while subagents are spawned.        *)
THEOREM RegistryHolds == SpawnSpec => []RegistryInv
BY SpawnImplementsRegistry, RegistryInvariant, PTL

-----------------------------------------------------------------------------
(* Types *)

LEMMA SpawnTypeInit == SpawnInit => SpawnTypeOK
BY RegistryAssumption DEF SpawnInit, SpawnTypeOK

LEMMA SpawnTypeNext == SpawnTypeOK /\ [SpawnNext]_spawnVars => SpawnTypeOK'
<1> USE SpawnAssumption DEF SpawnTypeOK, RouteTo, FrontendTo, TabTo, PtyTo, Killed,
        routeVars, frontendVars, ptyVars, mainVars
<1> SUFFICES ASSUME SpawnTypeOK, [SpawnNext]_spawnVars PROVE SpawnTypeOK'
  OBVIOUS
<1>1. ASSUME NEW p \in Parent, NEW kind \in Kind, RouteReserve(p, kind) PROVE SpawnTypeOK'
  BY <1>1 DEF RouteReserve
<1>2. ASSUME NEW i \in Id, RouteStep(i) PROVE SpawnTypeOK'
  <2>1. CASE RouteEmit(i) \/ RouteReceive(i) \/ RouteTimeout(i)
    BY <2>1 DEF RouteEmit, RouteReceive, RouteTimeout, OnAck
  <2>2. CASE RouteCheck(i) \/ RouteFinish(i)
    BY <2>2 DEF RouteCheck, RouteFinish
  <2>3. CASE RouteRollback(i) \/ RouteKill(i)
    BY <2>3 DEF RouteRollback, RouteKill, AfterRollback
  <2> QED
    BY <1>2, <2>1, <2>2, <2>3 DEF RouteStep
<1>3. ASSUME NEW i \in Id, FrontendStep(i) \/ TabClose(i) \/ OtherWindowRefuses(i)
      PROVE  SpawnTypeOK'
  <2>1. CASE FrontendStart(i) \/ FrontendStarted(i)
    BY <2>1 DEF FrontendStart, FrontendStarted
  <2>2. CASE AckLookup(i) \/ AckSend(i)
    BY <2>2 DEF AckLookup, AckSend, Ack
  <2>3. CASE TabClose(i) \/ OtherWindowRefuses(i)
    BY <2>3 DEF TabClose, OtherWindowRefuses
  <2> QED
    BY <1>3, <2>1, <2>2, <2>3 DEF FrontendStep
<1>4. ASSUME NEW i \in Id, PtyStep(i) \/ ChildExits(i) PROVE SpawnTypeOK'
  <2>1. CASE PtySpawn(i) \/ PtyInsert(i) \/ PtyUndo(i)
    BY <2>1 DEF PtySpawn, PtyInsert, PtyUndo
  <2>2. CASE PtyAttach(i)
    <3>1. pty' \in {[pty EXCEPT ![i] = "ok"], [pty EXCEPT ![i] = "undo"]}
      BY <2>2 DEF PtyAttach
    <3>2. UNCHANGED <<route, channel, frontend, tab, child, session, mainVars>>
      BY <2>2 DEF PtyAttach
    <3> QED
      BY <3>1, <3>2
  <2>3. CASE WaiterDrain(i)
    BY <2>3 DEF WaiterDrain
  <2>4. CASE ChildExits(i)
    BY <2>4 DEF ChildExits
  <2>5. CASE WaiterReport(i)
    <3>1. child' = [child EXCEPT ![i] = "reported"]
      BY <2>5 DEF WaiterReport
    <3>2. UNCHANGED <<routeVars, frontendVars, pty, session, mainVars>>
      BY <2>5 DEF WaiterReport
    <3> QED
      BY <3>1, <3>2
  <2>6. CASE StopPty(i) \/ \E c \in Stopper : StopPtyChild(c, i)
    BY <2>6 DEF StopPty, StopPtyChild
  <2> QED
    BY <1>4, <2>1, <2>2, <2>3, <2>4, <2>5, <2>6 DEF PtyStep
<1>5. ASSUME NEW c \in Stopper, StopStep(c) \/ \E i \in Id : ClientStop(c, i)
      PROVE  SpawnTypeOK'
  BY <1>5 DEF StopStep, StopRuns, StopReturns, ClientStop
<1>6. CASE MainStep \/ WindowDestroyed \/ ExitSessions \/ Registration
  <2>1. CASE WindowDestroyed
    BY <2>1 DEF WindowDestroyed
  <2>2. CASE WindowUnregister
    <3>1. window' = "gone" /\ UNCHANGED <<routeVars, frontendVars, ptyVars, targets, current, exit, kills>>
      BY <2>2 DEF WindowUnregister
    <3> QED
      BY <3>1
  <2>3. CASE Registration
    <3>1. UNCHANGED <<routeVars, frontendVars, ptyVars, mainVars>>
      BY <2>3 DEF Registration
    <3> QED
      BY <3>1
  <2>4. CASE WindowRemove
    <3>1. 0 \in 0 .. MaxId
      BY RegistryAssumption
    <3>2. current' = 0 /\ session' = [session EXCEPT ![current] = FALSE]
      BY <2>4 DEF WindowRemove
    <3>3. UNCHANGED <<routeVars, frontendVars, pty, child, window, targets, exit, kills>>
      BY <2>4 DEF WindowRemove
    <3> QED
      BY <3>1, <3>2, <3>3
  <2>5. ASSUME NEW i \in Id, WindowStop(i) PROVE SpawnTypeOK'
    <3>1. current' = i /\ targets' = targets \ {i} /\ i \in 0 .. MaxId
      BY <2>5 DEF WindowStop, Id
    <3>2. UNCHANGED <<routeVars, frontendVars, ptyVars, window, exit, kills>>
      BY <2>5 DEF WindowStop
    <3> QED
      BY <3>1, <3>2
  <2>6. CASE ExitSessions
    BY <2>6 DEF ExitSessions
  <2>7. CASE ExitRegistry
    BY <2>7 DEF ExitRegistry
  <2>8. CASE ExitKills
    BY <2>8 DEF ExitKills
  <2> QED
    BY <1>6, <2>1, <2>2, <2>3, <2>4, <2>5, <2>6, <2>7, <2>8 DEF MainStep
<1>7. CASE UNCHANGED spawnVars
  BY <1>7 DEF spawnVars
<1> QED
  BY <1>1, <1>2, <1>3, <1>4, <1>5, <1>6, <1>7 DEF SpawnNext

(* The threads, tabs, sessions and children are only ever in the states that  *)
(* SpawnTypeOK names.                                                         *)
THEOREM SpawnIsTyped == SpawnSpec => []SpawnTypeOK
BY SpawnTypeInit, SpawnTypeNext, PTL DEF SpawnSpec

-----------------------------------------------------------------------------
(* Agreement: a success travels from the script through the channel to the    *)
(* route call, and what it says stays true.                                   *)

Agreement ==
  \A i \in Id :
    /\ route[i] # "none" => i <= nextId
    /\ route[i] \in {"none", "emit"} => frontend[i] = "none"
    /\ frontend[i] \in {"none", "notified"} => pty[i] = "none"
    /\ channel[i] = "success" => frontend[i] = "accepted"
    /\ route[i] \in {"check", "finish", "ok", "lost"} => frontend[i] = "accepted"
    /\ route[i] = "ok" => spawn[i] = "finished"
    /\ spawn[i] \in {"attached", "finished"} => pty[i] = "ok"

AgreementInv == TypeOK /\ SpawnTypeOK /\ Agreement

(* Most operations of the registry do not move a spawn. *)
LEMMA SpawnUnmoved ==
  ASSUME \/ Lock \/ Stops \/ Shutdown
         \/ \E i \in Id : Exited(i) \/ Failed(i)
         \/ \E w \in Window : \/ UnregisterWindow(w)
                             \/ \E ts \in SUBSET Terminal : RegisterTopLevelTerminals(w, ts)
         \/ \E p \in Terminal, ids \in SUBSET Id : Detach(p, ids)
  PROVE  UNCHANGED <<nextId, spawn>>
BY DEF Lock, Stops, StopBegin, StopHandler, StopFailed, StopDone, Shutdown, Exited, Failed,
   UnregisterWindow, RegisterTopLevelTerminals, Detach

LEMMA AgreementInit == SpawnInit => Agreement
BY DEF SpawnInit, Init, Agreement

(* Agreement is about six variables only. *)
LEMMA AgreementUntouched ==
  ASSUME Agreement, UNCHANGED <<nextId, spawn, route, channel, frontend, pty>>
  PROVE  Agreement'
BY DEF Agreement

LEMMA RouteAgrees ==
  ASSUME AgreementInv, NEW i \in Id, RouteStep(i)
  PROVE  Agreement'
<1> USE DEF AgreementInv, SpawnTypeOK, RouteTo, FrontendTo, frontendVars, ptyVars, registryVars, vars
<1>1. CASE RouteEmit(i)
  BY <1>1 DEF RouteEmit, Agreement
<1>2. CASE RouteReceive(i)
  BY <1>2 DEF RouteReceive, OnAck, Agreement
<1>3. CASE RouteTimeout(i)
  BY <1>3 DEF RouteTimeout, Agreement
<1>4. CASE RouteCheck(i)
  BY <1>4 DEF RouteCheck, Agreement
<1>5. CASE RouteFinish(i)
  BY <1>5 DEF RouteFinish, FinishReservation, Agreement, TypeOK
<1>6. CASE RouteRollback(i)
  BY <1>6 DEF RouteRollback, AfterRollback, RollbackReservation, Routing, Agreement, TypeOK
<1>7. CASE RouteKill(i)
  BY <1>7 DEF RouteKill, Agreement
<1> QED
  BY <1>1, <1>2, <1>3, <1>4, <1>5, <1>6, <1>7 DEF RouteStep

LEMMA FrontendAgrees ==
  ASSUME AgreementInv, NEW i \in Id, FrontendStep(i) \/ TabClose(i) \/ OtherWindowRefuses(i)
  PROVE  Agreement'
<1> USE DEF AgreementInv, SpawnTypeOK, FrontendTo, TabTo, PtyTo, routeVars, frontendVars, ptyVars,
        registryVars, vars
<1>1. CASE FrontendStart(i)
  <2>1. spawn[i] \notin {"attached", "finished"} \/ pty' = pty
    BY <1>1 DEF FrontendStart, Agreement
  <2> QED
    BY <1>1, <2>1 DEF FrontendStart, Agreement
<1>2. CASE FrontendStarted(i)
  BY <1>2 DEF FrontendStarted, Agreement
<1>3. CASE AckLookup(i)
  BY <1>3, SpawnUnmoved DEF AckLookup, Agreement
<1>4. CASE AckSend(i)
  BY <1>4 DEF AckSend, Ack, Agreement
<1>5. CASE TabClose(i)
  BY <1>5 DEF TabClose, Agreement
<1>6. CASE OtherWindowRefuses(i)
  <2>1. UNCHANGED <<nextId, spawn, route, frontend, pty>>
    BY <1>6, SpawnUnmoved DEF OtherWindowRefuses
  <2>2. channel' = [channel EXCEPT ![i] = "failure"]
    BY <1>6 DEF OtherWindowRefuses
  <2> QED
    BY <2>1, <2>2 DEF Agreement
<1> QED
  BY <1>1, <1>2, <1>3, <1>4, <1>5, <1>6 DEF FrontendStep

LEMMA PtyAgrees ==
  ASSUME AgreementInv, NEW i \in Id, PtyStep(i) \/ ChildExits(i)
  PROVE  Agreement'
<1> USE DEF AgreementInv, SpawnTypeOK, PtyTo, routeVars, frontendVars, ptyVars, registryVars, vars
<1>1. CASE PtySpawn(i) \/ PtyInsert(i)
  BY <1>1 DEF PtySpawn, PtyInsert, Agreement
<1>2. CASE PtyUndo(i)
  BY <1>2 DEF PtyUndo, Agreement
<1>3. CASE PtyAttach(i)
  <2>1. pty[i] = "inserted" /\ UNCHANGED <<nextId, route, channel, frontend>>
    BY <1>3 DEF PtyAttach, Attach
  <2>2. CASE Attach(i, TabOf[i]) /\ PtyTo(i, "ok")
    BY <2>1, <2>2 DEF Attach, Agreement, TypeOK
  <2>3. CASE PtyTo(i, "undo") /\ UNCHANGED spawn
    BY <2>1, <2>3 DEF Agreement
  <2> QED
    BY <1>3, <2>2, <2>3 DEF PtyAttach
<1>4. CASE WaiterDrain(i) \/ StopPty(i) \/ ChildExits(i)
  BY <1>4, AgreementUntouched DEF WaiterDrain, StopPty, ChildExits
<1>5. CASE WaiterReport(i)
  <2>1. UNCHANGED <<nextId, spawn>>
    BY <1>5, SpawnUnmoved DEF WaiterReport
  <2> QED
    BY <1>5, <2>1, AgreementUntouched DEF WaiterReport
<1>6. ASSUME NEW c \in Stopper, StopPtyChild(c, i) PROVE Agreement'
  <2>1. UNCHANGED <<nextId, spawn>>
    BY <1>6, SpawnUnmoved DEF StopPtyChild, StopOrSkip, Stops
  <2> QED
    BY <1>6, <2>1, AgreementUntouched DEF StopPtyChild
<1> QED
  BY <1>1, <1>2, <1>3, <1>4, <1>5, <1>6 DEF PtyStep

(* No other step moves a spawn, a route call, a script or a start of a PTY.   *)
LEMMA RestAgrees ==
  ASSUME \/ \E c \in Stopper : StopStep(c) \/ \E i \in Id : ClientStop(c, i)
         \/ MainStep \/ WindowDestroyed \/ ExitSessions \/ Registration
  PROVE  UNCHANGED <<nextId, spawn, route, channel, frontend, pty>>
<1> USE SpawnAssumption DEF routeVars, frontendVars, ptyVars, registryVars, vars
<1>1. ASSUME NEW c \in Stopper, StopStep(c) \/ \E i \in Id : ClientStop(c, i)
      PROVE  UNCHANGED <<nextId, spawn, route, channel, frontend, pty>>
  <2>1. Stops
    BY <1>1 DEF StopStep, StopRuns, StopReturns, ClientStop, Stops
  <2> QED
    BY <1>1, <2>1, SpawnUnmoved DEF StopStep, StopRuns, StopReturns, ClientStop
<1>2. CASE WindowDestroyed \/ WindowRemove \/ ExitSessions \/ ExitKills
  BY <1>2 DEF WindowDestroyed, WindowRemove, ExitSessions, ExitKills
<1>3. ASSUME NEW i \in Id, WindowStop(i)
      PROVE  UNCHANGED <<nextId, spawn, route, channel, frontend, pty>>
  <2>1. Stops \/ Lock
    BY <1>3 DEF WindowStop, StopOrSkip, Stops
  <2> QED
    BY <1>3, <2>1, SpawnUnmoved DEF WindowStop
<1>4. CASE WindowUnregister
  BY <1>4, SpawnUnmoved DEF WindowUnregister
<1>5. CASE ExitRegistry
  BY <1>5, SpawnUnmoved DEF ExitRegistry
<1>6. CASE Registration
  <2>1. \/ \E w \in Window, ts \in SUBSET Terminal : RegisterTopLevelTerminals(w, ts)
        \/ \E p \in Terminal, ids \in SUBSET Id : Detach(p, ids)
    BY <1>6 DEF Registration
  <2> QED
    BY <1>6, <2>1, SpawnUnmoved DEF Registration
<1> QED
  BY <1>1, <1>2, <1>3, <1>4, <1>5, <1>6 DEF MainStep

LEMMA AgreementNext == AgreementInv /\ [SpawnNext]_spawnVars => Agreement'
<1> SUFFICES ASSUME AgreementInv, [SpawnNext]_spawnVars PROVE Agreement'
  OBVIOUS
<1>0. Agreement
  BY DEF AgreementInv
<1>1. ASSUME NEW p \in Parent, NEW kind \in Kind, RouteReserve(p, kind) PROVE Agreement'
  <2>1. /\ nextId \in Nat /\ nextId' = nextId + 1 /\ nextId + 1 \in Id
        /\ route' = [route EXCEPT ![nextId + 1] = "emit"]
        /\ spawn' = [spawn EXCEPT ![nextId + 1] = "routing"]
        /\ UNCHANGED <<channel, frontend, pty>>
    BY <1>1, RegistryAssumption
       DEF RouteReserve, Reserve, RouteTo, AgreementInv, TypeOK, Id, frontendVars, ptyVars
  <2>2. route[nextId + 1] = "none"
    BY <1>0, <2>1 DEF Agreement
  <2> QED
    BY <1>0, <2>1, <2>2 DEF Agreement, AgreementInv, TypeOK, SpawnTypeOK, Id
<1>2. CASE UNCHANGED spawnVars
  BY <1>0, <1>2, AgreementUntouched DEF spawnVars, vars, routeVars, frontendVars, ptyVars
<1> QED
  BY <1>0, <1>1, <1>2, RouteAgrees, FrontendAgrees, PtyAgrees, RestAgrees, AgreementUntouched
     DEF SpawnNext

LEMMA AgreementHolds == SpawnSpec => []AgreementInv
<1>1. SpawnInit => AgreementInv
  <2>1. SpawnInit => TypeOK
    BY TypeInit DEF SpawnInit
  <2> QED
    BY <2>1, SpawnTypeInit, AgreementInit DEF AgreementInv
<1> QED
  BY <1>1, SpawnImplementsRegistry, TypeCorrect, SpawnIsTyped, AgreementNext, PTL
     DEF SpawnSpec, AgreementInv

(* A route call that reports success was acknowledged by a script that was    *)
(* told so, for a subagent that was attached.                                 *)
THEOREM SuccessesAgree == SpawnSpec => []SuccessIsAgreed
<1>1. AgreementInv => SuccessIsAgreed
  BY DEF AgreementInv, Agreement, SuccessIsAgreed
<1> QED
  BY <1>1, AgreementHolds, PTL

-----------------------------------------------------------------------------
(* Ownership: whoever lets go of a child has handed it on. *)

Starting == {"spawned", "inserted", "undo"}
Holding(recs, i) == Running(recs, i) /\ recs[i].stop

Owned(i) ==
  \/ Holding(records, i)
  \/ pty[i] \in Starting
  \/ route[i] = "kill"
  \/ \E c \in Stopper : stops[c].op = "calling" /\ stops[c].id = i
  \/ i \in kills

(* A stop call is about a child that was attached, so no start revives it,    *)
(* and one whose handler has succeeded has killed it.                         *)
StopsAttached ==
  /\ \A c \in Stopper : stops[c].op # "idle" => pty[stops[c].id] = "ok"
  /\ \A c \in Stopper : stops[c].op = "ok" => child[stops[c].id] # "alive"

Ownership ==
  /\ \A i \in Id : child[i] = "alive" /\ Up => Owned(i)
  /\ StopsAttached
  /\ exit = "no" => kills = {}

OwnershipInv == AgreementInv /\ SpawnProgress /\ Ownership

(* Pruning keeps what is held. *)
LEMMA PruneHolds ==
  ASSUME NEW recs \in Records, NEW live \in Prune(recs), NEW i \in Id, Holding(recs, i)
  PROVE  live[i] = recs[i] /\ Holding(live, i)
<1>1. live[i] = recs[i]
  BY PruneKeeps DEF Holding
<1> QED
  BY <1>1 DEF Holding, Running, Exists

(* What an operation that ends nothing holds before, it holds after.          *)
LEMMA HoldingKept ==
  ASSUME TypeOK, NEW i \in Id, Holding(records, i),
         \/ Lock
         \/ \E c \in Stopper, j \in Id : StopBegin(c, j)
         \/ \E c \in Stopper, o \in {"ok", "err"} : StopHandler(c, o)
         \/ \E c \in Stopper : StopFailed(c)
         \/ \E j \in Id, t \in Terminal : Attach(j, t)
         \/ \E j \in Id : FinishReservation(j)
         \/ \E t \in Terminal, kind \in Kind : Reserve(t, kind)
         \/ \E w \in Window : \/ UnregisterWindow(w)
                             \/ \E ts \in SUBSET Terminal : RegisterTopLevelTerminals(w, ts)
         \/ \E t \in Terminal, ids \in SUBSET Id : Detach(t, ids)
  PROVE  Holding(records', i)
<1>0. records \in Records /\ records[i] \in Record /\ records[i] # None
  BY DEF TypeOK, Records, Holding, Running, Exists
<1>1. CASE \/ Lock
           \/ \E j \in Id : FinishReservation(j)
           \/ \E t \in Terminal, kind \in Kind : Reserve(t, kind)
           \/ \E w \in Window, ts \in SUBSET Terminal : RegisterTopLevelTerminals(w, ts)
  <2>1. records' \in Prune(records)
    BY <1>1 DEF Lock, FinishReservation, Reserve, RegisterTopLevelTerminals
  <2> QED
    BY <1>0, <2>1, PruneHolds
<1>2. ASSUME NEW c \in Stopper, NEW j \in Id, StopBegin(c, j) PROVE Holding(records', i)
  <2>1. PICK live \in Prune(records) : records' = [live EXCEPT ![j].stopRequested = TRUE]
    BY <1>2 DEF StopBegin
  <2>2. live \in Records /\ live[i] = records[i]
    BY <1>0, <2>1, PruneKeeps, PruneHolds
  <2>3. records'[i] \in {records[i], [records[i] EXCEPT !.stopRequested = TRUE]}
    BY <2>1, <2>2 DEF Records
  <2> DEFINE marked == [records[i] EXCEPT !.stopRequested = TRUE]
  <2>4. /\ marked \in Record
        /\ marked.lifecycle = records[i].lifecycle /\ marked.stop = records[i].stop
    BY <1>0 DEF Record
  <2>5. records'[i] = records[i] \/ records'[i] = marked
    BY <2>3
  <2> HIDE DEF marked
  <2> QED
    BY <1>0, <2>4, <2>5, NoneAssumption DEF Holding, Running, Exists
<1>3. CASE \/ \E c \in Stopper, o \in {"ok", "err"} : StopHandler(c, o)
           \/ \E w \in Window : UnregisterWindow(w)
  BY <1>3 DEF StopHandler, UnregisterWindow
<1>4. ASSUME NEW c \in Stopper, StopFailed(c) PROVE Holding(records', i)
  BY <1>0, <1>4, NoneAssumption DEF StopFailed, Holding, Running, Exists, Records, Record
<1>5. ASSUME NEW j \in Id, NEW t \in Terminal, Attach(j, t) PROVE Holding(records', i)
  <2>1. PICK live \in Prune(records) :
          ~Exists(live, j) /\ records' = [live EXCEPT ![j] = NewRecord(reservations[j], t)]
    BY <1>5 DEF Attach, CanAttach
  <2>2. live \in Records /\ live[i] = records[i]
    BY <1>0, <2>1, PruneKeeps, PruneHolds
  <2>3. i # j
    BY <1>0, <2>1, <2>2 DEF Exists
  <2> QED
    BY <1>0, <2>1, <2>2, <2>3 DEF Holding, Running, Exists, Records
<1>6. ASSUME NEW t \in Terminal, NEW ids \in SUBSET Id, Detach(t, ids) PROVE Holding(records', i)
  <2>1. PICK live \in Prune(records) :
          records' = [k \in Id |-> IF k \in ids /\ Exists(live, k)
                                  THEN [Bumped(live[k]) EXCEPT !.parent = None]
                                  ELSE live[k]]
    BY <1>6 DEF Detach
  <2>2. live[i] = records[i]
    BY <1>0, <2>1, PruneHolds
  <2>3. records'[i] \in {records[i], [Bumped(records[i]) EXCEPT !.parent = None]}
    BY <2>1, <2>2
  <2> DEFINE bumped == Bumped(records[i])
             orphan == [bumped EXCEPT !.parent = None]
  <2>4. /\ orphan \in Record
        /\ orphan.lifecycle = records[i].lifecycle /\ orphan.stop = records[i].stop
    <3>1. bumped \in Record
      BY <1>0, BumpedType
    <3>2. bumped.lifecycle = records[i].lifecycle /\ bumped.stop = records[i].stop
      BY <1>0 DEF Bumped, Record
    <3> HIDE DEF bumped
    <3> QED
      BY <3>1, <3>2 DEF Record
  <2>5. records'[i] = records[i] \/ records'[i] = orphan
    BY <2>3
  <2> HIDE DEF orphan
  <2> QED
    BY <1>0, <2>4, <2>5, NoneAssumption DEF Holding, Running, Exists
<1> QED
  BY <1>1, <1>2, <1>3, <1>4, <1>5, <1>6

(* A child stays owned when each of its owners keeps it or hands it on. *)
LEMMA OwnedKept ==
  ASSUME NEW i \in Id, Owned(i),
         Holding(records, i) => Owned(i)',
         pty[i] \in Starting => pty'[i] \in Starting \/ Owned(i)',
         route[i] = "kill" => route'[i] = "kill",
         \A c \in Stopper : stops[c].op = "calling" => stops'[c] = stops[c],
         kills \subseteq kills'
  PROVE  Owned(i)'
BY DEF Owned

LEMMA OwnershipInit == SpawnInit => Ownership
BY DEF SpawnInit, Init, Ownership, StopsAttached, NoStop

(* A step that touches neither stop calls nor the exit of the application.    *)
LEMMA OwnershipKept ==
  ASSUME Ownership, UNCHANGED <<stops, exit, kills>>,
         \A i \in Id : pty[i] = "ok" => pty'[i] = "ok" /\ (child'[i] = "alive" => child[i] = "alive"),
         \A i \in Id : child'[i] = "alive" =>
           \/ Owned(i)'
           \/ /\ child[i] = "alive"
              /\ Holding(records, i) => Holding(records', i)
              /\ pty[i] \in Starting => pty'[i] \in Starting
              /\ route[i] = "kill" => route'[i] = "kill",
         stops \in [Stopper -> StopCall \cup {NoStop}]
  PROVE  Ownership'
<1>1. ASSUME NEW i \in Id, child'[i] = "alive", Up' PROVE Owned(i)'
  BY <1>1, OwnedKept DEF Ownership, Owned, Up
<1>2. StopsAttached'
  BY DEF Ownership, StopsAttached, StopCall, NoStop
<1> QED
  BY <1>1, <1>2 DEF Ownership

LEMMA RouteOwns ==
  ASSUME OwnershipInv, NEW i \in Id, RouteStep(i)
  PROVE  Ownership'
<1> USE DEF OwnershipInv, AgreementInv, SpawnTypeOK, RouteTo, FrontendTo, frontendVars, ptyVars,
            mainVars, registryVars, vars
<1>0. stops \in [Stopper -> StopCall \cup {NoStop}]
  BY DEF TypeOK
<1>1. CASE RouteEmit(i) \/ RouteReceive(i) \/ RouteTimeout(i)
  BY <1>0, <1>1, OwnershipKept DEF RouteEmit, RouteReceive, RouteTimeout
<1>2. CASE RouteCheck(i) \/ RouteFinish(i)
  <2>1. \A j \in Id : Holding(records, j) => Holding(records', j)
    BY <1>2, HoldingKept DEF RouteCheck, RouteFinish, Lock
  <2>2. UNCHANGED <<stops, exit, kills, pty, child>>
    BY <1>2 DEF RouteCheck, RouteFinish, FinishReservation
  <2>3. \A j \in Id : route[j] = "kill" => route'[j] = "kill"
    BY <1>2 DEF RouteCheck, RouteFinish
  <2> QED
    BY <1>0, <2>1, <2>2, <2>3, OwnershipKept
<1>3. CASE RouteRollback(i)
  <2>1. /\ route[i] = "rollback" /\ route' = [route EXCEPT ![i] = AfterRollback(i)]
        /\ records' = Without(records, {i})
        /\ UNCHANGED <<stops, exit, kills, pty, child>>
    BY <1>3 DEF RouteRollback, RollbackReservation
  <2>2. Holding(records, i) => route'[i] = "kill"
    BY <2>1 DEF AfterRollback, Holding, Running
  <2>3. \A j \in Id \ {i} : Holding(records, j) => Holding(records', j)
    BY <2>1 DEF Without, Holding, Running, Exists
  <2>4. \A j \in Id : route[j] = "kill" => route'[j] = "kill"
    BY <2>1
  <2>5. Holding(records, i) => Owned(i)'
    BY <2>2 DEF Owned
  <2> QED
    BY <1>0, <2>1, <2>3, <2>4, <2>5, OwnershipKept
<1>4. CASE RouteKill(i)
  <2>1. /\ \A j \in Id \ {i} : route[j] = "kill" => route'[j] = "kill"
        /\ child'[i] # "alive"
        /\ \A j \in Id : child'[j] = "alive" => child[j] = "alive"
        /\ UNCHANGED <<stops, exit, kills, pty, records>>
    BY <1>4 DEF RouteKill, Killed
  <2> QED
    BY <1>0, <2>1, OwnershipKept
<1> QED
  BY <1>1, <1>2, <1>3, <1>4 DEF RouteStep

LEMMA FrontendOwns ==
  ASSUME OwnershipInv, NEW i \in Id, FrontendStep(i) \/ TabClose(i) \/ OtherWindowRefuses(i)
  PROVE  Ownership'
<1> USE DEF OwnershipInv, AgreementInv, SpawnTypeOK, FrontendTo, TabTo, PtyTo, routeVars, frontendVars,
            ptyVars, mainVars, registryVars, vars
<1>0. stops \in [Stopper -> StopCall \cup {NoStop}]
  BY DEF TypeOK
<1>1. CASE FrontendStart(i)
  <2>1. pty[i] = "none"
    BY <1>1 DEF FrontendStart, Agreement
  <2>2. \A j \in Id : pty'[j] = pty[j] \/ (j = i /\ pty[j] = "none")
    BY <1>1, <2>1 DEF FrontendStart
  <2>3. UNCHANGED <<stops, exit, kills, records, route, child>>
    BY <1>1 DEF FrontendStart
  <2> QED
    BY <1>0, <2>2, <2>3, OwnershipKept DEF Starting
<1>2. CASE FrontendStarted(i) \/ AckSend(i) \/ TabClose(i)
  BY <1>0, <1>2, OwnershipKept DEF FrontendStarted, AckSend, TabClose
<1>3. CASE AckLookup(i) \/ OtherWindowRefuses(i)
  <2>1. Lock /\ UNCHANGED <<exit, kills, pty, child, route>>
    BY <1>3 DEF AckLookup, OtherWindowRefuses
  <2>2. \A j \in Id : Holding(records, j) => Holding(records', j)
    BY <2>1, HoldingKept
  <2>3. UNCHANGED stops
    BY <2>1 DEF Lock
  <2> QED
    BY <1>0, <2>1, <2>2, <2>3, OwnershipKept
<1> QED
  BY <1>1, <1>2, <1>3 DEF FrontendStep

(* A stop call is about a child that was attached. *)
LEMMA StopBeginOwns ==
  ASSUME OwnershipInv, NEW c \in Stopper, NEW i \in Id, StopOrSkip(c, i),
         UNCHANGED <<pty, child, route, exit, kills>>
  PROVE  Ownership'
<1>0. /\ TypeOK /\ records \in Records /\ Ownership
      /\ stops \in [Stopper -> StopCall \cup {NoStop}]
  BY DEF OwnershipInv, AgreementInv, TypeOK, Records
<1>1. \A j \in Id : Holding(records, j) => Holding(records', j)
  BY <1>0, HoldingKept DEF StopOrSkip
<1>2. CASE stops' = stops
  BY <1>0, <1>1, <1>2, OwnershipKept
<1>3. CASE StopBegin(c, i) /\ stops' # stops
  <2>1. stops[c].op = "idle" /\ stops' = [stops EXCEPT ![c] = [op |-> "calling", id |-> i]]
    BY <1>3 DEF StopBegin
  <2>2. pty[i] = "ok"
    <3>1. PICK live \in Prune(records) : Exists(live, i)
      BY <1>3 DEF StopBegin, CanStop, Running
    <3>2. Exists(records, i)
      BY <1>0, <3>1, PruneKeeps DEF Exists
    <3> QED
      BY <3>2 DEF OwnershipInv, SpawnProgress, AgreementInv, Agreement
  <2>3. \A d \in Stopper : stops'[d] = stops[d] \/ (d = c /\ stops'[d] = [op |-> "calling", id |-> i])
    BY <1>0, <2>1
  <2>4. StopsAttached'
    BY <1>0, <2>2, <2>3 DEF Ownership, StopsAttached
  <2>5. \A d \in Stopper : stops[d].op = "calling" => stops'[d] = stops[d]
    BY <2>1, <2>3
  <2>6. ASSUME NEW j \in Id, child'[j] = "alive", Up' PROVE Owned(j)'
    <3>1. Owned(j)
      BY <1>0, <2>6 DEF Ownership, Up
    <3>2. Holding(records, j) => Owned(j)'
      BY <1>1 DEF Owned
    <3> QED
      BY <3>1, <3>2, <2>5, OwnedKept
  <2> QED
    BY <1>0, <2>4, <2>6 DEF Ownership
<1> QED
  BY <1>2, <1>3 DEF StopOrSkip, Lock

(* A child that ends, or fails, takes no other record with it. *)
LEMMA EndingHolds ==
  ASSUME TypeOK, NEW i \in Id, Exited(i) \/ Failed(i), NEW j \in Id \ {i}, Holding(records, j)
  PROVE  Holding(records', j)
<1>0. records \in Records /\ records[i] \in Record /\ now \in Nat
  BY NoneAssumption DEF TypeOK, Records, Exited, Failed, Running, Exists
<1>1. PICK lifecycle \in Lifecycle : records' \in Prune([records EXCEPT ![i] = Ended(@, lifecycle)])
  BY DEF Exited, Failed, ExitedAs, Lifecycle
<1> DEFINE ended == Ended(records[i], lifecycle)
           recs == [records EXCEPT ![i] = ended]
<1>2. ended \in Record
  BY <1>0, EndedType
<1>3. records' \in Prune(recs)
  BY <1>1
<1> HIDE DEF ended
<1>4. recs \in Records /\ recs[j] = records[j]
  BY <1>0, <1>2 DEF Records
<1> HIDE DEF recs
<1>5. Holding(recs, j)
  BY <1>4 DEF Holding, Running, Exists
<1> QED
  BY <1>3, <1>4, <1>5, PruneHolds

LEMMA AttachOwns ==
  ASSUME OwnershipInv, NEW i \in Id, PtyAttach(i)
  PROVE  Ownership'
<1>0. /\ TypeOK /\ SpawnTypeOK /\ Agreement /\ Ownership /\ records \in Records
      /\ stops \in [Stopper -> StopCall \cup {NoStop}]
  BY DEF OwnershipInv, AgreementInv, TypeOK, Records
<1>1. pty[i] = "inserted" /\ UNCHANGED <<stops, exit, kills, child, route>>
  BY DEF PtyAttach, Attach, routeVars, mainVars
<1>2. CASE Attach(i, TabOf[i]) /\ PtyTo(i, "ok")
  <2>1. PICK live \in Prune(records) :
          records' = [live EXCEPT ![i] = NewRecord(reservations[i], TabOf[i])] /\ Reserved(i)
    BY <1>2 DEF Attach, CanAttach
  <2>2. live \in Records
    BY <1>0, PruneKeeps
  <2>3. reservations[i] \in Reservation /\ TabOf[i] \in Terminal
    BY <1>0, <2>1, SpawnAssumption DEF TypeOK, Reserved
  <2>4. records'[i] = NewRecord(reservations[i], TabOf[i]) /\ records'[i] \in Record
    BY <2>1, <2>2, <2>3, NewRecordType DEF Records
  <2>5. Owned(i)'
    <3>1. records'[i].lifecycle = "running" /\ records'[i].stop
      BY <2>4 DEF NewRecord
    <3>2. records'[i] # None
      BY <2>4, NoneAssumption
    <3> QED
      BY <3>1, <3>2 DEF Owned, Holding, Running, Exists
  <2>6. \A j \in Id : Holding(records, j) => Holding(records', j)
    BY <1>0, <1>2, <2>3, HoldingKept
  <2>7. pty' = [pty EXCEPT ![i] = "ok"]
    BY <1>2 DEF PtyTo
  <2>8. \A j \in Id \ {i} : pty'[j] = pty[j]
    BY <1>0, <2>7 DEF SpawnTypeOK
  <2> QED
    BY <1>0, <1>1, <2>5, <2>6, <2>7, <2>8, OwnershipKept
<1>3. CASE PtyTo(i, "undo") /\ \E live \in Prune(records) : records' = live
  <2>1. \A j \in Id : Holding(records, j) => Holding(records', j)
    BY <1>0, <1>3, PruneHolds
  <2>2. pty' = [pty EXCEPT ![i] = "undo"]
    BY <1>3 DEF PtyTo
  <2>3. \A j \in Id : pty'[j] = pty[j] \/ (j = i /\ pty'[j] = "undo")
    BY <1>0, <2>2 DEF SpawnTypeOK
  <2> QED
    BY <1>0, <1>1, <2>1, <2>3, OwnershipKept DEF Starting
<1> QED
  BY <1>2, <1>3 DEF PtyAttach

LEMMA PtyOwns ==
  ASSUME OwnershipInv, NEW i \in Id, PtyStep(i) \/ ChildExits(i)
  PROVE  Ownership'
<1> USE DEF OwnershipInv, AgreementInv, SpawnTypeOK, PtyTo, TabTo, routeVars, frontendVars, ptyVars,
            mainVars, registryVars, vars
<1>0. stops \in [Stopper -> StopCall \cup {NoStop}]
  BY DEF TypeOK
<1>1. CASE PtySpawn(i) \/ PtyInsert(i)
  <2>1. /\ UNCHANGED <<stops, exit, kills, records, route>>
        /\ \A j \in Id \ {i} : pty'[j] = pty[j] /\ child'[j] = child[j]
        /\ pty[i] \in {"called", "spawned"}
        /\ pty'[i] \in Starting \/ (pty'[i] = "failed" /\ pty[i] = "called" /\ child' = child)
    BY <1>1 DEF PtySpawn, PtyInsert, Starting
  <2>2. pty'[i] \in Starting => Owned(i)'
    BY DEF Owned
  <2> QED
    BY <1>0, <2>1, <2>2, OwnershipKept DEF Starting
<1>2. CASE PtyAttach(i)
  BY <1>2, AttachOwns
<1>3. CASE PtyUndo(i)
  <2>1. /\ UNCHANGED <<stops, exit, kills, records, route>>
        /\ \A j \in Id \ {i} : pty'[j] = pty[j] /\ child'[j] = child[j]
        /\ pty[i] = "undo" /\ child'[i] # "alive"
    BY <1>3 DEF PtyUndo
  <2> QED
    BY <1>0, <2>1, OwnershipKept
<1>4. CASE WaiterDrain(i) \/ StopPty(i) \/ ChildExits(i)
  <2>1. /\ UNCHANGED <<stops, exit, kills, records, route, pty>>
        /\ \A j \in Id : child'[j] = "alive" => child[j] = "alive"
    BY <1>4 DEF WaiterDrain, StopPty, ChildExits, Killed
  <2> QED
    BY <1>0, <2>1, OwnershipKept
<1>5. CASE WaiterReport(i)
  <2>1. UNCHANGED <<stops, exit, kills, route, pty>>
    BY <1>5 DEF WaiterReport, Exited, Failed
  <2>2. child'[i] # "alive" /\ \A j \in Id \ {i} : child'[j] = child[j]
    BY <1>5 DEF WaiterReport
  <2>3. \A j \in Id \ {i} : Holding(records, j) => Holding(records', j)
    BY <1>5, EndingHolds DEF WaiterReport
  <2> QED
    BY <1>0, <2>1, <2>2, <2>3, OwnershipKept
<1>6. ASSUME NEW c \in Stopper, StopPtyChild(c, i) PROVE Ownership'
  BY <1>6, StopBeginOwns DEF StopPtyChild
<1> QED
  BY <1>1, <1>2, <1>3, <1>4, <1>5, <1>6 DEF PtyStep

(* A stop call lets go of its child when the handler has run.  When it        *)
(* succeeded the child is dead; when it failed there was no child to kill.    *)
LEMMA StopRunOwns ==
  ASSUME OwnershipInv, NEW c \in Stopper, StopRuns(c)
  PROVE  Ownership'
<1>0. /\ TypeOK /\ SpawnTypeOK /\ Ownership /\ stops \in [Stopper -> StopCall \cup {NoStop}]
  BY DEF OwnershipInv, AgreementInv, TypeOK
<1>1. PICK outcome \in {"ok", "err"} :
        /\ StopHandler(c, outcome)
        /\ IF outcome = "ok" THEN child' = Killed({stops[c].id})
           ELSE child[stops[c].id] # "alive" /\ UNCHANGED child
  BY DEF StopRuns
<1>2. UNCHANGED <<records, pty, route, exit, kills>>
  BY <1>1 DEF StopRuns, StopHandler, routeVars, mainVars
<1>3. stops[c] \in StopCall /\ stops[c].op = "calling" /\ stops[c].id \in Id
  BY <1>0, <1>1 DEF StopHandler, StopCall, NoStop
<1>4. stops'[c].op = outcome /\ stops'[c].id = stops[c].id
  BY <1>0, <1>1, <1>3 DEF StopHandler, StopCall
<1>5. \A d \in Stopper \ {c} : stops'[d] = stops[d]
  BY <1>0, <1>1 DEF StopHandler
<1>6. child'[stops[c].id] # "alive" /\ \A j \in Id : child'[j] = "alive" => child[j] = "alive"
  BY <1>0, <1>1, <1>3 DEF Killed, SpawnTypeOK
<1>7. StopsAttached'
  BY <1>0, <1>2, <1>3, <1>4, <1>5, <1>6 DEF Ownership, StopsAttached, StopCall, NoStop
<1>8. ASSUME NEW j \in Id, child'[j] = "alive", Up' PROVE Owned(j)'
  BY <1>0, <1>2, <1>5, <1>6, <1>8 DEF Ownership, Owned, Holding, Running, Exists, Up
<1> QED
  BY <1>0, <1>2, <1>7, <1>8 DEF Ownership

LEMMA StopReturnOwns ==
  ASSUME OwnershipInv, NEW c \in Stopper, StopReturns(c)
  PROVE  Ownership'
<1>0. /\ TypeOK /\ Ownership /\ stops \in [Stopper -> StopCall \cup {NoStop}] /\ records \in Records
  BY DEF OwnershipInv, AgreementInv, TypeOK, Records
<1>1. stops[c].op \in {"ok", "err"} /\ stops' = [stops EXCEPT ![c] = NoStop]
  BY DEF StopReturns, StopFailed, StopDone
<1>2. UNCHANGED <<pty, route, exit, kills, child>>
  BY DEF StopReturns, routeVars, ptyVars, mainVars
<1>3. \A d \in Stopper : stops'[d] = stops[d] \/ (d = c /\ stops'[d] = NoStop)
  BY <1>0, <1>1
<1>4. StopsAttached'
  BY <1>0, <1>2, <1>3 DEF Ownership, StopsAttached, NoStop
<1>5. \A d \in Stopper : stops[d].op = "calling" => stops'[d] = stops[d]
  BY <1>1, <1>3
<1>6. ASSUME NEW j \in Id, child[j] = "alive", Holding(records, j) PROVE Holding(records', j)
  <2>1. CASE StopFailed(c)
    BY <1>0, <1>6, <2>1, HoldingKept
  <2>2. CASE StopDone(c)
    <3>1. j # stops[c].id
      BY <1>0, <1>6, <2>2 DEF StopDone, Ownership, StopsAttached
    <3> QED
      BY <1>0, <1>6, <2>2, <3>1 DEF StopDone, Holding, Running, Exists, Records
  <2> QED
    BY <2>1, <2>2 DEF StopReturns
<1>7. ASSUME NEW j \in Id, child'[j] = "alive", Up' PROVE Owned(j)'
  <2>1. Owned(j) /\ child[j] = "alive"
    BY <1>0, <1>2, <1>7 DEF Ownership, Up
  <2>2. Holding(records, j) => Owned(j)'
    BY <1>6, <2>1 DEF Owned
  <2> QED
    BY <1>2, <1>5, <2>1, <2>2, OwnedKept
<1> QED
  BY <1>0, <1>2, <1>4, <1>7 DEF Ownership

LEMMA StopOwns ==
  ASSUME OwnershipInv, NEW c \in Stopper, StopStep(c) \/ \E i \in Id : ClientStop(c, i)
  PROVE  Ownership'
<1>1. ASSUME NEW i \in Id, ClientStop(c, i) PROVE Ownership'
  BY <1>1, StopBeginOwns DEF ClientStop, StopOrSkip, routeVars, ptyVars, mainVars
<1> QED
  BY <1>1, StopRunOwns, StopReturnOwns DEF StopStep

LEMMA ExitOwns ==
  ASSUME OwnershipInv, ExitSessions \/ ExitRegistry \/ ExitKills
  PROVE  Ownership'
<1> USE DEF routeVars, frontendVars, ptyVars, registryVars, vars
<1>0. /\ TypeOK /\ SpawnTypeOK /\ Ownership
      /\ stops \in [Stopper -> StopCall \cup {NoStop}]
  BY DEF OwnershipInv, AgreementInv, TypeOK
<1>1. UNCHANGED <<stops, pty, route>> /\ exit' # "no" /\ exit # "done"
  BY DEF ExitSessions, ExitRegistry, ExitKills, Shutdown
<1>2. \A j \in Id : child'[j] = "alive" => child[j] = "alive"
  BY <1>0 DEF ExitSessions, ExitRegistry, ExitKills, Killed, SpawnTypeOK
<1>3. StopsAttached'
  BY <1>0, <1>1, <1>2 DEF Ownership, StopsAttached, StopCall, NoStop
<1>4. ASSUME NEW j \in Id, child'[j] = "alive", Up' PROVE Owned(j)'
  <2>1. Owned(j)
    BY <1>0, <1>1, <1>2, <1>4 DEF Ownership, Up
  <2>2. CASE ExitSessions
    <3>1. kills = {} /\ UNCHANGED records
      BY <1>0, <2>2 DEF ExitSessions, Ownership
    <3> QED
      BY <1>1, <2>1, <3>1 DEF Owned, Holding, Running, Exists
  <2>3. CASE ExitRegistry
    <3>1. kills' = kills \cup {k \in Id : Exists(records, k) /\ records[k].stop}
      BY <2>3 DEF ExitRegistry
    <3>2. Holding(records, j) => j \in kills'
      BY <3>1 DEF Holding, Running
    <3> QED
      BY <1>1, <2>1, <3>1, <3>2 DEF Owned
  <2>4. CASE ExitKills
    BY <1>4, <2>4 DEF ExitKills, Up
  <2> QED
    BY <2>2, <2>3, <2>4
<1> QED
  BY <1>1, <1>3, <1>4 DEF Ownership

LEMMA MainOwns ==
  ASSUME OwnershipInv, MainStep \/ WindowDestroyed \/ ExitSessions \/ Registration
  PROVE  Ownership'
<1> USE SpawnAssumption DEF routeVars, frontendVars, ptyVars, mainVars, registryVars, vars
<1>0. TypeOK /\ Ownership /\ stops \in [Stopper -> StopCall \cup {NoStop}]
  BY DEF OwnershipInv, AgreementInv, TypeOK
<1>1. CASE WindowDestroyed \/ WindowRemove
  BY <1>0, <1>1, OwnershipKept DEF WindowDestroyed, WindowRemove
<1>2. ASSUME NEW i \in Id, WindowStop(i) PROVE Ownership'
  BY <1>2, StopBeginOwns DEF WindowStop
<1>3. CASE WindowUnregister \/ Registration
  <2>1. UNCHANGED <<exit, kills, pty, child, route>>
    BY <1>3 DEF WindowUnregister, Registration
  <2>2. UNCHANGED stops
    BY <1>3 DEF WindowUnregister, Registration, UnregisterWindow, RegisterTopLevelTerminals, Detach
  <2>3. ASSUME NEW j \in Id, Holding(records, j) PROVE Holding(records', j)
    <3>1. \/ \E w \in Window : \/ UnregisterWindow(w)
                              \/ \E ts \in SUBSET Terminal : RegisterTopLevelTerminals(w, ts)
          \/ \E t \in Terminal, ids \in SUBSET Id : Detach(t, ids)
      BY <1>3 DEF WindowUnregister, Registration
    <3> QED
      BY <1>0, <2>3, <3>1, HoldingKept
  <2> QED
    BY <1>0, <2>1, <2>2, <2>3, OwnershipKept
<1> QED
  BY <1>1, <1>2, <1>3, ExitOwns DEF MainStep

LEMMA ReserveOwns ==
  ASSUME OwnershipInv, NEW p \in Parent, NEW kind \in Kind, RouteReserve(p, kind)
  PROVE  Ownership'
<1>0. /\ TypeOK /\ SpawnTypeOK /\ Agreement /\ Ownership
      /\ stops \in [Stopper -> StopCall \cup {NoStop}]
  BY DEF OwnershipInv, AgreementInv, TypeOK
<1>1. /\ route' = [route EXCEPT ![nextId + 1] = "emit"] /\ nextId \in Nat
      /\ UNCHANGED <<stops, exit, kills, pty, child>>
  BY <1>0 DEF RouteReserve, Reserve, RouteTo, ptyVars, mainVars, TypeOK
<1>2. \A j \in Id : route[j] = "kill" => route'[j] = "kill"
  BY <1>0, <1>1 DEF Agreement, SpawnTypeOK, Id
<1>3. p \in Terminal
  BY SpawnAssumption
<1>4. \A j \in Id : Holding(records, j) => Holding(records', j)
  BY <1>0, <1>3, HoldingKept DEF RouteReserve
<1> QED
  BY <1>0, <1>1, <1>2, <1>4, OwnershipKept

LEMMA OwnershipNext == OwnershipInv /\ [SpawnNext]_spawnVars => Ownership'
<1> SUFFICES ASSUME OwnershipInv, [SpawnNext]_spawnVars PROVE Ownership'
  OBVIOUS
<1>1. CASE UNCHANGED spawnVars
  <2>1. Ownership /\ stops \in [Stopper -> StopCall \cup {NoStop}]
    BY DEF OwnershipInv, AgreementInv, TypeOK
  <2> QED
    BY <1>1, <2>1, OwnershipKept DEF spawnVars, vars, routeVars, ptyVars, mainVars
<1> QED
  BY <1>1, ReserveOwns, RouteOwns, FrontendOwns, PtyOwns, StopOwns, MainOwns DEF SpawnNext

(* Every live child can still be killed: its record holds the handler, or the *)
(* thread that took the handler, or the child itself, has still to use it.    *)
THEOREM ChildrenAreOwned == SpawnSpec => []ChildIsOwned
<1>1. SpawnInit => OwnershipInv
  <2>1. SpawnInit => RegistryInv /\ AgreementInv
    BY RegistryInit, SpawnTypeInit, AgreementInit
    DEF SpawnInit, AgreementInv, RegistryInv, Progress
  <2> QED
    BY <2>1, OwnershipInit DEF OwnershipInv, RegistryInv, Progress
<1>2. RegistryInv => SpawnProgress
  BY DEF RegistryInv, Progress
<1>3. AgreementInv /\ SpawnProgress /\ Ownership <=> OwnershipInv
  BY DEF OwnershipInv
<1>4. OwnershipInv => ChildIsOwned
  BY DEF OwnershipInv, Ownership, Owned, Holding, Starting, ChildIsOwned
<1> QED
  BY <1>1, <1>2, <1>3, <1>4, AgreementHolds, RegistryHolds, OwnershipNext, PTL DEF SpawnSpec
=============================================================================
