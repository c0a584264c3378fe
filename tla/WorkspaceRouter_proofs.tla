------------------------ MODULE WorkspaceRouter_proofs ------------------------
(***************************************************************************)
(* Safety of the workspace router for any number of windows and requests,   *)
(* whatever clients ask for and windows know: who answers a request, that   *)
(* somebody can, and how often.                                             *)
(***************************************************************************)
EXTENDS WorkspaceRouter, TLAPS

Stages == {"none", "insert", "emit", "recv", "remove", "returned"}

(* The requests that have, or may still have, an entry and a channel. *)
Waiting(r) == route[r] \in {"emit", "recv", "remove"}

RouterTyped ==
  /\ snapshot \in [Window -> (SUBSET Thing) \cup {None}]
  /\ closed \subseteq Window
  /\ target \in [Request -> Window \cup {None}]
  /\ route \in [Request -> Stages]
  /\ answer \in [Request -> Answer \cup Outcomes \cup {None}]
  /\ pending \in [Request -> Window \cup {None}]
  /\ channel \in [Request -> Answer \cup {None}]
  /\ script \in [Window -> [Request -> Results \cup {"none", "told", "failed", "done"}]]
  /\ main \in {Idle}
       \cup [op : {"send"}, window : Window, request : Request, value : {"ok", "error"}]
       \cup [op : {"unregister"}, window : Window, left : SUBSET Request]

ClosedOwnNothing == \A w \in closed : snapshot[w] = None

(* Entries, messages and answers belong to requests that were routed, and to  *)
(* the window they were routed to.                                           *)
Targeted ==
  \A r \in Request :
    /\ route[r] = "insert" => target[r] \in Window
    /\ pending[r] # None => pending[r] = target[r] /\ Waiting(r)
    /\ channel[r] # None => channel[r].from = target[r] /\ Waiting(r)
    /\ answer[r] \in Answer => answer[r].from = target[r]
    /\ answer[r] # None <=> route[r] \in {"remove", "returned"}
    /\ answer[r] = Outcome("refused") => route[r] = "returned"

(* No script has heard of a request before its event is emitted. *)
Unheard ==
  \A r \in Request :
    route[r] \in {"none", "insert", "emit"} \/ answer[r] = Outcome("undelivered") =>
      \A w \in Window : script[w][r] = "none"

(* An acknowledgement under way is the target's; a window that goes answers   *)
(* the entries that wait for it.                                             *)
EventLoop ==
  /\ main.op = "send" =>
       /\ main.window = target[main.request]
       /\ script[main.window][main.request] \in Results \cup {"failed"}
  /\ main.op = "unregister" => \A r \in main.left : pending[r] = main.window

(* An entry that was answered and is still there was answered by its script,  *)
(* which is done.                                                            *)
AnsweredOnce ==
  \A r \in Request :
    pending[r] # None /\ (channel[r] # None \/ answer[r] \in Answer) =>
      script[target[r]][r] = "done"

Answerable ==
  \A r \in Request : route[r] \in {"emit", "recv"} => pending[r] # None \/ channel[r] # None

RouterInv ==
  /\ RouterTyped
  /\ ClosedOwnNothing
  /\ Targeted
  /\ Unheard
  /\ EventLoop
  /\ AnsweredOnce
  /\ Answerable
  /\ OneAnswerInTime

-----------------------------------------------------------------------------
(* What route returns by itself is no answer of a window. *)
LEMMA OutcomeIsNoAnswer ==
  /\ \A why \in {"refused", "timeout", "undelivered"} :
       /\ Outcome(why) \notin Answer
       /\ Outcome(why) # None
       /\ Outcome(why) \in Outcomes
  /\ Outcome("timeout") # Outcome("undelivered")
  /\ Outcome("refused") # Outcome("undelivered")
  /\ Outcome("refused") # Outcome("timeout")
  /\ None \notin Answer
<1>1. ASSUME NEW why \in {"refused", "timeout", "undelivered"}
      PROVE  Outcome(why) \notin Answer /\ Outcome(why) \in Outcomes
  BY DEF Outcome, Outcomes, Answer
<1>2. Outcome("timeout").value # Outcome("undelivered").value
      /\ Outcome("refused").value # Outcome("undelivered").value
      /\ Outcome("refused").value # Outcome("timeout").value
  BY DEF Outcome
<1> QED
  BY <1>1, <1>2, NoneAssumption

LEMMA RouteTooLongKeeps ==
  ASSUME RouterInv, NEW r \in Request, RouteTooLong(r)
  PROVE  RouterInv'
<1> USE DEF RouterInv, RouteTooLong, routeVars
<1>1. RouterTyped'
  BY OutcomeIsNoAnswer DEF RouterTyped, Stages, Results, Idle
<1>2. ClosedOwnNothing'
  BY DEF ClosedOwnNothing
<1>3. Targeted'
  BY OutcomeIsNoAnswer DEF RouterTyped, Targeted, Waiting
<1>4. Unheard'
  BY DEF Unheard
<1>5. EventLoop'
  BY DEF EventLoop
<1>6. AnsweredOnce'
  BY OutcomeIsNoAnswer DEF AnsweredOnce
<1>7. Answerable'
  BY DEF Answerable
<1>8. OneAnswerInTime'
  BY DEF OneAnswerInTime
<1> QED
  BY <1>1, <1>2, <1>3, <1>4, <1>5, <1>6, <1>7, <1>8

LEMMA RouteTargetKeeps ==
  ASSUME RouterInv, NEW r \in Request, NEW a \in Asked, RouteTarget(r, a)
  PROVE  RouterInv'
<1> USE DEF RouterInv, RouteTarget, routeVars
<1>1. RouterTyped'
  <2>1. target' \in [Request -> Window \cup {None}]
    BY DEF RouterTyped
  <2>2. route' \in [Request -> Stages]
    BY DEF RouterTyped, Stages
  <2>3. answer' \in [Request -> Answer \cup Outcomes \cup {None}]
    BY OutcomeIsNoAnswer DEF RouterTyped
  <2> QED
    BY <2>1, <2>2, <2>3 DEF RouterTyped
<1>2. ClosedOwnNothing'
  BY DEF ClosedOwnNothing
<1>3. Targeted'
  BY OutcomeIsNoAnswer DEF RouterTyped, Targeted, Waiting
<1>4. Unheard'
  BY DEF RouterTyped, Unheard
<1>5. EventLoop'
  BY DEF RouterTyped, EventLoop, Targeted, Unheard, Stages, Results, Idle
<1>6. AnsweredOnce'
  BY DEF RouterTyped, AnsweredOnce, Targeted, Waiting
<1>7. Answerable'
  BY DEF RouterTyped, Answerable
<1>8. OneAnswerInTime'
  BY DEF RouterTyped, OneAnswerInTime
<1> QED
  BY <1>1, <1>2, <1>3, <1>4, <1>5, <1>6, <1>7, <1>8

LEMMA RouteInsertKeeps ==
  ASSUME RouterInv, NEW r \in Request, RouteInsert(r)
  PROVE  RouterInv'
<1> USE DEF RouterInv, RouteInsert, routeVars
<1>1. RouterTyped'
  BY DEF RouterTyped, Stages, Results, Idle
<1>2. ClosedOwnNothing'
  BY DEF ClosedOwnNothing
<1>3. Targeted'
  BY DEF RouterTyped, Targeted, Waiting
<1>4. Unheard'
  BY DEF Unheard
<1>5. EventLoop'
  BY DEF EventLoop, RouterTyped, Targeted, LockFree, Idle
<1>6. AnsweredOnce'
  BY OutcomeIsNoAnswer DEF RouterTyped, AnsweredOnce, Targeted, Waiting
<1>7. Answerable'
  BY NoneAssumption, RouterAssumption, OutcomeIsNoAnswer DEF RouterTyped, Answerable, Targeted
<1>8. OneAnswerInTime'
  BY DEF OneAnswerInTime
<1> QED
  BY <1>1, <1>2, <1>3, <1>4, <1>5, <1>6, <1>7, <1>8

LEMMA RouteEmitKeeps ==
  ASSUME RouterInv, NEW r \in Request, RouteEmit(r)
  PROVE  RouterInv'
<1> USE DEF RouterInv, RouteEmit, routeVars
<1>1. RouterTyped'
  <2>1. script' \in [Window -> [Request -> Results \cup {"none", "told", "failed", "done"}]]
    BY DEF RouterTyped
  <2>2. answer' \in [Request -> Answer \cup Outcomes \cup {None}]
    BY OutcomeIsNoAnswer DEF RouterTyped
  <2>3. route' \in [Request -> Stages]
    BY DEF RouterTyped, Stages
  <2> QED
    BY <2>1, <2>2, <2>3 DEF RouterTyped
<1>2. ClosedOwnNothing'
  BY DEF ClosedOwnNothing
<1>3. Targeted'
  BY OutcomeIsNoAnswer DEF RouterTyped, Targeted, Waiting
<1>4. Unheard'
  BY OutcomeIsNoAnswer DEF RouterTyped, Unheard, Targeted
<1>5. EventLoop'
  BY DEF RouterTyped, EventLoop, Targeted, Unheard, Stages, Results, Idle
<1>6. AnsweredOnce'
  BY OutcomeIsNoAnswer DEF RouterTyped, AnsweredOnce, Targeted, Unheard
<1>7. Answerable'
  BY DEF RouterTyped, Answerable
<1>8. OneAnswerInTime'
  BY DEF RouterTyped, OneAnswerInTime, Targeted, Unheard, AnsweredOnce
<1> QED
  BY <1>1, <1>2, <1>3, <1>4, <1>5, <1>6, <1>7, <1>8

LEMMA RouteReceiveKeeps ==
  ASSUME RouterInv, NEW r \in Request, RouteReceive(r)
  PROVE  RouterInv'
<1> USE DEF RouterInv, RouteReceive, routeVars
<1>1. RouterTyped'
  BY DEF RouterTyped, Stages, Results, Idle
<1>2. ClosedOwnNothing'
  BY DEF ClosedOwnNothing
<1>3. Targeted'
  BY OutcomeIsNoAnswer DEF RouterTyped, Targeted, Waiting
<1>4. Unheard'
  BY OutcomeIsNoAnswer DEF RouterTyped, Unheard
<1>5. EventLoop'
  BY DEF EventLoop
<1>6. AnsweredOnce'
  BY DEF AnsweredOnce
<1>7. Answerable'
  BY DEF RouterTyped, Answerable
<1>8. OneAnswerInTime'
  BY DEF RouterTyped, OneAnswerInTime
<1> QED
  BY <1>1, <1>2, <1>3, <1>4, <1>5, <1>6, <1>7, <1>8

LEMMA RouteTimeoutKeeps ==
  ASSUME RouterInv, NEW r \in Request, RouteTimeout(r)
  PROVE  RouterInv'
<1> USE DEF RouterInv, RouteTimeout, routeVars
<1>1. RouterTyped'
  BY OutcomeIsNoAnswer DEF RouterTyped, Stages, Results, Idle
<1>2. ClosedOwnNothing'
  BY DEF ClosedOwnNothing
<1>3. Targeted'
  BY OutcomeIsNoAnswer DEF RouterTyped, Targeted, Waiting
<1>4. Unheard'
  BY OutcomeIsNoAnswer DEF Unheard
<1>5. EventLoop'
  BY DEF EventLoop
<1>6. AnsweredOnce'
  BY OutcomeIsNoAnswer DEF AnsweredOnce
<1>7. Answerable'
  BY DEF Answerable
<1>8. OneAnswerInTime'
  BY DEF OneAnswerInTime
<1> QED
  BY <1>1, <1>2, <1>3, <1>4, <1>5, <1>6, <1>7, <1>8

LEMMA RouteRemoveKeeps ==
  ASSUME RouterInv, NEW r \in Request, RouteRemove(r)
  PROVE  RouterInv'
<1> USE DEF RouterInv, RouteRemove, routeVars
<1>1. RouterTyped'
  BY DEF RouterTyped, Stages, Results, Idle
<1>2. ClosedOwnNothing'
  BY DEF ClosedOwnNothing
<1>3. Targeted'
  BY DEF RouterTyped, Targeted, Waiting
<1>4. Unheard'
  BY DEF Unheard
<1>5. EventLoop'
  BY DEF EventLoop, RouterTyped, Targeted, LockFree, Idle
<1>6. AnsweredOnce'
  BY DEF AnsweredOnce
<1>7. Answerable'
  BY DEF Answerable
<1>8. OneAnswerInTime'
  BY DEF OneAnswerInTime
<1> QED
  BY <1>1, <1>2, <1>3, <1>4, <1>5, <1>6, <1>7, <1>8

LEMMA ScriptPerformsKeeps ==
  ASSUME RouterInv, NEW w \in Window, NEW r \in Request, ScriptPerforms(w, r)
  PROVE  RouterInv'
<1> USE DEF RouterInv, ScriptPerforms, routeVars
<1>1. RouterTyped'
  <2>1. PICK step \in Results \cup {"failed"} : script' = [script EXCEPT ![w][r] = step]
    BY DEF Results
  <2>2. script' \in [Window -> [Request -> Results \cup {"none", "told", "failed", "done"}]]
    BY <2>1 DEF RouterTyped
  <2> QED
    BY <2>2 DEF RouterTyped
<1>2. ClosedOwnNothing'
  BY DEF ClosedOwnNothing
<1>3. Targeted'
  BY DEF Targeted, Waiting
<1>4. Unheard'
  BY DEF RouterTyped, Unheard, Results
<1>5. EventLoop'
  BY DEF RouterTyped, EventLoop, AnsweredOnce, Stages, Results, Idle
<1>6. AnsweredOnce'
  BY DEF RouterTyped, AnsweredOnce, Targeted
<1>7. Answerable'
  BY DEF Answerable
<1>8. OneAnswerInTime'
  BY DEF OneAnswerInTime
<1> QED
  BY <1>1, <1>2, <1>3, <1>4, <1>5, <1>6, <1>7, <1>8

LEMMA AcknowledgeLookupKeeps ==
  ASSUME RouterInv, NEW w \in Window, NEW r \in Request, AcknowledgeLookup(w, r)
  PROVE  RouterInv'
<1> USE DEF RouterInv, AcknowledgeLookup, routeVars
<1>1. RouterTyped'
  <2>1. CASE MayAcknowledge(w, r)
    <3>1. main' \in [op : {"send"}, window : Window, request : Request, value : {"ok", "error"}]
      BY <2>1
    <3> QED
      BY <2>1, <3>1 DEF RouterTyped
  <2>2. CASE ~MayAcknowledge(w, r)
    <3>1. script' \in [Window -> [Request -> Results \cup {"none", "told", "failed", "done"}]]
      BY <2>2 DEF RouterTyped, AfterRejection
    <3> QED
      BY <2>2, <3>1 DEF RouterTyped
  <2> QED
    BY <2>1, <2>2
<1>2. ClosedOwnNothing'
  BY DEF ClosedOwnNothing, MayAcknowledge, AfterRejection
<1>3. Targeted'
  BY DEF Targeted, Waiting, MayAcknowledge, AfterRejection
<1>4. Unheard'
  BY DEF RouterTyped, Unheard, Results, MayAcknowledge, AfterRejection
<1>5. EventLoop'
  BY NoneAssumption, RouterAssumption, OutcomeIsNoAnswer DEF RouterTyped, EventLoop, Targeted, Stages, Results, Idle, MayAcknowledge, AfterRejection
<1>6. AnsweredOnce'
  BY DEF RouterTyped, AnsweredOnce, Targeted, MayAcknowledge, AfterRejection
<1>7. Answerable'
  BY DEF Answerable, MayAcknowledge, AfterRejection
<1>8. OneAnswerInTime'
  BY DEF OneAnswerInTime, MayAcknowledge, AfterRejection
<1> QED
  BY <1>1, <1>2, <1>3, <1>4, <1>5, <1>6, <1>7, <1>8

LEMMA AcknowledgeSendKeeps ==
  ASSUME RouterInv, AcknowledgeSend
  PROVE  RouterInv'
<1> USE DEF RouterInv, AcknowledgeSend, routeVars
<1>1. RouterTyped'
  <2>1. main.window \in Window /\ main.request \in Request /\ main.value \in {"ok", "error"}
    BY DEF RouterTyped, Idle
  <2>2. channel' \in [Request -> Answer \cup {None}]
    BY <2>1 DEF RouterTyped, Answer
  <2>3. PICK step \in {"failed", "done"} :
          script' = [script EXCEPT ![main.window][main.request] = step]
    BY DEF AfterAcceptance, AfterRejection
  <2>4. script' \in [Window -> [Request -> Results \cup {"none", "told", "failed", "done"}]]
    BY <2>1, <2>3 DEF RouterTyped
  <2> QED
    BY <2>1, <2>2, <2>4 DEF RouterTyped, Idle
<1>2. ClosedOwnNothing'
  BY DEF ClosedOwnNothing, AfterRejection, AfterAcceptance, ReceiverAlive
<1>3. Targeted'
  BY DEF RouterTyped, Targeted, Unheard, EventLoop, AnsweredOnce, Stages, Results, Idle, Waiting, AfterRejection, AfterAcceptance, ReceiverAlive, Answer
<1>4. Unheard'
  BY OutcomeIsNoAnswer DEF RouterTyped, Unheard, EventLoop, AnsweredOnce, Results, AfterRejection, AfterAcceptance, ReceiverAlive
<1>5. EventLoop'
  BY DEF EventLoop, Stages, Results, Idle, AfterRejection, AfterAcceptance, ReceiverAlive
<1>6. AnsweredOnce'
  BY DEF RouterTyped, AnsweredOnce, Targeted, EventLoop, Waiting, AfterRejection, AfterAcceptance, ReceiverAlive
<1>7. Answerable'
  BY DEF RouterTyped, Answerable, AfterRejection, AfterAcceptance, ReceiverAlive
<1>8. OneAnswerInTime'
  <2> DEFINE r == main.request
  <2>1. r \in Request /\ main.window = target[r] /\ target[r] \in Window
    BY DEF RouterTyped, EventLoop, Idle
  <2>2. \A s \in Request : s # r => channel'[s] = channel[s]
    BY <2>1 DEF RouterTyped
  <2>3. pending[r] # None => answer[r] \notin Answer
    BY <2>1 DEF EventLoop, AnsweredOnce, Results
  <2>4. answer[r] # Outcome("undelivered")
    BY <2>1 DEF EventLoop, Unheard, Results
  <2>5. route[r] = "remove" => answer[r] \in Answer \cup Outcomes /\ answer[r] # Outcome("refused")
    BY <2>1 DEF RouterTyped, Targeted
  <2>6. \A o \in Outcomes : o \in {Outcome("refused"), Outcome("timeout"), Outcome("undelivered")}
    BY DEF Outcomes, Outcome
  <2>7. pending[r] # None /\ route[r] = "remove" => answer[r] = Outcome("timeout")
    BY <2>3, <2>4, <2>5, <2>6
  <2>8. \A s \in Request :
          route[s] = "remove" /\ pending[s] # None /\ channel'[s] # None => answer[s] = Outcome("timeout")
    BY <2>2, <2>7 DEF OneAnswerInTime
  <2> QED
    BY <2>8 DEF OneAnswerInTime
<1> QED
  BY <1>1, <1>2, <1>3, <1>4, <1>5, <1>6, <1>7, <1>8

LEMMA RegisterKeeps ==
  ASSUME RouterInv, NEW w \in Window, Register(w)
  PROVE  RouterInv'
<1> USE DEF RouterInv, Register, routeVars
<1>1. RouterTyped'
  <2>1. PICK things \in SUBSET Knows[w] : snapshot' = [snapshot EXCEPT ![w] = things]
    OBVIOUS
  <2>2. things \in SUBSET Thing
    BY RouterAssumption
  <2> QED
    BY <2>1, <2>2 DEF RouterTyped
<1>2. ClosedOwnNothing'
  BY DEF ClosedOwnNothing
<1>3. Targeted'
  BY DEF Targeted, Waiting
<1>4. Unheard'
  BY DEF Unheard
<1>5. EventLoop'
  BY DEF EventLoop
<1>6. AnsweredOnce'
  BY DEF AnsweredOnce
<1>7. Answerable'
  BY DEF Answerable
<1>8. OneAnswerInTime'
  BY DEF OneAnswerInTime
<1> QED
  BY <1>1, <1>2, <1>3, <1>4, <1>5, <1>6, <1>7, <1>8

LEMMA UnregisterWindowKeeps ==
  ASSUME RouterInv, NEW w \in Window, UnregisterWindow(w)
  PROVE  RouterInv'
<1> USE DEF RouterInv, UnregisterWindow, routeVars
<1>1. RouterTyped'
  BY DEF RouterTyped, Forgotten
<1>2. ClosedOwnNothing'
  BY DEF RouterTyped, ClosedOwnNothing, Forgotten
<1>3. Targeted'
  BY DEF Targeted, Waiting, Forgotten
<1>4. Unheard'
  BY DEF Unheard, Forgotten
<1>5. EventLoop'
  BY DEF EventLoop, Forgotten
<1>6. AnsweredOnce'
  BY DEF AnsweredOnce, Forgotten
<1>7. Answerable'
  BY DEF Answerable, Forgotten
<1>8. OneAnswerInTime'
  BY DEF OneAnswerInTime, Forgotten
<1> QED
  BY <1>1, <1>2, <1>3, <1>4, <1>5, <1>6, <1>7, <1>8

LEMMA UnregisterAnswerKeeps ==
  ASSUME RouterInv, NEW r \in Request, UnregisterAnswer(r)
  PROVE  RouterInv'
<1> USE DEF RouterInv, UnregisterAnswer, routeVars
<1>1. RouterTyped'
  <2>1. main \in [op : {"unregister"}, window : Window, left : SUBSET Request]
    BY DEF RouterTyped, Idle
  <2>2. main' \in [op : {"unregister"}, window : Window, left : SUBSET Request]
    BY <2>1
  <2>3. Unavailable(main.window) \in Answer
    BY <2>1 DEF Answer, Unavailable
  <2>4. channel' \in [Request -> Answer \cup {None}]
    BY <2>3 DEF RouterTyped
  <2> QED
    BY <2>2, <2>4 DEF RouterTyped
<1>2. ClosedOwnNothing'
  BY DEF ClosedOwnNothing, ReceiverAlive, Unavailable
<1>3. Targeted'
  BY NoneAssumption, RouterAssumption, OutcomeIsNoAnswer DEF RouterTyped, Targeted, EventLoop, Stages, Results, Idle, Waiting, ReceiverAlive, Unavailable, Answer
<1>4. Unheard'
  BY DEF Unheard, ReceiverAlive, Unavailable
<1>5. EventLoop'
  BY DEF EventLoop, ReceiverAlive, Unavailable
<1>6. AnsweredOnce'
  BY DEF RouterTyped, AnsweredOnce, ReceiverAlive, Unavailable
<1>7. Answerable'
  BY NoneAssumption, OutcomeIsNoAnswer, RouterAssumption DEF Answerable, RouterTyped, Targeted, EventLoop, Waiting, ReceiverAlive, Unavailable, Idle, Answer
<1>8. OneAnswerInTime'
  BY DEF RouterTyped, OneAnswerInTime, ReceiverAlive, Unavailable
<1> QED
  BY <1>1, <1>2, <1>3, <1>4, <1>5, <1>6, <1>7, <1>8

LEMMA UnregisterDoneKeeps ==
  ASSUME RouterInv, UnregisterDone
  PROVE  RouterInv'
<1> USE DEF RouterInv, UnregisterDone, routeVars
<1>1. RouterTyped'
  BY DEF RouterTyped
<1>2. ClosedOwnNothing'
  BY DEF ClosedOwnNothing
<1>3. Targeted'
  BY DEF Targeted, Waiting
<1>4. Unheard'
  BY DEF Unheard
<1>5. EventLoop'
  BY DEF EventLoop, Stages, Results, Idle
<1>6. AnsweredOnce'
  BY DEF AnsweredOnce
<1>7. Answerable'
  BY DEF Answerable
<1>8. OneAnswerInTime'
  BY DEF OneAnswerInTime
<1> QED
  BY <1>1, <1>2, <1>3, <1>4, <1>5, <1>6, <1>7, <1>8

-----------------------------------------------------------------------------
LEMMA InitEstablishes == Init => RouterInv
<1> SUFFICES ASSUME Init PROVE RouterInv
  OBVIOUS
<1> USE DEF Init
<1>1. RouterTyped
  BY DEF RouterTyped, Stages, Idle
<1>2. ClosedOwnNothing /\ EventLoop
  BY DEF ClosedOwnNothing, EventLoop, Idle
<1>3. Targeted /\ AnsweredOnce /\ OneAnswerInTime
  BY OutcomeIsNoAnswer DEF Targeted, AnsweredOnce, OneAnswerInTime
<1>4. Unheard
  BY DEF Unheard
<1>5. Answerable
  BY DEF Answerable
<1> QED
  BY <1>1, <1>2, <1>3, <1>4, <1>5 DEF RouterInv

LEMMA StutterKeeps == RouterInv /\ UNCHANGED vars => RouterInv'
<1> SUFFICES ASSUME RouterInv, UNCHANGED vars PROVE RouterInv'
  OBVIOUS
<1>1. /\ UNCHANGED <<snapshot, closed, asks, target, route, answer>>
      /\ UNCHANGED <<pending, channel, script, main>>
  BY DEF vars, routeVars
<1>2. RouterTyped' /\ ClosedOwnNothing' /\ EventLoop'
  BY <1>1 DEF RouterInv, RouterTyped, ClosedOwnNothing, EventLoop
<1>3. Targeted' /\ AnsweredOnce' /\ OneAnswerInTime'
  BY <1>1 DEF RouterInv, Targeted, Waiting, AnsweredOnce, OneAnswerInTime
<1>4. Unheard' /\ Answerable'
  BY <1>1 DEF RouterInv, Unheard, Answerable
<1> QED
  BY <1>2, <1>3, <1>4 DEF RouterInv

LEMMA NextKeeps == RouterInv /\ [Next]_vars => RouterInv'
<1> SUFFICES ASSUME RouterInv, [Next]_vars PROVE RouterInv'
  OBVIOUS
<1>1. ASSUME NEW r \in Request, RouteStep(r) \/ RouteTooLong(r)
      PROVE  RouterInv'
  BY <1>1, RouteInsertKeeps, RouteEmitKeeps, RouteReceiveKeeps, RouteTimeoutKeeps,
     RouteRemoveKeeps, RouteTooLongKeeps DEF RouteStep
<1>2. ASSUME NEW r \in Request, NEW a \in Asked, RouteTarget(r, a)
      PROVE  RouterInv'
  BY <1>2, RouteTargetKeeps
<1>3. ASSUME NEW w \in Window, NEW r \in Request, ScriptPerforms(w, r) \/ AcknowledgeLookup(w, r)
      PROVE  RouterInv'
  BY <1>3, ScriptPerformsKeeps, AcknowledgeLookupKeeps
<1>4. ASSUME NEW w \in Window, Register(w) \/ UnregisterWindow(w)
      PROVE  RouterInv'
  BY <1>4, RegisterKeeps, UnregisterWindowKeeps
<1>5. CASE MainStep
  BY <1>5, AcknowledgeSendKeeps, UnregisterDoneKeeps, UnregisterAnswerKeeps DEF MainStep
<1> QED
  BY <1>1, <1>2, <1>3, <1>4, <1>5, StutterKeeps DEF Next

-----------------------------------------------------------------------------
(* The bookkeeping of the router, workspace_router.rs: entries, messages,     *)
(* answers and acknowledgements always agree on who was asked.                *)
THEOREM RouterInvariant == Spec => []RouterInv
<1>1. Init => RouterInv
  BY InitEstablishes
<1>2. RouterInv /\ [Next]_vars => RouterInv'
  BY NextKeeps
<1> QED
  BY <1>1, <1>2, PTL DEF Spec

(* No window answers for another: what route returns to a client was sent by  *)
(* the window it was routed to, whoever else acknowledges and whichever       *)
(* windows come and go meanwhile (acknowledge, unregister_window).            *)
THEOREM AnswerCorrect == Spec => []AnsweredByTarget
<1>1. RouterInv => AnsweredByTarget
  BY DEF RouterInv, Targeted, AnsweredByTarget
<1> QED
  BY <1>1, RouterInvariant, PTL

(* A route that waits can still be answered: its entry or a message exists     *)
(* until it returns, and a window that is gone owns nothing.                   *)
THEOREM AnswerableCorrect == Spec => []AlwaysAnswerable
<1>1. RouterInv => AlwaysAnswerable
  BY DEF RouterInv, ClosedOwnNothing, Targeted, Answerable, AlwaysAnswerable
<1> QED
  BY <1>1, RouterInvariant, PTL

(* The slot of a channel is free for the only answer that comes in time, so    *)
(* that unregister_window waits with the lock only for a route that timed out. *)
THEOREM OneAnswerCorrect == Spec => []OneAnswerInTime
<1>1. RouterInv => OneAnswerInTime
  BY DEF RouterInv
<1> QED
  BY <1>1, RouterInvariant, PTL

-----------------------------------------------------------------------------
(* What a request is about *)

(* The fields of a request, None being no thing.                              *)
LEMMA ActionFields ==
  ASSUME NEW a \in WorkspaceAction, NEW things \in SUBSET Thing
  PROVE  /\ a.resource \in TerminalResources \cup ItemResources
         /\ a.action \in {"list", "create"} \cup OfOneThing
         /\ None \notin things
<1>1. None \notin Thing
  BY ActionAssumption DEF Thing
<1> QED
  BY <1>1 DEF WorkspaceAction

(* A window that carries a request out has the thing it was routed by.        *)
LEMMA PerformedHasSubject ==
  ASSUME NEW a \in WorkspaceAction, NEW things \in SUBSET Thing,
         Parsed(a), ~Mixed(a), Dispatched(a, things) = "performed"
  PROVE  Names(a) \in things
<1>1. None \notin things
  BY ActionFields
<1>2. a.parent # None => a.id = None /\ a.project = None
  BY DEF Mixed
<1>3. CASE a.action = "list"
  BY <1>3 DEF Dispatched, Lists, OneTerminal, OfOneThing
<1>4. CASE a.action = "create"
  <2>1. a.project \in things \/ a.parent \in things
    BY <1>4 DEF Dispatched, Creates, OneTerminal, OfOneThing
  <2>2. ~OneTerminal(a)
    BY <1>4 DEF OneTerminal, OfOneThing
  <2>3. CASE a.parent # None
    BY <1>1, <1>2, <2>1, <2>3 DEF Names
  <2>4. CASE a.parent = None
    BY <1>1, <2>1, <2>2, <2>4 DEF Names
  <2> QED
    BY <2>3, <2>4
<1>5. CASE a.action \in OfOneThing
  <2>1. a.id # None /\ a.parent = None
    BY <1>2, <1>5 DEF Parsed
  <2>2. a.action # "list" /\ a.action # "create"
    BY <1>5 DEF OfOneThing
  <2>3. CASE OneTerminal(a)
    <3>1. OnTerminal(a, things) = "performed"
      BY <2>2, <2>3 DEF Dispatched
    <3> QED
      BY <2>1, <2>3, <3>1 DEF OnTerminal, Names
  <2>4. CASE ~OneTerminal(a)
    <3>1. OnItem(a, things) = "performed"
      BY <2>2, <2>4 DEF Dispatched
    <3> QED
      BY <2>1, <2>4, <3>1 DEF OnItem, Names
  <2> QED
    BY <2>3, <2>4
<1> QED
  BY <1>3, <1>4, <1>5, ActionFields

(* A window that has it misses nothing, but the parent nobody gave.           *)
LEMMA SubjectIsFound ==
  ASSUME NEW a \in WorkspaceAction, NEW things \in SUBSET Thing,
         Parsed(a), ~Mixed(a), Names(a) \in things, Dispatched(a, things) \in Missing
  PROVE  a.action = "create" /\ a.resource = "subterminals" /\ a.parent = None
<1>1. None \notin things
  BY ActionFields
<1>2. a.parent # None => a.id = None /\ a.project = None
  BY DEF Mixed
<1>3. CASE a.action = "list"
  BY <1>3 DEF Dispatched, Lists, Missing, OneTerminal, OfOneThing
<1>4. CASE a.action = "create"
  <2>1. ~OneTerminal(a)
    BY <1>4 DEF OneTerminal, OfOneThing
  <2>2. CASE a.parent # None
    <3>1. Names(a) = a.parent
      BY <2>2 DEF Names
    <3> QED
      BY <1>4, <3>1 DEF Dispatched, Creates, Missing, OneTerminal, OfOneThing
  <2>3. CASE a.parent = None
    <3>1. Names(a) = a.project
      BY <2>1, <2>3 DEF Names
    <3> QED
      BY <1>4, <2>3, <3>1 DEF Dispatched, Creates, Missing, OneTerminal, OfOneThing
  <2> QED
    BY <2>2, <2>3
<1>5. CASE a.action \in OfOneThing
  <2>1. a.id # None /\ a.parent = None
    BY <1>2, <1>5 DEF Parsed
  <2>2. a.action # "list" /\ a.action # "create"
    BY <1>5 DEF OfOneThing
  <2>3. CASE OneTerminal(a)
    <3>1. Names(a) = a.id /\ OnTerminal(a, things) \in Missing
      BY <2>1, <2>2, <2>3 DEF Dispatched, Names
    <3> QED
      BY <3>1 DEF OnTerminal, Missing
  <2>4. CASE ~OneTerminal(a)
    <3>1. OnItem(a, things) \in Missing
      BY <2>2, <2>4 DEF Dispatched
    <3> QED
      BY <3>1 DEF OnItem, Missing
  <2> QED
    BY <2>3, <2>4
<1> QED
  BY <1>3, <1>4, <1>5, ActionFields

(* Workspace requests: WorkspaceRouter::target and the dispatch of            *)
(* workspaceControl.ts agree on what a request is about, whatever terminals,  *)
(* projects and items there are: a window that carries a request out has what *)
(* it was routed by, and one that has it does not answer that it is missing.  *)
THEOREM RoutedCorrect == Spec => []RoutedAsPerformed
<1>1. SameSubject
  BY PerformedHasSubject, SubjectIsFound DEF SameSubject
<1>2. RoutedAsPerformed
  BY <1>1 DEF RoutedAsPerformed
<1> QED
  BY <1>2, PTL
=============================================================================
