--------------------------- MODULE WorkspaceRouter ---------------------------
(***************************************************************************)
(* Routing of workspace requests, src-tauri/src/workspace_router.rs, with  *)
(* the scripts that answer them, src/services/workspaceControl.ts.         *)
(*                                                                         *)
(* Control-server threads run route: find the window that owns what the    *)
(* request names, store a pending entry with a one-slot channel, emit the  *)
(* event, wait with a timeout, remove the entry.  The event loop runs      *)
(* everything else, one at a time: registrations, acknowledgements and the *)
(* destruction of windows.  One mutex guards the snapshots and the pending *)
(* entries; unregister_window is the only operation that keeps it while it *)
(* may block.                                                              *)
(*                                                                         *)
(* An operator whose comment starts with "Slip" is a plausible mistake in  *)
(* the definition below it; no specification uses it.                      *)
(***************************************************************************)
EXTENDS WorkspaceActions, FiniteSets

CONSTANTS
  Window,    \* window labels
  Request,   \* request ids
  Asked,     \* what clients ask for
  Knows      \* Knows[w]: the things the script of window w has loaded

ASSUME RouterAssumption ==
  /\ \A a \in Asked : a \in WorkspaceAction /\ Parsed(a)
  /\ Knows \in [Window -> SUBSET Thing]
  /\ \A w \in Window : Loadable(Knows[w])
  /\ None \notin Window

Answer == [from : Window, value : {"ok", "error", "unavailable"}]
Outcome(why) == [value |-> why]
Outcomes == [value : {"refused", "timeout", "undelivered"}]

Idle == [op |-> "idle"]

ASSUME NoneAssumption ==
  /\ \A things \in SUBSET Thing : None # things
  /\ \A a \in Answer : None # a
  /\ None \notin Outcomes

VARIABLES
  snapshot,   \* RouterState::windows
  closed,     \* windows that have been destroyed
  asks,       \* what each request asks for
  target,     \* route's window_label
  route,      \* where each route call is
  answer,     \* what its recv_timeout or an early error gave it
  pending,    \* RouterState::pending: the window each entry waits for
  channel,    \* the message in each request's channel
  script,     \* where each window's handler of each event is
  main        \* what the event loop is doing: op "idle", "send" (an acknowledgement)
              \* or "unregister"

routeVars == <<asks, target, route, answer>>
vars == <<snapshot, closed, routeVars, pending, channel, script, main>>

Results == {"performed", "read"}

ReceiverAlive(r) == route[r] \notin {"none", "returned"}

Init ==
  /\ snapshot = [w \in Window |-> None]
  /\ closed = {}
  /\ asks = [r \in Request |-> None]
  /\ target = [r \in Request |-> None]
  /\ route = [r \in Request |-> "none"]
  /\ answer = [r \in Request |-> None]
  /\ pending = [r \in Request |-> None]
  /\ channel = [r \in Request |-> None]
  /\ script = [w \in Window |-> [r \in Request |-> "none"]]
  /\ main = Idle

LockFree == main.op # "unregister"

-----------------------------------------------------------------------------
(* WorkspaceRouter::route *)

(* target: the windows that registered the thing, all of them for a request *)
(* that names nothing.                                                      *)
Owners(thing) ==
  {w \in Window : snapshot[w] # None /\ (thing = None \/ thing \in snapshot[w])}

UniqueOwner(owners, w) == owners = {w}

(* A timeout above MAX_WAIT_MS is refused before anything is looked up. *)
RouteTooLong(r) ==
  /\ route[r] = "none"
  /\ route' = [route EXCEPT ![r] = "returned"]
  /\ answer' = [answer EXCEPT ![r] = Outcome("refused")]
  /\ UNCHANGED <<snapshot, closed, asks, target, pending, channel, script, main>>

RouteTarget(r, a) ==
  /\ LockFree
  /\ route[r] = "none"
  /\ asks' = [asks EXCEPT ![r] = a]
  /\ \/ \E w \in Window :
          /\ UniqueOwner(Owners(Names(a)), w)
          /\ target' = [target EXCEPT ![r] = w]
          /\ route' = [route EXCEPT ![r] = "insert"]
          /\ UNCHANGED answer
     \/ /\ \A w \in Window : ~UniqueOwner(Owners(Names(a)), w)
        /\ route' = [route EXCEPT ![r] = "returned"]
        /\ answer' = [answer EXCEPT ![r] = Outcome("refused")]
        /\ UNCHANGED target
  /\ UNCHANGED <<snapshot, closed, pending, channel, script, main>>

RouteInsert(r) ==
  /\ LockFree
  /\ route[r] = "insert"
  /\ route' = [route EXCEPT ![r] = "emit"]
  /\ pending' = [pending EXCEPT ![r] = target[r]]
  /\ UNCHANGED <<snapshot, closed, asks, target, answer, channel, script, main>>

(* Emitter::emit reaches the listeners of every window; emitting fails when  *)
(* the window is gone.                                                       *)
RouteEmit(r) ==
  /\ route[r] = "emit"
  /\ \/ /\ route' = [route EXCEPT ![r] = "recv"]
        /\ script' = [w \in Window |-> IF w \in closed THEN script[w]
                                       ELSE [script[w] EXCEPT ![r] = "told"]]
        /\ UNCHANGED answer
     \/ /\ target[r] \in closed
        /\ route' = [route EXCEPT ![r] = "remove"]
        /\ answer' = [answer EXCEPT ![r] = Outcome("undelivered")]
        /\ UNCHANGED script
  /\ UNCHANGED <<snapshot, closed, asks, target, pending, channel, main>>

RouteReceive(r) ==
  /\ route[r] = "recv"
  /\ channel[r] # None
  /\ route' = [route EXCEPT ![r] = "remove"]
  /\ answer' = [answer EXCEPT ![r] = channel[r]]
  /\ channel' = [channel EXCEPT ![r] = None]
  /\ UNCHANGED <<snapshot, closed, asks, target, pending, script, main>>

(* Slip: recv without a timeout returns only when every sender is dropped. *)
RouteRecvForever(r) ==
  /\ route[r] = "recv"
  /\ channel[r] = None /\ pending[r] = None
  /\ route' = [route EXCEPT ![r] = "remove"]
  /\ answer' = [answer EXCEPT ![r] = Outcome("timeout")]
  /\ UNCHANGED <<snapshot, closed, asks, target, pending, channel, script, main>>

(* The other error of recv_timeout, that the channel is closed, would need    *)
(* every sender to be dropped without a message: see AlwaysAnswerable.        *)
RouteTimeout(r) ==
  /\ route[r] = "recv"
  /\ channel[r] = None
  /\ route' = [route EXCEPT ![r] = "remove"]
  /\ answer' = [answer EXCEPT ![r] = Outcome("timeout")]
  /\ UNCHANGED <<snapshot, closed, asks, target, pending, channel, script, main>>

(* remove_pending, and the return that drops the receiver. *)
RouteRemove(r) ==
  /\ LockFree
  /\ route[r] = "remove"
  /\ route' = [route EXCEPT ![r] = "returned"]
  /\ pending' = [pending EXCEPT ![r] = None]
  /\ channel' = [channel EXCEPT ![r] = None]
  /\ UNCHANGED <<snapshot, closed, asks, target, answer, script, main>>

-----------------------------------------------------------------------------
(* The script of a window: dispatch the request, acknowledge the result; when *)
(* it is refused, or either fails, acknowledge the error.                     *)

ScriptPerforms(w, r) ==
  /\ w \notin closed
  /\ script[w][r] = "told"
  /\ LET outcome == Dispatched(asks[r], Knows[w]) IN
       \/ /\ outcome \in Results
          /\ script' = [script EXCEPT ![w][r] = outcome]
       \/ /\ outcome # "read"
          /\ script' = [script EXCEPT ![w][r] = "failed"]
  /\ UNCHANGED <<snapshot, closed, routeVars, pending, channel, main>>

AfterRejection(step) == IF step \in Results THEN "failed" ELSE "done"

(* Slip: the window of an acknowledgement is not compared. *)
MayAcknowledgeAny(w, r) == pending[r] # None

MayAcknowledge(w, r) == pending[r] = w

(* acknowledge clones the sender under the lock ... *)
AcknowledgeLookup(w, r) ==
  /\ main = Idle
  /\ w \notin closed
  /\ script[w][r] \in Results \cup {"failed"}
  /\ IF MayAcknowledge(w, r)
     THEN /\ main' = [op |-> "send", window |-> w, request |-> r,
                      value |-> IF script[w][r] \in Results THEN "ok" ELSE "error"]
          /\ UNCHANGED script
     ELSE /\ script' = [script EXCEPT ![w][r] = AfterRejection(@)]
          /\ UNCHANGED main
  /\ UNCHANGED <<snapshot, closed, routeVars, pending, channel>>

(* Slip: the script acknowledges once more after an accepted result. *)
AfterAcceptanceRetry(step) == AfterRejection(step)

AfterAcceptance(step) == "done"

(* ... and sends after the unlock: it waits for a free slot, and fails once   *)
(* the receiver is dropped.                                                   *)
AcknowledgeSend ==
  LET w == main.window
      r == main.request
  IN /\ main.op = "send"
     /\ \/ /\ ReceiverAlive(r) /\ channel[r] = None
           /\ channel' = [channel EXCEPT ![r] = [from |-> w, value |-> main.value]]
           /\ script' = [script EXCEPT ![w][r] = AfterAcceptance(@)]
        \/ /\ ~ReceiverAlive(r)
           /\ script' = [script EXCEPT ![w][r] = AfterRejection(@)]
           /\ UNCHANGED channel
     /\ main' = Idle
     /\ UNCHANGED <<snapshot, closed, routeVars, pending>>

-----------------------------------------------------------------------------
(* Registrations and destroyed windows *)

(* A script may have loaded less than all it will know. *)
Register(w) ==
  /\ main = Idle
  /\ w \notin closed
  /\ \E things \in SUBSET Knows[w] :
       Loadable(things) /\ snapshot' = [snapshot EXCEPT ![w] = things]
  /\ UNCHANGED <<closed, routeVars, pending, channel, script, main>>

Forgotten(w) == [snapshot EXCEPT ![w] = None]

(* unregister_window takes the lock, forgets the window ...                  *)
UnregisterWindow(w) ==
  /\ main = Idle
  /\ w \notin closed
  /\ closed' = closed \cup {w}
  /\ snapshot' = Forgotten(w)
  /\ main' = [op |-> "unregister", window |-> w,
              left |-> {r \in Request : pending[r] = w}]
  /\ UNCHANGED <<routeVars, pending, channel, script>>

Unavailable(w) == [from |-> w, value |-> "unavailable"]

(* Slip: the entries of the window are dropped without an answer. *)
UnregisterDrop(r) ==
  /\ main.op = "unregister"
  /\ r \in main.left
  /\ pending' = [pending EXCEPT ![r] = None]
  /\ main' = [main EXCEPT !.left = @ \ {r}]
  /\ UNCHANGED <<snapshot, closed, routeVars, channel, script>>

(* ... and answers each of its requests, waiting for a free slot.            *)
UnregisterAnswer(r) ==
  /\ main.op = "unregister"
  /\ r \in main.left
  /\ \/ ~ReceiverAlive(r) /\ UNCHANGED channel
     \/ /\ ReceiverAlive(r) /\ channel[r] = None
        /\ channel' = [channel EXCEPT ![r] = Unavailable(main.window)]
  /\ pending' = [pending EXCEPT ![r] = None]
  /\ main' = [main EXCEPT !.left = @ \ {r}]
  /\ UNCHANGED <<snapshot, closed, routeVars, script>>

UnregisterDone ==
  /\ main.op = "unregister"
  /\ main.left = {}
  /\ main' = Idle
  /\ UNCHANGED <<snapshot, closed, routeVars, pending, channel, script>>

-----------------------------------------------------------------------------
RouteStep(r) ==
  RouteInsert(r) \/ RouteEmit(r) \/ RouteReceive(r) \/ RouteTimeout(r) \/ RouteRemove(r)

MainStep ==
  AcknowledgeSend \/ UnregisterDone \/ \E r \in Request : UnregisterAnswer(r)

Next ==
  \/ \E r \in Request : RouteStep(r) \/ RouteTooLong(r)
  \/ \E r \in Request, a \in Asked : RouteTarget(r, a)
  \/ \E w \in Window, r \in Request : ScriptPerforms(w, r) \/ AcknowledgeLookup(w, r)
  \/ \E w \in Window : Register(w) \/ UnregisterWindow(w)
  \/ MainStep

Spec == Init /\ [][Next]_vars

(* Threads run, recv_timeout expires and the event loop finishes what it has  *)
(* begun.  No script is obliged to answer.                                    *)
FairSpec ==
  /\ Spec
  /\ \A r \in Request : WF_vars(RouteStep(r))
  /\ WF_vars(MainStep)

-----------------------------------------------------------------------------
(* Properties *)

(* The event loop waits, with the lock, for a route that waits for the lock.  *)
Stuck ==
  /\ main.op = "unregister"
  /\ \E r \in main.left : route[r] = "remove" /\ channel[r] # None

(* What a client is told was said by the window its request was routed to.    *)
AnsweredByTarget ==
  \A r \in Request : answer[r] \in Answer => answer[r].from = target[r]

(* While route waits, somebody holds a sender or has sent already: its wait   *)
(* never ends with a closed channel, also when the window is destroyed.  A     *)
(* window that is gone owns nothing, so that no request is routed to it.       *)
AlwaysAnswerable ==
  /\ \A w \in closed : snapshot[w] = None
  /\ \A r \in Request : route[r] = "recv" =>
       \/ pending[r] = target[r]
       \/ channel[r] # None
       \/ main.op = "send" /\ main.request = r

(* An entry that is still pending has a second message in its channel only    *)
(* when route gave up waiting: only a late answer can make unregister_window  *)
(* wait, with the lock, for a route.                                          *)
OneAnswerInTime ==
  \A r \in Request :
    route[r] = "remove" /\ pending[r] # None /\ channel[r] # None =>
      answer[r] = Outcome("timeout")

(* Every routed request returns, unless the event loop is stuck.              *)
RequestsReturn ==
  \A r \in Request : (route[r] = "insert") ~> (route[r] = "returned" \/ Stuck)

(* Whatever request may still come, the router that looks for its window and  *)
(* the scripts that carry it out agree on what it is about, although they     *)
(* read its fields in different orders (see SameSubject).                     *)
RoutedAsPerformed == \A r \in Request : route[r] = "none" => SameSubject

(* workspaceControl.ts: requests are bridged to the owning renderer; no other  *)
(* window carries them out.                                                   *)
OnlyOwnerPerforms ==
  \A w \in Window, r \in Request : script[w][r] = "performed" => w = target[r]
=============================================================================
