----------------------------- MODULE ControlServer -----------------------------
(***************************************************************************)
(* The control server of one application, src-tauri/src/control/server.rs, *)
(* with the dispatcher's shutdown (dispatch.rs) and the clients that talk  *)
(* to it (client.rs).                                                      *)
(*                                                                         *)
(* One listener thread accepts connections and hands each to a pool of     *)
(* worker threads, which it creates as they are needed.  A counter of      *)
(* active connections, read by the listener and lowered by the workers     *)
(* without a lock, decides whether a connection is refused.  A worker      *)
(* serves one connection until it ends.  Dropping the server raises two    *)
(* flags and joins the listener, which joins the workers.                  *)
(*                                                                         *)
(* A client sends one request and waits for one line, as request_at does;  *)
(* it may also send nothing, send something that is no request, and go     *)
(* away at any time.  What a request does is another module's subject:     *)
(* here it runs and ends.                                                  *)
(*                                                                         *)
(* An operator whose comment starts with "Slip" is a plausible mistake in  *)
(* the definition below it; no specification uses it.                      *)
(***************************************************************************)
EXTENDS ControlProtocol

CONSTANTS
  Client,        \* connections clients open, one each
  Kind,          \* kinds of requests they send, a subset of RequestKind
  Concurrency    \* start_at's concurrency

ASSUME ServerAssumption ==
  /\ Concurrency \in Nat \ {0}
  /\ Kind \subseteq RequestKind

Worker == 1 .. Concurrency

(* What can arrive on a connection.  "garbage" is a frame the dispatcher     *)
(* answers with an error before it looks at any state: no JSON, another      *)
(* protocol version, a limit out of range.                                   *)
Message == Kind \cup {"garbage", "oversize"}

NoConn == "none"
Serving == {"check", "read", "run", "finish"}

VARIABLES
  client,      \* where each client is: "idle", "open", "asked", "left"
  inbox,       \* what it has sent and nobody has read yet
  line,        \* the first line written to it, while it waits
  conn,        \* its connection, on the server's side
  listener,    \* the listener thread
  queue,       \* the channel from the listener to the workers
  worker,      \* the worker threads
  active,      \* active_connections
  shutdown,    \* ControlServer::shutdown
  cancelled,   \* ControlDispatcher::shutdown
  drop,        \* how far Drop has come
  performed    \* the clients that wait, and whose request has taken effect

vars == <<client, inbox, line, conn, listener, queue, worker, active, shutdown,
          cancelled, drop, performed>>

clientVars == <<client, inbox>>
dropVars == <<shutdown, cancelled, drop>>

NoWorker == [op |-> "absent", conn |-> NoConn, waits |-> FALSE]
IdleWorker == [NoWorker EXCEPT !.op = "idle"]
ListenerAt(op) == [op |-> op, conn |-> NoConn, seen |-> 0]

Created == {w \in Worker : worker[w].op # "absent"}
Idle == {w \in Worker : worker[w].op = "idle"}
Busy == {w \in Worker : worker[w].op \in Serving}
Backlog == {c \in Client : conn[c] = "backlog"}

(* start_at has bound the socket and started the listener. *)
Init ==
  /\ client = [c \in Client |-> "idle"]
  /\ inbox = [c \in Client |-> "empty"]
  /\ line = [c \in Client |-> "none"]
  /\ conn = [c \in Client |-> "none"]
  /\ listener = ListenerAt("accept")
  /\ queue = <<>>
  /\ worker = [w \in Worker |-> NoWorker]
  /\ active = 0
  /\ shutdown = FALSE /\ cancelled = FALSE /\ drop = "no"
  /\ performed = {}

-----------------------------------------------------------------------------
(* Clients *)

(* The listening socket stays open until run_listener returns, so the kernel *)
(* queues connections while the server shuts down.  A client whose last      *)
(* connection is over may call again.                                        *)
Connect(c) ==
  /\ \/ conn[c] = "none"
     \/ client[c] = "left" /\ conn[c] = "dropped"
  /\ listener.op # "ended"
  /\ client' = [client EXCEPT ![c] = "open"]
  /\ conn' = [conn EXCEPT ![c] = "backlog"]
  /\ inbox' = [inbox EXCEPT ![c] = "empty"]
  /\ UNCHANGED <<line, listener, queue, worker, active, dropVars, performed>>

Send(c, message) ==
  /\ client[c] = "open" /\ conn[c] # "dropped"
  /\ client' = [client EXCEPT ![c] = "asked"]
  /\ inbox' = [inbox EXCEPT ![c] = message]
  /\ UNCHANGED <<line, conn, listener, queue, worker, active, dropVars, performed>>

(* It has its line, or the end of the stream, or it gives up: after its own  *)
(* timeout, or because its process is killed.                                *)
Leave(c) ==
  /\ client[c] \in {"open", "asked"}
  /\ client' = [client EXCEPT ![c] = "left"]
  /\ line' = [line EXCEPT ![c] = "none"]
  /\ performed' = performed \ {c}
  /\ UNCHANGED <<inbox, conn, listener, queue, worker, active, dropVars>>

(* write_response: a client reads the first line only. *)
Write(c, l) ==
  line' = IF client[c] # "left" /\ line[c] = "none" THEN [line EXCEPT ![c] = l] ELSE line

-----------------------------------------------------------------------------
(* run_listener *)

(* accept, and the load of the counter *)
Accept(c) ==
  /\ listener.op = "accept" /\ ~shutdown /\ c \in Backlog
  /\ listener' = [op |-> "decide", conn |-> c, seen |-> active]
  /\ conn' = [conn EXCEPT ![c] = "accepted"]
  /\ UNCHANGED <<clientVars, line, queue, worker, active, dropVars, performed>>

Refuse ==
  /\ Write(listener.conn, "server_busy")
  /\ conn' = [conn EXCEPT ![listener.conn] = "dropped"]
  /\ listener' = ListenerAt("accept")
  /\ UNCHANGED <<clientVars, queue, active, dropVars, performed>>

Enqueue ==
  /\ active' = active + 1
  /\ queue' = Append(queue, listener.conn)
  /\ conn' = [conn EXCEPT ![listener.conn] = "queued"]
  /\ listener' = ListenerAt("accept")
  /\ UNCHANGED <<clientVars, line, dropVars, performed>>

(* Slip: a worker is only created when the others are more than busy. *)
NeedsWorkerLate(seen) == seen > Cardinality(Created)

NeedsWorker(seen) == seen >= Cardinality(Created)

Full(seen) == seen >= Concurrency

RejectBusy ==
  /\ listener.op = "decide" /\ Full(listener.seen)
  /\ Refuse
  /\ UNCHANGED worker

(* The channel holds as many connections as there may be workers, and this   *)
(* one is not in it: try_send does not find it full, nor disconnected, since *)
(* the listener holds the receiver too.                                      *)
HandOver ==
  /\ listener.op = "decide" /\ ~Full(listener.seen)
  /\ ~NeedsWorker(listener.seen)
  /\ Enqueue
  /\ UNCHANGED worker

(* spawn_worker: the operating system may refuse a thread. *)
HandOverToNew ==
  /\ listener.op = "decide" /\ ~Full(listener.seen)
  /\ NeedsWorker(listener.seen)
  /\ \/ Refuse /\ UNCHANGED worker
     \/ /\ worker' = [worker EXCEPT ![Cardinality(Created) + 1] = IdleWorker]
        /\ Enqueue

(* The loop ends, and the channel is closed. *)
StopListening ==
  /\ listener.op = "accept"
  /\ listener' = ListenerAt("joining")
  /\ UNCHANGED <<clientVars, line, conn, queue, worker, active, dropVars, performed>>

SeeShutdown == shutdown /\ StopListening

(* Any error of accept but WouldBlock ends the listener for good. *)
AcceptFails == ~shutdown /\ StopListening

(* All workers joined, run_listener returns and closes the socket. *)
ListenerEnds ==
  /\ listener.op = "joining"
  /\ \A w \in Created : worker[w].op = "ended"
  /\ listener' = ListenerAt("ended")
  /\ conn' = [c \in Client |-> IF c \in Backlog THEN "dropped" ELSE conn[c]]
  /\ UNCHANGED <<clientVars, line, queue, worker, active, dropVars, performed>>

-----------------------------------------------------------------------------
(* The loop of spawn_worker, and handle_connection *)

Goto(w, op) == worker' = [worker EXCEPT ![w].op = op]

(* handle_connection returns: its stream is dropped. *)
Hangup(w) ==
  /\ Goto(w, "finish")
  /\ conn' = [conn EXCEPT ![worker[w].conn] = "dropped"]

Take(w) ==
  /\ worker[w].op = "idle" /\ queue # <<>>
  /\ worker' = [worker EXCEPT ![w] = [op |-> "check", conn |-> Head(queue), waits |-> FALSE]]
  /\ conn' = [conn EXCEPT ![Head(queue)] = "held"]
  /\ queue' = Tail(queue)
  /\ UNCHANGED <<clientVars, line, listener, active, dropVars, performed>>

WorkerEnds(w) ==
  /\ worker[w].op = "idle" /\ queue = <<>> /\ listener.op = "joining"
  /\ Goto(w, "ended")
  /\ UNCHANGED <<clientVars, line, conn, listener, queue, active, dropVars, performed>>

CheckShutdown(w) ==
  /\ worker[w].op = "check"
  /\ IF shutdown THEN Hangup(w) ELSE Goto(w, "read") /\ UNCHANGED conn
  /\ UNCHANGED <<clientVars, line, listener, queue, active, dropVars, performed>>

(* After an answer the connection is read again; a failed write ends it. *)
Answer(w, l) ==
  LET c == worker[w].conn IN
    /\ Write(c, l)
    /\ IF client[c] = "left" THEN Hangup(w) ELSE Goto(w, "check") /\ UNCHANGED conn

AnswerLast(w, l) == Write(worker[w].conn, l) /\ Hangup(w)

(* The dispatcher starts on the request.  A wait changes nothing. *)
Dispatch(w, kind) ==
  LET c == worker[w].conn
      waits == kind = "subagentWait"
  IN
    /\ worker' = [worker EXCEPT ![w] = [op |-> "run", conn |-> c, waits |-> waits]]
    /\ performed' = IF waits \/ client[c] = "left" THEN performed ELSE performed \cup {c}
    /\ UNCHANGED <<line, conn>>

Read(w) ==
  LET c == worker[w].conn IN
    /\ worker[w].op = "read" /\ inbox[c] # "empty"
    /\ inbox' = [inbox EXCEPT ![c] = "empty"]
    /\ \/ inbox[c] = "oversize" /\ AnswerLast(w, "message_too_large") /\ UNCHANGED performed
       \/ inbox[c] = "garbage" /\ Answer(w, "invalid_request") /\ UNCHANGED performed
       \/ inbox[c] \in Kind /\ Dispatch(w, inbox[c])
    /\ UNCHANGED <<client, listener, queue, active, dropVars>>

(* Nothing to read: the end of the stream, also in the middle of a frame, or *)
(* 250 ms without a complete one.                                            *)
ReadNothing(w) ==
  LET c == worker[w].conn IN
    /\ worker[w].op = "read" /\ inbox[c] = "empty"
    /\ IF client[c] = "left" THEN Hangup(w) /\ UNCHANGED line
       ELSE AnswerLast(w, "request_timeout")
    /\ UNCHANGED <<clientVars, listener, queue, active, dropVars, performed>>

(* Slip: the flag is looked at once more before the answer is written. *)
RequestEndsUnlessShutdown(w) ==
  /\ worker[w].op = "run"
  /\ IF shutdown THEN Hangup(w) /\ UNCHANGED line ELSE Answer(w, "answer")
  /\ UNCHANGED <<clientVars, listener, queue, active, dropVars, performed>>

RequestEnds(w) ==
  /\ worker[w].op = "run"
  /\ Answer(w, "answer")
  /\ UNCHANGED <<clientVars, listener, queue, active, dropVars, performed>>

(* A wait looks at the dispatcher's flag when it is notified. *)
WaitCancelled(w) ==
  /\ worker[w].op = "run" /\ worker[w].waits /\ cancelled
  /\ Answer(w, "shutdown")
  /\ UNCHANGED <<clientVars, listener, queue, active, dropVars, performed>>

Finish(w) ==
  /\ worker[w].op = "finish"
  /\ worker' = [worker EXCEPT ![w] = IdleWorker]
  /\ active' = active - 1
  /\ UNCHANGED <<clientVars, line, conn, listener, queue, dropVars, performed>>

-----------------------------------------------------------------------------
(* Drop for ControlServer *)

DropBegins ==
  /\ drop = "no"
  /\ shutdown' = TRUE
  /\ drop' = "flagged"
  /\ UNCHANGED <<clientVars, line, conn, listener, queue, worker, active, cancelled, performed>>

(* Slip: only the server's own flag is raised. *)
DropForgetsWaits ==
  /\ drop = "flagged"
  /\ drop' = "joining"
  /\ UNCHANGED <<clientVars, line, conn, listener, queue, worker, active, shutdown,
                 cancelled, performed>>

DropCancels ==
  /\ drop = "flagged"
  /\ cancelled' = TRUE
  /\ drop' = "joining"
  /\ UNCHANGED <<clientVars, line, conn, listener, queue, worker, active, shutdown, performed>>

DropJoins ==
  /\ drop = "joining" /\ listener.op = "ended"
  /\ drop' = "done"
  /\ UNCHANGED <<clientVars, line, conn, listener, queue, worker, active, shutdown,
                 cancelled, performed>>

-----------------------------------------------------------------------------
Clients ==
  \E c \in Client :
    \/ Connect(c)
    \/ \E message \in Message : Send(c, message)
    \/ Leave(c)

Listener ==
  \/ \E c \in Client : Accept(c)
  \/ RejectBusy \/ HandOver \/ HandOverToNew
  \/ SeeShutdown
  \/ ListenerEnds

Serve(w) ==
  \/ Take(w) \/ WorkerEnds(w) \/ CheckShutdown(w)
  \/ Read(w) \/ ReadNothing(w)
  \/ WaitCancelled(w)
  \/ Finish(w)

Dropping == DropCancels \/ DropJoins

Next ==
  \/ Clients
  \/ Listener \/ AcceptFails
  \/ \E w \in Worker : Serve(w) \/ RequestEnds(w)
  \/ DropBegins \/ Dropping

PoolSpec == Init /\ [][Next]_vars

(* Threads run.  A request other than a wait ends within seconds: spawns and *)
(* workspace requests by the timeout of their router.  A wait may last a     *)
(* day, so nothing but its cancellation is counted on.                       *)
FairPoolSpec ==
  /\ PoolSpec
  /\ WF_vars(Listener)
  /\ WF_vars(Dropping)
  /\ \A w \in Worker :
       /\ WF_vars(Serve(w))
       /\ WF_vars(~worker[w].waits /\ RequestEnds(w))

-----------------------------------------------------------------------------
(* Properties *)

(* The counter the listener and the workers share without a lock is exact,   *)
(* although the listener decides by a value that may be stale: it neither    *)
(* leaks (which would refuse clients for good) nor lets a connection wait    *)
(* behind another one's long request, since every queued connection has an   *)
(* idle worker of its own.                                                   *)
AcceptedHasWorker ==
  /\ active = Len(queue) + Cardinality(Busy)
  /\ Len(queue) <= Cardinality(Idle)

(* A client may repeat a request that was refused, or whose connection ended *)
(* without a line: it has not been performed.  In particular a shutdown that *)
(* overtakes a request either leaves it alone or still answers it.           *)
RefusedIsNotPerformed ==
  \A c \in performed :
    /\ line[c] \in {"none", "answer"}
    /\ conn[c] = "dropped" => line[c] = "answer"

(* A client that waits for its answer, whatever it asked and with whatever    *)
(* timeout, takes the answer for what it is, and waits longer than the server *)
(* may take: results are untagged, and the timeouts are set in three files.   *)
ProtocolAgrees == \A c \in Client : client[c] = "asked" => EndsAgree

(* Dropping the server ends, whatever the clients ask: no worker the listener *)
(* has to join is left in a wait, in a read or at the channel.  Writes return, *)
(* as the code takes for granted: a client that does not read its answer is   *)
(* not in the model.                                                         *)
DropReturns == (drop = "flagged") ~> (drop = "done")
=============================================================================
