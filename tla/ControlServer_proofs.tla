-------------------------- MODULE ControlServer_proofs --------------------------
(***************************************************************************)
(* Safety of the control server for any number of clients and workers: its  *)
(* counter is exact, a connection that was accepted has a worker, and what   *)
(* was refused has not been performed.                                      *)
(***************************************************************************)
EXTENDS ControlServer, FiniteSetTheorems, SequenceTheorems, TLAPS

Ops == {"absent", "idle", "ended"} \cup Serving
Lines == {"none", "server_busy", "message_too_large", "invalid_request",
          "request_timeout", "answer", "shutdown"}

(* A worker has a connection until it hangs up. *)
Holding == {"check", "read", "run"}

WorkerType == [op : Ops, conn : Client \cup {NoConn}, waits : BOOLEAN]

ServerTyped ==
  /\ client \in [Client -> {"idle", "open", "asked", "left"}]
  /\ inbox \in [Client -> Message \cup {"empty"}]
  /\ line \in [Client -> Lines]
  /\ conn \in [Client -> {"none", "backlog", "accepted", "queued", "held", "dropped"}]
  /\ listener \in [op : {"accept", "decide", "joining", "ended"},
                   conn : Client \cup {NoConn}, seen : Nat]
  /\ queue \in Seq(Client)
  /\ worker \in [Worker -> WorkerType]
  /\ active \in Nat
  /\ shutdown \in BOOLEAN /\ cancelled \in BOOLEAN
  /\ drop \in {"no", "flagged", "joining", "done"}
  /\ performed \subseteq Client
  /\ listener.op = "decide" => listener.conn \in Client
  /\ \A w \in Worker : worker[w].op \in Holding => worker[w].conn \in Client

-----------------------------------------------------------------------------
(* The pool *)

(* Workers are created one after the other, and end after the loop only.     *)
WorkersInOrder ==
  /\ Created = 1 .. Cardinality(Created)
  /\ (\E w \in Worker : worker[w].op = "ended") => listener.op \in {"joining", "ended"}

(* While the listener decides, the counter has at most been lowered.         *)
SeenIsUpperBound == listener.op = "decide" => active <= listener.seen

PoolInv ==
  /\ ServerTyped
  /\ WorkersInOrder
  /\ SeenIsUpperBound
  /\ AcceptedHasWorker

-----------------------------------------------------------------------------
(* The connections *)

Holds(w, c) == worker[w].op \in Holding /\ worker[w].conn = c

(* A connection is in one place: with the listener, in the queue, or with    *)
(* one worker.                                                               *)
ConnectionsApart ==
  /\ listener.op = "decide" => conn[listener.conn] = "accepted"
  /\ \A n \in 1 .. Len(queue) : conn[queue[n]] = "queued"
  /\ \A n, m \in 1 .. Len(queue) : queue[n] = queue[m] => n = m
  /\ \A w \in Worker : worker[w].op \in Holding => conn[worker[w].conn] = "held"
  /\ \A w, v \in Worker, c \in Client : Holds(w, c) /\ Holds(v, c) => w = v

(* A client sends once on a connection, and a line written to it while the    *)
(* connection lasts answers what it sent.                                     *)
SentOnce ==
  \A c \in Client :
    /\ conn[c] = "none" <=> client[c] = "idle"
    /\ client[c] \in {"idle", "left"} => line[c] = "none"
    /\ client[c] = "open" => inbox[c] = "empty"
    /\ conn[c] # "dropped" /\ line[c] # "none" => client[c] = "asked" /\ inbox[c] = "empty"

(* What a worker carries out was sent on its connection, and nothing has been *)
(* written to it since.                                                      *)
RunningIsUnanswered ==
  \A w \in Worker : worker[w].op = "run" =>
    /\ client[worker[w].conn] \in {"asked", "left"}
    /\ inbox[worker[w].conn] = "empty"
    /\ line[worker[w].conn] = "none"

(* What is performed for a client that waits has been answered, or is still   *)
(* being carried out by a worker that will answer it.                        *)
PerformedIsAnswered ==
  \A c \in performed :
    /\ client[c] = "asked" /\ inbox[c] = "empty"
    /\ \/ line[c] = "answer"
       \/ /\ line[c] = "none"
          /\ \E w \in Worker : Holds(w, c) /\ worker[w].op = "run" /\ ~worker[w].waits

ConnInv ==
  /\ ServerTyped
  /\ ConnectionsApart
  /\ SentOnce
  /\ RunningIsUnanswered
  /\ PerformedIsAnswered

-----------------------------------------------------------------------------
(* Types *)

(* What the steps of a worker that holds a connection have in common.        *)
LEMMA ServingStep ==
  ASSUME ServerTyped, NEW w \in Worker,
         CheckShutdown(w) \/ Read(w) \/ ReadNothing(w) \/ RequestEnds(w) \/ WaitCancelled(w)
  PROVE  /\ worker[w].op \in Holding
         /\ \E op \in Serving, waits \in BOOLEAN :
              /\ worker' = [worker EXCEPT ![w] = [op |-> op, conn |-> worker[w].conn, waits |-> waits]]
              /\ conn' = IF op = "finish" THEN [conn EXCEPT ![worker[w].conn] = "dropped"] ELSE conn
         /\ \E l \in Lines \ {"none"} : line' = line \/ Write(worker[w].conn, l)
         /\ inbox' = inbox \/ inbox' = [inbox EXCEPT ![worker[w].conn] = "empty"]
         /\ performed' = performed \/ performed' = performed \cup {worker[w].conn}
         /\ UNCHANGED <<client, listener, queue, active, dropVars>>
<1>1. worker[w] \in WorkerType
  BY DEF ServerTyped
<1>2. ASSUME NEW op \in Serving, Goto(w, op)
      PROVE  worker' = [worker EXCEPT ![w] = [op |-> op, conn |-> worker[w].conn, waits |-> worker[w].waits]]
  <2>1. worker' = [worker EXCEPT ![w] = [worker[w] EXCEPT !.op = op]]
    BY <1>2 DEF Goto
  <2>2. [worker[w] EXCEPT !.op = op] = [op |-> op, conn |-> worker[w].conn, waits |-> worker[w].waits]
    BY <1>1 DEF WorkerType
  <2> QED
    BY <2>1, <2>2
<1>3. CASE CheckShutdown(w)
  BY <1>1, <1>2, <1>3 DEF CheckShutdown, Hangup, Holding, Serving, Lines, WorkerType, clientVars
<1>4. ASSUME NEW l, Answer(w, l) \/ AnswerLast(w, l)
      PROVE  /\ Write(worker[w].conn, l)
             /\ \E op \in Serving, waits \in BOOLEAN :
                  /\ worker' = [worker EXCEPT ![w] = [op |-> op, conn |-> worker[w].conn, waits |-> waits]]
                  /\ conn' = IF op = "finish" THEN [conn EXCEPT ![worker[w].conn] = "dropped"] ELSE conn
  BY <1>1, <1>2, <1>4 DEF Answer, AnswerLast, Hangup, Serving, WorkerType
<1>5. CASE ReadNothing(w)
  <2>1. CASE client[worker[w].conn] = "left"
    BY <1>1, <1>2, <1>5, <2>1 DEF ReadNothing, Hangup, Holding, Serving, Lines, WorkerType, clientVars
  <2>2. CASE client[worker[w].conn] # "left"
    BY <1>4, <1>5, <2>2 DEF ReadNothing, Holding, Lines, clientVars
  <2> QED
    BY <2>1, <2>2
<1>6. CASE RequestEnds(w) \/ WaitCancelled(w)
  BY <1>4, <1>6 DEF RequestEnds, WaitCancelled, Holding, Lines, clientVars
<1>7. CASE Read(w)
  <2>1. ASSUME NEW kind, Dispatch(w, kind)
        PROVE  /\ worker' = [worker EXCEPT ![w] = [op |-> "run", conn |-> worker[w].conn,
                                                 waits |-> (kind = "subagentWait")]]
               /\ UNCHANGED <<line, conn>>
               /\ performed' = performed \/ performed' = performed \cup {worker[w].conn}
    BY <2>1 DEF Dispatch
  <2>2. CASE Dispatch(w, inbox[worker[w].conn])
    <3>1. /\ worker[w].op = "read"
          /\ inbox' = [inbox EXCEPT ![worker[w].conn] = "empty"]
          /\ UNCHANGED <<client, listener, queue, active, dropVars>>
      BY <1>7 DEF Read
    <3>2. "run" \in Serving /\ (inbox[worker[w].conn] = "subagentWait") \in BOOLEAN
      BY DEF Serving
    <3>3. /\ worker' = [worker EXCEPT ![w] = [op |-> "run", conn |-> worker[w].conn,
                                             waits |-> (inbox[worker[w].conn] = "subagentWait")]]
          /\ UNCHANGED <<line, conn>>
          /\ performed' = performed \/ performed' = performed \cup {worker[w].conn}
      BY <2>1, <2>2
    <3>4. /\ conn' = IF "run" = "finish" THEN [conn EXCEPT ![worker[w].conn] = "dropped"] ELSE conn
          /\ \E l \in Lines \ {"none"} : line' = line \/ Write(worker[w].conn, l)
      BY <3>3 DEF Lines
    <3> QED
      BY <3>1, <3>2, <3>3, <3>4 DEF Holding
  <2>3. CASE \/ AnswerLast(w, "message_too_large") /\ UNCHANGED performed
             \/ Answer(w, "invalid_request") /\ UNCHANGED performed
    BY <1>4, <1>7, <2>3 DEF Read, Holding, Lines
  <2> QED
    BY <1>7, <2>2, <2>3 DEF Read
<1> QED
  BY <1>3, <1>5, <1>6, <1>7

LEMMA WrittenLine ==
  ASSUME ServerTyped, NEW c \in Client, NEW l \in Lines, Write(c, l)
  PROVE  /\ line' \in [Client -> Lines]
         /\ line' = [line EXCEPT ![c] = IF client[c] # "left" /\ line[c] = "none" THEN l ELSE @]
BY DEF ServerTyped, Write

LEMMA TypedInit == Init => ServerTyped
<1> SUFFICES ASSUME Init PROVE ServerTyped
  OBVIOUS
<1>1. queue \in Seq(Client)
  BY DEF Init
<1> QED
  BY <1>1 DEF Init, ServerTyped, Lines, ListenerAt, NoWorker, WorkerType, Ops, Holding

LEMMA ClientTyped ==
  ASSUME ServerTyped, Clients
  PROVE  ServerTyped'
<1>1. PICK c \in Client : Connect(c) \/ (\E message \in Message : Send(c, message)) \/ Leave(c)
  BY DEF Clients
<1>2. CASE Connect(c)
  BY <1>2 DEF Connect, ServerTyped, dropVars
<1>3. CASE \E message \in Message : Send(c, message)
  BY <1>3 DEF Send, ServerTyped, dropVars
<1>4. CASE Leave(c)
  BY <1>4 DEF Leave, ServerTyped, dropVars, Lines
<1> QED
  BY <1>1, <1>2, <1>3, <1>4

LEMMA ListenerTyped ==
  ASSUME ServerTyped, Listener \/ AcceptFails
  PROVE  ServerTyped'
<1>1. ASSUME NEW c \in Client, Accept(c) PROVE ServerTyped'
  BY <1>1 DEF Accept, ServerTyped, clientVars, dropVars
<1>2. ListenerAt("accept") \in [op : {"accept", "decide", "joining", "ended"},
                                 conn : Client \cup {NoConn}, seen : Nat]
      /\ ListenerAt("accept").op # "decide"
  BY DEF ListenerAt
<1>3. ASSUME listener.op = "decide", Refuse, UNCHANGED worker PROVE ServerTyped'
  <2>1. line' \in [Client -> Lines]
    BY <1>3, WrittenLine DEF Refuse, ServerTyped, Lines
  <2> QED
    BY <1>2, <1>3, <2>1 DEF Refuse, ServerTyped, clientVars, dropVars
<1>4. ASSUME listener.op = "decide", Enqueue, worker' \in [Worker -> WorkerType],
             \A w \in Worker : worker'[w].op \in Holding => worker'[w].conn \in Client
      PROVE  ServerTyped'
  <2>1. queue' \in Seq(Client)
    BY <1>4 DEF Enqueue, ServerTyped
  <2> QED
    BY <1>2, <1>4, <2>1 DEF Enqueue, ServerTyped, clientVars, dropVars
<1>5. CASE RejectBusy
  BY <1>3, <1>5 DEF RejectBusy
<1>6. CASE HandOver
  BY <1>4, <1>6 DEF HandOver, ServerTyped
<1>7. CASE HandOverToNew
  <2>1. CASE Refuse /\ UNCHANGED worker
    BY <1>3, <1>7, <2>1 DEF HandOverToNew
  <2>2. CASE /\ worker' = [worker EXCEPT ![Cardinality(Created) + 1] = IdleWorker]
             /\ Enqueue
    <3>1. IdleWorker \in WorkerType /\ IdleWorker.op \notin Holding
      BY DEF IdleWorker, NoWorker, WorkerType, Ops, Holding
    <3> QED
      BY <1>4, <1>7, <2>2, <3>1 DEF HandOverToNew, ServerTyped
  <2> QED
    BY <1>7, <2>1, <2>2 DEF HandOverToNew
<1>8. CASE SeeShutdown \/ AcceptFails
  BY <1>8 DEF SeeShutdown, AcceptFails, StopListening, ListenerAt, ServerTyped, clientVars, dropVars
<1>9. CASE ListenerEnds
  BY <1>9 DEF ListenerEnds, ListenerAt, ServerTyped, clientVars, dropVars
<1> QED
  BY <1>1, <1>5, <1>6, <1>7, <1>8, <1>9 DEF Listener

LEMMA WorkerTyped ==
  ASSUME ServerTyped, NEW w \in Worker, Serve(w) \/ RequestEnds(w),
         Finish(w) => active > 0
  PROVE  ServerTyped'
<1>1. CASE CheckShutdown(w) \/ Read(w) \/ ReadNothing(w) \/ RequestEnds(w) \/ WaitCancelled(w)
  <2>1. PICK op \in Serving, waits \in BOOLEAN :
          /\ worker' = [worker EXCEPT ![w] = [op |-> op, conn |-> worker[w].conn, waits |-> waits]]
          /\ conn' = IF op = "finish" THEN [conn EXCEPT ![worker[w].conn] = "dropped"] ELSE conn
    BY <1>1, ServingStep
  <2>2. worker[w].op \in Holding /\ worker[w].conn \in Client
    BY <1>1, ServingStep DEF ServerTyped
  <2>3. worker' \in [Worker -> WorkerType]
    BY <2>1, <2>2 DEF ServerTyped, WorkerType, Ops
  <2>4. \A v \in Worker : worker'[v].op \in Holding => worker'[v].conn \in Client
    BY <2>1, <2>2 DEF ServerTyped
  <2>5. line' \in [Client -> Lines]
    BY <1>1, <2>2, ServingStep, WrittenLine DEF ServerTyped
  <2>6. /\ conn' \in [Client -> {"none", "backlog", "accepted", "queued", "held", "dropped"}]
    BY <2>1, <2>2 DEF ServerTyped
  <2>7. inbox' \in [Client -> Message \cup {"empty"}]
    <3>1. inbox' = inbox \/ inbox' = [inbox EXCEPT ![worker[w].conn] = "empty"]
      BY <1>1, ServingStep
    <3> QED
      BY <2>2, <3>1 DEF ServerTyped
  <2>8. performed' \subseteq Client
    <3>1. performed' = performed \/ performed' = performed \cup {worker[w].conn}
      BY <1>1, ServingStep
    <3> QED
      BY <2>2, <3>1 DEF ServerTyped
  <2>9. UNCHANGED <<client, listener, queue, active, dropVars>>
    BY <1>1, ServingStep
  <2> QED
    BY <2>3, <2>4, <2>5, <2>6, <2>7, <2>8, <2>9 DEF ServerTyped, dropVars
<1>2. CASE Take(w)
  <2>1. Head(queue) \in Client /\ Tail(queue) \in Seq(Client)
    BY <1>2 DEF Take, ServerTyped
  <2>2. worker' \in [Worker -> WorkerType]
    BY <1>2, <2>1 DEF Take, ServerTyped, WorkerType, Ops, Serving
  <2> QED
    BY <1>2, <2>1, <2>2 DEF Take, ServerTyped, clientVars, dropVars
<1>3. CASE WorkerEnds(w)
  <2>1. worker' = [worker EXCEPT ![w] = [worker[w] EXCEPT !.op = "ended"]]
    BY <1>3 DEF WorkerEnds, Goto, ServerTyped
  <2>2. worker' \in [Worker -> WorkerType]
    BY <2>1 DEF ServerTyped, WorkerType, Ops
  <2> QED
    BY <1>3, <2>1, <2>2 DEF WorkerEnds, ServerTyped, Holding, WorkerType, clientVars, dropVars
<1>4. CASE Finish(w)
  <2>1. IdleWorker \in WorkerType /\ IdleWorker.op \notin Holding
    BY DEF IdleWorker, NoWorker, WorkerType, Ops, Holding
  <2>2. active' \in Nat
    BY <1>4 DEF Finish, ServerTyped
  <2>3. worker' \in [Worker -> WorkerType]
    BY <1>4, <2>1 DEF Finish, ServerTyped
  <2>4. \A v \in Worker : worker'[v].op \in Holding => worker'[v].conn \in Client
    BY <1>4, <2>1 DEF Finish, ServerTyped
  <2> QED
    BY <1>4, <2>2, <2>3, <2>4 DEF Finish, ServerTyped, clientVars, dropVars
<1> QED
  BY <1>1, <1>2, <1>3, <1>4 DEF Serve


-----------------------------------------------------------------------------
(* The pool *)

(* The sets of workers the counter is compared with.                         *)
LEMMA PoolSets ==
  /\ IsFiniteSet(Created) /\ Cardinality(Created) \in Nat
  /\ IsFiniteSet(Idle) /\ Cardinality(Idle) \in Nat
  /\ IsFiniteSet(Busy) /\ Cardinality(Busy) \in Nat
<1>1. IsFiniteSet(Worker)
  BY ServerAssumption, FS_Interval DEF Worker
<1>2. Created \subseteq Worker /\ Idle \subseteq Worker /\ Busy \subseteq Worker
  BY DEF Created, Idle, Busy
<1> QED
  BY <1>1, <1>2, FS_Subset, FS_CardinalityType

(* As long as no worker has ended, a worker is idle or busy.                  *)
LEMMA WorkersCounted ==
  ASSUME ServerTyped, \A w \in Worker : worker[w].op # "ended"
  PROVE  Cardinality(Created) = Cardinality(Idle) + Cardinality(Busy)
<1>1. Created = Idle \cup Busy
  BY DEF ServerTyped, WorkerType, Ops, Created, Idle, Busy, Serving
<1>2. Idle \cap Busy = {}
  BY DEF Idle, Busy, Serving
<1>3. Cardinality({}) = 0
  BY FS_EmptySet
<1>4. Cardinality(Idle \cup Busy) = Cardinality(Idle) + Cardinality(Busy) - Cardinality(Idle \cap Busy)
  BY PoolSets, FS_Union
<1> QED
  BY <1>1, <1>2, <1>3, <1>4, PoolSets

(* Steps that change neither what the counter counts nor what it is compared *)
(* with.                                                                     *)
LEMMA PoolUndisturbed ==
  ASSUME PoolInv, ServerTyped', UNCHANGED <<queue, active>>,
         \A w \in Worker : \/ worker'[w].op = worker[w].op
                           \/ worker[w].op \in Serving /\ worker'[w].op \in Serving,
         listener.op \in {"joining", "ended"} => listener'.op \in {"joining", "ended"},
         listener'.op = "decide" => active <= listener'.seen
  PROVE  PoolInv'
<1>1. Created' = Created
  BY DEF Created, Serving
<1>2. Idle' = Idle
  BY DEF Idle, Serving
<1>3. Busy' = Busy
  BY DEF Busy, Serving
<1>4. WorkersInOrder'
  BY <1>1 DEF PoolInv, WorkersInOrder, Serving
<1>5. AcceptedHasWorker'
  BY <1>2, <1>3 DEF PoolInv, AcceptedHasWorker
<1> QED
  BY <1>4, <1>5 DEF PoolInv, SeenIsUpperBound

LEMMA PoolInit == Init => PoolInv
<1> SUFFICES ASSUME Init PROVE PoolInv
  OBVIOUS
<1>1. Created = {} /\ Idle = {} /\ Busy = {}
  BY DEF Init, NoWorker, Created, Idle, Busy, Serving
<1>2. Cardinality({}) = 0 /\ {} = 1 .. 0
  BY FS_EmptySet
<1>3. WorkersInOrder
  BY <1>1, <1>2 DEF Init, WorkersInOrder, NoWorker
<1>4. AcceptedHasWorker
  BY <1>1, <1>2 DEF Init, AcceptedHasWorker
<1> QED
  BY <1>3, <1>4, TypedInit DEF Init, PoolInv, SeenIsUpperBound, ListenerAt

(* The worker the listener creates did not exist.                             *)
LEMMA NewWorker ==
  ASSUME PoolInv, HandOverToNew
  PROVE  LET new == Cardinality(Created) + 1 IN
           new \in Worker /\ new \notin Created /\ Created \cup {new} = 1 .. new
<1> DEFINE new == Cardinality(Created) + 1
<1>1. Created = 1 .. Cardinality(Created)
  BY DEF PoolInv, WorkersInOrder
<1>2. Cardinality(Created) \in Nat /\ listener.seen \in Nat
  BY PoolSets DEF PoolInv, ServerTyped
<1>3. Cardinality(Created) <= listener.seen /\ listener.seen < Concurrency
  BY <1>2, ServerAssumption DEF HandOverToNew, NeedsWorker, Full
<1>4. new \in Worker
  BY <1>2, <1>3, ServerAssumption DEF Worker
<1>5. \A n \in Nat : (1 .. n) \cup {n + 1} = 1 .. n + 1 /\ n + 1 \notin 1 .. n
  OBVIOUS
<1> QED
  BY <1>1, <1>2, <1>4, <1>5

(* A connection is handed over only when a worker is idle that none of the   *)
(* queued ones needs: the counter the listener loaded may be too high by now,*)
(* never too low.                                                            *)
LEMMA PoolListener ==
  ASSUME PoolInv, Listener \/ AcceptFails
  PROVE  PoolInv'
<1>1. ServerTyped /\ ServerTyped'
  BY ListenerTyped DEF PoolInv
<1>2. CASE \E c \in Client : Accept(c)
  <2>1. listener'.op = "decide" => active <= listener'.seen
    BY <1>1, <1>2 DEF Accept, ServerTyped
  <2> QED
    BY <1>1, <1>2, <2>1, PoolUndisturbed DEF Accept
<1>3. ASSUME listener.op = "decide", Refuse, UNCHANGED worker
      PROVE  PoolInv'
  BY <1>1, <1>3, PoolUndisturbed DEF Refuse, ListenerAt
<1>4. CASE SeeShutdown \/ AcceptFails
  BY <1>1, <1>4, PoolUndisturbed DEF SeeShutdown, AcceptFails, StopListening, ListenerAt
<1>5. CASE ListenerEnds
  BY <1>1, <1>5, PoolUndisturbed DEF ListenerEnds, ListenerAt
<1>6. ASSUME listener.op = "decide", ~Full(listener.seen), Enqueue
      PROVE  /\ Len(queue') = Len(queue) + 1 /\ active' = active + 1
             /\ Len(queue) \in Nat /\ listener.seen \in Nat
             /\ SeenIsUpperBound'
             /\ \A w \in Worker : worker[w].op # "ended"
             /\ Len(queue) + Cardinality(Busy) <= listener.seen
  BY <1>1, <1>6 DEF Enqueue, ListenerAt, ServerTyped, SeenIsUpperBound, PoolInv,
                    WorkersInOrder, AcceptedHasWorker
<1>7. CASE HandOver
  <2>1. Enqueue /\ UNCHANGED worker /\ listener.op = "decide" /\ ~Full(listener.seen)
        /\ listener.seen < Cardinality(Created)
    BY <1>1, <1>7, PoolSets DEF HandOver, NeedsWorker, ServerTyped
  <2>2. Len(queue) + 1 <= Cardinality(Idle)
    BY <1>1, <1>6, <2>1, PoolSets, WorkersCounted
  <2>3. Created' = Created /\ Idle' = Idle /\ Busy' = Busy
    BY <2>1 DEF Created, Idle, Busy
  <2>4. AcceptedHasWorker'
    BY <1>1, <1>6, <2>1, <2>2, <2>3, PoolSets DEF PoolInv, AcceptedHasWorker, ServerTyped
  <2>5. WorkersInOrder'
    BY <1>6, <2>1, <2>3 DEF PoolInv, WorkersInOrder
  <2> QED
    BY <1>1, <1>6, <2>1, <2>4, <2>5 DEF PoolInv
<1>8. CASE HandOverToNew /\ Enqueue /\ worker' = [worker EXCEPT ![Cardinality(Created) + 1] = IdleWorker]
  <2> DEFINE new == Cardinality(Created) + 1
  <2>1. listener.op = "decide" /\ ~Full(listener.seen)
    BY <1>8 DEF HandOverToNew
  <2>2. new \in Worker /\ new \notin Created /\ Created \cup {new} = 1 .. new
    BY <1>8, NewWorker
  <2>3. worker[new].op = "absent" /\ IdleWorker.op = "idle"
    BY <2>2 DEF Created, IdleWorker, NoWorker
  <2>4. \A w \in Worker : worker'[w].op = IF w = new THEN "idle" ELSE worker[w].op
    BY <1>1, <1>8, <2>2, <2>3 DEF ServerTyped
  <2>5. Created' = Created \cup {new}
    BY <2>2, <2>4 DEF Created
  <2>6. Idle' = Idle \cup {new} /\ new \notin Idle
    BY <2>2, <2>3, <2>4 DEF Idle
  <2>7. Busy' = Busy
    BY <2>2, <2>3, <2>4 DEF Busy, Serving
  <2>8. Cardinality(Created') = new /\ Cardinality(Idle') = Cardinality(Idle) + 1
    BY <2>2, <2>5, <2>6, PoolSets, FS_AddElement
  <2>9. WorkersInOrder'
    BY <1>6, <1>8, <2>1, <2>2, <2>4, <2>5, <2>8 DEF WorkersInOrder
  <2>10. AcceptedHasWorker'
    <3>1. active = Len(queue) + Cardinality(Busy) /\ Len(queue) <= Cardinality(Idle)
      BY DEF PoolInv, AcceptedHasWorker
    <3>2. Len(queue') = Len(queue) + 1 /\ active' = active + 1 /\ Len(queue) \in Nat
      BY <1>6, <1>8, <2>1
    <3> QED
      BY <2>7, <2>8, <3>1, <3>2, PoolSets DEF AcceptedHasWorker
  <2> QED
    BY <1>1, <1>6, <1>8, <2>1, <2>9, <2>10 DEF PoolInv
<1>9. CASE RejectBusy
  BY <1>3, <1>9 DEF RejectBusy
<1>10. CASE HandOverToNew /\ Refuse /\ UNCHANGED worker
  BY <1>3, <1>10 DEF HandOverToNew
<1> QED
  BY <1>2, <1>4, <1>5, <1>7, <1>8, <1>9, <1>10 DEF Listener, HandOverToNew

(* A worker leaves one of the sets for the other with the connection it      *)
(* takes from the queue, and returns with the counter.                       *)
LEMMA PoolWorker ==
  ASSUME PoolInv, NEW w \in Worker, Serve(w) \/ RequestEnds(w)
  PROVE  PoolInv'
<1>1. ServerTyped
  BY DEF PoolInv
<1>2. Finish(w) => active > 0
  <2> SUFFICES ASSUME Finish(w) PROVE active > 0
    OBVIOUS
  <2>1. w \in Busy
    BY DEF Finish, Busy, Serving
  <2>2. Cardinality(Busy) # 0
    BY <2>1, PoolSets, FS_EmptySet
  <2> QED
    BY <1>1, <2>2, PoolSets DEF PoolInv, AcceptedHasWorker, ServerTyped
<1>3. ServerTyped'
  BY <1>1, <1>2, WorkerTyped
<1>4. CASE CheckShutdown(w) \/ Read(w) \/ ReadNothing(w) \/ RequestEnds(w) \/ WaitCancelled(w)
  <2>1. PICK op \in Serving, waits \in BOOLEAN :
          worker' = [worker EXCEPT ![w] = [op |-> op, conn |-> worker[w].conn, waits |-> waits]]
    BY <1>1, <1>4, ServingStep
  <2>2. worker[w].op \in Holding /\ UNCHANGED <<listener, queue, active>>
    BY <1>1, <1>4, ServingStep
  <2>3. worker[w].op \in Serving
    BY <2>2 DEF Holding, Serving
  <2>4. \A v \in Worker : \/ worker'[v].op = worker[v].op
                          \/ worker[v].op \in Serving /\ worker'[v].op \in Serving
    BY <1>1, <2>1, <2>3 DEF ServerTyped
  <2> QED
    BY <1>1, <1>3, <2>2, <2>4, PoolUndisturbed DEF PoolInv, SeenIsUpperBound
<1>5. CASE Take(w)
  <2>1. /\ worker[w].op = "idle" /\ UNCHANGED <<active, listener>>
        /\ \A v \in Worker : worker'[v].op = IF v = w THEN "check" ELSE worker[v].op
    BY <1>1, <1>5 DEF Take, ServerTyped
  <2>2. Len(queue') = Len(queue) - 1 /\ Len(queue) \in Nat
    BY <1>1, <1>5 DEF Take, ServerTyped
  <2>3. Created' = Created
    BY <2>1 DEF Created
  <2>4. Idle' = Idle \ {w} /\ w \in Idle
    BY <2>1 DEF Idle
  <2>5. Busy' = Busy \cup {w} /\ w \notin Busy
    BY <2>1 DEF Busy, Serving
  <2>6. Cardinality(Idle') = Cardinality(Idle) - 1 /\ Cardinality(Busy') = Cardinality(Busy) + 1
    BY <2>4, <2>5, PoolSets, FS_RemoveElement, FS_AddElement
  <2>7. WorkersInOrder'
    BY <2>1, <2>3 DEF PoolInv, WorkersInOrder
  <2>8. AcceptedHasWorker'
    BY <2>1, <2>2, <2>6, PoolSets DEF PoolInv, AcceptedHasWorker
  <2> QED
    BY <1>3, <2>1, <2>7, <2>8 DEF PoolInv, SeenIsUpperBound
<1>6. CASE WorkerEnds(w)
  <2>1. /\ worker[w].op = "idle" /\ queue = <<>> /\ listener.op = "joining"
        /\ UNCHANGED <<active, queue, listener>>
    BY <1>6 DEF WorkerEnds
  <2>2. \A v \in Worker : worker'[v].op = IF v = w THEN "ended" ELSE worker[v].op
    BY <1>1, <1>6 DEF WorkerEnds, Goto, ServerTyped, WorkerType
  <2>3. Created' = Created
    BY <2>1, <2>2 DEF Created
  <2>4. Idle' = Idle \ {w} /\ w \in Idle
    BY <2>1, <2>2 DEF Idle
  <2>5. Busy' = Busy
    BY <2>1, <2>2 DEF Busy, Serving
  <2>6. Cardinality(Idle') \in Nat
    BY <2>4, PoolSets, FS_RemoveElement, FS_CardinalityType
  <2>7. WorkersInOrder'
    BY <2>1, <2>3 DEF PoolInv, WorkersInOrder
  <2>8. AcceptedHasWorker'
    BY <2>1, <2>5, <2>6 DEF PoolInv, AcceptedHasWorker
  <2> QED
    BY <1>3, <2>1, <2>7, <2>8 DEF PoolInv, SeenIsUpperBound
<1>7. CASE Finish(w)
  <2>1. worker[w].op = "finish" /\ active' = active - 1 /\ UNCHANGED <<listener, queue>>
    BY <1>7 DEF Finish
  <2>2. \A v \in Worker : worker'[v].op = IF v = w THEN "idle" ELSE worker[v].op
    BY <1>1, <1>7 DEF Finish, ServerTyped, IdleWorker, NoWorker
  <2>3. Created' = Created
    BY <2>1, <2>2 DEF Created
  <2>4. Idle' = Idle \cup {w} /\ w \notin Idle
    BY <2>1, <2>2 DEF Idle
  <2>5. Busy' = Busy \ {w} /\ w \in Busy
    BY <2>1, <2>2 DEF Busy, Serving
  <2>6. Cardinality(Idle') = Cardinality(Idle) + 1 /\ Cardinality(Busy') = Cardinality(Busy) - 1
    BY <2>4, <2>5, PoolSets, FS_RemoveElement, FS_AddElement
  <2>7. WorkersInOrder'
    BY <2>1, <2>2, <2>3 DEF PoolInv, WorkersInOrder
  <2>8. AcceptedHasWorker'
    BY <1>1, <2>1, <2>6, PoolSets DEF PoolInv, AcceptedHasWorker, ServerTyped
  <2>9. SeenIsUpperBound'
    BY <1>1, <2>1 DEF PoolInv, SeenIsUpperBound, ServerTyped
  <2> QED
    BY <1>3, <2>7, <2>8, <2>9 DEF PoolInv
<1> QED
  BY <1>4, <1>5, <1>6, <1>7 DEF Serve

(* Everything else leaves the listener, the queue, the workers and the        *)
(* counter alone.                                                            *)
LEMMA OtherTyped ==
  ASSUME ServerTyped, DropBegins \/ Dropping \/ UNCHANGED vars
  PROVE  ServerTyped' /\ UNCHANGED <<client, inbox, line, conn, listener, queue, worker, active, performed>>
BY DEF DropBegins, Dropping, DropCancels, DropJoins, vars, clientVars, dropVars, ServerTyped

(* Server: the counter that run_listener reads without a lock has at most been  *)
(* lowered when it is acted upon, and workers are created in order and end      *)
(* after the loop only.                                                      *)
THEOREM PoolCorrect == PoolSpec => []PoolInv
<1>1. Init => PoolInv
  BY PoolInit
<1>2. PoolInv /\ [Next]_vars => PoolInv'
  <2> SUFFICES ASSUME PoolInv, [Next]_vars PROVE PoolInv'
    OBVIOUS
  <2>1. CASE Clients
    <3>1. ServerTyped'
      BY <2>1, ClientTyped DEF PoolInv
    <3>2. UNCHANGED <<listener, queue, worker, active>>
      BY <2>1 DEF Clients, Connect, Send, Leave
    <3> QED
      BY <3>1, <3>2, PoolUndisturbed DEF PoolInv, SeenIsUpperBound
  <2>2. CASE Listener \/ AcceptFails
    BY <2>2, PoolListener
  <2>3. CASE \E w \in Worker : Serve(w) \/ RequestEnds(w)
    BY <2>3, PoolWorker
  <2>4. CASE DropBegins \/ Dropping \/ UNCHANGED vars
    BY <2>4, OtherTyped, PoolUndisturbed DEF PoolInv, SeenIsUpperBound
  <2> QED
    BY <2>1, <2>2, <2>3, <2>4 DEF Next
<1> QED
  BY <1>1, <1>2, PTL DEF PoolSpec

(* Server: however the listener, the workers, the clients and the shutdown   *)
(* interleave, active_connections is exactly the number of connections        *)
(* queued or being served, and every queued connection has an idle worker.   *)
THEOREM AcceptedCorrect == PoolSpec => []AcceptedHasWorker
BY PoolCorrect, PTL DEF PoolInv

-----------------------------------------------------------------------------
(* The connections *)

LEMMA ConnInit == Init => ConnInv
<1> SUFFICES ASSUME Init PROVE ConnInv
  OBVIOUS
<1>1. queue = <<>> /\ Len(queue) = 0
  BY DEF Init
<1>2. ConnectionsApart
  BY <1>1 DEF Init, ConnectionsApart, NoWorker, ListenerAt, Holding, Holds
<1>3. SentOnce /\ RunningIsUnanswered /\ PerformedIsAnswered
  BY DEF Init, SentOnce, RunningIsUnanswered, PerformedIsAnswered, NoWorker
<1> QED
  BY <1>2, <1>3, TypedInit DEF ConnInv

LEMMA ConnClients ==
  ASSUME ConnInv, Clients
  PROVE  ConnInv'
<1>1. ServerTyped /\ ServerTyped'
  BY ClientTyped DEF ConnInv
<1>2. PICK c \in Client : Connect(c) \/ (\E message \in Message : Send(c, message)) \/ Leave(c)
  BY DEF Clients
<1>3. UNCHANGED <<listener, queue, worker>>
  BY <1>2 DEF Connect, Send, Leave
<1>4. ConnectionsApart'
  <2>1. \A d \in Client : conn[d] \in {"accepted", "queued", "held"} => conn'[d] = conn[d]
    BY <1>1, <1>2 DEF Connect, Send, Leave, ServerTyped
  <2>2. \A n \in 1 .. Len(queue) : queue[n] \in Client
    BY <1>1 DEF ServerTyped
  <2> QED
    BY <1>1, <1>3, <2>1, <2>2 DEF ConnInv, ConnectionsApart, Holds, ServerTyped
<1>5. CASE Connect(c)
  <2>1. SentOnce'
    BY <1>1, <1>5 DEF Connect, ConnInv, SentOnce, ServerTyped
  <2>2. RunningIsUnanswered'
    BY <1>1, <1>5 DEF Connect, ConnInv, SentOnce, ConnectionsApart, RunningIsUnanswered, ServerTyped, Holding
  <2>3. PerformedIsAnswered'
    BY <1>1, <1>5 DEF Connect, ConnInv, SentOnce, PerformedIsAnswered, ServerTyped, Holds
  <2> QED
    BY <1>1, <1>4, <2>1, <2>2, <2>3 DEF ConnInv
<1>6. ASSUME NEW message \in Message, Send(c, message)
      PROVE  ConnInv'
  <2>1. SentOnce'
    BY <1>1, <1>6 DEF Send, ConnInv, SentOnce, ServerTyped
  <2>2. RunningIsUnanswered'
    BY <1>1, <1>6 DEF Send, ConnInv, RunningIsUnanswered, ServerTyped, Holding
  <2>3. PerformedIsAnswered'
    BY <1>1, <1>6 DEF Send, ConnInv, PerformedIsAnswered, ServerTyped, Holds
  <2> QED
    BY <1>1, <1>4, <2>1, <2>2, <2>3 DEF ConnInv
<1>7. CASE Leave(c)
  <2>1. SentOnce'
    BY <1>1, <1>7 DEF Leave, ConnInv, SentOnce, ServerTyped
  <2>2. RunningIsUnanswered'
    BY <1>1, <1>7 DEF Leave, ConnInv, RunningIsUnanswered, ServerTyped, Holding
  <2>3. PerformedIsAnswered'
    BY <1>1, <1>7 DEF Leave, ConnInv, PerformedIsAnswered, ServerTyped, Holds
  <2> QED
    BY <1>1, <1>4, <2>1, <2>2, <2>3 DEF ConnInv
<1> QED
  BY <1>2, <1>5, <1>6, <1>7

(* The listener writes only to the connection it has accepted, which nobody   *)
(* serves.                                                                   *)
LEMMA ConnListener ==
  ASSUME PoolInv, ConnInv, Listener \/ AcceptFails
  PROVE  ConnInv'
<1>1. ServerTyped /\ ServerTyped'
  BY ListenerTyped DEF ConnInv
<1>2. UNCHANGED <<client, inbox, performed>>
  BY DEF Listener, Accept, RejectBusy, HandOver, HandOverToNew, Refuse, Enqueue, SeeShutdown,
         AcceptFails, StopListening, ListenerEnds, clientVars
<1>3. \A n \in 1 .. Len(queue) : queue[n] \in Client
  BY <1>1 DEF ServerTyped
<1>4. ASSUME NEW c \in Client, Accept(c) PROVE ConnInv'
  <2>1. ConnectionsApart'
    BY <1>1, <1>3, <1>4 DEF Accept, Backlog, ConnInv, ConnectionsApart, ServerTyped, Holds
  <2>2. SentOnce' /\ RunningIsUnanswered' /\ PerformedIsAnswered'
    BY <1>1, <1>2, <1>4 DEF Accept, Backlog, ConnInv, SentOnce, RunningIsUnanswered,
                            PerformedIsAnswered, ServerTyped, Holds
  <2> QED
    BY <1>1, <2>1, <2>2 DEF ConnInv
<1>5. ASSUME listener.op = "decide", Refuse, UNCHANGED worker
      PROVE  ConnInv'
  <2> DEFINE c == listener.conn
  <2>1. c \in Client /\ conn[c] = "accepted" /\ conn' = [conn EXCEPT ![c] = "dropped"]
        /\ listener'.op = "accept" /\ queue' = queue
    BY <1>1, <1>5 DEF Refuse, ListenerAt, ConnInv, ConnectionsApart, ServerTyped
  <2>2. line' = [line EXCEPT ![c] = IF client[c] # "left" /\ line[c] = "none" THEN "server_busy" ELSE @]
    BY <1>1, <1>5, <2>1, WrittenLine DEF Refuse, Lines
  <2>3. ConnectionsApart'
    BY <1>1, <1>3, <1>5, <2>1 DEF ConnInv, ConnectionsApart, ServerTyped, Holds
  <2>4. SentOnce'
    BY <1>1, <1>2, <2>1, <2>2 DEF ConnInv, SentOnce, ServerTyped
  <2>5. \A w \in Worker : worker[w].op \in Holding => worker[w].conn # c
    BY <2>1 DEF ConnInv, ConnectionsApart
  <2>6. RunningIsUnanswered'
    BY <1>1, <1>2, <1>5, <2>1, <2>2, <2>5 DEF ConnInv, RunningIsUnanswered, ServerTyped, Holding
  <2>7. PerformedIsAnswered'
    BY <1>1, <1>2, <1>5, <2>1, <2>2, <2>5 DEF ConnInv, PerformedIsAnswered, ServerTyped, Holds
  <2> QED
    BY <1>1, <2>3, <2>4, <2>6, <2>7 DEF ConnInv
<1>6. ASSUME listener.op = "decide", Enqueue,
             \A w \in Worker : \/ worker'[w] = worker[w]
                               \/ worker[w].op \notin Holding /\ worker'[w].op \notin Holding
      PROVE  ConnInv'
  <2> DEFINE c == listener.conn
  <2>1. c \in Client /\ conn[c] = "accepted" /\ conn' = [conn EXCEPT ![c] = "queued"]
        /\ listener'.op = "accept" /\ queue' = Append(queue, c) /\ UNCHANGED line
    BY <1>1, <1>6 DEF Enqueue, ListenerAt, ConnInv, ConnectionsApart, ServerTyped
  <2>2. /\ Len(queue') = Len(queue) + 1 /\ queue'[Len(queue) + 1] = c
        /\ \A n \in 1 .. Len(queue) : queue'[n] = queue[n]
    BY <1>1, <2>1 DEF ServerTyped
  <2>3. Len(queue) \in Nat
    BY <1>1 DEF ServerTyped
  <2>4. \A n \in 1 .. Len(queue) : queue[n] # c /\ conn'[queue[n]] = "queued"
    BY <1>1, <1>3, <2>1 DEF ConnInv, ConnectionsApart, ServerTyped
  <2>5. \A n \in 1 .. Len(queue') : n \in 1 .. Len(queue) \/ n = Len(queue) + 1
    BY <2>2, <2>3
  <2>6. \A n \in 1 .. Len(queue') : conn'[queue'[n]] = "queued"
    BY <1>1, <2>1, <2>2, <2>4, <2>5 DEF ServerTyped
  <2>7. \A n, m \in 1 .. Len(queue') : queue'[n] = queue'[m] => n = m
    BY <2>2, <2>4, <2>5 DEF ConnInv, ConnectionsApart
  <2>8. \A w \in Worker : worker'[w].op \in Holding =>
                           worker'[w] = worker[w] /\ conn'[worker'[w].conn] = "held"
    BY <1>1, <1>6, <2>1 DEF ConnInv, ConnectionsApart, ServerTyped
  <2>9. ConnectionsApart'
    BY <2>1, <2>6, <2>7, <2>8 DEF ConnInv, ConnectionsApart, Holds
  <2>10. SentOnce'
    BY <1>1, <1>2, <2>1 DEF ConnInv, SentOnce, ServerTyped
  <2>11. RunningIsUnanswered'
    BY <1>2, <2>1, <2>8 DEF ConnInv, RunningIsUnanswered, Holding
  <2>12. PerformedIsAnswered'
    BY <1>2, <1>6, <2>1 DEF ConnInv, PerformedIsAnswered, Holds
  <2> QED
    BY <1>1, <2>9, <2>10, <2>11, <2>12 DEF ConnInv
<1>7. CASE SeeShutdown \/ AcceptFails
  <2>1. UNCHANGED <<line, conn, queue, worker>> /\ listener'.op = "joining"
    BY <1>7 DEF SeeShutdown, AcceptFails, StopListening, ListenerAt
  <2> QED
    BY <1>1, <1>2, <2>1 DEF ConnInv, ConnectionsApart, SentOnce, RunningIsUnanswered, PerformedIsAnswered, Holds
<1>8. CASE ListenerEnds
  <2>1. UNCHANGED <<line, queue, worker>> /\ listener'.op = "ended"
    BY <1>8 DEF ListenerEnds, ListenerAt
  <2>2. \A c \in Client : \/ conn[c] = "backlog" /\ conn'[c] = "dropped"
                          \/ conn[c] # "backlog" /\ conn'[c] = conn[c]
    BY <1>8 DEF ListenerEnds, Backlog
  <2>3. ConnectionsApart'
    BY <1>1, <1>3, <2>1, <2>2 DEF ConnInv, ConnectionsApart, ServerTyped, Holds
  <2>4. SentOnce' /\ RunningIsUnanswered' /\ PerformedIsAnswered'
    BY <1>2, <2>1, <2>2 DEF ConnInv, SentOnce, RunningIsUnanswered, PerformedIsAnswered, Holds
  <2> QED
    BY <1>1, <2>3, <2>4 DEF ConnInv
<1>9. CASE RejectBusy
  BY <1>5, <1>9 DEF RejectBusy
<1>10. CASE HandOver
  BY <1>6, <1>10 DEF HandOver
<1>11. CASE HandOverToNew
  <2>1. CASE Refuse /\ UNCHANGED worker
    BY <1>5, <1>11, <2>1 DEF HandOverToNew
  <2>2. CASE Enqueue /\ worker' = [worker EXCEPT ![Cardinality(Created) + 1] = IdleWorker]
    <3> DEFINE new == Cardinality(Created) + 1
    <3>1. new \in Worker /\ worker[new].op \notin Holding /\ IdleWorker.op \notin Holding
      BY <1>11, NewWorker DEF Created, IdleWorker, NoWorker, Holding
    <3>2. \A w \in Worker : worker'[w] = IF w = new THEN IdleWorker ELSE worker[w]
      BY <1>1, <2>2, <3>1 DEF ServerTyped
    <3> QED
      BY <1>6, <1>11, <2>2, <3>1, <3>2 DEF HandOverToNew
  <2> QED
    BY <1>11, <2>1, <2>2 DEF HandOverToNew
<1> QED
  BY <1>4, <1>7, <1>8, <1>9, <1>10, <1>11 DEF Listener

(* What a step of a worker means for the connection it holds: an answer that  *)
(* leaves the connection open answers what was sent, what is carried out is    *)
(* unanswered, and what is performed is answered before the connection ends.  *)
LEMMA ServedConnection ==
  ASSUME ConnInv, NEW w \in Worker, worker[w].op \in Holding,
         CheckShutdown(w) \/ Read(w) \/ ReadNothing(w) \/ RequestEnds(w) \/ WaitCancelled(w)
  PROVE  LET c == worker[w].conn IN
         /\ line'[c] # line[c] /\ conn'[c] # "dropped" => client[c] = "asked" /\ inbox'[c] = "empty"
         /\ worker'[w].op = "run" =>
              client[c] \in {"asked", "left"} /\ inbox'[c] = "empty" /\ line'[c] = "none"
         /\ c \in performed' =>
              /\ client[c] = "asked" /\ inbox'[c] = "empty"
              /\ \/ line'[c] = "answer"
                 \/ line'[c] = "none" /\ worker'[w].op = "run" /\ ~worker'[w].waits
<1> DEFINE c == worker[w].conn
<1>1. ServerTyped /\ c \in Client /\ conn[c] = "held"
  BY DEF ConnInv, ConnectionsApart, ServerTyped
<1>2. c \in performed =>
        /\ client[c] = "asked" /\ inbox[c] = "empty"
        /\ \/ line[c] = "answer"
           \/ line[c] = "none" /\ worker[w].op = "run" /\ ~worker[w].waits
  BY <1>1 DEF ConnInv, PerformedIsAnswered, ConnectionsApart, Holds
<1>3. /\ client[c] # "idle" /\ (client[c] = "left" => line[c] = "none")
      /\ client[c] = "open" => inbox[c] = "empty"
      /\ line[c] # "none" => client[c] = "asked" /\ inbox[c] = "empty"
      /\ client[c] \in {"idle", "open", "asked", "left"}
  BY <1>1 DEF ConnInv, SentOnce, ServerTyped
<1>4. ASSUME NEW op, Goto(w, op) PROVE worker'[w].op = op
  BY <1>1, <1>4 DEF Goto, ServerTyped, WorkerType
<1>5. ASSUME Hangup(w) PROVE worker'[w].op = "finish" /\ conn'[c] = "dropped"
  BY <1>1, <1>4, <1>5 DEF Hangup, ServerTyped
<1>6. ASSUME NEW l \in Lines, Write(c, l)
      PROVE  line'[c] = IF client[c] # "left" /\ line[c] = "none" THEN l ELSE line[c]
  BY <1>1, <1>6, WrittenLine DEF ServerTyped
<1>7. CASE CheckShutdown(w)
  <2>1. worker'[w].op \in {"finish", "read"} /\ UNCHANGED <<line, inbox, performed>>
    BY <1>4, <1>5, <1>7 DEF CheckShutdown, clientVars
  <2> QED
    BY <1>2, <1>7, <2>1 DEF CheckShutdown
<1>8. ASSUME NEW l \in Lines, Answer(w, l)
      PROVE  /\ worker'[w].op \in {"finish", "check"}
             /\ client[c] = "left" => conn'[c] = "dropped"
             /\ line'[c] = IF client[c] # "left" /\ line[c] = "none" THEN l ELSE line[c]
  BY <1>4, <1>5, <1>6, <1>8 DEF Answer
<1>9. ASSUME NEW l \in Lines, AnswerLast(w, l)
      PROVE  /\ worker'[w].op = "finish" /\ conn'[c] = "dropped"
             /\ line'[c] = IF client[c] # "left" /\ line[c] = "none" THEN l ELSE line[c]
  BY <1>5, <1>6, <1>9 DEF AnswerLast
<1>10. CASE ReadNothing(w)
  <2>1. worker[w].op = "read" /\ UNCHANGED <<inbox, performed>>
    BY <1>10 DEF ReadNothing, clientVars
  <2>2. worker'[w].op = "finish" /\ conn'[c] = "dropped"
        /\ (line'[c] = line[c] \/ line[c] = "none")
    BY <1>5, <1>9, <1>10 DEF ReadNothing, Lines
  <2> QED
    BY <1>2, <1>5, <1>9, <1>10, <2>1, <2>2 DEF ReadNothing, Lines
<1>11. CASE RequestEnds(w)
  <2>1. worker[w].op = "run" /\ Answer(w, "answer") /\ UNCHANGED <<inbox, performed>>
    BY <1>11 DEF RequestEnds, clientVars
  <2>2. client[c] \in {"asked", "left"} /\ inbox[c] = "empty" /\ line[c] = "none"
    BY <2>1 DEF ConnInv, RunningIsUnanswered
  <2> QED
    BY <1>2, <1>8, <2>1, <2>2 DEF Lines
<1>12. CASE WaitCancelled(w)
  <2>1. worker[w].op = "run" /\ worker[w].waits /\ Answer(w, "shutdown") /\ UNCHANGED <<inbox, performed>>
    BY <1>12 DEF WaitCancelled, clientVars
  <2>2. client[c] \in {"asked", "left"} /\ inbox[c] = "empty" /\ line[c] = "none"
    BY <2>1 DEF ConnInv, RunningIsUnanswered
  <2>3. c \notin performed
    BY <1>2, <2>1, <2>2
  <2> QED
    BY <1>8, <2>1, <2>2, <2>3 DEF Lines
<1>13. CASE Read(w)
  <2>1. worker[w].op = "read" /\ inbox[c] # "empty" /\ inbox'[c] = "empty"
    BY <1>1, <1>13 DEF Read, ServerTyped
  <2>2. c \notin performed /\ line[c] = "none" /\ client[c] \in {"asked", "left"}
    BY <1>2, <1>3, <2>1
  <2>3. CASE AnswerLast(w, "message_too_large") /\ UNCHANGED performed
    BY <1>9, <2>1, <2>2, <2>3 DEF Lines
  <2>4. CASE Answer(w, "invalid_request") /\ UNCHANGED performed
    BY <1>8, <2>1, <2>2, <2>4 DEF Lines
  <2>5. CASE Dispatch(w, inbox[c])
    <3>1. /\ worker'[w].op = "run" /\ line'[c] = "none"
          /\ worker'[w].waits = (inbox[c] = "subagentWait")
      BY <1>1, <2>2, <2>5 DEF Dispatch, ServerTyped
    <3>2. c \in performed' => client[c] = "asked" /\ inbox[c] # "subagentWait"
      BY <2>2, <2>5 DEF Dispatch
    <3> QED
      BY <2>1, <2>2, <3>1, <3>2
  <2> QED
    BY <1>13, <2>3, <2>4, <2>5 DEF Read
<1> QED
  BY <1>7, <1>10, <1>11, <1>12, <1>13

(* A worker writes to the connection it holds, and answers what it performed  *)
(* before it hangs up.                                                       *)
LEMMA ConnWorker ==
  ASSUME ConnInv, NEW w \in Worker, Serve(w) \/ RequestEnds(w), ServerTyped'
  PROVE  ConnInv'
<1>1. ServerTyped
  BY DEF ConnInv
<1>2. \A n \in 1 .. Len(queue) : queue[n] \in Client
  BY <1>1 DEF ServerTyped
<1> DEFINE c == worker[w].conn
<1>3. ASSUME worker[w].op \in Holding,
             CheckShutdown(w) \/ Read(w) \/ ReadNothing(w) \/ RequestEnds(w) \/ WaitCancelled(w)
      PROVE  ConnInv'
  <2>1. PICK op \in Serving, waits \in BOOLEAN :
          /\ worker' = [worker EXCEPT ![w] = [op |-> op, conn |-> c, waits |-> waits]]
          /\ conn' = IF op = "finish" THEN [conn EXCEPT ![c] = "dropped"] ELSE conn
    BY <1>1, <1>3, ServingStep
  <2>2. PICK l \in Lines \ {"none"} : line' = line \/ Write(c, l)
    BY <1>1, <1>3, ServingStep
  <2>3. UNCHANGED <<client, listener, queue>>
    BY <1>1, <1>3, ServingStep
  <2>4. c \in Client /\ conn[c] = "held"
    BY <1>1, <1>3 DEF ConnInv, ConnectionsApart, ServerTyped
  <2>5. \A v \in Worker : worker'[v] = IF v = w THEN [op |-> op, conn |-> c, waits |-> waits] ELSE worker[v]
    BY <1>1, <2>1 DEF ServerTyped
  <2>6. \A v \in Worker : v # w /\ worker[v].op \in Holding => worker[v].conn # c
    BY <1>3, <2>4 DEF ConnInv, ConnectionsApart, Holds
  <2>7. /\ \A d \in Client : d # c => conn'[d] = conn[d] /\ line'[d] = line[d]
        /\ conn'[c] = IF op = "finish" THEN "dropped" ELSE "held"
    BY <1>1, <2>1, <2>2, <2>4, WrittenLine DEF ServerTyped
  <2>8. op \in Holding \/ op = "finish"
    BY DEF Serving, Holding
  <2>9. ConnectionsApart'
    <3>1. listener'.op = "decide" => conn'[listener'.conn] = "accepted"
      BY <1>1, <2>3, <2>4, <2>7 DEF ConnInv, ConnectionsApart, ServerTyped
    <3>2. \A n \in 1 .. Len(queue') : conn'[queue'[n]] = "queued"
      BY <1>2, <2>3, <2>4, <2>7 DEF ConnInv, ConnectionsApart
    <3>3. \A n, m \in 1 .. Len(queue') : queue'[n] = queue'[m] => n = m
      BY <2>3 DEF ConnInv, ConnectionsApart
    <3>4. \A v \in Worker : worker'[v].op \in Holding => conn'[worker'[v].conn] = "held"
      BY <1>1, <2>4, <2>5, <2>6, <2>7, <2>8 DEF ConnInv, ConnectionsApart, ServerTyped, Holding
    <3>5. \A v \in Worker, d \in Client : Holds(v, d)' => Holds(v, d)
      BY <1>3, <2>5 DEF Holds
    <3>6. \A v, u \in Worker, d \in Client : Holds(v, d)' /\ Holds(u, d)' => v = u
      BY <3>5 DEF ConnInv, ConnectionsApart
    <3> QED
      BY <3>1, <3>2, <3>3, <3>4, <3>6 DEF ConnectionsApart, Holds
  <2>10. /\ line'[c] # line[c] /\ conn'[c] # "dropped" => client[c] = "asked" /\ inbox'[c] = "empty"
         /\ worker'[w].op = "run" =>
              client[c] \in {"asked", "left"} /\ inbox'[c] = "empty" /\ line'[c] = "none"
         /\ c \in performed' =>
              /\ client[c] = "asked" /\ inbox'[c] = "empty"
              /\ \/ line'[c] = "answer"
                 \/ line'[c] = "none" /\ worker'[w].op = "run" /\ ~worker'[w].waits
    BY <1>3, ServedConnection
  <2>11. inbox'[c] \in {inbox[c], "empty"} /\ \A d \in Client : d # c => inbox'[d] = inbox[d]
    <3>1. inbox' = inbox \/ inbox' = [inbox EXCEPT ![c] = "empty"]
      BY <1>1, <1>3, ServingStep
    <3> QED
      BY <1>1, <2>4, <3>1 DEF ServerTyped
  <2>12. performed' \subseteq performed \cup {c}
    BY <1>1, <1>3, ServingStep
  <2>13. client[c] = "left" => line'[c] = line[c]
    BY <1>1, <2>2, <2>4, WrittenLine DEF ServerTyped
  <2>14. SentOnce'
    BY <1>1, <2>3, <2>4, <2>7, <2>10, <2>11, <2>13 DEF ConnInv, SentOnce
  <2>15. RunningIsUnanswered'
    BY <1>1, <2>3, <2>4, <2>5, <2>6, <2>7, <2>10, <2>11
       DEF ConnInv, RunningIsUnanswered, ServerTyped, Holding
  <2>16. PerformedIsAnswered'
    <3> SUFFICES ASSUME NEW d \in performed'
                 PROVE  /\ client'[d] = "asked" /\ inbox'[d] = "empty"
                        /\ \/ line'[d] = "answer"
                           \/ /\ line'[d] = "none"
                              /\ \E v \in Worker : Holds(v, d)' /\ worker'[v].op = "run" /\ ~worker'[v].waits
      BY DEF PerformedIsAnswered
    <3>1. CASE d = c
      <4>1. worker'[w].op = "run" => Holds(w, d)'
        BY <2>5, <3>1 DEF Holds, Holding
      <4> QED
        BY <2>3, <2>10, <3>1, <4>1
    <3>2. CASE d # c
      <4>1. d \in performed /\ d \in Client
        BY <1>1, <2>12, <3>2 DEF ServerTyped
      <4>2. \A v \in Worker : Holds(v, d) => Holds(v, d)' /\ worker'[v] = worker[v]
        BY <2>5, <3>2 DEF Holds
      <4> QED
        BY <2>3, <2>7, <2>11, <3>2, <4>1, <4>2 DEF ConnInv, PerformedIsAnswered
    <3> QED
      BY <3>1, <3>2
  <2> QED
    BY <2>9, <2>14, <2>15, <2>16 DEF ConnInv
<1>4. ASSUME worker[w].op \notin Holding, worker'[w].op \notin Holding,
             \A v \in Worker : v # w => worker'[v] = worker[v],
             UNCHANGED <<clientVars, line, conn, listener, queue, performed>>
      PROVE  ConnInv'
  <2>1. \A v \in Worker : worker[v].op \in Holding \/ worker'[v].op \in Holding => worker'[v] = worker[v]
    BY <1>4
  <2>2. ConnectionsApart'
    BY <1>4, <2>1 DEF ConnInv, ConnectionsApart, Holds
  <2>3. SentOnce' /\ RunningIsUnanswered' /\ PerformedIsAnswered'
    BY <1>4, <2>1 DEF ConnInv, SentOnce, RunningIsUnanswered, PerformedIsAnswered, Holds, Holding, clientVars
  <2> QED
    BY <2>2, <2>3 DEF ConnInv
<1>5. CASE WorkerEnds(w)
  <2>1. worker[w].op = "idle" /\ worker'[w].op = "ended" /\ \A v \in Worker : v # w => worker'[v] = worker[v]
    BY <1>1, <1>5 DEF WorkerEnds, Goto, ServerTyped, WorkerType
  <2> QED
    BY <1>4, <1>5, <2>1 DEF WorkerEnds, Holding
<1>6. CASE Finish(w)
  <2>1. worker[w].op = "finish" /\ worker'[w].op = "idle" /\ \A v \in Worker : v # w => worker'[v] = worker[v]
    BY <1>1, <1>6 DEF Finish, ServerTyped, IdleWorker, NoWorker
  <2> QED
    BY <1>4, <1>6, <2>1 DEF Finish, Holding
<1>7. CASE Take(w)
  <2> DEFINE d == Head(queue)
  <2>1. /\ worker[w].op = "idle" /\ queue # <<>> /\ queue' = Tail(queue)
        /\ conn' = [conn EXCEPT ![d] = "held"]
        /\ UNCHANGED <<client, inbox, line, listener, performed>>
    BY <1>7 DEF Take, clientVars
  <2>2. \A v \in Worker : worker'[v] = IF v = w THEN [op |-> "check", conn |-> d, waits |-> FALSE] ELSE worker[v]
    BY <1>1, <1>7 DEF Take, ServerTyped
  <2>3. /\ Len(queue) \in Nat /\ Len(queue) >= 1 /\ d = queue[1]
        /\ Len(queue') = Len(queue) - 1
        /\ \A n \in 1 .. Len(queue') : queue'[n] = queue[n + 1] /\ n + 1 \in 1 .. Len(queue)
    BY <1>1, <2>1 DEF ServerTyped
  <2>4. d \in Client /\ conn[d] = "queued"
    BY <1>2, <2>3 DEF ConnInv, ConnectionsApart
  <2>5. \A e \in Client : conn'[e] = IF e = d THEN "held" ELSE conn[e]
    BY <1>1, <2>1 DEF ServerTyped
  <2>6. \A n \in 1 .. Len(queue') : queue'[n] # d
    BY <2>3 DEF ConnInv, ConnectionsApart
  <2>7. ConnectionsApart'
    <3>1. listener'.op = "decide" => conn'[listener'.conn] = "accepted"
      BY <1>1, <2>1, <2>4, <2>5 DEF ConnInv, ConnectionsApart, ServerTyped
    <3>2. \A n \in 1 .. Len(queue') : conn'[queue'[n]] = "queued"
      BY <1>2, <2>3, <2>5, <2>6 DEF ConnInv, ConnectionsApart
    <3>3. \A n, m \in 1 .. Len(queue') : queue'[n] = queue'[m] => n = m
      <4> SUFFICES ASSUME NEW n \in 1 .. Len(queue'), NEW m \in 1 .. Len(queue'), queue'[n] = queue'[m]
                   PROVE  n = m
        OBVIOUS
      <4>1. n + 1 = m + 1
        BY <2>3 DEF ConnInv, ConnectionsApart
      <4> QED
        BY <2>3, <4>1
    <3>4. \A v \in Worker : worker'[v].op \in Holding => conn'[worker'[v].conn] = "held"
      BY <1>1, <2>2, <2>4, <2>5 DEF ConnInv, ConnectionsApart, ServerTyped
    <3>5. \A v \in Worker : worker[v].op \in Holding => worker[v].conn # d
      BY <2>4 DEF ConnInv, ConnectionsApart
    <3>6. \A v, u \in Worker, e \in Client : Holds(v, e)' /\ Holds(u, e)' => v = u
      BY <2>2, <3>5 DEF ConnInv, ConnectionsApart, Holds
    <3> QED
      BY <3>1, <3>2, <3>3, <3>4, <3>6 DEF ConnectionsApart, Holds
  <2>8. SentOnce'
    BY <1>1, <2>1, <2>4, <2>5 DEF ConnInv, SentOnce
  <2>9. RunningIsUnanswered'
    BY <2>1, <2>2 DEF ConnInv, RunningIsUnanswered
  <2>10. PerformedIsAnswered'
    BY <2>1, <2>2 DEF ConnInv, PerformedIsAnswered, Holds
  <2> QED
    BY <2>7, <2>8, <2>9, <2>10 DEF ConnInv
<1>8. CASE CheckShutdown(w) \/ Read(w) \/ ReadNothing(w) \/ RequestEnds(w) \/ WaitCancelled(w)
  BY <1>1, <1>3, <1>8, ServingStep
<1> QED
  BY <1>5, <1>6, <1>7, <1>8 DEF Serve

(* Server: a connection is in one place at a time, a worker carries out only    *)
(* what was sent on its connection and is unanswered, and what is performed for *)
(* a client that waits is answered or still carried out.                       *)
THEOREM ConnectionsCorrect == PoolSpec => []ConnInv
<1>1. Init => ConnInv
  BY ConnInit
<1>2. PoolInv /\ PoolInv' /\ ConnInv /\ [Next]_vars => ConnInv'
  <2> SUFFICES ASSUME PoolInv, PoolInv', ConnInv, [Next]_vars PROVE ConnInv'
    OBVIOUS
  <2>1. CASE Clients
    BY <2>1, ConnClients
  <2>2. CASE Listener \/ AcceptFails
    BY <2>2, ConnListener
  <2>3. CASE \E w \in Worker : Serve(w) \/ RequestEnds(w)
    BY <2>3, ConnWorker DEF PoolInv
  <2>4. CASE DropBegins \/ Dropping \/ UNCHANGED vars
    <3>1. ServerTyped' /\ UNCHANGED <<client, inbox, line, conn, listener, queue, worker, performed>>
      BY <2>4, OtherTyped DEF PoolInv
    <3> QED
      BY <3>1 DEF ConnInv, ConnectionsApart, SentOnce, RunningIsUnanswered, PerformedIsAnswered, Holds
  <2> QED
    BY <2>1, <2>2, <2>3, <2>4 DEF Next
<1> QED
  BY <1>1, <1>2, PoolCorrect, PTL DEF PoolSpec

(* Server: a request that was refused, that timed out, or whose connection    *)
(* ended without a line, a shutdown included, has not been performed: what    *)
(* handle_connection dispatches it also answers before it drops the stream.   *)
THEOREM RefusedCorrect == PoolSpec => []RefusedIsNotPerformed
<1>1. ConnInv => RefusedIsNotPerformed
  <2> SUFFICES ASSUME ConnInv, NEW c \in performed
               PROVE  /\ line[c] \in {"none", "answer"}
                      /\ conn[c] = "dropped" => line[c] = "answer"
    BY DEF RefusedIsNotPerformed
  <2>1. \A w \in Worker : Holds(w, c) => conn[c] = "held"
    BY DEF ConnInv, ConnectionsApart, Holds
  <2> QED
    BY <2>1 DEF ConnInv, PerformedIsAnswered
<1> QED
  BY <1>1, ConnectionsCorrect, PTL

-----------------------------------------------------------------------------
(* The protocol *)

LEMMA VariantAt ==
  /\ DOMAIN Variants = 1 .. 9
  /\ Variants[1] = "Status" /\ Variants[2] = "Spawn" /\ Variants[3] = "List"
  /\ Variants[4] = "SubagentStatus" /\ Variants[5] = "Output" /\ Variants[6] = "SubagentResult"
  /\ Variants[7] = "Wait" /\ Variants[8] = "Workspace" /\ Variants[9] = "Empty"
BY DEF Variants

(* The first variant that fits is the one that is read.                       *)
LEMMA FirstFit ==
  ASSUME NEW fields, NEW n \in 1 .. 9, Reads(Variants[n], fields),
         \A m \in 1 .. 9 : m < n => ~Reads(Variants[m], fields)
  PROVE  Decode(fields) = Variants[n]
<1> DEFINE fits == {k \in DOMAIN Variants : Reads(Variants[k], fields)}
<1>1. n \in fits /\ \A m \in fits : n <= m
  BY VariantAt
<1>2. \A k \in fits : (\A m \in fits : k <= m) => k = n
  BY <1>1, VariantAt
<1>3. (CHOOSE k \in fits : \A m \in fits : k <= m) = n
  BY <1>1, <1>2
<1> QED
  BY <1>1, <1>3 DEF Decode

(* One field that tells each variant: it must be there, and where unknown     *)
(* fields are denied no other may be.                                         *)
LEMMA Marks ==
  ASSUME NEW fields
  PROVE  /\ Reads("Status", fields) => "ready" \in fields
         /\ Reads("Spawn", fields) <=> fields = {"id"}
         /\ Reads("List", fields) => "items" \in fields
         /\ Reads("SubagentStatus", fields) => "lifecycle" \in fields
         /\ Reads("Output", fields) => "data" \in fields
         /\ Reads("SubagentResult", fields) => "text" \in fields
         /\ Reads("Wait", fields) => "timedOut" \in fields
         /\ Reads("Workspace", fields) => "workspace" \in fields
<1>1. Reads("Status", fields) => "ready" \in fields
  BY DEF Reads, Fields, Structure
<1>2. Reads("Spawn", fields) <=> fields = {"id"}
  BY DEF Reads, Fields, Structure, Closed
<1>3. Reads("List", fields) => "items" \in fields
  BY DEF Reads, Fields, Structure
<1>4. Reads("SubagentStatus", fields) => "lifecycle" \in fields
  BY DEF Reads, Fields, Structure, StatusFields
<1>5. Reads("Output", fields) => "data" \in fields
  BY DEF Reads, Fields, Structure
<1>6. Reads("SubagentResult", fields) => "text" \in fields
  BY DEF Reads, Fields, Structure
<1>7. Reads("Wait", fields) => "timedOut" \in fields
  BY DEF Reads, Fields, Structure
<1>8. Reads("Workspace", fields) => "workspace" \in fields
  BY DEF Reads, Fields, Structure
<1> QED
  BY <1>1, <1>2, <1>3, <1>4, <1>5, <1>6, <1>7, <1>8

(* A variant reads what was written of it.                                    *)
LEMMA ReadsOwn ==
  ASSUME NEW v, NEW given \in SUBSET Fields[v].some
  PROVE  Reads(v, Fields[v].always \cup given)
BY DEF Reads

LEMMA DecodedAsSent ==
  ASSUME NEW n \in 1 .. 9, NEW fields \in Encodings(Variants[n])
  PROVE  Decode(fields) = Variants[n]
<1>1. PICK given \in SUBSET Fields[Variants[n]].some : fields = Fields[Variants[n]].always \cup given
  BY DEF Encodings
<1>2. Reads(Variants[n], fields)
  BY <1>1, ReadsOwn
<1> SUFFICES ASSUME NEW m \in 1 .. 9, m < n PROVE ~Reads(Variants[m], fields)
  BY <1>2, FirstFit
<1> USE VariantAt
<1>3. CASE n = 2
  BY <1>1, <1>3, Marks DEF Fields, Structure
<1>4. CASE n = 3
  <2>1. Fields["List"].always = {"items"} /\ Fields["List"].some = {"nextCursor"}
    BY DEF Fields, Structure
  <2>2. "items" \in fields /\ fields \subseteq {"items", "nextCursor"}
    BY <1>1, <1>4, <2>1
  <2>3. m \in 1 .. 2
    BY <1>4
  <2> QED
    BY <2>2, <2>3, Marks
<1>5. CASE n = 4
  BY <1>1, <1>5, Marks DEF Fields, Structure, StatusFields
<1>6. CASE n = 5
  <2>1. Fields["Output"].always = {"format", "after", "cursor", "truncated", "data"} /\ Fields["Output"].some = {}
    BY DEF Fields, Structure
  <2>2. fields = {"format", "after", "cursor", "truncated", "data"}
    BY <1>1, <1>6, <2>1
  <2>3. m \in 1 .. 4
    BY <1>6
  <2> QED
    BY <2>2, <2>3, Marks
<1>7. CASE n = 6
  <2>1. Fields["SubagentResult"].always = {"id", "text", "updatedAt"} /\ Fields["SubagentResult"].some = {}
    BY DEF Fields, Structure
  <2>2. fields = {"id", "text", "updatedAt"}
    BY <1>1, <1>7, <2>1
  <2>3. m \in 1 .. 5
    BY <1>7
  <2> QED
    BY <2>2, <2>3, Marks
<1>8. CASE n = 7
  <2>1. Fields["Wait"].always = {"timedOut", "status"} /\ Fields["Wait"].some = {}
    BY DEF Fields, Structure
  <2>2. fields = {"timedOut", "status"}
    BY <1>1, <1>8, <2>1
  <2>3. m \in 1 .. 6
    BY <1>8
  <2> QED
    BY <2>2, <2>3, Marks
<1>9. CASE n = 8
  <2>1. Fields["Workspace"].always = {"workspace"} /\ Fields["Workspace"].some = {}
    BY DEF Fields, Structure
  <2>2. fields = {"workspace"}
    BY <1>1, <1>9, <2>1
  <2>3. m \in 1 .. 7
    BY <1>9
  <2> QED
    BY <2>2, <2>3, Marks
<1>10. CASE n = 9
  <2>1. Fields["Empty"].always = {} /\ Fields["Empty"].some = {}
    BY DEF Fields, Structure
  <2>2. fields = {}
    BY <1>1, <1>10, <2>1
  <2>3. m \in 1 .. 8
    BY <1>10
  <2> QED
    BY <2>2, <2>3, Marks
<1> QED
  BY <1>3, <1>4, <1>5, <1>6, <1>7, <1>8, <1>9, <1>10

(* Protocol: whatever optional fields a result carries, the untagged enum     *)
(* decodes to the variant the dispatcher sent, and the command line accepts   *)
(* it.                                                                       *)
THEOREM ResultsToldApart == ResultsDecodeAsSent
<1> SUFFICES ASSUME NEW kind \in RequestKind, NEW fields \in Encodings(ResultOf(kind))
             PROVE  /\ Received(Success(fields)) = ResultOf(kind)
                    /\ CliTakes(kind, Received(Success(fields)))
                    /\ Received(Failure) \notin Variant
  BY DEF ResultsDecodeAsSent
<1>1. ResultOf(kind) \in {"Status", "Spawn", "List", "SubagentStatus", "Output", "SubagentResult",
                          "Wait", "Workspace", "Empty"}
  BY DEF RequestKind, ResultOf
<1>2. \E n \in 1 .. 9 : ResultOf(kind) = Variants[n]
  BY <1>1, VariantAt
<1>3. Decode(fields) = ResultOf(kind)
  BY <1>2, DecodedAsSent
<1>4. Received(Success(fields)) = ResultOf(kind)
  BY <1>3 DEF Received, Success
<1>5. CliTakes(kind, Received(Success(fields)))
  BY <1>1, <1>4 DEF CliTakes, Undecodable
<1>6. \A n \in 1 .. 9 : Variants[n] # "serviceError"
  BY VariantAt
<1>7. Received(Failure) \notin Variant
  BY <1>6, VariantAt DEF Variant, Received, Failure
<1> QED
  BY <1>4, <1>5, <1>7

(* Protocol: the client's read timeout is longer than whatever the server may *)
(* take over the request, for every kind and every timeout it carries.       *)
THEOREM ClientWaits ==
  ASSUME NEW kind \in RequestKind, NEW given \in Nat
  PROVE  ServerTimeout(kind, given) < ReadTimeout(kind, given)
<1>1. CASE kind \in {"subagentWait", "workspace", "subagentSpawn"}
  BY <1>1 DEF ServerTimeout, ReadTimeout, CliTimeout
<1>2. CASE kind \notin {"subagentWait", "workspace", "subagentSpawn"}
  BY <1>2 DEF ServerTimeout, ReadTimeout, CliTimeout
<1> QED
  BY <1>1, <1>2

(* Server: a client that waits for its answer takes it for what it is, and    *)
(* waits longer than the server may take.                                    *)
THEOREM ProtocolCorrect == PoolSpec => []ProtocolAgrees
<1>1. Given \subseteq Nat
  BY DEF Given, MaxWait
<1>2. ClientOutlastsServer
  BY <1>1, ClientWaits DEF ClientOutlastsServer
<1>3. ProtocolAgrees
  BY <1>2, ResultsToldApart DEF ProtocolAgrees, EndsAgree
<1> QED
  BY <1>3, PTL

=============================================================================
