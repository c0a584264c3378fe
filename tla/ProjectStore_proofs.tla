-------------------------- MODULE ProjectStore_proofs --------------------------
(***************************************************************************)
(* Safety of the project store for any number of agents: types and control, *)
(* what is saved, what ranks the agents have, and what stays on disk.        *)
(***************************************************************************)
EXTENDS ProjectStore, FiniteSetTheorems, TLAPS

-----------------------------------------------------------------------------
(* Types *)

Both == [global : Store, local : Store]

Busy == {"writing", "writingLocal", "rollingBack"}

TaskOp == {"waiting", "ok", "err"} \cup Busy

Save == [op : TaskOp, kind : {"snapshot", "local", "order"}, to : Both, name : Name, from : Project]

Job == {"save", "order"} \cup Call

Edit == [op : {"savingLocal", "flushing", "flushed", "unflushed", "removingLocal"},
         before : Both, after : Both]

FilesTyped == globalFile \in Project /\ (localFile = NoFile \/ localFile \in Store)

TasksTyped ==
  /\ lock \in {Nobody, "cli"} \cup Caller
  /\ task \in [Caller -> {None} \cup Save]
  /\ cli \in {[op |-> "idle"], [op |-> "done"]} \cup [op : {"writing"}, read : Project]

WindowTyped ==
  /\ window \in {"closed", "loaded"}
  /\ live \in Both /\ title \in Name /\ dirty \in BOOLEAN
  /\ queue \in Seq(Job)
  /\ job \in {None, [op |-> "saving"], [op |-> "saved"]} \cup [op : {"ordering"}, before : Both]
  /\ edit \in [Call -> {None} \cup Edit]

StoreTyped == FilesTyped /\ TasksTyped /\ WindowTyped

-----------------------------------------------------------------------------
(* Control *)

(* Who holds the lock is who writes, and knows what it writes over. *)
LockInv ==
  /\ \A c \in Caller : lock = c <=> task[c].op \in Busy
  /\ lock = "cli" <=> cli.op = "writing"
  /\ cli.op = "writing" => cli.read = globalFile
  /\ \A c \in Caller : task[c].op = "writing" => task[c].from = globalFile
  /\ \A c \in Caller : Halfway(task[c]) =>
       /\ task[c].from.name = globalFile.name
       /\ globalFile.agents = task[c].to.global

(* The backend's tasks are the ones that the window waits for. *)
CallsInv ==
  /\ job.op \in {"none", "saved"} => task["queue"] = None
  /\ job.op = "saving" =>
       task["queue"].kind = "snapshot" /\ task["queue"].op \in {"waiting", "writing", "ok", "err"}
  /\ job.op = "ordering" => task["queue"].kind = "order" /\ task["queue"] # None
  /\ \A c \in Call :
       /\ edit[c].op \notin {"savingLocal", "removingLocal"} => task[c] = None
       /\ edit[c].op \in {"savingLocal", "removingLocal"} =>
            /\ task[c].kind = "local" /\ task[c].op \in {"waiting", "writingLocal", "ok", "err"}
            /\ task[c].to = edit[c].after

(* A job that runs is the first of the queue; a call that has one there waits  *)
(* for it.                                                                    *)
QueueInv ==
  /\ job # None => queue # <<>>
  /\ job.op \in {"saved", "ordering"} => queue[1] = "order"
  /\ \A k \in 1 .. Len(queue) : queue[k] \in Call =>
       edit[queue[k]].op = "flushing" /\ \A n \in 1 .. Len(queue) : queue[n] = queue[k] => n = k

NoEdits == \A c \in Call : edit[c] = None

ClosedInv ==
  window = "closed" =>
    live = Alone(Empty) /\ ~dirty /\ queue = <<>> /\ job = None /\ NoEdits

ControlInv == LockInv /\ CallsInv /\ QueueInv /\ ClosedInv

-----------------------------------------------------------------------------
(* What is saved *)

Ordering == job.op = "ordering"

(* What differs from projects.json is marked, or being saved. *)
GlobalSaved ==
  LET t == task["queue"] IN
  /\ job.op \in {"none", "saved"} => globalFile.agents = live.global \/ dirty
  /\ job.op = "saving" =>
       /\ t.op \in {"waiting", "writing", "ok"} => t.to.global = live.global \/ dirty
       /\ t.op = "ok" => globalFile.agents = t.to.global

(* One call awaits at a time, unless one has computed its stores while another *)
(* awaited.                                                                   *)
Solo == \A c, d \in Call : edit[c] # None /\ edit[d] # None => c = d

(* What differs from .termarc.json is being edited.                           *)
CallSaved(c) ==
  LET t == task[c]
      e == edit[c]
  IN /\ e.op \in {"savingLocal", "removingLocal"} =>
          Local = IF t.op = "ok" THEN e.after.local ELSE e.before.local
     /\ e.op \in {"flushing", "flushed", "unflushed"} => Local = e.before.local
     /\ e.op = "savingLocal" => live.local = e.before.local
     /\ e.op \in {"flushing", "flushed", "unflushed", "removingLocal"} => live.local = e.after.local
     /\ e.op = "unflushed" => dirty

ProjectSaved ==
  /\ Solo
  /\ NoEdits => Local = live.local
  /\ \A c \in Call : CallSaved(c)

(* An order is shown; what was shown before is saved, or what is shown now.    *)
OrderSaved ==
  LET t == task["queue"] IN
  /\ NoEdits /\ t.to = live
  /\ t.op \in {"waiting", "writing", "err"} =>
       (globalFile.agents = job.before.global \/ dirty) /\ Local = job.before.local
  /\ t.op \in {"writingLocal", "rollingBack"} =>
       (t.from.agents = job.before.global \/ dirty) /\ Local = job.before.local
  /\ t.op = "ok" => globalFile.agents = live.global /\ Local = live.local

Saved == IF Ordering THEN OrderSaved ELSE GlobalSaved /\ ProjectSaved

SavedInv == window = "loaded" /\ mishaps = {} => Saved

-----------------------------------------------------------------------------
(* Ranks *)

(* No two agents have one rank, and no agent has two, in both of two stores.   *)
Agree(s, t) ==
  \A a, b \in Agent : s[a] \in Rank /\ t[b] \in Rank => (s[a] = t[b] <=> a = b)

AgreeAll(stores) == \A s, t \in stores : Agree(s, t)

Stores(both) == {both.global, both.local}

Files == {globalFile.agents, Local}

(* The stores that may be shown or written, but for an order. *)
HeldBy(c) == IF task[c] = None THEN {} ELSE Stores(task[c].to)

InEdit(c) == IF edit[c] = None THEN {} ELSE Stores(edit[c].before) \cup Stores(edit[c].after)

InTasks == UNION {HeldBy(c) : c \in Caller}
InEdits == UNION {InEdit(c) : c \in Call}

Shared == Files \cup Stores(live) \cup InTasks \cup InEdits

OrderRanks ==
  LET t == task["queue"] IN
  /\ NoEdits /\ t.to = live
  /\ AgreeAll(Stores(live))
  /\ t.op \in {"waiting", "writing", "err"} => AgreeAll(Stores(job.before) \cup Files)
  /\ t.op \in {"writingLocal", "rollingBack"} =>
       AgreeAll(Stores(job.before) \cup {t.from.agents, Local})
  /\ t.op = "ok" => AgreeAll(Stores(live) \cup Files)

Ranked == IF Ordering THEN OrderRanks ELSE AgreeAll(Shared)

RankInv == mishaps \subseteq {"stale"} => Ranked


-----------------------------------------------------------------------------
(* What stays on disk *)

(* What these stores have, but for the removed, is shown as global or on file    *)
(* in the project.                                                            *)
Safe(agents) == Has(agents) \ removed \subseteq Has(live.global) \cup Has(Local)

Backed(agents) == Has(live.global) \subseteq Has(agents) \/ dirty

(* What is saved is safe, and a snapshot that is to replace it leaves it so.     *)
GlobalKept ==
  LET t == task["queue"] IN
  /\ Safe(globalFile.agents)
  /\ job.op \in {"none", "saved"} => Backed(globalFile.agents)
  /\ job.op = "saving" =>
       /\ t.op \in {"waiting", "writing"} =>
            Safe(t.to.global) /\ Has(globalFile.agents) \ removed \subseteq Has(t.to.global) \cup Has(Local)
       /\ t.op \in {"waiting", "writing", "ok"} => t.to.global = live.global \/ dirty
       /\ t.op = "ok" => globalFile.agents = t.to.global

(* What an override's save moves from the project to global. *)
Moved(e) == (Has(e.before.local) \ Has(e.after.local)) \ removed

(* An edit moves no agent but between global and project, and removes an          *)
(* override only when its global copy has been flushed.                         *)
CallKept(c) ==
  LET t == task["queue"]
      e == edit[c]
  IN /\ e.op = "savingLocal" =>
          /\ Has(e.before.local) \ removed \subseteq Has(e.after.local)
          /\ Has(e.before.global) \ removed \subseteq Has(e.after.global) \cup Has(e.after.local)
     /\ e.op \in {"flushing", "flushed", "unflushed", "removingLocal"} =>
          /\ Moved(e) \subseteq Has(live.global)
          /\ Has(e.after.global) \subseteq Has(e.before.global) \cup Has(e.before.local)
     /\ e.op \in {"flushed", "removingLocal"} => Moved(e) \subseteq Has(globalFile.agents)
     /\ e.op \in {"flushed", "unflushed"} => job = None
     /\ job.op = "saving" /\ (e.op = "removingLocal" \/ (e.op = "flushing" /\ queue[1] = c)) =>
          Moved(e) \subseteq Has(t.to.global)

OrderKept ==
  LET t == task["queue"] IN
  /\ NoEdits /\ t.to = live
  /\ Has(job.before.global) = Has(live.global) /\ Has(job.before.local) = Has(live.local)
  /\ t.op \in {"waiting", "writing", "err"} =>
       Safe(globalFile.agents) /\ Backed(globalFile.agents) /\ Local = job.before.local
  /\ t.op \in {"writingLocal", "rollingBack"} =>
       Safe(t.from.agents) /\ Backed(t.from.agents) /\ Local = job.before.local
  /\ t.op = "ok" => globalFile.agents = live.global /\ Local = live.local

Held == IF Ordering THEN OrderKept ELSE GlobalKept /\ ProjectSaved /\ \A c \in Call : CallKept(c)

DiskInv == window = "loaded" /\ mishaps \subseteq {"torn"} => Held
-----------------------------------------------------------------------------
(* What the operations on stores make of them *)

LEMMA EffectiveTyped ==
  ASSUME NEW both \in Both
  PROVE  /\ Effective(both) \in Store
         /\ \A a \in Agent : Effective(both)[a] =
              IF both.local[a] # Absent THEN both.local[a] ELSE both.global[a]
  BY DEF Effective, Both, Store

LEMMA SavedTyped ==
  ASSUME NEW both \in Both, NEW a \in Agent, NEW storage \in {"global", "project"}
  PROVE  SavedIn(both, a, storage) \in Both
<1>1. Effective(both)[a] \in Slot
  BY EffectiveTyped DEF Store
<1>2. ASSUME NEW store \in Store, NEW slot \in Slot, NEW include \in BOOLEAN
      PROVE  Replaced(store, a, slot, include) \in Store
  BY <1>2 DEF Replaced, Store, Slot
<1>3. Unranked \in Slot
  BY DEF Slot
<1> QED
  BY <1>1, <1>2, <1>3 DEF SavedIn, Both

LEMMA WithoutTyped ==
  ASSUME NEW both \in Both, NEW a \in Agent
  PROVE  Without(both, a) \in Both
  BY DEF Without, Both, Store, Slot

(* An order gives the agents of a project different ranks of the project.      *)
LEMMA RerankedTyped ==
  ASSUME NEW both \in Both, NEW f \in Orders(both)
  PROVE  /\ \A a \in Has(Effective(both)) : f[a] \in Rank
         /\ \A a, b \in Has(Effective(both)) : a # b => f[a] # f[b]
         /\ Has(both.global) \cup Has(both.local) = Has(Effective(both))
         /\ RerankedBoth(f, both) \in Both
<1> DEFINE ids == Has(Effective(both))
<1>1. ids \subseteq Agent
  BY DEF Has
<1>2. Cardinality(ids) \in Nat /\ Cardinality(Agent) \in Nat /\ Cardinality(ids) <= Cardinality(Agent)
  BY <1>1, StoreAssumption, FS_Subset, FS_CardinalityType
<1>3. f \in [ids -> 0 .. Cardinality(ids) - 1] /\ \A a, b \in ids : a # b => f[a] # f[b]
  BY DEF Orders
<1> HIDE DEF ids
<1>4. \A a \in ids : f[a] \in Rank
  BY <1>2, <1>3 DEF Rank
<1>5. Has(both.global) \cup Has(both.local) = ids
  BY EffectiveTyped DEF ids, Has, Both
<1>6. ASSUME NEW store \in Store, Has(store) \subseteq ids PROVE Reranked(f, store) \in Store
  BY <1>4, <1>6 DEF Reranked, Has, Store, Slot
<1>7. both.global \in Store /\ both.local \in Store
  BY DEF Both
<1>8. RerankedBoth(f, both) \in Both
  BY <1>5, <1>6, <1>7 DEF RerankedBoth, Both
<1> QED
  BY <1>3, <1>4, <1>5, <1>8 DEF ids

LEMMA EmptyTyped == Empty \in Store /\ Alone(Empty) \in Both
  BY DEF Empty, Alone, Both, Store, Slot

LEMMA LocalTyped == FilesTyped => Local \in Store
  BY EmptyTyped DEF FilesTyped, Local

LEMMA Callers ==
  /\ "queue" \in Caller /\ Call \subseteq Caller /\ \A c \in Call : c # "queue"
  /\ \A c \in Caller : c = "queue" \/ c \in Call
  /\ Nobody # "cli" /\ \A c \in Caller : c # Nobody /\ c # "cli"
  /\ {"save", "order"} \cap Call = {}
  BY StoreAssumption DEF Caller, Nobody

(* A task is none, or a save that has been called for.                         *)
LEMMA NoTask ==
  /\ None.op = "none"
  /\ \A t \in {None} \cup Save : t # None <=> t.op \in TaskOp
  /\ \A t \in {None} \cup Save : t # None <=> t \in Save
  BY DEF None, Save, TaskOp, Busy

-----------------------------------------------------------------------------
(* Types *)

LEMMA TypedInit == Init => StoreTyped
<1> SUFFICES ASSUME Init PROVE StoreTyped
  OBVIOUS
<1>1. FilesTyped
  BY EmptyTyped DEF Init, FilesTyped
<1>2. TasksTyped
  <2>1. task \in [Caller -> {None} \cup Save]
    BY DEF Init
  <2>2. cli \in {[op |-> "idle"], [op |-> "done"]} \cup [op : {"writing"}, read : Project]
    BY DEF Init
  <2>3. lock \in {Nobody, "cli"} \cup Caller
    BY DEF Init
  <2> QED
    BY <2>1, <2>2, <2>3 DEF TasksTyped
<1>3. WindowTyped
  <2>1. <<>> \in Seq(Job) /\ "first" \in Name
    BY DEF Name
  <2> QED
    BY <2>1, EmptyTyped DEF Init, WindowTyped
<1> QED
  BY <1>1, <1>2, <1>3 DEF StoreTyped

LEMMA CalledTyped ==
  ASSUME StoreTyped, NEW c \in Caller, NEW kind \in {"snapshot", "local", "order"},
         NEW both \in Both, CallBackend(c, kind, both)
  PROVE  /\ task' \in [Caller -> {None} \cup Save]
         /\ task'[c] = [op |-> "waiting", kind |-> kind, to |-> both, name |-> title,
                        from |-> globalFile]
         /\ \A d \in Caller : d # c => task'[d] = task[d]
<1>1. [op |-> "waiting", kind |-> kind, to |-> both, name |-> title, from |-> globalFile] \in Save
  BY DEF StoreTyped, FilesTyped, WindowTyped, Save, TaskOp
<1> QED
  BY <1>1 DEF CallBackend, StoreTyped, TasksTyped

LEMMA Called ==
  ASSUME StoreTyped, NEW c \in Caller, NEW kind \in {"snapshot", "local", "order"},
         NEW both \in Both, CallBackend(c, kind, both)
  PROVE  /\ task'[c].op = "waiting" /\ task'[c].kind = kind /\ task'[c].to = both
         /\ task'[c] # None
         /\ \A d \in Caller : d # c => task'[d] = task[d]
<1>1. task'[c] = [op |-> "waiting", kind |-> kind, to |-> both, name |-> title,
                   from |-> globalFile]
      /\ \A d \in Caller : d # c => task'[d] = task[d]
  BY CalledTyped
<1>2. task'[c].op = "waiting" /\ task'[c].kind = kind /\ task'[c].to = both
  BY <1>1
<1> QED
  BY <1>1, <1>2 DEF None

LEMMA AnsweredTyped ==
  ASSUME StoreTyped, NEW c \in Caller, task' = [task EXCEPT ![c] = None]
  PROVE  /\ task' \in [Caller -> {None} \cup Save]
         /\ task'[c] = None
         /\ \A d \in Caller : d # c => task'[d] = task[d]
  BY DEF StoreTyped, TasksTyped

(* What a step of the backend makes of its task.                               *)
LEMMA MovedTyped ==
  ASSUME StoreTyped, NEW c \in Caller, task[c] # None, NEW op \in TaskOp,
         task' = [task EXCEPT ![c].op = op]
  PROVE  /\ task' \in [Caller -> {None} \cup Save]
         /\ task'[c].op = op /\ task'[c] \in Save
         /\ task'[c].kind = task[c].kind /\ task'[c].to = task[c].to
         /\ task'[c].name = task[c].name /\ task'[c].from = task[c].from
         /\ \A d \in Caller : d # c => task'[d] = task[d]
<1>1. task[c] \in Save
  BY NoTask DEF StoreTyped, TasksTyped
<1>2. [task[c] EXCEPT !.op = op] \in Save
  BY <1>1 DEF Save
<1>3. task' \in [Caller -> {None} \cup Save] /\ task'[c] = [task[c] EXCEPT !.op = op]
  BY <1>2 DEF StoreTyped, TasksTyped
<1> QED
  BY <1>1, <1>2, <1>3 DEF Save, StoreTyped, TasksTyped

LEMMA Moves ==
  ASSUME StoreTyped, NEW c \in Caller, task[c] # None
  PROVE  /\ \A r \in {"ok", "err"} : Ends(c, r) => task'[c].op = r
         /\ \A op \in {"writingLocal", "rollingBack"} : Goes(c, op) => task'[c].op = op
<1>1. ASSUME NEW r \in {"ok", "err"}, Ends(c, r) PROVE task'[c].op = r
  <2>1. r \in TaskOp /\ task' = [task EXCEPT ![c].op = r]
    BY <1>1 DEF Ends, TaskOp
  <2> QED
    BY <2>1, MovedTyped
<1>2. ASSUME NEW op \in {"writingLocal", "rollingBack"}, Goes(c, op) PROVE task'[c].op = op
  <2>1. op \in TaskOp /\ task' = [task EXCEPT ![c].op = op]
    BY <1>2 DEF Goes, TaskOp, Busy
  <2> QED
    BY <2>1, MovedTyped
<1> QED
  BY <1>1, <1>2

LEMMA AcquireTyped ==
  ASSUME StoreTyped, NEW c \in Caller, Acquire(c)
  PROVE  /\ task[c] # None
         /\ task' \in [Caller -> {None} \cup Save]
         /\ task'[c] \in Save
         /\ \/ task'[c].op = "err" /\ lock' = Nobody
            \/ /\ Accepted(task[c]) /\ lock' = c /\ task'[c].from = globalFile
               /\ task'[c].op = IF task[c].kind = "local" THEN "writingLocal" ELSE "writing"
         /\ task'[c].kind = task[c].kind /\ task'[c].to = task[c].to
         /\ task'[c].name = task[c].name
         /\ \A d \in Caller : d # c => task'[d] = task[d]
<1> DEFINE op == IF task[c].kind = "local" THEN "writingLocal" ELSE "writing"
<1>1. task[c] # None /\ task[c] \in Save
  BY NoTask DEF Acquire, StoreTyped, TasksTyped, TaskOp
<1>2. CASE Accepted(task[c])
  <2>1. lock' = c /\ task' = [task EXCEPT ![c].op = op, ![c].from = globalFile]
    BY <1>2 DEF Acquire
  <2>2. task' \in [Caller -> {None} \cup Save]
        /\ task'[c] = [task[c] EXCEPT !.op = op, !.from = globalFile]
        /\ \A d \in Caller : d # c => task'[d] = task[d]
    <3>1. [task[c] EXCEPT !.op = op, !.from = globalFile] \in Save
      BY <1>1 DEF Save, TaskOp, Busy, StoreTyped, FilesTyped
    <3> QED
      BY <2>1, <3>1 DEF StoreTyped, TasksTyped
  <2>3. task'[c] \in Save
    BY <2>2, NoTask, <1>1 DEF Save, TaskOp, Busy, StoreTyped, FilesTyped
  <2>4. task'[c].op = op /\ task'[c].from = globalFile
    BY <1>1, <2>2 DEF Save
  <2>5. /\ task'[c].kind = task[c].kind /\ task'[c].to = task[c].to
        /\ task'[c].name = task[c].name
    BY <1>1, <2>2 DEF Save
  <2> QED
    BY <1>1, <1>2, <2>1, <2>2, <2>3, <2>4, <2>5
<1>3. CASE ~Accepted(task[c])
  <2>1. lock' = Nobody /\ task' = [task EXCEPT ![c].op = "err"]
    BY <1>3 DEF Acquire, Ends
  <2> QED
    <3>1. "err" \in TaskOp
      BY DEF TaskOp
    <3> QED
      BY <1>1, <2>1, <3>1, MovedTyped
<1> QED
  BY <1>2, <1>3

(* Each write moves its task on, or ends it and gives up the lock.              *)
LEMMA WriteTyped ==
  ASSUME StoreTyped, NEW c \in Caller, NEW outcome \in Written, Write(c, outcome)
  PROVE  /\ task[c] \in Save /\ task[c].op \in Busy
         /\ FilesTyped'
         /\ task' \in [Caller -> {None} \cup Save]
         /\ task'[c] \in Save
         /\ \/ task'[c].op \in {"ok", "err"} /\ lock' = Nobody
            \/ /\ task'[c].op = "writingLocal" /\ task[c].op = "writing" /\ lock' = lock
               /\ task[c].kind = "order"
            \/ /\ task'[c].op = "rollingBack" /\ task[c].op = "writingLocal" /\ lock' = lock
               /\ task[c].kind = "order"
         /\ task'[c].kind = task[c].kind /\ task'[c].to = task[c].to
         /\ task'[c].name = task[c].name /\ task'[c].from = task[c].from
         /\ \A d \in Caller : d # c => task'[d] = task[d]
<1>1. task[c] \in Save /\ task[c] # None /\ task[c].op \in Busy
  <2>1. task[c].op \in Busy
    BY DEF Write, SnapshotWrite, OrderWrite, LocalWrite, RollBack, Busy
  <2> QED
    BY <2>1, NoTask DEF StoreTyped, TasksTyped, TaskOp
<1>2. ASSUME NEW op \in TaskOp, Ends(c, op) \/ Goes(c, op)
      PROVE  /\ task' \in [Caller -> {None} \cup Save]
             /\ task'[c] \in Save /\ task'[c].op = op
             /\ task'[c].kind = task[c].kind /\ task'[c].to = task[c].to
             /\ task'[c].name = task[c].name /\ task'[c].from = task[c].from
             /\ \A d \in Caller : d # c => task'[d] = task[d]
             /\ lock' = IF Ends(c, op) THEN Nobody ELSE lock
  BY <1>1, <1>2, MovedTyped DEF Ends, Goes
<1>3. CASE SnapshotWrite(c, outcome)
  <2>1. PICK op \in {"ok", "err"} : Ends(c, op)
    BY <1>3 DEF SnapshotWrite
  <2>2. FilesTyped'
    BY <1>1, <1>3 DEF SnapshotWrite, FilesTyped, StoreTyped, Project, Save, Both
  <2> QED
    BY <1>1, <1>2, <2>1, <2>2 DEF TaskOp
<1>4. CASE OrderWrite(c, outcome)
  <2>1. FilesTyped'
    <3>1. [task[c].from EXCEPT !.agents = task[c].to.global] \in Project
      BY <1>1 DEF Save, Both, Project
    <3> QED
      BY <1>4, <3>1 DEF OrderWrite, FilesTyped, StoreTyped
  <2>2. CASE outcome = "ok" /\ WritesLocal(task[c])
    BY <1>1, <1>2, <1>4, <2>1, <2>2 DEF OrderWrite, TaskOp, Busy, Goes
  <2>3. CASE ~(outcome = "ok" /\ WritesLocal(task[c]))
    <3>1. PICK op \in {"ok", "err"} : Ends(c, op)
      BY <1>4, <2>3 DEF OrderWrite
    <3> QED
      BY <1>1, <1>2, <2>1, <3>1 DEF TaskOp
  <2> QED
    BY <2>2, <2>3
<1>5. CASE LocalWrite(c, outcome)
  <2>1. FilesTyped'
    BY <1>1, <1>5 DEF LocalWrite, FilesTyped, StoreTyped, Save, Both
  <2>2. CASE outcome # "ok" /\ task[c].kind = "order"
    BY <1>1, <1>2, <1>5, <2>1, <2>2 DEF LocalWrite, LocalFailed, TaskOp, Busy, Goes
  <2>3. CASE ~(outcome # "ok" /\ task[c].kind = "order")
    <3>1. PICK op \in {"ok", "err"} : Ends(c, op)
      BY <1>5, <2>3 DEF LocalWrite, LocalFailed
    <3> QED
      BY <1>1, <1>2, <2>1, <3>1 DEF TaskOp
  <2> QED
    BY <2>2, <2>3
<1>6. CASE RollBack(c, outcome)
  <2>1. FilesTyped'
    BY <1>1, <1>6 DEF RollBack, FilesTyped, StoreTyped, Save
  <2>2. Ends(c, "err")
    BY <1>6 DEF RollBack
  <2> QED
    BY <1>1, <1>2, <2>1, <2>2 DEF TaskOp
<1> QED
  BY <1>3, <1>4, <1>5, <1>6 DEF Write

LEMMA BackendTyped ==
  ASSUME StoreTyped, Backend \/ CliLoads \/ CliSaves PROVE StoreTyped'
<1>1. ASSUME NEW c \in Caller, Acquire(c) PROVE StoreTyped'
  <2>1. FilesTyped'
    BY <1>1 DEF Acquire, StoreTyped, FilesTyped, fileVars
  <2>2. TasksTyped'
    BY <1>1, AcquireTyped DEF Acquire, StoreTyped, TasksTyped
  <2>3. WindowTyped'
    BY <1>1 DEF Acquire, StoreTyped, WindowTyped, windowVars
  <2> QED
    BY <2>1, <2>2, <2>3 DEF StoreTyped
<1>2. ASSUME NEW c \in Caller, NEW outcome \in Written, Write(c, outcome) PROVE StoreTyped'
  <2>1. FilesTyped'
    BY <1>2, WriteTyped
  <2>2. TasksTyped'
    BY <1>2, WriteTyped DEF Write, StoreTyped, TasksTyped
  <2>3. WindowTyped'
    BY <1>2 DEF Write, StoreTyped, WindowTyped, windowVars
  <2> QED
    BY <2>1, <2>2, <2>3 DEF StoreTyped
<1>3. CASE CliLoads
  <2>1. cli' \in [op : {"writing"}, read : Project] /\ lock' = "cli"
    BY <1>3 DEF CliLoads, StoreTyped, FilesTyped
  <2> QED
    BY <1>3, <2>1 DEF CliLoads, StoreTyped, FilesTyped, TasksTyped, WindowTyped, fileVars, windowVars
<1>4. CASE CliSaves
  <2>1. cli \in [op : {"writing"}, read : Project]
    BY <1>4 DEF CliSaves, StoreTyped, TasksTyped
  <2>2. globalFile' \in Project
    BY <1>4, <2>1 DEF CliSaves, Project, Name
  <2> QED
    BY <1>4, <2>2 DEF CliSaves, StoreTyped, FilesTyped, TasksTyped, WindowTyped, windowVars
<1> QED
  BY <1>1, <1>2, <1>3, <1>4 DEF Backend

LEMMA NoEdit ==
  /\ \A e \in {None} \cup Edit : e # None <=> e \in Edit
  /\ \A e \in {None} \cup Edit : e = None <=> e.op = "none"
  /\ \A e \in {None} \cup Edit :
       e # None <=> e.op \in {"savingLocal", "flushing", "flushed", "unflushed", "removingLocal"}
  BY DEF None, Edit

LEMMA NoJob ==
  ASSUME WindowTyped
  PROVE  /\ job = None <=> job.op = "none"
         /\ job.op = "saving" <=> job = [op |-> "saving"]
         /\ job.op = "saved" <=> job = [op |-> "saved"]
         /\ job.op = "ordering" <=> job \in [op : {"ordering"}, before : Both]
         /\ job.op \in {"none", "saving", "saved", "ordering"}
  BY DEF None, WindowTyped

(* A call that awaits, goes on or returns leaves the others alone.              *)
LEMMA EditMoved ==
  ASSUME StoreTyped, NEW c \in Call, NEW e \in {None} \cup Edit, edit' = [edit EXCEPT ![c] = e]
  PROVE  /\ edit' \in [Call -> {None} \cup Edit] /\ edit'[c] = e
         /\ \A d \in Call : d # c => edit'[d] = edit[d]
  BY DEF StoreTyped, WindowTyped

LEMMA EditGoes ==
  ASSUME StoreTyped, NEW c \in Call, edit[c].op # "none",
         NEW op \in {"flushed", "unflushed", "removingLocal"},
         edit' = [edit EXCEPT ![c].op = op]
  PROVE  /\ edit[c] \in Edit
         /\ edit' \in [Call -> {None} \cup Edit] /\ edit'[c] \in Edit /\ edit'[c].op = op
         /\ edit'[c].before = edit[c].before /\ edit'[c].after = edit[c].after
         /\ \A d \in Call : d # c => edit'[d] = edit[d]
<1>1. edit[c] \in Edit
  BY NoEdit DEF StoreTyped, WindowTyped
<1> DEFINE e == [edit[c] EXCEPT !.op = op]
<1>2. e \in Edit /\ e.op = op /\ e.before = edit[c].before /\ e.after = edit[c].after
  BY <1>1 DEF Edit
<1>3. edit' = [edit EXCEPT ![c] = e]
  OBVIOUS
<1> HIDE DEF e
<1> QED
  BY <1>1, <1>2, <1>3, EditMoved

LEMMA Awaited ==
  ASSUME StoreTyped, NEW c \in Call, NEW op \in {"savingLocal", "flushing"}, NEW after \in Both,
         Awaits(c, op, after)
  PROVE  /\ edit[c] = None
         /\ edit' \in [Call -> {None} \cup Edit] /\ edit'[c] \in Edit
         /\ edit'[c].op = op /\ edit'[c].before = live /\ edit'[c].after = after
         /\ \A d \in Call : d # c => edit'[d] = edit[d]
         /\ mishaps \subseteq mishaps'
         /\ "overlap" \notin mishaps' => job.op # "ordering"
         /\ "stale" \notin mishaps' => \A d \in Call : edit[d] = None
<1> DEFINE e == [op |-> op, before |-> live, after |-> after]
<1>1. e \in Edit /\ e.op = op /\ e.before = live /\ e.after = after
  BY DEF Edit, StoreTyped, WindowTyped
<1>2. edit' = [edit EXCEPT ![c] = e]
  BY DEF Awaits
<1>3. mishaps \subseteq mishaps' /\ ("overlap" \notin mishaps' => job.op # "ordering")
  BY DEF Awaits, Overlap
<1>4. "stale" \notin mishaps' => \A d \in Call : edit[d] = None
  BY DEF Awaits
<1>5. edit[c] = None
  BY DEF Awaits
<1> HIDE DEF e
<1> QED
  BY <1>1, <1>2, <1>3, <1>4, <1>5, EditMoved

LEMMA Returned ==
  ASSUME StoreTyped, NEW c \in Call, Returns(c)
  PROVE  /\ edit' \in [Call -> {None} \cup Edit] /\ edit'[c] = None
         /\ \A d \in Call : d # c => edit'[d] = edit[d]
  BY DEF Returns, StoreTyped, WindowTyped

(* A save that ends lets the call go on that waits for it.                     *)
LEMMA LeavesTyped ==
  ASSUME StoreTyped, QueueInv, queue # <<>>, NEW result \in {"flushed", "unflushed"},
         Leaves(result)
  PROVE  /\ queue' \in Seq(Job) /\ job' = None
         /\ Len(queue') = Len(queue) - 1
         /\ \A k \in 1 .. Len(queue') : queue'[k] = queue[k + 1]
         /\ edit' \in [Call -> {None} \cup Edit]
         /\ Head(queue) \notin Call => edit' = edit
         /\ \A c \in Call : c # Head(queue) => edit'[c] = edit[c]
         /\ \A c \in Call : c = Head(queue) =>
              /\ edit[c] \in Edit /\ edit[c].op = "flushing"
              /\ edit'[c] \in Edit /\ edit'[c].op = result
              /\ edit'[c].before = edit[c].before /\ edit'[c].after = edit[c].after
              /\ \A k \in 1 .. Len(queue') : queue'[k] # c
<1>1. queue \in Seq(Job) /\ Len(queue) \in Nat \ {0} /\ Head(queue) = queue[1]
  BY DEF StoreTyped, WindowTyped
<1>2. /\ queue' = Tail(queue) /\ job' = None
      /\ edit' = IF Head(queue) \in Call THEN [edit EXCEPT ![Head(queue)].op = result] ELSE edit
  BY DEF Leaves
<1>3. queue' \in Seq(Job) /\ Len(queue') = Len(queue) - 1
  BY <1>1, <1>2
<1>4. \A k \in 1 .. Len(queue') : queue'[k] = queue[k + 1]
  BY <1>1, <1>2
<1>5. CASE Head(queue) \notin Call
  BY <1>2, <1>3, <1>4, <1>5 DEF StoreTyped, WindowTyped
<1>6. CASE Head(queue) \in Call
  <2>1. PICK c \in Call : c = Head(queue)
    BY <1>6
  <2>2. edit[c].op = "flushing" /\ \A n \in 1 .. Len(queue) : queue[n] = c => n = 1
    BY <1>1, <2>1 DEF QueueInv
  <2>3. edit' = [edit EXCEPT ![c].op = result]
    BY <1>2, <2>1
  <2>4. /\ edit[c] \in Edit
        /\ edit' \in [Call -> {None} \cup Edit] /\ edit'[c] \in Edit /\ edit'[c].op = result
        /\ edit'[c].before = edit[c].before /\ edit'[c].after = edit[c].after
        /\ \A d \in Call : d # c => edit'[d] = edit[d]
    BY <2>2, <2>3, EditGoes
  <2>5. \A k \in 1 .. Len(queue') : queue'[k] # c
    BY <1>1, <1>3, <1>4, <2>2
  <2> QED
    BY <1>2, <1>3, <1>4, <2>1, <2>2, <2>4, <2>5
<1> QED
  BY <1>5, <1>6

LEMMA AppendTyped ==
  ASSUME StoreTyped, NEW name \in Job, queue' = Append(queue, name)
  PROVE  /\ queue' \in Seq(Job) /\ Len(queue') = Len(queue) + 1 /\ Len(queue) \in Nat
         /\ \A k \in 1 .. Len(queue) : queue'[k] = queue[k]
         /\ queue'[Len(queue')] = name
  BY DEF StoreTyped, WindowTyped

(* A command only changes what is shown, or calls the backend.                  *)
LEMMA EditsTyped ==
  ASSUME StoreTyped, Edits PROVE StoreTyped'
<1> USE DEF StoreTyped
<1>1. CASE Touch \/ Reorder
  BY <1>1, AppendTyped DEF Touch, Reorder, MarkDirty, FilesTyped, TasksTyped, WindowTyped, Job,
    fileVars, backendVars
<1>2. ASSUME NEW a \in Agent, SaveGlobal(a) PROVE StoreTyped'
  BY <1>2, SavedTyped DEF SaveGlobal, AtOnce, MarkDirty, FilesTyped, TasksTyped, WindowTyped,
    fileVars
<1>3. ASSUME NEW c \in Call, NEW a \in Agent, SaveInProject(c, a) PROVE StoreTyped'
  <2>1. PICK after \in Both : after = SavedIn(live, a, "project")
    BY SavedTyped DEF WindowTyped
  <2>2. edit' \in [Call -> {None} \cup Edit]
    BY <1>3, <2>1, Awaited DEF SaveInProject
  <2>3. task' \in [Caller -> {None} \cup Save]
    BY <1>3, <2>1, CalledTyped, Callers DEF SaveInProject, SaveLocal
  <2> QED
    BY <1>3, <2>2, <2>3 DEF SaveInProject, FilesTyped, TasksTyped, WindowTyped, fileVars, windowVars
<1>4. ASSUME NEW c \in Call, NEW a \in Agent, SaveOverride(c, a) PROVE StoreTyped'
  <2>1. PICK after \in Both : after = SavedIn(live, a, "global")
    BY SavedTyped DEF WindowTyped
  <2>2. edit' \in [Call -> {None} \cup Edit] /\ live' \in Both
    BY <1>4, <2>1, Awaited DEF SaveOverride
  <2>3. queue' \in Seq(Job)
    BY <1>4, AppendTyped DEF SaveOverride, Job
  <2> QED
    BY <1>4, <2>2, <2>3 DEF SaveOverride, FilesTyped, TasksTyped, WindowTyped, fileVars, backendVars
<1>5. ASSUME NEW c \in Call, NEW a \in Agent, RemoveAgent(c, a) PROVE StoreTyped'
  <2>1. PICK after \in Both : after = Without(live, a)
    BY WithoutTyped DEF WindowTyped
  <2>2. CASE live.local[a] # Absent
    <3>1. edit' \in [Call -> {None} \cup Edit]
      BY <1>5, <2>1, <2>2, Awaited DEF RemoveAgent
    <3>2. task' \in [Caller -> {None} \cup Save]
      BY <1>5, <2>1, <2>2, CalledTyped, Callers DEF RemoveAgent, SaveLocal
    <3> QED
      BY <1>5, <2>2, <3>1, <3>2 DEF RemoveAgent, FilesTyped, TasksTyped, WindowTyped, fileVars
  <2>3. CASE live.local[a] = Absent
    BY <1>5, <2>1, <2>3 DEF RemoveAgent, AtOnce, MarkDirty, FilesTyped, TasksTyped, WindowTyped,
      fileVars
  <2> QED
    BY <2>2, <2>3
<1> QED
  BY <1>1, <1>2, <1>3, <1>4, <1>5 DEF Edits

LEMMA QueueTyped ==
  ASSUME StoreTyped, QueueInv, Persist \/ Persisted \/ OrderShown \/ OrderAnswered
  PROVE  StoreTyped'
<1> USE DEF StoreTyped
<1>1. CASE Persist
  <2>1. CASE dirty
    <3>1. task' \in [Caller -> {None} \cup Save]
      BY <1>1, <2>1, CalledTyped DEF Persist, Caller, WindowTyped
    <3> QED
      BY <1>1, <2>1, <3>1 DEF Persist, FilesTyped, TasksTyped, WindowTyped, fileVars
  <2>2. CASE ~dirty
    BY <1>1, <2>2, LeavesTyped DEF Persist, FilesTyped, TasksTyped, WindowTyped, fileVars
  <2> QED
    BY <2>1, <2>2
<1>2. CASE Persisted
  <2>1. job # None
    BY <1>2 DEF Persisted, None
  <2>2. queue # <<>>
    BY <2>1 DEF QueueInv
  <2>3. task' \in [Caller -> {None} \cup Save]
    BY <1>2, AnsweredTyped DEF Persisted, Caller
  <2>4. WindowTyped'
    BY <1>2, <2>2, LeavesTyped DEF Persisted, PersistFailed, WindowTyped
  <2> QED
    BY <1>2, <2>3, <2>4 DEF Persisted, FilesTyped, TasksTyped, fileVars
<1>3. CASE OrderShown
  <2>1. job # None
    BY <1>3 DEF OrderShown, None
  <2>2. queue # <<>>
    BY <2>1 DEF QueueInv
  <2>3. ASSUME NEW f \in Orders(live), live' = RerankedBoth(f, live),
               CallBackend("queue", "order", live'), job' = [op |-> "ordering", before |-> live],
               UNCHANGED <<queue, edit>>
        PROVE  StoreTyped'
    <3>1. live' \in Both
      BY <2>3, RerankedTyped DEF WindowTyped
    <3>2. task' \in [Caller -> {None} \cup Save]
      BY <2>3, <3>1, CalledTyped DEF Caller
    <3>3. job' \in [op : {"ordering"}, before : Both]
      BY <2>3 DEF WindowTyped
    <3> QED
      BY <1>3, <2>3, <3>1, <3>2, <3>3 DEF OrderShown, FilesTyped, TasksTyped, WindowTyped, fileVars
  <2>4. CASE Leaves("flushed") /\ UNCHANGED <<live, task, mishaps>>
    BY <1>3, <2>2, <2>4, LeavesTyped DEF OrderShown, FilesTyped, TasksTyped, WindowTyped, fileVars
  <2> QED
    BY <1>3, <2>3, <2>4 DEF OrderShown
<1>4. CASE OrderAnswered
  <2>1. job # None /\ job.before \in Both
    BY <1>4, NoJob DEF OrderAnswered
  <2>2. queue # <<>>
    BY <2>1 DEF QueueInv
  <2>3. task' \in [Caller -> {None} \cup Save]
    BY <1>4, AnsweredTyped DEF OrderAnswered, Caller
  <2>4. WindowTyped'
    BY <1>4, <2>1, <2>2, LeavesTyped DEF OrderAnswered, WindowTyped
  <2> QED
    BY <1>4, <2>3, <2>4 DEF OrderAnswered, FilesTyped, TasksTyped, fileVars
<1> QED
  BY <1>1, <1>2, <1>3, <1>4

LEMMA OthersTyped ==
  ASSUME StoreTyped,
         \/ Load \/ TimerFires \/ Crash
         \/ \E c \in Call : Flushed(c) \/ Unflushed(c) \/ OverrideRemoved(c) \/ LocalSaved(c)
  PROVE  StoreTyped'
<1> USE DEF StoreTyped
<1>1. CASE Load
  BY <1>1, LocalTyped DEF Load, FilesTyped, TasksTyped, WindowTyped, Project, Both, fileVars,
    backendVars
<1>2. CASE TimerFires
  BY <1>2, AppendTyped DEF TimerFires, FilesTyped, TasksTyped, WindowTyped, Job, fileVars,
    backendVars
<1>3. ASSUME NEW c \in Call, Flushed(c) PROVE StoreTyped'
  <2>1. edit[c].op = "flushed" /\ edit' = [edit EXCEPT ![c].op = "removingLocal"]
    BY <1>3 DEF Flushed
  <2>2. edit[c].after \in Both /\ edit' \in [Call -> {None} \cup Edit]
    BY <2>1, EditGoes DEF Edit
  <2>3. task' \in [Caller -> {None} \cup Save]
    BY <1>3, <2>2, CalledTyped, Callers DEF Flushed, SaveLocal
  <2> QED
    BY <1>3, <2>2, <2>3 DEF Flushed, FilesTyped, TasksTyped, WindowTyped, fileVars, windowVars
<1>4. ASSUME NEW c \in Call, Unflushed(c) PROVE StoreTyped'
  <2>1. edit[c] \in Edit
    BY <1>4, NoEdit DEF Unflushed, WindowTyped
  <2>2. live' \in Both /\ edit' \in [Call -> {None} \cup Edit]
    BY <1>4, <2>1, Returned DEF Unflushed, PutsBack, Edit
  <2> QED
    BY <1>4, <2>2 DEF Unflushed, FilesTyped, TasksTyped, WindowTyped, fileVars, backendVars
<1>5. ASSUME NEW c \in Call, OverrideRemoved(c) \/ LocalSaved(c) PROVE StoreTyped'
  <2>1. edit[c] \in Edit
    BY <1>5, NoEdit DEF OverrideRemoved, LocalSaved, WindowTyped
  <2>2. live' \in Both /\ dirty' \in BOOLEAN /\ edit' \in [Call -> {None} \cup Edit]
    <3>1. edit[c].before \in Both /\ edit[c].after \in Both
      BY <2>1 DEF Edit
    <3>2. [global |-> edit[c].after.global, local |-> edit[c].before.local] \in Both
      BY <3>1 DEF Both
    <3>3. edit' \in [Call -> {None} \cup Edit]
      BY <1>5, Returned DEF OverrideRemoved, LocalSaved
    <3> QED
      BY <1>5, <3>1, <3>2, <3>3 DEF OverrideRemoved, LocalSaved, PutsBack, MarkDirty, WindowTyped
  <2>3. task' \in [Caller -> {None} \cup Save]
    BY <1>5, AnsweredTyped, Callers DEF OverrideRemoved, LocalSaved
  <2> QED
    BY <1>5, <2>2, <2>3 DEF OverrideRemoved, LocalSaved, FilesTyped, TasksTyped, WindowTyped, fileVars
<1>6. CASE Crash
  <2>1. TasksTyped'
    <3>1. task' \in [Caller -> {None} \cup Save]
      BY <1>6 DEF Crash
    <3>2. lock' \in {Nobody, lock} /\ cli' = cli
      BY <1>6 DEF Crash
    <3> QED
      BY <3>1, <3>2 DEF TasksTyped
  <2>2. WindowTyped'
    <3>1. /\ window' = "closed" /\ live' = Alone(Empty) /\ title' = "first" /\ dirty' = FALSE
          /\ queue' = <<>> /\ job' = None /\ edit' = [c \in Call |-> None]
      BY <1>6 DEF Crash, Closed
    <3>2. <<>> \in Seq(Job) /\ "first" \in Name
      BY DEF Name
    <3> QED
      BY <3>1, <3>2, EmptyTyped DEF WindowTyped
  <2> QED
    BY <1>6, <2>1, <2>2 DEF Crash, FilesTyped, fileVars
<1> QED
  BY <1>1, <1>2, <1>3, <1>4, <1>5, <1>6

LEMMA TypedNext == StoreTyped /\ QueueInv /\ [Next]_vars => StoreTyped'
<1> SUFFICES ASSUME StoreTyped, QueueInv, [Next]_vars PROVE StoreTyped'
  OBVIOUS
<1>1. CASE UNCHANGED vars
  BY <1>1 DEF vars, StoreTyped, FilesTyped, TasksTyped, WindowTyped, fileVars, backendVars, windowVars
<1> QED
  BY <1>1, BackendTyped, EditsTyped, QueueTyped, OthersTyped DEF Next, Window

-----------------------------------------------------------------------------
(* Control *)

LEMMA ControlInit == Init => ControlInv
<1> SUFFICES ASSUME Init PROVE ControlInv
  OBVIOUS
<1>1. \A c \in Caller : task[c].op = "none"
  BY DEF Init, None
<1>2. lock = Nobody /\ cli.op = "idle" /\ job = None /\ queue = <<>>
        /\ \A c \in Call : edit[c] = None
  BY DEF Init
<1>3. LockInv
  BY <1>1, <1>2, Callers DEF LockInv, Busy, Halfway
<1>4. CallsInv
  BY <1>2, Callers DEF Init, CallsInv, None
<1>5. QueueInv /\ ClosedInv
  BY <1>2 DEF Init, QueueInv, ClosedInv, NoEdits, None
<1> QED
  BY <1>3, <1>4, <1>5 DEF ControlInv

(* The window calls the backend for a caller that waits for nothing, and takes   *)
(* the answer of one that waits.                                              *)
LEMMA WindowCalls ==
  ASSUME StoreTyped, CallsInv, Edits \/ Window
  PROVE  /\ UNCHANGED <<globalFile, localFile, lock, cli>>
         /\ \/ UNCHANGED task
            \/ \E c \in Caller :
                 /\ \/ task[c] = None /\ task'[c] \in Save /\ task'[c].op = "waiting"
                    \/ task[c] \in Save /\ Answered(c) /\ task'[c] = None
                 /\ \A d \in Caller : d # c => task'[d] = task[d]
<1> DEFINE Goal == \E c \in Caller :
                     /\ \/ task[c] = None /\ task'[c] \in Save /\ task'[c].op = "waiting"
                        \/ task[c] \in Save /\ Answered(c) /\ task'[c] = None
                     /\ \A d \in Caller : d # c => task'[d] = task[d]
<1>1. UNCHANGED <<globalFile, localFile, lock, cli>>
  BY DEF Edits, Window, Touch, Reorder, SaveGlobal, SaveInProject, SaveOverride, RemoveAgent, Load,
    TimerFires, Persist, Persisted, OrderShown, OrderAnswered, Flushed, Unflushed, OverrideRemoved,
    LocalSaved, fileVars, backendVars
<1>2. ASSUME NEW c \in Caller, task[c] = None, NEW kind \in {"snapshot", "local", "order"},
             NEW both \in Both, CallBackend(c, kind, both)
      PROVE  Goal
  <2>1. task'[c] \in Save /\ task'[c].op = "waiting" /\ \A d \in Caller : d # c => task'[d] = task[d]
    <3>1. task' \in [Caller -> {None} \cup Save]
          /\ task'[c] = [op |-> "waiting", kind |-> kind, to |-> both, name |-> title,
                         from |-> globalFile]
          /\ \A d \in Caller : d # c => task'[d] = task[d]
      BY <1>2, CalledTyped
    <3>2. task'[c] \in {None} \cup Save
      BY <3>1
    <3>3. task'[c].op = "waiting"
      BY <3>1
    <3> QED
      BY <3>1, <3>2, <3>3, NoTask DEF TaskOp
  <2> QED
    BY <1>2, <2>1
<1>3. ASSUME NEW c \in Caller, Answered(c), task' = [task EXCEPT ![c] = None]
      PROVE  Goal
  <2>1. task[c] \in Save
    BY <1>3, NoTask DEF Answered, TaskOp, StoreTyped, TasksTyped
  <2> QED
    BY <1>3, <2>1, AnsweredTyped
<1>4. live \in Both /\ "queue" \in Caller /\ \A c \in Call : c \in Caller
  BY Callers DEF StoreTyped, WindowTyped
<1>5. UNCHANGED task \/ Goal
  <2> HIDE DEF Goal
  <2>1. CASE \/ Touch \/ Reorder \/ Load \/ TimerFires \/ \E c \in Call : Unflushed(c)
             \/ \E a \in Agent : SaveGlobal(a) \/ \E c \in Call : SaveOverride(c, a)
    BY <2>1 DEF Touch, Reorder, Load, TimerFires, Unflushed, SaveGlobal, AtOnce, SaveOverride,
      backendVars
  <2>2. ASSUME NEW c \in Call, NEW a \in Agent, SaveInProject(c, a) PROVE Goal
    <3>1. edit[c] = None /\ task[c] = None
      BY <2>2 DEF SaveInProject, Awaits, CallsInv, None
    <3> QED
      BY <1>2, <1>4, <2>2, <3>1, SavedTyped DEF SaveInProject, SaveLocal
  <2>3. ASSUME NEW c \in Call, NEW a \in Agent, RemoveAgent(c, a) PROVE UNCHANGED task \/ Goal
    <3>1. CASE live.local[a] # Absent
      <4>1. edit[c] = None /\ task[c] = None
        BY <2>3, <3>1 DEF RemoveAgent, Awaits, CallsInv, None
      <4> QED
        BY <1>2, <1>4, <2>3, <3>1, <4>1, WithoutTyped DEF RemoveAgent, SaveLocal
    <3>2. CASE live.local[a] = Absent
      BY <2>3, <3>2 DEF RemoveAgent, AtOnce
    <3> QED
      BY <3>1, <3>2
  <2>4. CASE Persist
    <3>1. task["queue"] = None
      BY <2>4 DEF Persist, CallsInv, None
    <3> QED
      BY <1>2, <1>4, <2>4, <3>1 DEF Persist
  <2>5. CASE Persisted
    BY <1>3, <1>4, <2>5 DEF Persisted
  <2>6. CASE OrderShown
    <3>1. task["queue"] = None
      BY <2>6 DEF OrderShown, CallsInv
    <3>2. ASSUME NEW f \in Orders(live), live' = RerankedBoth(f, live),
                 CallBackend("queue", "order", live')
          PROVE  Goal
      BY <1>2, <1>4, <3>1, <3>2, RerankedTyped
    <3> QED
      BY <2>6, <3>2 DEF OrderShown
  <2>7. CASE OrderAnswered
    BY <1>3, <1>4, <2>7 DEF OrderAnswered
  <2>8. ASSUME NEW c \in Call, Flushed(c) PROVE Goal
    <3>1. task[c] = None /\ edit[c] \in Edit
      BY <2>8, NoEdit DEF Flushed, CallsInv, StoreTyped, WindowTyped
    <3>2. edit[c].after \in Both
      BY <3>1 DEF Edit
    <3> QED
      BY <1>2, <1>4, <2>8, <3>1, <3>2 DEF Flushed, SaveLocal
  <2>9. ASSUME NEW c \in Call, OverrideRemoved(c) \/ LocalSaved(c) PROVE Goal
    BY <1>3, <1>4, <2>9 DEF OverrideRemoved, LocalSaved
  <2> QED
    BY <2>1, <2>2, <2>3, <2>4, <2>5, <2>6, <2>7, <2>8, <2>9 DEF Edits, Window
<1> QED
  BY <1>1, <1>5

LEMMA LockWindow ==
  ASSUME StoreTyped, LockInv, CallsInv, Edits \/ Window PROVE LockInv'
<1>1. UNCHANGED <<globalFile, lock, cli>>
  BY WindowCalls
<1>2. CASE UNCHANGED task
  BY <1>1, <1>2 DEF LockInv, Halfway
<1>3. ASSUME NEW c \in Caller,
             \/ task[c] = None /\ task'[c] \in Save /\ task'[c].op = "waiting"
             \/ task[c] \in Save /\ Answered(c) /\ task'[c] = None,
             \A d \in Caller : d # c => task'[d] = task[d]
      PROVE  LockInv'
  <2>1. task[c].op \notin Busy /\ task'[c].op \notin Busy
    BY <1>3 DEF Busy, None, Answered
  <2>2. ~Halfway(task[c]) /\ ~Halfway(task'[c]) /\ task'[c].op # "writing"
    BY <2>1 DEF Busy, Halfway
  <2>3. ASSUME NEW d \in Caller
        PROVE  /\ lock' = d <=> task'[d].op \in Busy
               /\ task'[d].op = "writing" => task'[d].from = globalFile'
               /\ Halfway(task'[d]) =>
                    /\ task'[d].from.name = globalFile'.name
                    /\ globalFile'.agents = task'[d].to.global
    BY <1>1, <1>3, <2>1, <2>2, <2>3 DEF LockInv
  <2>4. lock' = "cli" <=> cli'.op = "writing"
    BY <1>1 DEF LockInv
  <2>5. cli'.op = "writing" => cli'.read = globalFile'
    BY <1>1 DEF LockInv
  <2> QED
    BY <2>3, <2>4, <2>5 DEF LockInv
<1> QED
  BY <1>2, <1>3, WindowCalls

LEMMA LockBackend ==
  ASSUME StoreTyped, LockInv, Backend \/ CliLoads \/ CliSaves PROVE LockInv'
<1> DEFINE Holds(d) ==
      /\ lock' = d <=> task'[d].op \in Busy
      /\ task'[d].op = "writing" => task'[d].from = globalFile'
      /\ Halfway(task'[d]) =>
           /\ task'[d].from.name = globalFile'.name
           /\ globalFile'.agents = task'[d].to.global
<1> DEFINE HoldsCli ==
      /\ lock' = "cli" <=> cli'.op = "writing"
      /\ cli'.op = "writing" => cli'.read = globalFile'
<1>0. (\A d \in Caller : Holds(d)) /\ HoldsCli => LockInv'
  BY DEF LockInv
<1>a. Nobody # "cli" /\ \A d \in Caller : d # Nobody /\ d # "cli"
  BY Callers
<1>1. ASSUME NEW c \in Caller, Acquire(c) PROVE LockInv'
  <2>1. lock = Nobody /\ globalFile' = globalFile /\ cli' = cli
    BY <1>1 DEF Acquire, fileVars
  <2>2. ASSUME NEW d \in Caller, d # c PROVE Holds(d)
    BY <1>1, <1>a, <2>1, <2>2, AcquireTyped DEF LockInv, Busy, Halfway
  <2>3. Holds(c)
    BY <1>1, <1>a, <2>1, AcquireTyped DEF Busy, Halfway
  <2>4. HoldsCli
    BY <1>1, <1>a, <2>1, AcquireTyped DEF LockInv
  <2> QED
    BY <1>0, <2>2, <2>3, <2>4
<1>2. ASSUME NEW c \in Caller, NEW outcome \in Written, Write(c, outcome) PROVE LockInv'
  <2>1. lock = c /\ cli' = cli
    BY <1>2, WriteTyped DEF LockInv, Write
  <2>2. ASSUME NEW d \in Caller, d # c PROVE Holds(d)
    <3>1. task[d].op \notin Busy
      BY <2>1, <2>2 DEF LockInv
    <3>2. task'[d] = task[d] /\ lock' \in {Nobody, c}
      BY <1>2, <2>1, <2>2, WriteTyped
    <3> QED
      BY <1>a, <2>2, <3>1, <3>2 DEF Busy, Halfway
  <2>3. Holds(c)
    <3>1. CASE task'[c].op \in {"ok", "err"}
      BY <1>2, <1>a, <3>1, WriteTyped DEF Busy, Halfway
    <3>2. CASE task'[c].op = "writingLocal"
      <4>1. task[c].op = "writing" /\ lock' = c /\ task[c].kind = "order"
        BY <1>2, <2>1, <3>2, WriteTyped
      <4>2. OrderWrite(c, outcome) /\ outcome = "ok"
        <5>1. OrderWrite(c, outcome)
          BY <1>2, <4>1 DEF Write, SnapshotWrite, LocalWrite, RollBack
        <5>2. CASE outcome # "ok"
          <6>1. Ends(c, "err")
            BY <5>1, <5>2 DEF OrderWrite
          <6>2. lock' = Nobody
            BY <6>1 DEF Ends
          <6> QED
            BY <4>1, <6>2, <1>a
        <5> QED
          BY <5>1, <5>2
      <4>3. task[c] \in Save /\ task[c].from \in Project
        BY <1>2, WriteTyped DEF Save
      <4>4. globalFile' = [task[c].from EXCEPT !.agents = task[c].to.global]
        BY <4>2 DEF OrderWrite, Replaces
      <4>5. globalFile'.agents = task[c].to.global /\ globalFile'.name = task[c].from.name
        BY <4>3, <4>4 DEF Project
      <4> QED
        BY <1>2, <3>2, <4>1, <4>5, WriteTyped DEF Busy
    <3>3. CASE task'[c].op = "rollingBack"
      <4>1. task[c].op = "writingLocal" /\ lock' = c /\ task[c].kind = "order"
        BY <1>2, <2>1, <3>3, WriteTyped
      <4>2. globalFile' = globalFile
        BY <1>2, <4>1 DEF Write, SnapshotWrite, OrderWrite, LocalWrite, RollBack
      <4>3. task[c].from.name = globalFile.name /\ globalFile.agents = task[c].to.global
        BY <4>1 DEF LockInv, Halfway
      <4> QED
        BY <1>2, <3>3, <4>1, <4>2, <4>3, WriteTyped DEF Busy
    <3> QED
      BY <1>2, <3>1, <3>2, <3>3, WriteTyped
  <2>4. HoldsCli
    <3>1. lock' # "cli" /\ lock # "cli"
      BY <1>2, <1>a, <2>1, WriteTyped
    <3> QED
      BY <2>1, <3>1 DEF LockInv
  <2> QED
    BY <1>0, <2>2, <2>3, <2>4
<1>3. CASE CliLoads
  <2>1. lock = Nobody /\ lock' = "cli" /\ task' = task /\ globalFile' = globalFile
        /\ cli' = [op |-> "writing", read |-> globalFile]
    BY <1>3 DEF CliLoads, fileVars
  <2>2. ASSUME NEW d \in Caller PROVE Holds(d)
    BY <1>a, <2>1, <2>2 DEF LockInv
  <2> QED
    BY <1>0, <2>1, <2>2
<1>4. CASE CliSaves
  <2>1. lock = "cli" /\ lock' = Nobody /\ task' = task /\ cli'.op = "done"
    BY <1>4 DEF CliSaves, LockInv
  <2>2. ASSUME NEW d \in Caller PROVE Holds(d)
    <3>1. task[d].op \notin Busy
      BY <1>a, <2>1 DEF LockInv
    <3> QED
      BY <1>a, <2>1, <3>1 DEF Busy, Halfway
  <2> QED
    BY <1>0, <1>a, <2>1, <2>2
<1> QED
  BY <1>1, <1>2, <1>3, <1>4 DEF Backend

LEMMA ControlBackend ==
  ASSUME StoreTyped, ControlInv, Backend \/ CliLoads \/ CliSaves PROVE ControlInv'
<1>1. LockInv'
  BY LockBackend DEF ControlInv
<1>2. UNCHANGED <<window, live, dirty, queue, job, edit>>
  BY DEF Backend, Acquire, Write, CliLoads, CliSaves, windowVars
<1>3. QueueInv' /\ ClosedInv'
  BY <1>2 DEF ControlInv, QueueInv, ClosedInv, NoEdits
<1>4. ASSUME NEW c \in Caller,
             \A d \in Caller : d # c => task'[d] = task[d],
             task[c] \in Save, task'[c] \in Save,
             task'[c].kind = task[c].kind, task'[c].to = task[c].to,
             \/ task'[c].op \in {"ok", "err"}
             \/ task'[c].op = "writing" /\ task'[c].kind # "local"
             \/ task'[c].op = "writingLocal" /\ task'[c].kind # "snapshot"
             \/ task'[c].kind = "order"
      PROVE  CallsInv'
  <2>1. CallsInv /\ task[c] # None /\ task'[c] # None
    BY <1>4, NoTask DEF ControlInv, Save
  <2>2. CASE c = "queue"
    <3>1. \A d \in Call : task'[d] = task[d]
      BY <1>4, <2>2, Callers
    <3> QED
      BY <1>2, <1>4, <2>1, <2>2, <3>1 DEF CallsInv
  <2>3. CASE c \in Call
    <3>1. task'["queue"] = task["queue"]
      BY <1>4, <2>3, Callers
    <3>2. ASSUME NEW d \in Call, d # c PROVE task'[d] = task[d]
      BY <1>4, <3>2, Callers
    <3> QED
      BY <1>2, <1>4, <2>1, <2>3, <3>1, <3>2 DEF CallsInv
  <2> QED
    BY <2>2, <2>3, Callers
<1>5. ASSUME NEW c \in Caller, Acquire(c) PROVE CallsInv'
  <2>1. task[c] \in Save
    BY <1>5, AcquireTyped, NoTask DEF StoreTyped, TasksTyped
  <2>2. \/ task'[c].op \in {"ok", "err"}
        \/ task'[c].op = "writing" /\ task'[c].kind # "local"
        \/ task'[c].op = "writingLocal" /\ task'[c].kind # "snapshot"
        \/ task'[c].kind = "order"
    BY <1>5, AcquireTyped
  <2> QED
    BY <1>4, <1>5, <2>1, <2>2, AcquireTyped
<1>6. ASSUME NEW c \in Caller, NEW outcome \in Written, Write(c, outcome) PROVE CallsInv'
  BY <1>4, <1>6, WriteTyped
<1>7. ASSUME CliLoads \/ CliSaves PROVE CallsInv'
  <2>1. UNCHANGED task
    BY <1>7 DEF CliLoads, CliSaves
  <2> QED
    BY <1>2, <2>1 DEF ControlInv, CallsInv
<1>8. CallsInv'
  BY <1>5, <1>6, <1>7 DEF Backend
<1> QED
  BY <1>1, <1>3, <1>8 DEF ControlInv

(* What the steps of the window do to the queue, when no call moves that waits   *)
(* in it.                                                                      *)
LEMMA EditMoves ==
  ASSUME StoreTyped, QueueInv, UNCHANGED <<queue, job>>,
         \A c \in Call : edit[c].op = "flushing" => edit'[c] = edit[c]
  PROVE  QueueInv'
<1>1. \A k \in 1 .. Len(queue) : queue[k] \in Call => edit'[queue[k]] = edit[queue[k]]
  BY DEF QueueInv
<1> QED
  BY <1>1 DEF QueueInv

LEMMA QueueGrows ==
  ASSUME StoreTyped, QueueInv, NEW name \in {"save", "order"}, queue' = Append(queue, name),
         UNCHANGED <<job, edit>>
  PROVE  QueueInv'
<1>1. name \in Job /\ name \notin Call
  BY Callers DEF Job
<1>2. Len(queue) \in Nat /\ Len(queue') = Len(queue) + 1
      /\ (\A k \in 1 .. Len(queue) : queue'[k] = queue[k]) /\ queue'[Len(queue')] = name
  BY <1>1, AppendTyped
<1>3. \A k \in 1 .. Len(queue') : queue'[k] \in Call => k \in 1 .. Len(queue)
  BY <1>1, <1>2
<1>4. queue' # <<>> /\ (queue # <<>> => queue'[1] = queue[1])
  BY <1>2 DEF StoreTyped, WindowTyped
<1>5. \A k \in 1 .. Len(queue') : queue'[k] \in Call =>
        edit'[queue'[k]].op = "flushing" /\ \A n \in 1 .. Len(queue') : queue'[n] = queue'[k] => n = k
  BY <1>2, <1>3 DEF QueueInv
<1>6. job' # None => queue' # <<>>
  BY <1>4
<1>7. job'.op \in {"saved", "ordering"} => queue'[1] = "order"
  BY <1>4 DEF QueueInv, None
<1> QED
  BY <1>5, <1>6, <1>7 DEF QueueInv

LEMMA QueueShrinks ==
  ASSUME StoreTyped, QueueInv, queue # <<>>, NEW result \in {"flushed", "unflushed"},
         Leaves(result)
  PROVE  QueueInv'
<1>1. Len(queue) \in Nat /\ Len(queue') = Len(queue) - 1 /\ job' = None
      /\ \A k \in 1 .. Len(queue') : queue'[k] = queue[k + 1]
  BY LeavesTyped DEF StoreTyped, WindowTyped
<1>2. ASSUME NEW k \in 1 .. Len(queue'), queue'[k] \in Call
      PROVE  /\ edit'[queue'[k]].op = "flushing"
             /\ \A n \in 1 .. Len(queue') : queue'[n] = queue'[k] => n = k
  <2>1. k + 1 \in 1 .. Len(queue) /\ queue'[k] = queue[k + 1] /\ Head(queue) = queue[1]
    BY <1>1, <1>2 DEF StoreTyped, WindowTyped
  <2>2. edit[queue[k + 1]].op = "flushing"
        /\ \A n \in 1 .. Len(queue) : queue[n] = queue[k + 1] => n = k + 1
    BY <1>2, <2>1 DEF QueueInv
  <2>3. queue[1] # queue[k + 1]
    BY <1>1, <2>1, <2>2
  <2>4. edit'[queue'[k]] = edit[queue'[k]]
    BY <1>2, <2>1, <2>3, LeavesTyped
  <2> QED
    BY <1>1, <2>1, <2>2, <2>4
<1> QED
  BY <1>1, <1>2 DEF QueueInv, None

LEMMA QueueWindow ==
  ASSUME StoreTyped, ControlInv, Edits \/ Window PROVE QueueInv'
<1>a. QueueInv
  BY DEF ControlInv
<1>b. \A c \in Call : edit[c] = None => edit[c].op # "flushing"
  BY DEF None
<1>1. CASE Touch \/ Load \/ \E a \in Agent : SaveGlobal(a)
  BY <1>1, <1>a DEF Touch, Load, SaveGlobal, AtOnce, QueueInv
<1>2. CASE TimerFires \/ Reorder
  BY <1>2, <1>a, QueueGrows DEF TimerFires, Reorder
<1>3. ASSUME NEW c \in Call, NEW a \in Agent, SaveInProject(c, a) \/ RemoveAgent(c, a)
      PROVE  QueueInv'
  <2>1. UNCHANGED <<queue, job>>
    BY <1>3 DEF SaveInProject, RemoveAgent, windowVars
  <2>2. CASE edit' = edit
    BY <1>a, <2>1, <2>2 DEF QueueInv
  <2>3. ASSUME NEW after \in Both, Awaits(c, "savingLocal", after) PROVE QueueInv'
    BY <1>a, <1>b, <2>1, <2>3, Awaited, EditMoves
  <2> QED
    BY <1>3, <2>2, <2>3, SavedTyped, WithoutTyped
      DEF SaveInProject, RemoveAgent, AtOnce, StoreTyped, WindowTyped
<1>4. ASSUME NEW c \in Call, NEW a \in Agent, SaveOverride(c, a) PROVE QueueInv'
  <2>1. PICK after \in Both : Awaits(c, "flushing", after)
    BY <1>4, SavedTyped DEF SaveOverride, StoreTyped, WindowTyped
  <2>2. /\ edit[c].op # "flushing" /\ edit'[c].op = "flushing" /\ job' = job
        /\ \A d \in Call : d # c => edit'[d] = edit[d]
        /\ queue' = Append(queue, c)
    BY <1>4, <1>b, <2>1, Awaited DEF SaveOverride
  <2>3. /\ queue' \in Seq(Job) /\ Len(queue) \in Nat /\ Len(queue') = Len(queue) + 1
        /\ (\A k \in 1 .. Len(queue) : queue'[k] = queue[k]) /\ queue'[Len(queue')] = c
    BY <2>2, AppendTyped DEF Job
  <2>4. \A k \in 1 .. Len(queue) : queue[k] # c
    BY <1>a, <2>2 DEF QueueInv
  <2>5. ASSUME NEW k \in 1 .. Len(queue'), queue'[k] \in Call
        PROVE  /\ edit'[queue'[k]].op = "flushing"
               /\ \A n \in 1 .. Len(queue') : queue'[n] = queue'[k] => n = k
    <3>1. CASE k = Len(queue')
      BY <2>2, <2>3, <2>4, <3>1
    <3>2. CASE k # Len(queue')
      <4>1. k \in 1 .. Len(queue) /\ queue'[k] = queue[k] /\ queue[k] # c
        BY <2>3, <2>4, <3>2
      <4>2. edit[queue[k]].op = "flushing" /\ \A n \in 1 .. Len(queue) : queue[n] = queue[k] => n = k
        BY <1>a, <2>5, <4>1 DEF QueueInv
      <4>3. edit'[queue[k]] = edit[queue[k]]
        BY <2>2, <2>5, <4>1
      <4> QED
        BY <2>3, <4>1, <4>2, <4>3
    <3> QED
      BY <3>1, <3>2
  <2>6. queue' # <<>> /\ (queue # <<>> => queue'[1] = queue[1])
    BY <2>3 DEF StoreTyped, WindowTyped
  <2>7. (job' # None => queue' # <<>>) /\ (job'.op \in {"saved", "ordering"} => queue'[1] = "order")
    BY <1>a, <2>2, <2>6 DEF QueueInv, None
  <2> QED
    BY <2>5, <2>7 DEF QueueInv
<1>5. ASSUME NEW c \in Call, Flushed(c) \/ Unflushed(c) \/ OverrideRemoved(c) \/ LocalSaved(c)
      PROVE  QueueInv'
  <2>1. UNCHANGED <<queue, job>> /\ edit[c].op \notin {"flushing", "none"}
    BY <1>5 DEF Flushed, Unflushed, OverrideRemoved, LocalSaved, windowVars
  <2>2. \A d \in Call : d # c => edit'[d] = edit[d]
    BY <1>5, <2>1, EditGoes, Returned DEF Flushed, Unflushed, OverrideRemoved, LocalSaved
  <2> QED
    BY <1>a, <2>1, <2>2, EditMoves
<1>6. CASE Persist
  <2>1. queue # <<>> /\ Head(queue) = queue[1]
    BY <1>6 DEF Persist, StoreTyped, WindowTyped
  <2>2. CASE dirty \/ Head(queue) = "order"
    BY <1>6, <1>a, <2>1, <2>2 DEF Persist, QueueInv
  <2>3. CASE ~(dirty \/ Head(queue) = "order")
    BY <1>6, <1>a, <2>1, <2>3, QueueShrinks DEF Persist
  <2> QED
    BY <2>2, <2>3
<1>7. CASE Persisted
  <2>1. queue # <<>> /\ Head(queue) = queue[1]
    BY <1>7, <1>a DEF Persisted, QueueInv, StoreTyped, WindowTyped, None
  <2>2. CASE UNCHANGED <<queue, edit>> /\ job' = [op |-> "saved"] /\ Head(queue) = "order"
    BY <1>a, <2>1, <2>2 DEF QueueInv
  <2>3. CASE Leaves("flushed") \/ Leaves("unflushed")
    BY <1>a, <2>1, <2>3, QueueShrinks
  <2> QED
    BY <1>7, <2>2, <2>3 DEF Persisted
<1>8. CASE OrderShown
  <2>1. queue # <<>> /\ queue[1] = "order"
    BY <1>8, <1>a DEF OrderShown, QueueInv, None
  <2>2. CASE Leaves("flushed")
    BY <1>a, <2>1, <2>2, QueueShrinks
  <2>3. CASE UNCHANGED <<queue, edit>>
    BY <1>a, <2>1, <2>3 DEF QueueInv
  <2> QED
    BY <1>8, <2>2, <2>3 DEF OrderShown
<1>9. CASE OrderAnswered
  <2>1. queue # <<>>
    BY <1>9, <1>a DEF OrderAnswered, QueueInv, None
  <2> QED
    BY <1>9, <1>a, <2>1, QueueShrinks DEF OrderAnswered
<1> QED
  BY <1>1, <1>2, <1>3, <1>4, <1>5, <1>6, <1>7, <1>8, <1>9 DEF Edits, Window

LEMMA CallsWindow ==
  ASSUME StoreTyped, ControlInv, Edits \/ Window PROVE CallsInv'
<1>a. CallsInv /\ QueueInv
  BY DEF ControlInv
<1>c. live \in Both /\ "queue" \in Caller /\ \A c \in Call : c \in Caller /\ c # "queue"
  BY Callers DEF StoreTyped, WindowTyped
<1>e. ASSUME NEW c \in Call, job' = job,
             \A d \in Call : d # c => edit'[d] = edit[d],
             \A d \in Caller : d # c => task'[d] = task[d],
             edit'[c].op \notin {"savingLocal", "removingLocal"} => task'[c] = None,
             edit'[c].op \in {"savingLocal", "removingLocal"} =>
               /\ task'[c].kind = "local" /\ task'[c].op \in {"waiting", "writingLocal", "ok", "err"}
               /\ task'[c].to = edit'[c].after
      PROVE  CallsInv'
  <2>1. task'["queue"] = task["queue"] /\ \A d \in Call : d # c => task'[d] = task[d]
    BY <1>c, <1>e
  <2> QED
    BY <1>a, <1>e, <2>1 DEF CallsInv
<1>1. CASE Touch \/ Load \/ TimerFires \/ Reorder \/ \E a \in Agent : SaveGlobal(a)
  BY <1>1, <1>a DEF Touch, Load, TimerFires, Reorder, SaveGlobal, AtOnce, backendVars, CallsInv
<1>2. ASSUME NEW c \in Call, NEW a \in Agent, SaveInProject(c, a) PROVE CallsInv'
  <2>1. PICK after \in Both : after = SavedIn(live, a, "project")
    BY <1>c, SavedTyped
  <2>2. CallBackend(c, "local", after) /\ Awaits(c, "savingLocal", after) /\ job' = job
    BY <1>2, <2>1 DEF SaveInProject, SaveLocal, windowVars
  <2> QED
    BY <1>c, <1>e, <2>2, Called, Awaited
<1>3. ASSUME NEW c \in Call, NEW a \in Agent, RemoveAgent(c, a) PROVE CallsInv'
  <2>1. PICK after \in Both : after = Without(live, a)
    BY <1>c, WithoutTyped
  <2>2. CASE live.local[a] # Absent
    <3>1. CallBackend(c, "local", after) /\ Awaits(c, "savingLocal", after) /\ job' = job
      BY <1>3, <2>1, <2>2 DEF RemoveAgent, SaveLocal
    <3> QED
      BY <1>c, <1>e, <3>1, Called, Awaited
  <2>3. CASE live.local[a] = Absent
    BY <1>3, <1>a, <2>3 DEF RemoveAgent, AtOnce, CallsInv
  <2> QED
    BY <2>2, <2>3
<1>4. ASSUME NEW c \in Call, NEW a \in Agent, SaveOverride(c, a) PROVE CallsInv'
  <2>1. PICK after \in Both : Awaits(c, "flushing", after)
    BY <1>4, <1>c, SavedTyped DEF SaveOverride
  <2>2. task' = task /\ job' = job
    BY <1>4 DEF SaveOverride, backendVars
  <2>3. task[c] = None /\ edit'[c].op = "flushing" /\ \A d \in Call : d # c => edit'[d] = edit[d]
    BY <1>a, <2>1, Awaited DEF CallsInv, None
  <2> QED
    BY <1>c, <1>e, <2>2, <2>3
<1>5. ASSUME NEW c \in Call, Flushed(c) PROVE CallsInv'
  <2>1. edit[c].op = "flushed" /\ edit' = [edit EXCEPT ![c].op = "removingLocal"]
    BY <1>5 DEF Flushed
  <2>2. /\ edit[c].after \in Both
        /\ edit'[c].op = "removingLocal" /\ edit'[c].after = edit[c].after
        /\ \A d \in Call : d # c => edit'[d] = edit[d]
    BY <2>1, EditGoes DEF Edit
  <2>3. CallBackend(c, "local", edit[c].after) /\ job' = job
    BY <1>5 DEF Flushed, SaveLocal, windowVars
  <2> QED
    BY <1>c, <1>e, <2>2, <2>3, Called
<1>6. ASSUME NEW c \in Call, Unflushed(c) PROVE CallsInv'
  <2>1. edit[c].op = "unflushed" /\ task' = task /\ job' = job
    BY <1>6 DEF Unflushed, backendVars
  <2>2. task[c] = None /\ edit'[c].op = "none" /\ \A d \in Call : d # c => edit'[d] = edit[d]
    BY <1>6, <1>a, <2>1, Returned DEF Unflushed, CallsInv, None
  <2> QED
    BY <1>c, <1>e, <2>1, <2>2
<1>7. ASSUME NEW c \in Call, OverrideRemoved(c) \/ LocalSaved(c) PROVE CallsInv'
  <2>1. Returns(c) /\ task' = [task EXCEPT ![c] = None] /\ job' = job
    BY <1>7 DEF OverrideRemoved, LocalSaved
  <2>2. edit'[c].op = "none" /\ \A d \in Call : d # c => edit'[d] = edit[d]
    BY <2>1, Returned DEF None
  <2>3. task'[c] = None /\ \A d \in Caller : d # c => task'[d] = task[d]
    BY <1>c, <2>1, AnsweredTyped
  <2> QED
    BY <1>e, <2>1, <2>2, <2>3
<1>d. ASSUME Leaves("flushed") \/ Leaves("unflushed"), queue # <<>>,
             \A c \in Call : task'[c] = task[c], task'["queue"] = None
      PROVE  CallsInv'
  <2>1. job'.op = "none"
    BY <1>d DEF Leaves, None
  <2>2. ASSUME NEW c \in Call
        PROVE  \/ edit'[c] = edit[c]
               \/ edit[c].op = "flushing" /\ edit'[c].op \in {"flushed", "unflushed"}
    <3>1. PICK result \in {"flushed", "unflushed"} : Leaves(result)
      BY <1>d
    <3> QED
      BY <1>a, <1>d, <3>1, LeavesTyped
  <2>3. ASSUME NEW c \in Call
        PROVE  /\ edit'[c].op \notin {"savingLocal", "removingLocal"} => task'[c] = None
               /\ edit'[c].op \in {"savingLocal", "removingLocal"} =>
                    /\ task'[c].kind = "local"
                    /\ task'[c].op \in {"waiting", "writingLocal", "ok", "err"}
                    /\ task'[c].to = edit'[c].after
    <3>1. task'[c] = task[c]
      BY <1>d
    <3>2. CASE edit'[c] = edit[c]
      BY <1>a, <3>1, <3>2 DEF CallsInv
    <3>3. CASE edit[c].op = "flushing" /\ edit'[c].op \in {"flushed", "unflushed"}
      BY <1>a, <3>1, <3>3 DEF CallsInv
    <3> QED
      BY <2>2, <3>2, <3>3
  <2> QED
    BY <1>d, <2>1, <2>3 DEF CallsInv
<1>8. CASE Persist
  <2>1. task["queue"] = None /\ queue # <<>>
    BY <1>8, <1>a DEF Persist, CallsInv, None
  <2>2. CASE dirty
    <3>1. CallBackend("queue", "snapshot", live) /\ job'.op = "saving" /\ edit' = edit
      BY <1>8, <2>2 DEF Persist
    <3> QED
      BY <1>a, <1>c, Called, <3>1 DEF CallsInv
  <2>3. CASE ~dirty /\ Head(queue) = "order"
    <3>1. task' = task /\ job'.op = "saved" /\ edit' = edit
      BY <1>8, <2>3 DEF Persist
    <3> QED
      BY <1>a, <2>1, <3>1 DEF CallsInv
  <2>4. CASE ~dirty /\ Head(queue) # "order"
    BY <1>8, <1>d, <2>1, <2>4 DEF Persist
  <2> QED
    BY <2>2, <2>3, <2>4
<1>9. CASE Persisted
  <2>1. queue # <<>> /\ task'["queue"] = None /\ \A c \in Call : task'[c] = task[c]
    <3>1. job # None /\ task' = [task EXCEPT !["queue"] = None]
      BY <1>9 DEF Persisted, None
    <3>2. queue # <<>>
      BY <1>a, <3>1 DEF QueueInv
    <3> QED
      BY <1>c, <3>1, <3>2, AnsweredTyped
  <2>2. CASE UNCHANGED edit /\ job' = [op |-> "saved"]
    BY <1>a, <2>1, <2>2 DEF CallsInv
  <2>3. CASE Leaves("flushed") \/ Leaves("unflushed")
    BY <1>d, <2>1, <2>3
  <2> QED
    BY <1>9, <2>2, <2>3 DEF Persisted
<1>10. CASE OrderShown
  <2>1. queue # <<>> /\ task["queue"] = None
    BY <1>10, <1>a DEF OrderShown, QueueInv, CallsInv, None
  <2>2. ASSUME NEW f \in Orders(live), live' = RerankedBoth(f, live),
               CallBackend("queue", "order", live'), job' = [op |-> "ordering", before |-> live],
               UNCHANGED edit
        PROVE  CallsInv'
    <3>1. live' \in Both
      BY <1>c, <2>2, RerankedTyped
    <3>2. task'["queue"].kind = "order" /\ task'["queue"] # None
          /\ \A c \in Call : task'[c] = task[c]
      BY <1>c, <2>2, <3>1, Called
    <3>3. job'.op = "ordering" /\ edit' = edit
      BY <2>2
    <3> QED
      BY <1>a, <3>2, <3>3 DEF CallsInv
  <2>3. CASE Leaves("flushed") /\ UNCHANGED <<live, task, mishaps>>
    BY <1>d, <2>1, <2>3
  <2> QED
    BY <1>10, <2>2, <2>3 DEF OrderShown
<1>11. CASE OrderAnswered
  <2>1. queue # <<>> /\ task'["queue"] = None /\ \A c \in Call : task'[c] = task[c]
    <3>1. job # None /\ task' = [task EXCEPT !["queue"] = None]
      BY <1>11 DEF OrderAnswered, None
    <3>2. queue # <<>>
      BY <1>a, <3>1 DEF QueueInv
    <3> QED
      BY <1>c, <3>1, <3>2, AnsweredTyped
  <2> QED
    BY <1>11, <1>d, <2>1 DEF OrderAnswered
<1> QED
  BY <1>1, <1>2, <1>3, <1>4, <1>5, <1>6, <1>7, <1>8, <1>9, <1>10, <1>11 DEF Edits, Window

LEMMA ControlNext == StoreTyped /\ ControlInv /\ [Next]_vars => ControlInv'
<1> SUFFICES ASSUME StoreTyped, ControlInv, [Next]_vars PROVE ControlInv'
  OBVIOUS
<1>1. CASE UNCHANGED vars
  BY <1>1 DEF vars, ControlInv, LockInv, Halfway, CallsInv, QueueInv, ClosedInv, NoEdits, fileVars,
    backendVars, windowVars
<1>2. CASE Edits \/ Window
  <2>1. window' = "loaded"
    BY <1>2 DEF Edits, Window, Touch, Reorder, SaveGlobal, SaveInProject, SaveOverride, RemoveAgent,
      CanEdit, Load, TimerFires, Persist, Persisted, OrderShown, OrderAnswered, Flushed, Unflushed,
      OverrideRemoved, LocalSaved, Free, Running, windowVars
  <2>2. LockInv'
    BY <1>2, LockWindow DEF ControlInv
  <2>3. CallsInv' /\ QueueInv'
    BY <1>2, CallsWindow, QueueWindow
  <2> QED
    BY <2>1, <2>2, <2>3 DEF ControlInv, ClosedInv
<1>3. CASE Crash
  <2>1. \A c \in Caller : task'[c] = None /\ task'[c].op = "none"
    BY <1>3 DEF Crash, None
  <2>2. job' = None /\ queue' = <<>> /\ window' = "closed" /\ live' = Alone(Empty)
        /\ dirty' = FALSE /\ \A c \in Call : edit'[c] = None
    BY <1>3 DEF Crash, Closed
  <2>3. UNCHANGED <<globalFile, cli>> /\ lock' = IF lock \in Caller THEN Nobody ELSE lock
    BY <1>3 DEF Crash, fileVars
  <2>4. LockInv'
    <3>1. \A c \in Caller : lock' # c /\ task'[c].op \notin Busy
      BY <2>1, <2>3, Callers DEF Busy
    <3>2. \A c \in Caller : task'[c].op # "writing" /\ ~Halfway(task'[c])
      BY <2>1 DEF Halfway
    <3>3. lock' = "cli" <=> lock = "cli"
      BY <2>3, Callers
    <3> QED
      BY <2>3, <3>1, <3>2, <3>3 DEF ControlInv, LockInv
  <2>5. CallsInv'
    BY <2>1, <2>2, Callers DEF CallsInv, None
  <2>6. QueueInv' /\ ClosedInv'
    BY <2>2 DEF QueueInv, ClosedInv, NoEdits, None
  <2> QED
    BY <2>4, <2>5, <2>6 DEF ControlInv
<1> QED
  BY <1>1, <1>2, <1>3, ControlBackend DEF Next

(* Whatever the window and the command line do, and whatever fails, a task      *)
(* waits for each call and holds the lock while it writes.                      *)
THEOREM ControlCorrect == StoreSpec => [](StoreTyped /\ ControlInv)
<1>1. Init => StoreTyped /\ ControlInv
  BY TypedInit, ControlInit
<1>2. (StoreTyped /\ ControlInv) /\ [Next]_vars => StoreTyped' /\ ControlInv'
  BY TypedNext, ControlNext DEF ControlInv
<1> QED
  BY <1>1, <1>2, PTL DEF StoreSpec

-----------------------------------------------------------------------------
(* Names *)

LEMMA OrdersRollBack ==
  ASSUME StoreTyped, CallsInv, NEW c \in Caller, task[c].op = "rollingBack"
  PROVE  c = "queue" /\ task[c].kind = "order" /\ job.op = "ordering"
<1>1. c \notin Call
  BY DEF CallsInv, None
<1>2. c = "queue"
  BY <1>1, Callers
<1>3. job.op = "ordering"
  BY <1>2, NoJob DEF CallsInv, None, StoreTyped
<1> QED
  BY <1>2, <1>3 DEF CallsInv

(* projects.rs, save_projects and save_project_agent_order: what another        *)
(* process has done to the rest of the project is undone by a snapshot that the *)
(* lock holder writes, never by an order, its rollback or a save of the agents   *)
(* in the project.                                                            *)
THEOREM RenameCorrect == StoreSpec => RenameSurvives
<1> DEFINE Renamed ==
      globalFile'.name # globalFile.name =>
        \/ cli'.op = "done" /\ cli.op # "done"
        \/ \E c \in Caller : lock = c /\ task[c].kind = "snapshot"
<1>1. ASSUME StoreTyped, ControlInv, [Next]_vars PROVE [Renamed]_vars
  <2>1. ASSUME NEW c \in Caller, NEW outcome \in Written, Write(c, outcome) PROVE Renamed
    <3>1. lock = c /\ task[c] \in Save
      BY <1>1, <2>1, WriteTyped DEF ControlInv, LockInv
    <3>2. CASE SnapshotWrite(c, outcome)
      BY <3>1, <3>2 DEF SnapshotWrite
    <3>3. CASE OrderWrite(c, outcome)
      <4>1. task[c].from = globalFile /\ task[c].from \in Project
        BY <1>1, <3>1, <3>3 DEF OrderWrite, ControlInv, LockInv, Save
      <4>2. globalFile'.name = globalFile.name
        BY <3>3, <4>1 DEF OrderWrite, Project
      <4> QED
        BY <4>2
    <3>4. CASE LocalWrite(c, outcome)
      BY <3>4 DEF LocalWrite
    <3>5. CASE RollBack(c, outcome)
      <4>1. Halfway(task[c])
        BY <1>1, <3>5, OrdersRollBack DEF RollBack, Halfway, ControlInv
      <4>2. task[c].from.name = globalFile.name
        BY <1>1, <4>1 DEF ControlInv, LockInv
      <4> QED
        BY <3>5, <4>2 DEF RollBack
    <3> QED
      BY <2>1, <3>2, <3>3, <3>4, <3>5 DEF Write
  <2>2. CASE CliSaves
    BY <2>2 DEF CliSaves
  <2>3. CASE Edits \/ Window
    BY <1>1, <2>3, WindowCalls DEF ControlInv
  <2>4. CASE Crash \/ CliLoads \/ \E c \in Caller : Acquire(c)
    BY <2>4 DEF Crash, CliLoads, Acquire, fileVars
  <2>5. CASE UNCHANGED vars
    BY <2>5
  <2> QED
    BY <1>1, <2>1, <2>2, <2>3, <2>4, <2>5 DEF Next, Backend
<1>2. StoreSpec => [][Renamed]_vars
  BY <1>1, ControlCorrect, PTL DEF StoreSpec
<1> QED
  BY <1>2 DEF RenameSurvives

-----------------------------------------------------------------------------
(* What is saved *)

LEMMA MishapsGrow == ASSUME [Next]_vars PROVE mishaps \subseteq mishaps'
<1>1. CASE UNCHANGED vars
  BY <1>1 DEF vars
<1>2. CASE Edits
  BY <1>2 DEF Edits, Touch, Reorder, SaveGlobal, SaveInProject, SaveOverride, RemoveAgent, AtOnce,
    Awaits, Happens
<1>3. CASE Window
  BY <1>3 DEF Window, Load, TimerFires, Persist, Persisted, OrderShown, OrderAnswered, Flushed,
    Unflushed, OverrideRemoved, LocalSaved, PutsBack, Happens
<1>4. CASE Backend
  BY <1>4 DEF Backend, Acquire, Write, SnapshotWrite, OrderWrite, LocalWrite, RollBack, Happens
<1>5. CASE CliLoads \/ CliSaves \/ Crash
  BY <1>5 DEF CliLoads, CliSaves, Crash, Happens
<1> QED
  BY <1>1, <1>2, <1>3, <1>4, <1>5 DEF Next

(* A missing file is read as a project without agents.                         *)
LEMMA FileRead ==
  /\ \A s \in Store : s = NoFile => s = Empty
  /\ \A s \in Store : Has(s) = {} => s = Empty
<1>1. ASSUME NEW s \in Store, s = NoFile PROVE s = Empty
  <2>1. DOMAIN s = Agent /\ DOMAIN s = {}
    BY <1>1 DEF Store, NoFile
  <2>2. s = [a \in Agent |-> s[a]]
    BY DEF Store
  <2> QED
    BY <2>1, <2>2 DEF Empty
<1>2. ASSUME NEW s \in Store, Has(s) = {} PROVE s = Empty
  <2>1. \A a \in Agent : s[a] = Absent
    BY <1>2 DEF Has
  <2> QED
    BY <2>1 DEF Store, Empty
<1> QED
  BY <1>1, <1>2

LEMMA SavedInit == Init => SavedInv
  BY DEF Init, SavedInv

(* What a step makes of the project's file and the calls: no call moves, or    *)
(* only one awaits.                                                            *)
LEMMA ProjectKept ==
  ASSUME ProjectSaved, UNCHANGED <<edit, Local>>, live'.local = live.local,
         dirty => dirty' \/ \A c \in Call : edit[c].op # "unflushed",
         \A c \in Call : task'[c].op = "ok" <=> task[c].op = "ok"
  PROVE  ProjectSaved'
<1>1. Solo' /\ (NoEdits' => Local' = live'.local)
  BY DEF ProjectSaved, Solo, NoEdits
<1>2. ASSUME NEW c \in Call PROVE CallSaved(c)'
  <2>1. CallSaved(c) /\ edit'[c] = edit[c] /\ (task'[c].op = "ok" <=> task[c].op = "ok")
    BY DEF ProjectSaved
  <2> QED
    BY <2>1 DEF CallSaved
<1> QED
  BY <1>1, <1>2 DEF ProjectSaved

LEMMA ProjectMoved ==
  ASSUME NEW c \in Call, \A d \in Call : d # c => edit'[d] = None,
         edit'[c] = None => Local' = live'.local, CallSaved(c)'
  PROVE  ProjectSaved'
<1>1. Solo' /\ (NoEdits' => Local' = live'.local)
  BY DEF Solo, NoEdits
<1>2. ASSUME NEW d \in Call, d # c PROVE CallSaved(d)'
  BY <1>2 DEF CallSaved, None
<1> QED
  BY <1>1, <1>2 DEF ProjectSaved

LEMMA OneAwaits ==
  ASSUME StoreTyped, ProjectSaved, NEW c \in Call, edit[c].op # "none"
  PROVE  edit[c] \in Edit /\ edit[c] # None /\ CallSaved(c)
         /\ \A d \in Call : d # c => edit[d] = None
  BY NoEdit DEF StoreTyped, WindowTyped, ProjectSaved, Solo, None

(* The backend's steps change no more of a task than how far it is, and from     *)
(* what it began.                                                             *)
LEMMA SavedAcquire ==
  ASSUME StoreTyped, ControlInv, Saved, NEW c \in Caller, Acquire(c) PROVE Saved'
<1>1. UNCHANGED <<globalFile, localFile, Local, live, dirty, job, edit>>
  BY DEF Acquire, fileVars, windowVars, Local
<1>2. task[c].op = "waiting" /\ task'[c].to = task[c].to /\ task'[c].kind = task[c].kind
      /\ \A d \in Caller : d # c => task'[d] = task[d]
  BY AcquireTyped DEF Acquire
<1>3. task'[c].op = "err" \/ task'[c].op = IF task[c].kind = "local" THEN "writingLocal" ELSE "writing"
  BY AcquireTyped
<1>4. "queue" \in Caller /\ \A d \in Call : d \in Caller /\ d # "queue"
  BY Callers
<1>5. CASE c = "queue"
  <2>1. \A d \in Call : task'[d] = task[d]
    BY <1>2, <1>4, <1>5
  <2>2. CASE Ordering
    <3>1. task[c].kind = "order"
      BY <1>5, <2>2 DEF Ordering, ControlInv, CallsInv
    <3> QED
      BY <1>1, <1>2, <1>3, <1>5, <2>2, <3>1 DEF Saved, Ordering, OrderSaved, NoEdits
  <2>3. CASE ~Ordering
    <3>1. job.op = "saving" /\ task[c].kind = "snapshot"
      BY <1>2, <1>5, <2>3, NoJob DEF Ordering, ControlInv, CallsInv, None, StoreTyped
    <3>2. GlobalSaved'
      BY <1>1, <1>2, <1>3, <1>5, <2>3, <3>1 DEF Saved, GlobalSaved
    <3>3. ProjectSaved'
      BY <1>1, <2>1, <2>3, ProjectKept DEF Saved
    <3> QED
      BY <1>1, <2>3, <3>2, <3>3 DEF Saved, Ordering
  <2> QED
    BY <2>2, <2>3
<1>6. CASE c \in Call
  <2>1. task'["queue"] = task["queue"] /\ \A d \in Call : d # c => task'[d] = task[d]
    BY <1>2, <1>4, <1>6
  <2>2. CASE Ordering
    BY <1>1, <2>1, <2>2 DEF Saved, Ordering, OrderSaved, NoEdits
  <2>3. CASE ~Ordering
    <3>1. GlobalSaved'
      BY <1>1, <2>1, <2>3 DEF Saved, GlobalSaved
    <3>2. ProjectSaved'
      BY <1>1, <1>2, <1>3, <1>6, <2>1, <2>3, ProjectKept DEF Saved
    <3> QED
      BY <1>1, <2>3, <3>1, <3>2 DEF Saved, Ordering
  <2> QED
    BY <2>2, <2>3
<1> QED
  BY <1>5, <1>6, Callers

LEMMA SavedWrite ==
  ASSUME StoreTyped, ControlInv, Saved, mishaps' = {},
         NEW c \in Caller, NEW outcome \in Written, Write(c, outcome)
  PROVE  Saved'
<1>1. UNCHANGED <<live, dirty, job, edit>>
  BY DEF Write, windowVars
<1>2. /\ task[c] \in Save /\ task'[c].to = task[c].to /\ task'[c].from = task[c].from
      /\ \A d \in Caller : d # c => task'[d] = task[d]
  BY WriteTyped
<1>3. "queue" \in Caller /\ \A d \in Call : d \in Caller /\ d # "queue"
  BY Callers
<1>4. task[c].to.local \in Store /\ task[c].from \in Project
  BY <1>2 DEF Save, Both
<1>5. \A r \in {"ok", "err"} : Ends(c, r) => task'[c].op = r
  BY <1>2, NoTask, Moves
<1>6. \A op \in {"writingLocal", "rollingBack"} : Goes(c, op) => task'[c].op = op
  BY <1>2, NoTask, Moves
<1>7. CASE c = "queue" /\ Ordering
  <2>1. task[c].kind = "order"
    BY <1>7 DEF Ordering, ControlInv, CallsInv
  <2>2. OrderSaved
    BY <1>7 DEF Saved
  <2>3. CASE OrderWrite(c, outcome)
    <3>1. task[c].from = globalFile /\ task[c].op = "writing" /\ outcome # "unsynced"
          /\ localFile' = localFile /\ Local' = Local
      BY <2>3 DEF OrderWrite, ControlInv, LockInv, Happens, Local
    <3>2. CASE outcome = "failed"
      <4>1. globalFile' = globalFile /\ task'[c].op = "err"
        BY <1>5, <2>3, <3>2 DEF OrderWrite, Replaces
      <4> QED
        BY <1>1, <1>2, <1>7, <2>2, <3>1, <4>1 DEF OrderSaved, Saved, Ordering, NoEdits
    <3>3. CASE outcome = "ok" /\ WritesLocal(task[c])
      <4>1. task'[c].op = "writingLocal"
        BY <1>6, <2>3, <3>3 DEF OrderWrite
      <4> QED
        BY <1>1, <1>2, <1>7, <2>2, <3>1, <4>1 DEF OrderSaved, Saved, Ordering, NoEdits
    <3>4. CASE outcome = "ok" /\ ~WritesLocal(task[c])
      <4>1. task'[c].op = "ok"
        BY <1>5, <2>3, <3>4 DEF OrderWrite
      <4>2. globalFile' = [globalFile EXCEPT !.agents = task[c].to.global]
        BY <2>3, <3>1, <3>4 DEF OrderWrite, Replaces
      <4>3. globalFile'.agents = task[c].to.global
        BY <4>2 DEF StoreTyped, FilesTyped, Project
      <4>4. Local = Empty /\ task[c].to.local = Empty
        BY <1>4, <3>4, FileRead DEF WritesLocal, Local
      <4> QED
        BY <1>1, <1>2, <1>7, <2>2, <3>1, <4>1, <4>3, <4>4 DEF OrderSaved, Saved, Ordering, NoEdits
    <3> QED
      BY <3>1, <3>2, <3>3, <3>4 DEF Written
  <2>4. CASE LocalWrite(c, outcome)
    <3>1. task[c].op = "writingLocal" /\ outcome # "unsynced" /\ globalFile' = globalFile
          /\ globalFile.agents = task[c].to.global
      BY <2>1, <2>4 DEF LocalWrite, Happens, ControlInv, LockInv, Halfway
    <3>2. CASE outcome = "failed"
      <4>1. Local' = Local /\ task'[c].op = "rollingBack"
        BY <1>6, <2>1, <2>4, <3>2 DEF LocalWrite, LocalFailed, Replaces, Local
      <4> QED
        BY <1>1, <1>2, <1>7, <2>2, <3>1, <4>1 DEF OrderSaved, Saved, Ordering, NoEdits
    <3>3. CASE outcome = "ok"
      <4>1. localFile' = task[c].to.local /\ task'[c].op = "ok"
        BY <1>5, <2>4, <3>3 DEF LocalWrite, Replaces
      <4>2. Local' = task[c].to.local
        BY <1>4, <4>1, FileRead DEF Local
      <4> QED
        BY <1>1, <1>2, <1>7, <2>2, <3>1, <4>1, <4>2 DEF OrderSaved, Saved, Ordering, NoEdits
    <3> QED
      BY <3>1, <3>2, <3>3 DEF Written
  <2>5. CASE RollBack(c, outcome)
    <3>1. outcome = "ok" /\ globalFile' = task[c].from /\ Local' = Local /\ task'[c].op = "err"
          /\ task[c].op = "rollingBack"
      BY <1>5, <2>5 DEF RollBack, Happens, Replaces, Local
    <3> QED
      BY <1>1, <1>2, <1>7, <2>2, <3>1 DEF OrderSaved, Saved, Ordering, NoEdits
  <2> QED
    BY <2>1, <2>3, <2>4, <2>5 DEF Write, SnapshotWrite
<1>8. CASE c = "queue" /\ ~Ordering
  <2>1. job.op = "saving" /\ task[c].kind = "snapshot" /\ task[c].op \in Busy
    BY <1>2, <1>8, WriteTyped, NoJob, NoTask DEF Ordering, ControlInv, CallsInv, StoreTyped
  <2>2. task[c].op = "writing"
    BY <1>8, <2>1 DEF Busy, ControlInv, CallsInv
  <2>3. SnapshotWrite(c, outcome)
    BY <2>1, <2>2 DEF Write, OrderWrite, LocalWrite, RollBack
  <2>4. outcome # "unsynced" /\ Local' = Local
    BY <2>3 DEF SnapshotWrite, Happens, Local
  <2>5. GlobalSaved'
    <3>1. CASE outcome = "failed"
      <4>1. task'[c].op = "err"
        BY <1>5, <2>3, <3>1 DEF SnapshotWrite
      <4> QED
        BY <1>1, <1>8, <2>1, <4>1 DEF GlobalSaved
    <3>2. CASE outcome = "ok"
      <4>1. task'[c].op = "ok" /\ globalFile'.agents = task[c].to.global
        BY <1>5, <2>3, <3>2 DEF SnapshotWrite, Replaces
      <4> QED
        BY <1>1, <1>2, <1>8, <2>1, <2>2, <4>1 DEF GlobalSaved, Saved
    <3> QED
      BY <2>4, <3>1, <3>2 DEF Written
  <2>6. ProjectSaved'
    <3>1. \A d \in Call : task'[d] = task[d]
      BY <1>2, <1>3, <1>8
    <3> QED
      BY <1>1, <1>8, <2>4, <3>1, ProjectKept DEF Saved
  <2> QED
    BY <1>1, <1>8, <2>5, <2>6 DEF Saved, Ordering
<1>9. CASE c \in Call
  <2>1. edit[c].op \in {"savingLocal", "removingLocal"} /\ task[c].kind = "local"
        /\ task[c].op \in {"waiting", "writingLocal", "ok", "err"} /\ task[c].to = edit[c].after
    BY <1>2, <1>9, NoTask DEF ControlInv, CallsInv
  <2>2. ~Ordering
    BY <1>9, <2>1 DEF Saved, OrderSaved, NoEdits, None
  <2>3. LocalWrite(c, outcome)
    BY <2>1 DEF Write, OrderWrite, SnapshotWrite, RollBack
  <2>4. outcome # "unsynced" /\ globalFile' = globalFile /\ task[c].op = "writingLocal"
    BY <2>3 DEF LocalWrite, Happens
  <2>5. GlobalSaved'
    <3>1. task'["queue"] = task["queue"]
      BY <1>2, <1>3, <1>9
    <3> QED
      BY <1>1, <2>2, <2>4, <3>1 DEF GlobalSaved, Saved
  <2>6. CallSaved(c)'
    <3>1. CallSaved(c) /\ edit'[c] = edit[c]
      BY <1>1, <1>9, <2>2 DEF Saved, ProjectSaved
    <3>2. CASE outcome = "failed"
      <4>1. Local' = Local /\ task'[c].op = "err"
        BY <1>5, <2>1, <2>3, <3>2 DEF LocalWrite, LocalFailed, Replaces, Local
      <4> QED
        BY <1>1, <2>1, <2>4, <3>1, <4>1 DEF CallSaved
    <3>3. CASE outcome = "ok"
      <4>1. localFile' = task[c].to.local /\ task'[c].op = "ok"
        BY <1>5, <2>3, <3>3 DEF LocalWrite, Replaces
      <4>2. Local' = edit[c].after.local
        BY <1>4, <2>1, <4>1, FileRead DEF Local
      <4> QED
        BY <1>1, <2>1, <3>1, <4>1, <4>2 DEF CallSaved
    <3> QED
      BY <2>4, <3>2, <3>3 DEF Written
  <2>7. \A d \in Call : d # c => edit'[d] = None
    BY <1>1, <1>9, <2>1, <2>2, OneAwaits DEF Saved
  <2>8. edit'[c] # None
    BY <1>1, <2>1 DEF None
  <2>9. ProjectSaved'
    BY <1>9, <2>6, <2>7, <2>8, ProjectMoved
  <2> QED
    BY <1>1, <2>2, <2>5, <2>9 DEF Saved, Ordering
<1> QED
  BY <1>7, <1>8, <1>9, Callers

(* What a step of the window needs to keep: it leaves the files alone.          *)
LEMMA SavedEdits ==
  ASSUME StoreTyped, ControlInv, Saved, mishaps' = {}, Edits PROVE Saved'
<1>1. UNCHANGED <<globalFile, Local>>
  BY WindowCalls DEF ControlInv, Local
<1>2. CASE Touch \/ Reorder
  <2>1. UNCHANGED <<live, job, edit, task>> /\ (dirty => dirty')
    BY <1>2 DEF Touch, Reorder, MarkDirty, backendVars
  <2>2. CASE Ordering
    BY <1>1, <2>1, <2>2 DEF Saved, Ordering, OrderSaved, NoEdits
  <2>3. CASE ~Ordering
    BY <1>1, <2>1, <2>3, ProjectKept DEF Saved, Ordering, GlobalSaved
  <2> QED
    BY <2>2, <2>3
<1>3. ASSUME AtOnce, NEW a \in Agent, live.local[a] = Absent, job' = job, dirty',
             live' = SavedIn(live, a, "global") \/ live' = Without(live, a)
      PROVE  Saved'
  <2>1. ~Ordering /\ UNCHANGED <<edit, task>> /\ GlobalSaved /\ ProjectSaved
    BY <1>3 DEF AtOnce, Overlap, Ordering, Saved
  <2>2. live'.local = [live.local EXCEPT ![a] = Absent]
    BY <1>3 DEF SavedIn, Without, Replaced
  <2>3. live'.local = live.local
    BY <1>3, <2>2 DEF Both, Store, StoreTyped, WindowTyped
  <2>4. GlobalSaved'
    BY <1>1, <1>3, <2>1 DEF GlobalSaved
  <2>5. ProjectSaved'
    BY <1>1, <1>3, <2>1, <2>3, ProjectKept
  <2> QED
    BY <1>3, <2>1, <2>4, <2>5 DEF Saved, Ordering
<1>4. ASSUME NEW c \in Call, NEW op \in {"savingLocal", "flushing"}, NEW after \in Both,
             Awaits(c, op, after), job' = job, dirty => dirty',
             task'["queue"] = task["queue"],
             op = "savingLocal" => live' = live /\ task'[c].op = "waiting",
             op = "flushing" => live' = after /\ dirty'
      PROVE  Saved'
  <2>1. /\ ~Ordering
        /\ edit'[c].op = op /\ edit'[c].before = live /\ edit'[c].after = after /\ edit'[c] # None
        /\ \A d \in Call : edit[d] = None
        /\ \A d \in Call : d # c => edit'[d] = None
    BY <1>4, Awaited, NoEdit DEF Ordering
  <2>2. GlobalSaved /\ ProjectSaved /\ Local = live.local
    BY <2>1 DEF Saved, ProjectSaved, NoEdits
  <2>3. GlobalSaved'
    BY <1>1, <1>4, <2>2 DEF GlobalSaved
  <2>4. CallSaved(c)'
    BY <1>1, <1>4, <2>1, <2>2 DEF CallSaved
  <2>5. ProjectSaved'
    BY <2>1, <2>4, ProjectMoved
  <2> QED
    BY <1>4, <2>1, <2>3, <2>5 DEF Saved, Ordering
<1>5. ASSUME NEW c \in Call, NEW after \in Both, SaveLocal(c, after),
             Awaits(c, "savingLocal", after), UNCHANGED <<live, dirty, job>>
      PROVE  Saved'
  <2>1. task'[c].op = "waiting" /\ task'["queue"] = task["queue"]
    BY <1>5, Called, Callers DEF SaveLocal
  <2> QED
    BY <1>4, <1>5, <2>1
<1>6. ASSUME NEW a \in Agent, SaveGlobal(a) PROVE Saved'
  BY <1>3, <1>6 DEF SaveGlobal, MarkDirty
<1>7. ASSUME NEW c \in Call, NEW a \in Agent, SaveInProject(c, a) PROVE Saved'
  <2>1. PICK after \in Both : after = SavedIn(live, a, "project")
    BY SavedTyped DEF StoreTyped, WindowTyped
  <2> QED
    BY <1>5, <1>7, <2>1 DEF SaveInProject, windowVars
<1>8. ASSUME NEW c \in Call, NEW a \in Agent, SaveOverride(c, a) PROVE Saved'
  <2>1. PICK after \in Both : after = SavedIn(live, a, "global")
    BY SavedTyped DEF StoreTyped, WindowTyped
  <2>2. /\ Awaits(c, "flushing", after) /\ UNCHANGED <<task, job>> /\ live' = after /\ dirty'
    BY <1>8, <2>1 DEF SaveOverride, backendVars
  <2> QED
    BY <1>4, <2>2
<1>9. ASSUME NEW c \in Call, NEW a \in Agent, RemoveAgent(c, a) PROVE Saved'
  <2>1. CASE live.local[a] # Absent
    <3>1. PICK after \in Both : after = Without(live, a)
      BY WithoutTyped DEF StoreTyped, WindowTyped
    <3> QED
      BY <1>5, <1>9, <2>1, <3>1 DEF RemoveAgent
  <2>2. CASE live.local[a] = Absent
    BY <1>3, <1>9, <2>2 DEF RemoveAgent, MarkDirty
  <2> QED
    BY <2>1, <2>2
<1> QED
  BY <1>2, <1>6, <1>7, <1>8, <1>9 DEF Edits

(* When a job leaves the queue, the call that waited for it goes on, and finds   *)
(* the store unsaved when it was not flushed.                                  *)
LEMMA SavedLeaves ==
  ASSUME StoreTyped, QueueInv, queue # <<>>, NEW result \in {"flushed", "unflushed"},
         Leaves(result), UNCHANGED <<globalFile, Local, live>>,
         \A c \in Call : task'[c] = task[c],
         ProjectSaved, globalFile.agents = live.global \/ dirty', dirty => dirty',
         result = "unflushed" => dirty'
  PROVE  Saved'
<1>1. job' = None /\ job'.op = "none"
  BY LeavesTyped DEF None
<1>2. GlobalSaved'
  BY <1>1 DEF GlobalSaved
<1>3. ProjectSaved'
  <2>1. CASE Head(queue) \in Call
    <3>1. PICK c \in Call : c = Head(queue)
      BY <2>1
    <3>2. /\ edit'[c] # None /\ edit'[c].op = result /\ edit[c].op = "flushing"
          /\ edit'[c].before = edit[c].before /\ edit'[c].after = edit[c].after
          /\ \A d \in Call : d # c => edit'[d] = edit[d]
      BY <3>1, LeavesTyped, NoEdit
    <3>3. CallSaved(c) /\ \A d \in Call : d # c => edit'[d] = None
      BY <3>2, OneAwaits
    <3>4. CallSaved(c)'
      BY <3>2, <3>3 DEF CallSaved
    <3> QED
      BY <3>2, <3>3, <3>4, ProjectMoved
  <2>2. CASE Head(queue) \notin Call
    <3>1. edit' = edit
      BY <2>2, LeavesTyped
    <3> QED
      BY <3>1, ProjectKept
  <2> QED
    BY <2>1, <2>2
<1> QED
  BY <1>1, <1>2, <1>3 DEF Saved, Ordering

LEMMA SavedQueue ==
  ASSUME StoreTyped, ControlInv, Saved, mishaps' = {},
         Persist \/ Persisted \/ OrderShown \/ OrderAnswered
  PROVE  Saved'
<1>1. UNCHANGED <<globalFile, Local>>
  BY WindowCalls DEF ControlInv, Window, Local
<1>2. QueueInv /\ CallsInv /\ live \in Both /\ "queue" \in Caller
      /\ \A c \in Call : c \in Caller /\ c # "queue"
  BY Callers DEF ControlInv, StoreTyped, WindowTyped
<1>3. CASE Persist
  <2>1. queue # <<>> /\ job = None /\ job.op = "none" /\ ~Ordering /\ live' = live
    BY <1>3 DEF Persist, None, Ordering
  <2>2. GlobalSaved /\ ProjectSaved
    BY <2>1 DEF Saved
  <2>3. CASE dirty
    <3>1. CallBackend("queue", "snapshot", live) /\ job'.op = "saving" /\ edit' = edit
      BY <1>3, <2>3 DEF Persist
    <3>2. task'["queue"].op = "waiting" /\ task'["queue"].to = live
          /\ \A c \in Call : task'[c] = task[c]
      BY <1>2, <3>1, Called
    <3>3. \A c \in Call : edit[c].op # "unflushed"
      BY <1>3 DEF Persist, Free
    <3>4. GlobalSaved'
      BY <2>1, <3>1, <3>2 DEF GlobalSaved
    <3>5. ProjectSaved'
      BY <1>1, <2>1, <2>2, <3>1, <3>2, <3>3, ProjectKept
    <3> QED
      BY <3>1, <3>4, <3>5 DEF Saved, Ordering
  <2>4. CASE ~dirty /\ Head(queue) = "order"
    <3>1. task' = task /\ dirty' = dirty /\ edit' = edit /\ job'.op = "saved"
      BY <1>3, <2>4 DEF Persist
    <3> QED
      BY <1>1, <2>1, <2>2, <3>1, ProjectKept DEF Saved, Ordering, GlobalSaved
  <2>5. CASE ~dirty /\ Head(queue) # "order"
    <3>1. task' = task /\ dirty' = dirty /\ Leaves("flushed")
      BY <1>3, <2>5 DEF Persist
    <3>2. globalFile.agents = live.global \/ dirty
      BY <2>1, <2>2 DEF GlobalSaved
    <3> QED
      BY <1>1, <1>2, <2>1, <2>2, <3>1, <3>2, SavedLeaves
  <2> QED
    BY <2>3, <2>4, <2>5
<1>4. CASE Persisted
  <2>1. job.op = "saving" /\ Answered("queue") /\ live' = live /\ ~Ordering
    BY <1>4 DEF Persisted, Ordering
  <2>2. queue # <<>> /\ GlobalSaved /\ ProjectSaved
    BY <1>2, <2>1 DEF QueueInv, None, Saved
  <2>3. \A c \in Call : task'[c] = task[c]
    BY <1>2, <1>4, AnsweredTyped DEF Persisted
  <2>4. CASE task["queue"].op = "ok"
    <3>1. dirty' = dirty /\ (globalFile.agents = live.global \/ dirty)
      BY <1>4, <2>1, <2>2, <2>4 DEF Persisted, GlobalSaved
    <3>2. CASE Head(queue) = "order"
      <4>1. edit' = edit /\ job'.op = "saved"
        BY <1>4, <2>4, <3>2 DEF Persisted
      <4> QED
        BY <1>1, <2>1, <2>2, <2>3, <3>1, <4>1, ProjectKept DEF Saved, Ordering, GlobalSaved
    <3>3. CASE Head(queue) # "order"
      <4>1. Leaves("flushed")
        BY <1>4, <2>4, <3>3 DEF Persisted
      <4> QED
        BY <1>1, <1>2, <2>1, <2>2, <2>3, <3>1, <4>1, SavedLeaves
    <3> QED
      BY <3>2, <3>3
  <2>5. CASE task["queue"].op # "ok"
    <3>1. dirty' /\ Leaves("unflushed")
      BY <1>4, <2>5 DEF Persisted, PersistFailed
    <3> QED
      BY <1>1, <1>2, <2>1, <2>2, <2>3, <3>1, SavedLeaves
  <2> QED
    BY <2>4, <2>5
<1>5. CASE OrderShown
  <2>1. job.op = "saved" /\ dirty' = dirty /\ ~Ordering
    BY <1>5 DEF OrderShown, Ordering
  <2>2. GlobalSaved /\ ProjectSaved /\ queue # <<>>
    BY <1>2, <2>1 DEF Saved, QueueInv, None
  <2>3. ASSUME NEW f \in Orders(live), live' = RerankedBoth(f, live),
               CallBackend("queue", "order", live'), job' = [op |-> "ordering", before |-> live],
               Happens("overlap", \E c \in Call : edit[c] # None), edit' = edit
        PROVE  Saved'
    <3>1. live' \in Both
      BY <1>2, <2>3, RerankedTyped
    <3>2. task'["queue"].op = "waiting" /\ task'["queue"].to = live'
      BY <1>2, <2>3, <3>1, Called
    <3>3. NoEdits
      BY <2>3 DEF Happens, NoEdits
    <3>4. (globalFile.agents = live.global \/ dirty) /\ Local = live.local
      BY <2>1, <2>2, <3>3 DEF GlobalSaved, ProjectSaved
    <3>5. job'.op = "ordering" /\ job'.before = live
      BY <2>3
    <3> QED
      BY <1>1, <2>1, <2>3, <3>2, <3>3, <3>4, <3>5 DEF Saved, Ordering, OrderSaved, NoEdits
  <2>4. CASE Leaves("flushed") /\ UNCHANGED <<live, task, mishaps>>
    <3>1. globalFile.agents = live.global \/ dirty
      BY <2>1, <2>2 DEF GlobalSaved
    <3> QED
      BY <1>1, <1>2, <2>1, <2>2, <2>4, <3>1, SavedLeaves
  <2> QED
    BY <1>5, <2>3, <2>4 DEF OrderShown
<1>6. CASE OrderAnswered
  <2>1. job.op = "ordering" /\ Answered("queue") /\ dirty' = dirty /\ Leaves("flushed")
        /\ live' = IF task["queue"].op = "ok" THEN live ELSE job.before
    BY <1>6 DEF OrderAnswered
  <2>2. OrderSaved
    BY <2>1 DEF Saved, Ordering
  <2>3. queue # <<>> /\ Head(queue) = "order"
    BY <1>2, <2>1 DEF QueueInv, None, StoreTyped, WindowTyped
  <2>4. (\A c \in Call : edit'[c] = None) /\ job' = None
    BY <1>2, <2>1, <2>2, <2>3, Callers DEF Leaves, OrderSaved, NoEdits
  <2>5. (globalFile.agents = live'.global \/ dirty) /\ Local = live'.local
    BY <2>1, <2>2 DEF OrderSaved, Answered
  <2> QED
    BY <1>1, <2>1, <2>4, <2>5 DEF Saved, Ordering, GlobalSaved, ProjectSaved, CallSaved, Solo, None
<1> QED
  BY <1>3, <1>4, <1>5, <1>6

LEMMA SavedOthers ==
  ASSUME StoreTyped, ControlInv, Saved, mishaps' = {},
         \/ TimerFires
         \/ \E c \in Call : Flushed(c) \/ Unflushed(c) \/ OverrideRemoved(c) \/ LocalSaved(c)
  PROVE  Saved'
<1>1. UNCHANGED <<globalFile, Local>>
  BY WindowCalls DEF ControlInv, Window, Local
<1>2. CASE TimerFires
  <2>1. UNCHANGED <<live, job, edit, task, dirty>>
    BY <1>2 DEF TimerFires, backendVars
  <2>2. CASE Ordering
    BY <1>1, <2>1, <2>2 DEF Saved, Ordering, OrderSaved, NoEdits
  <2>3. CASE ~Ordering
    BY <1>1, <2>1, <2>3, ProjectKept DEF Saved, Ordering, GlobalSaved
  <2> QED
    BY <2>2, <2>3
<1>3. ASSUME NEW c \in Call, edit[c].op # "none"
      PROVE  ~Ordering /\ GlobalSaved /\ edit[c] \in Edit /\ CallSaved(c) /\ c \in Caller
             /\ c # "queue" /\ \A d \in Call : d # c => edit[d] = None
  <2>1. ~Ordering
    BY <1>3 DEF Saved, OrderSaved, NoEdits, None
  <2> QED
    BY <1>3, <2>1, OneAwaits, Callers DEF Saved
<1>4. ASSUME NEW c \in Call, edit[c].op # "none", job' = job, task'["queue"] = task["queue"],
             \A d \in Call : d # c => edit'[d] = edit[d],
             edit'[c] = None => Local' = live'.local, CallSaved(c)',
             (live'.global = live.global /\ dirty' = dirty) \/ dirty'
      PROVE  Saved'
  <2>1. GlobalSaved'
    BY <1>1, <1>3, <1>4 DEF GlobalSaved
  <2>2. ProjectSaved'
    BY <1>3, <1>4, ProjectMoved
  <2> QED
    BY <1>3, <1>4, <2>1, <2>2 DEF Saved, Ordering
<1>5. ASSUME NEW c \in Call, Flushed(c) PROVE Saved'
  <2>1. edit[c].op = "flushed" /\ UNCHANGED <<live, dirty, job>>
        /\ edit' = [edit EXCEPT ![c].op = "removingLocal"]
    BY <1>5 DEF Flushed, windowVars
  <2>2. edit[c] \in Edit /\ edit[c].after \in Both /\ CallSaved(c)
    BY <1>3, <2>1 DEF Edit
  <2>3. /\ edit'[c].op = "removingLocal" /\ edit'[c] # None
        /\ edit'[c].before = edit[c].before /\ edit'[c].after = edit[c].after
        /\ \A d \in Call : d # c => edit'[d] = edit[d]
    BY <2>1, EditGoes, NoEdit
  <2>4. task'[c].op = "waiting" /\ task'["queue"] = task["queue"]
    BY <1>5, <2>2, Called, Callers DEF Flushed, SaveLocal
  <2>5. CallSaved(c)'
    BY <1>1, <2>1, <2>2, <2>3, <2>4 DEF CallSaved
  <2> QED
    BY <1>4, <2>1, <2>3, <2>4, <2>5
<1>6. ASSUME NEW c \in Call, edit[c].op # "none", Returns(c), job' = job,
             task'["queue"] = task["queue"], Local' = live'.local,
             (live'.global = live.global /\ dirty' = dirty) \/ dirty'
      PROVE  Saved'
  <2>1. edit'[c] = None /\ \A d \in Call : d # c => edit'[d] = edit[d]
    BY <1>6, Returned
  <2>2. CallSaved(c)'
    BY <2>1 DEF CallSaved, None
  <2> QED
    BY <1>4, <1>6, <2>1, <2>2
<1>7. ASSUME NEW c \in Call, Unflushed(c) PROVE Saved'
  <2>1. edit[c].op = "unflushed" /\ UNCHANGED <<dirty, job, task>> /\ Returns(c)
        /\ live' = edit[c].before
    BY <1>7 DEF Unflushed, PutsBack, backendVars
  <2>2. dirty /\ Local = edit[c].before.local
    BY <1>3, <2>1 DEF CallSaved
  <2> QED
    BY <1>1, <1>6, <2>1, <2>2
<1>8. ASSUME NEW c \in Call, OverrideRemoved(c) PROVE Saved'
  <2>1. edit[c].op = "removingLocal" /\ UNCHANGED <<dirty, job>> /\ Returns(c)
        /\ Answered(c) /\ task' = [task EXCEPT ![c] = None]
    BY <1>8 DEF OverrideRemoved
  <2>2. task'["queue"] = task["queue"]
    BY <2>1, AnsweredTyped, Callers
  <2>3. CASE task[c].op = "ok"
    <3>1. live' = live
      BY <1>8, <2>3 DEF OverrideRemoved
    <3>2. Local = live.local
      BY <1>3, <2>1, <2>3 DEF CallSaved
    <3> QED
      BY <1>1, <1>6, <2>1, <2>2, <3>1, <3>2
  <2>4. CASE task[c].op # "ok"
    <3>1. live' = [global |-> edit[c].after.global, local |-> edit[c].before.local]
          /\ live = edit[c].after
      BY <1>8, <2>4 DEF OverrideRemoved, PutsBack, Happens
    <3>2. Local = edit[c].before.local
      BY <1>3, <2>1, <2>4 DEF CallSaved
    <3> QED
      BY <1>1, <1>6, <2>1, <2>2, <3>1, <3>2
  <2> QED
    BY <2>3, <2>4
<1>9. ASSUME NEW c \in Call, LocalSaved(c) PROVE Saved'
  <2>1. edit[c].op = "savingLocal" /\ job' = job /\ Returns(c)
        /\ Answered(c) /\ task' = [task EXCEPT ![c] = None]
    BY <1>9 DEF LocalSaved
  <2>2. task'["queue"] = task["queue"]
    BY <2>1, AnsweredTyped, Callers
  <2>3. CASE task[c].op = "ok"
    <3>1. live' = edit[c].after /\ dirty'
      BY <1>9, <2>3 DEF LocalSaved, PutsBack, MarkDirty
    <3>2. Local = live'.local
      BY <1>3, <2>1, <2>3, <3>1 DEF CallSaved
    <3> QED
      BY <1>1, <1>6, <2>1, <2>2, <3>1, <3>2
  <2>4. CASE task[c].op # "ok"
    <3>1. live' = live /\ dirty' = dirty
      BY <1>9, <2>4 DEF LocalSaved
    <3>2. Local = live.local
      BY <1>3, <2>1, <2>4 DEF CallSaved
    <3> QED
      BY <1>1, <1>6, <2>1, <2>2, <3>1, <3>2
  <2> QED
    BY <2>3, <2>4
<1> QED
  BY <1>2, <1>5, <1>7, <1>8, <1>9

LEMMA SavedSame ==
  ASSUME Saved, globalFile'.agents = globalFile.agents, UNCHANGED <<Local, task, live, dirty, job, edit>>
  PROVE  Saved'
<1>1. CASE Ordering
  BY <1>1 DEF Saved, Ordering, OrderSaved, NoEdits
<1>2. CASE ~Ordering
  BY <1>2, ProjectKept DEF Saved, Ordering, GlobalSaved
<1> QED
  BY <1>1, <1>2

LEMMA SavedNext == StoreTyped /\ ControlInv /\ SavedInv /\ [Next]_vars => SavedInv'
<1> SUFFICES ASSUME StoreTyped, ControlInv, SavedInv, [Next]_vars, window' = "loaded", mishaps' = {}
             PROVE  Saved'
  BY DEF SavedInv
<1>1. mishaps = {}
  BY MishapsGrow
<1>2. CASE Load
  <2>1. job = None /\ \A c \in Call : edit[c] = None
    BY <1>2 DEF Load, ControlInv, ClosedInv, NoEdits
  <2>2. /\ UNCHANGED <<globalFile, Local, job, edit>>
        /\ live'.global = globalFile.agents /\ live'.local = Local
    BY <1>2 DEF Load, fileVars, Local
  <2> QED
    BY <2>1, <2>2 DEF Saved, Ordering, GlobalSaved, ProjectSaved, Solo, CallSaved, None
<1>3. CASE UNCHANGED vars
  <2>1. window = "loaded" /\ UNCHANGED <<globalFile, Local, task, live, dirty, job, edit>>
    BY <1>3 DEF vars, fileVars, backendVars, windowVars, Local
  <2>2. Saved
    BY <1>1, <2>1 DEF SavedInv
  <2> QED
    BY <2>1, <2>2, SavedSame
<1>4. CASE Crash
  BY <1>4 DEF Crash, Closed
<1>5. CASE Backend \/ CliLoads \/ CliSaves
  <2>1. window = "loaded"
    BY <1>5 DEF Backend, Acquire, Write, CliLoads, CliSaves, windowVars
  <2>2. Saved
    BY <1>1, <2>1 DEF SavedInv
  <2>3. CASE CliLoads \/ CliSaves
    <3>1. UNCHANGED <<Local, task, live, dirty, job, edit>>
      BY <2>3 DEF CliLoads, CliSaves, fileVars, windowVars, Local
    <3>2. globalFile'.agents = globalFile.agents
      <4>1. CASE CliLoads
        BY <4>1 DEF CliLoads, fileVars
      <4>2. CASE CliSaves
        <5>1. cli.read = globalFile
          BY <4>2 DEF CliSaves, ControlInv, LockInv
        <5> QED
          BY <4>2, <5>1 DEF CliSaves, StoreTyped, FilesTyped, Project
      <4> QED
        BY <2>3, <4>1, <4>2
    <3> QED
      BY <2>2, <3>1, <3>2, SavedSame
  <2> QED
    BY <1>5, <2>2, <2>3, SavedAcquire, SavedWrite DEF Backend
<1>6. CASE (Edits \/ Window) /\ ~Load
  <2>1. Running
    BY <1>6 DEF Edits, Window, Touch, Reorder, SaveGlobal, SaveInProject, SaveOverride, RemoveAgent,
      CanEdit, TimerFires, Persist, Persisted, OrderShown, OrderAnswered, Flushed, Unflushed,
      OverrideRemoved, LocalSaved, Free
  <2>2. Saved
    BY <1>1, <2>1 DEF SavedInv, Running
  <2> QED
    BY <1>6, <2>2, SavedEdits, SavedQueue, SavedOthers DEF Window
<1> QED
  BY <1>2, <1>3, <1>4, <1>5, <1>6 DEF Next

(* useProjects.ts, the queue of saves, and the saves beside it: once nothing is   *)
(* under way and nothing is marked as unsaved, the files hold what is shown,     *)
(* whichever save failed, was repeated or overtaken, and wherever the            *)
(* application died, also when other agents are saved globally while a call      *)
(* awaits; until the first mishap, which two calls that await at once are.        *)
THEOREM SavedCorrect == StoreSpec => []SettledIsSaved
<1>1. Init => SavedInv
  BY SavedInit
<1>2. (StoreTyped /\ ControlInv) /\ SavedInv /\ [Next]_vars => SavedInv'
  BY SavedNext
<1>3. StoreTyped /\ ControlInv /\ SavedInv => SettledIsSaved
  <2> SUFFICES ASSUME StoreTyped, ControlInv, SavedInv, Settled, mishaps = {}
               PROVE  globalFile.agents = live.global /\ Local = live.local
    BY DEF SettledIsSaved
  <2>1. window = "loaded" /\ ~dirty /\ NoEdits /\ job = None
    BY DEF Settled, Running, ControlInv, QueueInv, NoEdits
  <2> QED
    BY <2>1 DEF SavedInv, Saved, Ordering, GlobalSaved, ProjectSaved, None
<1> QED
  BY <1>1, <1>2, <1>3, ControlCorrect, PTL DEF StoreSpec

-----------------------------------------------------------------------------
(* Ranks *)

(* No new store ranks an agent as no old one does. *)
Drawn(new, old) ==
  \A n \in new : \A a \in Agent : n[a] \in Rank => \E s \in old : s[a] = n[a]

LEMMA DrawnAgree ==
  ASSUME NEW old, NEW new, AgreeAll(old), Drawn(new, old) PROVE AgreeAll(new)
<1> SUFFICES ASSUME NEW m \in new, NEW n \in new, NEW a \in Agent, NEW b \in Agent,
                    m[a] \in Rank, n[b] \in Rank
             PROVE  m[a] = n[b] <=> a = b
  BY DEF AgreeAll, Agree
<1>1. PICK s \in old : s[a] = m[a]
  BY DEF Drawn
<1>2. PICK t \in old : t[b] = n[b]
  BY DEF Drawn
<1>3. Agree(s, t)
  BY DEF AgreeAll
<1> QED
  BY <1>1, <1>2, <1>3 DEF Agree

LEMMA SubsetAgrees ==
  ASSUME NEW old, NEW new, AgreeAll(old), new \subseteq old PROVE AgreeAll(new)
  BY DEF AgreeAll

(* No rank is an absence, or the lack of a rank.                              *)
LEMMA NoRank == Absent \notin Rank /\ Unranked \notin Rank
<1>1. Rank \subseteq Nat
  BY StoreAssumption, FS_CardinalityType DEF Rank
<1> QED
  BY <1>1, StoreAssumption

(* Saving or removing one agent gives no agent a rank that it had not.         *)
LEMMA SavedDrawn ==
  ASSUME NEW both \in Both, NEW a \in Agent, NEW storage \in {"global", "project"}
  PROVE  Drawn(Stores(SavedIn(both, a, storage)), Stores(both))
<1> DEFINE live0 == Effective(both)[a]
           slot == IF live0 = Absent THEN Unranked ELSE live0
<1>1. both.global \in Store /\ both.local \in Store
  BY DEF Both
<1>2. slot \in Rank => \E s \in Stores(both) : s[a] = slot
  BY NoRank, EffectiveTyped DEF Stores
<1>3. SavedIn(both, a, storage)
        = [global |-> Replaced(both.global, a, slot, storage = "global"),
           local  |-> Replaced(both.local, a, slot, storage = "project")]
  BY DEF SavedIn
<1> HIDE DEF slot
<1>4. ASSUME NEW store \in Store, store \in Stores(both), NEW include \in BOOLEAN, NEW b \in Agent,
             Replaced(store, a, slot, include)[b] \in Rank
      PROVE  \E s \in Stores(both) : s[b] = Replaced(store, a, slot, include)[b]
  <2>1. CASE b # a
    <3>1. Replaced(store, a, slot, include)[b] = store[b]
      BY <1>4, <2>1 DEF Replaced, Store
    <3> QED
      BY <1>4, <3>1
  <2>2. CASE b = a
    <3>1. Replaced(store, a, slot, include)[a] \in {Absent, store[a], slot}
      BY <1>4 DEF Replaced, Store
    <3> QED
      BY <1>2, <1>4, <2>2, <3>1, NoRank
  <2> QED
    BY <2>1, <2>2
<1>5. both.global \in Stores(both) /\ both.local \in Stores(both)
  BY DEF Stores
<1>6. \A n \in Stores(SavedIn(both, a, storage)) :
        \/ n = Replaced(both.global, a, slot, storage = "global")
        \/ n = Replaced(both.local, a, slot, storage = "project")
  BY <1>3 DEF Stores
<1> SUFFICES ASSUME NEW n \in Stores(SavedIn(both, a, storage)), NEW b \in Agent, n[b] \in Rank
             PROVE  \E s \in Stores(both) : s[b] = n[b]
  BY DEF Drawn
<1>7. CASE n = Replaced(both.global, a, slot, storage = "global")
  BY <1>1, <1>4, <1>5, <1>7
<1>8. CASE n = Replaced(both.local, a, slot, storage = "project")
  BY <1>1, <1>4, <1>5, <1>8
<1> QED
  BY <1>6, <1>7, <1>8

LEMMA WithoutDrawn ==
  ASSUME NEW both \in Both, NEW a \in Agent
  PROVE  Drawn(Stores(Without(both, a)), Stores(both))
<1>1. ASSUME NEW store \in Store, NEW b \in Agent, [store EXCEPT ![a] = Absent][b] \in Rank
      PROVE  [store EXCEPT ![a] = Absent][b] = store[b]
  BY <1>1, NoRank DEF Store
<1> SUFFICES ASSUME NEW n \in Stores(Without(both, a)), NEW b \in Agent, n[b] \in Rank
             PROVE  \E s \in Stores(both) : s[b] = n[b]
  BY DEF Drawn
<1>2. PICK store \in {both.global, both.local} : n = [store EXCEPT ![a] = Absent]
  BY DEF Stores, Without
<1>3. store \in Store /\ store \in Stores(both)
  BY <1>2 DEF Both, Stores
<1> QED
  BY <1>1, <1>2, <1>3

(* An order ranks each agent once.                                            *)
LEMMA RerankedAgrees ==
  ASSUME NEW both \in Both, NEW f \in Orders(both)
  PROVE  AgreeAll(Stores(RerankedBoth(f, both)))
<1>1. ASSUME NEW s \in Stores(RerankedBoth(f, both)), NEW a \in Agent, s[a] \in Rank
      PROVE  a \in Has(Effective(both)) /\ s[a] = f[a]
  <2>1. PICK store \in {both.global, both.local} : s = Reranked(f, store)
    BY DEF Stores, RerankedBoth
  <2>2. store[a] # Absent /\ s[a] = f[a]
    BY <1>1, <2>1, NoRank DEF Reranked
  <2>3. a \in Has(both.global) \cup Has(both.local)
    BY <2>1, <2>2 DEF Has
  <2> QED
    BY <2>2, <2>3, RerankedTyped
<1> SUFFICES ASSUME NEW s \in Stores(RerankedBoth(f, both)), NEW t \in Stores(RerankedBoth(f, both)),
                    NEW a \in Agent, NEW b \in Agent, s[a] \in Rank, t[b] \in Rank
             PROVE  s[a] = t[b] <=> a = b
  BY DEF AgreeAll, Agree
<1>2. a \in Has(Effective(both)) /\ s[a] = f[a] /\ b \in Has(Effective(both)) /\ t[b] = f[b]
  BY <1>1
<1> QED
  BY <1>2, RerankedTyped

LEMMA EmptyDrawn == \A old : Drawn(Stores(Alone(Empty)), old)
  BY NoRank DEF Drawn, Stores, Alone, Empty

LEMMA RankInit == Init => RankInv
<1> SUFFICES ASSUME Init PROVE AgreeAll(Shared)
  <2>1. Init => job.op = "none"
    BY DEF Init, None
  <2> QED
    BY <2>1 DEF RankInv, Ranked, Ordering
<1>1. RanksDiffer(globalFile.agents)
  BY DEF Init, ValidMixed, ValidStore, Alone
<1>2. AgreeAll({globalFile.agents})
  BY <1>1 DEF AgreeAll, Agree, RanksDiffer
<1>3. Local = Empty
  BY DEF Init, Local
<1>4. Shared \subseteq {globalFile.agents, Empty}
  BY <1>3 DEF Init, Shared, InTasks, InEdits, HeldBy, InEdit, Files, Stores, Alone
<1>5. Drawn({globalFile.agents, Empty}, {globalFile.agents})
  BY NoRank DEF Drawn, Empty
<1> QED
  BY <1>2, <1>4, <1>5, DrawnAgree, SubsetAgrees

(* What may be shared: the files, what is shown, and what tasks and calls hold.    *)
LEMMA SharedBy ==
  /\ Files \subseteq Shared /\ Stores(live) \subseteq Shared
  /\ \A c \in Caller : task[c] # None => Stores(task[c].to) \subseteq Shared
  /\ \A c \in Call : edit[c] # None =>
       Stores(edit[c].before) \subseteq Shared /\ Stores(edit[c].after) \subseteq Shared
  /\ \A s \in Shared :
       \/ s \in Files \/ s \in Stores(live)
       \/ \E c \in Caller : task[c] # None /\ s \in Stores(task[c].to)
       \/ \E c \in Call :
            edit[c] # None /\ (s \in Stores(edit[c].before) \/ s \in Stores(edit[c].after))
<1>1. \A s : s \in Shared <=>
        \/ s \in Files \/ s \in Stores(live)
        \/ \E c \in Caller : s \in HeldBy(c)
        \/ \E c \in Call : s \in InEdit(c)
  <2>1. \A s : s \in InTasks <=> \E c \in Caller : s \in HeldBy(c)
    BY DEF InTasks
  <2>2. \A s : s \in InEdits <=> \E c \in Call : s \in InEdit(c)
    BY DEF InEdits
  <2> QED
    BY <2>1, <2>2 DEF Shared
<1>2. \A c \in Caller : \A s : s \in HeldBy(c) <=> task[c] # None /\ s \in Stores(task[c].to)
  BY DEF HeldBy
<1>3. \A c \in Call : \A s : s \in InEdit(c) <=>
        edit[c] # None /\ (s \in Stores(edit[c].before) \/ s \in Stores(edit[c].after))
  BY DEF InEdit
<1> QED
  BY <1>1, <1>2, <1>3

LEMMA SharedDrawn ==
  ASSUME AgreeAll(Shared),
         \A s \in Files' : Drawn({s}, Shared),
         Drawn(Stores(live'), Shared),
         \A c \in Caller : task'[c] # None => Drawn(Stores(task'[c].to), Shared),
         \A c \in Call : edit'[c] # None =>
           Drawn(Stores(edit'[c].before), Shared) /\ Drawn(Stores(edit'[c].after), Shared)
  PROVE  AgreeAll(Shared')
<1>1. ASSUME NEW s \in Shared', NEW a \in Agent, s[a] \in Rank
      PROVE  \E t \in Shared : t[a] = s[a]
  <2>1. \A s1 \in Shared' :
         \/ s1 \in Files' \/ s1 \in Stores(live')
         \/ \E c \in Caller : task'[c] # None /\ s1 \in Stores(task'[c].to)
         \/ \E c \in Call :
              edit'[c] # None /\ (s1 \in Stores(edit'[c].before) \/ s1 \in Stores(edit'[c].after))
    <3>1. \A s1 : s1 \in Shared' <=>
            \/ s1 \in Files' \/ s1 \in Stores(live')
            \/ \E c \in Caller : s1 \in HeldBy(c)'
            \/ \E c \in Call : s1 \in InEdit(c)'
      <4>1. \A s1 : s1 \in InTasks' <=> \E c \in Caller : s1 \in HeldBy(c)'
        BY DEF InTasks
      <4>2. \A s1 : s1 \in InEdits' <=> \E c \in Call : s1 \in InEdit(c)'
        BY DEF InEdits
      <4>3. Stores(live') = Stores(live)'
        BY DEF Stores
      <4> QED
        BY <4>1, <4>2, <4>3 DEF Shared
    <3>2. \A c \in Caller : \A s1 : s1 \in HeldBy(c)' <=> task'[c] # None /\ s1 \in Stores(task'[c].to)
      BY DEF HeldBy, Stores
    <3>3. \A c \in Call : \A s1 : s1 \in InEdit(c)' <=>
            edit'[c] # None /\ (s1 \in Stores(edit'[c].before) \/ s1 \in Stores(edit'[c].after))
      BY DEF InEdit, Stores
    <3> QED
      BY <3>1, <3>2, <3>3
  <2>2. CASE s \in Files'
    BY <1>1, <2>2 DEF Drawn
  <2>3. CASE s \in Stores(live')
    BY <1>1, <2>3 DEF Drawn
  <2>4. ASSUME NEW c \in Caller, task'[c] # None, s \in Stores(task'[c].to)
        PROVE  \E t \in Shared : t[a] = s[a]
    BY <1>1, <2>4 DEF Drawn
  <2>5. ASSUME NEW c \in Call, edit'[c] # None,
               s \in Stores(edit'[c].before) \/ s \in Stores(edit'[c].after)
        PROVE  \E t \in Shared : t[a] = s[a]
    BY <1>1, <2>5 DEF Drawn
  <2> QED
    BY <2>1, <2>2, <2>3, <2>4, <2>5
<1>2. Drawn(Shared', Shared)
  BY <1>1 DEF Drawn
<1> QED
  BY <1>2, DrawnAgree

LEMMA SubsetDrawn == \A old, new : new \subseteq old => Drawn(new, old)
  BY DEF Drawn

LEMMA DrawnFrom ==
  ASSUME NEW new, NEW old, NEW more, Drawn(new, old), old \subseteq more PROVE Drawn(new, more)
  BY DEF Drawn

LEMMA SharedKept ==
  ASSUME AgreeAll(Shared), Files' \subseteq Shared, Stores(live') \subseteq Shared,
         \A c \in Caller : task'[c] # None => Stores(task'[c].to) \subseteq Shared,
         \A c \in Call : edit'[c] # None =>
           Stores(edit'[c].before) \subseteq Shared /\ Stores(edit'[c].after) \subseteq Shared
  PROVE  AgreeAll(Shared')
<1>1. \A s \in Files' : Drawn({s}, Shared)
  BY SubsetDrawn
<1> QED
  BY <1>1, SubsetDrawn, SharedDrawn

(* An order that is being saved waits for no call. *)
LEMMA OrdersAlone ==
  ASSUME StoreTyped, ControlInv, Ranked, Ordering
  PROVE  OrderRanks /\ \A c \in Call : edit[c] = None /\ task[c] = None
  BY DEF Ranked, OrderRanks, NoEdits, ControlInv, CallsInv, None

LEMMA RankSame ==
  ASSUME Ranked, globalFile'.agents = globalFile.agents, UNCHANGED <<Local, task, live, job, edit>>
  PROVE  Ranked'
<1>1. Files' = Files
  BY DEF Files
<1>2. CASE Ordering
  BY <1>1, <1>2 DEF Ranked, Ordering, OrderRanks, NoEdits
<1>3. CASE ~Ordering
  <2>1. AgreeAll(Shared')
    BY <1>1, <1>3, SharedBy, SharedKept DEF Ranked
  <2> QED
    BY <1>3, <2>1 DEF Ranked, Ordering
<1> QED
  BY <1>2, <1>3

LEMMA RankAcquire ==
  ASSUME StoreTyped, ControlInv, Ranked, NEW c \in Caller, Acquire(c)
  PROVE  Ranked'
<1>1. UNCHANGED <<globalFile, localFile, Local, Files, live, job, edit>>
  BY DEF Acquire, fileVars, windowVars, Local, Files
<1>2. /\ task[c].op = "waiting" /\ task[c] # None /\ task'[c].to = task[c].to
      /\ task'[c].kind = task[c].kind
      /\ \A d \in Caller : d # c => task'[d] = task[d]
  BY AcquireTyped DEF Acquire
<1>3. CASE Ordering
  <2>1. c = "queue" /\ task[c].kind = "order"
    BY <1>2, <1>3, OrdersAlone, Callers DEF ControlInv, CallsInv, Ordering
  <2>2. task'[c].op \in {"err", "writing"}
    BY <2>1, AcquireTyped
  <2> QED
    BY <1>1, <1>2, <1>3, <2>1, <2>2 DEF Ranked, Ordering, OrderRanks, NoEdits
<1>4. CASE ~Ordering
  <2>1. AgreeAll(Shared')
    BY <1>1, <1>2, <1>4, SharedBy, SharedKept DEF Ranked
  <2> QED
    BY <1>1, <1>4, <2>1 DEF Ranked, Ordering
<1> QED
  BY <1>3, <1>4

LEMMA RankWrite ==
  ASSUME StoreTyped, ControlInv, mishaps' \subseteq {"stale"}, Ranked,
         NEW c \in Caller, NEW outcome \in Written, Write(c, outcome)
  PROVE  Ranked'
<1>1. UNCHANGED <<live, job, edit>>
  BY DEF Write, windowVars
<1>2. /\ task[c] \in Save /\ task[c] # None /\ task[c].op \in Busy
      /\ task'[c].to = task[c].to /\ task'[c].from = task[c].from
      /\ task'[c].kind = task[c].kind
      /\ \A d \in Caller : d # c => task'[d] = task[d]
  BY WriteTyped, NoTask DEF Save
<1>3. task[c].to.local \in Store
  BY <1>2 DEF Save, Both
<1>4. \A r \in {"ok", "err"} : Ends(c, r) => task'[c].op = r
  BY <1>2, NoTask, Moves
<1>5. \A op \in {"writingLocal", "rollingBack"} : Goes(c, op) => task'[c].op = op
  BY <1>2, NoTask, Moves
<1>6. CASE Ordering
  <2>1. c = "queue" /\ task[c].kind = "order" /\ OrderRanks
    BY <1>2, <1>6, OrdersAlone, Callers DEF ControlInv, CallsInv, Ordering
  <2>2. CASE OrderWrite(c, outcome)
    <3>1. task[c].from = globalFile /\ task[c].op = "writing" /\ Local' = Local
      BY <2>2 DEF OrderWrite, ControlInv, LockInv, Local
    <3>2. CASE outcome = "failed"
      <4>1. Files' = Files /\ task'[c].op = "err"
        BY <1>4, <2>2, <3>1, <3>2 DEF OrderWrite, Replaces, Files
      <4> QED
        BY <1>1, <1>2, <1>6, <2>1, <3>1, <4>1 DEF OrderRanks, Ranked, Ordering, NoEdits
    <3>3. CASE outcome = "ok" /\ WritesLocal(task[c])
      <4>1. task'[c].op = "writingLocal"
        BY <1>5, <2>2, <3>3 DEF OrderWrite
      <4> QED
        BY <1>1, <1>2, <1>6, <2>1, <3>1, <4>1 DEF OrderRanks, Ranked, Ordering, NoEdits, Files
    <3>4. CASE outcome = "ok" /\ ~WritesLocal(task[c])
      <4>1. task'[c].op = "ok"
        BY <1>4, <2>2, <3>4 DEF OrderWrite
      <4>2. globalFile' = [globalFile EXCEPT !.agents = task[c].to.global]
        BY <2>2, <3>1, <3>4 DEF OrderWrite, Replaces
      <4>3. globalFile'.agents = live.global
        BY <2>1, <4>2 DEF StoreTyped, FilesTyped, Project, OrderRanks
      <4>4. Local' = live.local
        <5>1. Local = Empty /\ task[c].to.local = Empty
          BY <1>3, <3>4, FileRead DEF WritesLocal, Local
        <5> QED
          BY <2>1, <3>1, <5>1 DEF OrderRanks
      <4>5. Stores(live) \cup Files' \subseteq Stores(live)
        BY <4>3, <4>4 DEF Files, Stores
      <4>6. AgreeAll(Stores(live) \cup Files')
        BY <2>1, <4>5, SubsetAgrees DEF OrderRanks
      <4> QED
        BY <1>1, <1>2, <1>6, <2>1, <4>1, <4>6 DEF OrderRanks, Ranked, Ordering, NoEdits
    <3>5. outcome # "unsynced"
      BY <2>2 DEF OrderWrite, Happens
    <3> QED
      BY <3>2, <3>3, <3>4, <3>5 DEF Written
  <2>3. CASE LocalWrite(c, outcome)
    <3>1. task[c].op = "writingLocal" /\ outcome # "unsynced"
      BY <2>3 DEF LocalWrite, Happens
    <3>2. CASE outcome = "failed"
      <4>1. Local' = Local /\ task'[c].op = "rollingBack"
        BY <1>5, <2>1, <2>3, <3>2 DEF LocalWrite, LocalFailed, Replaces, Local
      <4> QED
        BY <1>1, <1>2, <1>6, <2>1, <3>1, <4>1 DEF OrderRanks, Ranked, Ordering, NoEdits
    <3>3. CASE outcome = "ok"
      <4>1. task'[c].op = "ok"
        BY <1>4, <2>3, <3>3 DEF LocalWrite
      <4>2. globalFile'.agents = live.global
        BY <2>1, <2>3, <3>1 DEF LocalWrite, ControlInv, LockInv, Halfway, OrderRanks
      <4>3. Local' = live.local
        <5>1. localFile' = task[c].to.local
          BY <2>3, <3>3 DEF LocalWrite, Replaces
        <5> QED
          BY <1>3, <2>1, <5>1, FileRead DEF Local, OrderRanks
      <4>4. Stores(live) \cup Files' \subseteq Stores(live)
        BY <4>2, <4>3 DEF Files, Stores
      <4>5. AgreeAll(Stores(live) \cup Files')
        BY <2>1, <4>4, SubsetAgrees DEF OrderRanks
      <4> QED
        BY <1>1, <1>2, <1>6, <2>1, <4>1, <4>5 DEF OrderRanks, Ranked, Ordering, NoEdits
    <3> QED
      BY <3>1, <3>2, <3>3 DEF Written
  <2>4. CASE RollBack(c, outcome)
    <3>1. outcome = "ok" /\ globalFile' = task[c].from /\ Local' = Local /\ task'[c].op = "err"
          /\ task[c].op = "rollingBack"
      BY <1>4, <2>4 DEF RollBack, Happens, Replaces, Local
    <3> QED
      BY <1>1, <1>2, <1>6, <2>1, <3>1 DEF OrderRanks, Ranked, Ordering, NoEdits, Files
  <2> QED
    BY <2>1, <2>2, <2>3, <2>4 DEF Write, SnapshotWrite
<1>7. CASE ~Ordering
  <2>1. task[c].op # "rollingBack" /\ task[c].kind # "order"
    <3>1. task[c].op # "rollingBack"
      BY <1>7, OrdersRollBack DEF ControlInv, Ordering
    <3>2. CASE c = "queue"
      <4>1. job.op = "saving"
        BY <1>2, <1>7, <3>2, NoJob DEF ControlInv, CallsInv, Ordering, StoreTyped
      <4> QED
        BY <3>1, <3>2, <4>1 DEF ControlInv, CallsInv
    <3>3. CASE c \in Call
      BY <1>2, <3>1, <3>3 DEF ControlInv, CallsInv
    <3> QED
      BY <3>1, <3>2, <3>3, Callers
  <2>2. SnapshotWrite(c, outcome) \/ LocalWrite(c, outcome)
    BY <2>1 DEF Write, OrderWrite, RollBack
  <2>3. globalFile'.agents \in {globalFile.agents, task[c].to.global} /\ Local' \in {Local, task[c].to.local}
    <3>1. CASE SnapshotWrite(c, outcome)
      BY <3>1 DEF SnapshotWrite, Local
    <3>2. CASE LocalWrite(c, outcome)
      <4>1. globalFile' = globalFile /\ localFile' \in {localFile, task[c].to.local}
        BY <3>2 DEF LocalWrite
      <4> QED
        BY <1>3, <4>1, FileRead DEF Local
    <3> QED
      BY <2>2, <3>1, <3>2
  <2>4. Files' \subseteq Shared
    <3>1. Files' \subseteq Files \cup Stores(task[c].to)
      BY <2>3 DEF Files, Stores
    <3> QED
      BY <1>2, <3>1, SharedBy
  <2>5. AgreeAll(Shared')
    BY <1>1, <1>2, <1>7, <2>4, SharedBy, SharedKept DEF Ranked
  <2> QED
    BY <1>1, <1>7, <2>5 DEF Ranked, Ordering
<1> QED
  BY <1>6, <1>7

LEMMA RankEdits ==
  ASSUME StoreTyped, ControlInv, mishaps' \subseteq {"stale"}, Ranked, Edits
  PROVE  Ranked'
<1>1. UNCHANGED <<globalFile, Local, Files>>
  BY WindowCalls DEF ControlInv, Local, Files
<1>2. CASE Touch \/ Reorder
  <2>1. UNCHANGED <<globalFile, Local, live, job, edit, task>>
    BY <1>1, <1>2 DEF Touch, Reorder, backendVars
  <2> QED
    BY <2>1, RankSame
<1>3. "overlap" \notin mishaps'
  OBVIOUS
<1>4. ASSUME NEW both \in Both, Drawn(Stores(both), Stores(live)) PROVE Drawn(Stores(both), Shared)
  BY <1>4, SharedBy, DrawnFrom
<1>5. \A s \in Files' : Drawn({s}, Shared)
  BY <1>1, SharedBy DEF Drawn
<1>6. Drawn(Stores(live), Shared) /\ live \in Both
  BY SharedBy, SubsetDrawn DEF StoreTyped, WindowTyped
<1>7. \A c \in Caller : task[c] # None => Drawn(Stores(task[c].to), Shared)
  BY SharedBy, SubsetDrawn
<1>8. \A c \in Call : edit[c] # None =>
        Drawn(Stores(edit[c].before), Shared) /\ Drawn(Stores(edit[c].after), Shared)
  BY SharedBy, SubsetDrawn
<1>9. ASSUME NEW a \in Agent, AtOnce, job' = job,
             live' = SavedIn(live, a, "global") \/ live' = Without(live, a)
      PROVE  Ranked'
  <2>1. ~Ordering /\ UNCHANGED <<edit, task>>
    BY <1>3, <1>9 DEF AtOnce, Overlap, Ordering
  <2>2. Drawn(Stores(live'), Shared)
    BY <1>4, <1>6, <1>9, SavedTyped, SavedDrawn, WithoutTyped, WithoutDrawn
  <2>3. AgreeAll(Shared')
    BY <1>5, <1>7, <1>8, <2>1, <2>2, SharedDrawn DEF Ranked
  <2> QED
    BY <1>9, <2>1, <2>3 DEF Ranked, Ordering
<1>10. ASSUME NEW c \in Call, NEW op \in {"savingLocal", "flushing"}, NEW after \in Both,
              Awaits(c, op, after), job' = job, live' \in {live, after},
              Drawn(Stores(after), Shared),
              \A d \in Caller : task'[d] # None =>
                task'[d] = task[d] \/ task'[d].to = after
       PROVE  Ranked'
  <2>1. /\ ~Ordering /\ edit'[c].before = live /\ edit'[c].after = after
        /\ \A d \in Call : d # c => edit'[d] = edit[d]
    BY <1>3, <1>10, Awaited DEF Ordering
  <2>2. \A d \in Call : edit'[d] # None =>
          Drawn(Stores(edit'[d].before), Shared) /\ Drawn(Stores(edit'[d].after), Shared)
    BY <1>6, <1>8, <1>10, <2>1
  <2>3. \A d \in Caller : task'[d] # None => Drawn(Stores(task'[d].to), Shared)
    BY <1>7, <1>10
  <2>4. Drawn(Stores(live'), Shared)
    BY <1>6, <1>10
  <2>5. AgreeAll(Shared')
    BY <1>5, <2>1, <2>2, <2>3, <2>4, SharedDrawn DEF Ranked
  <2> QED
    BY <1>10, <2>1, <2>5 DEF Ranked, Ordering
<1>11. ASSUME NEW c \in Call, NEW after \in Both, SaveLocal(c, after),
              Awaits(c, "savingLocal", after), UNCHANGED <<live, job>>, Drawn(Stores(after), Shared)
       PROVE  Ranked'
  <2>1. \A d \in Caller : task'[d] # None => task'[d] = task[d] \/ task'[d].to = after
    BY <1>11, Called, Callers DEF SaveLocal
  <2> QED
    BY <1>10, <1>11, <2>1
<1>12. ASSUME NEW a \in Agent, SaveGlobal(a) PROVE Ranked'
  BY <1>9, <1>12 DEF SaveGlobal
<1>13. ASSUME NEW c \in Call, NEW a \in Agent, SaveInProject(c, a) PROVE Ranked'
  <2>1. PICK after \in Both : after = SavedIn(live, a, "project") /\ Drawn(Stores(after), Shared)
    BY <1>4, <1>6, SavedTyped, SavedDrawn
  <2> QED
    BY <1>11, <1>13, <2>1 DEF SaveInProject, windowVars
<1>14. ASSUME NEW c \in Call, NEW a \in Agent, SaveOverride(c, a) PROVE Ranked'
  <2>1. PICK after \in Both : after = SavedIn(live, a, "global") /\ Drawn(Stores(after), Shared)
    BY <1>4, <1>6, SavedTyped, SavedDrawn
  <2>2. Awaits(c, "flushing", after) /\ UNCHANGED <<task, job>> /\ live' = after
    BY <1>14, <2>1 DEF SaveOverride, backendVars
  <2> QED
    BY <1>10, <2>1, <2>2
<1>15. ASSUME NEW c \in Call, NEW a \in Agent, RemoveAgent(c, a) PROVE Ranked'
  <2>1. CASE live.local[a] # Absent
    <3>1. PICK after \in Both : after = Without(live, a) /\ Drawn(Stores(after), Shared)
      BY <1>4, <1>6, WithoutTyped, WithoutDrawn
    <3> QED
      BY <1>11, <1>15, <2>1, <3>1 DEF RemoveAgent
  <2>2. CASE live.local[a] = Absent
    BY <1>9, <1>15, <2>2 DEF RemoveAgent
  <2> QED
    BY <2>1, <2>2
<1> QED
  BY <1>2, <1>12, <1>13, <1>14, <1>15 DEF Edits

LEMMA RankLeaves ==
  ASSUME StoreTyped, QueueInv, queue # <<>>, NEW result \in {"flushed", "unflushed"},
         Leaves(result), Files' = Files, live' = live, AgreeAll(Shared),
         task'["queue"] \in {None, task["queue"]}, \A c \in Call : task'[c] = task[c]
  PROVE  Ranked'
<1>1. ~Ordering'
  BY LeavesTyped DEF Ordering, None
<1>2. ASSUME NEW c \in Call, edit'[c] # None
      PROVE  edit[c] # None /\ edit'[c].before = edit[c].before /\ edit'[c].after = edit[c].after
  BY <1>2, LeavesTyped, NoEdit
<1>3. \A c \in Caller : task'[c] # None => Stores(task'[c].to) \subseteq Shared
  BY SharedBy, Callers
<1>4. AgreeAll(Shared')
  BY <1>2, <1>3, SharedBy, SharedKept
<1> QED
  BY <1>1, <1>4 DEF Ranked

LEMMA SharedAlone ==
  ASSUME Files' = Files, \A c \in Caller : task'[c] = None, \A c \in Call : edit'[c] = None
  PROVE  Shared' = Files \cup Stores(live')
<1>1. InTasks' = {}
  BY DEF InTasks, HeldBy
<1>2. InEdits' = {}
  BY DEF InEdits, InEdit
<1> QED
  BY <1>1, <1>2 DEF Shared, Stores

LEMMA RankQueue ==
  ASSUME StoreTyped, ControlInv, mishaps' \subseteq {"stale"}, Ranked,
         Persist \/ Persisted \/ OrderShown \/ OrderAnswered
  PROVE  Ranked'
<1>1. UNCHANGED <<globalFile, Local, Files>>
  BY WindowCalls DEF ControlInv, Window, Local, Files
<1>2. QueueInv /\ CallsInv /\ live \in Both /\ "queue" \in Caller
      /\ \A c \in Call : c \in Caller /\ c # "queue"
  BY Callers DEF ControlInv, StoreTyped, WindowTyped
<1>3. CASE Persist
  <2>1. queue # <<>> /\ ~Ordering /\ live' = live
    BY <1>3 DEF Persist, None, Ordering
  <2>2. AgreeAll(Shared)
    BY <2>1 DEF Ranked
  <2>3. CASE dirty
    <3>1. CallBackend("queue", "snapshot", live) /\ job'.op = "saving" /\ edit' = edit
      BY <1>3, <2>3 DEF Persist
    <3>2. task'["queue"].to = live /\ \A c \in Call : task'[c] = task[c]
      BY <1>2, <3>1, Called
    <3>3. \A c \in Caller : task'[c] # None => Stores(task'[c].to) \subseteq Shared
      BY <3>2, SharedBy, Callers
    <3>4. AgreeAll(Shared')
      BY <1>1, <2>1, <2>2, <3>1, <3>3, SharedBy, SharedKept
    <3> QED
      BY <3>1, <3>4 DEF Ranked, Ordering
  <2>4. CASE ~dirty /\ Head(queue) = "order"
    <3>1. task' = task /\ edit' = edit /\ job'.op = "saved"
      BY <1>3, <2>4 DEF Persist
    <3>2. AgreeAll(Shared')
      BY <1>1, <2>1, <2>2, <3>1, SharedBy, SharedKept
    <3> QED
      BY <3>1, <3>2 DEF Ranked, Ordering
  <2>5. CASE ~dirty /\ Head(queue) # "order"
    <3>1. task' = task /\ Leaves("flushed")
      BY <1>3, <2>5 DEF Persist
    <3> QED
      BY <1>1, <1>2, <2>1, <2>2, <3>1, RankLeaves
  <2> QED
    BY <2>3, <2>4, <2>5
<1>4. CASE Persisted
  <2>1. job.op = "saving" /\ live' = live /\ ~Ordering
    BY <1>4 DEF Persisted, Ordering
  <2>2. queue # <<>> /\ AgreeAll(Shared)
    BY <1>2, <2>1 DEF QueueInv, None, Ranked
  <2>3. task'["queue"] = None /\ \A c \in Call : task'[c] = task[c]
    BY <1>2, <1>4, AnsweredTyped DEF Persisted
  <2>4. CASE edit' = edit /\ job' = [op |-> "saved"]
    <3>1. \A c \in Caller : task'[c] # None => Stores(task'[c].to) \subseteq Shared
      BY <2>3, SharedBy, Callers
    <3>2. AgreeAll(Shared')
      BY <1>1, <2>1, <2>2, <2>4, <3>1, SharedBy, SharedKept
    <3> QED
      BY <2>4, <3>2 DEF Ranked, Ordering
  <2>5. CASE Leaves("flushed") \/ Leaves("unflushed")
    BY <1>1, <1>2, <2>1, <2>2, <2>3, <2>5, RankLeaves
  <2> QED
    BY <1>4, <2>4, <2>5 DEF Persisted
<1>5. CASE OrderShown
  <2>1. job.op = "saved" /\ ~Ordering /\ task["queue"] = None
    BY <1>2, <1>5 DEF OrderShown, Ordering, CallsInv
  <2>2. AgreeAll(Shared) /\ queue # <<>>
    BY <1>2, <2>1 DEF Ranked, QueueInv, None
  <2>3. ASSUME NEW f \in Orders(live), live' = RerankedBoth(f, live),
               CallBackend("queue", "order", live'), job' = [op |-> "ordering", before |-> live],
               Happens("overlap", \E c \in Call : edit[c] # None), edit' = edit
        PROVE  Ranked'
    <3>1. live' \in Both /\ AgreeAll(Stores(live'))
      BY <1>2, <2>3, RerankedTyped, RerankedAgrees
    <3>2. task'["queue"].op = "waiting" /\ task'["queue"].to = live'
      BY <1>2, <2>3, <3>1, Called
    <3>3. Stores(live) \cup Files \subseteq Shared
      BY SharedBy
    <3>4. AgreeAll(Stores(live) \cup Files)
      BY <2>2, <3>3, SubsetAgrees
    <3>5. job'.op = "ordering" /\ job'.before = live
      BY <2>3
    <3>6. \A c \in Call : edit'[c] = None
      BY <2>3 DEF Happens
    <3> QED
      BY <1>1, <3>1, <3>2, <3>4, <3>5, <3>6 DEF Ranked, Ordering, OrderRanks, NoEdits
  <2>4. CASE Leaves("flushed") /\ UNCHANGED <<live, task, mishaps>>
    BY <1>1, <1>2, <2>2, <2>4, RankLeaves
  <2> QED
    BY <1>5, <2>3, <2>4 DEF OrderShown
<1>6. CASE OrderAnswered
  <2>1. Ordering /\ Answered("queue") /\ Leaves("flushed")
        /\ live' = IF task["queue"].op = "ok" THEN live ELSE job.before
    BY <1>6 DEF OrderAnswered, Ordering
  <2>2. OrderRanks /\ \A c \in Call : edit[c] = None /\ task[c] = None
    BY <2>1, OrdersAlone
  <2>3. queue # <<>> /\ Head(queue) = "order"
    BY <1>2, <2>1 DEF QueueInv, None, StoreTyped, WindowTyped, Ordering
  <2>4. (\A c \in Call : edit'[c] = None) /\ job' = None
    BY <2>1, <2>2, <2>3, Callers DEF Leaves
  <2>5. \A c \in Caller : task'[c] = None
    BY <1>2, <1>6, <2>2, AnsweredTyped, Callers DEF OrderAnswered
  <2>6. Shared' = Files \cup Stores(live')
    BY <1>1, <2>4, <2>5, SharedAlone
  <2>7. AgreeAll(Files \cup Stores(live'))
    <3>1. CASE task["queue"].op = "ok"
      <4>1. Files \cup Stores(live') = Stores(live) \cup Files
        BY <2>1, <3>1
      <4> QED
        BY <2>2, <3>1, <4>1 DEF OrderRanks
    <3>2. CASE task["queue"].op = "err"
      <4>1. Files \cup Stores(live') = Stores(job.before) \cup Files
        BY <2>1, <3>2
      <4> QED
        BY <2>2, <3>2, <4>1 DEF OrderRanks
    <3> QED
      BY <2>1, <3>1, <3>2 DEF Answered
  <2> QED
    BY <2>4, <2>6, <2>7 DEF Ranked, Ordering, None
<1> QED
  BY <1>3, <1>4, <1>5, <1>6

LEMMA RankOthers ==
  ASSUME StoreTyped, ControlInv, Ranked,
         \/ Load \/ TimerFires
         \/ \E c \in Call : Flushed(c) \/ Unflushed(c) \/ OverrideRemoved(c) \/ LocalSaved(c)
  PROVE  Ranked'
<1>1. UNCHANGED <<globalFile, Local, Files>>
  BY WindowCalls DEF ControlInv, Window, Local, Files
<1>2. CASE TimerFires
  BY <1>1, <1>2, RankSame DEF TimerFires, backendVars
<1>3. ASSUME ~Ordering, job' = job, Stores(live') \subseteq Shared,
             \A c \in Caller : task'[c] # None => Stores(task'[c].to) \subseteq Shared,
             \A c \in Call : edit'[c] # None =>
               edit[c] # None /\ edit'[c].before = edit[c].before /\ edit'[c].after = edit[c].after
      PROVE  Ranked'
  <2>1. AgreeAll(Shared')
    BY <1>1, <1>3, SharedBy, SharedKept DEF Ranked
  <2> QED
    BY <1>3, <2>1 DEF Ranked, Ordering
<1>4. CASE Load
  <2>1. ~Ordering /\ UNCHANGED <<job, edit, task>>
    BY <1>4 DEF Load, ControlInv, ClosedInv, Ordering, None, backendVars
  <2>2. Stores(live') \subseteq Files
    BY <1>4 DEF Load, Stores, Files
  <2> QED
    BY <1>3, <2>1, <2>2, SharedBy
<1>5. ASSUME NEW c \in Call, edit[c].op # "none"
      PROVE  ~Ordering /\ edit[c] \in Edit /\ edit[c] # None /\ Stores(live) \subseteq Shared
             /\ Stores(edit[c].before) \subseteq Shared /\ Stores(edit[c].after) \subseteq Shared
             /\ c \in Caller
  <2>1. edit[c] # None /\ edit[c] \in Edit
    BY <1>5, NoEdit DEF None, StoreTyped, WindowTyped
  <2> QED
    BY <2>1, OrdersAlone, SharedBy, Callers
<1>6. ASSUME NEW c \in Call, Flushed(c) PROVE Ranked'
  <2>1. edit[c].op = "flushed" /\ UNCHANGED <<live, job>>
        /\ edit' = [edit EXCEPT ![c].op = "removingLocal"]
        /\ CallBackend(c, "local", edit[c].after)
    BY <1>6 DEF Flushed, windowVars, SaveLocal
  <2>2. /\ edit[c] # None /\ edit[c].after \in Both /\ c \in Caller
        /\ edit'[c].before = edit[c].before /\ edit'[c].after = edit[c].after
        /\ \A d \in Call : d # c => edit'[d] = edit[d]
    BY <1>5, <2>1, EditGoes DEF Edit
  <2>3. task'[c].to = edit[c].after /\ \A d \in Caller : d # c => task'[d] = task[d]
    BY <2>1, <2>2, Called
  <2>4. \A d \in Caller : task'[d] # None => Stores(task'[d].to) \subseteq Shared
    BY <1>5, <2>1, <2>3, SharedBy
  <2> QED
    BY <1>3, <1>5, <2>1, <2>2, <2>4
<1>7. ASSUME NEW c \in Call, edit[c].op # "none", Returns(c), job' = job,
             task' = task \/ task' = [task EXCEPT ![c] = None],
             live' \in {live, edit[c].before, edit[c].after,
                       [global |-> edit[c].after.global, local |-> edit[c].before.local]}
      PROVE  Ranked'
  <2>1. edit'[c] = None /\ \A d \in Call : d # c => edit'[d] = edit[d]
    BY <1>7, Returned
  <2>2. \A d \in Caller : task'[d] # None => task'[d] = task[d]
    BY <1>5, <1>7, AnsweredTyped
  <2>3. \A d \in Caller : task'[d] # None => Stores(task'[d].to) \subseteq Shared
    BY <2>2, SharedBy
  <2>4. Stores(live') \subseteq Shared
    BY <1>5, <1>7 DEF Stores
  <2> QED
    BY <1>3, <1>5, <1>7, <2>1, <2>3, <2>4
<1>8. ASSUME NEW c \in Call, Unflushed(c) PROVE Ranked'
  BY <1>7, <1>8 DEF Unflushed, PutsBack, backendVars
<1>9. ASSUME NEW c \in Call, OverrideRemoved(c) \/ LocalSaved(c) PROVE Ranked'
  BY <1>7, <1>9 DEF OverrideRemoved, LocalSaved, PutsBack
<1> QED
  BY <1>2, <1>4, <1>6, <1>8, <1>9

LEMMA RankCrash ==
  ASSUME StoreTyped, ControlInv, mishaps' \subseteq {"stale"}, Ranked, Crash
  PROVE  Ranked'
<1>1. /\ job' = None /\ live' = Alone(Empty) /\ Files' = Files
      /\ (\A c \in Call : edit'[c] = None) /\ \A c \in Caller : task'[c] = None
  BY DEF Crash, Closed, Files, Local, fileVars
<1>2. Shared' = Files \cup Stores(Alone(Empty))
  BY <1>1, SharedAlone
<1>3. AgreeAll(Files)
  <2>1. CASE ~Ordering
    BY <2>1, SharedBy, SubsetAgrees DEF Ranked
  <2>2. CASE Ordering
    <3>1. OrderRanks /\ task["queue"] \in Save /\ task["queue"].kind = "order"
      BY <2>2, OrdersAlone, NoTask, Callers
        DEF ControlInv, CallsInv, Ordering, StoreTyped, TasksTyped
    <3>2. task["queue"].op \notin {"writingLocal", "rollingBack"}
      BY <3>1, Callers DEF Crash, Happens, Halfway
    <3>3. CASE task["queue"].op \in {"waiting", "writing", "err"}
      <4>1. AgreeAll(Stores(job.before) \cup Files)
        BY <3>1, <3>3 DEF OrderRanks
      <4> QED
        BY <4>1, SubsetAgrees
    <3>4. CASE task["queue"].op = "ok"
      <4>1. AgreeAll(Stores(live) \cup Files)
        BY <3>1, <3>4 DEF OrderRanks
      <4> QED
        BY <4>1, SubsetAgrees
    <3> QED
      BY <3>1, <3>2, <3>3, <3>4 DEF Save, TaskOp, Busy
  <2> QED
    BY <2>1, <2>2
<1>4. Drawn(Files \cup Stores(Alone(Empty)), Files)
  BY EmptyDrawn DEF Drawn
<1>5. AgreeAll(Shared')
  BY <1>2, <1>3, <1>4, DrawnAgree
<1> QED
  BY <1>1, <1>5 DEF Ranked, Ordering, None

LEMMA RankNext == StoreTyped /\ ControlInv /\ RankInv /\ [Next]_vars => RankInv'
<1> SUFFICES ASSUME StoreTyped, ControlInv, RankInv, [Next]_vars, mishaps' \subseteq {"stale"}
             PROVE  Ranked'
  BY DEF RankInv
<1>1. Ranked
  BY MishapsGrow DEF RankInv
<1>2. CASE UNCHANGED vars
  BY <1>1, <1>2, RankSame DEF vars, fileVars, backendVars, windowVars, Local
<1>3. CASE CliLoads
  BY <1>1, <1>3, RankSame DEF CliLoads, fileVars, windowVars, Local
<1>4. CASE CliSaves
  <2>1. cli.read = globalFile
    BY <1>4 DEF CliSaves, ControlInv, LockInv
  <2>2. globalFile'.agents = globalFile.agents
    BY <1>4, <2>1 DEF CliSaves, StoreTyped, FilesTyped, Project
  <2> QED
    BY <1>1, <1>4, <2>2, RankSame DEF CliSaves, windowVars, Local
<1>5. CASE Backend
  BY <1>1, <1>5, RankAcquire, RankWrite DEF Backend
<1>6. CASE Edits \/ Window \/ Crash
  BY <1>1, <1>6, RankEdits, RankQueue, RankOthers, RankCrash DEF Window
<1> QED
  BY <1>2, <1>3, <1>4, <1>5, <1>6 DEF Next

(* useProjects.ts, replaceCommand and effectiveCommandOrder: no sequence of      *)
(* edits, of edits that overwrite each other, orders, failures and crashes gives *)
(* two agents one rank, or one agent two, in what is shown, but for an order     *)
(* that was torn or overlapped an edit.                                         *)
THEOREM RanksCorrect == StoreSpec => []RanksStayDistinct
<1>1. Init => RankInv
  BY RankInit
<1>2. (StoreTyped /\ ControlInv) /\ RankInv /\ [Next]_vars => RankInv'
  BY RankNext
<1>3. (StoreTyped /\ ControlInv) /\ RankInv => RanksStayDistinct
  <2> SUFFICES ASSUME StoreTyped, RankInv, mishaps \subseteq {"stale"} PROVE Orderable(live)
    BY DEF RanksStayDistinct
  <2>1. live \in Both
    BY DEF StoreTyped, WindowTyped
  <2>2. AgreeAll(Stores(live))
    BY SharedBy, SubsetAgrees DEF RankInv, Ranked, OrderRanks
  <2>3. ASSUME NEW s, Drawn({s}, Stores(live)) PROVE RanksDiffer(s)
    <3>1. Agree(s, s)
      BY <2>2, <2>3, DrawnAgree DEF AgreeAll
    <3> QED
      BY <3>1 DEF Agree, RanksDiffer
  <2>4. Drawn({live.global}, Stores(live)) /\ Drawn({live.local}, Stores(live))
    BY DEF Drawn, Stores
  <2>5. Drawn({Effective(live)}, Stores(live))
    BY <2>1, EffectiveTyped DEF Drawn, Stores
  <2> QED
    BY <2>3, <2>4, <2>5 DEF Orderable
<1> QED
  BY <1>1, <1>2, <1>3, ControlCorrect, PTL DEF StoreSpec

-----------------------------------------------------------------------------
(* What stays on disk *)

LEMMA SavedHas ==
  ASSUME NEW both \in Both, NEW a \in Agent
  PROVE  LET g == SavedIn(both, a, "global")
             p == SavedIn(both, a, "project")
         IN /\ Has(g.global) = Has(both.global) \cup {a} /\ Has(g.local) = Has(both.local) \ {a}
            /\ Has(p.local) = Has(both.local) \cup {a} /\ Has(p.global) = Has(both.global) \ {a}
<1> DEFINE slot == IF Effective(both)[a] = Absent THEN Unranked ELSE Effective(both)[a]
<1>1. both.global \in Store /\ both.local \in Store
  BY DEF Both
<1>2. slot # Absent
  BY StoreAssumption
<1>3. /\ SavedIn(both, a, "global").global = Replaced(both.global, a, slot, TRUE)
      /\ SavedIn(both, a, "global").local = Replaced(both.local, a, slot, FALSE)
      /\ SavedIn(both, a, "project").local = Replaced(both.local, a, slot, TRUE)
      /\ SavedIn(both, a, "project").global = Replaced(both.global, a, slot, FALSE)
  BY DEF SavedIn
<1> HIDE DEF slot
<1>4. ASSUME NEW store \in Store PROVE Has(Replaced(store, a, slot, TRUE)) = Has(store) \cup {a}
  <2>1. \A b \in Agent : b # a => Replaced(store, a, slot, TRUE)[b] = store[b]
    BY DEF Replaced, Store
  <2>2. Replaced(store, a, slot, TRUE)[a] # Absent
    BY <1>2 DEF Replaced, Store
  <2> QED
    BY <2>1, <2>2 DEF Has
<1>5. ASSUME NEW store \in Store PROVE Has(Replaced(store, a, slot, FALSE)) = Has(store) \ {a}
  <2>1. \A b \in Agent : b # a => Replaced(store, a, slot, FALSE)[b] = store[b]
    BY DEF Replaced, Store
  <2>2. Replaced(store, a, slot, FALSE)[a] = Absent
    BY DEF Replaced, Store
  <2> QED
    BY <2>1, <2>2 DEF Has
<1> QED
  BY <1>1, <1>3, <1>4, <1>5

LEMMA WithoutHas ==
  ASSUME NEW both \in Both, NEW a \in Agent
  PROVE  /\ Has(Without(both, a).global) = Has(both.global) \ {a}
         /\ Has(Without(both, a).local) = Has(both.local) \ {a}
<1>1. ASSUME NEW store \in Store PROVE Has([store EXCEPT ![a] = Absent]) = Has(store) \ {a}
  <2>1. \A b \in Agent : [store EXCEPT ![a] = Absent][b] = IF b = a THEN Absent ELSE store[b]
    BY DEF Store
  <2> QED
    BY <2>1 DEF Has
<1> QED
  BY <1>1 DEF Without, Both

LEMMA RerankedHas ==
  ASSUME NEW both \in Both, NEW f \in Orders(both)
  PROVE  /\ Has(RerankedBoth(f, both).global) = Has(both.global)
         /\ Has(RerankedBoth(f, both).local) = Has(both.local)
<1>1. \A a \in Has(Effective(both)) : f[a] # Absent
  BY RerankedTyped, NoRank
<1>2. ASSUME NEW store, Has(store) \subseteq Has(Effective(both))
      PROVE  Has(Reranked(f, store)) = Has(store)
  BY <1>1, <1>2 DEF Reranked, Has
<1> QED
  BY <1>2, RerankedTyped DEF RerankedBoth

LEMMA DiskInit == Init => DiskInv
  BY DEF Init, DiskInv

(* What keeps what the calls keep: no call moves, or only one awaits.              *)
LEMMA CallsKept ==
  ASSUME \A c \in Call : CallKept(c), edit' = edit, removed \subseteq removed',
         globalFile'.agents = globalFile.agents,
         Has(live.global) \ removed' \subseteq Has(live'.global),
         \/ job' = job \/ job' = None
         \/ job'.op # "saving" /\ \A c \in Call : edit[c].op \notin {"flushed", "unflushed"},
         job'.op = "saving" => queue'[1] = queue[1] /\ task'["queue"].to = task["queue"].to
  PROVE  \A c \in Call : CallKept(c)'
<1> SUFFICES ASSUME NEW c \in Call PROVE CallKept(c)'
  OBVIOUS
<1>1. CallKept(c) /\ edit'[c] = edit[c]
  OBVIOUS
<1>2. Moved(edit[c])' \subseteq Moved(edit[c])
  BY <1>1 DEF Moved
<1>3. job' = job \/ job'.op # "saving"
  BY DEF None
<1>4. edit[c].op \in {"flushed", "unflushed"} => job' = job \/ job' = None
  OBVIOUS
<1> QED
  BY <1>1, <1>2, <1>3, <1>4 DEF CallKept, Moved

LEMMA CallMoved ==
  ASSUME NEW c \in Call, \A d \in Call : d # c => edit'[d] = None, CallKept(c)'
  PROVE  \A d \in Call : CallKept(d)'
<1> SUFFICES ASSUME NEW d \in Call, d # c PROVE CallKept(d)'
  OBVIOUS
<1>1. edit'[d].op = "none"
  BY DEF None
<1> QED
  BY <1>1 DEF CallKept

LEMMA HeldAcquire ==
  ASSUME StoreTyped, ControlInv, Held, NEW c \in Caller, Acquire(c) PROVE Held'
<1>1. UNCHANGED <<globalFile, localFile, Local, live, dirty, job, edit, queue, removed>>
  BY DEF Acquire, fileVars, windowVars, Local
<1>2. task[c].op = "waiting" /\ task'[c].to = task[c].to /\ task'[c].kind = task[c].kind
      /\ \A d \in Caller : d # c => task'[d] = task[d]
  BY AcquireTyped DEF Acquire
<1>3. task'[c].op = "err" \/ task'[c].op = IF task[c].kind = "local" THEN "writingLocal" ELSE "writing"
  BY AcquireTyped
<1>4. "queue" \in Caller /\ \A d \in Call : d \in Caller /\ d # "queue"
  BY Callers
<1>5. CASE c = "queue"
  <2>1. \A d \in Call : task'[d] = task[d]
    BY <1>2, <1>4, <1>5
  <2>2. CASE Ordering
    <3>1. task[c].kind = "order"
      BY <1>5, <2>2 DEF Ordering, ControlInv, CallsInv
    <3> QED
      BY <1>1, <1>2, <1>3, <1>5, <2>2, <3>1 DEF Held, Ordering, OrderKept, Safe, Backed, NoEdits
  <2>3. CASE ~Ordering
    <3>1. job.op = "saving" /\ task[c].kind = "snapshot"
      BY <1>2, <1>5, <2>3, NoJob DEF Ordering, ControlInv, CallsInv, None, StoreTyped
    <3>2. GlobalKept'
      BY <1>1, <1>2, <1>3, <1>5, <2>3, <3>1 DEF Held, GlobalKept, Safe
    <3>3. ProjectSaved'
      BY <1>1, <2>1, <2>3, ProjectKept DEF Held
    <3>4. \A d \in Call : CallKept(d)'
      BY <1>1, <1>2, <1>5, <2>3, CallsKept DEF Held
    <3> QED
      BY <1>1, <2>3, <3>2, <3>3, <3>4 DEF Held, Ordering
  <2> QED
    BY <2>2, <2>3
<1>6. CASE c \in Call
  <2>1. task'["queue"] = task["queue"]
    BY <1>2, <1>4, <1>6
  <2>2. CASE Ordering
    BY <1>1, <2>1, <2>2 DEF Held, Ordering, OrderKept, Safe, Backed, NoEdits
  <2>3. CASE ~Ordering
    <3>1. GlobalKept'
      BY <1>1, <2>1, <2>3 DEF Held, GlobalKept, Safe, Backed
    <3>2. task'[c].op # "ok" /\ task[c].op # "ok"
      BY <1>2, <1>3
    <3>3. ProjectSaved'
      BY <1>1, <1>2, <1>4, <2>3, <3>2, ProjectKept DEF Held
    <3>4. \A d \in Call : CallKept(d)'
      BY <1>1, <2>1, <2>3, CallsKept DEF Held
    <3> QED
      BY <1>1, <2>3, <3>1, <3>3, <3>4 DEF Held, Ordering
  <2> QED
    BY <2>2, <2>3
<1> QED
  BY <1>5, <1>6, Callers


(* A write replaces nothing but what is shown as global, or on file in the       *)
(* project, or removed.                                                        *)
LEMMA HeldWrite ==
  ASSUME StoreTyped, ControlInv, Held, mishaps' \subseteq {"torn"},
         NEW c \in Caller, NEW outcome \in Written, Write(c, outcome)
  PROVE  Held'
<1>1. UNCHANGED <<live, dirty, job, edit, queue, removed>>
  BY DEF Write, windowVars
<1>2. /\ task[c] \in Save /\ task'[c].to = task[c].to /\ task'[c].from = task[c].from
      /\ \A d \in Caller : d # c => task'[d] = task[d]
  BY WriteTyped
<1>3. "queue" \in Caller /\ \A d \in Call : d \in Caller /\ d # "queue"
  BY Callers
<1>4. task[c].to.local \in Store /\ task[c].from \in Project
  BY <1>2 DEF Save, Both
<1>5. \A r \in {"ok", "err"} : Ends(c, r) => task'[c].op = r
  BY <1>2, NoTask, Moves
<1>6. \A op \in {"writingLocal", "rollingBack"} : Goes(c, op) => task'[c].op = op
  BY <1>2, NoTask, Moves
<1>7. CASE c = "queue" /\ Ordering
  <2>1. task[c].kind = "order" /\ OrderKept
    BY <1>7 DEF Ordering, ControlInv, CallsInv, Held
  <2>2. /\ Ordering' /\ NoEdits' /\ task'[c].to = live'
        /\ Has(job'.before.global) = Has(live'.global) /\ Has(job'.before.local) = Has(live'.local)
    BY <1>1, <1>2, <1>7, <2>1 DEF OrderKept, Ordering, NoEdits
  <2>3. CASE OrderWrite(c, outcome)
    <3>1. task[c].from = globalFile /\ task[c].op = "writing" /\ outcome # "unsynced"
          /\ Local' = Local
      BY <2>3 DEF OrderWrite, ControlInv, LockInv, Happens, Local
    <3>2. CASE outcome = "failed"
      <4>1. globalFile' = globalFile /\ task'[c].op = "err"
        BY <1>5, <2>3, <3>2 DEF OrderWrite, Replaces
      <4> QED
        BY <1>1, <1>7, <2>1, <2>2, <3>1, <4>1 DEF OrderKept, Held, Safe, Backed
    <3>3. CASE outcome = "ok" /\ WritesLocal(task[c])
      <4>1. task'[c].op = "writingLocal"
        BY <1>6, <2>3, <3>3 DEF OrderWrite
      <4> QED
        BY <1>1, <1>2, <1>7, <2>1, <2>2, <3>1, <4>1 DEF OrderKept, Held, Safe, Backed
    <3>4. CASE outcome = "ok" /\ ~WritesLocal(task[c])
      <4>1. task'[c].op = "ok"
        BY <1>5, <2>3, <3>4 DEF OrderWrite
      <4>2. globalFile' = [globalFile EXCEPT !.agents = task[c].to.global]
        BY <2>3, <3>1, <3>4 DEF OrderWrite, Replaces
      <4>3. globalFile'.agents = task[c].to.global
        BY <4>2 DEF StoreTyped, FilesTyped, Project
      <4>4. Local = Empty /\ task[c].to.local = Empty
        BY <1>4, <3>4, FileRead DEF WritesLocal, Local
      <4> QED
        BY <1>1, <1>2, <1>7, <2>1, <2>2, <3>1, <4>1, <4>3, <4>4 DEF OrderKept, Held
    <3> QED
      BY <3>1, <3>2, <3>3, <3>4 DEF Written
  <2>4. CASE LocalWrite(c, outcome)
    <3>1. task[c].op = "writingLocal" /\ outcome # "unsynced" /\ globalFile' = globalFile
          /\ globalFile.agents = task[c].to.global
      BY <2>1, <2>4 DEF LocalWrite, Happens, ControlInv, LockInv, Halfway
    <3>2. CASE outcome = "failed"
      <4>1. Local' = Local /\ task'[c].op = "rollingBack"
        BY <1>6, <2>1, <2>4, <3>2 DEF LocalWrite, LocalFailed, Replaces, Local
      <4> QED
        BY <1>1, <1>2, <1>7, <2>1, <2>2, <3>1, <4>1 DEF OrderKept, Held, Safe, Backed
    <3>3. CASE outcome = "ok"
      <4>1. localFile' = task[c].to.local /\ task'[c].op = "ok"
        BY <1>5, <2>4, <3>3 DEF LocalWrite, Replaces
      <4>2. Local' = task[c].to.local
        BY <1>4, <4>1, FileRead DEF Local
      <4> QED
        BY <1>1, <1>2, <1>7, <2>1, <2>2, <3>1, <4>1, <4>2 DEF OrderKept, Held
    <3> QED
      BY <3>1, <3>2, <3>3 DEF Written
  <2>5. CASE RollBack(c, outcome)
    <3>1. globalFile' \in {globalFile, task[c].from} /\ Local' = Local /\ task'[c].op = "err"
          /\ task[c].op = "rollingBack"
      BY <1>5, <2>5 DEF RollBack, Local
    <3>2. CASE globalFile' = task[c].from
      BY <1>1, <1>7, <2>1, <2>2, <3>1, <3>2 DEF OrderKept, Held, Safe, Backed
    <3>3. CASE globalFile' = globalFile
      <4>1. globalFile.agents = live.global
        BY <1>7, <2>1, <3>1 DEF ControlInv, LockInv, Halfway, OrderKept
      <4> QED
        BY <1>1, <1>7, <2>1, <2>2, <3>1, <3>3, <4>1 DEF OrderKept, Held, Safe, Backed
    <3> QED
      BY <3>1, <3>2, <3>3
  <2> QED
    BY <2>1, <2>3, <2>4, <2>5 DEF Write, SnapshotWrite
<1>8. CASE c = "queue" /\ ~Ordering
  <2>1. job.op = "saving" /\ task[c].kind = "snapshot" /\ task[c].op \in Busy
    BY <1>2, <1>8, WriteTyped, NoJob, NoTask DEF Ordering, ControlInv, CallsInv, StoreTyped
  <2>2. task[c].op = "writing"
    BY <1>8, <2>1 DEF Busy, ControlInv, CallsInv
  <2>3. SnapshotWrite(c, outcome)
    BY <2>1, <2>2 DEF Write, OrderWrite, LocalWrite, RollBack
  <2>4. outcome # "unsynced" /\ Local' = Local
    BY <2>3 DEF SnapshotWrite, Happens, Local
  <2>5. GlobalKept /\ ProjectSaved /\ \A d \in Call : CallKept(d)
    BY <1>8 DEF Held
  <2>6. task'[c].op \in {"ok", "err"}
        /\ (task'[c].op = "ok" => globalFile'.agents = task[c].to.global)
        /\ globalFile'.agents \in {globalFile.agents, task[c].to.global}
    <3>1. CASE outcome = "failed"
      BY <1>5, <2>3, <3>1 DEF SnapshotWrite, Replaces
    <3>2. CASE outcome = "ok"
      BY <1>5, <2>3, <3>2 DEF SnapshotWrite, Replaces
    <3> QED
      BY <2>4, <3>1, <3>2 DEF Written
  <2>7. GlobalKept'
    BY <1>1, <1>2, <1>8, <2>1, <2>2, <2>4, <2>5, <2>6 DEF GlobalKept, Safe
  <2>8. ProjectSaved'
    <3>1. \A d \in Call : task'[d] = task[d]
      BY <1>2, <1>3, <1>8
    <3> QED
      BY <1>1, <2>4, <2>5, <3>1, ProjectKept
  <2>9. ASSUME NEW d \in Call PROVE CallKept(d)'
    <3>1. CallKept(d) /\ edit'[d] = edit[d] /\ Moved(edit[d])' = Moved(edit[d])
      BY <1>1, <2>5 DEF Moved
    <3>2. edit[d].op # "flushed"
      BY <2>1, <3>1 DEF CallKept, None
    <3>3. edit[d].op = "removingLocal" => Moved(edit[d]) \subseteq Has(globalFile'.agents)
      BY <1>8, <2>1, <2>6, <3>1 DEF CallKept
    <3> QED
      BY <1>1, <1>2, <1>8, <3>1, <3>2, <3>3 DEF CallKept, Moved
  <2> QED
    BY <1>1, <1>8, <2>7, <2>8, <2>9 DEF Held, Ordering
<1>9. CASE c \in Call
  <2> DEFINE e == edit[c]
  <2>1. e.op \in {"savingLocal", "removingLocal"} /\ task[c].kind = "local"
        /\ task[c].op \in {"waiting", "writingLocal", "ok", "err"} /\ task[c].to = e.after
        /\ edit[c] # None
    BY <1>2, <1>9, NoTask DEF ControlInv, CallsInv, None
  <2>2. ~Ordering
    BY <1>9, <2>1 DEF Held, OrderKept, NoEdits
  <2>3. LocalWrite(c, outcome)
    BY <2>1 DEF Write, OrderWrite, SnapshotWrite, RollBack
  <2>4. outcome # "unsynced" /\ globalFile' = globalFile /\ task[c].op = "writingLocal"
        /\ task'["queue"] = task["queue"]
    BY <1>2, <1>3, <1>9, <2>3 DEF LocalWrite, Happens
  <2>5. GlobalKept /\ ProjectSaved /\ CallKept(c)
    BY <1>9, <2>2 DEF Held
  <2>6. CallSaved(c) /\ \A d \in Call : d # c => edit'[d] = None
    BY <1>1, <1>9, <2>1, <2>5, OneAwaits
  <2>7. \A d \in Call : CallKept(d)'
    BY <1>1, <2>2, <2>4, CallsKept DEF Held
  <2>8. Local = e.before.local
    BY <2>1, <2>4, <2>6 DEF CallSaved
  <2>9. CASE outcome = "failed"
    <3>1. Local' = Local /\ task'[c].op = "err"
      BY <1>5, <2>1, <2>3, <2>9 DEF LocalWrite, LocalFailed, Replaces, Local
    <3>2. GlobalKept'
      BY <1>1, <2>4, <2>5, <3>1 DEF GlobalKept, Safe, Backed
    <3>3. \A d \in Call : task'[d].op = "ok" <=> task[d].op = "ok"
      BY <1>2, <1>3, <2>4, <3>1
    <3>4. ProjectSaved'
      BY <1>1, <2>5, <3>1, <3>3, ProjectKept
    <3> QED
      BY <1>1, <2>2, <2>7, <3>2, <3>4 DEF Held, Ordering
  <2>10. CASE outcome = "ok"
    <3>1. localFile' = task[c].to.local /\ task'[c].op = "ok"
      BY <1>5, <2>3, <2>10 DEF LocalWrite, Replaces
    <3>2. Local' = e.after.local
      BY <1>4, <2>1, <3>1, FileRead DEF Local
    <3>3. ASSUME NEW s, Has(s) \ removed \subseteq Has(live.global) \cup Has(Local)
          PROVE  Has(s) \ removed \subseteq Has(live.global) \cup Has(Local')
      BY <2>1, <2>5, <2>8, <3>2, <3>3 DEF CallKept, Moved
    <3>4. job.op = "saving" /\ task["queue"].op \in {"waiting", "writing"} =>
            Has(globalFile.agents) \ removed \subseteq Has(task["queue"].to.global) \cup Has(Local')
      BY <2>1, <2>5, <2>8, <3>2 DEF CallKept, GlobalKept, Moved
    <3>5. GlobalKept'
      BY <1>1, <2>4, <2>5, <3>3, <3>4 DEF GlobalKept, Safe, Backed
    <3>6. CallSaved(c)'
      BY <1>1, <2>1, <2>6, <3>1, <3>2 DEF CallSaved
    <3>7. edit'[c] # None
      BY <1>1, <2>1
    <3>8. ProjectSaved'
      BY <1>9, <2>6, <3>6, <3>7, ProjectMoved
    <3> QED
      BY <1>1, <2>2, <2>7, <3>5, <3>8 DEF Held, Ordering
  <2> QED
    BY <2>4, <2>9, <2>10 DEF Written
<1> QED
  BY <1>7, <1>8, <1>9, Callers

LEMMA HeldEdits ==
  ASSUME StoreTyped, ControlInv, Held, mishaps' \subseteq {"torn"}, Edits PROVE Held'
<1>1. UNCHANGED <<globalFile, Local>>
  BY WindowCalls DEF ControlInv, Local
<1>2. job.op = "saving" => queue # <<>> /\ 1 \in 1 .. Len(queue)
        /\ \A name \in Job : Append(queue, name)[1] = queue[1]
  BY DEF ControlInv, QueueInv, None, StoreTyped, WindowTyped
<1>3. CASE Touch \/ Reorder
  <2>1. UNCHANGED <<live, job, edit, task, removed>> /\ (dirty => dirty')
    BY <1>3 DEF Touch, Reorder, MarkDirty, backendVars
  <2>2. job.op = "saving" => queue'[1] = queue[1]
    BY <1>2, <1>3 DEF Touch, Reorder, Job
  <2>3. CASE Ordering
    BY <1>1, <2>1, <2>3 DEF Held, Ordering, OrderKept, Safe, Backed, NoEdits
  <2>4. CASE ~Ordering
    <3>1. GlobalKept'
      BY <1>1, <2>1, <2>4 DEF Held, GlobalKept, Safe, Backed
    <3>2. ProjectSaved'
      BY <1>1, <2>1, <2>4, ProjectKept DEF Held
    <3>3. \A c \in Call : CallKept(c)'
      BY <1>1, <2>1, <2>2, <2>4, CallsKept DEF Held
    <3> QED
      BY <2>1, <2>4, <3>1, <3>2, <3>3 DEF Held, Ordering
  <2> QED
    BY <2>3, <2>4
<1>4. ASSUME AtOnce, UNCHANGED <<job, queue>>, dirty',
             live'.local = live.local, removed \subseteq removed',
             Has(live.global) \ removed' \subseteq Has(live'.global)
      PROVE  Held'
  <2>1. ~Ordering /\ UNCHANGED <<edit, task>>
    BY <1>4 DEF AtOnce, Overlap, Ordering
  <2>2. GlobalKept /\ ProjectSaved /\ \A c \in Call : CallKept(c)
    BY <2>1 DEF Held
  <2>3. GlobalKept'
    BY <1>1, <1>4, <2>1, <2>2 DEF GlobalKept, Safe, Backed
  <2>4. ProjectSaved'
    BY <1>1, <1>4, <2>1, <2>2, ProjectKept
  <2>5. \A c \in Call : CallKept(c)'
    BY <1>1, <1>4, <2>1, <2>2, CallsKept
  <2> QED
    BY <1>4, <2>1, <2>3, <2>4, <2>5 DEF Held, Ordering
<1>5. ASSUME NEW c \in Call, NEW op \in {"savingLocal", "flushing"}, NEW after \in Both,
             Awaits(c, op, after)
      PROVE  /\ ~Ordering /\ GlobalKept /\ Local = live.local /\ live \in Both
             /\ edit[c].op = "none"
             /\ edit'[c].op = op /\ edit'[c].before = live /\ edit'[c].after = after
             /\ edit'[c] # None /\ \A d \in Call : d # c => edit'[d] = None
  <2>1. /\ ~Ordering
        /\ edit'[c].op = op /\ edit'[c].before = live /\ edit'[c].after = after /\ edit'[c] # None
        /\ \A d \in Call : edit[d] = None
        /\ \A d \in Call : d # c => edit'[d] = None
    BY <1>5, Awaited, NoEdit DEF Ordering
  <2>2. GlobalKept /\ Local = live.local
    BY <2>1 DEF Held, ProjectSaved, NoEdits
  <2> QED
    BY <2>1, <2>2 DEF StoreTyped, WindowTyped, None
<1>6. ASSUME NEW c \in Call, NEW after \in Both, SaveLocal(c, after),
             Awaits(c, "savingLocal", after), UNCHANGED <<live, dirty, job, queue>>,
             removed \subseteq removed',
             Has(live.local) \ removed' \subseteq Has(after.local),
             Has(live.global) \ removed' \subseteq Has(after.global) \cup Has(after.local)
      PROVE  Held'
  <2>1. task'[c].op = "waiting" /\ task'["queue"] = task["queue"]
    BY <1>6, Called, Callers DEF SaveLocal
  <2>2. GlobalKept'
    BY <1>1, <1>5, <1>6, <2>1 DEF GlobalKept, Safe, Backed
  <2>3. CallSaved(c)'
    BY <1>1, <1>5, <1>6, <2>1 DEF CallSaved
  <2>4. CallKept(c)'
    BY <1>5, <1>6 DEF CallKept
  <2>5. ProjectSaved' /\ \A d \in Call : CallKept(d)'
    BY <1>5, <1>6, <2>3, <2>4, ProjectMoved, CallMoved
  <2> QED
    BY <1>5, <1>6, <2>2, <2>5 DEF Held, Ordering
<1>7. ASSUME NEW a \in Agent, SaveGlobal(a) PROVE Held'
  <2>1. /\ AtOnce /\ UNCHANGED <<job, queue, removed>> /\ dirty' /\ live \in Both
        /\ live.local[a] = Absent /\ live' = SavedIn(live, a, "global")
    BY <1>7 DEF SaveGlobal, MarkDirty, StoreTyped, WindowTyped
  <2>2. live'.local = [live.local EXCEPT ![a] = Absent]
    BY <2>1 DEF SavedIn, Replaced
  <2>3. live'.local = live.local
    BY <2>1, <2>2 DEF Both, Store
  <2>4. Has(live.global) \subseteq Has(live'.global)
    BY <2>1, SavedHas
  <2> QED
    BY <1>4, <2>1, <2>3, <2>4
<1>8. ASSUME NEW c \in Call, NEW a \in Agent, SaveInProject(c, a) PROVE Held'
  <2>1. live \in Both
    BY DEF StoreTyped, WindowTyped
  <2>2. PICK after \in Both : after = SavedIn(live, a, "project")
    BY <2>1, SavedTyped
  <2>3. Has(after.local) = Has(live.local) \cup {a} /\ Has(after.global) = Has(live.global) \ {a}
    BY <2>1, <2>2, SavedHas
  <2>4. UNCHANGED <<live, dirty, job, queue, removed>> /\ SaveLocal(c, after)
        /\ Awaits(c, "savingLocal", after)
    BY <1>8, <2>2 DEF SaveInProject, windowVars
  <2> QED
    BY <1>6, <2>3, <2>4
<1>9. ASSUME NEW c \in Call, NEW a \in Agent, SaveOverride(c, a) PROVE Held'
  <2>1. live \in Both
    BY DEF StoreTyped, WindowTyped
  <2>2. PICK after \in Both : after = SavedIn(live, a, "global")
    BY <2>1, SavedTyped
  <2>3. Has(after.global) = Has(live.global) \cup {a} /\ Has(after.local) = Has(live.local) \ {a}
        /\ a \in Has(live.local)
    BY <1>9, <2>1, <2>2, SavedHas DEF SaveOverride, Has
  <2>4. UNCHANGED <<task, job, removed>> /\ live' = after /\ dirty'
        /\ Awaits(c, "flushing", after) /\ queue' = Append(queue, c)
    BY <1>9, <2>2 DEF SaveOverride, backendVars
  <2>5. job.op = "saving" => queue'[1] # c
    <3>1. job.op = "saving" => queue'[1] = queue[1]
      BY <1>2, <2>4 DEF Job
    <3>2. job.op = "saving" /\ queue[1] = c => edit[c].op = "flushing"
      BY <1>2 DEF ControlInv, QueueInv
    <3> QED
      BY <1>5, <2>4, <3>1, <3>2
  <2>6. GlobalKept'
    BY <1>1, <1>5, <2>3, <2>4 DEF GlobalKept, Safe, Backed
  <2>7. CallSaved(c)'
    BY <1>1, <1>5, <2>4 DEF CallSaved
  <2>8. CallKept(c)'
    BY <1>5, <2>3, <2>4, <2>5 DEF CallKept, Moved
  <2>9. ProjectSaved' /\ \A d \in Call : CallKept(d)'
    BY <1>5, <2>4, <2>7, <2>8, ProjectMoved, CallMoved
  <2> QED
    BY <1>5, <2>4, <2>6, <2>9 DEF Held, Ordering
<1>10. ASSUME NEW c \in Call, NEW a \in Agent, RemoveAgent(c, a) PROVE Held'
  <2>1. live \in Both
    BY DEF StoreTyped, WindowTyped
  <2>2. PICK after \in Both : after = Without(live, a)
    BY <2>1, WithoutTyped
  <2>3. Has(after.local) = Has(live.local) \ {a} /\ Has(after.global) = Has(live.global) \ {a}
    BY <2>1, <2>2, WithoutHas
  <2>4. removed' = removed \cup {a} /\ UNCHANGED <<job, queue>>
    BY <1>10 DEF RemoveAgent
  <2>5. CASE live.local[a] # Absent
    <3>1. SaveLocal(c, after) /\ UNCHANGED <<live, dirty>> /\ Awaits(c, "savingLocal", after)
      BY <1>10, <2>2, <2>5 DEF RemoveAgent
    <3> QED
      BY <1>6, <2>3, <2>4, <3>1
  <2>6. CASE live.local[a] = Absent
    <3>1. AtOnce /\ dirty' /\ live' = after
      BY <1>10, <2>2, <2>6 DEF RemoveAgent, MarkDirty
    <3>2. after.local = live.local
      BY <2>1, <2>2, <2>6 DEF Without, Both, Store
    <3> QED
      BY <1>4, <2>3, <2>4, <3>1, <3>2
  <2> QED
    BY <2>5, <2>6
<1> QED
  BY <1>3, <1>7, <1>8, <1>9, <1>10 DEF Edits

(* The call that waited for a job goes on only when what it moves to global is on   *)
(* file.                                                                      *)
LEMMA HeldLeaves ==
  ASSUME StoreTyped, QueueInv, queue # <<>>, NEW result \in {"flushed", "unflushed"},
         Leaves(result), UNCHANGED <<globalFile, Local, live, removed>>,
         \A c \in Call : task'[c] = task[c],
         ProjectSaved, \A c \in Call : CallKept(c), Safe(globalFile.agents),
         Has(live.global) \subseteq Has(globalFile.agents) \/ dirty', dirty => dirty',
         result = "unflushed" => dirty',
         result = "flushed" => \A c \in Call : c = Head(queue) =>
           Moved(edit[c]) \subseteq Has(globalFile.agents)
  PROVE  Held'
<1>1. job' = None /\ job'.op = "none"
  BY LeavesTyped DEF None
<1>2. GlobalKept'
  BY <1>1 DEF GlobalKept, Safe, Backed
<1>3. CASE Head(queue) \in Call
  <2>1. PICK c \in Call : c = Head(queue)
    BY <1>3
  <2>2. /\ edit'[c] # None /\ edit'[c].op = result /\ edit[c].op = "flushing"
        /\ edit'[c].before = edit[c].before /\ edit'[c].after = edit[c].after
        /\ \A d \in Call : d # c => edit'[d] = edit[d]
    BY <2>1, LeavesTyped, NoEdit
  <2>3. CallSaved(c) /\ CallKept(c) /\ \A d \in Call : d # c => edit'[d] = None
    BY <2>2, OneAwaits
  <2>4. CallSaved(c)'
    BY <2>2, <2>3 DEF CallSaved
  <2>5. Moved(edit[c])' = Moved(edit[c])
    BY <2>2 DEF Moved
  <2>6. CallKept(c)'
    BY <1>1, <2>1, <2>2, <2>3, <2>5 DEF CallKept, Moved
  <2>7. ProjectSaved' /\ \A d \in Call : CallKept(d)'
    BY <2>2, <2>3, <2>4, <2>6, ProjectMoved, CallMoved
  <2> QED
    BY <1>1, <1>2, <2>7 DEF Held, Ordering
<1>4. CASE Head(queue) \notin Call
  <2>1. edit' = edit
    BY <1>4, LeavesTyped
  <2>2. ProjectSaved'
    BY <2>1, ProjectKept
  <2>3. \A c \in Call : CallKept(c)'
    BY <1>1, <2>1, CallsKept
  <2> QED
    BY <1>1, <1>2, <2>2, <2>3 DEF Held, Ordering
<1> QED
  BY <1>3, <1>4

LEMMA HeldQueue ==
  ASSUME StoreTyped, ControlInv, Held, mishaps' \subseteq {"torn"},
         Persist \/ Persisted \/ OrderShown \/ OrderAnswered
  PROVE  Held'
<1>1. UNCHANGED <<globalFile, Local>>
  BY WindowCalls DEF ControlInv, Window, Local
<1>2. QueueInv /\ CallsInv /\ live \in Both /\ "queue" \in Caller
      /\ \A c \in Call : c \in Caller /\ c # "queue"
  BY Callers DEF ControlInv, StoreTyped, WindowTyped
<1>3. removed' = removed /\ \A c \in Call : edit[c].op \notin {"flushed", "unflushed"}
  BY DEF Persist, Persisted, OrderShown, OrderAnswered, Free, counters
<1>4. CASE Persist
  <2>1. queue # <<>> /\ job = None /\ job.op = "none" /\ ~Ordering /\ live' = live
        /\ Head(queue) = queue[1]
    BY <1>4 DEF Persist, None, Ordering, StoreTyped, WindowTyped
  <2>2. GlobalKept /\ ProjectSaved /\ \A c \in Call : CallKept(c)
    BY <2>1 DEF Held
  <2>3. CASE dirty
    <3>1. CallBackend("queue", "snapshot", live) /\ job'.op = "saving" /\ edit' = edit /\ queue' = queue
      BY <1>4, <2>3 DEF Persist
    <3>2. task'["queue"].op = "waiting" /\ task'["queue"].to = live
          /\ \A c \in Call : task'[c] = task[c]
      BY <1>2, <3>1, Called
    <3>3. GlobalKept'
      BY <1>1, <1>3, <2>1, <2>2, <3>1, <3>2 DEF GlobalKept, Safe
    <3>4. ProjectSaved'
      BY <1>1, <1>3, <2>1, <2>2, <3>1, <3>2, ProjectKept
    <3>5. ASSUME NEW c \in Call PROVE CallKept(c)'
      <4>1. CallKept(c) /\ edit'[c] = edit[c]
        BY <2>2, <3>1
      <4> QED
        BY <1>1, <1>3, <2>1, <3>1, <3>2, <4>1 DEF CallKept, Moved
    <3> QED
      BY <3>1, <3>3, <3>4, <3>5 DEF Held, Ordering
  <2>4. CASE ~dirty /\ Head(queue) = "order"
    <3>1. task' = task /\ dirty' = dirty /\ edit' = edit /\ job'.op = "saved"
      BY <1>4, <2>4 DEF Persist
    <3>2. GlobalKept'
      BY <1>1, <1>3, <2>1, <2>2, <3>1 DEF GlobalKept, Safe, Backed
    <3>3. ProjectSaved'
      BY <1>1, <2>1, <2>2, <3>1, ProjectKept
    <3>4. \A c \in Call : CallKept(c)'
      BY <1>1, <1>3, <2>1, <2>2, <3>1, CallsKept
    <3> QED
      BY <3>1, <3>2, <3>3, <3>4 DEF Held, Ordering
  <2>5. CASE ~dirty /\ Head(queue) # "order"
    <3>1. task' = task /\ dirty' = dirty /\ Leaves("flushed")
      BY <1>4, <2>5 DEF Persist
    <3>2. Safe(globalFile.agents) /\ Has(live.global) \subseteq Has(globalFile.agents)
      BY <2>1, <2>2, <2>5 DEF GlobalKept, Backed
    <3>3. \A c \in Call : c = Head(queue) => Moved(edit[c]) \subseteq Has(globalFile.agents)
      <4> SUFFICES ASSUME NEW c \in Call, c = Head(queue)
                   PROVE  Moved(edit[c]) \subseteq Has(globalFile.agents)
        OBVIOUS
      <4>1. edit[c].op = "flushing"
        BY <1>2, <2>1, <3>1, LeavesTyped
      <4> QED
        BY <2>2, <3>2, <4>1 DEF CallKept
    <3> QED
      BY <1>1, <1>2, <1>3, <2>1, <2>2, <3>1, <3>2, <3>3, HeldLeaves
  <2> QED
    BY <2>3, <2>4, <2>5
<1>5. CASE Persisted
  <2>1. job.op = "saving" /\ Answered("queue") /\ live' = live /\ ~Ordering
    BY <1>5 DEF Persisted, Ordering
  <2>2. GlobalKept /\ ProjectSaved /\ \A c \in Call : CallKept(c)
    BY <2>1 DEF Held
  <2>3. queue # <<>>
    BY <1>2, <2>1 DEF QueueInv, None
  <2>4. Head(queue) = queue[1]
    BY <2>3 DEF StoreTyped, WindowTyped
  <2>5. \A c \in Call : task'[c] = task[c]
    BY <1>2, <1>5, AnsweredTyped DEF Persisted
  <2>6. Safe(globalFile.agents)
    BY <2>2 DEF GlobalKept
  <2>7. CASE task["queue"].op = "ok"
    <3>1. dirty' = dirty /\ globalFile.agents = task["queue"].to.global
          /\ (task["queue"].to.global = live.global \/ dirty)
      BY <1>5, <2>1, <2>2, <2>7 DEF Persisted, GlobalKept
    <3>2. Has(live.global) \subseteq Has(globalFile.agents) \/ dirty
      BY <3>1
    <3>3. CASE Head(queue) = "order"
      <4>1. edit' = edit /\ job'.op = "saved"
        BY <1>5, <2>7, <3>3 DEF Persisted
      <4>2. GlobalKept'
        BY <1>1, <1>3, <2>1, <2>6, <3>1, <3>2, <4>1 DEF GlobalKept, Safe, Backed
      <4>3. ProjectSaved'
        BY <1>1, <2>1, <2>2, <2>5, <3>1, <4>1, ProjectKept
      <4>4. \A c \in Call : CallKept(c)'
        BY <1>1, <1>3, <2>1, <2>2, <4>1, CallsKept
      <4> QED
        BY <4>1, <4>2, <4>3, <4>4 DEF Held, Ordering
    <3>4. CASE Head(queue) # "order"
      <4>1. Leaves("flushed")
        BY <1>5, <2>7, <3>4 DEF Persisted
      <4>2. \A c \in Call : c = Head(queue) => Moved(edit[c]) \subseteq Has(globalFile.agents)
        <5> SUFFICES ASSUME NEW c \in Call, c = Head(queue)
                     PROVE  Moved(edit[c]) \subseteq Has(globalFile.agents)
          OBVIOUS
        <5>1. edit[c].op = "flushing" /\ queue[1] = c
          BY <1>2, <2>3, <2>4, <4>1, LeavesTyped
        <5> QED
          BY <2>1, <2>2, <3>1, <5>1 DEF CallKept
      <4> QED
        BY <1>1, <1>2, <1>3, <2>1, <2>2, <2>3, <2>5, <2>6, <3>1, <3>2, <4>1, <4>2, HeldLeaves
    <3> QED
      BY <3>3, <3>4
  <2>8. CASE task["queue"].op # "ok"
    <3>1. dirty' /\ Leaves("unflushed")
      BY <1>5, <2>8 DEF Persisted, PersistFailed
    <3> QED
      BY <1>1, <1>2, <1>3, <2>1, <2>2, <2>3, <2>5, <2>6, <3>1, HeldLeaves
  <2> QED
    BY <2>7, <2>8
<1>6. CASE OrderShown
  <2>1. job.op = "saved" /\ dirty' = dirty /\ ~Ordering
    BY <1>6 DEF OrderShown, Ordering
  <2>2. GlobalKept /\ ProjectSaved /\ \A c \in Call : CallKept(c)
    BY <2>1 DEF Held
  <2>3. queue # <<>> /\ queue[1] = "order" /\ Head(queue) = queue[1]
    BY <1>2, <2>1 DEF QueueInv, None, StoreTyped, WindowTyped
  <2>4. Safe(globalFile.agents) /\ Backed(globalFile.agents)
    BY <2>1, <2>2 DEF GlobalKept
  <2>5. ASSUME NEW f \in Orders(live), live' = RerankedBoth(f, live),
               CallBackend("queue", "order", live'), job' = [op |-> "ordering", before |-> live],
               Happens("overlap", \E c \in Call : edit[c] # None), edit' = edit
        PROVE  Held'
    <3>1. live' \in Both /\ Has(live'.global) = Has(live.global) /\ Has(live'.local) = Has(live.local)
      BY <1>2, <2>5, RerankedTyped, RerankedHas
    <3>2. task'["queue"].op = "waiting" /\ task'["queue"].to = live'
      BY <1>2, <2>5, <3>1, Called
    <3>3. NoEdits
      BY <2>5 DEF Happens, NoEdits
    <3>4. Local = live.local
      BY <2>2, <3>3 DEF ProjectSaved
    <3>5. job'.op = "ordering" /\ job'.before = live
      BY <2>5
    <3> QED
      BY <1>1, <1>3, <2>1, <2>4, <2>5, <3>1, <3>2, <3>3, <3>4, <3>5
      DEF Held, Ordering, OrderKept, Safe, Backed, NoEdits
  <2>6. CASE Leaves("flushed") /\ UNCHANGED <<live, task, mishaps>>
    <3>1. \A c \in Call : c # Head(queue)
      BY <2>3, Callers
    <3> QED
      BY <1>1, <1>2, <1>3, <2>1, <2>2, <2>3, <2>4, <2>6, <3>1, HeldLeaves DEF Backed
  <2> QED
    BY <1>6, <2>5, <2>6 DEF OrderShown
<1>7. CASE OrderAnswered
  <2>1. job.op = "ordering" /\ Answered("queue") /\ dirty' = dirty /\ Leaves("flushed")
        /\ live' = IF task["queue"].op = "ok" THEN live ELSE job.before
    BY <1>7 DEF OrderAnswered
  <2>2. OrderKept
    BY <2>1 DEF Held, Ordering
  <2>3. queue # <<>> /\ Head(queue) = "order"
    BY <1>2, <2>1 DEF QueueInv, None, StoreTyped, WindowTyped
  <2>4. (\A c \in Call : edit'[c] = None) /\ job' = None
    BY <1>2, <2>1, <2>2, <2>3, Callers DEF Leaves, OrderKept, NoEdits
  <2>5. Safe(globalFile.agents)' /\ Backed(globalFile.agents)' /\ Local = live'.local
    BY <1>1, <1>3, <2>1, <2>2 DEF OrderKept, Answered, Safe, Backed
  <2>6. GlobalKept'
    BY <1>1, <2>4, <2>5 DEF GlobalKept, None
  <2>7. ProjectSaved'
    BY <1>1, <2>4, <2>5 DEF ProjectSaved, CallSaved, Solo, None
  <2>8. \A c \in Call : CallKept(c)'
    BY <2>4 DEF CallKept, None
  <2> QED
    BY <2>4, <2>6, <2>7, <2>8 DEF Held, Ordering, None
<1> QED
  BY <1>4, <1>5, <1>6, <1>7

LEMMA HeldOthers ==
  ASSUME StoreTyped, ControlInv, Held, mishaps' \subseteq {"torn"},
         \/ TimerFires
         \/ \E c \in Call : Flushed(c) \/ Unflushed(c) \/ OverrideRemoved(c) \/ LocalSaved(c)
  PROVE  Held'
<1>1. UNCHANGED <<globalFile, Local>>
  BY WindowCalls DEF ControlInv, Window, Local
<1>2. removed' = removed
  BY DEF TimerFires, Flushed, Unflushed, OverrideRemoved, LocalSaved
<1>3. CASE TimerFires
  <2>1. UNCHANGED <<live, job, edit, task, dirty>> /\ queue' = Append(queue, "save")
    BY <1>3 DEF TimerFires, backendVars
  <2>2. job.op = "saving" => queue'[1] = queue[1]
    BY <2>1 DEF ControlInv, QueueInv, None, StoreTyped, WindowTyped
  <2>3. CASE Ordering
    BY <1>1, <1>2, <2>1, <2>3 DEF Held, Ordering, OrderKept, Safe, Backed, NoEdits
  <2>4. CASE ~Ordering
    <3>1. GlobalKept'
      BY <1>1, <1>2, <2>1, <2>4 DEF Held, GlobalKept, Safe, Backed
    <3>2. ProjectSaved'
      BY <1>1, <2>1, <2>4, ProjectKept DEF Held
    <3>3. \A c \in Call : CallKept(c)'
      BY <1>1, <1>2, <2>1, <2>2, <2>4, CallsKept DEF Held
    <3> QED
      BY <2>1, <2>4, <3>1, <3>2, <3>3 DEF Held, Ordering
  <2> QED
    BY <2>3, <2>4
<1>4. ASSUME NEW c \in Call, edit[c].op # "none"
      PROVE  ~Ordering /\ GlobalKept /\ edit[c] \in Edit /\ CallSaved(c) /\ CallKept(c)
             /\ c \in Caller /\ c # "queue" /\ \A d \in Call : d # c => edit[d] = None
  <2>1. ~Ordering
    BY <1>4 DEF Held, OrderKept, NoEdits, None
  <2> QED
    BY <1>4, <2>1, OneAwaits, Callers DEF Held
<1>5. ASSUME NEW c \in Call, edit[c].op # "none", Returns(c), job' = job, GlobalKept',
             Local' = live'.local
      PROVE  Held'
  <2>1. edit'[c] = None /\ edit'[c].op = "none" /\ \A d \in Call : d # c => edit'[d] = edit[d]
    BY <1>5, Returned DEF None
  <2>2. CallSaved(c)' /\ CallKept(c)'
    BY <2>1 DEF CallSaved, CallKept
  <2>3. ProjectSaved' /\ \A d \in Call : CallKept(d)'
    BY <1>4, <1>5, <2>1, <2>2, ProjectMoved, CallMoved
  <2> QED
    BY <1>4, <1>5, <2>3 DEF Held, Ordering
<1>6. ASSUME NEW c \in Call, Flushed(c) PROVE Held'
  <2>1. edit[c].op = "flushed" /\ UNCHANGED <<live, dirty, job, queue>>
        /\ edit' = [edit EXCEPT ![c].op = "removingLocal"]
    BY <1>6 DEF Flushed, windowVars
  <2>2. edit[c] \in Edit /\ edit[c].after \in Both /\ CallSaved(c) /\ CallKept(c) /\ GlobalKept
    BY <1>4, <2>1 DEF Edit
  <2>3. /\ edit'[c].op = "removingLocal" /\ edit'[c] # None
        /\ edit'[c].before = edit[c].before /\ edit'[c].after = edit[c].after
        /\ \A d \in Call : d # c => edit'[d] = edit[d]
    BY <2>1, EditGoes, NoEdit
  <2>4. task'[c].op = "waiting" /\ task'["queue"] = task["queue"]
    BY <1>6, <2>2, Called, Callers DEF Flushed, SaveLocal
  <2>5. job = None /\ job.op = "none"
    BY <2>1, <2>2 DEF CallKept, None
  <2>6. GlobalKept'
    BY <1>1, <1>2, <2>1, <2>2, <2>4, <2>5 DEF GlobalKept, Safe, Backed
  <2>7. CallSaved(c)'
    BY <1>1, <2>1, <2>2, <2>3, <2>4 DEF CallSaved
  <2>8. CallKept(c)'
    BY <1>1, <1>2, <2>1, <2>2, <2>3, <2>5 DEF CallKept, Moved
  <2>9. ProjectSaved' /\ \A d \in Call : CallKept(d)'
    BY <1>4, <2>1, <2>3, <2>7, <2>8, ProjectMoved, CallMoved
  <2> QED
    BY <1>4, <2>1, <2>6, <2>9 DEF Held, Ordering
<1>7. ASSUME NEW c \in Call, Unflushed(c) PROVE Held'
  <2>1. edit[c].op = "unflushed" /\ UNCHANGED <<dirty, job, queue, task>> /\ Returns(c)
        /\ live' = edit[c].before /\ live = edit[c].after
    BY <1>7 DEF Unflushed, PutsBack, Happens, backendVars
  <2>2. dirty /\ Local = edit[c].before.local /\ CallKept(c) /\ GlobalKept
    BY <1>4, <2>1 DEF CallSaved
  <2>3. job = None /\ job.op = "none"
    BY <2>1, <2>2 DEF CallKept, None
  <2>4. Has(live.global) \subseteq Has(live'.global) \cup Has(Local)
    BY <2>1, <2>2 DEF CallKept
  <2>5. GlobalKept'
    BY <1>1, <1>2, <2>1, <2>2, <2>3, <2>4 DEF GlobalKept, Safe, Backed
  <2> QED
    BY <1>1, <1>5, <2>1, <2>2, <2>5
<1>8. ASSUME NEW c \in Call, OverrideRemoved(c) PROVE Held'
  <2>1. edit[c].op = "removingLocal" /\ UNCHANGED <<dirty, job, queue>> /\ Returns(c)
        /\ Answered(c) /\ task' = [task EXCEPT ![c] = None]
    BY <1>8 DEF OverrideRemoved
  <2>2. task'["queue"] = task["queue"]
    BY <2>1, AnsweredTyped, Callers
  <2>3. live'.global = live.global /\ Local = live'.local
    <3>1. CASE task[c].op = "ok"
      <4>1. live' = live
        BY <1>8, <3>1 DEF OverrideRemoved
      <4> QED
        BY <1>4, <2>1, <3>1, <4>1 DEF CallSaved
    <3>2. CASE task[c].op # "ok"
      <4>1. live' = [global |-> edit[c].after.global, local |-> edit[c].before.local]
            /\ live = edit[c].after
        BY <1>8, <3>2 DEF OverrideRemoved, PutsBack, Happens
      <4> QED
        BY <1>4, <2>1, <3>2, <4>1 DEF CallSaved
    <3> QED
      BY <3>1, <3>2
  <2>4. GlobalKept'
    BY <1>1, <1>2, <1>4, <2>1, <2>2, <2>3 DEF GlobalKept, Safe, Backed
  <2> QED
    BY <1>1, <1>5, <2>1, <2>3, <2>4
<1>9. ASSUME NEW c \in Call, LocalSaved(c) PROVE Held'
  <2>1. edit[c].op = "savingLocal" /\ UNCHANGED <<job, queue>> /\ Returns(c)
        /\ Answered(c) /\ task' = [task EXCEPT ![c] = None]
    BY <1>9 DEF LocalSaved
  <2>2. task'["queue"] = task["queue"]
    BY <2>1, AnsweredTyped, Callers
  <2>3. CASE task[c].op = "ok"
    <3>1. live' = edit[c].after /\ dirty' /\ live = edit[c].before
      BY <1>9, <2>3 DEF LocalSaved, PutsBack, Happens, MarkDirty
    <3>2. Local = live'.local
      BY <1>4, <2>1, <2>3, <3>1 DEF CallSaved
    <3>3. Has(live.global) \ removed \subseteq Has(live'.global) \cup Has(Local)
      BY <1>4, <2>1, <3>1, <3>2 DEF CallKept
    <3>4. GlobalKept'
      BY <1>1, <1>2, <1>4, <2>1, <2>2, <3>1, <3>3 DEF GlobalKept, Safe, Backed
    <3> QED
      BY <1>1, <1>5, <2>1, <3>2, <3>4
  <2>4. CASE task[c].op # "ok"
    <3>1. live' = live /\ dirty' = dirty
      BY <1>9, <2>4 DEF LocalSaved
    <3>2. Local = live.local
      BY <1>4, <2>1, <2>4 DEF CallSaved
    <3>3. GlobalKept'
      BY <1>1, <1>2, <1>4, <2>1, <2>2, <3>1 DEF GlobalKept, Safe, Backed
    <3> QED
      BY <1>1, <1>5, <2>1, <3>1, <3>2, <3>3
  <2> QED
    BY <2>3, <2>4
<1> QED
  BY <1>3, <1>6, <1>7, <1>8, <1>9

LEMMA CliKeeps ==
  ASSUME StoreTyped, LockInv, CliLoads \/ CliSaves
  PROVE  /\ globalFile'.agents = globalFile.agents
         /\ UNCHANGED <<localFile, Local, task, windowVars, edit, removed, mishaps>>
<1>1. UNCHANGED <<localFile, Local, task, windowVars, edit, removed, mishaps>>
  BY DEF CliLoads, CliSaves, fileVars, Local
<1>2. CASE CliLoads
  BY <1>1, <1>2 DEF CliLoads, fileVars
<1>3. CASE CliSaves
  <2>1. cli.read = globalFile
    BY <1>3 DEF CliSaves, LockInv
  <2> QED
    BY <1>1, <1>3, <2>1 DEF CliSaves, StoreTyped, FilesTyped, Project
<1> QED
  BY <1>2, <1>3

LEMMA DiskNext == StoreTyped /\ ControlInv /\ DiskInv /\ [Next]_vars => DiskInv'
<1> SUFFICES ASSUME StoreTyped, ControlInv, DiskInv, [Next]_vars, window' = "loaded",
                    mishaps' \subseteq {"torn"}
             PROVE  Held'
  BY DEF DiskInv
<1>1. mishaps \subseteq {"torn"}
  BY MishapsGrow
<1>2. CASE Load
  <2>1. job = None /\ \A c \in Call : edit[c] = None
    BY <1>2 DEF Load, ControlInv, ClosedInv, NoEdits
  <2>2. /\ UNCHANGED <<globalFile, Local, job, edit>>
        /\ live'.global = globalFile.agents /\ live'.local = Local
    BY <1>2 DEF Load, fileVars, Local
  <2> QED
    BY <2>1, <2>2 DEF Held, Ordering, GlobalKept, ProjectSaved, Solo, CallSaved, CallKept, Safe,
      Backed, None
<1>3. ASSUME window = "loaded", globalFile'.agents = globalFile.agents,
             UNCHANGED <<Local, task, windowVars, edit, removed>>
      PROVE  Held'
  <2>1. UNCHANGED <<live, dirty, queue, job>>
    BY <1>3 DEF windowVars
  <2>2. Held
    BY <1>1, <1>3 DEF DiskInv
  <2>3. CASE Ordering
    <3>1. OrderKept
      BY <2>2, <2>3 DEF Held
    <3>2. task["queue"].from' = task["queue"].from
      BY <1>3
    <3> QED
      BY <1>3, <2>1, <2>3, <3>1, <3>2 DEF Held, Ordering, OrderKept, Safe, Backed, NoEdits
  <2>4. CASE ~Ordering
    <3>1. GlobalKept'
      BY <1>3, <2>1, <2>2, <2>4 DEF Held, GlobalKept, Safe, Backed
    <3>2. ProjectSaved'
      BY <1>3, <2>1, <2>2, <2>4, ProjectKept DEF Held
    <3>3. \A c \in Call : CallKept(c)'
      BY <1>3, <2>1, <2>2, <2>4, CallsKept DEF Held
    <3> QED
      BY <2>1, <2>4, <3>1, <3>2, <3>3 DEF Held, Ordering
  <2> QED
    BY <2>3, <2>4
<1>4. CASE UNCHANGED vars
  <2>1. window = "loaded" /\ UNCHANGED <<globalFile, Local, task, windowVars, edit, removed>>
    BY <1>4 DEF vars, fileVars, backendVars, windowVars, Local
  <2> QED
    BY <1>3, <2>1
<1>5. CASE CliLoads \/ CliSaves
  <2>1. globalFile'.agents = globalFile.agents
        /\ UNCHANGED <<Local, task, windowVars, edit, removed>>
    BY <1>5, CliKeeps DEF ControlInv
  <2>2. window = "loaded"
    BY <2>1 DEF windowVars
  <2> QED
    BY <1>3, <2>1, <2>2
<1>6. CASE Crash
  BY <1>6 DEF Crash, Closed
<1>7. CASE Backend
  <2>1. window = "loaded"
    BY <1>7 DEF Backend, Acquire, Write, windowVars
  <2>2. Held
    BY <1>1, <2>1 DEF DiskInv
  <2> QED
    BY <1>7, <2>2, HeldAcquire, HeldWrite DEF Backend
<1>8. CASE (Edits \/ Window) /\ ~Load
  <2>1. Running
    BY <1>8 DEF Edits, Window, Touch, Reorder, SaveGlobal, SaveInProject, SaveOverride, RemoveAgent,
      CanEdit, TimerFires, Persist, Persisted, OrderShown, OrderAnswered, Flushed, Unflushed,
      OverrideRemoved, LocalSaved, Free
  <2>2. Held
    BY <1>1, <2>1 DEF DiskInv, Running
  <2> QED
    BY <1>8, <2>2, HeldEdits, HeldQueue, HeldOthers DEF Window
<1> QED
  BY <1>2, <1>4, <1>5, <1>6, <1>7, <1>8 DEF Next

(* What counts as written is what an order began from, until it is complete.     *)
WrittenAgents ==
  IF Halfway(task["queue"]) THEN task["queue"].from.agents ELSE globalFile.agents

LEMMA CommittedIs == StoreTyped /\ ControlInv => Committed = WrittenAgents
<1> SUFFICES ASSUME StoreTyped, ControlInv PROVE Committed = WrittenAgents
  OBVIOUS
<1>1. \A c \in Call : ~Halfway(task[c])
  BY DEF Halfway, ControlInv, CallsInv, None
<1>2. (\E c \in Caller : Halfway(task[c])) <=> Halfway(task["queue"])
  BY <1>1, Callers
<1>3. Halfway(task["queue"]) => lock = "queue"
  BY Callers DEF Halfway, Busy, ControlInv, LockInv
<1> QED
  BY <1>2, <1>3 DEF Committed, WrittenAgents

LEMMA TasksNeedWindow ==
  ASSUME StoreTyped, ControlInv, NEW c \in Caller, task[c] # None PROVE window = "loaded"
<1>1. window = "closed" => job.op = "none" /\ \A d \in Call : edit[d].op = "none"
  BY DEF ControlInv, ClosedInv, NoEdits, None
<1>2. window = "closed" => task[c] = None
  BY <1>1, Callers DEF ControlInv, CallsInv
<1> QED
  BY <1>2 DEF StoreTyped, WindowTyped

(* Whoever writes an order has shown it, and whoever writes a snapshot has not.   *)
LEMMA KindOfJob ==
  ASSUME StoreTyped, CallsInv, task["queue"] # None
  PROVE  /\ task["queue"].kind = "order" <=> job.op = "ordering"
         /\ task["queue"].kind = "snapshot" <=> job.op = "saving"
<1>1. job.op \in {"none", "saving", "saved", "ordering"}
  BY NoJob DEF StoreTyped
<1> QED
  BY <1>1 DEF CallsInv

(* What one write puts in place of the agents that are on file.                  *)
LEMMA DiskWrite ==
  ASSUME StoreTyped, ControlInv, Held, mishaps' \subseteq {"torn"},
         NEW c \in Caller, NEW outcome \in Written, Write(c, outcome)
  PROVE  (Has(WrittenAgents) \cup Has(Local)) \ removed \subseteq Has(WrittenAgents') \cup Has(Local')
<1>1. /\ task[c] \in Save /\ task'[c].to = task[c].to /\ task'[c].from = task[c].from
      /\ task'[c].kind = task[c].kind /\ \A d \in Caller : d # c => task'[d] = task[d]
  BY WriteTyped
<1>2. "queue" \in Caller /\ \A d \in Call : d \in Caller /\ d # "queue"
  BY Callers
<1>3. task[c].to.local \in Store /\ task[c].from \in Project
  BY <1>1 DEF Save, Both
<1>4. \A r \in {"ok", "err"} : Ends(c, r) => task'[c].op = r
  BY <1>1, NoTask, Moves
<1>5. \A op \in {"writingLocal", "rollingBack"} : Goes(c, op) => task'[c].op = op
  BY <1>1, NoTask, Moves
<1>6. c = "queue" => task["queue"] # None
  BY <1>1, NoTask
<1>7. CASE SnapshotWrite(c, outcome)
  <2>1. c = "queue"
    BY <1>1, <1>7, NoTask, Callers DEF SnapshotWrite, ControlInv, CallsInv
  <2>2. job.op = "saving" /\ GlobalKept /\ outcome # "unsynced" /\ Local' = Local
    BY <1>6, <1>7, <2>1, KindOfJob DEF SnapshotWrite, Happens, Held, Ordering, ControlInv, Local
  <2>3. Has(globalFile.agents) \ removed \subseteq Has(task[c].to.global) \cup Has(Local)
    BY <1>7, <2>1, <2>2 DEF SnapshotWrite, GlobalKept
  <2>4. WrittenAgents = globalFile.agents /\ WrittenAgents' = globalFile'.agents
    <3>1. task'[c].op \in {"ok", "err"}
      BY <1>4, <1>7 DEF SnapshotWrite
    <3> QED
      BY <1>7, <2>1, <3>1 DEF SnapshotWrite, WrittenAgents, Halfway
  <2>5. globalFile'.agents \in {globalFile.agents, task[c].to.global}
    BY <1>7, <2>2 DEF SnapshotWrite
  <2> QED
    BY <2>2, <2>3, <2>4, <2>5
<1>8. ASSUME task[c].kind = "order", c = "queue"
      PROVE  OrderKept /\ task[c].to = live
  BY <1>6, <1>8, KindOfJob DEF Held, Ordering, ControlInv, OrderKept
<1>9. task[c].kind = "order" => c = "queue"
  BY <1>1, NoTask, Callers DEF ControlInv, CallsInv
<1>10. CASE OrderWrite(c, outcome)
  <2>1. c = "queue" /\ OrderKept /\ task[c].to = live /\ task[c].op = "writing"
        /\ task[c].from = globalFile /\ Local' = Local
    BY <1>8, <1>9, <1>10 DEF OrderWrite, ControlInv, LockInv, Local
  <2>2. WrittenAgents = globalFile.agents /\ Safe(globalFile.agents)
    BY <2>1 DEF WrittenAgents, Halfway, OrderKept
  <2>3. CASE outcome = "ok" /\ WritesLocal(task[c])
    <3>1. task'[c].op = "writingLocal" /\ task'[c].kind = "order"
      BY <1>1, <1>5, <1>10, <2>3 DEF OrderWrite
    <3>2. WrittenAgents' = globalFile.agents
      BY <1>1, <2>1, <3>1 DEF WrittenAgents, Halfway
    <3> QED
      BY <2>1, <2>2, <3>2
  <2>4. CASE ~(outcome = "ok" /\ WritesLocal(task[c]))
    <3>1. task'[c].op \in {"ok", "err"}
      BY <1>4, <1>10, <2>4 DEF OrderWrite
    <3>2. WrittenAgents' = globalFile'.agents
      BY <2>1, <3>1 DEF WrittenAgents, Halfway
    <3>3. globalFile'.agents \in {globalFile.agents, live.global}
      BY <1>3, <1>10, <2>1 DEF OrderWrite, Project
    <3> QED
      BY <2>1, <2>2, <3>2, <3>3 DEF Safe
  <2> QED
    BY <2>3, <2>4
<1>11. CASE LocalWrite(c, outcome) /\ task[c].kind = "order"
  <2>1. c = "queue" /\ OrderKept /\ task[c].to = live /\ task[c].op = "writingLocal"
        /\ globalFile' = globalFile /\ globalFile.agents = live.global /\ outcome # "unsynced"
    BY <1>8, <1>9, <1>11 DEF LocalWrite, ControlInv, LockInv, Halfway, Happens
  <2>2. WrittenAgents = task[c].from.agents /\ Safe(task[c].from.agents)
        /\ Has(Local) = Has(live.local)
    BY <1>11, <2>1 DEF WrittenAgents, Halfway, OrderKept
  <2>3. CASE outcome = "ok"
    <3>1. localFile' = live.local /\ task'[c].op = "ok"
      BY <1>4, <1>11, <2>1, <2>3 DEF LocalWrite, Replaces
    <3>2. Local' = live.local
      BY <1>3, <2>1, <3>1, FileRead DEF Local
    <3>3. WrittenAgents' = live.global
      BY <2>1, <3>1 DEF WrittenAgents, Halfway
    <3> QED
      BY <2>2, <3>2, <3>3 DEF Safe
  <2>4. CASE outcome = "failed"
    <3>1. Local' = Local /\ task'[c].op = "rollingBack" /\ task'[c].kind = "order"
      BY <1>1, <1>5, <1>11, <2>4 DEF LocalWrite, LocalFailed, Replaces, Local
    <3>2. WrittenAgents' = task[c].from.agents
      BY <1>1, <2>1, <3>1 DEF WrittenAgents, Halfway
    <3> QED
      BY <2>2, <3>1, <3>2
  <2> QED
    BY <2>1, <2>3, <2>4 DEF Written
<1>12. CASE LocalWrite(c, outcome) /\ task[c].kind # "order"
  <2>1. c \in Call
    <3>1. c = "queue" => task[c].op \in {"waiting", "writing", "ok", "err"}
      <4>1. c = "queue" => job.op \in {"none", "saving", "saved"}
        BY <1>6, <1>12, KindOfJob, NoJob DEF ControlInv, StoreTyped
      <4> QED
        BY <1>6, <4>1 DEF ControlInv, CallsInv
    <3> QED
      BY <1>12, <3>1, Callers DEF LocalWrite
  <2>2. edit[c].op \in {"savingLocal", "removingLocal"} /\ task[c].to = edit[c].after
    BY <1>1, <2>1, NoTask DEF ControlInv, CallsInv
  <2>3. ~Ordering /\ GlobalKept /\ CallSaved(c) /\ CallKept(c)
    BY <2>1, <2>2 DEF Held, OrderKept, NoEdits, ProjectSaved, None
  <2>4. WrittenAgents = globalFile.agents /\ WrittenAgents' = globalFile.agents
    <3>1. ~Halfway(task["queue"])
      BY <2>3, KindOfJob DEF Ordering, Halfway, None, ControlInv
    <3>2. globalFile' = globalFile /\ task'["queue"] = task["queue"]
      BY <1>1, <1>2, <1>12, <2>1 DEF LocalWrite
    <3> QED
      BY <3>1, <3>2 DEF WrittenAgents
  <2>5. outcome # "unsynced" /\ task[c].op = "writingLocal"
    BY <1>12 DEF LocalWrite, Happens
  <2>6. CASE outcome = "failed"
    <3>1. Local' = Local
      BY <1>12, <2>6 DEF LocalWrite, Replaces, Local
    <3> QED
      BY <2>4, <3>1
  <2>7. CASE outcome = "ok"
    <3>1. localFile' = edit[c].after.local
      BY <1>12, <2>2, <2>7 DEF LocalWrite, Replaces
    <3>2. Local' = edit[c].after.local
      BY <1>3, <2>2, <3>1, FileRead DEF Local
    <3>3. Local = edit[c].before.local
      BY <2>2, <2>3, <2>5 DEF CallSaved
    <3> QED
      BY <2>2, <2>3, <2>4, <3>2, <3>3 DEF CallKept, Moved, GlobalKept, Safe
  <2> QED
    BY <2>5, <2>6, <2>7 DEF Written
<1>13. CASE RollBack(c, outcome)
  <2>1. c = "queue" /\ OrderKept /\ task[c].to = live /\ task[c].op = "rollingBack"
        /\ Local' = Local /\ task[c].kind = "order"
    BY <1>8, <1>13, OrdersRollBack DEF RollBack, ControlInv, Local
  <2>2. WrittenAgents = task[c].from.agents /\ Safe(task[c].from.agents)
        /\ globalFile.agents = live.global
    BY <2>1 DEF WrittenAgents, Halfway, OrderKept, ControlInv, LockInv
  <2>3. WrittenAgents' = globalFile'.agents
    BY <1>4, <1>13, <2>1 DEF RollBack, WrittenAgents, Halfway
  <2>4. globalFile' \in {globalFile, task[c].from}
    BY <1>13 DEF RollBack
  <2> QED
    BY <2>1, <2>2, <2>3, <2>4 DEF Safe
<1> QED
  BY <1>7, <1>10, <1>11, <1>12, <1>13 DEF Write

LEMMA DiskKept ==
  ASSUME StoreTyped, ControlInv, DiskInv, [Next]_vars, mishaps' \subseteq {"torn"}
  PROVE  (Has(WrittenAgents) \cup Has(Local)) \ removed'
           \subseteq Has(WrittenAgents') \cup Has(Local')
<1>1. window = "loaded" => Held
  BY MishapsGrow DEF DiskInv
<1>2. ASSUME UNCHANGED <<task, Local>>, globalFile'.agents = globalFile.agents
      PROVE  Has(WrittenAgents') = Has(WrittenAgents) /\ Has(Local') = Has(Local)
  <2>1. task["queue"]' = task["queue"]
    BY <1>2
  <2> QED
    BY <1>2, <2>1 DEF WrittenAgents
<1>3. CASE CliLoads \/ CliSaves
  BY <1>2, <1>3, CliKeeps DEF ControlInv
<1>4. CASE UNCHANGED vars
  BY <1>2, <1>4 DEF vars, fileVars, backendVars, Local
<1>5. CASE Edits \/ Window
  <2>1. UNCHANGED <<globalFile, Local>>
    BY <1>5, WindowCalls DEF ControlInv, Local
  <2>2. CASE UNCHANGED task
    BY <1>2, <2>1, <2>2
  <2>3. ASSUME NEW c \in Caller,
               \/ task[c] = None /\ task'[c].op = "waiting"
               \/ Answered(c) /\ task'[c] = None,
               \A d \in Caller : d # c => task'[d] = task[d]
        PROVE  WrittenAgents' = WrittenAgents
    <3>1. CASE c = "queue"
      BY <2>1, <2>3, <3>1 DEF WrittenAgents, Halfway, Answered, None
    <3>2. CASE c # "queue"
      BY <2>1, <2>3, <3>2, Callers DEF WrittenAgents
    <3> QED
      BY <3>1, <3>2
  <2> QED
    BY <1>5, <2>1, <2>2, <2>3, WindowCalls DEF ControlInv
<1>6. ASSUME NEW c \in Caller, Acquire(c)
      PROVE  WrittenAgents' = WrittenAgents /\ Local' = Local
  <2>1. UNCHANGED <<globalFile, Local>>
    BY <1>6 DEF Acquire, fileVars, Local
  <2>2. /\ task[c].op = "waiting" /\ task'[c].kind = task[c].kind
        /\ task'[c].op = "err" \/ task'[c].op = IF task[c].kind = "local" THEN "writingLocal" ELSE "writing"
        /\ \A d \in Caller : d # c => task'[d] = task[d]
    BY <1>6, AcquireTyped DEF Acquire
  <2>3. CASE c = "queue"
    BY <2>1, <2>2, <2>3 DEF WrittenAgents, Halfway
  <2>4. CASE c # "queue"
    BY <2>1, <2>2, <2>4, Callers DEF WrittenAgents
  <2> QED
    BY <2>1, <2>3, <2>4
<1>7. ASSUME NEW c \in Caller, NEW outcome \in Written, Write(c, outcome)
      PROVE  (Has(WrittenAgents) \cup Has(Local)) \ removed'
               \subseteq Has(WrittenAgents') \cup Has(Local')
  <2>1. task[c] # None /\ removed' = removed
    BY <1>7, WriteTyped, NoTask DEF Write
  <2> QED
    BY <1>1, <1>7, <2>1, TasksNeedWindow, DiskWrite
<1>8. CASE Crash
  <2>1. Held /\ removed' = removed /\ UNCHANGED <<globalFile, Local>>
    BY <1>1, <1>8 DEF Crash, Running, fileVars, Local
  <2>2. WrittenAgents' = globalFile.agents
    <3>1. task'["queue"] = None
      BY <1>8, Callers DEF Crash
    <3> QED
      BY <2>1, <3>1 DEF WrittenAgents, Halfway, None
  <2>3. CASE Halfway(task["queue"])
    <3>1. OrderKept
      BY <2>1, <2>3, KindOfJob DEF Held, Ordering, ControlInv, Halfway, None
    <3>2. globalFile.agents = live.global /\ Safe(task["queue"].from.agents)
      BY <2>3, <3>1, Callers DEF OrderKept, ControlInv, LockInv, Halfway
    <3> QED
      BY <2>1, <2>2, <2>3, <3>2 DEF WrittenAgents, Safe
  <2>4. CASE ~Halfway(task["queue"])
    BY <2>1, <2>2, <2>4 DEF WrittenAgents
  <2> QED
    BY <2>3, <2>4
<1> QED
  BY <1>3, <1>4, <1>5, <1>6, <1>7, <1>8 DEF Next, Backend

(* useProjects.ts and projects.rs: an agent that has reached one of the files      *)
(* stays in one until the user removes it, whichever write fails and wherever the *)
(* application dies, an order that died between its two files included; but not  *)
(* once a save has overlapped an order or another save, or has put back what     *)
(* changed while it awaited.                                                  *)
THEOREM DiskCorrect == StoreSpec => AgentStaysOnDisk
<1> DEFINE Kept == mishaps' \subseteq {"torn"} => OnDisk \ removed' \subseteq OnDisk'
           Same == StoreTyped /\ ControlInv => Committed = WrittenAgents
<1>1. Init => DiskInv
  BY DiskInit
<1>2. (StoreTyped /\ ControlInv) /\ DiskInv /\ [Next]_vars => DiskInv'
  BY DiskNext
<1>3. Same
  BY CommittedIs
<1>4. Same'
  BY <1>3, PTL
<1>5. (StoreTyped /\ ControlInv) /\ (StoreTyped /\ ControlInv)' /\ DiskInv /\ [Next]_vars
        => [Kept]_vars
  BY <1>3, <1>4, DiskKept DEF OnDisk
<1>6. StoreSpec => [][Kept]_vars
  BY <1>1, <1>2, <1>5, ControlCorrect, PTL DEF StoreSpec
<1> QED
  BY <1>6 DEF AgentStaysOnDisk

=============================================================================
