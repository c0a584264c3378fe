-------------------------- MODULE SubagentLifecycle --------------------------
(***************************************************************************)
(* What the registry of subagents promises to those who use it, without    *)
(* terminals, reservations, clocks and limits: the life of each subagent,  *)
(* and the stops that are asked of it.                                     *)
(***************************************************************************)
CONSTANTS
  Id,       \* subagents
  Stopper,  \* callers of stop
  None      \* no subagent

VARIABLES
  life,   \* of each subagent
  asked,  \* running subagents whose stop is under way, or was delivered
  calls   \* the subagent each caller is stopping

lifeVars == <<life, asked, calls>>

Over == {"exited", "stopped", "error"}

LifecycleInit ==
  /\ life = [i \in Id |-> "none"]
  /\ asked = {}
  /\ calls = [c \in Stopper |-> None]

(* With any step, subagents that are over may be forgotten. *)
Forgetting(lives) ==
  {l \in [Id -> {"none", "running", "forgotten"} \cup Over] :
     \A i \in Id : l[i] = lives[i] \/ (lives[i] \in Over /\ l[i] = "forgotten")}

Forget == life' \in Forgetting(life) /\ UNCHANGED <<asked, calls>>

Start(i) ==
  /\ life[i] = "none"
  /\ life' \in Forgetting([life EXCEPT ![i] = "running"])
  /\ UNCHANGED <<asked, calls>>

(* A subagent that ends was stopped if that was asked, and exited if not; it *)
(* may fail in either case.                                                  *)
End(i, how) ==
  /\ life[i] = "running"
  /\ how = "error" \/ how = IF i \in asked THEN "stopped" ELSE "exited"
  /\ life' \in Forgetting([life EXCEPT ![i] = how])
  /\ asked' = asked \ {i}
  /\ UNCHANGED calls

EndAll ==
  /\ life' \in Forgetting([i \in Id |-> IF life[i] = "running" THEN "stopped" ELSE life[i]])
  /\ asked' = {}
  /\ UNCHANGED calls

(* The spawn did not succeed after all. *)
RollBackSpawn(i) ==
  /\ life' = [life EXCEPT ![i] = "forgotten"]
  /\ asked' = asked \ {i}
  /\ UNCHANGED calls

Ask(c, i) ==
  /\ calls[c] = None /\ life[i] = "running" /\ i \notin asked
  /\ calls' = [calls EXCEPT ![c] = i]
  /\ asked' = asked \cup {i}
  /\ life' \in Forgetting(life)

StopSucceeds(c) ==
  /\ calls[c] # None
  /\ calls' = [calls EXCEPT ![c] = None]
  /\ UNCHANGED <<life, asked>>

StopFails(c) ==
  /\ calls[c] # None
  /\ calls' = [calls EXCEPT ![c] = None]
  /\ asked' = asked \ {calls[c]}
  /\ UNCHANGED life

LifecycleNext ==
  \/ Forget
  \/ \E i \in Id : Start(i) \/ RollBackSpawn(i) \/ \E how \in Over : End(i, how)
  \/ EndAll
  \/ \E c \in Stopper : StopSucceeds(c) \/ StopFails(c) \/ \E i \in Id : Ask(c, i)

LifecycleSpec == LifecycleInit /\ [][LifecycleNext]_lifeVars
=============================================================================
