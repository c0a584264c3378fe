-------------------------- MODULE RegistryLifecycle --------------------------
(* The registry of subagents implements their life cycle.                    *)
EXTENDS SubagentRegistry

(* An id is given out before its subagent is attached; one without a record  *)
(* that was attached, or rolled back, is forgotten.                          *)
LifeOf(recs, sp) ==
  [i \in Id |-> IF Exists(recs, i) THEN recs[i].lifecycle
                ELSE IF sp[i] \in {"none", "routing"} THEN "none" ELSE "forgotten"]

AskedOf(recs) == {i \in Id : Running(recs, i) /\ recs[i].stopRequested}
CallsOf(st) == [c \in Stopper |-> IF st[c] = NoStop THEN None ELSE st[c].id]

Life == INSTANCE SubagentLifecycle
  WITH life <- LifeOf(records, spawn), asked <- AskedOf(records), calls <- CallsOf(stops)

(* Whatever interleaves, each subagent runs once, ends once, in the way that *)
(* was asked for, and is forgotten only then; one stop is under way at most, *)
(* and its failure leaves the subagent as if it had not been asked for.      *)
LivesAsPromised == Life!LifecycleSpec
=============================================================================
