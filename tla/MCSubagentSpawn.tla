-------------------------- MODULE MCSubagentSpawn --------------------------
(* Instances of SubagentSpawn for TLC. *)
EXTENDS SubagentSpawn, TLC

CONSTANTS p1, t1, t2

MCTabOf == [i \in Id |-> IF i = 1 THEN t1 ELSE t2]
=============================================================================
