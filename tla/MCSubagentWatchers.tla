-------------------------- MODULE MCSubagentWatchers --------------------------
(* The instance of SubagentWatchers for TLC. *)
EXTENDS SubagentWatchers
=============================================================================
