--------------------------- MODULE MCSubagentListing ---------------------------
(* The instance of SubagentListing for TLC. *)
EXTENDS SubagentListing
=============================================================================
