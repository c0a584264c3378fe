------------------------ MODULE MCSubagentRegistry ------------------------
(* Instances of SubagentRegistry for TLC.  The model values below are        *)
(* interchangeable in every action, so they may be permuted.                 *)
EXTENDS RegistryLifecycle, TLC

Symmetry == Permutations(Terminal) \cup Permutations(Window) \cup Permutations(Stopper)
=============================================================================
