---------------------------- MODULE MCPatchSite -----------------------------
(* The plans of all hooks, and symmetry of the game's threads.              *)
EXTENDS PatchSite, PatchPlans, TLC

Symmetry == Permutations(Thread)
=============================================================================
