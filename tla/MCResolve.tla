----------------------------- MODULE MCResolve -----------------------------
(* Small instances of ResolveEngine. *)
EXTENDS ResolveEngine, Instances, TLC

\* Request slots are interchangeable (for safety runs only).
Slots == Permutations(Tasks)
=============================================================================
