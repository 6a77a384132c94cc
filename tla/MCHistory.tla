----------------------------- MODULE MCHistory -----------------------------
(* Small instances of ResolveEngine with its history of facts. *)
EXTENDS ResolveHistory, Instances, TLC

\* Request slots are interchangeable (for safety runs only).
Slots == Permutations(Tasks)
=============================================================================
