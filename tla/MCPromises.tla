---------------------------- MODULE MCPromises ----------------------------
(* Small instances of ResolveEngine for the promises it does not keep. *)
EXTENDS ResolvePromises, Instances
=============================================================================
