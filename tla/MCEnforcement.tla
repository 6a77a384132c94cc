---------------------------- MODULE MCEnforcement ----------------------------
(* A small instance of Enforcement: a request to a gateway, closed or open, beside a CI run. *)
EXTENDS Enforcement
=============================================================================
