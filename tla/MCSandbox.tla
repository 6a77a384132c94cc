------------------------------ MODULE MCSandbox ------------------------------
(* A small instance of Sandbox: two threads, one listed and one unlisted host. *)
EXTENDS Sandbox

\* Neither value of either depends on the other.
BothOrNeither == {<<d, d>> : d \in BOOLEAN}

KindsOfCalls == Hosts \cup {"secret"}
=============================================================================
