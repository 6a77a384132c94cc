---------------------------- MODULE MCApprovals ----------------------------
(* Small instances of Approvals. *)
EXTENDS Approvals, TLC

\* What handlers record.
Recordable == [action : {"requested", "granted", "rejected", "revoked"}, id : Ids, actor : Users]

\* Handlers are interchangeable, and so are users and requests (safety runs only).
Symmetric == Permutations(Writers) \cup Permutations(Users) \cup Permutations(Ids)
=============================================================================
