----------------------------- MODULE LinearLog -----------------------------
(***************************************************************************)
(* What the audit log promises (AuditEntry::prev_hash): one chain, to      *)
(* which every entry is appended behind its predecessor, the first one     *)
(* behind nothing, and of which nothing is ever changed or removed.        *)
(***************************************************************************)
EXTENDS Naturals, Sequences

CONSTANT Entries   \* what the log records

VARIABLE chain     \* the entries, each with the position of its predecessor

Init == chain = << >>

Extend == \E e \in Entries : chain' = Append(chain, [entry |-> e, prev |-> Len(chain)])

Spec == Init /\ [][Extend]_chain
=============================================================================
