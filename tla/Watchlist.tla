------------------------------ MODULE Watchlist ------------------------------
(***************************************************************************)
(* The watchlist and its tracker (tracker.rs, db/watchlist.rs and the      *)
(* handlers of http.rs): operators add, change and remove targets while    *)
(* the tracker extracts what is due, target after target.                  *)
(***************************************************************************)
EXTENDS Schedule

VARIABLE
  tracked  \* what became of the current target: nothing yet, "ok" or "error"

vars == <<row, order, queue, edits, faults, tracked>>

ASSUME KindsAssumption == Whats = {"package", "scope"}

Init == ScheduleInit /\ tracked = "no"

(* Every variable has its type.                                            *)
TypeOK == ScheduleTypeOK /\ tracked \in {"no", "ok", "error"}

\* Adding what is there changes its kind and interval and enables it.
add_watchlist(n, kind) ==
  /\ \/ Insert(n, kind, TRUE)
     \/ n \in Present /\ \E d \in DueAfter(n) : Amend(n, kind, TRUE, d)
  /\ UNCHANGED tracked

update_watchlist(n) == (set_enabled(n) \/ set_interval(n)) /\ UNCHANGED tracked

delete_watchlist(n) == remove(n) /\ UNCHANGED tracked

run_pass == Select /\ UNCHANGED tracked

\* Fetching the packument and extracting its latest version may fail; a scope is
\* only marked.
track_one ==
  /\ queue # <<>> /\ tracked = "no"
  /\ \/ tracked' = "ok"
     \/ Current.what = "package" /\ tracked' = "error"
  /\ UNCHANGED <<row, order, queue, edits, faults>>

\* Both outcomes are recorded alike.
mark_checked ==
  /\ queue # <<>> /\ tracked # "no"
  /\ Recorded(Current)
  /\ queue' = Tail(queue) /\ tracked' = "no"
  /\ UNCHANGED <<edits, faults>>

Stop == Aborted /\ tracked' = "no"

Next ==
  \/ \E n \in Names, kind \in Whats : add_watchlist(n, kind)
  \/ \E n \in Names : update_watchlist(n) \/ delete_watchlist(n)
  \/ \E n \in Names : Elapse(n) /\ UNCHANGED tracked
  \/ run_pass \/ track_one \/ mark_checked \/ Stop

Spec == Init /\ [][Next]_vars

\* The worker ticks for ever, and the calls of an extraction have timeouts.
FairSpec == Spec /\ WF_vars(run_pass) /\ WF_vars(track_one) /\ WF_vars(mark_checked)
=============================================================================
