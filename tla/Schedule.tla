------------------------------ MODULE Schedule ------------------------------
(***************************************************************************)
(* A table of things to do at an interval, edited by operators while one   *)
(* worker of the process works through what is due: the common part of the *)
(* watchlist (tracker.rs, db/watchlist.rs) and of the feed sources         *)
(* (feeds.rs, db/feed_sources.rs).                                         *)
(*                                                                         *)
(* A pass selects the due rows once and works on these copies one by one,  *)
(* slowly; operators edit the rows meanwhile.  Instead of clocks a row     *)
(* knows whether its interval is over (due), and order lists the rows with *)
(* the one checked longest ago first, which is all that the query needs.   *)
(***************************************************************************)
EXTENDS Naturals, SequencesExt

CONSTANTS
  Names,      \* the unique column: targets of the watchlist, names of sources
  Whats,      \* what else a row says: kind of a target, ecosystem of a source
  Batch,      \* LIMIT of the query for due rows
  MaxEdits,   \* bound on the edits of operators
  MaxFaults   \* bound on crashes and on failing UPDATEs

ASSUME BatchAssumption == Batch \in Nat \ {0}
ASSUME BoundsAssumption == MaxEdits \in Nat /\ MaxFaults \in Nat

VARIABLES
  row,     \* the table
  order,   \* its names, never checked first, then by last check
  queue,   \* the copies the pass has still to work on, the current one first
  edits,   \* number of edits, also the source of fresh ids
  faults   \* number of faults

schedule == <<row, order, queue, edits, faults>>

\* checked is the id under which a check was recorded last, 0 for NULL.
Row == [id : 1..MaxEdits, what : Whats, enabled : BOOLEAN, due : BOOLEAN, checked : 0..MaxEdits]

NoRow == [id |-> 0]

Present == {n \in Names : row[n] # NoRow}

\* The elements of s that are in S, in their order.
Only(s, S) ==
  LET kept[i \in 0..Len(s)] ==
        IF i = 0 THEN <<>> ELSE IF s[i] \in S THEN Append(kept[i - 1], s[i]) ELSE kept[i - 1]
  IN  kept[Len(s)]

Copy == [name : Names, id : 1..MaxEdits, what : Whats]

(* Every variable has its type, and order lists each row once.             *)
ScheduleTypeOK ==
  /\ row \in [Names -> Row \cup {NoRow}]
  /\ order \in Seq(Names) /\ IsInjective(order) /\ Range(order) = Present
  /\ queue \in Seq(Copy)
  /\ edits \in 0..MaxEdits /\ faults \in 0..MaxFaults

ScheduleInit ==
  /\ row = [n \in Names |-> NoRow]
  /\ order = <<>> /\ queue = <<>>
  /\ edits = 0 /\ faults = 0

-----------------------------------------------------------------------------
(* Operators.  An edit of a row that is not there answers 404.             *)

Edit == edits < MaxEdits /\ edits' = edits + 1 /\ UNCHANGED <<queue, faults>>

\* A new row has a fresh id and was never checked.
Insert(n, what, enabled) ==
  /\ n \notin Present
  /\ row' = [row EXCEPT ![n] = [id |-> edits + 1, what |-> what, enabled |-> enabled,
                                due |-> TRUE, checked |-> 0]]
  /\ order' = <<n>> \o order
  /\ Edit

\* A change of the interval moves the due time, except of what was never checked.
DueAfter(n) == IF row[n].checked = 0 THEN {TRUE} ELSE BOOLEAN

\* ON CONFLICT DO UPDATE keeps the id and the last check.
Amend(n, what, enabled, due) ==
  /\ n \in Present
  /\ row' = [row EXCEPT ![n] = [@ EXCEPT !.what = what, !.enabled = enabled, !.due = due]]
  /\ Edit /\ UNCHANGED order

set_enabled(n) ==
  /\ n \in Present
  /\ \E enabled \in BOOLEAN : row' = [row EXCEPT ![n] = [@ EXCEPT !.enabled = enabled]]
  /\ Edit /\ UNCHANGED order

set_interval(n) ==
  /\ n \in Present
  /\ \E due \in DueAfter(n) : row' = [row EXCEPT ![n] = [@ EXCEPT !.due = due]]
  /\ Edit /\ UNCHANGED order

Deleted(n) ==
  /\ row' = [row EXCEPT ![n] = NoRow]
  /\ order' = Only(order, Names \ {n})

remove(n) == n \in Present /\ Deleted(n) /\ Edit

-----------------------------------------------------------------------------
(* The worker.                                                             *)

\* Mutated: the query has no ORDER BY; here, the newest check comes first.
due_Unordered ==
  LET waiting == Only(Reverse(order), {n \in Present : row[n].enabled /\ row[n].due})
  IN  SubSeq(waiting, 1, IF Len(waiting) < Batch THEN Len(waiting) ELSE Batch)

due ==
  LET waiting == Only(order, {n \in Present : row[n].enabled /\ row[n].due})
  IN  SubSeq(waiting, 1, IF Len(waiting) < Batch THEN Len(waiting) ELSE Batch)

Select ==
  /\ queue = <<>> /\ due # <<>>
  /\ queue' = [i \in 1..Len(due) |-> [name |-> due[i], id |-> row[due[i]].id, what |-> row[due[i]].what]]
  /\ UNCHANGED <<row, order, edits, faults>>

Current == Head(queue)

\* Mutated: the check is recorded for the name, not for the row that was selected.
Recorded_ByName(copy) ==
  IF copy.name \in Present
  THEN /\ row' = [row EXCEPT ![copy.name] = [@ EXCEPT !.due = FALSE, !.checked = copy.id]]
       /\ order' = Append(Only(order, Names \ {copy.name}), copy.name)
  ELSE UNCHANGED <<row, order>>

\* UPDATE ... WHERE id = ...: the row may be gone, or be another one of that name.
Recorded(copy) ==
  IF copy.name \in Present /\ row[copy.name].id = copy.id
  THEN /\ row' = [row EXCEPT ![copy.name] = [@ EXCEPT !.due = FALSE, !.checked = copy.id]]
       /\ order' = Append(Only(order, Names \ {copy.name}), copy.name)
  ELSE UNCHANGED <<row, order>>

\* The pass is over and what it did not record is still due: an UPDATE failed, or
\* the process stopped.
Aborted ==
  /\ queue # <<>> /\ faults < MaxFaults
  /\ queue' = <<>> /\ faults' = faults + 1
  /\ UNCHANGED <<row, order, edits>>

\* The interval of a checked row is over.
Elapse(n) ==
  /\ n \in Present /\ ~row[n].due
  /\ row' = [row EXCEPT ![n] = [@ EXCEPT !.due = TRUE]]
  /\ UNCHANGED <<order, queue, edits, faults>>

-----------------------------------------------------------------------------
(* A row is checked under its own name only by a check of that very row: a *)
(* target removed and added again while its check runs is still due        *)
(* (mark_checked, mark_synced).                                            *)
ChecksAreOwn == \A n \in Present : row[n].checked \in {0, row[n].id}

(* What operators decided stands: neither a pass on an old copy of a row   *)
(* nor a crash nor time adds or removes a row, turns it on or off, or      *)
(* changes what it is (run_pass, mark_checked, mark_synced).               *)
EditsStand ==
  [][edits' = edits =>
       /\ Present' = Present
       /\ \A n \in Present : /\ row'[n].id = row[n].id
                             /\ row'[n].what = row[n].what
                             /\ row'[n].enabled = row[n].enabled]_schedule

(* Every enabled row that is due is checked, or is edited: none starves    *)
(* behind rows that keep coming due, keep failing or are checked more      *)
(* often (due, ordered by the last check).                                 *)
EveryRowIsChecked ==
  \A n \in Names, i \in 1..MaxEdits :
    LET waits == row[n].id = i /\ row[n].enabled /\ row[n].due
    IN  waits ~> ~waits
=============================================================================
