----------------------------- MODULE PolicyStore -----------------------------
(***************************************************************************)
(* The policies table (db/policies.rs, the gRPC admin service and the      *)
(* bootstrap of main.rs): operators and starting engines install rulesets  *)
(* in transactions that overlap under READ COMMITTED, and every resolution *)
(* reads the active one.                                                   *)
(***************************************************************************)
EXTENDS Integers, FiniteSets

CONSTANTS
  Operators,   \* callers of UpsertPolicy
  Engines,     \* engines that start, with a bootstrap policy configured
  MaxStamps    \* bound on transactions and commits

ASSUME CallersAssumption == Operators \cap Engines = {} /\ MaxStamps \in Nat

VARIABLES
  table,       \* the committed rows: by whom, active, when its writer looked, began
               \* (updated_at) and committed
  tx,          \* what each writer is at
  stamp,       \* the database's clock
  audit,       \* the policies the audit log records
  past         \* history: the policies that were in force and no longer are

pvars == <<table, tx, stamp, audit, past>>

Callers == Operators \cup Engines

Idle == [pc |-> "idle", since |-> 0, at |-> 0, seen |-> {}, off |-> {}]

PolicyInit ==
  table = {} /\ tx = [c \in Callers |-> Idle] /\ stamp = 0 /\ audit = {} /\ past = {}

Active == {r \in table : r.active}

\* The ruleset a resolution uses, if there is one: the active row begun last.
Latest(rows) == CHOOSE r \in rows : \A s \in rows : r.at >= s.at

get_active == IF Active = {} THEN {} ELSE {Latest(Active)}

Looked == [pc |-> "looked", since |-> stamp, at |-> 0, seen |-> {}, off |-> {}]

Turn(c, t) == tx' = [tx EXCEPT ![c] = t]

\* Mutated: an engine installs its bootstrap policy at every start.
Look_Always(e) ==
  /\ tx[e].pc = "idle"
  /\ Turn(e, Looked)
  /\ UNCHANGED <<table, stamp, audit, past>>

\* A starting engine installs its bootstrap policy only if none is active.
Look(e) ==
  /\ tx[e].pc = "idle" /\ Active = {}
  /\ Turn(e, Looked)
  /\ UNCHANGED <<table, stamp, audit, past>>

\* The transaction begins: NOW() is this moment for all of it.
Begin(c) ==
  /\ tx[c].pc = (IF c \in Engines THEN "looked" ELSE "idle") /\ stamp < MaxStamps
  /\ stamp' = stamp + 1
  /\ Turn(c, [tx[c] EXCEPT !.pc = "begun", !.at = stamp'])
  /\ UNCHANGED <<table, audit, past>>

\* Mutated: only the row that get_active returns is deactivated.
Snapshot_OnlyCurrent(c) ==
  /\ tx[c].pc = "begun"
  /\ Turn(c, [tx[c] EXCEPT !.pc = "update", !.seen = {r.at : r \in get_active}])
  /\ UNCHANGED <<table, stamp, audit, past>>

\* The UPDATE finds the active rows of its snapshot ...
Snapshot(c) ==
  /\ tx[c].pc = "begun"
  /\ Turn(c, [tx[c] EXCEPT !.pc = "update", !.seen = {r.at : r \in Active}])
  /\ UNCHANGED <<table, stamp, audit, past>>

Locked(c) == UNION {tx[d].off : d \in Callers \ {c}}

\* ... waits until no other transaction holds them, and takes those still active.
Update(c) ==
  /\ tx[c].pc = "update" /\ tx[c].seen \cap Locked(c) = {}
  /\ Turn(c, [tx[c] EXCEPT !.pc = "insert", !.off = {r.at : r \in {q \in Active : q.at \in tx[c].seen}}])
  /\ UNCHANGED <<table, stamp, audit, past>>

Commit(c) ==
  /\ tx[c].pc = "insert"
  /\ stamp' = stamp + 1
  /\ table' = {IF r.at \in tx[c].off THEN [r EXCEPT !.active = FALSE] ELSE r : r \in table}
              \cup {[since |-> tx[c].since, at |-> tx[c].at, done |-> stamp', by |-> c, active |-> TRUE]}
  /\ Turn(c, IF c \in Operators THEN [tx[c] EXCEPT !.pc = "audit", !.off = {}] ELSE Idle)
  /\ past' = past \cup ({r.at : r \in get_active} \ {r.at : r \in get_active'})
  /\ UNCHANGED audit

\* A statement fails or the connection breaks: nothing of the transaction stays.
Rollback(c) ==
  /\ tx[c].pc \in {"begun", "update", "insert"}
  /\ Turn(c, Idle)
  /\ UNCHANGED <<table, stamp, audit, past>>

\* The audit entry of an operator's update, which may fail on its own.
AppendAudit(c) ==
  /\ tx[c].pc = "audit"
  /\ audit' \in {audit, audit \cup {tx[c].at}}
  /\ Turn(c, Idle)
  /\ UNCHANGED <<table, stamp, past>>

PolicyNext ==
  \/ \E e \in Engines : Look(e)
  \/ \E c \in Callers : Begin(c) \/ Snapshot(c) \/ Update(c) \/ Commit(c) \/ Rollback(c) \/ AppendAudit(c)

PolicySpec == PolicyInit /\ [][PolicyNext]_pvars

-----------------------------------------------------------------------------
Overlap(r, s) == r.at < s.done /\ s.at < r.done

(* Once a policy was installed there is always one to enforce, in every    *)
(* state a resolution may read (policies.rs:34-50, one transaction).       *)
PolicyNeverLost == table # {} => Active # {}

(* Two policies are active together only if the transactions that          *)
(* installed them overlapped.                                              *)
TwoActiveOverlapped == \A r, s \in Active : r # s => Overlap(r, s)

(* A policy that another one superseded never comes back, however the     *)
(* transactions overlapped and whatever they left active.                  *)
NoPolicyReturns == \A r \in get_active : r.at \notin past

(* A bootstrap policy takes over only from policies installed after its    *)
(* engine had looked and found none (main.rs:42).                          *)
BootstrapOnlyFills ==
  \A r, s \in table : r.by \in Engines /\ s.done < r.at => s.done > r.since
=============================================================================
