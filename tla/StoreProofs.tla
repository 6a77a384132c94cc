----------------------------- MODULE StoreProofs -----------------------------
(***************************************************************************)
(* The policies table, the watchlist and the admin API's tokens, for any   *)
(* operators, engines, targets and keys: proofs of what Tables.cfg checks  *)
(* on a small instance.                                                    *)
(***************************************************************************)
EXTENDS Watchlist, PolicyStore, Tokens, NaturalFacts

Version == [since : Nat, at : Nat, done : Nat, by : Callers, active : BOOLEAN]

Writer == [pc : {"idle", "looked", "begun", "update", "insert", "audit"},
           since : Nat, at : Nat, seen : SUBSET Nat, off : SUBSET Nat]

PolicyTypes ==
  /\ table \in SUBSET Version
  /\ tx \in [Callers -> Writer]
  /\ stamp \in Nat

InTx(c) == tx[c].pc \in {"begun", "update", "insert"}

(* Nothing is dated in the future: not a transaction, not what it looked   *)
(* at, not a row.                                                          *)
DatesArePast ==
  /\ \A c \in Callers : tx[c].since <= stamp /\ tx[c].at <= stamp
  /\ \A r \in table : r.at <= stamp /\ r.done <= stamp

(* A transaction past its snapshot knows every policy that is active since *)
(* before it began, and one past its UPDATE holds it.                      *)
SnapshotsKnowOlder ==
  \A c \in Callers, r \in Active :
    /\ tx[c].pc = "update" /\ r.done <= tx[c].at => r.at \in tx[c].seen
    /\ tx[c].pc = "insert" /\ r.done <= tx[c].at => r.at \in tx[c].off

(* What an engine found is still so of everything older than its look, and *)
(* of everything older than the look of an engine whose policy is there.   *)
LooksWereEmpty ==
  /\ \A e \in Engines, s \in table : tx[e].pc = "looked" \/ InTx(e) => s.done > tx[e].since
  /\ \A r, s \in table : r.by \in Engines => s.done > r.since

PolicyInv ==
  /\ PolicyTypes /\ DatesArePast /\ PolicyNeverLost
  /\ TwoActiveOverlapped /\ SnapshotsKnowOlder /\ LooksWereEmpty

(* The tables are empty at first.                                          *)
LEMMA PolicyInitInv == PolicyInit => PolicyInv
BY DEF PolicyInit, PolicyInv, PolicyTypes, DatesArePast, PolicyNeverLost, TwoActiveOverlapped,
       SnapshotsKnowOlder, LooksWereEmpty, Idle, Writer, Active, InTx, Callers

(* A look leaves the invariant as it is: it finds no active policy, and so *)
(* none at all.                                                            *)
LEMMA LookInv ==
  ASSUME PolicyInv, NEW e \in Engines, Look(e)
  PROVE  PolicyInv'
<1>1. table = {}
  BY DEF PolicyInv, PolicyNeverLost, Look
<1>2. /\ tx' = [tx EXCEPT ![e] = [pc |-> "looked", since |-> stamp, at |-> 0, seen |-> {}, off |-> {}]]
      /\ UNCHANGED <<table, stamp>> /\ e \in Callers
  BY DEF Look, Turn, Looked, Callers
<1>3. PolicyTypes' /\ DatesArePast'
  BY <1>1, <1>2 DEF PolicyInv, PolicyTypes, DatesArePast, Writer
<1>4. (PolicyNeverLost /\ TwoActiveOverlapped /\ SnapshotsKnowOlder /\ LooksWereEmpty)'
  BY <1>1, <1>2 DEF PolicyNeverLost, TwoActiveOverlapped, SnapshotsKnowOlder, LooksWereEmpty, Active
<1>5. QED BY <1>3, <1>4 DEF PolicyInv

(* A transaction begins with a time of its own.                            *)
LEMMA BeginInv ==
  ASSUME PolicyInv, NEW c \in Callers, Begin(c)
  PROVE  PolicyInv'
<1>1. /\ tx' = [tx EXCEPT ![c] = [tx[c] EXCEPT !.pc = "begun", !.at = stamp + 1]]
      /\ stamp' = stamp + 1 /\ UNCHANGED table
      /\ c \in Engines => tx[c].pc = "looked"
  BY DEF Begin, Turn
<1>2. PolicyTypes'
  <2>1. tx[c] \in Writer /\ stamp + 1 \in Nat
    BY DEF PolicyInv, PolicyTypes
  <2>2. [tx[c] EXCEPT !.pc = "begun", !.at = stamp + 1] \in Writer
    BY <2>1 DEF Writer
  <2>3. QED BY <1>1, <2>1, <2>2 DEF PolicyInv, PolicyTypes
<1>3. DatesArePast'
  BY <1>1 DEF PolicyInv, PolicyTypes, DatesArePast, Writer, Version
<1>4. (PolicyNeverLost /\ TwoActiveOverlapped)'
  BY <1>1 DEF PolicyInv, PolicyNeverLost, TwoActiveOverlapped, Active, Overlap
<1>5. SnapshotsKnowOlder'
  BY <1>1 DEF PolicyInv, PolicyTypes, SnapshotsKnowOlder, Active, Writer
<1>6. LooksWereEmpty'
  BY <1>1 DEF PolicyInv, PolicyTypes, LooksWereEmpty, InTx, Writer, Callers
<1>7. QED BY <1>2, <1>3, <1>4, <1>5, <1>6 DEF PolicyInv

(* A snapshot knows every row committed before it.                         *)
LEMMA SnapshotInv ==
  ASSUME PolicyInv, NEW c \in Callers, Snapshot(c)
  PROVE  PolicyInv'
<1>1. /\ tx' = [tx EXCEPT ![c] = [tx[c] EXCEPT !.pc = "update", !.seen = {r.at : r \in Active}]]
      /\ UNCHANGED <<table, stamp>> /\ tx[c].pc = "begun"
  BY DEF Snapshot, Turn
<1>2. PolicyTypes'
  <2>1. tx[c] \in Writer /\ {r.at : r \in Active} \in SUBSET Nat
    BY DEF PolicyInv, PolicyTypes, Version, Active
  <2>2. [tx[c] EXCEPT !.pc = "update", !.seen = {r.at : r \in Active}] \in Writer
    BY <2>1 DEF Writer
  <2>3. QED BY <1>1, <2>2 DEF PolicyInv, PolicyTypes
<1>3. DatesArePast'
  BY <1>1 DEF PolicyInv, PolicyTypes, DatesArePast, Writer
<1>4. (PolicyNeverLost /\ TwoActiveOverlapped)'
  BY <1>1 DEF PolicyInv, PolicyNeverLost, TwoActiveOverlapped, Active, Overlap
<1>5. SnapshotsKnowOlder'
  BY <1>1 DEF PolicyInv, PolicyTypes, SnapshotsKnowOlder, Active, Writer
<1>6. LooksWereEmpty'
  BY <1>1 DEF PolicyInv, PolicyTypes, LooksWereEmpty, InTx, Writer, Callers
<1>7. QED BY <1>2, <1>3, <1>4, <1>5, <1>6 DEF PolicyInv

(* An UPDATE holds every active row of its snapshot that still is.         *)
LEMMA UpdateInv ==
  ASSUME PolicyInv, NEW c \in Callers, Update(c)
  PROVE  PolicyInv'
<1> DEFINE held == {r.at : r \in {q \in Active : q.at \in tx[c].seen}}
<1>1. /\ tx' = [tx EXCEPT ![c] = [tx[c] EXCEPT !.pc = "insert", !.off = held]]
      /\ UNCHANGED <<table, stamp>> /\ tx[c].pc = "update"
  BY DEF Update, Turn
<1>2. PolicyTypes'
  <2>1. tx[c] \in Writer /\ held \in SUBSET Nat
    BY DEF PolicyInv, PolicyTypes, Version, Active
  <2>2. [tx[c] EXCEPT !.pc = "insert", !.off = held] \in Writer
    BY <2>1 DEF Writer
  <2>3. QED BY <1>1, <2>2 DEF PolicyInv, PolicyTypes
<1>3. DatesArePast'
  BY <1>1 DEF PolicyInv, PolicyTypes, DatesArePast, Writer
<1>4. (PolicyNeverLost /\ TwoActiveOverlapped)'
  BY <1>1 DEF PolicyInv, PolicyNeverLost, TwoActiveOverlapped, Active, Overlap
<1>5. SnapshotsKnowOlder'
  BY <1>1 DEF PolicyInv, PolicyTypes, SnapshotsKnowOlder, Active, Writer
<1>6. LooksWereEmpty'
  BY <1>1 DEF PolicyInv, PolicyTypes, LooksWereEmpty, InTx, Writer, Callers
<1>7. QED BY <1>2, <1>3, <1>4, <1>5, <1>6 DEF PolicyInv

(* A transaction that rolls back leaves no trace.                          *)
LEMMA RollbackInv ==
  ASSUME PolicyInv, NEW c \in Callers, Rollback(c) \/ AppendAudit(c)
  PROVE  PolicyInv'
<1>1. /\ tx' = [tx EXCEPT ![c] = [pc |-> "idle", since |-> 0, at |-> 0, seen |-> {}, off |-> {}]]
      /\ UNCHANGED <<table, stamp>>
  BY DEF Rollback, AppendAudit, Turn, Idle
<1>2. PolicyTypes' /\ DatesArePast'
  BY <1>1 DEF PolicyInv, PolicyTypes, DatesArePast, Writer
<1>3. (PolicyNeverLost /\ TwoActiveOverlapped)'
  BY <1>1 DEF PolicyInv, PolicyNeverLost, TwoActiveOverlapped, Active, Overlap
<1>4. (SnapshotsKnowOlder /\ LooksWereEmpty)'
  BY <1>1 DEF PolicyInv, PolicyTypes, SnapshotsKnowOlder, LooksWereEmpty, InTx, Active, Writer, Callers
<1>5. QED BY <1>2, <1>3, <1>4 DEF PolicyInv

-----------------------------------------------------------------------------
(* A commit.  The writer's record afterwards is neither past its snapshot  *)
(* nor begun.                                                              *)
LEMMA CommitMoves ==
  ASSUME PolicyInv, NEW c \in Callers, Commit(c)
  PROVE  /\ stamp' = stamp + 1
         /\ tx' \in [Callers -> Writer]
         /\ \A d \in Callers \ {c} : tx'[d] = tx[d]
         /\ tx'[c].pc \in {"idle", "audit"}
         /\ tx'[c].since <= stamp /\ tx'[c].at <= stamp
<1>1. tx[c] \in Writer /\ tx[c].since <= stamp /\ tx[c].at <= stamp /\ stamp \in Nat
  BY DEF PolicyInv, PolicyTypes, DatesArePast
<1>2. CASE c \in Operators
  <2>1. [tx[c] EXCEPT !.pc = "audit", !.off = {}] \in Writer
    BY <1>1 DEF Writer
  <2>2. QED BY <1>1, <1>2, <2>1 DEF Commit, Turn, Writer, PolicyInv, PolicyTypes
<1>3. CASE c \notin Operators
  <2>1. tx' = [tx EXCEPT ![c] = [pc |-> "idle", since |-> 0, at |-> 0, seen |-> {}, off |-> {}]]
    BY <1>3 DEF Commit, Turn, Idle
  <2>2. QED BY <1>1, <2>1 DEF Commit, Writer, PolicyInv, PolicyTypes
<1>4. QED BY <1>2, <1>3

(* The rows afterwards: those of before, the older active ones turned off, *)
(* and the new one, which is active.                                       *)
LEMMA CommitRows ==
  ASSUME PolicyInv, NEW c \in Callers, Commit(c)
  PROVE  LET new == [since |-> tx[c].since, at |-> tx[c].at, done |-> stamp + 1,
                     by |-> c, active |-> TRUE]
         IN  /\ new \in table' /\ new \in Version
             /\ \A r \in table' : r = new \/
                  \E s \in table : /\ r \in Version
                                   /\ r.since = s.since /\ r.at = s.at /\ r.done = s.done /\ r.by = s.by
                                   /\ r.active => r = s /\ s.at \notin tx[c].off
<1> DEFINE new == [since |-> tx[c].since, at |-> tx[c].at, done |-> stamp + 1, by |-> c, active |-> TRUE]
           off(r) == IF r.at \in tx[c].off THEN [r EXCEPT !.active = FALSE] ELSE r
<1>1. table' = {off(r) : r \in table} \cup {new}
  BY DEF Commit
<1>2. new \in Version
  BY DEF PolicyInv, PolicyTypes, Version, Writer
<1>3. ASSUME NEW s \in table
      PROVE  /\ off(s) \in Version
             /\ off(s).since = s.since /\ off(s).at = s.at /\ off(s).done = s.done /\ off(s).by = s.by
             /\ off(s).active => off(s) = s /\ s.at \notin tx[c].off
  <2>1. s \in Version
    BY DEF PolicyInv, PolicyTypes
  <2>2. CASE s.at \in tx[c].off
    BY <2>1, <2>2 DEF Version
  <2>3. CASE s.at \notin tx[c].off
    BY <2>1, <2>3
  <2>4. QED BY <2>2, <2>3
<1> HIDE DEF new, off
<1>4. \A r \in table' : r = new \/ \E s \in table : r = off(s)
  BY <1>1
<1>5. QED BY <1>1, <1>2, <1>3, <1>4 DEF new

(* A commit deactivates what it holds and shows its own row.               *)
LEMMA CommitInv ==
  ASSUME PolicyInv, NEW c \in Callers, Commit(c)
  PROVE  PolicyInv'
<1> DEFINE new == [since |-> tx[c].since, at |-> tx[c].at, done |-> stamp + 1, by |-> c, active |-> TRUE]
           Kept(r) == \E s \in table : /\ r \in Version
                                       /\ r.since = s.since /\ r.at = s.at /\ r.done = s.done /\ r.by = s.by
                                       /\ r.active => r = s /\ s.at \notin tx[c].off
<1>1. /\ new \in table' /\ new \in Version
      /\ \A r \in table' : r = new \/ Kept(r)
  BY CommitRows
<1>2. /\ stamp' = stamp + 1
      /\ tx' \in [Callers -> Writer]
      /\ \A d \in Callers \ {c} : tx'[d] = tx[d]
      /\ tx'[c].pc \in {"idle", "audit"}
      /\ tx'[c].since <= stamp /\ tx'[c].at <= stamp
  BY CommitMoves
<1>3. /\ new.since = tx[c].since /\ new.at = tx[c].at /\ new.done = stamp + 1
      /\ new.by = c /\ new.active
  OBVIOUS
<1>4. /\ tx[c].pc = "insert" /\ tx[c] \in Writer /\ stamp \in Nat
      /\ tx[c].since <= stamp /\ tx[c].at <= stamp
  BY DEF Commit, PolicyInv, PolicyTypes, DatesArePast
<1>5. \A s \in table : s \in Version /\ s.at <= stamp /\ s.done <= stamp
  BY DEF PolicyInv, PolicyTypes, DatesArePast
<1> HIDE DEF new
<1>6. PolicyTypes'
  BY <1>1, <1>2, <1>4 DEF PolicyTypes
<1>7. DatesArePast'
  <2>1. \A d \in Callers : tx'[d].since <= stamp + 1 /\ tx'[d].at <= stamp + 1
    BY <1>2, <1>4 DEF PolicyInv, PolicyTypes, DatesArePast, Writer
  <2>2. \A r \in table' : r.at <= stamp + 1 /\ r.done <= stamp + 1
    BY <1>1, <1>3, <1>4, <1>5 DEF Writer, Version
  <2>3. QED BY <1>2, <2>1, <2>2 DEF DatesArePast
<1>8. PolicyNeverLost'
  BY <1>1, <1>3 DEF PolicyNeverLost, Active
<1>9. TwoActiveOverlapped'
  <2>1. ASSUME NEW r \in table', r.active, Kept(r) PROVE Overlap(r, new) /\ Overlap(new, r)
    <3>1. PICK s \in table : r = s /\ s.at \notin tx[c].off /\ s \in Active
      BY <2>1 DEF Active
    <3>2. ~(s.done <= tx[c].at)
      BY <3>1, <1>4 DEF PolicyInv, SnapshotsKnowOlder
    <3>3. QED BY <3>1, <3>2, <1>3, <1>4, <1>5 DEF Overlap, Version, Writer
  <2>2. ASSUME NEW r \in table', NEW s \in table', r.active, s.active, r # s, Kept(r), Kept(s)
        PROVE  Overlap(r, s)
    BY <2>2 DEF PolicyInv, TwoActiveOverlapped, Active
  <2>3. QED BY <1>1, <2>1, <2>2 DEF TwoActiveOverlapped, Active, Overlap
<1>10. SnapshotsKnowOlder'
  <2>1. ASSUME NEW d \in Callers, NEW r \in table', r.active, d # c
        PROVE  /\ tx[d].pc = "update" /\ r.done <= tx[d].at => r.at \in tx[d].seen
               /\ tx[d].pc = "insert" /\ r.done <= tx[d].at => r.at \in tx[d].off
    <3>1. CASE r = new
      BY <3>1, <1>3, <1>4 DEF PolicyInv, PolicyTypes, DatesArePast, Writer
    <3>2. CASE Kept(r)
      BY <2>1, <3>2 DEF PolicyInv, SnapshotsKnowOlder, Active
    <3>3. QED BY <1>1, <3>1, <3>2
  <2>2. QED BY <1>2, <2>1 DEF SnapshotsKnowOlder, Active
<1>11. LooksWereEmpty'
  <2>1. ASSUME NEW e \in Engines, NEW s \in table', (tx[e].pc = "looked" \/ InTx(e)), e # c
        PROVE  s.done > tx[e].since
    <3>1. e \in Callers
      BY DEF Callers
    <3>2. CASE s = new
      BY <3>1, <3>2, <1>3, <1>4 DEF PolicyInv, PolicyTypes, DatesArePast, Writer
    <3>3. CASE Kept(s)
      BY <2>1, <3>3 DEF PolicyInv, LooksWereEmpty
    <3>4. QED BY <1>1, <3>2, <3>3
  <2>2. ASSUME NEW r \in table', NEW s \in table', r.by \in Engines
        PROVE  s.done > r.since
    <3>1. CASE s = new
      <4>1. r.since <= stamp /\ r.since \in Nat
        BY <2>2, <1>1, <1>3, <1>4, <1>5 DEF PolicyInv, LooksWereEmpty, Version, Writer
      <4>2. QED BY <3>1, <4>1, <1>3, <1>4
    <3>2. CASE Kept(s) /\ r = new
      BY <2>2, <3>2, <1>3, <1>4 DEF PolicyInv, LooksWereEmpty, InTx
    <3>3. CASE Kept(s) /\ Kept(r)
      BY <2>2, <3>3 DEF PolicyInv, LooksWereEmpty
    <3>4. QED BY <1>1, <3>1, <3>2, <3>3
  <2>3. QED BY <1>2, <2>1, <2>2 DEF LooksWereEmpty, InTx, Callers
<1>12. QED BY <1>6, <1>7, <1>8, <1>9, <1>10, <1>11 DEF PolicyInv

(* Every step of the policies table keeps the invariant.                   *)
LEMMA PolicyStepInv == PolicyInv /\ [PolicyNext]_pvars => PolicyInv'
<1> SUFFICES ASSUME PolicyInv, [PolicyNext]_pvars PROVE PolicyInv'
  OBVIOUS
<1>1. ASSUME NEW e \in Engines, Look(e) PROVE PolicyInv'
  BY <1>1, LookInv
<1>2. ASSUME NEW c \in Callers, Begin(c) PROVE PolicyInv'
  BY <1>2, BeginInv
<1>3. ASSUME NEW c \in Callers, Snapshot(c) PROVE PolicyInv'
  BY <1>3, SnapshotInv
<1>4. ASSUME NEW c \in Callers, Update(c) PROVE PolicyInv'
  BY <1>4, UpdateInv
<1>5. ASSUME NEW c \in Callers, Commit(c) PROVE PolicyInv'
  BY <1>5, CommitInv
<1>6. ASSUME NEW c \in Callers, Rollback(c) \/ AppendAudit(c) PROVE PolicyInv'
  BY <1>6, RollbackInv
<1>7. CASE UNCHANGED pvars
  BY <1>7 DEF pvars, PolicyInv, PolicyTypes, DatesArePast, PolicyNeverLost, TwoActiveOverlapped,
              SnapshotsKnowOlder, LooksWereEmpty, Active, InTx
<1>8. QED BY <1>1, <1>2, <1>3, <1>4, <1>5, <1>6, <1>7 DEF PolicyNext

(* Nobody who reads the table after the first policy was installed finds   *)
(* none in force, whatever transactions overlap or fail (policies.rs).     *)
THEOREM PolicySurvives == PolicySpec => []PolicyNeverLost
<1>1. PolicyInv => PolicyNeverLost
  BY DEF PolicyInv
<1>2. QED BY <1>1, PolicyInitInv, PolicyStepInv, PTL DEF PolicySpec

(* Two policies are in force together only if their transactions           *)
(* overlapped (policies.rs, UPDATE then INSERT in one transaction).        *)
THEOREM OnlyOverlapsStayActive == PolicySpec => []TwoActiveOverlapped
<1>1. PolicyInv => TwoActiveOverlapped
  BY DEF PolicyInv
<1>2. QED BY <1>1, PolicyInitInv, PolicyStepInv, PTL DEF PolicySpec

(* A bootstrap never takes over from a policy its engine could have seen   *)
(* (main.rs).                                                              *)
THEOREM BootstrapsFill == PolicySpec => []BootstrapOnlyFills
<1>1. PolicyInv => BootstrapOnlyFills
  BY DEF PolicyInv, LooksWereEmpty, BootstrapOnlyFills
<1>2. QED BY <1>1, PolicyInitInv, PolicyStepInv, PTL DEF PolicySpec

-----------------------------------------------------------------------------
(* A superseded policy never returns.  The age of a policy is the start of *)
(* its transaction: no two have the same.                                  *)
AgesDiffer ==
  /\ \A r, s \in table : r.at = s.at => r = s
  /\ \A c \in Callers : InTx(c) =>
       /\ \A r \in table : r.at # tx[c].at
       /\ \A d \in Callers : InTx(d) /\ tx[d].at = tx[c].at => d = c
       /\ tx[c].at \notin past

(* A transaction that knows an active policy knows all that were there     *)
(* before it, so what it deactivates has no active predecessor left.       *)
KnownArePrefixes ==
  \A c \in Callers, r, s \in Active : s.done <= r.done =>
    /\ tx[c].pc = "update" /\ r.at \in tx[c].seen => s.at \in tx[c].seen
    /\ tx[c].pc = "insert" /\ r.at \in tx[c].off => s.at \in tx[c].off

(* Transactions know policies of the table only.                           *)
KnownExist ==
  /\ \A c \in Callers, a \in Nat :
       (tx[c].pc = "update" /\ a \in tx[c].seen) \/ (tx[c].pc = "insert" /\ a \in tx[c].off) =>
          \E r \in table : r.at = a
  /\ \A a \in past : \E r \in table : r.at = a

(* A superseded policy that overlapping transactions left active has a     *)
(* younger one that was also committed later.                              *)
PastIsOver ==
  \A q \in Active : q.at \in past => \E r \in Active : r.at > q.at /\ r.done > q.done

ReturnInv == PolicyInv /\ AgesDiffer /\ KnownArePrefixes /\ KnownExist /\ PastIsOver

(* A nonempty set of numbers with a bound has a greatest one.              *)
LEMMA Greatest ==
  ASSUME NEW T \in SUBSET Nat, NEW bound \in Nat, T # {}, \A t \in T : t <= bound
  PROVE  \E x \in T : \A y \in T : x >= y
<1> DEFINE U == {bound - t : t \in T}
<1>1. U \in SUBSET Nat /\ U # {}
  <2>1. \A t \in T : bound - t \in Nat
    OBVIOUS
  <2>2. PICK t \in T : TRUE
    OBVIOUS
  <2>3. U # {}
    BY <2>2
  <2>4. QED BY <2>1, <2>3
<1> HIDE DEF U
<1>2. PICK u \in U : \A v \in U : ~ (<<v, u>> \in OpToRel(<, Nat))
  BY <1>1, NatLessThanWellFounded, WFMin
<1>3. \A v \in U : ~(v < u)
  BY <1>1, <1>2 DEF OpToRel
<1>4. PICK x \in T : u = bound - x
  BY DEF U
<1>5. \A y \in T : ~(bound - y < u)
  BY <1>3 DEF U
<1>6. QED BY <1>4, <1>5

(* The ruleset in force is the youngest active policy.                     *)
LEMMA LatestIsYoungest ==
  ASSUME PolicyTypes, DatesArePast, Active # {}
  PROVE  get_active = {Latest(Active)} /\ Latest(Active) \in Active
         /\ \A r \in Active : Latest(Active).at >= r.at
<1> DEFINE ages == {r.at : r \in Active}
<1>1. ages \in SUBSET Nat /\ ages # {} /\ \A t \in ages : t <= stamp
  BY DEF PolicyTypes, DatesArePast, Version, Active
<1>2. PICK x \in ages : \A y \in ages : x >= y
  BY <1>1, Greatest DEF PolicyTypes
<1>3. \E r \in Active : \A s \in Active : r.at >= s.at
  BY <1>2
<1>4. QED BY <1>3 DEF Latest, get_active

(* So nothing in force is of the past.                                     *)
LEMMA NothingReturned ==
  ASSUME ReturnInv
  PROVE  NoPolicyReturns
<1>1. CASE Active = {}
  BY <1>1 DEF NoPolicyReturns, get_active
<1>2. CASE Active # {}
  <2>1. /\ get_active = {Latest(Active)} /\ Latest(Active) \in Active
        /\ \A r \in Active : Latest(Active).at >= r.at
    BY <1>2, LatestIsYoungest DEF ReturnInv, PolicyInv
  <2>2. \A r \in Active : r.at \in Nat
    BY DEF ReturnInv, PolicyInv, PolicyTypes, Version, Active
  <2>3. Latest(Active).at \notin past
    BY <2>1, <2>2 DEF ReturnInv, PastIsOver
  <2>4. QED BY <2>1, <2>3 DEF NoPolicyReturns
<1>3. QED BY <1>1, <1>2

(* A commit that turns the policy in force into a past one leaves a        *)
(* younger one, committed later, or no such policy active.                 *)
LEMMA CommitReturn ==
  ASSUME ReturnInv, NEW c \in Callers, Commit(c)
  PROVE  ReturnInv'
<1> DEFINE new == [since |-> tx[c].since, at |-> tx[c].at, done |-> stamp + 1, by |-> c, active |-> TRUE]
<1>1. PolicyInv /\ PolicyInv'
  BY CommitInv DEF ReturnInv
<1>2. /\ new \in table' /\ new \in Version
      /\ new.at = tx[c].at /\ new.done = stamp + 1 /\ new.active
  BY <1>1, CommitRows
<1>3. \A r \in table' : r = new \/
        \E s \in table : r.at = s.at /\ r.done = s.done /\ (r.active => r = s /\ s.at \notin tx[c].off)
  BY <1>1, CommitRows
<1>4. ASSUME NEW s \in table
      PROVE  (\E r \in table' : r.at = s.at) /\ (s.active /\ s.at \notin tx[c].off => s \in table')
  <2> DEFINE off == [s EXCEPT !.active = FALSE]
  <2>1. s \in Version
    BY <1>1 DEF PolicyInv, PolicyTypes
  <2>2. CASE s.at \in tx[c].off
    <3>1. off \in table'
      BY <2>2 DEF Commit
    <3>2. off.at = s.at
      BY <2>1 DEF Version
    <3> HIDE DEF off
    <3>3. QED BY <2>2, <3>1, <3>2
  <2>3. CASE s.at \notin tx[c].off
    BY <2>3 DEF Commit
  <2>4. QED BY <2>2, <2>3
<1>5. \A a \in Nat : (\E r \in table : r.at = a) => a # tx[c].at
  BY DEF ReturnInv, AgesDiffer, InTx, Commit
<1>6. \A r, s \in table' : r.at = s.at => r = s
  <2> DEFINE off(r) == IF r.at \in tx[c].off THEN [r EXCEPT !.active = FALSE] ELSE r
  <2>1. table' = {off(r) : r \in table} \cup {new}
    BY DEF Commit
  <2>2. \A r \in table : off(r).at = r.at
    BY <1>1 DEF PolicyInv, PolicyTypes, Version
  <2> HIDE DEF off, new
  <2>3. \A r \in table : off(r).at # new.at
    BY <1>2, <2>2 DEF ReturnInv, AgesDiffer, InTx, Commit
  <2>4. \A r, s \in table : off(r).at = off(s).at => off(r) = off(s)
    BY <2>2 DEF ReturnInv, AgesDiffer
  <2>5. QED BY <2>1, <2>3, <2>4
<1> HIDE DEF new
<1>7. /\ stamp' = stamp + 1 /\ \A d \in Callers \ {c} : tx'[d] = tx[d]
      /\ tx'[c].pc \in {"idle", "audit"} /\ tx[c].pc = "insert" /\ stamp \in Nat
  BY <1>1, CommitMoves DEF Commit, PolicyInv, PolicyTypes
<1>8. /\ \A a \in past' : a \in past \/ a \in {r.at : r \in get_active}
      /\ \A r \in get_active : r \in Active
  <2>1. Active # {} => Latest(Active) \in Active
    BY <1>1, LatestIsYoungest DEF PolicyInv
  <2>2. QED BY <2>1 DEF Commit, get_active
<1>9. AgesDiffer'
  <2>1. ASSUME NEW d \in Callers, InTx(d)'
        PROVE  /\ d # c /\ InTx(d) /\ tx'[d] = tx[d] /\ tx[d].at # new.at
               /\ \A s \in table : s.at # tx[d].at
               /\ \A e \in Callers : InTx(e)' /\ tx'[e].at = tx[d].at => e = d
               /\ tx[d].at \notin past
    <3>1. d # c /\ tx'[d] = tx[d] /\ InTx(d) /\ InTx(c)
      BY <1>7, <2>1 DEF InTx
    <3>2. tx[d].at # tx[c].at /\ (\A s \in table : s.at # tx[d].at) /\ tx[d].at \notin past
      BY <3>1 DEF ReturnInv, AgesDiffer
    <3>3. \A e \in Callers : InTx(e)' /\ tx'[e].at = tx[d].at => e = d
      BY <1>7, <3>1 DEF ReturnInv, AgesDiffer, InTx
    <3>4. QED BY <1>2, <3>1, <3>2, <3>3
  <2>2. ASSUME NEW d \in Callers, InTx(d)', NEW r \in table' PROVE r.at # tx'[d].at
    BY <1>2, <1>3, <2>1, <2>2
  <2>3. ASSUME NEW d \in Callers, InTx(d)' PROVE tx'[d].at \notin past'
    BY <1>8, <2>1, <2>3 DEF Active
  <2>4. \A d \in Callers : InTx(d)' =>
          \A e \in Callers : InTx(e)' /\ tx'[e].at = tx'[d].at => e = d
    BY <2>1
  <2>5. QED BY <1>6, <2>2, <2>3, <2>4 DEF AgesDiffer, InTx
<1>10. \A r \in Active' : r = new \/ (r \in Active /\ r.at \notin tx[c].off)
  BY <1>3 DEF Active
<1>11. \A r \in Active : r.at \notin tx[c].off => r \in Active'
  BY <1>4 DEF Active
<1>12. \A r \in Active : r.done <= stamp /\ r.at \in Nat /\ r.done \in Nat
  BY <1>1 DEF PolicyInv, PolicyTypes, DatesArePast, Version, Active
<1>13. ASSUME NEW d \in Callers, d # c
       PROVE  /\ tx[d].pc = "update" => new.at \notin tx[d].seen
              /\ tx[d].pc = "insert" => new.at \notin tx[d].off
  BY <1>1, <1>2, <1>5 DEF ReturnInv, KnownExist, PolicyInv, PolicyTypes, Writer
<1>14. KnownArePrefixes'
  <2>1. ASSUME NEW d \in Callers, NEW r \in Active', NEW s \in Active', s.done <= r.done
        PROVE  /\ tx'[d].pc = "update" /\ r.at \in tx'[d].seen => s.at \in tx'[d].seen
               /\ tx'[d].pc = "insert" /\ r.at \in tx'[d].off => s.at \in tx'[d].off
    <3>1. CASE d = c
      BY <1>7, <3>1
    <3>2. CASE d # c /\ r = new
      BY <1>7, <1>13, <3>2
    <3>3. CASE d # c /\ r # new
      <4>1. r \in Active /\ r.done <= stamp
        BY <1>10, <1>12, <3>3
      <4>2. s \in Active
        BY <1>2, <1>7, <1>10, <1>12, <2>1, <4>1
      <4>3. QED BY <1>7, <2>1, <3>3, <4>1, <4>2 DEF ReturnInv, KnownArePrefixes
    <3>4. QED BY <3>1, <3>2, <3>3
  <2>2. QED BY <2>1 DEF KnownArePrefixes
<1>15. KnownExist'
  <2>1. \A a \in Nat : (\E r \in table : r.at = a) => \E r \in table' : r.at = a
    BY <1>4
  <2>2. \A a \in past' : \E r \in table' : r.at = a
    BY <1>4, <1>8 DEF ReturnInv, KnownExist, Active
  <2>3. ASSUME NEW d \in Callers, NEW a \in Nat,
               (tx'[d].pc = "update" /\ a \in tx'[d].seen) \/ (tx'[d].pc = "insert" /\ a \in tx'[d].off)
        PROVE  \E r \in table' : r.at = a
    BY <1>7, <2>1, <2>3 DEF ReturnInv, KnownExist
  <2>4. QED BY <2>2, <2>3 DEF KnownExist
<1>16. PastIsOver'
  <2>1. ASSUME NEW q \in Active', q.at \in past' PROVE \E r \in Active' : r.at > q.at /\ r.done > q.done
    <3>1. q # new
      <4>1. new.at \notin past
        BY <1>2, <1>7 DEF ReturnInv, AgesDiffer, InTx
      <4>2. \A r \in Active : r.at # new.at
        BY <1>2, <1>7 DEF ReturnInv, AgesDiffer, InTx, Active
      <4>3. QED BY <1>8, <2>1, <4>1, <4>2
    <3>2. q \in Active /\ q.at \notin tx[c].off
      BY <1>10, <3>1
    <3>3. CASE q.at \in past
      <4>1. PICK r \in Active : r.at > q.at /\ r.done > q.done
        BY <3>2, <3>3 DEF ReturnInv, PastIsOver
      <4>2. r.at \notin tx[c].off
        BY <1>7, <1>12, <3>2, <4>1 DEF ReturnInv, KnownArePrefixes
      <4>3. QED BY <1>11, <4>1, <4>2
    <3>4. CASE q.at \notin past
      <4>1. q.at \notin {r.at : r \in get_active'} /\ q.at \in {r.at : r \in get_active}
        BY <2>1, <3>4 DEF Commit
      <4>2. \A r \in Active : q.at >= r.at
        BY <1>1, <4>1, LatestIsYoungest DEF PolicyInv, get_active
      <4>3. /\ get_active' = {Latest(Active')} /\ Latest(Active') \in Active'
            /\ \A r \in Active' : Latest(Active').at >= r.at
        <5>1. (Active # {})' /\ (PolicyTypes /\ DatesArePast)'
          BY <1>1 DEF PolicyInv
        <5>2. (Active # {} /\ PolicyTypes /\ DatesArePast
                 => /\ get_active = {Latest(Active)} /\ Latest(Active) \in Active
                    /\ \A r \in Active : Latest(Active).at >= r.at)'
          BY LatestIsYoungest, PTL
        <5>3. QED BY <5>1, <5>2 DEF Latest
      <4>4. PICK z \in Active' : z.at # q.at /\ z.at >= q.at
        BY <4>1, <4>3
      <4>5. z = new
        BY <1>10, <1>12, <3>2, <4>2, <4>4
      <4>6. QED BY <1>2, <1>7, <1>12, <1>1, <3>2, <4>4, <4>5 DEF PolicyInv, PolicyTypes, Writer
    <3>5. QED BY <3>3, <3>4
  <2>2. QED BY <2>1 DEF PastIsOver
<1>17. QED BY <1>1, <1>9, <1>14, <1>15, <1>16 DEF ReturnInv

(* The other steps change no row and supersede nothing.                    *)
LEMMA TurnReturn ==
  ASSUME ReturnInv, PolicyInv', NEW c \in Callers,
         UNCHANGED <<table, past>>, \A d \in Callers \ {c} : tx'[d] = tx[d],
         InTx(c)' => /\ \A r \in table : r.at # tx'[c].at
                     /\ \A d \in Callers : InTx(d) /\ tx[d].at = tx'[c].at => d = c
                     /\ tx'[c].at \notin past,
         tx'[c].pc = "update" => tx'[c].seen = {r.at : r \in Active},
         tx'[c].pc = "insert" =>
           /\ tx[c].pc = "update"
           /\ tx'[c].off = {r.at : r \in {q \in Active : q.at \in tx[c].seen}}
  PROVE  ReturnInv'
<1>1. AgesDiffer'
  BY DEF ReturnInv, AgesDiffer, InTx
<1>2. Active' = Active
  BY DEF Active
<1>3. KnownArePrefixes'
  <2>1. ASSUME NEW d \in Callers, NEW r \in Active, NEW s \in Active, s.done <= r.done
        PROVE  /\ tx'[d].pc = "update" /\ r.at \in tx'[d].seen => s.at \in tx'[d].seen
               /\ tx'[d].pc = "insert" /\ r.at \in tx'[d].off => s.at \in tx'[d].off
    <3>1. CASE d # c
      BY <2>1, <3>1 DEF ReturnInv, KnownArePrefixes
    <3>2. CASE d = c /\ tx'[c].pc = "update"
      BY <3>2
    <3>3. CASE d = c /\ tx'[c].pc = "insert"
      <4>1. ASSUME r.at \in tx'[c].off PROVE s.at \in tx'[c].off
        <5>1. PICK q \in Active : q.at = r.at /\ q.at \in tx[c].seen
          BY <3>3, <4>1
        <5>2. s.at \in tx[c].seen
          BY <2>1, <3>3, <5>1 DEF ReturnInv, KnownArePrefixes
        <5>3. QED BY <3>3, <5>2
      <4>2. QED BY <3>3, <4>1
    <3>4. QED BY <3>1, <3>2, <3>3
  <2>2. QED BY <1>2, <2>1 DEF KnownArePrefixes
<1>4. KnownExist'
  BY DEF ReturnInv, KnownExist, Active
<1>5. PastIsOver'
  BY <1>2 DEF ReturnInv, PastIsOver
<1>6. QED BY <1>1, <1>3, <1>4, <1>5 DEF ReturnInv

(* Every step keeps the invariant.                                         *)
LEMMA ReturnStepInv ==
  ASSUME ReturnInv, [PolicyNext]_pvars
  PROVE  ReturnInv'
<1>1. PolicyInv /\ PolicyInv'
  BY PolicyStepInv DEF ReturnInv
<1>2. tx \in [Callers -> Writer]
  BY <1>1 DEF PolicyInv, PolicyTypes
<1>3. ASSUME NEW e \in Engines, Look(e) PROVE ReturnInv'
  <2>1. /\ e \in Callers /\ UNCHANGED <<table, past>> /\ \A d \in Callers \ {e} : tx'[d] = tx[d]
        /\ tx'[e].pc = "looked"
    BY <1>2, <1>3 DEF Look, Looked, Turn, Callers
  <2>2. QED BY <1>1, <2>1, TurnReturn DEF InTx
<1>4. ASSUME NEW c \in Callers, Rollback(c) \/ AppendAudit(c) PROVE ReturnInv'
  <2>1. /\ UNCHANGED <<table, past>> /\ \A d \in Callers \ {c} : tx'[d] = tx[d]
        /\ tx'[c].pc = "idle"
    BY <1>2, <1>4 DEF Rollback, AppendAudit, Idle, Turn
  <2>2. QED BY <1>1, <2>1, TurnReturn DEF InTx
<1>5. ASSUME NEW c \in Callers, Begin(c) PROVE ReturnInv'
  <2>1. /\ UNCHANGED <<table, past>> /\ \A d \in Callers \ {c} : tx'[d] = tx[d]
        /\ tx'[c].pc = "begun" /\ tx'[c].at = stamp + 1 /\ tx[c].pc \in {"idle", "looked"}
    BY <1>2, <1>5 DEF Begin, Turn, Writer
  <2>2. /\ \A r \in table : r.at \in Nat /\ r.at <= stamp
        /\ \A d \in Callers : tx[d].at \in Nat /\ tx[d].at <= stamp
        /\ stamp \in Nat
    BY <1>1 DEF PolicyInv, PolicyTypes, DatesArePast, Version, Writer
  <2>3. \A a \in past : a # stamp + 1
    BY <2>2 DEF ReturnInv, KnownExist
  <2>4. QED BY <1>1, <2>1, <2>2, <2>3, TurnReturn
<1>6. ASSUME NEW c \in Callers, Snapshot(c) PROVE ReturnInv'
  <2>1. /\ UNCHANGED <<table, past>> /\ \A d \in Callers \ {c} : tx'[d] = tx[d]
        /\ tx'[c].pc = "update" /\ tx'[c].at = tx[c].at /\ tx[c].pc = "begun"
        /\ tx'[c].seen = {r.at : r \in Active}
    BY <1>2, <1>6 DEF Snapshot, Turn, Writer
  <2>2. QED BY <1>1, <2>1, TurnReturn DEF ReturnInv, AgesDiffer, InTx
<1>7. ASSUME NEW c \in Callers, Update(c) PROVE ReturnInv'
  <2>1. /\ UNCHANGED <<table, past>> /\ \A d \in Callers \ {c} : tx'[d] = tx[d]
        /\ tx'[c].pc = "insert" /\ tx'[c].at = tx[c].at /\ tx[c].pc = "update"
        /\ tx'[c].off = {r.at : r \in {q \in Active : q.at \in tx[c].seen}}
    BY <1>2, <1>7 DEF Update, Turn, Writer
  <2>2. QED BY <1>1, <2>1, TurnReturn DEF ReturnInv, AgesDiffer, InTx
<1>8. ASSUME NEW c \in Callers, Commit(c) PROVE ReturnInv'
  BY <1>8, CommitReturn
<1>9. CASE UNCHANGED pvars
  BY <1>1, <1>9 DEF pvars, ReturnInv, AgesDiffer, KnownArePrefixes, KnownExist, PastIsOver, Active, InTx
<1>10. QED BY <1>3, <1>4, <1>5, <1>6, <1>7, <1>8, <1>9 DEF PolicyNext

(* A policy that was superseded is never in force again, whatever the      *)
(* overlapping transactions left active (policies.rs: the row begun last   *)
(* is the one a resolution reads).                                         *)
THEOREM SupersededIsOver == PolicySpec => []NoPolicyReturns
<1>1. PolicyInit => ReturnInv
  BY PolicyInitInv DEF PolicyInit, ReturnInv, AgesDiffer, KnownArePrefixes, KnownExist, PastIsOver,
                       Active, InTx, Idle
<1>2. ReturnInv /\ [PolicyNext]_pvars => ReturnInv'
  BY ReturnStepInv
<1>3. ReturnInv => NoPolicyReturns
  BY NothingReturned
<1>4. QED BY <1>1, <1>2, <1>3, PTL DEF PolicySpec

-----------------------------------------------------------------------------
(* The watchlist.  Its rows are rows, and each carries no check but its own.*)
RowsAreOwn == row \in [Names -> Row \cup {NoRow}] /\ edits \in Nat /\ ChecksAreOwn

(* The steps of operators: each writes one row, whole or in part, under the *)
(* bound on edits, and is counted.                                          *)
LEMMA EditOwn ==
  ASSUME RowsAreOwn, NEW n \in Names, NEW kind \in Whats,
         add_watchlist(n, kind) \/ update_watchlist(n) \/ delete_watchlist(n)
  PROVE  RowsAreOwn' /\ edits' = edits + 1
<1>1. edits \in Nat /\ edits < MaxEdits /\ edits' = edits + 1 /\ MaxEdits \in Nat
  BY BoundsAssumption DEF RowsAreOwn, add_watchlist, update_watchlist, delete_watchlist, Insert, Amend,
                          set_enabled, set_interval, remove, Edit
<1>2. PICK new \in Row \cup {NoRow} :
        /\ row' = [row EXCEPT ![n] = new]
        /\ new # NoRow => new.checked \in {0, new.id}
  <2>1. CASE Insert(n, kind, TRUE)
    <3> DEFINE new == [id |-> edits + 1, what |-> kind, enabled |-> TRUE, due |-> TRUE, checked |-> 0]
    <3>1. new \in Row /\ new.checked = 0
      BY <1>1 DEF Row
    <3>2. row' = [row EXCEPT ![n] = new]
      BY <2>1 DEF Insert
    <3> HIDE DEF new
    <3>3. QED BY <3>1, <3>2
  <2>2. ASSUME n \in Present, NEW what \in Whats, NEW enabled \in BOOLEAN, NEW late \in BOOLEAN,
               row' = [row EXCEPT ![n] = [row[n] EXCEPT !.what = what, !.enabled = enabled, !.due = late]]
        PROVE  \E new \in Row \cup {NoRow} :
                 /\ row' = [row EXCEPT ![n] = new]
                 /\ new # NoRow => new.checked \in {0, new.id}
    <3> DEFINE new == [row[n] EXCEPT !.what = what, !.enabled = enabled, !.due = late]
    <3>1. row[n] \in Row /\ row[n].checked \in {0, row[n].id}
      BY <2>2 DEF RowsAreOwn, ChecksAreOwn, Present
    <3>2. new \in Row /\ new.checked \in {0, new.id}
      BY <3>1 DEF Row
    <3>3. row' = [row EXCEPT ![n] = new]
      BY <2>2
    <3> HIDE DEF new
    <3>4. QED BY <3>2, <3>3
  <2>3. CASE n \in Present /\ \E d \in DueAfter(n) : Amend(n, kind, TRUE, d)
    BY <2>2, <2>3 DEF Amend, DueAfter
  <2>4. CASE set_enabled(n)
    <3>1. n \in Present /\ row[n] \in Row
      BY <2>4 DEF set_enabled, RowsAreOwn, Present
    <3>2. PICK on \in BOOLEAN : row' = [row EXCEPT ![n] = [row[n] EXCEPT !.enabled = on]]
      BY <2>4 DEF set_enabled
    <3>3. [row[n] EXCEPT !.what = row[n].what, !.enabled = on, !.due = row[n].due]
            = [row[n] EXCEPT !.enabled = on]
      BY <3>1 DEF Row
    <3>4. row[n].what \in Whats /\ row[n].due \in BOOLEAN
      BY <3>1 DEF Row
    <3>5. QED BY <2>2, <3>1, <3>2, <3>3, <3>4
  <2>5. CASE set_interval(n)
    <3>1. n \in Present /\ row[n] \in Row
      BY <2>5 DEF set_interval, RowsAreOwn, Present
    <3>2. PICK late \in BOOLEAN : row' = [row EXCEPT ![n] = [row[n] EXCEPT !.due = late]]
      BY <2>5 DEF set_interval, DueAfter
    <3>3. [row[n] EXCEPT !.what = row[n].what, !.enabled = row[n].enabled, !.due = late]
            = [row[n] EXCEPT !.due = late]
      BY <3>1 DEF Row
    <3>4. row[n].what \in Whats /\ row[n].enabled \in BOOLEAN
      BY <3>1 DEF Row
    <3>5. QED BY <2>2, <3>1, <3>2, <3>3, <3>4
  <2>6. CASE remove(n)
    BY <2>6 DEF remove, Deleted
  <2>7. QED BY <2>1, <2>3, <2>4, <2>5, <2>6 DEF add_watchlist, update_watchlist, delete_watchlist
<1>3. QED BY <1>1, <1>2 DEF RowsAreOwn, ChecksAreOwn, Present

(* What a step that no operator takes does to the table.                   *)
Stands ==
  /\ Present' = Present
  /\ \A n \in Present : /\ row'[n].id = row[n].id
                        /\ row'[n].what = row[n].what
                        /\ row'[n].enabled = row[n].enabled

(* The steps of the tracker and of time: at most one row, which stays what *)
(* it is but for its check and its due time.                               *)
LEMMA WorkOwn ==
  ASSUME RowsAreOwn,
         run_pass \/ track_one \/ mark_checked \/ Stop \/ \E n \in Names : Elapse(n)
  PROVE  RowsAreOwn' /\ Stands
<1>1. edits' = edits
  BY DEF run_pass, Select, track_one, mark_checked, Stop, Aborted, Elapse
<1>2. CASE UNCHANGED row
  BY <1>1, <1>2 DEF RowsAreOwn, Stands, ChecksAreOwn, Present
<1>3. ASSUME NEW n \in Present, NEW late \in BOOLEAN, NEW check \in {row[n].checked, row[n].id},
             row' = [row EXCEPT ![n] = [row[n] EXCEPT !.due = late, !.checked = check]]
      PROVE  RowsAreOwn' /\ Stands
  <2>1. n \in Names /\ row[n] \in Row /\ row[n].checked \in {0, row[n].id}
    BY DEF RowsAreOwn, ChecksAreOwn, Present
  <2> DEFINE new == [row[n] EXCEPT !.due = late, !.checked = check]
  <2>2. /\ new \in Row /\ new # NoRow /\ new.checked \in {0, new.id}
        /\ new.id = row[n].id /\ new.what = row[n].what /\ new.enabled = row[n].enabled
    <3>1. check \in 0..MaxEdits /\ check \in {0, row[n].id} /\ row[n].id # 0
      BY <2>1, BoundsAssumption DEF Row
    <3>2. new \in Row
      BY <2>1, <3>1 DEF Row
    <3>3. /\ new.id = row[n].id /\ new.what = row[n].what /\ new.enabled = row[n].enabled
          /\ new.checked = check
      BY <2>1 DEF Row
    <3> HIDE DEF new
    <3>4. new # NoRow
      BY <3>1, <3>3 DEF NoRow
    <3>5. QED BY <3>1, <3>2, <3>3, <3>4
  <2>3. row' = [row EXCEPT ![n] = new]
    BY <1>3
  <2> HIDE DEF new
  <2>4. QED BY <1>1, <2>1, <2>2, <2>3 DEF RowsAreOwn, Stands, ChecksAreOwn, Present
<1>4. ASSUME NEW n \in Names, Elapse(n) PROVE RowsAreOwn' /\ Stands
  <2>1. n \in Present /\ row[n] \in Row
    BY <1>4 DEF Elapse, RowsAreOwn, Present
  <2>2. row' = [row EXCEPT ![n] = [row[n] EXCEPT !.due = TRUE]]
    BY <1>4 DEF Elapse
  <2>3. [row[n] EXCEPT !.due = TRUE, !.checked = row[n].checked] = [row[n] EXCEPT !.due = TRUE]
    BY <2>1 DEF Row
  <2>4. QED BY <1>3, <2>1, <2>2, <2>3
<1>5. CASE mark_checked
  <2>1. CASE Current.name \in Present /\ row[Current.name].id = Current.id
    <3> DEFINE n == Current.name
    <3>1. n \in Present /\ row[n] \in Row
      BY <2>1 DEF RowsAreOwn, Present
    <3>2. row' = [row EXCEPT ![n] = [row[n] EXCEPT !.due = FALSE, !.checked = row[n].id]]
      BY <1>5, <2>1 DEF mark_checked, Recorded
    <3> HIDE DEF n
    <3>3. QED BY <1>3, <3>1, <3>2
  <2>2. CASE ~(Current.name \in Present /\ row[Current.name].id = Current.id)
    BY <1>2, <1>5, <2>2 DEF mark_checked, Recorded
  <2>3. QED BY <2>1, <2>2
<1>6. CASE run_pass \/ track_one \/ Stop
  BY <1>2, <1>6 DEF run_pass, Select, track_one, Stop, Aborted
<1>7. QED BY <1>4, <1>5, <1>6

-----------------------------------------------------------------------------
(* Every step of the watchlist keeps the invariant, and what is no edit     *)
(* lets the edits stand.                                                   *)
LEMMA WatchStepInv ==
  ASSUME RowsAreOwn, [Next]_vars
  PROVE  RowsAreOwn' /\ (edits' = edits => Stands)
<1>1. edits + 1 # edits
  BY DEF RowsAreOwn
<1>2. ASSUME NEW n \in Names, NEW kind \in Whats, add_watchlist(n, kind) PROVE RowsAreOwn' /\ edits' = edits + 1
  BY <1>2, EditOwn
<1>3. ASSUME NEW n \in Names, update_watchlist(n) \/ delete_watchlist(n) PROVE RowsAreOwn' /\ edits' = edits + 1
  BY <1>3, EditOwn, KindsAssumption
<1>4. ASSUME run_pass \/ track_one \/ mark_checked \/ Stop \/ \E n \in Names : Elapse(n)
      PROVE  RowsAreOwn' /\ Stands
  BY <1>4, WorkOwn
<1>5. CASE UNCHANGED vars
  BY <1>5 DEF vars, RowsAreOwn, ChecksAreOwn, Present, Stands
<1>6. CASE Next
  BY <1>1, <1>2, <1>3, <1>4, <1>6 DEF Next
<1>7. QED BY <1>5, <1>6

(* The table is empty at first.                                            *)
LEMMA WatchInitInv == Init => RowsAreOwn
BY DEF Init, ScheduleInit, RowsAreOwn, ChecksAreOwn, Present

(* However edits, checks and crashes interleave, a target carries no check *)
(* but its own (mark_checked).                                             *)
THEOREM NoBorrowedCheck == Spec => []ChecksAreOwn
<1>1. RowsAreOwn => ChecksAreOwn
  BY DEF RowsAreOwn
<1>2. RowsAreOwn /\ [Next]_vars => RowsAreOwn'
  BY WatchStepInv
<1>3. QED BY <1>1, <1>2, WatchInitInv, PTL DEF Spec

(* No step of the tracker undoes an edit, in any interleaving (run_pass,   *)
(* mark_checked).                                                          *)
THEOREM TrackerKeepsEdits == Spec => EditsStand
<1>1. RowsAreOwn /\ [Next]_vars => RowsAreOwn'
  BY WatchStepInv
<1>2. RowsAreOwn /\ [Next]_vars =>
        [edits' = edits =>
           /\ Present' = Present
           /\ \A n \in Present : /\ row'[n].id = row[n].id
                                 /\ row'[n].what = row[n].what
                                 /\ row'[n].enabled = row[n].enabled]_schedule
  BY WatchStepInv DEF Stands
<1>3. QED BY <1>1, <1>2, WatchInitInv, PTL DEF Spec, EditsStand

-----------------------------------------------------------------------------
(* Keys and tokens.  An engine answers by what it loaded: its keys are     *)
(* those of the document, and each answer was given with a key that the    *)
(* token could be verified with.                                           *)
Mode == {"oidc", "dev", "disabled"}

Verdict(t, key) ==
  IF t.key = key /\ t.intact THEN [ok |-> TRUE, token |-> t, role |-> role_for(t.roles)]
  ELSE [ok |-> FALSE, token |-> t]

TokenInv ==
  /\ jwks \in Seq(Entry) /\ loaded \in Seq(Entry)
  /\ auth # NoEngine =>
       /\ auth.mode = auth.asked
       /\ auth.mode = "oidc" => Usable(loaded) # {} /\ auth.keys = parse_jwks(loaded)
  /\ auth = NoEngine => answer = NoAnswer
  /\ Judged => \E t \in Token : \E key \in Candidates(t) : answer = Verdict(t, key)

(* The keys of a document: every key id of a usable entry, with the key of *)
(* the last one.                                                           *)
LEMMA ParsedKeys ==
  ASSUME NEW doc \in Seq(Entry)
  PROVE  /\ DOMAIN parse_jwks(doc) = {doc[i].kid : i \in Usable(doc)}
         /\ \A kid \in DOMAIN parse_jwks(doc) : \E i \in Usable(doc) :
              doc[i].kid = kid /\ parse_jwks(doc)[kid] = doc[i].key
<1>1. ASSUME NEW kid \in DOMAIN parse_jwks(doc)
      PROVE  \E i \in Usable(doc) : doc[i].kid = kid /\ parse_jwks(doc)[kid] = doc[i].key
  <2> DEFINE S == {i \in Usable(doc) : doc[i].kid = kid}
             Counts(i) == i \in Usable(doc) /\ doc[i].kid = kid
                        /\ \A j \in Usable(doc) : doc[j].kid = kid => j <= i
  <2>1. S \in SUBSET (0..Len(doc)) /\ Len(doc) \in Nat /\ S # {}
    BY <1>1 DEF parse_jwks, Usable
  <2>2. PICK m \in S : \A j \in S : j <= m
    BY <2>1, HasMaximum
  <2>3. Counts(m)
    BY <2>2
  <2>4. Counts(CHOOSE i \in Usable(doc) : doc[i].kid = kid
                                        /\ \A j \in Usable(doc) : doc[j].kid = kid => j <= i)
    BY <2>3
  <2>5. QED
    BY <1>1, <2>4 DEF parse_jwks
<1>2. QED
  BY <1>1 DEF parse_jwks

(* With keys loaded there is always one to try, and it is a usable one.    *)
LEMMA CandidatesAreLoaded ==
  ASSUME TokenInv, auth # NoEngine, auth.mode = "oidc", NEW t \in Token, NEW key \in Candidates(t)
  PROVE  \E i \in Usable(loaded) :
           /\ loaded[i].key = key
           /\ (\E j \in Usable(loaded) : loaded[j].kid = t.kid) => loaded[i].kid = t.kid
<1>1. auth.keys = parse_jwks(loaded) /\ loaded \in Seq(Entry)
  BY DEF TokenInv
<1>2. PICK kid \in DOMAIN auth.keys : key = auth.keys[kid] /\ (t.kid \in DOMAIN auth.keys => kid = t.kid)
  BY DEF Candidates
<1>3. DOMAIN auth.keys = {loaded[i].kid : i \in Usable(loaded)}
  BY <1>1, ParsedKeys
<1>4. PICK i \in Usable(loaded) : loaded[i].kid = kid /\ auth.keys[kid] = loaded[i].key
  <2>1. kid \in DOMAIN parse_jwks(loaded)
    BY <1>1, <1>2
  <2>2. \A k \in DOMAIN parse_jwks(loaded) : \E i \in Usable(loaded) :
          loaded[i].kid = k /\ parse_jwks(loaded)[k] = loaded[i].key
    BY <1>1, ParsedKeys
  <2>3. QED
    BY <1>1, <2>1, <2>2
<1>5. QED
  BY <1>2, <1>3, <1>4

(* Every step keeps the invariant.                                         *)
LEMMA TokenStepInv == TokenInv /\ [TokensNext]_tvars => TokenInv'
<1> SUFFICES ASSUME TokenInv, [TokensNext]_tvars PROVE TokenInv'
  OBVIOUS
<1>1. CASE (\E e \in Entry : Publish(e)) \/ Withdraw \/ UNCHANGED tvars
  <2>1. jwks' \in Seq(Entry)
    BY <1>1 DEF Publish, Withdraw, tvars, TokenInv
  <2>2. UNCHANGED <<auth, loaded, answer>>
    BY <1>1 DEF Publish, Withdraw, tvars
  <2>3. QED
    BY <2>1, <2>2 DEF TokenInv, Judged, Candidates
<1>2. CASE EngineStarts
  <2>1. PICK mode \in Mode : build(mode)
    BY <1>2 DEF EngineStarts, Mode
  <2>2. auth' = [mode |-> mode, keys |-> IF mode = "oidc" THEN parse_jwks(jwks) ELSE <<>>, asked |-> mode]
        /\ loaded' = IF mode = "oidc" THEN jwks ELSE <<>>
    BY <2>1 DEF build
  <2>3. mode = "oidc" => Usable(loaded') # {}
    BY <2>1, <2>2 DEF build
  <2>4. loaded' \in Seq(Entry)
    BY <2>2 DEF TokenInv
  <2>5. answer' = NoAnswer
    BY <1>2 DEF EngineStarts, TokenInv
  <2>6. QED
    BY <1>2, <2>2, <2>3, <2>4, <2>5 DEF EngineStarts, TokenInv, Judged
<1>3. CASE EngineStops
  BY <1>3 DEF EngineStops, TokenInv, Judged
<1>4. CASE Respond
  BY <1>4 DEF Respond, TokenInv, Judged
<1>5. ASSUME NEW t \in Token, NEW header \in {"viewer", "responder", "admin"}, from_request_parts(t, header)
      PROVE  TokenInv'
  <2>1. UNCHANGED <<jwks, auth, loaded>> /\ auth # NoEngine
    BY <1>5 DEF from_request_parts
  <2>2. auth.asked = "oidc" => \E key \in Candidates(t) : answer' = Verdict(t, key)
    BY <1>5, <2>1 DEF from_request_parts, verify_token, Verdict, TokenInv
  <2>3. QED
    BY <2>1, <2>2 DEF TokenInv, Judged, Candidates
<1>6. QED
  BY <1>1, <1>2, <1>3, <1>4, <1>5 DEF TokensNext

(* The invariant holds of every behaviour.                                 *)
LEMMA TokenInvariant == TokensInit /\ [][TokensNext]_tvars => []TokenInv
<1>1. TokensInit => TokenInv
  BY DEF TokensInit, TokenInv, Judged
<1>2. QED
  BY <1>1, TokenStepInv, PTL

(* For any documents, however keys are rotated, doubled or left without an *)
(* id: an engine asked for oidc admits nobody without an intact token that *)
(* a key it loaded signed (build, verify_token).                           *)
THEOREM OnlySigners == TokensInit /\ [][TokensNext]_tvars => []OnlySignersEnter
<1>1. TokenInv => OnlySignersEnter
  <2> SUFFICES ASSUME TokenInv, Judged, answer.ok
               PROVE  /\ "token" \in DOMAIN answer /\ answer.token.intact
                      /\ \E i \in Usable(loaded) : loaded[i].key = answer.token.key
    BY DEF OnlySignersEnter
  <2>1. PICK t \in Token : \E key \in Candidates(t) : answer = Verdict(t, key)
    BY DEF TokenInv
  <2>2. PICK key \in Candidates(t) : answer = Verdict(t, key)
    BY <2>1
  <2>3. t.key = key /\ t.intact /\ "token" \in DOMAIN answer /\ answer.token = t
    BY <2>2 DEF Verdict
  <2>4. auth # NoEngine /\ auth.mode = "oidc"
    BY DEF Judged, TokenInv
  <2>5. QED
    BY <2>3, <2>4, CandidatesAreLoaded
<1>2. QED
  BY <1>1, TokenInvariant, PTL

(* And a holder is not turned away by chance, whichever key the map yields *)
(* first; the most privileged role counts (verify_token, role_for).        *)
THEOREM Holders == TokensInit /\ [][TokensNext]_tvars => []HoldersEnter
<1>1. TokenInv => HoldersEnter
  <2> SUFFICES ASSUME TokenInv, Judged, "token" \in DOMAIN answer, answer.token.intact
               PROVE  LET t == answer.token
                          named == {i \in Usable(loaded) : loaded[i].kid = t.kid}
                          signers == {i \in Usable(loaded) : loaded[i].key = t.key}
                      IN  /\ named = signers /\ signers # {} => answer.ok
                          /\ Usable(loaded) = signers /\ signers # {} => answer.ok
                          /\ answer.ok /\ t.roles \cap admin_roles # {} => answer.role = "admin"
    BY DEF HoldersEnter
  <2>1. PICK t \in Token : \E key \in Candidates(t) : answer = Verdict(t, key)
    BY DEF TokenInv
  <2>2. PICK key \in Candidates(t) : answer = Verdict(t, key)
    BY <2>1
  <2>3. answer.token = t
    BY <2>2 DEF Verdict
  <2>4. auth # NoEngine /\ auth.mode = "oidc"
    BY DEF Judged, TokenInv
  <2>5. PICK i \in Usable(loaded) :
          /\ loaded[i].key = key
          /\ (\E j \in Usable(loaded) : loaded[j].kid = t.kid) => loaded[i].kid = t.kid
    BY <2>4, CandidatesAreLoaded
  <2>6. t.key = key => answer.ok
    BY <2>2, <2>3 DEF Verdict
  <2>7. answer.ok => answer.role = role_for(t.roles)
    BY <2>2 DEF Verdict
  <2>8. QED
    BY <2>3, <2>5, <2>6, <2>7 DEF role_for
<1>2. QED
  BY <1>1, TokenInvariant, PTL
=============================================================================
