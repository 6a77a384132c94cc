---------------------------- MODULE AuditProofs ----------------------------
(***************************************************************************)
(* The audit log and the exception workflow that writes to it, for any     *)
(* number of handlers, people, requests and rows: what holds of the hash   *)
(* chain although appends overlap and fail, the chain it implements where  *)
(* they do not overlap, separation of duties, and the agreement of the log *)
(* with the approvals table.                                               *)
(***************************************************************************)
EXTENDS Approvals, NaturalFacts, FiniteSetTheorems

\* A row in flight is its handler's, and holds what the handler read.
RowsInFlight ==
  \A w \in Writers : writer[w].pc = "commit" =>
    /\ writer[w].row \in DOMAIN log
    /\ log[writer[w].row].status = "running"
    /\ log[writer[w].row].by = w
    /\ log[writer[w].row].prev = writer[w].prev

\* What a handler read is committed, and later than what it read before.
ReadsAdvance ==
  \A w \in Writers : writer[w].pc \in {"insert", "commit"} =>
    /\ writer[w].prev = 0 \/ writer[w].prev \in Committed
    /\ \A i \in Committed : log[i].by = w => log[i].prev < writer[w].prev

\* Every row, committed or not, points back to a committed one.
PointsBack ==
  \A i \in DOMAIN log : log[i].prev < i /\ (log[i].prev = 0 \/ log[i].prev \in Committed)

ChainInv == AuditTypeOK /\ RowsInFlight /\ ReadsAdvance /\ PointsBack /\ ForksAreOverlaps

-----------------------------------------------------------------------------
(* The log is a list of rows, and committed rows are among them.           *)
LEMMA LogType ==
  ASSUME AuditTypeOK
  PROVE  /\ Len(log) \in Nat /\ DOMAIN log = 1..Len(log)
         /\ \A i \in DOMAIN log : log[i] \in LogRow
         /\ Committed \subseteq DOMAIN log
BY DEF AuditTypeOK, Committed

(* The hash an append reads is of the newest committed entry.              *)
LEMMA LastHashIsNewest ==
  ASSUME AuditTypeOK
  PROVE  /\ LastHash \in Nat
         /\ LastHash = 0 \/ LastHash \in Committed
         /\ \A i \in Committed : i <= LastHash
<1>1. CASE Committed = {}
  BY <1>1 DEF LastHash
<1>2. CASE Committed # {}
  <2>1. \E m \in Committed : \A i \in Committed : i <= m
    <3>1. Len(log) \in Nat /\ Committed \in SUBSET (0..Len(log))
      BY LogType
    <3>2. QED
      BY <1>2, <3>1, HasMaximum
  <2>2. LastHash \in Committed /\ \A i \in Committed : i <= LastHash
    BY <1>2, <2>1 DEF LastHash
  <2>3. QED
    BY <2>2, LogType
<1>3. QED
  BY <1>1, <1>2

(* A row that commits or fails keeps everything but its status.            *)
LEMMA StatusChange ==
  ASSUME AuditTypeOK, NEW n \in DOMAIN log, NEW s \in {"committed", "failed"},
         log' = [log EXCEPT ![n].status = s]
  PROVE  /\ log' \in Seq(LogRow) /\ DOMAIN log' = DOMAIN log
         /\ \A i \in DOMAIN log : log'[i].prev = log[i].prev /\ log'[i].by = log[i].by
         /\ \A i \in DOMAIN log : log'[i].status = IF i = n THEN s ELSE log[i].status
<1> DEFINE r == [log[n] EXCEPT !.status = s]
<1>1. \A i \in DOMAIN log : log[i] \in LogRow
  BY LogType
<1>2. r \in LogRow /\ r.prev = log[n].prev /\ r.by = log[n].by /\ r.status = s
  BY <1>1 DEF LogRow
<1>3. log' = [log EXCEPT ![n] = r]
  OBVIOUS
<1> HIDE DEF r
<1>4. log \in [1..Len(log) -> LogRow] /\ Len(log) \in Nat /\ DOMAIN log = 1..Len(log)
  BY LogType DEF AuditTypeOK
<1>5. log' \in [1..Len(log) -> LogRow]
  BY <1>2, <1>3, <1>4
<1>6. log' \in Seq(LogRow)
  BY <1>4, <1>5
<1>7. DOMAIN log' = DOMAIN log /\ \A i \in DOMAIN log : log'[i] = IF i = n THEN r ELSE log[i]
  BY <1>3, <1>4
<1>8. QED
  BY <1>2, <1>6, <1>7

-----------------------------------------------------------------------------
(* An empty log satisfies the invariant.                                   *)
LEMMA InitChainInv == AuditInit => ChainInv
<1> SUFFICES ASSUME AuditInit PROVE ChainInv
  OBVIOUS
<1>1. DOMAIN log = {} /\ Committed = {} /\ log \in Seq(LogRow)
  BY DEF AuditInit, Committed
<1>2. \A w \in Writers : writer[w] = NotAppending
  BY DEF AuditInit
<1>3. writer \in [Writers -> Appending]
  BY DEF AuditInit, NotAppending, Appending
<1>4. QED
  BY <1>1, <1>2, <1>3
     DEF ChainInv, AuditTypeOK, RowsInFlight, ReadsAdvance, PointsBack, ForksAreOverlaps, NotAppending

(* A handler that enters append holds nothing yet.                         *)
LEMMA StartKeeps ==
  ASSUME ChainInv, NEW w \in Writers, NEW e \in Entries, Start(w, e) PROVE ChainInv'
<1> DEFINE a == [NotAppending EXCEPT !.pc = "read", !.entry = e]
<1>1. a \in Appending /\ a.pc = "read" /\ a.entry = e
  BY DEF Appending, NotAppending
<1>2. \A u \in Writers : writer'[u] = IF u = w THEN a ELSE writer[u]
  BY DEF Start, ChainInv, AuditTypeOK
<1>3. writer' \in [Writers -> Appending]
  BY <1>1 DEF Start, ChainInv, AuditTypeOK
<1>4. log' = log /\ Committed' = Committed
  BY DEF Start, Committed
<1> HIDE DEF a
<1>5. AuditTypeOK'
  BY <1>1, <1>2, <1>3, <1>4 DEF ChainInv, AuditTypeOK
<1>6. RowsInFlight' /\ ReadsAdvance'
  BY <1>1, <1>2, <1>4 DEF ChainInv, RowsInFlight, ReadsAdvance
<1>7. PointsBack' /\ ForksAreOverlaps'
  BY <1>4 DEF ChainInv, PointsBack, ForksAreOverlaps
<1>8. QED
  BY <1>5, <1>6, <1>7 DEF ChainInv

(* What a handler reads is newer than all its earlier predecessors.        *)
LEMMA ReadLastKeeps ==
  ASSUME ChainInv, NEW w \in Writers, ReadLast(w) PROVE ChainInv'
<1> DEFINE a == [writer[w] EXCEPT !.pc = "insert", !.prev = LastHash]
<1>1. LastHash \in Nat /\ (LastHash = 0 \/ LastHash \in Committed)
      /\ \A i \in Committed : i <= LastHash
  BY LastHashIsNewest DEF ChainInv
<1>2. a \in Appending /\ a.pc = "insert" /\ a.prev = LastHash /\ a.entry = writer[w].entry
  BY <1>1 DEF ChainInv, AuditTypeOK, Appending
<1>3. writer[w].pc # "idle"
  BY DEF ReadLast
<1>4. \A u \in Writers : writer'[u] = IF u = w THEN a ELSE writer[u]
  BY DEF ReadLast, ChainInv, AuditTypeOK
<1>5. writer' \in [Writers -> Appending]
  BY <1>2 DEF ReadLast, ChainInv, AuditTypeOK
<1>6. log' = log /\ Committed' = Committed
  BY DEF ReadLast, Committed
<1> HIDE DEF a
<1>7. AuditTypeOK'
  BY <1>2, <1>3, <1>4, <1>5, <1>6 DEF ChainInv, AuditTypeOK
<1>8. RowsInFlight'
  BY <1>2, <1>4, <1>6 DEF ChainInv, RowsInFlight
<1>9. \A i \in Committed : log[i].prev < LastHash
  <2> SUFFICES ASSUME NEW i \in Committed PROVE log[i].prev < LastHash
    OBVIOUS
  <2>1. i \in Nat /\ log[i].prev \in Nat /\ log[i].prev < i
    BY LogType DEF ChainInv, PointsBack, LogRow
  <2>2. i <= LastHash
    BY <1>1
  <2>3. QED
    BY <1>1, <2>1, <2>2
<1>10. ReadsAdvance'
  BY <1>1, <1>2, <1>4, <1>6, <1>9 DEF ChainInv, ReadsAdvance
<1>11. PointsBack' /\ ForksAreOverlaps'
  BY <1>6 DEF ChainInv, PointsBack, ForksAreOverlaps
<1>12. QED
  BY <1>7, <1>8, <1>10, <1>11 DEF ChainInv

(* A row that is inserted belongs to its handler and points back.          *)
LEMMA InsertKeeps ==
  ASSUME ChainInv, NEW w \in Writers, InsertRow(w) PROVE ChainInv'
<1> DEFINE n == Len(log) + 1
           r == [entry |-> writer[w].entry, prev |-> writer[w].prev, by |-> w,
                 status |-> "running"]
           a == [writer[w] EXCEPT !.pc = "commit", !.row = n]
<1>1. writer[w] \in Appending /\ writer[w].pc = "insert" /\ writer[w].entry \in Entries
  BY DEF InsertRow, ChainInv, AuditTypeOK
<1>2. r \in LogRow /\ r.status = "running" /\ r.by = w /\ r.prev = writer[w].prev
  BY <1>1 DEF LogRow, Appending
<1>3. n \in Nat /\ a \in Appending /\ a.pc = "commit" /\ a.row = n /\ a.prev = writer[w].prev
      /\ a.entry = writer[w].entry
  <2>1. n \in Nat
    BY LogType DEF ChainInv
  <2> HIDE DEF n
  <2>2. QED
    BY <1>1, <2>1 DEF Appending
<1>4. \A u \in Writers : writer'[u] = IF u = w THEN a ELSE writer[u]
  BY DEF InsertRow, ChainInv, AuditTypeOK
<1>5. writer' \in [Writers -> Appending]
  BY <1>3 DEF InsertRow, ChainInv, AuditTypeOK
<1>6. log' = Append(log, r)
  BY DEF InsertRow
<1> HIDE DEF r, a
<1>7. /\ log' \in Seq(LogRow) /\ DOMAIN log' = 1..n /\ log'[n] = r
      /\ \A i \in DOMAIN log : i \in DOMAIN log' /\ log'[i] = log[i] /\ i # n
      /\ \A i \in DOMAIN log' : i \in DOMAIN log \/ i = n
  BY <1>2, <1>6 DEF ChainInv, AuditTypeOK
<1>8. Committed' = Committed
  BY <1>2, <1>7 DEF Committed
<1>9. AuditTypeOK'
  BY <1>1, <1>3, <1>4, <1>5, <1>7 DEF ChainInv, AuditTypeOK
<1>10. RowsInFlight'
  BY <1>2, <1>3, <1>4, <1>7 DEF ChainInv, RowsInFlight
<1>11. \A i \in Committed : log'[i] = log[i]
  BY <1>7, LogType DEF ChainInv
<1>12. ReadsAdvance'
  BY <1>1, <1>3, <1>4, <1>8, <1>11 DEF ChainInv, ReadsAdvance
<1>13. PointsBack'
  <2>1. r.prev < n /\ (r.prev = 0 \/ r.prev \in Committed)
    BY <1>1, <1>2, LogType DEF ChainInv, ReadsAdvance
  <2>2. QED
    BY <1>7, <1>8, <2>1 DEF ChainInv, PointsBack
<1>14. ForksAreOverlaps'
  BY <1>8, <1>11 DEF ChainInv, ForksAreOverlaps
<1>15. QED
  BY <1>9, <1>10, <1>12, <1>13, <1>14 DEF ChainInv

(* A commit shows a row whose predecessor no earlier row of its handler    *)
(* has.                                                                    *)
LEMMA CommitKeeps ==
  ASSUME ChainInv, NEW w \in Writers, CommitRow(w) PROVE ChainInv'
<1> DEFINE n == writer[w].row
<1>1. n \in DOMAIN log /\ log[n].status = "running" /\ log[n].by = w
      /\ log[n].prev = writer[w].prev /\ n \notin Committed
  BY DEF CommitRow, ChainInv, RowsInFlight, Committed
<1>2. /\ log' \in Seq(LogRow) /\ DOMAIN log' = DOMAIN log
      /\ \A i \in DOMAIN log : log'[i].prev = log[i].prev /\ log'[i].by = log[i].by
      /\ \A i \in DOMAIN log : log'[i].status = IF i = n THEN "committed" ELSE log[i].status
  <2>1. log' = [log EXCEPT ![n].status = "committed"]
    BY DEF CommitRow
  <2>2. QED
    BY <1>1, <2>1, StatusChange DEF ChainInv
<1>3. Committed' = Committed \cup {n}
  BY <1>1, <1>2 DEF Committed
<1>4. \A u \in Writers : writer'[u] = IF u = w THEN NotAppending ELSE writer[u]
  BY DEF CommitRow, ChainInv, AuditTypeOK
<1>5. NotAppending \in Appending /\ NotAppending.pc = "idle"
  BY DEF NotAppending, Appending
<1>6. writer' \in [Writers -> Appending]
  BY <1>5 DEF CommitRow, ChainInv, AuditTypeOK
<1>7. AuditTypeOK'
  BY <1>2, <1>4, <1>5, <1>6 DEF ChainInv, AuditTypeOK
<1>8. RowsInFlight'
  <2> SUFFICES ASSUME NEW u \in Writers, writer'[u].pc = "commit"
               PROVE  /\ writer'[u].row \in DOMAIN log'
                      /\ log'[writer'[u].row].status = "running"
                      /\ log'[writer'[u].row].by = u
                      /\ log'[writer'[u].row].prev = writer'[u].prev
    BY DEF RowsInFlight
  <2>1. u # w /\ writer'[u] = writer[u]
    BY <1>4, <1>5
  <2>2. /\ writer[u].row \in DOMAIN log /\ log[writer[u].row].status = "running"
        /\ log[writer[u].row].by = u /\ log[writer[u].row].prev = writer[u].prev
    BY <2>1 DEF ChainInv, RowsInFlight
  <2>3. writer[u].row # n
    BY <1>1, <2>1, <2>2
  <2>4. QED
    BY <1>2, <2>1, <2>2, <2>3
<1>9. Committed \subseteq DOMAIN log
  BY LogType DEF ChainInv
<1>10. ReadsAdvance'
  <2> SUFFICES ASSUME NEW u \in Writers, writer'[u].pc \in {"insert", "commit"}
               PROVE  /\ writer'[u].prev = 0 \/ writer'[u].prev \in Committed'
                      /\ \A i \in Committed' : log'[i].by = u => log'[i].prev < writer'[u].prev
    BY DEF ReadsAdvance
  <2>1. u # w /\ writer'[u] = writer[u]
    BY <1>4, <1>5
  <2>2. QED
    BY <1>1, <1>2, <1>3, <1>9, <2>1 DEF ChainInv, ReadsAdvance
<1>11. PointsBack'
  BY <1>2, <1>3 DEF ChainInv, PointsBack
<1>12. ForksAreOverlaps'
  <2>1. \A i \in Committed : log[i].by = w => log[i].prev < log[n].prev
    BY <1>1 DEF CommitRow, ChainInv, ReadsAdvance
  <2>2. \A i \in Committed : log[i].prev \in Nat
    BY LogType DEF ChainInv, LogRow
  <2>3. \A i \in Committed : log[i].prev = log[n].prev => log[i].by # w
    BY <2>1, <2>2
  <2>4. QED
    BY <1>1, <1>2, <1>3, <1>9, <2>3 DEF ChainInv, ForksAreOverlaps
<1>13. QED
  BY <1>7, <1>8, <1>10, <1>11, <1>12 DEF ChainInv

(* A row that fails is never part of the chain.                            *)
LEMMA WriteFailsKeeps ==
  ASSUME ChainInv, NEW w \in Writers, WriteFails(w) PROVE ChainInv'
<1> DEFINE n == writer[w].row
<1>1. \A u \in Writers : writer'[u] = IF u = w THEN NotAppending ELSE writer[u]
  BY DEF WriteFails, ChainInv, AuditTypeOK
<1>2. NotAppending \in Appending /\ NotAppending.pc = "idle"
  BY DEF NotAppending, Appending
<1>3. writer' \in [Writers -> Appending]
  BY <1>2 DEF WriteFails, ChainInv, AuditTypeOK
<1>4. CASE writer[w].pc # "commit"
  <2>1. log' = log /\ Committed' = Committed
    BY <1>4 DEF WriteFails, Committed
  <2>2. AuditTypeOK'
    BY <1>1, <1>2, <1>3, <2>1 DEF ChainInv, AuditTypeOK
  <2>3. RowsInFlight' /\ ReadsAdvance'
    BY <1>1, <1>2, <2>1 DEF ChainInv, RowsInFlight, ReadsAdvance
  <2>4. QED
    BY <2>1, <2>2, <2>3 DEF ChainInv, PointsBack, ForksAreOverlaps
<1>5. CASE writer[w].pc = "commit"
  <2>1. n \in DOMAIN log /\ log[n].status = "running" /\ log[n].by = w
    BY <1>5 DEF ChainInv, RowsInFlight
  <2>2. log' = [log EXCEPT ![n].status = "failed"]
    BY <1>5 DEF WriteFails
  <2>3. /\ log' \in Seq(LogRow) /\ DOMAIN log' = DOMAIN log
        /\ \A i \in DOMAIN log : log'[i].prev = log[i].prev /\ log'[i].by = log[i].by
        /\ \A i \in DOMAIN log : log'[i].status = IF i = n THEN "failed" ELSE log[i].status
    BY <2>1, <2>2, StatusChange DEF ChainInv
  <2>4. Committed' = Committed
    BY <2>1, <2>3 DEF Committed
  <2>5. Committed \subseteq DOMAIN log
    BY LogType DEF ChainInv
  <2>6. AuditTypeOK'
    BY <1>1, <1>2, <1>3, <2>3 DEF ChainInv, AuditTypeOK
  <2>7. RowsInFlight'
    <3> SUFFICES ASSUME NEW u \in Writers, writer'[u].pc = "commit"
                 PROVE  /\ writer'[u].row \in DOMAIN log'
                        /\ log'[writer'[u].row].status = "running"
                        /\ log'[writer'[u].row].by = u
                        /\ log'[writer'[u].row].prev = writer'[u].prev
      BY DEF RowsInFlight
    <3>1. u # w /\ writer'[u] = writer[u]
      BY <1>1, <1>2
    <3>2. /\ writer[u].row \in DOMAIN log /\ log[writer[u].row].status = "running"
          /\ log[writer[u].row].by = u /\ log[writer[u].row].prev = writer[u].prev
      BY <3>1 DEF ChainInv, RowsInFlight
    <3>3. QED
      BY <2>1, <2>3, <3>1, <3>2
  <2>8. ReadsAdvance'
    BY <1>1, <1>2, <2>3, <2>4, <2>5 DEF ChainInv, ReadsAdvance
  <2>9. PointsBack' /\ ForksAreOverlaps'
    BY <2>3, <2>4, <2>5 DEF ChainInv, PointsBack, ForksAreOverlaps
  <2>10. QED
    BY <2>6, <2>7, <2>8, <2>9 DEF ChainInv
<1>6. QED
  BY <1>4, <1>5

(* Every step keeps the invariant.                                         *)
LEMMA StepChainInv == ChainInv /\ [AuditNext]_auditVars => ChainInv'
<1> SUFFICES ASSUME ChainInv, [AuditNext]_auditVars PROVE ChainInv'
  OBVIOUS
<1>1. CASE AuditNext
  BY <1>1, StartKeeps, ReadLastKeeps, InsertKeeps, CommitKeeps, WriteFailsKeeps
     DEF AuditNext, Progress
<1>2. CASE UNCHANGED auditVars
  BY <1>2 DEF auditVars, ChainInv, AuditTypeOK, RowsInFlight, ReadsAdvance, PointsBack,
              ForksAreOverlaps, Committed
<1>3. QED
  BY <1>1, <1>2

(* The invariant holds of every behaviour.                                 *)
LEMMA ChainInvariant == AuditSpec => []ChainInv
BY InitChainInv, StepChainInv, PTL DEF AuditSpec

(* Two committed entries behind one predecessor come from two handlers     *)
(* that appended at the same time; a handler never forks the chain alone   *)
(* (db/audit.rs: append).                                                  *)
THEOREM OnlyOverlapsFork == AuditSpec => []ForksAreOverlaps
<1>1. ChainInv => ForksAreOverlaps
  BY DEF ChainInv
<1>2. QED
  BY <1>1, ChainInvariant, PTL

(* No committed entry chains to a row that was rolled back, or to a later  *)
(* one (db/audit.rs: append).                                              *)
THEOREM HashesAreOfEntries == AuditSpec => []NoDanglingHash
<1>1. ChainInv => NoDanglingHash
  <2> SUFFICES ASSUME ChainInv, NEW i \in Committed
               PROVE  log[i].prev = 0 \/ (log[i].prev \in Committed /\ log[i].prev < i)
    BY DEF NoDanglingHash
  <2>1. i \in DOMAIN log
    BY LogType DEF ChainInv
  <2>2. QED
    BY <2>1 DEF ChainInv, PointsBack
<1>2. QED
  BY <1>1, ChainInvariant, PTL

-----------------------------------------------------------------------------
(***************************************************************************)
(* The refinement: a handler that appends alone extends the chain.         *)
(***************************************************************************)

\* Appends do not overlap: at most one handler is in append.
Alone == \A u, v \in Busy : u = v

\* What a handler read is still the last entry, and its row comes after every entry.
AppendsAlone ==
  \A w \in Writers :
    /\ writer[w].pc \in {"insert", "commit"} => writer[w].prev = LastHash
    /\ writer[w].pc = "commit" => \A i \in Committed : i < writer[w].row

\* Every position of the chain is the position of an entry.
Ranked == \A p \in 1..Cardinality(Committed) : \E i \in Committed : Position(i) = p

SerialInv == ChainInv /\ AppendsAlone /\ Ranked

(* A position counts the committed rows up to it, of which there are       *)
(* finitely many.                                                          *)
LEMMA PositionType ==
  ASSUME AuditTypeOK
  PROVE  /\ IsFiniteSet(Committed) /\ Cardinality(Committed) \in Nat
         /\ \A h \in Nat : Position(h) \in 0..Cardinality(Committed)
         /\ \A h \in Nat : (\A j \in Committed : j <= h) => Position(h) = Cardinality(Committed)
<1>1. IsFiniteSet(Committed) /\ Cardinality(Committed) \in Nat
  <2>1. Len(log) \in Nat /\ Committed \in SUBSET (1..Len(log))
    BY LogType
  <2>2. IsFiniteSet(1..Len(log))
    BY <2>1, FS_Interval
  <2>3. IsFiniteSet(Committed)
    BY <2>1, <2>2, FS_Subset
  <2>4. QED
    BY <2>3, FS_CardinalityType
<1>2. ASSUME NEW h \in Nat PROVE Position(h) \in 0..Cardinality(Committed)
  <2> DEFINE T == {j \in Committed : j <= h}
  <2>1. T \in SUBSET Committed
    OBVIOUS
  <2>2. IsFiniteSet(T) /\ Cardinality(T) <= Cardinality(Committed)
    BY <1>1, <2>1, FS_Subset
  <2>3. Cardinality(T) \in Nat
    BY <2>2, FS_CardinalityType
  <2> HIDE DEF T
  <2>4. QED
    BY <1>1, <2>2, <2>3 DEF Position, T
<1>3. ASSUME NEW h \in Nat, \A j \in Committed : j <= h
      PROVE  Position(h) = Cardinality(Committed)
  <2>1. {j \in Committed : j <= h} = Committed
    BY <1>3
  <2>2. QED
    BY <2>1 DEF Position
<1>4. QED
  BY <1>1, <1>2, <1>3

(* No two entries share a position, and each has one.                      *)
LEMMA PositionsDiffer ==
  ASSUME AuditTypeOK
  PROVE  /\ \A i \in Committed : Position(i) \in 1..Cardinality(Committed)
         /\ \A i, k \in Committed : Position(i) = Position(k) => i = k
<1>1. Committed \subseteq Nat
  BY LogType
<1>2. ASSUME NEW i \in Committed, NEW k \in Nat, k < i PROVE Position(k) < Position(i)
  <2> DEFINE S == {j \in Committed : j <= k}
             T == {j \in Committed : j <= i}
  <2>0. i \in Nat
    BY <1>1
  <2>1. S \in SUBSET T /\ i \in T /\ i \notin S /\ T \in SUBSET Committed
    <3>1. \A j \in Committed : j \in Nat /\ (j <= k => j <= i)
      BY <1>1, <1>2, <2>0
    <3>2. S \subseteq T
      BY <3>1
    <3>3. i \in T
      BY <2>0
    <3>4. i \notin S
      BY <1>2, <2>0
    <3>5. QED
      BY <3>2, <3>3, <3>4
  <2>2. IsFiniteSet(T)
    BY <2>1, PositionType, FS_Subset
  <2> HIDE DEF S, T
  <2>3. Cardinality(S) <= Cardinality(T) /\ Cardinality(S) # Cardinality(T)
    BY <2>1, <2>2, FS_Subset
  <2>4. Position(k) = Cardinality(S) /\ Position(i) = Cardinality(T)
    BY DEF Position, S, T
  <2>5. Position(k) \in Nat /\ Position(i) \in Nat
    BY <1>1, PositionType
  <2>6. QED
    BY <2>3, <2>4, <2>5
<1>3. ASSUME NEW i \in Committed PROVE Position(i) \in 1..Cardinality(Committed)
  <2>1. i \in Nat /\ 0 < i
    BY LogType
  <2>2. Position(0) < Position(i)
    BY <1>2, <2>1
  <2>3. Position(0) \in Nat /\ Position(i) \in 0..Cardinality(Committed)
    BY <2>1, PositionType
  <2>4. Cardinality(Committed) \in Nat
    BY PositionType
  <2>5. QED
    BY <2>2, <2>3, <2>4
<1>4. ASSUME NEW i \in Committed, NEW k \in Committed, Position(i) = Position(k) PROVE i = k
  <2>1. i \in Nat /\ k \in Nat /\ Position(i) \in Nat
    BY <1>1, PositionType
  <2>2. ~ (i < k) /\ ~ (k < i)
    BY <1>1, <1>2, <1>4, <2>1
  <2>3. QED
    BY <2>1, <2>2
<1>5. QED
  BY <1>3, <1>4

(* The row at a position is committed and stands there.                    *)
LEMMA RowAtPosition ==
  ASSUME AuditTypeOK, Ranked, NEW p \in 1..Cardinality(Committed)
  PROVE  RowAt(p) \in Committed /\ Position(RowAt(p)) = p
BY DEF Ranked, RowAt

(* The mapped chain is a list of links, one for each committed row.        *)
LEMMA ChainType ==
  ASSUME ChainInv, Ranked
  PROVE  /\ Chain \in Seq([entry : Entries, prev : Nat])
         /\ Len(Chain) = Cardinality(Committed)
         /\ DOMAIN Chain = 1..Cardinality(Committed)
<1> DEFINE K == Cardinality(Committed)
           T == [entry : Entries, prev : Nat]
<1>1. K \in Nat
  BY PositionType DEF ChainInv
<1>2. ASSUME NEW p \in 1..K
      PROVE  [entry |-> log[RowAt(p)].entry, prev |-> Place(log[RowAt(p)].prev)] \in T
  <2>1. RowAt(p) \in DOMAIN log /\ log[RowAt(p)] \in LogRow
    BY RowAtPosition, LogType DEF ChainInv
  <2>2. log[RowAt(p)].entry \in Entries /\ log[RowAt(p)].prev \in Nat
    BY <2>1 DEF LogRow
  <2>3. Position(log[RowAt(p)].prev) \in Nat
    BY <1>1, <2>2, PositionType DEF ChainInv
  <2>4. Len(log) + 1 \in Nat
    BY LogType DEF ChainInv
  <2>5. Place(log[RowAt(p)].prev) \in Nat
    BY <2>3, <2>4 DEF Place
  <2>6. QED
    BY <2>2, <2>5
<1>3. Chain \in [1..K -> T]
  BY <1>2 DEF Chain
<1> HIDE DEF K, T
<1>4. Chain \in Seq(T) /\ DOMAIN Chain = 1..K
  BY <1>1, <1>3
<1>5. Len(Chain) = K
  BY <1>1, <1>4
<1>6. QED
  BY <1>4, <1>5 DEF K, T

(* What leaves the entries and their rows alone leaves the chain alone.    *)
LEMMA ChainStays ==
  ASSUME ChainInv, Ranked, Committed' = Committed,
         Len(log') \in Nat,
         \A i \in Committed : log'[i].entry = log[i].entry /\ log'[i].prev = log[i].prev
  PROVE  Ranked' /\ Chain' = Chain
<1>1. \A h : Position(h)' = Position(h)
  BY DEF Position
<1>2. Ranked'
  BY <1>1 DEF Ranked
<1>3. \A p : RowAt(p)' = RowAt(p)
  BY <1>1 DEF RowAt
<1>4. \A h \in Committed \cup {0} : Place(h)' = Place(h)
  BY <1>1 DEF Place
<1>5. ASSUME NEW p \in 1..Cardinality(Committed)
      PROVE  /\ log'[RowAt(p)].entry = log[RowAt(p)].entry
             /\ log'[RowAt(p)].prev = log[RowAt(p)].prev
             /\ log[RowAt(p)].prev \in Committed \cup {0}
  <2>1. RowAt(p) \in Committed /\ RowAt(p) \in DOMAIN log
    BY RowAtPosition, LogType DEF ChainInv
  <2>2. QED
    BY <2>1 DEF ChainInv, PointsBack
<1>6. Chain' = Chain
  <2> DEFINE f == [p \in 1..Cardinality(Committed) |->
                     [entry |-> log[RowAt(p)].entry, prev |-> Place(log[RowAt(p)].prev)]]
             g == [p \in 1..Cardinality(Committed') |->
                     [entry |-> log'[RowAt(p)'].entry, prev |-> Place(log[RowAt(p)].prev)']]
  <2>1. Chain = f
    BY DEF Chain
  <2>2. Chain' = g
    BY DEF Chain
  <2>3. \A p \in 1..Cardinality(Committed) : g[p] = f[p]
    BY <1>3, <1>4, <1>5
  <2>4. f = g
    BY <2>3
  <2>5. QED
    BY <2>1, <2>2, <2>4
<1>7. QED
  BY <1>2, <1>6

(* An empty log is an empty chain.                                         *)
LEMMA InitSerialInv == AuditInit => SerialInv /\ Linear!Init
<1> SUFFICES ASSUME AuditInit PROVE SerialInv /\ Linear!Init
  OBVIOUS
<1>1. ChainInv
  BY InitChainInv
<1>2. Committed = {} /\ Cardinality(Committed) = 0
  BY FS_EmptySet DEF AuditInit, Committed
<1>3. AppendsAlone
  BY DEF AppendsAlone, AuditInit, NotAppending
<1>4. Ranked
  BY <1>2 DEF Ranked
<1>5. Chain \in Seq([entry : Entries, prev : Nat]) /\ Len(Chain) = 0
  BY <1>1, <1>2, <1>4, ChainType
<1>6. Chain = << >>
  BY <1>5
<1>7. QED
  BY <1>1, <1>3, <1>4, <1>6 DEF SerialInv, Linear!Init

(* Every step but a commit leaves the chain alone.                         *)
LEMMA QuietStep ==
  ASSUME SerialInv, ChainInv', NEW w \in Writers,
         (\E e \in Entries : Start(w, e)) \/ ReadLast(w) \/ InsertRow(w) \/ WriteFails(w)
  PROVE  SerialInv' /\ Chain' = Chain
<1>1. /\ Committed' = Committed
      /\ \A i \in Committed : log'[i].entry = log[i].entry /\ log'[i].prev = log[i].prev
  <2>1. CASE log' = log
    BY <2>1 DEF Committed
  <2>2. CASE InsertRow(w)
    <3> DEFINE r == [entry |-> writer[w].entry, prev |-> writer[w].prev, by |-> w,
                     status |-> "running"]
    <3>1. log' = Append(log, r) /\ r.status = "running"
      BY <2>2 DEF InsertRow
    <3> HIDE DEF r
    <3>2. /\ DOMAIN log' = 1..(Len(log) + 1) /\ log'[Len(log) + 1] = r
          /\ \A i \in DOMAIN log : log'[i] = log[i]
          /\ DOMAIN log = 1..Len(log) /\ Len(log) \in Nat
      BY <3>1 DEF SerialInv, ChainInv, AuditTypeOK
    <3>3. \A i : i \in DOMAIN log' <=> i \in DOMAIN log \/ i = Len(log) + 1
      BY <3>2
    <3>4. \A i \in DOMAIN log' : log'[i].status = "committed" <=> i \in Committed
      BY <3>1, <3>2, <3>3 DEF Committed
    <3>5. Committed' = Committed
      BY <3>3, <3>4 DEF Committed
    <3>6. QED
      BY <3>2, <3>5 DEF Committed
  <2>3. CASE WriteFails(w) /\ writer[w].pc = "commit"
    <3> DEFINE n == writer[w].row
               q == [log[n] EXCEPT !.status = "failed"]
    <3>1. n \in DOMAIN log /\ log[n] \in LogRow /\ log[n].status = "running"
      BY <2>3, LogType DEF SerialInv, ChainInv, RowsInFlight
    <3>2. log' = [log EXCEPT ![n] = q] /\ q.status = "failed"
      BY <2>3, <3>1 DEF WriteFails, LogRow
    <3> HIDE DEF q
    <3>3. DOMAIN log' = DOMAIN log
          /\ \A i \in DOMAIN log : log'[i] = IF i = n THEN q ELSE log[i]
      BY <3>2, LogType DEF SerialInv, ChainInv, AuditTypeOK
    <3>4. \A i \in DOMAIN log : log'[i].status = "committed" <=> log[i].status = "committed"
      BY <3>1, <3>2, <3>3
    <3>5. Committed' = Committed
      BY <3>3, <3>4 DEF Committed
    <3>6. \A i \in Committed : i # n
      BY <3>1 DEF Committed
    <3>7. QED
      BY <3>3, <3>5, <3>6 DEF Committed
  <2>4. QED
    BY <2>1, <2>2, <2>3 DEF Start, ReadLast, WriteFails
<1>2. Len(log') \in Nat
  BY DEF ChainInv, AuditTypeOK
<1>3. Ranked' /\ Chain' = Chain
  BY <1>1, <1>2, ChainStays DEF SerialInv
<1>4. LastHash' = LastHash
  BY <1>1 DEF LastHash
<1>5. AppendsAlone'
  <2>1. writer \in [Writers -> Appending]
    BY DEF SerialInv, ChainInv, AuditTypeOK
  <2>2. ASSUME NEW v \in Writers, v # w
        PROVE  /\ writer'[v].pc \in {"insert", "commit"} => writer'[v].prev = LastHash'
               /\ writer'[v].pc = "commit" => \A i \in Committed' : i < writer'[v].row
    <3>1. writer'[v] = writer[v]
      BY <2>1, <2>2 DEF Start, ReadLast, InsertRow, WriteFails
    <3>2. QED
      BY <1>1, <1>4, <3>1 DEF SerialInv, AppendsAlone
  <2>3. /\ writer'[w].pc \in {"insert", "commit"} => writer'[w].prev = LastHash'
        /\ writer'[w].pc = "commit" => \A i \in Committed' : i < writer'[w].row
    <3>1. CASE (\E e \in Entries : Start(w, e)) \/ WriteFails(w)
      <4>1. WriteFails(w) => writer'[w].pc = "idle"
        BY <2>1 DEF WriteFails, NotAppending
      <4>2. ASSUME NEW e \in Entries, Start(w, e) PROVE writer'[w].pc = "read"
        BY <2>1, <4>2 DEF Start, NotAppending
      <4>3. writer'[w].pc \in {"idle", "read"}
        BY <3>1, <4>1, <4>2
      <4>4. QED
        BY <4>3
    <3>2. CASE ReadLast(w)
      <4>1. writer'[w].pc = "insert" /\ writer'[w].prev = LastHash
        BY <2>1, <3>2 DEF ReadLast, Appending
      <4>2. QED
        BY <1>4, <4>1
    <3>3. CASE InsertRow(w)
      <4>1. /\ writer'[w].pc = "commit" /\ writer'[w].prev = writer[w].prev
            /\ writer'[w].row = Len(log) + 1
        BY <2>1, <3>3 DEF InsertRow, Appending
      <4>2. writer[w].prev = LastHash
        BY <3>3 DEF InsertRow, SerialInv, AppendsAlone
      <4>3. \A i \in Committed : i < Len(log) + 1
        BY LogType DEF SerialInv, ChainInv
      <4>4. QED
        BY <1>1, <1>4, <4>1, <4>2, <4>3
    <3>4. QED
      BY <3>1, <3>2, <3>3
  <2>4. QED
    BY <2>2, <2>3 DEF AppendsAlone
<1>6. QED
  BY <1>3, <1>5 DEF SerialInv

(* A commit appends the entry, behind the last one.                        *)
LEMMA CommitExtends ==
  ASSUME Alone, SerialInv, ChainInv', NEW w \in Writers, CommitRow(w)
  PROVE  SerialInv' /\ Linear!Extend
<1>1. AuditTypeOK /\ AuditTypeOK' /\ Committed \subseteq Nat
      /\ IsFiniteSet(Committed) /\ Cardinality(Committed) \in Nat
  BY LogType, PositionType DEF SerialInv, ChainInv
<1>2. PICK K \in Nat : K = Cardinality(Committed)
  BY <1>1
<1>3. PICK n \in DOMAIN log : n = writer[w].row
  BY DEF CommitRow, SerialInv, ChainInv, RowsInFlight
<1>4. PICK last \in Committed \cup {0} : last = LastHash
  BY LastHashIsNewest DEF SerialInv, ChainInv
<1>5. PICK e \in Entries : e = log[n].entry
  BY LogType DEF SerialInv, ChainInv, LogRow
<1> DEFINE q == [log[n] EXCEPT !.status = "committed"]
<1>6. /\ log[n] \in LogRow /\ log[n].status = "running" /\ log[n].prev = last
      /\ n \notin Committed /\ n \in Nat /\ \A i \in Committed : i < n
  BY <1>1, <1>3, <1>4, LogType DEF CommitRow, SerialInv, ChainInv, RowsInFlight, AppendsAlone, Committed
<1>7. q \in LogRow /\ q.status = "committed" /\ q.entry = e /\ q.prev = last
  BY <1>5, <1>6 DEF LogRow
<1>8. log' = [log EXCEPT ![n] = q]
  BY <1>3 DEF CommitRow
<1> HIDE DEF q
<1>9. DOMAIN log' = DOMAIN log /\ \A i \in DOMAIN log : log'[i] = IF i = n THEN q ELSE log[i]
  BY <1>8, LogType DEF SerialInv, ChainInv, AuditTypeOK
<1>10. \A i \in DOMAIN log : log'[i].status = "committed" <=> i \in Committed \/ i = n
  BY <1>7, <1>9 DEF Committed
<1>11. Committed' = Committed \cup {n}
  BY <1>9, <1>10 DEF Committed
<1>12. Cardinality(Committed') = K + 1
  BY <1>1, <1>2, <1>6, <1>11, FS_AddElement
<1>13. \A h \in Committed \cup {0} : Position(h)' = Position(h)
  <2> SUFFICES ASSUME NEW h \in Committed \cup {0} PROVE Position(h)' = Position(h)
    OBVIOUS
  <2>1. h \in Nat /\ h < n
    BY <1>1, <1>6, LogType
  <2>2. {j \in Committed' : j <= h} = {j \in Committed : j <= h}
    BY <1>1, <1>6, <1>11, <2>1
  <2>3. QED
    BY <2>2 DEF Position
<1>14. Position(n)' = K + 1
  <2>1. \A j \in Committed' : j <= n
    BY <1>1, <1>6, <1>11
  <2>2. {j \in Committed' : j <= n} = Committed'
    BY <2>1
  <2>3. QED
    BY <1>12, <2>2 DEF Position
<1>15. Ranked'
  <2>1. ASSUME NEW p \in 1..(K + 1) PROVE \E i \in Committed' : Position(i)' = p
    <3>1. CASE p = K + 1
      BY <1>11, <1>14, <3>1
    <3>2. CASE p # K + 1
      <4>1. p \in 1..K
        BY <1>2, <3>2
      <4>2. PICK i \in Committed : Position(i) = p
        BY <1>2, <4>1 DEF SerialInv, Ranked
      <4>3. QED
        BY <1>11, <1>13, <4>2
    <3>3. QED
      BY <3>1, <3>2
  <2>2. QED
    BY <1>12, <2>1 DEF Ranked
<1>16. ASSUME NEW p \in 1..K, NEW r, r = RowAt(p) PROVE RowAt(p)' = r /\ r \in Committed
  <2>1. r \in Committed /\ Position(r) = p
    BY <1>1, <1>2, <1>16, RowAtPosition DEF SerialInv
  <2>2. r \in Committed' /\ Position(r)' = p
    BY <1>11, <1>13, <2>1
  <2>3. \A i \in Committed' : Position(i)' = p => i = r
    <3> SUFFICES ASSUME NEW i \in Committed', Position(i)' = p PROVE i = r
      OBVIOUS
    <3>1. i # n
      BY <1>2, <1>14
    <3>2. i \in Committed /\ Position(i) = p
      BY <1>11, <1>13, <3>1
    <3>3. QED
      BY <1>1, <2>1, <3>2, PositionsDiffer
  <2>4. RowAt(p)' = CHOOSE i \in Committed' : Position(i)' = p
    BY DEF RowAt
  <2>5. QED
    BY <2>1, <2>2, <2>3, <2>4
<1>17. RowAt(K + 1)' = n
  <2>1. \A i \in Committed : Position(i)' # K + 1
    <3>1. \A i \in Committed : Position(i) \in 0..K
      BY <1>1, <1>2, PositionType
    <3>2. QED
      BY <1>13, <3>1
  <2>2. n \in Committed' /\ \A i \in Committed' : Position(i)' = K + 1 => i = n
    BY <1>11, <2>1
  <2>3. RowAt(K + 1)' = CHOOSE i \in Committed' : Position(i)' = K + 1
    BY DEF RowAt
  <2>4. QED
    BY <1>14, <2>2, <2>3
<1>18. \A h \in Committed \cup {0} : Place(h)' = Place(h)
  BY <1>11, <1>13 DEF Place
<1>19. Place(last)' = K
  <2>1. last \in Nat /\ \A i \in Committed : i <= last
    BY <1>1, <1>4, LastHashIsNewest
  <2>2. Position(last) = K
    BY <1>1, <1>2, <2>1, PositionType
  <2>3. Place(last) = Position(last)
    BY DEF Place
  <2>4. QED
    BY <1>18, <2>2, <2>3
<1>20. AppendsAlone'
  <2>1. writer'[w].pc = "idle"
    BY DEF CommitRow, NotAppending, SerialInv, ChainInv, AuditTypeOK
  <2>2. ASSUME NEW v \in Writers, v # w PROVE writer'[v].pc = "idle"
    <3>1. writer[w].pc # "idle" /\ writer[v].pc = "idle"
      BY <2>2 DEF CommitRow, Alone, Busy
    <3>2. QED
      BY <2>2, <3>1 DEF CommitRow, SerialInv, ChainInv, AuditTypeOK
  <2>3. QED
    BY <2>1, <2>2 DEF AppendsAlone
<1> DEFINE T == [entry : Entries, prev : Nat]
           x == [entry |-> e, prev |-> K]
<1>21. /\ Chain \in Seq(T) /\ Len(Chain) = K /\ DOMAIN Chain = 1..K
       /\ Chain' \in Seq(T) /\ Len(Chain') = K + 1 /\ DOMAIN Chain' = 1..(K + 1)
  <2>1. Chain \in Seq(T) /\ Len(Chain) = K /\ DOMAIN Chain = 1..K
    BY <1>2, ChainType DEF SerialInv
  <2>2. (ChainInv /\ Ranked => /\ Chain \in Seq(T) /\ Len(Chain) = Cardinality(Committed)
                               /\ DOMAIN Chain = 1..Cardinality(Committed))'
    BY ChainType, PTL
  <2>3. QED
    BY <1>12, <1>15, <2>1, <2>2
<1>22. ASSUME NEW p \in 1..K PROVE Chain'[p] = Chain[p]
  <2>1. PICK r \in Committed : r = RowAt(p) /\ r = RowAt(p)'
    BY <1>16
  <2>2. PICK h \in Committed \cup {0} : h = log[r].prev
    BY <1>1, LogType DEF SerialInv, ChainInv, PointsBack
  <2>3. r \in DOMAIN log /\ log'[r] = log[r]
    BY <1>1, <1>6, <1>9, LogType
  <2>4. Chain[p] = [entry |-> log[r].entry, prev |-> Place(h)]
    BY <1>2, <2>1, <2>2 DEF Chain
  <2>5. p \in 1..Cardinality(Committed')
    BY <1>2, <1>12
  <2>6. Chain'[p] = [entry |-> log'[r].entry, prev |-> Place(h)']
    BY <2>1, <2>2, <2>3, <2>5 DEF Chain
  <2>7. QED
    BY <1>18, <2>3, <2>4, <2>6
<1>23. Chain'[K + 1] = x
  <2>1. K + 1 \in 1..Cardinality(Committed')
    BY <1>2, <1>12
  <2>2. log'[n].entry = e /\ log'[n].prev = last
    BY <1>7, <1>9
  <2>3. Chain'[K + 1] = [entry |-> log'[n].entry, prev |-> Place(last)']
    BY <1>17, <2>1, <2>2 DEF Chain
  <2>4. QED
    BY <1>19, <2>2, <2>3
<1>24. x \in T
  BY <1>2
<1> HIDE DEF T, x
<1>25. Chain' = Append(Chain, x)
  <2> DEFINE c == Append(Chain, x)
  <2>1. c \in Seq(T) /\ Len(c) = K + 1
    BY <1>21, <1>24
  <2>2. \A p \in 1..(K + 1) : c[p] = IF p = K + 1 THEN x ELSE Chain[p]
    BY <1>21, <1>24
  <2>3. \A p \in 1..(K + 1) : Chain'[p] = c[p]
    <3> HIDE DEF c
    <3> SUFFICES ASSUME NEW p \in 1..(K + 1) PROVE Chain'[p] = c[p]
      OBVIOUS
    <3>1. p = K + 1 \/ p \in 1..K
      BY <1>2
    <3>2. QED
      BY <1>2, <1>22, <1>23, <2>2, <3>1
  <2> HIDE DEF c
  <2>4. Chain' = c
    BY <1>2, <1>21, <2>1, <2>3
  <2>5. QED
    BY <2>4 DEF c
<1>26. Linear!Extend
  BY <1>21, <1>25 DEF Linear!Extend, x
<1>27. QED
  BY <1>15, <1>20, <1>26 DEF SerialInv

(* While appends do not overlap, a step extends the mapped chain or leaves *)
(* it.                                                                     *)
LEMMA SerialStep ==
  ASSUME Alone, SerialInv, [AuditNext]_auditVars
  PROVE  SerialInv' /\ [Linear!Extend]_Chain
<1>1. ChainInv'
  BY StepChainInv DEF SerialInv
<1>2. CASE AuditNext
  <2>1. PICK w \in Writers :
          (\E e \in Entries : Start(w, e)) \/ Progress(w) \/ WriteFails(w)
    BY <1>2 DEF AuditNext
  <2>2. CASE CommitRow(w)
    BY <1>1, <2>2, CommitExtends
  <2>3. CASE ~ CommitRow(w)
    BY <1>1, <2>1, <2>3, QuietStep DEF Progress
  <2>4. QED
    BY <2>2, <2>3
<1>3. CASE UNCHANGED auditVars
  <2>1. Committed' = Committed /\ log' = log /\ LastHash' = LastHash /\ writer' = writer
    BY <1>3 DEF auditVars, Committed, LastHash
  <2>2. Len(log') \in Nat
    BY <1>1 DEF ChainInv, AuditTypeOK
  <2>3. Ranked' /\ Chain' = Chain
    BY <2>1, <2>2, ChainStays DEF SerialInv
  <2>4. AppendsAlone'
    BY <2>1 DEF SerialInv, AppendsAlone
  <2>5. QED
    BY <1>1, <2>3, <2>4 DEF SerialInv
<1>4. QED
  BY <1>2, <1>3

(* As long as appends do not overlap, by however many handlers, the log    *)
(* implements the chain it is documented to be (AuditEntry::prev_hash):    *)
(* nothing in it is changed or removed, and every new entry is hashed onto *)
(* the last one, although awaits fail and rolled back rows leave gaps      *)
(* (db/audit.rs: append).                                                  *)
THEOREM SerialAppendsChain == AuditSpec /\ []Alone => ImplementsLinearLog
<1>1. SerialInv /\ Alone /\ [AuditNext]_auditVars => SerialInv' /\ [Linear!Extend]_Chain
  BY SerialStep
<1>2. QED
  BY <1>1, InitSerialInv, PTL DEF AuditSpec, ImplementsLinearLog, Linear!Spec

-----------------------------------------------------------------------------
(***************************************************************************)
(* The exception workflow.  The log can only agree with the table because  *)
(* a decision stands once it is made, so that is part of the induction.    *)
(***************************************************************************)
TableInv ==
  /\ approvals \in [Ids -> Approval]
  /\ role \in [Users -> Role]
  /\ \A a \in Ids :
       /\ approvals[a].status = "none" => approvals[a].requester = Nobody
       /\ approvals[a].status \in {"active", "revoked"} =>
            /\ approvals[a].requester \in Users /\ approvals[a].approver \in Users
            /\ approvals[a].approver # approvals[a].requester
       /\ approvals[a].status \in {"pending", "rejected"} => approvals[a].requester \in Users

\* What an entry claims of the table.
Agrees(e, table) ==
  /\ e.action = "requested" => table[e.id].requester = e.actor
  /\ e.action = "granted" =>
       /\ table[e.id].status \in {"active", "revoked"}
       /\ table[e.id].approver = e.actor /\ table[e.id].requester # e.actor
  /\ e.action = "rejected" =>
       table[e.id].status = "rejected" /\ table[e.id].approver = e.actor

LedgerInv ==
  /\ \A i \in DOMAIN log : Agrees(log[i].entry, approvals)
  /\ \A w \in Writers : writer[w].entry # NoEntry => Agrees(writer[w].entry, approvals)

ApprovalInv == ChainInv /\ TableInv /\ LedgerInv

\* What a step may do to the table.
DecisionsKept ==
  \A a \in Ids :
    /\ approvals[a].status # "none" => approvals'[a].requester = approvals[a].requester
    /\ approvals[a].status = "active" =>
         /\ approvals'[a].status \in {"active", "revoked"}
         /\ approvals'[a].approver = approvals[a].approver
    /\ approvals[a].status \in {"rejected", "revoked"} => approvals'[a] = approvals[a]

-----------------------------------------------------------------------------
(* An entry that agrees with the table goes on to, as decisions stand.     *)
LEMMA AgreesStays ==
  ASSUME TableInv, DecisionsKept, NEW e \in Entry, Agrees(e, approvals)
  PROVE  Agrees(e, approvals')
<1>1. e.id \in Ids /\ e.actor \in Users /\ e.actor # Nobody
  BY NobodyAssumption DEF Entry
<1>2. CASE e.action = "requested"
  <2>1. approvals[e.id].requester = e.actor
    BY <1>2 DEF Agrees
  <2>2. approvals[e.id].status # "none"
    BY <1>1, <2>1 DEF TableInv
  <2>3. QED
    BY <1>1, <1>2, <2>1, <2>2 DEF Agrees, DecisionsKept
<1>3. CASE e.action = "granted"
  BY <1>1, <1>3 DEF Agrees, DecisionsKept
<1>4. CASE e.action = "rejected"
  BY <1>1, <1>4 DEF Agrees, DecisionsKept
<1>5. CASE e.action \notin {"requested", "granted", "rejected"}
  BY <1>5 DEF Agrees
<1>6. QED
  BY <1>2, <1>3, <1>4, <1>5

(* What is in the log or under way is an entry of a decision.              *)
LEMMA EntriesType ==
  ASSUME ChainInv
  PROVE  /\ \A i \in DOMAIN log : log[i].entry \in Entry
         /\ \A w \in Writers : writer[w].entry # NoEntry => writer[w].entry \in Entry
<1>1. \A i \in DOMAIN log : log[i].entry \in Entry
  BY LogType, EntryAssumption DEF ChainInv, LogRow
<1>2. \A w \in Writers : writer[w].entry # NoEntry => writer[w].entry \in Entry
  BY EntryAssumption DEF ChainInv, AuditTypeOK, Appending
<1>3. QED
  BY <1>1, <1>2

(* A handler changes the table and enters append with an entry that agrees.*)
LEMMA HandlerKeeps ==
  ASSUME ApprovalInv, NEW w \in Writers, NEW e \in Entry, Start(w, e),
         TableInv', DecisionsKept, Agrees(e, approvals')
  PROVE  ApprovalInv'
<1>1. ChainInv'
  BY StartKeeps, EntryAssumption DEF ApprovalInv
<1>2. log' = log
  BY DEF Start
<1>3. \A u \in Writers : writer'[u].entry = IF u = w THEN e ELSE writer[u].entry
  BY DEF Start, ApprovalInv, ChainInv, AuditTypeOK, Appending, NotAppending
<1>4. \A i \in DOMAIN log : Agrees(log[i].entry, approvals')
  BY AgreesStays, EntriesType DEF ApprovalInv, LedgerInv
<1>5. \A u \in Writers : writer[u].entry # NoEntry => Agrees(writer[u].entry, approvals')
  BY AgreesStays, EntriesType DEF ApprovalInv, LedgerInv
<1>6. LedgerInv'
  BY <1>2, <1>3, <1>4, <1>5 DEF LedgerInv
<1>7. QED
  BY <1>1, <1>6 DEF ApprovalInv

(* A handler of the console decides and has an entry that says so.         *)
LEMMA HandlersKeep ==
  ASSUME ApprovalInv, NEW w \in Writers, NEW a \in Ids, NEW u \in Users,
         \/ create_approval(w, a, u) \/ approve_approval(w, a, u)
         \/ reject_approval(w, a, u) \/ revoke_approval(w, a, u)
  PROVE  ApprovalInv' /\ DecisionsKept
<1> USE NobodyAssumption
<1>1. CASE create_approval(w, a, u)
  <2> DEFINE e == [action |-> "requested", id |-> a, actor |-> u]
  <2>1. e \in Entry /\ Start(w, e)
    BY <1>1 DEF create_approval, Record, Entry, Action
  <2>2. TableInv'
    BY <1>1 DEF create_approval, ApprovalInv, TableInv, Approval, Status
  <2>3. DecisionsKept
    BY <1>1 DEF create_approval, ApprovalInv, TableInv, DecisionsKept
  <2>4. Agrees(e, approvals')
    BY <1>1 DEF create_approval, ApprovalInv, TableInv, Approval, Agrees
  <2>5. QED
    BY <2>1, <2>2, <2>3, <2>4, HandlerKeeps
<1>2. CASE approve_approval(w, a, u)
  <2> DEFINE e == [action |-> "granted", id |-> a, actor |-> u]
  <2>1. e \in Entry /\ Start(w, e)
    BY <1>2 DEF approve_approval, Record, Entry, Action
  <2>2. TableInv'
    BY <1>2 DEF approve_approval, ApprovalInv, TableInv, Approval, Status
  <2>3. DecisionsKept
    BY <1>2 DEF approve_approval, ApprovalInv, TableInv, DecisionsKept, Approval
  <2>4. Agrees(e, approvals')
    BY <1>2 DEF approve_approval, ApprovalInv, TableInv, Approval, Agrees
  <2>5. QED
    BY <2>1, <2>2, <2>3, <2>4, HandlerKeeps
<1>3. CASE reject_approval(w, a, u)
  <2> DEFINE e == [action |-> "rejected", id |-> a, actor |-> u]
  <2>1. e \in Entry /\ Start(w, e)
    BY <1>3 DEF reject_approval, Record, Entry, Action
  <2>2. TableInv'
    BY <1>3 DEF reject_approval, ApprovalInv, TableInv, Approval, Status
  <2>3. DecisionsKept
    BY <1>3 DEF reject_approval, ApprovalInv, TableInv, DecisionsKept, Approval
  <2>4. Agrees(e, approvals')
    BY <1>3 DEF reject_approval, ApprovalInv, TableInv, Approval, Agrees
  <2>5. QED
    BY <2>1, <2>2, <2>3, <2>4, HandlerKeeps
<1>4. CASE revoke_approval(w, a, u)
  <2> DEFINE e == [action |-> "revoked", id |-> a, actor |-> u]
  <2>1. e \in Entry /\ Start(w, e)
    BY <1>4 DEF revoke_approval, Record, Entry, Action
  <2>2. TableInv'
    BY <1>4 DEF revoke_approval, ApprovalInv, TableInv, Approval, Status
  <2>3. DecisionsKept
    BY <1>4 DEF revoke_approval, ApprovalInv, TableInv, DecisionsKept, Approval
  <2>4. Agrees(e, approvals')
    BY DEF Agrees
  <2>5. QED
    BY <2>1, <2>2, <2>3, <2>4, HandlerKeeps
<1>5. QED
  BY <1>1, <1>2, <1>3, <1>4

(* A revocation by gRPC changes the table in the same way, without an      *)
(* entry.                                                                  *)
LEMMA GrpcKeeps ==
  ASSUME ApprovalInv, NEW a \in Ids, revoke_approval_grpc(a)
  PROVE  ApprovalInv' /\ DecisionsKept
<1>1. TableInv'
  BY DEF revoke_approval_grpc, ApprovalInv, TableInv, Approval, Status
<1>2. DecisionsKept
  BY DEF revoke_approval_grpc, ApprovalInv, TableInv, DecisionsKept, Approval
<1>3. log' = log /\ writer' = writer
  BY DEF revoke_approval_grpc
<1>4. ChainInv'
  BY <1>3, StepChainInv DEF ApprovalInv, auditVars
<1>5. LedgerInv'
  BY <1>2, <1>3, AgreesStays, EntriesType DEF ApprovalInv, LedgerInv
<1>6. QED
  BY <1>1, <1>2, <1>4, <1>5 DEF ApprovalInv

(* Appending, and failing to, leaves the table alone and claims nothing    *)
(* new.                                                                    *)
LEMMA AppendKeeps ==
  ASSUME ApprovalInv, NEW w \in Writers, AppendEntry(w) \/ AppendFails(w)
  PROVE  ApprovalInv' /\ DecisionsKept
<1>1. approvals' = approvals /\ role' = role
  BY DEF AppendEntry, AppendFails
<1>2. ChainInv'
  BY ReadLastKeeps, InsertKeeps, CommitKeeps, WriteFailsKeeps
     DEF AppendEntry, AppendFails, Progress, ApprovalInv
<1>3. \A u \in Writers : writer'[u].entry \in {writer[u].entry, NoEntry}
  <2>1. writer \in [Writers -> Appending]
    BY DEF ApprovalInv, ChainInv, AuditTypeOK
  <2>2. CASE ReadLast(w)
    BY <2>1, <2>2 DEF ReadLast, Appending
  <2>3. CASE InsertRow(w)
    BY <2>1, <2>3 DEF InsertRow, Appending
  <2>4. CASE CommitRow(w) \/ WriteFails(w)
    <3>1. writer' = [writer EXCEPT ![w] = NotAppending] /\ NotAppending.entry = NoEntry
      BY <2>4 DEF CommitRow, WriteFails, NotAppending
    <3>2. QED
      BY <2>1, <3>1
  <2>5. QED
    BY <2>2, <2>3, <2>4 DEF AppendEntry, AppendFails, Progress
<1>4. \A i \in DOMAIN log' :
        \/ i \in DOMAIN log /\ log'[i].entry = log[i].entry
        \/ writer[w].entry # NoEntry /\ log'[i].entry = writer[w].entry
  <2>1. CASE ReadLast(w) \/ (WriteFails(w) /\ writer[w].pc # "commit")
    BY <2>1 DEF ReadLast, WriteFails
  <2>2. CASE InsertRow(w)
    <3>1. writer[w].entry # NoEntry
      BY <2>2, EntriesAssumption DEF InsertRow, ApprovalInv, ChainInv, AuditTypeOK
    <3>2. \A i \in DOMAIN log' : \/ i \in DOMAIN log /\ log'[i] = log[i]
                                 \/ log'[i].entry = writer[w].entry
      BY <2>2 DEF InsertRow, ApprovalInv, ChainInv, AuditTypeOK
    <3>3. QED
      BY <3>1, <3>2
  <2>3. CASE CommitRow(w) \/ (WriteFails(w) /\ writer[w].pc = "commit")
    <3>1. PICK s : log' = [log EXCEPT ![writer[w].row].status = s]
      BY <2>3 DEF CommitRow, WriteFails
    <3>2. \A i \in DOMAIN log : log[i] \in LogRow
      BY LogType DEF ApprovalInv, ChainInv
    <3>3. QED
      BY <3>1, <3>2 DEF LogRow
  <2>4. QED
    BY <2>1, <2>2, <2>3 DEF AppendEntry, AppendFails, Progress
<1>5. LedgerInv'
  BY <1>1, <1>3, <1>4 DEF ApprovalInv, LedgerInv
<1>6. QED
  BY <1>1, <1>2, <1>5 DEF ApprovalInv, TableInv, DecisionsKept

(* A change of roles changes no decision.                                  *)
LEMMA RoleKeeps ==
  ASSUME ApprovalInv, NEW u \in Users, ChangeRole(u) PROVE ApprovalInv' /\ DecisionsKept
<1>1. UNCHANGED <<log, writer, approvals>> /\ role' \in [Users -> Role]
  BY DEF ChangeRole, ApprovalInv, TableInv
<1>2. ChainInv'
  BY <1>1, StepChainInv DEF ApprovalInv, auditVars
<1>3. QED
  BY <1>1, <1>2 DEF ApprovalInv, TableInv, LedgerInv, DecisionsKept

-----------------------------------------------------------------------------
(* No request, no entry.                                                   *)
LEMMA InitApprovalInv == Init => ApprovalInv
<1> SUFFICES ASSUME Init PROVE ApprovalInv
  OBVIOUS
<1>1. ChainInv
  BY InitChainInv DEF Init
<1>2. TableInv
  BY DEF Init, TableInv, Approval, Status
<1>3. LedgerInv
  BY DEF Init, AuditInit, LedgerInv, NotAppending
<1>4. QED
  BY <1>1, <1>2, <1>3 DEF ApprovalInv

(* Every step keeps the invariant and all decisions.                       *)
LEMMA StepApprovalInv == ApprovalInv /\ [Next]_vars => ApprovalInv' /\ DecisionsKept
<1> SUFFICES ASSUME ApprovalInv, [Next]_vars PROVE ApprovalInv' /\ DecisionsKept
  OBVIOUS
<1>1. ASSUME NEW w \in Writers, Handle(w) PROVE ApprovalInv' /\ DecisionsKept
  BY <1>1, HandlersKeep DEF Handle
<1>2. ASSUME NEW w \in Writers, AppendEntry(w) \/ AppendFails(w)
      PROVE  ApprovalInv' /\ DecisionsKept
  BY <1>2, AppendKeeps
<1>3. ASSUME NEW a \in Ids, revoke_approval_grpc(a) PROVE ApprovalInv' /\ DecisionsKept
  BY <1>3, GrpcKeeps
<1>4. ASSUME NEW u \in Users, ChangeRole(u) PROVE ApprovalInv' /\ DecisionsKept
  BY <1>4, RoleKeeps
<1>5. CASE UNCHANGED vars
  <2>1. UNCHANGED <<log, writer, approvals, role>>
    BY <1>5 DEF vars
  <2>2. ChainInv'
    BY <2>1, StepChainInv DEF ApprovalInv, auditVars
  <2>3. QED
    BY <2>1, <2>2 DEF ApprovalInv, TableInv, LedgerInv, DecisionsKept
<1>6. QED
  BY <1>1, <1>2, <1>3, <1>4, <1>5 DEF Next

(* The invariant holds of every behaviour.                                 *)
LEMMA ApprovalInvariant == Spec => []ApprovalInv
BY InitApprovalInv, StepApprovalInv, PTL DEF Spec

(* Nobody ever releases their own request, however many handlers race and  *)
(* whatever roles change meanwhile (db/approvals.rs: approve).             *)
THEOREM DutiesAreSeparate == Spec => []SeparationOfDuties
<1>1. ApprovalInv => SeparationOfDuties
  BY DEF ApprovalInv, TableInv, SeparationOfDuties
<1>2. QED
  BY <1>1, ApprovalInvariant, PTL

(* Every entry of the log, committed or on its way, says of a decision     *)
(* what the approvals table says (http.rs: the approval handlers).         *)
THEOREM LogTellsTheTable == Spec => []LogAgreesWithTable
<1>1. ApprovalInv => LogAgreesWithTable
  <2> SUFFICES ASSUME ApprovalInv, NEW e \in Claimed PROVE Agrees(e, approvals)
    BY DEF LogAgreesWithTable, Agrees
  <2>1. CASE e \in Recorded
    <3>1. PICK i \in Committed : e = log[i].entry
      BY <2>1 DEF Recorded
    <3>2. i \in DOMAIN log
      BY LogType DEF ApprovalInv, ChainInv
    <3>3. QED
      BY <3>1, <3>2 DEF ApprovalInv, LedgerInv
  <2>2. CASE e \notin Recorded
    BY <2>2 DEF Claimed, ApprovalInv, LedgerInv
  <2>3. QED
    BY <2>1, <2>2
<1>2. QED
  BY <1>1, ApprovalInvariant, PTL

(* No decision is ever taken back or taken twice: neither the people of a  *)
(* decided request nor a rejection or revocation change                    *)
(* (db/approvals.rs: every UPDATE asks for the status it leaves).          *)
THEOREM DecisionsAreFinal == Spec => DecisionsStand
<1>1. ApprovalInv /\ [Next]_vars =>
        [\A a \in Ids :
           /\ approvals[a].status \in {"rejected", "revoked"} => approvals'[a] = approvals[a]
           /\ approvals[a].status = "active" =>
                /\ approvals'[a].status \in {"active", "revoked"}
                /\ approvals'[a].approver = approvals[a].approver
                /\ approvals'[a].requester = approvals[a].requester]_vars
  BY StepApprovalInv DEF DecisionsKept
<1>2. QED
  BY <1>1, ApprovalInvariant, PTL DEF Spec, DecisionsStand
=============================================================================
