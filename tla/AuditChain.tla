----------------------------- MODULE AuditChain -----------------------------
(***************************************************************************)
(* The hash-chained audit log (db/audit.rs: append).  An append is two     *)
(* statements without a transaction around them: one reads the hash of the *)
(* last entry, one inserts the new entry behind it; any number of request  *)
(* handlers append at once.  Postgres numbers a row when the INSERT runs   *)
(* and shows it when the INSERT commits; one that fails leaves a gap.      *)
(*                                                                         *)
(* An entry is identified by its sequence number, and so is its hash       *)
(* (SHA-256 does not collide, and every entry has a fresh id); 0 is the    *)
(* absent hash of the first entry.                                         *)
(***************************************************************************)
EXTENDS Naturals, Sequences, FiniteSets

CONSTANTS
  Writers,     \* request handlers that may append at the same time
  Entries,     \* what an entry may record
  NoEntry,     \* a handler that has nothing to record
  WriteFaults, \* whether an await of an append may fail
  MaxRows      \* bound on the rows of the log

ASSUME EntriesAssumption == NoEntry \notin Entries
ASSUME LogBoundsAssumption == MaxRows \in Nat /\ WriteFaults \in BOOLEAN

VARIABLES
  log,         \* audit_log by sequence number
  writer       \* the appends in flight

auditVars == <<log, writer>>

\* by is history: the handler whose append inserted the row.
LogRow == [entry : Entries, prev : Nat, by : Writers, status : {"running", "committed", "failed"}]

Appending == [pc : {"idle", "read", "insert", "commit"}, entry : Entries \cup {NoEntry}, prev : Nat,
            row : Nat]

NotAppending == [pc |-> "idle", entry |-> NoEntry, prev |-> 0, row |-> 0]

AuditTypeOK ==
  /\ log \in Seq(LogRow)
  /\ writer \in [Writers -> Appending]
  /\ \A w \in Writers : writer[w].pc # "idle" => writer[w].entry \in Entries

AuditInit == log = << >> /\ writer = [w \in Writers |-> NotAppending]

-----------------------------------------------------------------------------
Committed == {i \in DOMAIN log : log[i].status = "committed"}

\* Mutated: the oldest entry instead of the newest.
LastHash_Oldest == IF Committed = {} THEN 0 ELSE CHOOSE i \in Committed : \A j \in Committed : i <= j

\* Mutated: a row another transaction has not committed yet.
LastHash_Uncommitted == Len(log)

\* SELECT content_hash ... ORDER BY sequence DESC LIMIT 1
LastHash == IF Committed = {} THEN 0 ELSE CHOOSE i \in Committed : \A j \in Committed : j <= i

Busy == {w \in Writers : writer[w].pc # "idle"}

\* A handler enters append, with room for its row.
Start(w, e) ==
  /\ writer[w].pc = "idle"
  /\ Len(log) + Cardinality(Busy) < MaxRows
  /\ writer' = [writer EXCEPT ![w] = [NotAppending EXCEPT !.pc = "read", !.entry = e]]
  /\ UNCHANGED log

ReadLast(w) ==
  /\ writer[w].pc = "read"
  /\ writer' = [writer EXCEPT ![w].pc = "insert", ![w].prev = LastHash]
  /\ UNCHANGED log

InsertRow(w) ==
  /\ writer[w].pc = "insert"
  /\ log' = Append(log, [entry |-> writer[w].entry, prev |-> writer[w].prev, by |-> w,
                         status |-> "running"])
  /\ writer' = [writer EXCEPT ![w].pc = "commit", ![w].row = Len(log) + 1]

CommitRow(w) ==
  /\ writer[w].pc = "commit"
  /\ log' = [log EXCEPT ![writer[w].row].status = "committed"]
  /\ writer' = [writer EXCEPT ![w] = NotAppending]

\* The database fails a statement, or the process ends: what did not commit is gone.
WriteFails(w) ==
  /\ WriteFaults /\ writer[w].pc # "idle"
  /\ log' = IF writer[w].pc = "commit"
            THEN [log EXCEPT ![writer[w].row].status = "failed"] ELSE log
  /\ writer' = [writer EXCEPT ![w] = NotAppending]

Progress(w) == ReadLast(w) \/ InsertRow(w) \/ CommitRow(w)

AuditNext ==
  \E w \in Writers :
    \/ \E e \in Entries : Start(w, e)
    \/ Progress(w)
    \/ WriteFails(w)

AuditSpec == AuditInit /\ [][AuditNext]_auditVars

-----------------------------------------------------------------------------
(* Every committed entry chains to an earlier entry that was committed, or *)
(* to nothing: no hash names a row that was rolled back, so from any entry *)
(* the chain can be followed to a first one (append: the last entry is     *)
(* read, not guessed).                                                     *)
NoDanglingHash ==
  \A i \in Committed : log[i].prev = 0 \/ (log[i].prev \in Committed /\ log[i].prev < i)

(* Two entries behind the same predecessor were appended at the same time: *)
(* one handler never forks the chain by itself.                            *)
ForksAreOverlaps ==
  \A i, j \in Committed : i # j /\ log[i].prev = log[j].prev => log[i].by # log[j].by

-----------------------------------------------------------------------------
\* The committed rows in order, each predecessor by its position among them.
Position(i) == Cardinality({j \in Committed : j <= i})

\* The place a hash names: none if its row was rolled back.
Place(h) == IF h \in Committed \cup {0} THEN Position(h) ELSE Len(log) + 1

RowAt(p) == CHOOSE i \in Committed : Position(i) = p

Chain ==
  [p \in 1..Cardinality(Committed) |->
     [entry |-> log[RowAt(p)].entry, prev |-> Place(log[RowAt(p)].prev)]]

Linear == INSTANCE LinearLog WITH chain <- Chain

(* As long as appends do not overlap, the log is the chain it promises to  *)
(* be, whatever fails in between.                                          *)
ImplementsLinearLog == Linear!Spec
=============================================================================
