----------------------------- MODULE FeedProofs -----------------------------
(***************************************************************************)
(* Known-malicious feeds for any sources, ecosystems, listings and         *)
(* requests: whatever syncs, deletions, faults and restarts do, an entry   *)
(* leaves the table only by a commit that may take it.  What keeps this up *)
(* is that a job holds no download but between its download and its        *)
(* commit, so that a deletion never counts as a sync of what it deletes.   *)
(* And what stays behind where its source is gone was left by a sync that  *)
(* ran beside the change: a job that writes has a copy of its row that is  *)
(* still true of it, or the name is known to be loose.                     *)
(***************************************************************************)
EXTENDS FeedSync, NaturalFacts

IsJob(r) ==
  \E pc, src, got, doomed : r = [pc |-> pc, src |-> src, got |-> got, doomed |-> doomed]

DownloadsInv ==
  /\ DOMAIN entries = Key /\ DOMAIN job = Jobs
  /\ \A j \in Jobs : IsJob(job[j])
  /\ \A j \in Jobs : job[j].pc \notin {"delete", "insert"} => job[j].got = {}

-----------------------------------------------------------------------------
(* Jobs that lose rows to another transaction are otherwise as they were.  *)
LEMMA GoneKeeps ==
  ASSUME DownloadsInv, NEW k, NEW S, NEW j \in Jobs
  PROVE  /\ DOMAIN Gone(k, S) = Jobs
         /\ IsJob(Gone(k, S)[j])
         /\ Gone(k, S)[j].pc = job[j].pc /\ Gone(k, S)[j].got = job[j].got
<1>1. PICK pc, src, got, doomed :
        job[j] = [pc |-> pc, src |-> src, got |-> got, doomed |-> doomed]
  BY DEF DownloadsInv, IsJob
<1>2. \/ Gone(k, S)[j] = job[j]
      \/ Gone(k, S)[j] = [pc |-> pc, src |-> src, got |-> got, doomed |-> doomed \ S]
  BY <1>1 DEF Gone
<1>3. QED
  BY <1>1, <1>2 DEF Gone, IsJob

(* One job changes into a job that holds a download only where it may.     *)
LEMMA StepKeeps ==
  ASSUME DownloadsInv, entries' = entries, NEW j \in Jobs,
         NEW pc, NEW src, NEW got, NEW doomed, Step(j, pc, src, got, doomed),
         pc \notin {"delete", "insert"} => got = {}
  PROVE  DownloadsInv'
<1> DEFINE r == [pc |-> pc, src |-> src, got |-> got, doomed |-> doomed]
<1>1. IsJob(r) /\ r.pc = pc /\ r.got = got
  BY DEF IsJob
<1>2. job' = [job EXCEPT ![j] = r]
  BY DEF Step
<1> HIDE DEF r
<1>3. QED
  BY <1>1, <1>2 DEF DownloadsInv

(* A job that ends holds nothing.                                          *)
LEMMA EndKeeps ==
  ASSUME DownloadsInv, entries' = entries, NEW j \in Jobs, job' = [job EXCEPT ![j] = NoJob]
  PROVE  DownloadsInv'
BY StepKeeps DEF Step, NoJob

(* A commit takes what its transaction saw and nothing it downloaded.      *)
LEMMA ReplacedTakes ==
  ASSUME DownloadsInv, NEW j \in Jobs, Replaced(j, job[j].got),
         job[j].pc \in {"insert", "cleared"}
  PROVE  /\ DownloadsInv'
         /\ job'[j].pc # job[j].pc
         /\ \A k \in Key : \A e \in entries[k] \ entries'[k] : KeyOf(j) = k /\ e \notin job[j].got
<1> DEFINE r == [pc |-> IF job[j].pc = "cleared" THEN "drop" ELSE "mark",
                 src |-> job[j].src, got |-> {}, doomed |-> {}]
           others == Gone(KeyOf(j), job[j].doomed)
<1>1. DOMAIN others = Jobs /\ \A i \in Jobs : IsJob(others[i]) /\ others[i].pc = job[i].pc
                                              /\ others[i].got = job[i].got
  BY GoneKeeps
<1>2. job' = [others EXCEPT ![j] = r]
  BY DEF Replaced
<1>3. IsJob(r) /\ r.got = {} /\ r.pc \in {"drop", "mark"}
  BY DEF IsJob
<1>4. entries' = [entries EXCEPT ![KeyOf(j)] = (@ \ job[j].doomed) \cup job[j].got]
  BY DEF Replaced
<1> HIDE DEF r, others
<1>5. DOMAIN job' = Jobs /\ job'[j] = r /\ \A i \in Jobs \ {j} : job'[i] = others[i]
  BY <1>1, <1>2
<1>6. DownloadsInv'
  BY <1>1, <1>3, <1>4, <1>5 DEF DownloadsInv
<1>7. \A k \in Key : \A e \in entries[k] \ entries'[k] : KeyOf(j) = k /\ e \notin job[j].got
  BY <1>4 DEF DownloadsInv
<1>8. QED
  BY <1>3, <1>5, <1>6, <1>7

-----------------------------------------------------------------------------
\* What a step takes from the table, a commit or an operator takes.
Takes ==
  \A k \in Key : \A e \in entries[k] \ entries'[k] :
    \/ remove_one(k, e)
    \/ \E j \in Jobs : /\ job[j].pc \in {"insert", "cleared"} /\ job'[j].pc # job[j].pc
                       /\ KeyOf(j) = k /\ e \notin job[j].got

(* The steps of a sync or of a deletion.                                   *)
LEMMA JobSteps ==
  ASSUME DownloadsInv, NEW j \in Jobs, Sync(j) \/ StoreFails(j) \/ Delete(j)
  PROVE  DownloadsInv' /\ Takes
<1>1. CASE fetch_feed(j) \/ DeleteOld(j) \/ mark_synced(j) \/ StoreFails(j) \/ Clear(j) \/ Drop(j)
  <2>1. entries' = entries
    BY <1>1 DEF fetch_feed, DeleteOld, mark_synced, StoreFails, Clear, Drop
  <2>2. CASE fetch_feed(j)
    <3>1. CASE \E got \in SUBSET Listings : Step(j, "delete", job[j].src, got, {})
      BY <2>1, <3>1, StepKeeps DEF Takes
    <3>2. CASE Step(j, "mark", job[j].src, {}, {})
      BY <2>1, <3>2, StepKeeps DEF Takes
    <3>3. QED
      BY <2>1, <2>2, <3>1, <3>2 DEF fetch_feed, Takes
  <2>3. CASE DeleteOld(j)
    BY <2>1, <2>3, StepKeeps DEF DeleteOld, Takes
  <2>4. CASE StoreFails(j) /\ job[j].pc \in {"delete", "insert"}
    <3>1. Step(j, "mark", job[j].src, {}, {})
      BY <2>4 DEF StoreFails
    <3>2. QED
      BY <2>1, <3>1, StepKeeps DEF Takes
  <2>5. CASE Clear(j)
    <3>1. Step(j, "cleared", job[j].src, {}, entries[KeyOf(j)])
      BY <2>5 DEF Clear
    <3>2. QED
      BY <2>1, <3>1, StepKeeps DEF Takes
  <2>6. CASE mark_synced(j) \/ Drop(j) \/ (StoreFails(j) /\ job[j].pc \notin {"delete", "insert"})
    BY <2>1, <2>6, EndKeeps DEF mark_synced, Drop, StoreFails, Takes
  <2>7. QED
    BY <1>1, <2>2, <2>3, <2>4, <2>5, <2>6
<1>2. CASE InsertNew(j)
  BY <1>2, ReplacedTakes DEF InsertNew, Takes
<1>3. CASE Cleared(j)
  <2>1. job[j].got = {}
    BY <1>3 DEF Cleared, DownloadsInv
  <2>2. QED
    BY <1>3, <2>1, ReplacedTakes DEF Cleared, Takes
<1>4. QED
  BY <1>1, <1>2, <1>3 DEF Sync, Delete

(* Every step keeps the invariant, and takes only what it may.             *)
LEMMA StepTakes == DownloadsInv /\ [Next]_vars => DownloadsInv' /\ Takes
<1> SUFFICES ASSUME DownloadsInv, [Next]_vars PROVE DownloadsInv' /\ Takes
  OBVIOUS
<1>1. CASE entries' = entries /\ job' = job
  BY <1>1 DEF DownloadsInv, Takes
<1>2. CASE \/ \E n \in Names, eco \in Whats : add_feed(n, eco)
           \/ \E n \in Names : update_feed(n)
           \/ \E n \in Names : Elapse(n) /\ UNCHANGED <<entries, job, loose>>
           \/ run_pass \/ UNCHANGED vars
  BY <1>1, <1>2 DEF add_feed, update_feed, run_pass, vars
<1>3. CASE \E e \in Listings : add_one(e)
  BY <1>3 DEF add_one, DownloadsInv, Takes
<1>4. ASSUME NEW k \in Key, NEW e \in Listings, remove_one(k, e) PROVE DownloadsInv' /\ Takes
  <2>1. job' = Gone(k, {e}) /\ entries' = [entries EXCEPT ![k] = @ \ {e}]
    BY <1>4 DEF remove_one
  <2>2. DownloadsInv'
    <3> DEFINE gone == Gone(k, {e})
    <3>1. DOMAIN gone = Jobs /\ \A j \in Jobs : IsJob(gone[j]) /\ gone[j].pc = job[j].pc
                                                /\ gone[j].got = job[j].got
      <4>1. DOMAIN gone = Jobs
        BY DEF Gone
      <4>2. ASSUME NEW j \in Jobs
            PROVE  IsJob(gone[j]) /\ gone[j].pc = job[j].pc /\ gone[j].got = job[j].got
        BY GoneKeeps
      <4>3. QED
        BY <4>1, <4>2
    <3> HIDE DEF gone
    <3>2. job' = gone
      BY <2>1 DEF gone
    <3>3. DOMAIN entries' = Key
      BY <2>1 DEF DownloadsInv
    <3>4. QED
      BY <3>1, <3>2, <3>3 DEF DownloadsInv
  <2>3. \A l \in Key : \A f \in entries[l] \ entries'[l] : l = k /\ f = e
    BY <2>1 DEF DownloadsInv
  <2>4. QED
    BY <1>4, <2>2, <2>3 DEF Takes
<1>5. CASE SyncNext \/ \E h \in Handlers, n \in Names : sync_feed(h, n) \/ delete_feed(h, n)
  <2>1. entries' = entries
    BY <1>5 DEF SyncNext, sync_feed, delete_feed
  <2>2. \E j \in Jobs, pc \in {"download", "clear"} : \E src : Step(j, pc, src, {}, {})
    BY <1>5 DEF SyncNext, sync_feed, delete_feed, Jobs
  <2>3. QED
    BY <2>1, <2>2, StepKeeps DEF Takes
<1>6. CASE \/ \E j \in Jobs : Sync(j) \/ StoreFails(j)
           \/ \E h \in Handlers : Delete(h)
  BY <1>6, JobSteps DEF Jobs
<1>7. CASE Restart
  <2>1. entries' = entries /\ job' = [j \in Jobs |-> NoJob]
    BY <1>7 DEF Restart
  <2>2. IsJob(NoJob) /\ NoJob.got = {}
    BY DEF NoJob, IsJob
  <2>3. QED
    BY <2>1, <2>2 DEF DownloadsInv, Takes
<1>8. QED
  BY <1>2, <1>3, <1>4, <1>5, <1>6, <1>7 DEF Next

(* For any number of sources, handlers and entries: however syncs,         *)
(* deletions, failures and restarts interleave, an entry leaves the table  *)
(* only by the commit of a sync whose download lacks it, of a deletion of  *)
(* its source, or by an operator's hand (replace_source, sync_one).        *)
THEOREM EntriesLeaveByCommit == Spec => NoGap
<1>1. Init => DownloadsInv
  <2>1. IsJob(NoJob) /\ NoJob.got = {}
    BY DEF NoJob, IsJob
  <2>2. QED
    BY <2>1 DEF Init, DownloadsInv
<1>2. DownloadsInv /\ [Next]_vars => DownloadsInv'
  BY StepTakes
<1>3. DownloadsInv /\ [Next]_vars => [Takes]_vars
  BY StepTakes
<1>4. QED
  BY <1>1, <1>2, <1>3, PTL DEF Spec, NoGap, Takes

-----------------------------------------------------------------------------
(***************************************************************************)
(* Orphans.  Whether an entry may stay is decided by the row of its source *)
(* and by the jobs under way, which work on copies of rows.                *)
(***************************************************************************)

Writes == {"download", "delete", "insert"}

Deletes == {"clear", "cleared", "drop"}

\* Nothing is claimed of an operator's entries and of names that are loose.
Open(n, names) == n \in names \cup {Manual}

\* What a copy says is still so of the row it was taken from, and that is the row.
Fits(c, rows, names) == Open(c.name, names) \/ (rows[c.name].id = c.id /\ rows[c.name].what = c.what)

\* What a copy says is so if its row is still there.
FitsIfThere(c, rows, names) ==
  Open(c.name, names) \/ rows[c.name].id # c.id \/ rows[c.name].what = c.what

\* What a job relies on: a sync, that its copy still fits; a deletion, that it takes
\* every entry of its source, and then that none is left.
Reliable(r, rows, known, names, n) ==
  /\ r.pc # "idle" => r.src \in Copy /\ r.src.id <= n
  /\ r.pc \in Writes => Fits(r.src, rows, names)
  /\ r.pc \in Deletes => FitsIfThere(r.src, rows, names)
  /\ r.pc = "cleared" => Open(r.src.name, names) \/ known[<<r.src.name, r.src.what>>] \subseteq r.doomed
  /\ r.pc = "drop" => Open(r.src.name, names) \/ known[<<r.src.name, r.src.what>>] = {}

FeedTypes ==
  /\ row \in [Names -> Row \cup {NoRow}]
  /\ order \in Seq(Names) /\ queue \in Seq(Copy)
  /\ edits \in 0..MaxEdits
  /\ entries \in [Key -> SUBSET Listings]
  /\ job \in [Jobs -> Job]
  /\ loose \in SUBSET Names

RowsInv == \A n \in Names : row[n].id <= edits

QueueInv == \A i \in DOMAIN queue : queue[i].id <= edits /\ Fits(queue[i], row, loose)

JobsInv ==
  /\ \A j \in Jobs : Reliable(job[j], row, entries, loose, edits)
  /\ job[Worker].pc \notin Deletes

FeedInv == FeedTypes /\ RowsInv /\ QueueInv /\ JobsInv /\ OrphansAreOverlaps

\* A worker that works on a source has that source at the head of its queue.
WorkerInv == job[Worker].pc # "idle" => queue # <<>>

-----------------------------------------------------------------------------
(* What is kept of a sequence is a sequence of what is to be kept.         *)
LEMMA OnlyType ==
  ASSUME NEW T, NEW s \in Seq(T), NEW S
  PROVE  Only(s, S) \in Seq(S \cap T)
<1> DEFINE n == Len(s)
           Q == Seq(S \cap T)
           keep == [x \in (1..n) \X Q |-> IF s[x[1]] \in S THEN Append(x[2], s[x[1]]) ELSE x[2]]
<1>1. n \in Nat /\ \A i \in 1..n : s[i] \in T
  OBVIOUS
<1>2. <<>> \in Q
  OBVIOUS
<1>3. keep \in [(1..n) \X Q -> Q]
  <2>1. ASSUME NEW x \in (1..n) \X Q
        PROVE  (IF s[x[1]] \in S THEN Append(x[2], s[x[1]]) ELSE x[2]) \in Q
    <3>1. x[1] \in 1..n /\ x[2] \in Q /\ s[x[1]] \in T
      BY <1>1
    <3>2. s[x[1]] \in S => Append(x[2], s[x[1]]) \in Q
      <4> SUFFICES ASSUME s[x[1]] \in S PROVE Append(x[2], s[x[1]]) \in Q
        OBVIOUS
      <4>1. s[x[1]] \in S \cap T
        BY <3>1
      <4>2. QED
        BY <3>1, <4>1
    <3>3. QED
      BY <3>1, <3>2
  <2>2. QED
    BY <2>1
<1> HIDE DEF Q, keep, n
<1>4. PICK f : IsLoop(f, n, Q, <<>>, keep)
  BY <1>1, <1>2, <1>3, LoopExists
<1> DEFINE Kept(g) == [i \in 0..n |-> IF i = 0 THEN <<>>
                                      ELSE IF s[i] \in S THEN Append(g[i - 1], s[i]) ELSE g[i - 1]]
<1>5. f = Kept(f)
  <2>1. f \in [0..n -> Q] /\ f[0] = <<>>
    BY <1>4 DEF IsLoop
  <2>2. ASSUME NEW i \in 1..n
        PROVE  f[i] = IF s[i] \in S THEN Append(f[i - 1], s[i]) ELSE f[i - 1]
    <3>1. i - 1 \in 0..n
      BY <1>1
    <3>2. f[i] = keep[<<i, f[i - 1]>>] /\ f[i - 1] \in Q
      BY <1>4, <3>1 DEF IsLoop
    <3>3. <<i, f[i - 1]>> \in (1..n) \X Q
      BY <3>2
    <3>4. QED
      BY <3>2, <3>3 DEF keep
  <2>3. ASSUME NEW i \in 0..n PROVE f[i] = Kept(f)[i]
    <3>1. CASE i = 0
      BY <2>1, <3>1
    <3>2. CASE i # 0
      <4>1. i \in 1..n
        BY <1>1, <3>2
      <4>2. QED
        BY <2>2, <3>2, <4>1
    <3>3. QED
      BY <3>1, <3>2
  <2>4. QED
    BY <2>1, <2>3
<1>6. ASSUME NEW g, g = Kept(g) PROVE g[n] \in Q
  <2> DEFINE I == {i \in 0..n : g[i] \in Q}
  <2>1. 0 \in I
    BY <1>1, <1>2, <1>6
  <2>2. ASSUME NEW i \in 0..n, i \in I, i < n PROVE i + 1 \in I
    <3>1. i + 1 \in 1..n /\ i + 1 # 0 /\ (i + 1) - 1 = i /\ i + 1 \in 0..n
      BY <1>1, <2>2
    <3>2. g[i + 1] = IF s[i + 1] \in S THEN Append(g[i], s[i + 1]) ELSE g[i]
      BY <1>1, <1>6, <3>1
    <3>3. s[i + 1] \in S => s[i + 1] \in S \cap T
      BY <1>1, <3>1
    <3>4. g[i] \in Q /\ (s[i + 1] \in S => Append(g[i], s[i + 1]) \in Q)
      BY <2>2, <3>3 DEF Q
    <3>5. QED
      BY <3>1, <3>2, <3>4
  <2>3. 0..n \subseteq I
    <3> HIDE DEF I
    <3>1. QED
      BY <1>1, <2>1, <2>2, UpTo
  <2>4. QED
    BY <1>1, <2>3
<1>7. Only(s, S) = (CHOOSE g : g = Kept(g))[n]
  BY DEF Only, n
<1>8. (CHOOSE g : g = Kept(g)) = Kept(CHOOSE g : g = Kept(g))
  BY <1>5
<1> HIDE DEF Kept
<1>9. QED
  BY <1>6, <1>7, <1>8 DEF Q

(* Only rows that are there are due, enabled ones.                         *)
LEMMA DueType ==
  ASSUME FeedTypes
  PROVE  Len(due) \in Nat /\ \A i \in 1..Len(due) : due[i] \in Present /\ row[due[i]].enabled
<1> DEFINE D == {n \in Present : row[n].enabled /\ row[n].due}
<1>1. Only(order, D) \in Seq(D \cap Names)
  BY OnlyType DEF FeedTypes
<1>2. PICK w \in Seq(D) : w = Only(order, D)
  <2>1. D \cap Names = D
    BY DEF Present
  <2>2. QED
    BY <1>1, <2>1
<1>3. due = SubSeq(w, 1, IF Len(w) < Batch THEN Len(w) ELSE Batch)
  BY <1>2 DEF due
<1>4. (IF Len(w) < Batch THEN Len(w) ELSE Batch) \in 0..Len(w)
  BY BatchAssumption
<1> HIDE DEF D
<1>5. due \in Seq(D)
  BY <1>3, <1>4
<1>6. QED
  BY <1>5 DEF D

(* A job's source, download and locked entries, and the job of nobody.     *)
LEMMA JobTypes ==
  ASSUME FeedTypes, NEW j \in Jobs
  PROVE  /\ job[j] \in Job /\ job[j].src \in Copy \cup {NoCopy} /\ KeyOf(j) \in Key
         /\ job[j].got \in SUBSET Listings /\ job[j].doomed \in SUBSET Listings
         /\ NoJob \in Job /\ NoJob.pc = "idle"
<1>1. job[j] \in Job
  BY DEF FeedTypes
<1>2. NoCopy.what \in Whats /\ NoCopy.name = Manual
  BY EcosystemsAssumption DEF NoCopy
<1>3. \A c \in Copy \cup {NoCopy} : <<c.name, c.what>> \in Key
  BY <1>2 DEF Copy, Key
<1>4. job[j].src \in Copy \cup {NoCopy}
  BY <1>1 DEF Job
<1>5. KeyOf(j) \in Key
  BY <1>3, <1>4 DEF KeyOf
<1>6. NoJob \in Job /\ NoJob.pc = "idle"
  BY DEF NoJob, Job
<1>7. QED
  BY <1>1, <1>4, <1>5, <1>6 DEF Job

(* A job that loses rows to another transaction is otherwise as it was.    *)
LEMMA GoneType ==
  ASSUME FeedTypes, NEW k, NEW S
  PROVE  /\ Gone(k, S) \in [Jobs -> Job]
         /\ \A j \in Jobs :
              /\ Gone(k, S)[j].pc = job[j].pc /\ Gone(k, S)[j].src = job[j].src
              /\ Gone(k, S)[j].got = job[j].got
              /\ KeyOf(j) = k => Gone(k, S)[j].doomed = job[j].doomed \ S
              /\ KeyOf(j) # k => Gone(k, S)[j].doomed = job[j].doomed
<1>1. ASSUME NEW j \in Jobs, NEW r, r = Gone(k, S)[j]
      PROVE  /\ r \in Job
             /\ r.pc = job[j].pc /\ r.src = job[j].src /\ r.got = job[j].got
             /\ KeyOf(j) = k => r.doomed = job[j].doomed \ S
             /\ KeyOf(j) # k => r.doomed = job[j].doomed
  <2>1. r = IF KeyOf(j) = k THEN [job[j] EXCEPT !.doomed = @ \ S] ELSE job[j]
    BY <1>1 DEF Gone
  <2>2. job[j] \in Job
    BY DEF FeedTypes
  <2>3. QED
    BY <2>1, <2>2 DEF Job
<1>2. DOMAIN Gone(k, S) = Jobs /\ Gone(k, S) = [j \in Jobs |-> Gone(k, S)[j]]
  BY DEF Gone
<1> DEFINE g == Gone(k, S)
<1>3. g = [j \in Jobs |-> g[j]] /\ \A j \in Jobs : g[j] \in Job
  BY <1>1, <1>2
<1> HIDE DEF g
<1>4. g \in [Jobs -> Job]
  BY <1>3
<1>5. QED
  BY <1>1, <1>4 DEF g

(* The copy of a row that is there.                                        *)
LEMMA CopyMade ==
  ASSUME FeedTypes, NEW n \in Present
  PROVE  /\ n \in Names /\ row[n] \in Row /\ CopyOf(n) \in Copy
         /\ CopyOf(n).name = n /\ CopyOf(n).id = row[n].id /\ CopyOf(n).what = row[n].what
<1>1. n \in Names /\ row[n] \in Row
  BY DEF Present, FeedTypes
<1>2. QED
  BY <1>1 DEF CopyOf, Copy, Row

(* A row is there iff it has an id.                                        *)
LEMMA PresentHasId ==
  ASSUME FeedTypes, NEW n \in Names
  PROVE  row[n].id \in Nat /\ (n \in Present <=> row[n].id # 0)
<1>1. row[n] \in Row \cup {NoRow}
  BY DEF FeedTypes
<1>2. NoRow.id = 0
  BY DEF NoRow
<1>3. \A r \in Row : r.id \in Nat /\ r.id # 0
  BY BoundsAssumption DEF Row
<1>4. QED
  BY <1>1, <1>2, <1>3 DEF Present

(* The steps of the table of sources keep the types of the table.          *)
LEMMA TableTypes ==
  ASSUME FeedTypes, NEW n \in Names
  PROVE  /\ \A what \in Whats, b \in BOOLEAN, d \in BOOLEAN :
              Insert(n, what, b) \/ Amend(n, what, b, d) =>
                row' \in [Names -> Row \cup {NoRow}] /\ order' \in Seq(Names)
         /\ set_enabled(n) \/ set_interval(n) \/ Elapse(n) \/ Deleted(n) =>
              row' \in [Names -> Row \cup {NoRow}] /\ order' \in Seq(Names)
         /\ \A c \in Copy : Recorded(c) =>
              row' \in [Names -> Row \cup {NoRow}] /\ order' \in Seq(Names)
<1>1. row \in [Names -> Row \cup {NoRow}] /\ order \in Seq(Names)
  BY DEF FeedTypes
<1>2. \A m \in Names : Only(order, Names \ {m}) \in Seq(Names)
  <2>1. ASSUME NEW m \in Names PROVE Only(order, Names \ {m}) \in Seq(Names)
    <3>1. Only(order, Names \ {m}) \in Seq((Names \ {m}) \cap Names)
      BY <1>1, OnlyType
    <3>2. \A s \in Seq((Names \ {m}) \cap Names) : s \in Seq(Names)
      OBVIOUS
    <3>3. QED
      BY <3>1, <3>2
  <2>2. QED
    BY <2>1
<1>3. n \in Present => row[n] \in Row
  BY <1>1 DEF Present
<1>4. ASSUME NEW what \in Whats, NEW b \in BOOLEAN, Insert(n, what, b)
      PROVE  row' \in [Names -> Row \cup {NoRow}] /\ order' \in Seq(Names)
  <2> DEFINE r == [id |-> edits + 1, what |-> what, enabled |-> b, due |-> TRUE, checked |-> 0]
  <2>1. edits + 1 \in 1..MaxEdits
    BY <1>4, BoundsAssumption DEF Insert, Edit, FeedTypes
  <2>2. r \in Row
    BY <2>1, BoundsAssumption DEF Row
  <2>3. row' = [row EXCEPT ![n] = r] /\ order' = <<n>> \o order
    BY <1>4 DEF Insert
  <2> HIDE DEF r
  <2>4. QED
    BY <1>1, <2>2, <2>3
<1>5. ASSUME n \in Present, NEW r, r \in Row, row' = [row EXCEPT ![n] = r]
      PROVE  row' \in [Names -> Row \cup {NoRow}]
  BY <1>1, <1>5
<1>6. ASSUME NEW what \in Whats, NEW b \in BOOLEAN, NEW d \in BOOLEAN, Amend(n, what, b, d)
      PROVE  row' \in [Names -> Row \cup {NoRow}] /\ order' \in Seq(Names)
  <2>1. [row[n] EXCEPT !.what = what, !.enabled = b, !.due = d] \in Row
    BY <1>3, <1>6 DEF Amend, Row
  <2>2. row' = [row EXCEPT ![n] = [row[n] EXCEPT !.what = what, !.enabled = b, !.due = d]]
        /\ n \in Present /\ order' = order
    BY <1>6 DEF Amend
  <2>3. QED
    BY <1>1, <1>5, <2>1, <2>2
<1>7. ASSUME set_enabled(n) \/ set_interval(n) \/ Elapse(n)
      PROVE  row' \in [Names -> Row \cup {NoRow}] /\ order' \in Seq(Names)
  <2>1. n \in Present /\ order' = order
    BY <1>7 DEF set_enabled, set_interval, Elapse
  <2>2. CASE \E b \in BOOLEAN : row' = [row EXCEPT ![n] = [row[n] EXCEPT !.enabled = b]]
    <3>1. PICK b \in BOOLEAN : row' = [row EXCEPT ![n] = [row[n] EXCEPT !.enabled = b]]
      BY <2>2
    <3>2. [row[n] EXCEPT !.enabled = b] \in Row
      BY <1>3, <2>1 DEF Row
    <3>3. QED
      BY <1>1, <1>5, <2>1, <3>1, <3>2
  <2>3. CASE \E d \in BOOLEAN : row' = [row EXCEPT ![n] = [row[n] EXCEPT !.due = d]]
    <3>1. PICK d \in BOOLEAN : row' = [row EXCEPT ![n] = [row[n] EXCEPT !.due = d]]
      BY <2>3
    <3>2. [row[n] EXCEPT !.due = d] \in Row
      BY <1>3, <2>1 DEF Row
    <3>3. QED
      BY <1>1, <1>5, <2>1, <3>1, <3>2
  <2>4. DueAfter(n) \subseteq BOOLEAN
    BY DEF DueAfter
  <2>5. QED
    BY <1>7, <2>2, <2>3, <2>4 DEF set_enabled, set_interval, Elapse
<1>8. ASSUME Deleted(n)
      PROVE  row' \in [Names -> Row \cup {NoRow}] /\ order' \in Seq(Names)
  BY <1>1, <1>2, <1>8 DEF Deleted
<1>9. ASSUME NEW c \in Copy, Recorded(c)
      PROVE  row' \in [Names -> Row \cup {NoRow}] /\ order' \in Seq(Names)
  <2>1. CASE c.name \in Present /\ row[c.name].id = c.id
    <3>1. c.name \in Names /\ row[c.name] \in Row /\ c.id \in 0..MaxEdits
      BY <1>1, <2>1 DEF Present, Copy
    <3>2. [row[c.name] EXCEPT !.due = FALSE, !.checked = c.id] \in Row
      BY <3>1 DEF Row
    <3>3. row' = [row EXCEPT ![c.name] = [row[c.name] EXCEPT !.due = FALSE, !.checked = c.id]]
          /\ order' = Append(Only(order, Names \ {c.name}), c.name)
      BY <1>9, <2>1 DEF Recorded
    <3>4. row' \in [Names -> Row \cup {NoRow}]
      BY <1>1, <3>1, <3>2, <3>3
    <3>5. QED
      BY <1>2, <3>1, <3>3, <3>4
  <2>2. CASE ~(c.name \in Present /\ row[c.name].id = c.id)
    BY <1>1, <1>9, <2>2 DEF Recorded
  <2>3. QED
    BY <2>1, <2>2
<1>10. QED
  BY <1>4, <1>6, <1>7, <1>8, <1>9

-----------------------------------------------------------------------------
\* What a step may do to the row of n: nothing that a copy tells of, make its name
\* loose, bring in a fresh row, or drop one that lists nothing and is not being synced.
Moved(n) ==
  \/ Open(n, loose')
  \/ row'[n].id = row[n].id /\ row'[n].what = row[n].what
  \/ row[n].id = 0 /\ row'[n].id = edits + 1
  \/ row'[n].id = 0 /\ ~Writing(n) /\ \A w \in Whats : entries[<<n, w>>] = {}

RowSteps ==
  /\ loose \subseteq loose' /\ edits' \in {edits, edits + 1}
  /\ \A n \in Names : Moved(n) /\ row'[n].id <= edits'

\* No feed has more entries than before.
Shrinks == \A n \in Names \ {Manual}, w \in Whats : entries'[<<n, w>>] \subseteq entries[<<n, w>>]

(* A copy stays true, and one that fits goes on to fit unless its row is   *)
(* dropped, which no step does under a sync.                               *)
LEMMA CopiesStay ==
  ASSUME FeedTypes, RowSteps, NEW c \in Copy, c.id <= edits
  PROVE  /\ c.id <= edits'
         /\ FitsIfThere(c, row, loose) => FitsIfThere(c, row', loose')
         /\ Fits(c, row, loose) /\ Writing(c.name) => Fits(c, row', loose')
<1>1. c.name \in Names /\ c.id \in Nat /\ c.id # 0 /\ edits \in Nat
  BY BoundsAssumption DEF Copy, FeedTypes
<1>2. c.id <= edits'
  BY <1>1 DEF RowSteps
<1>3. Open(c.name, loose) => Open(c.name, loose')
  BY DEF Open, RowSteps
<1>4. Moved(c.name)
  BY <1>1 DEF RowSteps
<1>5. FitsIfThere(c, row, loose) => FitsIfThere(c, row', loose')
  BY <1>1, <1>3, <1>4 DEF Moved, FitsIfThere
<1>6. Fits(c, row, loose) /\ Writing(c.name) => Fits(c, row', loose')
  BY <1>1, <1>3, <1>4 DEF Moved, Fits
<1>7. QED
  BY <1>2, <1>5, <1>6

(* What a job relies on survives such a step, where no feed grows.         *)
LEMMA JobsStay ==
  ASSUME FeedInv, RowSteps, Shrinks, NEW j \in Jobs
  PROVE  Reliable(job[j], row', entries', loose', edits')
<1> DEFINE r == job[j]
           n == r.src.name
           w == r.src.what
<1>1. Reliable(r, row, entries, loose, edits)
  BY DEF FeedInv, JobsInv
<1>2. CASE r.pc = "idle"
  BY <1>2 DEF Reliable, Writes, Deletes
<1>3. CASE r.pc # "idle"
  <2>1. r.src \in Copy /\ r.src.id <= edits
    BY <1>1, <1>3 DEF Reliable
  <2>2. n \in Names /\ w \in Whats
    BY <2>1 DEF Copy
  <2>3. r.pc \in Writes => Writing(n)
    BY DEF Writing, Writes
  <2>4. FeedTypes
    BY DEF FeedInv
  <2>5. r.src.id <= edits' /\ (r.pc \in Writes => Fits(r.src, row', loose'))
        /\ (r.pc \in Deletes => FitsIfThere(r.src, row', loose'))
    BY <1>1, <2>1, <2>3, <2>4, CopiesStay DEF Reliable
  <2>6. Open(n, loose') \/ (~Open(n, loose) /\ entries'[<<n, w>>] \subseteq entries[<<n, w>>])
    BY <2>2 DEF Open, RowSteps, Shrinks
  <2>7. QED
    BY <1>1, <2>1, <2>5, <2>6 DEF Reliable
<1>4. QED
  BY <1>2, <1>3

(* So do the copies of a pass, and so does the rest of the invariant.      *)
LEMMA TablesStay ==
  ASSUME FeedInv, FeedTypes', RowSteps, Shrinks
  PROVE  /\ RowsInv' /\ OrphansAreOverlaps'
         /\ \A i \in DOMAIN queue : queue[i].id <= edits' /\ Fits(queue[i], row', loose')
<1>1. RowsInv'
  BY DEF RowsInv, RowSteps
<1>2. OrphansAreOverlaps'
  <2> SUFFICES ASSUME NEW n \in Names \ {Manual}, NEW w \in Whats, entries'[<<n, w>>] # {},
                      n \notin loose'
               PROVE  n \in Present' /\ row'[n].what = w
    BY DEF OrphansAreOverlaps
  <2>1. entries[<<n, w>>] # {} /\ n \notin loose
    BY DEF Shrinks, RowSteps
  <2>2. n \in Present /\ row[n].what = w
    BY <2>1 DEF FeedInv, OrphansAreOverlaps
  <2>3. row[n].id # 0
    BY <2>2, PresentHasId DEF FeedInv
  <2>4. row'[n].id = row[n].id /\ row'[n].what = row[n].what
    BY <2>1, <2>3 DEF RowSteps, Moved, Open
  <2>5. row'[n].id # 0 => n \in Present'
    <3>1. NoRow.id = 0
      BY DEF NoRow
    <3>2. QED
      BY <3>1 DEF Present
  <2>6. QED
    BY <2>2, <2>3, <2>4, <2>5
<1>3. ASSUME NEW i \in DOMAIN queue PROVE queue[i].id <= edits' /\ Fits(queue[i], row', loose')
  <2>1. queue[i] \in Copy
    BY DEF FeedInv, FeedTypes
  <2>2. queue[i].id <= edits /\ Fits(queue[i], row, loose) /\ Writing(queue[i].name)
    BY DEF FeedInv, QueueInv, Writing
  <2>3. QED
    BY <2>1, <2>2, CopiesStay DEF FeedInv
<1>4. QED
  BY <1>1, <1>2, <1>3

\* The queue holds no copy it did not hold.
QueueShrinks == \A i \in DOMAIN queue' : \E k \in DOMAIN queue : queue'[i] = queue[k]

(* A step that moves rows, and one job at most.                            *)
LEMMA RowStepKeeps ==
  ASSUME FeedInv, FeedTypes', RowSteps, Shrinks, QueueShrinks,
         \A j \in Jobs : job'[j] = job[j] \/ job'[j] = NoJob
  PROVE  FeedInv'
<1>1. ASSUME NEW j \in Jobs PROVE Reliable(job'[j], row', entries', loose', edits')
  <2>1. CASE job'[j] = job[j]
    BY <2>1, JobsStay
  <2>2. CASE job'[j] = NoJob
    <3>1. NoJob.pc = "idle"
      BY DEF NoJob
    <3>2. QED
      BY <2>2, <3>1 DEF Reliable, Writes, Deletes
  <2>3. QED
    BY <1>1, <2>1, <2>2
<1>2. job'[Worker].pc \notin Deletes
  BY DEF FeedInv, JobsInv, NoJob, Deletes, Jobs
<1>3. QueueInv'
  BY TablesStay DEF QueueInv, QueueShrinks
<1>4. QED
  BY <1>1, <1>2, <1>3, TablesStay DEF FeedInv, JobsInv

(* A step of one job that writes nothing yet.                              *)
LEMMA JobStepKeeps ==
  ASSUME FeedInv, row' = row, order' = order, entries' = entries, loose' = loose,
         edits' \in {edits, edits + 1}, edits' \in 0..MaxEdits,
         queue' \in Seq(Copy), QueueShrinks,
         NEW j \in Jobs, NEW r \in Job, job' = [job EXCEPT ![j] = r],
         Reliable(r, row, entries, loose, edits), j = Worker => r.pc \notin Deletes
  PROVE  FeedInv'
<1>1. FeedTypes'
  BY DEF FeedInv, FeedTypes
<1>2. edits \in Nat /\ \A n \in Names : row[n].id \in Nat
  BY BoundsAssumption, PresentHasId DEF FeedInv, FeedTypes
<1>3. RowSteps /\ Shrinks
  BY <1>2 DEF RowSteps, Shrinks, Moved, FeedInv, RowsInv
<1>4. ASSUME NEW i \in Jobs PROVE Reliable(job'[i], row', entries', loose', edits')
  <2>1. CASE i = j
    <3>1. job'[i] = r
      BY <2>1 DEF FeedInv, FeedTypes
    <3>2. r.pc # "idle" => r.src \in Copy /\ r.src.id <= edits'
      BY <1>2 DEF Reliable, Copy
    <3>3. QED
      BY <3>1, <3>2 DEF Reliable
  <2>2. CASE i # j
    <3>1. job'[i] = job[i]
      BY <2>2 DEF FeedInv, FeedTypes
    <3>2. QED
      BY <1>3, <3>1, JobsStay
  <2>3. QED
    BY <2>1, <2>2
<1>5. job'[Worker].pc \notin Deletes
  BY DEF FeedInv, FeedTypes, JobsInv, Jobs
<1>6. QueueInv'
  BY <1>1, <1>3, TablesStay DEF QueueInv, QueueShrinks
<1>7. QED
  BY <1>1, <1>3, <1>4, <1>5, <1>6, TablesStay DEF FeedInv, JobsInv

(* Entries leave one feed, and with them what other transactions saw.      *)
LEMMA GoneStays ==
  ASSUME FeedInv, NEW k \in Key, NEW S, NEW j \in Jobs,
         row' = row, loose \subseteq loose', edits' \in {edits, edits + 1},
         Open(k[1], loose') \/ entries'[k] \subseteq entries[k] \ S,
         \A n \in Names \ {Manual}, w \in Whats :
           <<n, w>> # k => entries'[<<n, w>>] \subseteq entries[<<n, w>>]
  PROVE  Reliable(Gone(k, S)[j], row', entries', loose', edits')
<1> DEFINE r == job[j]
           g == Gone(k, S)[j]
<1>1. Reliable(r, row, entries, loose, edits) /\ FeedTypes
  BY DEF FeedInv, JobsInv
<1>2. /\ g.pc = r.pc /\ g.src = r.src
      /\ KeyOf(j) = k => g.doomed = r.doomed \ S
      /\ KeyOf(j) # k => g.doomed = r.doomed
  BY <1>1, GoneType
<1>3. r.pc # "idle" => r.src \in Copy /\ r.src.id <= edits'
  BY <1>1, BoundsAssumption DEF Reliable, Copy, FeedTypes
<1>4. /\ r.pc \in Writes => Fits(r.src, row', loose')
      /\ r.pc \in Deletes => FitsIfThere(r.src, row', loose')
  BY <1>1 DEF Reliable, Fits, FitsIfThere, Open
<1>5. ASSUME r.pc \in {"cleared", "drop"}, ~Open(r.src.name, loose')
      PROVE  /\ r.pc = "cleared" => entries'[<<r.src.name, r.src.what>>] \subseteq g.doomed
             /\ r.pc = "drop" => entries'[<<r.src.name, r.src.what>>] = {}
  <2> DEFINE key == <<r.src.name, r.src.what>>
  <2>1. /\ r.pc = "cleared" => entries[key] \subseteq r.doomed
        /\ r.pc = "drop" => entries[key] = {}
    BY <1>1, <1>5 DEF Reliable, Open
  <2>2. r.src.name \in Names \ {Manual} /\ r.src.what \in Whats /\ key = KeyOf(j) /\ key[1] = r.src.name
    BY <1>3, <1>5 DEF Copy, KeyOf, Open
  <2>3. CASE key = k
    BY <1>2, <1>5, <2>1, <2>2, <2>3
  <2>4. CASE key # k
    BY <1>2, <2>1, <2>2, <2>4
  <2>5. QED
    BY <2>3, <2>4
<1> HIDE DEF r, g
<1>6. QED
  BY <1>2, <1>3, <1>4, <1>5 DEF Reliable, g

(* An operator's hand.                                                     *)
LEMMA EntryEdits ==
  ASSUME FeedInv, (\E e \in Listings : add_one(e)) \/ (\E k \in Key, e \in Listings : remove_one(k, e))
  PROVE  FeedInv'
<1>1. FeedTypes /\ edits \in Nat /\ \A n \in Names : row[n].id \in Nat
  BY BoundsAssumption, PresentHasId DEF FeedInv, FeedTypes
<1>2. CASE \E e \in Listings : add_one(e)
  <2>1. PICK e \in Listings : add_one(e)
    BY <1>2
  <2>2. /\ row' = row /\ order' = order /\ job' = job /\ loose' = loose /\ queue' = queue
        /\ edits' = edits + 1 /\ edits' \in 0..MaxEdits
    BY <1>1, <2>1, BoundsAssumption DEF add_one, Edit, FeedTypes
  <2>3. entries' = [entries EXCEPT ![<<Manual, "npm">>] = @ \cup {e}]
    BY <2>1 DEF add_one
  <2>4. <<Manual, "npm">> \in Key
    BY EcosystemsAssumption DEF Key
  <2>5. entries' \in [Key -> SUBSET Listings]
    BY <1>1, <2>3, <2>4 DEF FeedTypes
  <2>6. Shrinks
    <3>1. ASSUME NEW n \in Names \ {Manual}, NEW w \in Whats
          PROVE  entries'[<<n, w>>] = entries[<<n, w>>]
      <4>1. <<n, w>> \in Key /\ <<n, w>> # <<Manual, "npm">>
        BY DEF Key
      <4>2. QED
        BY <1>1, <2>3, <4>1 DEF FeedTypes
    <3>2. QED
      BY <3>1 DEF Shrinks
  <2>7. FeedTypes'
    BY <2>2, <2>5 DEF FeedTypes, FeedInv
  <2>8. RowSteps
    BY <1>1, <2>2 DEF RowSteps, Moved, FeedInv, RowsInv
  <2>9. QED
    BY <2>2, <2>6, <2>7, <2>8, RowStepKeeps DEF QueueShrinks
<1>3. ASSUME NEW k \in Key, NEW e \in Listings, remove_one(k, e)
      PROVE  FeedInv'
  <2>1. /\ row' = row /\ order' = order /\ loose' = loose /\ queue' = queue
        /\ edits' = edits + 1 /\ edits' \in 0..MaxEdits /\ job' = Gone(k, {e})
    BY <1>1, <1>3, BoundsAssumption DEF remove_one, Edit, FeedTypes
  <2>2. entries' = [entries EXCEPT ![k] = @ \ {e}]
    BY <1>3 DEF remove_one
  <2>3. /\ entries' \in [Key -> SUBSET Listings] /\ entries'[k] = entries[k] \ {e}
        /\ \A l \in Key : l # k => entries'[l] = entries[l]
    BY <1>1, <2>2 DEF FeedTypes
  <2>4. \A n \in Names, w \in Whats : <<n, w>> \in Key
    BY DEF Key
  <2>5. Shrinks
    BY <2>3, <2>4 DEF Shrinks
  <2>6. FeedTypes'
    BY <1>1, <2>1, <2>3, GoneType DEF FeedTypes, FeedInv
  <2>7. RowSteps
    BY <1>1, <2>1 DEF RowSteps, Moved, FeedInv, RowsInv
  <2>8. ASSUME NEW j \in Jobs PROVE Reliable(job'[j], row', entries', loose', edits')
    BY <2>1, <2>3, <2>4, GoneStays
  <2>9. job'[Worker].pc \notin Deletes
    <3>1. Gone(k, {e})[Worker].pc = job[Worker].pc
      BY <1>1, GoneType DEF Jobs
    <3>2. QED
      BY <2>1, <3>1 DEF FeedInv, JobsInv
  <2>10. QueueInv'
    BY <2>1, <2>5, <2>6, <2>7, TablesStay DEF QueueInv
  <2>11. QED
    BY <2>5, <2>6, <2>7, <2>8, <2>9, <2>10, TablesStay DEF FeedInv, JobsInv
<1>4. QED
  BY <1>2, <1>3

(* A commit makes its source list what the sync got, or nothing.           *)
LEMMA ReplacedType ==
  ASSUME FeedInv, NEW j \in Jobs, NEW S \in SUBSET Listings, Replaced(j, S),
         NEW k, k = KeyOf(j), NEW end, end = IF job[j].pc = "cleared" THEN "drop" ELSE "mark"
  PROVE  /\ k \in Key /\ entries' \in [Key -> SUBSET Listings]
         /\ entries'[k] = (entries[k] \ job[j].doomed) \cup S
         /\ \A l \in Key : l # k => entries'[l] = entries[l]
         /\ job' \in [Jobs -> Job]
         /\ job'[j].pc = end /\ job'[j].src = job[j].src
         /\ \A i \in Jobs : i # j => job'[i] = Gone(k, job[j].doomed)[i]
<1>1. FeedTypes /\ k \in Key /\ entries \in [Key -> SUBSET Listings]
  BY JobTypes DEF FeedInv, FeedTypes
<1>2. entries' = [entries EXCEPT ![k] = (@ \ job[j].doomed) \cup S]
  BY DEF Replaced
<1>3. /\ entries' \in [Key -> SUBSET Listings]
      /\ entries'[k] = (entries[k] \ job[j].doomed) \cup S
      /\ \A l \in Key : l # k => entries'[l] = entries[l]
  BY <1>1, <1>2
<1> DEFINE r == [pc |-> end, src |-> job[j].src, got |-> {}, doomed |-> {}]
           others == Gone(k, job[j].doomed)
<1>4. r \in Job /\ r.pc = end /\ r.src = job[j].src
  <2>1. job[j].src \in Copy \cup {NoCopy}
    BY <1>1, JobTypes
  <2>2. QED
    BY <2>1 DEF Job
<1>5. others \in [Jobs -> Job]
  BY <1>1, GoneType
<1>6. job' = [others EXCEPT ![j] = r]
  BY DEF Replaced
<1> HIDE DEF r, others
<1>7. /\ job' \in [Jobs -> Job] /\ job'[j] = r
      /\ \A i \in Jobs : i # j => job'[i] = others[i]
  BY <1>4, <1>5, <1>6
<1>8. QED
  BY <1>1, <1>3, <1>4, <1>7 DEF others

(* The commit of a deletion: nothing is left that the deletion did not see.*)
LEMMA ClearedKeeps ==
  ASSUME FeedInv, NEW j \in Jobs, Cleared(j)
  PROVE  FeedInv'
<1>1. /\ row' = row /\ order' = order /\ loose' = loose /\ queue' = queue /\ edits' = edits
      /\ job[j].pc = "cleared" /\ Replaced(j, {})
  BY DEF Cleared
<1>2. FeedTypes /\ edits \in Nat /\ \A n \in Names : row[n].id \in Nat
  BY BoundsAssumption, PresentHasId DEF FeedInv, FeedTypes
<1>3. PICK k : k = KeyOf(j)
  OBVIOUS
<1>4. /\ k \in Key /\ entries' \in [Key -> SUBSET Listings]
      /\ entries'[k] = entries[k] \ job[j].doomed
      /\ \A l \in Key : l # k => entries'[l] = entries[l]
      /\ job' \in [Jobs -> Job]
      /\ job'[j].pc = "drop" /\ job'[j].src = job[j].src
      /\ \A i \in Jobs : i # j => job'[i] = Gone(k, job[j].doomed)[i]
  <2>1. {} \in SUBSET Listings /\ "drop" = IF job[j].pc = "cleared" THEN "drop" ELSE "mark"
    BY <1>1
  <2>2. /\ k \in Key /\ entries' \in [Key -> SUBSET Listings]
        /\ entries'[k] = (entries[k] \ job[j].doomed) \cup {}
        /\ \A l \in Key : l # k => entries'[l] = entries[l]
        /\ job' \in [Jobs -> Job]
        /\ job'[j].pc = "drop" /\ job'[j].src = job[j].src
        /\ \A i \in Jobs : i # j => job'[i] = Gone(k, job[j].doomed)[i]
    BY <1>1, <1>3, <2>1, ReplacedType
  <2>3. QED
    BY <2>2
<1>5. \A n \in Names, w \in Whats : <<n, w>> \in Key
  BY DEF Key
<1>6. Shrinks
  BY <1>4, <1>5 DEF Shrinks
<1>7. FeedTypes'
  BY <1>1, <1>2, <1>4 DEF FeedTypes
<1>8. RowSteps
  BY <1>1, <1>2 DEF RowSteps, Moved, FeedInv, RowsInv
<1>9. ASSUME NEW i \in Jobs PROVE Reliable(job'[i], row', entries', loose', edits')
  <2>1. CASE i = j
    <3>1. Reliable(job[j], row, entries, loose, edits)
      BY DEF FeedInv, JobsInv
    <3>2. k = <<job[j].src.name, job[j].src.what>>
      BY <1>3 DEF KeyOf
    <3>3. Open(job[j].src.name, loose) \/ entries'[k] = {}
      BY <1>1, <1>4, <3>1, <3>2 DEF Reliable
    <3>4. QED
      BY <1>1, <1>4, <2>1, <3>1, <3>2, <3>3 DEF Reliable, Writes, Deletes
  <2>2. CASE i # j
    <3>1. Reliable(Gone(k, job[j].doomed)[i], row', entries', loose', edits')
      BY <1>1, <1>4, <1>5, GoneStays
    <3>2. QED
      BY <1>4, <2>2, <3>1
  <2>3. QED
    BY <2>1, <2>2
<1>10. job'[Worker].pc \notin Deletes
  <2>1. Worker # j /\ Worker \in Jobs
    BY <1>1 DEF FeedInv, JobsInv, Deletes, Jobs
  <2>2. Gone(k, job[j].doomed)[Worker].pc = job[Worker].pc
    BY <1>2, <2>1, GoneType
  <2>3. QED
    BY <1>4, <2>1, <2>2 DEF FeedInv, JobsInv
<1>11. QueueInv'
  BY <1>1, <1>6, <1>7, <1>8, TablesStay DEF QueueInv
<1>12. QED
  BY <1>6, <1>7, <1>8, <1>9, <1>10, <1>11, TablesStay DEF FeedInv, JobsInv

(* The commit of a sync: its row still lists what it inserts, and where a  *)
(* deletion is under way the name is loose from now on.                    *)
LEMMA InsertKeeps ==
  ASSUME FeedInv, NEW j \in Jobs, InsertNew(j)
  PROVE  FeedInv'
<1>1. /\ row' = row /\ order' = order /\ queue' = queue /\ edits' = edits
      /\ job[j].pc = "insert" /\ Replaced(j, job[j].got)
      /\ loose' = IF Deleting(job[j].src.name) THEN loose \cup {job[j].src.name} ELSE loose
  BY DEF InsertNew
<1>2. FeedTypes /\ edits \in Nat /\ \A n \in Names : row[n].id \in Nat
  BY BoundsAssumption, PresentHasId DEF FeedInv, FeedTypes
<1>3. PICK k : k = KeyOf(j)
  OBVIOUS
<1>4. /\ k \in Key /\ entries' \in [Key -> SUBSET Listings]
      /\ \A l \in Key : l # k => entries'[l] = entries[l]
      /\ job' \in [Jobs -> Job]
      /\ job'[j].pc = "mark" /\ job'[j].src = job[j].src
      /\ \A i \in Jobs : i # j => job'[i] = Gone(k, job[j].doomed)[i]
  <2>1. job[j].got \in SUBSET Listings /\ "mark" = IF job[j].pc = "cleared" THEN "drop" ELSE "mark"
    BY <1>1, <1>2, JobTypes
  <2>2. QED
    BY <1>1, <1>3, <2>1, ReplacedType
<1>5. PICK n \in Names, w \in Whats : n = job[j].src.name /\ w = job[j].src.what /\ k = <<n, w>>
  <2>1. Reliable(job[j], row, entries, loose, edits)
    BY DEF FeedInv, JobsInv
  <2>2. job[j].src \in Copy
    BY <1>1, <2>1 DEF Reliable
  <2>3. QED
    BY <1>3, <2>2 DEF KeyOf, Copy
<1>6. loose \subseteq loose' /\ loose' \in SUBSET Names
  BY <1>1, <1>2, <1>5 DEF FeedTypes
<1>7. FeedTypes'
  BY <1>1, <1>2, <1>4, <1>6 DEF FeedTypes
<1>8. Open(n, loose') \/ (row[n].id # 0 /\ row[n].what = w)
  <2>1. Reliable(job[j], row, entries, loose, edits) /\ job[j].pc \in Writes /\ job[j].src \in Copy
    BY <1>1 DEF FeedInv, JobsInv, Reliable, Writes
  <2>2. Fits(job[j].src, row, loose) /\ job[j].src.id # 0
    BY <2>1, BoundsAssumption DEF Reliable, Copy
  <2>3. QED
    BY <1>5, <1>6, <2>2 DEF Fits, Open
<1>9. OrphansAreOverlaps'
  <2> SUFFICES ASSUME NEW m \in Names \ {Manual}, NEW v \in Whats, entries'[<<m, v>>] # {},
                      m \notin loose'
               PROVE  m \in Present' /\ row'[m].what = v
    BY DEF OrphansAreOverlaps
  <2>1. m \in Present /\ row[m].what = v
    <3>1. CASE <<m, v>> = k
      BY <1>2, <1>5, <1>8, <3>1, PresentHasId DEF Open
    <3>2. CASE <<m, v>> # k
      <4>1. <<m, v>> \in Key
        BY DEF Key
      <4>2. entries[<<m, v>>] # {} /\ m \notin loose
        BY <1>4, <1>6, <3>2, <4>1
      <4>3. QED
        BY <4>2 DEF FeedInv, OrphansAreOverlaps
    <3>3. QED
      BY <3>1, <3>2
  <2>2. QED
    BY <1>1, <2>1 DEF Present
<1>10. ASSUME NEW i \in Jobs PROVE Reliable(job'[i], row', entries', loose', edits')
  <2>1. Reliable(job[i], row, entries, loose, edits)
    BY DEF FeedInv, JobsInv
  <2>2. CASE i = j
    <3>1. Reliable(job[j], row, entries, loose, edits)
      BY DEF FeedInv, JobsInv
    <3>2. QED
      BY <1>1, <1>4, <2>2, <3>1 DEF Reliable, Writes, Deletes
  <2>3. CASE i # j
    <3> DEFINE g == Gone(k, job[j].doomed)[i]
    <3>1. g.pc = job[i].pc /\ g.src = job[i].src /\ job'[i] = g
          /\ (KeyOf(i) # k => g.doomed = job[i].doomed)
      BY <1>2, <1>4, <2>3, GoneType
    <3>2. job[i].pc # "idle" => job[i].src \in Copy /\ job[i].src.id <= edits'
      BY <1>1, <2>1 DEF Reliable
    <3>3. /\ job[i].pc \in Writes => Fits(job[i].src, row', loose')
          /\ job[i].pc \in Deletes => FitsIfThere(job[i].src, row', loose')
      BY <1>1, <1>6, <2>1 DEF Reliable, Fits, FitsIfThere, Open
    <3>4. ASSUME job[i].pc \in {"cleared", "drop"}, ~Open(job[i].src.name, loose')
          PROVE  /\ KeyOf(i) # k /\ KeyOf(i) \in Key /\ entries'[KeyOf(i)] = entries[KeyOf(i)]
                 /\ ~Open(job[i].src.name, loose)
      <4>1. i \in Handlers
        BY <3>4 DEF FeedInv, JobsInv, Deletes, Jobs
      <4>2. job[i].src.name # n
        BY <1>1, <1>5, <3>4, <4>1 DEF Deleting, Open
      <4>3. KeyOf(i) \in Key
        BY <1>2, JobTypes
      <4>4. QED
        BY <1>4, <1>5, <1>6, <3>4, <4>2, <4>3 DEF KeyOf, Open
    <3> HIDE DEF g
    <3>5. KeyOf(i) = <<job[i].src.name, job[i].src.what>>
      BY DEF KeyOf
    <3>6. QED
      BY <2>1, <3>1, <3>2, <3>3, <3>4, <3>5 DEF Reliable
  <2>4. QED
    BY <2>2, <2>3
<1>11. job'[Worker].pc \notin Deletes
  <2>1. Worker \in Jobs
    BY DEF Jobs
  <2>2. Gone(k, job[j].doomed)[Worker].pc = job[Worker].pc
    BY <1>2, <2>1, GoneType
  <2>3. CASE Worker = j
    BY <1>4, <2>3 DEF Deletes
  <2>4. QED
    BY <1>4, <2>1, <2>2, <2>3 DEF FeedInv, JobsInv
<1>12. RowsInv' /\ QueueInv'
  BY <1>1, <1>6 DEF FeedInv, RowsInv, QueueInv, Fits, Open
<1>13. QED
  BY <1>7, <1>9, <1>10, <1>11, <1>12 DEF FeedInv, JobsInv

(* A deletion drops the row it read, if it is still there.                 *)
LEMMA DropKeeps ==
  ASSUME FeedInv, NEW h \in Handlers, Drop(h)
  PROVE  FeedInv'
<1> DEFINE n == job[h].src.name
<1>1. /\ entries' = entries /\ queue' = queue /\ edits' = edits /\ job[h].pc = "drop"
      /\ job' = [job EXCEPT ![h] = NoJob]
  BY DEF Drop
<1>2. FeedTypes /\ edits \in Nat /\ \A m \in Names : row[m].id \in Nat
  BY BoundsAssumption, PresentHasId DEF FeedInv, FeedTypes
<1>3. h \in Jobs /\ Reliable(job[h], row, entries, loose, edits)
  BY DEF FeedInv, JobsInv, Jobs
<1>4. job[h].src \in Copy /\ n \in Names
  BY <1>1, <1>3 DEF Reliable, Copy
<1>5. Shrinks /\ QueueShrinks /\ \A j \in Jobs : job'[j] = job[j] \/ job'[j] = NoJob
  BY <1>1, <1>2 DEF Shrinks, QueueShrinks, FeedTypes
<1>6. NoJob \in Job
  BY <1>2, <1>3, JobTypes
<1>7. CASE row[n].id = job[h].src.id
  <2>1. Deleted(n) /\ loose' = IF Writing(n) THEN loose \cup {n} ELSE loose
    BY <1>7 DEF Drop
  <2>2. row' = [row EXCEPT ![n] = NoRow]
    BY <2>1 DEF Deleted
  <2>3. loose \subseteq loose' /\ loose' \in SUBSET Names
    BY <1>2, <1>4, <2>1 DEF FeedTypes
  <2>4. FeedTypes'
    <3>1. row' \in [Names -> Row \cup {NoRow}] /\ order' \in Seq(Names)
      BY <1>2, <1>4, <2>1, TableTypes
    <3>2. QED
      BY <1>1, <1>2, <1>6, <2>3, <3>1 DEF FeedTypes
  <2>5. ASSUME NEW m \in Names, m # n PROVE Moved(m) /\ row'[m].id <= edits'
    <3>1. row'[m] = row[m]
      BY <1>2, <2>2, <2>5 DEF FeedTypes
    <3>2. QED
      BY <1>1, <3>1 DEF Moved, FeedInv, RowsInv
  <2>6. Moved(n) /\ row'[n].id <= edits'
    <3>1. row'[n].id = 0
      BY <1>2, <1>4, <2>2 DEF FeedTypes, NoRow
    <3>2. Open(n, loose') \/ (n \in Names \ {Manual} /\ n \notin loose /\ ~Writing(n))
      BY <1>4, <2>1, <2>3 DEF Open
    <3>3. ASSUME n \in Names \ {Manual}, n \notin loose, NEW w \in Whats
          PROVE  entries[<<n, w>>] = {}
      <4>1. /\ entries[<<n, job[h].src.what>>] = {}
            /\ row[n].what = job[h].src.what
        BY <1>1, <1>3, <1>7, <3>3 DEF Reliable, FitsIfThere, Open, Deletes
      <4>2. w # row[n].what => entries[<<n, w>>] = {}
        BY <3>3 DEF FeedInv, OrphansAreOverlaps
      <4>3. QED
        BY <4>1, <4>2
    <3>4. QED
      BY <1>1, <1>2, <3>1, <3>2, <3>3 DEF Moved
  <2>7. RowSteps
    BY <1>1, <2>3, <2>5, <2>6 DEF RowSteps
  <2>8. QED
    BY <1>5, <2>4, <2>7, RowStepKeeps
<1>8. CASE row[n].id # job[h].src.id
  <2>1. row' = row /\ order' = order /\ loose' = loose
    BY <1>8 DEF Drop
  <2>2. FeedTypes'
    BY <1>1, <1>2, <1>6, <2>1 DEF FeedTypes
  <2>3. RowSteps
    BY <1>1, <2>1 DEF RowSteps, Moved, FeedInv, RowsInv
  <2>4. QED
    BY <1>5, <2>2, <2>3, RowStepKeeps
<1>9. QED
  BY <1>7, <1>8

(* A sync records its outcome, under the id it read.                       *)
LEMMA MarkKeeps ==
  ASSUME FeedInv, WorkerInv, NEW j \in Jobs, mark_synced(j)
  PROVE  FeedInv'
<1>1. /\ entries' = entries /\ loose' = loose /\ edits' = edits /\ job[j].pc = "mark"
      /\ job' = [job EXCEPT ![j] = NoJob] /\ Recorded(job[j].src)
      /\ queue' = IF j = Worker THEN Tail(queue) ELSE queue
  BY DEF mark_synced
<1>2. FeedTypes /\ edits \in Nat /\ NoJob \in Job /\ \A m \in Names : row[m].id \in Nat
  BY BoundsAssumption, PresentHasId, JobTypes DEF FeedInv, FeedTypes
<1>3. PICK c \in Copy : c = job[j].src
  BY <1>1 DEF FeedInv, JobsInv, Reliable
<1>4. row' \in [Names -> Row \cup {NoRow}] /\ order' \in Seq(Names)
  <2>1. c.name \in Names
    BY DEF Copy
  <2>2. QED
    BY <1>1, <1>2, <1>3, <2>1, TableTypes
<1>5. \A n \in Names : row'[n].id = row[n].id /\ row'[n].what = row[n].what
  <2>1. CASE c.name \in Present /\ row[c.name].id = c.id
    <3>1. row' = [row EXCEPT ![c.name] = [row[c.name] EXCEPT !.due = FALSE, !.checked = c.id]]
      BY <1>1, <1>3, <2>1 DEF Recorded
    <3>2. row[c.name] \in Row /\ c.name \in Names
      BY <1>2, <2>1 DEF Present, FeedTypes
    <3>3. QED
      BY <1>2, <3>1, <3>2 DEF FeedTypes, Row
  <2>2. CASE ~(c.name \in Present /\ row[c.name].id = c.id)
    BY <1>1, <1>3, <2>2 DEF Recorded
  <2>3. QED
    BY <2>1, <2>2
<1>6. queue' \in Seq(Copy) /\ QueueShrinks
  <2>1. PICK q \in Seq(Copy) : q = queue
    BY <1>2 DEF FeedTypes
  <2>2. CASE j = Worker
    <3>1. queue' = Tail(q) /\ q # <<>>
      BY <1>1, <2>1, <2>2 DEF WorkerInv
    <3>2. \A i \in 1..Len(Tail(q)) : Tail(q)[i] = q[i + 1] /\ i + 1 \in DOMAIN q
      BY <3>1
    <3>3. Tail(q) \in Seq(Copy) /\ DOMAIN Tail(q) = 1..Len(Tail(q))
      BY <3>1
    <3>4. QED
      BY <2>1, <3>1, <3>2, <3>3 DEF QueueShrinks
  <2>3. CASE j # Worker
    BY <1>1, <2>1, <2>3 DEF QueueShrinks
  <2>4. QED
    BY <2>2, <2>3
<1>7. FeedTypes'
  BY <1>1, <1>2, <1>4, <1>6 DEF FeedTypes
<1>8. RowSteps
  BY <1>1, <1>5 DEF RowSteps, Moved, FeedInv, RowsInv
<1>9. Shrinks /\ \A i \in Jobs : job'[i] = job[i] \/ job'[i] = NoJob
  BY <1>1, <1>2 DEF Shrinks, FeedTypes
<1>10. QED
  BY <1>6, <1>7, <1>8, <1>9, RowStepKeeps

-----------------------------------------------------------------------------
(* A step that leaves the entries and the jobs alone.                      *)
LEMMA TableStepKeeps ==
  ASSUME FeedInv, RowSteps, row' \in [Names -> Row \cup {NoRow}], order' \in Seq(Names),
         loose' \in SUBSET Names, edits' \in 0..MaxEdits,
         queue' = queue, entries' = entries, job' = job
  PROVE  FeedInv'
<1>1. FeedTypes' /\ Shrinks /\ QueueShrinks
  BY DEF FeedInv, FeedTypes, Shrinks, QueueShrinks
<1>2. QED
  BY <1>1, RowStepKeeps

(* Operators add, change and amend sources, and intervals end.             *)
LEMMA OperatorKeeps ==
  ASSUME FeedInv, NEW n \in Names,
         \/ \E eco \in Whats : add_feed(n, eco)
         \/ update_feed(n)
         \/ Elapse(n) /\ UNCHANGED <<entries, job, loose>>
  PROVE  FeedInv'
<1>1. FeedTypes /\ edits \in Nat /\ \A m \in Names : row[m].id \in Nat /\ row[m].id <= edits
  BY BoundsAssumption, PresentHasId DEF FeedInv, FeedTypes, RowsInv
<1>2. ASSUME NEW r, row' = [row EXCEPT ![n] = r], loose \subseteq loose', edits' \in {edits, edits + 1},
             \/ r.id = row[n].id /\ (Open(n, loose') \/ r.what = row[n].what)
             \/ row[n].id = 0 /\ r.id = edits + 1 /\ edits' = edits + 1
      PROVE  RowSteps
  <2>1. row'[n] = r /\ \A m \in Names \ {n} : row'[m] = row[m]
    BY <1>1, <1>2 DEF FeedTypes
  <2>2. ASSUME NEW m \in Names PROVE Moved(m) /\ row'[m].id <= edits'
    BY <1>1, <1>2, <2>1 DEF Moved
  <2>3. QED
    BY <1>2, <2>2 DEF RowSteps
<1>3. Edit => queue' = queue /\ edits' = edits + 1 /\ edits' \in 0..MaxEdits
  BY <1>1, BoundsAssumption DEF Edit, FeedTypes
<1>4. n \in Present => row[n] \in Row
  BY <1>1 DEF Present, FeedTypes
<1>5. CASE \E eco \in Whats : add_feed(n, eco)
  <2>1. PICK eco \in Whats : add_feed(n, eco)
    BY <1>5
  <2>2. CASE Insert(n, eco, FALSE) /\ UNCHANGED loose
    <3> DEFINE r == [id |-> edits + 1, what |-> eco, enabled |-> FALSE, due |-> TRUE, checked |-> 0]
    <3>1. Edit /\ row' = [row EXCEPT ![n] = r] /\ n \notin Present /\ r.id = edits + 1
      BY <2>2 DEF Insert
    <3>2. row[n].id = 0
      BY <1>1, <3>1, PresentHasId
    <3> HIDE DEF r
    <3>3. RowSteps
      BY <1>2, <1>3, <2>2, <3>1, <3>2
    <3>4. row' \in [Names -> Row \cup {NoRow}] /\ order' \in Seq(Names)
      BY <1>1, <2>2, TableTypes
    <3>5. QED
      BY <1>1, <1>3, <2>1, <2>2, <3>1, <3>3, <3>4, TableStepKeeps DEF add_feed, FeedTypes
  <2>3. CASE /\ n \in Present /\ Amend(n, eco, row[n].enabled, row[n].due)
             /\ loose' = IF row[n].what # eco THEN loose \cup {n} ELSE loose
    <3> DEFINE r == [row[n] EXCEPT !.what = eco, !.enabled = row[n].enabled, !.due = row[n].due]
    <3>1. row[n] \in Row /\ row[n].enabled \in BOOLEAN /\ row[n].due \in BOOLEAN
      BY <1>4, <2>3 DEF Row
    <3>2. r.id = row[n].id /\ r.what = eco
      BY <3>1 DEF Row
    <3>3. Edit /\ row' = [row EXCEPT ![n] = r]
      BY <2>3 DEF Amend
    <3> HIDE DEF r
    <3>4. loose \subseteq loose' /\ loose' \in SUBSET Names /\ (Open(n, loose') \/ eco = row[n].what)
      BY <1>1, <2>3 DEF FeedTypes, Open
    <3>5. RowSteps
      BY <1>2, <1>3, <3>2, <3>3, <3>4
    <3>6. row' \in [Names -> Row \cup {NoRow}] /\ order' \in Seq(Names)
      BY <1>1, <2>3, <3>1, TableTypes
    <3>7. QED
      BY <1>3, <2>1, <3>3, <3>4, <3>5, <3>6, TableStepKeeps DEF add_feed
  <2>4. QED
    BY <2>1, <2>2, <2>3 DEF add_feed
<1>6. ASSUME set_enabled(n) \/ set_interval(n) \/ Elapse(n), UNCHANGED <<entries, job, loose>>
      PROVE  FeedInv'
  <2>1. n \in Present /\ row[n] \in Row
    BY <1>4, <1>6 DEF set_enabled, set_interval, Elapse
  <2>2. queue' = queue /\ edits' \in {edits, edits + 1} /\ edits' \in 0..MaxEdits
    BY <1>1, <1>3, <1>6 DEF set_enabled, set_interval, Elapse, FeedTypes
  <2>3. \E r : row' = [row EXCEPT ![n] = r] /\ r.id = row[n].id /\ r.what = row[n].what
    <3>1. CASE \E b \in BOOLEAN : row' = [row EXCEPT ![n] = [row[n] EXCEPT !.enabled = b]]
      <4>1. PICK b \in BOOLEAN : row' = [row EXCEPT ![n] = [row[n] EXCEPT !.enabled = b]]
        BY <3>1
      <4>2. /\ [row[n] EXCEPT !.enabled = b].id = row[n].id
            /\ [row[n] EXCEPT !.enabled = b].what = row[n].what
        BY <2>1 DEF Row
      <4>3. QED
        BY <4>1, <4>2
    <3>2. CASE \E d : row' = [row EXCEPT ![n] = [row[n] EXCEPT !.due = d]]
      <4>1. PICK d : row' = [row EXCEPT ![n] = [row[n] EXCEPT !.due = d]]
        BY <3>2
      <4>2. /\ [row[n] EXCEPT !.due = d].id = row[n].id
            /\ [row[n] EXCEPT !.due = d].what = row[n].what
        BY <2>1 DEF Row
      <4>3. QED
        BY <4>1, <4>2
    <3>3. QED
      BY <1>6, <3>1, <3>2 DEF set_enabled, set_interval, Elapse
  <2>4. RowSteps
    BY <1>2, <1>6, <2>2, <2>3
  <2>5. row' \in [Names -> Row \cup {NoRow}] /\ order' \in Seq(Names)
    BY <1>1, <1>6, TableTypes
  <2>6. QED
    BY <1>1, <1>6, <2>2, <2>4, <2>5, TableStepKeeps DEF FeedTypes
<1>7. QED
  BY <1>5, <1>6 DEF update_feed

(* A pass takes copies of rows as they are.                                *)
LEMMA PassKeeps ==
  ASSUME FeedInv, run_pass
  PROVE  FeedInv'
<1>1. /\ row' = row /\ order' = order /\ edits' = edits
      /\ entries' = entries /\ job' = job /\ loose' = loose
      /\ queue' = [i \in 1..Len(due) |->
                     [name |-> due[i], id |-> row[due[i]].id, what |-> row[due[i]].what]]
  BY DEF run_pass, Select
<1>2. FeedTypes /\ RowsInv
  BY DEF FeedInv
<1>3. ASSUME NEW i \in 1..Len(due), NEW c,
             c = [name |-> due[i], id |-> row[due[i]].id, what |-> row[due[i]].what]
      PROVE  c \in Copy /\ c.id <= edits /\ Fits(c, row, loose)
  <2>1. due[i] \in Present
    BY <1>2, DueType
  <2>2. c = CopyOf(due[i]) /\ due[i] \in Names
    BY <1>3, <2>1 DEF CopyOf, Present
  <2>3. c \in Copy /\ c.name = due[i] /\ c.id = row[due[i]].id /\ c.what = row[due[i]].what
    BY <1>2, <2>1, <2>2, CopyMade
  <2>4. QED
    BY <1>2, <2>2, <2>3 DEF Fits, RowsInv
<1>4. \A i \in 1..Len(due) :
        queue'[i] = [name |-> due[i], id |-> row[due[i]].id, what |-> row[due[i]].what]
  BY <1>1
<1>5. DOMAIN queue' = 1..Len(due) /\ Len(due) \in Nat
  BY <1>1, <1>2, DueType
<1>6. \A i \in 1..Len(due) : queue'[i] \in Copy /\ queue'[i].id <= edits /\ Fits(queue'[i], row, loose)
  BY <1>3, <1>4
<1>7. queue' \in Seq(Copy)
  <2>1. queue' = [i \in 1..Len(due) |-> queue'[i]]
    BY <1>1
  <2>2. PICK m \in Nat : m = Len(due)
    BY <1>5
  <2>3. QED
    BY <1>6, <2>1, <2>2
<1>8. FeedTypes'
  BY <1>1, <1>2, <1>7 DEF FeedTypes
<1>9. QueueInv'
  BY <1>1, <1>5, <1>6 DEF QueueInv
<1>10. RowsInv' /\ JobsInv' /\ OrphansAreOverlaps'
  BY <1>1 DEF FeedInv, RowsInv, JobsInv, OrphansAreOverlaps, Present
<1>11. QED
  BY <1>8, <1>9, <1>10 DEF FeedInv

-----------------------------------------------------------------------------
(* A queue that is emptied, or not.                                        *)
LEMMA QueueEmptied ==
  ASSUME FeedTypes, queue' \in {queue, <<>>}
  PROVE  queue' \in Seq(Copy) /\ QueueShrinks
<1>1. <<>> \in Seq(Copy) /\ DOMAIN <<>> = {}
  OBVIOUS
<1>2. CASE queue' = queue
  BY <1>2 DEF FeedTypes, QueueShrinks
<1>3. CASE queue' = <<>>
  BY <1>1, <1>3 DEF QueueShrinks
<1>4. QED
  BY <1>2, <1>3

(* A job is given the next thing to do; nothing else changes but, at most, *)
(* the number of edits and a queue that is emptied.                        *)
LEMMA StepJobKeeps ==
  ASSUME FeedInv, NEW j \in Jobs,
         NEW pc \in {"idle", "download", "delete", "insert", "mark", "clear", "cleared", "drop"},
         NEW src \in Copy \cup {NoCopy}, NEW got \in SUBSET Listings, NEW doomed \in SUBSET Listings,
         Step(j, pc, src, got, doomed),
         row' = row, order' = order, entries' = entries, loose' = loose,
         edits' = edits \/ Edit, queue' \in {queue, <<>>},
         j = Worker => pc \notin Deletes,
         pc # "idle" => src \in Copy /\ src.id <= edits,
         pc \in Writes => Fits(src, row, loose),
         pc \in Deletes => FitsIfThere(src, row, loose),
         pc = "cleared" => Open(src.name, loose) \/ entries[<<src.name, src.what>>] \subseteq doomed,
         pc # "drop"
  PROVE  FeedInv'
<1>1. PICK r \in Job : /\ job' = [job EXCEPT ![j] = r] /\ r.pc = pc /\ r.src = src /\ r.doomed = doomed
  <2> DEFINE r == [pc |-> pc, src |-> src, got |-> got, doomed |-> doomed]
  <2>1. r \in Job /\ r.pc = pc /\ r.src = src /\ r.doomed = doomed
    BY DEF Job
  <2>2. job' = [job EXCEPT ![j] = r]
    BY DEF Step
  <2> HIDE DEF r
  <2>3. QED
    BY <2>1, <2>2
<1>2. Reliable(r, row, entries, loose, edits)
  BY <1>1 DEF Reliable
<1>3. edits' \in {edits, edits + 1} /\ edits' \in 0..MaxEdits
  BY BoundsAssumption DEF FeedInv, FeedTypes, Edit
<1>4. queue' \in Seq(Copy) /\ QueueShrinks
  BY QueueEmptied DEF FeedInv
<1>5. QED
  BY <1>1, <1>2, <1>3, <1>4, JobStepKeeps

(* A sync or a deletion begins with a copy of a row as it is, or with one  *)
(* of the pass.                                                            *)
LEMMA StartKeeps ==
  ASSUME FeedInv, SyncNext \/ \E h \in Handlers, n \in Names : sync_feed(h, n) \/ delete_feed(h, n)
  PROVE  FeedInv'
<1>1. FeedTypes /\ RowsInv /\ QueueInv
  BY DEF FeedInv
<1>2. CASE SyncNext
  <2>1. PICK q \in Seq(Copy) : q = queue
    BY <1>1 DEF FeedTypes
  <2>2. q # <<>> /\ Current = q[1] /\ 1 \in DOMAIN q
    BY <1>2, <2>1 DEF SyncNext, Current
  <2>3. PICK c \in Copy : c = Current /\ c.id <= edits /\ Fits(c, row, loose)
    BY <1>1, <2>1, <2>2 DEF QueueInv
  <2>4. Step(Worker, "download", c, {}, {})
    BY <1>2, <2>3 DEF SyncNext
  <2>5. UNCHANGED <<row, order, queue, edits, entries, loose>>
    BY <1>2 DEF SyncNext
  <2>6. Worker \in Jobs /\ c \in Copy \cup {NoCopy} /\ {} \in SUBSET Listings
    BY DEF Jobs
  <2>7. QED
    BY <2>3, <2>4, <2>5, <2>6, StepJobKeeps DEF Deletes
<1>3. ASSUME NEW h \in Handlers, NEW n \in Names, sync_feed(h, n) \/ delete_feed(h, n)
      PROVE  FeedInv'
  <2>1. n \in Present /\ Edit /\ UNCHANGED <<row, order, entries, loose>>
    BY <1>3 DEF sync_feed, delete_feed
  <2>2. PICK c \in Copy : /\ c = CopyOf(n) /\ c.name = n /\ c.id = row[n].id /\ c.what = row[n].what
    BY <1>1, <2>1, CopyMade
  <2>3. c.id <= edits /\ Fits(c, row, loose) /\ FitsIfThere(c, row, loose)
    BY <1>1, <2>2 DEF RowsInv, Fits, FitsIfThere
  <2>4. queue' = queue
    BY <2>1 DEF Edit
  <2>5. h \in Jobs /\ h # Worker /\ c \in Copy \cup {NoCopy} /\ {} \in SUBSET Listings
    BY WorkerAssumption DEF Jobs
  <2>6. CASE sync_feed(h, n)
    <3>1. Step(h, "download", c, {}, {})
      BY <2>2, <2>6 DEF sync_feed
    <3>2. QED
      BY <2>1, <2>3, <2>4, <2>5, <3>1, StepJobKeeps DEF Deletes
  <2>7. CASE delete_feed(h, n)
    <3>1. Step(h, "clear", c, {}, {})
      BY <2>2, <2>7 DEF delete_feed
    <3>2. QED
      BY <2>1, <2>3, <2>4, <2>5, <3>1, StepJobKeeps DEF Writes
  <2>8. QED
    BY <1>3, <2>6, <2>7
<1>4. QED
  BY <1>2, <1>3

(* What the job in hand relies on.                                         *)
LEMMA JobInHand ==
  ASSUME FeedInv, NEW j \in Jobs, job[j].pc # "idle"
  PROVE  /\ job[j].src \in Copy /\ job[j].src.id <= edits
         /\ job[j].src \in Copy \cup {NoCopy} /\ job[j].got \in SUBSET Listings
         /\ job[j].pc \in Writes => Fits(job[j].src, row, loose)
         /\ job[j].pc \in Deletes => FitsIfThere(job[j].src, row, loose) /\ j # Worker
         /\ {} \in SUBSET Listings
BY JobTypes DEF FeedInv, JobsInv, Reliable

(* The steps of a sync before its commit, and of a deletion before its own.*)
LEMMA WorkKeeps ==
  ASSUME FeedInv, NEW j \in Jobs, fetch_feed(j) \/ DeleteOld(j) \/ Clear(j)
  PROVE  FeedInv'
<1>1. UNCHANGED <<row, order, queue, edits, entries, loose>> /\ job[j].pc # "idle"
  BY DEF fetch_feed, DeleteOld, Clear
<1>2. KeyOf(j) = <<job[j].src.name, job[j].src.what>> /\ entries[KeyOf(j)] \in SUBSET Listings
  BY JobTypes DEF FeedInv, FeedTypes, KeyOf
<1>3. PICK src \in Copy \cup {NoCopy}, old \in SUBSET Listings :
        /\ src = job[j].src /\ old = entries[KeyOf(j)]
        /\ src \in Copy /\ src.id <= edits
  BY <1>1, <1>2, JobInHand
<1>4. CASE fetch_feed(j)
  <2>1. job[j].pc \in Writes
    BY <1>4 DEF fetch_feed, Writes
  <2>2. CASE \E got \in SUBSET Listings : Step(j, "delete", job[j].src, got, {})
    <3>1. PICK got \in SUBSET Listings : Step(j, "delete", src, got, {})
      BY <1>3, <2>2
    <3>2. QED
      BY <1>1, <1>3, <2>1, <3>1, JobInHand, StepJobKeeps DEF Deletes
  <2>3. CASE Step(j, "mark", job[j].src, {}, {})
    <3>1. Step(j, "mark", src, {}, {})
      BY <1>3, <2>3
    <3>2. QED
      BY <1>1, <1>3, <3>1, JobInHand, StepJobKeeps DEF Deletes, Writes
  <2>4. QED
    BY <1>4, <2>2, <2>3 DEF fetch_feed
<1>5. CASE DeleteOld(j)
  <2>1. PICK got \in SUBSET Listings : got = job[j].got
    BY <1>1, JobInHand
  <2>2. Step(j, "insert", src, got, old) /\ job[j].pc \in Writes
    BY <1>3, <1>5, <2>1 DEF DeleteOld, Writes
  <2>3. QED
    BY <1>1, <1>3, <2>2, JobInHand, StepJobKeeps DEF Deletes
<1>6. CASE Clear(j)
  <2>1. Step(j, "cleared", src, {}, old) /\ job[j].pc \in Deletes
    BY <1>3, <1>6 DEF Clear, Deletes
  <2>2. old = entries[<<src.name, src.what>>]
    BY <1>2, <1>3
  <2>3. QED
    BY <1>1, <1>3, <2>1, <2>2, JobInHand, StepJobKeeps DEF Writes
<1>7. QED
  BY <1>4, <1>5, <1>6

(* A statement fails or the process stops: jobs end, or are left to record *)
(* an error.                                                               *)
LEMMA FaultKeeps ==
  ASSUME FeedInv, (\E j \in Jobs : StoreFails(j)) \/ Restart
  PROVE  FeedInv'
<1>1. UNCHANGED <<row, order, edits, entries, loose>>
  BY DEF StoreFails, Restart
<1>2. NoJob \in Job /\ FeedTypes /\ edits \in Nat /\ \A m \in Names : row[m].id \in Nat
  <2>1. Worker \in Jobs
    BY DEF Jobs
  <2>2. QED
    BY <2>1, JobTypes, PresentHasId, BoundsAssumption DEF FeedInv, FeedTypes
<1>3. RowSteps /\ Shrinks
  BY <1>1, <1>2 DEF RowSteps, Moved, Shrinks, FeedInv, RowsInv
<1>4. ASSUME job' \in [Jobs -> Job], \A j \in Jobs : job'[j] = job[j] \/ job'[j] = NoJob,
             queue' \in {queue, <<>>}
      PROVE  FeedInv'
  <2>1. FeedTypes' /\ QueueShrinks
    BY <1>1, <1>2, <1>4, QueueEmptied DEF FeedTypes
  <2>2. QED
    BY <1>3, <1>4, <2>1, RowStepKeeps
<1>5. CASE Restart
  BY <1>2, <1>4, <1>5 DEF Restart
<1>6. ASSUME NEW j \in Jobs, StoreFails(j)
      PROVE  FeedInv'
  <2>1. CASE job[j].pc \in {"delete", "insert"}
    <3>1. Step(j, "mark", job[j].src, {}, {}) /\ queue' = queue /\ job[j].pc # "idle"
      BY <1>6, <2>1 DEF StoreFails
    <3>2. PICK src \in Copy \cup {NoCopy} : src = job[j].src /\ src \in Copy /\ src.id <= edits
      BY <3>1, JobInHand
    <3>3. {} \in SUBSET Listings
      OBVIOUS
    <3>4. QED
      BY <1>1, <3>1, <3>2, <3>3, StepJobKeeps DEF Deletes, Writes
  <2>2. CASE job[j].pc \notin {"delete", "insert"}
    <3>1. job' = [job EXCEPT ![j] = NoJob] /\ queue' \in {queue, <<>>}
      BY <1>6, <2>2 DEF StoreFails
    <3>2. QED
      BY <1>2, <1>4, <3>1 DEF FeedTypes
  <2>3. QED
    BY <2>1, <2>2
<1>7. QED
  BY <1>5, <1>6

(* Every step keeps the invariant.                                         *)
LEMMA StepFeedInv == FeedInv /\ WorkerInv /\ [Next]_vars => FeedInv'
<1> SUFFICES ASSUME FeedInv, WorkerInv, [Next]_vars PROVE FeedInv'
  OBVIOUS
<1>1. CASE \E n \in Names : \/ \E eco \in Whats : add_feed(n, eco)
                            \/ update_feed(n)
                            \/ Elapse(n) /\ UNCHANGED <<entries, job, loose>>
  BY <1>1, OperatorKeeps
<1>2. CASE (\E e \in Listings : add_one(e)) \/ (\E k \in Key, e \in Listings : remove_one(k, e))
  BY <1>2, EntryEdits
<1>3. CASE SyncNext \/ \E h \in Handlers, n \in Names : sync_feed(h, n) \/ delete_feed(h, n)
  BY <1>3, StartKeeps
<1>4. CASE run_pass
  BY <1>4, PassKeeps
<1>5. ASSUME NEW j \in Jobs, Sync(j) \/ Clear(j) \/ Cleared(j)
      PROVE  FeedInv'
  BY <1>5, WorkKeeps, InsertKeeps, MarkKeeps, ClearedKeeps DEF Sync
<1>6. ASSUME NEW h \in Handlers, Delete(h)
      PROVE  FeedInv'
  <2>1. h \in Jobs
    BY DEF Jobs
  <2>2. QED
    BY <1>5, <1>6, <2>1, DropKeeps DEF Delete
<1>7. CASE (\E j \in Jobs : StoreFails(j)) \/ Restart
  BY <1>7, FaultKeeps
<1>8. CASE UNCHANGED vars
  BY <1>8 DEF vars, FeedInv, FeedTypes, RowsInv, QueueInv, JobsInv, OrphansAreOverlaps, Present
<1>9. QED
  BY <1>1, <1>2, <1>3, <1>4, <1>5, <1>6, <1>7, <1>8 DEF Next

(* The worker's job ends with the source at the head of the queue, which   *)
(* is emptied only where the worker ends too.                              *)
LEMMA StepWorkerInv == FeedInv /\ WorkerInv /\ [Next]_vars => WorkerInv'
<1> SUFFICES ASSUME FeedInv, WorkerInv, [Next]_vars PROVE WorkerInv'
  OBVIOUS
<1>1. FeedTypes /\ Worker \in Jobs /\ NoJob.pc = "idle"
  BY DEF FeedInv, Jobs, NoJob
<1>2. ASSUME queue' = queue, job'[Worker].pc # "idle" => job[Worker].pc # "idle"
      PROVE  WorkerInv'
  BY <1>2 DEF WorkerInv
<1>3. CASE \E n \in Names : \/ \E eco \in Whats : add_feed(n, eco)
                            \/ update_feed(n)
                            \/ Elapse(n) /\ UNCHANGED <<entries, job, loose>>
  BY <1>2, <1>3 DEF add_feed, Insert, Amend, Edit, update_feed, set_enabled, set_interval, Elapse
<1>4. CASE \E e \in Listings : add_one(e)
  BY <1>2, <1>4 DEF add_one, Edit
<1>5. ASSUME NEW k \in Key, NEW e \in Listings, remove_one(k, e)
      PROVE  WorkerInv'
  <2>1. queue' = queue /\ job' = Gone(k, {e})
    BY <1>5 DEF remove_one, Edit
  <2>2. Gone(k, {e})[Worker].pc = job[Worker].pc
    BY <1>1, GoneType
  <2>3. QED
    BY <1>2, <2>1, <2>2
<1>6. ASSUME NEW h \in Handlers, NEW n \in Names, sync_feed(h, n) \/ delete_feed(h, n)
      PROVE  WorkerInv'
  <2>1. h # Worker /\ queue' = queue
    BY <1>6, WorkerAssumption DEF sync_feed, delete_feed, Edit
  <2>2. job'[Worker] = job[Worker]
    BY <1>1, <1>6, <2>1 DEF sync_feed, delete_feed, Step, FeedTypes
  <2>3. QED
    BY <1>2, <2>1, <2>2
<1>7. CASE run_pass
  BY <1>7 DEF run_pass, Select, WorkerInv
<1>8. CASE SyncNext
  BY <1>8 DEF SyncNext, WorkerInv
<1>9. ASSUME NEW j \in Jobs, Sync(j) \/ Clear(j) \/ Cleared(j) \/ Drop(j) \/ StoreFails(j)
      PROVE  WorkerInv'
  <2>1. CASE j # Worker /\ ~InsertNew(j) /\ ~Cleared(j)
    <3>1. queue' = queue /\ job'[Worker] = job[Worker]
      BY <1>1, <1>9, <2>1
      DEF Sync, Clear, Drop, StoreFails, fetch_feed, DeleteOld, mark_synced, Step, FeedTypes
    <3>2. QED
      BY <1>2, <3>1
  <2>2. CASE InsertNew(j) \/ Cleared(j)
    <3>1. queue' = queue /\ job[j].pc # "idle" /\ \E S \in SUBSET Listings : Replaced(j, S)
      <4>1. job[j].got \in SUBSET Listings /\ {} \in SUBSET Listings
        BY <1>1, JobTypes
      <4>2. QED
        BY <2>2, <4>1 DEF InsertNew, Cleared
    <3>2. j # Worker => job'[Worker].pc = job[Worker].pc
      <4>1. j # Worker => job'[Worker] = Gone(KeyOf(j), job[j].doomed)[Worker]
        BY <1>1, <3>1, ReplacedType
      <4>2. Gone(KeyOf(j), job[j].doomed)[Worker].pc = job[Worker].pc
        BY <1>1, GoneType
      <4>3. QED
        BY <4>1, <4>2
    <3>3. QED
      BY <1>2, <3>1, <3>2
  <2>3. CASE j = Worker /\ (fetch_feed(j) \/ DeleteOld(j) \/ Clear(j))
    BY <1>2, <2>3 DEF fetch_feed, DeleteOld, Clear
  <2>4. CASE j = Worker /\ (mark_synced(j) \/ Drop(j))
    <3>1. job'[Worker] = NoJob
      BY <1>1, <2>4 DEF mark_synced, Drop, FeedTypes
    <3>2. QED
      BY <1>1, <3>1 DEF WorkerInv
  <2>5. CASE j = Worker /\ StoreFails(j)
    <3>1. CASE job[j].pc \in {"delete", "insert"}
      BY <1>2, <2>5, <3>1 DEF StoreFails
    <3>2. CASE job[j].pc \notin {"delete", "insert"}
      <4>1. job'[Worker] = NoJob
        BY <1>1, <2>5, <3>2 DEF StoreFails, FeedTypes
      <4>2. QED
        BY <1>1, <4>1 DEF WorkerInv
    <3>3. QED
      BY <3>1, <3>2
  <2>6. QED
    BY <1>9, <2>1, <2>2, <2>3, <2>4, <2>5 DEF Sync
<1>10. CASE Restart
  BY <1>1, <1>10 DEF Restart, WorkerInv
<1>11. CASE UNCHANGED vars
  BY <1>2, <1>11 DEF vars
<1>12. \A h \in Handlers : h \in Jobs
  BY DEF Jobs
<1>13. QED
  BY <1>3, <1>4, <1>5, <1>6, <1>7, <1>8, <1>9, <1>10, <1>11, <1>12 DEF Next, Delete

(* Empty tables and idle jobs satisfy the invariant.                       *)
LEMMA InitFeedInv == Init => FeedInv /\ WorkerInv
<1> SUFFICES ASSUME Init PROVE FeedInv /\ WorkerInv
  OBVIOUS
<1>1. NoJob \in Job /\ NoJob.pc = "idle" /\ NoRow.id = 0 /\ 0 \in 0..MaxEdits
  BY BoundsAssumption DEF NoJob, Job, NoRow
<1>2. FeedTypes
  BY <1>1 DEF Init, ScheduleInit, FeedTypes
<1>3. RowsInv /\ QueueInv
  BY <1>1 DEF Init, ScheduleInit, RowsInv, QueueInv
<1>4. \A j \in Jobs : job[j].pc = "idle"
  BY <1>1 DEF Init
<1>5. JobsInv /\ WorkerInv
  BY <1>4 DEF JobsInv, WorkerInv, Reliable, Writes, Deletes, Jobs
<1>6. OrphansAreOverlaps
  BY DEF Init, OrphansAreOverlaps, Key
<1>7. QED
  BY <1>2, <1>3, <1>5, <1>6 DEF FeedInv

(* A deletion by itself leaves no entry behind (delete_feed): whatever     *)
(* lists under a name whose source is gone, or has become another          *)
(* ecosystem's, was left there by a sync that ran beside the change, or    *)
(* the ecosystem was edited.                                               *)
THEOREM OnlyOverlapsOrphan == Spec => []OrphansAreOverlaps
<1>1. Init => FeedInv /\ WorkerInv
  BY InitFeedInv
<1>2. FeedInv /\ WorkerInv /\ [Next]_vars => (FeedInv /\ WorkerInv)'
  BY StepFeedInv, StepWorkerInv
<1>3. FeedInv => OrphansAreOverlaps
  BY DEF FeedInv
<1>4. QED
  BY <1>1, <1>2, <1>3, PTL DEF Spec
=============================================================================
