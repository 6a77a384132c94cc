------------------------------ MODULE FeedSync ------------------------------
(***************************************************************************)
(* Known-malicious feeds (feeds.rs, db/feed_sources.rs,                    *)
(* db/known_malicious.rs and the handlers of http.rs): the worker syncs    *)
(* the sources that are due, operators sync, change and delete sources and *)
(* edit single entries beside it, and every resolve reads the entries.     *)
(*                                                                         *)
(* A sync downloads, then replaces the entries of its source in one        *)
(* transaction.  Under READ COMMITTED its DELETE sees the rows committed   *)
(* before it (doomed), and its INSERTs are seen when it commits.           *)
(***************************************************************************)
EXTENDS Schedule

CONSTANTS
  Listings,   \* entries of a feed: a package with a version, or with '*'
  Manual,     \* the source name of entries an operator adds
  Handlers,   \* requests to the console's API that sync or delete a source
  Worker      \* the feed worker

ASSUME EcosystemsAssumption == Whats = {"npm", "pypi"}
ASSUME WorkerAssumption == Worker \notin Handlers

VARIABLES
  entries,  \* known_malicious, by source name and ecosystem
  job,      \* syncs and deletions under way
  loose     \* history: names whose row was deleted or moved under a running sync

vars == <<row, order, queue, edits, faults, entries, job, loose>>

Key == (Names \cup {Manual}) \X Whats

Jobs == Handlers \cup {Worker}

NoCopy == [name |-> Manual, id |-> 0, what |-> "npm"]

Job == [pc : {"idle", "download", "delete", "insert", "mark", "clear", "cleared", "drop"},
        src : Copy \cup {NoCopy}, got : SUBSET Listings, doomed : SUBSET Listings]

NoJob == [pc |-> "idle", src |-> NoCopy, got |-> {}, doomed |-> {}]

KeyOf(j) == <<job[j].src.name, job[j].src.what>>

(* Every variable has its type.                                            *)
TypeOK ==
  /\ ScheduleTypeOK
  /\ entries \in [Key -> SUBSET Listings]
  /\ job \in [Jobs -> Job]
  /\ loose \in SUBSET Names

Init ==
  /\ ScheduleInit
  /\ entries = [k \in Key |-> {}]
  /\ job = [j \in Jobs |-> NoJob]
  /\ loose = {}

-----------------------------------------------------------------------------
\* A sync of n that may still write: selected, under way, or about to commit.
Writing(n) ==
  \/ \E j \in Jobs : job[j].src.name = n /\ job[j].pc \in {"download", "delete", "insert"}
  \/ \E i \in DOMAIN queue : queue[i].name = n

Deleting(n) == \E h \in Handlers : job[h].src.name = n /\ job[h].pc \in {"clear", "cleared", "drop"}

\* A new source is disabled; adding one that is there changes its URL and ecosystem only.
add_feed(n, eco) ==
  /\ \/ Insert(n, eco, FALSE) /\ UNCHANGED loose
     \/ /\ n \in Present
        /\ Amend(n, eco, row[n].enabled, row[n].due)
        /\ loose' = IF row[n].what # eco THEN loose \cup {n} ELSE loose
  /\ UNCHANGED <<entries, job>>

update_feed(n) == (set_enabled(n) \/ set_interval(n)) /\ UNCHANGED <<entries, job, loose>>

add_one(e) ==
  /\ e \notin entries[<<Manual, "npm">>]
  /\ entries' = [entries EXCEPT ![<<Manual, "npm">>] = @ \cup {e}]
  /\ Edit /\ UNCHANGED <<row, order, job, loose>>

\* A row that is gone is no longer there to be deleted by a transaction under way.
Gone(k, S) == [j \in Jobs |-> IF KeyOf(j) = k THEN [job[j] EXCEPT !.doomed = @ \ S] ELSE job[j]]

remove_one(k, e) ==
  /\ e \in entries[k]
  /\ entries' = [entries EXCEPT ![k] = @ \ {e}]
  /\ job' = Gone(k, {e})
  /\ Edit /\ UNCHANGED <<row, order, loose>>

-----------------------------------------------------------------------------
Step(j, pc, src, got, doomed) ==
  job' = [job EXCEPT ![j] = [pc |-> pc, src |-> src, got |-> got, doomed |-> doomed]]

CopyOf(n) == [name |-> n, id |-> row[n].id, what |-> row[n].what]

run_pass == Select /\ UNCHANGED <<entries, job, loose>>

SyncNext ==
  /\ queue # <<>> /\ job[Worker].pc = "idle"
  /\ Step(Worker, "download", Current, {}, {})
  /\ UNCHANGED <<row, order, queue, edits, faults, entries, loose>>

sync_feed(h, n) ==
  /\ job[h].pc = "idle" /\ n \in Present
  /\ Step(h, "download", CopyOf(n), {}, {})
  /\ Edit /\ UNCHANGED <<row, order, entries, loose>>

\* The feed answers with whatever it lists at this time, or the download fails or is refused.
fetch_feed(j) ==
  /\ job[j].pc = "download"
  /\ \/ \E got \in SUBSET Listings : Step(j, "delete", job[j].src, got, {})
     \/ Step(j, "mark", job[j].src, {}, {})
  /\ UNCHANGED <<row, order, queue, edits, faults, entries, loose>>

\* Mutated: without a transaction the DELETE is seen at once.
DeleteOld_AtOnce(j) ==
  /\ job[j].pc = "delete"
  /\ entries' = [entries EXCEPT ![KeyOf(j)] = {}]
  /\ Step(j, "insert", job[j].src, job[j].got, {})
  /\ UNCHANGED <<row, order, queue, edits, faults, loose>>

DeleteOld(j) ==
  /\ job[j].pc = "delete"
  /\ Step(j, "insert", job[j].src, job[j].got, entries[KeyOf(j)])
  /\ UNCHANGED <<row, order, queue, edits, faults, entries, loose>>

\* The rows the transaction deleted are gone for every other one.
Replaced(j, S) ==
  /\ entries' = [entries EXCEPT ![KeyOf(j)] = (@ \ job[j].doomed) \cup S]
  /\ job' = [Gone(KeyOf(j), job[j].doomed) EXCEPT
               ![j] = [pc |-> IF job[j].pc = "cleared" THEN "drop" ELSE "mark",
                       src |-> job[j].src, got |-> {}, doomed |-> {}]]

InsertNew(j) ==
  /\ job[j].pc = "insert"
  /\ Replaced(j, job[j].got)
  /\ loose' = IF Deleting(job[j].src.name) THEN loose \cup {job[j].src.name} ELSE loose
  /\ UNCHANGED <<row, order, queue, edits, faults>>

\* The outcome is recorded under the id that was read, whatever it was.
mark_synced(j) ==
  /\ job[j].pc = "mark"
  /\ Recorded(job[j].src)
  /\ queue' = IF j = Worker THEN Tail(queue) ELSE queue
  /\ job' = [job EXCEPT ![j] = NoJob]
  /\ UNCHANGED <<edits, faults, entries, loose>>

-----------------------------------------------------------------------------
delete_feed(h, n) ==
  /\ job[h].pc = "idle" /\ n \in Present
  /\ Step(h, "clear", CopyOf(n), {}, {})
  /\ Edit /\ UNCHANGED <<row, order, entries, loose>>

\* Mutated: the row is dropped and its entries stay.
Clear_RowOnly(h) ==
  /\ job[h].pc = "clear"
  /\ Step(h, "drop", job[h].src, {}, {})
  /\ UNCHANGED <<row, order, queue, edits, faults, entries, loose>>

\* Entries first, by a transaction like a sync's, and then the row.
Clear(h) ==
  /\ job[h].pc = "clear"
  /\ Step(h, "cleared", job[h].src, {}, entries[KeyOf(h)])
  /\ UNCHANGED <<row, order, queue, edits, faults, entries, loose>>

Cleared(h) ==
  /\ job[h].pc = "cleared"
  /\ Replaced(h, {})
  /\ UNCHANGED <<row, order, queue, edits, faults, loose>>

Drop(h) ==
  /\ job[h].pc = "drop"
  /\ LET n == job[h].src.name
     IN  IF row[n].id = job[h].src.id
         THEN Deleted(n) /\ loose' = IF Writing(n) THEN loose \cup {n} ELSE loose
         ELSE UNCHANGED <<row, order, loose>>
  /\ job' = [job EXCEPT ![h] = NoJob]
  /\ UNCHANGED <<queue, edits, faults, entries>>

-----------------------------------------------------------------------------
\* A failing statement rolls its transaction back.  A sync records the error; a job
\* that cannot record it, or a deletion, just ends, and so does the worker's pass.
StoreFails(j) ==
  /\ job[j].pc \notin {"idle", "download"} /\ faults < MaxFaults
  /\ faults' = faults + 1
  /\ IF job[j].pc \in {"delete", "insert"}
     THEN Step(j, "mark", job[j].src, {}, {}) /\ UNCHANGED queue
     ELSE /\ job' = [job EXCEPT ![j] = NoJob]
          /\ queue' = IF j = Worker THEN <<>> ELSE queue
  /\ UNCHANGED <<row, order, edits, entries, loose>>

\* The process stops: transactions roll back, the tables stay.
Restart ==
  /\ faults < MaxFaults /\ faults' = faults + 1
  /\ queue' = <<>> /\ job' = [j \in Jobs |-> NoJob]
  /\ UNCHANGED <<row, order, edits, entries, loose>>

Sync(j) == fetch_feed(j) \/ DeleteOld(j) \/ InsertNew(j) \/ mark_synced(j)

Delete(h) == Clear(h) \/ Cleared(h) \/ Drop(h)

Next ==
  \/ \E n \in Names, eco \in Whats : add_feed(n, eco)
  \/ \E n \in Names : update_feed(n)
  \/ \E n \in Names : Elapse(n) /\ UNCHANGED <<entries, job, loose>>
  \/ \E e \in Listings : add_one(e)
  \/ \E k \in Key, e \in Listings : remove_one(k, e)
  \/ \E h \in Handlers, n \in Names : sync_feed(h, n) \/ delete_feed(h, n)
  \/ run_pass \/ SyncNext
  \/ \E j \in Jobs : Sync(j) \/ StoreFails(j)
  \/ \E h \in Handlers : Delete(h)
  \/ Restart

Spec == Init /\ [][Next]_vars

-----------------------------------------------------------------------------
(* An entry leaves the table only by the commit of a sync whose download   *)
(* lacks it or of a deletion, or by an operator's hand: a resolve that     *)
(* reads at any moment of a sync, or after one that failed or was cut off  *)
(* by a restart, finds what was there (replace_source, sync_one).          *)
NoGap ==
  [][\A k \in Key : \A e \in entries[k] \ entries'[k] :
       \/ remove_one(k, e)
       \/ \E j \in Jobs : /\ job[j].pc \in {"insert", "cleared"} /\ job'[j].pc # job[j].pc
                          /\ KeyOf(j) = k /\ e \notin job[j].got]_vars

(* Entries whose source is gone, or has become one of another ecosystem,   *)
(* are left only where a sync of that name overlapped the change or the    *)
(* ecosystem was edited: a deletion by itself leaves none (delete_feed).   *)
OrphansAreOverlaps ==
  \A n \in Names \ {Manual}, eco \in Whats :
    entries[<<n, eco>>] # {} => n \in loose \/ (n \in Present /\ row[n].what = eco)

(* What delete_feed sets out to do: once a source is gone, and no sync of  *)
(* it is running, it lists nothing any more.                               *)
DeletedSourceListsNothing ==
  \A n \in Names \ {Manual}, eco \in Whats :
    n \notin Present /\ ~Writing(n) => entries[<<n, eco>>] = {}
=============================================================================
