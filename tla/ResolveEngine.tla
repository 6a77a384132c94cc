--------------------------- MODULE ResolveEngine ---------------------------
(***************************************************************************)
(* The engine's verdict service for one (package, version): the gRPC       *)
(* handlers Resolve, ResolvePackument and ReportEvent with resolve_one,    *)
(* the background extractions they spawn, the watchlist tracker, and the   *)
(* stores these share (Postgres tables and the Redis verdict cache).       *)
(*                                                                         *)
(* Nothing in a handler is atomic: it awaits the database or Redis between *)
(* any two of its reads and writes, so every await is a step of its own.   *)
(* All keys of the stores are per (package, version), hence one version.   *)
(***************************************************************************)
EXTENDS Verdict, FiniteSets

CONSTANTS
  Tasks,            \* request slots: a request and the extraction it spawned
  Trackers,         \* watchlist tracker workers ({} or a singleton)
  Approvals,        \* ids of exception requests for this version
  Policies,         \* what an active policy says of this package: [rule, fast]
  Published,        \* publish time the packument gives for this version
  Reported,         \* signals an L3 runner or a feed may report
  Findings,         \* results an extraction may have: [signals, provenance]
  ApprovalTTLs,     \* time-to-live values of exception requests
  VerdictTTL,       \* redis.verdict_ttl_secs
  ListingChanges,   \* whether the known-malicious feeds change
  Faults,           \* whether an await may fail
  MaxNow,           \* bound on the clock
  NoPolicy,         \* no active policy, or no rule of it matches
  NoVerdict,        \* no row, no cache entry, no answer yet
  NoInput           \* a request that has not loaded the policy

Extractors == Tasks \cup Trackers

ASSUME SlotsAssumption == Tasks \cap Trackers = {} /\ Tasks # {}
ASSUME PoliciesAssumption ==
  Policies \subseteq [rule : Rule, fast : BOOLEAN] /\ NoPolicy \notin Policies
ASSUME SignalsAssumption ==
  /\ Reported \subseteq Signal
  /\ Findings \subseteq [signals : SUBSET Signal, provenance : Provenance]
ASSUME TimesAssumption ==
  /\ Published \in Nat /\ MaxNow \in Nat
  /\ VerdictTTL \in Nat \ {0} /\ ApprovalTTLs \subseteq Nat
  /\ ListingChanges \in BOOLEAN /\ Faults \in BOOLEAN
ASSUME NullsAssumption ==
  NoVerdict \notin VersionVerdict /\ NoInput \notin ResolutionInput

VARIABLES
  now,         \* the clock every process and Postgres' NOW() read
  policy,      \* policies: the active row
  signals,     \* signals: the rows of this version
  provenance,  \* provenance: the row of this version
  listed,      \* known_malicious: some enabled feed or manual entry matches
  approvals,   \* approvals: the requests for this version
  row,         \* verdicts: the persisted verdict of this version
  cache,       \* Redis: the cached verdict and when Redis drops it
  task,        \* the requests in flight
  ext          \* the extractions in flight

stores == <<policy, signals, provenance, listed, approvals>>
vars == <<now, policy, signals, provenance, listed, approvals, row, cache, task, ext>>

-----------------------------------------------------------------------------
RequestKind == {"none", "packument", "tarball", "event"}

\* Where a request stands: the await it is at.
Await == {"row", "append", "drop", "cache", "policy", "signals", "provenance",
          "feed", "approval", "upsert", "set"}

Answered == {"done", "failed"}

NoRequest == [pc |-> "idle", kind |-> "none", in |-> NoInput, out |-> NoVerdict,
              unanalysed |-> FALSE]

NoExtraction == [pc |-> "idle", signals |-> {}, provenance |-> "none", doomed |-> {}]

Request == [pc : {"idle"} \cup Await \cup Answered, kind : RequestKind,
            in : ResolutionInput \cup {NoInput}, out : VersionVerdict \cup {NoVerdict},
            unanalysed : BOOLEAN]

Extraction == [pc : {"idle", "extract", "delete", "insert", "provenance", "invalidate"},
               signals : SUBSET Signal, provenance : Provenance, doomed : SUBSET Signal]

Approval == [status : {"none", "active", "revoked"}, expires : Nat]

CacheEntry == [verdict : VersionVerdict, dies : Nat]

TypeOK ==
  /\ now \in Nat
  /\ policy \in Policies \cup {NoPolicy}
  /\ signals \in SUBSET Signal
  /\ provenance \in Provenance
  /\ listed \in BOOLEAN
  /\ approvals \in [Approvals -> Approval]
  /\ row \in VersionVerdict \cup {NoVerdict}
  /\ cache \in CacheEntry \cup {NoVerdict}
  /\ task \in [Tasks -> Request]
  /\ ext \in [Extractors -> Extraction]

\* What the types leave open: a request past the policy has its input, and a
\* request past the computation has its verdict.
Phases ==
  \A t \in Tasks :
    /\ task[t].pc \in {"signals", "provenance", "feed"} => task[t].in # NoInput
    /\ task[t].pc \in {"approval", "upsert", "set", "done"} => task[t].out # NoVerdict

(* Every variable has its type, and no request goes on without the policy, *)
(* or answers without the verdict, it needs (resolve_one: no match and no  *)
(* active policy are errors, never a default).                             *)
TypeInv == TypeOK /\ Phases

Init ==
  /\ now = Published
  /\ policy \in Policies \cup {NoPolicy}
  /\ signals = {}
  /\ provenance = "none"
  /\ listed = FALSE
  /\ approvals = [a \in Approvals |-> [status |-> "none", expires |-> 0]]
  /\ row = NoVerdict
  /\ cache = NoVerdict
  /\ task = [t \in Tasks |-> NoRequest]
  /\ ext = [x \in Extractors |-> NoExtraction]

-----------------------------------------------------------------------------
(* A request: which handler it enters, and the steps before resolve_one.   *)

At(t, pc) == task[t].pc = pc

Goto(t, pc) == task' = [task EXCEPT ![t].pc = pc]

Answer(t, v) == task' = [task EXCEPT ![t].pc = "done", ![t].out = v]

\* A slot takes a new request once the extraction of the last one has ended.
Receive(t, kind, pc) ==
  /\ At(t, "idle") /\ ext[t].pc = "idle"
  /\ task' = [task EXCEPT ![t].pc = pc, ![t].kind = kind]
  /\ UNCHANGED <<now, stores, row, cache, ext>>

ResolvePackument(t) == Receive(t, "packument", "cache")

\* Resolve without a publish time: the tarball gate and the admission gate.
Resolve(t) == Receive(t, "tarball", "row")

ReportEvent(t) == Reported # {} /\ Receive(t, "event", "append")

\* The persisted verdict answers, whatever its expiry; only a miss computes.
ReadRow(t) ==
  /\ At(t, "row")
  /\ IF row = NoVerdict THEN Goto(t, "cache") ELSE Answer(t, row)
  /\ UNCHANGED <<now, stores, row, cache, ext>>

AppendSignal(t) ==
  /\ At(t, "append")
  /\ \E s \in Reported :
       /\ signals' = signals \cup {s}
       \* the new row is in nobody's snapshot
       /\ ext' = [x \in Extractors |-> [ext[x] EXCEPT !.doomed = @ \ {s}]]
  /\ Goto(t, "drop")
  /\ UNCHANGED <<now, policy, provenance, listed, approvals, row, cache>>

DropCached(t) ==
  /\ At(t, "drop")
  /\ cache' = NoVerdict
  /\ Goto(t, "cache")
  /\ UNCHANGED <<now, stores, row, ext>>

-----------------------------------------------------------------------------
(* resolve_one, await by await.                                            *)

\* A cached verdict answers only while it has not expired itself.
StillValid(v) == v.expires # NoTime => v.expires > now

ReadCache(t) ==
  /\ At(t, "cache")
  /\ IF cache # NoVerdict /\ StillValid(cache.verdict)
     THEN Answer(t, cache.verdict)
     ELSE Goto(t, "policy")
  /\ UNCHANGED <<now, stores, row, cache, ext>>

\* Mutated: a request waits until there is a policy.
LoadPolicy_Waits(t) ==
  /\ At(t, "policy") /\ policy # NoPolicy
  /\ task' = [task EXCEPT
       ![t].pc = "signals",
       ![t].in = [published |-> Published, provenance |-> "none", signals |-> {},
                  rule |-> policy.rule, fast |-> policy.fast, now |-> now]]
  /\ UNCHANGED <<now, stores, row, cache, ext>>

\* No active policy, or no matching rule, is an error.  A missing publish time
\* becomes the current time, so that the version is held for a full cooldown.
LoadPolicy(t) ==
  /\ At(t, "policy")
  /\ IF policy = NoPolicy
     THEN Goto(t, "failed")
     ELSE task' = [task EXCEPT
            ![t].pc = "signals",
            ![t].in = [published |-> IF task[t].kind = "packument" THEN Published ELSE now,
                       provenance |-> "none", signals |-> {}, rule |-> policy.rule,
                       fast |-> policy.fast, now |-> now]]
  /\ UNCHANGED <<now, stores, row, cache, ext>>

ReadSignals(t) ==
  /\ At(t, "signals")
  /\ task' = [task EXCEPT ![t].pc = "provenance", ![t].in.signals = signals]
  /\ UNCHANGED <<now, stores, row, cache, ext>>

ReadProvenance(t) ==
  /\ At(t, "provenance")
  /\ task' = [task EXCEPT ![t].pc = "feed", ![t].in.provenance = provenance]
  /\ UNCHANGED <<now, stores, row, cache, ext>>

\* The synthetic hard-deny signal of a feed match.
known_malicious_signal == [type |-> "known_malicious", weight |-> 100]

\* Mutated: the answer of the feed lookup is not used.
Completed_WithoutFeed(in) == [in EXCEPT !.now = now]

\* The complete input, once the feed lookup has answered.
Completed(in) ==
  [in EXCEPT !.now = now,
             !.signals = IF listed THEN @ \cup {known_malicious_signal} ELSE @]

CheckFeed(t) ==
  /\ At(t, "feed")
  /\ LET in == Completed(task[t].in)
         v  == compute_verdict(in)
     IN  task' = [task EXCEPT
           ![t].pc = IF Releasable(v) THEN "approval" ELSE "upsert",
           ![t].in = NoInput,
           ![t].out = v,
           ![t].unanalysed = in.signals = {} \/ in.provenance = "none"]
  /\ UNCHANGED <<now, stores, row, cache, ext>>

\* Mutated: a revoked approval counts until it expires.
ActiveApprovals_EvenRevoked ==
  {a \in Approvals : approvals[a].status # "none" /\ approvals[a].expires > now}

ActiveApprovals ==
  {a \in Approvals : approvals[a].status = "active" /\ approvals[a].expires > now}

\* Any active approval may be the one row the query returns.
CheckApproval(t) ==
  /\ At(t, "approval")
  /\ \/ /\ ActiveApprovals = {}
        /\ Goto(t, "upsert")
     \/ \E a \in ActiveApprovals :
          task' = [task EXCEPT ![t].pc = "upsert",
                               ![t].out = Release(@, approvals[a].expires)]
  /\ UNCHANGED <<now, stores, row, cache, ext>>

Upsert(t) ==
  /\ At(t, "upsert")
  /\ row' = task[t].out
  /\ Goto(t, "set")
  /\ UNCHANGED <<now, stores, cache, ext>>

\* Mutated: every entry lives for the default time.
ttl_Default(v) == VerdictTTL

\* The time Redis keeps a verdict: at least one second, at most the default.
ttl(v) ==
  IF v.expires = NoTime \/ v.expires - now >= VerdictTTL THEN VerdictTTL
  ELSE IF v.expires - now < 1 THEN 1 ELSE v.expires - now

\* Mutated: the persisted verdict is cached, not the one this request computed.
SetCache_FromRow(t) ==
  /\ At(t, "set")
  /\ cache' = [verdict |-> row, dies |-> now + ttl(row)]
  /\ Goto(t, "done")
  /\ ext' = IF task[t].out.verdict = "HOLD" /\ task[t].unanalysed
            THEN [ext EXCEPT ![t].pc = "extract"] ELSE ext
  /\ UNCHANGED <<now, stores, row>>

\* A HELD version that was not analysed yet gets a background extraction.
SetCache(t) ==
  /\ At(t, "set")
  /\ cache' = [verdict |-> task[t].out, dies |-> now + ttl(task[t].out)]
  /\ Goto(t, "done")
  /\ ext' = IF task[t].out.verdict = "HOLD" /\ task[t].unanalysed
            THEN [ext EXCEPT ![t].pc = "extract"] ELSE ext
  /\ UNCHANGED <<now, stores, row>>

\* The response leaves.
Reply(t) ==
  /\ task[t].pc \in Answered
  /\ task' = [task EXCEPT ![t] = NoRequest]
  /\ UNCHANGED <<now, stores, row, cache, ext>>

\* A failed await ends the handler where it stands, and so does a caller whose
\* deadline passes (the server drops the handler); what was written stays.
Fail(t) ==
  /\ Faults
  /\ task[t].pc \in Await
  /\ task' = [task EXCEPT ![t] = [NoRequest EXCEPT !.pc = "failed", !.kind = task[t].kind]]
  /\ UNCHANGED <<now, stores, row, cache, ext>>

Advance(t) ==
  \/ ReadRow(t) \/ AppendSignal(t) \/ DropCached(t) \/ ReadCache(t) \/ LoadPolicy(t)
  \/ ReadSignals(t) \/ ReadProvenance(t) \/ CheckFeed(t) \/ CheckApproval(t)
  \/ Upsert(t) \/ SetCache(t) \/ Reply(t)

-----------------------------------------------------------------------------
(* An extraction, and the watchlist tracker that runs one for the latest   *)
(* version of a watched package.                                           *)

TrackerPass(x) ==
  /\ x \in Trackers /\ ext[x].pc = "idle"
  /\ ext' = [ext EXCEPT ![x].pc = "extract"]
  /\ UNCHANGED <<now, stores, row, cache, task>>

\* The registry, the tarballs and the advisory feed answer: findings in hand.
Extract(x) ==
  /\ ext[x].pc = "extract"
  /\ \E f \in Findings :
       ext' = [ext EXCEPT ![x].pc = "delete", ![x].signals = f.signals,
                          ![x].provenance = f.provenance]
  /\ UNCHANGED <<now, stores, row, cache, task>>

\* replace_for_version is one transaction under READ COMMITTED: its DELETE
\* sees the rows committed before that statement started, no later ones.
DeleteSignals(x) ==
  /\ ext[x].pc = "delete"
  /\ ext' = [ext EXCEPT ![x].pc = "insert", ![x].doomed = signals]
  /\ UNCHANGED <<now, stores, row, cache, task>>

InsertSignals(x) ==
  /\ ext[x].pc = "insert"
  /\ signals' = (signals \ ext[x].doomed) \cup ext[x].signals
  /\ ext' = [y \in Extractors |->
               IF y = x
               THEN [NoExtraction EXCEPT !.pc = "provenance", !.provenance = ext[x].provenance]
               ELSE [ext[y] EXCEPT !.doomed = @ \ ext[x].signals]]
  /\ UNCHANGED <<now, policy, provenance, listed, approvals, row, cache, task>>

\* Mutated: nobody drops the cached verdict after an extraction.
SetProvenance_KeepsCache(x) ==
  /\ ext[x].pc = "provenance"
  /\ provenance' = ext[x].provenance
  /\ ext' = [ext EXCEPT ![x] = NoExtraction]
  /\ UNCHANGED <<now, policy, signals, listed, approvals, row, cache, task>>

\* Only a spawned extraction drops the cached verdict afterwards.
SetProvenance(x) ==
  /\ ext[x].pc = "provenance"
  /\ provenance' = ext[x].provenance
  /\ ext' = [ext EXCEPT ![x] =
               [NoExtraction EXCEPT !.pc = IF x \in Trackers THEN "idle" ELSE "invalidate"]]
  /\ UNCHANGED <<now, policy, signals, listed, approvals, row, cache, task>>

Invalidate(x) ==
  /\ ext[x].pc = "invalidate"
  /\ cache' = NoVerdict
  /\ ext' = [ext EXCEPT ![x] = NoExtraction]
  /\ UNCHANGED <<now, stores, row, task>>

\* An error anywhere (registry, tarball, advisory feed, Postgres, Redis) or a
\* restart ends the extraction; it is logged and nobody retries it.
ExtractionFails(x) ==
  /\ Faults
  /\ ext[x].pc # "idle"
  /\ ext' = [ext EXCEPT ![x] = NoExtraction]
  /\ UNCHANGED <<now, stores, row, cache, task>>

Analyse(x) ==
  Extract(x) \/ DeleteSignals(x) \/ InsertSignals(x) \/ SetProvenance(x) \/ Invalidate(x)

-----------------------------------------------------------------------------
(* The operators, the feeds and the clock.                                 *)

UpsertPolicy ==
  /\ policy' \in Policies \ {policy}
  /\ UNCHANGED <<now, signals, provenance, listed, approvals, row, cache, task, ext>>

\* A feed sync or an operator adds or removes the entry of this version.
ChangeListing ==
  /\ ListingChanges
  /\ listed' = ~listed
  /\ UNCHANGED <<now, policy, signals, provenance, approvals, row, cache, task, ext>>

\* A pending request is approved (requests and their checks: module Approvals).
Approve(a) ==
  /\ approvals[a].status = "none"
  /\ \E ttl_hours \in ApprovalTTLs :
       approvals' = [approvals EXCEPT ![a] =
                       [status |-> "active", expires |-> now + ttl_hours * HourTicks]]
  /\ UNCHANGED <<now, policy, signals, provenance, listed, row, cache, task, ext>>

Revoke(a) ==
  /\ approvals[a].status = "active"
  /\ approvals' = [approvals EXCEPT ![a].status = "revoked"]
  /\ UNCHANGED <<now, policy, signals, provenance, listed, row, cache, task, ext>>

\* Redis drops an entry when its time is over.
Tick ==
  /\ now < MaxNow
  /\ now' = now + 1
  /\ cache' = IF cache # NoVerdict /\ cache.dies <= now' THEN NoVerdict ELSE cache
  /\ UNCHANGED <<stores, row, task, ext>>

Operate ==
  UpsertPolicy \/ ChangeListing \/ \E a \in Approvals : Approve(a) \/ Revoke(a)

Next ==
  \/ \E t \in Tasks : ResolvePackument(t) \/ Resolve(t) \/ ReportEvent(t)
  \/ \E t \in Tasks : Advance(t) \/ Fail(t)
  \/ \E x \in Extractors : TrackerPass(x) \/ Analyse(x) \/ ExtractionFails(x)
  \/ Operate
  \/ Tick

Spec == Init /\ [][Next]_vars

\* Handlers and spawned extractions are run by the runtime; whether a client
\* asks, an operator acts or a feed changes is not up to the engine.
FairSpec ==
  /\ Spec
  /\ \A t \in Tasks : WF_vars(Advance(t))
  /\ \A x \in Extractors : WF_vars(Analyse(x))
  /\ WF_vars(Tick)

-----------------------------------------------------------------------------
\* Every verdict the engine holds: persisted, cached or about to be.
HeldVerdicts ==
  ({row} \cup {task[t].out : t \in Tasks} \cup
   (IF cache = NoVerdict THEN {} ELSE {cache.verdict})) \ {NoVerdict}

(* No verdict that serves the version carries an advisory, a known-        *)
(* malicious listing or a manual denial, whatever exception was active     *)
(* while it was computed (types.rs: is_hard_block; resolve_one 3b).        *)
HardBlockNeverReleased ==
  \A v \in HeldVerdicts : v.verdict = "ALLOW" => ~HardBlocked(v)

(* A verdict released by an exception serves, and it carries the expiry of *)
(* a request that was really approved, so it cannot outlive every approval *)
(* (resolve_one 3b: the ALLOW expires when the approval does).             *)
ExceptionIsBacked ==
  \A v \in HeldVerdicts : "approved_exception" \in v.reasons =>
    /\ v.verdict = "ALLOW"
    /\ \E a \in Approvals :
         approvals[a].status # "none" /\ approvals[a].expires = v.expires

(* Redis never keeps an entry beyond the default time, nor beyond the      *)
(* expiry of its verdict, except for the one second SETEX needs at least   *)
(* when the verdict expired before it was cached (cache.rs: set).          *)
CacheOutlivesNothing ==
  cache # NoVerdict =>
    /\ cache.dies \in now + 1 .. now + VerdictTTL
    /\ cache.verdict.expires # NoTime =>
         \/ cache.dies <= cache.verdict.expires
         \/ cache.dies = now + 1

(* Every request is answered, with a verdict or an error.                  *)
RequestsAreAnswered ==
  \A t \in Tasks : task[t].pc \in Await ~> task[t].pc \in Answered

CachedPending ==
  cache # NoVerdict /\ cache.verdict.verdict = "HOLD"
    /\ "provenance_pending" \in cache.verdict.reasons

(* A cached HOLD for a provenance nobody checked yet does not stay: the    *)
(* extraction its resolve spawned records a result and drops it (without   *)
(* faults; a failed extraction leaves it to the entry's time to live).     *)
PendingHoldIsDropped == CachedPending ~> ~CachedPending
=============================================================================
