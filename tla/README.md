# Embargo: specifications, model checking and proofs

Embargo is a self-hosted gate for npm packages. A policy and signal engine
(Rust) gives every `(package, version)` a verdict, ALLOW, HOLD or DENY;
enforcement points (a registry gateway, a CI admission gate, an install
sandbox) ask it for verdicts and report what they see. This directory models
the engine and the enforcement points in TLA+, checks the models with TLC on
small instances, and proves their main safety properties with TLAPS for every
value of the constants.

All paths below are relative to the repository; `E/` stands for
`src/engine/crates/embargo-engine/src/`, `C/` for
`src/engine/crates/embargo-core/src/` and `S/` for `src/sandbox/src/`.

## 1. Inventory

| Component | State | Operations | What is hard | What makes it correct |
|---|---|---|---|---|
| Scoring (`C/scoring.rs`, `C/types.rs`) | none | `compute_verdict` | truncation to hours, order of checks, widths of weights | the severest reason wins; a HOLD lasts as long as its cooldown; a signal never relaxes; feeds always deny |
| Policy rules (`C/policy.rs`) | a ruleset | `PolicyResolver::resolve` | overlapping scopes, ties | the most specific rule decides, the earliest of equals |
| Policy store (`E/db/policies.rs`, `E/main.rs`) | `policies` rows | upsert, bootstrap, `get_active` | transactions that overlap under READ COMMITTED, engines that start together | there is always a policy; a superseded one never returns |
| Verdict service (`E/grpc/engine_svc.rs`, `E/cache.rs`, `E/db/verdicts.rs`) | `verdicts` rows, Redis entries, requests in flight | `Resolve`, `ResolvePackument`, `ReportEvent`, all through `resolve_one` | no request is atomic; two stores; two expiries; a cache that is invalidated while it is being filled | a verdict misses nothing that held while it was computed; no hard block is released; a lapsed exception is over; every request ends |
| Extraction (`E/extractor.rs`, `E/registry.rs`, `E/db/signals.rs`, `E/db/provenance.rs`) | `signals`, `provenance` rows, extractions in flight | pick the predecessor, detect, replace signals, set provenance, drop the cache entry | runs detached, fails anywhere, races reports and other extractions; versions are unpublished | findings reach the next verdict; a change is flagged in some release |
| Detectors (`C/signals/`) | none | eight detectors, four chains, edit distance | boundaries of counts and distances | look-alikes, bursts, newcomers and changed scripts are found |
| Sigstore verification (`E/provenance/`) | trust root | verify attestations | any order of certificates, cycles | verified means signed through a path to an anchor, and bound to the repository if one is declared |
| Watchlist tracker (`E/tracker.rs`, `E/db/watchlist.rs`) | `watchlist` rows | select due targets, extract, mark checked | operators edit while a pass runs; crashes | every enabled due target is checked; edits stand |
| Known-malicious feeds (`E/feeds.rs`, `E/db/feed_sources.rs`, `E/db/known_malicious.rs`) | sources, entries | sync a source, delete it, manual entries | download and replace are apart; a source changes meanwhile; statements fail | entries leave only by a commit or by hand; a deletion by itself leaves none |
| Exceptions (`E/http.rs`, `E/db/approvals.rs`) | `approvals` rows | request, approve, reject, revoke | two deciders at once, roles that change | separation of duties; a decision stands |
| OIDC (`E/auth.rs`) | loaded keys | load keys, verify a token, map roles | keys rotate after they were loaded | only signers enter; a holder of a good token does |
| Audit log (`E/db/audit.rs`, `C/audit.rs`) | `audit_log` rows | append | two statements, no transaction, many writers | one chain of hashes while appends do not overlap; decisions on record are true |
| Gateway (`src/gateway`) | per-request state | rewrite packuments, gate tarballs | late, failing or missing engine answers | an unresolved version is never served; requests end |
| Admission gate (`src/admission`) | per-run state | parse lockfiles, diff, resolve in batches, decide | batches, partial answers; five formats | every changed dependency is checked, under the name the engine knows it by; one blocked or unresolved fails the run |
| Sandbox (`src/sandbox`) | child process, detector state | hand over the listener, supervise system calls, reap, report | threads that die while their call is judged, ids that are reused, memory that changes after it was examined, the handshake | what was examined and is not listed is not reached; refusals are accounted for; the run ends |
| Advisory client, tarball parsing, admin views, statistics, console | views | fetch, parse, show | input formats | outside the state the models keep |

How they interact: gateway, admission gate and sandbox call the engine by gRPC.
`resolve_one` reads Redis, then `policies`, `signals`, `provenance`,
`known_malicious` and `approvals`, and writes `verdicts` and Redis. Extractions
and the tracker write `signals` and `provenance`; the feeds write
`known_malicious`; the console's HTTP API writes `approvals` and the rest, and
appends to `audit_log`. Nothing but these tables and Redis is shared, and no
handler locks them beyond its single transaction: the interleavings of these
statements are what the models are about.

`PROJECT.json` lists the same components with their status, and under
`hazards` what in this code a test hardly reaches, each at its line.

## 2. Plan

1. Done: the verdict service (`Verdict`, `ResolveEngine`), the audit log and
   the exceptions (`LinearLog`, `AuditChain`, `Approvals`).
2. Done: the enforcement points before an engine that changes its mind, and
   their abstract specification (`Enforcement`, `Gate`); the workers over
   tables (`Schedule`, `Watchlist`, `FeedSync`); the policy store; keys and
   tokens; the sandbox; the pure algorithms of the engine and the lockfile
   parsers, composed for TLC in `MCCore`; proofs about the verdict service and
   its cache, all stores, the gate and the sandbox.
3. Done: proofs about the pure algorithms (`CoreProofs`, on the induction
   facts of `NaturalFacts`), the refinement of `LinearLog`, the entries that
   feeds leave behind, keys and tokens, and what the sandbox reports; the edit
   distance and the look-alikes it finds, and the lockfile parsers. Every
   invariant a run checks is a theorem now.
4. Left: signals as rows with identities (duplicates of concurrent
   extractions); an `Enforcement` whose engine is `ResolveEngine` itself
   instead of a set of releases that changes at will.

## 3. Modules

| Module | Models | Extends |
|---|---|---|
| `Verdict` | `compute_verdict`, `escalate`, `is_hard_block`, the approval override of `resolve_one` | |
| `Weights` | the chain score and the widths of weights | |
| `PolicyRules` | `PolicyResolver` | |
| `Detectors`, `Releases` | the detectors and chains; the history of a package, `prior_version`, `republish_burst`, what an extraction finds | `Releases` extends `Detectors` |
| `Typosquat` | the look-alike detector with its edit distance | |
| `Provenance` | attestation checks and the walk to an anchor | |
| `Lockfiles` | the lockfile parsers and the lockfiles package managers write | |
| `ResolveEngine` | the verdict service for one version, its extractions, the tracker, the stores and the cache | `Verdict` |
| `ResolveHistory` | `ResolveEngine` with the facts that held since a request began | `ResolveEngine` |
| `ResolvePromises` | `ResolveEngine` with what a documented promise talks about | `ResolveEngine` |
| `LinearLog` | abstract: what the audit log promises | |
| `AuditChain` | `append` with concurrent handlers, failures and commits out of order | instantiates `LinearLog` |
| `Approvals` | the exception workflow, its role checks and its entries | `AuditChain` |
| `Gate` | abstract: what an enforcement point promises its clients | |
| `Enforcement` | gateway and admission gate before an engine | instantiates `Gate` |
| `Schedule` | a table of things to do at an interval, its edits and its worker | |
| `Watchlist` | the watchlist and its tracker | `Schedule` |
| `FeedSync` | feed sources, entries, syncs and deletions | `Schedule` |
| `PolicyStore` | the policies table | |
| `Tokens` | keys, tokens and roles | |
| `Sandbox` | child, supervisor, kernel, chain detector, reports | |
| `MCVerdict`, `MCCore`, `MCTables` | inputs of the algorithms; compositions of small, independent parts for TLC | what they compose |
| `Instances` and the other `MC...` modules | constants for TLC | |
| `NaturalFacts` | induction over numbers and loops, as facts about sets and functions | |
| `CoreProofs`, `ResolveProofs`, `FeedProofs`, `AuditProofs`, `EnforcementProofs`, `StoreProofs`, `SandboxProofs` | theorems | what they prove about |

`MCCore` and `MCTables` put several parts into one run. A variable `about`,
chosen at the start, says which of them moves; the others keep their first
state. The parts share no state, so nothing is lost, and every property is
checked on the behaviours of its part.

### Algorithms: Verdict, Weights, PolicyRules, Releases, Typosquat, Provenance, Lockfiles

`Verdict` counts time in ticks (the code's seconds); `HourTicks` ticks make an
hour, so that `num_hours()` and the hours added back to the clock truncate as
they do in the code. A reason is kept without its payload and the vector of
reasons as a set. `Judge` follows the order of the checks: provenance that was
checked and failed, advisories and listings assign, a pending provenance and
the chain escalate. There a weight only counts as zero or not; `Weights` has
the exact widths, with `Half` for 2^31: `as i32`, `max(0)` and a sum that
wraps.

`PolicyRules` represents a glob by its kind and by the packages it matches;
`resolve` is the loop of the code, a recursive function of the rules scanned.
`Weights` adds up the kept weights in the same form. `Releases` publishes and
unpublishes versions; what is found in one depends on the packument of the
moment, as in `extract_and_store`, whose failure (the predecessor is in the
time map but not in the packument) finds nothing. Later releases have later
times: npm stamps a publication in milliseconds. Text is the set of markers
the scans look for, except in `Typosquat`, where names are sequences of
characters, `osa_distance` is the code's table filled cell by cell, and states
are names made from popular ones edit by edit, or by separators and confusables
put in (`NamesAssumption`: popular names are ASCII, and a confusable is not and
folds to one letter). The table of confusables covers some letters only
(`Folded`), and a name that begins with the `@` of a scope is skipped.
`Provenance` says of an attestation what is wrong with it; the issuer counts
only if issuers are configured, the repository only if the package declares one
(`compared`). It keeps signatures as
a relation that grows link by link, in any order and with cycles; the walk
follows it one issuer at a time, for as many steps as the code allows, and is
compared with the least set of certificates closed under it. `Lockfiles`
has keys and descriptors as sequences of tokens, which are the characters the
parsers cut at (`Marks`) and the words between them, and writes lockfiles the
way the package managers do: nested in other packages (for the oldest npm in
their entries, which `collectV1` goes into), with an older pnpm's slash, a newer
one's peers or both, with several ranges in a yarn header. Beside the
dependencies (`deps`) it writes entries that stand for none: the project's own
packages, npm's links without a version, aliases, patches and addresses. What
the parsers make of them is what they are written down for in `strays`: the
workspace packages of yarn berry and bun and whatever is fetched under another
name are checked like dependencies, the others are passed over.
`DepsAssumption` says what a name is made of.

### ResolveEngine, ResolveHistory, ResolvePromises

One `(package, version)`: every key of every store is per version, so versions
do not interact except in the loop of `ResolvePackument`, which is the engine's
side of `Enforcement`. A request is a record in `task`: its `pc` names the
await it is at, `in` is the input it has read so far, `out` the verdict it
computed. Each await of `resolve_one` is one action, in the order of the code:
`ReadCache`, `LoadPolicy`, `ReadSignals`, `ReadProvenance`, `CheckFeed` (the
feed lookup and everything up to the next await, `compute_verdict` included),
`CheckApproval`, `Upsert`, `SetCache` (with the spawn of an extraction that
follows it without an await). `Resolve` without a publish time starts at
`ReadRow`, `ReportEvent` at `AppendSignal` and `DropCached`. `Fail` ends a
handler at any await: a store that fails, or a caller that goes away.

An extraction is a record in `ext`, one per request slot and one per tracker
worker. What it finds is a choice from `Findings`. `replace_for_version` is one
transaction, but under READ COMMITTED its DELETE sees the rows committed before
that statement: `DeleteSignals` takes this snapshot (`doomed`), `InsertSignals`
commits, and a signal appended in between survives. Signals are a set; equal
rows are one.

The environment is `UpsertPolicy`, `ChangeListing`, `Approve`, `Revoke` and
`Tick`. Redis drops an entry when its time is over, as part of `Tick`.
`ResolveHistory` adds, for each request, the facts that have held without
interruption since it began (for an event, since its signal was committed) and,
for the cache entry, since the request began that wrote it. This is what "a
verdict misses nothing" has to mean for requests that are not atomic: a request
may miss what changed while it ran, never what held all along.

### AuditChain and Approvals

`log[i]` is the row with sequence number `i`: Postgres numbers a row when the
INSERT runs and shows it when it commits, so a row is running, committed or
failed, and `LastHash` reads the last committed one. Hashes do not collide and
entries have fresh ids, so a hash is the sequence number of its row. `by` is
history and names the handler.

`Approvals` uses handlers as the writers of `AuditChain`: each handler is one
UPDATE or INSERT with its role check, which happen in one step with the entry
into `append`, and then the steps of `append`. A conflict (409) or a missing
permission (403) changes nothing and has no action. `revoke_approval` of the
HTTP API appends even when it revoked nothing; `revoke_approval_grpc` appends
nothing. The role of a user may change at any time between requests.

### Gate and Enforcement

A client is one request to the gateway (`filter_metadata`, `tarballGate`) or
one run of the admission gate (`runGate`). `asked` is what the caller wants
judged, `open` what the engine has still to judge, `later` the batches to come.
`Judge` judges one release with what the engine allows at this moment;
`VerdictsChange` lets it allow anything else. `GiveUp` is an error of the
engine, a lost connection or the deadline, at any time before the answer is
complete: the client gets nothing, or, from a gateway that was started to fail
open, everything. `Gate` says the same without calls and batches: a client
gets only what was allowed at some moment since it asked.

### Schedule, Watchlist, FeedSync, PolicyStore, Tokens

`Schedule` replaces clocks by what the query for due rows needs: whether a row
is due, and the order of last checks (`Only` is the WHERE of the query). A pass selects up to `Batch` rows and
works on these copies; `Recorded` writes an outcome to the row with the id that
was selected. `Watchlist` adds the extraction and its outcome, `FeedSync` the
entries and the jobs (syncs by the worker or by hand, deletions), each
statement by statement: a DELETE sees what is committed (`doomed`), the commit
replaces it. A failing statement rolls back; a crash ends every job.

`PolicyStore` has a transaction as its statements: `Begin` fixes NOW(), the
UPDATE takes the active rows of its snapshot, waits for rows another
transaction holds, re-checks them, and `Commit` shows everything at once.
`past` is the history of policies that were in force. `Tokens` has the document
of the identity provider, which changes, and the keys an engine loaded when it
started; `Candidates` is every choice an unordered map may make for a token
whose key id is not loaded or that has none.

### Sandbox

Threads of the supervised command fork, exit, are interrupted and call; the
kernel keeps a count of notifications that outlives a notification that is
withdrawn, which is why a receiver may be woken for nothing (ENOENT). The
supervisor receives, reads the thread's memory, checks that the notification
still stands, decides, answers. Another thread may rewrite what a waiting call
points to at any time (`Swap`); `Memory` is what it is at the moment, read once
by the supervisor and again by the kernel when the call continues. `hangup` says
whether the kernel ends a receive when no thread is left: `seccomp_unotify(2)`
(BUGS) has older kernels block. `log` is history: what calls pointed to, what
was examined or could not be read, what was rewritten after that, what the calls
came to. The pid of an event is a thread id; `Fork` reuses one. A `report` may
never return; `finish` follows the last.

## 4. Passing runs

| Run | Checks | Bounds |
|---|---|---|
| `core` | `SeverestReasonWins`, `HoldExpiresWithCooldown`, `SignalsEscalateTimeRelaxes`; `NoveltiesAreFlagged`, `PastOnlyExcuses`; `DistanceCountsEdits`, `LookalikesAreFound`; `MostSpecificFirst`, `EditsAreLocal`; `VerifiedIsBound`, `SoundPathIsFound`; `ScorePositiveIffWeighed`; `LockfileIsCovered` | 3 ticks an hour, 7 ticks, 2 signals; 3 releases out of 15 artifacts, unpublished in any order; 2 edits or 2 separators or confusables on names of 2, 4 and 8 characters over 3 letters, one of them with a confusable, one the `@`; 3 rules over 5 globs; 3 certificates, 1 anchor, 2 attestations; 4 weights below 2 * 4; 3 lockfile entries in 6 formats |
| `resolve_facts` | `ComputedRespectsFacts`, `CachedRespectsFacts` | 2 requests with extractions that find an advisory (and delete what was reported), reports, listing, 1 approval and its revocation, clock at 0 |
| `resolve_exceptions` | `HardBlockNeverReleased`, `ExceptionIsBacked`, `CacheOutlivesNothing` | 1 request slot and the tracker, 1 approval of one hour (2 ticks), cooldown of one hour, reports, listing, failing awaits, clock up to 3 |
| `resolve_liveness` | `RequestsAreAnswered`, `PendingHoldIsDropped` | 2 requests and the tracker, one clock tick |
| `approval_duties` | `ForksAreOverlaps`, `LogAgreesWithTable`, `DecisionsStand` | 2 handlers, 2 users, 1 request, 3 rows, failures, changing roles |
| `enforcement` | `ImplementsGate`, `RequestsEnd` | 2 releases, 1 gateway request, 1 admission run, batches of 1 |
| `feeds` | `NoGap`, `OrphansAreOverlaps` | 1 source of 2 ecosystems, 1 listing, the worker and 2 requests by hand, 4 edits, 1 fault |
| `tables` | `ChecksAreOwn`, `EveryRowIsChecked`; `TwoActiveOverlapped`, `NoPolicyReturns`, `BootstrapOnlyFills`; `OnlySignersEnter`, `HoldersEnter`; `ImplementsLinearLog` | 2 targets, batches of 1, 4 edits, 1 fault; 2 operators and 1 engine, `MaxStamps` 4; 2 key pairs, documents of 2 keys, entries and tokens with and without key ids; 1 log handler, 6 rows |
| `sandbox` | `NothingSlipsOut`, `BlockedAccounts`, `ChainsAreTheFirst`, `CallsAreAnswered`, `RunEnds` | 2 threads, a listed and an unlisted host, a window of 1 tick in 2, 3 calls or rewritten addresses, 1 fault, with chain detection on a kernel that ends a receive and without it on one that does not |

Why the bounds are enough. The anomalies of the verdict service need two
requests (or a request and an extraction) and one store that changes between
two of their reads; two slots, each with its extraction, give every pair of
them. `resolve_exceptions` needs one slot only, because its properties are
about single verdicts, wherever they are kept, and about the time that passes.
Time matters at three points, before, at and after an expiry, which two ticks
an hour and a clock that passes one hour reach. A fork needs two appends. Rights matter between two people. A
batch boundary needs one release more than a batch holds, and a verdict that
changes between two judgements needs two releases. A row that is deleted and
added again under a running pass takes three edits (add, delete, add), a row
that starves takes two targets and a batch of one. An overlap of policy
transactions takes two, a policy that is superseded by one of them a third.
A rotation takes two keys. A stale notification takes two threads, and a chain
a read, an egress that completes it and one more call that must not. A walk
through three certificates has every shape a longer one has: direct, indirect,
forked, cyclic, and too long for its bound (`Steps` is 3). Four weights of at
most 7 reach the wrap at 8 with two and with three addends. What the bounds
leave open, the theorems of section 6 cover for their properties.

Symmetry is used for request slots, handlers, users and request ids in safety
runs only; no property names one of them. Deadlock is not checked: clocks,
edits, calls and logs are bounded and clients need not ask, so every model may
stop.

Fairness. The Tokio runtime polls every spawned task and every handler whose
await has completed, and database and Redis calls end with an answer or an
error: weak fairness of a request's own steps, of running extractions and of
the clock (`ResolveEngine!FairSpec`). The tracker ticks on
an interval for ever, and its extractions end: weak fairness of the pass and
of each of its steps (`TablesSpec`). The feed worker shares the schedule, its
order and its bound (`Schedule`), so `EveryRowIsChecked` is asked of the
tracker only, and `feeds` needs no fairness. Node's event
loop runs what is ready and every gRPC call has a deadline: weak fairness of
each client's steps, of which `GiveUp` is one, and none of the engine
(`Enforcement!FairSpec`). The operating system schedules the sandbox's parent:
weak fairness of its steps but `report`, which has no deadline
(`S/report.rs:77-88`); nothing is asked of the command it runs or of the engine
(`Sandbox!FairSpec`). No fairness is assumed of clients, operators, identity
providers, faults or crashes. `PendingHoldIsDropped` is checked without
failures: an extraction that fails leaves the entry to its time to live, which
the code accepts. `CallsAreAnswered` and `RunEnds` name the ways in which the
code may leave a thread or itself waiting: a notification that vanished before
it was received ends the supervision, a child that fails before it sends the
listener leaves the parent in `recvmsg`, a kernel that does not end a receive
leaves it there, and a report the engine does not answer holds it at the end.

Each property of a passing run has a mutant in `PROJECT.json`, a changed
definition under which TLC finds it violated; the mutants are the operators
marked "Mutated" in the modules.

## 5. What the documentation promises and the code does not keep

Each of these runs checks one sentence of the repository and ends with a
counterexample.

| Run | Sentence | What happens |
|---|---|---|
| `promise_flagged` | `src/README.md:119`: flagged during its cooldown, a version is denied permanently | an extraction (of the tracker, or one still running) replaces all signals, the reported one included |
| `promise_reporter` | `E/grpc/engine_svc.rs:130`: the reporter learns the verdict after its event | an older request fills the cache after the invalidation |
| `promise_deleted` | `E/http.rs:968`: deleting a feed clears the source's entries before the source | a sync that runs meanwhile inserts them between the two statements, and no source is left to remove them |

Seen while modelling, reachable in the models but without a run of their own:

- `E/extractor.rs:49-51` says a version stays held after a failed advisory
  query. Only its cooldown holds it; when that is over it is allowed, and an
  ALLOW starts no extraction.
- `E/grpc/engine_svc.rs:233` says the gate closes when an exception lapses. The
  tarball path answers with the persisted row (line 55) and ignores its expiry;
  it also serves a version that was listed after its row was written.
- `E/grpc/engine_svc.rs:50-52` says the tarball path enforces what the packument
  rewrite decided. Two requests may write row and cache (lines 241 and 242) in
  opposite order.
- `C/audit.rs:16` says every entry chains to its predecessor. Two overlapping
  appends read the same last entry (`E/db/audit.rs:67`); `ForksAreOverlaps`
  says that nothing else forks the chain.
- When the append after an approval fails, the exception stays active without
  an entry (`E/http.rs:446-457`); the same holds of a policy update
  (`E/grpc/admin_svc.rs:87`). The gRPC revocation appends none
  (`E/grpc/admin_svc.rs:126-137`, against `src/docs/plans/engine.md:137`).
- Keys are loaded once (`E/auth.rs:150`): after a rotation an engine refuses
  the new tokens and accepts those of a withdrawn key until it restarts.
  `OnlySignersEnter` and `HoldersEnter` speak of the document that was loaded.
- A weight reported above 2^31 - 1 is kept as none (`E/db/signals.rs:61`).
- `src/policy/README.md:64` says a rule of several globs scores on the best
  *matching* one. The code scores the best of all (`C/policy.rs:125`): a rule
  for `lodash,**` decides about every package as if it named it.
  `NothingFitsBetter` is therefore asked only of rules whose globs are equally
  specific.
- `E/provenance/sigstore.rs:15-17` and `105-106` say a verified version is bound
  to the accepted issuer and to the declared repository. Without a declared
  repository, or without configured issuers, nothing is compared (lines 185 and
  196), and the attestation of any workflow that chains to the trust root
  verifies the version.
- `src/sandbox/README.md:46-49` says that a thread may rewrite an address after
  it was examined. `NothingSlipsOut` holds up to that, and up to addresses that
  cannot be read, which `decide` lets through.
- `S/seccomp.rs:248` relies on the kernel to end a receive when the command is
  gone; on kernels that block there the supervisor never returns, and the child
  is not reaped. A notification that died before its receive ends the
  supervision while other threads still run (line 263). An engine that accepts
  a report and never answers holds the sandbox (`S/report.rs:83-86`).
- The workspace packages that yarn berry and bun list are sent to the engine as
  if they came from the registry (`src/admission/src/lockfiles/yarn.ts:24-28`,
  `bun.ts:16-22`), and an aliased or patched dependency under the alias or the
  whole descriptor instead of its own name.

## 6. What is proved

All theorems hold for every value of the constants that satisfies the named
ASSUMEs (finite or not: any set of requests, trackers, approvals, handlers,
users, releases, targets, operators, engines, threads and hosts). The ASSUMEs
say of which kind a constant is (`TimesAssumption`, `GlobsAssumption`,
`HalfAssumption`, ...), that special values differ from ordinary ones
(`NullsAssumption`, `PriorAssumption`, `WalkAssumption`, `HostsAssumption`),
what names are made of (`NamesAssumption`, `DepsAssumption`), and
in `GapsAssumption` that a registry stamps releases one after the other. TLC
evaluates each of them. Five properties are proved and checked by no run,
because a deeper one of a run stands for them: `TypeInv`, `NoDanglingHash`
(`ImplementsLinearLog`), `SeparationOfDuties` (`LogAgreesWithTable`),
`PolicyNeverLost` and `EditsStand`.

### Loops and recursive functions

The library's induction theorems take a predicate, which the provers cannot
instantiate. `NaturalFacts` says the same of sets: a set of numbers that is not
empty has a least member (from the well-foundedness of the naturals), and a set
that holds 0 and with each number its successor holds all up to n (`UpTo`).
`LoopExists` gives the function of the states of a loop that runs n times. A
recursive function is a CHOOSE; the proofs show with `LoopExists` that such a
function exists, and with `UpTo` what any such function computes. No model uses
a RECURSIVE operator where a theorem needs it.

### The algorithms: CoreProofs

- `SeverestReason`, `HoldLastsAsLongAsCooldown` and `VerdictsMoveOneWay`: the
  verdict for every well-typed input, ages and hours included. The quotient of
  a division is handled as whole hours and a rest (`WholeAndRest`).
- `SpecificRulesDecide` and `EditsStayLocal`: after k rules the scan holds a
  most specific matching rule of the first k, the earliest of equals. Hence one
  rule wins, and an edit can only matter where it adds or takes the winner. A
  glob that fits better than the winner's would give its rule a higher score,
  unless the winner owes its own score to a glob that does not match.
- `VerifiedOnlyIfBound` and `SoundPathsAreFound`: the walk never leaves what the
  leaf's signatures lead to; and if every way up comes to an anchor, it can
  neither stop before one nor come back to a certificate it has left, so that a
  walk as long as the bundle ends at an anchor.
- `WeightsCount`: the wrapped sum is the rest of the true sum. It is zero only
  if all addends are zero or the sum is a multiple of 2^w, for which two
  positive 31-bit addends are not enough.
- `NoveltiesFlagged`, from `ReleasesInv` (times grow): the predecessor is the
  nearest listed version, so the first release on the way that has the new
  command differs from its predecessor; a newcomer is one to the predecessor,
  too; and the last of a burst counts all others. `PastExcuses` holds of every
  state: every detector but the one for new maintainers is monotone in what the
  predecessor lacks.
- `EditsAreCounted`, for names of any length: a cell of the table, once filled,
  is the least of its neighbours' (by `UpTo` over rows and cells, with the order
  in which the code fills them). Hence the distance is symmetric, at least the
  difference in length, and zero only between equal names. That it is no more
  than the edits made follows from `SquatInv`, which holds an alignment of the
  two names: a number for every pair of their beginnings that no cell may
  exceed. An insertion, a deletion or a substitution raises it by one at most.
  Alignments know no swaps: a single swap has a lemma of its own (`SwapIsOne`),
  and edits around swaps are what the property leaves out, because there the
  code's distance may exceed the edits made.
- `ImpostorsAreFound`: `SquatInv` also says that removing the separators gives
  the same from both names, and that folding gives the target back, so the
  first or the second test of `classify` holds for one popular name, and the
  rank found is the least of all.

### The engine

- `ResolveProofs`: `FeedsDeny` (an advisory or a listing denies and cannot be
  released) and `SignalsEscalate` (more signals never give a milder verdict),
  for every well-typed input; and `TypeCorrect`. `TypeInv` is `TypeOK` and
  `Phases`, which says that a request past the policy has its input and one past
  the computation its verdict. Without `Phases` the types are not inductive,
  because the computation is applied to an input that might be missing.
- `ResolveProofs`, exceptions: `NoHardBlockReleased` and `ExceptionsAreBacked`,
  from `ExceptionInv`: every verdict anywhere is good (it serves only without a
  hard block, and an exception carries a granted expiry), and a request at the
  approval lookup carries a releasable verdict. The second part is what makes
  it inductive: `CheckApproval` releases without looking at the reasons again.
  `GrantsStay` says that the expiry of an approval never changes once given.
- `ResolveProofs`, cache: `CacheForgets`, from the types: an entry is written
  with a time to live between a second and the default, and `Tick` drops it in
  the step that reaches its end.
- `ResolveProofs`, history: `VerdictsRespectFacts` and `CacheRespectsFacts`, from
  `HistoryInv`. A history holds only facts of the present and shrinks after a
  request's first step, so what a request has read it still holds of its
  history: the signals after `ReadSignals`, all of it after `CheckFeed`. At the
  approval lookup the history has no listing and no advisory, because the
  verdict is releasable (`FeedsDeny`); so a release cannot miss one.
- `FeedProofs`, entries: `EntriesLeaveByCommit`, from `DownloadsInv`: a job
  holds a download only between its download and its commit. Without it a
  deletion could count as a sync that had the entry in its download.
- `FeedProofs`, orphans: `OnlyOverlapsOrphan`, from `FeedInv` and `WorkerInv`.
  The copies that jobs and the queue hold are what makes it inductive: the copy
  of a sync is that of its row until the name is loose; the copy of a deletion
  is right if its row is still there; a deletion about to commit sees every
  entry of its source, and one about to drop the row has left none. Each is
  kept by all steps that only move rows or shrink feeds (`RowStepKeeps`), and
  the commit of a sync beside a deletion makes the name loose. `WorkerInv`, that
  a busy worker's queue is not empty, is needed where the queue loses its head.
- `AuditProofs`, log: `OnlyOverlapsFork` and `HashesAreOfEntries`, from
  `ChainInv`: a running row is its handler's, a handler that has read holds a
  committed predecessor newer than those of all its earlier rows, and every row
  points back.
- `AuditProofs`, refinement: `SerialAppendsChain`. Whatever the number of
  handlers, as long as no two append at once (`Alone`, a condition on the
  behaviour and not on the constants) the committed rows in order are the chain
  of `LinearLog`. `SerialInv` adds that what a handler read is still the last
  entry, and that positions and rows correspond one to one; every step then
  extends the mapped chain by one linked entry or leaves it as it is.
- `AuditProofs`, exceptions: `DutiesAreSeparate`, `LogTellsTheTable` and
  `DecisionsAreFinal`, from `ApprovalInv`: the chain, the table, and every entry,
  also of an append that failed, agrees with the table. It is inductive only
  together with `DecisionsKept`, that decisions stand.
- `StoreProofs`, policies: `PolicySurvives`, `OnlyOverlapsStayActive` and
  `BootstrapsFill` from `PolicyInv`: a transaction past its snapshot knows, and
  past its UPDATE holds, every active row that was committed before it began.
  `SupersededIsOver` needs `ReturnInv` on top: transactions have different
  ages, and what one of them knows is a prefix of what is active: with each
  row it knows it knows the older active ones. So a commit that deactivates
  the row in force leaves no older one active, except below its own. The row
  in force is the maximum of a set of stamps, from well-foundedness.
- `StoreProofs`, watchlist: `NoBorrowedCheck` from `RowsAreOwn`, and
  `TrackerKeepsEdits`, which follows from single steps.
- `StoreProofs`, tokens: `OnlySigners` and `Holders`, from `TokenInv`: an engine
  that was asked for OIDC has keys or does not start, its keys are those of the
  document it loaded, and every answer was given with one of the candidates for
  the token. For `Holders` the keys of a document are its usable entries by key
  id, the last one winning (`ParsedKeys`).

### The enforcement points

- `EnforcementProofs`: `EnforcementImplementsGate`, the refinement of `Gate`.
  `GateInv` adds to the types, for each client, that
  what the engine allows now counts as seen (`allowed \subseteq since[c]`),
  that everything granted was seen, and that a run accounts for every
  dependency it will vouch for: asked = granted, blocked, open or later. The
  last part is needed because `evaluate` looks at `blocked` only.
- `EnforcementProofs`, lockfiles: `LockfilesAreCovered`, for every format, any
  dependencies and any number of entries. Each entry reads back as the
  dependency it was written for, whatever stands around it (`EntryRead`, from
  where a token is first and last in a text), and the other entries as what they
  are written down for, if anything; every nested entry is reached from the top;
  `dedupe` as a loop keeps each dependency once (`DedupeKeepsOnce`). `LockInv`
  says that what is read from the entries so far is exactly what was written. `DepsAssumption` is what it rests on: no mark but `@`
  and `/` in a name, none in a version.
- `SandboxProofs`: `SandboxHolds` from `SlipInv`: an answer that lets a
  connection through was given to a listed destination or to one that was not
  read, and until the kernel takes it the memory is what was examined or the
  call is among the rewritten ones. `RefusalsAreReported` from `AccountInv`: the
  refusals of each thread and destination, with the one that is decided and not
  yet delivered, are no more than the egresses reported. `FirstChainsAreReported`
  from `DetectorInv`: what the detector keeps (the last read of a secret and the
  fired mark of each thread) is what the whole history of examined calls says,
  because calls are examined in the order of time.

### Only model-checked

Liveness (`RequestsAreAnswered`, `PendingHoldIsDropped`, `RequestsEnd`,
`EveryRowIsChecked`, `CallsAreAnswered`, `RunEnds`): fairness and ENABLED are
out of the prover's reach. So are the counterexamples of section 5, which are
behaviours, not theorems.

## 7. What is not modelled

- I/O and transport: HTTP and gRPC plumbing, the registry's and the advisory
  feeds' protocols, the parsing of archives, YAML, JSON, DER and PEM. Their
  outcomes and errors are choices of the models.
- Cryptography: a signature is a fact about who signed, a hash does not collide.
- Read-only admin views, statistics and exports: queries without effect on the
  state. The console keeps no state of its own that decides anything.
- Explanations, annotations, metrics and log lines.
- Several versions of one package inside the engine: they share no row. The
  order in which `ResolvePackument` judges them and its abort are in
  `Enforcement`.
- The source name of manual entries as the name of a feed: `add_feed` accepts
  it, and the model's operators do not use it.
- Namespaces and resource limits of the sandbox beyond one step that may fail,
  and calls the filter does not notify.
