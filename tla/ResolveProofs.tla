--------------------------- MODULE ResolveProofs ---------------------------
(***************************************************************************)
(* Facts about the verdict computation for every input, and the types of   *)
(* ResolveEngine for every number of requests, trackers and approvals,     *)
(* every policy, report and finding.                                       *)
(***************************************************************************)
EXTENDS ResolveHistory, TLAPS

(* A product of natural numbers is one.                                    *)
LEMMA NatProduct ==
  ASSUME NEW a \in Nat, NEW b \in Nat PROVE a * b \in Nat
  OBVIOUS

(* An age is a natural number of hours.                                    *)
LEMMA AgeHoursType ==
  ASSUME NEW in \in ResolutionInput PROVE AgeHours(in) \in Nat
<1>1. CASE in.now < in.published
  BY <1>1 DEF AgeHours
<1>2. CASE ~(in.now < in.published)
  <2>1. in.now - in.published \in Nat
    BY <1>2 DEF ResolutionInput
  <2>2. (in.now - in.published) \div HourTicks \in Nat
    BY <2>1, HourTicksAssumption
  <2>3. QED
    BY <1>2, <2>2 DEF AgeHours
<1>3. QED
  BY <1>1, <1>2

(* The judgement of an input is ALLOW, HOLD or DENY.                       *)
LEMMA JudgeType ==
  ASSUME NEW in \in ResolutionInput PROVE Judge(in) \in VerdictKind
BY DEF Judge, VerdictKind, escalate, ResolutionInput, Rule

(* A verdict's expiry is a time or none.                                   *)
LEMMA ExpiryType ==
  ASSUME NEW in \in ResolutionInput PROVE Expiry(in) \in Nat \cup {NoTime}
<1>1. CASE Judge(in) = "HOLD" /\ Raised("cooldown", in)
  <2>1. AgeHours(in) < in.rule.cooldown
    BY <1>1 DEF Raised
  <2>2. in.rule.cooldown - AgeHours(in) \in Nat
    BY <2>1, AgeHoursType DEF ResolutionInput, Rule
  <2>3. (in.rule.cooldown - AgeHours(in)) * HourTicks \in Nat
    BY <2>2, NatProduct, HourTicksAssumption
  <2>4. QED
    BY <1>1, <2>3 DEF Expiry, ResolutionInput
<1>2. CASE ~(Judge(in) = "HOLD" /\ Raised("cooldown", in))
  BY <1>2 DEF Expiry
<1>3. QED
  BY <1>1, <1>2

(* compute_verdict returns a verdict for every input.                      *)
LEMMA ComputeType ==
  ASSUME NEW in \in ResolutionInput PROVE compute_verdict(in) \in VersionVerdict
BY JudgeType, ExpiryType DEF compute_verdict, VersionVerdict

(* Feeds: an advisory match or a known-malicious listing denies, whatever  *)
(* the policy, the fast track, the age and the attestation say, and leaves *)
(* nothing an approval could release (scoring.rs, resolve_one 3b).         *)
THEOREM FeedsDeny ==
  ASSUME NEW in \in ResolutionInput,
         Has(in.signals, "advisory_match") \/ Has(in.signals, "known_malicious")
  PROVE  /\ compute_verdict(in).verdict = "DENY"
         /\ HardBlocked(compute_verdict(in))
         /\ ~Releasable(compute_verdict(in))
<1>1. Raised("advisory", in) \/ Raised("known_malicious", in)
  BY DEF Raised
<1>2. Judge(in) = "DENY"
  BY <1>1 DEF Judge, escalate, Rank, ResolutionInput, Rule
<1>3. \E r \in {"advisory", "known_malicious"} : r \in compute_verdict(in).reasons
  BY <1>1 DEF compute_verdict, Reason
<1>4. HardBlocked(compute_verdict(in))
  BY <1>3 DEF HardBlocked, HardBlock
<1>5. QED
  BY <1>2, <1>4 DEF compute_verdict, Releasable

(* A verdict that serves the version has no hard block among its reasons.  *)
LEMMA ServedIsNotHardBlocked ==
  ASSUME NEW in \in ResolutionInput, compute_verdict(in).verdict = "ALLOW"
  PROVE  ~HardBlocked(compute_verdict(in))
<1>1. SUFFICES ASSUME HardBlocked(compute_verdict(in)) PROVE FALSE
  OBVIOUS
<1>2. PICK r \in HardBlock : r \in compute_verdict(in).reasons
  BY <1>1 DEF HardBlocked
<1>3. Raised(r, in) /\ r \in {"advisory", "known_malicious"}
  BY <1>2 DEF compute_verdict, HardBlock, Raised
<1>4. Has(in.signals, "advisory_match") \/ Has(in.signals, "known_malicious")
  BY <1>3 DEF Raised
<1>5. QED
  BY <1>4, FeedsDeny

-----------------------------------------------------------------------------
(* Signals only escalate: more signals never give a milder verdict, so     *)
(* nothing an extraction or a report adds can release a version            *)
(* (scoring.rs: only escalate, never relax).                               *)
THEOREM SignalsEscalate ==
  ASSUME NEW in \in ResolutionInput, NEW more \in SUBSET Signal, in.signals \subseteq more
  PROVE  Rank(compute_verdict([in EXCEPT !.signals = more]).verdict)
           >= Rank(compute_verdict(in).verdict)
<1> DEFINE in2 == [in EXCEPT !.signals = more]
<1>1. in2 \in ResolutionInput /\ in2.rule = in.rule /\ in2.signals = more
  BY DEF ResolutionInput
<1>2. AgeHours(in2) = AgeHours(in)
  BY DEF AgeHours, ResolutionInput
<1>3. \A r \in {"cooldown", "provenance_missing", "provenance_pending"} :
        Raised(r, in2) <=> Raised(r, in)
  BY <1>2 DEF Raised, ResolutionInput
<1>4. \A r \in {"advisory", "known_malicious", "signal_chain"} :
        Raised(r, in) => Raised(r, in2)
  BY <1>1 DEF Raised, Has, ChainPositive
<1>5. in.rule.onHardSignal \in {"DENY", "HOLD"}
  BY DEF ResolutionInput, Rule
<1>6. Rank(Judge(in2)) >= Rank(Judge(in))
  BY <1>1, <1>3, <1>4, <1>5 DEF Judge, escalate, Rank
<1>7. QED
  BY <1>6 DEF compute_verdict

-----------------------------------------------------------------------------
(* The initial state is well typed.                                        *)
LEMMA InitTypeInv == Init => TypeInv
<1> SUFFICES ASSUME Init PROVE TypeInv
  OBVIOUS
<1>1. now \in Nat /\ policy \in Policies \cup {NoPolicy} /\ signals \in SUBSET Signal
      /\ provenance \in Provenance /\ listed \in BOOLEAN
      /\ row \in VersionVerdict \cup {NoVerdict} /\ cache \in CacheEntry \cup {NoVerdict}
  BY TimesAssumption DEF Init, Provenance
<1>2. approvals \in [Approvals -> Approval]
  BY DEF Init, Approval
<1>3. task \in [Tasks -> Request]
  BY DEF Init, Request, NoRequest, RequestKind
<1>4. ext \in [Extractors -> Extraction]
  BY DEF Init, Extraction, NoExtraction, Provenance
<1>5. Phases
  BY DEF Init, Phases, NoRequest
<1>6. QED
  BY <1>1, <1>2, <1>3, <1>4, <1>5 DEF TypeInv, TypeOK

(* A step that replaces one request by a well-formed one, in phase, and    *)
(* touches no request otherwise.                                           *)
InPhase(r) ==
  /\ r.pc \in {"signals", "provenance", "feed"} => r.in # NoInput
  /\ r.pc \in {"approval", "upsert", "set", "done"} => r.out # NoVerdict

(* A request changes into one that is in its phase.                        *)
LEMMA OneRequest ==
  ASSUME TypeInv, NEW t \in Tasks, NEW r \in Request, InPhase(r),
         task' = [task EXCEPT ![t] = r]
  PROVE  task' \in [Tasks -> Request] /\ Phases'
<1>1. task \in [Tasks -> Request]
  BY DEF TypeInv, TypeOK
<1>2. task' \in [Tasks -> Request]
  BY <1>1
<1>3. \A u \in Tasks : task'[u] = IF u = t THEN r ELSE task[u]
  BY <1>1
<1>4. QED
  BY <1>2, <1>3 DEF TypeInv, Phases, InPhase

(* A request goes on to another await with what it has.                    *)
LEMMA GotoType ==
  ASSUME TypeInv, NEW t \in Tasks, NEW pc \in {"idle"} \cup Await \cup Answered, Goto(t, pc),
         pc \notin {"signals", "provenance", "feed", "done", "approval"},
         pc \in {"upsert", "set"} => task[t].out # NoVerdict
  PROVE  task' \in [Tasks -> Request] /\ Phases'
<1> DEFINE r == [task[t] EXCEPT !.pc = pc]
<1>1. r \in Request /\ r.pc = pc /\ r.out = task[t].out
  BY DEF TypeInv, TypeOK, Request
<1>2. task' = [task EXCEPT ![t] = r]
  BY DEF Goto
<1>3. InPhase(r)
  BY <1>1 DEF InPhase
<1>4. QED
  BY <1>1, <1>2, <1>3, OneRequest

(* A request is answered with a verdict.                                   *)
LEMMA AnswerType ==
  ASSUME TypeInv, NEW t \in Tasks, NEW v \in VersionVerdict, Answer(t, v)
  PROVE  task' \in [Tasks -> Request] /\ Phases'
<1> DEFINE r == [task[t] EXCEPT !.pc = "done", !.out = v]
<1>1. r \in Request /\ r.pc = "done" /\ r.out = v
  BY DEF TypeInv, TypeOK, Request, Answered
<1>2. task' = [task EXCEPT ![t] = r]
  BY DEF Answer
<1>3. InPhase(r)
  BY <1>1, NullsAssumption DEF InPhase
<1>4. QED
  BY <1>1, <1>2, <1>3, OneRequest

(* The steps of a request that change nothing but itself keep every type.  *)
LEMMA QuietStep ==
  ASSUME TypeInv, task' \in [Tasks -> Request] /\ Phases',
         UNCHANGED <<now, stores, row, cache, ext>>
  PROVE  TypeInv'
BY DEF TypeInv, TypeOK, stores

(* A request arrives.                                                      *)
LEMMA ReceiveType ==
  ASSUME TypeInv, NEW t \in Tasks, NEW kind \in RequestKind,
         NEW pc \in {"cache", "row", "append"}, Receive(t, kind, pc)
  PROVE  TypeInv'
<1> DEFINE r == [task[t] EXCEPT !.pc = pc, !.kind = kind]
<1>1. r \in Request /\ r.pc = pc
  BY DEF TypeInv, TypeOK, Request, Await
<1>2. task' = [task EXCEPT ![t] = r]
  BY DEF Receive
<1>3. InPhase(r)
  BY <1>1 DEF InPhase
<1>4. task' \in [Tasks -> Request] /\ Phases'
  BY <1>1, <1>2, <1>3, OneRequest
<1>5. QED
  BY <1>4, QuietStep DEF Receive

(* A request past its policy has an input.                                 *)
LEMMA LoadPolicyType ==
  ASSUME TypeInv, NEW t \in Tasks, LoadPolicy(t) PROVE TypeInv'
<1>1. CASE policy = NoPolicy
  <2>1. Goto(t, "failed")
    BY <1>1 DEF LoadPolicy
  <2>2. task' \in [Tasks -> Request] /\ Phases'
    BY <2>1, GotoType DEF Answered
  <2>3. QED
    BY <2>2, QuietStep DEF LoadPolicy
<1>2. CASE policy # NoPolicy
  <2> DEFINE in == [published |-> IF task[t].kind = "packument" THEN Published ELSE now,
                    provenance |-> "none", signals |-> {}, rule |-> policy.rule,
                    fast |-> policy.fast, now |-> now]
             r == [task[t] EXCEPT !.pc = "signals", !.in = in]
  <2>1. policy.rule \in Rule /\ policy.fast \in BOOLEAN
    BY <1>2, PoliciesAssumption DEF TypeInv, TypeOK
  <2>2. in \in ResolutionInput
    BY <2>1, TimesAssumption DEF ResolutionInput, TypeInv, TypeOK, Provenance
  <2>3. r \in Request /\ r.pc = "signals" /\ r.in = in
    BY <2>2 DEF TypeInv, TypeOK, Request, Await
  <2>4. InPhase(r)
    BY <2>2, <2>3, NullsAssumption DEF InPhase
  <2>5. task' = [task EXCEPT ![t] = r]
    BY <1>2 DEF LoadPolicy
  <2>6. task' \in [Tasks -> Request] /\ Phases'
    BY <2>3, <2>4, <2>5, OneRequest
  <2>7. QED
    BY <2>6, QuietStep DEF LoadPolicy
<1>3. QED
  BY <1>1, <1>2

(* Signals become part of the input.                                       *)
LEMMA ReadSignalsType ==
  ASSUME TypeInv, NEW t \in Tasks, ReadSignals(t) PROVE TypeInv'
<1> DEFINE in == [task[t].in EXCEPT !.signals = signals]
           r == [task[t] EXCEPT !.pc = "provenance", !.in = in]
<1>1. task[t].in \in ResolutionInput
  BY DEF ReadSignals, At, TypeInv, TypeOK, Phases, Request
<1>2. in \in ResolutionInput
  BY <1>1 DEF ResolutionInput, TypeInv, TypeOK
<1>3. r \in Request /\ r.pc = "provenance" /\ r.in = in
  BY <1>2 DEF TypeInv, TypeOK, Request, Await
<1>4. InPhase(r)
  BY <1>2, <1>3, NullsAssumption DEF InPhase
<1>5. task' = [task EXCEPT ![t] = r]
  BY DEF ReadSignals
<1>6. task' \in [Tasks -> Request] /\ Phases'
  BY <1>3, <1>4, <1>5, OneRequest
<1>7. QED
  BY <1>6, QuietStep DEF ReadSignals

(* The provenance becomes part of the input.                               *)
LEMMA ReadProvenanceType ==
  ASSUME TypeInv, NEW t \in Tasks, ReadProvenance(t) PROVE TypeInv'
<1> DEFINE in == [task[t].in EXCEPT !.provenance = provenance]
           r == [task[t] EXCEPT !.pc = "feed", !.in = in]
<1>1. task[t].in \in ResolutionInput
  BY DEF ReadProvenance, At, TypeInv, TypeOK, Phases, Request
<1>2. in \in ResolutionInput
  BY <1>1 DEF ResolutionInput, TypeInv, TypeOK
<1>3. r \in Request /\ r.pc = "feed" /\ r.in = in
  BY <1>2 DEF TypeInv, TypeOK, Request, Await
<1>4. InPhase(r)
  BY <1>2, <1>3, NullsAssumption DEF InPhase
<1>5. task' = [task EXCEPT ![t] = r]
  BY DEF ReadProvenance
<1>6. task' \in [Tasks -> Request] /\ Phases'
  BY <1>3, <1>4, <1>5, OneRequest
<1>7. QED
  BY <1>6, QuietStep DEF ReadProvenance

(* An input that is complete is an input.                                  *)
LEMMA CompletedType ==
  ASSUME TypeInv, NEW in \in ResolutionInput PROVE Completed(in) \in ResolutionInput
<1>1. known_malicious_signal \in Signal
  BY DEF known_malicious_signal, Signal, SignalType
<1>2. QED
  BY <1>1 DEF Completed, ResolutionInput, TypeInv, TypeOK

(* A request past the computation has a verdict.                           *)
LEMMA CheckFeedType ==
  ASSUME TypeInv, NEW t \in Tasks, CheckFeed(t) PROVE TypeInv'
<1> DEFINE in == Completed(task[t].in)
           v == compute_verdict(in)
           b == in.signals = {} \/ in.provenance = "none"
           next == IF Releasable(v) THEN "approval" ELSE "upsert"
           r == [task[t] EXCEPT !.pc = next, !.in = NoInput, !.out = v, !.unanalysed = b]
<1>1. task[t].in \in ResolutionInput
  BY DEF CheckFeed, At, TypeInv, TypeOK, Phases, Request
<1>2. v \in VersionVerdict
  BY <1>1, CompletedType, ComputeType
<1>3. r \in Request /\ r.pc = next /\ r.out = v
  <2> HIDE DEF v, b
  <2>1. b \in BOOLEAN
    BY DEF b
  <2>2. QED
    BY <1>2, <2>1 DEF TypeInv, TypeOK, Request, Await
<1>4. InPhase(r)
  <2> HIDE DEF v, b
  <2>1. QED
    BY <1>2, <1>3, NullsAssumption DEF InPhase
<1>5. task' = [task EXCEPT ![t] = r]
  BY DEF CheckFeed
<1>6. task' \in [Tasks -> Request] /\ Phases'
  BY <1>3, <1>4, <1>5, OneRequest
<1>7. QED
  BY <1>6, QuietStep DEF CheckFeed

(* An exception makes a verdict of a verdict.                              *)
LEMMA ReleaseType ==
  ASSUME NEW v \in VersionVerdict, NEW e \in Nat PROVE Release(v, e) \in VersionVerdict
BY DEF Release, VersionVerdict, VerdictKind, Reason

(* A request past the approval lookup has a verdict.                       *)
LEMMA CheckApprovalType ==
  ASSUME TypeInv, NEW t \in Tasks, CheckApproval(t) PROVE TypeInv'
<1>1. task[t].out \in VersionVerdict
  BY DEF CheckApproval, At, TypeInv, TypeOK, Phases, Request
<1>2. CASE Goto(t, "upsert")
  <2>1. task' \in [Tasks -> Request] /\ Phases'
    BY <1>1, <1>2, NullsAssumption, GotoType DEF Await
  <2>2. QED
    BY <2>1, QuietStep DEF CheckApproval
<1>3. ASSUME NEW a \in ActiveApprovals,
             task' = [task EXCEPT ![t].pc = "upsert",
                                  ![t].out = Release(@, approvals[a].expires)]
      PROVE  TypeInv'
  <2> DEFINE v == Release(task[t].out, approvals[a].expires)
             r == [task[t] EXCEPT !.pc = "upsert", !.out = v]
  <2>1. approvals[a].expires \in Nat
    BY DEF ActiveApprovals, TypeInv, TypeOK, Approval
  <2>2. v \in VersionVerdict
    BY <1>1, <2>1, ReleaseType
  <2>3. task' = [task EXCEPT ![t] = r]
    BY <1>3
  <2> HIDE DEF v
  <2>4. r \in Request /\ r.pc = "upsert" /\ r.out = v
    BY <2>2 DEF TypeInv, TypeOK, Request, Await
  <2>5. InPhase(r)
    BY <2>2, <2>4, NullsAssumption DEF InPhase
  <2>6. task' \in [Tasks -> Request] /\ Phases'
    BY <2>3, <2>4, <2>5, OneRequest
  <2>7. QED
    BY <2>6, QuietStep DEF CheckApproval
<1>4. QED
  BY <1>2, <1>3 DEF CheckApproval

(* A time to live is a natural number.                                     *)
LEMMA TtlType ==
  ASSUME TypeInv, NEW v \in VersionVerdict PROVE ttl(v) \in Nat
<1>1. CASE v.expires = NoTime
  BY <1>1, TimesAssumption DEF ttl
<1>2. CASE v.expires # NoTime
  <2>1. v.expires \in Nat /\ now \in Nat
    BY <1>2 DEF VersionVerdict, TypeInv, TypeOK
  <2>2. QED
    BY <1>2, <2>1, TimesAssumption DEF ttl
<1>3. QED
  BY <1>1, <1>2

(* The steps of a request that read or write the cache and the row.        *)
LEMMA StoreStepsType ==
  ASSUME TypeInv, NEW t \in Tasks,
         ReadRow(t) \/ ReadCache(t) \/ DropCached(t) \/ AppendSignal(t) \/ Upsert(t) \/ SetCache(t)
  PROVE  TypeInv'
<1>1. CASE ReadRow(t)
  <2>1. task' \in [Tasks -> Request] /\ Phases'
    <3>1. CASE row = NoVerdict
      BY <1>1, <3>1, GotoType DEF ReadRow, Await
    <3>2. CASE row # NoVerdict
      BY <1>1, <3>2, AnswerType DEF ReadRow, TypeInv, TypeOK
    <3>3. QED
      BY <3>1, <3>2
  <2>2. QED
    BY <1>1, <2>1, QuietStep DEF ReadRow
<1>2. CASE ReadCache(t)
  <2>1. task' \in [Tasks -> Request] /\ Phases'
    <3>1. CASE Goto(t, "policy")
      BY <3>1, GotoType DEF Await
    <3>2. CASE cache # NoVerdict /\ Answer(t, cache.verdict)
      <4>1. cache.verdict \in VersionVerdict
        BY <3>2 DEF TypeInv, TypeOK, CacheEntry
      <4>2. QED
        BY <3>2, <4>1, AnswerType
    <3>3. QED
      BY <1>2, <3>1, <3>2 DEF ReadCache
  <2>2. QED
    BY <1>2, <2>1, QuietStep DEF ReadCache
<1>3. CASE DropCached(t)
  <2>1. task' \in [Tasks -> Request] /\ Phases'
    BY <1>3, GotoType DEF DropCached, Await
  <2>2. QED
    BY <1>3, <2>1 DEF DropCached, TypeInv, TypeOK, stores
<1>4. CASE AppendSignal(t)
  <2>1. task' \in [Tasks -> Request] /\ Phases'
    BY <1>4, GotoType DEF AppendSignal, Await
  <2>2. PICK s \in Reported :
          /\ signals' = signals \cup {s}
          /\ ext' = [x \in Extractors |-> [ext[x] EXCEPT !.doomed = @ \ {s}]]
    BY <1>4 DEF AppendSignal
  <2>3. signals' \in SUBSET Signal
    BY <2>2, SignalsAssumption DEF TypeInv, TypeOK
  <2>4. ext' \in [Extractors -> Extraction]
    BY <2>2 DEF TypeInv, TypeOK, Extraction
  <2>5. QED
    BY <1>4, <2>1, <2>3, <2>4 DEF AppendSignal, TypeInv, TypeOK
<1>5. CASE Upsert(t)
  <2>1. task[t].out \in VersionVerdict
    BY <1>5 DEF Upsert, At, TypeInv, TypeOK, Phases, Request
  <2>2. task' \in [Tasks -> Request] /\ Phases'
    BY <1>5, <2>1, NullsAssumption, GotoType DEF Upsert, Await
  <2>3. QED
    BY <1>5, <2>1, <2>2 DEF Upsert, TypeInv, TypeOK, stores
<1>6. CASE SetCache(t)
  <2>1. task[t].out \in VersionVerdict
    BY <1>6 DEF SetCache, At, TypeInv, TypeOK, Phases, Request
  <2> DEFINE r == [task[t] EXCEPT !.pc = "done"]
  <2>2. r \in Request /\ r.pc = "done" /\ r.out = task[t].out
    BY DEF TypeInv, TypeOK, Request, Answered
  <2>3. InPhase(r)
    BY <2>1, <2>2, NullsAssumption DEF InPhase
  <2>4. task' = [task EXCEPT ![t] = r]
    BY <1>6 DEF SetCache, Goto
  <2>5. task' \in [Tasks -> Request] /\ Phases'
    BY <2>2, <2>3, <2>4, OneRequest
  <2>6. now + ttl(task[t].out) \in Nat
    BY <2>1, TtlType DEF TypeInv, TypeOK
  <2>7. cache' \in CacheEntry
    BY <1>6, <2>1, <2>6 DEF SetCache, CacheEntry
  <2>8. ext' \in [Extractors -> Extraction]
    BY <1>6 DEF SetCache, TypeInv, TypeOK, Extraction
  <2>9. QED
    BY <1>6, <2>5, <2>7, <2>8 DEF SetCache, TypeInv, TypeOK, stores
<1>7. QED
  BY <1>1, <1>2, <1>3, <1>4, <1>5, <1>6

(* A request ends.                                                         *)
LEMMA EndType ==
  ASSUME TypeInv, NEW t \in Tasks, Reply(t) \/ Fail(t) PROVE TypeInv'
<1>1. CASE Reply(t)
  <2>1. NoRequest \in Request /\ InPhase(NoRequest)
    BY DEF NoRequest, Request, RequestKind, InPhase
  <2>2. task' \in [Tasks -> Request] /\ Phases'
    BY <1>1, <2>1, OneRequest DEF Reply
  <2>3. QED
    BY <1>1, <2>2, QuietStep DEF Reply
<1>2. CASE Fail(t)
  <2> DEFINE r == [NoRequest EXCEPT !.pc = "failed", !.kind = task[t].kind]
  <2>1. r \in Request /\ InPhase(r)
    BY DEF NoRequest, Request, InPhase, Answered, TypeInv, TypeOK
  <2>2. task' \in [Tasks -> Request] /\ Phases'
    BY <1>2, <2>1, OneRequest DEF Fail
  <2>3. QED
    BY <1>2, <2>2, QuietStep DEF Fail
<1>3. QED
  BY <1>1, <1>2

(* An extraction begins, goes on, fails or ends.                           *)
LEMMA AnalyseType ==
  ASSUME TypeInv, NEW x \in Extractors, TrackerPass(x) \/ Analyse(x) \/ ExtractionFails(x)
  PROVE  TypeInv'
<1>1. NoExtraction \in Extraction
  BY DEF NoExtraction, Extraction, Provenance
<1>2. ext' \in [Extractors -> Extraction]
  <2>1. CASE TrackerPass(x)
    BY <2>1 DEF TrackerPass, TypeInv, TypeOK, Extraction
  <2>2. CASE Extract(x)
    <3>1. PICK f \in Findings :
            ext' = [ext EXCEPT ![x].pc = "delete", ![x].signals = f.signals,
                               ![x].provenance = f.provenance]
      BY <2>2 DEF Extract
    <3>2. f.signals \in SUBSET Signal /\ f.provenance \in Provenance
      BY SignalsAssumption
    <3>3. QED
      BY <3>1, <3>2 DEF TypeInv, TypeOK, Extraction
  <2>3. CASE DeleteSignals(x)
    BY <2>3 DEF DeleteSignals, TypeInv, TypeOK, Extraction
  <2>4. CASE InsertSignals(x)
    BY <2>4 DEF InsertSignals, TypeInv, TypeOK, Extraction, NoExtraction
  <2>5. CASE SetProvenance(x)
    BY <2>5, <1>1 DEF SetProvenance, TypeInv, TypeOK, Extraction, NoExtraction
  <2>6. CASE Invalidate(x) \/ ExtractionFails(x)
    BY <2>6, <1>1 DEF Invalidate, ExtractionFails, TypeInv, TypeOK
  <2>7. QED
    BY <2>1, <2>2, <2>3, <2>4, <2>5, <2>6 DEF Analyse
<1>3. signals' \in SUBSET Signal
  BY DEF Analyse, TrackerPass, Extract, DeleteSignals, InsertSignals, SetProvenance, Invalidate,
         ExtractionFails, TypeInv, TypeOK, stores, Extraction
<1>4. provenance' \in Provenance
  <2>1. CASE SetProvenance(x)
    <3>1. ext[x].provenance \in Provenance
      BY DEF TypeInv, TypeOK, Extraction
    <3>2. QED
      BY <2>1, <3>1 DEF SetProvenance
  <2>2. CASE ~SetProvenance(x)
    BY <2>2 DEF Analyse, TrackerPass, Extract, DeleteSignals, InsertSignals, Invalidate,
                ExtractionFails, TypeInv, TypeOK, stores
  <2>3. QED
    BY <2>1, <2>2
<1>5. UNCHANGED <<now, policy, listed, approvals, row, task>> /\ cache' \in {cache, NoVerdict}
  BY DEF Analyse, TrackerPass, Extract, DeleteSignals, InsertSignals, SetProvenance, Invalidate,
         ExtractionFails, stores
<1>6. QED
  BY <1>2, <1>3, <1>4, <1>5 DEF TypeInv, TypeOK, Phases

(* Operators act and time passes.                                          *)
LEMMA EnvironmentType ==
  ASSUME TypeInv, Operate \/ Tick PROVE TypeInv'
<1>1. CASE UpsertPolicy \/ ChangeListing
  BY <1>1 DEF UpsertPolicy, ChangeListing, TypeInv, TypeOK, Phases
<1>2. ASSUME NEW a \in Approvals, Approve(a) PROVE TypeInv'
  <2>1. PICK h \in ApprovalTTLs :
          approvals' = [approvals EXCEPT ![a] =
                          [status |-> "active", expires |-> now + h * HourTicks]]
    BY <1>2 DEF Approve
  <2>2. h * HourTicks \in Nat
    BY <2>1, TimesAssumption, HourTicksAssumption, NatProduct
  <2>3. approvals' \in [Approvals -> Approval]
    BY <2>1, <2>2 DEF TypeInv, TypeOK, Approval
  <2>4. QED
    BY <1>2, <2>3 DEF Approve, TypeInv, TypeOK, Phases
<1>3. ASSUME NEW a \in Approvals, Revoke(a) PROVE TypeInv'
  <2>1. approvals' \in [Approvals -> Approval]
    BY <1>3 DEF Revoke, TypeInv, TypeOK, Approval
  <2>2. QED
    BY <1>3, <2>1 DEF Revoke, TypeInv, TypeOK, Phases
<1>4. CASE Tick
  BY <1>4 DEF Tick, TypeInv, TypeOK, Phases, stores
<1>5. QED
  BY <1>1, <1>2, <1>3, <1>4 DEF Operate

(* Every step keeps the types.                                             *)
LEMMA StepTypeInv == TypeInv /\ [Next]_vars => TypeInv'
<1> SUFFICES ASSUME TypeInv, [Next]_vars PROVE TypeInv'
  OBVIOUS
<1>1. ASSUME NEW t \in Tasks, ResolvePackument(t) \/ Resolve(t) \/ ReportEvent(t)
      PROVE  TypeInv'
  BY <1>1, ReceiveType DEF ResolvePackument, Resolve, ReportEvent, RequestKind
<1>2. ASSUME NEW t \in Tasks, Advance(t) \/ Fail(t) PROVE TypeInv'
  BY <1>2, LoadPolicyType, ReadSignalsType, ReadProvenanceType, CheckFeedType,
     CheckApprovalType, StoreStepsType, EndType DEF Advance
<1>3. ASSUME NEW x \in Extractors, TrackerPass(x) \/ Analyse(x) \/ ExtractionFails(x)
      PROVE  TypeInv'
  BY <1>3, AnalyseType
<1>4. CASE Operate \/ Tick
  BY <1>4, EnvironmentType
<1>5. CASE UNCHANGED vars
  BY <1>5 DEF vars, TypeInv, TypeOK, Phases
<1>6. QED
  BY <1>1, <1>2, <1>3, <1>4, <1>5 DEF Next

(* In every reachable state each variable has its type, every request past *)
(* the policy has its input and every request past the computation its     *)
(* verdict (resolve_one).                                                  *)
THEOREM TypeCorrect == Spec => []TypeInv
BY InitTypeInv, StepTypeInv, PTL DEF Spec

-----------------------------------------------------------------------------
(* What an exception can never do: release a hard block, or serve with an  *)
(* expiry nobody approved.  Neither is inductive alone: a verdict at the   *)
(* approval lookup must be known to be releasable, and the expiry of an    *)
(* approval must be known to stay once it is given.                        *)

Good(v, granted) ==
  /\ v.verdict = "ALLOW" => ~HardBlocked(v)
  /\ "approved_exception" \in v.reasons =>
       /\ v.verdict = "ALLOW"
       /\ \E a \in Approvals : granted[a].status # "none" /\ granted[a].expires = v.expires

ExceptionInv ==
  /\ TypeInv
  /\ row # NoVerdict => Good(row, approvals)
  /\ cache # NoVerdict => Good(cache.verdict, approvals)
  /\ \A t \in Tasks :
       /\ task[t].out # NoVerdict => Good(task[t].out, approvals)
       /\ task[t].pc = "approval" => Releasable(task[t].out)

\* A granted approval keeps its expiry.
GrantsStay ==
  \A a \in Approvals : approvals[a].status # "none" =>
    approvals'[a].status # "none" /\ approvals'[a].expires = approvals[a].expires

(* A verdict that is good stays good, as granted expiries stay.            *)
LEMMA GoodStays ==
  ASSUME GrantsStay, NEW v, Good(v, approvals) PROVE Good(v, approvals')
BY DEF GrantsStay, Good

(* A step keeps the invariant when what it writes is good.                 *)
LEMMA GoodWrites ==
  ASSUME ExceptionInv, TypeInv', GrantsStay,
         row' = row \/ Good(row', approvals),
         cache' \in {cache, NoVerdict} \/ Good(cache'.verdict, approvals),
         \A t \in Tasks :
           \/ task'[t] = task[t]
           \/ /\ task'[t].out # NoVerdict => Good(task'[t].out, approvals)
              /\ task'[t].pc = "approval" => Releasable(task'[t].out)
  PROVE  ExceptionInv'
<1>1. row' # NoVerdict => Good(row', approvals')
  BY GoodStays DEF ExceptionInv
<1>2. cache' # NoVerdict => Good(cache'.verdict, approvals')
  BY GoodStays DEF ExceptionInv
<1>3. ASSUME NEW t \in Tasks
      PROVE  /\ task'[t].out # NoVerdict => Good(task'[t].out, approvals')
             /\ task'[t].pc = "approval" => Releasable(task'[t].out)
  BY <1>3, GoodStays DEF ExceptionInv
<1>4. QED
  BY <1>1, <1>2, <1>3 DEF ExceptionInv

(* The same for a step of one request.                                     *)
LEMMA GoodRequest ==
  ASSUME ExceptionInv, TypeInv', UNCHANGED approvals,
         row' = row \/ Good(row', approvals),
         cache' \in {cache, NoVerdict} \/ Good(cache'.verdict, approvals),
         NEW t \in Tasks, NEW r, task' = [task EXCEPT ![t] = r],
         r.out # NoVerdict => Good(r.out, approvals),
         r.pc = "approval" => Releasable(r.out)
  PROVE  ExceptionInv'
<1>1. GrantsStay
  BY DEF GrantsStay
<1>2. \A u \in Tasks : task'[u] = IF u = t THEN r ELSE task[u]
  BY DEF ExceptionInv, TypeInv, TypeOK
<1>3. QED
  BY <1>1, <1>2, GoodWrites

-----------------------------------------------------------------------------
(* What compute_verdict returns is good, and so is what Release returns.   *)
LEMMA ComputedIsGood ==
  ASSUME NEW in \in ResolutionInput PROVE Good(compute_verdict(in), approvals)
<1>1. "approved_exception" \notin compute_verdict(in).reasons
  BY DEF compute_verdict, Raised
<1>2. QED
  BY <1>1, ServedIsNotHardBlocked DEF Good

(* A releasable verdict released by an active approval is good.            *)
LEMMA ReleasedIsGood ==
  ASSUME NEW v \in VersionVerdict, Releasable(v), NEW a \in ActiveApprovals
  PROVE  Good(Release(v, approvals[a].expires), approvals)
<1> DEFINE w == Release(v, approvals[a].expires)
<1>1. w.verdict = "ALLOW" /\ w.expires = approvals[a].expires
  BY DEF Release
<1>2. ~HardBlocked(w)
  BY DEF Release, Releasable, HardBlocked, HardBlock
<1>3. a \in Approvals /\ approvals[a].status # "none"
  BY DEF ActiveApprovals
<1>4. QED
  BY <1>1, <1>2, <1>3 DEF Good

(* What the computation yields is good, and asks for an approval if        *)
(* releasable.                                                             *)
LEMMA CheckFeedGood ==
  ASSUME ExceptionInv, TypeInv', NEW t \in Tasks, CheckFeed(t) PROVE ExceptionInv'
<1> DEFINE in == Completed(task[t].in)
           v == compute_verdict(in)
           b == in.signals = {} \/ in.provenance = "none"
           r == [task[t] EXCEPT !.pc = IF Releasable(v) THEN "approval" ELSE "upsert",
                                !.in = NoInput, !.out = v, !.unanalysed = b]
<1>1. task[t].in \in ResolutionInput
  BY DEF CheckFeed, At, ExceptionInv, TypeInv, TypeOK, Phases, Request
<1>2. Good(v, approvals)
  BY <1>1, CompletedType, ComputedIsGood DEF ExceptionInv
<1>3. r.out = v /\ (r.pc = "approval" => Releasable(v))
  <2> HIDE DEF v, b
  <2>1. QED
    BY DEF ExceptionInv, TypeInv, TypeOK, Request
<1>4. task' = [task EXCEPT ![t] = r]
  BY DEF CheckFeed
<1>5. UNCHANGED <<row, cache, approvals>>
  BY DEF CheckFeed, stores
<1> HIDE DEF r, v
<1>6. QED
  BY <1>2, <1>3, <1>4, <1>5, GoodRequest

(* What the approval lookup releases is good.                              *)
LEMMA CheckApprovalGood ==
  ASSUME ExceptionInv, TypeInv', NEW t \in Tasks, CheckApproval(t) PROVE ExceptionInv'
<1>1. task[t] \in Request /\ task[t].out \in VersionVerdict /\ Releasable(task[t].out)
  BY DEF CheckApproval, At, ExceptionInv, TypeInv, TypeOK, Phases, Request
<1>2. CASE Goto(t, "upsert")
  <2> DEFINE r == [task[t] EXCEPT !.pc = "upsert"]
  <2>1. r.out = task[t].out /\ r.pc = "upsert" /\ task' = [task EXCEPT ![t] = r]
    BY <1>1, <1>2 DEF Goto, Request
  <2>2. QED
    BY <2>1, GoodRequest DEF CheckApproval, stores, ExceptionInv
<1>3. ASSUME NEW a \in ActiveApprovals,
             task' = [task EXCEPT ![t].pc = "upsert",
                                  ![t].out = Release(@, approvals[a].expires)]
      PROVE  ExceptionInv'
  <2> DEFINE v == Release(task[t].out, approvals[a].expires)
             r == [task[t] EXCEPT !.pc = "upsert", !.out = v]
  <2>1. Good(v, approvals)
    BY <1>1, ReleasedIsGood
  <2>2. task' = [task EXCEPT ![t] = r]
    BY <1>3
  <2> HIDE DEF v
  <2>3. r.out = v /\ r.pc = "upsert"
    BY <1>1 DEF Request
  <2>4. QED
    BY <2>1, <2>2, <2>3, GoodRequest DEF CheckApproval, stores
<1>4. QED
  BY <1>2, <1>3 DEF CheckApproval

(* The steps that move a held verdict: from the row or the cache to the    *)
(* request that answers it, from the request to the row and the cache.     *)
LEMMA MovesGood ==
  ASSUME ExceptionInv, TypeInv', NEW t \in Tasks,
         ReadRow(t) \/ ReadCache(t) \/ Upsert(t) \/ SetCache(t)
  PROVE  ExceptionInv'
<1>1. task[t] \in Request
  BY DEF ExceptionInv, TypeInv, TypeOK
<1>2. ASSUME NEW pc, Goto(t, pc), pc # "approval", UNCHANGED <<row, cache, approvals>>
      PROVE  ExceptionInv'
  <2> DEFINE r == [task[t] EXCEPT !.pc = pc]
  <2>1. r.out = task[t].out /\ r.pc = pc /\ task' = [task EXCEPT ![t] = r]
    BY <1>1, <1>2 DEF Goto, Request
  <2>2. QED
    BY <1>2, <2>1, GoodRequest DEF ExceptionInv
<1>3. ASSUME NEW v, Answer(t, v), Good(v, approvals), UNCHANGED <<row, cache, approvals>>
      PROVE  ExceptionInv'
  <2> DEFINE r == [task[t] EXCEPT !.pc = "done", !.out = v]
  <2>1. r.out = v /\ r.pc = "done" /\ task' = [task EXCEPT ![t] = r]
    BY <1>1, <1>3 DEF Answer, Request
  <2>2. QED
    BY <1>3, <2>1, GoodRequest
<1>4. CASE ReadRow(t)
  BY <1>2, <1>3, <1>4 DEF ReadRow, stores, ExceptionInv
<1>5. CASE ReadCache(t)
  BY <1>2, <1>3, <1>5 DEF ReadCache, stores, ExceptionInv
<1>6. ASSUME Upsert(t) \/ SetCache(t)
      PROVE  Good(task[t].out, approvals)
  BY <1>6 DEF Upsert, SetCache, At, ExceptionInv, TypeInv, Phases
<1>7. CASE Upsert(t)
  <2> DEFINE r == [task[t] EXCEPT !.pc = "set"]
  <2>1. r.out = task[t].out /\ r.pc = "set" /\ task' = [task EXCEPT ![t] = r]
    BY <1>1, <1>7 DEF Upsert, Goto, Request
  <2>2. QED
    BY <1>6, <1>7, <2>1, GoodRequest DEF Upsert, stores
<1>8. CASE SetCache(t)
  <2> DEFINE r == [task[t] EXCEPT !.pc = "done"]
  <2>1. r.out = task[t].out /\ r.pc = "done" /\ task' = [task EXCEPT ![t] = r]
    BY <1>1, <1>8 DEF SetCache, Goto, Request
  <2>2. cache'.verdict = task[t].out
    BY <1>8 DEF SetCache
  <2>3. QED
    BY <1>6, <1>8, <2>1, <2>2, GoodRequest DEF SetCache, stores
<1>9. QED
  BY <1>4, <1>5, <1>7, <1>8

(* The steps of a request that only read, or only end it.                  *)
LEMMA ReadsGood ==
  ASSUME ExceptionInv, TypeInv', NEW t \in Tasks,
         \/ ResolvePackument(t) \/ Resolve(t) \/ ReportEvent(t) \/ AppendSignal(t)
         \/ DropCached(t) \/ LoadPolicy(t) \/ ReadSignals(t) \/ ReadProvenance(t)
         \/ Reply(t) \/ Fail(t)
  PROVE  ExceptionInv'
<1>1. task \in [Tasks -> Request]
  BY DEF ExceptionInv, TypeInv, TypeOK
<1>2. UNCHANGED <<approvals, row>> /\ cache' \in {cache, NoVerdict}
  BY DEF ResolvePackument, Resolve, ReportEvent, Receive, AppendSignal, DropCached, LoadPolicy,
         ReadSignals, ReadProvenance, Reply, Fail, stores
<1>3. \A u \in Tasks : task'[u].out \in {task[u].out, NoVerdict}
                       /\ (task'[u] = task[u] \/ task'[u].pc # "approval")
  <2>1. CASE ResolvePackument(t) \/ Resolve(t) \/ ReportEvent(t)
    BY <1>1, <2>1 DEF ResolvePackument, Resolve, ReportEvent, Receive, Request
  <2>2. CASE AppendSignal(t) \/ DropCached(t)
    BY <1>1, <2>2 DEF AppendSignal, DropCached, Goto, Request
  <2>3. CASE LoadPolicy(t)
    BY <1>1, <2>3 DEF LoadPolicy, Goto, Request
  <2>4. CASE ReadSignals(t) \/ ReadProvenance(t)
    BY <1>1, <2>4 DEF ReadSignals, ReadProvenance, Request
  <2>5. CASE Reply(t) \/ Fail(t)
    <3>1. PICK r : r.out = NoVerdict /\ r.pc # "approval" /\ task' = [task EXCEPT ![t] = r]
      <4>1. CASE Reply(t)
        BY <4>1 DEF Reply, NoRequest
      <4>2. CASE Fail(t)
        BY <4>2 DEF Fail, NoRequest
      <4>3. QED
        BY <2>5, <4>1, <4>2
    <3>2. QED
      BY <1>1, <3>1
  <2>6. QED
    BY <2>1, <2>2, <2>3, <2>4, <2>5
<1>4. GrantsStay
  BY <1>2 DEF GrantsStay
<1>5. QED
  BY <1>2, <1>3, <1>4, GoodWrites DEF ExceptionInv

(* Everyone else: extractions, operators, feeds, the clock.                *)
LEMMA OthersGood ==
  ASSUME ExceptionInv, TypeInv',
         \/ \E x \in Extractors : TrackerPass(x) \/ Analyse(x) \/ ExtractionFails(x)
         \/ Operate \/ Tick
  PROVE  ExceptionInv'
<1>1. UNCHANGED <<row, task>> /\ cache' \in {cache, NoVerdict}
  BY DEF TrackerPass, Analyse, Extract, DeleteSignals, InsertSignals, SetProvenance, Invalidate,
         ExtractionFails, Operate, UpsertPolicy, ChangeListing, Approve, Revoke, Tick, stores
<1>2. GrantsStay
  <2>1. CASE UNCHANGED approvals
    BY <2>1 DEF GrantsStay
  <2>2. ASSUME NEW a \in Approvals, Approve(a) \/ Revoke(a) PROVE GrantsStay
    BY <2>2 DEF Approve, Revoke, GrantsStay, ExceptionInv, TypeInv, TypeOK, Approval
  <2>3. QED
    BY <2>1, <2>2 DEF TrackerPass, Analyse, Extract, DeleteSignals, InsertSignals, SetProvenance,
         Invalidate, ExtractionFails, Operate, UpsertPolicy, ChangeListing, Tick, stores
<1>3. QED
  BY <1>1, <1>2, GoodWrites

-----------------------------------------------------------------------------
(* No verdict, no exception.                                               *)
LEMMA InitExceptionInv == Init => ExceptionInv
BY InitTypeInv DEF Init, ExceptionInv, NoRequest

(* Every step keeps the invariant.                                         *)
LEMMA StepExceptionInv == ExceptionInv /\ [Next]_vars => ExceptionInv'
<1> SUFFICES ASSUME ExceptionInv, [Next]_vars PROVE ExceptionInv'
  OBVIOUS
<1>1. TypeInv'
  BY StepTypeInv DEF ExceptionInv
<1>2. ASSUME NEW t \in Tasks,
             ResolvePackument(t) \/ Resolve(t) \/ ReportEvent(t) \/ Advance(t) \/ Fail(t)
      PROVE  ExceptionInv'
  BY <1>1, <1>2, CheckFeedGood, CheckApprovalGood, MovesGood, ReadsGood DEF Advance
<1>3. CASE \/ \E x \in Extractors : TrackerPass(x) \/ Analyse(x) \/ ExtractionFails(x)
           \/ Operate \/ Tick
  BY <1>1, <1>3, OthersGood
<1>4. CASE UNCHANGED vars
  BY <1>1, <1>4 DEF vars, ExceptionInv
<1>5. QED
  BY <1>2, <1>3, <1>4 DEF Next

(* The invariant holds of every behaviour.                                 *)
LEMMA ExceptionInvariant == Spec => []ExceptionInv
BY InitExceptionInv, StepExceptionInv, PTL DEF Spec

(* Whatever is persisted, cached or answered: a verdict that serves the    *)
(* version carries no advisory, no known-malicious listing and no manual   *)
(* denial, for every interleaving of requests, extractions and operators   *)
(* (types.rs: is_hard_block; resolve_one 3b).                              *)
THEOREM NoHardBlockReleased == Spec => []HardBlockNeverReleased
<1>1. ExceptionInv => HardBlockNeverReleased
  BY DEF ExceptionInv, Good, HardBlockNeverReleased, HeldVerdicts
<1>2. QED
  BY <1>1, ExceptionInvariant, PTL

(* A verdict released by an exception serves, and expires exactly when a   *)
(* request that was really approved does (resolve_one 3b).                 *)
THEOREM ExceptionsAreBacked == Spec => []ExceptionIsBacked
<1>1. ExceptionInv => ExceptionIsBacked
  BY DEF ExceptionInv, Good, ExceptionIsBacked, HeldVerdicts
<1>2. QED
  BY <1>1, ExceptionInvariant, PTL

-----------------------------------------------------------------------------
(* An entry written now keeps within the default time and its verdict.     *)
LEMMA TtlWithin ==
  ASSUME TypeInv, NEW v \in VersionVerdict
  PROVE  /\ now + ttl(v) \in now + 1 .. now + VerdictTTL
         /\ v.expires # NoTime => now + ttl(v) <= v.expires \/ now + ttl(v) = now + 1
<1>1. now \in Nat /\ VerdictTTL \in Nat \ {0} /\ v.expires \in Nat \cup {NoTime}
  BY TimesAssumption DEF TypeInv, TypeOK, VersionVerdict
<1>2. CASE v.expires = NoTime
  BY <1>1, <1>2 DEF ttl
<1>3. CASE v.expires \in Nat
  <2>1. v.expires # NoTime
    BY <1>3, NoTimeAssumption
  <2>2. QED
    BY <1>1, <1>3, <2>1 DEF ttl
<1>4. QED
  BY <1>1, <1>2, <1>3

(* A cache entry is dropped in the step that reaches its end.              *)
LEMMA StepCache ==
  ASSUME TypeInv, CacheOutlivesNothing, [Next]_vars PROVE CacheOutlivesNothing'
<1>1. CASE UNCHANGED <<now, cache>>
  BY <1>1 DEF CacheOutlivesNothing
<1>2. CASE cache' = NoVerdict
  BY <1>2 DEF CacheOutlivesNothing
<1>3. ASSUME NEW t \in Tasks, SetCache(t) PROVE CacheOutlivesNothing'
  <2>1. task[t].out \in VersionVerdict /\ now' = now
    BY <1>3 DEF SetCache, At, TypeInv, TypeOK, Phases, Request
  <2>2. cache'.verdict = task[t].out /\ cache'.dies = now + ttl(task[t].out)
    BY <1>3 DEF SetCache
  <2>3. QED
    BY <2>1, <2>2, TtlWithin DEF CacheOutlivesNothing
<1>4. CASE Tick
  <2>1. CASE cache # NoVerdict /\ ~(cache.dies <= now')
    <3>1. cache' = cache /\ now' = now + 1 /\ now \in Nat /\ cache.dies \in Nat /\ VerdictTTL \in Nat
      BY <1>4, <2>1, TimesAssumption DEF Tick, TypeInv, TypeOK, CacheEntry
    <3>2. QED
      BY <2>1, <3>1 DEF CacheOutlivesNothing
  <2>2. QED
    BY <1>2, <1>4, <2>1 DEF Tick, CacheOutlivesNothing
<1>5. ASSUME NEW t \in Tasks,
             \/ ResolvePackument(t) \/ Resolve(t) \/ ReportEvent(t) \/ Fail(t)
             \/ (Advance(t) /\ ~SetCache(t))
      PROVE  UNCHANGED <<now, cache>> \/ cache' = NoVerdict
  BY <1>5 DEF ResolvePackument, Resolve, ReportEvent, Receive, Fail, Advance, ReadRow, AppendSignal,
       DropCached, ReadCache, LoadPolicy, ReadSignals, ReadProvenance, CheckFeed, CheckApproval,
       Upsert, Reply
<1>6. ASSUME (\E x \in Extractors : TrackerPass(x) \/ Analyse(x) \/ ExtractionFails(x)) \/ Operate
      PROVE  UNCHANGED <<now, cache>> \/ cache' = NoVerdict
  BY <1>6 DEF TrackerPass, Analyse, Extract, DeleteSignals, InsertSignals, SetProvenance, Invalidate,
       ExtractionFails, Operate, UpsertPolicy, ChangeListing, Approve, Revoke
<1>7. QED
  BY <1>1, <1>2, <1>3, <1>4, <1>5, <1>6 DEF Next, vars

(* The cache forgets in time: no entry outlives the default time or, but   *)
(* for the second Redis needs, the verdict it holds (cache.rs: set).       *)
THEOREM CacheForgets == Spec => []CacheOutlivesNothing
<1>1. Init => CacheOutlivesNothing
  BY DEF Init, CacheOutlivesNothing
<1>2. TypeInv /\ CacheOutlivesNothing /\ [Next]_vars => CacheOutlivesNothing'
  BY StepCache
<1>3. QED
  BY <1>1, <1>2, TypeCorrect, PTL DEF Spec

-----------------------------------------------------------------------------
(* No verdict misses what held while it was computed.  The history only    *)
(* ever holds facts of the present, and shrinks once a request is past its *)
(* first step; a request that has read the signals has those the history   *)
(* knows; one at the approval lookup has nothing that would forbid it.     *)
TaskFacts(t) ==
  /\ task[t].pc \in {"provenance", "feed"} =>
       /\ "advisory" \in since[t] => Has(task[t].in.signals, "advisory_match")
       /\ "flagged" \in since[t] => ChainPositive(task[t].in.signals)
  /\ task[t].pc \in {"approval", "upsert", "set"} => Respects(task[t].out, since[t])
  /\ task[t].pc = "approval" => {"listed", "advisory"} \cap since[t] = {}

CacheFacts ==
  cacheSince \subseteq Facts /\ (cache # NoVerdict => Respects(cache.verdict, cacheSince))

HistoryInv ==
  /\ ExceptionInv
  /\ \A t \in Tasks : since[t] \subseteq Facts /\ TaskFacts(t)
  /\ CacheFacts

\* One request takes a step, the others stand still.
Alone(t) == \A u \in Tasks \ {t} : task'[u] = task[u]

Filled(t) == task[t].pc = "set" /\ task'[t].pc = "done"

(* A history holds present facts only, and shrinks once a request is under *)
(* way.                                                                    *)
LEMMA SinceShrinks ==
  ASSUME Record, NEW t \in Tasks
  PROVE  /\ since'[t] \subseteq Facts'
         /\ task[t].pc \notin {"idle", "append"} => since'[t] \subseteq since[t]
BY DEF Record

(* Where the stores and the clock stand still the facts do.                *)
LEMMA SameFacts ==
  ASSUME UNCHANGED <<now, stores>> PROVE Facts' = Facts
BY DEF stores, Facts

(* A verdict that misses none of some facts misses none of fewer.          *)
LEMMA RespectsFewer ==
  ASSUME NEW v, NEW facts, NEW fewer, fewer \subseteq facts, Respects(v, facts)
  PROVE  Respects(v, fewer)
BY DEF Respects

(* A request that stands still, or goes where nothing is asked of it.      *)
LEMMA TaskFactsStay ==
  ASSUME HistoryInv, Record, NEW t \in Tasks,
         \/ task'[t] = task[t]
         \/ task'[t].pc \notin {"provenance", "feed", "approval", "upsert", "set"}
  PROVE  TaskFacts(t)'
<1>1. CASE task'[t].pc \notin {"provenance", "feed", "approval", "upsert", "set"}
  BY <1>1 DEF TaskFacts
<1>2. CASE task'[t] = task[t] /\ task[t].pc \in {"provenance", "feed", "approval", "upsert", "set"}
  <2>1. since'[t] \subseteq since[t]
    BY <1>2, SinceShrinks
  <2>2. TaskFacts(t)
    BY DEF HistoryInv
  <2>3. QED
    BY <1>2, <2>1, <2>2, RespectsFewer DEF TaskFacts
<1>3. QED
  BY <1>1, <1>2

(* A cached verdict that nobody replaces goes on to respect its history.   *)
LEMMA CacheFactsStay ==
  ASSUME HistoryInv, Record, cache' \in {cache, NoVerdict}, \A t \in Tasks : ~Filled(t)
  PROVE  CacheFacts'
<1>1. cacheSince' \subseteq cacheSince \cap Facts' \/ cacheSince' = {}
  BY DEF Record, Filled
<1>2. QED
  BY <1>1, RespectsFewer DEF HistoryInv, CacheFacts

(* The reads of a request: what it has read it has.                        *)
LEMMA ReadsFacts ==
  ASSUME HistoryInv, Record, NEW t \in Tasks, ReadSignals(t) \/ ReadProvenance(t)
  PROVE  TaskFacts(t)'
<1>1. task[t] \in Request /\ task[t].in \in ResolutionInput /\ signals \in SUBSET Signal
  BY DEF ReadSignals, ReadProvenance, At, HistoryInv, ExceptionInv, TypeInv, TypeOK, Phases, Request
<1>2. since'[t] \subseteq since[t] /\ since[t] \subseteq Facts
  BY SinceShrinks DEF ReadSignals, ReadProvenance, At, HistoryInv
<1>3. CASE ReadSignals(t)
  <2>1. task'[t].pc = "provenance" /\ task'[t].in.signals = signals
    BY <1>1, <1>3 DEF ReadSignals, HistoryInv, ExceptionInv, TypeInv, TypeOK, Request, ResolutionInput
  <2>2. QED
    BY <1>2, <2>1 DEF TaskFacts, Facts
<1>4. CASE ReadProvenance(t)
  <2>1. task'[t].pc = "feed" /\ task'[t].in.signals = task[t].in.signals /\ task[t].pc = "provenance"
    BY <1>1, <1>4 DEF ReadProvenance, At, HistoryInv, ExceptionInv, TypeInv, TypeOK, Request, ResolutionInput
  <2>2. TaskFacts(t)
    BY DEF HistoryInv
  <2>3. QED
    BY <1>2, <2>1, <2>2 DEF TaskFacts
<1>5. QED
  BY <1>3, <1>4

(* What is computed from an input respects the facts the input holds.      *)
LEMMA ComputedRespects ==
  ASSUME NEW in \in ResolutionInput, NEW facts,
         "listed" \in facts => Has(in.signals, "known_malicious"),
         "advisory" \in facts => Has(in.signals, "advisory_match"),
         "flagged" \in facts => ChainPositive(in.signals)
  PROVE  /\ Respects(compute_verdict(in), facts)
         /\ Releasable(compute_verdict(in)) => {"listed", "advisory"} \cap facts = {}
<1>1. {"listed", "advisory"} \cap facts # {} =>
        compute_verdict(in).verdict = "DENY" /\ ~Releasable(compute_verdict(in))
  BY FeedsDeny
<1>2. "flagged" \in facts => compute_verdict(in).verdict # "ALLOW"
  BY DEF compute_verdict, Judge, Raised, escalate, Rank, ResolutionInput, Rule
<1>3. "approved_exception" \notin compute_verdict(in).reasons
  BY DEF compute_verdict, Raised
<1>4. QED
  BY <1>1, <1>2, <1>3 DEF Respects

(* What is computed respects what held since the request began.            *)
LEMMA CheckFeedFacts ==
  ASSUME HistoryInv, Record, NEW t \in Tasks, CheckFeed(t) PROVE TaskFacts(t)'
<1> DEFINE in == Completed(task[t].in)
           v == compute_verdict(in)
<1>1. task[t] \in Request /\ task[t].in \in ResolutionInput /\ task[t].pc = "feed"
  BY DEF CheckFeed, At, HistoryInv, ExceptionInv, TypeInv, TypeOK, Phases, Request
<1>2. in \in ResolutionInput
  BY <1>1, CompletedType DEF HistoryInv, ExceptionInv
<1>3. since'[t] \subseteq since[t] /\ since[t] \subseteq Facts /\ TaskFacts(t)
  BY <1>1, SinceShrinks DEF HistoryInv
<1>4. /\ task[t].in.signals \subseteq in.signals
      /\ listed => known_malicious_signal \in in.signals
  BY <1>1 DEF Completed, ResolutionInput
<1>5. /\ "listed" \in since'[t] => Has(in.signals, "known_malicious")
      /\ "advisory" \in since'[t] => Has(in.signals, "advisory_match")
      /\ "flagged" \in since'[t] => ChainPositive(in.signals)
  BY <1>1, <1>3, <1>4 DEF TaskFacts, Facts, Has, ChainPositive, known_malicious_signal
<1>6. /\ task'[t].out = v
      /\ task'[t].pc = IF Releasable(v) THEN "approval" ELSE "upsert"
  <2> HIDE DEF v
  <2>1. task' = [task EXCEPT ![t].pc = IF Releasable(v) THEN "approval" ELSE "upsert",
                             ![t].in = NoInput, ![t].out = v,
                             ![t].unanalysed = in.signals = {} \/ in.provenance = "none"]
    BY DEF CheckFeed, v
  <2> HIDE DEF in
  <2>2. QED
    BY <1>1, <2>1 DEF HistoryInv, ExceptionInv, TypeInv, TypeOK, Request
<1>7. /\ Respects(v, since'[t])
      /\ Releasable(v) => {"listed", "advisory"} \cap since'[t] = {}
  BY <1>2, <1>5, ComputedRespects
<1> HIDE DEF v
<1>8. QED
  BY <1>6, <1>7 DEF TaskFacts

(* What is released has no fact against it in its history.                 *)
LEMMA CheckApprovalFacts ==
  ASSUME HistoryInv, Record, NEW t \in Tasks, CheckApproval(t) PROVE TaskFacts(t)'
<1>1. task \in [Tasks -> Request] /\ task[t].pc = "approval"
  BY DEF CheckApproval, At, HistoryInv, ExceptionInv, TypeInv, TypeOK
<1>2. since'[t] \subseteq since[t] /\ since[t] \subseteq Facts
  BY <1>1, SinceShrinks DEF HistoryInv
<1>3. Respects(task[t].out, since'[t]) /\ {"listed", "advisory"} \cap since'[t] = {}
  BY <1>1, <1>2, RespectsFewer DEF HistoryInv, TaskFacts
<1>4. CASE Goto(t, "upsert")
  <2>1. task'[t].pc = "upsert" /\ task'[t].out = task[t].out
    BY <1>1, <1>4 DEF Goto, Request
  <2>2. QED
    BY <1>3, <2>1 DEF TaskFacts
<1>5. ASSUME NEW a \in ActiveApprovals,
             task' = [task EXCEPT ![t].pc = "upsert",
                                  ![t].out = Release(@, approvals[a].expires)]
      PROVE  TaskFacts(t)'
  <2> DEFINE v == Release(task[t].out, approvals[a].expires)
  <2>1. "unapproved" \notin since'[t]
    <3>1. a \in Approvals /\ approvals[a].status = "active" /\ ~(approvals[a].expires <= now)
      BY TimesAssumption DEF ActiveApprovals, HistoryInv, ExceptionInv, TypeInv, TypeOK, Approval
    <3>2. QED
      BY <1>2, <3>1 DEF Facts
  <2>2. "approved_exception" \in v.reasons
    BY DEF Release
  <2>3. Respects(v, since'[t])
    BY <1>3, <2>1, <2>2 DEF Respects
  <2> HIDE DEF v
  <2>4. task'[t].pc = "upsert" /\ task'[t].out = v
    BY <1>1, <1>5 DEF Request, v
  <2>5. QED
    BY <2>3, <2>4 DEF TaskFacts
<1>6. QED
  BY <1>4, <1>5 DEF CheckApproval

(* Writing the row changes neither the verdict nor its history.            *)
LEMMA UpsertFacts ==
  ASSUME HistoryInv, Record, NEW t \in Tasks, Upsert(t) PROVE TaskFacts(t)'
<1>1. task'[t].pc = "set" /\ task'[t].out = task[t].out /\ task[t].pc = "upsert"
  BY DEF Upsert, At, Goto, HistoryInv, ExceptionInv, TypeInv, TypeOK, Request
<1>2. since'[t] \subseteq since[t] /\ TaskFacts(t)
  BY <1>1, SinceShrinks DEF HistoryInv
<1>3. QED
  BY <1>1, <1>2, RespectsFewer DEF TaskFacts

(* The entry a request leaves in the cache owes what its request did.      *)
LEMMA SetCacheFacts ==
  ASSUME HistoryInv, Record, NEW t \in Tasks, SetCache(t), Alone(t) PROVE CacheFacts'
<1>1. task[t].pc = "set" /\ task'[t].pc = "done"
  BY DEF SetCache, At, Goto, HistoryInv, ExceptionInv, TypeInv, TypeOK, Request
<1>2. \A u \in Tasks : Filled(u) <=> u = t
  BY <1>1 DEF Alone, Filled
<1>3. (CHOOSE u \in Tasks : task[u].pc = "set" /\ task'[u].pc = "done") = t
  BY <1>2 DEF Filled
<1>4. cacheSince' = {} \/ cacheSince' = since[t]
  BY <1>1, <1>3 DEF Record
<1>5. cache'.verdict = task[t].out /\ Facts' = Facts
  BY SameFacts DEF SetCache
<1>6. since[t] \subseteq Facts /\ Respects(task[t].out, since[t])
  BY <1>1 DEF HistoryInv, TaskFacts
<1>7. QED
  BY <1>4, <1>5, <1>6, RespectsFewer DEF CacheFacts

-----------------------------------------------------------------------------
(* A step of a request keeps what all requests and the cache rely on.      *)
LEMMA RequestFacts ==
  ASSUME HistoryInv, Record, NEW t \in Tasks,
         ResolvePackument(t) \/ Resolve(t) \/ ReportEvent(t) \/ Advance(t) \/ Fail(t)
  PROVE  (\A u \in Tasks : TaskFacts(u)') /\ CacheFacts'
<1>1. task \in [Tasks -> Request]
  BY DEF HistoryInv, ExceptionInv, TypeInv, TypeOK
<1>2. Alone(t)
  BY <1>1 DEF Alone, ResolvePackument, Resolve, ReportEvent, Receive, Fail, Advance, ReadRow, AppendSignal,
       DropCached, ReadCache, LoadPolicy, ReadSignals, ReadProvenance, CheckFeed, CheckApproval,
       Upsert, SetCache, Reply, Goto, Answer
<1>3. \A u \in Tasks \ {t} : TaskFacts(u)' /\ ~Filled(u)
  BY <1>2, TaskFactsStay DEF Alone, Filled
<1>4. CASE ReadSignals(t) \/ ReadProvenance(t) \/ CheckFeed(t) \/ CheckApproval(t) \/ Upsert(t)
  <2>1. TaskFacts(t)'
    BY <1>4, ReadsFacts, CheckFeedFacts, CheckApprovalFacts, UpsertFacts
  <2>2. cache' = cache /\ ~Filled(t)
    BY <1>4 DEF ReadSignals, ReadProvenance, CheckFeed, CheckApproval, Upsert, At, Filled
  <2>3. QED
    BY <1>3, <2>1, <2>2, CacheFactsStay
<1>5. CASE SetCache(t)
  <2>1. task'[t].pc = "done"
    BY <1>1, <1>5 DEF SetCache, Goto, Request
  <2>2. QED
    BY <1>2, <1>3, <1>5, <2>1, TaskFactsStay, SetCacheFacts
<1>6. CASE \/ ResolvePackument(t) \/ Resolve(t) \/ ReportEvent(t) \/ ReadRow(t) \/ AppendSignal(t)
           \/ DropCached(t) \/ ReadCache(t) \/ LoadPolicy(t) \/ Reply(t) \/ Fail(t)
  <2>1. task'[t].pc \notin {"provenance", "feed", "approval", "upsert", "set"}
    <3>1. CASE Reply(t) \/ Fail(t)
      <4>1. CASE Reply(t)
        <5>1. task'[t] = NoRequest
          BY <1>1, <4>1 DEF Reply
        <5>2. QED
          BY <5>1 DEF NoRequest
      <4>2. CASE Fail(t)
        <5>1. task'[t] = [NoRequest EXCEPT !.pc = "failed", !.kind = task[t].kind]
          BY <1>1, <4>2 DEF Fail
        <5>2. QED
          BY <5>1 DEF NoRequest
      <4>3. QED
        BY <3>1, <4>1, <4>2
    <3>2. CASE ResolvePackument(t) \/ Resolve(t) \/ ReportEvent(t) \/ AppendSignal(t) \/ DropCached(t)
      BY <1>1, <3>2 DEF ResolvePackument, Resolve, ReportEvent, Receive, AppendSignal, DropCached, Goto, Request
    <3>3. CASE ReadRow(t) \/ ReadCache(t) \/ LoadPolicy(t)
      BY <1>1, <3>3 DEF ReadRow, ReadCache, LoadPolicy, Goto, Answer, Request
    <3>4. QED
      BY <1>6, <3>1, <3>2, <3>3
  <2>2. cache' \in {cache, NoVerdict} /\ ~Filled(t)
    <3>1. cache' \in {cache, NoVerdict}
      BY <1>6 DEF ResolvePackument, Resolve, ReportEvent, Receive, ReadRow, AppendSignal, DropCached,
                  ReadCache, LoadPolicy, Reply, Fail
    <3>2. task[t].pc # "set" \/ task'[t].pc = "failed"
      <4>1. CASE Fail(t)
        BY <1>1, <4>1 DEF Fail, NoRequest
      <4>2. CASE ~Fail(t)
        BY <1>6, <4>2 DEF ResolvePackument, Resolve, ReportEvent, Receive, ReadRow, AppendSignal, DropCached,
                          ReadCache, LoadPolicy, Reply, At, Answered
      <4>3. QED
        BY <4>1, <4>2
    <3>3. QED
      BY <3>1, <3>2 DEF Filled
  <2>3. QED
    BY <1>3, <2>1, <2>2, TaskFactsStay, CacheFactsStay
<1>7. QED
  BY <1>4, <1>5, <1>6 DEF Advance

(* Every step keeps the invariant.                                         *)
LEMMA StepHistoryInv == HistoryInv /\ [HNext]_hvars => HistoryInv'
<1> SUFFICES ASSUME HistoryInv, [HNext]_hvars PROVE HistoryInv'
  OBVIOUS
<1>1. ExceptionInv'
  BY StepExceptionInv DEF HistoryInv, HNext, hvars
<1>2. CASE UNCHANGED hvars
  BY <1>1, <1>2 DEF hvars, vars, stores, HistoryInv, TaskFacts, CacheFacts, Facts
<1>3. CASE HNext
  <2>1. \A t \in Tasks : since'[t] \subseteq Facts'
    BY <1>3, SinceShrinks DEF HNext
  <2>2. ASSUME NEW t \in Tasks,
               ResolvePackument(t) \/ Resolve(t) \/ ReportEvent(t) \/ Advance(t) \/ Fail(t)
        PROVE  (\A u \in Tasks : TaskFacts(u)') /\ CacheFacts'
    BY <1>3, <2>2, RequestFacts DEF HNext
  <2>3. CASE \/ \E x \in Extractors : TrackerPass(x) \/ Analyse(x) \/ ExtractionFails(x)
             \/ Operate \/ Tick
    <3>1. task' = task /\ cache' \in {cache, NoVerdict}
      BY <2>3 DEF TrackerPass, Analyse, Extract, DeleteSignals, InsertSignals, SetProvenance, Invalidate,
             ExtractionFails, Operate, UpsertPolicy, ChangeListing, Approve, Revoke, Tick, stores
    <3>2. Record
      BY <1>3 DEF HNext
    <3>3. \A t \in Tasks : ~Filled(t)
      BY <3>1 DEF Filled
    <3>4. \A t \in Tasks : TaskFacts(t)'
      BY <3>1, <3>2, TaskFactsStay
    <3>5. CacheFacts'
      BY <3>1, <3>2, <3>3, CacheFactsStay
    <3>6. QED
      BY <1>1, <2>1, <3>4, <3>5 DEF HistoryInv
  <2>4. QED
    BY <1>1, <1>3, <2>1, <2>2, <2>3 DEF HNext, Next, HistoryInv
<1>4. QED
  BY <1>2, <1>3

(* The invariant holds of every behaviour.                                 *)
LEMMA HistoryInvariant == HSpec => []HistoryInv
<1>1. HInit => HistoryInv
  BY InitExceptionInv DEF HInit, Init, HistoryInv, TaskFacts, CacheFacts, NoRequest
<1>2. QED
  BY <1>1, StepHistoryInv, PTL DEF HSpec

(* However requests, reports, extractions and operators interleave, what a *)
(* request computes misses no listing, advisory or signal that was there   *)
(* all along, and rests on no approval that was not (resolve_one).         *)
THEOREM VerdictsRespectFacts == HSpec => []ComputedRespectsFacts
<1>1. HistoryInv => ComputedRespectsFacts
  BY DEF HistoryInv, TaskFacts, ComputedRespectsFacts
<1>2. QED
  BY <1>1, HistoryInvariant, PTL

(* And neither does the cache, whoever invalidates it while it is being    *)
(* filled (resolve_one, spawn_extraction, report_event).                   *)
THEOREM CacheRespectsFacts == HSpec => []CachedRespectsFacts
<1>1. HistoryInv => CachedRespectsFacts
  BY DEF HistoryInv, CacheFacts, CachedRespectsFacts
<1>2. QED
  BY <1>1, HistoryInvariant, PTL
=============================================================================
