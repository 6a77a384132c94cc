----------------------------- MODULE CoreProofs -----------------------------
(***************************************************************************)
(* The pure algorithms of embargo-core and of the provenance check, for    *)
(* every input: verdicts, policy rules, releases, certificate chains,      *)
(* weights and names that look alike.                                      *)
(***************************************************************************)
EXTENDS MCVerdict, Releases, Typosquat, PolicyRules, Provenance, Weights, NaturalFacts, FiniteSetTheorems

-----------------------------------------------------------------------------
(* Whole hours: an age is its hours and less than an hour.                 *)
LEMMA WholeAndRest ==
  ASSUME NEW a \in Nat, NEW d \in Nat \ {0}
  PROVE  /\ a \div d \in Nat
         /\ a - (a \div d) * d \in 0..(d - 1)
<1>1. a = d * (a \div d) + (a % d) /\ a % d \in 0..(d - 1) /\ a \div d \in Int
  OBVIOUS
<1>2. a \div d \in Nat
  OBVIOUS
<1>3. QED
  BY <1>1, <1>2

(* An older version has at least as many whole hours.                      *)
LEMMA HoursGrow ==
  ASSUME NEW a \in Nat, NEW b \in Nat, a <= b, NEW d \in Nat \ {0}
  PROVE  a \div d <= b \div d
<1> DEFINE p == a \div d
           q == b \div d
<1>1. p \in Nat /\ q \in Nat /\ a - p * d \in 0..(d - 1) /\ b - q * d \in 0..(d - 1)
  BY WholeAndRest
<1> HIDE DEF p, q
<1>2. SUFFICES ASSUME q < p PROVE FALSE
  BY <1>1 DEF p, q
<1>3. (q + 1) * d <= p * d
  BY <1>1, <1>2
<1>4. (q + 1) * d = q * d + d
  BY <1>1
<1>5. QED
  BY <1>1, <1>3, <1>4

(* The age in hours is a number, and less than an hour is cut off.         *)
LEMMA AgeIsWhole ==
  ASSUME NEW i \in ResolutionInput
  PROVE  /\ AgeHours(i) \in Nat
         /\ i.now >= i.published => i.now - i.published - AgeHours(i) * HourTicks \in 0..(HourTicks - 1)
<1>1. CASE i.now < i.published
  BY <1>1 DEF AgeHours, ResolutionInput
<1>2. CASE i.now >= i.published
  <2>1. i.now - i.published \in Nat /\ ~(i.now < i.published)
    BY <1>2 DEF ResolutionInput
  <2>2. QED
    BY <2>1, WholeAndRest, HourTicksAssumption DEF AgeHours
<1>3. QED
  BY <1>1, <1>2 DEF ResolutionInput

-----------------------------------------------------------------------------
(* For every input, rule and set of signals, the verdict is the most       *)
(* severe of what its reasons call for (compute_verdict).                  *)
THEOREM SeverestReason ==
  ASSUME in \in ResolutionInput
  PROVE  SeverestReasonWins
<1>1. in.rule.onHardSignal \in {"DENY", "HOLD"}
  BY DEF ResolutionInput, Rule
<1>2. \A r \in verdict.reasons : r \in Reason /\ Raised(r, in)
  BY DEF verdict, compute_verdict
<1>3. verdict.verdict = Judge(in)
  BY DEF verdict, compute_verdict
<1>4. \A r \in Reason : Raised(r, in) => r \in verdict.reasons
  BY DEF verdict, compute_verdict
<1>5. \A r : Raised(r, in) =>
        r \in {"cooldown", "provenance_missing", "provenance_pending", "advisory", "known_malicious",
               "signal_chain"}
  BY DEF Raised
<1>6. \A r \in verdict.reasons : Rank(Judge(in)) >= Rank(Severity(r))
  BY <1>1, <1>2, <1>5 DEF Judge, Severity, escalate, Rank
<1>7. Judge(in) = "ALLOW" \/ \E r \in verdict.reasons : Judge(in) = Severity(r)
  <2> DEFINE Decisive == {"cooldown", "provenance_missing", "provenance_pending", "advisory",
                          "known_malicious", "signal_chain"}
  <2>1. Decisive \subseteq Reason
    BY DEF Reason
  <2>2. Judge(in) = "ALLOW" \/ \E r \in Decisive : Raised(r, in) /\ Judge(in) = Severity(r)
    BY <1>1 DEF Judge, Severity, escalate, Rank
  <2>3. QED
    BY <1>4, <2>1, <2>2
<1>8. QED
  BY <1>3, <1>6, <1>7 DEF SeverestReasonWins

(* For every publish time, cooldown and length of an hour, a hold ends     *)
(* when its cooldown is over, and less than an hour later (Expiry).        *)
THEOREM HoldLastsAsLongAsCooldown ==
  ASSUME in \in ResolutionInput
  PROVE  HoldExpiresWithCooldown
<1> DEFINE H == HourTicks
           cd == in.rule.cooldown
           age == AgeHours(in)
<1> SUFFICES ASSUME verdict.expires # NoTime, in.now >= in.published
             PROVE  verdict.expires \in in.published + cd * H .. in.published + cd * H + H - 1
  BY DEF HoldExpiresWithCooldown
<1>1. verdict.expires = in.now + (cd - age) * H
  BY DEF verdict, compute_verdict, Expiry
<1>2. in.now \in Nat /\ in.published \in Nat /\ cd \in Nat /\ age \in Nat /\ H \in Nat \ {0}
  BY AgeIsWhole, HourTicksAssumption DEF ResolutionInput, Rule
<1>3. in.now - in.published - age * H \in 0..(H - 1)
  BY AgeIsWhole
<1> HIDE DEF H, cd, age
<1>4. (cd - age) * H = cd * H - age * H /\ cd * H \in Nat /\ age * H \in Nat
  BY <1>2
<1>5. QED
  BY <1>1, <1>2, <1>3, <1>4

(* Time alone: every reason that goes, and none that comes.                *)
LEMMA TimeRelaxes ==
  ASSUME in \in ResolutionInput, Age
  PROVE  Rank(verdict'.verdict) <= Rank(verdict.verdict)
<1>1. in' = [in EXCEPT !.now = in.now + 1]
  BY DEF Age
<1>2. /\ in'.rule = in.rule /\ in'.fast = in.fast /\ in'.signals = in.signals
      /\ in'.provenance = in.provenance /\ in'.published = in.published /\ in'.now = in.now + 1
  BY <1>1 DEF ResolutionInput
<1>3. AgeHours(in) <= AgeHours(in')
  <2>1. in.now \in Nat /\ in.published \in Nat
    BY DEF ResolutionInput
  <2>2. CASE in'.now < in.published
    BY <1>2, <2>1, <2>2 DEF AgeHours
  <2>3. CASE in.now < in.published /\ ~(in'.now < in.published)
    <3>1. in'.now - in.published \in Nat
      BY <1>2, <2>1, <2>3
    <3>2. (in'.now - in.published) \div HourTicks \in Nat
      BY <3>1, WholeAndRest, HourTicksAssumption
    <3>3. QED
      BY <1>2, <2>3, <3>2 DEF AgeHours
  <2>4. CASE ~(in.now < in.published)
    <3>1. in.now - in.published \in Nat /\ in'.now - in.published \in Nat
          /\ in.now - in.published <= in'.now - in.published /\ ~(in'.now < in.published)
      BY <1>2, <2>1, <2>4
    <3>2. QED
      BY <1>2, <2>4, <3>1, HoursGrow, HourTicksAssumption DEF AgeHours
  <2>5. QED
    BY <2>2, <2>3, <2>4
<1>4. AgeHours(in) \in Nat /\ AgeHours(in') \in Nat
  <2>1. in' \in ResolutionInput
    BY <1>1 DEF ResolutionInput
  <2>2. QED
    BY <2>1, AgeIsWhole
<1>5. Raised("cooldown", in') => Raised("cooldown", in)
  BY <1>2, <1>3, <1>4 DEF Raised, ResolutionInput, Rule
<1>6. \A r \in {"provenance_missing", "provenance_pending", "advisory", "known_malicious", "signal_chain"} :
        Raised(r, in') <=> Raised(r, in)
  BY <1>2 DEF Raised
<1>7. in.rule.onHardSignal \in {"DENY", "HOLD"}
  BY DEF ResolutionInput, Rule
<1>8. Rank(Judge(in')) <= Rank(Judge(in))
  BY <1>2, <1>5, <1>6, <1>7 DEF Judge, escalate, Rank
<1>9. QED
  BY <1>8 DEF verdict, compute_verdict

(* Signals alone: every reason stays.                                      *)
LEMMA SignalsTighten ==
  ASSUME in \in ResolutionInput, Find
  PROVE  Rank(verdict'.verdict) >= Rank(verdict.verdict)
<1>1. PICK s : in' = [in EXCEPT !.signals = in.signals \cup {s}]
  BY DEF Find
<1>2. /\ in'.rule = in.rule /\ in'.fast = in.fast /\ in.signals \subseteq in'.signals
      /\ in'.provenance = in.provenance /\ in'.published = in.published /\ in'.now = in.now
  BY <1>1 DEF ResolutionInput
<1>3. AgeHours(in') = AgeHours(in)
  BY <1>2 DEF AgeHours
<1>4. \A r \in {"cooldown", "provenance_missing", "provenance_pending"} : Raised(r, in') <=> Raised(r, in)
  BY <1>2, <1>3 DEF Raised
<1>5. \A r \in {"advisory", "known_malicious", "signal_chain"} : Raised(r, in) => Raised(r, in')
  BY <1>2 DEF Raised, Has, ChainPositive
<1>6. in.rule.onHardSignal \in {"DENY", "HOLD"}
  BY DEF ResolutionInput, Rule
<1>7. Rank(Judge(in')) >= Rank(Judge(in))
  BY <1>2, <1>4, <1>5, <1>6 DEF Judge, escalate, Rank
<1>8. QED
  BY <1>7 DEF verdict, compute_verdict

InputOK == in \in ResolutionInput

(* However a version ages and is found out about, its input stays one.     *)
LEMMA InputType == Spec => []InputOK
<1>1. Init => InputOK
  BY DEF Init, Inputs, ResolutionInput, Rules, Rule, Signal, Provenance, InputOK
<1>2. InputOK /\ [Next]_in => InputOK'
  BY DEF Next, Age, Find, Attest, ResolutionInput, Signals, Signal, InputOK
<1>3. QED
  BY <1>1, <1>2, PTL DEF Spec

(* From one resolution to the next a signal never relaxes and time alone   *)
(* never tightens, for every history of a version (compute_verdict).       *)
THEOREM VerdictsMoveOneWay == Spec => SignalsEscalateTimeRelaxes
<1>1. InputOK /\ [Next]_in =>
        [ /\ Find => Rank(verdict'.verdict) >= Rank(verdict.verdict)
          /\ Age  => Rank(verdict'.verdict) <= Rank(verdict.verdict) ]_in
  BY TimeRelaxes, SignalsTighten DEF InputOK
<1>2. QED
  BY <1>1, InputType, PTL DEF Spec, SignalsEscalateTimeRelaxes

-----------------------------------------------------------------------------
(***************************************************************************)
(* Policy rules.                                                           *)
(***************************************************************************)
Ruleset == rules \in Seq(PolicyRule)

(* The specificity of a scope is that of its best glob.                    *)
LEMMA BestGlob ==
  ASSUME NEW scope \in SUBSET Globs, scope # {}
  PROVE  /\ scope_specificity(scope) \in 0..4
         /\ \E g \in scope : glob_specificity(g) = scope_specificity(scope)
         /\ \A g \in scope : glob_specificity(g) <= scope_specificity(scope)
<1> DEFINE S == {glob_specificity(g) : g \in scope}
<1>1. \A g \in scope : glob_specificity(g) \in 0..4
  BY GlobsAssumption DEF GlobKind, glob_specificity
<1>2. S \in SUBSET (0..4) /\ S # {}
  BY <1>1
<1>3. \E m \in S : \A i \in S : i <= m
  BY <1>2, HasMaximum
<1>4. \E m \in S : \A g \in scope : m >= glob_specificity(g)
  <2>1. PICK m \in S : \A i \in S : i <= m
    BY <1>3
  <2>2. \A g \in scope : glob_specificity(g) \in S
    OBVIOUS
  <2>3. \A g \in scope : m >= glob_specificity(g)
    BY <1>1, <1>2, <2>1, <2>2
  <2>4. QED
    BY <2>3
<1>5. /\ scope_specificity(scope) \in S
      /\ \A g \in scope : scope_specificity(scope) >= glob_specificity(g)
  BY <1>4 DEF scope_specificity
<1>6. QED
  BY <1>1, <1>2, <1>5

(* Matching rules are rules of the list, with a specificity of 0 to 4.     *)
LEMMA RuleSpecificity ==
  ASSUME Ruleset, NEW p \in Packages
  PROVE  /\ Matching(p) \subseteq 1..Len(rules) /\ DOMAIN rules = 1..Len(rules) /\ Len(rules) \in Nat
         /\ \A i \in Matching(p) : /\ rules[i] \in PolicyRule /\ rules[i].scope # {}
                                   /\ scope_specificity(rules[i].scope) \in 0..4
<1>1. DOMAIN rules = 1..Len(rules) /\ Len(rules) \in Nat /\ \A i \in DOMAIN rules : rules[i] \in PolicyRule
  BY DEF Ruleset
<1>2. Matching(p) \subseteq DOMAIN rules
  BY DEF Matching
<1>3. ASSUME NEW i \in Matching(p)
      PROVE  rules[i] \in PolicyRule /\ rules[i].scope # {} /\ scope_specificity(rules[i].scope) \in 0..4
  <2>1. rules[i] \in PolicyRule /\ rules[i].scope # {}
    BY <1>1, <1>2, <1>3 DEF Matching, is_match
  <2>2. rules[i].scope \in SUBSET Globs
    BY <2>1 DEF PolicyRule
  <2>3. QED
    BY <2>1, <2>2, BestGlob
<1>4. QED
  BY <1>1, <1>2, <1>3

\* The scan step of a rule i over the best one so far.
Better(i, best, p) == IF i \in Matching(p) /\ beats(i, best) THEN i ELSE best

(* The scan is a loop over the rules.                                      *)
LEMMA ScanIsLoop ==
  ASSUME Ruleset, NEW p \in Packages, NEW n, n = Len(rules)
  PROVE  \E f \in [0..n -> 0..n] :
           /\ f[0] = 0 /\ \A i \in 1..n : f[i] = Better(i, f[i - 1], p)
           /\ resolve(p) = f[n]
<1>1. n \in Nat /\ DOMAIN rules = 1..n
  BY DEF Ruleset
<1> DEFINE S == 0..n
           step == [x \in (1..n) \X S |-> Better(x[1], x[2], p)]
<1>2. step \in [(1..n) \X S -> S]
  <2>1. ASSUME NEW x \in (1..n) \X S PROVE Better(x[1], x[2], p) \in S
    BY <1>1 DEF Better
  <2>2. QED
    BY <2>1
<1>3. 0 \in S
  BY <1>1
<1> HIDE DEF step, S
<1>4. PICK f : IsLoop(f, n, S, 0, step)
  BY <1>1, <1>2, <1>3, LoopExists
<1> USE DEF S, IsLoop
<1>5. \A i \in 1..n : f[i] = Better(i, f[i - 1], p)
  <2> SUFFICES ASSUME NEW i \in 1..n PROVE f[i] = Better(i, f[i - 1], p)
    OBVIOUS
  <2>1. i \in 0..n /\ i # 0 /\ i - 1 \in 0..n
    BY <1>1
  <2>2. f[i] = step[<<i, f[i - 1]>>] /\ f[i - 1] \in S
    BY <1>4, <2>1
  <2>3. <<i, f[i - 1]>> \in (1..n) \X S
    BY <2>2
  <2>4. QED
    BY <2>2, <2>3 DEF step
<1>6. f[0] = 0
  BY <1>1, <1>4
<1> DEFINE Scan(g) == [i \in 0..Len(rules) |->
                         IF i = 0 THEN 0
                         ELSE IF rules[i].enabled /\ is_match(rules[i], p) /\ beats(i, g[i - 1]) THEN i
                         ELSE g[i - 1]]
<1>7. f = Scan(f)
  <2>1. \A i \in 0..n : f[i] = Scan(f)[i]
    BY <1>1, <1>5, <1>6 DEF Better, Matching
  <2>2. QED
    BY <1>4, <2>1
<1>8. ASSUME NEW g, g = Scan(g) PROVE g[n] = f[n]
  <2> DEFINE T == {i \in 0..n : g[i] = f[i]}
  <2>1. 0 \in T
    BY <1>1, <1>6, <1>8
  <2>2. ASSUME NEW i \in 0..n, i \in T, i < n PROVE i + 1 \in T
    <3>1. i + 1 \in 1..n /\ i + 1 # 0 /\ (i + 1) - 1 = i /\ i + 1 \in 0..n
      BY <1>1, <2>2
    <3>2. g[i + 1] = Better(i + 1, g[i], p)
      BY <1>1, <1>8, <3>1 DEF Better, Matching
    <3>3. QED
      BY <1>5, <2>2, <3>1, <3>2
  <2>3. 0..n \subseteq T
    <3> HIDE DEF T
    <3>1. QED
      BY <1>1, <2>1, <2>2, UpTo
  <2>4. QED
    BY <1>1, <2>3
<1>9. resolve(p) = f[n]
  BY <1>7, <1>8 DEF resolve
<1>10. QED
  BY <1>4, <1>5, <1>6, <1>9

\* The best of the rules up to k.
BestUpTo(b, k, p) ==
  IF b = 0 THEN \A j \in Matching(p) : j > k
  ELSE /\ b \in Matching(p) /\ b <= k
       /\ \A j \in Matching(p) : j <= k =>
            \/ scope_specificity(rules[j].scope) < scope_specificity(rules[b].scope)
            \/ scope_specificity(rules[j].scope) = scope_specificity(rules[b].scope) /\ b <= j

(* The scan keeps the best rule so far.                                    *)
LEMMA ScanKeepsBest ==
  ASSUME Ruleset, NEW p \in Packages, NEW k \in Nat, NEW b \in Nat, BestUpTo(b, k, p)
  PROVE  BestUpTo(Better(k + 1, b, p), k + 1, p)
<1> DEFINE sp(j) == scope_specificity(rules[j].scope)
<1>1. \A j \in Matching(p) : j \in Nat /\ j > 0 /\ sp(j) \in 0..4
  BY RuleSpecificity
<1>2. \A j \in Matching(p) : j <= k + 1 <=> j <= k \/ j = k + 1
  BY <1>1
<1> HIDE DEF sp
<1>3. BestUpTo(b, k, p) <=>
        IF b = 0 THEN \A j \in Matching(p) : j > k
        ELSE /\ b \in Matching(p) /\ b <= k
             /\ \A j \in Matching(p) : j <= k => sp(j) < sp(b) \/ (sp(j) = sp(b) /\ b <= j)
  BY DEF BestUpTo, sp
<1>4. CASE k + 1 \in Matching(p) /\ beats(k + 1, b)
  <2>1. Better(k + 1, b, p) = k + 1
    BY <1>4 DEF Better
  <2>2. b = 0 \/ sp(k + 1) > sp(b)
    BY <1>4 DEF beats, sp
  <2>3. ASSUME NEW j \in Matching(p), j <= k + 1
        PROVE  sp(j) < sp(k + 1) \/ (sp(j) = sp(k + 1) /\ k + 1 <= j)
    <3>1. CASE j = k + 1
      BY <3>1
    <3>2. CASE j # k + 1
      <4>1. j <= k /\ b # 0
        BY <1>1, <1>2, <1>3, <2>3, <3>2
      <4>2. b \in Matching(p) /\ (sp(j) < sp(b) \/ sp(j) = sp(b))
        BY <1>3, <4>1
      <4>3. sp(j) \in 0..4 /\ sp(b) \in 0..4 /\ sp(k + 1) \in 0..4
        BY <1>1, <1>4, <4>2
      <4>4. QED
        BY <2>2, <4>1, <4>2, <4>3
    <3>3. QED
      BY <3>1, <3>2
  <2>4. QED
    BY <1>4, <2>1, <2>3 DEF BestUpTo, sp
<1>5. CASE ~(k + 1 \in Matching(p) /\ beats(k + 1, b))
  <2>1. Better(k + 1, b, p) = b
    BY <1>5 DEF Better
  <2>2. CASE b = 0
    <3>1. k + 1 \notin Matching(p)
      BY <1>5, <2>2 DEF beats
    <3>2. \A j \in Matching(p) : j > k + 1
      BY <1>1, <1>2, <1>3, <2>2, <3>1
    <3>3. QED
      BY <2>1, <2>2, <3>2 DEF BestUpTo
  <2>3. CASE b # 0
    <3>1. b \in Matching(p) /\ b <= k + 1
      BY <1>3, <2>3
    <3>2. k + 1 \in Matching(p) => ~(sp(k + 1) > sp(b))
      BY <1>5, <2>3 DEF beats, sp
    <3>3. ASSUME NEW j \in Matching(p), j <= k + 1
          PROVE  sp(j) < sp(b) \/ (sp(j) = sp(b) /\ b <= j)
      <4>1. CASE j = k + 1
        BY <1>1, <3>1, <3>2, <3>3, <4>1
      <4>2. CASE j # k + 1
        BY <1>2, <1>3, <2>3, <3>3, <4>2
      <4>3. QED
        BY <4>1, <4>2
    <3>4. QED
      BY <2>1, <2>3, <3>1, <3>3 DEF BestUpTo, sp
  <2>4. QED
    BY <2>2, <2>3
<1>6. QED
  BY <1>4, <1>5

(* The resolver finds the best of the matching rules.                      *)
LEMMA ResolverFindsBest ==
  ASSUME Ruleset
  PROVE  \A p \in Packages : IF Matching(p) = {} THEN resolve(p) = 0 ELSE Wins(resolve(p), p)
<1> SUFFICES ASSUME NEW p \in Packages
             PROVE  IF Matching(p) = {} THEN resolve(p) = 0 ELSE Wins(resolve(p), p)
  OBVIOUS
<1>1. PICK n \in Nat : n = Len(rules)
  BY RuleSpecificity
<1>2. PICK f \in [0..n -> 0..n] :
        /\ f[0] = 0 /\ \A i \in 1..n : f[i] = Better(i, f[i - 1], p)
        /\ resolve(p) = f[n]
  BY <1>1, ScanIsLoop
<1>3. \A j \in Matching(p) : j \in 1..n
  BY <1>1, RuleSpecificity
<1> DEFINE T == {k \in 0..n : BestUpTo(f[k], k, p)}
<1>4. 0 \in T
  BY <1>2, <1>3 DEF BestUpTo
<1>5. ASSUME NEW k \in 0..n, k \in T, k < n PROVE k + 1 \in T
  <2>1. f[k] \in Nat /\ k + 1 \in 1..n /\ k + 1 \in 0..n /\ f[k + 1] = Better(k + 1, f[k], p)
    BY <1>2, <1>5
  <2>2. BestUpTo(f[k + 1], k + 1, p)
    BY <1>5, <2>1, ScanKeepsBest
  <2>3. QED
    BY <2>1, <2>2
<1>6. n \in T
  <2>1. 0..n \subseteq T
    <3> HIDE DEF T
    <3>1. QED
      BY <1>4, <1>5, UpTo
  <2>2. n \in 0..n
    OBVIOUS
  <2>3. QED
    BY <2>1, <2>2
<1>7. BestUpTo(resolve(p), n, p) /\ resolve(p) \in Nat
  BY <1>2, <1>6
<1>8. QED
  BY <1>3, <1>7 DEF BestUpTo, Wins

(* No two rules win for the same package.                                  *)
LEMMA WinnerIsUnique ==
  ASSUME Ruleset, NEW p \in Packages, NEW i, Wins(i, p), NEW j, Wins(j, p)
  PROVE  i = j
<1>1. /\ i \in Nat /\ j \in Nat /\ scope_specificity(rules[i].scope) \in 0..4
      /\ scope_specificity(rules[j].scope) \in 0..4
  BY RuleSpecificity DEF Wins
<1>2. QED
  BY <1>1 DEF Wins

(* An edit of a ruleset makes a ruleset.                                   *)
LEMMA RulesetStep ==
  ASSUME Ruleset, [RulesNext]_rules
  PROVE  Ruleset'
<1>1. ASSUME NEW r \in RuleChoices, AddRule(r) PROVE Ruleset'
  BY <1>1, RulesAssumption DEF AddRule, Ruleset
<1>2. ASSUME NEW i \in DOMAIN rules, Disable(i) PROVE Ruleset'
  <2>1. rules[i] \in PolicyRule
    BY DEF Ruleset
  <2> DEFINE r == [rules[i] EXCEPT !.enabled = FALSE]
  <2>2. r \in PolicyRule
    BY <2>1 DEF PolicyRule
  <2>3. rules' = [rules EXCEPT ![i] = r]
    BY <1>2 DEF Disable
  <2> HIDE DEF r
  <2>4. QED
    BY <2>2, <2>3 DEF Ruleset
<1>3. QED
  BY <1>1, <1>2 DEF RulesNext, Ruleset

(* Rulesets stay lists of rules.                                           *)
LEMMA RulesetInvariant == RulesInit /\ [][RulesNext]_rules => []Ruleset
<1>1. RulesInit => Ruleset
  BY DEF RulesInit, Ruleset
<1>2. Ruleset /\ [RulesNext]_rules => Ruleset'
  BY RulesetStep
<1>3. QED
  BY <1>1, <1>2, PTL

(* The most specific matching rule decides, the earliest of equals, and    *)
(* one whose globs are equally specific never where another rule's glob    *)
(* fits better (policy.rs: scope_specificity, PolicyResolver::resolve).    *)
THEOREM SpecificRulesDecide == RulesInit /\ [][RulesNext]_rules => []MostSpecificFirst
<1>1. ASSUME Ruleset PROVE MostSpecificFirst
  <2>1. BestRuleDecides
    BY <1>1, ResolverFindsBest DEF BestRuleDecides
  <2>2. NothingFitsBetter
    <3> SUFFICES ASSUME NEW p \in Packages, NEW i \in DOMAIN rules, NEW g \in rules[i].scope,
                        rules[i].enabled, p \in g.matches,
                        \A h, k \in rules[resolve(p)].scope : glob_specificity(h) = glob_specificity(k)
                 PROVE  \E h \in rules[resolve(p)].scope :
                          p \in h.matches /\ glob_specificity(h) >= glob_specificity(g)
      BY DEF NothingFitsBetter
    <3>1. i \in Matching(p)
      BY DEF Matching, is_match
    <3>2. Wins(resolve(p), p)
      BY <1>1, <3>1, ResolverFindsBest
    <3>3. PICK b \in Matching(p) : b = resolve(p)
      BY <3>2 DEF Wins
    <3> DEFINE mine == scope_specificity(rules[i].scope)
               best == scope_specificity(rules[b].scope)
    <3>4. /\ rules[i].scope \in SUBSET Globs /\ rules[i].scope # {}
          /\ rules[b].scope \in SUBSET Globs /\ rules[b].scope # {}
          /\ mine \in 0..4 /\ best \in 0..4
      BY <1>1, <3>1, RuleSpecificity DEF PolicyRule
    <3>5. glob_specificity(g) <= mine /\ glob_specificity(g) \in 0..4
      <4>1. glob_specificity(g) <= mine
        BY <3>4, BestGlob
      <4>2. glob_specificity(g) \in 0..4
        BY <3>4, GlobsAssumption DEF GlobKind, glob_specificity
      <4>3. QED
        BY <4>1, <4>2
    <3>6. mine <= best
      BY <3>1, <3>2, <3>3, <3>4 DEF Wins
    <3>7. PICK h \in rules[b].scope : p \in h.matches
      BY <3>3 DEF Matching, is_match
    <3>8. PICK k \in rules[b].scope : glob_specificity(k) = best
      BY <3>4, BestGlob
    <3>9. glob_specificity(h) = best
      BY <3>3, <3>7, <3>8
    <3> HIDE DEF mine, best
    <3>10. QED
      BY <3>3, <3>4, <3>5, <3>6, <3>7, <3>9
  <2>3. QED
    BY <2>1, <2>2 DEF MostSpecificFirst
<1>2. QED
  BY <1>1, RulesetInvariant, PTL

\* What a ruleset decides.
Decided == \A p \in Packages : IF Matching(p) = {} THEN resolve(p) = 0 ELSE Wins(resolve(p), p)
OneWinner == \A p \in Packages : \A i, j : Wins(i, p) /\ Wins(j, p) => i = j

(* Every ruleset has one winner for each package, which resolve finds.     *)
LEMMA RulesetDecides == Ruleset => Decided /\ OneWinner
BY ResolverFindsBest, WinnerIsUnique DEF Decided, OneWinner

(* So has the next one.                                                    *)
LEMMA RulesetDecidesNext == Ruleset' => Decided' /\ OneWinner'
BY RulesetDecides, PTL

\* The decisions about a package before and after an edit.
LocalEdit(p) ==
  LET before == resolve(p)
      after == resolve(p)'
  IN  \/ after = before /\ (is_fast_tracked(p)' <=> is_fast_tracked(p))
      \/ Len(rules') > Len(rules) /\ after = Len(rules')
      \/ Len(rules') = Len(rules) /\ before # 0 /\ ~rules'[before].enabled

(* The winner of a ruleset that only lost or gained other rules still wins.*)
LEMMA SameWinner ==
  ASSUME Ruleset, Ruleset', NEW p \in Packages, NEW a, a = resolve(p)',
         a = 0 => Matching(p) = {},
         a # 0 => /\ a \in Matching(p)
                  /\ \A j \in Matching(p) : j \in Matching(p)' /\ rules'[j].scope = rules[j].scope
                  /\ rules'[a].fast_track = rules[a].fast_track
  PROVE  a = resolve(p) /\ (is_fast_tracked(p)' <=> is_fast_tracked(p))
<1>1. Decided'
  BY RulesetDecidesNext
<1>2. IF Matching(p)' = {} THEN a = 0 ELSE Wins(a, p)'
  BY <1>1 DEF Decided
<1>3. IF Matching(p) = {} THEN resolve(p) = 0 ELSE Wins(resolve(p), p)
  BY ResolverFindsBest
<1>4. CASE a = 0
  <2>1. resolve(p) = 0
    BY <1>3, <1>4
  <2>2. QED
    BY <1>4, <2>1 DEF is_fast_tracked
<1>5. CASE a # 0
  <2>1. a \in Matching(p) /\ a \in Matching(p)' /\ Wins(a, p)'
    BY <1>2, <1>5
  <2>2. ASSUME NEW j \in Matching(p)
        PROVE  \/ scope_specificity(rules[j].scope) < scope_specificity(rules[a].scope)
               \/ scope_specificity(rules[j].scope) = scope_specificity(rules[a].scope) /\ a <= j
    <3>1. j \in Matching(p)' /\ rules'[j].scope = rules[j].scope /\ rules'[a].scope = rules[a].scope
      BY <1>5, <2>1
    <3>2. \/ scope_specificity(rules'[j].scope) < scope_specificity(rules'[a].scope)
          \/ scope_specificity(rules'[j].scope) = scope_specificity(rules'[a].scope) /\ a <= j
      BY <2>1, <3>1 DEF Wins, scope_specificity
    <3>3. QED
      BY <3>1, <3>2
  <2>3. Wins(a, p)
    BY <2>1, <2>2 DEF Wins
  <2>4. a = resolve(p)
    BY <1>3, <2>1, <2>3, WinnerIsUnique
  <2>5. is_fast_tracked(p) <=> p \in rules[a].fast_track
    BY <1>5, <2>4 DEF is_fast_tracked
  <2>6. is_fast_tracked(p)' <=> p \in rules'[a].fast_track
    BY <1>5 DEF is_fast_tracked
  <2>7. QED
    BY <1>5, <2>4, <2>5, <2>6
<1>6. QED
  BY <1>4, <1>5

(* Adding a rule is a local edit.                                          *)
LEMMA AddRuleIsLocal ==
  ASSUME Ruleset, Ruleset', NEW r \in RuleChoices, AddRule(r), NEW p \in Packages
  PROVE  LocalEdit(p)
<1>1. PICK n \in Nat : n = Len(rules) /\ DOMAIN rules = 1..n
  BY RuleSpecificity
<1>2. /\ Len(rules') = n + 1 /\ DOMAIN rules' = 1..(n + 1)
      /\ \A i \in 1..n : rules'[i] = rules[i] /\ i \in 1..(n + 1)
  BY <1>1 DEF AddRule, Ruleset
<1>3. Decided'
  BY RulesetDecidesNext
<1>4. PICK a : a = resolve(p)'
  OBVIOUS
<1>5. IF Matching(p)' = {} THEN a = 0 ELSE a \in Matching(p)'
  BY <1>3, <1>4 DEF Decided, Wins
<1>6. \A i \in 1..n : i \in Matching(p)' <=> i \in Matching(p)
  BY <1>1, <1>2 DEF Matching, is_match
<1>7. Matching(p) \subseteq 1..n /\ Matching(p)' \subseteq 1..(n + 1)
  BY <1>1, <1>2 DEF Matching
<1>8. CASE a = n + 1
  BY <1>1, <1>2, <1>4, <1>8 DEF LocalEdit
<1>9. CASE a # n + 1
  <2>1. a = 0 => Matching(p) = {}
    BY <1>5, <1>6, <1>7
  <2>2. a # 0 => a \in 1..n
    BY <1>5, <1>7, <1>9
  <2>3. a # 0 => a \in Matching(p) /\ rules'[a].fast_track = rules[a].fast_track
    BY <1>2, <1>5, <1>6, <1>7, <2>2
  <2>4. \A j \in Matching(p) : j \in Matching(p)' /\ rules'[j].scope = rules[j].scope
    BY <1>2, <1>6, <1>7
  <2>5. a = resolve(p) /\ (is_fast_tracked(p)' <=> is_fast_tracked(p))
    BY <1>4, <2>1, <2>3, <2>4, SameWinner
  <2>6. QED
    BY <1>4, <2>5 DEF LocalEdit
<1>10. QED
  BY <1>8, <1>9

(* Disabling a rule is a local edit.                                       *)
LEMMA DisableIsLocal ==
  ASSUME Ruleset, Ruleset', NEW d \in DOMAIN rules, Disable(d), NEW p \in Packages
  PROVE  LocalEdit(p)
<1>1. PICK n \in Nat : n = Len(rules) /\ DOMAIN rules = 1..n
  BY RuleSpecificity
<1>2. rules[d] \in PolicyRule
  BY DEF Ruleset
<1> DEFINE r == [rules[d] EXCEPT !.enabled = FALSE]
<1>3. r.enabled = FALSE /\ r.scope = rules[d].scope /\ r.fast_track = rules[d].fast_track
  BY <1>2 DEF PolicyRule
<1>4. rules' = [rules EXCEPT ![d] = r]
  BY DEF Disable
<1> HIDE DEF r
<1>5. /\ Len(rules') = n /\ DOMAIN rules' = 1..n
      /\ \A i \in 1..n : rules'[i] = IF i = d THEN r ELSE rules[i]
  BY <1>1, <1>4 DEF Ruleset
<1>6. ~rules'[d].enabled /\ \A i \in 1..n : /\ rules'[i].scope = rules[i].scope
                                            /\ rules'[i].fast_track = rules[i].fast_track
                                            /\ i # d => rules'[i].enabled = rules[i].enabled
  BY <1>1, <1>3, <1>5
<1>7. \A i \in 1..n : i \in Matching(p)' <=> i \in Matching(p) /\ i # d
  BY <1>1, <1>5, <1>6 DEF Matching, is_match
<1>8. Matching(p) \subseteq 1..n /\ Matching(p)' \subseteq 1..n
  BY <1>1, <1>5 DEF Matching
<1>9. Decided'
  BY RulesetDecidesNext
<1>10. IF Matching(p) = {} THEN resolve(p) = 0 ELSE Wins(resolve(p), p)
  BY ResolverFindsBest
<1>11. PICK b : b = resolve(p)
  OBVIOUS
<1>12. PICK a : a = resolve(p)'
  OBVIOUS
<1>13. CASE b = d
  <2>1. b # 0
    BY <1>1, <1>13
  <2>2. QED
    BY <1>1, <1>5, <1>6, <1>11, <1>13, <2>1 DEF LocalEdit
<1>14. CASE b # d
  <2>1. CASE Matching(p) = {}
    <3>1. b = 0 /\ Matching(p)' = {}
      BY <1>7, <1>8, <1>10, <1>11, <2>1
    <3>2. a = 0
      BY <1>9, <1>12, <3>1 DEF Decided
    <3>3. a = resolve(p) /\ (is_fast_tracked(p)' <=> is_fast_tracked(p))
      BY <1>12, <2>1, <3>2, SameWinner
    <3>4. QED
      BY <1>12, <3>3 DEF LocalEdit
  <2>2. CASE Matching(p) # {}
    <3>1. Wins(b, p) /\ b \in Matching(p) /\ b \in Matching(p)'
      BY <1>7, <1>8, <1>10, <1>11, <1>14, <2>2 DEF Wins
    <3>2. ASSUME NEW j \in Matching(p)'
          PROVE  \/ scope_specificity(rules'[j].scope) < scope_specificity(rules'[b].scope)
                 \/ scope_specificity(rules'[j].scope) = scope_specificity(rules'[b].scope) /\ b <= j
      <4>1. j \in Matching(p) /\ rules'[j].scope = rules[j].scope /\ rules'[b].scope = rules[b].scope
        BY <1>6, <1>7, <1>8, <3>1
      <4>2. \/ scope_specificity(rules[j].scope) < scope_specificity(rules[b].scope)
            \/ scope_specificity(rules[j].scope) = scope_specificity(rules[b].scope) /\ b <= j
        BY <3>1, <4>1 DEF Wins
      <4>3. QED
        BY <4>1, <4>2
    <3>3. Wins(b, p)'
      BY <3>1, <3>2 DEF Wins, scope_specificity
    <3>4. Wins(a, p)'
      BY <1>9, <1>12, <3>1 DEF Decided
    <3>5. OneWinner'
      BY RulesetDecidesNext
    <3>6. a = b
      BY <3>3, <3>4, <3>5 DEF OneWinner
    <3>7. rules'[b].fast_track = rules[b].fast_track /\ b # 0
      BY <1>6, <1>8, <3>1
    <3>8. is_fast_tracked(p)' <=> is_fast_tracked(p)
      <4>1. is_fast_tracked(p) <=> p \in rules[b].fast_track
        BY <1>11, <3>7 DEF is_fast_tracked
      <4>2. is_fast_tracked(p)' <=> p \in rules'[a].fast_track
        BY <1>12, <3>6, <3>7 DEF is_fast_tracked
      <4>3. QED
        BY <3>6, <3>7, <4>1, <4>2
    <3>9. QED
      BY <1>11, <1>12, <3>6, <3>8 DEF LocalEdit
  <2>3. QED
    BY <2>1, <2>2
<1>15. QED
  BY <1>13, <1>14

(* An edit of the ruleset changes no decision but that of the rule it adds *)
(* or disables, and no fast track of a package that another rule decides   *)
(* about (policy.rs: PolicyResolver::resolve, is_fast_tracked).            *)
THEOREM EditsStayLocal == RulesInit /\ [][RulesNext]_rules => EditsAreLocal
<1>1. Ruleset /\ [RulesNext]_rules => Ruleset'
  BY RulesetStep
<1>2. Ruleset /\ Ruleset' /\ [RulesNext]_rules => [\A p \in Packages : LocalEdit(p)]_rules
  BY AddRuleIsLocal, DisableIsLocal DEF RulesNext
<1>3. [\A p \in Packages : LocalEdit(p)]_rules <=>
      [\A p \in Packages :
       LET before == resolve(p)
           after == resolve(p)'
       IN  \/ after = before /\ (is_fast_tracked(p)' <=> is_fast_tracked(p))
           \/ Len(rules') > Len(rules) /\ after = Len(rules')
           \/ Len(rules') = Len(rules) /\ before # 0 /\ ~rules'[before].enabled]_rules
  BY DEF LocalEdit
<1>4. QED
  BY <1>1, <1>2, <1>3, RulesetInvariant, PTL DEF EditsAreLocal

-----------------------------------------------------------------------------
(***************************************************************************)
(* The provenance check.                                                   *)
(***************************************************************************)
ChainActions == [][ChainNext]_<<signed, configured, compared, atts>>

(* The link of a certificate is one of its issuers.                        *)
LEMMA NextLinkIsIssuer ==
  ASSUME NEW c \in Certs
  PROVE  IF Up(c) = {} THEN NextLink(c) = 0 ELSE NextLink(c) \in Up(c)
<1>1. CASE Up(c) # {}
  <2>1. Up(c) \in SUBSET Nat
    BY DEF Certs, Up
  <2>2. \E d \in Up(c) : \A e \in Up(c) : d <= e
    BY <1>1, <2>1, HasMinimum
  <2>3. QED
    BY <1>1, <2>2 DEF NextLink
<1>2. QED
  BY <1>1 DEF NextLink

(* The walk from the leaf is a loop over the steps.                        *)
LEMMA WalkIsLoop ==
  ASSUME NEW n, n = Steps - 1
  PROVE  \E f \in [0..n -> Certs \cup {0}] :
           /\ f[0] = 1 /\ \A k \in 1..n : f[k] = Follow(f[k - 1])
           /\ chain_trusted <=> f[n] # 0 /\ AtAnchor(f[n])
<1>1. n \in Nat /\ 1 \in Certs
  BY WalkAssumption DEF Certs
<1> DEFINE S == Certs \cup {0}
           step == [x \in (1..n) \X S |-> Follow(x[2])]
<1>2. \A c \in S : Follow(c) \in S
  BY NextLinkIsIssuer DEF Follow, Up
<1>3. step \in [(1..n) \X S -> S] /\ 1 \in S
  BY <1>1, <1>2
<1> HIDE DEF step, S
<1>4. PICK f : IsLoop(f, n, S, 1, step)
  BY <1>1, <1>3, LoopExists
<1> USE DEF S, IsLoop
<1>5. \A k \in 1..n : f[k] = Follow(f[k - 1])
  <2> SUFFICES ASSUME NEW k \in 1..n PROVE f[k] = Follow(f[k - 1])
    OBVIOUS
  <2>1. k - 1 \in 0..n
    BY <1>1
  <2>2. f[k] = step[<<k, f[k - 1]>>] /\ f[k - 1] \in S
    BY <1>4, <2>1
  <2>3. <<k, f[k - 1]>> \in (1..n) \X S
    BY <2>2
  <2>4. QED
    BY <2>2, <2>3 DEF step
<1> DEFINE Walk(g) == [k \in 0..(Steps - 1) |-> IF k = 0 THEN 1 ELSE Follow(g[k - 1])]
<1>6. f = Walk(f)
  <2>1. \A k \in 0..n : f[k] = Walk(f)[k]
    BY <1>1, <1>4, <1>5
  <2>2. QED
    BY <1>4, <2>1
<1>7. ASSUME NEW g, g = Walk(g) PROVE g[n] = f[n]
  <2> DEFINE T == {i \in 0..n : g[i] = f[i]}
  <2>1. 0 \in T
    BY <1>1, <1>4, <1>7
  <2>2. ASSUME NEW i \in 0..n, i \in T, i < n PROVE i + 1 \in T
    <3>1. i + 1 \in 1..n /\ i + 1 # 0 /\ (i + 1) - 1 = i /\ i + 1 \in 0..n
      BY <1>1, <2>2
    <3>2. g[i + 1] = Follow(g[i])
      BY <1>1, <1>7, <3>1
    <3>3. QED
      BY <1>5, <2>2, <3>1, <3>2
  <2>3. 0..n \subseteq T
    <3> HIDE DEF T
    <3>1. QED
      BY <1>1, <2>1, <2>2, UpTo
  <2>4. QED
    BY <1>1, <2>3
<1>8. chain_trusted <=> f[n] # 0 /\ AtAnchor(f[n])
  BY <1>6, <1>7 DEF chain_trusted
<1>9. QED
  BY <1>4, <1>5, <1>8

\* f follows the walk from the leaf.
IsWalk(f, n) ==
  f \in [0..n -> Certs \cup {0}] /\ f[0] = 1 /\ \A k \in 1..n : f[k] = Follow(f[k - 1])

(* The walk stays among the certificates that signatures lead to.          *)
LEMMA WalkStays ==
  ASSUME NEW n \in Nat, NEW f, IsWalk(f, n), NEW k \in 0..n
  PROVE  f[k] \in Reached \cup {0}
<1>1. ASSUME NEW U \in SUBSET Certs, Closed(U) PROVE \A m \in 0..n : f[m] \in U \cup {0}
  <2> DEFINE T == {m \in 0..n : f[m] \in U \cup {0}}
  <2>1. 0 \in T
    BY <1>1 DEF Closed, IsWalk
  <2>2. ASSUME NEW m \in 0..n, m \in T, m < n PROVE m + 1 \in T
    <3>1. m + 1 \in 1..n /\ m + 1 \in 0..n /\ f[m + 1] = Follow(f[m])
      BY <2>2 DEF IsWalk
    <3>2. CASE f[m] = 0 \/ AtAnchor(f[m])
      BY <2>2, <3>1, <3>2 DEF Follow
    <3>3. CASE ~(f[m] = 0 \/ AtAnchor(f[m]))
      <4>1. f[m + 1] = NextLink(f[m]) /\ f[m] \in U /\ f[m] \in Certs
        BY <1>1, <2>2, <3>1, <3>3 DEF Follow
      <4>2. NextLink(f[m]) = 0 \/ (NextLink(f[m]) \in Certs /\ <<NextLink(f[m]), f[m]>> \in signed)
        BY <4>1, NextLinkIsIssuer DEF Up
      <4>3. QED
        BY <1>1, <3>1, <4>1, <4>2 DEF Closed
    <3>4. QED
      BY <3>2, <3>3
  <2>3. 0..n \subseteq T
    <3> HIDE DEF T
    <3>1. QED
      BY <2>1, <2>2, UpTo
  <2>4. QED
    BY <2>3
<1>2. f[k] \in Certs \cup {0}
  BY DEF IsWalk
<1>3. QED
  BY <1>1, <1>2 DEF Reached

(* A trusted leaf has a path to an anchor.                                 *)
LEMMA WalkIsReached ==
  ASSUME chain_trusted
  PROVE  \E c \in Reached : AtAnchor(c)
<1>1. PICK n \in Nat : n = Steps - 1
  BY WalkAssumption
<1>2. PICK f \in [0..n -> Certs \cup {0}] :
        /\ f[0] = 1 /\ \A k \in 1..n : f[k] = Follow(f[k - 1])
        /\ chain_trusted <=> f[n] # 0 /\ AtAnchor(f[n])
  BY <1>1, WalkIsLoop
<1>3. f[n] \in Reached \cup {0}
  BY <1>2, WalkStays DEF IsWalk
<1>4. QED
  BY <1>2, <1>3

(* Whatever certificates a bundle presents, a version is verified only by  *)
(* a sound attestation, from whose leaf signatures lead to an anchor; what *)
(* is sound depends on the issuers configured and on whether the package   *)
(* declares a repository (sigstore.rs: verify_attestations, verify_one,    *)
(* chain_trusted).                                                         *)
THEOREM VerifiedOnlyIfBound == ChainInit /\ ChainActions => []VerifiedIsBound
<1>1. ASSUME verify_attestations = "verified"
      PROVE  configured /\ (\E i \in DOMAIN atts : Sound(atts[i])) /\ (\E c \in Reached : AtAnchor(c))
  <2>1. configured /\ \E i \in DOMAIN atts : verify_one(atts[i]) = "verified"
    BY <1>1 DEF verify_attestations
  <2>2. PICK i \in DOMAIN atts : verify_one(atts[i]) = "verified"
    BY <2>1
  <2>3. "other" \notin atts[i] /\ "broken" \notin atts[i] /\ atts[i] \cap compared = {} /\ chain_trusted
    BY <2>2 DEF verify_one
  <2>4. Sound(atts[i])
    BY <2>3 DEF Sound
  <2>5. QED
    BY <2>1, <2>3, <2>4, WalkIsReached
<1>2. VerifiedIsBound
  BY <1>1 DEF VerifiedIsBound
<1>3. QED
  BY <1>2, PTL

(* Where every way up comes to an anchor, the walk does.                   *)
LEMMA WalkArrives ==
  ASSUME Presented <= Steps, EveryWayUp
  PROVE  chain_trusted
<1>1. PICK n \in Nat : n = Steps - 1
  BY WalkAssumption
<1>2. PICK f \in [0..n -> Certs \cup {0}] :
        /\ f[0] = 1 /\ \A k \in 1..n : f[k] = Follow(f[k - 1])
        /\ chain_trusted <=> f[n] # 0 /\ AtAnchor(f[n])
  BY <1>1, WalkIsLoop
<1> SUFFICES ASSUME ~(f[n] # 0 /\ AtAnchor(f[n])) PROVE FALSE
  BY <1>2
<1>3. IsFiniteSet(Certs) /\ Cardinality(Certs) = Presented /\ Presented \in Nat /\ 1 \in Certs
  BY FS_Interval, WalkAssumption DEF Certs
\* A walk that reaches nowhere, or an anchor, stays there.
<1>4. ASSUME NEW i \in 0..n, Follow(f[i]) = f[i] PROVE f[n] = f[i]
  <2> DEFINE T == {m \in 0..(n - i) : f[i + m] = f[i]}
  <2>1. n - i \in Nat /\ 0 \in T
    BY <1>2
  <2>2. ASSUME NEW m \in 0..(n - i), m \in T, m < n - i PROVE m + 1 \in T
    <3>1. i + (m + 1) \in 1..n /\ (i + (m + 1)) - 1 = i + m /\ m + 1 \in 0..(n - i)
      BY <2>1, <2>2
    <3>2. f[i + (m + 1)] = Follow(f[i + m])
      BY <1>2, <3>1
    <3>3. QED
      BY <1>4, <2>2, <3>1, <3>2
  <2>3. 0..(n - i) \subseteq T
    <3> HIDE DEF T
    <3>1. QED
      BY <2>1, <2>2, UpTo
  <2>4. n - i \in 0..(n - i) /\ i + (n - i) = n
    BY <2>1
  <2>5. QED
    BY <2>3, <2>4
<1>5. ASSUME NEW i \in 0..n, f[i] # 0 PROVE f[i] \in Certs /\ ~AtAnchor(f[i])
  BY <1>2, <1>4, <1>5 DEF Follow
<1> DEFINE V == {c \in Certs : \E i \in 0..n : f[i] = c}
<1>6. 0 \notin Certs
  BY DEF Certs
<1>7. \A c \in V : ~AtAnchor(c)
  BY <1>5, <1>6
\* What it passes is open: some certificate of it has issuers, all of them outside.
<1>8. V \in SUBSET {c \in Reached : ~AtAnchor(c)} /\ 1 \in V
  <2>1. \A i \in 0..n : f[i] \in Reached \cup {0}
    BY <1>2, WalkStays DEF IsWalk
  <2>2. 1 \in V
    BY <1>2, <1>3
  <2>3. QED
    BY <1>6, <1>7, <2>1, <2>2
<1>9. PICK c \in V : Up(c) # {} /\ Up(c) \cap V = {}
  <2> HIDE DEF V
  <2>1. QED
    BY <1>8 DEF EveryWayUp
<1>10. PICK d \in Certs : d = NextLink(c) /\ d \notin V /\ d # c
  BY <1>9, NextLinkIsIssuer DEF Up
<1>11. \A i \in 0..n : f[i] = c => Follow(f[i]) = d
  BY <1>7, <1>9, <1>10, <1>6 DEF Follow
<1>12. f[n] = c
  <2>1. PICK i \in 0..n : f[i] = c
    BY <1>9
  <2>2. CASE i < n
    <3>1. i + 1 \in 1..n /\ i + 1 \in 0..n /\ (i + 1) - 1 = i
      BY <2>2
    <3>2. f[i + 1] = d
      BY <1>2, <1>11, <2>1, <3>1
    <3>3. QED
      BY <1>10, <3>1, <3>2
  <2>3. QED
    BY <2>1, <2>2
\* The walk never was nowhere, so it has met some certificate twice.
<1>13. ASSUME NEW k \in 0..n PROVE f[k] \in Certs \ {d}
  <2>1. f[k] # 0
    <3>1. f[k] = 0 => f[n] = 0
      BY <1>4 DEF Follow
    <3>2. QED
      BY <1>6, <1>9, <1>12, <3>1
  <2>2. QED
    BY <1>5, <1>10, <2>1
<1>14. PICK x \in 0..n, y \in 0..n : x # y /\ f[x] = f[y]
  <2> DEFINE S == 0..n
             T == Certs \ {d}
  <2>1. IsFiniteSet(S) /\ Cardinality(S) = Steps
    BY <1>1, FS_Interval, WalkAssumption
  <2>2. IsFiniteSet(T) /\ Cardinality(T) = Presented - 1
    BY <1>3, FS_RemoveElement
  <2>3. Cardinality(T) < Cardinality(S)
    BY <1>3, <2>1, <2>2, WalkAssumption
  <2>4. f \in [S -> T]
    BY <1>2, <1>13
  <2> HIDE DEF S, T
  <2>5. \E u, v \in S : u # v /\ f[u] = f[v]
    BY <2>1, <2>2, <2>3, <2>4, FS_PigeonHole
  <2>6. QED
    BY <2>5 DEF S
<1>15. PICK a \in 0..n, b \in 0..n : a < b /\ f[a] = f[b]
  BY <1>14
\* From there on it repeats itself, so its end has been left before.
<1>16. PICK m \in 0..n : m < n /\ f[m] = f[n]
  <2> DEFINE T == {m \in 0..(n - b) : f[a + m] = f[b + m]}
  <2>1. n - b \in Nat /\ 0 \in T
    BY <1>15
  <2>2. ASSUME NEW m \in 0..(n - b), m \in T, m < n - b PROVE m + 1 \in T
    <3>1. /\ a + (m + 1) \in 1..n /\ (a + (m + 1)) - 1 = a + m
          /\ b + (m + 1) \in 1..n /\ (b + (m + 1)) - 1 = b + m /\ m + 1 \in 0..(n - b)
      BY <1>15, <2>1, <2>2
    <3>2. f[a + (m + 1)] = Follow(f[a + m]) /\ f[b + (m + 1)] = Follow(f[b + m])
      BY <1>2, <3>1
    <3>3. QED
      BY <2>2, <3>1, <3>2
  <2>3. 0..(n - b) \subseteq T
    <3> HIDE DEF T
    <3>1. QED
      BY <2>1, <2>2, UpTo
  <2>4. n - b \in T
    BY <2>1, <2>3
  <2>5. a + (n - b) \in 0..n /\ a + (n - b) < n /\ b + (n - b) = n
    BY <1>15, <2>1
  <2>6. f[a + (n - b)] = f[n]
    BY <2>4, <2>5
  <2>7. QED
    BY <2>5, <2>6
<1>17. m + 1 \in 1..n /\ m + 1 \in 0..n /\ (m + 1) - 1 = m
  BY <1>16
<1>18. f[m + 1] = d
  BY <1>2, <1>11, <1>12, <1>16, <1>17
<1>19. QED
  BY <1>10, <1>17, <1>18

(* A sound attestation is accepted, in whatever order its certificates are *)
(* presented and however many paths they form, if each of them leads to an *)
(* anchor and the walk is as long as the bundle (sigstore.rs:              *)
(* chain_trusted).                                                         *)
THEOREM SoundPathsAreFound == ChainInit /\ ChainActions => []SoundPathIsFound
<1>1. SoundPathIsFound
  <2> SUFFICES ASSUME configured, Presented <= Steps, EveryWayUp, NEW i \in DOMAIN atts, Sound(atts[i])
               PROVE  verify_attestations = "verified"
    BY DEF SoundPathIsFound
  <2>1. chain_trusted
    BY WalkArrives
  <2>2. verify_one(atts[i]) = "verified"
    BY <2>1 DEF verify_one, Sound
  <2>3. QED
    BY <2>2 DEF verify_attestations
<1>2. QED
  BY <1>1, PTL

-----------------------------------------------------------------------------
(***************************************************************************)
(* The chain score.                                                        *)
(***************************************************************************)
\* The weights a report can name.
Reportable == 0..(2 * Half - 1)

WeightsOK == weights \in Seq(Reportable)

(* The rest of a division by m is the only one below m.                    *)
LEMMA RestIs ==
  ASSUME NEW m \in Nat \ {0}, NEW s \in 0..(m - 1), NEW q \in Nat, NEW x \in Nat, x = q * m + s
  PROVE  x % m = s
<1> DEFINE d == x \div m
           r == x % m
<1>1. x = m * d + r /\ r \in 0..(m - 1) /\ d \in Int
  OBVIOUS
<1> HIDE DEF d, r
<1>2. ~(d >= q + 1)
  <2> SUFFICES ASSUME d >= q + 1 PROVE FALSE
    OBVIOUS
  <2>1. m * d >= m * (q + 1)
    BY <1>1
  <2>2. m * (q + 1) = q * m + m
    OBVIOUS
  <2>3. QED
    BY <1>1, <2>1, <2>2
<1>3. ~(q >= d + 1)
  <2> SUFFICES ASSUME q >= d + 1 PROVE FALSE
    OBVIOUS
  <2>1. m * q >= m * (d + 1)
    BY <1>1
  <2>2. m * (d + 1) = m * d + m /\ m * q = q * m
    BY <1>1
  <2>3. QED
    BY <1>1, <2>1, <2>2
<1>4. d = q
  BY <1>1, <1>2, <1>3
<1>5. m * d = q * m
  BY <1>4
<1>6. QED
  BY <1>1, <1>5 DEF r

(* What the table keeps of a weight is less than half of what a sum holds, *)
(* and nothing of one that is too large.                                   *)
LEMMA KeptWeights ==
  ASSUME WeightsOK
  PROVE  /\ Len(weights) \in Nat /\ DOMAIN weights = 1..Len(weights) /\ DOMAIN Kept = 1..Len(weights)
         /\ Len(Kept) = Len(weights)
         /\ \A i \in DOMAIN weights : /\ Kept[i] \in 0..(Half - 1)
                                      /\ Kept[i] > 0 <=> weights[i] \in 1..(Half - 1)
<1>1. Len(weights) \in Nat /\ DOMAIN weights = 1..Len(weights) /\ DOMAIN Kept = 1..Len(weights)
  BY DEF WeightsOK, Kept
<1>2. Len(Kept) = Len(weights)
  BY <1>1
<1>3. \A i \in DOMAIN weights : weights[i] \in 0..(2 * Half - 1)
  <2>1. \A i \in DOMAIN weights : weights[i] \in Reportable
    BY <1>1 DEF WeightsOK
  <2>2. QED
    BY <2>1 DEF Reportable
<1>4. ASSUME NEW i \in DOMAIN weights
      PROVE  Kept[i] \in 0..(Half - 1) /\ (Kept[i] > 0 <=> weights[i] \in 1..(Half - 1))
  BY <1>3, HalfAssumption DEF Kept, Read, Stored
<1>5. QED
  BY <1>1, <1>2, <1>4

(* Both sums are loops over the weights, and the score is what is left of  *)
(* the true sum after it wrapped.                                          *)
LEMMA SumsAreLoops ==
  ASSUME WeightsOK, NEW n, n = Len(weights)
  PROVE  \E t \in [0..n -> Nat], s \in [0..n -> 0..(2 * Half - 1)] :
           /\ t[0] = 0 /\ \A i \in 1..n : t[i] = t[i - 1] + Kept[i]
           /\ s[0] = 0 /\ \A i \in 1..n : s[i] = (s[i - 1] + Kept[i]) % (2 * Half)
           /\ TrueSum = t[n] /\ chain_score(Kept) = s[n]
<1>1. n \in Nat /\ \A i \in 1..n : Kept[i] \in 0..(Half - 1)
  BY KeptWeights
<1> DEFINE m == 2 * Half
           S == 0..(m - 1)
           add == [x \in (1..n) \X Nat |-> x[2] + Kept[x[1]]]
           wrap == [x \in (1..n) \X S |-> (x[2] + Kept[x[1]]) % m]
<1>2. m \in Nat \ {0} /\ 0 \in S /\ S \subseteq Nat
  BY HalfAssumption
<1>3. add \in [(1..n) \X Nat -> Nat]
  <2>1. \A x \in (1..n) \X Nat : x[2] + Kept[x[1]] \in Nat
    BY <1>1, HalfAssumption
  <2>2. QED
    BY <2>1
<1>4. wrap \in [(1..n) \X S -> S]
  <2>1. ASSUME NEW x \in (1..n) \X S PROVE (x[2] + Kept[x[1]]) % m \in S
    <3>1. x[2] \in Nat /\ Kept[x[1]] \in Nat
      BY <1>1, <1>2, HalfAssumption
    <3>2. x[2] + Kept[x[1]] \in Nat
      BY <3>1
    <3> HIDE DEF m
    <3>3. QED
      BY <1>2, <3>2
  <2>2. QED
    BY <2>1
<1> HIDE DEF add, wrap, S, m
<1>5. PICK t : IsLoop(t, n, Nat, 0, add)
  BY <1>1, <1>3, LoopExists
<1>6. PICK s : IsLoop(s, n, S, 0, wrap)
  BY <1>1, <1>2, <1>4, LoopExists
<1>7. \A i \in 1..n : t[i] = t[i - 1] + Kept[i]
  <2> SUFFICES ASSUME NEW i \in 1..n PROVE t[i] = t[i - 1] + Kept[i]
    OBVIOUS
  <2>1. i - 1 \in 0..n
    BY <1>1
  <2>2. t[i] = add[<<i, t[i - 1]>>] /\ t[i - 1] \in Nat
    BY <1>5, <2>1 DEF IsLoop
  <2>3. <<i, t[i - 1]>> \in (1..n) \X Nat
    BY <2>2
  <2>4. QED
    BY <2>2, <2>3 DEF add
<1>8. \A i \in 1..n : s[i] = (s[i - 1] + Kept[i]) % m
  <2> SUFFICES ASSUME NEW i \in 1..n PROVE s[i] = (s[i - 1] + Kept[i]) % m
    OBVIOUS
  <2>1. i - 1 \in 0..n
    BY <1>1
  <2>2. s[i] = wrap[<<i, s[i - 1]>>] /\ s[i - 1] \in S
    BY <1>6, <2>1 DEF IsLoop
  <2>3. <<i, s[i - 1]>> \in (1..n) \X S
    BY <2>2
  <2>4. QED
    BY <2>2, <2>3 DEF wrap
<1>9. TrueSum = t[n]
  <2> DEFINE Sum(g) == [i \in 0..Len(Kept) |-> IF i = 0 THEN 0 ELSE g[i - 1] + Kept[i]]
  <2>1. t = Sum(t)
    <3>1. \A i \in 0..n : t[i] = Sum(t)[i]
      BY <1>1, <1>5, <1>7, KeptWeights DEF IsLoop
    <3>2. QED
      BY <1>5, <3>1, KeptWeights DEF IsLoop
  <2>2. ASSUME NEW g, g = Sum(g) PROVE g[n] = t[n]
    <3> DEFINE T == {i \in 0..n : g[i] = t[i]}
    <3>1. 0 \in T
      BY <1>1, <1>5, <2>2, KeptWeights DEF IsLoop
    <3>2. ASSUME NEW i \in 0..n, i \in T, i < n PROVE i + 1 \in T
      <4>1. i + 1 \in 1..n /\ i + 1 # 0 /\ (i + 1) - 1 = i /\ i + 1 \in 0..n
        BY <1>1, <3>2
      <4>2. g[i + 1] = g[i] + Kept[i + 1]
        BY <1>1, <2>2, <4>1, KeptWeights
      <4>3. QED
        BY <1>7, <3>2, <4>1, <4>2
    <3>3. 0..n \subseteq T
      <4> HIDE DEF T
      <4>1. QED
        BY <1>1, <3>1, <3>2, UpTo
    <3>4. QED
      BY <1>1, <3>3
  <2>3. Len(Kept) = n
    BY KeptWeights
  <2>4. TrueSum = (CHOOSE g : g = Sum(g))[n]
    BY <2>3 DEF TrueSum
  <2>5. (CHOOSE g : g = Sum(g)) = Sum(CHOOSE g : g = Sum(g))
    BY <2>1
  <2> HIDE DEF Sum
  <2>6. QED
    BY <2>2, <2>4, <2>5
<1>10. chain_score(Kept) = s[n]
  <2> DEFINE Sum(g) == [i \in 0..Len(Kept) |-> IF i = 0 THEN 0 ELSE (g[i - 1] + Kept[i]) % (2 * Half)]
  <2>1. s = Sum(s)
    <3>1. \A i \in 0..n : s[i] = Sum(s)[i]
      BY <1>1, <1>6, <1>8, KeptWeights DEF IsLoop, m
    <3>2. QED
      BY <1>6, <3>1, KeptWeights DEF IsLoop
  <2>2. ASSUME NEW g, g = Sum(g) PROVE g[n] = s[n]
    <3> DEFINE T == {i \in 0..n : g[i] = s[i]}
    <3>1. 0 \in T
      BY <1>1, <1>6, <2>2, KeptWeights DEF IsLoop
    <3>2. ASSUME NEW i \in 0..n, i \in T, i < n PROVE i + 1 \in T
      <4>1. i + 1 \in 1..n /\ i + 1 # 0 /\ (i + 1) - 1 = i /\ i + 1 \in 0..n
        BY <1>1, <3>2
      <4>2. g[i + 1] = (g[i] + Kept[i + 1]) % (2 * Half)
        BY <1>1, <2>2, <4>1, KeptWeights
      <4>3. QED
        BY <1>8, <3>2, <4>1, <4>2 DEF m
    <3>3. 0..n \subseteq T
      <4> HIDE DEF T
      <4>1. QED
        BY <1>1, <3>1, <3>2, UpTo
    <3>4. QED
      BY <1>1, <3>3
  <2>3. Len(Kept) = n
    BY KeptWeights
  <2>4. chain_score(Kept) = (CHOOSE g : g = Sum(g))[n]
    BY <2>3 DEF chain_score
  <2>5. (CHOOSE g : g = Sum(g)) = Sum(CHOOSE g : g = Sum(g))
    BY <2>1
  <2> HIDE DEF Sum
  <2>6. QED
    BY <2>2, <2>4, <2>5
<1>11. QED
  BY <1>5, <1>6, <1>7, <1>8, <1>9, <1>10 DEF IsLoop, S, m

(* Reports stay weights of their width.                                    *)
LEMMA WeightsInvariant == WeightsInit /\ [][WeightsNext]_weights => []WeightsOK
<1>1. WeightsInit => WeightsOK
  BY DEF WeightsInit, WeightsOK
<1>2. WeightsOK /\ [WeightsNext]_weights => WeightsOK'
  <2> SUFFICES ASSUME WeightsOK, NEW w \in 0..(2 * Half - 1), ReportWeight(w) PROVE WeightsOK'
    BY DEF WeightsNext, WeightsOK
  <2>1. w \in Reportable
    BY DEF Reportable
  <2>2. QED
    BY <2>1 DEF ReportWeight, WeightsOK
<1>3. QED
  BY <1>1, <1>2, PTL

(* A version is held or denied on its signals iff one of them was reported *)
(* with a weight the table can hold, unless three or more weights add up   *)
(* to a multiple of 2^32 (db/signals.rs: append, get_for_version;          *)
(* scoring.rs: compute_verdict).                                           *)
THEOREM WeightsCount == WeightsInit /\ [][WeightsNext]_weights => []ScorePositiveIffWeighed
<1>1. ASSUME WeightsOK PROVE ScorePositiveIffWeighed
  <2>1. PICK n \in Nat : n = Len(weights)
    BY <1>1, KeptWeights
  <2>2. PICK t \in [0..n -> Nat], s \in [0..n -> 0..(2 * Half - 1)] :
           /\ t[0] = 0 /\ \A i \in 1..n : t[i] = t[i - 1] + Kept[i]
           /\ s[0] = 0 /\ \A i \in 1..n : s[i] = (s[i - 1] + Kept[i]) % (2 * Half)
           /\ TrueSum = t[n] /\ chain_score(Kept) = s[n]
    BY <1>1, <2>1, SumsAreLoops
  <2>3. \A i \in 1..n : Kept[i] \in 0..(Half - 1) /\ (Kept[i] > 0 <=> weights[i] \in 1..(Half - 1))
    BY <1>1, <2>1, KeptWeights
  <2> DEFINE m == 2 * Half
  <2>4. m \in Nat \ {0}
    BY HalfAssumption
  \* The score is the rest of the sum.
  <2>5. t[n] % m = s[n]
    <3> DEFINE T == {k \in 0..n : \E q \in Nat : t[k] = q * m + s[k]}
    <3>1. 0 \in T
      <4>1. t[0] = 0 * m + s[0]
        BY <2>2, <2>4
      <4>2. QED
        BY <4>1
    <3>2. ASSUME NEW k \in 0..n, k \in T, k < n PROVE k + 1 \in T
      <4>1. k + 1 \in 1..n /\ k + 1 \in 0..n /\ (k + 1) - 1 = k
        BY <3>2
      <4>2. PICK q \in Nat : t[k] = q * m + s[k]
        BY <3>2
      <4>3. PICK w \in 0..(Half - 1) : w = Kept[k + 1]
        BY <2>3, <4>1
      <4>4. t[k + 1] = t[k] + w /\ s[k + 1] = (s[k] + w) % m
        BY <2>2, <4>1, <4>3
      <4>5. s[k] \in 0..(m - 1) /\ w \in Nat /\ w < m /\ s[k] + w \in Nat
        BY <2>2, <4>3, HalfAssumption
      <4> HIDE DEF m
      <4>6. CASE s[k] + w < m
        <5>1. s[k] + w \in 0..(m - 1) /\ s[k] + w = 0 * m + (s[k] + w)
          BY <2>4, <4>5, <4>6
        <5>2. (s[k] + w) % m = s[k] + w
          BY <2>4, <4>5, <5>1, RestIs
        <5>3. q * m \in Nat
          BY <2>4
        <5>4. t[k + 1] = q * m + s[k + 1]
          <6>1. PICK x \in Nat : x = q * m
            BY <5>3
          <6>2. t[k] = x + s[k] /\ t[k + 1] = t[k] + w /\ s[k + 1] = s[k] + w
            BY <4>2, <4>4, <5>2, <6>1
          <6>3. t[k + 1] = x + s[k + 1]
            BY <4>5, <6>2
          <6>4. QED
            BY <6>1, <6>3
        <5>5. QED
          BY <4>1, <5>4
      <4>7. CASE ~(s[k] + w < m)
        <5>1. (s[k] + w) - m \in 0..(m - 1) /\ s[k] + w = 1 * m + ((s[k] + w) - m)
          BY <2>4, <4>5, <4>7
        <5>2. (s[k] + w) % m = (s[k] + w) - m
          <6>1. PICK rest \in 0..(m - 1), sum \in Nat :
                  rest = (s[k] + w) - m /\ sum = s[k] + w /\ sum = 1 * m + rest
            BY <4>5, <5>1
          <6>2. PICK one \in Nat : one = 1
            OBVIOUS
          <6>3. sum = one * m + rest
            BY <6>1, <6>2
          <6>4. sum % m = rest
            BY <2>4, <6>3, RestIs
          <6>5. QED
            BY <6>1, <6>4
        <5>3. (q + 1) * m = q * m + m /\ q * m \in Nat
          BY <2>4
        <5>4. t[k + 1] = (q + 1) * m + s[k + 1]
          <6>1. PICK x \in Nat : x = q * m
            BY <5>3
          <6>2. t[k] = x + s[k] /\ t[k + 1] = t[k] + w /\ s[k + 1] = (s[k] + w) - m
            BY <4>2, <4>4, <5>2, <6>1
          <6>3. t[k + 1] = (x + m) + s[k + 1]
            BY <2>4, <4>5, <6>2
          <6>4. QED
            BY <5>3, <6>1, <6>3
        <5>5. q + 1 \in Nat
          OBVIOUS
        <5>6. QED
          BY <4>1, <5>4, <5>5
      <4>8. QED
        BY <4>6, <4>7
    <3>3. 0..n \subseteq T
      <4> HIDE DEF T
      <4>1. QED
        BY <3>1, <3>2, UpTo
    <3>4. PICK q \in Nat : t[n] = q * m + s[n]
      <4>1. n \in T
        BY <3>3
      <4>2. QED
        BY <4>1
    <3>5. t[n] \in Nat /\ s[n] \in 0..(m - 1)
      BY <2>2
    <3> HIDE DEF m
    <3>6. QED
      BY <2>4, <3>4, <3>5, RestIs
  \* The sum is positive iff a weight is.
  <2>6. t[n] > 0 <=> \E i \in 1..n : Kept[i] > 0
    <3> DEFINE T == {k \in 0..n : t[k] > 0 <=> \E i \in 1..k : Kept[i] > 0}
    <3>1. 0 \in T
      BY <2>2
    <3>2. ASSUME NEW k \in 0..n, k \in T, k < n PROVE k + 1 \in T
      <4>1. k + 1 \in 1..n /\ k + 1 \in 0..n /\ (k + 1) - 1 = k
        BY <3>2
      <4>2. t[k + 1] = t[k] + Kept[k + 1] /\ t[k] \in Nat /\ Kept[k + 1] \in Nat
        BY <2>2, <2>3, <4>1
      <4>3. t[k + 1] > 0 <=> t[k] > 0 \/ Kept[k + 1] > 0
        BY <4>2
      <4>4. \A i \in 1..(k + 1) : i \in 1..k \/ i = k + 1
        OBVIOUS
      <4>5. 1..k \subseteq 1..(k + 1) /\ k + 1 \in 1..(k + 1)
        OBVIOUS
      <4>6. QED
        BY <3>2, <4>1, <4>3, <4>4, <4>5
    <3>3. 0..n \subseteq T
      <4> HIDE DEF T
      <4>1. QED
        BY <3>1, <3>2, UpTo
    <3>4. n \in T
      BY <3>3
    <3>5. QED
      BY <3>4
  \* Two weights do not wrap.
  <2>7. n < 3 => t[n] < m
    <3>1. n = 0 => t[n] < m
      BY <2>2, <2>4
    <3>2. n >= 1 => t[1] \in 0..(Half - 1)
      <4> SUFFICES ASSUME n >= 1 PROVE t[1] \in 0..(Half - 1)
        OBVIOUS
      <4>1. 1 \in 1..n /\ 1 - 1 = 0
        OBVIOUS
      <4>2. t[1] = t[1 - 1] + Kept[1] /\ Kept[1] \in 0..(Half - 1)
        BY <2>2, <2>3, <4>1
      <4>3. QED
        BY <2>2, <4>1, <4>2, HalfAssumption
    <3>3. n >= 2 => t[2] \in 0..(2 * Half - 2)
      <4> SUFFICES ASSUME n >= 2 PROVE t[2] \in 0..(2 * Half - 2)
        OBVIOUS
      <4>1. 2 \in 1..n /\ t[2] = t[2 - 1] + Kept[2] /\ Kept[2] \in 0..(Half - 1)
        BY <2>2, <2>3
      <4>2. QED
        BY <3>2, <4>1, HalfAssumption
    <3>4. n < 3 => n = 0 \/ n = 1 \/ n = 2
      OBVIOUS
    <3>5. QED
      BY <3>1, <3>2, <3>3, <3>4, HalfAssumption
  <2>8. chain_score(Kept) > 0 \/ t[n] % m = 0
    BY <2>2, <2>5
  <2>9. t[n] = 0 => chain_score(Kept) = 0
    <3>1. 0 = 0 * m + 0 /\ 0 \in 0..(m - 1)
      BY <2>4
    <3> HIDE DEF m
    <3>2. 0 % m = 0
      BY <2>4, <3>1, RestIs
    <3>3. QED
      BY <2>2, <2>5, <3>2
  <2>10. t[n] > 0 /\ t[n] < m => chain_score(Kept) > 0
    <3> SUFFICES ASSUME t[n] > 0, t[n] < m PROVE chain_score(Kept) > 0
      OBVIOUS
    <3>1. t[n] \in Nat /\ t[n] \in 0..(m - 1) /\ t[n] = 0 * m + t[n]
      BY <2>2, <2>4
    <3> HIDE DEF m
    <3>2. t[n] % m = t[n]
      BY <2>4, <3>1, RestIs
    <3>3. QED
      BY <2>2, <2>5, <3>2
  <2>11. (\E i \in 1..n : Kept[i] > 0) <=> \E i \in DOMAIN weights : weights[i] \in 1..(Half - 1)
    BY <1>1, <2>1, <2>3, KeptWeights
  <2>12. CASE t[n] = 0
    BY <2>6, <2>9, <2>11, <2>12 DEF ScorePositiveIffWeighed
  <2>13. CASE t[n] # 0
    <3>1. t[n] > 0
      BY <2>2, <2>13
    <3>2. chain_score(Kept) > 0 \/ (n >= 3 /\ t[n] % m = 0)
      BY <2>7, <2>8, <2>10, <3>1
    <3>3. QED
      BY <2>1, <2>2, <2>6, <2>11, <3>1, <3>2 DEF ScorePositiveIffWeighed
  <2>14. QED
    BY <2>12, <2>13
<1>2. QED
  BY <1>1, WeightsInvariant, PTL

-----------------------------------------------------------------------------
(***************************************************************************)
(* Releases.  They are published one after the other, so that of those     *)
(* that are listed the predecessor is the nearest.                         *)
(***************************************************************************)

ReleaseRecord == [at : Nat, art : Artifacts]

ReleasesInv ==
  /\ pkg.rel \in Seq(ReleaseRecord) /\ Len(pkg.rel) <= MaxReleases
  /\ pkg = [rel |-> pkg.rel, gone |-> pkg.gone]
  /\ \A v, w \in DOMAIN pkg.rel : v < w => time(v) < time(w)

(* A list of releases is made of releases.                                *)
LEMMA ReleaseAt ==
  ASSUME NEW s \in Seq(ReleaseRecord)
  PROVE  \A v \in DOMAIN s : s[v] \in ReleaseRecord /\ s[v].at \in Nat /\ s[v].art \in Artifacts
<1>1. ASSUME NEW T, NEW q \in Seq(T), NEW v \in DOMAIN q PROVE q[v] \in T
  BY <1>1
<1>2. \A v \in DOMAIN s : s[v] \in ReleaseRecord
  BY <1>1
<1>3. QED
  BY <1>2 DEF ReleaseRecord

(* Releases stay in the order of their times.                              *)
LEMMA ReleasesInvariant == ReleasesSpec => []ReleasesInv
<1>1. ReleasesInit => ReleasesInv
  BY GapsAssumption DEF ReleasesInit, ReleasesInv
<1>2. ReleasesInv /\ [ReleasesNext]_pkg => ReleasesInv'
  <2> SUFFICES ASSUME ReleasesInv, [ReleasesNext]_pkg PROVE ReleasesInv'
    OBVIOUS
  <2>1. PICK s \in Seq(ReleaseRecord) : s = pkg.rel /\ Len(s) <= MaxReleases
    BY DEF ReleasesInv
  <2>2. \A v \in DOMAIN s : time(v) = s[v].at /\ s[v].at \in Nat
    <3>1. \A v \in DOMAIN s : s[v].at \in Nat
      BY <2>1, ReleaseAt
    <3>2. QED
      BY <2>1, <3>1 DEF time
  <2>3. \A v, w \in DOMAIN s : v < w => s[v].at < s[w].at
    BY <2>1 DEF ReleasesInv, time
  <2>4. ASSUME NEW a \in Artifacts, NEW gap \in Gaps, Publish(a, gap)
        PROVE  ReleasesInv'
    <3> DEFINE last == IF s = <<>> THEN 0 ELSE s[Len(s)].at
               r == [at |-> last + gap, art |-> a]
    <3>1. s # <<>> => Len(s) \in DOMAIN s
      OBVIOUS
    <3>2. last \in Nat /\ gap \in Nat /\ gap > 0
      BY <2>2, <3>1, GapsAssumption
    <3>3. r \in ReleaseRecord /\ r.at = last + gap
      BY <3>2 DEF ReleaseRecord
    <3>4. \A v \in DOMAIN s : s[v].at <= last
      BY <2>2, <2>3, <3>1
    <3>5. Len(s) < MaxReleases /\ pkg' = [rel |-> Append(s, r), gone |-> pkg.gone]
      <4>1. /\ Len(pkg.rel) < MaxReleases
            /\ pkg' = [pkg EXCEPT !.rel = Append(@, [at |-> (IF pkg.rel = <<>> THEN 0 ELSE time(Len(pkg.rel))) + gap,
                                                     art |-> a])]
        BY <2>4 DEF Publish
      <4>2. (IF pkg.rel = <<>> THEN 0 ELSE time(Len(pkg.rel))) = last
        BY <2>1 DEF time
      <4>3. pkg = [rel |-> pkg.rel, gone |-> pkg.gone]
        BY DEF ReleasesInv
      <4>4. QED
        BY <2>1, <4>1, <4>2, <4>3
    <3> HIDE DEF r, last
    <3>6. Append(s, r) \in Seq(ReleaseRecord) /\ Len(Append(s, r)) <= MaxReleases
      BY <2>1, <3>3, <3>5, GapsAssumption
    <3>7. ASSUME NEW v \in DOMAIN Append(s, r), NEW w \in DOMAIN Append(s, r), v < w
          PROVE  Append(s, r)[v].at < Append(s, r)[w].at
      <4>1. v \in DOMAIN s /\ Append(s, r)[v] = s[v]
        BY <3>7
      <4>2. CASE w \in DOMAIN s
        BY <2>3, <3>7, <4>1, <4>2
      <4>3. CASE w \notin DOMAIN s
        <5>1. Append(s, r)[w] = r
          BY <3>7, <4>3
        <5>2. QED
          BY <2>2, <3>2, <3>3, <3>4, <4>1, <5>1
      <4>4. QED
        BY <4>2, <4>3
    <3>8. pkg'.rel = Append(s, r) /\ pkg'.gone = pkg.gone
      BY <3>5
    <3>9. QED
      BY <3>5, <3>6, <3>7, <3>8 DEF ReleasesInv, time
  <2>5. ASSUME NEW v \in DOMAIN pkg.rel, Unpublish(v)
        PROVE  ReleasesInv'
    <3>1. pkg' = [rel |-> pkg.rel, gone |-> pkg.gone \cup {v}]
      BY <2>5 DEF Unpublish, ReleasesInv
    <3>2. pkg'.rel = pkg.rel /\ pkg'.gone = pkg.gone \cup {v}
      BY <3>1
    <3>3. QED
      BY <3>1, <3>2 DEF ReleasesInv, time
  <2>6. CASE UNCHANGED pkg
    BY <2>6 DEF ReleasesInv, time
  <2>7. QED
    BY <2>4, <2>5, <2>6 DEF ReleasesNext
<1>3. QED
  BY <1>1, <1>2, PTL DEF ReleasesSpec

(* Versions are numbered in the order of their times.                      *)
LEMMA VersionsAreOrdered ==
  ASSUME ReleasesInv
  PROVE  /\ Len(pkg.rel) \in 0..MaxReleases /\ Versions \in SUBSET (1..Len(pkg.rel))
         /\ \A v \in Versions : time(v) \in Nat /\ pkg.rel[v].art \in Artifacts
         /\ \A v, w \in Versions : time(v) < time(w) <=> v < w
<1>1. PICK s \in Seq(ReleaseRecord) : s = pkg.rel /\ Len(s) <= MaxReleases
  BY DEF ReleasesInv
<1>2. Versions \in SUBSET (1..Len(s)) /\ DOMAIN s = 1..Len(s)
  BY <1>1 DEF Versions
<1>3. \A v \in 1..Len(s) : s[v].at \in Nat /\ s[v].art \in Artifacts
  BY <1>2, ReleaseAt
<1>4. \A v \in Versions : time(v) \in Nat /\ pkg.rel[v].art \in Artifacts
  BY <1>1, <1>2, <1>3 DEF time
<1>5. ASSUME NEW v \in Versions, NEW w \in Versions PROVE time(v) < time(w) <=> v < w
  <2>1. v \in DOMAIN pkg.rel /\ w \in DOMAIN pkg.rel /\ v \in Nat /\ w \in Nat
    BY <1>1, <1>2
  <2>2. (v < w => time(v) < time(w)) /\ (w < v => time(w) < time(v))
    BY <2>1 DEF ReleasesInv
  <2>3. QED
    BY <1>4, <2>1, <2>2
<1>6. QED
  BY <1>1, <1>2, <1>4, <1>5, GapsAssumption

(* The predecessor is the nearest earlier version that is listed.          *)
LEMMA PriorIsNearest ==
  ASSUME ReleasesInv, NEW v \in Versions
  PROVE  /\ prior_version(v) = 0 => \A w \in Versions : ~(w < v)
         /\ prior_version(v) # 0 => /\ prior_version(v) \in Versions /\ prior_version(v) < v
                                    /\ \A w \in Versions : w < v => w <= prior_version(v)
<1> DEFINE before == {w \in Versions : time(w) < time(v)}
<1>1. \A w \in Versions : w \in before <=> w < v
  BY VersionsAreOrdered
<1>2. prior_version(v) = IF before = {} THEN 0 ELSE Latest(before)
  BY DEF prior_version
<1>3. before \in SUBSET (0..Len(pkg.rel)) /\ Len(pkg.rel) \in Nat /\ \A w \in before : w # 0
  BY VersionsAreOrdered
<1>4. CASE before = {}
  BY <1>1, <1>2, <1>4
<1>5. CASE before # {}
  <2>1. PICK m \in before : \A i \in before : i <= m
    BY <1>3, <1>5, HasMaximum
  <2>2. \A w \in before : time(w) <= time(m)
    <3>1. ASSUME NEW w \in before PROVE time(w) <= time(m)
      <4>1. w \in Versions /\ m \in Versions /\ ~(m < w) /\ time(w) \in Nat /\ time(m) \in Nat
        BY <1>3, <2>1, VersionsAreOrdered
      <4>2. QED
        BY <4>1, VersionsAreOrdered
    <3>2. QED
      BY <3>1
  <2> DEFINE p == Latest(before)
  <2>3. p \in before /\ \A w \in before : time(w) <= time(p)
    BY <2>1, <2>2 DEF Latest
  <2> HIDE DEF p
  <2>4. p \in Versions /\ p < v /\ p # 0
    BY <1>1, <1>3, <2>3
  <2>5. ASSUME NEW w \in Versions, w < v PROVE w <= p
    <3>1. w \in before /\ ~(time(p) < time(w)) /\ w \in Nat /\ p \in Nat
      BY <1>1, <1>3, <2>3, <2>4, <2>5, VersionsAreOrdered
    <3>2. QED
      BY <2>4, <3>1, VersionsAreOrdered
  <2>6. QED
    BY <1>2, <1>5, <2>4, <2>5 DEF p
<1>6. QED
  BY <1>4, <1>5

(* A burst is counted within the bounds of the package.                    *)
LEMMA BurstIsBounded ==
  ASSUME ReleasesInv, NEW v \in Versions
  PROVE  republish_burst(v) \in 0..MaxReleases
<1> DEFINE B == {w \in Versions : time(w) < time(v) /\ time(v) - time(w) <= Hour}
<1>1. B \subseteq 1..Len(pkg.rel) /\ Len(pkg.rel) \in 0..MaxReleases
  BY VersionsAreOrdered
<1>2. IsFiniteSet(1..Len(pkg.rel)) /\ Cardinality(1..Len(pkg.rel)) = Len(pkg.rel)
  BY <1>1, FS_Interval
<1> HIDE DEF B
<1>3. IsFiniteSet(B) /\ Cardinality(B) <= Len(pkg.rel)
  BY <1>1, <1>2, FS_Subset
<1>4. Cardinality(B) \in Nat
  BY <1>3, FS_CardinalityType
<1>5. Cardinality(B) \in 0..MaxReleases
  BY <1>1, <1>3, <1>4, GapsAssumption
<1>6. QED
  BY <1>5 DEF republish_burst, B

(* A version that is listed is extracted, from its own artifact and that   *)
(* of its predecessor, which is then no absent one.                        *)
LEMMA ExtractionIs ==
  ASSUME ReleasesInv, NEW v \in Versions, NEW p, p = prior_version(v)
  PROVE  /\ p = 0 => extract_and_store(v) = extract_signals(build_artifact(v), NoScript)
         /\ p # 0 => /\ extract_and_store(v) = extract_signals(build_artifact(v), build_artifact(p))
                     /\ build_artifact(p) # NoScript
<1>1. p # 0 => p \in Versions
  BY PriorIsNearest
<1>2. p # 0 => build_artifact(p) # NoScript
  BY <1>1, BurstIsBounded, VersionsAreOrdered, PriorAssumption DEF build_artifact
<1>3. QED
  BY <1>1, <1>2 DEF extract_and_store

(* The first release on the way that has the new command is flagged.       *)
LEMMA ScriptsFlagged == ReleasesInv => ScriptChangesAreFlagged
<1> SUFFICES ASSUME ReleasesInv, NEW v \in Versions, NEW w \in Versions, NEW k \in Keys,
                    v < w, Cmd(w, k) # Cmd(v, k), Cmd(w, k) # NoScript
             PROVE  \E u \in Versions : v < u /\ u <= w /\ "new_lifecycle_script" \in extract_and_store(u)
  BY DEF ScriptChangesAreFlagged
<1> DEFINE D == {u \in Versions : v < u /\ u <= w /\ Cmd(u, k) = Cmd(w, k)}
<1>1. Versions \in SUBSET Nat
  BY VersionsAreOrdered
<1>2. w \in D /\ D \in SUBSET Nat
  <2>1. w \in Nat /\ w <= w
    BY <1>1
  <2>2. QED
    BY <1>1, <2>1
<1>3. PICK u \in D : \A x \in D : u <= x
  BY <1>2, HasMinimum
<1>4. u \in Versions /\ v < u /\ u <= w /\ Cmd(u, k) = Cmd(w, k)
  BY <1>2, <1>3
<1>5. PICK p : p = prior_version(u)
  OBVIOUS
<1>6. p \in Versions /\ p < u /\ v <= p /\ p # 0
  BY <1>4, <1>5, PriorIsNearest
<1>7. Cmd(p, k) # Cmd(u, k)
  <2>1. CASE p = v
    BY <1>4, <2>1
  <2>2. CASE p # v
    <3>1. v < p /\ p <= w /\ ~(u <= p)
      <4>1. u \in Nat /\ p \in Nat /\ v \in Nat /\ w \in Nat
        BY <1>1, <1>4, <1>6
      <4>2. QED
        BY <1>4, <1>6, <2>2, <4>1
    <3>2. p \notin D
      BY <1>3, <3>1
    <3>3. QED
      BY <1>4, <1>6, <3>1, <3>2
  <2>3. QED
    BY <2>1, <2>2
<1> DEFINE a == build_artifact(u)
           b == build_artifact(p)
<1>8. a.scripts = pkg.rel[u].art.scripts /\ b.scripts = pkg.rel[p].art.scripts
  BY DEF build_artifact, Built
<1>9. a.scripts[k] # NoScript /\ a.scripts[k].cmd = Cmd(u, k)
  BY <1>4, <1>8 DEF Cmd
<1>10. b.scripts[k] # NoScript => b.scripts[k].cmd = Cmd(p, k)
  BY <1>8 DEF Cmd
<1>11. extract_and_store(u) = extract_signals(a, b)
  BY <1>4, <1>5, <1>6, ExtractionIs
<1> HIDE DEF a, b
<1>12. lifecycle_script(a, b)
  BY <1>7, <1>9, <1>10 DEF lifecycle_script, LifecycleScripts, Changed
<1>13. "new_lifecycle_script" \in extract_signals(a, b)
  BY <1>12 DEF extract_signals, Singles
<1>14. QED
  BY <1>4, <1>11, <1>13

(* A newcomer is one to the predecessor, too.                              *)
LEMMA NewcomersFlagged == ReleasesInv => NewcomersAreFlagged
<1> SUFFICES ASSUME ReleasesInv, NEW w \in Versions, NEW v \in Versions, v < w,
                    pkg.rel[w].art.user # NoScript,
                    \A x \in Versions : x < w => /\ pkg.rel[w].art.user # pkg.rel[x].art.user
                                                 /\ pkg.rel[w].art.user \notin pkg.rel[x].art.maintainers
             PROVE  "maintainer_change" \in extract_and_store(w)
  BY DEF NewcomersAreFlagged
<1>1. PICK p : p = prior_version(w)
  OBVIOUS
<1>2. p # 0 /\ p \in Versions /\ p < w
  BY <1>1, PriorIsNearest
<1> DEFINE a == build_artifact(w)
           b == build_artifact(p)
<1>3. a.user = pkg.rel[w].art.user /\ b.user = pkg.rel[p].art.user
      /\ b.maintainers = pkg.rel[p].art.maintainers
  BY DEF build_artifact, Built
<1>4. extract_and_store(w) = extract_signals(a, b) /\ b # NoScript
  BY <1>1, <1>2, ExtractionIs
<1> HIDE DEF a, b
<1>5. Newcomer(a, b)
  BY <1>2, <1>3, <1>4 DEF Newcomer
<1>6. QED
  BY <1>4, <1>5 DEF extract_signals, Singles

(* Of a burst the last release counts every other one.                     *)
LEMMA BurstsFlagged == ReleasesInv => BurstsAreFlagged
<1> SUFFICES ASSUME ReleasesInv, NEW v \in Versions, NEW w \in Versions, time(w) - time(v) \in 0..Hour,
                    Cardinality({u \in Versions : v <= u /\ u <= w}) > BURST_THRESHOLD + 1
             PROVE  "republish" \in extract_and_store(w)
  BY DEF BurstsAreFlagged
<1> DEFINE R == {u \in Versions : v <= u /\ u <= w}
           B == {u \in Versions : time(u) < time(w) /\ time(w) - time(u) <= Hour}
<1>1. /\ Versions \in SUBSET (1..Len(pkg.rel)) /\ Len(pkg.rel) \in Nat
      /\ \A u \in Versions : u \in Nat /\ time(u) \in Nat
  BY VersionsAreOrdered
<1>2. R \subseteq B \cup {w}
  <2>1. ASSUME NEW u \in R, u # w PROVE u \in B
    <3>1. u \in Versions /\ u < w /\ ~(u < v)
      BY <1>1, <2>1
    <3>2. time(u) < time(w) /\ ~(time(u) < time(v))
      BY <3>1, VersionsAreOrdered
    <3>3. QED
      BY <1>1, <3>1, <3>2, GapsAssumption
  <2>2. QED
    BY <2>1
<1>3. IsFiniteSet(B)
  <2>1. IsFiniteSet(1..Len(pkg.rel)) /\ B \subseteq 1..Len(pkg.rel)
    <3>1. 1 \in Int /\ Len(pkg.rel) \in Int
      BY <1>1
    <3>2. IsFiniteSet(1..Len(pkg.rel))
      BY <3>1, FS_Interval
    <3>3. QED
      BY <1>1, <3>2
  <2>2. QED
    BY <2>1, FS_Subset
<1> HIDE DEF R, B
<1>4. IsFiniteSet(B \cup {w}) /\ Cardinality(B \cup {w}) <= Cardinality(B) + 1 /\ Cardinality(B) \in Nat
  <2>1. Cardinality(B) \in Nat
    BY <1>3, FS_CardinalityType
  <2>2. /\ IsFiniteSet(B \cup {w})
        /\ Cardinality(B \cup {w}) = IF w \in B THEN Cardinality(B) ELSE Cardinality(B) + 1
    BY <1>3, FS_AddElement, Zenon
  <2>3. QED
    BY <2>1, <2>2
<1>5. Cardinality(R) <= Cardinality(B \cup {w}) /\ IsFiniteSet(R)
  BY <1>2, <1>4, FS_Subset
<1>6. Cardinality(R) \in Nat /\ Cardinality(B \cup {w}) \in Nat /\ Cardinality(R) > BURST_THRESHOLD + 1
  BY <1>4, <1>5, FS_CardinalityType DEF R
<1>7. republish_burst(w) > BURST_THRESHOLD
  <2>1. republish_burst(w) = Cardinality(B)
    BY DEF republish_burst, B
  <2>2. QED
    BY <1>4, <1>5, <1>6, <2>1, ThresholdAssumption
<1>8. PICK b : extract_and_store(w) = extract_signals(build_artifact(w), b)
  BY ExtractionIs
<1>9. build_artifact(w).burst = republish_burst(w)
  BY DEF build_artifact, Built
<1>10. republish(build_artifact(w))
  BY <1>7, <1>9 DEF republish
<1>11. QED
  BY <1>8, <1>10 DEF extract_signals, Singles

(* For any releases, artifacts and hours, whatever is unpublished, a       *)
(* change of a lifecycle command, a first publication by a stranger and a  *)
(* burst are flagged, in the release or on the way to it (prior_version,   *)
(* republish_burst and the detectors).                                     *)
THEOREM NoveltiesFlagged == ReleasesSpec => []NoveltiesAreFlagged
<1>1. ReleasesInv => NoveltiesAreFlagged
  BY ScriptsFlagged, NewcomersFlagged, BurstsFlagged DEF NoveltiesAreFlagged
<1>2. QED
  BY <1>1, ReleasesInvariant, PTL

(* With any predecessor a release shows no more than without one, but for  *)
(* a change of hands, and its chains are made of what it shows.            *)
LEMMA PriorOnlyExcuses ==
  ASSUME NEW a, NEW b
  PROVE  /\ extract_signals(a, b) \subseteq extract_signals(a, NoScript) \cup {"maintainer_change"}
         /\ \A s \in extract_signals(a, b) : Parts(s) \subseteq extract_signals(a, b)
<1>1. lifecycle_script(a, b) => lifecycle_script(a, NoScript)
  BY DEF lifecycle_script, Changed
<1>2. binding_gyp(a, b) => binding_gyp(a, NoScript)
  BY DEF binding_gyp
<1>3. Singles(a, b) \subseteq Singles(a, NoScript) \cup {"maintainer_change"}
  BY <1>1, <1>2 DEF Singles
<1>4. Chains(a, Singles(a, b)) \subseteq Chains(a, Singles(a, NoScript))
  <2>1. \A d \in {"new_lifecycle_script", "capability_dep", "tarball_mismatch", "binding_gyp",
                  "obfuscation", "typosquat"} :
          d \in Singles(a, b) => d \in Singles(a, NoScript)
    BY <1>3
  <2>2. QED
    BY <2>1 DEF Chains
<1>5. ASSUME NEW s \in extract_signals(a, b) PROVE Parts(s) \subseteq extract_signals(a, b)
  <2>1. s \in Singles(a, b) => Parts(s) = {}
    BY DEF Singles, Parts
  <2>2. s \in Chains(a, Singles(a, b)) => Parts(s) \subseteq Singles(a, b)
    BY DEF Chains, Parts
  <2>3. QED
    BY <2>1, <2>2 DEF extract_signals
<1>6. QED
  BY <1>3, <1>4, <1>5 DEF extract_signals

(* Whatever was published and unpublished, a known past only excuses, and  *)
(* no chain is reported without its parts (extract_and_store, chains.rs).  *)
THEOREM PastExcuses == PastOnlyExcuses
<1> SUFFICES ASSUME NEW v \in Versions
             PROVE  /\ extract_and_store(v) \subseteq
                         extract_signals(build_artifact(v), NoScript) \cup {"maintainer_change"}
                    /\ \A s \in extract_and_store(v) : Parts(s) \subseteq extract_and_store(v)
  BY DEF PastOnlyExcuses
<1>1. CASE extract_and_store(v) = {}
  BY <1>1
<1>2. CASE \E b : extract_and_store(v) = extract_signals(build_artifact(v), b)
  BY <1>2, PriorOnlyExcuses
<1>3. QED
  BY <1>1, <1>2 DEF extract_and_store

-----------------------------------------------------------------------------
(***************************************************************************)
(* Look-alikes.                                                            *)
(***************************************************************************)
\* The tables osa_distance works on, for names of n and m characters.
Tables(n, m) == [0..n -> [0..m -> Nat]]

\* What an optimal cell costs without a transposition, along the diagonal.
Cost(a, b, i, j) == IF a[i] = b[j] THEN 0 ELSE 1

\* The neighbours' characters i and j are the same, the other way round.
Crossed(a, b, i, j) == i > 1 /\ j > 1 /\ a[i] = b[j - 1] /\ a[i - 1] = b[j]

\* A table that is filled: margins that count, and cells that are the least of
\* what their predecessors allow.
Filled(a, b, d) ==
  /\ d \in Tables(Len(a), Len(b))
  /\ \A i \in 0..Len(a) : d[i][0] = i
  /\ \A j \in 0..Len(b) : d[0][j] = j
  /\ \A i \in 1..Len(a), j \in 1..Len(b) : d[i][j] = Cell(a, b, d, i, j)

(* The least of some numbers is one of them and not above any.             *)
LEMMA LeastIs ==
  ASSUME NEW S \in SUBSET Nat, S # {}
  PROVE  Least(S) \in S /\ \A x \in S : Least(S) <= x
<1>1. \E m \in S : \A i \in S : m <= i
  BY HasMinimum
<1>2. QED
  BY <1>1 DEF Least

(* A cell is a number, at most what each predecessor allows, and exactly   *)
(* what one of them does.                                                  *)
LEMMA CellIs ==
  ASSUME NEW a, NEW b, NEW n \in Nat, NEW m \in Nat, NEW d \in Tables(n, m), NEW i \in 1..n, NEW j \in 1..m
  PROVE  /\ Cell(a, b, d, i, j) \in Nat
         /\ Cell(a, b, d, i, j) <= d[i - 1][j] + 1
         /\ Cell(a, b, d, i, j) <= d[i][j - 1] + 1
         /\ Cell(a, b, d, i, j) <= d[i - 1][j - 1] + Cost(a, b, i, j)
         /\ Crossed(a, b, i, j) => Cell(a, b, d, i, j) <= d[i - 2][j - 2] + 1
         /\ \/ Cell(a, b, d, i, j) = d[i - 1][j] + 1
            \/ Cell(a, b, d, i, j) = d[i][j - 1] + 1
            \/ Cell(a, b, d, i, j) = d[i - 1][j - 1] + Cost(a, b, i, j)
            \/ Crossed(a, b, i, j) /\ Cell(a, b, d, i, j) = d[i - 2][j - 2] + 1
<1> DEFINE A == {d[i - 1][j] + 1, d[i][j - 1] + 1, d[i - 1][j - 1] + Cost(a, b, i, j)}
           B == IF Crossed(a, b, i, j) THEN {d[i - 2][j - 2] + 1} ELSE {}
<1>1. i \in 0..n /\ i - 1 \in 0..n /\ j \in 0..m /\ j - 1 \in 0..m
  OBVIOUS
<1>2. d[i] \in [0..m -> Nat] /\ d[i - 1] \in [0..m -> Nat]
  BY <1>1 DEF Tables
<1>3. d[i - 1][j] \in Nat /\ d[i][j - 1] \in Nat /\ d[i - 1][j - 1] \in Nat /\ Cost(a, b, i, j) \in 0..1
  <2>1. d[i - 1][j] \in Nat /\ d[i][j - 1] \in Nat /\ d[i - 1][j - 1] \in Nat
    BY <1>1, <1>2
  <2>2. Cost(a, b, i, j) \in 0..1
    BY DEF Cost
  <2>3. QED
    BY <2>1, <2>2
<1>4. Crossed(a, b, i, j) => d[i - 2][j - 2] \in Nat
  <2>1. SUFFICES ASSUME i > 1, j > 1 PROVE d[i - 2][j - 2] \in Nat
    BY DEF Crossed
  <2>2. i - 2 \in 0..n /\ j - 2 \in 0..m
    BY <2>1
  <2>3. d[i - 2] \in [0..m -> Nat]
    BY <2>2 DEF Tables
  <2>4. QED
    BY <2>2, <2>3
<1>5. A \cup B \in SUBSET Nat /\ A \cup B # {}
  BY <1>3, <1>4
<1>6. Cell(a, b, d, i, j) = Least(A \cup B)
  BY DEF Cell, Cost, Crossed
<1>7. Least(A \cup B) \in A \cup B /\ \A x \in A \cup B : Least(A \cup B) <= x
  <2> HIDE DEF A, B
  <2>1. QED
    BY <1>5, LeastIs
<1>8. QED
  BY <1>5, <1>6, <1>7

(* A cell depends on the rows above and on the cell to its left.           *)
LEMMA CellDepends ==
  ASSUME NEW a, NEW b, NEW d, NEW e, NEW i, NEW j,
         e[i - 1] = d[i - 1], e[i - 2] = d[i - 2], e[i][j - 1] = d[i][j - 1]
  PROVE  Cell(a, b, e, i, j) = Cell(a, b, d, i, j)
BY DEF Cell

\* The table d with a value for one cell.
SetCell(d, i, j, v) == [d EXCEPT ![i] = [d[i] EXCEPT ![j] = v]]

(* Setting a cell changes that cell.                                       *)
LEMMA SetIs ==
  ASSUME NEW n \in Nat, NEW m \in Nat, NEW d \in Tables(n, m), NEW i \in 0..n, NEW j \in 0..m, NEW v \in Nat
  PROVE  /\ SetCell(d, i, j, v) \in Tables(n, m)
         /\ \A p \in 0..n : p # i => SetCell(d, i, j, v)[p] = d[p]
         /\ \A q \in 0..m : q # j => SetCell(d, i, j, v)[i][q] = d[i][q]
         /\ SetCell(d, i, j, v)[i][j] = v
BY DEF SetCell, Tables

\* The table e is d with the row i filled.
RowDone(a, b, n, m, d, i, e) ==
  /\ e \in Tables(n, m)
  /\ \A p \in 0..n : p # i => e[p] = d[p]
  /\ e[i][0] = d[i][0]
  /\ \A q \in 1..m : e[i][q] = Cell(a, b, e, i, q)

(* Filling a row leaves the others and the margin, and makes each of its   *)
(* cells what the cell before it and the rows above allow.                 *)
LEMMA RowIsFilled ==
  ASSUME NEW a, NEW b, NEW n \in Nat, NEW m \in Nat, n = Len(a), m = Len(b), NEW d \in Tables(n, m), NEW i \in 1..n
  PROVE  RowDone(a, b, n, m, d, i, FillRow(a, b, d, i))
<1> DEFINE S == Tables(n, m)
           Next1(j, e) == SetCell(e, i, j, Cell(a, b, e, i, j))
           step == [x \in (1..m) \X S |-> Next1(x[1], x[2])]
           Row(g) == [j \in 0..Len(b) |-> IF j = 0 THEN d ELSE
                        [g[j - 1] EXCEPT ![i] = [g[j - 1][i] EXCEPT ![j] = Cell(a, b, g[j - 1], i, j)]]]
<1>1. ASSUME NEW j \in 1..m, NEW e \in S
      PROVE  Next1(j, e) \in S
  BY CellIs, SetIs
<1>2. step \in [(1..m) \X S -> S]
  <2>1. ASSUME NEW x \in (1..m) \X S PROVE Next1(x[1], x[2]) \in S
    BY <1>1
  <2>2. QED
    BY <2>1
<1>3. PICK f : IsLoop(f, m, S, d, step)
  <2> HIDE DEF step, S
  <2>1. d \in S
    BY DEF S
  <2>2. QED
    BY <1>2, <2>1, LoopExists
<1>4. f \in [0..m -> S] /\ f[0] = d
  BY <1>3 DEF IsLoop
<1>5. ASSUME NEW j \in 1..m PROVE f[j] = Next1(j, f[j - 1]) /\ f[j - 1] \in S
  <2> HIDE DEF S, step
  <2>1. f[j] = step[<<j, f[j - 1]>>] /\ j - 1 \in 0..m
    <3>1. j - 1 \in 0..m
      OBVIOUS
    <3>2. QED
      BY <1>3, <3>1 DEF IsLoop
  <2>2. f[j - 1] \in S
    BY <1>4, <2>1
  <2>3. <<j, f[j - 1]>> \in (1..m) \X S
    BY <2>2
  <2>4. QED
    BY <2>1, <2>2, <2>3 DEF step
<1> HIDE DEF step
<1>6. FillRow(a, b, d, i) = f[m]
  <2>1. f = Row(f)
    <3>1. \A j \in 0..m : f[j] = Row(f)[j]
      BY <1>4, <1>5 DEF SetCell
    <3>2. QED
      BY <1>4, <3>1
  <2>2. ASSUME NEW g, g = Row(g) PROVE g[m] = f[m]
    <3> DEFINE T == {j \in 0..m : g[j] = f[j]}
    <3>1. 0 \in T
      BY <1>4, <2>2
    <3>2. ASSUME NEW j \in 0..m, j \in T, j < m PROVE j + 1 \in T
      <4>1. j + 1 \in 1..m /\ j + 1 # 0 /\ (j + 1) - 1 = j /\ j + 1 \in 0..m
        BY <3>2
      <4>2. g[j + 1] = Next1(j + 1, g[j])
        <5> DEFINE k == j + 1
        <5>1. k \in 0..Len(b) /\ k # 0 /\ k - 1 = j
          BY <4>1
        <5> HIDE DEF k
        <5>2. g[k] = [g[k - 1] EXCEPT ![i] = [g[k - 1][i] EXCEPT ![k] = Cell(a, b, g[k - 1], i, k)]]
          BY <2>2, <5>1
        <5>3. g[k] = Next1(k, g[j])
          BY <5>1, <5>2 DEF SetCell
        <5>4. QED
          BY <5>3 DEF k
      <4>3. f[j + 1] = Next1(j + 1, f[j])
        BY <1>5, <4>1
      <4>4. QED
        BY <3>2, <4>1, <4>2, <4>3
    <3>3. 0..m \subseteq T
      <4> HIDE DEF T
      <4>1. QED
        BY <3>1, <3>2, UpTo
    <3>4. QED
      BY <3>3
  <2>3. FillRow(a, b, d, i) = (CHOOSE g : g = Row(g))[m]
    BY DEF FillRow
  <2> HIDE DEF Row
  <2>4. QED
    BY <2>1, <2>2, <2>3
<1> DEFINE Done(e, j) == /\ e \in S
                         /\ \A p \in 0..n : p # i => e[p] = d[p]
                         /\ e[i][0] = d[i][0]
                         /\ \A q \in 1..j : e[i][q] = Cell(a, b, e, i, q)
           T == {j \in 0..m : Done(f[j], j)}
<1>7. 0 \in T
  BY <1>4
<1>8. ASSUME NEW j \in 0..m, j \in T, j < m PROVE j + 1 \in T
  <2> DEFINE e == f[j]
             k == j + 1
             v == Cell(a, b, e, i, k)
             w == SetCell(e, i, k, v)
  <2>1. k \in 1..m /\ k \in 0..m /\ i \in 0..n /\ i - 1 \in 0..n /\ (i > 1 => i - 2 \in 0..n)
    BY <1>8
  <2>2. Done(e, j)
    BY <1>8
  <2>3. v \in Nat
    BY <2>1, <2>2, CellIs
  <2>4. f[k] = w
    <3>1. k - 1 = j
      BY <2>1
    <3>2. QED
      BY <1>5, <2>1, <3>1
  <2> HIDE DEF e, v
  <2>5. /\ w \in S /\ \A p \in 0..n : p # i => w[p] = e[p]
        /\ \A q \in 0..m : q # k => w[i][q] = e[i][q]
        /\ w[i][k] = v
    <3>1. e \in Tables(n, m)
      BY <2>2
    <3> HIDE DEF k, w
    <3>2. /\ SetCell(e, i, k, v) \in Tables(n, m)
          /\ \A p \in 0..n : p # i => SetCell(e, i, k, v)[p] = e[p]
          /\ \A q \in 0..m : q # k => SetCell(e, i, k, v)[i][q] = e[i][q]
          /\ SetCell(e, i, k, v)[i][k] = v
        <4> HIDE DEF S, Next1, Row, Done, T
        <4>1. k \in 0..m /\ i \in 0..n /\ v \in Nat /\ e \in Tables(n, m)
          BY <2>1, <2>3, <3>1
        <4>2. QED
          BY <4>1, SMTT(60) DEF SetCell, Tables
    <3>3. QED
      BY <3>2 DEF w
  <2> HIDE DEF w
  <2>6. \A p \in 0..n : p # i => w[p] = d[p]
    BY <2>2, <2>5
  <2>7. w[i][0] = d[i][0]
    <3>1. 0 \in 0..m /\ 0 # k
      BY <2>1
    <3>2. QED
      BY <2>2, <2>5, <3>1
  <2>8. ASSUME NEW q \in 1..k PROVE w[i][q] = Cell(a, b, w, i, q) /\ TRUE
    <3>1. q - 1 \in 0..m /\ q - 1 # k /\ q \in 0..m /\ i - 1 # i /\ i - 2 # i
      BY <2>1
    <3>2. w[i - 1] = e[i - 1] /\ w[i][q - 1] = e[i][q - 1]
      BY <2>1, <2>5, <3>1
    <3>3. Cell(a, b, w, i, q) = Cell(a, b, e, i, q)
      <4>1. CASE i > 1
        <5>1. w[i - 2] = e[i - 2]
          BY <2>1, <2>5, <3>1, <4>1
        <5>2. QED
          BY <3>2, <5>1, CellDepends
      <4>2. CASE ~(i > 1)
        BY <3>2, <4>2 DEF Cell
      <4>3. QED
        BY <4>1, <4>2
    <3>4. CASE q = k
      BY <2>5, <3>3, <3>4 DEF v
    <3>5. CASE q # k
      <4>1. q \in 1..j
        BY <2>1, <3>5
      <4>2. w[i][q] = e[i][q]
        BY <2>5, <3>1, <3>5
      <4>3. QED
        BY <2>2, <3>3, <4>1, <4>2
    <3>6. QED
      BY <3>4, <3>5
  <2>9. Done(w, k)
    BY <2>5, <2>6, <2>7, <2>8
  <2>10. QED
    BY <2>1, <2>4, <2>9
<1>9. m \in T
  <2>1. 0..m \subseteq T
    <3> HIDE DEF T
    <3>1. QED
      BY <1>7, <1>8, UpTo
  <2>2. QED
    BY <2>1
<1>10. QED
  BY <1>6, <1>9 DEF RowDone

(* What osa_distance returns is the last cell of a filled table; when a    *)
(* name is empty its early returns are what the table would say.           *)
LEMMA DistanceIsCell ==
  ASSUME NEW T, NEW a \in Seq(T), NEW b \in Seq(T)
  PROVE  \E d : Filled(a, b, d) /\ osa_distance(a, b) = d[Len(a)][Len(b)]
<1> DEFINE n == Len(a)
           m == Len(b)
           S == Tables(n, m)
           start == Margins(n, m)
           step == [x \in (1..n) \X S |-> FillRow(a, b, x[2], x[1])]
           Table(g) == [i \in 0..Len(a) |->
                          IF i = 0 THEN Margins(Len(a), Len(b)) ELSE FillRow(a, b, g[i - 1], i)]
<1>0. n \in Nat /\ m \in Nat /\ n = Len(a) /\ m = Len(b)
  OBVIOUS
<1> HIDE DEF n, m
<1>1. /\ start \in S /\ \A i \in 0..n : start[i][0] = i
      /\ \A j \in 0..m : start[0][j] = j
  BY <1>0 DEF Margins, Tables
<1>2. step \in [(1..n) \X S -> S]
  <2>1. ASSUME NEW x \in (1..n) \X S PROVE FillRow(a, b, x[2], x[1]) \in S
    BY <1>0, RowIsFilled DEF RowDone
  <2>2. QED
    BY <2>1
<1>3. PICK f : IsLoop(f, n, S, start, step)
  <2> HIDE DEF start, step, S
  <2>1. QED
    BY <1>0, <1>1, <1>2, LoopExists
<1>4. f \in [0..n -> S] /\ f[0] = start
  BY <1>3 DEF IsLoop
<1>5. ASSUME NEW i \in 1..n PROVE f[i] = FillRow(a, b, f[i - 1], i) /\ f[i - 1] \in S
  <2> HIDE DEF S, step, start
  <2>1. f[i] = step[<<i, f[i - 1]>>] /\ i - 1 \in 0..n
    <3>1. i - 1 \in 0..n
      BY <1>0
    <3>2. QED
      BY <1>3, <3>1 DEF IsLoop
  <2>2. f[i - 1] \in S
    BY <1>4, <2>1
  <2>3. <<i, f[i - 1]>> \in (1..n) \X S
    BY <2>2
  <2>4. QED
    BY <2>1, <2>2, <2>3 DEF step
<1> HIDE DEF step
<1>6. ASSUME a # <<>>, b # <<>> PROVE osa_distance(a, b) = f[n][n][m]
  <2>1. f = Table(f)
    <3>1. \A i \in 0..n : f[i] = Table(f)[i]
      <4> TAKE i \in 0..n
      <4>1. CASE i = 0
        BY <1>0, <1>4, <4>1
      <4>2. CASE i # 0
        <5>1. i \in 1..n
          BY <4>2
        <5>2. QED
          BY <1>0, <1>5, <4>2, <5>1
      <4>3. QED
        BY <4>1, <4>2
    <3>2. QED
      BY <1>0, <1>4, <3>1
  <2>2. ASSUME NEW g, g = Table(g) PROVE g[n] = f[n]
    <3> DEFINE U == {i \in 0..n : g[i] = f[i]}
    <3>1. 0 \in U
      BY <1>0, <1>4, <2>2
    <3>2. ASSUME NEW i \in 0..n, i \in U, i < n PROVE i + 1 \in U
      <4> DEFINE k == i + 1
      <4>1. k \in 1..n /\ k # 0 /\ k - 1 = i /\ k \in 0..n
        BY <1>0, <3>2
      <4> HIDE DEF k
      <4>2. g[k] = FillRow(a, b, g[k - 1], k)
        BY <1>0, <2>2, <4>1
      <4>3. f[k] = FillRow(a, b, f[k - 1], k)
        BY <1>5, <4>1
      <4>4. k \in U
        BY <3>2, <4>1, <4>2, <4>3
      <4>5. QED
        BY <4>4 DEF k
    <3>3. 0..n \subseteq U
      <4> HIDE DEF U
      <4>1. QED
        BY <1>0, <3>1, <3>2, UpTo
    <3>4. QED
      BY <1>0, <3>3
  <2>3. osa_distance(a, b) = (CHOOSE g : g = Table(g))[n][n][m]
    BY <1>0, <1>6 DEF osa_distance
  <2> HIDE DEF Table
  <2>4. QED
    BY <2>1, <2>2, <2>3
<1> DEFINE Done(d, k) == /\ d \in S
                         /\ \A i \in 0..n : d[i][0] = i
                         /\ \A j \in 0..m : d[0][j] = j
                         /\ \A i \in 1..k, j \in 1..m : d[i][j] = Cell(a, b, d, i, j)
           U == {k \in 0..n : Done(f[k], k)}
<1>7. 0 \in U
  BY <1>0, <1>1, <1>4
<1>8. ASSUME NEW i \in 0..n, i \in U, i < n PROVE i + 1 \in U
  <2> DEFINE d == f[i]
             k == i + 1
             e == f[k]
  <2>1. k \in 1..n /\ k \in 0..n /\ k - 1 = i /\ 0 # k /\ 0 \in 0..n
    BY <1>0, <1>8
  <2>2. Done(d, i)
    BY <1>8
  <2>3. e = FillRow(a, b, d, k)
    BY <1>5, <2>1
  <2>4. /\ e \in S
        /\ \A p \in 0..n : p # k => e[p] = d[p]
        /\ e[k][0] = d[k][0]
        /\ \A q \in 1..m : e[k][q] = Cell(a, b, e, k, q)
    <3> HIDE DEF d, e, k
    <3>1. d \in Tables(n, m)
      BY <2>2
    <3> HIDE DEF S, start, Table, Done, U
    <3>2. RowDone(a, b, n, m, d, k, e)
      BY <1>0, <2>1, <2>3, <3>1, RowIsFilled
    <3>3. QED
      BY <3>2 DEF RowDone, S
  <2> HIDE DEF d, e
  <2>5. \A p \in 0..n : e[p][0] = p
    BY <2>1, <2>2, <2>4
  <2>6. \A j \in 0..m : e[0][j] = j
    BY <2>1, <2>2, <2>4
  <2>7. ASSUME NEW p \in 1..k, NEW q \in 1..m PROVE e[p][q] = Cell(a, b, e, p, q) /\ TRUE
    <3>1. CASE p = k
      BY <2>4, <3>1
    <3>2. CASE p # k
      <4>1. p \in 1..i /\ p \in 0..n /\ p - 1 \in 0..n /\ p - 1 # k /\ (p > 1 => p - 2 \in 0..n /\ p - 2 # k)
        BY <1>0, <2>1, <3>2
      <4>2. e[p] = d[p] /\ e[p - 1] = d[p - 1]
        BY <2>4, <3>2, <4>1
      <4>3. Cell(a, b, e, p, q) = Cell(a, b, d, p, q)
        <5>1. CASE p > 1
          <6>1. e[p - 2] = d[p - 2]
            BY <2>4, <4>1, <5>1
          <6>2. QED
            BY <4>2, <6>1, CellDepends
        <5>2. CASE ~(p > 1)
          BY <4>2, <5>2 DEF Cell
        <5>3. QED
          BY <5>1, <5>2
      <4>4. d[p][q] = Cell(a, b, d, p, q)
        BY <2>2, <4>1
      <4>5. QED
        BY <4>2, <4>3, <4>4
    <3>3. QED
      BY <3>1, <3>2
  <2>8. Done(e, k)
    BY <2>4, <2>5, <2>6, <2>7
  <2>9. QED
    BY <2>1, <2>8 DEF e
<1>9. Done(f[n], n)
  <2>1. 0..n \subseteq U
    <3> HIDE DEF U
    <3>1. QED
      BY <1>0, <1>7, <1>8, UpTo
  <2>2. n \in 0..n
    BY <1>0
  <2>3. QED
    BY <2>1, <2>2
<1>10. Filled(a, b, f[n])
  BY <1>0, <1>9 DEF Filled
<1>11. osa_distance(a, b) = f[n][n][m]
  <2>1. n \in 0..n /\ m \in 0..m /\ 0 \in 0..n
    BY <1>0
  <2>2. CASE a = <<>>
    <3>1. n = 0 /\ f[n][0][m] = m
      BY <1>0, <1>9, <2>1, <2>2
    <3>2. QED
      BY <1>0, <2>2, <3>1 DEF osa_distance
  <2>3. CASE a # <<>> /\ b = <<>>
    <3>1. m = 0 /\ f[n][n][0] = n
      BY <1>0, <1>9, <2>1, <2>3
    <3>2. QED
      BY <1>0, <2>3, <3>1 DEF osa_distance
  <2>4. QED
    BY <1>6, <2>2, <2>3
<1>12. QED
  BY <1>0, <1>10, <1>11

\* The cell of a table.
At(d, i, j) == d[i][j]

(* What a filled table says of a cell, in one place.                       *)
LEMMA FilledCell ==
  ASSUME NEW a, NEW b, NEW d, Filled(a, b, d), NEW n \in Nat, n = Len(a), NEW m \in Nat, m = Len(b)
  PROVE  /\ \A i \in 0..n, j \in 0..m : At(d, i, j) \in Nat
         /\ \A i \in 0..n : At(d, i, 0) = i
         /\ \A j \in 0..m : At(d, 0, j) = j
         /\ \A i \in 1..n, j \in 1..m :
              /\ At(d, i, j) <= At(d, i - 1, j) + 1
              /\ At(d, i, j) <= At(d, i, j - 1) + 1
              /\ At(d, i, j) <= At(d, i - 1, j - 1) + Cost(a, b, i, j)
              /\ Crossed(a, b, i, j) => At(d, i, j) <= At(d, i - 2, j - 2) + 1
              /\ \/ At(d, i, j) = At(d, i - 1, j) + 1
                 \/ At(d, i, j) = At(d, i, j - 1) + 1
                 \/ At(d, i, j) = At(d, i - 1, j - 1) + Cost(a, b, i, j)
                 \/ Crossed(a, b, i, j) /\ At(d, i, j) = At(d, i - 2, j - 2) + 1
<1>1. d \in Tables(n, m)
  BY DEF Filled, At
<1>2. \A i \in 0..n, j \in 0..m : At(d, i, j) \in Nat
  BY <1>1 DEF Tables, At
<1>3. \A i \in 1..n, j \in 1..m : At(d, i, j) = Cell(a, b, d, i, j)
  BY DEF Filled, At
<1>4. (\A i \in 0..n : At(d, i, 0) = i) /\ (\A j \in 0..m : At(d, 0, j) = j)
  BY DEF Filled, At
<1>5. QED
  BY <1>1, <1>2, <1>3, <1>4, CellIs DEF At

(* What holds in the margins of a table, and of a cell when it holds of    *)
(* all cells above and to the left, holds everywhere.                      *)
LEMMA TableInduction ==
  ASSUME NEW n \in Nat, NEW m \in Nat, NEW P,
         \A i \in 0..n : <<i, 0>> \in P,
         \A j \in 0..m : <<0, j>> \in P,
         \A i \in 1..n, j \in 1..m :
           (\A p \in 0..i, q \in 0..j : p + q < i + j => <<p, q>> \in P) => <<i, j>> \in P
  PROVE  \A i \in 0..n, j \in 0..m : <<i, j>> \in P
<1> DEFINE Bad == {k \in Nat : \E i \in 0..n, j \in 0..m : k = i + j /\ <<i, j>> \notin P}
<1>1. SUFFICES ASSUME Bad # {} PROVE FALSE
  <2>1. ASSUME NEW i \in 0..n, NEW j \in 0..m, <<i, j>> \notin P PROVE i + j \in Bad
    BY <2>1
  <2>2. QED
    BY <2>1
<1>2. PICK k \in Bad : \A l \in Bad : k <= l
  BY <1>1, HasMinimum
<1>3. PICK i \in 0..n, j \in 0..m : k = i + j /\ <<i, j>> \notin P
  OBVIOUS
<1>4. i \in 1..n /\ j \in 1..m
  BY <1>3
<1>5. ASSUME NEW p \in 0..i, NEW q \in 0..j, p + q < i + j PROVE <<p, q>> \in P
  <2>1. SUFFICES ASSUME <<p, q>> \notin P PROVE FALSE
    OBVIOUS
  <2>2. p \in 0..n /\ q \in 0..m /\ p + q \in Nat
    BY <1>4
  <2>3. p + q \in Bad
    BY <2>1, <2>2
  <2>4. k <= p + q
    BY <1>2, <2>3
  <2>5. QED
    BY <1>3, <1>5, <2>4
<1>6. QED
  BY <1>3, <1>4, <1>5

(* The distance is at least the difference in length.                      *)
LEMMA DistanceOfLengths ==
  ASSUME NEW a, NEW b, NEW d, Filled(a, b, d), NEW n \in Nat, n = Len(a), NEW m \in Nat, m = Len(b)
  PROVE  \A i \in 0..n, j \in 0..m : At(d, i, j) >= i - j /\ At(d, i, j) >= j - i
<1> DEFINE P == {x \in (0..n) \X (0..m) : At(d, x[1], x[2]) >= x[1] - x[2] /\ At(d, x[1], x[2]) >= x[2] - x[1]}
<1>1. \A i \in 0..n : <<i, 0>> \in P
  BY FilledCell
<1>2. \A j \in 0..m : <<0, j>> \in P
  BY FilledCell
<1>3. ASSUME NEW i \in 1..n, NEW j \in 1..m,
             \A p \in 0..i, q \in 0..j : p + q < i + j => <<p, q>> \in P
      PROVE  <<i, j>> \in P
  <2>1. <<i - 1, j>> \in P /\ <<i, j - 1>> \in P /\ <<i - 1, j - 1>> \in P
    <3> HIDE DEF P
    <3>1. QED
      BY <1>3
  <2>2. ASSUME i > 1, j > 1 PROVE <<i - 2, j - 2>> \in P
    <3>1. i - 2 \in 0..i /\ j - 2 \in 0..j /\ (i - 2) + (j - 2) < i + j
      BY <2>2
    <3> HIDE DEF P
    <3>2. QED
      BY <1>3, <3>1
  <2>3. /\ At(d, i, j) \in Nat /\ i \in 0..n /\ j \in 0..m
        /\ \/ At(d, i, j) = At(d, i - 1, j) + 1
           \/ At(d, i, j) = At(d, i, j - 1) + 1
           \/ At(d, i, j) = At(d, i - 1, j - 1) + Cost(a, b, i, j)
           \/ Crossed(a, b, i, j) /\ At(d, i, j) = At(d, i - 2, j - 2) + 1
    BY FilledCell
  <2>4. At(d, i - 1, j) >= i - 1 - j /\ At(d, i - 1, j) >= j - (i - 1) /\ At(d, i - 1, j) \in Nat
    BY <2>1, FilledCell
  <2>5. At(d, i, j - 1) >= i - (j - 1) /\ At(d, i, j - 1) >= j - 1 - i /\ At(d, i, j - 1) \in Nat
    BY <2>1, FilledCell
  <2>6. At(d, i - 1, j - 1) >= i - j /\ At(d, i - 1, j - 1) >= j - i /\ At(d, i - 1, j - 1) \in Nat
    <3>1. At(d, i - 1, j - 1) >= (i - 1) - (j - 1) /\ At(d, i - 1, j - 1) >= (j - 1) - (i - 1)
      BY <2>1
    <3>2. i - 1 \in 0..n /\ j - 1 \in 0..m
      OBVIOUS
    <3>3. At(d, i - 1, j - 1) \in Nat
      BY <3>2, FilledCell
    <3>4. (i - 1) - (j - 1) = i - j /\ (j - 1) - (i - 1) = j - i
      OBVIOUS
    <3>5. QED
      BY <3>1, <3>3, <3>4
  <2>7. Cost(a, b, i, j) \in 0..1
    BY DEF Cost
  <2>8. Crossed(a, b, i, j) =>
          At(d, i - 2, j - 2) >= i - j /\ At(d, i - 2, j - 2) >= j - i /\ At(d, i - 2, j - 2) \in Nat
    <3>1. SUFFICES ASSUME i > 1, j > 1
                   PROVE  At(d, i - 2, j - 2) >= i - j /\ At(d, i - 2, j - 2) >= j - i /\ At(d, i - 2, j - 2) \in Nat
      BY DEF Crossed
    <3>2. At(d, i - 2, j - 2) >= (i - 2) - (j - 2) /\ At(d, i - 2, j - 2) >= (j - 2) - (i - 2)
      BY <2>2, <3>1
    <3>3. i - 2 \in 0..n /\ j - 2 \in 0..m
      BY <3>1
    <3>4. At(d, i - 2, j - 2) \in Nat
      BY <3>3, FilledCell
    <3>5. (i - 2) - (j - 2) = i - j /\ (j - 2) - (i - 2) = j - i
      OBVIOUS
    <3>6. QED
      BY <3>2, <3>4, <3>5
  <2>9. At(d, i, j) >= i - j /\ At(d, i, j) >= j - i
    <3> HIDE DEF P
    <3>1. CASE At(d, i, j) = At(d, i - 1, j) + 1
      BY <2>4, <3>1
    <3>2. CASE At(d, i, j) = At(d, i, j - 1) + 1
      BY <2>5, <3>2
    <3>3. CASE At(d, i, j) = At(d, i - 1, j - 1) + Cost(a, b, i, j)
      BY <2>6, <2>7, <3>3
    <3>4. CASE Crossed(a, b, i, j) /\ At(d, i, j) = At(d, i - 2, j - 2) + 1
      BY <2>8, <3>4
    <3>5. QED
      BY <2>3, <3>1, <3>2, <3>3, <3>4
  <2>10. QED
    BY <2>3, <2>9
<1>4. \A i \in 0..n, j \in 0..m : <<i, j>> \in P
  <2> HIDE DEF P
  <2>1. QED
    BY <1>1, <1>2, <1>3, TableInduction
<1>5. QED
  BY <1>4

(* The table for two names the other way round is the same, turned.        *)
LEMMA TablesTurn ==
  ASSUME NEW a, NEW b, NEW d, Filled(a, b, d), NEW e, Filled(b, a, e),
         NEW n \in Nat, n = Len(a), NEW m \in Nat, m = Len(b)
  PROVE  \A i \in 0..n, j \in 0..m : At(d, i, j) = At(e, j, i)
<1> DEFINE P == {x \in (0..n) \X (0..m) : At(d, x[1], x[2]) = At(e, x[2], x[1])}
<1>1. \A i \in 0..n : <<i, 0>> \in P
  BY FilledCell
<1>2. \A j \in 0..m : <<0, j>> \in P
  BY FilledCell
<1>3. ASSUME NEW i \in 1..n, NEW j \in 1..m,
             \A p \in 0..i, q \in 0..j : p + q < i + j => <<p, q>> \in P
      PROVE  <<i, j>> \in P
  <2>1. At(d, i - 1, j) = At(e, j, i - 1) /\ At(d, i, j - 1) = At(e, j - 1, i) /\ At(d, i - 1, j - 1) = At(e, j - 1, i - 1)
    <3>1. <<i - 1, j>> \in P /\ <<i, j - 1>> \in P /\ <<i - 1, j - 1>> \in P
      BY <1>3
    <3>2. QED
      BY <3>1
  <2>2. Crossed(a, b, i, j) => At(d, i - 2, j - 2) = At(e, j - 2, i - 2)
    <3>1. Crossed(a, b, i, j) => <<i - 2, j - 2>> \in P
      BY <1>3 DEF Crossed
    <3>2. QED
      BY <3>1
  <2>3. Cost(a, b, i, j) = Cost(b, a, j, i) /\ (Crossed(a, b, i, j) <=> Crossed(b, a, j, i))
    BY DEF Cost, Crossed
  <2>4. /\ At(d, i, j) <= At(d, i - 1, j) + 1
        /\ At(d, i, j) <= At(d, i, j - 1) + 1
        /\ At(d, i, j) <= At(d, i - 1, j - 1) + Cost(a, b, i, j)
        /\ Crossed(a, b, i, j) => At(d, i, j) <= At(d, i - 2, j - 2) + 1
        /\ \/ At(d, i, j) = At(d, i - 1, j) + 1
           \/ At(d, i, j) = At(d, i, j - 1) + 1
           \/ At(d, i, j) = At(d, i - 1, j - 1) + Cost(a, b, i, j)
           \/ Crossed(a, b, i, j) /\ At(d, i, j) = At(d, i - 2, j - 2) + 1
    BY FilledCell
  <2>5. /\ At(e, j, i) <= At(e, j - 1, i) + 1
        /\ At(e, j, i) <= At(e, j, i - 1) + 1
        /\ At(e, j, i) <= At(e, j - 1, i - 1) + Cost(b, a, j, i)
        /\ Crossed(b, a, j, i) => At(e, j, i) <= At(e, j - 2, i - 2) + 1
        /\ \/ At(e, j, i) = At(e, j - 1, i) + 1
           \/ At(e, j, i) = At(e, j, i - 1) + 1
           \/ At(e, j, i) = At(e, j - 1, i - 1) + Cost(b, a, j, i)
           \/ Crossed(b, a, j, i) /\ At(e, j, i) = At(e, j - 2, i - 2) + 1
    BY FilledCell
  <2>6. At(d, i, j) \in Nat /\ At(e, j, i) \in Nat /\ i \in 0..n /\ j \in 0..m
    BY FilledCell
  <2>7. At(d, i, j) = At(e, j, i)
    BY <2>1, <2>2, <2>3, <2>4, <2>5, <2>6
  <2>8. QED
    BY <2>6, <2>7
<1>4. \A i \in 0..n, j \in 0..m : <<i, j>> \in P
  <2> HIDE DEF P
  <2>1. QED
    BY <1>1, <1>2, <1>3, TableInduction
<1>5. QED
  BY <1>4

(* Where the table says zero, the characters so far are the same.          *)
LEMMA ZeroIsSame ==
  ASSUME NEW a, NEW b, NEW d, Filled(a, b, d), NEW n \in Nat, n = Len(a), NEW m \in Nat, m = Len(b)
  PROVE  \A i \in 0..n, j \in 0..m : At(d, i, j) = 0 => i = j /\ \A k \in 1..i : a[k] = b[k]
<1> DEFINE P == {x \in (0..n) \X (0..m) : At(d, x[1], x[2]) = 0 => x[1] = x[2] /\ \A k \in 1..x[1] : a[k] = b[k]}
<1>1. \A i \in 0..n : <<i, 0>> \in P
  BY FilledCell
<1>2. \A j \in 0..m : <<0, j>> \in P
  BY FilledCell
<1>3. ASSUME NEW i \in 1..n, NEW j \in 1..m,
             \A p \in 0..i, q \in 0..j : p + q < i + j => <<p, q>> \in P
      PROVE  <<i, j>> \in P
  <2>1. SUFFICES ASSUME At(d, i, j) = 0 PROVE i = j /\ \A k \in 1..i : a[k] = b[k]
    OBVIOUS
  <2>2. /\ \/ At(d, i, j) = At(d, i - 1, j) + 1
           \/ At(d, i, j) = At(d, i, j - 1) + 1
           \/ At(d, i, j) = At(d, i - 1, j - 1) + Cost(a, b, i, j)
           \/ Crossed(a, b, i, j) /\ At(d, i, j) = At(d, i - 2, j - 2) + 1
    BY FilledCell
  <2>3. At(d, i - 1, j) \in Nat /\ At(d, i, j - 1) \in Nat /\ At(d, i - 1, j - 1) \in Nat
    BY FilledCell
  <2>4. Crossed(a, b, i, j) => At(d, i - 2, j - 2) \in Nat
    <3>1. SUFFICES ASSUME i > 1, j > 1 PROVE At(d, i - 2, j - 2) \in Nat
      BY DEF Crossed
    <3>2. i - 2 \in 0..n /\ j - 2 \in 0..m
      BY <3>1
    <3> HIDE DEF P
    <3>3. QED
      BY <3>2, FilledCell
  <2>5. At(d, i - 1, j - 1) = 0 /\ a[i] = b[j]
    <3>1. Cost(a, b, i, j) \in 0..1 /\ (Cost(a, b, i, j) = 0 => a[i] = b[j])
      BY DEF Cost
    <3> HIDE DEF P
    <3>2. At(d, i, j) # At(d, i - 1, j) + 1 /\ At(d, i, j) # At(d, i, j - 1) + 1
      BY <2>1, <2>3
    <3>3. ~(Crossed(a, b, i, j) /\ At(d, i, j) = At(d, i - 2, j - 2) + 1)
      BY <2>1, <2>4
    <3>4. At(d, i - 1, j - 1) + Cost(a, b, i, j) = 0
      BY <2>1, <2>2, <3>2, <3>3
    <3>5. QED
      BY <2>3, <3>1, <3>4
  <2>6. <<i - 1, j - 1>> \in P
    BY <1>3
  <2>7. i - 1 = j - 1 /\ \A k \in 1..(i - 1) : a[k] = b[k]
    BY <2>5, <2>6
  <2>8. QED
    BY <2>5, <2>7
<1>4. \A i \in 0..n, j \in 0..m : <<i, j>> \in P
  <2> HIDE DEF P
  <2>1. QED
    BY <1>1, <1>2, <1>3, TableInduction
<1>5. ASSUME NEW i \in 0..n, NEW j \in 0..m, At(d, i, j) = 0
      PROVE  i = j /\ \A k \in 1..i : a[k] = b[k]
  <2>1. <<i, j>> \in P
    BY <1>4, Zenon
  <2>2. QED
    BY <1>5, <2>1
<1>6. QED
  BY <1>5

(* Along equal characters the diagonal does not grow.                      *)
LEMMA DiagonalStays ==
  ASSUME NEW a, NEW b, NEW d, Filled(a, b, d), NEW n \in Nat, n = Len(a), n = Len(b),
         NEW to \in 0..n, NEW from \in 0..to, NEW c \in Nat, At(d, from, from) <= c,
         \A k \in (from + 1)..to : a[k] = b[k]
  PROVE  At(d, to, to) <= c
<1> DEFINE T == {k \in 0..to : k >= from => At(d, k, k) <= c}
<1>0. \A i \in 0..n, j \in 0..n : At(d, i, j) \in Nat
  <2>1. d \in Tables(n, n)
    BY DEF Filled, At
  <2>2. QED
    BY <2>1 DEF Tables, At
<1>1. 0 \in T
  OBVIOUS
<1>2. ASSUME NEW k \in 0..to, k \in T, k < to PROVE k + 1 \in T
  <2>1. CASE k + 1 <= from
    BY <1>2, <2>1
  <2>2. CASE k >= from
    <3> DEFINE l == k + 1
    <3>1. l \in 1..n /\ l - 1 = k /\ l \in (from + 1)..to
      BY <1>2, <2>2
    <3> HIDE DEF l
    <3>2. At(d, l, l) <= At(d, k, k) + Cost(a, b, l, l) /\ At(d, l, l) \in Nat /\ At(d, k, k) \in Nat
      <4>1. l \in 0..n /\ k \in 0..n /\ l \in 1..n
        BY <3>1
      <4>2. At(d, l, l) \in Nat /\ At(d, k, k) \in Nat
        BY <1>0, <4>1
      <4>3. At(d, l, l) <= At(d, l - 1, l - 1) + Cost(a, b, l, l)
        BY <4>1, FilledCell
      <4>4. QED
        BY <3>1, <4>2, <4>3
    <3>3. Cost(a, b, l, l) = 0
      BY <3>1 DEF Cost
    <3>4. l \in T
      BY <1>2, <2>2, <3>1, <3>2, <3>3
    <3>5. QED
      BY <3>4 DEF l
  <2>3. QED
    BY <2>1, <2>2
<1>3. 0..to \subseteq T
  <2>1. to \in Nat
    OBVIOUS
  <2> HIDE DEF T
  <2>2. QED
    BY <1>1, <1>2, <2>1, UpTo
<1>4. QED
  BY <1>3

(* A name with a character put in: those behind it move up by one.         *)
LEMMA PutIs ==
  ASSUME NEW T, NEW s \in Seq(T), NEW i \in 1..(Len(s) + 1), NEW c \in T
  PROVE  /\ Put(s, i, c) \in Seq(T) /\ Len(Put(s, i, c)) = Len(s) + 1
         /\ \A k \in 1..(i - 1) : Put(s, i, c)[k] = s[k]
         /\ Put(s, i, c)[i] = c
         /\ \A k \in i..Len(s) : Put(s, i, c)[k + 1] = s[k]
<1> DEFINE x == SubSeq(s, 1, i - 1)
           y == SubSeq(s, i, Len(s))
           z == x \o <<c>>
<1>1. x \in Seq(T) /\ Len(x) = i - 1 /\ \A k \in 1..(i - 1) : x[k] = s[k]
  OBVIOUS
<1>2. y \in Seq(T) /\ Len(y) = Len(s) - i + 1 /\ \A k \in 1..(Len(s) - i + 1) : y[k] = s[k + i - 1]
  OBVIOUS
<1>3. Put(s, i, c) = z \o y
  BY DEF Put
<1> HIDE DEF x, y
<1>4. z \in Seq(T) /\ Len(z) = i /\ z[i] = c /\ \A k \in 1..(i - 1) : z[k] = s[k]
  BY <1>1
<1> HIDE DEF z
<1>5. z \o y \in Seq(T) /\ Len(z \o y) = Len(s) + 1
  <2>1. Len(z) + Len(y) = Len(s) + 1
    BY <1>2, <1>4
  <2>2. z \in Seq(T) /\ y \in Seq(T)
    BY <1>2, <1>4
  <2>3. z \o y \in Seq(T) /\ Len(z \o y) = Len(z) + Len(y)
    BY <2>2
  <2>4. QED
    BY <2>1, <2>3
<1>6. \A k \in 1..i : (z \o y)[k] = z[k]
  BY <1>2, <1>4
<1>7. ASSUME NEW k \in i..Len(s) PROVE (z \o y)[k + 1] = s[k]
  <2>1. k + 1 \in (i + 1)..(Len(s) + 1) /\ k + 1 - i \in 1..(Len(s) - i + 1) /\ k + 1 - i + i - 1 = k
    OBVIOUS
  <2>2. (z \o y)[k + 1] = y[k + 1 - i]
    BY <1>2, <1>4, <2>1
  <2>3. QED
    BY <1>2, <2>1, <2>2
<1>8. QED
  BY <1>3, <1>4, <1>5, <1>6, <1>7

(* A name with a character cut out: those behind it move down by one.      *)
LEMMA CutIs ==
  ASSUME NEW T, NEW s \in Seq(T), NEW i \in 1..Len(s)
  PROVE  /\ Cut(s, i) \in Seq(T) /\ Len(Cut(s, i)) = Len(s) - 1
         /\ \A k \in 1..(i - 1) : Cut(s, i)[k] = s[k]
         /\ \A k \in i..(Len(s) - 1) : Cut(s, i)[k] = s[k + 1]
<1> DEFINE x == SubSeq(s, 1, i - 1)
           y == SubSeq(s, i + 1, Len(s))
<1>1. x \in Seq(T) /\ Len(x) = i - 1 /\ \A k \in 1..(i - 1) : x[k] = s[k]
  OBVIOUS
<1>2. y \in Seq(T) /\ Len(y) = Len(s) - i /\ \A k \in 1..(Len(s) - i) : y[k] = s[k + i]
  OBVIOUS
<1>3. Cut(s, i) = x \o y
  BY DEF Cut
<1> HIDE DEF x, y
<1>4. x \o y \in Seq(T) /\ Len(x \o y) = Len(s) - 1
  BY <1>1, <1>2
<1>5. \A k \in 1..(i - 1) : (x \o y)[k] = x[k]
  BY <1>1, <1>2
<1>6. ASSUME NEW k \in i..(Len(s) - 1) PROVE (x \o y)[k] = s[k + 1]
  <2>1. k - (i - 1) \in 1..(Len(s) - i) /\ k - (i - 1) + i = k + 1
    OBVIOUS
  <2>2. (x \o y)[k] = y[k - (i - 1)]
    BY <1>1, <1>2, <2>1
  <2>3. QED
    BY <1>2, <2>1, <2>2
<1>7. QED
  BY <1>1, <1>3, <1>4, <1>5, <1>6

-----------------------------------------------------------------------------
\* What e says of a cell is reached by inserting, deleting or substituting.
Supported(e, a, b, i, j) ==
  \/ At(e, i, j) >= At(e, i - 1, j) + 1
  \/ At(e, i, j) >= At(e, i, j - 1) + 1
  \/ At(e, i, j) >= At(e, i - 1, j - 1) + Cost(a, b, i, j)

\* Costs of an alignment of every two beginnings of a and b, without swaps.
Alignment(e, a, b, n, m) ==
  /\ e \in Tables(n, m)
  /\ \A i \in 0..n : At(e, i, 0) >= i
  /\ \A j \in 0..m : At(e, 0, j) >= j
  /\ \A i \in 1..n, j \in 1..m : Supported(e, a, b, i, j)
  /\ \A i \in 1..n, j \in 0..m : At(e, i - 1, j) <= At(e, i, j) + 1

\* The names a and b are at most c edits apart that are not swaps.
Within(a, b, c) == \E e : Alignment(e, a, b, Len(a), Len(b)) /\ At(e, Len(a), Len(b)) <= c

(* The table never says more than an alignment costs.                      *)
LEMMA AlignmentBounds ==
  ASSUME NEW a, NEW b, NEW d, Filled(a, b, d), NEW n \in Nat, n = Len(a), NEW m \in Nat, m = Len(b),
         NEW e, Alignment(e, a, b, n, m)
  PROVE  \A i \in 0..n, j \in 0..m : At(d, i, j) <= At(e, i, j)
<1> DEFINE P == {x \in (0..n) \X (0..m) : At(d, x[1], x[2]) <= At(e, x[1], x[2])}
<1>0. \A i \in 0..n, j \in 0..m : At(d, i, j) \in Nat /\ At(e, i, j) \in Nat
  BY FilledCell DEF Alignment, Tables, At
<1>1. \A i \in 0..n : <<i, 0>> \in P
  BY FilledCell DEF Alignment
<1>2. \A j \in 0..m : <<0, j>> \in P
  BY FilledCell DEF Alignment
<1>3. ASSUME NEW i \in 1..n, NEW j \in 1..m,
             \A p \in 0..i, q \in 0..j : p + q < i + j => <<p, q>> \in P
      PROVE  <<i, j>> \in P
  <2>1. <<i - 1, j>> \in P /\ <<i, j - 1>> \in P /\ <<i - 1, j - 1>> \in P
    <3> HIDE DEF P
    <3>1. QED
      BY <1>3
  <2>2. At(d, i - 1, j) <= At(e, i - 1, j) /\ At(d, i, j - 1) <= At(e, i, j - 1) /\ At(d, i - 1, j - 1) <= At(e, i - 1, j - 1)
    BY <2>1
  <2>3. /\ At(d, i, j) <= At(d, i - 1, j) + 1
        /\ At(d, i, j) <= At(d, i, j - 1) + 1
        /\ At(d, i, j) <= At(d, i - 1, j - 1) + Cost(a, b, i, j)
    BY FilledCell
  <2>4. Supported(e, a, b, i, j)
    BY DEF Alignment
  <2>5. /\ At(d, i, j) \in Nat /\ At(e, i, j) \in Nat /\ i \in 0..n /\ j \in 0..m
        /\ At(d, i - 1, j) \in Nat /\ At(d, i, j - 1) \in Nat /\ At(d, i - 1, j - 1) \in Nat
        /\ At(e, i - 1, j) \in Nat /\ At(e, i, j - 1) \in Nat /\ At(e, i - 1, j - 1) \in Nat
    <3> HIDE DEF P
    <3>1. i \in 0..n /\ j \in 0..m /\ i - 1 \in 0..n /\ j - 1 \in 0..m
      OBVIOUS
    <3>2. QED
      BY <1>0, <3>1
  <2>6. Cost(a, b, i, j) \in 0..1
    BY DEF Cost
  <2>7. At(d, i, j) <= At(e, i, j)
    <3> HIDE DEF P
    <3>1. CASE At(e, i, j) >= At(e, i - 1, j) + 1
      BY <2>2, <2>3, <2>5, <3>1
    <3>2. CASE At(e, i, j) >= At(e, i, j - 1) + 1
      BY <2>2, <2>3, <2>5, <3>2
    <3>3. CASE At(e, i, j) >= At(e, i - 1, j - 1) + Cost(a, b, i, j)
      BY <2>2, <2>3, <2>5, <2>6, <3>3
    <3>4. QED
      BY <2>4, <3>1, <3>2, <3>3 DEF Supported
  <2>8. QED
    BY <2>5, <2>7
<1>4. \A i \in 0..n, j \in 0..m : <<i, j>> \in P
  <2> HIDE DEF P
  <2>1. QED
    BY <1>1, <1>2, <1>3, TableInduction
<1>5. QED
  BY <1>4

(* So the distance is at most the edits apart.                             *)
LEMMA DistanceWithin ==
  ASSUME NEW T, NEW a \in Seq(T), NEW b \in Seq(T), NEW c \in Nat, Within(a, b, c)
  PROVE  osa_distance(a, b) <= c
<1>1. PICK d : Filled(a, b, d) /\ osa_distance(a, b) = At(d, Len(a), Len(b))
  BY DistanceIsCell DEF At
<1>2. PICK e : Alignment(e, a, b, Len(a), Len(b)) /\ At(e, Len(a), Len(b)) <= c
  BY DEF Within
<1>3. PICK n \in Nat : n = Len(a)
  OBVIOUS
<1>4. PICK m \in Nat : m = Len(b)
  OBVIOUS
<1>5. \A i \in 0..n, j \in 0..m : At(d, i, j) <= At(e, i, j) /\ At(d, i, j) \in Nat /\ At(e, i, j) \in Nat
  <2>1. \A i \in 0..n, j \in 0..m : At(d, i, j) <= At(e, i, j)
    BY <1>1, <1>2, <1>3, <1>4, AlignmentBounds
  <2>2. d \in Tables(n, m) /\ e \in Tables(n, m)
    BY <1>1, <1>2, <1>3, <1>4 DEF Filled, Alignment
  <2>3. QED
    BY <2>1, <2>2 DEF Tables, At
<1>6. n \in 0..n /\ m \in 0..m
  OBVIOUS
<1>7. At(d, n, m) <= At(e, n, m) /\ At(d, n, m) \in Nat /\ At(e, n, m) \in Nat
  BY <1>5, <1>6
<1>8. QED
  BY <1>1, <1>2, <1>3, <1>4, <1>7

(* A name is no edit apart from itself.                                    *)
LEMMA WithinItself ==
  ASSUME NEW T, NEW a \in Seq(T)
  PROVE  Within(a, a, 0)
<1>1. PICK n \in Nat : n = Len(a)
  OBVIOUS
<1> DEFINE gap(i, j) == IF i >= j THEN i - j ELSE j - i
           e == [i \in 0..n |-> [j \in 0..n |-> gap(i, j)]]
<1>2. e \in Tables(n, n) /\ \A i \in 0..n, j \in 0..n : At(e, i, j) = gap(i, j)
  BY DEF Tables, At
<1> HIDE DEF e
<1>3. ASSUME NEW i \in 1..n, NEW j \in 1..n PROVE Supported(e, a, a, i, j)
  <2>1. /\ At(e, i, j) = gap(i, j) /\ At(e, i - 1, j) = gap(i - 1, j) /\ At(e, i, j - 1) = gap(i, j - 1)
        /\ At(e, i - 1, j - 1) = gap(i - 1, j - 1)
    BY <1>2
  <2>2. CASE i > j
    BY <2>1, <2>2 DEF Supported
  <2>3. CASE i < j
    BY <2>1, <2>3 DEF Supported
  <2>4. CASE i = j
    BY <2>1, <2>4 DEF Supported, Cost
  <2>5. QED
    BY <2>2, <2>3, <2>4
<1>4. ASSUME NEW i \in 1..n, NEW j \in 0..n PROVE At(e, i - 1, j) <= At(e, i, j) + 1
  <2>1. At(e, i - 1, j) = gap(i - 1, j) /\ At(e, i, j) = gap(i, j)
    BY <1>2
  <2>2. CASE i > j
    BY <2>1, <2>2
  <2>3. CASE i <= j
    BY <2>1, <2>3
  <2>4. QED
    BY <2>2, <2>3
<1>5. Alignment(e, a, a, n, n) /\ At(e, n, n) <= 0
  BY <1>2, <1>3, <1>4 DEF Alignment
<1>6. QED
  BY <1>1, <1>5 DEF Within

(* A substitution is at most one edit more.                                *)
LEMMA SubstituteWithin ==
  ASSUME NEW T, NEW a \in Seq(T), NEW b \in Seq(T), NEW c \in Nat, Within(a, b, c),
         NEW i \in 1..Len(a), NEW t \in T
  PROVE  Within([a EXCEPT ![i] = t], b, c + 1)
<1> DEFINE s == [a EXCEPT ![i] = t]
<1>1. PICK n \in Nat : n = Len(a)
  OBVIOUS
<1>2. PICK m \in Nat : m = Len(b)
  OBVIOUS
<1>3. PICK e : Alignment(e, a, b, n, m) /\ At(e, n, m) <= c
  BY <1>1, <1>2 DEF Within
<1>4. s \in Seq(T) /\ Len(s) = n /\ \A k \in 1..n : k # i => s[k] = a[k]
  BY <1>1
<1> HIDE DEF s
<1> DEFINE f == [p \in 0..n |-> [j \in 0..m |-> IF p < i THEN At(e, p, j) ELSE At(e, p, j) + 1]]
<1>5. \A p \in 0..n, j \in 0..m : At(e, p, j) \in Nat
  BY <1>3 DEF Alignment, Tables, At
<1>6. /\ f \in Tables(n, m)
      /\ \A p \in 0..n, j \in 0..m : At(f, p, j) = (IF p < i THEN At(e, p, j) ELSE At(e, p, j) + 1)
  BY <1>5 DEF Tables, At
<1> HIDE DEF f
<1>7. ASSUME NEW p \in 1..n, NEW j \in 1..m PROVE Supported(f, s, b, p, j)
  <2>1. Supported(e, a, b, p, j)
    BY <1>3 DEF Alignment
  <2>2. p - 1 \in 0..n /\ j - 1 \in 0..m /\ p \in 0..n /\ j \in 0..m
    OBVIOUS
  <2>3. /\ At(e, p, j) \in Nat /\ At(e, p - 1, j) \in Nat /\ At(e, p, j - 1) \in Nat /\ At(e, p - 1, j - 1) \in Nat
        /\ Cost(a, b, p, j) \in 0..1 /\ Cost(s, b, p, j) \in 0..1
    BY <1>5, <2>2 DEF Cost
  <2>4. p # i => Cost(s, b, p, j) = Cost(a, b, p, j)
    BY <1>4 DEF Cost
  <2>5. CASE p < i
    <3>1. /\ At(f, p, j) = At(e, p, j) /\ At(f, p - 1, j) = At(e, p - 1, j) /\ At(f, p, j - 1) = At(e, p, j - 1)
          /\ At(f, p - 1, j - 1) = At(e, p - 1, j - 1)
      BY <1>1, <1>6, <2>2, <2>5
    <3>2. QED
      BY <2>1, <2>4, <2>5, <3>1 DEF Supported
  <2>6. CASE p > i
    <3>1. /\ At(f, p, j) = At(e, p, j) + 1 /\ At(f, p - 1, j) = At(e, p - 1, j) + 1 /\ At(f, p, j - 1) = At(e, p, j - 1) + 1
          /\ At(f, p - 1, j - 1) = At(e, p - 1, j - 1) + 1
      BY <1>1, <1>6, <2>2, <2>6
    <3>2. CASE At(e, p, j) >= At(e, p - 1, j) + 1
      BY <2>3, <3>1, <3>2 DEF Supported
    <3>3. CASE At(e, p, j) >= At(e, p, j - 1) + 1
      BY <2>3, <3>1, <3>3 DEF Supported
    <3>4. CASE At(e, p, j) >= At(e, p - 1, j - 1) + Cost(s, b, p, j)
      BY <2>3, <3>1, <3>4 DEF Supported
    <3>5. QED
      BY <2>1, <2>4, <2>6, <3>2, <3>3, <3>4 DEF Supported
  <2>7. CASE p = i
    <3>1. /\ At(f, p, j) = At(e, p, j) + 1 /\ At(f, p - 1, j) = At(e, p - 1, j) /\ At(f, p, j - 1) = At(e, p, j - 1) + 1
          /\ At(f, p - 1, j - 1) = At(e, p - 1, j - 1)
      BY <1>1, <1>6, <2>2, <2>7
    <3>2. CASE At(e, p, j) >= At(e, p - 1, j) + 1
      BY <2>3, <3>1, <3>2 DEF Supported
    <3>3. CASE At(e, p, j) >= At(e, p, j - 1) + 1
      BY <2>3, <3>1, <3>3 DEF Supported
    <3>4. CASE At(e, p, j) >= At(e, p - 1, j - 1) + Cost(a, b, p, j)
      BY <2>3, <3>1, <3>4 DEF Supported
    <3>5. QED
      BY <2>1, <3>2, <3>3, <3>4 DEF Supported
  <2>8. QED
    BY <1>1, <2>5, <2>6, <2>7
<1>8. ASSUME NEW p \in 1..n, NEW j \in 0..m PROVE At(f, p - 1, j) <= At(f, p, j) + 1
  <2>1. At(e, p - 1, j) <= At(e, p, j) + 1
    BY <1>3 DEF Alignment
  <2>2. p - 1 \in 0..n /\ p \in 0..n /\ At(e, p, j) \in Nat /\ At(e, p - 1, j) \in Nat
    BY <1>5
  <2>3. CASE p < i
    BY <1>1, <1>6, <2>1, <2>2, <2>3
  <2>4. CASE p >= i
    <3>1. At(f, p, j) = At(e, p, j) + 1 /\ At(f, p - 1, j) <= At(e, p - 1, j) + 1
      BY <1>1, <1>6, <2>2, <2>4
    <3>2. At(f, p - 1, j) \in Nat
      BY <1>6, <2>2 DEF Tables, At
    <3>3. QED
      BY <2>1, <2>2, <3>1, <3>2
  <2>5. QED
    BY <1>1, <2>3, <2>4
<1>9. (\A p \in 0..n : At(f, p, 0) >= p) /\ (\A j \in 0..m : At(f, 0, j) >= j)
  <2>1. (\A p \in 0..n : At(e, p, 0) >= p) /\ (\A j \in 0..m : At(e, 0, j) >= j)
    BY <1>3 DEF Alignment
  <2>2. ASSUME NEW p \in 0..n, NEW j \in 0..m PROVE At(f, p, j) >= At(e, p, j)
    <3>1. At(e, p, j) \in Nat /\ (At(f, p, j) = At(e, p, j) \/ At(f, p, j) = At(e, p, j) + 1)
      BY <1>5, <1>6
    <3>2. QED
      BY <3>1
  <2>3. \A p \in 0..n, j \in 0..m : At(f, p, j) \in Nat
    BY <1>6 DEF Tables, At
  <2>4. 0 \in 0..n /\ 0 \in 0..m
    OBVIOUS
  <2>5. \A p \in 0..n : At(f, p, 0) >= p
    BY <1>5, <2>1, <2>2, <2>3, <2>4
  <2>6. \A j \in 0..m : At(f, 0, j) >= j
    BY <1>5, <2>1, <2>2, <2>3, <2>4
  <2>7. QED
    BY <2>5, <2>6
<1>10. At(f, n, m) <= c + 1
  <2>1. n \in 0..n /\ m \in 0..m
    OBVIOUS
  <2>2. At(e, n, m) \in Nat /\ (At(f, n, m) = At(e, n, m) \/ At(f, n, m) = At(e, n, m) + 1)
    BY <1>5, <1>6, <2>1
  <2>3. QED
    BY <1>3, <2>2
<1>11. QED
  <2>1. Alignment(f, s, b, n, m)
    BY <1>6, <1>7, <1>8, <1>9 DEF Alignment
  <2>2. Within(s, b, c + 1)
    BY <1>2, <1>4, <1>10, <2>1 DEF Within
  <2>3. QED
    BY <2>2 DEF s

(* A character more is at most one edit more.                              *)
LEMMA PutWithin ==
  ASSUME NEW T, NEW a \in Seq(T), NEW b \in Seq(T), NEW c \in Nat, Within(a, b, c),
         NEW i \in 1..(Len(a) + 1), NEW t \in T
  PROVE  Within(Put(a, i, t), b, c + 1)
<1> DEFINE s == Put(a, i, t)
<1>1. PICK n \in Nat : n = Len(a)
  OBVIOUS
<1>2. PICK m \in Nat : m = Len(b)
  OBVIOUS
<1>3. PICK e : Alignment(e, a, b, n, m) /\ At(e, n, m) <= c
  BY <1>1, <1>2 DEF Within
<1>4. /\ Len(s) = n + 1
      /\ \A k \in 1..(i - 1) : s[k] = a[k]
      /\ \A k \in i..n : s[k + 1] = a[k]
  <2>1. /\ Len(Put(a, i, t)) = Len(a) + 1
        /\ \A k \in 1..(i - 1) : Put(a, i, t)[k] = a[k]
        /\ \A k \in i..Len(a) : Put(a, i, t)[k + 1] = a[k]
    BY PutIs
  <2>2. QED
    BY <1>1, <2>1
<1> HIDE DEF s
<1> DEFINE f == [p \in 0..(n + 1) |-> [j \in 0..m |-> IF p < i THEN At(e, p, j) ELSE At(e, p - 1, j) + 1]]
<1>5. \A p \in 0..n, j \in 0..m : At(e, p, j) \in Nat
  BY <1>3 DEF Alignment, Tables, At
<1>6. /\ f \in Tables(n + 1, m)
      /\ \A p \in 0..(i - 1), j \in 0..m : At(f, p, j) = At(e, p, j)
      /\ \A p \in i..(n + 1), j \in 0..m : At(f, p, j) = At(e, p - 1, j) + 1
  <2>1. ASSUME NEW p \in 0..(n + 1), NEW j \in 0..m
        PROVE  (IF p < i THEN At(e, p, j) ELSE At(e, p - 1, j) + 1) \in Nat
    <3>1. CASE p < i
      <4>1. p \in 0..n
        BY <1>1, <3>1
      <4>2. QED
        BY <1>5, <3>1, <4>1
    <3>2. CASE p >= i
      <4>1. p - 1 \in 0..n
        BY <1>1, <3>2
      <4>2. At(e, p - 1, j) \in Nat
        BY <1>5, <4>1
      <4>3. QED
        BY <3>2, <4>2
    <3>3. QED
      BY <1>1, <3>1, <3>2
  <2>2. f \in Tables(n + 1, m)
    BY <2>1 DEF Tables, At
  <2>3. \A p \in 0..(i - 1), j \in 0..m : At(f, p, j) = At(e, p, j)
    BY <1>1 DEF At
  <2>4. \A p \in i..(n + 1), j \in 0..m : At(f, p, j) = At(e, p - 1, j) + 1
    BY <1>1 DEF At
  <2>5. QED
    BY <2>2, <2>3, <2>4
<1> HIDE DEF f
<1>7. ASSUME NEW p \in 1..(n + 1), NEW j \in 1..m PROVE Supported(f, s, b, p, j)
  <2>1. j - 1 \in 0..m /\ j \in 0..m /\ i \in 1..(n + 1)
    BY <1>1
  <2>2. CASE p < i
    <3>1. p \in 1..n /\ p \in 1..(i - 1) /\ p \in 0..(i - 1) /\ p - 1 \in 0..(i - 1)
      BY <2>1, <2>2
    <3>2. Supported(e, a, b, p, j)
      BY <1>3, <3>1 DEF Alignment
    <3>3. /\ At(f, p, j) = At(e, p, j) /\ At(f, p - 1, j) = At(e, p - 1, j) /\ At(f, p, j - 1) = At(e, p, j - 1)
          /\ At(f, p - 1, j - 1) = At(e, p - 1, j - 1)
      BY <1>6, <2>1, <3>1
    <3>4. Cost(s, b, p, j) = Cost(a, b, p, j)
      BY <1>4, <3>1 DEF Cost
    <3>5. QED
      BY <3>2, <3>3, <3>4 DEF Supported
  <2>3. CASE p = i
    <3>1. At(f, p, j) = At(e, p - 1, j) + 1 /\ At(f, p - 1, j) = At(e, p - 1, j) /\ At(e, p - 1, j) \in Nat
      <4>1. p \in i..(n + 1) /\ p - 1 \in 0..(i - 1) /\ p - 1 \in 0..n
        BY <2>1, <2>3
      <4>2. QED
        BY <1>5, <1>6, <2>1, <4>1
    <3>2. QED
      BY <3>1 DEF Supported
  <2>4. CASE p > i
    <3> DEFINE q == p - 1
    <3>1. /\ q \in 1..n /\ q \in i..n /\ q + 1 = p /\ q \in 0..n /\ q - 1 \in 0..n
          /\ q \in i..(n + 1) /\ p \in i..(n + 1)
      BY <2>1, <2>4
    <3>2. p - 1 = q
      OBVIOUS
    <3> HIDE DEF q
    <3>3. Supported(e, a, b, q, j)
      BY <1>3, <3>1 DEF Alignment
    <3>4. /\ At(f, p, j) = At(e, q, j) + 1 /\ At(f, q, j) = At(e, q - 1, j) + 1 /\ At(f, p, j - 1) = At(e, q, j - 1) + 1
          /\ At(f, q, j - 1) = At(e, q - 1, j - 1) + 1
      BY <1>6, <2>1, <3>1, <3>2
    <3>5. Cost(s, b, p, j) = Cost(a, b, q, j) /\ Cost(a, b, q, j) \in 0..1
      <4>1. s[p] = a[q]
        BY <1>4, <3>1
      <4>2. QED
        BY <4>1 DEF Cost
    <3>6. At(e, q, j) \in Nat /\ At(e, q - 1, j) \in Nat /\ At(e, q, j - 1) \in Nat /\ At(e, q - 1, j - 1) \in Nat
      BY <1>5, <2>1, <3>1
    <3>7. CASE At(e, q, j) >= At(e, q - 1, j) + 1
      BY <3>2, <3>4, <3>6, <3>7 DEF Supported
    <3>8. CASE At(e, q, j) >= At(e, q, j - 1) + 1
      BY <3>2, <3>4, <3>6, <3>8 DEF Supported
    <3>9. CASE At(e, q, j) >= At(e, q - 1, j - 1) + Cost(a, b, q, j)
      <4>1. At(f, p, j) >= At(f, q, j - 1) + Cost(s, b, p, j)
        BY <3>4, <3>5, <3>6, <3>9
      <4>2. QED
        BY <3>2, <4>1 DEF Supported
    <3>10. QED
      BY <3>3, <3>7, <3>8, <3>9 DEF Supported
  <2>5. QED
    BY <2>1, <2>2, <2>3, <2>4
<1>8. ASSUME NEW p \in 1..(n + 1), NEW j \in 0..m PROVE At(f, p - 1, j) <= At(f, p, j) + 1
  <2>1. i \in 1..(n + 1)
    BY <1>1
  <2>2. CASE p < i
    <3>1. p \in 1..n /\ p \in 0..(i - 1) /\ p - 1 \in 0..(i - 1)
      BY <2>1, <2>2
    <3>2. At(e, p - 1, j) <= At(e, p, j) + 1
      BY <1>3, <3>1 DEF Alignment
    <3>3. QED
      BY <1>6, <3>1, <3>2
  <2>3. CASE p = i
    <3>1. p \in i..(n + 1) /\ p - 1 \in 0..(i - 1) /\ p - 1 \in 0..n
      BY <2>1, <2>3
    <3>2. At(f, p, j) = At(e, p - 1, j) + 1 /\ At(f, p - 1, j) = At(e, p - 1, j) /\ At(e, p - 1, j) \in Nat
      BY <1>5, <1>6, <3>1
    <3>3. QED
      BY <3>2
  <2>4. CASE p > i
    <3> DEFINE q == p - 1
    <3>1. q \in 1..n /\ q \in i..(n + 1) /\ p \in i..(n + 1) /\ q \in 0..n /\ q - 1 \in 0..n
      BY <2>1, <2>4
    <3>2. p - 1 = q
      OBVIOUS
    <3> HIDE DEF q
    <3>3. At(e, q - 1, j) <= At(e, q, j) + 1 /\ At(e, q, j) \in Nat /\ At(e, q - 1, j) \in Nat
      BY <1>3, <1>5, <3>1 DEF Alignment
    <3>4. At(f, p, j) = At(e, q, j) + 1 /\ At(f, q, j) = At(e, q - 1, j) + 1
      BY <1>6, <3>1, <3>2
    <3>5. QED
      BY <3>2, <3>3, <3>4
  <2>5. QED
    BY <2>1, <2>2, <2>3, <2>4
<1>9. (\A p \in 0..(n + 1) : At(f, p, 0) >= p) /\ (\A j \in 0..m : At(f, 0, j) >= j)
  <2>1. (\A p \in 0..n : At(e, p, 0) >= p) /\ (\A j \in 0..m : At(e, 0, j) >= j)
    BY <1>3 DEF Alignment
  <2>2. i \in 1..(n + 1) /\ 0 \in 0..(i - 1) /\ 0 \in 0..m
    BY <1>1
  <2>3. \A j \in 0..m : At(f, 0, j) >= j
    BY <1>6, <2>1, <2>2
  <2>4. ASSUME NEW p \in 0..(n + 1) PROVE At(f, p, 0) >= p
    <3>1. CASE p < i
      <4>1. p \in 0..(i - 1) /\ p \in 0..n
        BY <2>2, <3>1
      <4>2. QED
        BY <1>6, <2>1, <2>2, <4>1
    <3>2. CASE p >= i
      <4>1. p \in i..(n + 1) /\ p - 1 \in 0..n
        BY <2>2, <3>2
      <4>2. At(f, p, 0) = At(e, p - 1, 0) + 1 /\ At(e, p - 1, 0) >= p - 1 /\ At(e, p - 1, 0) \in Nat
        BY <1>5, <1>6, <2>1, <2>2, <4>1
      <4>3. QED
        BY <4>2
    <3>3. QED
      BY <2>2, <3>1, <3>2
  <2>5. QED
    BY <2>3, <2>4
<1>10. At(f, n + 1, m) <= c + 1
  <2>1. n + 1 \in i..(n + 1) /\ m \in 0..m /\ n + 1 - 1 = n /\ n \in 0..n
    BY <1>1
  <2>2. At(f, n + 1, m) = At(e, n, m) + 1 /\ At(e, n, m) \in Nat
    BY <1>5, <1>6, <2>1
  <2>3. QED
    BY <1>3, <2>2
<1>11. QED
  <2>1. Alignment(f, s, b, n + 1, m)
    BY <1>6, <1>7, <1>8, <1>9 DEF Alignment
  <2>2. Within(s, b, c + 1)
    BY <1>2, <1>4, <1>10, <2>1 DEF Within
  <2>3. QED
    BY <2>2 DEF s

(* A character less is at most one edit more.                              *)
LEMMA CutWithin ==
  ASSUME NEW T, NEW a \in Seq(T), NEW b \in Seq(T), NEW c \in Nat, Within(a, b, c), NEW i \in 1..Len(a)
  PROVE  Within(Cut(a, i), b, c + 1)
<1> DEFINE s == Cut(a, i)
<1>1. PICK n \in Nat : n = Len(a) - 1
  OBVIOUS
<1>2. PICK m \in Nat : m = Len(b)
  OBVIOUS
<1>3. PICK e : Alignment(e, a, b, n + 1, m) /\ At(e, n + 1, m) <= c
  <2>1. Len(a) = n + 1
    BY <1>1
  <2>2. QED
    BY <1>2, <2>1 DEF Within
<1>4. /\ Len(s) = n
      /\ \A k \in 1..(i - 1) : s[k] = a[k]
      /\ \A k \in i..n : s[k] = a[k + 1]
  BY <1>1, CutIs
<1> HIDE DEF s
<1>0. i \in 1..(n + 1)
  BY <1>1
<1> DEFINE f == [p \in 0..n |-> [j \in 0..m |-> IF p < i THEN At(e, p, j) ELSE At(e, p + 1, j) + 1]]
<1>5. \A p \in 0..(n + 1), j \in 0..m : At(e, p, j) \in Nat
  BY <1>3 DEF Alignment, Tables, At
<1>6. /\ f \in Tables(n, m)
      /\ \A p \in 0..(i - 1), j \in 0..m : p <= n => At(f, p, j) = At(e, p, j)
      /\ \A p \in i..n, j \in 0..m : At(f, p, j) = At(e, p + 1, j) + 1
  <2>1. ASSUME NEW p \in 0..n, NEW j \in 0..m
        PROVE  (IF p < i THEN At(e, p, j) ELSE At(e, p + 1, j) + 1) \in Nat
    <3>1. p \in 0..(n + 1) /\ p + 1 \in 0..(n + 1)
      OBVIOUS
    <3>2. At(e, p, j) \in Nat /\ At(e, p + 1, j) \in Nat
      BY <1>5, <3>1
    <3>3. QED
      BY <3>2
  <2>2. f \in Tables(n, m)
    BY <2>1 DEF Tables, At
  <2>3. \A p \in 0..(i - 1), j \in 0..m : p <= n => At(f, p, j) = At(e, p, j)
    BY <1>0 DEF At
  <2>4. \A p \in i..n, j \in 0..m : At(f, p, j) = At(e, p + 1, j) + 1
    BY <1>0 DEF At
  <2>5. QED
    BY <2>2, <2>3, <2>4
<1> HIDE DEF f
<1>7. ASSUME NEW p \in 1..n, NEW j \in 1..m PROVE Supported(f, s, b, p, j)
  <2>1. j - 1 \in 0..m /\ j \in 0..m
    OBVIOUS
  <2>2. CASE p < i
    <3>1. p \in 1..(n + 1) /\ p \in 1..(i - 1) /\ p \in 0..(i - 1) /\ p - 1 \in 0..(i - 1) /\ p - 1 <= n /\ p <= n
      BY <1>0, <2>2
    <3>2. Supported(e, a, b, p, j)
      BY <1>3, <3>1 DEF Alignment
    <3>3. /\ At(f, p, j) = At(e, p, j) /\ At(f, p - 1, j) = At(e, p - 1, j) /\ At(f, p, j - 1) = At(e, p, j - 1)
          /\ At(f, p - 1, j - 1) = At(e, p - 1, j - 1)
      BY <1>6, <2>1, <3>1
    <3>4. Cost(s, b, p, j) = Cost(a, b, p, j)
      BY <1>4, <3>1 DEF Cost
    <3>5. QED
      BY <3>2, <3>3, <3>4 DEF Supported
  <2>3. CASE p >= i
    <3> DEFINE q == p + 1
    <3>1. q \in 1..(n + 1) /\ p \in i..n /\ q - 1 = p /\ p \in 0..(n + 1) /\ q \in 0..(n + 1) /\ p \in 1..(n + 1)
          /\ p - 1 \in 0..(n + 1)
      BY <1>0, <2>3
    <3>2. p + 1 = q
      OBVIOUS
    <3> HIDE DEF q
    <3>3. Supported(e, a, b, q, j)
      BY <1>3, <3>1 DEF Alignment
    <3>4. At(f, p, j) = At(e, q, j) + 1 /\ At(f, p, j - 1) = At(e, q, j - 1) + 1
      BY <1>6, <2>1, <3>1, <3>2
    <3>5. At(f, p - 1, j) <= At(e, p, j) + 1 /\ At(f, p - 1, j - 1) <= At(e, p, j - 1) + 1 /\ At(f, p - 1, j) \in Nat /\ At(f, p - 1, j - 1) \in Nat
      <4>1. CASE p = i
        <5>1. p - 1 \in 0..(i - 1) /\ p - 1 <= n
          BY <1>0, <4>1
        <5>2. At(f, p - 1, j) = At(e, p - 1, j) /\ At(f, p - 1, j - 1) = At(e, p - 1, j - 1)
          BY <1>6, <2>1, <5>1
        <5>3. At(e, p - 1, j) <= At(e, p, j) + 1 /\ At(e, p - 1, j - 1) <= At(e, p, j - 1) + 1
          BY <1>3, <2>1, <3>1 DEF Alignment
        <5>4. At(e, p - 1, j) \in Nat /\ At(e, p - 1, j - 1) \in Nat
          BY <1>5, <2>1, <3>1
        <5>5. QED
          BY <5>2, <5>3, <5>4
      <4>2. CASE p # i
        <5>1. p - 1 \in i..n /\ p - 1 + 1 = p
          BY <1>0, <2>3, <4>2
        <5>2. At(f, p - 1, j) = At(e, p, j) + 1 /\ At(f, p - 1, j - 1) = At(e, p, j - 1) + 1
          BY <1>6, <2>1, <5>1
        <5>3. At(e, p, j) \in Nat /\ At(e, p, j - 1) \in Nat
          BY <1>5, <2>1, <3>1
        <5>4. QED
          BY <5>2, <5>3
      <4>3. QED
        BY <4>1, <4>2
    <3>6. Cost(s, b, p, j) = Cost(a, b, q, j) /\ Cost(a, b, q, j) \in 0..1
      <4>1. s[p] = a[q]
        BY <1>4, <3>1, <3>2
      <4>2. QED
        BY <4>1 DEF Cost
    <3>7. At(e, q, j) \in Nat /\ At(e, p, j) \in Nat /\ At(e, q, j - 1) \in Nat /\ At(e, p, j - 1) \in Nat
      BY <1>5, <2>1, <3>1
    <3>8. CASE At(e, q, j) >= At(e, p, j) + 1
      BY <3>4, <3>5, <3>7, <3>8 DEF Supported
    <3>9. CASE At(e, q, j) >= At(e, q, j - 1) + 1
      BY <3>4, <3>7, <3>9 DEF Supported
    <3>10. CASE At(e, q, j) >= At(e, p, j - 1) + Cost(a, b, q, j)
      <4>1. At(e, q, j) + 1 >= At(f, p - 1, j - 1) + Cost(a, b, q, j)
        BY <3>5, <3>6, <3>7, <3>10
      <4>2. At(f, p, j) >= At(f, p - 1, j - 1) + Cost(s, b, p, j)
        BY <3>4, <3>6, <4>1
      <4>3. QED
        BY <4>2 DEF Supported
    <3>11. QED
      BY <3>1, <3>3, <3>8, <3>9, <3>10 DEF Supported
  <2>4. QED
    BY <1>0, <2>2, <2>3
<1>8. ASSUME NEW p \in 1..n, NEW j \in 0..m PROVE At(f, p - 1, j) <= At(f, p, j) + 1
  <2>0. p \in 1..(n + 1) /\ p - 1 \in 0..(n + 1) /\ p \in 0..(n + 1) /\ p + 1 \in 1..(n + 1) /\ p + 1 \in 0..(n + 1)
        /\ p + 1 - 1 = p
    OBVIOUS
  <2>1. At(e, p - 1, j) <= At(e, p, j) + 1 /\ At(e, p + 1 - 1, j) <= At(e, p + 1, j) + 1
    BY <1>3, <2>0 DEF Alignment
  <2>2. At(e, p - 1, j) \in Nat /\ At(e, p, j) \in Nat /\ At(e, p + 1, j) \in Nat
    BY <1>5, <2>0
  <2>3. CASE p < i
    <3>1. p \in 0..(i - 1) /\ p - 1 \in 0..(i - 1) /\ p - 1 <= n
      BY <1>0, <2>3
    <3>2. QED
      BY <1>6, <2>1, <3>1
  <2>4. CASE p = i
    <3>1. p \in i..n /\ p - 1 \in 0..(i - 1) /\ p - 1 <= n
      BY <1>0, <2>4
    <3>2. At(f, p, j) = At(e, p + 1, j) + 1 /\ At(f, p - 1, j) = At(e, p - 1, j)
      BY <1>6, <3>1
    <3>3. QED
      BY <2>0, <2>1, <2>2, <3>2
  <2>5. CASE p > i
    <3>1. p \in i..n /\ p - 1 \in i..n /\ p - 1 + 1 = p
      BY <1>0, <2>5
    <3>2. At(f, p, j) = At(e, p + 1, j) + 1 /\ At(f, p - 1, j) = At(e, p, j) + 1
      BY <1>6, <3>1
    <3>3. QED
      BY <2>0, <2>1, <2>2, <3>2
  <2>6. QED
    BY <1>0, <2>3, <2>4, <2>5
<1>9. (\A p \in 0..n : At(f, p, 0) >= p) /\ (\A j \in 0..m : At(f, 0, j) >= j)
  <2>1. (\A p \in 0..(n + 1) : At(e, p, 0) >= p) /\ (\A j \in 0..m : At(e, 0, j) >= j)
    BY <1>3 DEF Alignment
  <2>2. 0 \in 0..(i - 1) /\ 0 \in 0..m /\ 0 <= n
    BY <1>0
  <2>3. \A j \in 0..m : At(f, 0, j) >= j
    BY <1>6, <2>1, <2>2
  <2>4. ASSUME NEW p \in 0..n PROVE At(f, p, 0) >= p
    <3>0. p \in 0..(n + 1) /\ p + 1 \in 0..(n + 1) /\ p <= n
      OBVIOUS
    <3>1. CASE p < i
      <4>1. p \in 0..(i - 1)
        BY <1>0, <3>1
      <4>2. QED
        BY <1>6, <2>1, <2>2, <3>0, <4>1
    <3>2. CASE p >= i
      <4>1. p \in i..n
        BY <1>0, <3>2
      <4>2. At(f, p, 0) = At(e, p + 1, 0) + 1 /\ At(e, p + 1, 0) >= p + 1 /\ At(e, p + 1, 0) \in Nat
        BY <1>5, <1>6, <2>1, <2>2, <3>0, <4>1
      <4>3. QED
        BY <4>2
    <3>3. QED
      BY <1>0, <3>1, <3>2
  <2>5. QED
    BY <2>3, <2>4
<1>10. At(f, n, m) <= c + 1
  <2>1. n \in 0..(n + 1) /\ m \in 0..m /\ n + 1 \in 1..(n + 1) /\ n + 1 \in 0..(n + 1) /\ n + 1 - 1 = n
    OBVIOUS
  <2>2. At(e, n, m) \in Nat /\ At(e, n + 1, m) \in Nat
    BY <1>5, <2>1
  <2>3. CASE n < i
    <3>1. n \in 0..(i - 1)
      BY <1>0, <2>3
    <3>2. At(f, n, m) = At(e, n, m)
      BY <1>6, <2>1, <3>1
    <3>3. At(e, n + 1 - 1, m) <= At(e, n + 1, m) + 1
      BY <1>3, <2>1 DEF Alignment
    <3>4. QED
      BY <1>3, <2>1, <2>2, <3>2, <3>3
  <2>4. CASE n >= i
    <3>1. n \in i..n
      BY <1>0, <2>4
    <3>2. At(f, n, m) = At(e, n + 1, m) + 1
      BY <1>6, <2>1, <3>1
    <3>3. QED
      BY <1>3, <2>2, <3>2
  <2>5. QED
    BY <1>0, <2>3, <2>4
<1>11. QED
  <2>1. Alignment(f, s, b, n, m)
    BY <1>6, <1>7, <1>8, <1>9 DEF Alignment
  <2>2. Within(s, b, c + 1)
    BY <1>2, <1>4, <1>10, <2>1 DEF Within
  <2>3. QED
    BY <2>2 DEF s

(* The table for a name and itself ends with zero.                         *)
LEMMA SameIsNone ==
  ASSUME NEW a, NEW d, Filled(a, a, d), NEW n \in Nat, n = Len(a)
  PROVE  At(d, n, n) <= 0
<1>1. PICK none \in Nat : none = 0
  OBVIOUS
<1>2. At(d, none, none) = 0
  BY <1>1, FilledCell
<1>3. PICK to \in 0..n : to = n
  OBVIOUS
<1>4. At(d, none, none) <= none /\ none \in 0..to
  BY <1>1, <1>2, <1>3
<1>5. \A k \in (none + 1)..to : a[k] = a[k]
  OBVIOUS
<1>6. At(d, to, to) <= none
  BY <1>4, <1>5, DiagonalStays
<1>7. QED
  BY <1>1, <1>3, <1>6

(* No distance exactly between a name and itself.                          *)
LEMMA NoDistanceIfSame ==
  ASSUME NEW T, NEW a \in Seq(T), NEW b \in Seq(T)
  PROVE  osa_distance(a, b) = 0 <=> a = b
<1>1. PICK d : Filled(a, b, d) /\ osa_distance(a, b) = At(d, Len(a), Len(b))
  BY DistanceIsCell DEF At
<1>2. PICK n \in Nat : n = Len(a)
  OBVIOUS
<1>3. PICK m \in Nat : m = Len(b)
  OBVIOUS
<1>4. n \in 0..n /\ m \in 0..m
  OBVIOUS
<1>5. ASSUME osa_distance(a, b) = 0 PROVE a = b
  <2>1. At(d, n, m) = 0
    BY <1>1, <1>2, <1>3, <1>5
  <2>2. n = m /\ \A k \in 1..n : a[k] = b[k]
    BY <1>1, <1>2, <1>3, <1>4, <2>1, ZeroIsSame
  <2>3. a \in [1..n -> T] /\ b \in [1..n -> T]
    <3>1. a \in [1..Len(a) -> T] /\ b \in [1..Len(b) -> T]
      OBVIOUS
    <3>2. Len(a) = n /\ Len(b) = n
      BY <1>2, <1>3, <2>2
    <3>3. QED
      BY <3>1, <3>2
  <2>4. QED
    BY <2>2, <2>3
<1>6. ASSUME a = b PROVE osa_distance(a, b) = 0
  <2>1. n = m
    BY <1>2, <1>3, <1>6
  <2>2. At(d, 0, 0) = 0 /\ 0 \in 0..n /\ At(d, n, m) \in Nat
    BY <1>1, <1>2, <1>3, FilledCell
  <2>3. At(d, n, n) <= 0
    <3>1. Filled(a, a, d)
      BY <1>1, <1>6
    <3>2. QED
      BY <1>2, <3>1, SameIsNone
  <2>4. QED
    BY <1>1, <1>2, <1>3, <2>1, <2>2, <2>3
<1>7. QED
  BY <1>5, <1>6

(* The distance is the same in both directions and at least the difference *)
(* in length.                                                              *)
LEMMA DistanceIsFair ==
  ASSUME NEW T, NEW a \in Seq(T), NEW b \in Seq(T)
  PROVE  /\ osa_distance(a, b) \in Nat
         /\ osa_distance(a, b) = osa_distance(b, a)
         /\ osa_distance(a, b) >= Len(a) - Len(b) /\ osa_distance(a, b) >= Len(b) - Len(a)
<1>1. PICK d : Filled(a, b, d) /\ osa_distance(a, b) = At(d, Len(a), Len(b))
  BY DistanceIsCell DEF At
<1>2. PICK e : Filled(b, a, e) /\ osa_distance(b, a) = At(e, Len(b), Len(a))
  BY DistanceIsCell DEF At
<1>3. PICK n \in Nat : n = Len(a)
  OBVIOUS
<1>4. PICK m \in Nat : m = Len(b)
  OBVIOUS
<1>5. n \in 0..n /\ m \in 0..m
  OBVIOUS
<1>6. At(d, n, m) \in Nat
  <2>1. \A i \in 0..n, j \in 0..m : At(d, i, j) \in Nat
    BY <1>1, <1>3, <1>4, FilledCell
  <2>2. QED
    BY <1>5, <2>1
<1>7. At(d, n, m) = At(e, m, n)
  <2>1. \A i \in 0..n, j \in 0..m : At(d, i, j) = At(e, j, i)
    BY <1>1, <1>2, <1>3, <1>4, TablesTurn
  <2>2. QED
    BY <1>5, <2>1
<1>8. At(d, n, m) >= n - m /\ At(d, n, m) >= m - n
  <2>1. \A i \in 0..n, j \in 0..m : At(d, i, j) >= i - j /\ At(d, i, j) >= j - i
    BY <1>1, <1>3, <1>4, DistanceOfLengths
  <2>2. QED
    BY <1>5, <2>1
<1>9. QED
  BY <1>1, <1>2, <1>3, <1>4, <1>6, <1>7, <1>8

(* Neighbours swapped: one edit.                                           *)
LEMMA SwapIsOne ==
  ASSUME NEW T, NEW t \in Seq(T), NEW i \in 1..(Len(t) - 1)
  PROVE  osa_distance([t EXCEPT ![i] = t[i + 1], ![i + 1] = t[i]], t) <= 1
<1> DEFINE s == [t EXCEPT ![i] = t[i + 1], ![i + 1] = t[i]]
<1>1. PICK n \in Nat : n = Len(t)
  OBVIOUS
<1>2. i \in 1..n /\ i + 1 \in 1..n /\ i - 1 \in 0..n /\ i + 1 \in 0..n /\ n \in 0..n
  BY <1>1
<1>3. /\ s \in Seq(T) /\ Len(s) = n /\ s[i] = t[i + 1] /\ s[i + 1] = t[i]
      /\ \A k \in 1..n : k # i /\ k # i + 1 => s[k] = t[k]
  BY <1>1, <1>2
<1> HIDE DEF s
<1>4. PICK d : Filled(s, t, d) /\ osa_distance(s, t) = At(d, Len(s), Len(t))
  BY <1>3, DistanceIsCell DEF At
<1>5. At(d, i - 1, i - 1) <= 0
  <2>1. PICK none \in Nat : none = 0
    OBVIOUS
  <2>2. PICK to \in 0..n : to = i - 1
    BY <1>2
  <2>3. At(d, 0, 0) = 0
    BY <1>1, <1>3, <1>4, FilledCell
  <2>4. At(d, none, none) <= none /\ none \in 0..to
    BY <2>1, <2>3
  <2>5. \A k \in (none + 1)..to : s[k] = t[k]
    BY <1>2, <1>3, <2>1, <2>2
  <2>6. At(d, to, to) <= none
    BY <1>1, <1>3, <1>4, <2>4, <2>5, DiagonalStays
  <2>7. QED
    BY <2>1, <2>2, <2>6
<1>6. At(d, i + 1, i + 1) <= 1
  <2>1. PICK k \in 1..n : k = i + 1
    BY <1>2
  <2>2. Crossed(s, t, k, k)
    BY <1>2, <1>3, <2>1 DEF Crossed
  <2>3. At(d, k, k) <= At(d, k - 2, k - 2) + 1
    BY <1>1, <1>3, <1>4, <2>2, FilledCell
  <2>4. k - 2 = i - 1
    BY <2>1
  <2>5. At(d, i - 1, i - 1) \in Nat /\ At(d, k, k) \in Nat
    <3>1. \A p \in 0..n, q \in 0..n : At(d, p, q) \in Nat
      BY <1>1, <1>3, <1>4, FilledCell
    <3>2. k \in 0..n
      BY <2>1
    <3>3. QED
      BY <1>2, <3>1, <3>2
  <2>6. At(d, k, k) <= 1
    BY <1>5, <2>3, <2>4, <2>5
  <2>7. QED
    BY <2>1, <2>6
<1>7. At(d, n, n) <= 1
  <2>1. PICK from \in 0..n : from = i + 1
    BY <1>2
  <2>2. PICK one \in Nat : one = 1
    OBVIOUS
  <2>3. At(d, from, from) <= one
    BY <1>6, <2>1, <2>2
  <2>4. \A k \in (from + 1)..n : s[k] = t[k]
    BY <1>2, <1>3, <2>1
  <2>5. At(d, n, n) <= one
    BY <1>1, <1>2, <1>3, <1>4, <2>3, <2>4, DiagonalStays
  <2>6. QED
    BY <2>2, <2>5
<1>8. osa_distance(s, t) <= 1
  BY <1>1, <1>3, <1>4, <1>7
<1>9. QED
  BY <1>8 DEF s

-----------------------------------------------------------------------------
\* A name without separators, character by character.
Stripped(s, n, f) ==
  /\ f[0] = <<>>
  /\ \A i \in 1..n : f[i] = IF s[i] \in Separators THEN f[i - 1] ELSE Append(f[i - 1], s[i])

(* Stripping the separators is a loop over the characters.                 *)
LEMMA StripIsLoop ==
  ASSUME NEW T, NEW s \in Seq(T)
  PROVE  \E f : Stripped(s, Len(s), f) /\ strip_separators(s) = f[Len(s)]
<1>1. PICK n \in Nat : n = Len(s)
  OBVIOUS
<1> DEFINE S == Seq(T)
           Keep(i, x) == IF s[i] \in Separators THEN x ELSE Append(x, s[i])
           step == [x \in (1..n) \X S |-> Keep(x[1], x[2])]
           Loop(g) == [i \in 0..Len(s) |->
                         IF i = 0 THEN <<>>
                         ELSE IF s[i] \in Separators THEN g[i - 1] ELSE Append(g[i - 1], s[i])]
<1>2. step \in [(1..n) \X S -> S]
  <2>1. ASSUME NEW i \in 1..n, NEW x \in S PROVE Keep(i, x) \in S
    <3>1. s[i] \in T
      BY <1>1
    <3>2. Append(x, s[i]) \in Seq(T)
      BY <3>1
    <3>3. QED
      BY <3>2
  <2>2. QED
    BY <2>1
<1>3. PICK f : IsLoop(f, n, S, <<>>, step)
  <2>1. <<>> \in S
    OBVIOUS
  <2> HIDE DEF step, S
  <2>2. QED
    BY <1>2, <2>1, LoopExists
<1>4. f \in [0..n -> S] /\ f[0] = <<>>
  BY <1>3 DEF IsLoop
<1>5. ASSUME NEW i \in 1..n PROVE f[i] = Keep(i, f[i - 1])
  <2>1. f[i] = step[<<i, f[i - 1]>>] /\ i - 1 \in 0..n
    <3> HIDE DEF S, step
    <3>1. QED
      BY <1>3 DEF IsLoop
  <2>2. f[i - 1] \in S
    BY <1>4, <2>1
  <2>3. <<i, f[i - 1]>> \in (1..n) \X S
    BY <2>2
  <2>4. QED
    BY <2>1, <2>3
<1> HIDE DEF step
<1>6. Stripped(s, n, f)
  BY <1>4, <1>5 DEF Stripped
<1>7. f = Loop(f)
  <2>1. \A i \in 0..n : f[i] = Loop(f)[i]
    <3> TAKE i \in 0..n
    <3>1. CASE i = 0
      BY <1>1, <1>4, <3>1
    <3>2. CASE i # 0
      <4>1. i \in 1..n
        BY <3>2
      <4>2. QED
        BY <1>1, <1>5, <3>2, <4>1
    <3>3. QED
      BY <3>1, <3>2
  <2>2. QED
    BY <1>1, <1>4, <2>1
<1>8. ASSUME NEW g, g = Loop(g) PROVE g[n] = f[n]
  <2> DEFINE U == {i \in 0..n : g[i] = f[i]}
  <2>1. 0 \in U
    BY <1>1, <1>4, <1>8
  <2>2. ASSUME NEW i \in 0..n, i \in U, i < n PROVE i + 1 \in U
    <3> DEFINE k == i + 1
    <3>1. k \in 1..n /\ k # 0 /\ k - 1 = i /\ k \in 0..n
      BY <2>2
    <3> HIDE DEF k
    <3>2. g[k] = Keep(k, g[k - 1])
      BY <1>1, <1>8, <3>1
    <3>3. k \in U
      BY <1>5, <2>2, <3>1, <3>2
    <3>4. QED
      BY <3>3 DEF k
  <2>3. 0..n \subseteq U
    <3> HIDE DEF U
    <3>1. QED
      BY <2>1, <2>2, UpTo
  <2>4. QED
    BY <2>3
<1>9. strip_separators(s) = (CHOOSE g : g = Loop(g))[n]
  BY <1>1 DEF strip_separators
<1> HIDE DEF Loop
<1>10. strip_separators(s) = f[n]
  BY <1>7, <1>8, <1>9
<1>11. QED
  BY <1>1, <1>6, <1>10

(* A separator put in is stripped again.                                   *)
LEMMA StripPut ==
  ASSUME NEW T, NEW s \in Seq(T), NEW i \in 1..(Len(s) + 1), NEW c \in T, c \in Separators
  PROVE  strip_separators(Put(s, i, c)) = strip_separators(s)
<1>1. PICK n \in Nat : n = Len(s)
  OBVIOUS
<1> DEFINE u == Put(s, i, c)
<1>2. /\ u \in Seq(T) /\ Len(u) = n + 1 /\ u[i] = c
      /\ \A k \in 1..(i - 1) : u[k] = s[k]
      /\ \A k \in i..n : u[k + 1] = s[k]
  <2>1. /\ Put(s, i, c) \in Seq(T) /\ Len(Put(s, i, c)) = Len(s) + 1 /\ Put(s, i, c)[i] = c
        /\ \A k \in 1..(i - 1) : Put(s, i, c)[k] = s[k]
        /\ \A k \in i..Len(s) : Put(s, i, c)[k + 1] = s[k]
    BY PutIs
  <2>2. QED
    BY <1>1, <2>1
<1>3. i \in 1..(n + 1)
  BY <1>1
<1> HIDE DEF u
<1>4. PICK f : Stripped(s, n, f) /\ strip_separators(s) = f[n]
  BY <1>1, StripIsLoop
<1>5. PICK g : Stripped(u, n + 1, g) /\ strip_separators(u) = g[n + 1]
  BY <1>2, StripIsLoop
<1>6. g[i] = g[i - 1]
  BY <1>2, <1>3, <1>5 DEF Stripped
<1> DEFINE U == {k \in 0..n : (k < i => g[k] = f[k]) /\ (k >= i - 1 => g[k + 1] = f[k])}
<1>7. 0 \in U
  <2>1. g[0] = f[0]
    BY <1>4, <1>5 DEF Stripped
  <2>2. 0 >= i - 1 => i = 1
    BY <1>3
  <2>3. 0 >= i - 1 => g[0 + 1] = f[0]
    BY <1>6, <2>1, <2>2
  <2>4. QED
    BY <2>1, <2>3
<1>8. ASSUME NEW k \in 0..n, k \in U, k < n PROVE k + 1 \in U
  <2> DEFINE l == k + 1
  <2>1. l \in 1..n /\ l \in 0..n /\ l - 1 = k /\ l \in 1..(n + 1) /\ l + 1 \in 1..(n + 1) /\ l + 1 - 1 = l
    BY <1>8
  <2>2. f[l] = IF s[l] \in Separators THEN f[k] ELSE Append(f[k], s[l])
    <3> HIDE DEF l
    <3>1. QED
      BY <1>4, <2>1 DEF Stripped
  <2>3. ASSUME l < i PROVE g[l] = f[l]
    <3>1. g[k] = f[k]
      BY <1>8, <2>3
    <3>2. u[l] = s[l]
      BY <1>2, <2>1, <2>3
    <3>3. g[l] = IF u[l] \in Separators THEN g[k] ELSE Append(g[k], u[l])
      <4> HIDE DEF l
      <4>1. QED
        BY <1>5, <2>1 DEF Stripped
    <3>4. QED
      BY <2>2, <3>1, <3>2, <3>3
  <2>4. ASSUME l >= i - 1 PROVE g[l + 1] = f[l]
    <3>1. CASE l = i - 1
      <4>1. l + 1 = i /\ l < i
        BY <1>3, <3>1
      <4>2. QED
        BY <1>6, <2>3, <3>1, <4>1
    <3>2. CASE l # i - 1
      <4>1. l \in i..n /\ k >= i - 1
        BY <1>3, <2>1, <2>4, <3>2
      <4>2. g[l] = f[k]
        BY <1>8, <4>1
      <4>3. u[l + 1] = s[l]
        BY <1>2, <4>1
      <4>4. g[l + 1] = IF u[l + 1] \in Separators THEN g[l] ELSE Append(g[l], u[l + 1])
        <5> DEFINE q == l + 1
        <5>1. q \in 1..(n + 1) /\ q - 1 = l
          BY <2>1
        <5> HIDE DEF q, l
        <5>2. g[q] = IF u[q] \in Separators THEN g[l] ELSE Append(g[l], u[q])
          BY <1>5, <5>1 DEF Stripped
        <5>3. QED
          BY <5>2 DEF q
      <4>5. QED
        BY <2>2, <4>2, <4>3, <4>4
    <3>3. QED
      BY <3>1, <3>2
  <2>5. QED
    BY <2>1, <2>3, <2>4
<1>9. n \in U
  <2>1. 0..n \subseteq U
    <3> HIDE DEF U
    <3>1. QED
      BY <1>7, <1>8, UpTo
  <2>2. QED
    BY <2>1
<1>10. g[n + 1] = f[n]
  BY <1>3, <1>9
<1>11. QED
  BY <1>4, <1>5, <1>10 DEF u

\* What names are made of.
Chars == Letters \cup Separators \cup Confusables

\* A name and its target with some letters replaced by what looks like them.
Imitates(name, target) ==
  /\ Len(name) = Len(target)
  /\ \A k \in 1..Len(target) :
       \/ name[k] = target[k]
       \/ target[k] \in Folded /\ name[k] = Confusable[target[k]]

\* How a name was made from its target, and what is known of it for that.
Made(P, N) == [target : P, name : N, edits : Nat, swaps : Nat, seps : Nat, folds : Nat]

SquatType(s) == s \in Made(Popular, Seq(Chars))

Edits(s) ==
  /\ s.swaps = 0 => Within(s.name, s.target, s.edits + s.seps + s.folds)
  /\ s.edits = 0 => s.swaps = 0
  /\ s.edits = 1 /\ s.swaps > 0 => osa_distance(s.name, s.target) <= 1

Looks(s) ==
  /\ s.edits = 0 /\ s.seps = 0 /\ s.folds = 0 => s.name = s.target
  /\ s.seps > 0 => s.edits = 0 /\ s.folds = 0
  /\ s.folds > 0 => s.edits = 0 /\ s.seps = 0 /\ \E k \in DOMAIN s.name : s.name[k] \in Confusables
  /\ s.edits = 0 /\ s.seps = 0 => Imitates(s.name, s.target)
  /\ s.edits = 0 /\ s.folds = 0 => strip_separators(s.name) = strip_separators(s.target)

SquatOK(s) == SquatType(s) /\ Edits(s) /\ Looks(s)

SquatInv == SquatOK(squat)

(* What such a record is made of, and that it is made of nothing else.     *)
LEMMA FieldsMade ==
  ASSUME NEW P, NEW N, NEW s \in Made(P, N)
  PROVE  /\ s = [target |-> s.target, name |-> s.name, edits |-> s.edits, swaps |-> s.swaps,
                 seps |-> s.seps, folds |-> s.folds]
         /\ s.target \in P /\ s.name \in N /\ s.edits \in Nat /\ s.swaps \in Nat
         /\ s.seps \in Nat /\ s.folds \in Nat
BY DEF Made

(* The parts of what is known of a name and its target.                    *)
LEMMA SquatFields ==
  ASSUME NEW s, SquatType(s)
  PROVE  /\ s \in Made(Popular, Seq(Chars))
         /\ s.target \in Popular /\ s.name \in Seq(Chars) /\ s.edits \in Nat /\ s.swaps \in Nat
         /\ s.seps \in Nat /\ s.folds \in Nat
         /\ s = [target |-> s.target, name |-> s.name, edits |-> s.edits, swaps |-> s.swaps,
                 seps |-> s.seps, folds |-> s.folds]
BY FieldsMade DEF SquatType

(* A popular name is a sequence of such characters, none a confusable.     *)
LEMMA PopularIsName ==
  ASSUME NEW t \in Popular
  PROVE  t \in Seq(Chars) /\ \A k \in 1..Len(t) : t[k] \in Letters \cup Separators /\ t[k] \notin Confusables
<1>1. t \in Seq(Letters \cup Separators) /\ Confusables \cap (Letters \cup Separators) = {}
  BY NamesAssumption DEF NamesAssumption
<1>2. \A k \in 1..Len(t) : t[k] \in Letters \cup Separators
  BY <1>1
<1>3. t \in Seq(Chars)
  <2>1. Letters \cup Separators \subseteq Chars
    BY DEF Chars
  <2>2. \A k \in 1..Len(t) : t[k] \in Chars
    BY <1>2, <2>1
  <2>3. QED
    BY <1>1, <2>2
<1>4. QED
  BY <1>1, <1>2, <1>3

(* The first name is the popular one.                                      *)
LEMMA SquatStart == SquatInit => SquatInv
<1> SUFFICES ASSUME SquatInit PROVE SquatOK(squat)
  BY DEF SquatInv
<1> DEFINE s == squat
<1>1. /\ s.target \in Popular /\ s.name = s.target /\ s.edits = 0 /\ s.swaps = 0 /\ s.seps = 0 /\ s.folds = 0
      /\ s \in [target : Popular, name : Popular, edits : {0}, swaps : {0}, seps : {0}, folds : {0}]
  BY DEF SquatInit
<1>2. s.target \in Seq(Chars)
  BY <1>1, PopularIsName
<1>3. SquatType(s)
  BY <1>1, <1>2 DEF SquatType, Made
<1>4. Within(s.name, s.target, 0)
  BY <1>1, <1>2, WithinItself
<1> HIDE DEF s
<1>5. Edits(s)
  BY <1>1, <1>4 DEF Edits
<1>6. Looks(s)
  BY <1>1 DEF Looks, Imitates
<1>7. QED
  BY <1>3, <1>5, <1>6 DEF SquatOK, s

(* One more edit, not a swap, of a name that was not imitated otherwise.   *)
LEMMA EditKeeps ==
  ASSUME NEW s, SquatOK(s), s.seps = 0, s.folds = 0, NEW name \in Seq(Chars),
         \A c \in Nat : Within(s.name, s.target, c) => Within(name, s.target, c + 1)
  PROVE  SquatOK([s EXCEPT !.name = name, !.edits = @ + 1, !.swaps = @ + 0])
<1> DEFINE t == [s EXCEPT !.name = name, !.edits = @ + 1, !.swaps = @ + 0]
<1>1. SquatType(s) /\ Edits(s) /\ Looks(s)
  BY DEF SquatOK
<1>2. /\ t.target = s.target /\ t.name = name /\ t.edits = s.edits + 1 /\ t.swaps = s.swaps
      /\ t.seps = 0 /\ t.folds = 0 /\ SquatType(t) /\ s.edits \in Nat /\ s.swaps \in Nat
  <2> DEFINE N == Seq(Chars)
  <2>1. /\ s = [target |-> s.target, name |-> s.name, edits |-> s.edits, swaps |-> s.swaps,
                seps |-> s.seps, folds |-> s.folds]
        /\ s.target \in Popular /\ s.edits \in Nat /\ s.swaps \in Nat /\ s.seps \in Nat /\ s.folds \in Nat
        /\ name \in N
    BY <1>1, SquatFields
  <2>0. t = [s EXCEPT !.name = name, !.edits = @ + 1, !.swaps = @ + 0]
    OBVIOUS
  <2> HIDE DEF N, t
  <2>2. t = [target |-> s.target, name |-> name, edits |-> s.edits + 1, swaps |-> s.swaps + 0,
             seps |-> s.seps, folds |-> s.folds]
    BY <2>0, <2>1, Zenon
  <2>3. /\ t \in Made(Popular, N) /\ t.target = s.target /\ t.name = name /\ t.edits = s.edits + 1
        /\ t.swaps = s.swaps + 0 /\ t.seps = s.seps /\ t.folds = s.folds
    BY <2>1, <2>2 DEF Made
  <2>4. QED
    BY <2>1, <2>3 DEF SquatType, N
<1> HIDE DEF t
<1>3. s.swaps = 0 => Within(s.name, s.target, s.edits)
  BY <1>1, <1>2 DEF Edits
<1>4. s.swaps = 0 => Within(name, s.target, s.edits + 1)
  BY <1>2, <1>3
<1>5. t.edits = 1 => t.swaps = 0
  BY <1>1, <1>2 DEF Edits
<1>6. Edits(t)
  <2>1. t.swaps = 0 => Within(t.name, t.target, t.edits + t.seps + t.folds)
    <3>1. t.edits + t.seps + t.folds = s.edits + 1
      BY <1>2
    <3>2. QED
      BY <1>2, <1>4, <3>1
  <2>2. QED
    BY <1>2, <1>5, <2>1 DEF Edits
<1>7. Looks(t)
  BY <1>2 DEF Looks
<1>8. QED
  BY <1>2, <1>6, <1>7 DEF SquatOK, t

(* Neighbours swapped.                                                     *)
LEMMA SwapKeeps ==
  ASSUME NEW s, SquatOK(s), s.seps = 0, s.folds = 0, NEW i \in 1..(Len(s.name) - 1),
         NEW name, name = [s.name EXCEPT ![i] = s.name[i + 1], ![i + 1] = s.name[i]]
  PROVE  SquatOK([s EXCEPT !.name = name, !.edits = @ + 1, !.swaps = @ + 1])
<1> DEFINE t == [s EXCEPT !.name = name, !.edits = @ + 1, !.swaps = @ + 1]
<1>1. SquatType(s) /\ Edits(s) /\ Looks(s)
  BY DEF SquatOK
<1>2. s.name \in Seq(Chars) /\ s.target \in Popular /\ s.edits \in Nat /\ s.swaps \in Nat
  BY <1>1, SquatFields
<1>3. name \in Seq(Chars)
  <2>1. i \in 1..Len(s.name) /\ i + 1 \in 1..Len(s.name)
    BY <1>2
  <2>2. s.name[i] \in Chars /\ s.name[i + 1] \in Chars
    BY <1>2, <2>1
  <2>3. QED
    BY <1>2, <2>2
<1>4. /\ t.target = s.target /\ t.name = name /\ t.edits = s.edits + 1 /\ t.swaps = s.swaps + 1
      /\ t.seps = 0 /\ t.folds = 0 /\ SquatType(t)
  <2> DEFINE N == Seq(Chars)
  <2>1. /\ s = [target |-> s.target, name |-> s.name, edits |-> s.edits, swaps |-> s.swaps,
                seps |-> s.seps, folds |-> s.folds]
        /\ s.target \in Popular /\ s.edits \in Nat /\ s.swaps \in Nat /\ s.seps \in Nat /\ s.folds \in Nat
        /\ name \in N
    BY <1>1, <1>3, SquatFields
  <2>0. t = [s EXCEPT !.name = name, !.edits = @ + 1, !.swaps = @ + 1]
    OBVIOUS
  <2> HIDE DEF N, t
  <2>2. t = [target |-> s.target, name |-> name, edits |-> s.edits + 1, swaps |-> s.swaps + 1,
             seps |-> s.seps, folds |-> s.folds]
    BY <2>0, <2>1, Zenon
  <2>3. /\ t \in Made(Popular, N) /\ t.target = s.target /\ t.name = name /\ t.edits = s.edits + 1
        /\ t.swaps = s.swaps + 1 /\ t.seps = s.seps /\ t.folds = s.folds
    BY <2>1, <2>2 DEF Made
  <2>4. QED
    BY <2>1, <2>3 DEF SquatType, N
<1> HIDE DEF t
<1>5. t.edits = 1 => osa_distance(t.name, t.target) <= 1
  <2>1. SUFFICES ASSUME s.edits = 0 PROVE osa_distance(name, s.target) <= 1
    BY <1>2, <1>4
  <2>2. s.name = s.target
    BY <1>1, <2>1 DEF Looks
  <2>3. osa_distance([s.name EXCEPT ![i] = s.name[i + 1], ![i + 1] = s.name[i]], s.name) <= 1
    BY <1>2, SwapIsOne
  <2>4. QED
    BY <2>2, <2>3
<1>6. Edits(t)
  BY <1>2, <1>4, <1>5 DEF Edits
<1>7. Looks(t)
  BY <1>2, <1>4 DEF Looks
<1>8. QED
  BY <1>4, <1>6, <1>7 DEF SquatOK, t

(* A separator more.                                                       *)
LEMMA SeparateKeeps ==
  ASSUME NEW s, SquatOK(s), s.edits = 0, s.folds = 0, NEW i \in 2..Len(s.name), NEW c \in Separators
  PROVE  SquatOK([s EXCEPT !.name = Put(@, i, c), !.seps = @ + 1])
<1> DEFINE t == [s EXCEPT !.name = Put(@, i, c), !.seps = @ + 1]
<1>1. SquatType(s) /\ Edits(s) /\ Looks(s)
  BY DEF SquatOK
<1>2. /\ s.name \in Seq(Chars) /\ s.target \in Popular /\ s.seps \in Nat /\ c \in Chars
      /\ i \in 1..(Len(s.name) + 1)
  BY <1>1, SquatFields DEF Chars
<1>3. Put(s.name, i, c) \in Seq(Chars)
  BY <1>2, PutIs
<1>4. /\ t.target = s.target /\ t.name = Put(s.name, i, c) /\ t.edits = 0 /\ t.swaps = s.swaps
      /\ t.seps = s.seps + 1 /\ t.folds = 0 /\ SquatType(t)
  <2> DEFINE N == Seq(Chars)
  <2>1. /\ s = [target |-> s.target, name |-> s.name, edits |-> s.edits, swaps |-> s.swaps,
                seps |-> s.seps, folds |-> s.folds]
        /\ s.target \in Popular /\ s.edits \in Nat /\ s.swaps \in Nat /\ s.seps \in Nat /\ s.folds \in Nat
        /\ Put(s.name, i, c) \in N
    BY <1>1, <1>3, SquatFields
  <2>0. t = [s EXCEPT !.name = Put(@, i, c), !.seps = @ + 1]
    OBVIOUS
  <2> HIDE DEF N, t
  <2>2. t = [target |-> s.target, name |-> Put(s.name, i, c), edits |-> s.edits, swaps |-> s.swaps,
             seps |-> s.seps + 1, folds |-> s.folds]
    BY <2>0, <2>1, Zenon
  <2>3. /\ t \in Made(Popular, N) /\ t.target = s.target /\ t.name = Put(s.name, i, c) /\ t.edits = s.edits
        /\ t.swaps = s.swaps /\ t.seps = s.seps + 1 /\ t.folds = s.folds
    BY <2>1, <2>2 DEF Made
  <2>4. QED
    BY <2>1, <2>3 DEF SquatType, N
<1> HIDE DEF t
<1>5. s.swaps = 0 /\ Within(s.name, s.target, s.seps)
  BY <1>1, <1>2 DEF Edits
<1>6. Within(t.name, t.target, s.seps + 1)
  <2>1. s.target \in Seq(Chars)
    BY <1>2, PopularIsName
  <2>2. Within(Put(s.name, i, c), s.target, s.seps + 1)
    BY <1>2, <1>5, <2>1, PutWithin
  <2>3. QED
    BY <1>4, <2>2
<1>7. Edits(t)
  <2>1. t.edits + t.seps + t.folds = s.seps + 1
    BY <1>2, <1>4
  <2>2. QED
    BY <1>4, <1>5, <1>6, <2>1 DEF Edits
<1>8. strip_separators(t.name) = strip_separators(t.target)
  <2>1. strip_separators(s.name) = strip_separators(s.target)
    BY <1>1 DEF Looks
  <2>2. strip_separators(Put(s.name, i, c)) = strip_separators(s.name)
    BY <1>2, StripPut
  <2>3. QED
    BY <1>4, <2>1, <2>2
<1>9. Looks(t)
  BY <1>2, <1>4, <1>8 DEF Looks
<1>10. QED
  BY <1>4, <1>7, <1>9 DEF SquatOK, t

(* A letter more that only looks like the target's.                        *)
LEMMA ImitateKeeps ==
  ASSUME NEW s, SquatOK(s), s.edits = 0, s.seps = 0, NEW i \in DOMAIN s.name, s.name[i] \in Folded
  PROVE  SquatOK([s EXCEPT !.name[i] = Confusable[@], !.folds = @ + 1])
<1> DEFINE name == [s.name EXCEPT ![i] = Confusable[s.name[i]]]
           t == [s EXCEPT !.name[i] = Confusable[@], !.folds = @ + 1]
<1>1. SquatType(s) /\ Edits(s) /\ Looks(s)
  BY DEF SquatOK
<1>2. s.name \in Seq(Chars) /\ s.target \in Popular /\ s.folds \in Nat /\ i \in 1..Len(s.name)
  BY <1>1, SquatFields
<1>3. Confusable[s.name[i]] \in Confusables /\ Confusables \subseteq Chars
  BY DEF Confusables, Chars
<1>4. /\ name \in Seq(Chars) /\ Len(name) = Len(s.name) /\ name[i] \in Confusables
      /\ DOMAIN name = 1..Len(s.name) /\ name[i] = Confusable[s.name[i]]
      /\ \A k \in 1..Len(s.name) : k # i => name[k] = s.name[k]
  BY <1>2, <1>3
<1>5. /\ t.target = s.target /\ t.name = name /\ t.edits = 0 /\ t.swaps = s.swaps
      /\ t.seps = 0 /\ t.folds = s.folds + 1 /\ SquatType(t)
  <2> DEFINE N == Seq(Chars)
  <2>1. /\ s = [target |-> s.target, name |-> s.name, edits |-> s.edits, swaps |-> s.swaps,
                seps |-> s.seps, folds |-> s.folds]
        /\ s.target \in Popular /\ s.edits \in Nat /\ s.swaps \in Nat /\ s.seps \in Nat /\ s.folds \in Nat
        /\ name \in N
    BY <1>1, <1>4, SquatFields
  <2>0. t = [s EXCEPT !.name[i] = Confusable[@], !.folds = @ + 1]
    OBVIOUS
  <2> HIDE DEF N, t
  <2>2. t = [target |-> s.target, name |-> name, edits |-> s.edits, swaps |-> s.swaps,
             seps |-> s.seps, folds |-> s.folds + 1]
    BY <2>0, <2>1, Zenon
  <2> HIDE DEF name
  <2>3. /\ t \in Made(Popular, N) /\ t.target = s.target /\ t.name = name /\ t.edits = s.edits
        /\ t.swaps = s.swaps /\ t.seps = s.seps /\ t.folds = s.folds + 1
    BY <2>1, <2>2 DEF Made
  <2>4. QED
    BY <2>1, <2>3 DEF SquatType, N
<1>6. Within(name, s.target, s.folds + 1)
  <2>1. Within(s.name, s.target, s.folds)
    BY <1>1, <1>2 DEF Edits
  <2>2. s.target \in Seq(Chars)
    BY <1>2, PopularIsName
  <2>3. QED
    BY <1>2, <1>3, <2>1, <2>2, SubstituteWithin
<1> HIDE DEF t, name
<1>7. Edits(t)
  <2>1. s.swaps = 0
    BY <1>1 DEF Edits
  <2>2. t.edits + t.seps + t.folds = s.folds + 1
    BY <1>2, <1>5
  <2>3. QED
    BY <1>5, <1>6, <2>1, <2>2 DEF Edits
<1>8. Imitates(name, s.target)
  <2>1. Imitates(s.name, s.target)
    BY <1>1 DEF Looks
  <2>2. \A c \in Folded : Confusable[c] \in Confusables
    BY DEF Confusables
  <2>3. Folded \cap Confusables = {}
    BY NamesAssumption DEF NamesAssumption
  <2>4. s.name[i] = s.target[i]
    BY <1>2, <2>1, <2>2, <2>3 DEF Imitates
  <2>5. QED
    BY <1>4, <2>1, <2>4 DEF Imitates
<1>9. Looks(t)
  BY <1>2, <1>4, <1>5, <1>8 DEF Looks
<1>10. QED
  BY <1>5, <1>7, <1>9 DEF SquatOK, t

(* Every edit keeps what is known of the name.                             *)
LEMMA SquatStep == SquatInv /\ [SquatNext]_squat => SquatInv'
<1> SUFFICES ASSUME SquatOK(squat), [SquatNext]_squat PROVE SquatOK(squat')
  BY DEF SquatInv
<1>0. /\ squat.name \in Seq(Chars) /\ squat.target \in Popular /\ squat.target \in Seq(Chars)
      /\ Letters \subseteq Chars
  BY PopularIsName, SquatFields DEF SquatOK, Chars
<1>1. CASE Insert
  <2>1. PICK i \in 1..(Len(squat.name) + 1), c \in Letters : Edited(Put(squat.name, i, c), 0)
    BY <1>1 DEF Insert
  <2>2. /\ squat' = [squat EXCEPT !.name = Put(squat.name, i, c), !.edits = @ + 1, !.swaps = @ + 0]
        /\ squat.seps = 0 /\ squat.folds = 0
    BY <2>1 DEF Edited
  <2>3. Put(squat.name, i, c) \in Seq(Chars)
    BY <1>0, PutIs
  <2>4. \A n \in Nat : Within(squat.name, squat.target, n) => Within(Put(squat.name, i, c), squat.target, n + 1)
    BY <1>0, PutWithin
  <2>5. QED
    BY <2>2, <2>3, <2>4, EditKeeps
<1>2. CASE Delete
  <2>1. PICK i \in DOMAIN squat.name : Edited(Cut(squat.name, i), 0)
    BY <1>2 DEF Delete
  <2>2. /\ squat' = [squat EXCEPT !.name = Cut(squat.name, i), !.edits = @ + 1, !.swaps = @ + 0]
        /\ squat.seps = 0 /\ squat.folds = 0
    BY <2>1 DEF Edited
  <2>3. i \in 1..Len(squat.name)
    BY <1>0
  <2>4. Cut(squat.name, i) \in Seq(Chars)
    BY <1>0, <2>3, CutIs
  <2>5. \A n \in Nat : Within(squat.name, squat.target, n) => Within(Cut(squat.name, i), squat.target, n + 1)
    BY <1>0, <2>3, CutWithin
  <2>6. QED
    BY <2>2, <2>4, <2>5, EditKeeps
<1>3. CASE Substitute
  <2>1. PICK i \in DOMAIN squat.name, c \in Letters : Edited([squat.name EXCEPT ![i] = c], 0)
    BY <1>3 DEF Substitute
  <2>2. /\ squat' = [squat EXCEPT !.name = [squat.name EXCEPT ![i] = c], !.edits = @ + 1, !.swaps = @ + 0]
        /\ squat.seps = 0 /\ squat.folds = 0
    BY <2>1 DEF Edited
  <2>3. i \in 1..Len(squat.name) /\ c \in Chars
    BY <1>0
  <2>4. [squat.name EXCEPT ![i] = c] \in Seq(Chars)
    BY <1>0, <2>3
  <2>5. \A n \in Nat :
          Within(squat.name, squat.target, n) => Within([squat.name EXCEPT ![i] = c], squat.target, n + 1)
    BY <1>0, <2>3, SubstituteWithin
  <2>6. QED
    BY <2>2, <2>4, <2>5, EditKeeps
<1>4. CASE Swap
  <2>1. PICK i \in 1..(Len(squat.name) - 1) :
          Edited([squat.name EXCEPT ![i] = squat.name[i + 1], ![i + 1] = squat.name[i]], 1)
    BY <1>4 DEF Swap
  <2>2. PICK name : name = [squat.name EXCEPT ![i] = squat.name[i + 1], ![i + 1] = squat.name[i]]
    OBVIOUS
  <2>3. /\ squat' = [squat EXCEPT !.name = name, !.edits = @ + 1, !.swaps = @ + 1]
        /\ squat.seps = 0 /\ squat.folds = 0
    BY <2>1, <2>2 DEF Edited
  <2>4. QED
    BY <2>2, <2>3, SwapKeeps
<1>5. CASE Separate
  <2>1. PICK i \in 2..Len(squat.name), c \in Separators :
          squat' = [squat EXCEPT !.name = Put(@, i, c), !.seps = @ + 1]
    BY <1>5 DEF Separate
  <2>2. squat.edits = 0 /\ squat.folds = 0
    BY <1>5 DEF Separate
  <2>3. QED
    BY <2>1, <2>2, SeparateKeeps
<1>6. CASE Imitate
  <2>1. PICK i \in DOMAIN squat.name :
          /\ squat.name[i] \in Folded
          /\ squat' = [squat EXCEPT !.name[i] = Confusable[@], !.folds = @ + 1]
    BY <1>6 DEF Imitate
  <2>2. squat.edits = 0 /\ squat.seps = 0
    BY <1>6 DEF Imitate
  <2>3. QED
    BY <2>1, <2>2, ImitateKeeps
<1>7. CASE UNCHANGED squat
  BY <1>7
<1>8. QED
  BY <1>1, <1>2, <1>3, <1>4, <1>5, <1>6, <1>7 DEF SquatNext

(* So it holds however a name is made.                                     *)
LEMMA SquatInvariant == SquatInit /\ [][SquatNext]_squat => []SquatInv
BY SquatStart, SquatStep, PTL

(* The distance counts the edits: never more than were made, unless        *)
(* neighbours were swapped and edited again, the same in both directions,  *)
(* at least the difference in length, and none only for the same name, for *)
(* every corpus, alphabet and number of edits (osa_distance).              *)
THEOREM EditsAreCounted == SquatInit /\ [][SquatNext]_squat => []DistanceCountsEdits
<1>1. SquatInv => DistanceCountsEdits
  <2> SUFFICES ASSUME SquatOK(squat) PROVE DistanceCountsEdits
    BY DEF SquatInv
  <2> DEFINE d == osa_distance(squat.name, squat.target)
  <2>1. SquatType(squat) /\ Edits(squat)
    BY DEF SquatOK
  <2>2. /\ squat.name \in Seq(Chars) /\ squat.target \in Seq(Chars)
        /\ squat.edits \in Nat /\ squat.swaps \in Nat /\ squat.seps \in Nat /\ squat.folds \in Nat
    BY <2>1, PopularIsName, SquatFields
  <2>3. /\ d \in Nat
        /\ d = osa_distance(squat.target, squat.name)
        /\ d >= Len(squat.name) - Len(squat.target) /\ d >= Len(squat.target) - Len(squat.name)
    BY <2>2, DistanceIsFair
  <2>4. d = 0 <=> squat.name = squat.target
    BY <2>2, NoDistanceIfSame
  <2>5. squat.swaps = 0 => d <= squat.edits + squat.seps + squat.folds
    <3>1. squat.edits + squat.seps + squat.folds \in Nat
      BY <2>2
    <3>2. squat.swaps = 0 => Within(squat.name, squat.target, squat.edits + squat.seps + squat.folds)
      BY <2>1 DEF Edits
    <3>3. QED
      BY <2>2, <3>1, <3>2, DistanceWithin
  <2>6. squat.swaps # 0 /\ squat.edits <= 1 => d <= squat.edits + squat.seps + squat.folds
    <3>1. squat.swaps # 0 /\ squat.edits <= 1 => squat.edits = 1 /\ squat.swaps > 0
      BY <2>1, <2>2 DEF Edits
    <3>2. squat.swaps # 0 /\ squat.edits <= 1 => d <= 1
      BY <2>1, <3>1 DEF Edits
    <3>3. QED
      BY <2>2, <2>3, <3>1, <3>2
  <2> HIDE DEF d
  <2>7. QED
    BY <2>3, <2>4, <2>5, <2>6 DEF DistanceCountsEdits, d
<1>2. QED
  BY <1>1, SquatInvariant, PTL

(* Folding undoes an imitation.                                            *)
LEMMA FoldUndoes ==
  ASSUME NEW target \in Popular, NEW name \in Seq(Chars), Imitates(name, target)
  PROVE  fold_confusables(name) = target
<1>1. PICK n \in Nat : n = Len(target)
  BY PopularIsName
<1>2. /\ Len(name) = n /\ DOMAIN name = 1..n /\ target \in [1..n -> Chars]
      /\ \A k \in 1..n : name[k] = target[k] \/ (target[k] \in Folded /\ name[k] = Confusable[target[k]])
  BY <1>1, PopularIsName DEF Imitates
<1>3. ASSUME NEW k \in 1..n PROVE fold_confusables(name)[k] = target[k]
  <2>1. fold_confusables(name)[k] =
          IF name[k] \in Confusables THEN CHOOSE c \in Folded : Confusable[c] = name[k] ELSE name[k]
    BY <1>2 DEF fold_confusables
  <2>2. CASE name[k] = target[k]
    BY <1>1, <2>1, <2>2, PopularIsName
  <2>3. CASE target[k] \in Folded /\ name[k] = Confusable[target[k]]
    <3>1. name[k] \in Confusables
      BY <2>3 DEF Confusables
    <3>2. \A c \in Folded : Confusable[c] = name[k] => c = target[k]
      BY <2>3, NamesAssumption DEF NamesAssumption
    <3>3. (CHOOSE c \in Folded : Confusable[c] = name[k]) = target[k]
      BY <2>3, <3>2
    <3>4. QED
      BY <2>1, <3>1, <3>3
  <2>4. QED
    BY <1>2, <2>2, <2>3
<1>4. fold_confusables(name) = [k \in 1..n |-> fold_confusables(name)[k]]
  BY <1>2 DEF fold_confusables
<1>5. QED
  BY <1>2, <1>3, <1>4

(* The bytes of a name are a number.                                       *)
LEMMA BytesAreCounted ==
  ASSUME NEW s \in Seq(Chars)
  PROVE  Bytes(s) \in Nat
<1> DEFINE C == {i \in DOMAIN s : s[i] \in Confusables}
<1>1. IsFiniteSet(1..Len(s)) /\ C \subseteq 1..Len(s) /\ Len(s) \in Nat
  BY FS_Interval
<1>2. IsFiniteSet(C)
  BY <1>1, FS_Subset
<1>3. Cardinality(C) \in Nat
  BY <1>2, FS_CardinalityType
<1>4. QED
  BY <1>1, <1>3 DEF Bytes

(* What is detected is at most what one popular name is classified as.     *)
LEMMA DetectIsLeast ==
  ASSUME NEW name \in Seq(Chars), name \notin Popular, Bytes(name) >= 3, ~Scoped(name), NEW t \in Popular
  PROVE  detect(name) \in Nat /\ detect(name) <= classify(name, t)
<1> DEFINE S == {classify(name, p) : p \in Popular}
<1>1. S \in SUBSET Nat /\ classify(name, t) \in S
  <2>1. \A p \in Popular : classify(name, p) \in 0..3
    BY DEF classify
  <2>2. QED
    BY <2>1
<1>2. ~(Bytes(name) < 3)
  BY BytesAreCounted
<1>3. detect(name) = Least(S)
  BY <1>2 DEF detect
<1> HIDE DEF S
<1>4. S # {}
  BY <1>1
<1>5. Least(S) \in S /\ Least(S) <= classify(name, t)
  BY <1>1, <1>4, LeastIs
<1>6. QED
  BY <1>1, <1>3, <1>5

(* A look-alike is found: one edit away from a target of four bytes, or    *)
(* any number of separators or folded confusables away, unless scoped, too *)
(* short or popular, for every corpus and alphabet (detect, classify).     *)
THEOREM ImpostorsAreFound == SquatInit /\ [][SquatNext]_squat => []LookalikesAreFound
<1>1. SquatInv => LookalikesAreFound
  <2> SUFFICES ASSUME SquatOK(squat) PROVE LookalikesAreFound
    BY DEF SquatInv
  <2> DEFINE name == squat.name
             target == squat.target
             d == osa_distance(name, target)
  <2>1. SquatType(squat) /\ Edits(squat) /\ Looks(squat)
    BY DEF SquatOK
  <2>2. /\ name \in Seq(Chars) /\ target \in Popular /\ target \in Seq(Chars)
        /\ squat.edits \in Nat /\ squat.swaps \in Nat /\ squat.seps \in Nat /\ squat.folds \in Nat
    BY <2>1, PopularIsName, SquatFields
  <2>3. SUFFICES ASSUME name \notin Popular, Bytes(name) >= 3, ~Scoped(name)
                 PROVE  /\ squat.edits = 1 /\ Bytes(target) >= 4 => detect(name) <= 1
                        /\ squat.seps > 0 \/ squat.folds > 0 => detect(name) = 0
    BY DEF LookalikesAreFound
  <2>4. detect(name) \in Nat /\ detect(name) <= classify(name, target) /\ name # target
    BY <2>2, <2>3, DetectIsLeast
  <2>5. ASSUME squat.edits = 1, Bytes(target) >= 4 PROVE detect(name) <= 1
    <3>1. d \in Nat /\ d # 0
      BY <2>2, <2>4, DistanceIsFair, NoDistanceIfSame
    <3>2. squat.seps = 0 /\ squat.folds = 0
      BY <2>1, <2>2, <2>5 DEF Looks
    <3>3. d <= 1
      <4>1. CASE squat.swaps = 0
        <5>1. squat.edits + squat.seps + squat.folds = 1
          BY <2>5, <3>2
        <5>2. PICK one \in Nat : one = 1
          OBVIOUS
        <5>3. Within(name, target, one)
          BY <2>1, <4>1, <5>1, <5>2 DEF Edits
        <5>4. d <= one
          BY <2>2, <5>3, DistanceWithin
        <5>5. QED
          BY <5>2, <5>4
      <4>2. CASE squat.swaps # 0
        BY <2>1, <2>2, <2>5, <4>2 DEF Edits
      <4>3. QED
        BY <4>1, <4>2
    <3>4. d = 1
      BY <3>1, <3>3
    <3>5. classify(name, target) \in 0..1
      <4> HIDE DEF name, target
      <4>1. QED
        BY <2>5, <3>4 DEF classify
    <3>6. QED
      BY <2>4, <3>5
  <2>6. ASSUME squat.seps > 0 PROVE detect(name) = 0
    <3>1. strip_separators(name) = strip_separators(target)
      BY <2>1, <2>6 DEF Looks
    <3>2. classify(name, target) = 0
      BY <2>4, <3>1 DEF classify
    <3>3. QED
      BY <2>4, <3>2
  <2>7. ASSUME squat.folds > 0 PROVE detect(name) = 0
    <3>1. Imitates(name, target)
      BY <2>1, <2>7 DEF Looks
    <3>2. fold_confusables(name) = target
      BY <2>2, <3>1, FoldUndoes
    <3>3. classify(name, target) = 0
      BY <2>4, <3>2 DEF classify
    <3>4. QED
      BY <2>4, <3>3
  <2>8. QED
    BY <2>5, <2>6, <2>7
<1>2. QED
  BY <1>1, SquatInvariant, PTL
=============================================================================
