----------------------------- MODULE PolicyRules -----------------------------
(***************************************************************************)
(* The policy resolver (core policy.rs): which rule of a ruleset decides   *)
(* about a package.  A scope is a set of globs; a glob is the one for all  *)
(* packages, the wildcard of a package scope, another wildcard or an exact *)
(* name, and it is represented by its kind and the packages it matches.    *)
(***************************************************************************)
EXTENDS Integers, FiniteSets, Sequences

CONSTANTS
  Packages,   \* exact names
  Globs,      \* the globs in use: their kind and the packages they match
  RuleChoices, \* the rules an operator may add
  MaxRules

VARIABLE rules   \* the ruleset, as an operator builds it up

GlobKind == {"all", "wildcard", "scope_wildcard", "exact"}
PolicyRule == [scope : SUBSET Globs, enabled : BOOLEAN, fast_track : SUBSET Packages]

ASSUME GlobsAssumption == Globs \subseteq [kind : GlobKind, matches : SUBSET Packages]
ASSUME RulesAssumption == RuleChoices \subseteq PolicyRule

glob_specificity(g) ==
  CASE g.kind = "all" -> 0
    [] g.kind = "wildcard" -> 1
    [] g.kind = "scope_wildcard" -> 2
    [] g.kind = "exact" -> 4

\* Mutated: the specificity of the first glob that was written.
scope_specificity_Least(scope) ==
  CHOOSE n \in {glob_specificity(g) : g \in scope} : \A g \in scope : n <= glob_specificity(g)

\* The best of the scope's globs, whichever of them matches the package.
scope_specificity(scope) ==
  CHOOSE n \in {glob_specificity(g) : g \in scope} : \A g \in scope : n >= glob_specificity(g)

is_match(rule, package) == \E g \in rule.scope : package \in g.matches

\* Mutated: a later rule of the same specificity takes over.
beats_Later(i, best) ==
  best = 0 \/ scope_specificity(rules[i].scope) >= scope_specificity(rules[best].scope)

beats(i, best) ==
  best = 0 \/ scope_specificity(rules[i].scope) > scope_specificity(rules[best].scope)

\* The scan of PolicyResolver: the index of the winning rule, or 0.
resolve(package) ==
  LET best[i \in 0..Len(rules)] ==
        IF i = 0 THEN 0
        ELSE IF rules[i].enabled /\ is_match(rules[i], package) /\ beats(i, best[i - 1]) THEN i
        ELSE best[i - 1]
  IN  best[Len(rules)]

\* Mutated: any matching rule may fast-track.
is_fast_tracked_AnyRule(package) ==
  \E i \in DOMAIN rules : rules[i].enabled /\ is_match(rules[i], package) /\ package \in rules[i].fast_track

is_fast_tracked(package) ==
  LET i == resolve(package) IN i # 0 /\ package \in rules[i].fast_track

-----------------------------------------------------------------------------
RulesInit == rules = <<>>

AddRule(r) == Len(rules) < MaxRules /\ rules' = Append(rules, r)
Disable(i) == rules[i].enabled /\ rules' = [rules EXCEPT ![i].enabled = FALSE]

RulesNext == (\E r \in RuleChoices : AddRule(r)) \/ (\E i \in DOMAIN rules : Disable(i))

\* Reference: of the matching rules the most specific ones, of those the first.
Matching(package) == {i \in DOMAIN rules : rules[i].enabled /\ is_match(rules[i], package)}
Wins(i, package) ==
  /\ i \in Matching(package)
  /\ \A j \in Matching(package) :
       \/ scope_specificity(rules[j].scope) < scope_specificity(rules[i].scope)
       \/ scope_specificity(rules[j].scope) = scope_specificity(rules[i].scope) /\ i <= j

\* The most specific matching rule decides, the earliest of equals, and none only
\* if none matches.
BestRuleDecides ==
  \A p \in Packages :
    LET i == resolve(p) IN IF Matching(p) = {} THEN i = 0 ELSE Wins(i, p)

\* No glob of another rule fits a package better than the one the deciding rule matches
\* it by, unless that rule's globs differ in specificity.
NothingFitsBetter ==
  \A p \in Packages, i \in DOMAIN rules :
    \A g \in rules[i].scope :
      LET decides == rules[resolve(p)].scope
      IN  /\ rules[i].enabled /\ p \in g.matches
          /\ \A h, k \in decides : glob_specificity(h) = glob_specificity(k)
          => \E h \in decides : p \in h.matches /\ glob_specificity(h) >= glob_specificity(g)

(* The rule with the most specific glob decides among those that match,    *)
(* the earliest of equals ("most-specific-wins", policy.rs:144), however   *)
(* the ruleset grows and whatever is disabled.  A rule scores by its best  *)
(* glob, matching or not (policy.rs:125): one whose globs are equally      *)
(* specific never decides about a package that another rule's glob fits    *)
(* better, so not by a wildcard where a rule names the package.            *)
MostSpecificFirst == BestRuleDecides /\ NothingFitsBetter

(* Adding a rule at the end changes the decision about a package only to   *)
(* that rule, and disabling one only where it decided; a package's fast    *)
(* track does not change with a rule that does not decide about it.        *)
EditsAreLocal ==
  [][\A p \in Packages :
       LET before == resolve(p)
           after == resolve(p)'
       IN  \/ after = before /\ (is_fast_tracked(p)' <=> is_fast_tracked(p))
           \/ Len(rules') > Len(rules) /\ after = Len(rules')
           \/ Len(rules') = Len(rules) /\ before # 0 /\ ~rules'[before].enabled]_rules
=============================================================================
