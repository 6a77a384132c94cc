------------------------------ MODULE Releases ------------------------------
(***************************************************************************)
(* A package's releases and what the extractor finds in each of them       *)
(* (registry.rs, extractor.rs): versions are published and unpublished,    *)
(* and every extraction picks the predecessor and counts the burst from    *)
(* the packument of the moment, whose time map keeps unpublished versions. *)
(***************************************************************************)
EXTENDS Detectors, Sequences

CONSTANTS
  Artifacts,    \* what a tarball, its metadata and its attestation may say
  Hour,         \* one hour, in ticks
  Gaps,         \* time between two publications
  MaxReleases   \* bound on the versions published

\* The registry gives a release a later time than the one before it.
ASSUME GapsAssumption == Gaps \subseteq Nat \ {0} /\ Hour \in Nat /\ MaxReleases \in Nat
ASSUME ThresholdAssumption == BURST_THRESHOLD \in Nat

VARIABLE
  pkg   \* the releases in the order of publication, and those unpublished

time(v) == pkg.rel[v].at
Versions == DOMAIN pkg.rel \ pkg.gone

ReleasesInit == pkg = [rel |-> <<>>, gone |-> {}]

Publish(a, gap) ==
  /\ Len(pkg.rel) < MaxReleases
  /\ LET last == IF pkg.rel = <<>> THEN 0 ELSE time(Len(pkg.rel))
     IN  pkg' = [pkg EXCEPT !.rel = Append(@, [at |-> last + gap, art |-> a])]

Unpublish(v) == v \in Versions /\ pkg' = [pkg EXCEPT !.gone = @ \cup {v}]

ReleasesNext ==
  \/ \E a \in Artifacts, gap \in Gaps : Publish(a, gap)
  \/ \E v \in DOMAIN pkg.rel : Unpublish(v)

ReleasesSpec == ReleasesInit /\ [][ReleasesNext]_pkg

Latest(S) == CHOOSE v \in S : \A w \in S : time(w) <= time(v)

\* Mutated: unpublished versions, which the time map keeps, count.
prior_version_AnyInTimeMap(v) ==
  LET before == {w \in DOMAIN pkg.rel : time(w) < time(v)}
  IN  IF before = {} THEN 0 ELSE Latest(before)

\* 0 for a first publication.
prior_version(v) ==
  LET before == {w \in Versions : time(w) < time(v)}
  IN  IF before = {} THEN 0 ELSE Latest(before)

\* Mutated: the hour begins anew with every day's first release.
republish_burst_Consecutive(v) ==
  IF v - 1 \in Versions /\ time(v) - time(v - 1) <= Hour THEN 1 ELSE 0

republish_burst(v) == Cardinality({w \in Versions : time(w) < time(v) /\ time(v) - time(w) <= Hour})

Built(a, burst) ==
  [scripts |-> a.scripts, gyp |-> a.gyp, user |-> a.user, maintainers |-> a.maintainers,
   claimed |-> a.claimed, attested |-> a.attested, verified |-> a.verified, squat |-> a.squat,
   burst |-> burst]

ASSUME PriorAssumption == \A a \in Artifacts, burst \in 0..MaxReleases : Built(a, burst) # NoScript

\* Metadata of a version that the packument does not list is an error.
build_artifact(v) == Built(pkg.rel[v].art, republish_burst(v))

\* The findings of an extraction that nothing stops; {} when it is stopped.
extract_and_store(v) ==
  LET p == prior_version(v)
  IN  IF p # 0 /\ p \notin Versions THEN {}
      ELSE extract_signals(build_artifact(v), IF p = 0 THEN NoScript ELSE build_artifact(p))

-----------------------------------------------------------------------------
Cmd(v, k) == IF pkg.rel[v].art.scripts[k] = NoScript THEN NoScript ELSE pkg.rel[v].art.scripts[k].cmd

\* A lifecycle command that differs between two releases was flagged on its way.
ScriptChangesAreFlagged ==
  \A v, w \in Versions, k \in Keys :
    v < w /\ Cmd(w, k) # Cmd(v, k) /\ Cmd(w, k) # NoScript =>
      \E u \in Versions : v < u /\ u <= w /\ "new_lifecycle_script" \in extract_and_store(u)

\* Whoever publishes for the first time, and was no maintainer before, is flagged.
NewcomersAreFlagged ==
  \A w \in Versions :
    LET earlier == {v \in Versions : v < w}
        user == pkg.rel[w].art.user
    IN  /\ earlier # {} /\ user # NoScript
        /\ \A v \in earlier : user # pkg.rel[v].art.user /\ user \notin pkg.rel[v].art.maintainers
        => "maintainer_change" \in extract_and_store(w)

\* Of any run of releases within an hour that is longer than the threshold allows,
\* the last is flagged.
BurstsAreFlagged ==
  \A v, w \in Versions :
    /\ time(w) - time(v) \in 0..Hour
    /\ Cardinality({u \in Versions : v <= u /\ u <= w}) > BURST_THRESHOLD + 1
    => "republish" \in extract_and_store(w)

(* What is new about a release is flagged in it or on the way to it,       *)
(* whatever was unpublished in between: another lifecycle command, another *)
(* publisher, a burst (lifecycle_script.rs, maintainer.rs, republish.rs    *)
(* with prior_version and republish_burst).                                *)
NoveltiesAreFlagged == ScriptChangesAreFlagged /\ NewcomersAreFlagged /\ BurstsAreFlagged

\* What a chain is made of.
Parts(c) ==
  CASE c = "stealer_chain" -> {"new_lifecycle_script", "capability_dep"}
    [] c = "out_of_pipeline_chain" -> {"tarball_mismatch"}
    [] c = "native_exec_chain" -> {"binding_gyp", "obfuscation"}
    [] c = "lookalike_dropper" -> {"typosquat"}
    [] OTHER -> {}

(* A known past only excuses: with its predecessor unpublished a release   *)
(* is found guilty of the same, or more, except of a change of hands; and  *)
(* no chain is reported without what it is made of.                        *)
PastOnlyExcuses ==
  \A v \in Versions :
    /\ extract_and_store(v) \subseteq
         extract_signals(build_artifact(v), NoScript) \cup {"maintainer_change"}
    /\ \A s \in extract_and_store(v) : Parts(s) \subseteq extract_and_store(v)
=============================================================================
