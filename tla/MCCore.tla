------------------------------- MODULE MCCore -------------------------------
(***************************************************************************)
(* The pure functions of the engine and the gate over bounded inputs: one  *)
(* behaviour builds the input of one of them step by step, and the others  *)
(* keep the first of theirs.                                               *)
(***************************************************************************)
EXTENDS MCVerdict, Releases, Typosquat, PolicyRules, Provenance, Weights, Lockfiles

VARIABLE about   \* the function whose input is built

Subjects == {"verdict", "releases", "name", "policy", "provenance", "weights", "lockfile"}

CoreVars == <<about, in, pkg, squat, rules, signed, configured, compared, atts, weights, lock>>

CoreInit ==
  /\ about \in Subjects
  /\ IF about = "verdict" THEN Init ELSE in = CHOOSE i \in Inputs : TRUE
  /\ IF about = "name" THEN SquatInit
     ELSE squat = [target |-> <<>>, name |-> <<>>, edits |-> 0, swaps |-> 0, seps |-> 0, folds |-> 0]
  /\ IF about = "provenance" THEN ChainInit ELSE signed = {} /\ configured = FALSE /\ compared = {} /\ atts = <<>>
  /\ IF about = "lockfile" THEN LockInit ELSE lock = [format |-> "bun", entries |-> <<>>, deps |-> {}, strays |-> {}]
  /\ ReleasesInit /\ RulesInit /\ WeightsInit

\* Only the input of the subject changes.
Building(subject) ==
  /\ about = subject /\ about' = about
  /\ subject # "verdict" => in' = in
  /\ subject # "releases" => pkg' = pkg
  /\ subject # "name" => squat' = squat
  /\ subject # "policy" => rules' = rules
  /\ subject # "provenance" => UNCHANGED <<signed, configured, compared, atts>>
  /\ subject # "weights" => weights' = weights
  /\ subject # "lockfile" => lock' = lock

CoreNext ==
  \/ Building("verdict") /\ Age
  \/ Building("verdict") /\ Find
  \/ Building("verdict") /\ Attest
  \/ \E a \in Artifacts, gap \in Gaps : Building("releases") /\ Publish(a, gap)
  \/ \E v \in DOMAIN pkg.rel : Building("releases") /\ Unpublish(v)
  \/ Building("name") /\ Insert
  \/ Building("name") /\ Delete
  \/ Building("name") /\ Substitute
  \/ Building("name") /\ Swap
  \/ Building("name") /\ Separate
  \/ Building("name") /\ Imitate
  \/ \E r \in RuleChoices : Building("policy") /\ AddRule(r)
  \/ \E i \in DOMAIN rules : Building("policy") /\ Disable(i)
  \/ \E i \in Issuers, s \in Certs : Building("provenance") /\ Sign(i, s)
  \/ \E f \in Attestations : Building("provenance") /\ Present(f)
  \/ \E w \in 0..(2 * Half - 1) : Building("weights") /\ ReportWeight(w)
  \/ \E d \in Deps, front \in Fronts(lock.format), behind \in Behinds(lock.format), place \in Places :
       Building("lockfile") /\ Add(d, front, behind, place)
  \/ \E o \in Own(lock.format), place \in Places : Building("lockfile") /\ AddOther(o, place)
  \/ \E d \in Deps, place \in Places : \E o \in Redirected(lock.format, d) : Building("lockfile") /\ AddOther(o, place)

CoreSpec == CoreInit /\ [][CoreNext]_CoreVars

-----------------------------------------------------------------------------
Text(cmd, marks) == [cmd |-> cmd, marks |-> marks]

Scripts ==
  [Keys -> {NoScript, Text("c1", {}), Text("c1", {"network", "secret"}), Text("c2", {"pattern", "packed"}),
            Text(Blank, {})}]

Art(s, g, u, ms, attested, sq) ==
  [scripts |-> s, gyp |-> g, user |-> u, maintainers |-> ms, claimed |-> "r1", attested |-> attested,
   verified |-> attested = "r1", squat |-> sq]

SomeArtifacts ==
  {Art(s, FALSE, "u1", {"u1"}, "r1", FALSE) : s \in Scripts}
  \cup {Art(s, g, "u2", {"u1", "u2"}, "r2", g) : s \in Scripts, g \in BOOLEAN}

Corpus == {<<"a", "b", "b", "a">>, <<"a", "b", "a", "b", "b", "a", "a", "b">>, <<"a", "a">>}

Glob(kind, matches) == [kind |-> kind, matches |-> matches]
SomeGlobs ==
  {Glob("all", Packages), Glob("scope_wildcard", {"@s/x"}), Glob("wildcard", {"p"}),
   Glob("exact", {"p"}), Glob("exact", {"@s/x"})}

SomeRules ==
  {[scope |-> s, enabled |-> TRUE, fast_track |-> f] :
     s \in {{g} : g \in SomeGlobs} \cup {{Glob("exact", {"p"}), Glob("all", Packages)}},
     f \in {{}, {"p"}}}

SomeAttestations == {{}, {"other"}, {"broken"}, {"issuer"}, {"repo"}, {"issuer", "repo"}}

SomeDeps == {[name |-> n, version |-> v] : n \in {<<"a">>, <<"@", "s", "/", "b">>}, v \in {"1", "2"}}
AllWords == {"a", "b", "s", "1", "2", "w", "v", ")", "range", "npm:", "npm:range", "patch:", "workspace:",
             "https:", "packages/"}
AllFormats == {"npm", "npm1", "pnpm", "yarn", "berry", "bun"}
=============================================================================
