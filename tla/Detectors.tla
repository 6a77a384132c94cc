------------------------------ MODULE Detectors ------------------------------
(***************************************************************************)
(* The behavioural detectors of embargo-core (signals/): what is found in  *)
(* a version's artifact compared with that of its predecessor, and the     *)
(* composite chains over those findings.  A script is its command and the  *)
(* markers its text holds; a repository is compared by its normal form.    *)
(***************************************************************************)
EXTENDS Integers, FiniteSets

CONSTANTS
  Keys,            \* LIFECYCLE_KEYS
  NoScript,        \* a key that is not there; also no predecessor, no repository, no user
  Blank,           \* an empty command
  BURST_THRESHOLD

Markers == {"network", "process", "secret", "pattern", "packed"}

LifecycleScripts(a) == {k \in Keys : a.scripts[k] # NoScript}

\* install_script_text, as far as the scans tell it apart.
install_script_text(a) == UNION {a.scripts[k].marks : k \in LifecycleScripts(a)}

capabilities(a) == install_script_text(a) \cap {"network", "process", "secret"}

\* Added, or with another command; the files it runs are not compared.
Changed(a, prior, k) ==
  prior # NoScript /\ prior.scripts[k] # NoScript => prior.scripts[k].cmd # a.scripts[k].cmd

\* Mutated: the maintainers are those of the version itself.
Newcomer_OwnMaintainers(a, prior) ==
  /\ prior # NoScript /\ a.user # NoScript
  /\ a.user \notin a.maintainers /\ prior.user # a.user

Newcomer(a, prior) ==
  /\ prior # NoScript /\ a.user # NoScript
  /\ a.user \notin prior.maintainers /\ prior.user # a.user

lifecycle_script(a, prior) == \E k \in LifecycleScripts(a) : Changed(a, prior, k)

binding_gyp(a, prior) == a.gyp /\ (prior # NoScript => ~prior.gyp)

capability_dep(a) == capabilities(a) # {}

tarball_mismatch(a) == a.claimed # NoScript /\ a.attested # NoScript /\ a.claimed # a.attested

\* A suspicious call alone is no finding, nor is a long random-looking word.
obfuscation(a) == {"pattern", "packed"} \subseteq install_script_text(a)

republish(a) == a.burst > BURST_THRESHOLD

\* The findings of the single detectors.
Singles(a, prior) ==
  {d \in {"new_lifecycle_script", "binding_gyp", "capability_dep", "tarball_mismatch",
          "obfuscation", "republish", "maintainer_change", "typosquat"} :
     \/ d = "new_lifecycle_script" /\ lifecycle_script(a, prior)
     \/ d = "binding_gyp" /\ binding_gyp(a, prior)
     \/ d = "capability_dep" /\ capability_dep(a)
     \/ d = "tarball_mismatch" /\ tarball_mismatch(a)
     \/ d = "obfuscation" /\ obfuscation(a)
     \/ d = "republish" /\ republish(a)
     \/ d = "maintainer_change" /\ Newcomer(a, prior)
     \/ d = "typosquat" /\ a.squat}

\* Mutated: one of the two findings makes the native-exec chain.
Chains_EitherPart(a, found) ==
  {c \in {"stealer_chain", "out_of_pipeline_chain", "native_exec_chain", "lookalike_dropper"} :
     \/ /\ c = "stealer_chain" /\ {"new_lifecycle_script", "capability_dep"} \subseteq found
        /\ {"network", "secret"} \subseteq capabilities(a)
     \/ c = "out_of_pipeline_chain" /\ ~a.verified /\ "tarball_mismatch" \in found
     \/ c = "native_exec_chain" /\ {"binding_gyp", "obfuscation"} \cap found # {}
     \/ /\ c = "lookalike_dropper" /\ "typosquat" \in found
        /\ \E k \in LifecycleScripts(a) : a.scripts[k].cmd # Blank}

Chains(a, found) ==
  {c \in {"stealer_chain", "out_of_pipeline_chain", "native_exec_chain", "lookalike_dropper"} :
     \/ /\ c = "stealer_chain" /\ {"new_lifecycle_script", "capability_dep"} \subseteq found
        /\ {"network", "secret"} \subseteq capabilities(a)
     \/ c = "out_of_pipeline_chain" /\ ~a.verified /\ "tarball_mismatch" \in found
     \/ c = "native_exec_chain" /\ {"binding_gyp", "obfuscation"} \subseteq found
     \/ /\ c = "lookalike_dropper" /\ "typosquat" \in found
        /\ \E k \in LifecycleScripts(a) : a.scripts[k].cmd # Blank}

extract_signals(a, prior) == Singles(a, prior) \cup Chains(a, Singles(a, prior))
=============================================================================
