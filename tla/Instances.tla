----------------------------- MODULE Instances -----------------------------
(***************************************************************************)
(* Values for the constants of ResolveEngine in the small instances TLC    *)
(* checks: what policies say, what is reported, what an extraction finds.  *)
(***************************************************************************)
EXTENDS Naturals

Behaviour(w) == [type |-> "behavioural", weight |-> w]
Advisory == [type |-> "advisory_match", weight |-> 100]

Policy(hours, attested, onHard, fast) ==
  [rule |-> [cooldown |-> hours, requireProvenance |-> attested, onHardSignal |-> onHard],
   fast |-> fast]

\* Policies
CooldownPolicy == {Policy(1, FALSE, "DENY", FALSE)}
AttestedPolicy == {Policy(0, TRUE, "DENY", FALSE)}

\* What is reported
Nothing == {}
OneReport == {Behaviour(1)}

\* What an extraction finds
Clean == {[signals |-> {}, provenance |-> "absent"]}
Attested == {[signals |-> {}, provenance |-> "verified"]}
Found == {[signals |-> {Advisory}, provenance |-> "verified"]}
=============================================================================
