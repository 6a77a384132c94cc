----------------------------- MODULE MCVerdict -----------------------------
(***************************************************************************)
(* compute_verdict over bounded inputs.  A state is one input; its steps   *)
(* are the ways the input of one version changes between two resolutions:  *)
(* time passes, a signal is recorded, the provenance check comes back.     *)
(***************************************************************************)
EXTENDS Verdict, FiniteSets

CONSTANTS
  MaxNow,       \* bound on the clock
  MaxCooldown,  \* bound on cooldown_hours
  MaxSignals    \* bound on the signals recorded

VARIABLE in

Signals == [type : SignalType, weight : {0, 1}]
Rules == [cooldown : 0..MaxCooldown, requireProvenance : BOOLEAN, onHardSignal : {"DENY", "HOLD"}]

Inputs == [published : {0, 1}, provenance : {"none"}, signals : {{}}, rule : Rules,
           fast : BOOLEAN, now : {0}]

Init == in \in Inputs

Age == in.now < MaxNow /\ in' = [in EXCEPT !.now = @ + 1]

Find ==
  /\ Cardinality(in.signals) < MaxSignals
  /\ \E s \in Signals \ in.signals : in' = [in EXCEPT !.signals = @ \cup {s}]

Attest ==
  /\ in.provenance = "none"
  /\ \E p \in Provenance \ {"none"} : in' = [in EXCEPT !.provenance = p]

Next == Age \/ Find \/ Attest

Spec == Init /\ [][Next]_in

verdict == compute_verdict(in)

-----------------------------------------------------------------------------
\* The severity each reason calls for on its own.
Severity(r) ==
  CASE r \in {"cooldown", "provenance_pending"} -> "HOLD"
    [] r = "signal_chain" -> in.rule.onHardSignal
    [] OTHER -> "DENY"

(* The verdict is the most severe of what its reasons call for, whatever   *)
(* the order of the checks: no check of compute_verdict relaxes an earlier *)
(* one, and none decides without recording its reason.                     *)
SeverestReasonWins ==
  /\ \A r \in verdict.reasons : Rank(verdict.verdict) >= Rank(Severity(r))
  /\ verdict.verdict = "ALLOW" \/ \E r \in verdict.reasons : verdict.verdict = Severity(r)

(* A HOLD on cooldown expires when the cooldown is really over, never      *)
(* before and less than one whole hour after it (rule.cooldown_hours       *)
(* against the truncation to whole hours).                                 *)
HoldExpiresWithCooldown ==
  verdict.expires # NoTime =>
    LET end == in.published + in.rule.cooldown * HourTicks
    IN  in.now >= in.published => verdict.expires \in end .. end + HourTicks - 1

(* A recorded signal never relaxes a verdict, and time alone never         *)
(* tightens one.                                                           *)
SignalsEscalateTimeRelaxes ==
  [][ /\ Find => Rank(verdict'.verdict) >= Rank(verdict.verdict)
      /\ Age  => Rank(verdict'.verdict) <= Rank(verdict.verdict) ]_in
=============================================================================
