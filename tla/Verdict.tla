------------------------------ MODULE Verdict ------------------------------
(***************************************************************************)
(* The pure verdict computation of embargo-core (scoring.rs, types.rs) and *)
(* the approval override resolve_one applies to its result.                *)
(*                                                                         *)
(* Time is counted in ticks (the code's seconds); HourTicks ticks make one *)
(* hour, so that the truncation of an age to whole hours is kept.  Signal  *)
(* weights are kept only as far as the chain score tells them apart: the   *)
(* score is positive iff some behavioural signal weighs more than zero     *)
(* (the u32 sum is not modelled, so neither is its overflow).              *)
(***************************************************************************)
EXTENDS Integers

CONSTANTS
  HourTicks,   \* ticks per hour
  NoTime       \* the None of an Option<DateTime>

ASSUME HourTicksAssumption == HourTicks \in Nat \ {0}
ASSUME NoTimeAssumption == NoTime \notin Int

-----------------------------------------------------------------------------
VerdictKind == {"ALLOW", "HOLD", "DENY"}

\* HoldReason: ManualDeny is declared by the code but no code path builds it.
Reason == {"cooldown", "provenance_missing", "provenance_pending", "advisory",
           "known_malicious", "signal_chain", "manual_deny", "approved_exception"}

\* The reasons a time-boxed exception must not release (is_hard_block).
HardBlock == {"advisory", "known_malicious", "manual_deny"}

\* Option<Provenance>: "none" is a version that was not checked yet.
Provenance == {"none", "verified", "invalid", "absent"}

SignalType == {"advisory_match", "known_malicious", "behavioural"}
Signal == [type : SignalType, weight : Nat]

Rule == [cooldown : Nat, requireProvenance : BOOLEAN, onHardSignal : {"DENY", "HOLD"}]

VersionVerdict == [verdict : VerdictKind, reasons : SUBSET Reason, expires : Nat \cup {NoTime}]

ResolutionInput == [published : Nat, provenance : Provenance, signals : SUBSET Signal,
                    rule : Rule, fast : BOOLEAN, now : Nat]

-----------------------------------------------------------------------------
Rank(v) == IF v = "DENY" THEN 2 ELSE IF v = "HOLD" THEN 1 ELSE 0

\* Mutated: the later check decides alone.
escalate_LastWins(current, candidate) == candidate

\* Verdicts only move toward DENY.
escalate(current, candidate) ==
  IF Rank(current) >= Rank(candidate) THEN current ELSE candidate

\* num_hours() truncates toward zero and a publish time in the future is age 0.
AgeHours(in) ==
  IF in.now < in.published THEN 0 ELSE (in.now - in.published) \div HourTicks

Has(sigs, type) == \E s \in sigs : s.type = type

ChainPositive(sigs) == \E s \in sigs : s.type = "behavioural" /\ s.weight > 0

\* The condition under which compute_verdict pushes each reason.
Raised(r, in) ==
  \/ /\ r = "cooldown"
     /\ ~in.fast
     /\ AgeHours(in) < in.rule.cooldown
  \/ /\ r = "provenance_missing"
     /\ ~in.fast /\ in.rule.requireProvenance
     /\ in.provenance \in {"invalid", "absent"}
  \/ /\ r = "provenance_pending"
     /\ ~in.fast /\ in.rule.requireProvenance
     /\ in.provenance = "none"
  \/ r = "advisory" /\ Has(in.signals, "advisory_match")
  \/ r = "known_malicious" /\ Has(in.signals, "known_malicious")
  \/ r = "signal_chain" /\ ChainPositive(in.signals)

\* Mutated: a chain decides only for a version nothing else holds.
Judge_ChainOnlyIfAllowed(in) ==
  IF \E r \in {"provenance_missing", "advisory", "known_malicious"} : Raised(r, in) THEN "DENY"
  ELSE IF Raised("cooldown", in) \/ Raised("provenance_pending", in) THEN "HOLD"
  ELSE IF Raised("signal_chain", in) THEN in.rule.onHardSignal ELSE "ALLOW"

\* The checks in the order of the code, each one deciding from the verdict so far.
Judge(in) ==
  LET cooled   == IF Raised("cooldown", in) THEN "HOLD" ELSE "ALLOW"
      attested == IF Raised("provenance_missing", in) THEN "DENY"
                  ELSE IF Raised("provenance_pending", in) THEN escalate(cooled, "HOLD")
                  ELSE cooled
      fed      == IF Raised("advisory", in) \/ Raised("known_malicious", in)
                  THEN "DENY" ELSE attested
  IN  IF Raised("signal_chain", in) THEN escalate(fed, in.rule.onHardSignal) ELSE fed

\* Mutated: a HOLD that runs one hour short.
Expiry_HourShort(in) ==
  IF Judge(in) = "HOLD" /\ Raised("cooldown", in)
  THEN in.now + (in.rule.cooldown - AgeHours(in) - 1) * HourTicks
  ELSE NoTime

\* Only a HOLD with a cooldown reason expires, when the remaining whole hours are over.
Expiry(in) ==
  IF Judge(in) = "HOLD" /\ Raised("cooldown", in)
  THEN in.now + (in.rule.cooldown - AgeHours(in)) * HourTicks
  ELSE NoTime

compute_verdict(in) ==
  [verdict |-> Judge(in), reasons |-> {r \in Reason : Raised(r, in)}, expires |-> Expiry(in)]

HardBlocked(v) == v.reasons \cap HardBlock # {}

\* Mutated: any verdict that does not serve may be released.
Releasable_Any(v) == v.verdict # "ALLOW"

\* resolve_one asks for an approval only in this case ...
Releasable(v) == v.verdict # "ALLOW" /\ ~HardBlocked(v)

\* Mutated: the released verdict keeps the expiry of the hold.
Release_KeepsExpiry(v, expires) ==
  [verdict |-> "ALLOW", reasons |-> v.reasons \cup {"approved_exception"}, expires |-> v.expires]

\* ... and applies the one it finds, which expires at expires.
Release(v, expires) ==
  [verdict |-> "ALLOW", reasons |-> v.reasons \cup {"approved_exception"}, expires |-> expires]
=============================================================================
