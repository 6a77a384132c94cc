-------------------------- MODULE ResolvePromises --------------------------
(***************************************************************************)
(* What the README of the repository promises of the verdict service and   *)
(* the code does not keep, over ResolveEngine with the history it needs.   *)
(***************************************************************************)
EXTENDS ResolveEngine

VARIABLE flagged   \* a signal was recorded while the version was HELD on cooldown

pvars == <<vars, flagged>>

HeldOnCooldown ==
  row # NoVerdict /\ row.verdict = "HOLD" /\ "cooldown" \in row.reasons

PInit == Init /\ flagged = FALSE

PNext ==
  /\ Next
  /\ flagged' = (flagged \/ (HeldOnCooldown' /\ ChainPositive(signals')))

PSpec == PInit /\ [][PNext]_pvars

\* Answers that serve the version to a client of the packument.
Served(t) ==
  /\ At(t, "done") /\ task[t].kind = "packument"
  /\ task[t].out.verdict = "ALLOW" /\ "approved_exception" \notin task[t].out.reasons

(* README: a version flagged by a signal during its cooldown HOLD is       *)
(* denied permanently and never silently served when the timer expires.    *)
FlaggedIsNeverServed == flagged => \A t \in Tasks : ~Served(t)
=============================================================================
