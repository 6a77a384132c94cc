------------------------------- MODULE Weights -------------------------------
(***************************************************************************)
(* The chain score and the widths it passes through: a reported weight is  *)
(* a u32, the signals table keeps an i32 (db/signals.rs), it is read back  *)
(* with a lower bound of zero, and compute_verdict adds the weights up in  *)
(* a u32 that wraps in a release build (scoring.rs).  Half and 2 * Half    *)
(* stand for 2^31 and 2^32.                                                *)
(***************************************************************************)
EXTENDS Integers, Sequences

CONSTANTS Half, MaxReports

ASSUME HalfAssumption == Half \in Nat \ {0}

VARIABLE weights   \* the weights reported for a version, behavioural signals only

WeightsInit == weights = <<>>

ReportWeight(w) == Len(weights) < MaxReports /\ weights' = Append(weights, w)

WeightsNext == \E w \in 0..(2 * Half - 1) : ReportWeight(w)

\* Mutated: the column is wide enough for every weight.
Stored_Wide(w) == w

\* weight as i32
Stored(w) == IF w < Half THEN w ELSE w - 2 * Half

\* Mutated: the stored weight is converted without the lower bound.
Read_Wraps(i) == IF i < 0 THEN i + 2 * Half ELSE i

\* weight.max(0) as u32
Read(i) == IF i < 0 THEN 0 ELSE i

chain_score(ws) ==
  LET sum[i \in 0..Len(ws)] == IF i = 0 THEN 0 ELSE (sum[i - 1] + ws[i]) % (2 * Half)
  IN  sum[Len(ws)]

Kept == [i \in DOMAIN weights |-> Read(Stored(weights[i]))]
TrueSum ==
  LET sum[i \in 0..Len(Kept)] == IF i = 0 THEN 0 ELSE sum[i - 1] + Kept[i]
  IN  sum[Len(Kept)]

(* A version is held or denied on its signals iff one of them was reported *)
(* with a weight the table can hold; a larger weight counts as none, and   *)
(* signals vanish only when three or more weights add up to a multiple of  *)
(* 2^32 (append, get_for_version, compute_verdict).                        *)
ScorePositiveIffWeighed ==
  \/ chain_score(Kept) > 0 <=> \E i \in DOMAIN weights : weights[i] \in 1..(Half - 1)
  \/ Len(weights) >= 3 /\ TrueSum > 0 /\ TrueSum % (2 * Half) = 0
=============================================================================
