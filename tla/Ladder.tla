------------------------------- MODULE Ladder -------------------------------
(***************************************************************************)
(* The pure policy of official_run.py: the accept ladder (which lay is     *)
(* good enough to stop on) and the wall-clock governor (whether another    *)
(* attempt may start).                                                     *)
(*                                                                         *)
(* A score is a natural number of LadderUnit-ths of IoU (the code's float  *)
(* 0.80 is Hold), a time is a natural number of clock units.  The running  *)
(* average of the attempt durations is kept as its sum and its count, and  *)
(* a comparison with it is multiplied out, so nothing is rounded there.    *)
(* The continuation values round down once per step.                       *)
(***************************************************************************)
EXTENDS Integers, Sequences, SequencesExt

CONSTANTS
  Pool,        \* MEASURED_GATED_IOUS: the banked gated IoUs, aborts as 0
  HalfWeight,  \* LIVE_POOL_HALF_WEIGHT
  KMax,        \* length of the continuation table (64 in the code)
  Hold,        \* LADDER_HOLD
  Budget,      \* budget_s
  ResetCost    \* RESET_COST_S

ASSUME PoolAssumption       == Pool \in Seq(Nat) /\ Pool # <<>>
ASSUME HalfWeightAssumption == HalfWeight \in Nat \ {0}
ASSUME KMaxAssumption       == KMax \in Nat \ {0}
ASSUME HoldAssumption       == Hold \in Nat
ASSUME TimeAssumption       == Budget \in Nat /\ ResetCost \in Nat

-----------------------------------------------------------------------------
(* The continuation values.                                                *)

Larger(a, b)  == IF a >= b THEN a ELSE b
Smaller(a, b) == IF a <= b THEN a ELSE b

(* The sum over the draws of s of what each is worth to a player who may   *)
(* go on and expects prev from going on.                                   *)
SumKept(s, prev) == SumFunction([i \in DOMAIN s |-> Larger(s[i], prev)])

\* Mutant: keeps every draw, also when going on is worth more.
MutMyopicExpected(obs, prev) ==
  (HalfWeight * SumKept(Pool, 0) + Len(Pool) * SumKept(obs, 0))
     \div (Len(Pool) * (HalfWeight + Len(obs)))

\* Mutant: the live draws do not take their share of the weight.
MutUnsharedExpected(obs, prev) ==
  (HalfWeight * SumKept(Pool, prev) + Len(Pool) * SumKept(obs, prev))
     \div (Len(Pool) * HalfWeight)

(* One step E[max(X, prev)] over the banked pool blended with this run's   *)
(* own draws: the draws together weigh Len(obs) against HalfWeight.        *)
Expected(obs, prev) ==
  (HalfWeight * SumKept(Pool, prev) + Len(Pool) * SumKept(obs, prev))
     \div (Len(Pool) * (HalfWeight + Len(obs)))

ContinuationValues(obs) ==
  LET V[k \in 0..KMax] == IF k = 0 THEN 0 ELSE Expected(obs, V[k - 1])
  IN  V

\* Mutant: lets the ramp rise from the attempts already used.
MutRisingThreshold(attempt, total, obs) ==
  LET ramp == Larger(3, total \div 2)
  IN  IF total - attempt <= 0 THEN 0
      ELSE Smaller((Hold * Smaller(attempt, ramp)) \div ramp,
                   ContinuationValues(obs)[Smaller(total - attempt, KMax)])

(* The accept threshold of attempt number attempt out of total.            *)
StopThreshold(attempt, total, obs) ==
  LET remaining == total - attempt
      ramp      == Larger(3, total \div 2)
      falling   == IF remaining >= ramp THEN Hold
                                        ELSE (Hold * remaining) \div ramp
  IN  IF remaining <= 0
        THEN 0
        ELSE Smaller(falling, ContinuationValues(obs)[Smaller(remaining, KMax)])

-----------------------------------------------------------------------------
(* The wall-clock governor.  durSum / durN is the running average.         *)

\* Mutant: compares the average with the whole budget.
MutWholeBudget(attempt, elapsed, durSum, durN) ==
  attempt <= 1 \/ 5 * durN * Budget > 4 * durSum

ShouldStart(attempt, elapsed, durSum, durN) ==
  \/ attempt <= 1
  \/ /\ Budget - elapsed > 0
     /\ \/ durN = 0 \/ durSum = 0
        \/ 5 * durN * (Budget - elapsed) > 4 * durSum

\* Mutant: charges one reset for the whole horizon.
MutOneReset(k, elapsed, durSum, durN) ==
  LET left == durN * (Budget - elapsed - ResetCost) - (k - 1) * durSum
  IN  left > 0 /\ 5 * left > 4 * durSum

\* Mutant: does not charge the reset before the first further attempt.
MutUnchargedReset(k, elapsed, durSum, durN) ==
  LET left == durN * (Budget - elapsed - (k - 1) * ResetCost) - (k - 1) * durSum
  IN  left > 0 /\ 5 * left > 4 * durSum

(* How many more attempts the governor will let start if each costs a      *)
(* reset and an average attempt: the loop of attempts_left_in_budget.      *)
(* elapsed + k resets + (k - 1) averages is compared with every term       *)
(* multiplied by durN; the first k that does not fit ends the loop.        *)
FitsAfter(k, elapsed, durSum, durN) ==
  LET left == durN * (Budget - elapsed - k * ResetCost) - (k - 1) * durSum
  IN  left > 0 /\ 5 * left > 4 * durSum

AttemptsLeft(elapsed, durSum, durN, capLeft) ==
  LET N[n \in 0..Larger(capLeft, 0)] ==
        IF n < capLeft /\ FitsAfter(n + 1, elapsed, durSum, durN)
          THEN N[n + 1] ELSE n
  IN  IF capLeft <= 0 THEN 0
      ELSE IF durN = 0 \/ durSum = 0 THEN capLeft
      ELSE N[0]

(* The ladder's horizon: whichever of the cap and the budget ends the run  *)
(* first.                                                                  *)
EffectiveTotal(attempt, maxAttempts, elapsed, durSum, durN) ==
  Smaller(maxAttempts,
          attempt + AttemptsLeft(elapsed, durSum, durN, maxAttempts - attempt))

=============================================================================
