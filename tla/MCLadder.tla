------------------------------ MODULE MCLadder ------------------------------
(***************************************************************************)
(* The ladder and the governor checked against reference definitions, over *)
(* every sequence of draws and durations of a short run.  A step draws one *)
(* attempt: its gated score joins the live pool, its duration joins the    *)
(* average, and it is followed by a reset of the cost the governor charges.*)
(***************************************************************************)
EXTENDS Ladder

CONSTANTS
  Scores,      \* gated scores an attempt may draw
  Durations,   \* durations an attempt may take
  MaxDraws     \* bound: draws in a run, and the cap on its attempts

ASSUME DrawsAssumption == /\ Scores \subseteq Nat
                          /\ Durations \subseteq Nat \ {0}  \* an attempt takes time
                          /\ MaxDraws \in Nat

VARIABLES observed, clock, durSum

vars == <<observed, clock, durSum>>

\* An eleventh of the banked pool per entry (its deciles, and two aborts),
\* in ten-thousandths of IoU.
MCPool == <<0, 0, 4193, 5217, 5595, 6162, 6963, 7299, 7830, 8534, 9231>>

Init == observed = <<>> /\ clock = 0 /\ durSum = 0

Draw ==
  /\ Len(observed) < MaxDraws
  /\ \E s \in Scores, d \in Durations :
       /\ observed' = Append(observed, s)
       /\ durSum'   = durSum + d
       /\ clock'    = clock + d + ResetCost

Spec == Init /\ [][Draw]_vars

-----------------------------------------------------------------------------
Totals == 1..(MaxDraws + 3)

(* The bar of the next decision, while the run's own draws grow the pool.  *)
(* It rises from one attempt to the next only after a draw better than the *)
(* table's expected draw V[1], and a horizon that shrinks as well does not *)
(* raise it: a run of poor lays is never asked for more than before        *)
(* (stop_threshold over main's observed and effective_total).              *)
BarRisesOnlyOnAGoodDraw ==
  [][\A total, shorter \in Totals :
       LET i == Len(observed) + 1
       IN  (shorter <= total /\ Last(observed') <= ContinuationValues(observed)[1])
             => StopThreshold(i + 1, shorter, observed')
                  <= StopThreshold(i, total, observed)]_vars

(* What k further draws are worth to a player who stops on the first score *)
(* of at least t: the value of a fixed-threshold policy.                   *)
KeptFrom(s, t, prev) ==
  SumFunction([i \in DOMAIN s |-> IF s[i] >= t THEN s[i] ELSE prev])

ExpectedFrom(t, prev) ==
  (HalfWeight * KeptFrom(Pool, t, prev) + Len(Pool) * KeptFrom(observed, t, prev))
     \div (Len(Pool) * (HalfWeight + Len(observed)))

FixedThresholdValue(t) ==
  LET U[k \in 0..KMax] == IF k = 0 THEN 0 ELSE ExpectedFrom(t, U[k - 1])
  IN  U

(* V[k] is the value of optimal stopping: no fixed threshold does better   *)
(* with k draws left, V never falls with k, and no value exceeds the best  *)
(* draw there is (_continuation_values).                                   *)
ValueIsOptimal ==
  LET V    == ContinuationValues(observed)
      Draws == {Pool[i] : i \in DOMAIN Pool} \cup Scores
  IN  \A k \in 1..KMax :
        /\ V[k - 1] <= V[k]
        /\ \E x \in Draws : V[k] <= x
        /\ \A t \in Draws : FixedThresholdValue(t)[k] <= V[k]

(* An abort is a zero draw: it never raises the bar the next lay has to    *)
(* clear, at any point of any run (observed, read by the next decision).   *)
AbortsLowerTheBar ==
  \A total \in Totals : \A i \in 1..total :
    StopThreshold(i, total, Append(observed, 0)) <= StopThreshold(i, total, observed)

-----------------------------------------------------------------------------
CapsLeft == 0..MaxDraws

(* The reference for the horizon: if every further attempt takes exactly   *)
(* the average and every reset exactly ResetCost, the governor starts      *)
(* exactly AttemptsLeft more attempts (attempts_left_in_budget).  Stated   *)
(* where the average is a whole number of clock units.                     *)
HorizonIsTheGovernors ==
  LET durN == Len(observed)
      avg  == durSum \div durN
      StartsAt(k) == ShouldStart(2, clock + k * ResetCost + (k - 1) * avg, durSum, durN)
  IN  (durN > 0 /\ durSum % durN = 0) =>
        \A cap \in CapsLeft :
          LET n == AttemptsLeft(clock, durSum, durN, cap)
          IN  /\ \A k \in 1..n : StartsAt(k)
              /\ n < cap => ~StartsAt(n + 1)

(* The two guards of the last startable attempt agree: the ladder's        *)
(* horizon is empty exactly when the lookahead that main() charges a reset *)
(* for says that no further attempt can start.                             *)
HorizonAgreesWithLookahead ==
  Len(observed) > 0 =>
    \A cap \in CapsLeft \ {0} :
      (AttemptsLeft(clock, durSum, Len(observed), cap) = 0)
        <=> ~ShouldStart(2, clock + ResetCost, durSum, Len(observed))

=============================================================================
