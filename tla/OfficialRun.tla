----------------------------- MODULE OfficialRun -----------------------------
(***************************************************************************)
(* The outer loop of the program, official_run.main: run a chain, read its *)
(* verdict, stop on it or reset the scene and try again, under an attempt  *)
(* cap and a wall budget.  The chain is a subprocess and is seen through   *)
(* its markers; the scene and the evaluate service answer over ROS.        *)
(*                                                                         *)
(* scene_reset is one action here, with the scene changed by the time it   *)
(* returns or not at all; a request the scene performs later than that is  *)
(* the subject of ResetHandshake.                                          *)
(***************************************************************************)
EXTENDS Ladder

CONSTANTS
  MaxAttempts,      \* args.attempts
  StopIou,          \* args.stop_iou, or NoStop
  RequireStrict,    \* EBIM_STRICT_ORIENTATION
  LiveEval,         \* the evaluate service answered at startup
  Scores,           \* IoUs a verdict can carry
  StartupTimes,     \* how long main can take from t0 to its first attempt: the
                    \* service probe, its warm-up and the wait for the loose
                    \* stream
  CaptureTimes,     \* how long capture_ids can take
  ChainTimes,       \* how long a chain that ends can take
  VerdictTimes,     \* how long the reads of the end state can take
  HandshakeWaits,   \* how long the reset endpoints can take to match
  AckWaits,         \* how long the reset event can take when it comes in time
  AckTimeout,       \* timeout_s of scene_reset
  Settle,           \* RESET_SETTLE_S
  AcksLost          \* may a reset event fail to come in time?

NoStop == -1

ASSUME RunAssumption ==
  /\ MaxAttempts \in Nat \ {0}
  /\ StopIou \in Nat \cup {NoStop}
  /\ RequireStrict \in BOOLEAN /\ LiveEval \in BOOLEAN /\ AcksLost \in BOOLEAN
  /\ Scores \subseteq Nat /\ 0 \in Scores
  /\ StartupTimes \subseteq Nat
  /\ CaptureTimes \subseteq Nat /\ ChainTimes \subseteq Nat
  /\ VerdictTimes \subseteq Nat
  /\ HandshakeWaits \subseteq Nat /\ AckWaits \subseteq Nat
  /\ AckTimeout \in Nat /\ Settle \in Nat

\* Each wait has a longest one. For the chain, which is waited for without a
\* timeout, this is an assumption about the chains that end.
ASSUME WaitsAssumption ==
  \A waits \in {StartupTimes, CaptureTimes, ChainTimes, VerdictTimes,
                HandshakeWaits, AckWaits} :
    \E longest \in waits : \A t \in waits : t <= longest

VARIABLES
  pc,         \* where main() is
  attempt,    \* the loop variable
  clock,      \* seconds since t0, in clock units
  tAtt,       \* t_att
  durSum,     \* sum(durations)
  durN,       \* len(durations)
  completed,  \* run_chain saw the completion marker
  verdict,    \* the verdict of this attempt
  strict,     \* the strict verdict beside it
  source,     \* verdict_src
  gated,      \* gated IoU of the last judgement
  judgedAt,   \* elapsed_now of the last judgement
  observed,   \* this run's own gated draws
  scene,      \* what the evaluator would say of the scene right now
  lost        \* history: gated IoU of the last lay a retry reset has wiped,
              \* 0 again once another chain has run

vars == <<pc, attempt, clock, tAtt, durSum, durN, completed, verdict,
          strict, source, gated, judgedAt, observed, scene, lost>>

timing == <<tAtt, durSum, durN>>
read   == <<verdict, strict, source>>
judged == <<gated, judgedAt>>

-----------------------------------------------------------------------------
(* Orientation cases, by what the gate does with them: liner_up stands for *)
(* VALID_CASES, liner_down for FLIPPED_CASES.                              *)
Cases     == {"liner_up", "liner_down", "sideways"}
Verdict   == [case : Cases, iou : Scores]
NoVerdict == [case |-> "none", iou |-> 0]
Clean     == [case |-> "clean", iou |-> 0]

Gated(v) == IF v.case = "liner_up" THEN v.iou ELSE 0

\* Mutant: a strict reading blocks even when anything would be accepted.
MutStrictAlways(stop, total, att, obs) ==
  LET threshold == IF stop # NoStop THEN stop ELSE StopThreshold(att, total, obs)
  IN  /\ completed /\ verdict # NoVerdict /\ verdict.case # "liner_down"
      /\ Gated(verdict) > 0 /\ Gated(verdict) >= threshold
      /\ ~(RequireStrict /\ strict # NoVerdict /\ Gated(strict) <= threshold)

(* judge_attempt: accept the lay that completed, that the orientation gate *)
(* passes and that meets the threshold; a strict reading below a threshold *)
(* above 0 blocks it only when that is asked for.                          *)
Accepts(stop, total, att, obs) ==
  LET threshold == IF stop # NoStop THEN stop ELSE StopThreshold(att, total, obs)
  IN  /\ completed /\ verdict # NoVerdict /\ verdict.case # "liner_down"
      /\ Gated(verdict) > 0 /\ Gated(verdict) >= threshold
      /\ ~(RequireStrict /\ threshold > 0 /\ strict # NoVerdict
             /\ Gated(strict) < threshold)

-----------------------------------------------------------------------------
Init ==
  /\ pc = "loop" /\ attempt = 1
  /\ clock \in StartupTimes /\ tAtt = 0 /\ durSum = 0 /\ durN = 0
  /\ completed = FALSE
  /\ verdict = NoVerdict /\ strict = NoVerdict /\ source = "none"
  /\ gated = 0 /\ judgedAt = 0 /\ observed = <<>>
  /\ scene = Clean /\ lost = 0

StartAttempt ==
  /\ pc = "loop" /\ attempt <= MaxAttempts
  /\ ShouldStart(attempt, clock, durSum, durN)
  /\ pc' = "capture" /\ tAtt' = clock
  /\ UNCHANGED <<attempt, clock, durSum, durN, completed, read, judged,
                 observed, scene, lost>>

\* Mutant: leaves the loop variable to decide when the budget is spent.
MutBudgetSpent ==
  /\ pc = "loop" /\ attempt <= MaxAttempts
  /\ ~ShouldStart(attempt, clock, durSum, durN)
  /\ UNCHANGED vars

BudgetSpent ==
  /\ pc = "loop" /\ attempt <= MaxAttempts
  /\ ~ShouldStart(attempt, clock, durSum, durN)
  /\ pc' = "stopped"
  /\ UNCHANGED <<attempt, clock, timing, completed, read, judged, observed,
                 scene, lost>>

AttemptsSpent ==
  /\ pc = "loop" /\ attempt > MaxAttempts
  /\ pc' = "stopped"
  /\ UNCHANGED <<attempt, clock, timing, completed, read, judged, observed,
                 scene, lost>>

(* The ids locked here only change which replica verdicts are likely, and  *)
(* TakeVerdict allows any: what remains is whether they could be locked.   *)
CaptureIds ==
  /\ pc = "capture"
  /\ \E t \in CaptureTimes, locked \in BOOLEAN :
       /\ clock' = clock + t
       /\ pc' = IF locked THEN "chain" ELSE "recover"
  /\ UNCHANGED <<attempt, timing, completed, read, judged, observed, scene, lost>>

-----------------------------------------------------------------------------
(* scene_reset: match the endpoints (or publish anyway), ask once, wait.   *)

ResetAcked ==
  /\ \E h \in HandshakeWaits, w \in AckWaits : clock' = clock + h + w + Settle
  /\ scene' = Clean

\* The event did not come: the request or the event may have been lost.
ResetUnacked ==
  /\ AcksLost
  /\ \E h \in HandshakeWaits : clock' = clock + h + AckTimeout
  /\ scene' \in {scene, Clean}

\* The scene is not in a clean start configuration: one reset before the
\* attempt is spent.
RecoveryReset ==
  /\ pc = "recover"
  /\ \/ ResetAcked   /\ pc' = "recapture"
     \/ ResetUnacked /\ pc' = "chain"
  /\ UNCHANGED <<attempt, timing, completed, read, judged, observed, lost>>

Recapture ==
  /\ pc = "recapture"
  /\ \E t \in CaptureTimes : clock' = clock + t
  /\ pc' = "chain"
  /\ UNCHANGED <<attempt, timing, completed, read, judged, observed, scene, lost>>

(* run_chain: whatever the chain did to the scene, it printed the marker   *)
(* of a complete lay, the marker of a flip, or neither.  A flip ends the   *)
(* run: a reset cannot heal it.                                            *)
RunChain ==
  /\ pc = "chain"
  /\ \E d \in ChainTimes :
       /\ clock' = clock + d
       /\ durSum' = durSum + (clock' - tAtt)
  /\ durN' = durN + 1
  /\ \/ completed' = TRUE  /\ scene' \in Verdict             /\ pc' = "verdict"
     \/ completed' = FALSE /\ scene' \in Verdict \cup {scene} /\ pc' = "verdict"
     \/ completed' = FALSE /\ scene' = [case |-> "liner_down", iou |-> 0]
          /\ pc' = "stopped"
  /\ lost' = 0 /\ gated' = 0 /\ judgedAt' = 0
  /\ UNCHANGED <<attempt, tAtt, read, observed>>

\* Mutant: the replica's verdict stands although the service answered.
MutReplicaStands ==
  /\ pc = "verdict" /\ pc' = "judge"
  /\ completed /\ LiveEval
  /\ \E t \in VerdictTimes : clock' = clock + t
  /\ verdict' \in Verdict /\ strict' = NoVerdict /\ source' = "official"
  /\ UNCHANGED <<attempt, timing, completed, judged, observed, scene, lost>>

\* Mutant: asks the service about an aborted chain as well.
MutAbortsJudged ==
  /\ pc = "verdict" /\ pc' = "judge"
  /\ \E t \in VerdictTimes : clock' = clock + t
  /\ LiveEval /\ verdict' = scene /\ strict' = NoVerdict /\ source' = "official"
  /\ UNCHANGED <<attempt, timing, completed, judged, observed, scene, lost>>

(* The end state of a completed chain is read: the replica's verdict (its  *)
(* ids or its bounding box may be stale, so any verdict or none; with no   *)
(* verdict there is no strict one), which the live service's outranks      *)
(* when it answers.  An aborted chain has no verdict.                      *)
TakeVerdict ==
  /\ pc = "verdict" /\ pc' = "judge"
  /\ \/ /\ ~completed
        /\ verdict' = NoVerdict /\ strict' = NoVerdict /\ source' = "none"
        /\ UNCHANGED clock
     \/ /\ completed
        /\ \E t \in VerdictTimes : clock' = clock + t
        /\ \/ verdict' = NoVerdict /\ strict' = NoVerdict /\ source' = "none"
           \/ verdict' \in Verdict /\ strict' \in Verdict \cup {NoVerdict}
                /\ source' = "replica"
           \/ LiveEval /\ verdict' = scene /\ strict' \in Verdict \cup {NoVerdict}
                /\ source' = "official"
  /\ UNCHANGED <<attempt, timing, completed, judged, observed, scene, lost>>

(* The accept decision, on a clock read after the verdict.  On the last    *)
(* startable attempt anything the orientation gate passes is accepted.     *)
Judge ==
  /\ pc = "judge"
  /\ LET nextFits == ShouldStart(attempt + 1, clock + ResetCost, durSum, durN)
         stop     == IF StopIou = NoStop /\ ~nextFits THEN 0 ELSE StopIou
         total    == EffectiveTotal(attempt, MaxAttempts, clock, durSum, durN)
         accept   == Accepts(stop, total, attempt, observed)
     IN  /\ pc' = IF accept THEN "accepted"
                  ELSE IF attempt < MaxAttempts THEN "reset" ELSE "loop"
         /\ attempt' = IF ~accept /\ attempt >= MaxAttempts THEN attempt + 1 ELSE attempt
         /\ verdict' = IF accept THEN verdict ELSE NoVerdict
         /\ source'  = IF accept THEN source ELSE "none"
  /\ gated' = Gated(verdict) /\ judgedAt' = clock
  /\ observed' = Append(observed, Gated(verdict))
  /\ strict' = NoVerdict
  /\ UNCHANGED <<clock, timing, completed, scene, lost>>

\* The lay the retry reset has wiped, if it has.
Wiped == IF scene' # scene THEN gated ELSE lost

RetryReset ==
  /\ pc = "reset"
  /\ \/ ResetAcked   /\ pc' = "loop"  /\ attempt' = attempt + 1
     \/ ResetUnacked /\ pc' = "again" /\ attempt' = attempt
  /\ lost' = Wiped
  /\ UNCHANGED <<timing, completed, read, judged, observed>>

\* The reset is asked for once more, and the next attempt starts either way.
RetryResetAgain ==
  /\ pc = "again"
  /\ ResetAcked \/ ResetUnacked
  /\ pc' = "loop" /\ attempt' = attempt + 1
  /\ lost' = Wiped
  /\ UNCHANGED <<timing, completed, read, judged, observed>>

Ended == pc \in {"accepted", "stopped"} /\ UNCHANGED vars

Next ==
  \/ StartAttempt \/ BudgetSpent \/ AttemptsSpent
  \/ CaptureIds \/ RecoveryReset \/ Recapture
  \/ RunChain \/ TakeVerdict \/ Judge
  \/ RetryReset \/ RetryResetAgain
  \/ Ended

\* main() is one thread and always takes its next step: its waits for ROS
\* have timeouts. Its wait for the chain process has none, so nothing says
\* that a chain ends.
Fairness == WF_vars(pc # "chain" /\ Next)

Spec == Init /\ [][Next]_vars /\ Fairness

-----------------------------------------------------------------------------
TypeOK ==
  /\ pc \in {"loop", "capture", "recover", "recapture", "chain", "verdict",
             "judge", "reset", "again", "accepted", "stopped"}
  /\ attempt \in 1..(MaxAttempts + 1)
  /\ clock \in Nat /\ tAtt \in Nat /\ durSum \in Nat /\ durN \in Nat
  /\ tAtt <= clock
  /\ completed \in BOOLEAN
  /\ verdict \in Verdict \cup {NoVerdict}
  /\ strict \in Verdict \cup {NoVerdict}
  /\ source \in {"none", "replica", "official"}
  /\ gated \in Nat /\ judgedAt \in Nat /\ lost \in Nat
  /\ observed \in Seq(Nat)
  /\ scene \in Verdict \cup {Clean, [case |-> "liner_down", iou |-> 0]}

(* The self-zero guard (official_run.py:54-56, 994-998; its test says the  *)
(* charge makes the two checks agree): with the built-in ladder, a run     *)
(* ends with its last scoring lay reset away and no chain run since only   *)
(* if the resets after that judgement took longer than the RESET_COST_S    *)
(* that the lookahead charged for them.                                    *)
SelfZeroOnlyBySlowReset ==
  (pc = "stopped" /\ lost > 0 /\ StopIou = NoStop)
    => clock - judgedAt > ResetCost

(* What the test of that charge says of it (test_official_run.py:106-108): *)
(* a scoring lay is accepted and not destroyed for nothing.                *)
NoLayResetAwayForNothing == ~(pc = "stopped" /\ lost > 0)

(* The wall budget: whatever the waits in it, a run whose chains end       *)
(* overruns its budget by at most one attempt and the resets around it     *)
(* (should_start_attempt).  The first attempt starts whatever the budget,  *)
(* so a startup longer than the budget takes the budget's place.           *)
LongestReset == Max(HandshakeWaits) + Max(AckWaits \cup {AckTimeout}) + Settle
OverrunBound ==
  clock <= Larger(Budget, Max(StartupTimes))
             + 2 * Max(CaptureTimes) + Max(ChainTimes) + Max(VerdictTimes)
             + 3 * LongestReset

(* A run whose chains all end ends itself, on an accepted lay or with its  *)
(* attempts, its budget or its material spent.  Without the condition it   *)
(* need not: run_chain waits for the chain process as long as that takes   *)
(* (official_run.py:451-476).                                              *)
Termination == []<>(pc # "chain") => <>(pc \in {"accepted", "stopped"})

(* The run keeps the promise of AcceptAndStop: at most MaxAttempts chains, *)
(* a stop only on a verdict that scores (on the scene itself, where the    *)
(* live service gave it), and nothing done to the scene after the stop.    *)
Promise == INSTANCE AcceptAndStop WITH
  MaxTries <- MaxAttempts,
  phase    <- CASE pc = "accepted" -> "kept"
                [] pc = "stopped"  -> "gave_up"
                [] OTHER           -> "hunting",
  tries    <- durN,
  score    <- Gated(IF source = "official" THEN scene ELSE verdict)

KeepsPromise == Promise!Spec

=============================================================================
