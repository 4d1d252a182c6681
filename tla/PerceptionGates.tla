--------------------------- MODULE PerceptionGates ---------------------------
(***************************************************************************)
(* What the runner puts between its timer and the perception policy: the   *)
(* arm-base calibration (measured from ee_pose, or a static fallback), the *)
(* semantic ids (adopted from the labels topic or inferred from the mask,  *)
(* or the configured ones after a grace period), and the episode budget,   *)
(* in the order in which Task2AutonomyNode.tick asks for them.             *)
(*                                                                         *)
(* The policy itself is only what the gates can tell apart: whether it is  *)
(* still aiming (through LIFT) or past it, the target it has locked, and   *)
(* the gripper.  The photo retreat after the end is in NodeEpisode.        *)
(***************************************************************************)
EXTENDS Integers

CONSTANTS
  Ids,         \* id maps the scene can be read by
  ConfigIds,   \* the configured map
  K,           \* repeats before an id map is adopted
  Samples,     \* calibration.samples
  StillTime,   \* seconds the arm stands still before it is sampled
  Grace,       \* the 45 s the policy waits for an id map
  MaxEpisode,  \* max_episode_s
  LatestStart, \* bound: the first tick comes no later than this
  Horizon      \* bound: the clock stops this long after the first tick

ASSUME GatesAssumption ==
  /\ ConfigIds \in Ids
  /\ K \in Nat \ {0} /\ Samples \in Nat \ {0}
  /\ StillTime \in Nat /\ Grace \in Nat /\ MaxEpisode \in Nat
  /\ LatestStart \in Nat \ {0} /\ Horizon \in Nat /\ Horizon > MaxEpisode

Never == -1
None  == "none"

VARIABLES
  enabled,     \* calibration.enabled of the configuration
  clock,       \* the sim clock
  joints,      \* has a joint state arrived?
  patience,    \* is the wall time of calibration.timeout_s still running?
  eeSeen,      \* _ee_seen
  calibDone,   \* _calib_done
  fallback,    \* _calib_fallback
  samples,     \* len(_calib_samples)
  stillSince,  \* _calib_still_since
  transform,   \* world_to_base on the policy
  labelIds,    \* _label_ids
  labels,      \* the candidate of the labels topic and its count
  inferred,    \* the candidate of mask inference and its count
  start,       \* _episode_start
  budgetFailed,\* _budget_failed
  policy,      \* the policy
  lock,        \* the id map behind _target_locked
  gripper      \* the last gripper command

vars == <<enabled, clock, joints, patience, eeSeen, calibDone, fallback, samples, stillSince,
          transform, labelIds, labels, inferred, start, budgetFailed, policy,
          lock, gripper>>

calibration == <<enabled, eeSeen, calibDone, fallback, samples, stillSince, transform>>
semantics   == <<labelIds, labels, inferred>>
episode     == <<start, budgetFailed, policy, gripper>>

Working == {"aiming", "placing"}
Over    == budgetFailed \/ policy \notin Working
NoCandidate == [ids |-> None, count |-> 0]

Init ==
  /\ enabled \in BOOLEAN
  /\ clock = 1 /\ joints = FALSE /\ patience = TRUE
  /\ eeSeen = FALSE /\ calibDone = FALSE /\ fallback = FALSE
  /\ samples = 0 /\ stillSince = Never /\ transform = None
  /\ labelIds = None /\ labels = NoCandidate /\ inferred = NoCandidate
  /\ start = Never /\ budgetFailed = FALSE /\ policy = "aiming"
  /\ lock = None /\ gripper = "open"

-----------------------------------------------------------------------------
(* Clocks and subscriptions.                                               *)

ClockMoves ==
  /\ ~Over
  /\ IF start = Never THEN clock < LatestStart ELSE clock - start < Horizon
  /\ clock' = clock + 1
  /\ UNCHANGED <<joints, patience, calibration, semantics, episode, lock>>

WallTimeout ==
  /\ ~Over /\ patience /\ patience' = FALSE
  /\ UNCHANGED <<clock, joints, calibration, semantics, episode, lock>>

JointState ==
  /\ ~Over /\ ~joints /\ joints' = TRUE
  /\ UNCHANGED <<clock, patience, calibration, semantics, episode, lock>>

\* Mutant: whatever is installed stays installed.
MutRearm == FALSE

\* A pose after the static fallback went in re-arms the sampling.  (With the
\* calibration disabled nothing is ever installed, or done.)
Rearm == calibDone /\ fallback

EePose ==
  /\ ~Over
  /\ eeSeen' = TRUE
  /\ fallback' = (fallback /\ ~Rearm)
  /\ LET sampled == IF Rearm THEN 0 ELSE samples
         since   == IF Rearm THEN Never ELSE stillSince
     IN  IF ~enabled \/ (calibDone /\ ~Rearm) \/ ~joints
           THEN /\ samples' = sampled /\ stillSince' = since
                /\ calibDone' = (calibDone /\ ~Rearm)
                /\ UNCHANGED transform
           ELSE \E moved \in BOOLEAN :
                /\ stillSince' = IF moved \/ since = Never THEN clock ELSE since
                /\ samples' = IF clock - stillSince' < StillTime THEN sampled ELSE sampled + 1
                /\ calibDone' = (samples' >= Samples)
                /\ transform' = IF calibDone' THEN "measured" ELSE transform
  /\ UNCHANGED <<enabled, clock, joints, patience, semantics, episode, lock>>

\* One more sighting of a map; the counts go on past K, K is enough to know.
Seen(c, m) == IF c.ids = m /\ c.count < K THEN [c EXCEPT !.count = @ + 1]
              ELSE IF c.ids = m THEN c ELSE [ids |-> m, count |-> 1]

\* The first map seen K times is adopted, for the episode.
Adopt(c) == IF labelIds = None /\ c.count >= K THEN c.ids ELSE labelIds

\* A labels message that does not name all three classes changes nothing.
SemanticLabels ==
  /\ ~Over
  /\ \E m \in Ids : labels' = Seen(labels, m)
  /\ labelIds' = Adopt(labels')
  /\ UNCHANGED <<clock, joints, patience, calibration, inferred, episode, lock>>

\* Inference only runs until a map is adopted, and drops the target lock
\* when it adopts one.
SemanticImage ==
  /\ ~Over /\ labelIds = None
  /\ \E m \in Ids : inferred' = Seen(inferred, m)
  /\ labelIds' = Adopt(inferred')
  /\ lock' = IF labelIds' = None THEN lock ELSE None
  /\ UNCHANGED <<clock, joints, patience, calibration, labels, episode>>

-----------------------------------------------------------------------------
(* Task2AutonomyNode.tick.                                                 *)

FallbackDue == enabled /\ ~calibDone /\ ~eeSeen /\ ~patience

\* Mutant: installs the transform, and does not call the calibration done.
MutInstallFallback ==
  IF FallbackDue
    THEN /\ fallback' = TRUE /\ transform' = "fallback"
         /\ UNCHANGED <<enabled, calibDone, eeSeen, samples, stillSince>>
    ELSE UNCHANGED calibration

InstallFallback ==
  IF FallbackDue
    THEN /\ calibDone' = TRUE /\ fallback' = TRUE /\ transform' = "fallback"
         /\ UNCHANGED <<enabled, eeSeen, samples, stillSince>>
    ELSE UNCHANGED calibration

\* Mutant: waits for an id map without end.
MutGated(began) == (enabled /\ ~calibDone') \/ labelIds = None

\* The early returns of tick, before the budget is looked at.
Gated(began) ==
  (enabled /\ ~calibDone') \/ (labelIds = None /\ clock - began < Grace)

UsedIds == IF labelIds = None THEN ConfigIds ELSE labelIds

(* What a step of the policy can do, as far as the gates can tell: while   *)
(* aiming it locks a target it sees, by the ids it is given; without       *)
(* joints it waits.                                                        *)
StepPolicy ==
  \/ ~joints /\ UNCHANGED <<policy, lock, gripper>>
  \/ /\ policy = "aiming" /\ joints
     /\ lock' \in {lock, UsedIds}
     /\ policy' \in {"aiming", "placing", "failed"}
     /\ gripper' \in (IF policy' = "failed" THEN {"open"} ELSE {"open", "closed"})
  \/ /\ policy = "placing"
     /\ policy' \in {"placing", "succeeded", "failed"}
     /\ gripper' \in (IF policy' = "placing" THEN {"open", "closed"} ELSE {"open"})
     /\ UNCHANGED lock

Tick ==
  /\ ~Over
  /\ start' = IF start = Never THEN clock ELSE start
  /\ InstallFallback
  /\ IF Gated(start')
       THEN UNCHANGED <<budgetFailed, policy, lock, gripper>>
       ELSE IF clock - start' > MaxEpisode
         THEN budgetFailed' = TRUE /\ gripper' = "open" /\ UNCHANGED <<policy, lock>>
         ELSE StepPolicy /\ UNCHANGED budgetFailed
  /\ UNCHANGED <<clock, joints, patience, semantics>>

Ended == Over /\ UNCHANGED vars

Next ==
  \/ ClockMoves \/ WallTimeout \/ JointState \/ EePose
  \/ SemanticLabels \/ SemanticImage \/ Tick \/ Ended

\* The clocks run and the timer fires; no topic is sure to deliver.
Spec == Init /\ [][Next]_vars /\ WF_vars(ClockMoves) /\ WF_vars(WallTimeout) /\ WF_vars(Tick)

-----------------------------------------------------------------------------
Stepped == Tick /\ ~Gated(start') /\ ~budgetFailed'

TypeOK ==
  /\ clock \in 1..(LatestStart + Horizon)
  /\ {enabled, joints, patience, eeSeen, calibDone, fallback, budgetFailed} \subseteq BOOLEAN
  /\ samples \in 0..Samples
  /\ stillSince \in {Never} \cup 1..clock /\ start \in {Never} \cup 1..clock
  /\ transform \in {None, "fallback", "measured"}
  /\ labelIds \in Ids \cup {None} /\ lock \in Ids \cup {None}
  /\ {labels, inferred} \subseteq [ids : Ids \cup {None}, count : 0..K]
  /\ policy \in Working \cup {"succeeded", "failed"}
  /\ gripper \in {"open", "closed"}
  /\ fallback => calibDone

(* A measured transform supersedes the static fallback (test_runner_gates  *)
(* .py:506-525): with the calibration enabled the policy is never stepped  *)
(* on the guess once the pose has been seen, and never without a           *)
(* transform.                                                              *)
GuessYieldsToPose ==
  [][(Stepped /\ enabled)
       => \/ transform' = "measured"
          \/ transform' = "fallback" /\ ~eeSeen]_vars

(* Once the calibration is in for good, or with the calibration disabled,  *)
(* the episode ends, with or without an id map (the grace of runner.py:    *)
(* 822-831, the budget).                                                   *)
CalibratedEpisodeEnds == <>[](calibDone \/ ~enabled) => <>Over

(* The node is fail-closed: it "opens the gripper on episode-budget        *)
(* exhaustion" (runner.py:8-9).                                            *)
BudgetOpensGripper ==
  (start # Never /\ clock - start > MaxEpisode) ~> (gripper = "open")

(* Adopting a map drops the target lock of the map before it, which "aims  *)
(* at the wrong blobs" (runner.py:399-402).                                *)
LockIsOfUsedIds ==
  [][(Stepped /\ labelIds # None) => lock' \in {None, UsedIds}]_vars

=============================================================================
