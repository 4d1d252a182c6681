----------------------------- MODULE NodeEpisode -----------------------------
(***************************************************************************)
(* One episode of the autonomy node, under the fixed-waypoint policy or    *)
(* under the VLA policy: Task2AutonomyNode.tick around the policy's step.  *)
(* The runner overrides the policy when the episode budget is spent,       *)
(* publishes what it decides, and drives the arm home for a photo before   *)
(* the process ends.                                                       *)
(*                                                                         *)
(* A tick reads the clock once, so the time that passes before a tick is   *)
(* part of the tick; messages arrive between ticks.                        *)
(***************************************************************************)
EXTENDS WaypointPolicy, VlaPolicy

Kinds  == {"waypoint", "vla"}
Phases == Waypoints \cup Terminal \cup {"wait_for_state", "release", "verify"}

Init ==
  /\ kind \in Kinds
  /\ clock = 0 /\ joints = FALSE /\ obs = "none"
  /\ start = Never /\ phase = "wait_for_state"
  /\ phaseStart = Never /\ verifyStart = Never /\ chunk = NoChunk
  /\ budgetFailed = FALSE /\ retreat = Never /\ done = FALSE
  /\ command = "open" /\ gripper = "open" /\ openSince = 0

-----------------------------------------------------------------------------
(* Subscriptions.                                                          *)

JointState    == ~done /\ joints' = TRUE /\ UNCHANGED <<obs, episode>>
SemanticImage == ~done /\ obs' \in {"pass", "fall_short"} /\ UNCHANGED <<joints, episode>>

-----------------------------------------------------------------------------
(* Task2AutonomyNode.tick.                                                 *)

Step(began) ==
  \/ kind = "waypoint" /\ WaypointStep
  \/ kind = "vla" /\ VlaStep(began)

\* Mutant: the spent budget is noted, but the policy has the last word.
MutDispatch(began) ==
  /\ budgetFailed' = (budgetFailed \/ clock' - began > MaxEpisode)
  /\ Step(began)

\* Once the budget is spent the policy is never stepped again.
Dispatch(began) ==
  IF clock' - began > MaxEpisode
    THEN budgetFailed' = TRUE /\ command' = "open" /\ UNCHANGED policy
    ELSE UNCHANGED budgetFailed /\ Step(began)

\* Mutant: only a terminal policy is shut down.
MutOver == phase' \in Terminal

Over == budgetFailed' \/ phase' \in Terminal

\* Mutant: the retreat is timed from every tick anew.
MutRetreatFrom == clock'

RetreatFrom == IF retreat = Never THEN clock' ELSE retreat

\* The photo retreat publishes its open command after the decision's own.
Retreating == Over /\ clock' - RetreatFrom < PhotoRetreat

(* A tick before the first /clock message does nothing: it is a stutter.   *)
Tick ==
  /\ ~done
  /\ \E gap \in Gaps : clock' = clock + gap /\ clock' <= Horizon
  /\ start = Never => clock' > 0
  /\ start' = IF start = Never THEN clock' ELSE start
  /\ Dispatch(start')
  /\ retreat' = IF Over THEN RetreatFrom ELSE retreat
  /\ done' = (Over /\ ~Retreating)
  /\ gripper' = IF Retreating THEN "open" ELSE command'
  /\ openSince' = IF gripper' # "open" THEN Never
                  ELSE IF gripper = "open" THEN openSince ELSE clock'
  /\ UNCHANGED <<kind, joints, obs>>

Ended == done /\ UNCHANGED vars

Next == JointState \/ SemanticImage \/ Tick \/ Ended

\* The timer keeps firing on a clock that keeps moving; nothing says that the
\* arm, the joint states, the camera or the model ever deliver.
Spec == Init /\ [][Next]_vars /\ WF_vars(Tick /\ clock' > clock)

-----------------------------------------------------------------------------
TypeOK ==
  /\ kind \in Kinds
  /\ clock \in 0..Horizon
  /\ joints \in BOOLEAN /\ obs \in {"none", "pass", "fall_short"}
  /\ phase \in Phases
  /\ \A t \in {start, phaseStart, verifyStart, retreat, openSince} :
       t = Never \/ t \in 0..clock
  /\ phase \in {"verify", "succeeded"} => verifyStart # Never
  /\ chunk \in [at : 0..ChunkSize, len : 0..ChunkSize, real : BOOLEAN,
                grips : Seq(Commands)]
  /\ budgetFailed \in BOOLEAN /\ done \in BOOLEAN
  /\ command \in Commands /\ gripper \in Commands
  /\ done => retreat # Never

(* Fail-closed (runner.py:834-841): from a failure on, of the policy or of *)
(* the episode budget, every command leaves the gripper open, the last one *)
(* before the process ends included.                                       *)
FailureLeavesGripperOpen ==
  [][(budgetFailed' \/ phase' = "failed") => gripper' = "open"]_vars

(* The waypoint policy does not drop the pad in transport: a closed        *)
(* gripper is opened only at the place waypoint or because the episode has *)
(* failed.                                                                 *)
NoDropInTransport ==
  [][(kind = "waypoint" /\ gripper = "closed" /\ gripper' = "open")
       => \/ phase = "place" /\ phase' = "release"
          \/ phase' = "failed" \/ budgetFailed']_vars

(* The waypoint policy declares a placement verified no sooner than the    *)
(* release settle after the gripper was opened over the target, and only   *)
(* while the latest observation passes the gate.  When that observation    *)
(* was taken is not asked: the node keeps the last one it has received     *)
(* (policy.py:139-145, 195-211).                                           *)
VerifiedAfterRelease ==
  [][(kind = "waypoint" /\ phase' = "succeeded" /\ phase # "succeeded")
       => /\ obs = "pass"
          /\ openSince # Never /\ clock' - openSince >= ReleaseSettle]_vars

(* A VLA episode does not succeed while the gripper holds what the policy  *)
(* closed it on: "a carried pad passes the 2D-bbox gate too" (runner.py:   *)
(* 982-983).  Its last command, if it gave any, left the gripper open; one *)
(* that never commanded the gripper counts as having let go (279), and in  *)
(* the last VerifyTimeout of the budget the code does not ask.             *)
ReleasedOrOutOfTime ==
  [][(kind = "vla" /\ phase' = "succeeded" /\ phase # "succeeded")
       => /\ obs = "pass"
          /\ gripper = "open" \/ OutOfTime(start')]_vars

(* "Holds must not publish the phase-default gripper" (vla_policy.py:1799):*)
(* while the policy holds still, whatever it played before, the gripper    *)
(* keeps its last command until the episode is verified or over.           *)
HoldKeepsGripper ==
  [][(kind = "vla" /\ ~chunk'.real /\ phase' = "grasp" /\ ~budgetFailed'
        /\ UNCHANGED verifyStart /\ verifyStart = Never)
       => gripper' = gripper]_vars

(* The process ends in bounded time: by the budget and the retreat, and by *)
(* the two ticks that notice them (runner.py:834-836, 878-887).            *)
EndsInTime ==
  start # Never /\ ~done => clock - start < MaxEpisode + PhotoRetreat + Max(Gaps)

(* Every episode ends, without joint states, without a camera, without a   *)
(* model and with an arm that never moves (runner.py:834-836, 874-886).    *)
EpisodeEnds == <>done

=============================================================================
