--------------------------- MODULE WaypointPolicy ---------------------------
(***************************************************************************)
(* Task2WaypointPolicy.step: drive the arm from waypoint to waypoint, let  *)
(* go, wait for the pad to settle, verify.  Publishing is enabled, so the  *)
(* configuration has every waypoint.                                       *)
(***************************************************************************)
EXTENDS EpisodeState

Waypoints == {"pregrasp", "grasp", "lift", "preplace", "place"}

NextPhase == [pregrasp |-> "grasp", grasp |-> "lift", lift |-> "preplace",
              preplace |-> "place", place |-> "release"]

\* Mutant: lets go one waypoint early.
MutGripperFor(p) == IF p \in {"lift", "preplace"} THEN "closed" ELSE "open"

\* Closed during transport, open otherwise.
GripperFor(p) == IF p \in {"lift", "preplace", "place"} THEN "closed" ELSE "open"

\* What becomes of the policy, and the gripper command of its decision.
Decide(ph, since, cmd) ==
  phase' = ph /\ phaseStart' = since /\ command' = cmd
  /\ UNCHANGED <<verifyStart, chunk>>

\* start() has set _phase_start with the start of the episode.
WaitForJoints ==
  /\ phase = "wait_for_state" /\ ~joints
  /\ phaseStart' = start'
  /\ UNCHANGED <<phase, verifyStart, chunk, command>>

\* Mutant: the next phase inherits the time at which this one began.
MutDrive(w, since) ==
  \/ clock' - since > WpTimeout /\ Decide("failed", since, "open")
  \/ clock' - since <= WpTimeout /\ Decide(w, since, GripperFor(w))
  \/ clock' - since <= WpTimeout /\ Decide(NextPhase[w], since, GripperFor(NextPhase[w]))

(* Drive to waypoint w since a time: give up, drive on, or have reached it *)
(* and go on to the next.                                                  *)
Drive(w, since) ==
  \/ clock' - since > WpTimeout /\ Decide("failed", since, "open")
  \/ clock' - since <= WpTimeout /\ Decide(w, since, GripperFor(w))
  \/ clock' - since <= WpTimeout /\ Decide(NextPhase[w], clock', GripperFor(NextPhase[w]))

\* The first waypoint is entered on the tick that first has joints.
Transport ==
  \/ phase = "wait_for_state" /\ joints /\ Drive("pregrasp", clock')
  \/ phase \in Waypoints /\ Drive(phase, phaseStart)

\* VERIFY, entered at one time and verified since another, if it has been.
VerifyStep(entered, since) ==
  LET from == VerifyingSince(since)
  IN  /\ verifyStart' = from /\ phaseStart' = entered /\ command' = "open"
      /\ phase' = IF obs = "none" THEN "verify"
                  ELSE IF clock' - from > VerifyTimeout THEN "failed"
                  ELSE IF obs = "pass" THEN "succeeded" ELSE "verify"
      /\ UNCHANGED chunk

\* Mutant: enters VERIFY and leaves the first look to the next tick.
MutRelease ==
  /\ phase = "release"
  /\ Decide(IF clock' - phaseStart >= ReleaseSettle THEN "verify" ELSE "release",
            phaseStart, "open")

Release ==
  /\ phase = "release"
  /\ IF clock' - phaseStart >= ReleaseSettle
       THEN VerifyStep(clock', Never)
       ELSE Decide("release", phaseStart, "open")

Verify == phase = "verify" /\ VerifyStep(phaseStart, verifyStart)

WaypointStep == WaitForJoints \/ Stay \/ Transport \/ Release \/ Verify

=============================================================================
