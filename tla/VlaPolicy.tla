------------------------------ MODULE VlaPolicy ------------------------------
(***************************************************************************)
(* VLAPolicy.step and the close of its episode by the node.  The policy    *)
(* plays the action chunks of its backend, one row per tick, and holds     *)
(* still for a chunk whenever the backend has none to give: no state row,  *)
(* no camera frame, no model, an inference error.  It never ends on its    *)
(* own; the node verifies for it.                                          *)
(*                                                                         *)
(* Of a chunk only the length and the gripper column are kept.             *)
(***************************************************************************)
EXTENDS EpisodeState

\* at: rows played; grips: the gripper column, empty if the model has none
NoChunk == [at |-> 0, len |-> 0, real |-> FALSE, grips |-> <<>>]

Commands == {"open", "closed"}

\* What the model may give: up to ChunkSize rows, as many gripper commands.
RealChunks ==
  UNION {[at : {0}, len : {n}, real : {TRUE},
          grips : {<<>>} \cup [1..n -> Commands]] : n \in 1..ChunkSize}

\* Mutant: the gripper column of the chunk before is kept.
MutHoldChunk == [NoChunk EXCEPT !.len = ChunkSize, !.grips = chunk.grips]

\* A hold commands no gripper.
HoldChunk == [NoChunk EXCEPT !.len = ChunkSize]

\* The chunk a step plays a row of.
PlayedChunks ==
  IF chunk.at < chunk.len THEN {chunk} ELSE {HoldChunk} \cup RealChunks

\* The gripper command after a row of chunk c.
GripperAfter(c) ==
  IF c.at + 1 \in DOMAIN c.grips THEN c.grips[c.at + 1] ELSE command

-----------------------------------------------------------------------------
(* _maybe_verify_vla.                                                      *)

\* Mutant: the gate alone decides.
MutReleased == TRUE

\* The last command before this tick's left the gripper open, or there was none.
Released == command = "open"

\* At the end of the budget the release is not asked for.
OutOfTime(began) == MaxEpisode - (clock' - began) <= VerifyTimeout

Verifies(began) == (Released /\ obs = "pass") \/ OutOfTime(began)

\* report_verification opens the gripper, whatever it finds.
ReportVerification(otherwise) ==
  LET from == VerifyingSince(verifyStart)
  IN  /\ verifyStart' = from /\ command' = "open"
      /\ phase' = IF obs = "none" THEN otherwise
                  ELSE IF clock' - from > VerifyTimeout THEN "failed"
                  ELSE IF obs = "pass" THEN "succeeded" ELSE otherwise

\* A policy that is to be in a phase and to give a command is verified first.
Close(began, ph, cmd) ==
  IF Verifies(began)
    THEN ReportVerification(ph)
    ELSE phase' = ph /\ command' = cmd /\ UNCHANGED verifyStart

-----------------------------------------------------------------------------
\* A policy that still waits for joints is verified as well.
VlaWait(began) ==
  /\ phase = "wait_for_state" /\ ~joints
  /\ Close(began, phase, command)
  /\ UNCHANGED chunk

VlaPlay(began) ==
  /\ phase \notin Terminal /\ joints
  /\ \E c \in PlayedChunks :
       /\ chunk' = [c EXCEPT !.at = @ + 1]
       /\ Close(began, "grasp", GripperAfter(c))

\* Verified without ever having had joints, it has no command to repeat.
VlaStay ==
  IF joints THEN Stay ELSE phase \in Terminal /\ UNCHANGED <<policy, command>>

VlaStep(began) ==
  /\ VlaStay \/ VlaWait(began) \/ VlaPlay(began)
  /\ UNCHANGED phaseStart

=============================================================================
