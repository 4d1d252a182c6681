-------------------------- MODULE PerceptionPolicy --------------------------
(***************************************************************************)
(* The perception-driven policy, vla_policy.PerceptionPolicy, from the     *)
(* first joint state on: one action per branch of step(), each followed by *)
(* the left-arm command of the same tick (left_command).                   *)
(*                                                                         *)
(* A tick takes one unit of time.  A trajectory is its length and the      *)
(* waypoint it is at; whether a plan solves, a waypoint is reached or a    *)
(* mask is good is anyone's guess, and the sheet clings and falls when it  *)
(* likes.  Poses, locks and servo errors are left out.                     *)
(***************************************************************************)
EXTENDS Integers

CONSTANTS
  WaypointTimeout, ReleaseTimeout, VerifyTimeout,
  ReleaseDwell, CloseDwell, PushSettle,
  StallDwell,     \* 6 s: a stalled stroke skips a waypoint
  StallLimit,     \* 30 s: a stalled stroke is given up
  PinTimeout,     \* 90 s: of a motion of the left arm
  ServoIters, SettleTimeout,
  MaxRegrasps, MaxReshakes, MaxPushes, MaxDwells,  \* 4, 3, 6 and 6
  WalkLens,       \* lengths of a trajectory
  StrokeLens      \* lengths of a push stroke

ASSUME PolicyAssumption ==
  /\ {WaypointTimeout, ReleaseTimeout, VerifyTimeout, ReleaseDwell, CloseDwell,
      PushSettle, StallDwell, StallLimit, PinTimeout, ServoIters, SettleTimeout,
      MaxRegrasps, MaxReshakes, MaxPushes, MaxDwells} \subseteq Nat
  /\ MaxPushes > 0
  /\ WalkLens \subseteq Nat \ {0} /\ StrokeLens \subseteq Nat \ {0}

VARIABLES
  setup,      \* what the configuration and the scene's feeds fix
  phase,      \* _phase
  age,        \* time since _phase_start
  walk,       \* _trajectory and _traj_idx; peel: how much of it is the press,
              \* the twist and the rise of a press release
  servo,      \* _servo_left, _servo_last_cmd (sent?), _servo_settle_since
  openAfter,  \* _release_open_after_idx
  push,       \* _push_planned, _pushes_done, _push_dwells, _stall_idx, _stall_since
  regrasps,   \* _regrasps_done
  reshakes,   \* _reshakes_done
  pin,        \* _left_state; "stuck" is its "done" after a lift timed out,
              \* the left arm wherever it got stuck
  pinAge,     \* time since _left_state_since
  grip,       \* the gripper command of the last tick
  sheet,      \* is the top of the sheet above 0.15 m?
  fell        \* history: the phase the sheet last fell in

vars == <<setup, phase, age, walk, servo, openAfter, push, regrasps, reshakes,
          pin, pinAge, grip, sheet, fell>>
scene == <<setup, sheet, fell>>

Setups == [mode : {"press", "pinch", "push_only"},
           push : BOOLEAN,    \* push_enabled
           pin  : BOOLEAN,    \* pin_enabled
           dump : BOOLEAN,    \* release_dump_enabled
           feed : BOOLEAN]    \* pad_gt_z_top is fed

Terminal == {"succeeded", "failed"}
NoWalk   == [len |-> 0, at |-> 0, peel |-> 0]
NoServo  == [left |-> 0, sent |-> FALSE, wait |-> 0]

Init ==
  /\ setup \in Setups
  /\ phase = "wait_for_state" /\ age = 0 /\ walk = NoWalk /\ servo = NoServo
  /\ openAfter = 0 /\ regrasps = 0 /\ reshakes = 0
  /\ push = [planned |-> FALSE, done |-> 0, dwells |-> 0, stallAt |-> -1, stallAge |-> 0]
  /\ pin = "idle" /\ pinAge = 0 /\ grip = "open" /\ sheet = "low" /\ fell = "none"

-----------------------------------------------------------------------------
(* Clocks stop one past the last value they are compared with.             *)

Larger(a, b)    == IF a >= b THEN a ELSE b
Up(clock, last) == IF clock > last THEN clock ELSE clock + 1
Dwells   == Larger(Larger(CloseDwell, ReleaseDwell), PushSettle)
LastAge  == Larger(Larger(WaypointTimeout, ReleaseTimeout), Larger(VerifyTimeout + 1, Dwells))
Now      == Up(age, LastAge)
StallNow == IF push.stallAt = -1 THEN 0 ELSE Up(push.stallAge, Larger(StallDwell, StallLimit))

Wait == age' = Now

-----------------------------------------------------------------------------
(* The left arm.  p is its state after the policy's branch of the tick.    *)

PinMoves  == {"descend", "lift"}
PinNext   == [descend |-> "hold", lift |-> "done"]
PinForced == [descend |-> "hold", lift |-> "stuck"]

\* A motion ends with its last waypoint, or is called over when it times out.
LeftArm(p) ==
  LET since == IF p = pin THEN pinAge + 1 ELSE 0
  IN  \/ p \notin PinMoves /\ pin' = p /\ pinAge' = IF p = "stuck" THEN pinAge ELSE 0
      \/ p \in PinMoves /\ since <= PinTimeout /\ pin' = p /\ pinAge' = since
      \/ /\ p \in PinMoves /\ since > 0 /\ since <= PinTimeout
         /\ pin' = PinNext[p] /\ pinAge' = 0
      \/ /\ p \in PinMoves /\ since > PinTimeout
         /\ pin' = PinForced[p] /\ pinAge' = IF p = "lift" THEN since ELSE 0

\* Mutant: the pin is forgotten when RELEASE is over.
MutCleared == pin

\* A pin that is down is lifted in any phase that gets here but two.
Cleared ==
  IF phase \notin {"place", "release"} /\ pin \in {"descend", "hold"} THEN "lift" ELSE pin

-----------------------------------------------------------------------------
(* Ways into a phase.                                                      *)

counts == <<push, regrasps, reshakes>>

\* Nothing but the phase and the left arm is looked at in an ended policy.
Fail == phase' = "failed" /\ grip' = "open" /\ UNCHANGED <<age, walk, servo, openAfter>>

ToVerify ==
  /\ phase' = "verify" /\ age' = 0 /\ grip' = "open"
  /\ UNCHANGED <<walk, servo, openAfter>>

\* Mutant: PUSH goes on with the clock of the phase before it.
MutEnterPush(q) ==
  /\ phase' = "push" /\ Wait /\ walk' = NoWalk /\ grip' = "closed"
  /\ push' = [q EXCEPT !.planned = FALSE]
  /\ UNCHANGED <<servo, openAfter>>

\* To PUSH, or once more from its start: the stroke is planned after a settle.
EnterPush(q) ==
  /\ phase' = "push" /\ age' = 0 /\ walk' = NoWalk /\ grip' = "closed"
  /\ push' = [q EXCEPT !.planned = FALSE]
  /\ UNCHANGED <<servo, openAfter>>

Servos(ph) ==
  IF ph = "place" \/ (ph = "grasp" /\ setup.mode # "press") THEN ServoIters ELSE 0

GripperFor(ph) ==
  IF ph \in {"lift", "preplace", "place"} \/ (ph = "grasp" /\ setup.mode = "press")
    THEN "closed" ELSE "open"

\* What the planners give, if they solve: the interpolation of the way there.
Planned == [len : WalkLens, at : {0}, peel : {0}]

BeginPhase(ph) ==
  \/ Fail
  \/ /\ phase' = ph /\ age' = 0 /\ grip' = GripperFor(ph)
     /\ walk' \in Planned
     /\ servo' = [NoServo EXCEPT !.left = Servos(ph)]
     /\ UNCHANGED openAfter

-----------------------------------------------------------------------------
(* From the stack to the place pose.                                       *)

Carry == {"pregrasp", "grasp", "lift", "preplace", "place"}
After == [pregrasp |-> "grasp", grasp |-> "lift", lift |-> "preplace", preplace |-> "place"]

\* The first tick with joints; what it does of PREGRASP itself is the next tick.
Begin ==
  /\ phase = "wait_for_state"
  /\ \/ setup.mode # "push_only" /\ BeginPhase("pregrasp") /\ UNCHANGED push
     \/ setup.mode = "push_only" /\ setup.push /\ EnterPush(push)
     \/ setup.mode = "push_only" /\ ~setup.push /\ Fail /\ UNCHANGED push
  /\ LeftArm(pin) /\ UNCHANGED <<scene, regrasps, reshakes>>

\* LIFT begins with a dwell: the jaws close at the grasp pose.
CloseJaws ==
  /\ phase = "lift" /\ Now < CloseDwell
  /\ Wait /\ grip' = "closed"
  /\ LeftArm(pin) /\ UNCHANGED <<scene, phase, walk, servo, openAfter, counts>>

\* The left fingertip descends, or the pin is skipped.
PlannedPins == IF setup.pin /\ pin = "idle" THEN {"descend", "done"} ELSE {pin}

\* The peel skips what it cannot solve; it always has a retreat or a tuck.
ReleasePlans ==
  UNION {[len : {n}, at : {0}, peel : IF setup.mode = "press" THEN 0..(n - 1) ELSE {0}] :
           n \in WalkLens}

\* Mutant: only a shake or a tilt that is solved says where the jaws open.
MutOpensAfter(w) == IF setup.mode = "press" THEN {0, w.peel} ELSE {0}

(* The waypoint the jaws open at: in press mode the first that shakes,     *)
(* tilts or dumps the sheet, after the rise, and the first of all where    *)
(* there is no dump and no shake or tilt is asked for or solved.           *)
OpensAfter(w) ==
  IF setup.mode # "press" THEN {0}
  ELSE IF setup.dump THEN {w.peel} ELSE {0, w.peel}

\* RELEASE begins with the plan of the pin; its own plan cannot fail.
BeginRelease ==
  /\ phase' = "release" /\ age' = 0 /\ servo' = NoServo
  /\ walk' \in ReleasePlans /\ openAfter' \in OpensAfter(walk')
  /\ grip' = IF setup.mode = "press" /\ ReleaseDwell > 0 THEN "closed" ELSE "open"
  /\ \E p \in PlannedPins : LeftArm(p)
  /\ UNCHANGED counts

\* Mutant: the carry is checked before PREPLACE only.
MutAttached(nxt) ==
  ~(nxt = "preplace" /\ setup.feed /\ sheet = "low" /\ regrasps < MaxRegrasps)

\* Attach verification: a carried sheet keeps its top up, or no regrasp is left.
Attached(nxt) ==
  ~(nxt \in {"preplace", "place"} /\ setup.feed /\ sheet = "low" /\ regrasps < MaxRegrasps)

\* Mutant: the regrasp is not counted.
MutRegrasp ==
  /\ UNCHANGED <<regrasps, reshakes>>
  /\ \/ setup.push /\ EnterPush(push)
     \/ BeginPhase("pregrasp") /\ UNCHANGED push

\* A sheet too low to be pressed is pushed instead.
Regrasp ==
  /\ regrasps' = regrasps + 1 /\ UNCHANGED reshakes
  /\ \/ setup.push /\ EnterPush(push)
     \/ BeginPhase("pregrasp") /\ UNCHANGED push

Transition ==
  \/ /\ phase = "place" /\ BeginRelease
  \/ /\ phase # "place" /\ Attached(After[phase]) /\ BeginPhase(After[phase])
     /\ LeftArm(Cleared) /\ UNCHANGED counts
  \/ /\ phase # "place" /\ ~Attached(After[phase]) /\ Regrasp
     /\ LeftArm(Cleared)

\* What a tick of a carrying phase does when it neither plans nor changes phase.
KeepPhase ==
  /\ Wait /\ grip' = GripperFor(phase)
  /\ LeftArm(Cleared) /\ UNCHANGED <<phase, openAfter, counts>>

(* At the end of GRASP and PLACE the ee servo corrects the pose, waiting   *)
(* each time for the joints to follow; the timeout of the phase is not     *)
(* looked at meanwhile.  It may be in tolerance at any look.               *)
ServoOrTransition(w) ==
  \/ Transition
  \/ /\ servo.left > 0
     /\ \/ /\ servo.sent /\ servo.wait < SettleTimeout
           /\ servo' = [servo EXCEPT !.wait = @ + 1]
        \/ servo' = [left |-> servo.left - 1, sent |-> TRUE, wait |-> 0]
     /\ walk' = w /\ KeepPhase

Dwelling == phase = "lift" /\ Now < CloseDwell
Step(w)  == [w EXCEPT !.at = @ + 1]

Carrying ==
  /\ phase \in Carry /\ ~Dwelling
  /\ \/ walk.at >= walk.len /\ ServoOrTransition(walk)
     \/ /\ walk.at < walk.len /\ Now > WaypointTimeout
        /\ Fail /\ LeftArm(Cleared) /\ UNCHANGED counts
     \/ /\ walk.at < walk.len /\ Now <= WaypointTimeout
        /\ \/ KeepPhase /\ UNCHANGED <<walk, servo>>
           \/ Step(walk).at < walk.len /\ walk' = Step(walk) /\ KeepPhase /\ UNCHANGED servo
           \/ Step(walk).at >= walk.len /\ ServoOrTransition(Step(walk))
  /\ UNCHANGED scene

-----------------------------------------------------------------------------
(* RELEASE.                                                                *)

\* At the place pose until the jaws are open and the pin is down.
ReleaseDwelling ==
  /\ phase = "release" /\ (Now < ReleaseDwell \/ pin = "descend")
  /\ Wait /\ grip' = IF setup.mode = "press" THEN "closed" ELSE "open"
  /\ LeftArm(pin) /\ UNCHANGED <<scene, phase, walk, servo, openAfter, counts>>

Landed ==
  \/ setup.push /\ EnterPush(push)
  \/ ~setup.push /\ ToVerify /\ UNCHANGED push

ReshakePlans == Planned

\* Detach verification: a sheet whose top is still up is shaken again.
ReleaseOver ==
  LET Stuck == setup.feed /\ sheet = "held" /\ reshakes < MaxReshakes
  IN  /\ IF Stuck
           THEN /\ reshakes' = reshakes + 1
                /\ \/ /\ walk' \in ReshakePlans /\ openAfter' = 0
                      /\ age' = 0 /\ grip' = "open" /\ UNCHANGED <<phase, servo, push>>
                   \/ Landed
           ELSE Landed /\ UNCHANGED reshakes
      /\ UNCHANGED regrasps

Release ==
  /\ phase = "release" /\ ~(Now < ReleaseDwell \/ pin = "descend")
  /\ \/ Now > ReleaseTimeout /\ ToVerify /\ UNCHANGED counts
     \/ /\ Now <= ReleaseTimeout
        /\ \/ Step(walk).at >= walk.len /\ ReleaseOver
           \/ /\ walk' \in {walk, Step(walk)} /\ walk'.at < walk.len /\ Wait
              /\ grip' = IF setup.mode = "press" /\ walk'.at < openAfter
                           THEN "closed" ELSE "open"
              /\ UNCHANGED <<phase, servo, openAfter, counts>>
  /\ LeftArm(pin) /\ UNCHANGED scene

-----------------------------------------------------------------------------
(* PUSH.  w and q are the trajectory and the push state as they stand.     *)

\* Mutant: one push too many.
MutPushOver(q) ==
  \/ q.done <= MaxPushes /\ EnterPush(q)
  \/ q.done > MaxPushes /\ ToVerify /\ push' = q

\* A stroke is over, given up or timed out: another one, if one is left.
PushOver(q) ==
  \/ q.done < MaxPushes /\ EnterPush(q)
  \/ q.done >= MaxPushes /\ ToVerify /\ push' = q

Advance(w, q) ==
  \/ Now > ReleaseTimeout /\ PushOver(q)
  \/ /\ Now <= ReleaseTimeout
     /\ \/ Step(w).at >= w.len /\ PushOver(q)
        \/ /\ walk' \in {w, Step(w)} /\ walk'.at < w.len
           /\ push' = q /\ Wait /\ grip' \in {"open", "closed"}
           /\ UNCHANGED <<phase, servo, openAfter>>

\* The contact-stall guard comes before the timeout and the waypoint.
DriveStroke(w, q) ==
  LET moved  == q.stallAt # w.at
      skip   == ~moved /\ StallNow > StallDwell /\ q.dwells < MaxDwells
      giveUp == ~moved /\ ~skip /\ StallNow > StallLimit
      next   == Step(w)
      skipped == [q EXCEPT !.dwells = @ + 1, !.stallAt = next.at, !.stallAge = 0]
  IN  \/ moved /\ Advance(w, [q EXCEPT !.stallAt = w.at, !.stallAge = 0])
      \/ skip /\ next.at >= w.len /\ PushOver(skipped)
      \/ skip /\ next.at < w.len /\ Advance(next, skipped)
      \/ giveUp /\ PushOver([q EXCEPT !.stallAt = -1, !.stallAge = 0])
      \/ ~moved /\ ~skip /\ ~giveUp /\ Advance(w, [q EXCEPT !.stallAge = StallNow])

\* All of a stroke solves, from behind the sheet to the tuck, or none of it.
StrokePlans == [len : StrokeLens, at : {0}, peel : {0}]

Settling == Now < PushSettle \/ Cleared = "lift"

Settle ==
  /\ phase = "push" /\ ~push.planned /\ Settling
  /\ Wait /\ grip' = "closed" /\ push' = [push EXCEPT !.stallAge = StallNow]
  /\ LeftArm(Cleared)
  /\ UNCHANGED <<scene, phase, walk, servo, openAfter, regrasps, reshakes>>

(* Planned from what the camera sees now: a stroke, which begins at once;  *)
(* a tuck to see the sheet, if strokes are left; or nothing more to do.    *)
PlanPush ==
  LET q == [push EXCEPT !.planned = TRUE, !.done = @ + 1, !.stallAge = StallNow]
  IN  /\ phase = "push" /\ ~push.planned /\ ~Settling
      /\ \/ \E w \in StrokePlans : DriveStroke(w, [q EXCEPT !.dwells = 0])
         \/ /\ q.done < MaxPushes
            /\ walk' \in Planned /\ push' = q /\ Wait
            /\ grip' = "closed" /\ UNCHANGED <<phase, servo, openAfter>>
         \/ ToVerify /\ push' = q
      /\ LeftArm(Cleared) /\ UNCHANGED <<scene, regrasps, reshakes>>

Push ==
  /\ phase = "push" /\ push.planned
  /\ DriveStroke(walk, push)
  /\ LeftArm(Cleared) /\ UNCHANGED <<scene, regrasps, reshakes>>

-----------------------------------------------------------------------------
(* VERIFY, whose clock starts with its first tick, and the end.            *)

StepVerify ==
  /\ phase = "verify"
  /\ \/ Wait /\ grip' = "open" /\ UNCHANGED <<phase, walk, servo, openAfter>>
     \/ Now > VerifyTimeout + 1 /\ Fail
     \/ /\ Now <= VerifyTimeout + 1
        /\ phase' = "succeeded" /\ grip' = "open"
        /\ UNCHANGED <<age, walk, servo, openAfter>>
  /\ LeftArm(pin) /\ UNCHANGED <<scene, counts>>

Over ==
  /\ phase \in Terminal
  /\ grip' = IF phase = "failed" THEN "open" ELSE "closed"
  /\ LeftArm(pin) /\ UNCHANGED <<scene, phase, age, walk, servo, openAfter, counts>>

-----------------------------------------------------------------------------
\* The sheet clings while it is grasped, and falls at any time.
Sheet ==
  /\ \/ phase \in {"grasp", "lift"} /\ sheet = "low" /\ sheet' = "held" /\ fell' = "none"
     \/ sheet = "held" /\ sheet' = "low" /\ fell' = phase
  /\ phase \notin Terminal
  /\ UNCHANGED <<setup, phase, age, walk, servo, openAfter, counts, pin, pinAge, grip>>

Tick ==
  \/ Begin \/ CloseJaws \/ Carrying \/ ReleaseDwelling \/ Release
  \/ Settle \/ PlanPush \/ Push \/ StepVerify \/ Over

Next == Tick \/ Sheet

\* The runner's timer ticks for ever; nothing is asked of the sheet.
Spec == Init /\ [][Next]_vars /\ WF_vars(Tick)

-----------------------------------------------------------------------------
Phases == Carry \cup Terminal \cup {"wait_for_state", "release", "push", "verify"}
Walks  == [len : {0} \cup WalkLens \cup StrokeLens, at : Nat, peel : Nat]
Pins   == {"idle", "descend", "hold", "lift", "done", "stuck"}

TypeOK ==
  /\ setup \in Setups /\ phase \in Phases /\ age \in 0..(LastAge + 1)
  /\ walk \in Walks /\ walk.at <= walk.len
  /\ servo \in [left : 0..ServoIters, sent : BOOLEAN, wait : 0..SettleTimeout]
  /\ openAfter \in Nat
  /\ push \in [planned : BOOLEAN, done : 0..MaxPushes, dwells : 0..MaxDwells,
               stallAt : Nat \cup {-1}, stallAge : Nat]
  /\ regrasps \in 0..MaxRegrasps /\ reshakes \in 0..MaxReshakes
  /\ pin \in Pins /\ pinAge \in 0..(PinTimeout + 1)
  /\ pin = "stuck" <=> pinAge > PinTimeout
  /\ grip \in {"open", "closed"} /\ sheet \in {"low", "held"}
  /\ fell \in Phases \cup {"none"}

(* Every phase before the verification ends: the policy comes to verify,   *)
(* or fails, whatever is reached, clings, falls or stalls (the timeouts,   *)
(* dwells and budgets of step, vla_policy.py:391-557).                     *)
ComesToVerify == <>(phase \in {"verify", "succeeded", "failed"})

(* A stroke waits for the left arm's lift (vla_policy.py:447-463),         *)
(* whichever way RELEASE was left: it is driven with the left arm tucked   *)
(* or never moved, or after a lift that had all of its PinTimeout.  After  *)
(* such a lift the arm may still be over the sheet: the code calls it done *)
(* (1113-1121) and drives.                                                 *)
StrokeWaitsForLift ==
  (phase = "push" /\ push.planned)
    => pin \in {"idle", "done"} \/ (pin = "stuck" /\ pinAge > PinTimeout)

(* A push that is counted is driven for a tick at least, or the last: the  *)
(* wait for the left arm to lift does not eat it up                        *)
(* (vla_policy.py:456-468 against the timeout, 542-549).                   *)
CountedPushIsDriven ==
  [][push'.done > push.done => (push'.planned \/ phase' = "verify")]_vars

(* What is brought to the place pose was carried there: with the feed of   *)
(* the sheet's height and a regrasp left, a sheet that lies low in PLACE   *)
(* or RELEASE fell in one of them (vla_policy.py:1532-1561).               *)
CarryIsChecked ==
  (phase \in {"place", "release"} /\ setup.feed /\ sheet = "low"
     /\ regrasps < MaxRegrasps) => fell \in {"place", "release"}

(* The jaws stay closed from the lift to the place pose and, in press      *)
(* mode, until the press, the twist and the rise of the release are driven *)
(* (vla_policy.py:230, "early splaying drags the sheet"), however many of  *)
(* these, of the shakes and of the tilts solve.  A plan in which nothing   *)
(* opens them after the rise, no dump and no shake or tilt that solves, is *)
(* left out: the code opens the jaws at its first waypoint (876).          *)
JawsKeepTheSheet ==
  /\ phase \in {"lift", "preplace", "place"} => grip = "closed"
  /\ (phase = "release" /\ setup.mode = "press" /\ walk.at < walk.peel
        /\ (setup.dump \/ openAfter > 0)) => grip = "closed"

=============================================================================
