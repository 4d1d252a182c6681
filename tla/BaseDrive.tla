------------------------------ MODULE BaseDrive ------------------------------
(***************************************************************************)
(* The castored base of the chain: mirror_lay's base_goto, which pulses it *)
(* to a station and waits each pulse out, zero_base_yaw, and relocalise,   *)
(* which finds the arm base again from a settled pair of joints and tool   *)
(* pose.  Lengths are in mm, pulses in ms.                                 *)
(*                                                                         *)
(* A pose is what a pulse is decided on: the distance to the station, how  *)
(* the next direction lies to the last one, and whether the yaw is off.    *)
(* Where a pulse takes the base is the scene's.                            *)
(***************************************************************************)
EXTENDS Integers, FiniteSetsExt

CONSTANTS
  Tries,     \* pulses of one base_goto
  YawTries,  \* pulses of one zero_base_yaw
  Errs       \* distances a station can be away, in mm

HalveCapMm    == 8     \* growth of the error that halves the cap
UnstickMinMm  == 40    \* room_mode.BASE_UNSTICK_MIN_ERR
ReversalMaxMm == 60    \* room_mode.LOADED_REVERSAL_MAX_ERR
MinPulse      == 50
Refusals      == 3

ASSUME DriveAssumption ==
  /\ Tries \in Nat /\ YawTries \in Nat
  /\ Errs \subseteq Nat /\ Errs # {}

VARIABLES
  base,   \* the base, seen from the station it is driven to
  drive,  \* the locals of base_goto or zero_base_yaw, if one is running
  frame   \* t_wb: is it that of the base, and what relocalise guards it with

baseVars == <<base, drive, frame>>

Turns == {"first", "same", "across", "reverse"}
None == -1

Anywhere == [err |-> 0, turn |-> "first", off |-> FALSE]
Begun(what, tol, capS, tries) ==
  [doing |-> what, tol |-> tol, capS |-> capS,
   left |-> tries, cap |-> capS, prev |-> None, swallowed |-> 0]
Idle == Begun("nothing", 0, 0, 0)

BaseInit ==
  /\ base = Anywhere /\ drive = Idle
  /\ frame = [behind |-> "never", guarded |-> FALSE, refused |-> 0]

-----------------------------------------------------------------------------
(* base_goto.                                                              *)

\* Where the base is not driven, it is seen from nowhere.
Rest == drive' = Idle /\ base' = Anywhere

BeginGoto(tol, capS) ==
  /\ base' \in [err : Errs, turn : {"first"}, off : BOOLEAN]
  /\ drive' = Begun("goto", tol, capS, Tries)
  /\ UNCHANGED frame

\* The base has been driven away from the frame.
LeaveFrame ==
  frame' = [frame EXCEPT !.behind = IF @ = "never" THEN @ ELSE "driven"]

Near == base.err <= drive.tol /\ ~base.off

\* A pulse of the swerve modules: the parking brake, which turns the base too.
Lock == Rest /\ LeaveFrame

Parked == drive.doing = "goto" /\ Near /\ Lock

GiveUp ==
  /\ drive.doing = "goto" /\ drive.left = 0 /\ ~Near
  /\ Rest /\ UNCHANGED frame

Turned == IF base.turn = "first" THEN {"first"} ELSE Turns \ {"first"}

\* The yaw goes first, with a pulse as long as the yaw asks for: a turn, whose
\* length no one bounds by the load.  The direction of the last pulse is kept.
Straighten ==
  /\ drive.doing = "goto" /\ drive.left > 0 /\ base.off
  /\ base' \in [err : Errs, turn : Turned, off : BOOLEAN]
  /\ drive' = [drive EXCEPT !.left = @ - 1]
  /\ LeaveFrame

Due == drive.doing = "goto" /\ drive.left > 0 /\ ~base.off /\ ~Near

\* Loaded, a small residual is not worth a reversal.
ShortOfReversal(loaded) ==
  loaded /\ base.turn = "reverse" /\ base.err <= ReversalMaxMm

StopShort(loaded) == Due /\ ShortOfReversal(loaded) /\ Lock

\* The cap is halved when the last pulse went the wrong way.
Cap ==
  IF drive.prev # None /\ base.err > drive.prev + HalveCapMm
    THEN Max({drive.cap \div 2, MinPulse})
    ELSE drive.cap

Lunge(loaded) ==
  IF loaded THEN Min({220, drive.capS + 40}) ELSE Min({280, drive.capS + 100})

\* How long a pulse that translates the base lasts.
PulseLength(loaded) ==
  LET asked == Min({Max({base.err * 4, MinPulse}), Cap})
  IN  IF drive.swallowed >= 2 THEN Max({asked, Lunge(loaded)}) ELSE asked

\* Mutant: the cap of a base that does not move is let grow past its start.
MutGrownCap == Max({(Cap * 8) \div 5, 120})

GrownCap == Min({Max({(Cap * 8) \div 5, 120}), drive.capS})

Moved ==
  /\ base' \in [err : Errs, turn : {"same", "across", "reverse"}, off : BOOLEAN]
  /\ drive' = [drive EXCEPT !.left = @ - 1, !.cap = Cap, !.prev = base.err,
                            !.swallowed = 0]

\* A pulse has to move the base by this much not to count as swallowed.
MovedMm(loaded) == Max({5, (PulseLength(loaded) * 17) \div 400})

\* Only far enough out is a swallowed pulse followed by stronger ones.
Swallowed(loaded) ==
  /\ \E e \in Errs, turn \in {"same", "across"}, off \in BOOLEAN :
       /\ e < base.err + MovedMm(loaded) /\ base.err < e + MovedMm(loaded)
       /\ base' = [err |-> e, turn |-> turn, off |-> off]
  /\ drive' = IF loaded /\ base.err <= UnstickMinMm
                THEN [drive EXCEPT !.left = @ - 1, !.cap = Cap, !.prev = base.err]
                ELSE [drive EXCEPT !.left = @ - 1, !.cap = GrownCap,
                                   !.prev = base.err,
                                   !.swallowed = Min({@ + 1, 2})]

Pulse(loaded) ==
  /\ Due /\ ~ShortOfReversal(loaded)
  /\ Moved \/ Swallowed(loaded)
  /\ LeaveFrame

-----------------------------------------------------------------------------
(* zero_base_yaw.                                                          *)

Yaws == [err : {0}, turn : {"first"}, off : BOOLEAN]

BeginYaw ==
  /\ base' \in Yaws
  /\ drive' = Begun("yaw", 0, 0, YawTries)
  /\ UNCHANGED frame

\* A turn, as long as the yaw that is left asks for.
YawPulse ==
  /\ drive.doing = "yaw" /\ drive.left > 0 /\ base.off
  /\ base' \in Yaws
  /\ drive' = [drive EXCEPT !.left = @ - 1]
  /\ LeaveFrame

YawDone ==
  /\ drive.doing = "yaw" /\ (drive.left = 0 \/ ~base.off)
  /\ drive' = Idle /\ UNCHANGED <<base, frame>>

Driving(loaded) ==
  \/ Parked \/ GiveUp \/ Straighten \/ StopShort(loaded) \/ Pulse(loaded)
  \/ YawPulse \/ YawDone

-----------------------------------------------------------------------------
(* relocalise.                                                             *)

Frames == [behind : {"never", "no", "rolled", "driven"},
           guarded : BOOLEAN, refused : 0..Refusals]

Accepted == [behind |-> "no", guarded |-> TRUE, refused |-> 0]

\* An intentional move is followed by a look that nothing guards.
Unguarded(f) == [f EXCEPT !.guarded = FALSE]

\* A frame that is guarded and not that of the base can be refused.
Refusable(f) == f.guarded /\ f.behind # "no"

(* One look from frame f: no settled pair; a base that is more than 0.25 m *)
(* from the last accepted frame refused, up to three times; or the frame   *)
(* of the base accepted.                                                   *)
Look(f) ==
  {f, Accepted} \cup
    IF Refusable(f) /\ f.refused < Refusals THEN {[f EXCEPT !.refused = @ + 1]}
                                            ELSE {}

\* A frame accepted in the course of a stage: the base may have rolled since
\* then, and the looks after that be refused.
Renewed ==
  {f \in Frames : /\ f.guarded /\ f.behind \in {"no", "rolled"}
                  /\ f.behind = "no" => f.refused = 0}

\* A frame kept through a stage: no look accepted, and some refused.
Kept(f) ==
  {[f EXCEPT !.refused = n] :
     n \in f.refused..(IF Refusable(f) THEN Refusals ELSE f.refused)}

(* The looks of a stage in which the arm moves, one at every waypoint, and *)
(* rolls the base along: any number of them.                               *)
LooksWhileReaching == frame' \in Renewed \cup Kept(frame)

Poses  == [err : Errs \cup {0}, turn : Turns, off : BOOLEAN]
Drives == [doing : {"nothing", "goto", "yaw"}, tol : Nat, capS : Nat,
           left : Nat, cap : Nat, prev : Errs \cup {None, 0}, swallowed : 0..2]

BaseTypeOK == base \in Poses /\ drive \in Drives /\ frame \in Frames

=============================================================================
