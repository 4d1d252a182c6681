------------------------- MODULE MirrorChainProofs -------------------------
(***************************************************************************)
(* Theorems about MirrorChain, for every value of its constants: any       *)
(* number of pulses, pinches, probe cycles and legs, any distances, any    *)
(* heights of the spine.                                                   *)
(*                                                                         *)
(* The invariants are proved one after the other, each from the ones       *)
(* before it: what is typed, where the base is driven, where the arm and   *)
(* the spine are, what has slipped, and in which frame the base is known.  *)
(***************************************************************************)
EXTENDS MirrorChain, NumberFacts

LEMMA MaxOfTwo ==
  ASSUME NEW a \in Int, NEW b \in Int
  PROVE  Max({a, b}) = IF a >= b THEN a ELSE b
<1> DEFINE m == IF a >= b THEN a ELSE b
<1>1. m \in {a, b} /\ \A y \in {a, b} : m >= y
  OBVIOUS
<1>2. \A x \in {a, b} : (\A y \in {a, b} : x >= y) => x = m
  OBVIOUS
<1> QED BY <1>1, <1>2 DEF Max

LEMMA MinOfTwo ==
  ASSUME NEW a \in Int, NEW b \in Int
  PROVE  Min({a, b}) = IF a <= b THEN a ELSE b
<1> DEFINE m == IF a <= b THEN a ELSE b
<1>1. m \in {a, b} /\ \A y \in {a, b} : m <= y
  OBVIOUS
<1>2. \A x \in {a, b} : (\A y \in {a, b} : x <= y) => x = m
  OBVIOUS
<1> QED BY <1>1, <1>2 DEF Min

-----------------------------------------------------------------------------
(* The base drive keeps its types, whether it is loaded or not.            *)

LEMMA RestTyped == Idle \in Drives /\ Anywhere \in Poses
  BY DEF Idle, Begun, Drives, None, Anywhere, Poses, Turns

LEMMA LeaveFrameTyped == frame \in Frames /\ LeaveFrame => frame' \in Frames
  BY DEF Frames, LeaveFrame

LEMMA CapTyped ==
  ASSUME drive \in Drives
  PROVE  Cap \in Nat /\ GrownCap \in Nat
<1>1. drive.cap \in Nat /\ drive.capS \in Nat
  BY DEF Drives
<1>2. Max({drive.cap \div 2, MinPulse}) \in Nat
  BY <1>1, MaxOfTwo DEF MinPulse
<1>3. Cap \in Nat
  BY <1>1, <1>2 DEF Cap
<1>4. Max({(Cap * 8) \div 5, 120}) \in Nat
  BY <1>3, MaxOfTwo
<1>5. GrownCap \in Nat
  <2> DEFINE m == Max({(Cap * 8) \div 5, 120})
  <2>1. m \in Nat /\ drive.capS \in Nat
    BY <1>1, <1>4
  <2> HIDE DEF m
  <2>2. Min({m, drive.capS}) \in Nat
    BY <2>1, MinOfTwo
  <2> QED BY <2>2 DEF GrownCap, m
<1> QED BY <1>3, <1>5

LEMMA PulsedTyped ==
  ASSUME NEW d \in Drives, NEW l \in Nat, NEW c \in Nat,
         NEW p \in Errs \cup {None, 0}, NEW n \in 0..2
  PROVE  [d EXCEPT !.left = l, !.cap = c, !.prev = p, !.swallowed = n] \in Drives
  BY DEF Drives

LEMMA PulseTyped ==
  ASSUME BaseTypeOK, NEW loaded, Pulse(loaded)
  PROVE  BaseTypeOK'
<1>1. Cap \in Nat /\ GrownCap \in Nat /\ Min({drive.swallowed + 1, 2}) \in 0..2
  BY CapTyped, MinOfTwo DEF BaseTypeOK, Drives
<1>2. drive \in Drives /\ drive.left - 1 \in Nat
      /\ base.err \in Errs \cup {None, 0} /\ drive.swallowed \in 0..2 /\ 0 \in 0..2
  BY DEF Pulse, Due, BaseTypeOK, Drives, Poses
<1>3. frame' \in Frames
  BY LeaveFrameTyped DEF Pulse, BaseTypeOK
<1>4. base' \in Poses
  BY DEF Pulse, Moved, Swallowed, Poses, Turns
<1>5. CASE Moved
  BY <1>1, <1>2, <1>3, <1>4, <1>5, PulsedTyped DEF Moved, BaseTypeOK
<1>6. CASE Swallowed(loaded)
  <2>1. CASE loaded /\ base.err <= UnstickMinMm
    <3>1. drive' = [drive EXCEPT !.left = drive.left - 1, !.cap = Cap, !.prev = base.err]
      BY <1>6, <2>1 DEF Swallowed
    <3> QED BY <1>1, <1>2, <1>3, <1>4, <3>1 DEF Drives, BaseTypeOK
  <2>2. CASE ~(loaded /\ base.err <= UnstickMinMm)
    BY <1>1, <1>2, <1>3, <1>4, <1>6, <2>2, PulsedTyped DEF Swallowed, BaseTypeOK
  <2> QED BY <2>1, <2>2
<1> QED BY <1>5, <1>6 DEF Pulse

LEMMA DrivingTyped ==
  ASSUME BaseTypeOK, NEW loaded, Driving(loaded)
  PROVE  BaseTypeOK'
<1>1. CASE Parked \/ StopShort(loaded)
  BY <1>1, RestTyped, LeaveFrameTyped DEF Parked, StopShort, Lock, Rest, BaseTypeOK
<1>2. CASE GiveUp
  BY <1>2, RestTyped DEF GiveUp, Rest, BaseTypeOK
<1>3. CASE Straighten
  <2>1. base' \in Poses
    BY <1>3 DEF Straighten, Turned, Poses, Turns
  <2>2. drive' \in Drives
    BY <1>3 DEF Straighten, BaseTypeOK, Drives
  <2> QED BY <1>3, <2>1, <2>2, LeaveFrameTyped DEF Straighten, BaseTypeOK
<1>4. CASE Pulse(loaded)
  BY <1>4, PulseTyped
<1>5. CASE YawPulse
  <2>1. base' \in Poses
    BY <1>5 DEF YawPulse, Yaws, Poses, Turns
  <2>2. drive' \in Drives
    BY <1>5 DEF YawPulse, BaseTypeOK, Drives
  <2> QED BY <1>5, <2>1, <2>2, LeaveFrameTyped DEF YawPulse, BaseTypeOK
<1>6. CASE YawDone
  BY <1>6, RestTyped DEF YawDone, BaseTypeOK
<1> QED BY <1>1, <1>2, <1>3, <1>4, <1>5, <1>6 DEF Driving

LEMMA DriveToTyped ==
  ASSUME BaseTypeOK, NEW tol \in Nat, NEW capS \in Nat, DriveTo(tol, capS)
  PROVE  BaseTypeOK'
<1>1. CASE Driveable
  <2>1. BeginGoto(tol, capS)
    BY <1>1 DEF DriveTo
  <2>2. base' \in Poses
    BY <2>1 DEF BeginGoto, Poses, Turns
  <2>3. drive' \in Drives
    BY <2>1, DriveAssumption DEF BeginGoto, Begun, Drives, None
  <2> QED BY <2>1, <2>2, <2>3 DEF BeginGoto, BaseTypeOK
<1>2. CASE ~Driveable
  BY <1>2 DEF DriveTo, baseVars, BaseTypeOK
<1> QED BY <1>1, <1>2

LEMMA BeginYawTyped ==
  ASSUME BaseTypeOK, BeginYaw
  PROVE  BaseTypeOK'
<1>1. base' \in Poses
  BY DEF BeginYaw, Yaws, Poses, Turns
<1>2. drive' \in Drives
  BY DriveAssumption DEF BeginYaw, Begun, Drives, None
<1> QED BY <1>1, <1>2 DEF BeginYaw, BaseTypeOK

LEMMA AcceptedTyped == Accepted \in Frames
  BY DEF Accepted, Frames, Refusals

(* A look never makes up a frame: it keeps the one it is given, counts a   *)
(* refusal, or accepts the frame of the base.                              *)
LEMMA LookKeepsType ==
  ASSUME NEW f \in Frames, NEW g \in Look(f)
  PROVE  /\ g \in Frames
         /\ g = Accepted \/ (g.behind = f.behind /\ g.guarded = f.guarded)
<1>1. CASE g = f
  BY <1>1
<1>2. CASE g = Accepted
  BY <1>2, AcceptedTyped
<1>3. CASE f.refused < Refusals /\ g = [f EXCEPT !.refused = @ + 1]
  BY <1>3 DEF Frames, Refusals
<1> QED BY <1>1, <1>2, <1>3 DEF Look

(* After the looks of a stage the frame is a renewed one, or the old one.  *)
LEMMA RenewedOrKept ==
  ASSUME frame \in Frames, NEW g \in Renewed \cup Kept(frame)
  PROVE  /\ g \in Frames
         /\ \/ g.guarded /\ g.behind \in {"no", "rolled"}
            \/ g.behind = frame.behind /\ g.guarded = frame.guarded
<1>1. CASE g \in Renewed
  BY <1>1 DEF Renewed
<1>2. CASE g \in Kept(frame)
  <2> DEFINE last == IF Refusable(frame) THEN Refusals ELSE frame.refused
  <2>1. PICK n \in frame.refused..last : g = [frame EXCEPT !.refused = n]
    BY <1>2 DEF Kept
  <2>2. frame.refused \in 0..Refusals /\ last \in 0..Refusals
    BY DEF Frames, Refusals
  <2>3. n \in 0..Refusals
    BY <2>1, <2>2 DEF Refusals
  <2> QED BY <2>1, <2>3 DEF Frames
<1> QED BY <1>1, <1>2

LEMMA ReachingTyped ==
  ASSUME BaseTypeOK, LooksWhileReaching, UNCHANGED <<base, drive>>
  PROVE  BaseTypeOK'
<1>1. frame \in Frames
  BY DEF BaseTypeOK
<1>2. frame' \in Frames
  BY <1>1, RenewedOrKept DEF LooksWhileReaching
<1> QED BY <1>2 DEF BaseTypeOK

LEMMA UnguardedTyped ==
  ASSUME NEW f \in Frames
  PROVE  Unguarded(f) \in Frames /\ Look(Unguarded(f)) = {Unguarded(f), Accepted}
  BY DEF Unguarded, Look, Refusable, Frames

-----------------------------------------------------------------------------
(* Types.                                                                  *)

LEMMA PartsAre ==
  /\ DOMAIN Parts = {"pick", "carry", "place", "lay"}
  /\ Parts["pick"]  = {"peel", "hang"}
  /\ Parts["carry"] = {"ramp"} \cup Riding
  /\ Parts["place"] = {"hover", "place_spine", "spine_step", "descend"}
  /\ Parts["lay"]   = {"lay"}
  BY DEF Parts

LEMMA LoadedAre ==
  Loaded = {"peel", "hang", "ramp", "ride", "leg", "squared", "square", "last_leg",
            "ridden", "hover", "place_spine", "spine_step", "descend", "lay"}
<1>1. Loaded = Parts["pick"] \cup Parts["carry"] \cup Parts["place"] \cup Parts["lay"]
  BY PartsAre DEF Loaded
<1> QED BY <1>1, PartsAre DEF Riding

\* A pinch is begun only while tries are left.
TriesLeft ==
  pc \in {"localise", "reconfigure", "probe", "home", "pinch", "peel", "hang"}
    => tries.pinch <= GraspTries

\* The spine is lowered only where the slot says so, and only downward.
PlaceStages ==
  /\ pc \in {"place_spine", "spine_step"} => setup.placeSpine # NoPlaceSpine
  /\ pc = "spine_step" => spine > setup.placeSpine

TInv == TypeOK /\ TriesLeft /\ PlaceStages

LEMMA BaseTyped ==
  ASSUME BaseTypeOK, [Next]_vars
  PROVE  BaseTypeOK'
<1>1. CASE DriveBase
  BY <1>1, DrivingTyped DEF DriveBase
<1>2. CASE ApproachLeg \/ ParkBase \/ DriveHome
  <2>1. BaseTol \in Nat
    BY DEF BaseTol
  <2> QED BY <1>2, <2>1, DriveToTyped DEF ApproachLeg, ParkBase, DriveHome
<1>3. CASE RideLeg \/ LastLeg \/ Squared
  BY <1>3, DriveToTyped DEF RideLeg, LastLeg, Squared, RideTo, baseVars, BaseTypeOK
<1>4. CASE Square \/ ProbeFails
  BY <1>4, BeginYawTyped DEF Square, ProbeFails, baseVars, BaseTypeOK
<1>5. CASE Localise
  BY <1>5, LookKeepsType DEF Localise, BaseTypeOK
<1>6. CASE ProbeSolves
  <2>1. PICK f \in Look(Unguarded(frame)) : frame' \in Look(Unguarded(f))
    BY <1>6 DEF ProbeSolves
  <2>2. f \in Frames
    BY <2>1, UnguardedTyped, LookKeepsType DEF BaseTypeOK
  <2>3. frame' \in Frames
    BY <2>1, <2>2, UnguardedTyped, LookKeepsType
  <2> QED BY <1>6, <2>3 DEF ProbeSolves, BaseTypeOK
<1>7. CASE RideOver
  <2>1. frame' \in Frames
    BY <1>7, UnguardedTyped, LookKeepsType DEF RideOver, Ridden, BaseTypeOK
  <2> QED BY <1>7, <2>1 DEF RideOver, BaseTypeOK
<1>8. CASE Pinch \/ PeelArc
  BY <1>8, ReachingTyped DEF Pinch, PeelArc, Unreachable, BaseTypeOK
<1>9. CASE Ramp \/ Hover \/ LiftAtHover \/ StartDescent
  BY <1>9, ReachingTyped DEF Ramp, Hover, LiftAtHover, StartDescent
<1>10. CASE PeelMissed \/ CheckHang \/ LayAndOpen
  BY <1>10 DEF PeelMissed, CheckHang, LayAndOpen, Retry, Unreachable, BaseTypeOK
<1>11. CASE UNCHANGED baseVars
  BY <1>11 DEF baseVars, BaseTypeOK
<1>12. [Next]_vars =>
         \/ UNCHANGED baseVars
         \/ DriveBase \/ ApproachLeg \/ ParkBase \/ DriveHome \/ RideLeg \/ LastLeg
         \/ Squared \/ Square \/ ProbeFails \/ Localise \/ ProbeSolves \/ RideOver
         \/ Pinch \/ PeelArc \/ Ramp \/ Hover \/ LiftAtHover \/ StartDescent
         \/ PeelMissed \/ CheckHang \/ LayAndOpen
  BY DEF Next, Chain, Slip, Exited, AwaitFeed, LockTarget, RaiseSpine, InspectStrip,
         Reconfigure, ProbeWithoutOdometry, LegDone, CheckSquare, LowerSpine,
         SpineInPlace, RetreatAndPark, BailOut, vars
<1> QED
  BY <1>1, <1>2, <1>3, <1>4, <1>5, <1>6, <1>7, <1>8, <1>9, <1>10, <1>11, <1>12

LEMMA SetupsAre ==
  ASSUME setup \in Setups
  PROVE  /\ setup.room \in BOOLEAN /\ setup.fixedBase \in BOOLEAN
         /\ setup.spineStart \in Nat
         /\ setup.placeSpine \in Nat \cup {NoPlaceSpine}
  BY ChainAssumption DEF Setups

LEMMA SpineAfterTyped ==
  ASSUME spine \in Nat, NEW target \in Nat, NEW s \in SpineAfter(target)
  PROVE  s \in Nat
  BY DEF SpineAfter

LEMMA ParkedSpinesTyped ==
  ASSUME setup \in Setups, spine \in Nat, NEW s \in ParkedSpines
  PROVE  s \in Nat
  BY SetupsAre, SpineAfterTyped DEF ParkedSpines

LEMMA InitTInv == Init => TInv
<1> SUFFICES ASSUME Init PROVE TInv
  OBVIOUS
<1> USE ChainAssumption, DriveAssumption
<1>1. BaseTypeOK
  <2>1. frame \in Frames
    BY DEF Init, BaseInit, Frames, Refusals
  <2> QED BY <2>1, RestTyped DEF Init, BaseInit, BaseTypeOK
<1>2. spine \in Nat
  BY SetupsAre DEF Init
<1>3. tries \in [pinch : 1..(GraspTries + 1), approach : 0..Approach,
                cycle : 0..(Cycles - 1), leg : 0..Legs]
  BY DEF Init, NoTries
<1>4. TypeOK
  BY <1>1, <1>2, <1>3, LoadedAre DEF Init, TypeOK, Stages, NoCode
<1> QED BY <1>4 DEF Init, TInv, TriesLeft, PlaceStages

LEMMA NextTInv == TInv /\ [Next]_vars => TInv'
<1> SUFFICES ASSUME TInv, [Next]_vars PROVE TInv'
  OBVIOUS
<1> USE ChainAssumption, LoadedAre, PartsAre
<1> USE DEF TInv, TypeOK, TriesLeft, PlaceStages, Stages, NoCode, NoTries,
            At, Goto, Return, Bail, load, result
<1>1. BaseTypeOK'
  BY BaseTyped
<1>2. CASE AwaitFeed \/ LockTarget \/ InspectStrip
  BY <1>1, <1>2 DEF AwaitFeed, LockTarget, InspectStrip
<1>3. CASE RaiseSpine
  BY <1>1, <1>3, SpineAfterTyped DEF RaiseSpine
<1>4. CASE ApproachLeg \/ ParkBase
  BY <1>1, <1>4 DEF ApproachLeg, ParkBase
<1>5. CASE Localise \/ Reconfigure \/ DriveHome
  <2>1. CASE Localise
    BY <1>1, <2>1 DEF Localise
  <2>2. CASE Reconfigure
    BY <1>1, <2>2 DEF Reconfigure
  <2>3. CASE DriveHome
    BY <1>1, <2>3 DEF DriveHome
  <2> QED BY <1>5, <2>1, <2>2, <2>3
<1>6. CASE ProbeWithoutOdometry \/ ProbeSolves
  BY <1>1, <1>6 DEF ProbeWithoutOdometry, ProbeSolves
<1>7. CASE ProbeFails
  BY <1>1, <1>7 DEF ProbeFails
<1>8. CASE Pinch
  BY <1>1, <1>8 DEF Pinch, Unreachable, Lying
<1>9. CASE PeelMissed
  BY <1>1, <1>9 DEF PeelMissed, Retry, Unreachable, Lying
<1>10. CASE PeelArc
  BY <1>1, <1>10 DEF PeelArc, Unreachable
<1>11. CASE CheckHang
  <2>1. CASE strip = "hanging" /\ pc' = "ramp"
    BY <1>1, <1>11, <2>1 DEF CheckHang, Retry, Lying
  <2>2. CASE Lying /\ Retry
    BY <1>1, <1>11, <2>2 DEF CheckHang, Retry, Lying
  <2>3. CASE strip \in {"folded", "dropped"} /\ Bail(7) /\ UNCHANGED <<tries, grip, load>>
    BY <1>1, <1>11, <2>3 DEF CheckHang
  <2> QED BY <1>11, <2>1, <2>2, <2>3 DEF CheckHang
<1>12. CASE Ramp \/ LegDone \/ CheckSquare
  BY <1>1, <1>12 DEF Ramp, LegDone, CheckSquare, CheckDropped
<1>13. CASE RideLeg \/ Square \/ Squared \/ LastLeg
  BY <1>1, <1>13 DEF RideLeg, Square, Squared, LastLeg
<1>14. CASE RideOver
  BY <1>1, <1>14 DEF RideOver
<1>15. CASE Hover \/ LiftAtHover
  BY <1>1, <1>15 DEF Hover, LiftAtHover, CheckDropped
<1>16. CASE LowerSpine
  <2>1. setup.placeSpine \in Nat /\ spine > setup.placeSpine
    BY <1>16, SetupsAre DEF LowerSpine
  <2> DEFINE step == Min({SpineStep, spine - setup.placeSpine})
  <2>2. spine - step \in Nat
    <3>1. step = IF SpineStep <= spine - setup.placeSpine
                   THEN SpineStep ELSE spine - setup.placeSpine
      BY <2>1, MinOfTwo
    <3> HIDE DEF step
    <3> QED BY <2>1, <3>1
  <2>3. spine' \in SpineAfter(spine - step)
    BY <1>16 DEF LowerSpine
  <2> HIDE DEF step
  <2>4. spine' \in Nat
    BY <2>2, <2>3, SpineAfterTyped
  <2> QED BY <1>1, <1>16, <2>4 DEF LowerSpine, CheckDropped
<1>17. CASE SpineInPlace
  BY <1>1, <1>17, SpineAfterTyped, SetupsAre DEF SpineInPlace, CheckDropped
<1>18. CASE StartDescent \/ LayAndOpen
  <2>1. CASE StartDescent
    BY <1>1, <2>1 DEF StartDescent, CheckDropped
  <2>2. CASE LayAndOpen
    BY <1>1, <2>2 DEF LayAndOpen, Unreachable, Lying
  <2> QED BY <1>18, <2>1, <2>2
<1>19. CASE RetreatAndPark
  BY <1>1, <1>19, ParkedSpinesTyped DEF RetreatAndPark
<1>20. CASE BailOut
  BY <1>1, <1>20, ParkedSpinesTyped DEF BailOut
<1>21. CASE DriveBase
  BY <1>1, <1>21 DEF DriveBase
<1>22. CASE Slip
  BY <1>1, <1>22 DEF Slip
<1>23. CASE UNCHANGED vars
  BY <1>1, <1>23 DEF vars
<1> QED
  BY <1>2, <1>3, <1>4, <1>5, <1>6, <1>7, <1>8, <1>9, <1>10, <1>11, <1>12, <1>13,
     <1>14, <1>15, <1>16, <1>17, <1>18, <1>19, <1>20, <1>21, <1>22, <1>23
  DEF Next, Chain, Exited

(* Every state of the chain is well typed: the counters stay within their  *)
(* bounds, and the gripper is closed exactly where the strip is loaded.    *)
THEOREM TypeCorrect == Spec => []TypeOK
<1>1. Init => TInv
  BY InitTInv
<1>2. TInv /\ [Next]_vars => TInv'
  BY NextTInv
<1>3. TInv => TypeOK
  BY DEF TInv
<1> QED BY <1>1, <1>2, <1>3, PTL DEF Spec

-----------------------------------------------------------------------------
(* Where the base is driven: between two stages, and only where a stage    *)
(* has started a drive.                                                    *)

DriveStages == {"station", "localise", "reconfigure", "home", "leg", "squared", "square",
                "ridden"}

WhereDriven == drive = Idle \/ pc \in DriveStages

LEMMA NextWhereDriven == WhereDriven /\ [Next]_vars => WhereDriven'
<1> SUFFICES ASSUME WhereDriven, [Next]_vars PROVE WhereDriven'
  OBVIOUS
<1> USE DEF WhereDriven, DriveStages, At, Goto, Return, Bail, result
<1>1. CASE DriveBase
  <2>1. drive # Idle
    BY <1>1 DEF DriveBase, Driving, Parked, GiveUp, Straighten, StopShort, Pulse, Due,
                YawPulse, YawDone, Idle, Begun
  <2> QED BY <1>1, <2>1 DEF DriveBase
<1>2. CASE ApproachLeg \/ ParkBase \/ DriveHome \/ RideLeg \/ Square \/ Squared \/ LastLeg
  BY <1>2 DEF ApproachLeg, ParkBase, DriveHome, RideLeg, Square, Squared, LastLeg,
              baseVars
<1>3. CASE ProbeFails
  BY <1>3 DEF ProbeFails, baseVars
<1>4. CASE Slip
  BY <1>4 DEF Slip, baseVars
<1>5. drive = Idle /\ drive' = drive => WhereDriven'
  OBVIOUS
<1>6. CASE AwaitFeed \/ LockTarget \/ RaiseSpine \/ InspectStrip \/ Localise \/ Reconfigure
           \/ ProbeWithoutOdometry \/ ProbeSolves \/ Pinch \/ PeelMissed \/ PeelArc
  BY <1>5, <1>6 DEF AwaitFeed, LockTarget, RaiseSpine, InspectStrip, Localise,
       Reconfigure, ProbeWithoutOdometry, ProbeSolves, Pinch, PeelMissed, PeelArc,
       baseVars
<1>7. CASE CheckHang \/ Ramp \/ LegDone \/ CheckSquare \/ RideOver \/ Hover \/ LiftAtHover
           \/ LowerSpine \/ SpineInPlace \/ StartDescent \/ LayAndOpen \/ RetreatAndPark
  BY <1>5, <1>7 DEF CheckHang, Ramp, LegDone, CheckSquare, RideOver, Hover, LiftAtHover,
       LowerSpine, SpineInPlace, StartDescent, LayAndOpen, RetreatAndPark, baseVars
<1>8. CASE BailOut \/ UNCHANGED vars
  BY <1>8 DEF BailOut, vars, baseVars
<1> QED BY <1>1, <1>2, <1>3, <1>4, <1>6, <1>7, <1>8 DEF Next, Chain, Exited

-----------------------------------------------------------------------------
(* Where the arm is.                                                       *)

ArmStages ==
  /\ pc \in {"feed", "target", "spine", "inspect", "station", "localise",
             "reconfigure", "home"} => arm # "out"
  /\ pc = "probe" => setup.room
  /\ pc = "exited" /\ arm = "out" => setup.room /\ ~setup.odom

LEMMA NextArmStages == ArmStages /\ [Next]_vars => ArmStages'
<1> SUFFICES ASSUME ArmStages, [Next]_vars PROVE ArmStages'
  OBVIOUS
<1> USE LoadedAre DEF ArmStages, At, Goto, Return, Bail, result
<1>1. CASE AwaitFeed \/ LockTarget \/ RaiseSpine \/ InspectStrip \/ ApproachLeg \/ ParkBase
  BY <1>1 DEF AwaitFeed, LockTarget, RaiseSpine, InspectStrip, ApproachLeg, ParkBase
<1>2. CASE Localise \/ Reconfigure \/ ProbeWithoutOdometry \/ ProbeSolves \/ DriveHome
  BY <1>2 DEF Localise, Reconfigure, ProbeWithoutOdometry, ProbeSolves, DriveHome
<1>3. CASE ProbeFails
  BY <1>3 DEF ProbeFails
<1>4. CASE Pinch \/ PeelMissed \/ PeelArc \/ CheckHang
  BY <1>4 DEF Pinch, PeelMissed, PeelArc, CheckHang, Unreachable, Retry
<1>5. CASE Ramp \/ RideLeg \/ LegDone \/ Square \/ Squared \/ CheckSquare
  BY <1>5 DEF Ramp, RideLeg, LegDone, Square, Squared, CheckSquare, CheckDropped
<1>6. CASE LastLeg \/ RideOver \/ Hover \/ LiftAtHover \/ LowerSpine \/ SpineInPlace
  BY <1>6 DEF LastLeg, RideOver, Hover, LiftAtHover, LowerSpine, SpineInPlace,
              CheckDropped
<1>7. CASE StartDescent \/ LayAndOpen \/ RetreatAndPark \/ BailOut
  BY <1>7 DEF StartDescent, LayAndOpen, RetreatAndPark, BailOut, CheckDropped,
              Unreachable
<1>8. CASE DriveBase \/ Slip \/ UNCHANGED vars
  BY <1>8 DEF DriveBase, Slip, vars
<1> QED BY <1>1, <1>2, <1>3, <1>4, <1>5, <1>6, <1>7, <1>8 DEF Next, Chain, Exited

(* Whatever an attempt dies of, the arm it has moved out is parked and the *)
(* gripper is open, but for the missing odometry (bail, mirror_lay.py:912).*)
THEOREM ArmComesHome == Spec => []MovedArmIsParked
<1>1. Init => ArmStages
  BY DEF Init, ArmStages
<1>2. ArmStages /\ [Next]_vars => ArmStages'
  BY NextArmStages
<1>3. TypeOK /\ ArmStages => MovedArmIsParked
  BY LoadedAre DEF TypeOK, ArmStages, MovedArmIsParked
<1> QED BY <1>1, <1>2, <1>3, TypeCorrect, PTL DEF Spec

-----------------------------------------------------------------------------
(* Where the spine is, if it obeys.                                        *)

\* The heights between that of --spine and that of the place phase.
PlaceHeights ==
  IF setup.placeSpine = NoPlaceSpine THEN {SpineTarget}
  ELSE (setup.placeSpine..SpineTarget) \cup (SpineTarget..setup.placeSpine)

SpineStages ==
  /\ pc \in {"feed", "target", "spine"} => spine = setup.spineStart
  /\ pc \in Stages \ {"feed", "target", "spine", "exited"} => spine \in PlaceHeights
  /\ pc \in Stages \ {"bail", "exited"} => code = NoCode
  /\ SpineIsParked

LEMMA TargetIsPlaceHeight ==
  ASSUME setup \in Setups
  PROVE  SpineTarget \in PlaceHeights
<1>1. SpineTarget \in Nat /\ setup.placeSpine \in Nat \cup {NoPlaceSpine}
  BY ChainAssumption, SetupsAre
<1>2. CASE setup.placeSpine = NoPlaceSpine
  BY <1>2 DEF PlaceHeights
<1>3. CASE setup.placeSpine # NoPlaceSpine
  <2>1. SpineTarget \in setup.placeSpine..SpineTarget
        \/ SpineTarget \in SpineTarget..setup.placeSpine
    BY <1>1, <1>3
  <2> QED BY <1>3, <2>1 DEF PlaceHeights
<1> QED BY <1>2, <1>3

\* A step of the place phase stays between the two heights.
LEMMA StepIsPlaceHeight ==
  ASSUME SpineObeys, TInv, spine \in PlaceHeights, LowerSpine
  PROVE  spine' \in PlaceHeights
<1>1. spine \in Nat /\ setup \in Setups /\ pc = "spine_step"
  BY DEF TInv, TypeOK, LowerSpine, At
<1>2. setup.placeSpine \in Nat /\ setup.placeSpine # NoPlaceSpine
      /\ spine > setup.placeSpine
  BY <1>1, SetupsAre DEF TInv, PlaceStages
<1>3. SpineStep \in Nat /\ SpineStep > 0 /\ SpineTarget \in Nat
      /\ spine - setup.placeSpine \in Nat
  BY <1>1, <1>2, ChainAssumption
<1> DEFINE p == setup.placeSpine
           m == Min({SpineStep, spine - p})
<1>4. m \in Nat /\ m <= spine - p
  <2>1. m = IF SpineStep <= spine - p THEN SpineStep ELSE spine - p
    BY <1>3, MinOfTwo
  <2> QED BY <1>3, <2>1
<1>5. spine' = spine - m
  BY DEF LowerSpine, SpineAfter
<1>6. spine \in (p..SpineTarget) \cup (SpineTarget..p)
  BY <1>2 DEF PlaceHeights
<1>7. p \in Nat /\ spine > p
  BY <1>2
<1> HIDE DEF m, p
<1>8. spine' \in p..SpineTarget
  BY <1>1, <1>3, <1>4, <1>5, <1>6, <1>7
<1> QED BY <1>2, <1>8 DEF PlaceHeights, p

\* So does the height of the place phase itself.
LEMMA InPlaceIsPlaceHeight ==
  ASSUME SpineObeys, TInv, SpineInPlace
  PROVE  spine' \in PlaceHeights
<1>1. setup \in Setups /\ pc = "place_spine"
  BY DEF TInv, TypeOK, SpineInPlace, At
<1>2. setup.placeSpine \in Nat /\ setup.placeSpine # NoPlaceSpine
  BY <1>1, SetupsAre DEF TInv, PlaceStages
<1>3. spine' = setup.placeSpine
  BY DEF SpineInPlace, SpineAfter
<1>4. SpineTarget \in Nat
  BY ChainAssumption
<1>5. setup.placeSpine \in setup.placeSpine..SpineTarget
      \/ setup.placeSpine \in SpineTarget..setup.placeSpine
  BY <1>2, <1>4
<1> QED BY <1>2, <1>3, <1>5 DEF PlaceHeights

\* Where the exits that park leave a spine that obeys.
LEMMA ParkedSpinesAre ==
  ASSUME SpineObeys, setup \in Setups, spine \in PlaceHeights, spine' \in ParkedSpines,
         setup' = setup
  PROVE  SpineIsParked'
<1>1. CASE setup.spineStart # SpineTarget
  BY <1>1 DEF ParkedSpines, SpineAfter, SpineIsParked
<1>2. CASE setup.spineStart = SpineTarget
  BY <1>2 DEF ParkedSpines, PlaceHeights, SpineIsParked
<1> QED BY <1>1, <1>2

LEMMA NextSpineStages ==
  SpineObeys /\ TInv /\ SpineStages /\ [Next]_vars => SpineStages'
<1> SUFFICES ASSUME SpineObeys, TInv, SpineStages, [Next]_vars PROVE SpineStages'
  OBVIOUS
<1>0. setup \in Setups /\ (setup' = setup => PlaceHeights' = PlaceHeights)
  BY DEF TInv, TypeOK, PlaceHeights
<1> USE <1>0, LoadedAre
    DEF TInv, TypeOK, Stages, SpineStages, SpineIsParked, NoCode,
        At, Goto, Return, Bail, result
<1>1. CASE AwaitFeed \/ LockTarget \/ InspectStrip \/ ApproachLeg \/ ParkBase
  BY <1>1 DEF AwaitFeed, LockTarget, InspectStrip, ApproachLeg, ParkBase
<1>2. CASE RaiseSpine
  <2>1. spine' = SpineTarget
    BY <1>2 DEF RaiseSpine, SpineAfter
  <2> QED BY <1>2, <2>1, TargetIsPlaceHeight DEF RaiseSpine
<1>3. CASE Localise \/ Reconfigure \/ ProbeWithoutOdometry \/ ProbeSolves \/ DriveHome
  BY <1>3 DEF Localise, Reconfigure, ProbeWithoutOdometry, ProbeSolves, DriveHome
<1>4. CASE ProbeFails
  BY <1>4 DEF ProbeFails
<1>5. CASE Pinch \/ PeelMissed \/ PeelArc \/ CheckHang
  BY <1>5 DEF Pinch, PeelMissed, PeelArc, CheckHang, Unreachable, Retry
<1>6. CASE Ramp \/ RideLeg \/ LegDone \/ Square \/ Squared \/ CheckSquare
  BY <1>6 DEF Ramp, RideLeg, LegDone, Square, Squared, CheckSquare, CheckDropped
<1>7. CASE LastLeg \/ RideOver \/ Hover \/ LiftAtHover
  BY <1>7 DEF LastLeg, RideOver, Hover, LiftAtHover, CheckDropped
<1>8. CASE LowerSpine
  <2>1. spine' \in PlaceHeights
    BY <1>8, StepIsPlaceHeight DEF LowerSpine
  <2> QED BY <1>8, <2>1 DEF LowerSpine, CheckDropped
<1>9. CASE SpineInPlace
  <2>1. spine' \in PlaceHeights
    BY <1>9, InPlaceIsPlaceHeight
  <2> QED BY <1>9, <2>1 DEF SpineInPlace, CheckDropped
<1>10. CASE StartDescent \/ LayAndOpen
  BY <1>10 DEF StartDescent, LayAndOpen, CheckDropped, Unreachable
<1>11. CASE RetreatAndPark \/ BailOut
  <2>1. SpineIsParked'
    BY <1>11, ParkedSpinesAre DEF RetreatAndPark, BailOut
  <2> QED BY <1>11, <2>1 DEF RetreatAndPark, BailOut
<1>12. CASE DriveBase \/ Slip \/ UNCHANGED vars
  BY <1>12 DEF DriveBase, Slip, vars
<1> QED
  BY <1>1, <1>2, <1>3, <1>4, <1>5, <1>6, <1>7, <1>8, <1>9, <1>10, <1>11, <1>12
  DEF Next, Chain, Exited

(* A spine that goes where it is told is back at the height the scene      *)
(* started at after every exit that parks (--park-spine, mirror_lay.py:960,*)
(* 2103), whatever the place phase did to it; where the scene started at   *)
(* the height of --spine, it is left between that height and the one of    *)
(* the place phase.                                                        *)
THEOREM SpineComesHome == SpineObeys => (Spec => []SpineIsParked)
<1> SUFFICES ASSUME SpineObeys PROVE Spec => []SpineIsParked
  OBVIOUS
<1>1. Init => SpineStages
  BY DEF Init, SpineStages, SpineIsParked
<1>2. TInv /\ SpineStages /\ [Next]_vars => SpineStages'
  BY NextSpineStages
<1>3. SpineStages => SpineIsParked
  BY DEF SpineStages
<1> QED BY <1>1, <1>2, <1>3, InitTInv, NextTInv, PTL DEF Spec

-----------------------------------------------------------------------------
(* What has slipped, and where the strip is.  A strip that hangs has not   *)
(* slipped; one that has fallen stays fallen until it is looked at.        *)

\* What a lay may have lost without anybody looking.
Unseen(s) ==
  \/ s.part = "lay"
  \/ s.to = "folded" /\ s.part = "place"
  \/ s.to \in {"folded", "stand"} /\ s.part \in {"carry", "place"} /\ setup.fixedBase

SlipsKnown ==
  /\ pc \in Loaded /\ strip \in {"gripped", "hanging"} /\ pc # "lay" => slips = {}
  /\ pc = "peel" => strip \in {"stand", "gripped", "dropped"}
  /\ pc = "hang" => strip \in {"stand", "hanging", "folded", "dropped"}
  /\ pc \in Parts["carry"] \cup Parts["place"] \cup Parts["lay"]
       => strip \in {"hanging", "folded", "dropped", "stand"}
  /\ pc \in Parts["carry"] =>
       \A s \in slips :
         /\ s.part = "carry"
         /\ (s.to \in {"folded", "stand"} \/ strip = "dropped")
  /\ pc \in Parts["place"] => \A s \in slips : Unseen(s) \/ strip = "dropped"
  /\ pc \in {"lay", "retreat"} => \A s \in slips : Unseen(s)
  /\ marker = "complete" => pc = "exited" /\ \A s \in slips : Unseen(s)

LEMMA NextSlipsKnown == TypeOK /\ SlipsKnown /\ [Next]_vars => SlipsKnown'
<1> SUFFICES ASSUME TypeOK, SlipsKnown, [Next]_vars PROVE SlipsKnown'
  OBVIOUS
<1> USE LoadedAre, PartsAre
    DEF TypeOK, SlipsKnown, Unseen, Riding, At, Goto, Return, Bail, result, load
<1>1. CASE AwaitFeed \/ LockTarget \/ RaiseSpine \/ InspectStrip \/ ApproachLeg \/ ParkBase
  BY <1>1 DEF AwaitFeed, LockTarget, RaiseSpine, InspectStrip, ApproachLeg, ParkBase
<1>2. CASE Localise \/ Reconfigure \/ ProbeWithoutOdometry \/ ProbeSolves \/ DriveHome
  BY <1>2 DEF Localise, Reconfigure, ProbeWithoutOdometry, ProbeSolves, DriveHome
<1>3. CASE ProbeFails
  BY <1>3 DEF ProbeFails
<1>4. CASE Pinch
  BY <1>4 DEF Pinch, Lying, Unreachable
<1>5. CASE PeelMissed
  BY <1>5 DEF PeelMissed, Lying, Retry, Unreachable
<1>6. CASE PeelArc
  BY <1>6 DEF PeelArc, Unreachable
<1>7. CASE CheckHang
  BY <1>7 DEF CheckHang, Lying, Retry
<1>8. CASE Ramp
  BY <1>8 DEF Ramp, CheckDropped
<1>9. CASE RideLeg \/ LegDone \/ Square \/ Squared \/ CheckSquare \/ LastLeg
  BY <1>9 DEF RideLeg, LegDone, Square, Squared, CheckSquare, LastLeg, CheckDropped
<1>10. CASE RideOver
  BY <1>10 DEF RideOver
<1>11. CASE Hover \/ LiftAtHover \/ LowerSpine \/ SpineInPlace
  BY <1>11 DEF Hover, LiftAtHover, LowerSpine, SpineInPlace, CheckDropped
<1>12. CASE StartDescent
  BY <1>12 DEF StartDescent, CheckDropped
<1>13. CASE LayAndOpen
  BY <1>13 DEF LayAndOpen, Unreachable, Lying
<1>14. CASE RetreatAndPark \/ BailOut
  BY <1>14 DEF RetreatAndPark, BailOut
<1>15. CASE Slip
  BY <1>15 DEF Slip, Held, OverStand
<1>16. CASE DriveBase \/ UNCHANGED vars
  BY <1>16 DEF DriveBase, vars
<1> QED
  BY <1>1, <1>2, <1>3, <1>4, <1>5, <1>6, <1>7, <1>8, <1>9, <1>10, <1>11, <1>12,
     <1>13, <1>14, <1>15, <1>16
  DEF Next, Chain, Exited

(* A completed chain has lost nothing that one of its looks is there for:  *)
(* a strip that fell before the lay is found by loaded_ok or by a look of  *)
(* the ride, a folded one at the hang and at the end of the ride.          *)
THEOREM LossesAreCaught == Spec => []LossIsCaught
<1>1. Init => SlipsKnown
  BY LoadedAre, PartsAre DEF Init, SlipsKnown, Riding
<1>2. TypeOK /\ SlipsKnown /\ [Next]_vars => SlipsKnown'
  BY NextSlipsKnown
<1>3. SlipsKnown => LossIsCaught
  BY DEF SlipsKnown, Unseen, LossIsCaught
<1> QED BY <1>1, <1>2, <1>3, TypeCorrect, PTL DEF Spec

-----------------------------------------------------------------------------
(* In which frame the base is known.                                       *)

Solving == (Loaded \ Riding) \cup {"pinch"}

FrameKnown ==
  /\ pc \in {"feed", "target", "spine", "inspect", "station", "localise"}
       => ~frame.guarded
  /\ pc \in {"reconfigure", "probe", "home", "pinch"} \cup Loaded
       => frame.behind # "never"
  /\ pc \in {"probe", "home"} => setup.room
  /\ pc = "reconfigure" /\ ~setup.room => drive = Idle /\ frame.behind # "driven"
  /\ pc \in Solving /\ frame.behind = "driven" => ~frame.guarded

\* A look from a frame that is driven away from and guarded may be refused;
\* none of the looks below is made from one.
Fresh(f) == f.behind # "never" /\ (f.behind = "driven" => ~f.guarded)

LEMMA LookKeepsFresh ==
  ASSUME NEW f \in Frames, Fresh(f), NEW g \in Look(f)
  PROVE  Fresh(g)
  BY LookKeepsType DEF Fresh, Accepted

LEMMA ReachingKeepsFresh ==
  ASSUME frame \in Frames, Fresh(frame), LooksWhileReaching
  PROVE  Fresh(frame')
  BY RenewedOrKept DEF LooksWhileReaching, Fresh

LEMMA UnguardedIsFresh ==
  ASSUME NEW f \in Frames, f.behind # "never"
  PROVE  Unguarded(f) \in Frames /\ Fresh(Unguarded(f))
  BY DEF Unguarded, Frames, Fresh

LEMMA NextFrameKnown ==
  TypeOK /\ WhereDriven /\ FrameKnown /\ [Next]_vars => FrameKnown'
<1> SUFFICES ASSUME TypeOK, WhereDriven, FrameKnown, [Next]_vars PROVE FrameKnown'
  OBVIOUS
<1>1. frame \in Frames
  BY DEF TypeOK, BaseTypeOK
<1> USE LoadedAre
    DEF FrameKnown, Solving, Riding, At, Goto, Return, Bail, result
<1>2. CASE AwaitFeed \/ LockTarget \/ RaiseSpine \/ InspectStrip
  BY <1>2 DEF AwaitFeed, LockTarget, RaiseSpine, InspectStrip, baseVars
<1>3. CASE ApproachLeg \/ ParkBase
  BY <1>3 DEF ApproachLeg, ParkBase, DriveTo, BeginGoto, baseVars
<1>4. CASE Localise
  BY <1>1, <1>4, LookKeepsType DEF Localise, Accepted
<1>5. CASE Reconfigure
  BY <1>5 DEF Reconfigure, baseVars
<1>6. CASE ProbeWithoutOdometry
  BY <1>6 DEF ProbeWithoutOdometry, baseVars
<1>7. CASE ProbeSolves
  <2>1. PICK f \in Look(Unguarded(frame)) : frame' \in Look(Unguarded(f))
    BY <1>7 DEF ProbeSolves
  <2>2. f \in Frames /\ f.behind # "never"
    BY <1>1, <1>7, <2>1, UnguardedIsFresh, LookKeepsType, LookKeepsFresh
    DEF ProbeSolves, Fresh
  <2>3. Fresh(frame')
    BY <2>1, <2>2, UnguardedIsFresh, LookKeepsFresh
  <2> QED BY <1>7, <2>3 DEF ProbeSolves, Fresh
<1>8. CASE ProbeFails
  BY <1>8 DEF ProbeFails, BeginYaw, baseVars
<1>9. CASE DriveHome
  BY <1>9 DEF DriveHome, DriveTo, BeginGoto, baseVars
<1>10. CASE Pinch \/ PeelArc
  BY <1>1, <1>10, ReachingKeepsFresh DEF Pinch, PeelArc, Unreachable, Fresh
<1>11. CASE PeelMissed \/ CheckHang \/ LayAndOpen
  BY <1>11 DEF PeelMissed, CheckHang, LayAndOpen, Retry, Unreachable
<1>12. CASE Ramp \/ Hover \/ LiftAtHover \/ StartDescent
  BY <1>1, <1>12, ReachingKeepsFresh
  DEF Ramp, Hover, LiftAtHover, StartDescent, CheckDropped, Fresh
<1>13. CASE RideLeg \/ Squared \/ LastLeg
  BY <1>13 DEF RideLeg, Squared, LastLeg, RideTo, DriveTo, BeginGoto, baseVars
<1>14. CASE Square
  BY <1>14 DEF Square, BeginYaw, baseVars
<1>15. CASE LegDone \/ CheckSquare
  BY <1>15 DEF LegDone, CheckSquare, CheckDropped, baseVars
<1>16. CASE RideOver
  BY <1>1, <1>16, UnguardedIsFresh, LookKeepsFresh DEF RideOver, Ridden, Fresh
<1>17. CASE LowerSpine \/ SpineInPlace
  BY <1>17 DEF LowerSpine, SpineInPlace, CheckDropped, baseVars
<1>18. CASE RetreatAndPark \/ BailOut
  BY <1>18 DEF RetreatAndPark, BailOut
<1>19. CASE DriveBase
  <2>1. drive # Idle
    BY <1>19 DEF DriveBase, Driving, Parked, GiveUp, Straighten, StopShort, Pulse, Due,
                YawPulse, YawDone, Idle, Begun
  <2>2. pc \in DriveStages /\ pc' = pc /\ setup' = setup
    BY <1>19, <2>1 DEF DriveBase, WhereDriven
  <2>3. frame' = frame \/ LeaveFrame
    BY <1>19 DEF DriveBase, Driving, Parked, GiveUp, Straighten, StopShort, Pulse,
                Lock, YawPulse, YawDone
  <2>4. frame'.guarded = frame.guarded
        /\ (frame.behind # "never" => frame'.behind # "never")
    BY <1>1, <2>3 DEF LeaveFrame, Frames
  <2> QED BY <2>1, <2>2, <2>4 DEF DriveStages
<1>20. CASE Slip
  BY <1>20 DEF Slip, baseVars
<1>21. CASE UNCHANGED vars
  BY <1>21 DEF vars, baseVars
<1> QED
  BY <1>2, <1>3, <1>4, <1>5, <1>6, <1>7, <1>8, <1>9, <1>10, <1>11, <1>12, <1>13,
     <1>14, <1>15, <1>16, <1>17, <1>18, <1>19, <1>20, <1>21
  DEF Next, Chain, Exited

(* Wherever the chain solves for the arm, a frame has been taken, and a    *)
(* base driven since then has unguarded the next look: the next settled    *)
(* pair renews the frame.                                                  *)
THEOREM FrameIsRenewed == Spec => []SolvesOnRenewedFrame
<1>1. Init => WhereDriven /\ FrameKnown
  BY LoadedAre DEF Init, BaseInit, WhereDriven, FrameKnown, Solving
<1>2. WhereDriven /\ [Next]_vars => WhereDriven'
  BY NextWhereDriven
<1>3. TypeOK /\ WhereDriven /\ FrameKnown /\ [Next]_vars => FrameKnown'
  BY NextFrameKnown
<1>4. FrameKnown => SolvesOnRenewedFrame
  BY LoadedAre DEF FrameKnown, Solving, SolvesOnRenewedFrame
<1> QED BY <1>1, <1>2, <1>3, <1>4, TypeCorrect, PTL DEF Spec

-----------------------------------------------------------------------------
(* How long a loaded pulse is that translates the base.                    *)

\* A drive with the strip in the gripper is a drive of the ride.
LoadedDrive ==
  /\ carrying => pc \in (Loaded \ {"peel", "hang"}) \cup {"bail", "exited"}
  /\ carrying /\ drive.doing = "goto" => drive.capS = 180 /\ drive.cap <= 180

(* A cap that is halved, kept or let grow stays at most 180 if it was.     *)
LEMMA CapStaysLow ==
  ASSUME drive \in Drives, drive.capS = 180, drive.cap <= 180
  PROVE  Cap \in Nat /\ Cap <= 180 /\ GrownCap <= 180
<1>1. drive.cap \in Nat /\ drive.cap \div 2 \in Nat /\ drive.cap \div 2 <= 180
  BY DEF Drives
<1>2. Max({drive.cap \div 2, MinPulse}) \in Nat /\ Max({drive.cap \div 2, MinPulse}) <= 180
  BY <1>1, MaxOfTwo DEF MinPulse
<1>3. Cap \in Nat /\ Cap <= 180
  BY <1>1, <1>2 DEF Cap
<1>4. Max({(Cap * 8) \div 5, 120}) \in Nat
  BY <1>3, MaxOfTwo
<1>5. GrownCap <= 180
  <2> DEFINE m == Max({(Cap * 8) \div 5, 120})
  <2>1. m \in Nat
    BY <1>4
  <2> HIDE DEF m
  <2>2. Min({m, 180}) <= 180
    BY <2>1, MinOfTwo
  <2> QED BY <2>2 DEF GrownCap, m
<1> QED BY <1>3, <1>5

LEMMA LoadedLunge ==
  ASSUME drive.capS = 180, NEW loaded \in BOOLEAN
  PROVE  Lunge(loaded) = IF loaded THEN 220 ELSE 280
  BY MinOfTwo DEF Lunge

LEMMA NextLoadedDrive == TypeOK /\ LoadedDrive /\ [Next]_vars => LoadedDrive'
<1> SUFFICES ASSUME TypeOK, LoadedDrive, [Next]_vars PROVE LoadedDrive'
  OBVIOUS
<1> USE LoadedAre DEF LoadedDrive, At, Goto, Return, Bail, result, load
<1>1. Idle.doing = "nothing"
  BY DEF Idle, Begun
<1>2. CASE AwaitFeed \/ LockTarget \/ RaiseSpine \/ InspectStrip \/ Localise \/ Reconfigure
  BY <1>2 DEF AwaitFeed, LockTarget, RaiseSpine, InspectStrip, Localise, Reconfigure
<1>3. CASE ApproachLeg \/ ParkBase \/ DriveHome
  BY <1>3 DEF ApproachLeg, ParkBase, DriveHome
<1>4. CASE ProbeWithoutOdometry \/ ProbeSolves \/ ProbeFails
  BY <1>4 DEF ProbeWithoutOdometry, ProbeSolves, ProbeFails
<1>5. CASE Pinch \/ PeelMissed \/ PeelArc
  BY <1>5 DEF Pinch, PeelMissed, PeelArc, Unreachable, Retry
<1>6. CASE CheckHang
  BY <1>1, <1>6 DEF CheckHang, Retry, baseVars
<1>7. CASE RideLeg \/ LastLeg \/ Squared
  <2>1. \A tol \in {20, 25} : RideTo(tol) =>
          (drive'.doing = "goto" => drive'.capS = 180 /\ drive'.cap <= 180)
    BY <1>1, <1>7
    DEF RideTo, DriveTo, BeginGoto, Begun, baseVars, RideLeg, LastLeg, Squared
  <2> QED BY <1>1, <1>7, <2>1 DEF RideLeg, LastLeg, Squared, baseVars
<1>8. CASE Square
  BY <1>1, <1>8 DEF Square, BeginYaw, Begun, baseVars
<1>9. CASE Ramp \/ LegDone \/ CheckSquare \/ RideOver \/ Hover \/ LiftAtHover
  BY <1>9 DEF Ramp, LegDone, CheckSquare, RideOver, Hover, LiftAtHover, CheckDropped,
              baseVars
<1>10. CASE LowerSpine \/ SpineInPlace \/ StartDescent
  BY <1>10 DEF LowerSpine, SpineInPlace, StartDescent, CheckDropped, baseVars
<1>11. CASE LayAndOpen \/ RetreatAndPark \/ BailOut
  BY <1>11 DEF LayAndOpen, RetreatAndPark, BailOut, Unreachable, baseVars
<1>12. CASE DriveBase
  <2>1. drive \in Drives /\ carrying' = carrying /\ pc' = pc
    BY <1>12 DEF TypeOK, BaseTypeOK, DriveBase
  <2>2. CASE drive'.doing # "goto" \/ ~carrying
    BY <2>1, <2>2
  <2>3. CASE drive'.doing = "goto" /\ carrying
    <3>1. Straighten \/ Pulse(LoadedInRoom)
      <4>1. ~(Parked \/ GiveUp \/ StopShort(LoadedInRoom) \/ YawDone)
        <5>1. drive' # Idle
          BY <1>1, <2>3
        <5> QED BY <5>1 DEF Parked, GiveUp, StopShort, Lock, Rest, YawDone
      <4>2. ~YawPulse
        BY <2>1, <2>3 DEF YawPulse, Drives
      <4> QED BY <1>12, <4>1, <4>2 DEF DriveBase, Driving
    <3>2. drive.capS = 180 /\ drive.cap <= 180
      BY <2>3, <3>1 DEF Straighten, Pulse, Due
    <3>3. CASE Straighten
      BY <2>1, <3>2, <3>3 DEF Straighten, Drives
    <3>4. CASE Moved
      <4>1. drive'.cap = Cap /\ drive'.capS = drive.capS
        BY <2>1, <3>4 DEF Moved, Drives
      <4> QED BY <2>1, <3>2, <4>1, CapStaysLow
    <3>5. CASE Swallowed(LoadedInRoom)
      <4>1. drive'.cap \in {Cap, GrownCap} /\ drive'.capS = drive.capS
        BY <2>1, <3>5 DEF Swallowed, Drives
      <4> QED BY <2>1, <3>2, <4>1, CapStaysLow
    <3> QED BY <3>1, <3>3, <3>4, <3>5 DEF Pulse
  <2> QED BY <2>2, <2>3
<1>13. CASE Slip \/ UNCHANGED vars
  BY <1>13 DEF Slip, vars, baseVars
<1> QED
  BY <1>2, <1>3, <1>4, <1>5, <1>6, <1>7, <1>8, <1>9, <1>10, <1>11, <1>12, <1>13
  DEF Next, Chain, Exited

LEMMA ErrsAreLengths == ASSUME NEW e \in Errs \cup {0} PROVE e \in Nat
  BY DriveAssumption

LEMMA LoadedPulses ==
  ASSUME TypeOK, LoadedDrive
  PROVE  LoadedTranslationIsShort
<1> SUFFICES ASSUME carrying, Due
             PROVE  PulseLength(LoadedInRoom) <= RideLunge
  BY DEF LoadedTranslationIsShort
<1>1. drive \in Drives /\ base.err \in Nat /\ drive.capS = 180 /\ drive.cap <= 180
  <2>1. base.err \in Errs \cup {0} /\ drive \in Drives
    BY DEF TypeOK, BaseTypeOK, Poses
  <2>2. base.err \in Nat
    BY <2>1, ErrsAreLengths
  <2>3. drive.capS = 180 /\ drive.cap <= 180
    BY DEF Due, LoadedDrive
  <2> QED BY <2>1, <2>2, <2>3
<1>2. Cap \in Nat /\ Cap <= 180
  BY <1>1, CapStaysLow
<1>3. setup.room \in BOOLEAN /\ LoadedInRoom = setup.room
  BY SetupsAre DEF TypeOK, LoadedInRoom
<1> DEFINE lunge == Lunge(LoadedInRoom)
           asked == Min({Max({base.err * 4, MinPulse}), Cap})
<1>4. lunge = RideLunge
  BY <1>1, <1>3, LoadedLunge DEF RideLunge
<1>5. asked \in Int /\ asked <= 180
  <2> DEFINE m == Max({base.err * 4, MinPulse})
  <2>1. m \in Nat
    BY <1>1, MaxOfTwo DEF MinPulse
  <2> HIDE DEF m
  <2>2. Min({m, Cap}) \in Int /\ Min({m, Cap}) <= 180
    BY <1>2, <2>1, MinOfTwo
  <2> QED BY <2>2 DEF m
<1>6. PulseLength(LoadedInRoom)
        = IF drive.swallowed >= 2 THEN Max({asked, lunge}) ELSE asked
  BY DEF PulseLength
<1> HIDE DEF asked, lunge
<1>7. lunge \in Int /\ lunge >= 220
  BY <1>3, <1>4 DEF RideLunge
<1>8. Max({asked, lunge}) = IF asked >= lunge THEN asked ELSE lunge
  BY <1>5, <1>7, MaxOfTwo
<1> QED BY <1>4, <1>5, <1>6, <1>7, <1>8 DEF RideLunge

(* Whatever was swallowed, overshot or stopped short before, in this drive *)
(* or in the drives before the pick, no loaded pulse that translates the   *)
(* base outlasts the lunge of the ride.                                    *)
THEOREM LoadedTranslationsAreShort == Spec => []LoadedTranslationIsShort
<1>1. Init => LoadedDrive
  BY DEF Init, LoadedDrive
<1>2. TypeOK /\ LoadedDrive /\ [Next]_vars => LoadedDrive'
  BY NextLoadedDrive
<1>3. TypeOK /\ LoadedDrive => LoadedTranslationIsShort
  BY LoadedPulses
<1> QED BY <1>1, <1>2, <1>3, TypeCorrect, PTL DEF Spec

-----------------------------------------------------------------------------
(* The chain goes down.  Its rank is the block of stages it is in, what is *)
(* left of the count that bounds the rounds of that block, the stage       *)
(* within a round, and the pulses left of the drive that is running.       *)

BlocksLeft ==
  [feed |-> 20, target |-> 19, spine |-> 18, inspect |-> 17, station |-> 16,
   localise |-> 15, home |-> 14, reconfigure |-> 14, probe |-> 14,
   pinch |-> 13, peel |-> 13, hang |-> 13, ramp |-> 12, ride |-> 11, leg |-> 11,
   squared |-> 10, square |-> 9, last_leg |-> 8, ridden |-> 7, hover |-> 6,
   place_spine |-> 5, spine_step |-> 5, descend |-> 4, lay |-> 3, retreat |-> 2,
   bail |-> 1, exited |-> 0]

RoundsLeft ==
  CASE pc = "station" -> Approach - tries.approach
    [] pc \in {"home", "reconfigure", "probe"} -> Cycles - tries.cycle
    [] pc \in {"pinch", "peel", "hang"} -> GraspTries + 1 - tries.pinch
    [] pc \in {"ride", "leg"} -> Legs - tries.leg
    [] pc \in {"place_spine", "spine_step"} -> spine
    [] OTHER -> 0

StagesLeft ==
  CASE pc \in {"home", "pinch"} -> 2
    [] pc \in {"reconfigure", "peel", "leg", "place_spine"} -> 1
    [] OTHER -> 0

PulsesLeft == IF drive.doing = "nothing" THEN 0 ELSE drive.left + 1

Rank == <<BlocksLeft[pc], RoundsLeft, StagesLeft, PulsesLeft>>

LEMMA BlocksTyped == ASSUME pc \in Stages PROVE BlocksLeft[pc] \in Nat
  BY LoadedAre DEF Stages, BlocksLeft

LEMMA RankTyped == TypeOK => Rank \in Ranks(4)
<1> SUFFICES ASSUME TypeOK PROVE Rank \in Ranks(4)
  OBVIOUS
<1>1. BlocksLeft[pc] \in Nat
  BY BlocksTyped DEF TypeOK
<1>2. RoundsLeft \in Nat
  <2>1. tries.pinch \in 1..(GraspTries + 1) /\ tries.approach \in 0..Approach
        /\ tries.cycle \in 0..(Cycles - 1) /\ tries.leg \in 0..Legs
    BY DEF TypeOK
  <2>2. GraspTries + 1 - tries.pinch \in Nat /\ Approach - tries.approach \in Nat
        /\ Cycles - tries.cycle \in Nat /\ Legs - tries.leg \in Nat
    BY <2>1, ChainAssumption
  <2>3. spine \in Nat
    BY DEF TypeOK
  <2> QED BY <2>2, <2>3 DEF RoundsLeft
<1>3. StagesLeft \in Nat
  BY DEF StagesLeft
<1>4. PulsesLeft \in Nat
  BY DEF TypeOK, BaseTypeOK, Drives, PulsesLeft
<1>5. Rank[1] \in Nat /\ Rank[2] \in Nat /\ Rank[3] \in Nat /\ Rank[4] \in Nat
  BY <1>1, <1>2, <1>3, <1>4 DEF Rank
<1>6. Rank = [i \in 1..4 |-> Rank[i]]
  BY DEF Rank
<1>7. \A i \in 1..4 : Rank[i] \in Nat
  BY <1>5
<1> HIDE DEF Rank
<1> QED BY <1>6, <1>7 DEF Ranks

Fewer(i) == Rank'[i] < Rank[i] /\ \A j \in 1..(i - 1) : Rank'[j] <= Rank[j]

LEMMA FewerLowers ==
  ASSUME TypeOK, TypeOK', NEW i \in 1..4, Fewer(i)
  PROVE  <<Rank', Rank>> \in Lower(4)
<1>1. Rank \in Ranks(4) /\ Rank' \in Ranks(4)
  <2>1. (TypeOK => Rank \in Ranks(4))'
    BY RankTyped, PTL
  <2> QED BY <2>1, RankTyped
<1> QED BY <1>1, LowerBy DEF Fewer

\* What is lowered by a step: a block, a round, a stage or a pulse.
Down ==
  \/ BlocksLeft[pc'] < BlocksLeft[pc]
  \/ BlocksLeft[pc'] = BlocksLeft[pc] /\ RoundsLeft' < RoundsLeft
  \/ BlocksLeft[pc'] = BlocksLeft[pc] /\ RoundsLeft' = RoundsLeft
       /\ StagesLeft' < StagesLeft
  \/ UNCHANGED <<pc, tries, spine>> /\ PulsesLeft' < PulsesLeft

LEMMA DownLowers ==
  ASSUME TypeOK, TypeOK', Down
  PROVE  <<Rank', Rank>> \in Lower(4)
<1>1. Rank \in Ranks(4)
  BY RankTyped
<1>2. \A j \in 1..4 : Rank[j] \in Nat
  BY <1>1 DEF Ranks
<1>3. CASE BlocksLeft[pc'] < BlocksLeft[pc]
  <2>1. Fewer(1)
    BY <1>3 DEF Fewer, Rank
  <2> QED BY <2>1, FewerLowers
<1>4. CASE BlocksLeft[pc'] = BlocksLeft[pc] /\ RoundsLeft' < RoundsLeft
  <2>1. Rank'[2] < Rank[2] /\ Rank'[1] = Rank[1]
    BY <1>4 DEF Rank
  <2>2. Fewer(2)
    BY <1>2, <2>1 DEF Fewer
  <2> QED BY <2>2, FewerLowers
<1>5. CASE BlocksLeft[pc'] = BlocksLeft[pc] /\ RoundsLeft' = RoundsLeft
             /\ StagesLeft' < StagesLeft
  <2>1. Rank'[3] < Rank[3] /\ Rank'[1] = Rank[1] /\ Rank'[2] = Rank[2]
    BY <1>5 DEF Rank
  <2>2. Fewer(3)
    BY <1>2, <2>1 DEF Fewer
  <2> QED BY <2>2, FewerLowers
<1>6. CASE UNCHANGED <<pc, tries, spine>> /\ PulsesLeft' < PulsesLeft
  <2>1. RoundsLeft' = RoundsLeft /\ StagesLeft' = StagesLeft
    BY <1>6 DEF RoundsLeft, StagesLeft
  <2>2. /\ Rank'[4] < Rank[4]
        /\ Rank'[1] = Rank[1] /\ Rank'[2] = Rank[2] /\ Rank'[3] = Rank[3]
    BY <1>6, <2>1 DEF Rank
  <2>3. Fewer(4)
    BY <1>2, <2>2 DEF Fewer
  <2> QED BY <2>3, FewerLowers
<1> QED BY <1>3, <1>4, <1>5, <1>6 DEF Down

\* A pulse is one fewer; a drive that is over has none left.
LEMMA DriveDown ==
  ASSUME TypeOK, DriveBase
  PROVE  Down
<1>1. drive \in Drives /\ UNCHANGED <<pc, tries, spine>>
  BY DEF TypeOK, BaseTypeOK, DriveBase
<1>2. Driving(LoadedInRoom)
  BY DEF DriveBase
<1>3. CASE drive' = Idle /\ drive.doing # "nothing"
  <2>1. PulsesLeft' = 0
    BY <1>3 DEF PulsesLeft, Idle, Begun
  <2>2. PulsesLeft > 0
    BY <1>1, <1>3 DEF PulsesLeft, Drives
  <2> QED BY <1>1, <2>1, <2>2 DEF Down
<1>4. CASE drive'.left = drive.left - 1 /\ drive'.doing = drive.doing
             /\ drive.doing # "nothing"
  <2>1. PulsesLeft' < PulsesLeft
    BY <1>1, <1>4 DEF PulsesLeft, Drives
  <2> QED BY <1>1, <2>1 DEF Down
<1>5. \/ drive' = Idle /\ drive.doing # "nothing"
      \/ /\ drive'.left = drive.left - 1 /\ drive'.doing = drive.doing
         /\ drive.doing # "nothing"
  <2> USE <1>1 DEF Drives
  <2>1. CASE Parked \/ GiveUp \/ StopShort(LoadedInRoom) \/ YawDone
    BY <2>1 DEF Parked, GiveUp, StopShort, YawDone, Lock, Rest, Due
  <2>2. CASE Straighten \/ YawPulse
    BY <2>2 DEF Straighten, YawPulse
  <2>3. CASE Pulse(LoadedInRoom)
    BY <2>3 DEF Pulse, Moved, Swallowed, Due
  <2> QED BY <1>2, <2>1, <2>2, <2>3 DEF Driving
<1> QED BY <1>3, <1>4, <1>5

\* A step of a spine that goes where it is told takes it further down.
LEMMA SpineStepsDown ==
  ASSUME SpineObeys, TInv, LowerSpine
  PROVE  spine' < spine
<1>1. spine \in Nat /\ setup \in Setups /\ pc = "spine_step"
  BY DEF TInv, TypeOK, LowerSpine, At
<1>2. setup.placeSpine \in Nat /\ spine > setup.placeSpine
  BY <1>1, SetupsAre DEF TInv, PlaceStages
<1>3. SpineStep \in Nat /\ SpineStep > 0 /\ spine - setup.placeSpine \in Nat
      /\ spine - setup.placeSpine > 0
  BY <1>1, <1>2, ChainAssumption
<1> DEFINE m == Min({SpineStep, spine - setup.placeSpine})
<1>4. m \in Nat /\ m > 0
  <2>1. m = IF SpineStep <= spine - setup.placeSpine THEN SpineStep
            ELSE spine - setup.placeSpine
    BY <1>3, MinOfTwo
  <2> QED BY <1>3, <2>1
<1>5. spine' = spine - m
  BY DEF LowerSpine, SpineAfter
<1> HIDE DEF m
<1> QED BY <1>1, <1>4, <1>5

LEMMA ChainDown ==
  ASSUME SpineObeys, TInv, TypeOK', Chain
  PROVE  Down
<1>1. /\ tries.pinch \in Nat /\ tries.approach \in Nat
      /\ tries.cycle \in Nat /\ tries.leg \in Nat
  BY DEF TInv, TypeOK
<1>2. /\ tries.pinch <= GraspTries + 1 /\ tries.approach <= Approach
      /\ tries.cycle <= Cycles - 1 /\ tries.leg <= Legs
  BY DEF TInv, TypeOK
<1> USE ChainAssumption DEF At, Goto, Return, Bail, result
<1>3. CASE AwaitFeed \/ LockTarget \/ RaiseSpine \/ InspectStrip
  BY <1>3 DEF AwaitFeed, LockTarget, RaiseSpine, InspectStrip, Down, BlocksLeft
<1>4. CASE ApproachLeg
  <2>1. pc = "station" /\ pc' = "station"
        /\ tries' = [tries EXCEPT !.approach = @ + 1]
    BY <1>4 DEF ApproachLeg
  <2>2. tries'.approach = tries.approach + 1
    BY <2>1 DEF TInv, TypeOK
  <2>3. RoundsLeft = Approach - tries.approach /\ RoundsLeft' = Approach - tries'.approach
    BY <2>1 DEF RoundsLeft
  <2>4. RoundsLeft' < RoundsLeft
    BY <1>1, <2>2, <2>3
  <2> QED BY <2>1, <2>4 DEF Down
<1>5. CASE ParkBase \/ Localise
  BY <1>5 DEF ParkBase, Localise, Down, BlocksLeft
<1>6. CASE Reconfigure
  <2>1. pc = "reconfigure" /\ pc' \in {"probe", "pinch"} /\ UNCHANGED tries
    BY <1>6 DEF Reconfigure
  <2>2. pc' = "probe" => RoundsLeft' = RoundsLeft /\ StagesLeft' < StagesLeft
    BY <2>1 DEF RoundsLeft, StagesLeft
  <2> QED BY <2>1, <2>2 DEF Down, BlocksLeft
<1>7. CASE ProbeWithoutOdometry \/ ProbeSolves
  BY <1>7 DEF ProbeWithoutOdometry, ProbeSolves, Down, BlocksLeft
<1>8. CASE ProbeFails
  <2>1. pc = "probe"
    BY <1>8 DEF ProbeFails
  <2>2. CASE pc' = "bail"
    BY <2>1, <2>2 DEF Down, BlocksLeft
  <2>3. CASE pc' = "home" /\ tries' = [tries EXCEPT !.cycle = @ + 1]
    <3>1. tries'.cycle = tries.cycle + 1
      BY <2>3 DEF TInv, TypeOK
    <3>2. RoundsLeft = Cycles - tries.cycle /\ RoundsLeft' = Cycles - tries'.cycle
      BY <2>1, <2>3 DEF RoundsLeft
    <3>3. RoundsLeft' < RoundsLeft
      BY <1>1, <3>1, <3>2
    <3> QED BY <2>1, <2>3, <3>3 DEF Down, BlocksLeft
  <2> QED BY <1>8, <2>2, <2>3 DEF ProbeFails
<1>9. CASE DriveHome
  <2>1. pc = "home" /\ pc' = "reconfigure" /\ UNCHANGED tries
    BY <1>9 DEF DriveHome
  <2>2. RoundsLeft' = RoundsLeft /\ StagesLeft' < StagesLeft
    BY <2>1 DEF RoundsLeft, StagesLeft
  <2> QED BY <2>1, <2>2 DEF Down, BlocksLeft
<1>10. ASSUME pc \in {"peel", "hang"}, Retry PROVE Down
  <2>1. tries' = [tries EXCEPT !.pinch = @ + 1] /\ pc' \in {"pinch", "bail"}
    BY <1>10 DEF Retry
  <2>2. CASE pc' = "bail"
    BY <1>10, <2>2 DEF Down, BlocksLeft
  <2>3. CASE pc' = "pinch"
    <3>1. tries'.pinch = tries.pinch + 1
      BY <2>1 DEF TInv, TypeOK
    <3>2. /\ RoundsLeft = GraspTries + 1 - tries.pinch
          /\ RoundsLeft' = GraspTries + 1 - tries'.pinch
      BY <1>10, <2>3 DEF RoundsLeft
    <3>3. RoundsLeft' < RoundsLeft
      BY <1>1, <3>1, <3>2
    <3> QED BY <1>10, <2>3, <3>3 DEF Down, BlocksLeft
  <2> QED BY <2>1, <2>2, <2>3
<1>11. CASE Pinch
  <2>1. pc = "pinch" /\ pc' \in {"bail", "peel"} /\ UNCHANGED tries
    BY <1>11 DEF Pinch, Unreachable
  <2>2. pc' = "peel" => RoundsLeft' = RoundsLeft /\ StagesLeft' < StagesLeft
    BY <2>1 DEF RoundsLeft, StagesLeft
  <2> QED BY <2>1, <2>2 DEF Down, BlocksLeft
<1>12. CASE PeelMissed
  <2>1. pc = "peel" /\ (Retry \/ pc' = "bail")
    BY <1>12 DEF PeelMissed, Unreachable
  <2> QED BY <1>10, <2>1 DEF Down, BlocksLeft
<1>13. CASE PeelArc
  <2>1. pc = "peel" /\ pc' \in {"bail", "hang"} /\ UNCHANGED tries
    BY <1>13 DEF PeelArc, Unreachable
  <2>2. pc' = "hang" => RoundsLeft' = RoundsLeft /\ StagesLeft' < StagesLeft
    BY <2>1 DEF RoundsLeft, StagesLeft
  <2> QED BY <2>1, <2>2 DEF Down, BlocksLeft
<1>14. CASE CheckHang
  <2>1. pc = "hang" /\ (Retry \/ pc' \in {"ramp", "bail"})
    BY <1>14 DEF CheckHang
  <2> QED BY <1>10, <2>1 DEF Down, BlocksLeft
<1>15. CASE Ramp
  BY <1>15 DEF Ramp, CheckDropped, Down, BlocksLeft
<1>16. CASE RideLeg
  <2>1. pc = "ride" /\ pc' = "leg" /\ tries' = [tries EXCEPT !.leg = @ + 1]
    BY <1>16 DEF RideLeg
  <2>2. tries'.leg = tries.leg + 1
    BY <2>1 DEF TInv, TypeOK
  <2>3. RoundsLeft = Legs - tries.leg /\ RoundsLeft' = Legs - tries'.leg
    BY <2>1 DEF RoundsLeft
  <2>4. RoundsLeft' < RoundsLeft
    BY <1>1, <2>2, <2>3
  <2> QED BY <2>1, <2>4 DEF Down, BlocksLeft
<1>17. CASE LegDone
  <2>1. pc = "leg" /\ pc' \in {"bail", "ride"} /\ UNCHANGED tries
    BY <1>17 DEF LegDone, CheckDropped
  <2>2. pc' = "ride" => RoundsLeft' = RoundsLeft /\ StagesLeft' < StagesLeft
    BY <2>1 DEF RoundsLeft, StagesLeft
  <2> QED BY <2>1, <2>2 DEF Down, BlocksLeft
<1>18. CASE Square \/ Squared \/ CheckSquare
  BY <1>18 DEF Square, Squared, CheckSquare, CheckDropped, Down, BlocksLeft
<1>19. CASE LastLeg \/ RideOver
  BY <1>19 DEF LastLeg, RideOver, Down, BlocksLeft
<1>20. CASE Hover
  BY <1>20 DEF Hover, CheckDropped, Down, BlocksLeft
<1>21. CASE LiftAtHover
  <2>1. pc = "place_spine" /\ pc' \in {"bail", "spine_step"} /\ UNCHANGED spine
    BY <1>21 DEF LiftAtHover, CheckDropped
  <2>2. pc' = "spine_step" => RoundsLeft' = RoundsLeft /\ StagesLeft' < StagesLeft
    BY <2>1 DEF RoundsLeft, StagesLeft
  <2> QED BY <2>1, <2>2 DEF Down, BlocksLeft
<1>22. CASE LowerSpine
  <2>1. pc = "spine_step" /\ pc' \in {"bail", "place_spine"}
    BY <1>22 DEF LowerSpine, CheckDropped
  <2>2. spine' < spine
    BY <1>22, SpineStepsDown
  <2>3. pc' = "place_spine" => RoundsLeft' < RoundsLeft
    BY <2>1, <2>2 DEF RoundsLeft
  <2> QED BY <2>1, <2>3 DEF Down, BlocksLeft
<1>23. CASE SpineInPlace \/ StartDescent
  BY <1>23 DEF SpineInPlace, StartDescent, CheckDropped, Down, BlocksLeft
<1>24. CASE LayAndOpen \/ RetreatAndPark \/ BailOut
  BY <1>24 DEF LayAndOpen, RetreatAndPark, BailOut, Unreachable, Down, BlocksLeft
<1>25. CASE DriveBase
  BY <1>25, DriveDown DEF TInv
<1> QED
  BY <1>3, <1>4, <1>5, <1>6, <1>7, <1>8, <1>9, <1>11, <1>12, <1>13, <1>14, <1>15,
     <1>16, <1>17, <1>18, <1>19, <1>20, <1>21, <1>22, <1>23, <1>24, <1>25
  DEF Chain

(* What stands behind "every attempt ends" for every number of pulses,     *)
(* pinches, cycles, legs and spine steps: on a spine that goes where it is *)
(* told, each step of the chain lowers a rank in a well-founded order, and *)
(* a strip that slips does not raise it.  On a spine that does not, the    *)
(* loop of the place phase (mirror_lay.py:1981-1992) is the one that may   *)
(* go on.                                                                  *)
THEOREM ChainRunsDown ==
  SpineObeys =>
    /\ IsWellFoundedOn(Lower(4), Ranks(4))
    /\ Spec => [](Rank \in Ranks(4))
    /\ Spec => [][IF Chain THEN <<Rank', Rank>> \in Lower(4) ELSE Rank' = Rank]_vars
<1> SUFFICES ASSUME SpineObeys
             PROVE  /\ IsWellFoundedOn(Lower(4), Ranks(4))
                    /\ Spec => [](Rank \in Ranks(4))
                    /\ Spec => [][IF Chain THEN <<Rank', Rank>> \in Lower(4)
                                 ELSE Rank' = Rank]_vars
  OBVIOUS
<1>1. IsWellFoundedOn(Lower(4), Ranks(4))
  BY LowerIsWellFounded
<1>2. TInv => Rank \in Ranks(4)
  BY RankTyped DEF TInv
<1>3. TInv /\ TInv' /\ [Next]_vars
        => [IF Chain THEN <<Rank', Rank>> \in Lower(4) ELSE Rank' = Rank]_vars
  <2>1. TInv /\ TInv' /\ Chain => <<Rank', Rank>> \in Lower(4)
    BY ChainDown, DownLowers DEF TInv
  <2>2. Slip \/ Exited => Rank' = Rank
    BY DEF Slip, Exited, vars, baseVars, Rank, RoundsLeft, StagesLeft, PulsesLeft
  <2> QED BY <2>1, <2>2 DEF Next
<1> QED BY <1>1, <1>2, <1>3, InitTInv, NextTInv, PTL DEF Spec

=============================================================================
