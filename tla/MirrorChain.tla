----------------------------- MODULE MirrorChain -----------------------------
(***************************************************************************)
(* One attempt of the official chain, mirror_lay.main: look at the scene,  *)
(* lift the spine, park the base, pinch the strip and peel it off its      *)
(* stand, ride to the place station, lower, press, sweep, let go, park.    *)
(*                                                                         *)
(* The strip is the scene's: it may slip at any time it is held, and the   *)
(* chain learns of it only where the code looks.  Motions of the arm are   *)
(* stages; a pose that cannot be reached ends a stage that is not soft.    *)
(* The base is driven pulse by pulse (BaseDrive): a stage that drives      *)
(* starts the drive and names the stage at which the chain goes on.  The   *)
(* spine is a height in units of SPINE_TOL; --dry and --stop-after are     *)
(* left out.                                                               *)
(***************************************************************************)
EXTENDS BaseDrive

CONSTANTS
  GraspTries,   \* args.grasp_tries
  Approach,     \* the most legs of the approach corridor
  Cycles,       \* recovery cycles of the reach probe
  Legs,         \* legs of the ride
  SpineTarget,  \* args.spine
  SpineStarts,  \* heights the scene can start at
  PlaceSpines,  \* heights of the place phase, of the slots that have one
  SpineStep,    \* the longest step of the place-phase drive
  SpineObeys    \* does the spine go where it is told?

NoPlaceSpine == -1
NoCode == -1

ASSUME ChainAssumption ==
  /\ GraspTries \in Nat \ {0} /\ Approach \in Nat
  /\ Cycles \in Nat \ {0} /\ Legs \in Nat \ {0}
  /\ SpineTarget \in Nat /\ SpineStarts \subseteq Nat /\ PlaceSpines \subseteq Nat
  /\ SpineStep \in Nat \ {0}
  /\ SpineObeys \in BOOLEAN

VARIABLES
  setup,      \* what the scene and the arguments fix for the attempt
  pc,         \* the stage
  tries,      \* pinch attempts begun, and cycles and legs gone through
  arm,        \* "as_found", "travel" (folded) or "out"
  grip,       \* grip_now
  carrying,   \* carrying[0]
  strip,      \* "stand", "no_tab", "gripped", "hanging", "folded", "dropped", "laid"
  slips,      \* history: how the strip slipped since the gripper closed on it,
              \* and in which part of the way
  spine,      \* the height of the spine
  code,       \* exit code
  marker      \* the marker of run_chain that was printed

vars == <<setup, pc, tries, arm, grip, carrying, strip, slips, spine, code,
          marker, baseVars>>

Setups == [room       : BOOLEAN,             \* room_mode.ACTIVE
           fixedBase  : BOOLEAN,             \* args.fixed_base
           odom       : BOOLEAN,             \* does odometry ever come?
           spineStart : SpineStarts,
           placeSpine : PlaceSpines \cup {NoPlaceSpine}]

NoTries == [pinch |-> 1, approach |-> 0, cycle |-> 0, leg |-> 0]

Init ==
  /\ setup \in Setups
  /\ pc = "feed" /\ tries = NoTries /\ arm = "as_found" /\ grip = "open"
  /\ carrying = FALSE /\ strip \in {"stand", "no_tab"} /\ slips = {}
  /\ spine = setup.spineStart /\ code = NoCode /\ marker = "none"
  /\ BaseInit

-----------------------------------------------------------------------------
(* Ways on: to another stage, out at once, or out through the park.        *)

load   == <<carrying, strip, slips>>
result == <<code, marker>>

\* The chain is at a stage when the drive before it, if any, is over.
At(stage) == pc = stage /\ drive = Idle

Goto(stage) == pc' = stage /\ UNCHANGED result
Return(c)   == pc' = "exited" /\ code' = c /\ UNCHANGED marker
Bail(c)     == pc' = "bail" /\ code' = c /\ UNCHANGED marker

\* Where raise_spine leaves the spine: a drive that does not obey may also
\* stay where it is.
SpineAfter(target) == IF SpineObeys THEN {target} ELSE {target, spine}

\* base_goto does nothing on a fixed base, and nothing without odometry.
Driveable == setup.odom /\ ~setup.fixedBase

DriveTo(tol, capS) ==
  IF Driveable THEN BeginGoto(tol, capS) ELSE UNCHANGED baseVars

BaseTol == IF setup.room THEN 20 ELSE 10

LoadedInRoom == setup.room /\ carrying

DriveBase ==
  /\ Driving(LoadedInRoom)
  /\ UNCHANGED <<setup, pc, tries, arm, grip, load, spine, result>>

Riding == {"ride", "leg", "squared", "square", "last_leg", "ridden"}
Parts  == [pick  |-> {"peel", "hang"},
           carry |-> {"ramp"} \cup Riding,
           place |-> {"hover", "place_spine", "spine_step", "descend"},
           lay   |-> {"lay"}]
Loaded == UNION {Parts[part] : part \in DOMAIN Parts}

Held == strip \in {"gripped", "hanging", "folded"}

-----------------------------------------------------------------------------
(* The scene: a held strip slips.                                          *)

\* Where a strip that falls may come to lie on the stand again.
OverStand ==
  pc \in {"hang", "ramp", "ride", "leg"} \/ (pc = "hover" /\ setup.fixedBase)

Slip ==
  /\ Held /\ pc \in Loaded
  /\ \/ strip = "gripped" /\ strip' \in {"stand", "dropped"}
     \/ strip = "hanging" /\ strip' \in {"folded", "dropped"}
     \/ strip = "folded"  /\ strip' = "dropped"
     \/ strip \in {"hanging", "folded"} /\ OverStand /\ strip' = "stand"
  /\ \E part \in DOMAIN Parts :
       pc \in Parts[part] /\ slips' = slips \cup {[part |-> part, to |-> strip']}
  /\ UNCHANGED <<setup, pc, tries, arm, grip, carrying, spine, result, baseVars>>

-----------------------------------------------------------------------------
(* Before the arm moves.                                                   *)

AwaitFeed ==
  /\ At("feed")
  /\ Return(1) \/ Goto("target")
  /\ UNCHANGED <<setup, tries, arm, grip, load, spine, baseVars>>

\* The plate is locked, or it is yawed too far: a fresh draw.
LockTarget ==
  /\ At("target")
  /\ Return(13) \/ Goto("spine")
  /\ UNCHANGED <<setup, tries, arm, grip, load, spine, baseVars>>

RaiseSpine ==
  /\ At("spine")
  /\ spine' \in SpineAfter(SpineTarget)
  /\ Goto("inspect")
  /\ UNCHANGED <<setup, tries, arm, grip, load, baseVars>>

\* The flip gate needs a frame of the eval camera, which may not have come.
InspectStrip ==
  /\ At("inspect")
  /\ IF strip = "no_tab" THEN Return(2)
     ELSE \/ pc' = "exited" /\ code' = 10 /\ marker' = "flipped"
          \/ Goto("station")
  /\ UNCHANGED <<setup, tries, arm, grip, load, spine, baseVars>>

\* The corridor down to the park, in the room and with odometry only.
ApproachLeg ==
  /\ At("station") /\ setup.room /\ Driveable /\ tries.approach < Approach
  /\ tries' = [tries EXCEPT !.approach = @ + 1]
  /\ arm' = "travel" /\ DriveTo(60, 300) /\ Goto("station")
  /\ UNCHANGED <<setup, grip, load, spine>>

\* The base is parked with the arms folded.
ParkBase ==
  /\ At("station")
  /\ arm' = "travel" /\ DriveTo(BaseTol, 300) /\ Goto("localise")
  /\ tries' = NoTries
  /\ UNCHANGED <<setup, grip, load, spine>>

\* No settled pair of joints and tool pose after four looks, no chain.
Localise ==
  /\ At("localise")
  /\ frame' \in Look(frame)
  /\ IF frame'.guarded THEN Goto("reconfigure") ELSE Return(1)
  /\ UNCHANGED <<setup, tries, arm, grip, load, spine, base, drive>>

\* The arm is unfolded into the family of the official poses.
Reconfigure ==
  /\ At("reconfigure")
  /\ arm' = "out" /\ Goto(IF setup.room THEN "probe" ELSE "pinch")
  /\ UNCHANGED <<setup, tries, grip, load, spine, baseVars>>

-----------------------------------------------------------------------------
(* In the room the pick block is probed, each time from a frame taken      *)
(* anew, and the base driven home with the arms folded as long as it does  *)
(* not solve.                                                              *)

\* The distance to the station is read from odometry that may not be there.
ProbeWithoutOdometry ==
  /\ At("probe") /\ ~setup.odom
  /\ Return(1)
  /\ UNCHANGED <<setup, tries, arm, grip, load, spine, baseVars>>

ProbeSolves ==
  /\ At("probe") /\ setup.odom
  /\ frame' \in UNION {Look(Unguarded(f)) : f \in Look(Unguarded(frame))}
  /\ Goto("pinch") /\ tries' = NoTries
  /\ UNCHANGED <<setup, arm, grip, load, spine, base, drive>>

\* A yaw that is off is taken out before the base is driven.
ProbeFails ==
  /\ At("probe") /\ setup.odom
  /\ IF tries.cycle + 1 < Cycles
       THEN /\ Goto("home") /\ tries' = [tries EXCEPT !.cycle = @ + 1]
            /\ arm' = "travel"
            /\ (Driveable /\ BeginYaw) \/ UNCHANGED baseVars
       ELSE Bail(13) /\ UNCHANGED <<tries, arm, baseVars>>
  /\ UNCHANGED <<setup, grip, load, spine>>

DriveHome ==
  /\ At("home")
  /\ DriveTo(BaseTol, 450) /\ Goto("reconfigure")
  /\ UNCHANGED <<setup, tries, arm, grip, load, spine>>

-----------------------------------------------------------------------------
(* The pick.                                                               *)

Unreachable == Bail(5) /\ UNCHANGED <<grip, load, frame>>

\* Lying where a west tab can still be seen.
Lying == strip \in {"stand", "dropped"}

Pinch ==
  /\ At("pinch")
  /\ \/ strip = "no_tab" /\ Bail(13) /\ UNCHANGED <<grip, load, frame>>
     \/ Lying /\ Unreachable
     \/ /\ Lying /\ strip' \in {strip} \cup (IF strip = "stand" THEN {"gripped"} ELSE {})
        /\ grip' = "closed" /\ Goto("peel")
        /\ slips' = {} /\ UNCHANGED carrying
        /\ LooksWhileReaching
  /\ UNCHANGED <<setup, tries, arm, spine, base, drive>>

\* Mutant: a missed pinch is repeated without counting.
MutRetry ==
  /\ grip' = "open" /\ Goto("pinch")
  /\ strip' \in {strip, "no_tab"} /\ UNCHANGED <<tries, carrying, slips, frame>>

\* Mutant: the last try is followed by another.
MutOneMoreTry ==
  /\ tries' = [tries EXCEPT !.pinch = @ + 1]
  /\ grip' = "open"
  /\ strip' \in {strip, "no_tab"} /\ UNCHANGED <<carrying, slips, frame>>
  /\ IF tries.pinch <= GraspTries THEN Goto("pinch") \/ Bail(5) ELSE Bail(13) \/ Bail(5)

(* Reopen, back out and try once more, unless that was the last try: the   *)
(* try may have moved the tab out of reach.                                *)
Retry ==
  /\ tries' = [tries EXCEPT !.pinch = @ + 1]
  /\ grip' = "open"
  /\ strip' \in {strip, "no_tab"} /\ UNCHANGED <<carrying, slips, frame>>
  /\ IF tries.pinch < GraspTries THEN Goto("pinch") \/ Bail(5) ELSE Bail(13) \/ Bail(5)

\* The cloud has not followed the west pull.
PeelMissed ==
  /\ At("peel") /\ Lying
  /\ Retry \/ (Unreachable /\ UNCHANGED tries)
  /\ UNCHANGED <<setup, arm, spine, base, drive>>

PeelArc ==
  /\ At("peel") /\ strip # "stand"
  /\ \/ Unreachable
     \/ /\ Goto("hang") /\ UNCHANGED <<grip, carrying, slips>>
        /\ strip' \in IF strip = "gripped" THEN {"hanging", "folded", "stand", "dropped"}
                                           ELSE {strip}
        /\ LooksWhileReaching
  /\ UNCHANGED <<setup, tries, arm, spine, base, drive>>

\* A good hang is carried, a strip that fell is tried again.
CheckHang ==
  /\ At("hang")
  /\ \/ /\ strip = "hanging"
        /\ carrying' = TRUE /\ Goto("ramp") /\ tries' = NoTries
        /\ UNCHANGED <<grip, strip, slips, frame>>
     \/ Lying /\ Retry
     \/ /\ strip \in {"folded", "dropped"} /\ Bail(7)
        /\ UNCHANGED <<tries, grip, load, frame>>
  /\ UNCHANGED <<setup, arm, spine, base, drive>>

-----------------------------------------------------------------------------
(* Loaded: to the hover.                                                   *)

\* loaded_ok: where the strip should hang clear, a low cloud is a drop.  A
\* strip that lies on the stand is not low (WALL_TOP_Z is 0.097).
CheckDropped(stage) == IF strip = "dropped" THEN Bail(7) ELSE Goto(stage)

Ramp ==
  /\ At("ramp")
  /\ Bail(5) \/ CheckDropped(IF setup.fixedBase THEN "hover" ELSE "ride")
  /\ LooksWhileReaching
  /\ UNCHANGED <<setup, tries, arm, grip, load, spine, base, drive>>

\* Loaded, the cap is lower.
RideTo(tol) == DriveTo(tol, 180)

RideLeg ==
  /\ At("ride") /\ tries.leg < Legs
  /\ RideTo(25) /\ Goto("leg")
  /\ tries' = [tries EXCEPT !.leg = @ + 1]
  /\ UNCHANGED <<setup, arm, grip, load, spine>>

LegDone ==
  /\ At("leg")
  /\ CheckDropped("ride")
  /\ UNCHANGED <<setup, tries, arm, grip, load, spine, baseVars>>

\* In the room the yaw is zeroed at the end of the legs.
Square ==
  /\ At("ride") /\ tries.leg = Legs
  /\ IF setup.room THEN Goto("squared") ELSE Goto("last_leg")
  /\ IF setup.room /\ Driveable THEN BeginYaw ELSE UNCHANGED baseVars
  /\ tries' = NoTries
  /\ UNCHANGED <<setup, arm, grip, load, spine>>

\* A yaw that could not be zeroed is driven out.
Squared ==
  /\ At("squared")
  /\ IF base.off THEN RideTo(25)
     ELSE UNCHANGED baseVars
  /\ Goto("square")
  /\ UNCHANGED <<setup, tries, arm, grip, load, spine>>

CheckSquare ==
  /\ At("square")
  /\ CheckDropped("last_leg")
  /\ UNCHANGED <<setup, tries, arm, grip, load, spine, baseVars>>

LastLeg ==
  /\ At("last_leg")
  /\ RideTo(20) /\ Goto("ridden")
  /\ UNCHANGED <<setup, tries, arm, grip, load, spine>>

\* Mutant: the look after the ride is guarded by the frame before it.
MutRidden == Look(frame)

\* The ride was meant: the look after it is not guarded.
Ridden == Look(Unguarded(frame))

\* The end of the ride compares the hang with the hang before it.
RideOver ==
  /\ At("ridden")
  /\ frame' \in Ridden
  /\ IF strip = "hanging" THEN Goto("hover") ELSE Bail(7)
  /\ UNCHANGED <<setup, tries, arm, grip, load, spine, base, drive>>

\* A glide that cannot be solved, or is not needed, looks at nothing.
Hover ==
  /\ At("hover")
  /\ LET next == IF setup.placeSpine = NoPlaceSpine THEN "descend" ELSE "place_spine"
     IN  Bail(5) \/ CheckDropped(next) \/ Goto(next)
  /\ LooksWhileReaching
  /\ UNCHANGED <<setup, tries, arm, grip, load, spine, base, drive>>

-----------------------------------------------------------------------------
(* The place-phase spine, driven at the hover.                             *)

\* The tool goes up by the step the spine is about to go down.
LiftAtHover ==
  /\ At("place_spine") /\ spine > setup.placeSpine
  /\ CheckDropped("spine_step") \/ Goto("spine_step")
  /\ LooksWhileReaching
  /\ UNCHANGED <<setup, tries, arm, grip, load, spine, base, drive>>

LowerSpine ==
  /\ At("spine_step")
  /\ spine' \in SpineAfter(spine - Min({SpineStep, spine - setup.placeSpine}))
  /\ CheckDropped("place_spine")
  /\ UNCHANGED <<setup, tries, arm, grip, load, baseVars>>

SpineInPlace ==
  /\ At("place_spine") /\ spine <= setup.placeSpine
  /\ spine' \in SpineAfter(setup.placeSpine)
  /\ CheckDropped("descend") \/ Goto("descend")
  /\ UNCHANGED <<setup, tries, arm, grip, load, baseVars>>

-----------------------------------------------------------------------------
(* The lay.                                                                *)

\* Mutant: the last look is left out.
MutStartDescent ==
  /\ At("descend")
  /\ Bail(5) \/ Goto("lay")
  /\ UNCHANGED <<setup, tries, arm, grip, load, spine, baseVars>>

(* The first waypoint of the descent still lies where the strip should     *)
(* hang clear; below it a low cloud is the goal and no one looks any more. *)
StartDescent ==
  /\ At("descend")
  /\ Bail(5) \/ CheckDropped("lay")
  /\ LooksWhileReaching
  /\ UNCHANGED <<setup, tries, arm, grip, load, spine, base, drive>>

\* Contact, press and pitch sweep: let go flat, or at the last rung anyway.
LayAndOpen ==
  /\ At("lay")
  /\ \/ Unreachable
     \/ /\ grip' = "open" /\ carrying' = FALSE
        /\ strip' = IF Lying THEN strip ELSE "laid"
        /\ Goto("retreat") /\ UNCHANGED <<slips, frame>>
  /\ UNCHANGED <<setup, tries, arm, spine, base, drive>>

\* Mutant: goes back to the start height from the lift height only.
MutParkedSpines ==
  IF setup.spineStart # SpineTarget /\ spine = SpineTarget
    THEN SpineAfter(setup.spineStart) ELSE {spine}

\* --park-spine: back to the height the scene started at.
ParkedSpines ==
  IF setup.spineStart # SpineTarget THEN SpineAfter(setup.spineStart) ELSE {spine}

\* The retreat is soft: the strip is released and the park follows anyway.
RetreatAndPark ==
  /\ At("retreat")
  /\ arm' = "travel"
  /\ spine' \in ParkedSpines
  /\ pc' = "exited" /\ code' = 0 /\ marker' = "complete"
  /\ UNCHANGED <<setup, tries, grip, load, baseVars>>

\* Mutant: exits from where the arm stands.
MutBailOut ==
  /\ pc = "bail" /\ pc' = "exited"
  /\ grip' = "open" /\ spine' \in ParkedSpines
  /\ strip' = IF Held THEN "dropped" ELSE strip
  /\ UNCHANGED <<setup, tries, arm, carrying, slips, result, baseVars>>

\* bail: whatever is held is let go on the way to the park.
BailOut ==
  /\ pc = "bail" /\ pc' = "exited"
  /\ arm' = "travel" /\ grip' = "open" /\ spine' \in ParkedSpines
  /\ strip' = IF Held THEN "dropped" ELSE strip
  /\ UNCHANGED <<setup, tries, carrying, slips, result, baseVars>>

Exited == pc = "exited" /\ UNCHANGED vars

-----------------------------------------------------------------------------
Chain ==
  \/ AwaitFeed \/ LockTarget \/ RaiseSpine \/ InspectStrip
  \/ ApproachLeg \/ ParkBase \/ Localise \/ Reconfigure
  \/ ProbeWithoutOdometry \/ ProbeSolves \/ ProbeFails \/ DriveHome
  \/ Pinch \/ PeelMissed \/ PeelArc \/ CheckHang
  \/ Ramp \/ RideLeg \/ LegDone \/ Square \/ Squared \/ CheckSquare
  \/ LastLeg \/ RideOver \/ Hover
  \/ LiftAtHover \/ LowerSpine \/ SpineInPlace
  \/ StartDescent \/ LayAndOpen \/ RetreatAndPark \/ BailOut
  \/ DriveBase

Next == Chain \/ Slip \/ Exited

\* The chain is one thread whose motions all time out.
Spec == Init /\ [][Next]_vars /\ WF_vars(Chain)

Stages == Loaded \cup {"feed", "target", "spine", "inspect", "station",
                       "localise", "reconfigure", "probe", "home", "pinch",
                       "retreat", "bail", "exited"}

TypeOK ==
  /\ setup \in Setups
  /\ pc \in Stages
  /\ tries \in [pinch : 1..(GraspTries + 1), approach : 0..Approach,
                cycle : 0..(Cycles - 1), leg : 0..Legs]
  /\ arm \in {"as_found", "travel", "out"} /\ grip \in {"open", "closed"}
  /\ carrying \in BOOLEAN
  /\ strip \in {"stand", "no_tab", "gripped", "hanging", "folded", "dropped", "laid"}
  /\ slips \subseteq [part : DOMAIN Parts, to : {"stand", "folded", "dropped"}]
  /\ spine \in Nat
  /\ code \in {NoCode, 0, 1, 2, 5, 7, 10, 13}
  /\ marker \in {"none", "complete", "flipped"}
  /\ pc \in Loaded => grip = "closed"
  /\ grip = "closed" => pc \in Loaded \cup {"bail"}
  /\ BaseTypeOK

(* What a completed chain may have lost (a run judges the scene of a       *)
(* completed chain only): a strip that fell is found out up to the first   *)
(* waypoint of the descent by loaded_ok and by the checks of the ride and  *)
(* of the spine drive; a folded one, or one that fell back onto the stand  *)
(* and so is not low, by the hang check and at the end of the ride, which  *)
(* a fixed base does not have (mirror_lay.py:1195-1208, 1884-1895).        *)
LossIsCaught ==
  marker = "complete" => \A s \in slips :
    \/ s.part = "lay"
    \/ s.to = "folded" /\ s.part = "place"
    \/ s.to \in {"folded", "stand"} /\ s.part \in {"carry", "place"} /\ setup.fixedBase

(* An attempt that has moved the arm out leaves it parked with the gripper *)
(* open, whatever it died of ("chain aborted (fail-closed, arms parked)",  *)
(* official_run.py:981).  In the room the chain dies of missing odometry   *)
(* at the reach probe, with the arm unfolded (mirror_lay.py:1713).         *)
MovedArmIsParked ==
  pc = "exited" => /\ arm = "out" => setup.room /\ ~setup.odom
                   /\ grip = "open"

(* --park-spine (mirror_lay.py:565-569): once the arm is parked the spine  *)
(* is back at the height the scene started at, whatever the place phase    *)
(* did to it, with one exception the help text and the comment at 2101 do  *)
(* not make: where the scene started at the height of --spine, a slot with *)
(* a place-phase height leaves the spine on the way to that height or      *)
(* there, since 960 and 2103 compare the start with --spine and not with   *)
(* where the spine is.  The exits without a tab, with a flipped strip and  *)
(* without a frame do not park.                                            *)
SpineIsParked ==
  (code \notin {1, 2, 10} /\ pc = "exited") =>
    \/ spine = setup.spineStart
    \/ /\ setup.spineStart = SpineTarget /\ setup.placeSpine # NoPlaceSpine
       /\ spine \in (setup.placeSpine..SpineTarget) \cup (SpineTarget..setup.placeSpine)

(* Wherever the chain solves for the arm, no drive of the base is hidden   *)
(* behind the jump guard: if the base has been driven on purpose since the *)
(* last accepted frame, the next settled look is taken as it is, and not   *)
(* refused as a jump (mirror_lay.py:981, 1744, 1877).  Until such a look   *)
(* the chain still solves in the old frame.                                *)
SolvesOnRenewedFrame ==
  (At(pc) /\ pc \in (Loaded \ Riding) \cup {"pinch"})
    => /\ frame.behind # "never"
       /\ frame.behind = "driven" => ~frame.guarded

RideLunge == IF setup.room THEN 220 ELSE 280

(* A hanging strip is a pendulum on a bite of 4 mm: whatever pulses were   *)
(* swallowed or overshot before, a loaded pulse that translates the base   *)
(* is never longer than the lunge of the ride (mirror_lay.py:1086-1091,    *)
(* 1106).  It says nothing of the pulses that turn the base, which last up *)
(* to 0.25 s, 0.30 s (zero_base_yaw) or, in the room, 0.55 s.              *)
LoadedTranslationIsShort ==
  (carrying /\ Due) => PulseLength(LoadedInRoom) <= RideLunge

(* Every attempt ends (run_chain waits for it without a timeout).          *)
ChainEnds == <>(pc = "exited")

=============================================================================
