----------------------- MODULE PerceptionPolicyProofs -----------------------
(***************************************************************************)
(* Proofs about the perception policy, for every timeout, dwell, budget    *)
(* and length of a trajectory or a stroke.                                 *)
(***************************************************************************)
EXTENDS PerceptionPolicy, NumberFacts

LEMMA ConstantsAre ==
  /\ WaypointTimeout \in Nat /\ ReleaseTimeout \in Nat /\ VerifyTimeout \in Nat
  /\ ReleaseDwell \in Nat /\ CloseDwell \in Nat /\ PushSettle \in Nat
  /\ StallDwell \in Nat /\ StallLimit \in Nat /\ PinTimeout \in Nat
  /\ ServoIters \in Nat /\ SettleTimeout \in Nat
  /\ MaxRegrasps \in Nat /\ MaxReshakes \in Nat /\ MaxPushes \in Nat \ {0}
  /\ MaxDwells \in Nat /\ WalkLens \subseteq Nat \ {0} /\ StrokeLens \subseteq Nat \ {0}
  BY PolicyAssumption

Grips     == {"open", "closed"}
Servoings == [left : 0..ServoIters, sent : BOOLEAN, wait : 0..SettleTimeout]
Pushes    == [planned : BOOLEAN, done : 0..MaxPushes, dwells : 0..MaxDwells,
              stallAt : Nat \cup {-1}, stallAge : Nat]

PinAgeOK == pinAge \in 0..(PinTimeout + 1) /\ (pin = "stuck" <=> pinAge > PinTimeout)

LEMMA TypesAre ==
  TypeOK <=> /\ setup \in Setups /\ phase \in Phases /\ age \in 0..(LastAge + 1)
             /\ walk \in Walks /\ walk.at <= walk.len
             /\ servo \in Servoings /\ openAfter \in Nat /\ push \in Pushes
             /\ regrasps \in 0..MaxRegrasps /\ reshakes \in 0..MaxReshakes
             /\ pin \in Pins /\ PinAgeOK
             /\ grip \in Grips /\ sheet \in {"low", "held"}
             /\ fell \in Phases \cup {"none"}
  BY DEF TypeOK, Servoings, Pushes, PinAgeOK, Grips

\* A push is left wherever a stroke is still to be planned.
PushLeft ==
  /\ phase \in Carry \cup {"wait_for_state", "release"} => push.done = 0
  /\ phase = "push" /\ ~push.planned => push.done < MaxPushes

PInv == TypeOK /\ PushLeft

-----------------------------------------------------------------------------
(* Clocks, the left arm and trajectories.                                  *)

LEMMA LargerIs ==
  ASSUME NEW a \in Nat, NEW b \in Nat
  PROVE  Larger(a, b) \in Nat /\ a <= Larger(a, b) /\ b <= Larger(a, b)
  BY DEF Larger

LEMMA LastAgeIs ==
  /\ LastAge \in Nat
  /\ WaypointTimeout <= LastAge /\ ReleaseTimeout <= LastAge
  /\ CloseDwell <= LastAge /\ ReleaseDwell <= LastAge /\ PushSettle <= LastAge
<1> DEFINE a == Larger(WaypointTimeout, ReleaseTimeout)
           b == Larger(CloseDwell, ReleaseDwell)
           c == Larger(b, PushSettle)
           d == Larger(VerifyTimeout + 1, c)
<1>1. a \in Nat /\ WaypointTimeout <= a /\ ReleaseTimeout <= a
  BY ConstantsAre, LargerIs
<1>2. b \in Nat /\ CloseDwell <= b /\ ReleaseDwell <= b
  BY ConstantsAre, LargerIs
<1> HIDE DEF a, b
<1>3. c \in Nat /\ b <= c /\ PushSettle <= c /\ VerifyTimeout + 1 \in Nat
  BY <1>2, ConstantsAre, LargerIs
<1> HIDE DEF c
<1>4. d \in Nat /\ c <= d
  BY <1>3, LargerIs
<1> HIDE DEF d
<1>5. LastAge = Larger(a, d)
  BY DEF LastAge, Dwells, a, b, c, d
<1>6. LastAge \in Nat /\ a <= LastAge /\ d <= LastAge
  BY <1>1, <1>4, <1>5, LargerIs
<1> QED BY <1>1, <1>2, <1>3, <1>4, <1>6, ConstantsAre

LEMMA LastAgeTyped == LastAge \in Nat
  BY LastAgeIs

LEMMA NowTyped == TypeOK => Now \in 0..(LastAge + 1)
  BY LastAgeTyped DEF TypeOK, Now, Up

LEMMA StallTyped == TypeOK => StallNow \in Nat
<1> SUFFICES ASSUME TypeOK PROVE StallNow \in Nat
  OBVIOUS
<1>1. push.stallAge \in Nat
  BY DEF TypeOK
<1>2. Up(push.stallAge, Larger(StallDwell, StallLimit)) \in {push.stallAge, push.stallAge + 1}
  BY DEF Up
<1> QED BY <1>1, <1>2 DEF StallNow

LEMMA LeftArmTyped ==
  ASSUME TypeOK, NEW p \in Pins, p = "stuck" => pin = "stuck", LeftArm(p)
  PROVE  /\ pin' \in Pins /\ PinAgeOK'
         /\ p \notin PinMoves => pin' = p
<1> DEFINE since == IF p = pin THEN pinAge + 1 ELSE 0
<1>1. /\ since \in Nat /\ PinTimeout \in Nat /\ pinAge \in 0..(PinTimeout + 1)
      /\ p \in PinMoves => since <= PinTimeout + 1
      /\ pin = "stuck" <=> pinAge > PinTimeout
  BY ConstantsAre DEF TypeOK, PinMoves
<1>2. \/ p \notin PinMoves /\ pin' = p /\ pinAge' = IF p = "stuck" THEN pinAge ELSE 0
      \/ p \in PinMoves /\ since <= PinTimeout /\ pin' = p /\ pinAge' = since
      \/ p \in PinMoves /\ pin' = PinNext[p] /\ pinAge' = 0
      \/ p = "descend" /\ pin' = "hold" /\ pinAge' = 0
      \/ p = "lift" /\ since > PinTimeout /\ pin' = "stuck" /\ pinAge' = since
  BY DEF LeftArm, PinForced, PinMoves
<1> HIDE DEF since
<1>3. pinAge' \in 0..(PinTimeout + 1)
  BY <1>1, <1>2 DEF PinMoves
<1>4. pin' = "stuck" <=> pinAge' > PinTimeout
  <2>1. CASE p \notin PinMoves
    BY <1>1, <1>2, <2>1 DEF PinMoves
  <2>2. CASE p \in PinMoves
    BY <1>1, <1>2, <2>2 DEF PinMoves, PinNext
  <2> QED BY <2>1, <2>2
<1>5. pin' \in Pins /\ (p \notin PinMoves => pin' = p)
  BY <1>2 DEF Pins, PinNext, PinMoves
<1> QED BY <1>3, <1>4, <1>5 DEF PinAgeOK

LEMMA PinsTyped ==
  ASSUME TypeOK
  PROVE  /\ pin \in Pins /\ Cleared \in Pins /\ PlannedPins \subseteq Pins
         /\ \A p \in PlannedPins \cup {Cleared} : p = "stuck" => pin = "stuck"
  BY TypesAre DEF Cleared, PlannedPins, Pins

LEMMA WalksAre ==
  ASSUME NEW w \in Walks
  PROVE  /\ w.len \in Nat /\ w.at \in Nat /\ Step(w) \in Walks
         /\ Step(w).len = w.len /\ Step(w).at = w.at + 1 /\ Step(w).peel = w.peel
<1>1. {0} \cup WalkLens \cup StrokeLens \subseteq Nat
  BY ConstantsAre
<1>2. /\ w = [len |-> w.len, at |-> w.at, peel |-> w.peel]
      /\ w.len \in {0} \cup WalkLens \cup StrokeLens /\ w.at \in Nat /\ w.peel \in Nat
  BY DEF Walks
<1>3. Step(w) = [len |-> w.len, at |-> w.at + 1, peel |-> w.peel]
  BY <1>2 DEF Step
<1> QED BY <1>1, <1>2, <1>3 DEF Walks

LEMMA PlansAre ==
  ASSUME NEW w \in Planned \cup StrokePlans
  PROVE  w \in Walks /\ w.at = 0 /\ w.peel = 0 /\ w.at < w.len /\ w.len \in Nat
<1>1. /\ w.len \in WalkLens \cup StrokeLens /\ w.at = 0 /\ w.peel = 0
      /\ w = [len |-> w.len, at |-> w.at, peel |-> w.peel]
  BY DEF Planned, StrokePlans
<1>2. w.len \in Nat \ {0}
  BY <1>1, ConstantsAre
<1> QED BY <1>1, <1>2 DEF Walks

LEMMA PeelsAre ==
  ASSUME NEW w \in ReleasePlans
  PROVE  /\ w \in Walks /\ w.at <= w.len /\ OpensAfter(w) \subseteq Nat
         /\ setup.mode = "press" /\ setup.dump => OpensAfter(w) = {w.peel}
         /\ OpensAfter(w) \subseteq {0, w.peel}
<1>1. PICK n \in WalkLens :
        w \in [len : {n}, at : {0}, peel : IF setup.mode = "press" THEN 0..(n - 1) ELSE {0}]
  BY DEF ReleasePlans
<1>2. n \in Nat \ {0}
  BY ConstantsAre
<1>3. /\ w = [len |-> n, at |-> 0, peel |-> w.peel]
      /\ w.len = n /\ w.at = 0 /\ w.peel \in Nat
  BY <1>1, <1>2
<1>4. w \in Walks
  BY <1>3 DEF Walks
<1> QED BY <1>2, <1>3, <1>4 DEF OpensAfter

-----------------------------------------------------------------------------
(* Ways into a phase.                                                      *)

WayOK ==
  /\ phase' \in Phases /\ age' \in 0..(LastAge + 1)
  /\ walk' \in Walks /\ walk'.at <= walk'.len
  /\ servo' \in Servoings /\ openAfter' \in Nat /\ grip' \in Grips

LEMMA FailOK == TypeOK /\ Fail => WayOK /\ phase' = "failed"
  BY TypesAre DEF Fail, WayOK, Phases, Terminal, Grips

LEMMA ToVerifyOK == TypeOK /\ ToVerify => WayOK /\ phase' = "verify"
  BY TypesAre, LastAgeTyped DEF ToVerify, WayOK, Phases, Grips

LEMMA EnterPushOK ==
  ASSUME TypeOK, NEW q \in Pushes, EnterPush(q)
  PROVE  /\ WayOK /\ phase' = "push"
         /\ push' \in Pushes /\ push'.done = q.done /\ ~push'.planned
<1>1. NoWalk \in Walks /\ NoWalk.at <= NoWalk.len
  BY DEF NoWalk, Walks
<1>2. push' \in Pushes /\ push'.done = q.done /\ ~push'.planned
  BY DEF EnterPush, Pushes
<1> QED BY <1>1, <1>2, TypesAre, LastAgeTyped DEF EnterPush, WayOK, Phases, Grips

LEMMA ServosTyped ==
  ASSUME NEW ph
  PROVE  [NoServo EXCEPT !.left = Servos(ph)] \in Servoings
<1>1. Servos(ph) \in 0..ServoIters /\ 0 \in 0..SettleTimeout
  BY ConstantsAre DEF Servos
<1> QED BY <1>1 DEF NoServo, Servoings

LEMMA BeginPhaseOK ==
  ASSUME TypeOK, NEW ph \in Carry, BeginPhase(ph)
  PROVE  WayOK /\ phase' \in {ph, "failed"}
<1>1. CASE Fail
  BY <1>1, FailOK
<1>2. CASE ~Fail
  <2>1. /\ phase' = ph /\ age' = 0 /\ grip' = GripperFor(ph) /\ walk' \in Planned
        /\ servo' = [NoServo EXCEPT !.left = Servos(ph)] /\ openAfter' = openAfter
    BY <1>2 DEF BeginPhase
  <2>2. walk' \in Walks /\ walk'.at <= walk'.len
    BY <2>1, PlansAre
  <2>3. GripperFor(ph) \in Grips
    BY DEF GripperFor, Grips
  <2> QED BY <2>1, <2>2, <2>3, ServosTyped, TypesAre, LastAgeTyped DEF WayOK, Phases
<1> QED BY <1>1, <1>2

LEMMA KeepPhaseOK ==
  ASSUME TypeOK, KeepPhase, walk' \in Walks, walk'.at <= walk'.len, servo' \in Servoings
  PROVE  WayOK /\ phase' = phase
<1>1. GripperFor(phase) \in Grips
  BY DEF GripperFor, Grips
<1> QED BY <1>1, NowTyped, TypesAre DEF KeepPhase, Wait, WayOK

-----------------------------------------------------------------------------
(* Types of every step.                                                    *)

CountsOK ==
  /\ push' \in Pushes /\ PushLeft'
  /\ regrasps' \in 0..MaxRegrasps /\ reshakes' \in 0..MaxReshakes

\* What a tick leaves is well typed.
TickOK == WayOK /\ CountsOK /\ pin' \in Pins /\ PinAgeOK'

LEMMA Unpushed ==
  ASSUME PInv, UNCHANGED push, phase \in Carry \cup {"wait_for_state", "release"},
         phase' # "push"
  PROVE  push' \in Pushes /\ PushLeft'
  BY TypesAre DEF PInv, PushLeft

LEMMA FirstPush ==
  ASSUME PInv, phase \in Carry \cup {"wait_for_state", "release"}, EnterPush(push)
  PROVE  WayOK /\ push' \in Pushes /\ PushLeft'
<1>1. push \in Pushes /\ push.done = 0 /\ MaxPushes > 0
  BY TypesAre, ConstantsAre DEF PInv, PushLeft
<1> QED BY <1>1, EnterPushOK DEF PInv, PushLeft, Carry

LEMMA BeginTyped == PInv /\ Begin => TickOK
<1> SUFFICES ASSUME PInv, Begin PROVE TickOK
  OBVIOUS
<1> USE DEF PInv
<1>1. phase = "wait_for_state" /\ UNCHANGED <<regrasps, reshakes>> /\ LeftArm(pin)
  BY DEF Begin
<1>2. WayOK /\ push' \in Pushes /\ PushLeft'
  <2>1. CASE BeginPhase("pregrasp") /\ UNCHANGED push
    <3>1. WayOK /\ phase' \in {"pregrasp", "failed"}
      BY <2>1, BeginPhaseOK DEF Carry
    <3> QED BY <1>1, <2>1, <3>1, Unpushed
  <2>2. CASE EnterPush(push)
    BY <1>1, <2>2, FirstPush
  <2>3. CASE Fail /\ UNCHANGED push
    BY <1>1, <2>3, FailOK, Unpushed
  <2> QED BY <2>1, <2>2, <2>3 DEF Begin
<1> QED BY <1>1, <1>2, LeftArmTyped, PinsTyped, TypesAre DEF TickOK, CountsOK

LEMMA TransitionTyped ==
  ASSUME PInv, phase \in Carry, Transition
  PROVE  TickOK
<1> USE DEF PInv
<1>1. CASE BeginRelease
  <2>1. walk' \in ReleasePlans /\ openAfter' \in OpensAfter(walk')
    BY <1>1 DEF BeginRelease
  <2>3. walk' \in Walks /\ walk'.at <= walk'.len /\ openAfter' \in Nat
    BY <2>1, PeelsAre
  <2>4. NoServo \in Servoings
    BY ConstantsAre DEF NoServo, Servoings
  <2>5. WayOK
    BY <1>1, <2>3, <2>4, LastAgeTyped DEF BeginRelease, WayOK, Phases, Grips
  <2>6. pin' \in Pins /\ PinAgeOK'
    BY <1>1, PinsTyped, LeftArmTyped DEF BeginRelease
  <2>7. push' \in Pushes /\ PushLeft'
    BY <1>1, Unpushed DEF BeginRelease, counts
  <2> QED BY <1>1, <2>5, <2>6, <2>7, TypesAre DEF BeginRelease, counts, TickOK, CountsOK
<1>2. CASE phase # "place" /\ BeginPhase(After[phase]) /\ LeftArm(Cleared) /\ UNCHANGED counts
  <2>1. After[phase] \in Carry
    BY <1>2 DEF After, Carry
  <2>2. WayOK /\ phase' # "push"
    BY <1>2, <2>1, BeginPhaseOK DEF Carry
  <2> QED BY <1>2, <2>2, LeftArmTyped, PinsTyped, Unpushed, TypesAre
          DEF counts, TickOK, CountsOK
<1>3. CASE phase # "place" /\ ~Attached(After[phase]) /\ Regrasp /\ LeftArm(Cleared)
  <2>1. regrasps' \in 0..MaxRegrasps /\ reshakes' = reshakes
    <3>1. regrasps < MaxRegrasps /\ regrasps' = regrasps + 1
      BY <1>3 DEF Attached, Regrasp
    <3> QED BY <1>3, <3>1, TypesAre, ConstantsAre DEF Regrasp
  <2>2. WayOK /\ push' \in Pushes /\ PushLeft'
    <3>1. CASE EnterPush(push)
      BY <3>1, FirstPush
    <3>2. CASE BeginPhase("pregrasp") /\ UNCHANGED push
      <4>1. WayOK /\ phase' # "push"
        BY <3>2, BeginPhaseOK DEF Carry
      <4> QED BY <3>2, <4>1, Unpushed
    <3> QED BY <1>3, <3>1, <3>2 DEF Regrasp
  <2> QED BY <1>3, <2>1, <2>2, LeftArmTyped, PinsTyped, TypesAre DEF TickOK, CountsOK
<1> QED BY <1>1, <1>2, <1>3 DEF Transition

LEMMA CarryOn ==
  ASSUME PInv, phase \in Carry, KeepPhase, walk' \in Walks, walk'.at <= walk'.len,
         servo' \in Servoings
  PROVE  TickOK
<1> USE DEF PInv
<1>1. WayOK /\ phase' = phase /\ UNCHANGED counts /\ LeftArm(Cleared)
  BY KeepPhaseOK DEF KeepPhase
<1>2. phase' # "push"
  BY <1>1 DEF Carry
<1> QED BY <1>1, <1>2, LeftArmTyped, PinsTyped, Unpushed, TypesAre
        DEF counts, TickOK, CountsOK

LEMMA CarryingTyped == PInv /\ Carrying => TickOK
<1> SUFFICES ASSUME PInv, Carrying PROVE TickOK
  OBVIOUS
<1> USE DEF PInv
<1>1. phase \in Carry /\ walk \in Walks /\ walk.at <= walk.len /\ servo \in Servoings
  BY TypesAre DEF Carrying
<1>2. ASSUME NEW w \in Walks, w.at <= w.len, ServoOrTransition(w)
      PROVE  TickOK
  <2>1. CASE Transition
    BY <1>1, <2>1, TransitionTyped
  <2>2. CASE ~Transition
    <3>1. walk' = w /\ KeepPhase /\ servo.left > 0
      BY <1>2, <2>2 DEF ServoOrTransition
    <3>2. ASSUME servo.wait < SettleTimeout, servo' = [servo EXCEPT !.wait = @ + 1]
          PROVE  servo' \in Servoings
      <4>1. servo.wait + 1 \in 0..SettleTimeout
        BY <1>1, <3>2, ConstantsAre DEF Servoings
      <4> QED BY <1>1, <3>2, <4>1 DEF Servoings
    <3>3. ASSUME servo' = [left |-> servo.left - 1, sent |-> TRUE, wait |-> 0]
          PROVE  servo' \in Servoings
      <4>1. servo.left - 1 \in 0..ServoIters /\ 0 \in 0..SettleTimeout
        BY <1>1, <3>1, ConstantsAre DEF Servoings
      <4> QED BY <3>3, <4>1 DEF Servoings
    <3>4. servo' \in Servoings
      BY <1>2, <2>2, <3>2, <3>3 DEF ServoOrTransition
    <3> QED BY <1>1, <1>2, <3>1, <3>4, CarryOn
  <2> QED BY <2>1, <2>2
<1>3. CASE walk.at >= walk.len /\ ServoOrTransition(walk)
  BY <1>1, <1>2, <1>3
<1>4. CASE Fail /\ LeftArm(Cleared) /\ UNCHANGED counts
  BY <1>1, <1>4, FailOK, LeftArmTyped, PinsTyped, Unpushed, TypesAre
  DEF counts, TickOK, CountsOK
<1>5. CASE KeepPhase /\ UNCHANGED <<walk, servo>>
  BY <1>1, <1>5, CarryOn
<1>6. CASE walk.at < walk.len
  <2>1. Step(walk) \in Walks /\ Step(walk).at <= Step(walk).len
    BY <1>1, <1>6, WalksAre
  <2>2. CASE walk' = Step(walk) /\ KeepPhase /\ UNCHANGED servo
    BY <1>1, <2>1, <2>2, CarryOn
  <2>3. CASE ServoOrTransition(Step(walk))
    BY <1>2, <2>1, <2>3
  <2> QED BY <1>3, <1>4, <1>5, <2>2, <2>3 DEF Carrying
<1> QED BY <1>1, <1>3, <1>4, <1>5, <1>6 DEF Carrying

LEMMA StayOn ==
  ASSUME PInv, Wait, grip' \in Grips, UNCHANGED <<phase, walk, servo, openAfter, counts>>,
         NEW p \in Pins, p = "stuck" => pin = "stuck", LeftArm(p)
  PROVE  TickOK
<1> USE DEF PInv
<1>1. WayOK
  BY NowTyped, TypesAre DEF Wait, WayOK
<1>2. push' \in Pushes /\ PushLeft'
  BY TypesAre DEF counts, PushLeft
<1> QED BY <1>1, <1>2, LeftArmTyped, TypesAre DEF counts, TickOK, CountsOK

LEMMA ReleaseTyped == PInv /\ Release => TickOK
<1> SUFFICES ASSUME PInv, Release PROVE TickOK
  OBVIOUS
<1> USE DEF PInv
<1>1. /\ phase = "release" /\ LeftArm(pin) /\ walk \in Walks
      /\ pin' \in Pins /\ PinAgeOK'
  BY LeftArmTyped, PinsTyped, TypesAre DEF Release
<1>2. CASE ToVerify /\ UNCHANGED counts
  BY <1>1, <1>2, ToVerifyOK, Unpushed, TypesAre DEF counts, TickOK, CountsOK
<1>3. ASSUME Landed PROVE WayOK /\ push' \in Pushes /\ PushLeft'
  BY <1>1, <1>3, FirstPush, ToVerifyOK, Unpushed DEF Landed
<1>4. CASE ReleaseOver
  <2>1. regrasps' = regrasps /\ reshakes' \in 0..MaxReshakes
    BY <1>4, TypesAre, ConstantsAre DEF ReleaseOver
  <2>2. WayOK /\ push' \in Pushes /\ PushLeft'
    <3>1. CASE /\ walk' \in ReshakePlans /\ openAfter' = 0
               /\ age' = 0 /\ grip' = "open" /\ UNCHANGED <<phase, servo, push>>
      <4>1. walk' \in Walks /\ walk'.at <= walk'.len
        BY <3>1, PlansAre DEF ReshakePlans
      <4>2. WayOK
        BY <3>1, <4>1, TypesAre, LastAgeTyped DEF WayOK, Grips
      <4> QED BY <1>1, <3>1, <4>2, Unpushed
    <3> QED BY <1>3, <1>4, <3>1 DEF ReleaseOver
  <2> QED BY <1>1, <2>1, <2>2, TypesAre DEF TickOK, CountsOK
<1>5. CASE /\ walk' \in {walk, Step(walk)} /\ walk'.at < walk'.len /\ Wait
           /\ grip' = IF setup.mode = "press" /\ walk'.at < openAfter
                        THEN "closed" ELSE "open"
           /\ UNCHANGED <<phase, servo, openAfter, counts>>
  <2>1. walk' \in Walks /\ walk'.at <= walk'.len
    BY <1>1, <1>5, WalksAre
  <2>2. grip' \in Grips
    BY <1>5 DEF Grips
  <2>3. WayOK
    BY <1>5, <2>1, <2>2, NowTyped, TypesAre DEF Wait, WayOK
  <2> QED BY <1>1, <1>5, <2>3, Unpushed, TypesAre DEF counts, TickOK, CountsOK
<1>6. ASSUME walk' \in {walk, Step(walk)} PROVE walk'.len = walk.len
  BY <1>1, <1>6, WalksAre
<1> QED BY <1>2, <1>4, <1>5, <1>6 DEF Release

\* Where a stroke can be planned, a push is left; where one is, it is typed.
LEMMA PushOverOK ==
  ASSUME TypeOK, NEW q \in Pushes, PushOver(q)
  PROVE  WayOK /\ push' \in Pushes /\ PushLeft'
<1>1. CASE q.done < MaxPushes /\ EnterPush(q)
  BY <1>1, EnterPushOK DEF PushLeft, Carry
<1>2. CASE ToVerify /\ push' = q
  BY <1>2, ToVerifyOK DEF PushLeft, Carry
<1> QED BY <1>1, <1>2 DEF PushOver

LEMMA AdvanceOK ==
  ASSUME TypeOK, phase = "push", NEW w \in Walks, NEW q \in Pushes, q.planned,
         Advance(w, q)
  PROVE  WayOK /\ push' \in Pushes /\ PushLeft'
<1>1. CASE PushOver(q)
  BY <1>1, PushOverOK
<1>2. CASE /\ walk' \in {w, Step(w)} /\ walk'.at < w.len
           /\ push' = q /\ Wait /\ grip' \in {"open", "closed"}
           /\ UNCHANGED <<phase, servo, openAfter>>
  <2>1. walk' \in Walks /\ walk'.at <= walk'.len
    BY <1>2, WalksAre
  <2>2. WayOK
    BY <1>2, <2>1, NowTyped, TypesAre DEF Wait, WayOK, Grips
  <2> QED BY <1>2, <2>2 DEF PushLeft, Carry
<1> QED BY <1>1, <1>2 DEF Advance

LEMMA DriveStrokeOK ==
  ASSUME TypeOK, phase = "push", NEW w \in Walks, NEW q \in Pushes, q.planned,
         DriveStroke(w, q)
  PROVE  WayOK /\ push' \in Pushes /\ PushLeft'
<1> DEFINE next    == Step(w)
           skipped == [q EXCEPT !.dwells = @ + 1, !.stallAt = next.at, !.stallAge = 0]
           begun   == [q EXCEPT !.stallAt = w.at, !.stallAge = 0]
           ended   == [q EXCEPT !.stallAt = -1, !.stallAge = 0]
           going   == [q EXCEPT !.stallAge = StallNow]
<1>1. next \in Walks /\ next.at \in Nat /\ w.at \in Nat /\ StallNow \in Nat
  BY WalksAre, StallTyped
<1>2. \/ Advance(w, begun)
      \/ q.dwells < MaxDwells /\ (PushOver(skipped) \/ Advance(next, skipped))
      \/ PushOver(ended) \/ Advance(w, going)
  BY DEF DriveStroke
<1>3. begun \in Pushes /\ begun.planned /\ ended \in Pushes
      /\ going \in Pushes /\ going.planned
  BY <1>1 DEF Pushes
<1>4. ASSUME q.dwells < MaxDwells PROVE skipped \in Pushes /\ skipped.planned
  <2>1. q.dwells + 1 \in 0..MaxDwells
    BY <1>4, ConstantsAre DEF Pushes
  <2> QED BY <1>1, <2>1 DEF Pushes
<1> HIDE DEF next, skipped, begun, ended, going
<1> QED BY <1>1, <1>2, <1>3, <1>4, PushOverOK, AdvanceOK

LEMMA PushTyped == PInv /\ Push => TickOK
<1> SUFFICES ASSUME PInv, Push PROVE TickOK
  OBVIOUS
<1>1. WayOK /\ push' \in Pushes /\ PushLeft'
  BY DriveStrokeOK, TypesAre DEF Push, PInv
<1> QED BY <1>1, LeftArmTyped, PinsTyped, TypesAre DEF Push, PInv, TickOK, CountsOK

LEMMA SettleTyped == PInv /\ Settle => TickOK
<1> SUFFICES ASSUME PInv, Settle PROVE TickOK
  OBVIOUS
<1> USE DEF PInv
<1>1. WayOK
  BY NowTyped, TypesAre DEF Settle, Wait, WayOK, Grips
<1>2. push' \in Pushes /\ PushLeft'
  <2>1. push' = [push EXCEPT !.stallAge = StallNow] /\ push \in Pushes /\ StallNow \in Nat
    BY StallTyped, TypesAre DEF Settle
  <2>2. push' \in Pushes /\ push'.done = push.done
    BY <2>1 DEF Pushes
  <2> QED BY <2>2 DEF Settle, PushLeft, Carry
<1> QED BY <1>1, <1>2, LeftArmTyped, PinsTyped, TypesAre DEF Settle, TickOK, CountsOK

LEMMA PlanPushTyped == PInv /\ PlanPush => TickOK
<1> SUFFICES ASSUME PInv, PlanPush PROVE TickOK
  OBVIOUS
<1> USE DEF PInv
<1> DEFINE q == [push EXCEPT !.planned = TRUE, !.done = @ + 1, !.stallAge = StallNow]
<1>1. /\ phase = "push" /\ LeftArm(Cleared) /\ UNCHANGED <<scene, regrasps, reshakes>>
      /\ \/ \E w \in StrokePlans : DriveStroke(w, [q EXCEPT !.dwells = 0])
         \/ /\ walk' \in Planned /\ push' = q /\ Wait
            /\ grip' = "closed" /\ UNCHANGED <<phase, servo, openAfter>>
         \/ ToVerify /\ push' = q
  BY DEF PlanPush
<1>2. q \in Pushes /\ q.planned
      /\ [q EXCEPT !.dwells = 0] \in Pushes /\ [q EXCEPT !.dwells = 0].planned
  <2>1. push \in Pushes /\ push.done < MaxPushes /\ StallNow \in Nat
    BY StallTyped, TypesAre DEF PlanPush, PushLeft
  <2>2. push.done + 1 \in 0..MaxPushes /\ 0 \in 0..MaxDwells
    BY <2>1, ConstantsAre DEF Pushes
  <2> QED BY <2>1, <2>2 DEF Pushes
<1> DEFINE fresh == [q EXCEPT !.dwells = 0]
<1>3. fresh \in Pushes /\ fresh.planned
  BY <1>2
<1>4. ASSUME NEW w \in StrokePlans, DriveStroke(w, fresh)
      PROVE  WayOK /\ push' \in Pushes /\ PushLeft'
  <2> HIDE DEF fresh
  <2> QED BY <1>1, <1>3, <1>4, PlansAre, DriveStrokeOK
<1>5. CASE /\ walk' \in Planned /\ push' = q /\ Wait
           /\ grip' = "closed" /\ UNCHANGED <<phase, servo, openAfter>>
  <2> HIDE DEF q
  <2>1. walk' \in Walks /\ walk'.at <= walk'.len
    BY <1>5, PlansAre
  <2>2. WayOK
    BY <1>5, <2>1, NowTyped, TypesAre DEF Wait, WayOK, Grips
  <2>3. push' \in Pushes /\ PushLeft'
    BY <1>1, <1>2, <1>5 DEF PushLeft, Carry
  <2> QED BY <1>1, <2>2, <2>3, LeftArmTyped, PinsTyped, TypesAre DEF TickOK, CountsOK
<1>6. CASE ToVerify /\ push' = q
  <2> HIDE DEF q
  <2> QED BY <1>1, <1>2, <1>6, ToVerifyOK, LeftArmTyped, PinsTyped, TypesAre
          DEF PushLeft, Carry, TickOK, CountsOK
<1>7. CASE \E w \in StrokePlans : DriveStroke(w, fresh)
  BY <1>1, <1>4, <1>7, LeftArmTyped, PinsTyped, TypesAre DEF TickOK, CountsOK
<1> QED BY <1>1, <1>5, <1>6, <1>7

LEMMA EndTyped == PInv /\ (StepVerify \/ Over) => TickOK
<1> SUFFICES ASSUME PInv, StepVerify \/ Over PROVE TickOK
  OBVIOUS
<1> USE DEF PInv
<1>1. LeftArm(pin) /\ UNCHANGED counts
  BY DEF StepVerify, Over
<1>2. WayOK
  BY FailOK, NowTyped, TypesAre
  DEF StepVerify, Over, Wait, WayOK, Grips, Phases, Terminal
<1>3. phase' \in {"verify", "succeeded", "failed"}
  BY DEF StepVerify, Over, Fail, Terminal
<1>4. push' \in Pushes /\ PushLeft'
  BY <1>1, <1>3, TypesAre DEF counts, PushLeft, Carry
<1> QED BY <1>1, <1>2, <1>4, LeftArmTyped, PinsTyped, TypesAre DEF counts, TickOK, CountsOK

LEMMA TickTyped == PInv /\ Tick => TickOK /\ UNCHANGED scene
<1> SUFFICES ASSUME PInv, Tick PROVE TickOK /\ UNCHANGED scene
  OBVIOUS
<1>1. CASE CloseJaws \/ ReleaseDwelling
  <2>1. grip' \in Grips
    BY <1>1 DEF CloseJaws, ReleaseDwelling, Grips
  <2> QED BY <1>1, <2>1, StayOn, PinsTyped DEF CloseJaws, ReleaseDwelling, PInv
<1>2. UNCHANGED scene
  BY DEF Tick, Begin, CloseJaws, Carrying, ReleaseDwelling, Release, Settle, PlanPush,
         Push, StepVerify, Over
<1> QED
  BY <1>1, <1>2, BeginTyped, CarryingTyped, ReleaseTyped, SettleTyped, PlanPushTyped,
     PushTyped, EndTyped
  DEF Tick

LEMMA InitPInv == Init => PInv
<1> SUFFICES ASSUME Init PROVE PInv
  OBVIOUS
<1>1. NoWalk \in Walks /\ NoWalk.at <= NoWalk.len /\ NoServo \in Servoings
  BY ConstantsAre DEF NoWalk, Walks, NoServo, Servoings
<1>2. push \in Pushes /\ push.done = 0
  BY ConstantsAre DEF Init, Pushes
<1>3. TypeOK
  BY <1>1, <1>2, TypesAre, ConstantsAre, LastAgeTyped DEF Init, Phases, Pins, PinAgeOK, Grips
<1> QED BY <1>2, <1>3 DEF Init, PInv, PushLeft

LEMMA NextPInv == PInv /\ [Next]_vars => PInv'
<1> SUFFICES ASSUME PInv, [Next]_vars PROVE PInv'
  OBVIOUS
<1>1. CASE Tick
  BY <1>1, TickTyped, TypesAre
  DEF TickOK, WayOK, CountsOK, scene, PInv, TypeOK, Servoings, Pushes, PinAgeOK, Grips
<1>2. CASE Sheet
  BY <1>2 DEF Sheet, counts, PInv, TypeOK, PushLeft
<1>3. CASE UNCHANGED vars
  BY <1>3 DEF vars, PInv, TypeOK, PushLeft
<1> QED BY <1>1, <1>2, <1>3 DEF Next

(* No budget, dwell or time stamp of the policy runs over its limit, also  *)
(* where a phase is entered again from a later one.                        *)
THEOREM TypeCorrect == Spec => []TypeOK
<1>1. PInv => TypeOK
  BY DEF PInv
<1> QED BY <1>1, InitPInv, NextPInv, PTL DEF Spec

-----------------------------------------------------------------------------
(* Where a tick leads.                                                     *)

\* A phase begun afresh, with its gripper command.
Begun(ph) == phase' = ph /\ grip' = GripperFor(ph)

\* A push still to be planned, or none.
Unplanned == phase' = "push" => ~push'.planned

LEMMA BeginPhaseLeads ==
  ASSUME NEW ph \in Carry, BeginPhase(ph)
  PROVE  Begun(ph) \/ phase' = "failed"
  BY DEF BeginPhase, Begun, Fail

LEMMA EnterPushLeads == TypeOK /\ EnterPush(push) => phase' = "push" /\ ~push'.planned
  BY EnterPushOK, TypesAre

LEMMA BeginLeads ==
  ASSUME PInv, Begin
  PROVE  /\ phase' \in {"pregrasp", "push", "failed"} /\ Unplanned
  BY BeginPhaseLeads, EnterPushLeads
  DEF PInv, Begin, Begun, Carry, Unplanned, Fail

\* What a carrying phase leads to.
Carries ==
  \/ UNCHANGED <<phase, regrasps>> /\ grip' = GripperFor(phase)
  \/ /\ phase = "place" /\ phase' = "release" /\ UNCHANGED regrasps
     /\ walk' \in ReleasePlans /\ openAfter' \in OpensAfter(walk')
     /\ setup.mode = "press" /\ ReleaseDwell > 0 => grip' = "closed"
  \/ /\ phase # "place" /\ Attached(After[phase]) /\ Begun(After[phase])
     /\ UNCHANGED regrasps
  \/ phase' \in {"pregrasp", "push", "failed"}

LEMMA TransitionLeads ==
  ASSUME PInv, phase \in Carry, Transition
  PROVE  Carries /\ Unplanned
<1> USE DEF PInv, Unplanned
<1>1. CASE phase = "place" /\ BeginRelease
  BY <1>1 DEF BeginRelease, counts, Carries
<1>2. CASE phase # "place" /\ Attached(After[phase]) /\ BeginPhase(After[phase])
           /\ UNCHANGED counts
  <2>1. After[phase] \in Carry
    BY <1>2 DEF After, Carry
  <2> QED BY <1>2, <2>1, BeginPhaseLeads DEF counts, Carries, Begun, Carry
<1>3. CASE Regrasp
  <2>1. phase' \in {"pregrasp", "push", "failed"} /\ Unplanned
    BY <1>3, BeginPhaseLeads, EnterPushLeads DEF Regrasp, Begun, Carry
  <2> QED BY <2>1 DEF Carries
<1> QED BY <1>1, <1>2, <1>3 DEF Transition

LEMMA CarryingLeads ==
  ASSUME PInv, Carrying
  PROVE  Carries /\ Unplanned
<1>1. phase \in Carry
  BY DEF Carrying
<1>2. CASE Transition
  BY <1>1, <1>2, TransitionLeads
<1>3. CASE KeepPhase
  BY <1>1, <1>3 DEF KeepPhase, counts, Carries, Carry, Unplanned
<1>4. CASE Fail
  BY <1>4 DEF Fail, Carries, Unplanned
<1> QED BY <1>2, <1>3, <1>4 DEF Carrying, ServoOrTransition

LEMMA ReleaseLeads ==
  ASSUME PInv, Release
  PROVE  /\ Unplanned
         /\ \/ /\ phase' = phase /\ regrasps' = regrasps
               /\ \/ walk' \in Planned
                  \/ /\ openAfter' = openAfter /\ walk' \in {walk, Step(walk)}
                     /\ grip' = IF setup.mode = "press" /\ walk'.at < openAfter
                                  THEN "closed" ELSE "open"
            \/ phase' \in {"push", "verify"}
<1>1. phase = "release"
  BY DEF Release
<1>2. CASE ToVerify
  BY <1>2 DEF ToVerify, Unplanned
<1>3. ASSUME Landed PROVE Unplanned /\ phase' \in {"push", "verify"}
  BY <1>3, EnterPushLeads DEF Landed, ToVerify, Unplanned, PInv
<1>4. CASE ReleaseOver
  BY <1>1, <1>3, <1>4 DEF ReleaseOver, ReshakePlans, Unplanned
<1>5. CASE /\ UNCHANGED <<phase, servo, openAfter, counts>> /\ walk' \in {walk, Step(walk)}
           /\ grip' = IF setup.mode = "press" /\ walk'.at < openAfter
                        THEN "closed" ELSE "open"
  BY <1>1, <1>5 DEF counts, Unplanned
<1> QED BY <1>2, <1>4, <1>5 DEF Release

\* A push leads to a push or to the verification.
LEMMA PushLeads ==
  ASSUME Settle \/ PlanPush \/ Push
  PROVE  phase' \in {"push", "verify"}
<1>1. phase = "push"
  BY DEF Settle, PlanPush, Push
<1>2. ASSUME NEW q, PushOver(q) PROVE phase' \in {"push", "verify"}
  BY <1>2 DEF PushOver, EnterPush, ToVerify
<1>3. ASSUME NEW w, NEW q, Advance(w, q) PROVE phase' \in {"push", "verify"}
  BY <1>1, <1>2, <1>3 DEF Advance
<1>4. ASSUME NEW w, NEW q, DriveStroke(w, q) PROVE phase' \in {"push", "verify"}
  BY <1>2, <1>3, <1>4 DEF DriveStroke
<1>5. CASE Settle
  BY <1>1, <1>5 DEF Settle
<1>6. CASE PlanPush
  BY <1>1, <1>4, <1>6 DEF PlanPush, ToVerify
<1>7. CASE Push
  BY <1>4, <1>7 DEF Push
<1> QED BY <1>5, <1>6, <1>7

LEMMA EndLeads ==
  ASSUME StepVerify \/ Over
  PROVE  phase' \in {"verify", "succeeded", "failed"}
  BY DEF StepVerify, Over, Fail, Terminal

-----------------------------------------------------------------------------
(* The left arm under a stroke.                                            *)

\* The left arm is tucked, or its lift has had all of its time.
Away == pin \in {"idle", "done"} \/ (pin = "stuck" /\ pinAge > PinTimeout)

LEMMA NextClear == PInv /\ StrokeWaitsForLift /\ [Next]_vars => StrokeWaitsForLift'
<1> SUFFICES ASSUME PInv, StrokeWaitsForLift, [Next]_vars PROVE StrokeWaitsForLift'
  OBVIOUS
<1>1. CASE Unplanned
  BY <1>1 DEF Unplanned, StrokeWaitsForLift
<1>2. ASSUME Away, LeftArm(pin) PROVE Away'
  BY <1>2 DEF LeftArm, PinMoves, Away
<1>3. CASE PlanPush
  <2>1. phase = "push" /\ Cleared # "lift" /\ LeftArm(Cleared)
    BY <1>3 DEF PlanPush, Settling
  <2>2. Away /\ Cleared = pin
    BY <2>1, TypesAre DEF Cleared, PInv, Pins, PinAgeOK, Away
  <2> QED BY <1>2, <2>1, <2>2 DEF StrokeWaitsForLift, Away
<1>4. CASE Push
  <2>1. phase = "push" /\ Away /\ LeftArm(Cleared)
    BY <1>4 DEF Push, StrokeWaitsForLift, Away
  <2>2. Cleared = pin
    BY <2>1 DEF Cleared, Away
  <2> QED BY <1>2, <2>1, <2>2 DEF StrokeWaitsForLift, Away
<1>5. CASE Settle
  <2>1. push' = [push EXCEPT !.stallAge = StallNow] /\ push \in Pushes /\ ~push.planned
    BY <1>5, TypesAre DEF Settle, PInv
  <2>2. ~push'.planned
    BY <2>1 DEF Pushes
  <2> QED BY <2>2 DEF StrokeWaitsForLift
<1>6. CASE Begin \/ Carrying \/ Release
  BY <1>1, <1>6, BeginLeads, CarryingLeads, ReleaseLeads
<1>7. CASE CloseJaws \/ ReleaseDwelling
  BY <1>7 DEF CloseJaws, ReleaseDwelling, StrokeWaitsForLift
<1>8. CASE StepVerify \/ Over
  BY <1>8, EndLeads DEF StrokeWaitsForLift
<1>9. CASE Sheet \/ UNCHANGED vars
  BY <1>9 DEF Sheet, vars, counts, StrokeWaitsForLift
<1> QED BY <1>3, <1>4, <1>5, <1>6, <1>7, <1>8, <1>9 DEF Next, Tick

(* Whatever the left arm does, a stroke waits for its lift to be over, or  *)
(* to have had all of its time.                                            *)
THEOREM StrokesWait == Spec => []StrokeWaitsForLift
<1>1. Init => StrokeWaitsForLift
  BY DEF Init, StrokeWaitsForLift
<1> QED BY <1>1, NextClear, InitPInv, NextPInv, PTL DEF Spec

-----------------------------------------------------------------------------
(* What is carried.                                                        *)

LEMMA NextChecked == PInv /\ CarryIsChecked /\ [Next]_vars => CarryIsChecked'
<1> SUFFICES ASSUME PInv, CarryIsChecked, [Next]_vars PROVE CarryIsChecked'
  OBVIOUS
<1>1. CASE phase' \notin {"place", "release"}
  BY <1>1 DEF CarryIsChecked
<1>2. CASE UNCHANGED <<phase, regrasps, scene>>
  BY <1>2 DEF CarryIsChecked, scene
<1>3. CASE Begin \/ StepVerify \/ Over \/ Settle \/ PlanPush \/ Push
  BY <1>1, <1>3, BeginLeads, EndLeads, PushLeads
<1>4. CASE CloseJaws \/ ReleaseDwelling
  BY <1>2, <1>4 DEF CloseJaws, ReleaseDwelling, counts
<1>5. CASE Carrying
  <2>1. UNCHANGED scene /\ phase \in Carry
    BY <1>5 DEF Carrying
  <2>2. CASE phase = "place" /\ phase' = "release" /\ UNCHANGED regrasps
    BY <2>1, <2>2 DEF CarryIsChecked, scene
  <2>3. CASE /\ phase # "place" /\ Attached(After[phase]) /\ Begun(After[phase])
             /\ UNCHANGED regrasps
    <3>1. CASE phase = "preplace"
      BY <2>1, <2>3, <3>1, TypesAre
      DEF After, Attached, CarryIsChecked, scene, PInv
    <3>2. CASE phase # "preplace"
      BY <1>1, <2>1, <2>3, <3>2 DEF After, Begun, Carry
    <3> QED BY <3>1, <3>2
  <2> QED BY <1>1, <1>2, <1>5, <2>1, <2>2, <2>3, CarryingLeads DEF Carries
<1>6. CASE Release
  BY <1>1, <1>2, <1>6, ReleaseLeads DEF Release
<1>7. CASE Sheet
  BY <1>7 DEF Sheet, counts, CarryIsChecked
<1>8. CASE UNCHANGED vars
  BY <1>2, <1>8 DEF vars, scene
<1> QED BY <1>3, <1>4, <1>5, <1>6, <1>7, <1>8 DEF Next, Tick

(* With the feed and a regrasp left, nothing but a fall in PLACE or        *)
(* RELEASE itself leaves the policy laying a sheet it does not hold.       *)
THEOREM CarriesAreChecked == Spec => []CarryIsChecked
<1>1. Init => CarryIsChecked
  BY DEF Init, CarryIsChecked
<1> QED BY <1>1, NextChecked, InitPInv, NextPInv, PTL DEF Spec

\* In press mode the jaws open with the rise, or there is nothing to open them for.
OpensLate ==
  (phase = "release" /\ setup.mode = "press" /\ walk.peel > 0)
    => openAfter = walk.peel \/ (openAfter = 0 /\ ~setup.dump)

JawsInv == JawsKeepTheSheet /\ OpensLate

LEMMA NextJaws ==
  ReleaseDwell > 0 /\ PInv /\ JawsInv /\ [Next]_vars => JawsInv'
<1> SUFFICES ASSUME ReleaseDwell > 0, PInv, JawsInv, [Next]_vars
             PROVE  JawsInv'
  OBVIOUS
<1> USE DEF JawsInv
<1>1. CASE phase' \notin {"lift", "preplace", "place", "release"}
  BY <1>1 DEF JawsKeepTheSheet, OpensLate
<1>2. CASE Begin \/ StepVerify \/ Over \/ Settle \/ PlanPush \/ Push
  BY <1>1, <1>2, BeginLeads, EndLeads, PushLeads
<1>3. CASE CloseJaws \/ ReleaseDwelling
  BY <1>3 DEF CloseJaws, ReleaseDwelling, scene, JawsKeepTheSheet, OpensLate
<1>4. CASE Carrying
  <2>1. phase \in Carry /\ UNCHANGED scene
    BY <1>4 DEF Carrying
  <2>2. CASE UNCHANGED phase /\ grip' = GripperFor(phase)
    BY <2>1, <2>2 DEF GripperFor, JawsKeepTheSheet, OpensLate, Carry
  <2>3. CASE /\ phase' = "release" /\ walk' \in ReleasePlans /\ openAfter' \in OpensAfter(walk')
             /\ setup.mode = "press" /\ ReleaseDwell > 0 => grip' = "closed"
    <3>1. /\ openAfter' \in {0, walk'.peel}
          /\ setup.mode = "press" /\ setup.dump => openAfter' = walk'.peel
      BY <2>3, PeelsAre
    <3> QED BY <2>1, <2>3, <3>1 DEF scene, JawsKeepTheSheet, OpensLate
  <2>4. CASE phase # "place" /\ Begun(After[phase])
    BY <2>1, <2>4 DEF Begun, After, GripperFor, JawsKeepTheSheet, OpensLate, Carry
  <2> QED BY <1>1, <1>4, <2>2, <2>3, <2>4, CarryingLeads DEF Carries
<1>5. CASE Release
  <2>1. phase = "release" /\ UNCHANGED scene
    BY <1>5 DEF Release
  <2>2. CASE walk' \in Planned /\ phase' = phase
    <3>1. walk'.at = 0 /\ walk'.peel = 0
      BY <2>2, PlansAre
    <3> QED BY <2>1, <2>2, <3>1 DEF JawsKeepTheSheet, OpensLate
  <2>3. CASE /\ openAfter' = openAfter /\ phase' = phase /\ walk' \in {walk, Step(walk)}
             /\ grip' = IF setup.mode = "press" /\ walk'.at < openAfter
                          THEN "closed" ELSE "open"
    <3>1. walk'.peel = walk.peel /\ walk'.at \in Nat /\ walk.peel \in Nat
      <4>1. walk \in Walks
        BY TypesAre DEF PInv
      <4> QED BY <2>3, <4>1, WalksAre DEF Walks
    <3> QED BY <2>1, <2>3, <3>1 DEF JawsKeepTheSheet, OpensLate, scene
  <2> QED BY <1>1, <1>5, <2>2, <2>3, ReleaseLeads
<1>6. CASE Sheet \/ UNCHANGED vars
  BY <1>6 DEF Sheet, vars, JawsKeepTheSheet, OpensLate
<1> QED BY <1>2, <1>3, <1>4, <1>5, <1>6 DEF Next, Tick

(* With a release dwell at all, as every shipped configuration has one,    *)
(* the jaws do not open in transport, and not before the rise of a release *)
(* that opens them for a dump, a shake or a tilt, whatever solves.         *)
THEOREM JawsStayClosed == ReleaseDwell > 0 => (Spec => []JawsKeepTheSheet)
<1>1. Init => JawsInv
  BY DEF Init, JawsInv, JawsKeepTheSheet, OpensLate
<1>2. JawsInv => JawsKeepTheSheet
  BY DEF JawsInv
<1>3. CASE ReleaseDwell > 0
  <2>1. PInv /\ JawsInv /\ [Next]_vars => JawsInv'
    BY <1>3, NextJaws
  <2> QED BY <1>1, <1>2, <2>1, InitPInv, NextPInv, PTL DEF Spec
<1> QED BY <1>3

-----------------------------------------------------------------------------
(* Pushes that are counted.                                                *)

\* A stroke has time for its first tick: the settle and the stall guard fit the
\* timeout, and a stroke is a way to the hover, a descent, a drag, a rise and a
\* tuck, none of them empty.
StrokeFits ==
  /\ 1 <= ReleaseTimeout /\ PushSettle <= ReleaseTimeout
  /\ StallDwell <= StallLimit /\ MaxDwells > 0
  /\ \A n \in StrokeLens : n >= 3

\* And so does the left arm: three ticks, for the command to lift, for the end of
\* the lift to be seen, and for the stroke.
LiftInTime == setup.pin => PinTimeout + 3 <= ReleaseTimeout

\* How long a stroke that is still to be planned has waited.
PlannedInTime ==
  /\ ~setup.pin => pin = "idle"
  /\ (phase = "push" /\ ~push.planned) =>
       /\ pin \in {"descend", "hold"} => age = 0
       /\ pin = "lift" => age <= pinAge + 1
       /\ pin \in {"idle", "done", "stuck"} =>
            age = 0 \/ age < PushSettle \/ (setup.pin /\ age <= PinTimeout + 2)

\* A push is entered with a new clock.
NewClock == (phase' = "push" /\ ~push'.planned) => age' = 0

LEMMA NowIsNext == TypeOK => Now \in Nat /\ age \in Nat /\ Now <= age + 1
<1> SUFFICES ASSUME TypeOK PROVE Now \in Nat /\ age \in Nat /\ Now <= age + 1
  OBVIOUS
<1>1. age \in Nat /\ Now \in Nat
  BY LastAgeTyped, NowTyped DEF TypeOK
<1> QED BY <1>1 DEF Now, Up

LEMMA PushOverClock ==
  ASSUME NEW q, PushOver(q)
  PROVE  NewClock
  BY DEF PushOver, EnterPush, ToVerify, NewClock

LEMMA AdvanceClock ==
  ASSUME NEW w, NEW q, q.planned, Advance(w, q)
  PROVE  NewClock
<1>1. CASE PushOver(q)
  BY <1>1, PushOverClock
<1>2. CASE push' = q
  BY <1>2 DEF NewClock
<1> QED BY <1>1, <1>2 DEF Advance

LEMMA DriveClock ==
  ASSUME NEW w, NEW q \in Pushes, q.planned, DriveStroke(w, q)
  PROVE  NewClock
<1> DEFINE skipped == [q EXCEPT !.dwells = @ + 1, !.stallAt = Step(w).at, !.stallAge = 0]
           begun   == [q EXCEPT !.stallAt = w.at, !.stallAge = 0]
           ended   == [q EXCEPT !.stallAt = -1, !.stallAge = 0]
           going   == [q EXCEPT !.stallAge = StallNow]
<1>1. \/ Advance(w, begun) \/ PushOver(skipped) \/ Advance(Step(w), skipped)
      \/ PushOver(ended) \/ Advance(w, going)
  BY DEF DriveStroke
<1>2. begun.planned /\ skipped.planned /\ going.planned
  BY DEF Pushes
<1> HIDE DEF skipped, begun, ended, going
<1> QED BY <1>1, <1>2, PushOverClock, AdvanceClock

\* What PLAN makes of the push state.
Counted == [push EXCEPT !.planned = TRUE, !.done = @ + 1, !.stallAge = StallNow]

LEMMA CountedIs ==
  ASSUME PInv, phase = "push", ~push.planned
  PROVE  /\ Counted \in Pushes /\ Counted.planned
         /\ [Counted EXCEPT !.dwells = 0] \in Pushes
         /\ [Counted EXCEPT !.dwells = 0].planned
         /\ [Counted EXCEPT !.dwells = 0].dwells = 0
         /\ [Counted EXCEPT !.dwells = 0].stallAge = StallNow
<1>1. push \in Pushes /\ push.done < MaxPushes /\ StallNow \in Nat
  BY StallTyped, TypesAre DEF PInv, PushLeft
<1>2. push.done + 1 \in 0..MaxPushes /\ 0 \in 0..MaxDwells
  BY <1>1, ConstantsAre DEF Pushes
<1> QED BY <1>1, <1>2 DEF Pushes, Counted

LEMMA PlanPushClock == PInv /\ PlanPush => NewClock
<1> SUFFICES ASSUME PInv, PlanPush PROVE NewClock
  OBVIOUS
<1>1. /\ phase = "push" /\ ~push.planned
      /\ \/ \E w \in StrokePlans : DriveStroke(w, [Counted EXCEPT !.dwells = 0])
         \/ push' = Counted
  BY DEF PlanPush, Counted
<1>2. CASE push' = Counted
  BY <1>1, <1>2, CountedIs DEF NewClock
<1> DEFINE fresh == [Counted EXCEPT !.dwells = 0]
<1>3. fresh \in Pushes /\ fresh.planned
  BY <1>1, CountedIs
<1>4. CASE \E w \in StrokePlans : DriveStroke(w, fresh)
  <2> HIDE DEF fresh
  <2> QED BY <1>3, <1>4, DriveClock
<1> QED BY <1>1, <1>2, <1>4

LEMMA PushClock == PInv /\ Push => NewClock
<1> SUFFICES ASSUME PInv, Push PROVE NewClock
  OBVIOUS
<1>1. push \in Pushes /\ push.planned /\ DriveStroke(walk, push)
  BY TypesAre DEF Push, PInv
<1> QED BY <1>1, DriveClock

LEMMA TransitionClock ==
  ASSUME phase \in Carry, Transition
  PROVE  NewClock
<1>1. CASE EnterPush(push)
  BY <1>1 DEF EnterPush, NewClock
<1>2. ASSUME NEW ph \in Carry, BeginPhase(ph) PROVE NewClock
  BY <1>2 DEF BeginPhase, Fail, NewClock, Carry
<1>3. CASE BeginRelease
  BY <1>3 DEF BeginRelease, NewClock
<1>4. phase # "place" => After[phase] \in Carry
  BY DEF After, Carry
<1> QED BY <1>1, <1>2, <1>3, <1>4 DEF Transition, Regrasp, Carry

LEMMA OtherClock ==
  ASSUME Begin \/ CloseJaws \/ Carrying \/ ReleaseDwelling \/ Release \/ StepVerify \/ Over
  PROVE  NewClock
<1>1. CASE EnterPush(push)
  BY <1>1 DEF EnterPush, NewClock
<1>2. CASE Begin
  BY <1>1, <1>2 DEF Begin, BeginPhase, Fail, NewClock
<1>3. CASE Carrying
  <2>1. CASE Transition
    BY <1>3, <2>1, TransitionClock DEF Carrying
  <2>2. CASE KeepPhase
    BY <1>3, <2>2 DEF Carrying, KeepPhase, NewClock, Carry
  <2>3. CASE Fail
    BY <2>3 DEF Fail, NewClock
  <2> QED BY <1>3, <2>1, <2>2, <2>3 DEF Carrying, ServoOrTransition
<1>4. CASE Release
  <2>1. CASE phase' \in {"release", "verify"}
    BY <2>1 DEF NewClock
  <2>2. CASE Landed
    BY <1>1, <2>1, <2>2 DEF Landed, ToVerify
  <2> QED BY <1>4, <2>1, <2>2 DEF Release, ReleaseOver, ToVerify
<1>5. CASE CloseJaws \/ ReleaseDwelling \/ StepVerify \/ Over
  BY <1>5 DEF CloseJaws, ReleaseDwelling, StepVerify, Over, Fail, Terminal, NewClock
<1> QED BY <1>2, <1>3, <1>4, <1>5

\* Only the plan of the pin makes an idle left arm move.
LEMMA IdleStays ==
  ASSUME PInv, Tick, ~setup.pin, pin = "idle"
  PROVE  pin' = "idle"
<1>1. Cleared = "idle" /\ PlannedPins = {"idle"}
  BY DEF Cleared, PlannedPins
<1>2. LeftArm("idle")
  <2>1. LeftArm(pin) \/ LeftArm(Cleared) \/ \E p \in PlannedPins : LeftArm(p)
    BY DEF Tick, Begin, CloseJaws, Carrying, ServoOrTransition, Transition, BeginRelease,
           KeepPhase, ReleaseDwelling, Release, Settle, PlanPush, Push, StepVerify, Over
  <2> QED BY <1>1, <2>1
<1> QED BY <1>2 DEF LeftArm, PinMoves

\* A tick of the settle renews the wait, whatever the left arm does.
LEMMA SettleWaits ==
  ASSUME PInv, PlannedInTime, Settle
  PROVE  PlannedInTime'
<1> USE DEF PInv
<1>1. /\ phase = "push" /\ ~push.planned /\ Settling /\ age' = Now /\ LeftArm(Cleared)
      /\ setup' = setup
  BY DEF Settle, Wait, scene
<1>2. /\ age \in Nat /\ Now \in Nat /\ Now <= age + 1 /\ pin \in Pins /\ pinAge \in Nat
      /\ (pin = "lift" => pinAge <= PinTimeout) /\ PinTimeout \in Nat /\ PushSettle \in Nat
  BY NowIsNext, TypesAre, ConstantsAre DEF PinAgeOK
<1>3. ~setup.pin => pin' = "idle"
  BY <1>1, IdleStays DEF Tick, PlannedInTime
<1>4. CASE pin \in {"idle", "done", "stuck"}
  <2>1. Cleared = pin /\ pin' = pin /\ Now < PushSettle
    BY <1>1, <1>4, LeftArmTyped, PinsTyped DEF Cleared, Settling, PinMoves
  <2> QED BY <1>1, <1>3, <1>4, <2>1 DEF PlannedInTime
<1>5. CASE pin \in {"descend", "hold"}
  <2>1. Cleared = "lift" /\ age = 0
    BY <1>1, <1>5 DEF Cleared, PlannedInTime
  <2>2. pin' = "lift" /\ pinAge' = 0
    BY <1>1, <1>2, <1>5, <2>1 DEF LeftArm, PinMoves
  <2> QED BY <1>1, <1>2, <1>3, <2>1, <2>2 DEF PlannedInTime
<1>6. CASE pin = "lift"
  <2>1. Cleared = "lift" /\ age <= pinAge + 1 /\ setup.pin
    BY <1>1, <1>6 DEF Cleared, PlannedInTime
  <2>2. \/ pin' = "lift" /\ pinAge' = pinAge + 1
        \/ pin' \in {"done", "stuck"}
    BY <1>1, <1>6, <2>1 DEF LeftArm, PinNext, PinForced, PinMoves
  <2>3. Now <= pinAge + 2 /\ Now <= PinTimeout + 2
    BY <1>2, <1>6, <2>1
  <2>4. CASE pin' = "lift" /\ pinAge' = pinAge + 1
    <3>1. age' <= pinAge' + 1
      BY <1>1, <1>2, <2>3, <2>4
    <3> QED BY <1>1, <1>3, <2>4, <3>1 DEF PlannedInTime
  <2>5. CASE pin' \in {"done", "stuck"}
    BY <1>1, <1>3, <2>1, <2>3, <2>5 DEF PlannedInTime
  <2> QED BY <2>2, <2>4, <2>5
<1> QED BY <1>2, <1>4, <1>5, <1>6 DEF Pins

LEMMA NextInTime == PInv /\ PlannedInTime /\ [Next]_vars => PlannedInTime'
<1> SUFFICES ASSUME PInv, PlannedInTime, [Next]_vars PROVE PlannedInTime'
  OBVIOUS
<1>1. CASE Settle
  BY <1>1, SettleWaits
<1>2. CASE Tick /\ ~Settle
  <2>1. NewClock
    BY <1>2, PlanPushClock, PushClock, OtherClock DEF Tick
  <2>2. ~setup'.pin => pin' = "idle"
    BY <1>2, TickTyped, IdleStays DEF PlannedInTime, scene
  <2>3. TypeOK'
    BY NextPInv DEF PInv
  <2>4. pinAge' \in Nat
    BY <2>3, ConstantsAre DEF TypeOK
  <2> QED BY <2>1, <2>2, <2>4 DEF NewClock, PlannedInTime
<1>3. CASE Sheet \/ UNCHANGED vars
  BY <1>3 DEF Sheet, vars, counts, PlannedInTime
<1> QED BY <1>1, <1>2, <1>3 DEF Next

\* The stroke that is planned in time is driven in the same tick.
LEMMA StrokeDriven ==
  ASSUME TypeOK, StrokeFits, Now <= ReleaseTimeout, NEW w \in StrokePlans,
         NEW q \in Pushes, q.planned, q.dwells = 0, DriveStroke(w, q)
  PROVE  push'.planned
<1>1. w \in Walks /\ w.at = 0 /\ w.len \in Nat /\ w.len >= 3
  <2>1. w.len \in StrokeLens
    BY DEF StrokePlans
  <2> QED BY <2>1, PlansAre DEF StrokeFits
<1>2. Step(w) \in Walks /\ Step(w).at = 1 /\ Step(w).len = w.len
      /\ Step(Step(w)).at = 2 /\ Step(Step(w)).len = w.len
  <2>1. Step(w) \in Walks /\ Step(w).at = w.at + 1 /\ Step(w).len = w.len
    BY <1>1, WalksAre
  <2>2. Step(Step(w)).at = Step(w).at + 1 /\ Step(Step(w)).len = Step(w).len
    BY <2>1, WalksAre
  <2> QED BY <1>1, <2>1, <2>2
<1>3. Now \in Nat /\ ReleaseTimeout \in Nat /\ StallNow \in Nat
      /\ StallDwell \in Nat /\ StallLimit \in Nat /\ MaxDwells \in Nat
  BY NowIsNext, StallTyped, ConstantsAre
<1>4. ASSUME NEW v \in {w, Step(w)}, NEW r, r.planned, Advance(v, r)
      PROVE  push'.planned
  <2>1. ~(Now > ReleaseTimeout) /\ ~(Step(v).at >= v.len)
    BY <1>1, <1>2, <1>3, <1>4
  <2>2. push' = r
    BY <1>4, <2>1 DEF Advance
  <2> QED BY <1>4, <2>2
<1> DEFINE skipped == [q EXCEPT !.dwells = @ + 1, !.stallAt = Step(w).at, !.stallAge = 0]
           begun   == [q EXCEPT !.stallAt = w.at, !.stallAge = 0]
           going   == [q EXCEPT !.stallAge = StallNow]
<1>5. q.dwells < MaxDwells
  BY DEF StrokeFits
<1>6. StallNow > StallLimit => StallNow > StallDwell
  BY <1>3 DEF StrokeFits
<1>7. ~(Step(w).at >= w.len)
  BY <1>1, <1>2
<1>8. Advance(w, begun) \/ Advance(Step(w), skipped) \/ Advance(w, going)
  BY <1>5, <1>6, <1>7 DEF DriveStroke
<1>9. begun.planned /\ skipped.planned /\ going.planned
  BY DEF Pushes
<1> HIDE DEF skipped, begun, going
<1> QED BY <1>4, <1>8, <1>9

LEMMA PlannedDrives ==
  ASSUME PInv, PlannedInTime, LiftInTime, StrokeFits, PlanPush
  PROVE  push'.planned \/ phase' = "verify"
<1> USE DEF PInv
<1>1. /\ phase = "push" /\ ~push.planned /\ ~Settling
      /\ \/ \E w \in StrokePlans : DriveStroke(w, [Counted EXCEPT !.dwells = 0])
         \/ push' = Counted
  BY DEF PlanPush, Counted
<1>2. Now <= ReleaseTimeout
  <2>1. pin \in {"idle", "done", "stuck"}
    BY <1>1, TypesAre DEF Settling, Cleared, Pins
  <2>2. age = 0 \/ age < PushSettle \/ (setup.pin /\ age <= PinTimeout + 2)
    BY <1>1, <2>1 DEF PlannedInTime
  <2>3. /\ age \in Nat /\ Now \in Nat /\ Now <= age + 1
        /\ PushSettle \in Nat /\ ReleaseTimeout \in Nat /\ PinTimeout \in Nat
        /\ 1 <= ReleaseTimeout /\ PushSettle <= ReleaseTimeout
        /\ setup.pin => PinTimeout + 3 <= ReleaseTimeout
    BY NowIsNext, ConstantsAre DEF StrokeFits, LiftInTime
  <2> QED BY <2>2, <2>3
<1>3. CASE push' = Counted
  BY <1>1, <1>3, CountedIs
<1> DEFINE fresh == [Counted EXCEPT !.dwells = 0]
<1>4. fresh \in Pushes /\ fresh.planned /\ fresh.dwells = 0
  BY <1>1, CountedIs
<1>5. CASE \E w \in StrokePlans : DriveStroke(w, fresh)
  <2> HIDE DEF fresh
  <2> QED BY <1>2, <1>4, <1>5, StrokeDriven
<1> QED BY <1>1, <1>3, <1>5

\* Nothing but PLAN counts a push.
LEMMA OnlyPlanCounts ==
  ASSUME PInv, [Next]_vars, ~PlanPush
  PROVE  push'.done = push.done
<1> USE DEF PInv
<1>1. ASSUME NEW q \in Pushes, PushOver(q) PROVE push'.done = q.done
  BY <1>1, EnterPushOK DEF PushOver
<1>2. ASSUME NEW w, NEW q \in Pushes, Advance(w, q) PROVE push'.done = q.done
  BY <1>1, <1>2 DEF Advance
<1>3. push \in Pushes
  BY TypesAre
<1>4. EnterPush(push) => push'.done = push.done
  BY <1>3, EnterPushOK
<1>5. CASE Push
  <2> DEFINE skipped == [push EXCEPT !.dwells = @ + 1, !.stallAt = Step(walk).at,
                                     !.stallAge = 0]
             begun   == [push EXCEPT !.stallAt = walk.at, !.stallAge = 0]
             ended   == [push EXCEPT !.stallAt = -1, !.stallAge = 0]
             going   == [push EXCEPT !.stallAge = StallNow]
  <2>1. \/ Advance(walk, begun) \/ PushOver(ended) \/ Advance(walk, going)
        \/ push.dwells < MaxDwells /\ (PushOver(skipped) \/ Advance(Step(walk), skipped))
    BY <1>5 DEF Push, DriveStroke
  <2>2. walk.at \in Nat /\ Step(walk).at \in Nat /\ StallNow \in Nat
    BY TypesAre, WalksAre, StallTyped
  <2>3. begun \in Pushes /\ ended \in Pushes /\ going \in Pushes
        /\ begun.done = push.done /\ ended.done = push.done /\ going.done = push.done
    BY <1>3, <2>2 DEF Pushes
  <2>4. ASSUME push.dwells < MaxDwells PROVE skipped \in Pushes /\ skipped.done = push.done
    <3>1. push.dwells + 1 \in 0..MaxDwells
      BY <1>3, <2>4, ConstantsAre DEF Pushes
    <3> QED BY <1>3, <2>2, <3>1 DEF Pushes
  <2> HIDE DEF skipped, begun, ended, going
  <2> QED BY <1>1, <1>2, <2>1, <2>3, <2>4
<1>6. CASE Settle
  BY <1>3, <1>6 DEF Settle, Pushes
<1>7. CASE Begin \/ Carrying \/ Release
  <2>1. UNCHANGED push \/ EnterPush(push)
    BY <1>7
    DEF Begin, Carrying, ServoOrTransition, Transition, BeginRelease, Regrasp, KeepPhase,
        Release, ReleaseOver, Landed, counts
  <2> QED BY <1>4, <2>1
<1>8. CASE CloseJaws \/ ReleaseDwelling \/ StepVerify \/ Over \/ Sheet \/ UNCHANGED vars
  BY <1>8 DEF CloseJaws, ReleaseDwelling, StepVerify, Over, Sheet, vars, counts
<1> QED BY <1>5, <1>6, <1>7, <1>8 DEF Next, Tick

(* Whatever the left arm, the stalls and the retries before it: when the   *)
(* release timeout has room for the settle and for a pin that lifts as     *)
(* slowly as its own timeout allows, no push is counted but the last       *)
(* without being driven.                                                   *)
THEOREM CountedPushesAreDriven ==
  StrokeFits => (Spec /\ LiftInTime => CountedPushIsDriven)
<1>1. Init => PlannedInTime
  BY DEF Init, PlannedInTime
<1>2. PInv /\ LiftInTime /\ [Next]_vars => LiftInTime'
  BY TickTyped DEF LiftInTime, Next, Sheet, vars, scene
<1>3. CASE StrokeFits
  <2>1. PInv /\ PlannedInTime /\ LiftInTime /\ [Next]_vars
          => [push'.done > push.done => (push'.planned \/ phase' = "verify")]_vars
    <3> SUFFICES ASSUME PInv, PlannedInTime, LiftInTime, [Next]_vars,
                        push'.done > push.done
                 PROVE  push'.planned \/ phase' = "verify"
      OBVIOUS
    <3>1. push.done \in Nat
      BY TypesAre, ConstantsAre DEF PInv, Pushes
    <3>2. PlanPush
      BY <3>1, OnlyPlanCounts
    <3> QED BY <1>3, <3>2, PlannedDrives
  <2> QED
    BY <1>1, <1>2, <2>1, InitPInv, NextPInv, NextInTime, PTL DEF Spec, CountedPushIsDriven
<1> QED BY <1>3

-----------------------------------------------------------------------------
(* The policy runs down: what is left of it, the longest way first.        *)

PhasesLeft == [wait_for_state |-> 8, pregrasp |-> 7, grasp |-> 6, lift |-> 5,
               preplace |-> 4, place |-> 3, release |-> 2, push |-> 1,
               verify |-> 0, succeeded |-> 0, failed |-> 0]
PinsLeft   == [idle |-> 4, descend |-> 3, hold |-> 2, lift |-> 1, done |-> 0,
               stuck |-> 0]

Ended == {"verify", "succeeded", "failed"}

Rank == <<MaxRegrasps - regrasps, PhasesLeft[phase], MaxReshakes - reshakes,
          MaxPushes - push.done, IF push.planned THEN 1 ELSE 0, servo.left,
          LastAge + 1 - age, SettleTimeout - servo.wait,
          PinsLeft[pin], PinTimeout + 1 - pinAge>>

LEMMA RankTyped == TypeOK => Rank \in Ranks(10)
<1> SUFFICES ASSUME TypeOK PROVE Rank \in Ranks(10)
  OBVIOUS
<1>1. /\ MaxRegrasps - regrasps \in Nat /\ MaxReshakes - reshakes \in Nat
      /\ MaxPushes - push.done \in Nat /\ LastAge + 1 - age \in Nat
      /\ PinTimeout + 1 - pinAge \in Nat
  BY TypesAre, ConstantsAre, LastAgeTyped DEF Pushes, PinAgeOK
<1>2. servo.left \in Nat /\ SettleTimeout - servo.wait \in Nat
  BY TypesAre, ConstantsAre DEF Servoings
<1>3. PhasesLeft[phase] \in Nat
  BY TypesAre DEF PhasesLeft, Phases, Carry, Terminal
<1>4. PinsLeft[pin] \in Nat
  BY TypesAre DEF PinsLeft, Pins
<1>5. (IF push.planned THEN 1 ELSE 0) \in Nat
  OBVIOUS
<1> HIDE DEF PhasesLeft, PinsLeft
<1> QED BY <1>1, <1>2, <1>3, <1>4, <1>5 DEF Rank, Ranks

\* Where a tick takes what is left.
Fewer(i) == Rank'[i] < Rank[i] /\ \A j \in 1..(i - 1) : Rank'[j] <= Rank[j]

LEMMA FewerLowers ==
  ASSUME PInv, [Next]_vars, NEW i \in 1..10, Fewer(i)
  PROVE  <<Rank', Rank>> \in Lower(10)
<1>1. Rank \in Ranks(10) /\ Rank' \in Ranks(10)
  <2>1. TypeOK /\ TypeOK'
    BY NextPInv DEF PInv
  <2>2. (TypeOK => Rank \in Ranks(10))'
    BY RankTyped, PTL
  <2> QED BY <2>1, <2>2, RankTyped
<1> QED BY <1>1, LowerBy DEF Fewer

\* The ways a tick takes what is left.
SamePush == push'.done = push.done /\ (push'.planned <=> push.planned)
PinDown  == \/ PinsLeft[pin'] < PinsLeft[pin]
            \/ pin' = pin /\ pinAge' = pinAge + 1
Down ==
  \/ regrasps' = regrasps + 1
  \/ UNCHANGED regrasps /\ PhasesLeft[phase'] < PhasesLeft[phase]
  \/ UNCHANGED <<regrasps, phase>> /\ reshakes' = reshakes + 1
  \/ UNCHANGED <<regrasps, phase, reshakes>> /\ push'.done = push.done + 1
  \/ /\ UNCHANGED <<regrasps, phase, reshakes>>
     /\ push'.done = push.done /\ push.planned /\ ~push'.planned
  \/ /\ UNCHANGED <<regrasps, phase, reshakes>> /\ SamePush
     /\ \/ servo'.left < servo.left
        \/ servo'.left = servo.left /\ age' = age + 1
        \/ servo'.left = servo.left /\ age' = Now /\ servo'.wait = servo.wait + 1
        \/ UNCHANGED servo /\ age' = Now /\ PinDown

LEMMA DownLowers ==
  ASSUME PInv, [Next]_vars, Down
  PROVE  <<Rank', Rank>> \in Lower(10)
<1>1. PInv'
  BY NextPInv
<1>2. /\ regrasps \in Nat /\ regrasps' \in Nat /\ MaxRegrasps \in Nat
      /\ reshakes \in Nat /\ reshakes' \in Nat /\ MaxReshakes \in Nat
      /\ push.done \in Nat /\ push'.done \in Nat /\ MaxPushes \in Nat
      /\ push.planned \in BOOLEAN /\ push'.planned \in BOOLEAN
  <2>1. push \in Pushes /\ push' \in Pushes
    BY <1>1 DEF PInv, TypeOK, Pushes
  <2> QED BY <1>1, <2>1, ConstantsAre DEF PInv, TypeOK, Pushes
<1>3. /\ age \in Nat /\ age' \in Nat /\ LastAge \in Nat
      /\ pinAge \in Nat /\ pinAge' \in Nat /\ PinTimeout \in Nat
  BY <1>1, LastAgeTyped, ConstantsAre DEF PInv, TypeOK
<1>4. /\ servo.left \in Nat /\ servo'.left \in Nat
      /\ servo.wait \in Nat /\ servo'.wait \in Nat /\ SettleTimeout \in Nat
  <2>1. servo \in Servoings /\ servo' \in Servoings
    BY <1>1 DEF PInv, TypeOK, Servoings
  <2> QED BY <2>1, ConstantsAre DEF Servoings
<1>5. PhasesLeft[phase] \in Nat /\ PhasesLeft[phase'] \in Nat
  <2>1. phase \in Phases /\ phase' \in Phases
    BY <1>1 DEF PInv, TypeOK
  <2> QED BY <2>1 DEF PhasesLeft, Phases, Carry, Terminal
<1>6. PinsLeft[pin] \in Nat /\ PinsLeft[pin'] \in Nat
  <2>1. pin \in Pins /\ pin' \in Pins
    BY <1>1 DEF PInv, TypeOK, Pins
  <2> QED BY <2>1 DEF PinsLeft, Pins
<1>7. age' = Now => age' >= age
  BY <1>3 DEF Now, Up
<1>8. CASE regrasps' = regrasps + 1
  <2>1. MaxRegrasps - regrasps' < MaxRegrasps - regrasps
    BY <1>2, <1>8
  <2>2. Fewer(1)
    BY <2>1 DEF Fewer, Rank
  <2> QED BY <2>2, FewerLowers
<1>9. CASE UNCHANGED regrasps /\ PhasesLeft[phase'] < PhasesLeft[phase]
  <2>1. MaxRegrasps - regrasps' <= MaxRegrasps - regrasps
    BY <1>2, <1>9
  <2>2. Fewer(2)
    BY <1>9, <2>1 DEF Fewer, Rank
  <2> QED BY <2>2, FewerLowers
<1>10. CASE UNCHANGED <<regrasps, phase>> /\ reshakes' = reshakes + 1
  <2>1. /\ MaxRegrasps - regrasps' <= MaxRegrasps - regrasps
        /\ PhasesLeft[phase'] <= PhasesLeft[phase]
        /\ MaxReshakes - reshakes' < MaxReshakes - reshakes
    BY <1>2, <1>5, <1>10
  <2>2. Fewer(3)
    BY <2>1 DEF Fewer, Rank
  <2> QED BY <2>2, FewerLowers
<1>11. ASSUME UNCHANGED <<regrasps, phase, reshakes>>
       PROVE  /\ MaxRegrasps - regrasps' <= MaxRegrasps - regrasps
              /\ PhasesLeft[phase'] <= PhasesLeft[phase]
              /\ MaxReshakes - reshakes' <= MaxReshakes - reshakes
  BY <1>2, <1>5, <1>11
<1>12. CASE UNCHANGED <<regrasps, phase, reshakes>> /\ push'.done = push.done + 1
  <2>1. MaxPushes - push'.done < MaxPushes - push.done
    BY <1>2, <1>12
  <2>2. Fewer(4)
    BY <1>11, <1>12, <2>1 DEF Fewer, Rank
  <2> QED BY <2>2, FewerLowers
<1>13. CASE /\ UNCHANGED <<regrasps, phase, reshakes>>
            /\ push'.done = push.done /\ push.planned /\ ~push'.planned
  <2>1. MaxPushes - push'.done <= MaxPushes - push.done
    BY <1>2, <1>13
  <2>2. Fewer(5)
    BY <1>11, <1>13, <2>1 DEF Fewer, Rank
  <2> QED BY <2>2, FewerLowers
<1>14. ASSUME UNCHANGED <<regrasps, phase, reshakes>>, SamePush, NEW i \in 6..10,
              Rank'[i] < Rank[i], \A j \in 6..(i - 1) : Rank'[j] <= Rank[j]
       PROVE  <<Rank', Rank>> \in Lower(10)
  <2>1. /\ MaxPushes - push'.done <= MaxPushes - push.done
        /\ (IF push'.planned THEN 1 ELSE 0) <= (IF push.planned THEN 1 ELSE 0)
    BY <1>2, <1>14 DEF SamePush
  <2>2. \A j \in 1..5 : Rank'[j] <= Rank[j]
    <3> TAKE j \in 1..5
    <3>1. j \in {1, 2, 3, 4, 5}
      OBVIOUS
    <3> QED BY <1>11, <1>14, <2>1, <3>1 DEF Rank
  <2>3. \A j \in 1..(i - 1) : Rank'[j] <= Rank[j]
    <3> TAKE j \in 1..(i - 1)
    <3>1. j \in 1..5 \/ j \in 6..(i - 1)
      OBVIOUS
    <3> QED BY <1>14, <2>2, <3>1
  <2>4. Fewer(i) /\ i \in 1..10
    BY <1>14, <2>3 DEF Fewer
  <2> QED BY <2>4, FewerLowers
<1>15. CASE /\ UNCHANGED <<regrasps, phase, reshakes>> /\ SamePush
            /\ servo'.left < servo.left
  <2>1. Rank'[6] < Rank[6] /\ \A j \in 6..5 : Rank'[j] <= Rank[j]
    BY <1>15 DEF Rank
  <2> QED BY <1>14, <1>15, <2>1
<1>16. CASE /\ UNCHANGED <<regrasps, phase, reshakes>> /\ SamePush
            /\ servo'.left = servo.left /\ age' = age + 1
  <2>1. LastAge + 1 - age' < LastAge + 1 - age /\ servo'.left <= servo.left
    BY <1>3, <1>4, <1>16
  <2>2. Rank'[7] < Rank[7] /\ \A j \in 6..6 : Rank'[j] <= Rank[j]
    BY <2>1 DEF Rank
  <2> QED BY <1>14, <1>16, <2>2
<1>17. CASE /\ UNCHANGED <<regrasps, phase, reshakes>> /\ SamePush
            /\ servo'.left = servo.left /\ age' = Now /\ servo'.wait = servo.wait + 1
  <2>1. /\ LastAge + 1 - age' <= LastAge + 1 - age /\ servo'.left <= servo.left
        /\ SettleTimeout - servo'.wait < SettleTimeout - servo.wait
    BY <1>3, <1>4, <1>7, <1>17
  <2>2. Rank'[8] < Rank[8] /\ \A j \in 6..7 : Rank'[j] <= Rank[j]
    BY <2>1 DEF Rank
  <2> QED BY <1>14, <1>17, <2>2
<1>18. CASE /\ UNCHANGED <<regrasps, phase, reshakes>> /\ SamePush
            /\ UNCHANGED servo /\ age' = Now /\ PinDown
  <2>1. /\ LastAge + 1 - age' <= LastAge + 1 - age /\ servo'.left <= servo.left
        /\ SettleTimeout - servo'.wait <= SettleTimeout - servo.wait
    BY <1>3, <1>4, <1>7, <1>18
  <2>2. CASE PinsLeft[pin'] < PinsLeft[pin]
    <3>1. Rank'[9] < Rank[9] /\ \A j \in 6..8 : Rank'[j] <= Rank[j]
      BY <2>1, <2>2 DEF Rank
    <3> QED BY <1>14, <1>18, <3>1
  <2>3. CASE pin' = pin /\ pinAge' = pinAge + 1
    <3>1. PinsLeft[pin'] <= PinsLeft[pin] /\ PinTimeout + 1 - pinAge' < PinTimeout + 1 - pinAge
      BY <1>3, <1>6, <2>3
    <3>2. Rank'[10] < Rank[10] /\ \A j \in 6..9 : Rank'[j] <= Rank[j]
      BY <2>1, <3>1 DEF Rank
    <3> QED BY <1>14, <1>18, <3>2
  <2> QED BY <1>18, <2>2, <2>3 DEF PinDown
<1> QED
  BY <1>8, <1>9, <1>10, <1>12, <1>13, <1>15, <1>16, <1>17, <1>18 DEF Down

-----------------------------------------------------------------------------
(* Every tick before the end takes something.                              *)

\* A clock that has not reached its last value goes on.
LEMMA ClockGoesOn ==
  ASSUME PInv, Now <= LastAge
  PROVE  Now = age + 1
<1>1. age \in Nat /\ LastAge \in Nat
  BY LastAgeTyped DEF PInv, TypeOK
<1> QED BY <1>1 DEF Now, Up

LEMMA ClockWithin ==
  ASSUME PInv, NEW limit \in Nat, limit <= LastAge, Now <= limit
  PROVE  Now = age + 1
<1>1. Now \in Nat /\ LastAge \in Nat
  BY LastAgeTyped, NowTyped DEF PInv
<1>2. Now <= LastAge
  BY <1>1
<1> QED BY <1>2, ClockGoesOn

\* What BeginPhase and BeginRelease lead to is nearer the end.
LEMMA PhaseFalls ==
  ASSUME phase \in Carry, phase # "place" => phase' \in {After[phase], "failed"},
         phase = "place" => phase' = "release"
  PROVE  PhasesLeft[phase'] < PhasesLeft[phase]
  BY DEF PhasesLeft, After, Carry

LEMMA TransitionDown ==
  ASSUME phase \in Carry, Transition
  PROVE  Down
<1>1. CASE phase = "place" /\ BeginRelease
  <2>1. UNCHANGED regrasps /\ phase' = "release"
    BY <1>1 DEF BeginRelease, counts
  <2> QED BY <1>1, <2>1, PhaseFalls DEF Down
<1>2. CASE phase # "place" /\ BeginPhase(After[phase]) /\ UNCHANGED counts
  <2>1. UNCHANGED regrasps /\ phase' \in {After[phase], "failed"}
    BY <1>2 DEF BeginPhase, Fail, counts
  <2> QED BY <1>2, <2>1, PhaseFalls DEF Down
<1>3. CASE Regrasp
  BY <1>3 DEF Regrasp, Down
<1> QED BY <1>1, <1>2, <1>3 DEF Transition

LEMMA ServoDown ==
  ASSUME PInv, phase \in Carry, NEW w, ServoOrTransition(w)
  PROVE  Down
<1>1. CASE Transition
  BY <1>1, TransitionDown
<1>2. CASE ~Transition
  <2>1. /\ UNCHANGED <<regrasps, phase, reshakes>> /\ SamePush /\ age' = Now
    BY <1>2 DEF ServoOrTransition, KeepPhase, Wait, counts, SamePush
  <2>2. servo \in [left : 0..ServoIters, sent : BOOLEAN, wait : 0..SettleTimeout]
    BY DEF PInv, TypeOK
  <2>3. CASE servo' = [servo EXCEPT !.wait = @ + 1]
    <3>1. servo'.left = servo.left /\ servo'.wait = servo.wait + 1
      BY <2>2, <2>3
    <3> QED BY <2>1, <3>1 DEF Down
  <2>4. CASE servo' = [left |-> servo.left - 1, sent |-> TRUE, wait |-> 0]
    <3>1. servo.left \in Nat /\ servo'.left = servo.left - 1
      BY <2>2, <2>4, ConstantsAre
    <3>2. servo'.left < servo.left
      BY <3>1
    <3> QED BY <2>1, <3>2 DEF Down
  <2> QED BY <1>2, <2>3, <2>4 DEF ServoOrTransition
<1> QED BY <1>1, <1>2

LEMMA CarryingDown ==
  ASSUME PInv, Carrying
  PROVE  Down
<1>1. phase \in Carry
  BY DEF Carrying
<1>2. CASE \E w : ServoOrTransition(w)
  BY <1>1, <1>2, ServoDown
<1>3. CASE Fail /\ UNCHANGED counts
  BY <1>1, <1>3 DEF Fail, counts, Down, PhasesLeft, Carry
<1>4. CASE Now <= WaypointTimeout /\ KeepPhase /\ UNCHANGED servo
  <2>1. age' = age + 1
    BY <1>4, ClockWithin, LastAgeIs, ConstantsAre DEF KeepPhase, Wait
  <2> QED BY <1>4, <2>1 DEF KeepPhase, counts, SamePush, Down
<1> QED BY <1>2, <1>3, <1>4 DEF Carrying

\* A tick that keeps everything but the clock, which has still to run.
LEMMA WaitDown ==
  ASSUME PInv, Wait, UNCHANGED <<phase, servo, regrasps, reshakes>>, SamePush,
         NEW limit \in Nat, limit <= LastAge, Now <= limit
  PROVE  Down
<1>1. age' = age + 1
  BY ClockWithin DEF Wait
<1> QED BY <1>1 DEF Down

\* A pin that moves comes nearer to its end.
LEMMA PinGoesDown ==
  ASSUME PInv, NEW p \in {"descend", "lift"}, LeftArm(p), PinsLeft[p] <= PinsLeft[pin]
  PROVE  PinDown
<1>1. pin \in Pins /\ pinAge \in Nat
  BY TypesAre, ConstantsAre DEF PInv, PinAgeOK
<1>2. CASE pin' \in {PinNext[p], PinForced[p]}
  <2>1. PinsLeft[pin'] < PinsLeft[p]
    BY <1>2 DEF PinNext, PinForced, PinsLeft
  <2>2. PinsLeft[pin'] \in Nat /\ PinsLeft[p] \in Nat /\ PinsLeft[pin] \in Nat
    BY <1>1, <1>2 DEF PinNext, PinForced, PinsLeft, Pins
  <2> QED BY <2>1, <2>2 DEF PinDown
<1>3. CASE p = pin /\ pin' = p /\ pinAge' = pinAge + 1
  BY <1>3 DEF PinDown
<1>4. CASE p # pin /\ pin' = p
  <2>1. PinsLeft[p] # PinsLeft[pin]
    BY <1>1, <1>4 DEF PinsLeft, Pins
  <2>2. PinsLeft[pin'] \in Nat /\ PinsLeft[pin] \in Nat
    BY <1>1, <1>4 DEF PinsLeft, Pins
  <2> QED BY <1>4, <2>1, <2>2 DEF PinDown
<1> QED BY <1>2, <1>3, <1>4 DEF LeftArm, PinMoves

LEMMA ReleaseDwellingDown ==
  ASSUME PInv, ReleaseDwelling
  PROVE  Down
<1>1. /\ UNCHANGED <<phase, servo, regrasps, reshakes>> /\ SamePush /\ Wait /\ LeftArm(pin)
  BY DEF ReleaseDwelling, counts, SamePush
<1>2. CASE Now < ReleaseDwell
  <2>1. Now <= ReleaseDwell
    BY <1>2, NowIsNext, ConstantsAre DEF PInv
  <2> QED BY <1>1, <2>1, WaitDown, LastAgeIs, ConstantsAre
<1>3. CASE pin = "descend"
  <2>1. PinDown
    BY <1>1, <1>3, PinGoesDown DEF PinsLeft
  <2> QED BY <1>1, <2>1 DEF Down, Wait
<1> QED BY <1>2, <1>3 DEF ReleaseDwelling

LEMMA ReleaseDown ==
  ASSUME PInv, Release
  PROVE  Down
<1>1. phase = "release"
  BY DEF Release
<1>2. ASSUME phase' \in {"push", "verify"}, UNCHANGED regrasps PROVE Down
  BY <1>1, <1>2 DEF Down, PhasesLeft
<1>3. CASE ToVerify /\ UNCHANGED counts
  BY <1>2, <1>3 DEF ToVerify, counts
<1>4. CASE ReleaseOver
  <2>1. UNCHANGED regrasps
    BY <1>4 DEF ReleaseOver
  <2>2. CASE Landed
    BY <1>2, <2>1, <2>2 DEF Landed, EnterPush, ToVerify
  <2>3. CASE reshakes' = reshakes + 1 /\ UNCHANGED phase
    BY <2>1, <2>3 DEF Down
  <2> QED BY <1>4, <2>2, <2>3 DEF ReleaseOver
<1>5. CASE Now <= ReleaseTimeout /\ Wait /\ UNCHANGED <<phase, servo, openAfter, counts>>
  <2>1. SamePush /\ UNCHANGED <<phase, servo, regrasps, reshakes>>
    BY <1>5 DEF counts, SamePush
  <2> QED BY <1>5, <2>1, WaitDown, LastAgeIs, ConstantsAre
<1> QED BY <1>3, <1>4, <1>5 DEF Release

LEMMA SettleDown ==
  ASSUME PInv, Settle
  PROVE  Down
<1>1. /\ UNCHANGED <<phase, servo, regrasps, reshakes>> /\ Wait /\ LeftArm(Cleared)
      /\ Settling /\ push' = [push EXCEPT !.stallAge = StallNow] /\ phase = "push"
  BY DEF Settle
<1>2. SamePush
  <2>1. push \in Pushes
    BY TypesAre DEF PInv
  <2> QED BY <1>1, <2>1 DEF Pushes, SamePush
<1>3. CASE Now < PushSettle
  <2>1. Now <= PushSettle
    BY <1>3, NowIsNext, ConstantsAre DEF PInv
  <2> QED BY <1>1, <1>2, <2>1, WaitDown, LastAgeIs, ConstantsAre
<1>4. CASE Cleared = "lift"
  <2>1. PinsLeft["lift"] <= PinsLeft[pin]
    BY <1>4 DEF Cleared, PinsLeft
  <2>2. PinDown
    BY <1>1, <1>4, <2>1, PinGoesDown
  <2> QED BY <1>1, <1>2, <2>2 DEF Down, Wait
<1> QED BY <1>1, <1>3, <1>4 DEF Settling

\* A stroke goes on, or is over: then it is to be planned again, or not any more.
LEMMA DriveDown ==
  ASSUME PInv, phase = "push", NEW w \in Walks, NEW q \in Pushes, q.planned,
         DriveStroke(w, q)
  PROVE  \/ /\ phase' = "push" /\ age' = age + 1 /\ UNCHANGED servo
            /\ push'.done = q.done /\ push'.planned
         \/ phase' = "push" /\ push'.done = q.done /\ ~push'.planned
         \/ phase' = "verify"
<1> USE DEF PInv
<1>1. ASSUME NEW r \in Pushes, PushOver(r)
      PROVE  \/ phase' = "push" /\ push'.done = r.done /\ ~push'.planned
             \/ phase' = "verify"
  BY <1>1, EnterPushOK DEF PushOver, ToVerify
<1>2. ASSUME NEW v, NEW r \in Pushes, r.planned, Advance(v, r)
      PROVE  \/ /\ phase' = "push" /\ age' = age + 1 /\ UNCHANGED servo
                /\ push'.done = r.done /\ push'.planned
             \/ phase' = "push" /\ push'.done = r.done /\ ~push'.planned
             \/ phase' = "verify"
  <2>1. CASE PushOver(r)
    BY <1>1, <2>1
  <2>2. CASE Now <= ReleaseTimeout /\ push' = r /\ Wait /\ UNCHANGED <<phase, servo>>
    <3>1. age' = age + 1
      BY <2>2, ClockWithin, LastAgeIs, ConstantsAre DEF Wait
    <3> QED BY <1>2, <2>2, <3>1
  <2> QED BY <1>2, <2>1, <2>2 DEF Advance
<1> DEFINE skipped == [q EXCEPT !.dwells = @ + 1, !.stallAt = Step(w).at, !.stallAge = 0]
           begun   == [q EXCEPT !.stallAt = w.at, !.stallAge = 0]
           ended   == [q EXCEPT !.stallAt = -1, !.stallAge = 0]
           going   == [q EXCEPT !.stallAge = StallNow]
<1>3. \/ Advance(w, begun) \/ PushOver(ended) \/ Advance(w, going)
      \/ q.dwells < MaxDwells /\ (PushOver(skipped) \/ Advance(Step(w), skipped))
  BY DEF DriveStroke
<1>4. w.at \in Nat /\ Step(w).at \in Nat /\ StallNow \in Nat
  BY WalksAre, StallTyped
<1>5. begun \in Pushes /\ ended \in Pushes /\ going \in Pushes
      /\ begun.done = q.done /\ ended.done = q.done /\ going.done = q.done
      /\ begun.planned /\ going.planned
  BY <1>4 DEF Pushes
<1>6. ASSUME q.dwells < MaxDwells
      PROVE  skipped \in Pushes /\ skipped.done = q.done /\ skipped.planned
  <2>1. q.dwells + 1 \in 0..MaxDwells
    BY <1>6, ConstantsAre DEF Pushes
  <2> QED BY <1>4, <2>1 DEF Pushes
<1> HIDE DEF skipped, begun, ended, going
<1> QED BY <1>1, <1>2, <1>3, <1>5, <1>6

LEMMA PushDown ==
  ASSUME PInv, Push
  PROVE  Down
<1>1. /\ phase = "push" /\ push.planned /\ UNCHANGED <<regrasps, reshakes>>
      /\ DriveStroke(walk, push) /\ push \in Pushes /\ walk \in Walks
  BY TypesAre DEF Push, PInv
<1>2. \/ /\ phase' = "push" /\ age' = age + 1 /\ UNCHANGED servo
         /\ push'.done = push.done /\ push'.planned
      \/ phase' = "push" /\ push'.done = push.done /\ ~push'.planned
      \/ phase' = "verify"
  BY <1>1, DriveDown
<1> QED BY <1>1, <1>2 DEF Down, SamePush, PhasesLeft

LEMMA PlanPushDown ==
  ASSUME PInv, PlanPush
  PROVE  Down
<1>1. /\ phase = "push" /\ ~push.planned /\ UNCHANGED <<regrasps, reshakes>>
      /\ \/ \E w \in StrokePlans : DriveStroke(w, [Counted EXCEPT !.dwells = 0])
         \/ push' = Counted /\ UNCHANGED phase
         \/ ToVerify
  BY DEF PlanPush, Counted
<1>2. Counted.done = push.done + 1 /\ [Counted EXCEPT !.dwells = 0].done = push.done + 1
  BY TypesAre DEF PInv, Pushes, Counted
<1> DEFINE fresh == [Counted EXCEPT !.dwells = 0]
<1>3. fresh \in Pushes /\ fresh.planned /\ fresh.done = push.done + 1
  BY <1>1, <1>2, CountedIs
<1>4. CASE \E w \in StrokePlans : DriveStroke(w, fresh)
  <2> HIDE DEF fresh
  <2>1. \/ phase' = "push" /\ push'.done = fresh.done
        \/ phase' = "verify"
    BY <1>1, <1>3, <1>4, PlansAre, DriveDown
  <2> QED BY <1>1, <1>3, <2>1 DEF Down, PhasesLeft
<1>5. CASE push' = Counted /\ UNCHANGED phase
  BY <1>1, <1>2, <1>5 DEF Down
<1>6. CASE ToVerify
  BY <1>1, <1>6 DEF ToVerify, Down, PhasesLeft
<1> QED BY <1>1, <1>4, <1>5, <1>6

LEMMA TickDown ==
  ASSUME PInv, Tick, phase \notin Ended
  PROVE  Down
<1>1. CASE Begin
  <2>1. phase = "wait_for_state" /\ UNCHANGED regrasps
    BY <1>1 DEF Begin
  <2>2. phase' \in {"pregrasp", "push", "failed"}
    BY <1>1, BeginLeads
  <2> QED BY <2>1, <2>2 DEF Down, PhasesLeft
<1>2. CASE CloseJaws
  <2>1. Now <= CloseDwell
    BY <1>2, NowIsNext, ConstantsAre DEF CloseJaws, PInv
  <2>2. Wait /\ SamePush /\ UNCHANGED <<phase, servo, regrasps, reshakes>>
    BY <1>2 DEF CloseJaws, counts, SamePush
  <2> QED BY <2>1, <2>2, WaitDown, LastAgeIs, ConstantsAre
<1>3. ~StepVerify /\ ~Over
  BY DEF StepVerify, Over, Ended, Terminal
<1> QED
  BY <1>1, <1>2, <1>3, CarryingDown, ReleaseDwellingDown, ReleaseDown, SettleDown,
     PlanPushDown, PushDown
  DEF Tick

\* The sheet takes nothing.
LEMMA SheetKeepsRank == Sheet => Rank' = Rank
  BY DEF Sheet, counts, Rank

(* What stands behind "the policy comes to verify or fails" for every      *)
(* timeout, dwell and budget: every tick before that lowers a rank in a    *)
(* well-founded order, and nothing else raises it.  Only a tick that never *)
(* comes could keep the policy from its end (step, vla_policy.py:391-557). *)
THEOREM PolicyRunsDown ==
  /\ IsWellFoundedOn(Lower(10), Ranks(10))
  /\ Spec => [](Rank \in Ranks(10))
  /\ Spec => [][Tick /\ phase \notin Ended => <<Rank', Rank>> \in Lower(10)]_vars
  /\ Spec => [][~Tick => Rank' = Rank]_vars
<1>1. IsWellFoundedOn(Lower(10), Ranks(10))
  BY LowerIsWellFounded
<1>2. PInv => Rank \in Ranks(10)
  BY RankTyped DEF PInv
<1>3. PInv /\ [Next]_vars
        => [Tick /\ phase \notin Ended => <<Rank', Rank>> \in Lower(10)]_vars
  BY TickDown, DownLowers
<1>4. [Next]_vars => [~Tick => Rank' = Rank]_vars
  BY SheetKeepsRank DEF Next
<1> QED BY <1>1, <1>2, <1>3, <1>4, InitPInv, NextPInv, PTL DEF Spec

=============================================================================
