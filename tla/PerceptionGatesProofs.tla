------------------------ MODULE PerceptionGatesProofs ------------------------
(***************************************************************************)
(* Proofs about the gates before the perception policy, for every order of *)
(* poses, id maps, timeouts and ticks, every number of samples and repeats *)
(* and every grace and budget.                                             *)
(***************************************************************************)
EXTENDS PerceptionGates, TLAPS

Candidates == [ids : Ids \cup {None}, count : 0..K]

LEMMA SeenTyped ==
  ASSUME NEW c \in Candidates, NEW m \in Ids
  PROVE  Seen(c, m) \in Candidates
<1>1. K \in Nat \ {0}
  BY GatesAssumption
<1>2. CASE c.ids = m /\ c.count < K
  BY <1>1, <1>2 DEF Seen, Candidates
<1>3. CASE ~(c.ids = m /\ c.count < K)
  <2>1. Seen(c, m) \in {c, [ids |-> m, count |-> 1]}
    BY <1>3 DEF Seen
  <2> QED BY <1>1, <2>1 DEF Candidates
<1> QED BY <1>2, <1>3

\* What is not done lacks samples, and a bound holds before and after start.
Counting ==
  /\ ~calibDone => samples < Samples
  /\ start = Never => clock <= LatestStart
  /\ start # Never => start <= LatestStart /\ clock - start <= Horizon

GInv == TypeOK /\ Counting

LEMMA InitGInv == Init => GInv
<1> SUFFICES ASSUME Init PROVE GInv
  OBVIOUS
<1> USE GatesAssumption
<1>1. NoCandidate \in Candidates
  BY DEF NoCandidate, Candidates
<1>2. clock \in 1..(LatestStart + Horizon) /\ clock <= LatestStart
  BY DEF Init
<1>3. samples \in 0..Samples /\ samples < Samples
  BY DEF Init
<1> QED
  BY <1>1, <1>2, <1>3
  DEF Init, GInv, TypeOK, Counting, Candidates, Never, Working

LEMMA Clocks ==
  GInv => /\ clock \in Nat /\ clock >= 1 /\ Samples \in Nat \ {0} /\ samples \in Nat
          /\ LatestStart \in Nat \ {0} /\ Horizon \in Nat
          /\ start \in Int /\ (start # Never => start \in 1..clock)
          /\ (stillSince # Never => stillSince \in 1..clock)
  BY GatesAssumption DEF GInv, TypeOK, Never

LEMMA ClockMovesOn == GInv /\ ClockMoves => GInv'
<1> SUFFICES ASSUME GInv, ClockMoves PROVE GInv'
  OBVIOUS
<1>1. clock' = clock + 1 /\ UNCHANGED <<start, stillSince>>
  BY DEF ClockMoves, episode, calibration
<1>2. start = Never => clock' <= LatestStart
  BY <1>1, Clocks DEF ClockMoves
<1>3. start # Never => start <= LatestStart /\ clock' - start <= Horizon
  BY <1>1, Clocks DEF ClockMoves, GInv, Counting
<1>4. clock' \in 1..(LatestStart + Horizon)
  BY <1>1, <1>2, <1>3, Clocks
<1>5. start' \in {Never} \cup 1..clock' /\ stillSince' \in {Never} \cup 1..clock'
  BY <1>1, Clocks
<1> QED
  BY <1>1, <1>2, <1>3, <1>4, <1>5
  DEF ClockMoves, calibration, semantics, episode, GInv, TypeOK, Counting

LEMMA EePoseTyped == GInv /\ EePose => GInv'
<1> SUFFICES ASSUME GInv, EePose PROVE GInv'
  OBVIOUS
<1> DEFINE sampled == IF Rearm THEN 0 ELSE samples
           since   == IF Rearm THEN Never ELSE stillSince
<1>1. /\ eeSeen' = TRUE /\ fallback' = (fallback /\ ~Rearm)
      /\ UNCHANGED <<enabled, clock, joints, patience, semantics, episode, lock>>
  BY DEF EePose
<1>2. fallback' = FALSE
  BY <1>1 DEF GInv, TypeOK, Rearm
<1>3. /\ sampled \in Nat /\ sampled <= Samples /\ (~calibDone \/ Rearm => sampled < Samples)
      /\ since \in {Never} \cup 1..clock
  BY Clocks DEF GInv, TypeOK, Counting, Rearm
<1>4. /\ calibDone' \in BOOLEAN /\ samples' \in 0..Samples
      /\ (~calibDone' => samples' < Samples)
      /\ stillSince' \in {Never} \cup 1..clock
      /\ transform' \in {transform, "measured"}
  <2>1. CASE ~enabled \/ (calibDone /\ ~Rearm) \/ ~joints
    <3>1. /\ samples' = sampled /\ stillSince' = since
          /\ calibDone' = (calibDone /\ ~Rearm) /\ transform' = transform
      BY <2>1 DEF EePose
    <3> HIDE DEF sampled, since
    <3>2. samples' \in 0..Samples
      BY <1>3, <3>1, Clocks
    <3> QED BY <1>3, <3>1, <3>2
  <2>2. CASE ~(~enabled \/ (calibDone /\ ~Rearm) \/ ~joints)
    <3>1. PICK moved \in BOOLEAN :
            /\ stillSince' = IF moved \/ since = Never THEN clock ELSE since
            /\ samples' = IF clock - stillSince' < StillTime THEN sampled ELSE sampled + 1
            /\ calibDone' = (samples' >= Samples)
            /\ transform' = IF calibDone' THEN "measured" ELSE transform
      BY <2>2 DEF EePose
    <3>2. sampled < Samples
      BY <1>3, <2>2
    <3> HIDE DEF sampled, since
    <3>3. samples' \in {sampled, sampled + 1}
      BY <3>1
    <3>4. samples' \in 0..Samples
      BY <1>3, <3>2, <3>3, Clocks
    <3>5. stillSince' \in {Never} \cup 1..clock
      BY <1>3, <3>1, Clocks
    <3>6. ASSUME ~calibDone' PROVE samples' < Samples
      <4>1. ~(samples' >= Samples)
        BY <3>1, <3>6
      <4>2. samples' \in Int /\ Samples \in Int
        BY <3>4, Clocks
      <4> QED BY <4>1, <4>2
    <3>7. calibDone' \in BOOLEAN /\ transform' \in {transform, "measured"}
      BY <3>1
    <3> QED BY <3>4, <3>5, <3>6, <3>7
  <2> QED BY <2>1, <2>2
<1> QED BY <1>1, <1>2, <1>4 DEF semantics, episode, GInv, TypeOK, Counting

LEMMA SemanticsTyped == GInv /\ (SemanticLabels \/ SemanticImage) => GInv'
<1> SUFFICES ASSUME GInv, SemanticLabels \/ SemanticImage PROVE GInv'
  OBVIOUS
<1>1. /\ labels \in Candidates /\ inferred \in Candidates
      /\ labelIds \in Ids \cup {None} /\ lock \in Ids \cup {None}
  BY DEF GInv, TypeOK, Candidates
<1>2. /\ labels' \in Candidates /\ inferred' \in Candidates
      /\ labelIds' \in Ids \cup {None} /\ lock' \in Ids \cup {None}
  <2>1. ASSUME NEW c \in Candidates PROVE Adopt(c) \in Ids \cup {None}
    BY <1>1, <2>1 DEF Adopt, Candidates
  <2>2. CASE SemanticLabels
    BY <1>1, <2>1, <2>2, SeenTyped DEF SemanticLabels
  <2>3. CASE SemanticImage
    BY <1>1, <2>1, <2>3, SeenTyped DEF SemanticImage
  <2> QED BY <2>2, <2>3
<1> QED
  BY <1>2
  DEF SemanticLabels, SemanticImage, calibration, episode, GInv, TypeOK, Counting, Candidates

LEMMA TickTyped == GInv /\ Tick => GInv'
<1> SUFFICES ASSUME GInv, Tick PROVE GInv'
  OBVIOUS
<1>1. /\ start' = IF start = Never THEN clock ELSE start
      /\ UNCHANGED <<clock, joints, patience, semantics>>
  BY DEF Tick
<1>2. /\ start' \in 1..clock /\ start' # Never
      /\ start' <= LatestStart /\ clock - start' <= Horizon
  BY <1>1, Clocks DEF GInv, Counting, Never
<1>3. /\ UNCHANGED <<enabled, eeSeen, samples, stillSince>>
      /\ calibDone' \in BOOLEAN /\ fallback' \in BOOLEAN /\ (calibDone => calibDone')
      /\ (fallback' => calibDone') /\ transform' \in {transform, "fallback"}
  BY DEF Tick, InstallFallback, calibration, GInv, TypeOK
<1>4. /\ budgetFailed' \in BOOLEAN /\ policy' \in Working \cup {"succeeded", "failed"}
      /\ gripper' \in {"open", "closed"} /\ lock' \in Ids \cup {None}
  <2>1. CASE StepPolicy /\ UNCHANGED budgetFailed
    BY <2>1, GatesAssumption DEF StepPolicy, UsedIds, Working, GInv, TypeOK
  <2>2. CASE ~StepPolicy
    BY <2>2 DEF Tick, GInv, TypeOK
  <2> QED BY <2>1, <2>2 DEF Tick, GInv, TypeOK
<1> QED BY <1>1, <1>2, <1>3, <1>4 DEF semantics, GInv, TypeOK, Counting

LEMMA NextGInv == GInv /\ [Next]_vars => GInv'
<1> SUFFICES ASSUME GInv, [Next]_vars PROVE GInv'
  OBVIOUS
<1>1. CASE WallTimeout \/ JointState
  <2>1. /\ joints' \in BOOLEAN /\ patience' \in BOOLEAN
        /\ UNCHANGED <<clock, calibration, semantics, episode, lock>>
    BY <1>1 DEF WallTimeout, JointState, GInv, TypeOK
  <2> QED BY <2>1 DEF calibration, semantics, episode, GInv, TypeOK, Counting
<1>2. CASE Ended \/ UNCHANGED vars
  BY <1>2 DEF Ended, vars, GInv, TypeOK, Counting
<1> QED
  BY <1>1, <1>2, ClockMovesOn, EePoseTyped, SemanticsTyped, TickTyped DEF Next

(* Re-arming leaves no sample, no still-stand and no guess behind that the *)
(* next calibration could be finished with.                                *)
THEOREM TypeCorrect == Spec => []TypeOK
<1>1. GInv => TypeOK
  BY DEF GInv
<1> QED BY <1>1, InitGInv, NextGInv, PTL DEF Spec

-----------------------------------------------------------------------------
(* The guess and the pose.                                                 *)

\* Where the installed transform is from.
Installed ==
  /\ calibDone => transform = "measured" \/ (transform = "fallback" /\ fallback)
  /\ fallback => ~eeSeen

LEMMA NextInstalled == TypeOK /\ Installed /\ [Next]_vars => Installed'
<1> SUFFICES ASSUME TypeOK, Installed, [Next]_vars PROVE Installed'
  OBVIOUS
<1>1. CASE UNCHANGED calibration
  BY <1>1 DEF calibration, Installed
<1>2. CASE EePose
  <2>1. fallback' = FALSE
    BY <1>2 DEF EePose, Rearm, TypeOK
  <2>2. calibDone' => transform' = "measured"
    <3>1. CASE ~enabled \/ (calibDone /\ ~Rearm) \/ ~joints
      <4>1. calibDone' = (calibDone /\ ~Rearm) /\ transform' = transform
        BY <1>2, <3>1 DEF EePose
      <4> QED BY <4>1 DEF Rearm, Installed
    <3>2. CASE ~(~enabled \/ (calibDone /\ ~Rearm) \/ ~joints)
      BY <1>2, <3>2 DEF EePose
    <3> QED BY <3>1, <3>2
  <2> QED BY <2>1, <2>2 DEF Installed
<1>3. CASE Tick
  BY <1>3 DEF Tick, InstallFallback, FallbackDue, calibration, Installed
<1> QED
  BY <1>1, <1>2, <1>3
  DEF Next, ClockMoves, WallTimeout, JointState, SemanticLabels, SemanticImage,
      Ended, vars, calibration

(* However often the wall clock, the poses and the ticks overtake each     *)
(* other, a guess is followed only while there is no pose.                 *)
THEOREM GuessYields == Spec => GuessYieldsToPose
<1>1. Init => Installed
  BY DEF Init, Installed
<1>2. TypeOK /\ Installed /\ [Next]_vars
        => ((Stepped /\ enabled) => \/ transform' = "measured"
                                    \/ transform' = "fallback" /\ ~eeSeen)
  <2> SUFFICES ASSUME TypeOK, Installed, [Next]_vars, Stepped, enabled
               PROVE  \/ transform' = "measured"
                      \/ transform' = "fallback" /\ ~eeSeen
    OBVIOUS
  <2>1. Installed' /\ calibDone' /\ eeSeen' = eeSeen
    BY NextInstalled DEF Stepped, Gated, Tick, InstallFallback, calibration
  <2> QED BY <2>1 DEF Installed
<1> QED BY <1>1, <1>2, NextInstalled, TypeCorrect, PTL DEF Spec, GuessYieldsToPose

=============================================================================
