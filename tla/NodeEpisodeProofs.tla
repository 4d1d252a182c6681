-------------------------- MODULE NodeEpisodeProofs --------------------------
(***************************************************************************)
(* Proofs about one episode of the autonomy node, for every timeout, every *)
(* budget, every way the clock may move and every size of a chunk.         *)
(***************************************************************************)
EXTENDS NodeEpisode, SequenceTheorems, TLAPS

Stamp(t, now) == t = Never \/ t \in 0..now

LEMMA GapsHaveMax == Max(Gaps) \in Nat /\ \A g \in Gaps : g \in Nat /\ g <= Max(Gaps)
<1>1. PICK most \in Gaps : \A g \in Gaps : g <= most
  BY EpisodeAssumption
<1>2. most \in Gaps /\ \A g \in Gaps : most >= g
  BY <1>1, EpisodeAssumption
<1>3. Max(Gaps) \in Gaps /\ \A g \in Gaps : Max(Gaps) >= g
  BY <1>2 DEF Max
<1> QED BY <1>3, EpisodeAssumption

LEMMA StampsOf ==
  TypeOK => /\ clock \in Nat /\ Stamp(start, clock) /\ Stamp(phaseStart, clock)
            /\ Stamp(verifyStart, clock) /\ Stamp(retreat, clock)
            /\ Stamp(openSince, clock)
  BY EpisodeAssumption DEF TypeOK, Stamp

(* A tick moves the clock on, and the episode has started by then.         *)
LEMMA TickTime ==
  ASSUME TypeOK, Tick
  PROVE  /\ clock' \in 0..Horizon /\ clock' - clock \in Gaps /\ clock <= clock'
         /\ start' \in 0..clock'
         /\ start' = IF start = Never THEN clock' ELSE start
<1>1. PICK gap \in Gaps : clock' = clock + gap /\ clock' <= Horizon
  BY Zenon DEF Tick
<1>2. gap \in Nat /\ clock \in Nat /\ Horizon \in Nat
  BY EpisodeAssumption, StampsOf
<1>3. start' = IF start = Never THEN clock' ELSE start
  BY DEF Tick
<1>4. Stamp(start, clock)
  BY StampsOf
<1>5. clock' \in 0..Horizon /\ clock' - clock = gap /\ clock <= clock'
  BY <1>1, <1>2
<1>6. start' \in 0..clock'
  BY <1>2, <1>3, <1>4, <1>5 DEF Stamp
<1> QED BY <1>1, <1>3, <1>5, <1>6

LEMMA StampsLast ==
  ASSUME NEW t, NEW now \in Nat, NEW later \in Nat, now <= later, Stamp(t, now)
  PROVE  Stamp(t, later)
  BY DEF Stamp

LEMMA VerifyingTyped ==
  ASSUME NEW since, Stamp(since, clock), clock \in Nat, clock' \in Nat, clock <= clock'
  PROVE  VerifyingSince(since) \in 0..clock'
  BY DEF VerifyingSince, Stamp

-----------------------------------------------------------------------------
(* Types.                                                                  *)

LEMMA ChunksTyped ==
  ASSUME NEW c \in {HoldChunk} \cup RealChunks
  PROVE  /\ c \in [at : 0..ChunkSize, len : 0..ChunkSize, real : BOOLEAN,
                   grips : Seq(Commands)]
         /\ c.at < c.len
         /\ ~c.real => c.grips = <<>>
<1> USE EpisodeAssumption
<1>1. CASE c = HoldChunk
  <2>1. c = [at |-> 0, len |-> ChunkSize, real |-> FALSE, grips |-> <<>>]
    BY <1>1 DEF HoldChunk, NoChunk
  <2>2. <<>> \in Seq(Commands)
    OBVIOUS
  <2> QED BY <2>1, <2>2
<1>2. CASE c \in RealChunks
  <2>1. PICK n \in 1..ChunkSize :
          c \in [at : {0}, len : {n}, real : {TRUE}, grips : {<<>>} \cup [1..n -> Commands]]
    BY <1>2 DEF RealChunks
  <2>2. {<<>>} \cup [1..n -> Commands] \subseteq Seq(Commands)
    <3>1. [1..n -> Commands] \subseteq Seq(Commands)
      BY SeqDef
    <3>2. <<>> \in Seq(Commands)
      OBVIOUS
    <3> QED BY <3>1, <3>2
  <2> DEFINE Columns == {<<>>} \cup [1..n -> Commands]
  <2>3. c \in [at : {0}, len : {n}, real : {TRUE}, grips : Columns]
    BY <2>1
  <2>4. Columns \subseteq Seq(Commands)
    BY <2>2
  <2>5. n \in 0..ChunkSize /\ n > 0
    BY <2>1
  <2> HIDE DEF Columns
  <2>6. c \in [at : 0..ChunkSize, len : 0..ChunkSize, real : BOOLEAN,
               grips : Seq(Commands)]
    <3>1. /\ c = [at |-> c.at, len |-> c.len, real |-> c.real, grips |-> c.grips]
          /\ c.at = 0 /\ c.len = n /\ c.real = TRUE /\ c.grips \in Columns
      BY <2>3
    <3>2. c.grips \in Seq(Commands)
      BY <2>4, <3>1
    <3>3. 0 \in 0..ChunkSize
      BY <2>5
    <3>4. c.at \in 0..ChunkSize /\ c.len \in 0..ChunkSize
      BY <2>5, <3>1, <3>3
    <3>5. c.real \in BOOLEAN
      BY <3>1
    <3> QED BY ONLY <3>1, <3>2, <3>4, <3>5
  <2>7. c.at = 0 /\ c.len = n /\ c.real = TRUE
    BY <2>3
  <2> QED BY <2>5, <2>6, <2>7
<1> QED BY <1>1, <1>2

LEMMA PlayedTyped ==
  ASSUME TypeOK, NEW c \in PlayedChunks, chunk' = [c EXCEPT !.at = @ + 1]
  PROVE  /\ chunk' \in [at : 0..ChunkSize, len : 0..ChunkSize, real : BOOLEAN,
                        grips : Seq(Commands)]
         /\ GripperAfter(c) \in Commands
<1>1. /\ c \in [at : 0..ChunkSize, len : 0..ChunkSize, real : BOOLEAN,
                grips : Seq(Commands)]
      /\ c.at < c.len
  BY ChunksTyped DEF PlayedChunks, TypeOK
<1>2. c.at + 1 \in 0..ChunkSize
  BY <1>1, EpisodeAssumption
<1>3. GripperAfter(c) \in Commands
  <2>1. CASE c.at + 1 \in DOMAIN c.grips
    BY <1>1, <2>1 DEF GripperAfter, Commands
  <2>2. CASE c.at + 1 \notin DOMAIN c.grips
    BY <2>2 DEF GripperAfter, Commands, TypeOK
  <2> QED BY <2>1, <2>2
<1> QED BY <1>1, <1>2, <1>3

\* What a step of the policy leaves is well typed.
StepTyped ==
  /\ phase' \in Phases /\ command' \in Commands
  /\ Stamp(phaseStart', clock') /\ Stamp(verifyStart', clock')
  /\ phase' \in {"verify", "succeeded"} => verifyStart' # Never
  /\ chunk' \in [at : 0..ChunkSize, len : 0..ChunkSize, real : BOOLEAN,
                 grips : Seq(Commands)]

LEMMA WaypointTyped == TypeOK /\ Tick /\ WaypointStep => StepTyped
<1> SUFFICES ASSUME TypeOK, Tick, WaypointStep PROVE StepTyped
  OBVIOUS
<1>1. /\ clock \in Nat /\ clock' \in Nat /\ clock <= clock'
      /\ Stamp(start', clock') /\ Stamp(clock', clock')
      /\ Stamp(phaseStart, clock') /\ Stamp(verifyStart, clock')
  <2>1. clock \in Nat /\ clock' \in Nat /\ clock <= clock' /\ start' \in 0..clock'
    BY TickTime, StampsOf, EpisodeAssumption
  <2>2. Stamp(start', clock') /\ Stamp(clock', clock')
    BY <2>1 DEF Stamp
  <2> QED BY <2>1, <2>2, StampsOf, StampsLast
<1>2. CASE WaitForJoints \/ Stay
  BY <1>1, <1>2
  DEF WaitForJoints, Stay, policy, StepTyped, TypeOK, Terminal, Commands
<1>3. ASSUME NEW w \in Waypoints, NEW since, Stamp(since, clock'), Drive(w, since),
             phase \in Waypoints \cup {"wait_for_state"}
      PROVE  StepTyped
  <2>1. /\ phase' \in {"failed", w, NextPhase[w]} /\ phaseStart' \in {since, clock'}
        /\ command' \in Commands /\ UNCHANGED <<verifyStart, chunk>>
    BY <1>3 DEF Drive, Decide, GripperFor, Commands
  <2>2. phase' \in Phases \ {"verify", "succeeded"}
    BY <2>1 DEF NextPhase, Waypoints, Phases, Terminal
  <2> QED BY <1>1, <1>3, <2>1, <2>2 DEF StepTyped, TypeOK
<1>4. CASE Transport
  BY <1>1, <1>3, <1>4 DEF Transport, Waypoints
<1>5. ASSUME NEW entered, NEW since, Stamp(entered, clock'), Stamp(since, clock'),
             VerifyStep(entered, since)
      PROVE  StepTyped
  <2>1. VerifyingSince(since) \in 0..clock'
    BY <1>1, <1>5 DEF VerifyingSince, Stamp
  <2>2. VerifyingSince(since) # Never /\ Stamp(VerifyingSince(since), clock')
    BY <2>1 DEF Stamp, Never
  <2> QED BY <1>1, <1>5, <2>2
          DEF VerifyStep, StepTyped, TypeOK, Phases, Terminal, Commands
<1>6. CASE Release
  <2>1. Stamp(Never, clock')
    BY DEF Stamp
  <2>2. VerifyStep(clock', Never) \/ Decide("release", phaseStart, "open")
    BY <1>6 DEF Release
  <2> QED BY <1>1, <1>5, <2>1, <2>2
          DEF Decide, StepTyped, TypeOK, Phases, Commands
<1>7. CASE Verify
  BY <1>1, <1>5, <1>7 DEF Verify
<1> QED BY <1>2, <1>4, <1>6, <1>7 DEF WaypointStep

LEMMA VlaTyped == TypeOK /\ Tick /\ VlaStep(start') => StepTyped
<1> SUFFICES ASSUME TypeOK, Tick, VlaStep(start') PROVE StepTyped
  OBVIOUS
<1>1. /\ clock \in Nat /\ clock' \in Nat /\ clock <= clock'
      /\ Stamp(phaseStart, clock') /\ Stamp(verifyStart, clock')
  <2>1. clock \in Nat /\ clock' \in Nat /\ clock <= clock'
    BY TickTime, StampsOf, EpisodeAssumption
  <2> QED BY <2>1, StampsOf, StampsLast
<1>2. Stamp(phaseStart', clock')
  BY <1>1 DEF VlaStep
<1>3. ASSUME NEW ph \in Phases \ {"verify", "succeeded"}, NEW cmd \in Commands,
             Close(start', ph, cmd)
      PROVE  /\ phase' \in Phases /\ command' \in Commands
             /\ Stamp(verifyStart', clock')
             /\ phase' \in {"verify", "succeeded"} => verifyStart' # Never
  <2>1. CASE ReportVerification(ph)
    <3>1. VerifyingSince(verifyStart) \in 0..clock'
      BY <1>1 DEF VerifyingSince, Stamp
    <3>2. VerifyingSince(verifyStart) # Never /\ Stamp(VerifyingSince(verifyStart), clock')
      BY <3>1 DEF Stamp, Never
    <3>3. /\ verifyStart' = VerifyingSince(verifyStart) /\ command' = "open"
          /\ phase' \in {ph, "failed", "succeeded"}
      BY <2>1 DEF ReportVerification
    <3> QED BY <1>3, <3>2, <3>3 DEF Phases, Terminal, Commands
  <2>2. CASE phase' = ph /\ command' = cmd /\ verifyStart' = verifyStart
    BY <1>1, <1>3, <2>2
  <2> QED BY <1>3, <2>1, <2>2 DEF Close
<1>4. CASE VlaStay
  BY <1>1, <1>2, <1>4
  DEF VlaStay, Stay, policy, StepTyped, TypeOK, Terminal, Commands
<1>5. CASE VlaWait(start')
  <2>1. phase \in Phases \ {"verify", "succeeded"} /\ command \in Commands
    BY <1>5 DEF VlaWait, TypeOK, Phases
  <2> QED BY <1>2, <1>3, <1>5, <2>1 DEF VlaWait, StepTyped, TypeOK
<1>6. CASE VlaPlay(start')
  <2>1. PICK c \in PlayedChunks :
          chunk' = [c EXCEPT !.at = @ + 1] /\ Close(start', "grasp", GripperAfter(c))
    BY <1>6 DEF VlaPlay
  <2>2. "grasp" \in Phases \ {"verify", "succeeded"}
    BY DEF Phases, Waypoints
  <2> QED BY <1>2, <1>3, <2>1, <2>2, PlayedTyped DEF StepTyped
<1> QED BY <1>4, <1>5, <1>6 DEF VlaStep

LEMMA DispatchTyped == TypeOK /\ Tick => StepTyped
<1> SUFFICES ASSUME TypeOK, Tick PROVE StepTyped
  OBVIOUS
<1>1. CASE command' = "open" /\ UNCHANGED policy
  <2>1. clock \in Nat /\ clock' \in Nat /\ clock <= clock'
    BY TickTime, StampsOf, EpisodeAssumption
  <2>2. Stamp(phaseStart, clock') /\ Stamp(verifyStart, clock')
    BY <2>1, StampsOf, StampsLast
  <2> QED BY <1>1, <2>2 DEF policy, StepTyped, TypeOK, Commands
<1>2. CASE Step(start')
  BY <1>2, WaypointTyped, VlaTyped DEF Step
<1> QED BY <1>1, <1>2 DEF Tick, Dispatch

LEMMA InitTyped == Init => TypeOK
<1> SUFFICES ASSUME Init PROVE TypeOK
  OBVIOUS
<1>1. chunk \in [at : 0..ChunkSize, len : 0..ChunkSize, real : BOOLEAN,
                 grips : Seq(Commands)]
  <2>1. <<>> \in Seq(Commands)
    OBVIOUS
  <2> QED BY <2>1, EpisodeAssumption DEF Init, NoChunk
<1>2. \A t \in {start, phaseStart, verifyStart, retreat, openSince} :
        t = Never \/ t \in 0..clock
  BY DEF Init
<1>3. clock \in 0..Horizon
  BY EpisodeAssumption DEF Init
<1> QED BY <1>1, <1>2, <1>3 DEF Init, TypeOK, Phases, Commands

LEMMA NextTyped == TypeOK /\ [Next]_vars => TypeOK'
<1> SUFFICES ASSUME TypeOK, [Next]_vars PROVE TypeOK'
  OBVIOUS
<1>1. CASE JointState \/ SemanticImage
  <2>1. UNCHANGED episode /\ joints' \in BOOLEAN /\ obs' \in {"none", "pass", "fall_short"}
    BY <1>1 DEF JointState, SemanticImage, TypeOK
  <2>2. \A t \in {start', phaseStart', verifyStart', retreat', openSince'} :
          t = Never \/ t \in 0..clock'
    BY <2>1 DEF TypeOK, episode, policy
  <2> QED BY <2>1, <2>2 DEF TypeOK, episode, policy
<1>2. CASE Tick
  <2>1. StepTyped
    BY <1>2, DispatchTyped
  <2>2. clock \in Nat /\ clock' \in 0..Horizon /\ clock <= clock' /\ start' \in 0..clock'
    BY <1>2, TickTime, StampsOf
  <2>3. Stamp(retreat', clock')
    <3>1. Stamp(retreat, clock') /\ Stamp(clock', clock')
      BY <2>2, StampsOf, StampsLast, EpisodeAssumption DEF Stamp
    <3> QED BY <1>2, <3>1 DEF Tick, RetreatFrom
  <2>4. Stamp(openSince', clock')
    <3>1. Stamp(openSince, clock') /\ Stamp(clock', clock') /\ Stamp(Never, clock')
      BY <2>2, StampsOf, StampsLast, EpisodeAssumption DEF Stamp
    <3> QED BY <1>2, <3>1 DEF Tick
  <2>5. done' => retreat' # Never
    <3>1. RetreatFrom # Never
      BY <2>2 DEF RetreatFrom, Never
    <3> QED BY <1>2, <3>1 DEF Tick
  <2>6. /\ budgetFailed' \in BOOLEAN /\ done' \in BOOLEAN
        /\ gripper' \in Commands /\ UNCHANGED <<kind, joints, obs>>
    <3>1. budgetFailed' \in BOOLEAN
      BY <1>2 DEF Tick, Dispatch, TypeOK
    <3>2. done' = (Over /\ ~Retreating) /\ gripper' = IF Retreating THEN "open" ELSE command'
      BY <1>2 DEF Tick
    <3>3. done' \in BOOLEAN
      BY <3>2
    <3>4. gripper' \in Commands
      BY <2>1, <3>2 DEF StepTyped, Commands
    <3> QED BY <1>2, <3>1, <3>3, <3>4 DEF Tick
  <2>7. \A t \in {start', phaseStart', verifyStart', retreat', openSince'} :
          t = Never \/ t \in 0..clock'
    BY <2>1, <2>2, <2>3, <2>4 DEF StepTyped, Stamp
  <2> QED BY <2>1, <2>2, <2>5, <2>6, <2>7 DEF StepTyped, TypeOK
<1>3. CASE Ended \/ UNCHANGED vars
  BY <1>3 DEF Ended, vars, episode, policy, TypeOK
<1> QED BY <1>1, <1>2, <1>3 DEF Next

(* The clock readings a decision is made on are readings of this episode,  *)
(* a verification has a start, and a chunk is never played past its end.   *)
THEOREM TypeCorrect == Spec => []TypeOK
  BY InitTyped, NextTyped, PTL DEF Spec

-----------------------------------------------------------------------------
(* The end of an episode.                                                  *)

\* How far the episode can have come when the retreat has and has not begun.
Timely ==
  /\ budgetFailed => start # Never /\ clock - start > MaxEpisode
  /\ start # Never /\ retreat = Never => clock - start <= MaxEpisode
  /\ retreat # Never => start # Never /\ retreat - start <= MaxEpisode + Max(Gaps)
  /\ retreat # Never /\ ~done => clock - retreat < PhotoRetreat
  /\ (retreat # Never) <=> (budgetFailed \/ phase \in Terminal)

LEMMA LongerStill ==
  ASSUME NEW a \in Int, NEW b \in Int, NEW from \in Int, NEW most \in Int, a <= b,
         a - from > most
  PROVE  b - from > most
  OBVIOUS

LEMMA NotLonger ==
  ASSUME NEW a \in Int, NEW from \in Int, NEW most \in Int, ~(a - from > most)
  PROVE  a - from <= most
  OBVIOUS

LEMMA SettledSince ==
  ASSUME NEW from \in Int, NEW since \in Int, NEW a \in Int, NEW least \in Int,
         from <= since, a - since >= least
  PROVE  a - from >= least
  OBVIOUS

LEMMA SettledStill ==
  ASSUME NEW from \in Int, NEW a \in Int, NEW b \in Int, NEW least \in Int,
         a <= b, a - from >= least
  PROVE  b - from >= least
  OBVIOUS

LEMMA TerminalStays == TypeOK /\ Tick /\ phase \in Terminal => phase' = phase
<1> SUFFICES ASSUME TypeOK, Tick, phase \in Terminal PROVE phase' = phase
  OBVIOUS
<1>1. CASE UNCHANGED policy
  BY <1>1 DEF policy
<1>2. CASE WaypointStep
  BY <1>2
  DEF WaypointStep, WaitForJoints, Stay, Transport, Waypoints, Release, Verify, Terminal, policy
<1>3. CASE VlaStep(start')
  BY <1>3 DEF VlaStep, VlaStay, Stay, VlaWait, VlaPlay, Terminal, policy
<1> QED BY <1>1, <1>2, <1>3 DEF Tick, Dispatch, Step

\* The budget has failed exactly if it is spent, and then the policy rests.
LEMMA BudgetSpent ==
  ASSUME TypeOK, Timely, Tick
  PROVE  /\ budgetFailed' <=> clock' - start' > MaxEpisode
         /\ budgetFailed' => command' = "open" /\ UNCHANGED policy
         /\ ~budgetFailed' => Step(start')
<1>1. /\ clock \in Nat /\ clock' \in Nat /\ clock <= clock'
      /\ start' = IF start = Never THEN clock' ELSE start
      /\ start \in Int
  BY TickTime, StampsOf, EpisodeAssumption DEF Stamp, Never
<1>2. MaxEpisode \in Nat
  BY EpisodeAssumption
<1>3. budgetFailed => clock' - start' > MaxEpisode
  <2>1. budgetFailed => start' = start /\ clock - start > MaxEpisode
    BY <1>1 DEF Timely
  <2>2. ASSUME clock - start > MaxEpisode PROVE clock' - start > MaxEpisode
    <3>1. clock \in Int /\ clock' \in Int /\ start \in Int /\ MaxEpisode \in Int
      BY <1>1, <1>2
    <3>2. clock <= clock'
      BY <1>1
    <3> QED BY <2>2, <3>1, <3>2, LongerStill
  <2> QED BY <2>1, <2>2
<1>4. Dispatch(start')
  BY DEF Tick
<1> QED BY <1>3, <1>4 DEF Dispatch, TypeOK

LEMMA NextTimely == TypeOK /\ Timely /\ [Next]_vars => Timely'
<1> SUFFICES ASSUME TypeOK, Timely, [Next]_vars PROVE Timely'
  OBVIOUS
<1>1. CASE JointState \/ SemanticImage \/ Ended \/ UNCHANGED vars
  BY <1>1 DEF JointState, SemanticImage, Ended, vars, episode, policy, Timely
<1>2. CASE Tick
  <2>1. /\ clock \in Nat /\ clock' \in Nat /\ clock <= clock' /\ start' \in Nat
        /\ start' = IF start = Never THEN clock' ELSE start
        /\ clock' - clock <= Max(Gaps) /\ Max(Gaps) \in Nat
        /\ MaxEpisode \in Nat /\ PhotoRetreat \in Nat
    BY <1>2, TickTime, StampsOf, GapsHaveMax, EpisodeAssumption
  <2>2. start' # Never /\ clock' # Never
    BY <2>1 DEF Never
  <2>3. /\ retreat' = IF Over THEN RetreatFrom ELSE retreat
        /\ done' = (Over /\ ~Retreating)
        /\ budgetFailed' <=> clock' - start' > MaxEpisode
    BY <1>2, BudgetSpent DEF Tick
  <2>4. retreat # Never => Over
    <3>1. budgetFailed => budgetFailed'
      BY <1>2 DEF Tick, Dispatch
    <3> QED BY <1>2, <3>1, TerminalStays DEF Timely, Over
  <2>5. retreat' # Never <=> Over
    BY <2>2, <2>3, <2>4 DEF RetreatFrom
  <2>6. start' # Never /\ retreat' = Never => clock' - start' <= MaxEpisode
    <3>1. ~Over => ~(clock' - start' > MaxEpisode)
      BY <2>3 DEF Over
    <3>2. retreat' = Never => ~(clock' - start' > MaxEpisode)
      BY <2>5, <3>1
    <3>3. ASSUME ~(clock' - start' > MaxEpisode) PROVE clock' - start' <= MaxEpisode
      <4>1. clock' \in Int /\ start' \in Int /\ MaxEpisode \in Int
        BY <2>1
      <4> QED BY <3>3, <4>1, NotLonger
    <3> QED BY <3>2, <3>3
  <2>7. retreat' # Never => retreat' - start' <= MaxEpisode + Max(Gaps)
    <3>1. CASE retreat # Never
      BY <2>3, <2>4, <2>1, <3>1 DEF RetreatFrom, Timely
    <3>2. CASE retreat = Never /\ Over
      <4>1. retreat' = clock'
        BY <2>3, <3>2 DEF RetreatFrom
      <4>2. CASE start = Never
        BY <2>1, <4>1, <4>2
      <4>3. CASE start # Never
        <5>1. clock - start <= MaxEpisode /\ start' = start
          BY <2>1, <3>2, <4>3 DEF Timely
        <5> QED BY <2>1, <4>1, <5>1
      <4> QED BY <4>2, <4>3
    <3> QED BY <2>5, <3>1, <3>2
  <2>8. retreat' # Never /\ ~done' => clock' - retreat' < PhotoRetreat
    BY <2>3, <2>5 DEF Retreating
  <2> QED BY <2>2, <2>3, <2>5, <2>6, <2>7, <2>8 DEF Timely, Over
<1> QED BY <1>1, <1>2 DEF Next

(* The process ends in bounded time, for every budget and retreat, however *)
(* the clock moves.                                                        *)
THEOREM EndsBoundedly == Spec => []EndsInTime
<1>1. Init => Timely
  BY DEF Init, Timely, Terminal
<1>2. TypeOK /\ Timely => EndsInTime
  <2> SUFFICES ASSUME TypeOK, Timely, start # Never, ~done
               PROVE  clock - start < MaxEpisode + PhotoRetreat + Max(Gaps)
    BY DEF EndsInTime
  <2>1. /\ clock \in Nat /\ start \in Nat /\ Max(Gaps) \in Nat
        /\ MaxEpisode \in Nat /\ PhotoRetreat \in Nat \ {0}
    BY StampsOf, GapsHaveMax, EpisodeAssumption DEF Stamp
  <2>2. CASE retreat = Never
    BY <2>1, <2>2 DEF Timely
  <2>3. CASE retreat # Never
    <3>1. retreat \in Nat
      BY <2>3, StampsOf DEF Stamp
    <3> QED BY <2>1, <2>3, <3>1 DEF Timely
  <2> QED BY <2>2, <2>3
<1> QED BY <1>1, <1>2, NextTimely, TypeCorrect, PTL DEF Spec

-----------------------------------------------------------------------------
(* What is published.                                                      *)

Published ==
  /\ retreat = Never => gripper = command
  /\ phase = "failed" => command = "open" /\ gripper = "open"
  /\ budgetFailed => gripper = "open"
  /\ gripper = "open" <=> openSince # Never

LEMMA FailedOpens ==
  ASSUME TypeOK, Published, Tick, phase' = "failed"
  PROVE  command' = "open"
<1>1. CASE command' = "open" /\ UNCHANGED policy
  BY <1>1
<1>2. CASE WaypointStep
  <2>1. CASE WaitForJoints \/ Stay
    BY <2>1 DEF WaitForJoints, Stay, policy
  <2>2. ASSUME NEW w \in Waypoints, NEW since, Drive(w, since) PROVE command' = "open"
    BY <2>2 DEF Drive, Decide, NextPhase, Waypoints
  <2>3. CASE Transport
    BY <2>2, <2>3 DEF Transport, Waypoints
  <2>4. CASE Release \/ Verify
    BY <2>4 DEF Release, Verify, VerifyStep, Decide
  <2> QED BY <1>2, <2>1, <2>3, <2>4 DEF WaypointStep
<1>3. CASE VlaStep(start')
  <2>1. CASE VlaStay
    BY <2>1 DEF VlaStay, Stay, policy, Published
  <2>2. CASE VlaWait(start')
    BY <2>2 DEF VlaWait, Close, ReportVerification
  <2>3. CASE VlaPlay(start')
    BY <2>3 DEF VlaPlay, Close, ReportVerification
  <2> QED BY <1>3, <2>1, <2>2, <2>3 DEF VlaStep
<1> QED BY <1>1, <1>2, <1>3 DEF Tick, Dispatch, Step

\* A tick publishes what was decided, or the retreat's open command.
LEMMA TickPublishes ==
  ASSUME TypeOK, Published, Tick
  PROVE  /\ gripper' \in {"open", command'}
         /\ ~Over => gripper' = command'
         /\ gripper' = "open" <=> openSince' # Never
         /\ gripper' = "open" /\ gripper = "open" => openSince' = openSince
<1>1. clock' # Never
  BY TickTime DEF Never
<1>2. /\ gripper' = IF Retreating THEN "open" ELSE command'
      /\ openSince' = IF gripper' # "open" THEN Never
                      ELSE IF gripper = "open" THEN openSince ELSE clock'
  BY DEF Tick
<1> QED BY <1>1, <1>2 DEF Retreating, Published

LEMMA NextPublished == TypeOK /\ Timely /\ Published /\ [Next]_vars => Published'
<1> SUFFICES ASSUME TypeOK, Timely, Published, [Next]_vars PROVE Published'
  OBVIOUS
<1>1. CASE JointState \/ SemanticImage \/ Ended \/ UNCHANGED vars
  BY <1>1 DEF JointState, SemanticImage, Ended, vars, episode, policy, Published
<1>2. CASE Tick
  <2>1. Timely'
    BY <1>2, NextTimely DEF Next
  <2>2. retreat' = Never => ~Over
    BY <2>1 DEF Timely, Over
  <2>3. phase' = "failed" => command' = "open"
    BY <1>2, FailedOpens
  <2>4. budgetFailed' => command' = "open"
    BY <1>2, BudgetSpent
  <2> QED BY <1>2, <2>2, <2>3, <2>4, TickPublishes DEF Published
<1> QED BY <1>1, <1>2 DEF Next

LEMMA InitPublished == Init => Timely /\ Published
  BY DEF Init, Timely, Published, Terminal, Never

(* From a failure on nothing but open commands is published, the retreat's *)
(* and the last one included.                                              *)
THEOREM FailsOpen == Spec => FailureLeavesGripperOpen
<1>1. TypeOK /\ Timely /\ Published /\ [Next]_vars
        => ((budgetFailed' \/ phase' = "failed") => gripper' = "open")
  BY NextPublished DEF Published
<1> QED
  BY <1>1, InitPublished, NextTimely, NextPublished, TypeCorrect, PTL
  DEF Spec, FailureLeavesGripperOpen

-----------------------------------------------------------------------------
(* The VLA episode.                                                        *)

\* What holds, wherever the episode is, when it is not over.
LEMMA NotOver ==
  ASSUME Timely, Published, ~budgetFailed, phase \notin Terminal
  PROVE  gripper = command
  BY DEF Timely, Published

LEMMA SuccessIsVerified ==
  ASSUME TypeOK, Timely, Published, Tick, kind = "vla",
         phase' = "succeeded", phase # "succeeded"
  PROVE  obs = "pass" /\ (gripper = "open" \/ OutOfTime(start'))
<1>1. phase \notin Terminal /\ ~budgetFailed'
  BY TerminalStays, BudgetSpent DEF Terminal, policy
<1>2. gripper = command
  BY <1>1, NotOver DEF Tick, Dispatch
<1>3. VlaWait(start') \/ VlaPlay(start')
  BY <1>1, BudgetSpent DEF Step, VlaStep, VlaStay, Stay
<1>4. ASSUME NEW ph \in {"wait_for_state", "grasp"}, NEW cmd, Close(start', ph, cmd)
      PROVE  Verifies(start') /\ obs = "pass"
  BY <1>4 DEF Close, ReportVerification
<1>5. Verifies(start') /\ obs = "pass"
  BY <1>3, <1>4 DEF VlaWait, VlaPlay
<1> QED BY <1>2, <1>5 DEF Verifies, Released

(* Before the last stretch of the budget no carried pad is a success.      *)
THEOREM SuccessIsReleased == Spec => ReleasedOrOutOfTime
<1>1. TypeOK /\ Timely /\ Published /\ [Next]_vars
        => ((kind = "vla" /\ phase' = "succeeded" /\ phase # "succeeded")
              => /\ obs = "pass"
                 /\ gripper = "open" \/ OutOfTime(start'))
  <2> SUFFICES ASSUME TypeOK, Timely, Published, [Next]_vars,
                      kind = "vla", phase' = "succeeded", phase # "succeeded"
               PROVE  obs = "pass" /\ (gripper = "open" \/ OutOfTime(start'))
    OBVIOUS
  <2>1. Tick
    BY DEF Next, JointState, SemanticImage, Ended, vars, episode, policy
  <2> QED BY <2>1, SuccessIsVerified
<1> QED
  BY <1>1, InitPublished, NextTimely, NextPublished, TypeCorrect, PTL
  DEF Spec, ReleasedOrOutOfTime

Held == ~chunk.real => chunk.grips = <<>>

LEMMA NextHeld == TypeOK /\ Held /\ [Next]_vars => Held'
<1> SUFFICES ASSUME TypeOK, Held, [Next]_vars PROVE Held'
  OBVIOUS
<1>1. CASE UNCHANGED chunk
  BY <1>1 DEF Held
<1>2. ASSUME NEW c \in PlayedChunks, chunk' = [c EXCEPT !.at = @ + 1]
      PROVE  Held'
  <2>1. /\ ~c.real => c.grips = <<>>
        /\ c \in [at : 0..ChunkSize, len : 0..ChunkSize, real : BOOLEAN,
                  grips : Seq(Commands)]
    BY ChunksTyped DEF PlayedChunks, Held, TypeOK
  <2>2. chunk'.real = c.real /\ chunk'.grips = c.grips
    BY <1>2, <2>1
  <2> QED BY <2>1, <2>2 DEF Held
<1>3. UNCHANGED chunk \/ \E c \in PlayedChunks : chunk' = [c EXCEPT !.at = @ + 1]
  <2>1. CASE Tick
    <3>1. CASE UNCHANGED policy
      BY <3>1 DEF policy
    <3>2. CASE WaypointStep
      BY <3>2
      DEF WaypointStep, WaitForJoints, Stay, Transport, Drive, Decide, Release, Verify,
          VerifyStep, policy
    <3>3. CASE VlaStep(start')
      BY <3>3 DEF VlaStep, VlaStay, VlaWait, VlaPlay, Stay, policy
    <3> QED BY <2>1, <3>1, <3>2, <3>3 DEF Tick, Dispatch, Step
  <2> QED BY <2>1 DEF Next, JointState, SemanticImage, Ended, vars, episode, policy
<1> QED BY <1>1, <1>2, <1>3

LEMMA HoldKeeps ==
  ASSUME TypeOK, Timely, Published, Held, Tick, kind = "vla", ~chunk'.real,
         phase' = "grasp", ~budgetFailed', verifyStart = Never, verifyStart' = verifyStart
  PROVE  gripper' = gripper
<1>1. phase \notin Terminal /\ ~Over
  BY TerminalStays DEF Terminal, Over
<1>2. gripper = command
  BY <1>1, NotOver DEF Tick, Dispatch
<1>3. gripper' = command'
  BY <1>1, TickPublishes
<1>4. VlaPlay(start')
  <2>1. ASSUME VlaWait(start') PROVE FALSE
    BY <2>1 DEF VlaWait, Close, ReportVerification
  <2> QED BY <1>1, <2>1, BudgetSpent DEF Step, VlaStep, VlaStay, Stay
<1>5. PICK c \in PlayedChunks :
        chunk' = [c EXCEPT !.at = @ + 1] /\ Close(start', "grasp", GripperAfter(c))
  BY <1>4 DEF VlaPlay
<1>6. command' = GripperAfter(c)
  <2>1. VerifyingSince(verifyStart) # Never
    BY TickTime DEF VerifyingSince, Never
  <2> QED BY <1>5, <2>1 DEF Close, ReportVerification
<1>7. c.grips = <<>>
  <2>1. /\ ~c.real => c.grips = <<>>
        /\ c \in [at : 0..ChunkSize, len : 0..ChunkSize, real : BOOLEAN,
                  grips : Seq(Commands)]
    BY ChunksTyped DEF PlayedChunks, Held, TypeOK
  <2> QED BY <1>5, <2>1
<1>8. GripperAfter(c) = command
  <2>1. DOMAIN c.grips = {}
    BY <1>7
  <2> QED BY <2>1 DEF GripperAfter
<1> QED BY <1>2, <1>3, <1>6, <1>8

(* A chunk that holds carries no gripper column, not even an old one.      *)
THEOREM HoldIsAHold == Spec => HoldKeepsGripper
<1>1. Init => Held
  BY DEF Init, Held, NoChunk
<1>2. TypeOK /\ Timely /\ Published /\ Held /\ [Next]_vars
        => ((kind = "vla" /\ ~chunk'.real /\ phase' = "grasp" /\ ~budgetFailed'
               /\ UNCHANGED verifyStart /\ verifyStart = Never)
              => gripper' = gripper)
  <2> SUFFICES ASSUME TypeOK, Timely, Published, Held, [Next]_vars,
                      kind = "vla", ~chunk'.real, phase' = "grasp", ~budgetFailed',
                      verifyStart' = verifyStart, verifyStart = Never
               PROVE  gripper' = gripper
    OBVIOUS
  <2>1. CASE Tick
    BY <2>1, HoldKeeps
  <2> QED BY <2>1 DEF Next, JointState, SemanticImage, Ended, vars, episode
<1> QED
  BY <1>1, <1>2, InitPublished, NextTimely, NextPublished, NextHeld, TypeCorrect, PTL
  DEF Spec, HoldKeepsGripper

-----------------------------------------------------------------------------
(* The waypoint episode.                                                   *)

\* Where the pad is, and since when it has been let go of.
Carried ==
  kind = "waypoint" =>
    /\ phase = "wait_for_state" => command # "closed"
    /\ gripper = "closed" /\ ~done => phase \in {"lift", "preplace", "place"}
    /\ phase = "release" => /\ openSince # Never /\ phaseStart # Never
                            /\ openSince <= phaseStart
    /\ phase = "verify" => openSince # Never /\ clock - openSince >= ReleaseSettle

\* What a step of the waypoint policy may do.
WaitsForJoints ==
  phase = "wait_for_state" /\ phase' = phase /\ command' = command

Drives(w) ==
  \/ phase' = w /\ command' = GripperFor(w) /\ phaseStart' \in {phaseStart, clock'}
  \/ /\ phase' = NextPhase[w] /\ command' = GripperFor(NextPhase[w])
     /\ phaseStart' = clock'
  \/ phase' = "failed" /\ command' = "open"

LetsGo ==
  /\ command' = "open"
  /\ \/ phase = "release" /\ phase' = "release" /\ phaseStart' = phaseStart
     \/ /\ phase = "release" /\ clock' - phaseStart >= ReleaseSettle
        /\ phase' \in {"verify", "failed", "succeeded"}
        /\ phase' = "succeeded" => obs = "pass"
     \/ /\ phase = "verify" /\ phase' \in {"verify", "failed", "succeeded"}
        /\ phase' = "succeeded" => obs = "pass"

LEMMA WaypointSteps ==
  ASSUME WaypointStep
  PROVE  \/ WaitsForJoints \/ Stay \/ LetsGo
         \/ phase = "wait_for_state" /\ Drives("pregrasp")
         \/ phase \in Waypoints /\ Drives(phase)
<1>1. CASE WaitForJoints
  BY <1>1 DEF WaitForJoints, WaitsForJoints
<1>2. CASE Transport
  BY <1>2 DEF Transport, Drive, Decide, Drives
<1>3. CASE Release
  BY <1>3 DEF Release, VerifyStep, Decide, LetsGo
<1>4. CASE Verify
  BY <1>4 DEF Verify, VerifyStep, LetsGo
<1> QED BY <1>1, <1>2, <1>3, <1>4 DEF WaypointStep

\* An open gripper that is told to open has been open since the same time.
LEMMA StaysOpen ==
  ASSUME TypeOK, Published, Tick, openSince # Never, command' = "open"
  PROVE  gripper' = "open" /\ openSince' = openSince
  BY TickPublishes DEF Published

\* However it goes on to be driven, the gripper is closed only to carry.
LEMMA DrivenCarries ==
  ASSUME TypeOK, Timely, Published, Carried, Tick, kind = "waypoint",
         NEW w \in Waypoints, Drives(w)
  PROVE  Carried'
<1>1. kind' = kind /\ clock' \in Nat /\ clock' # Never
  BY TickTime, EpisodeAssumption DEF Tick, Never
<1>2. CASE command' = "closed"
  <2>1. phase' \in {"lift", "preplace", "place"}
    BY <1>2 DEF Drives, GripperFor, NextPhase, Waypoints
  <2> QED BY <1>1, <2>1 DEF Carried
<1>3. CASE command' = "open" /\ phase' # "release"
  <2>1. gripper' = "open" /\ phase' # "wait_for_state" /\ phase' # "verify"
    BY <1>3, TickPublishes DEF Drives, NextPhase, Waypoints
  <2> QED BY <1>1, <1>3, <2>1 DEF Carried
<1>4. CASE command' = "open" /\ phase' = "release"
  <2>1. phaseStart' = clock' /\ gripper' = "open" /\ openSince' # Never
    BY <1>4, TickPublishes DEF Drives, Waypoints
  <2>2. Stamp(openSince', clock')
    <3>1. clock \in Nat /\ clock <= clock'
      BY TickTime, StampsOf
    <3>2. Stamp(openSince, clock') /\ Stamp(clock', clock') /\ Stamp(Never, clock')
      BY <1>1, <3>1, StampsOf, StampsLast DEF Stamp
    <3> QED BY <3>2 DEF Tick
  <2>3. openSince' <= phaseStart'
    BY <1>1, <2>1, <2>2 DEF Stamp
  <2> QED BY <1>1, <1>4, <2>1, <2>3 DEF Carried
<1>5. command' \in {"open", "closed"}
  BY DEF Drives, GripperFor
<1> QED BY <1>2, <1>3, <1>4, <1>5

LEMMA LetGoCarries ==
  ASSUME TypeOK, Timely, Published, Carried, Tick, kind = "waypoint", LetsGo
  PROVE  Carried'
<1>1. /\ kind' = kind /\ clock \in Nat /\ clock' \in Nat /\ clock <= clock'
      /\ ReleaseSettle \in Nat
  BY TickTime, StampsOf, EpisodeAssumption DEF Tick
<1>2. openSince # Never /\ command' = "open"
  BY DEF LetsGo, Carried
<1>3. gripper' = "open" /\ openSince' = openSince /\ openSince \in Nat
  BY <1>2, StaysOpen, StampsOf DEF Stamp
<1>4. phase' = "release" => phaseStart' # Never /\ openSince' <= phaseStart'
  BY <1>3 DEF LetsGo, Carried
<1>5. phase' = "verify" => clock' - openSince' >= ReleaseSettle
  <2>1. CASE phase = "release" /\ phase' = "verify"
    <3>1. /\ phaseStart \in Nat /\ openSince <= phaseStart
          /\ clock' - phaseStart >= ReleaseSettle
      BY <2>1, StampsOf DEF LetsGo, Carried, Stamp
    <3>2. /\ clock' \in Int /\ openSince \in Int /\ phaseStart \in Int
          /\ ReleaseSettle \in Int
      BY <1>1, <1>3, <3>1
    <3>3. clock' - openSince >= ReleaseSettle
      BY <3>1, <3>2, SettledSince
    <3> QED BY <1>3, <3>3
  <2>2. CASE phase = "verify"
    <3>1. clock - openSince >= ReleaseSettle
      BY <2>2 DEF Carried
    <3>2. /\ clock \in Int /\ clock' \in Int /\ openSince \in Int
          /\ ReleaseSettle \in Int /\ clock <= clock'
      BY <1>1, <1>3
    <3>3. clock' - openSince >= ReleaseSettle
      BY <3>1, <3>2, SettledStill
    <3> QED BY <1>3, <3>3
  <2> QED BY <2>1, <2>2 DEF LetsGo
<1>6. phase' # "wait_for_state"
  BY DEF LetsGo
<1> QED BY <1>1, <1>2, <1>3, <1>4, <1>5, <1>6 DEF Carried

LEMMA NextCarried ==
  TypeOK /\ Timely /\ Published /\ Carried /\ [Next]_vars => Carried'
<1> SUFFICES ASSUME TypeOK, Timely, Published, Carried, [Next]_vars PROVE Carried'
  OBVIOUS
<1>1. CASE JointState \/ SemanticImage \/ Ended \/ UNCHANGED vars
  BY <1>1 DEF JointState, SemanticImage, Ended, vars, episode, policy, Carried
<1>2. CASE Tick /\ kind # "waypoint"
  BY <1>2 DEF Tick, Carried
<1>3. CASE Tick /\ kind = "waypoint"
  <2>1. /\ kind' = kind /\ clock \in Nat /\ clock' \in Nat /\ clock <= clock'
        /\ ReleaseSettle \in Nat
    BY <1>3, TickTime, StampsOf, EpisodeAssumption DEF Tick
  <2>2. CASE command' = "open" /\ UNCHANGED policy
    <3>1. gripper' = "open"
      BY <1>3, <2>2, TickPublishes
    <3>2. openSince # Never => openSince' = openSince /\ openSince \in Nat
      BY <1>3, <2>2, StaysOpen, StampsOf DEF Stamp
    <3>3. phase = "verify" => clock' - openSince' >= ReleaseSettle
      BY <1>3, <2>1, <3>2 DEF Carried
    <3> QED BY <1>3, <2>2, <3>1, <3>2, <3>3 DEF Carried, policy
  <2>3. CASE WaitsForJoints
    BY <1>3, <2>1, <2>3, TickPublishes DEF WaitsForJoints, Carried
  <2>4. CASE Stay
    <3>1. Over /\ phase' \in Terminal
      BY <2>4 DEF Stay, Over, policy
    <3>2. gripper' = "open" \/ done'
      BY <1>3, <3>1 DEF Tick
    <3> QED BY <2>1, <3>1, <3>2 DEF Carried, Terminal
  <2>5. CASE LetsGo
    BY <1>3, <2>5, LetGoCarries
  <2>6. CASE \E w \in Waypoints : Drives(w)
    BY <1>3, <2>6, DrivenCarries
  <2>7. CASE WaypointStep
    BY <2>3, <2>4, <2>5, <2>6, <2>7, WaypointSteps DEF Waypoints
  <2> QED BY <1>3, <2>2, <2>7 DEF Tick, Dispatch, Step
<1> QED BY <1>1, <1>2, <1>3 DEF Next

LEMMA InitCarried == Init => Carried
  BY DEF Init, Carried

(* A pad in transport is dropped by a failure only, and never by the phase *)
(* defaults, the retreat or the last command.                              *)
THEOREM NothingDropped == Spec => NoDropInTransport
<1>1. TypeOK /\ Timely /\ Published /\ Carried /\ [Next]_vars
        => ((kind = "waypoint" /\ gripper = "closed" /\ gripper' = "open")
              => \/ phase = "place" /\ phase' = "release"
                 \/ phase' = "failed" \/ budgetFailed')
  <2> SUFFICES ASSUME TypeOK, Timely, Published, Carried, [Next]_vars,
                      kind = "waypoint", gripper = "closed", gripper' = "open",
                      ~budgetFailed'
               PROVE  \/ phase = "place" /\ phase' = "release"
                      \/ phase' = "failed"
    OBVIOUS
  <2>1. Tick
    BY DEF Next, JointState, SemanticImage, Ended, vars, episode
  <2>2. phase \in {"lift", "preplace", "place"}
    BY <2>1 DEF Carried, Tick
  <2>3. Drives(phase)
    BY <2>1, <2>2, BudgetSpent, WaypointSteps
    DEF Step, WaitsForJoints, Stay, Terminal, LetsGo
  <2>4. CASE phase' \in Terminal
    BY <2>2, <2>3, <2>4 DEF Drives, NextPhase, Terminal
  <2>5. CASE phase' \notin Terminal
    <3>1. command' = "open"
      BY <2>1, <2>5, TickPublishes DEF Over
    <3> QED BY <2>2, <2>3, <3>1 DEF Drives, GripperFor, NextPhase
  <2> QED BY <2>4, <2>5
<1> QED
  BY <1>1, InitCarried, InitPublished, NextTimely, NextPublished, NextCarried,
     TypeCorrect, PTL
  DEF Spec, NoDropInTransport

(* No success on a pad that was let go of less than the settle time ago.   *)
THEOREM SettledBeforeSuccess == Spec => VerifiedAfterRelease
<1>1. TypeOK /\ Timely /\ Published /\ Carried /\ [Next]_vars
        => ((kind = "waypoint" /\ phase' = "succeeded" /\ phase # "succeeded")
              => /\ obs = "pass"
                 /\ openSince # Never /\ clock' - openSince >= ReleaseSettle)
  <2> SUFFICES ASSUME TypeOK, Timely, Published, Carried, [Next]_vars,
                      kind = "waypoint", phase' = "succeeded", phase # "succeeded"
               PROVE  /\ obs = "pass"
                      /\ openSince # Never /\ clock' - openSince >= ReleaseSettle
    OBVIOUS
  <2>1. Tick
    BY DEF Next, JointState, SemanticImage, Ended, vars, episode, policy
  <2>2. /\ clock \in Nat /\ clock' \in Nat /\ clock <= clock'
        /\ ReleaseSettle \in Nat
    BY <2>1, TickTime, StampsOf, EpisodeAssumption
  <2>3. LetsGo
    <3>1. WaypointStep
      BY <2>1, BudgetSpent DEF Step, policy
    <3>2. \A w \in Waypoints : ~Drives(w)
      BY DEF Drives, NextPhase, Waypoints
    <3> QED BY <3>1, <3>2, WaypointSteps DEF WaitsForJoints, Stay, policy, Waypoints
  <2>4. openSince # Never /\ openSince \in Nat
    BY <2>3, StampsOf DEF LetsGo, Carried, Stamp
  <2>5. CASE phase = "release"
    <3>1. /\ phaseStart \in Nat /\ openSince <= phaseStart
          /\ clock' - phaseStart >= ReleaseSettle
      BY <2>3, <2>5, StampsOf DEF LetsGo, Carried, Stamp
    <3>2. /\ clock' \in Int /\ openSince \in Int /\ phaseStart \in Int
          /\ ReleaseSettle \in Int
      BY <2>2, <2>4, <3>1
    <3>3. clock' - openSince >= ReleaseSettle
      BY <3>1, <3>2, SettledSince
    <3> QED BY <2>3, <2>4, <3>3 DEF LetsGo
  <2>6. CASE phase = "verify"
    <3>1. clock - openSince >= ReleaseSettle
      BY <2>6 DEF Carried
    <3>2. /\ clock \in Int /\ clock' \in Int /\ openSince \in Int
          /\ ReleaseSettle \in Int /\ clock <= clock'
      BY <2>2, <2>4
    <3>3. clock' - openSince >= ReleaseSettle
      BY <3>1, <3>2, SettledStill
    <3> QED BY <2>3, <2>4, <3>3 DEF LetsGo
  <2> QED BY <2>3, <2>5, <2>6 DEF LetsGo
<1> QED
  BY <1>1, InitCarried, InitPublished, NextTimely, NextPublished, NextCarried,
     TypeCorrect, PTL
  DEF Spec, VerifiedAfterRelease

=============================================================================
