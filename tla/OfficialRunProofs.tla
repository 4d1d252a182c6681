-------------------------- MODULE OfficialRunProofs --------------------------
(***************************************************************************)
(* Theorems about OfficialRun, for every value of its constants that its   *)
(* assumptions allow: any pool, ladder, budget, cap and waits.             *)
(***************************************************************************)
EXTENDS OfficialRun, NumberFacts

-----------------------------------------------------------------------------
(* The inductive invariant.  Type correctness carries the rest only        *)
(* together with where in an attempt main() is: how many chains have run,  *)
(* when a verdict is held, and what the lookahead said before a reset.     *)

BeforeChain == {"capture", "recover", "recapture", "chain"}
AfterChain  == {"verdict", "judge", "reset", "again", "accepted"}

\* How many chains have run by now.
ChainCount ==
  /\ pc = "loop"       => durN = attempt - 1
  /\ pc \in BeforeChain => durN = attempt - 1 /\ attempt <= MaxAttempts
  /\ pc \in AfterChain  => durN = attempt /\ attempt <= MaxAttempts
  /\ pc \in {"reset", "again"} => attempt < MaxAttempts
  /\ durN <= MaxAttempts

\* A verdict is held from its reading to the end of the judgement or, once
\* accepted, for good; it is the verdict of a completed chain.
VerdictHeld ==
  /\ pc \notin {"judge", "accepted"} => verdict = NoVerdict /\ source = "none"
  /\ verdict # NoVerdict => completed
  /\ source = "official" => verdict = scene
  /\ pc = "verdict" /\ completed => scene \in Verdict

\* What the judgement before a reset had looked ahead to.
LookedAhead ==
  StopIou = NoStop =>
    /\ (pc \in {"reset", "again"} /\ gated > 0)
         => ShouldStart(attempt + 1, judgedAt + ResetCost, durSum, durN)
    /\ (pc = "loop" /\ lost > 0)
         => /\ attempt <= MaxAttempts
            /\ ShouldStart(attempt, judgedAt + ResetCost, durSum, durN)

\* A lay is lost between a retry reset and the next chain.
LostWindow ==
  /\ pc \in AfterChain \ {"again"} => lost = 0
  /\ pc = "again" /\ lost > 0 => gated > 0

IInv ==
  /\ TypeOK
  /\ ChainCount
  /\ VerdictHeld
  /\ LookedAhead
  /\ LostWindow
  /\ SelfZeroOnlyBySlowReset

-----------------------------------------------------------------------------
(* The governor is monotone in time: an attempt that may start at some     *)
(* time may start at any earlier one (should_start_attempt).               *)
LEMMA ShouldStartSooner ==
  ASSUME NEW a \in Int, NEW e1 \in Int, NEW e2 \in Int,
         NEW s \in Nat, NEW n \in Nat,
         e1 <= e2, ShouldStart(a, e2, s, n)
  PROVE  ShouldStart(a, e1, s, n)
<1>1. CASE a <= 1
  BY <1>1 DEF ShouldStart
<1>2. CASE ~(a <= 1)
  <2>1. Budget - e1 >= Budget - e2 /\ Budget - e1 \in Int /\ Budget - e2 \in Int
    BY TimeAssumption
  <2>2. ASSUME NEW x \in Int, NEW y \in Int, x >= y
        PROVE  5 * n * x >= 5 * n * y
    BY <2>2
  <2>3. 5 * n * (Budget - e1) >= 5 * n * (Budget - e2)
    BY <2>1, <2>2
  <2>4. 5 * n * (Budget - e1) \in Int /\ 5 * n * (Budget - e2) \in Int /\ 4 * s \in Int
    BY <2>1
  <2>5. Budget - e2 > 0
    BY <1>2 DEF ShouldStart
  <2>6. n = 0 \/ s = 0 \/ 5 * n * (Budget - e2) > 4 * s
    BY <1>2 DEF ShouldStart
  <2>7. n = 0 \/ s = 0 \/ 5 * n * (Budget - e1) > 4 * s
    BY <2>3, <2>4, <2>6
  <2> QED BY <2>1, <2>5, <2>7 DEF ShouldStart
<1> QED BY <1>1, <1>2

(* The gate turns any reading of the scene into a natural score, and only  *)
(* a real verdict scores.                                                  *)
LEMMA GatedIsNatural ==
  ASSUME NEW v \in Verdict \cup {NoVerdict, Clean, [case |-> "liner_down", iou |-> 0]}
  PROVE  Gated(v) \in Nat
<1>1. CASE v \in Verdict
  <2>1. v.iou \in Scores
    BY <1>1 DEF Verdict
  <2> QED BY <2>1, RunAssumption DEF Gated
<1>2. CASE v = NoVerdict
  BY <1>2 DEF Gated, NoVerdict
<1>3. CASE v = Clean
  BY <1>3 DEF Gated, Clean
<1>4. CASE v = [case |-> "liner_down", iou |-> 0]
  BY <1>4 DEF Gated
<1> QED BY <1>1, <1>2, <1>3, <1>4

LEMMA GatedNoVerdict == Gated(NoVerdict) = 0
  BY DEF Gated, NoVerdict

(* With a threshold of 0 a completed lay that scores is always accepted,   *)
(* whatever the strict reading says (judge_attempt).                       *)
LEMMA ZeroThresholdAccepts ==
  ASSUME TypeOK, completed, Gated(verdict) > 0,
         NEW total, NEW att, NEW obs
  PROVE  Accepts(0, total, att, obs)
<1>1. verdict.case = "liner_up"
  BY DEF Gated
<1>2. verdict # NoVerdict /\ verdict.case # "liner_down"
  BY <1>1 DEF NoVerdict
<1>3. Gated(verdict) \in Nat
  BY GatedIsNatural DEF TypeOK
<1> QED BY <1>2, <1>3 DEF Accepts, NoStop

-----------------------------------------------------------------------------
LEMMA InitIInv == Init => IInv
<1> SUFFICES ASSUME Init PROVE IInv
  OBVIOUS
<1>1. TypeOK
  <2>1. observed \in Seq(Nat)
    BY DEF Init
  <2>2. attempt \in 1..(MaxAttempts + 1)
    BY RunAssumption DEF Init
  <2>3. 0 \in Nat /\ 0 <= 0
    OBVIOUS
  <2>4. scene \in Verdict \cup {Clean, [case |-> "liner_down", iou |-> 0]}
    BY DEF Init
  <2>5. pc = "loop" /\ completed = FALSE /\ source = "none" /\ verdict = NoVerdict /\ strict = NoVerdict
    BY DEF Init
  <2>6. clock \in Nat /\ tAtt = 0 /\ durSum = 0 /\ durN = 0 /\ gated = 0 /\ judgedAt = 0 /\ lost = 0
    BY RunAssumption DEF Init
  <2>7. tAtt <= clock
    BY <2>6
  <2> QED BY <2>1, <2>2, <2>3, <2>4, <2>5, <2>6, <2>7 DEF TypeOK
<1>2. ChainCount
  BY RunAssumption DEF Init, ChainCount, BeforeChain, AfterChain
<1>3. VerdictHeld
  BY DEF Init, VerdictHeld
<1>4. LookedAhead /\ LostWindow /\ SelfZeroOnlyBySlowReset
  BY DEF Init, LookedAhead, LostWindow, SelfZeroOnlyBySlowReset
<1> QED BY <1>1, <1>2, <1>3, <1>4 DEF IInv

(* The parts of a step that several actions share.                         *)
LEMMA ResetTypes ==
  ASSUME TypeOK, ResetAcked \/ ResetUnacked
  PROVE  /\ clock' \in Nat /\ clock' >= clock
         /\ scene' = scene \/ scene' = Clean
<1>1. CASE ResetAcked
  BY <1>1, RunAssumption DEF ResetAcked, TypeOK
<1>2. CASE ResetUnacked
  BY <1>2, RunAssumption DEF ResetUnacked, TypeOK
<1> QED BY <1>1, <1>2

LEMMA NextIInv == IInv /\ [Next]_vars => IInv'
<1> SUFFICES ASSUME IInv, [Next]_vars PROVE IInv'
  OBVIOUS
<1> USE RunAssumption DEF timing, read, judged
<1>1. CASE StartAttempt
  BY <1>1 DEF StartAttempt, IInv, TypeOK, ChainCount, VerdictHeld, LookedAhead, LostWindow,
      SelfZeroOnlyBySlowReset, BeforeChain, AfterChain
<1>2. CASE BudgetSpent
  <2>1. TypeOK' /\ ChainCount' /\ VerdictHeld' /\ LookedAhead' /\ LostWindow'
    BY <1>2 DEF BudgetSpent, IInv, TypeOK, ChainCount, VerdictHeld, LookedAhead,
                LostWindow, BeforeChain, AfterChain
  <2>2. SelfZeroOnlyBySlowReset'
    <3> SUFFICES ASSUME lost > 0, StopIou = NoStop
                 PROVE  clock - judgedAt > ResetCost
      BY <1>2 DEF BudgetSpent, SelfZeroOnlyBySlowReset
    <3>1. ShouldStart(attempt, judgedAt + ResetCost, durSum, durN)
      BY <1>2 DEF BudgetSpent, IInv, LookedAhead
    <3>2. ~ShouldStart(attempt, clock, durSum, durN)
      BY <1>2 DEF BudgetSpent
    <3>3. ~(clock <= judgedAt + ResetCost)
      BY <3>1, <3>2, ShouldStartSooner, TimeAssumption DEF IInv, TypeOK
    <3> QED BY <3>3, TimeAssumption DEF IInv, TypeOK
  <2> QED BY <2>1, <2>2 DEF IInv
<1>3. CASE AttemptsSpent
  BY <1>3 DEF AttemptsSpent, IInv, TypeOK, ChainCount, VerdictHeld, LookedAhead, LostWindow,
      SelfZeroOnlyBySlowReset, BeforeChain, AfterChain
<1>4. CASE CaptureIds
  BY <1>4 DEF CaptureIds, IInv, TypeOK, ChainCount, VerdictHeld, LookedAhead, LostWindow,
      SelfZeroOnlyBySlowReset, BeforeChain, AfterChain
<1>5. CASE RecoveryReset
  BY <1>5, ResetTypes DEF RecoveryReset, IInv, TypeOK, ChainCount, VerdictHeld, LookedAhead, LostWindow,
      SelfZeroOnlyBySlowReset, BeforeChain, AfterChain
<1>6. CASE Recapture
  BY <1>6 DEF Recapture, IInv, TypeOK, ChainCount, VerdictHeld, LookedAhead, LostWindow,
      SelfZeroOnlyBySlowReset, BeforeChain, AfterChain
<1>7. CASE RunChain
  <2>1. TypeOK'
    <3>1. PICK d \in ChainTimes : clock' = clock + d /\ durSum' = durSum + (clock' - tAtt)
      BY <1>7 DEF RunChain
    <3>2. clock' \in Nat /\ durSum' \in Nat /\ tAtt' <= clock'
      BY <1>7, <3>1 DEF RunChain, IInv, TypeOK
    <3>3. /\ pc' \in {"verdict", "stopped"} /\ completed' \in BOOLEAN
          /\ scene' \in Verdict \cup {Clean, [case |-> "liner_down", iou |-> 0]}
      BY <1>7 DEF RunChain, IInv, TypeOK
    <3>4. /\ durN' \in Nat /\ lost' = 0 /\ gated' = 0 /\ judgedAt' = 0
          /\ UNCHANGED <<attempt, tAtt, verdict, strict, source, observed>>
      BY <1>7 DEF RunChain, IInv, TypeOK
    <3> QED BY <3>2, <3>3, <3>4 DEF IInv, TypeOK
  <2>2. ChainCount'
    BY <1>7 DEF RunChain, IInv, TypeOK, ChainCount, BeforeChain, AfterChain
  <2>3. VerdictHeld'
    BY <1>7 DEF RunChain, IInv, VerdictHeld
  <2>4. LookedAhead' /\ LostWindow' /\ SelfZeroOnlyBySlowReset'
    BY <1>7 DEF RunChain, LookedAhead, LostWindow, SelfZeroOnlyBySlowReset, BeforeChain, AfterChain
  <2> QED BY <2>1, <2>2, <2>3, <2>4 DEF IInv
<1>8. CASE TakeVerdict
  <2>1. TypeOK'
    <3>1. clock' \in Nat /\ tAtt' <= clock'
      BY <1>8 DEF TakeVerdict, IInv, TypeOK
    <3>2. verdict' \in Verdict \cup {NoVerdict}
      <4>1. completed => scene \in Verdict
        BY <1>8 DEF TakeVerdict, IInv, VerdictHeld
      <4> QED BY <1>8, <4>1 DEF TakeVerdict
    <3>3. strict' \in Verdict \cup {NoVerdict} /\ source' \in {"none", "replica", "official"}
      BY <1>8 DEF TakeVerdict
    <3> QED BY <1>8, <3>1, <3>2, <3>3 DEF TakeVerdict, IInv, TypeOK
  <2>2. ChainCount'
    BY <1>8 DEF TakeVerdict, IInv, ChainCount, BeforeChain, AfterChain
  <2>3. VerdictHeld'
    BY <1>8 DEF TakeVerdict, IInv, VerdictHeld
  <2>4. LookedAhead' /\ LostWindow' /\ SelfZeroOnlyBySlowReset'
    BY <1>8 DEF TakeVerdict, IInv, LookedAhead, LostWindow, SelfZeroOnlyBySlowReset, BeforeChain, AfterChain
  <2> QED BY <2>1, <2>2, <2>3, <2>4 DEF IInv
<1>9. CASE Judge
  <2> DEFINE nextFits == ShouldStart(attempt + 1, clock + ResetCost, durSum, durN)
             stop     == IF StopIou = NoStop /\ ~nextFits THEN 0 ELSE StopIou
             total    == EffectiveTotal(attempt, MaxAttempts, clock, durSum, durN)
             accept   == Accepts(stop, total, attempt, observed)
  <2>1. /\ pc = "judge" /\ UNCHANGED <<clock, tAtt, durSum, durN, completed, scene, lost>>
        /\ pc' = IF accept THEN "accepted"
                 ELSE IF attempt < MaxAttempts THEN "reset" ELSE "loop"
        /\ attempt' = IF ~accept /\ attempt >= MaxAttempts THEN attempt + 1 ELSE attempt
        /\ verdict' = IF accept THEN verdict ELSE NoVerdict
        /\ source'  = IF accept THEN source ELSE "none"
        /\ gated' = Gated(verdict) /\ judgedAt' = clock
        /\ observed' = Append(observed, Gated(verdict))
        /\ strict' = NoVerdict
    BY <1>9 DEF Judge
  <2>2. Gated(verdict) \in Nat
    BY GatedIsNatural DEF IInv, TypeOK
  <2>3. attempt \in 1..MaxAttempts /\ durN = attempt /\ lost = 0
    BY <2>1 DEF IInv, TypeOK, ChainCount, LostWindow, AfterChain
  <2> HIDE DEF accept
  <2>4. TypeOK'
    <3>1. observed' \in Seq(Nat)
      BY <2>1, <2>2 DEF IInv, TypeOK
    <3>2. attempt' \in 1..(MaxAttempts + 1)
      BY <2>1, <2>3
    <3>3. verdict' \in Verdict \cup {NoVerdict} /\ source' \in {"none", "replica", "official"}
      BY <2>1 DEF IInv, TypeOK
    <3> QED BY <2>1, <2>2, <3>1, <3>2, <3>3 DEF IInv, TypeOK
  <2>5. ChainCount'
    BY <2>1, <2>3 DEF IInv, TypeOK, ChainCount, BeforeChain, AfterChain
  <2>6. VerdictHeld'
    BY <2>1 DEF IInv, VerdictHeld
  <2>7. LookedAhead'
    <3> SUFFICES ASSUME StopIou = NoStop, pc' = "reset", gated' > 0
                 PROVE  ShouldStart(attempt + 1, clock + ResetCost, durSum, durN)
      BY <2>1, <2>3 DEF LookedAhead
    <3>1. ~accept
      BY <2>1
    <3>2. completed
      BY <2>1, GatedNoVerdict DEF IInv, VerdictHeld
    <3>3. Accepts(0, total, attempt, observed)
      BY <2>1, <3>2, ZeroThresholdAccepts DEF IInv
    <3> QED BY <3>1, <3>3 DEF accept
  <2>8. LostWindow' /\ SelfZeroOnlyBySlowReset'
    BY <2>1, <2>3 DEF LostWindow, SelfZeroOnlyBySlowReset
  <2> QED BY <2>4, <2>5, <2>6, <2>7, <2>8 DEF IInv
<1>10. CASE RetryReset
  <2>1. /\ pc = "reset" /\ UNCHANGED <<tAtt, durSum, durN, completed, read, judged, observed>>
        /\ \/ pc' = "loop" /\ attempt' = attempt + 1
           \/ pc' = "again" /\ attempt' = attempt
        /\ clock' \in Nat /\ clock' >= clock
        /\ scene' = scene \/ scene' = Clean
        /\ lost' = IF scene' # scene THEN gated ELSE lost
    BY <1>10, ResetTypes DEF RetryReset, Wiped, IInv
  <2>2. attempt \in 1..MaxAttempts /\ attempt < MaxAttempts /\ durN = attempt
    BY <2>1 DEF IInv, TypeOK, ChainCount, AfterChain
  <2>3. lost > 0 => gated > 0
    BY <2>1 DEF IInv, LostWindow, AfterChain
  <2>4. TypeOK'
    <3>1. scene' \in Verdict \cup {Clean, [case |-> "liner_down", iou |-> 0]}
      BY <2>1 DEF IInv, TypeOK
    <3>2. clock' \in Nat /\ tAtt' <= clock' /\ lost' \in Nat
      BY <2>1 DEF IInv, TypeOK
    <3> QED BY <2>1, <2>2, <3>1, <3>2 DEF IInv, TypeOK
  <2>5. ChainCount'
    BY <2>1, <2>2 DEF IInv, TypeOK, ChainCount, BeforeChain, AfterChain
  <2>6. VerdictHeld'
    BY <2>1 DEF IInv, VerdictHeld
  <2>7. LookedAhead' /\ LostWindow' /\ SelfZeroOnlyBySlowReset'
    BY <2>1, <2>2, <2>3 DEF IInv, TypeOK, LookedAhead, LostWindow, SelfZeroOnlyBySlowReset,
                            AfterChain
  <2> QED BY <2>4, <2>5, <2>6, <2>7 DEF IInv
<1>11. CASE RetryResetAgain
  <2>1. /\ pc = "again" /\ UNCHANGED <<tAtt, durSum, durN, completed, read, judged, observed>>
        /\ pc' = "loop" /\ attempt' = attempt + 1
        /\ clock' \in Nat /\ clock' >= clock
        /\ scene' = scene \/ scene' = Clean
        /\ lost' = IF scene' # scene THEN gated ELSE lost
    BY <1>11, ResetTypes DEF RetryResetAgain, Wiped, IInv
  <2>2. attempt \in 1..MaxAttempts /\ attempt < MaxAttempts /\ durN = attempt
    BY <2>1 DEF IInv, TypeOK, ChainCount, AfterChain
  <2>3. lost > 0 => gated > 0
    BY <2>1 DEF IInv, LostWindow, AfterChain
  <2>4. TypeOK'
    <3>1. scene' \in Verdict \cup {Clean, [case |-> "liner_down", iou |-> 0]}
      BY <2>1 DEF IInv, TypeOK
    <3>2. clock' \in Nat /\ tAtt' <= clock' /\ lost' \in Nat
      BY <2>1 DEF IInv, TypeOK
    <3> QED BY <2>1, <2>2, <3>1, <3>2 DEF IInv, TypeOK
  <2>5. ChainCount'
    BY <2>1, <2>2 DEF IInv, TypeOK, ChainCount, BeforeChain, AfterChain
  <2>6. VerdictHeld'
    BY <2>1 DEF IInv, VerdictHeld
  <2>7. LookedAhead' /\ LostWindow' /\ SelfZeroOnlyBySlowReset'
    BY <2>1, <2>2, <2>3 DEF IInv, TypeOK, LookedAhead, LostWindow, SelfZeroOnlyBySlowReset,
                            AfterChain
  <2> QED BY <2>4, <2>5, <2>6, <2>7 DEF IInv
<1>12. CASE Ended \/ UNCHANGED vars
  <2> SUFFICES ASSUME UNCHANGED vars PROVE IInv'
    BY <1>12 DEF Ended
  <2>1. TypeOK'
    BY DEF vars, IInv, TypeOK
  <2>2. ChainCount' /\ VerdictHeld' /\ LostWindow' /\ SelfZeroOnlyBySlowReset'
    BY DEF vars, IInv, ChainCount, VerdictHeld, LostWindow, SelfZeroOnlyBySlowReset,
           BeforeChain, AfterChain
  <2>3. LookedAhead'
    BY DEF vars, IInv, LookedAhead
  <2> QED BY <2>1, <2>2, <2>3 DEF IInv
<1> QED BY <1>1, <1>2, <1>3, <1>4, <1>5, <1>6, <1>7, <1>8, <1>9, <1>10, <1>11, <1>12 DEF Next

-----------------------------------------------------------------------------
(* Type correctness of the run loop, for any constants.                    *)
THEOREM TypeCorrect == Spec => []TypeOK
<1>1. IInv => TypeOK
  BY DEF IInv
<1> QED BY <1>1, InitIInv, NextIInv, PTL DEF Spec

(* The self-zero guard: with the built-in ladder no run ends on a scene    *)
(* from which it has itself reset the last scoring lay, unless the resets  *)
(* took longer than the cost the lookahead charged.                        *)
THEOREM SelfZeroGuarded == Spec => []SelfZeroOnlyBySlowReset
<1>1. IInv => SelfZeroOnlyBySlowReset
  BY DEF IInv
<1> QED BY <1>1, InitIInv, NextIInv, PTL DEF Spec

-----------------------------------------------------------------------------
(* The overrun of the wall budget.  An attempt starts within the budget    *)
(* (the first one after the startup); from there on, each place of main() is at most    *)
(* the waits behind it later.                                              *)
LEMMA MaxIsLongest ==
  ASSUME NEW S, S \subseteq Nat, \E longest \in S : \A t \in S : t <= longest
  PROVE  /\ Max(S) \in Nat
         /\ \A t \in S : t <= Max(S)
<1>1. PICK longest \in S : \A t \in S : longest >= t
  OBVIOUS
<1>2. Max(S) \in S /\ \A t \in S : Max(S) >= t
  BY <1>1 DEF Max
<1> QED BY <1>2

LEMMA LongestWaits ==
  /\ Max(StartupTimes) \in Nat /\ \A t \in StartupTimes : t <= Max(StartupTimes)
  /\ Max(CaptureTimes) \in Nat /\ \A t \in CaptureTimes : t <= Max(CaptureTimes)
  /\ Max(ChainTimes) \in Nat   /\ \A t \in ChainTimes : t <= Max(ChainTimes)
  /\ Max(VerdictTimes) \in Nat /\ \A t \in VerdictTimes : t <= Max(VerdictTimes)
  /\ Max(HandshakeWaits) \in Nat /\ \A t \in HandshakeWaits : t <= Max(HandshakeWaits)
  /\ Max(AckWaits \cup {AckTimeout}) \in Nat
  /\ \A t \in AckWaits \cup {AckTimeout} : t <= Max(AckWaits \cup {AckTimeout})
<1>1. ASSUME NEW waits \in {StartupTimes, CaptureTimes, ChainTimes, VerdictTimes,
                           HandshakeWaits, AckWaits}
      PROVE  waits \subseteq Nat /\ \E longest \in waits : \A t \in waits : t <= longest
  BY <1>1, RunAssumption, WaitsAssumption
<1>2. AckWaits \cup {AckTimeout} \subseteq Nat
  BY RunAssumption
<1>3. \E longest \in AckWaits \cup {AckTimeout} :
        \A t \in AckWaits \cup {AckTimeout} : t <= longest
  <2>1. PICK w \in AckWaits : \A t \in AckWaits : t <= w
    BY <1>1
  <2>2. CASE w <= AckTimeout
    <3>1. \A t \in AckWaits \cup {AckTimeout} : t <= AckTimeout
      BY <2>1, <2>2, RunAssumption
    <3> QED BY <3>1
  <2>3. CASE ~(w <= AckTimeout)
    <3>1. \A t \in AckWaits \cup {AckTimeout} : t <= w
      BY <2>1, <2>3, RunAssumption
    <3> QED BY <3>1, <2>1
  <2> QED BY <2>2, <2>3
<1>4. \A waits \in {StartupTimes, CaptureTimes, ChainTimes, VerdictTimes, HandshakeWaits} :
        Max(waits) \in Nat /\ \A t \in waits : t <= Max(waits)
  BY <1>1, MaxIsLongest
<1>5. /\ Max(AckWaits \cup {AckTimeout}) \in Nat
      /\ \A t \in AckWaits \cup {AckTimeout} : t <= Max(AckWaits \cup {AckTimeout})
  BY <1>2, <1>3, MaxIsLongest
<1> QED BY <1>4, <1>5

LEMMA ResetTakesAtMost ==
  ASSUME clock \in Nat, ResetAcked \/ ResetUnacked
  PROVE  /\ LongestReset \in Nat /\ clock' \in Nat
         /\ clock' <= clock + LongestReset
<1>1. LongestReset \in Nat
  BY LongestWaits, RunAssumption DEF LongestReset
<1>2. CASE ResetAcked
  <2>1. PICK h \in HandshakeWaits, w \in AckWaits : clock' = clock + h + w + Settle
    BY <1>2 DEF ResetAcked
  <2>2. h <= Max(HandshakeWaits) /\ w <= Max(AckWaits \cup {AckTimeout})
    BY LongestWaits
  <2>3. h \in Nat /\ w \in Nat
    BY RunAssumption
  <2> QED BY <1>1, <2>1, <2>2, <2>3, LongestWaits, RunAssumption DEF LongestReset
<1>3. CASE ResetUnacked
  <2>1. PICK h \in HandshakeWaits : clock' = clock + h + AckTimeout
    BY <1>3 DEF ResetUnacked
  <2>2. h <= Max(HandshakeWaits) /\ AckTimeout <= Max(AckWaits \cup {AckTimeout})
    BY LongestWaits
  <2>3. h \in Nat
    BY RunAssumption
  <2> QED BY <1>1, <2>1, <2>2, <2>3, LongestWaits, RunAssumption DEF LongestReset
<1> QED BY <1>2, <1>3

\* How late an attempt can start, and how late each place of it can be.
LastStart == Larger(Budget, Max(StartupTimes))
LongestCapture == Max(CaptureTimes)
Judged == LastStart + 2 * LongestCapture + LongestReset + Max(ChainTimes) + Max(VerdictTimes)

Punctual ==
  /\ pc = "loop" /\ attempt = 1 => clock <= LastStart
  /\ pc = "capture"   => clock <= LastStart
  /\ pc = "recover"   => clock <= LastStart + LongestCapture
  /\ pc = "recapture" => clock <= LastStart + LongestCapture + LongestReset
  /\ pc = "chain"     => clock <= LastStart + 2 * LongestCapture + LongestReset
  /\ pc = "verdict"   => clock <= LastStart + 2 * LongestCapture + LongestReset + Max(ChainTimes)
  /\ pc \in {"judge", "reset"} => clock <= Judged
  /\ pc = "again"     => clock <= Judged + LongestReset
  /\ clock <= Judged + 2 * LongestReset

LEMMA BoundsTyped ==
  /\ LongestCapture \in Nat /\ LongestReset \in Nat /\ Budget \in Nat
  /\ LastStart \in Nat /\ Budget <= LastStart
  /\ \A t \in StartupTimes : t \in Nat /\ t <= LastStart
  /\ Max(ChainTimes) \in Nat /\ Max(VerdictTimes) \in Nat /\ Judged \in Nat
<1>1. LongestCapture \in Nat /\ Max(ChainTimes) \in Nat /\ Max(VerdictTimes) \in Nat
  BY LongestWaits DEF LongestCapture
<1>2. LongestReset \in Nat
  BY LongestWaits, RunAssumption DEF LongestReset
<1>3. /\ LastStart \in Nat /\ Budget <= LastStart /\ Budget \in Nat
      /\ \A t \in StartupTimes : t \in Nat /\ t <= LastStart
  BY LongestWaits, RunAssumption, TimeAssumption DEF LastStart, Larger
<1> QED BY <1>1, <1>2, <1>3 DEF Judged

LEMMA NextPunctual == IInv /\ Punctual /\ [Next]_vars => Punctual'
<1> SUFFICES ASSUME IInv, Punctual, [Next]_vars PROVE Punctual'
  OBVIOUS
<1> USE BoundsTyped DEF timing, read, judged, Judged
<1>0. clock \in Nat /\ attempt \in Nat /\ durSum \in Nat /\ durN \in Nat
  BY RunAssumption DEF IInv, TypeOK
<1>1. CASE StartAttempt
  <2>1. clock <= LastStart
    <3>1. CASE attempt = 1
      BY <1>0, <1>1, <3>1 DEF StartAttempt, Punctual
    <3>2. CASE attempt # 1
      <4>1. attempt > 1
        BY <3>2 DEF IInv, TypeOK
      <4> QED BY <1>0, <1>1, <4>1 DEF StartAttempt, ShouldStart
    <3> QED BY <3>1, <3>2
  <2> QED BY <1>0, <1>1, <2>1 DEF StartAttempt, Punctual
<1>2. CASE BudgetSpent \/ AttemptsSpent
  BY <1>0, <1>2 DEF BudgetSpent, AttemptsSpent, Punctual
<1>3. CASE CaptureIds
  <2>1. PICK t \in CaptureTimes : clock' = clock + t /\ pc' \in {"chain", "recover"}
    BY <1>3 DEF CaptureIds
  <2>2. t \in Nat /\ t <= LongestCapture
    BY LongestWaits, RunAssumption DEF LongestCapture
  <2> QED BY <1>0, <1>3, <2>1, <2>2 DEF CaptureIds, Punctual
<1>4. CASE RecoveryReset
  <2>1. pc = "recover" /\ pc' \in {"recapture", "chain"}
    BY <1>4 DEF RecoveryReset
  <2>2. clock' \in Nat /\ clock' <= clock + LongestReset
    BY <1>0, <1>4, ResetTakesAtMost DEF RecoveryReset
  <2> QED BY <1>0, <2>1, <2>2 DEF Punctual
<1>5. CASE Recapture
  <2>1. PICK t \in CaptureTimes : clock' = clock + t
    BY <1>5 DEF Recapture
  <2>2. t \in Nat /\ t <= LongestCapture
    BY LongestWaits, RunAssumption DEF LongestCapture
  <2> QED BY <1>0, <1>5, <2>1, <2>2 DEF Recapture, Punctual
<1>6. CASE RunChain
  <2>1. PICK d \in ChainTimes : clock' = clock + d
    BY <1>6 DEF RunChain
  <2>2. d \in Nat /\ d <= Max(ChainTimes)
    BY LongestWaits, RunAssumption
  <2>3. pc = "chain" /\ pc' \in {"verdict", "stopped"}
    BY <1>6 DEF RunChain
  <2> QED BY <1>0, <2>1, <2>2, <2>3 DEF Punctual
<1>7. CASE TakeVerdict
  <2>1. pc = "verdict" /\ pc' = "judge"
    BY <1>7 DEF TakeVerdict
  <2>2. CASE clock' = clock
    BY <1>0, <2>1, <2>2 DEF Punctual
  <2>3. CASE \E t \in VerdictTimes : clock' = clock + t
    <3>1. PICK t \in VerdictTimes : clock' = clock + t
      BY <2>3
    <3>2. t \in Nat /\ t <= Max(VerdictTimes)
      BY LongestWaits, RunAssumption
    <3> QED BY <1>0, <2>1, <3>1, <3>2 DEF Punctual
  <2> QED BY <1>7, <2>2, <2>3 DEF TakeVerdict
<1>8. CASE Judge
  <2>1. pc = "judge" /\ clock' = clock /\ pc' \in {"accepted", "reset", "loop"}
    BY <1>8 DEF Judge
  <2>2. PICK accept \in BOOLEAN :
          /\ pc' = IF accept THEN "accepted"
                   ELSE IF attempt < MaxAttempts THEN "reset" ELSE "loop"
          /\ attempt' = IF ~accept /\ attempt >= MaxAttempts THEN attempt + 1 ELSE attempt
    BY <1>8 DEF Judge, Accepts
  <2>3. attempt' = 1 => pc' # "loop"
    BY <1>0, <2>2, RunAssumption DEF IInv, TypeOK
  <2> QED BY <1>0, <2>1, <2>3 DEF Punctual
<1>9. CASE RetryReset
  <2>1. pc = "reset" /\ pc' \in {"loop", "again"} /\ (pc' = "loop" => attempt' = attempt + 1)
    BY <1>9 DEF RetryReset
  <2>2. clock' \in Nat /\ clock' <= clock + LongestReset
    BY <1>0, <1>9, ResetTakesAtMost DEF RetryReset
  <2>3. pc' = "loop" => attempt' # 1
    BY <2>1 DEF IInv, TypeOK
  <2> QED BY <1>0, <2>1, <2>2, <2>3 DEF Punctual
<1>10. CASE RetryResetAgain
  <2>1. pc = "again" /\ pc' = "loop" /\ attempt' = attempt + 1
    BY <1>10 DEF RetryResetAgain
  <2>2. clock' \in Nat /\ clock' <= clock + LongestReset
    BY <1>0, <1>10, ResetTakesAtMost DEF RetryResetAgain
  <2>3. attempt' # 1
    BY <2>1 DEF IInv, TypeOK
  <2> QED BY <1>0, <2>1, <2>2, <2>3 DEF Punctual
<1>11. CASE Ended \/ UNCHANGED vars
  BY <1>11 DEF Ended, vars, Punctual
<1> QED
  BY <1>1, <1>2, <1>3, <1>4, <1>5, <1>6, <1>7, <1>8, <1>9, <1>10, <1>11 DEF Next

(* However long its waits are, as long as each has a bound, a run overruns *)
(* its wall budget, or a startup that took longer than the budget, by no   *)
(* more than one attempt and the resets around it.                         *)
THEOREM OverrunIsBounded == Spec => []OverrunBound
<1>1. Init => Punctual
  BY BoundsTyped DEF Init, Punctual, Judged
<1>2. IInv /\ Punctual => OverrunBound
  <2> SUFFICES ASSUME IInv, Punctual PROVE OverrunBound
    OBVIOUS
  <2>1. clock \in Nat
    BY DEF IInv, TypeOK
  <2>2. clock <= Judged + 2 * LongestReset
    BY DEF Punctual
  <2>3. clock <= LastStart + 2 * LongestCapture + Max(ChainTimes) + Max(VerdictTimes)
                   + 3 * LongestReset
    BY <2>1, <2>2, BoundsTyped DEF Judged
  <2> QED BY <2>3 DEF OverrunBound, LongestCapture, LastStart
<1> QED BY <1>1, <1>2, InitIInv, NextIInv, NextPunctual, PTL DEF Spec

-----------------------------------------------------------------------------
(* The refinement.  PhaseOf and ScoreOf are the mapping Promise uses.      *)
PhaseOf == CASE pc = "accepted" -> "kept"
             [] pc = "stopped"  -> "gave_up"
             [] OTHER           -> "hunting"
ScoreOf == Gated(IF source = "official" THEN scene ELSE verdict)

(* While a verdict is held, the mapped score is its gated IoU; before and  *)
(* after that it is 0.                                                     *)
LEMMA ScoreIsTheVerdicts ==
  ASSUME IInv PROVE ScoreOf = Gated(verdict)
  BY DEF IInv, VerdictHeld, ScoreOf

LEMMA ScoreStep ==
  ASSUME IInv, IInv', UNCHANGED verdict PROVE ScoreOf' = ScoreOf
<1>1. ScoreOf = Gated(verdict)
  BY ScoreIsTheVerdicts
<1>2. ScoreOf' = Gated(verdict')
  BY DEF IInv, VerdictHeld, ScoreOf
<1> QED BY <1>1, <1>2

(* An accepted verdict scores (judge_attempt).                             *)
LEMMA AcceptedScores ==
  ASSUME NEW stop, NEW total, NEW att, NEW obs, Accepts(stop, total, att, obs)
  PROVE  Gated(verdict) > 0
  BY DEF Accepts

LEMMA PromiseInit == Init => Promise!Init
  BY DEF Init, Promise!Init, Gated, NoVerdict

LEMMA PromiseStep ==
  IInv /\ IInv' /\ [Next]_vars => [Promise!Next]_(Promise!vars)
<1> SUFFICES ASSUME IInv, IInv', [Next]_vars
             PROVE  [Promise!Next]_(Promise!vars)
  OBVIOUS
<1> USE DEF PhaseOf, ScoreOf
<1>1. ASSUME UNCHANGED verdict, UNCHANGED durN, PhaseOf' = PhaseOf
      PROVE  UNCHANGED Promise!vars
  BY <1>1, ScoreStep DEF Promise!vars
<1>2. CASE StartAttempt \/ CaptureIds \/ RecoveryReset \/ Recapture \/ RetryReset \/ RetryResetAgain
  BY <1>1, <1>2 DEF StartAttempt, CaptureIds, RecoveryReset, Recapture, RetryReset,
                    RetryResetAgain, read, timing
<1>3. CASE BudgetSpent \/ AttemptsSpent
  <2>1. /\ pc = "loop" /\ pc' = "stopped"
        /\ UNCHANGED <<verdict, durN>>
    BY <1>3 DEF BudgetSpent, AttemptsSpent, read, timing
  <2>2. ScoreOf' = ScoreOf
    BY <2>1, ScoreStep
  <2>3. Promise!GiveUp
    BY <2>1, <2>2 DEF Promise!GiveUp
  <2> QED BY <2>3 DEF Promise!Next
<1>4. CASE RunChain
  <2>1. pc = "chain" /\ pc' \in {"verdict", "stopped"} /\ durN' = durN + 1
    BY <1>4 DEF RunChain
  <2>2. durN < MaxAttempts
    BY <2>1, RunAssumption DEF IInv, TypeOK, ChainCount, BeforeChain
  <2>3. verdict' = NoVerdict
    BY <2>1 DEF IInv, VerdictHeld
  <2>4. ScoreOf' = 0
    BY <2>3, GatedNoVerdict DEF IInv, VerdictHeld
  <2>5. Promise!Try
    BY <2>1, <2>2, <2>4 DEF Promise!Try
  <2> QED BY <2>5 DEF Promise!Next
<1>5. CASE TakeVerdict
  <2>1. pc = "verdict" /\ pc' = "judge" /\ UNCHANGED durN
    BY <1>5 DEF TakeVerdict, timing
  <2>2. durN > 0
    BY <2>1 DEF IInv, TypeOK, ChainCount, AfterChain
  <2>3. Gated(verdict') \in Nat
    BY GatedIsNatural DEF IInv, TypeOK
  <2>4. ScoreOf' \in Nat
    BY <2>3 DEF IInv, VerdictHeld
  <2>5. Promise!Read
    BY <2>1, <2>2, <2>4 DEF Promise!Read
  <2> QED BY <2>5 DEF Promise!Next
<1>6. CASE Judge
  <2>1. PICK stop, total :
          LET accept == Accepts(stop, total, attempt, observed)
          IN  /\ pc = "judge" /\ UNCHANGED durN
              /\ pc' = IF accept THEN "accepted"
                       ELSE IF attempt < MaxAttempts THEN "reset" ELSE "loop"
              /\ verdict' = IF accept THEN verdict ELSE NoVerdict
    BY <1>6 DEF Judge, timing
  <2>2. CASE Accepts(stop, total, attempt, observed)
    <3>1. pc' = "accepted" /\ verdict' = verdict
      BY <2>1, <2>2
    <3>2. ScoreOf' = ScoreOf /\ ScoreOf > 0
      BY <2>2, <3>1, ScoreStep, ScoreIsTheVerdicts, AcceptedScores
    <3>3. Promise!Keep
      BY <2>1, <3>1, <3>2 DEF Promise!Keep
    <3> QED BY <3>3 DEF Promise!Next
  <2>3. CASE ~Accepts(stop, total, attempt, observed)
    <3>1. pc' \in {"reset", "loop"} /\ verdict' = NoVerdict
      BY <2>1, <2>3
    <3>2. ScoreOf' = 0
      BY <3>1, GatedNoVerdict DEF IInv, VerdictHeld
    <3>3. Promise!Wipe
      BY <2>1, <3>1, <3>2 DEF Promise!Wipe
    <3> QED BY <3>3 DEF Promise!Next
  <2> QED BY <2>2, <2>3
<1>7. CASE Ended \/ UNCHANGED vars
  BY <1>1, <1>7 DEF Ended, vars
<1> QED BY <1>2, <1>3, <1>4, <1>5, <1>6, <1>7 DEF Next

(* The run keeps its promise: it implements AcceptAndStop.                 *)
THEOREM RunKeepsPromise == Spec => KeepsPromise
<1>1. Spec => []IInv
  BY InitIInv, NextIInv, PTL DEF Spec
<1> QED BY <1>1, PromiseInit, PromiseStep, PTL DEF Spec, KeepsPromise, Promise!Spec
-----------------------------------------------------------------------------
(* The run goes down.  Its rank is the attempts left and then the steps    *)
(* left in the attempt, where the step that begins a new attempt counts as *)
(* the attempt it ends.                                                    *)

Over == pc \in {"accepted", "stopped"}

StepsLeft ==
  [loop |-> 9, capture |-> 8, recover |-> 7, recapture |-> 6, chain |-> 5,
   verdict |-> 4, judge |-> 3, reset |-> 2, again |-> 1, accepted |-> 0,
   stopped |-> 0]

Rank == <<MaxAttempts + 1 - attempt, StepsLeft[pc]>>

LEMMA RankTyped == TypeOK => Rank \in Ranks(2)
<1> SUFFICES ASSUME TypeOK PROVE Rank \in Ranks(2)
  OBVIOUS
<1>1. MaxAttempts + 1 - attempt \in Nat
  BY RunAssumption DEF TypeOK
<1>2. StepsLeft[pc] \in Nat
  BY DEF TypeOK, StepsLeft
<1>3. DOMAIN Rank = 1..2 /\ Rank[1] \in Nat /\ Rank[2] \in Nat
  BY <1>1, <1>2 DEF Rank
<1> QED BY <1>3 DEF Rank, Ranks

LEMMA NextAttemptLowers ==
  ASSUME TypeOK, TypeOK', attempt' = attempt + 1
  PROVE  <<Rank', Rank>> \in Lower(2)
<1>1. Rank \in Ranks(2) /\ Rank' \in Ranks(2)
  <2>1. (TypeOK => Rank \in Ranks(2))'
    BY RankTyped, PTL
  <2> QED BY <2>1, RankTyped
<1>2. Rank'[1] < Rank[1]
  BY RunAssumption DEF TypeOK, Rank
<1>3. \A j \in 1..(1 - 1) : Rank'[j] <= Rank[j]
  OBVIOUS
<1> QED
  <2>1. 1 \in 1..2 /\ 2 \in Nat
    OBVIOUS
  <2> QED BY <1>1, <1>2, <1>3, <2>1, LowerBy

LEMMA StepLowers ==
  ASSUME TypeOK, TypeOK', attempt' = attempt, StepsLeft[pc'] < StepsLeft[pc]
  PROVE  <<Rank', Rank>> \in Lower(2)
<1>1. Rank \in Ranks(2) /\ Rank' \in Ranks(2)
  <2>1. (TypeOK => Rank \in Ranks(2))'
    BY RankTyped, PTL
  <2> QED BY <2>1, RankTyped
<1>2. Rank'[2] < Rank[2]
  BY DEF Rank
<1>3. \A j \in 1..(2 - 1) : Rank'[j] <= Rank[j]
  BY RunAssumption DEF TypeOK, Rank
<1> QED
  <2>1. 2 \in 1..2 /\ 2 \in Nat
    OBVIOUS
  <2> QED BY <1>1, <1>2, <1>3, <2>1, LowerBy

LEMMA NextLowers ==
  ASSUME IInv, [Next]_vars, ~Over
  PROVE  UNCHANGED vars \/ <<Rank', Rank>> \in Lower(2)
<1>1. TypeOK /\ TypeOK'
  BY NextIInv DEF IInv
<1>2. CASE StartAttempt \/ BudgetSpent \/ AttemptsSpent
  <2>1. attempt' = attempt /\ StepsLeft[pc'] < StepsLeft[pc]
    BY <1>2 DEF StartAttempt, BudgetSpent, AttemptsSpent, StepsLeft
  <2> QED BY <1>1, <2>1, StepLowers
<1>3. CASE CaptureIds \/ RecoveryReset \/ Recapture
  <2>1. attempt' = attempt /\ StepsLeft[pc'] < StepsLeft[pc]
    BY <1>3 DEF CaptureIds, RecoveryReset, Recapture, StepsLeft
  <2> QED BY <1>1, <2>1, StepLowers
<1>4. CASE RunChain \/ TakeVerdict
  <2>1. attempt' = attempt /\ StepsLeft[pc'] < StepsLeft[pc]
    BY <1>4 DEF RunChain, TakeVerdict, StepsLeft
  <2> QED BY <1>1, <2>1, StepLowers
<1>5. CASE Judge
  <2>1. \/ attempt' = attempt /\ pc' \in {"accepted", "reset"}
        \/ attempt' = attempt + 1
    <3>1. attempt < MaxAttempts \/ attempt >= MaxAttempts
      BY <1>1, RunAssumption DEF TypeOK
    <3>2. PICK accept \in BOOLEAN :
            /\ pc' = IF accept THEN "accepted"
                     ELSE IF attempt < MaxAttempts THEN "reset" ELSE "loop"
            /\ attempt' = IF ~accept /\ attempt >= MaxAttempts THEN attempt + 1 ELSE attempt
      BY <1>5 DEF Judge
    <3> QED BY <3>1, <3>2
  <2>2. pc = "judge"
    BY <1>5 DEF Judge
  <2>3. pc' \in {"accepted", "reset"} => StepsLeft[pc'] < StepsLeft[pc]
    BY <2>2 DEF StepsLeft
  <2> QED BY <1>1, <2>1, <2>3, StepLowers, NextAttemptLowers
<1>6. CASE RetryReset
  <2>1. \/ attempt' = attempt + 1
        \/ attempt' = attempt /\ pc = "reset" /\ pc' = "again"
    BY <1>6 DEF RetryReset
  <2>2. pc = "reset" /\ pc' = "again" => StepsLeft[pc'] < StepsLeft[pc]
    BY DEF StepsLeft
  <2> QED BY <1>1, <2>1, <2>2, StepLowers, NextAttemptLowers
<1>7. CASE RetryResetAgain
  BY <1>1, <1>7, NextAttemptLowers DEF RetryResetAgain
<1>8. ~Ended
  BY DEF Ended, Over
<1> QED BY <1>2, <1>3, <1>4, <1>5, <1>6, <1>7, <1>8 DEF Next

(* What stands behind "every run ends" for every budget, cap and wait:     *)
(* each step before the end lowers a rank in a well-founded order, and the *)
(* end is final.  A run that never ended would have to stop taking steps   *)
(* (the attempt loop of main, official_run.py:915-1029).                   *)
THEOREM RunRunsDown ==
  /\ IsWellFoundedOn(Lower(2), Ranks(2))
  /\ Spec => [](Rank \in Ranks(2))
  /\ Spec => [][IF Over THEN UNCHANGED vars ELSE <<Rank', Rank>> \in Lower(2)]_vars
<1>1. IsWellFoundedOn(Lower(2), Ranks(2))
  BY LowerIsWellFounded
<1>2. IInv => Rank \in Ranks(2)
  BY RankTyped DEF IInv
<1>3. IInv /\ [Next]_vars
        => [IF Over THEN UNCHANGED vars ELSE <<Rank', Rank>> \in Lower(2)]_vars
  <2>1. [Next]_vars /\ Over => UNCHANGED vars
    BY DEF Over, Next, Ended, StartAttempt, BudgetSpent, AttemptsSpent, CaptureIds,
       RecoveryReset, Recapture, RunChain, TakeVerdict, Judge, RetryReset,
       RetryResetAgain
  <2> QED BY <2>1, NextLowers
<1> QED BY <1>1, <1>2, <1>3, InitIInv, NextIInv, PTL DEF Spec

=============================================================================
