------------------------ MODULE ResetHandshakeProofs ------------------------
(***************************************************************************)
(* Theorems about ResetHandshake for any number of calls: what it          *)
(* guarantees with a scene that answers a request it has received before   *)
(* the wait for it is over, and that it runs down with any scene.          *)
(***************************************************************************)
EXTENDS ResetHandshake, NumberFacts

\* Outside a call that waits or settles the scene is at rest and owes nothing.
Quiet ==
  client \in {"idle", "matching", "chain", "kept"} =>
    requests = 0 /\ scene # "moving"

\* A call is made only if the chain after it may run.
CallsLeft ==
  client \in {"matching", "waiting", "settling", "chain"} => chains < MaxCalls

\* A node is fresh, and what it has heard is the answer to its own request.
HeardOwnAnswer ==
  /\ client = "matching" => ~got
  /\ client = "waiting" /\ got => requests = 0 /\ scene # "lay"

IInv == TypeOK /\ Quiet /\ CallsLeft /\ HeardOwnAnswer /\ AckIsForThisRequest

LEMMA InitIInv == Init => IInv
<1> SUFFICES ASSUME Init PROVE IInv
  OBVIOUS
<1>1. TypeOK
  <2>1. requests \in Nat /\ requests <= 1 /\ chains \in 0..MaxCalls
    BY HandshakeAssumption DEF Init
  <2> QED BY <2>1, Zenon DEF Init, TypeOK
<1>2. Quiet /\ CallsLeft /\ HeardOwnAnswer /\ AckIsForThisRequest
  BY DEF Init, Quiet, CallsLeft, HeardOwnAnswer, AckIsForThisRequest
<1> QED BY <1>1, <1>2 DEF IInv

LEMMA FreshNodeListens ==
  ASSUME IInv, NEW c \in {1, 2}, FreshNode(c), requests = 0, scene # "moving", chains < MaxCalls,
         UNCHANGED <<requests, scene, chains>>
  PROVE  IInv'
  BY DEF FreshNode, IInv, TypeOK, Quiet, CallsLeft, HeardOwnAnswer, AckIsForThisRequest

LEMMA NextIInv == Prompt /\ IInv /\ [Next]_vars => IInv'
<1> SUFFICES ASSUME Prompt, IInv, [Next]_vars PROVE IInv'
  OBVIOUS
<1> USE HandshakeAssumption
<1> USE DEF IInv, TypeOK, Quiet, CallsLeft, HeardOwnAnswer, AckIsForThisRequest
<1>1. CASE CallReset
  <2>1. PICK c \in {1, 2} : FreshNode(c)
    BY <1>1 DEF CallReset
  <2> QED BY <1>1, <2>1, FreshNodeListens DEF CallReset
<1>2. CASE Publish
  BY <1>2 DEF Publish
<1>3. CASE EventSeen
  BY <1>3 DEF EventSeen
<1>4. CASE WaitTimeout
  <2>1. CASE call = 1
    BY <1>4, <2>1, FreshNodeListens DEF WaitTimeout
  <2>2. CASE call # 1
    BY <1>4, <2>2 DEF WaitTimeout
  <2> QED BY <2>1, <2>2
<1>5. CASE SettleOver
  BY <1>5 DEF SettleOver
<1>6. CASE ChainEnds
  BY <1>6 DEF ChainEnds
<1>7. CASE DiscoverRequest
  BY <1>7 DEF DiscoverRequest, Listening
<1>8. CASE DiscoverEvent
  BY <1>8 DEF DiscoverEvent, Listening
<1>9. CASE PerformReset
  BY <1>9 DEF PerformReset, Listening
<1>10. CASE ComeToRest
  BY <1>10 DEF ComeToRest
<1>11. CASE UNCHANGED vars
  BY <1>11 DEF vars
<1> QED
  BY <1>1, <1>2, <1>3, <1>4, <1>5, <1>6, <1>7, <1>8, <1>9, <1>10, <1>11
  DEF Next, Client, Reset, Scene, Ended

(* The inductive invariant holds throughout, if the scene is prompt.       *)
THEOREM Invariant == Prompt => (Spec => []IInv)
<1> SUFFICES ASSUME Prompt PROVE Spec => []IInv
  OBVIOUS
<1>1. Init => IInv
  BY InitIInv
<1>2. IInv /\ [Next]_vars => IInv'
  BY NextIInv
<1> QED BY <1>1, <1>2, PTL DEF Spec

(* Every state of the handshake is well typed, and a prompt scene never    *)
(* owes more than one reset.                                               *)
THEOREM TypeCorrect == Prompt => (Spec => []TypeOK)
<1> SUFFICES ASSUME Prompt PROVE Spec => []TypeOK
  OBVIOUS
<1>1. Spec => []IInv
  BY Invariant
<1>2. IInv => TypeOK
  BY DEF IInv
<1> QED BY <1>1, <1>2, PTL

(* scene_reset returns True only on the event of its own request, in any   *)
(* run of lost requests, lost events and retries (official_run.py:804-850).*)
THEOREM AckAnswersOwnRequest == Prompt => (Spec => []AckIsForThisRequest)
<1> SUFFICES ASSUME Prompt PROVE Spec => []AckIsForThisRequest
  OBVIOUS
<1>1. Spec => []IInv
  BY Invariant
<1>2. IInv => AckIsForThisRequest
  BY DEF IInv
<1> QED BY <1>1, <1>2, PTL

(* No reset lands on a running chain or on a kept lay: none is owed then.  *)
THEOREM ChainsUndisturbed == Prompt => (Spec => NoResetUnderChain)
<1> SUFFICES ASSUME Prompt PROVE Spec => NoResetUnderChain
  OBVIOUS
<1>1. Spec => []IInv
  BY Invariant
<1>2. IInv /\ [Next]_vars
        => [(client \in {"chain", "kept"}) => requests' = requests]_vars
  <2> SUFFICES ASSUME IInv, Next, client \in {"chain", "kept"}
               PROVE  requests' = requests
    OBVIOUS
  <2>1. requests = 0
    BY DEF IInv, Quiet
  <2>2. ~Publish /\ ~PerformReset
    BY <2>1 DEF Publish, PerformReset
  <2> QED
    BY <2>2 DEF Next, Client, Reset, Scene, CallReset, EventSeen, WaitTimeout, SettleOver,
                ChainEnds, DiscoverRequest, DiscoverEvent, ComeToRest, Ended, vars
<1> QED BY <1>1, <1>2, PTL DEF Spec, NoResetUnderChain

-----------------------------------------------------------------------------
(* The handshake goes down, whatever the scene does.  Its rank is the      *)
(* chains left, the steps left to the next chain, what the scene still     *)
(* owes, and the halves of the node that have not been discovered.         *)

StepsLeft ==
  CASE client = "idle" -> 7
    [] client = "matching" -> IF call = 1 THEN 6 ELSE 4
    [] client = "waiting"  -> IF call = 1 THEN 5 ELSE 3
    [] client = "settling" -> 2
    [] client = "chain"    -> 1
    [] OTHER -> 0

Owed == 2 * requests + IF scene = "moving" THEN 1 ELSE 0

Undiscovered == (IF reqUp THEN 0 ELSE 1) + (IF evtUp THEN 0 ELSE 1)

Rank == <<MaxCalls - chains, StepsLeft, Owed, Undiscovered>>

\* What the rank needs to know of the state: less than IInv, and without Prompt.
Counted ==
  /\ client \in {"idle", "matching", "waiting", "settling", "chain", "kept"}
  /\ call \in {1, 2}
  /\ requests \in Nat /\ chains \in 0..MaxCalls
  /\ CallsLeft

LEMMA InitCounted == Init => Counted
  BY HandshakeAssumption DEF Init, Counted, CallsLeft

LEMMA NextCounted == Counted /\ [Next]_vars => Counted'
<1> SUFFICES ASSUME Counted, [Next]_vars PROVE Counted'
  OBVIOUS
<1> USE HandshakeAssumption DEF Counted, CallsLeft
<1>1. CASE CallReset
  BY <1>1 DEF CallReset, FreshNode
<1>2. CASE Publish
  BY <1>2 DEF Publish
<1>3. CASE EventSeen \/ SettleOver
  BY <1>3 DEF EventSeen, SettleOver
<1>4. CASE WaitTimeout
  BY <1>4 DEF WaitTimeout, FreshNode
<1>5. CASE ChainEnds
  BY <1>5 DEF ChainEnds
<1>6. CASE DiscoverRequest \/ DiscoverEvent \/ ComeToRest
  BY <1>6 DEF DiscoverRequest, DiscoverEvent, ComeToRest
<1>7. CASE PerformReset
  BY <1>7 DEF PerformReset
<1>8. CASE Ended \/ UNCHANGED vars
  BY <1>8 DEF Ended, vars
<1> QED
  BY <1>1, <1>2, <1>3, <1>4, <1>5, <1>6, <1>7, <1>8 DEF Next, Client, Reset, Scene

LEMMA RankTyped == Counted => Rank \in Ranks(4)
<1> SUFFICES ASSUME Counted PROVE Rank \in Ranks(4)
  OBVIOUS
<1>1. MaxCalls - chains \in Nat
  BY HandshakeAssumption DEF Counted
<1>2. StepsLeft \in Nat
  BY DEF StepsLeft
<1>3. Owed \in Nat
  BY DEF Owed, Counted
<1>4. Undiscovered \in Nat
  BY DEF Undiscovered
<1>5. Rank[1] \in Nat /\ Rank[2] \in Nat /\ Rank[3] \in Nat /\ Rank[4] \in Nat
  BY <1>1, <1>2, <1>3, <1>4 DEF Rank
<1>6. Rank = [i \in 1..4 |-> Rank[i]]
  BY DEF Rank
<1>7. \A i \in 1..4 : Rank[i] \in Nat
  BY <1>5
<1> HIDE DEF Rank
<1> QED BY <1>6, <1>7 DEF Ranks

Fewer(i) == Rank'[i] < Rank[i] /\ \A j \in 1..(i - 1) : Rank'[j] <= Rank[j]

LEMMA FewerLowers ==
  ASSUME Counted, Counted', NEW i \in 1..4, Fewer(i)
  PROVE  <<Rank', Rank>> \in Lower(4)
<1>1. Rank \in Ranks(4) /\ Rank' \in Ranks(4)
  <2>1. (Counted => Rank \in Ranks(4))'
    BY RankTyped, PTL
  <2> QED BY <2>1, RankTyped
<1> QED BY <1>1, LowerBy DEF Fewer

LEMMA NextLowers ==
  ASSUME Counted, Next
  PROVE  UNCHANGED vars \/ <<Rank', Rank>> \in Lower(4)
<1>1. Counted'
  BY NextCounted
<1>2. \A j \in 1..4 : Rank[j] \in Nat
  BY RankTyped DEF Ranks
<1>3. requests \in Nat /\ chains \in Nat /\ MaxCalls \in Nat
      /\ call \in {1, 2}
  BY HandshakeAssumption DEF Counted
<1>4. ASSUME chains' = chains + 1 PROVE Fewer(1)
  BY <1>3, <1>4 DEF Fewer, Rank
<1>5. ASSUME chains' = chains, StepsLeft' < StepsLeft PROVE Fewer(2)
  <2>1. Rank'[2] < Rank[2] /\ Rank'[1] = Rank[1]
    BY <1>5 DEF Rank
  <2> QED BY <1>2, <2>1 DEF Fewer
<1>6. ASSUME UNCHANGED <<chains, client, call>>, Owed' < Owed PROVE Fewer(3)
  <2>1. Rank'[3] < Rank[3] /\ Rank'[1] = Rank[1] /\ Rank'[2] = Rank[2]
    BY <1>6 DEF Rank, StepsLeft
  <2> QED BY <1>2, <2>1 DEF Fewer
<1>7. ASSUME UNCHANGED <<chains, client, call, requests, scene>>,
             Undiscovered' < Undiscovered
      PROVE  Fewer(4)
  <2>1. /\ Rank'[4] < Rank[4]
        /\ Rank'[1] = Rank[1] /\ Rank'[2] = Rank[2] /\ Rank'[3] = Rank[3]
    BY <1>7 DEF Rank, StepsLeft, Owed
  <2> QED BY <1>2, <2>1 DEF Fewer
<1>8. CASE CallReset \/ Publish \/ EventSeen \/ SettleOver
  <2>1. chains' = chains /\ StepsLeft' < StepsLeft
    BY <1>3, <1>8 DEF CallReset, FreshNode, Publish, EventSeen, SettleOver, StepsLeft
  <2> QED BY <1>1, <1>5, <2>1, FewerLowers
<1>9. CASE WaitTimeout
  <2>1. chains' = chains /\ StepsLeft' < StepsLeft
    BY <1>3, <1>9 DEF WaitTimeout, FreshNode, StepsLeft
  <2> QED BY <1>1, <1>5, <2>1, FewerLowers
<1>10. CASE ChainEnds
  BY <1>1, <1>4, <1>10, FewerLowers DEF ChainEnds
<1>11. CASE PerformReset \/ ComeToRest
  <2>1. Owed' < Owed
    BY <1>3, <1>11 DEF PerformReset, ComeToRest, Owed
  <2> QED BY <1>1, <1>6, <1>11, <2>1, FewerLowers DEF PerformReset, ComeToRest
<1>12. CASE DiscoverRequest \/ DiscoverEvent
  <2>1. Undiscovered' < Undiscovered
    BY <1>12 DEF DiscoverRequest, DiscoverEvent, Undiscovered
  <2> QED BY <1>1, <1>7, <1>12, <2>1, FewerLowers DEF DiscoverRequest, DiscoverEvent
<1>13. CASE Ended
  BY <1>13 DEF Ended
<1> QED
  BY <1>8, <1>9, <1>10, <1>11, <1>12, <1>13 DEF Next, Client, Reset, Scene

(* What stands behind "every reset call returns", with any scene and any   *)
(* number of calls: each step of the client, of the scene and of the       *)
(* discovery lowers a rank in a well-founded order.  Neither the one       *)
(* repetition nor a late event can keep a call going (scene_reset and its  *)
(* callers, official_run.py:804-850, 922-928, 1027-1029).                  *)
THEOREM HandshakeRunsDown ==
  /\ IsWellFoundedOn(Lower(4), Ranks(4))
  /\ Spec => [](Rank \in Ranks(4))
  /\ Spec => [][(<<Rank', Rank>> \in Lower(4))]_vars
<1>1. IsWellFoundedOn(Lower(4), Ranks(4))
  BY LowerIsWellFounded
<1>2. Counted => Rank \in Ranks(4)
  BY RankTyped
<1>3. Counted /\ [Next]_vars => [(<<Rank', Rank>> \in Lower(4))]_vars
  BY NextLowers
<1> QED BY <1>1, <1>2, <1>3, InitCounted, NextCounted, PTL DEF Spec

=============================================================================
