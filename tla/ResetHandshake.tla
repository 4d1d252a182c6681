--------------------------- MODULE ResetHandshake ---------------------------
(***************************************************************************)
(* The request / event handshake under official_run.scene_reset, and the   *)
(* two places main() calls it from: the reset between two attempts, asked  *)
(* for again once if the first event never comes, and the recovery reset   *)
(* before an attempt, asked for once.                                      *)
(*                                                                         *)
(* Every call makes a fresh node, so its publisher and its subscription    *)
(* have to be discovered again; the topics are not latched, so a request   *)
(* to nobody and an event to nobody are lost.  OfficialRun takes a call as *)
(* one step: this module says when it may.                                 *)
(***************************************************************************)
EXTENDS Naturals

CONSTANTS
  MaxCalls,  \* bound: chains run after a reset
  Prompt     \* the scene performs a request it has received, and its soft
             \* body comes to rest, before the wait for the event times out

ASSUME HandshakeAssumption == MaxCalls \in Nat /\ Prompt \in BOOLEAN

VARIABLES
  client,    \* where main() is
  call,      \* 1: this call may be repeated; 2: it is the last one
  reqUp,     \* the node's request publisher has found the scene
  evtUp,     \* the node's event subscription has found the scene
  got,       \* "event" in got
  requests,  \* requests the scene has received and not performed
  scene,     \* "lay", "moving" (just reset, soft body in motion) or "clean"
  chains     \* chains run

vars == <<client, call, reqUp, evtUp, got, requests, scene, chains>>

Init ==
  /\ client = "idle" /\ call = 1
  /\ reqUp = FALSE /\ evtUp = FALSE /\ got = FALSE
  /\ requests = 0 /\ scene = "clean" /\ chains = 0

-----------------------------------------------------------------------------
(* A call of scene_reset.                                                  *)

Listening == client \in {"matching", "waiting"}

FreshNode(c) ==
  /\ client' = "matching" /\ call' = c
  /\ reqUp' = FALSE /\ evtUp' = FALSE /\ got' = FALSE

\* From the end of an attempt (with one repetition) or, when the ids cannot
\* be read, before one (without).
CallReset ==
  /\ client = "idle" /\ chains < MaxCalls
  /\ \E c \in {1, 2} : FreshNode(c)
  /\ UNCHANGED <<requests, scene, chains>>

\* Discovery, either half at any time while the node lives.
DiscoverRequest ==
  /\ Listening /\ ~reqUp /\ reqUp' = TRUE
  /\ UNCHANGED <<client, call, evtUp, got, requests, scene, chains>>

DiscoverEvent ==
  /\ Listening /\ ~evtUp /\ evtUp' = TRUE
  /\ UNCHANGED <<client, call, reqUp, got, requests, scene, chains>>

\* Mutant: publishes only once both halves have matched.
MutPublish ==
  /\ client = "matching" /\ client' = "waiting"
  /\ reqUp /\ evtUp
  /\ requests' = requests + 1
  /\ UNCHANGED <<call, reqUp, evtUp, got, scene, chains>>

\* Mutant: publishes twice, in case the first request is not heard.
MutPublishTwice ==
  /\ client = "matching" /\ client' = "waiting"
  /\ requests' = IF reqUp THEN requests + 2 ELSE requests
  /\ UNCHANGED <<call, reqUp, evtUp, got, scene, chains>>

(* The one request of the call, once both halves have matched or the time  *)
(* to match is up: it is published anyway and reaches the scene only if    *)
(* that half has matched.                                                  *)
Publish ==
  /\ client = "matching" /\ client' = "waiting"
  /\ requests' = IF reqUp THEN requests + 1 ELSE requests
  /\ UNCHANGED <<call, reqUp, evtUp, got, scene, chains>>

EventSeen ==
  /\ client = "waiting" /\ got
  /\ client' = "settling"
  /\ UNCHANGED <<call, reqUp, evtUp, got, requests, scene, chains>>

\* Mutant: gives up while the scene may still be resetting.
MutWaitTimeout ==
  /\ client = "waiting" /\ ~got
  /\ IF call = 1 THEN FreshNode(2)
                 ELSE client' = "chain" /\ UNCHANGED <<call, reqUp, evtUp, got>>
  /\ UNCHANGED <<requests, scene, chains>>

\* No event in timeout_s: the reset is retried once, then the run goes on.
WaitTimeout ==
  /\ client = "waiting" /\ ~got
  /\ Prompt => requests = 0 /\ scene # "moving"
  /\ IF call = 1 THEN FreshNode(2)
                 ELSE client' = "chain" /\ UNCHANGED <<call, reqUp, evtUp, got>>
  /\ UNCHANGED <<requests, scene, chains>>

\* RESET_SETTLE_S is enough for the soft body to come to rest.
SettleOver ==
  /\ client = "settling" /\ scene # "moving"
  /\ client' = "chain"
  /\ UNCHANGED <<call, reqUp, evtUp, got, requests, scene, chains>>

\* The chain leaves a lay, or nothing; the run goes on or keeps it.
ChainEnds ==
  /\ client = "chain"
  /\ scene' \in {"lay", scene}
  /\ client' \in (IF scene' = "lay" THEN {"idle", "kept"} ELSE {"idle"})
  /\ chains' = chains + 1
  /\ UNCHANGED <<call, reqUp, evtUp, got, requests>>

-----------------------------------------------------------------------------
(* The scene process.                                                      *)

\* A received request is performed, and the event is heard by whoever is
\* subscribed at that moment.
PerformReset ==
  /\ requests > 0
  /\ requests' = requests - 1
  /\ scene' = "moving"
  /\ got' = (got \/ (Listening /\ evtUp))
  /\ UNCHANGED <<client, call, reqUp, evtUp, chains>>

ComeToRest ==
  /\ scene = "moving" /\ scene' = "clean"
  /\ UNCHANGED <<client, call, reqUp, evtUp, got, requests, chains>>

Ended ==
  /\ client = "kept" \/ (client = "idle" /\ chains = MaxCalls)
  /\ UNCHANGED vars

Reset  == CallReset \/ Publish \/ EventSeen \/ WaitTimeout \/ SettleOver
Client == Reset \/ ChainEnds
Scene  == PerformReset \/ ComeToRest
Next   == Client \/ DiscoverRequest \/ DiscoverEvent \/ Scene \/ Ended

\* main() is one thread, and every wait of a reset call times out; the scene
\* process is alive. Nothing says that discovery ever succeeds or that a chain
\* ends.
Spec == Init /\ [][Next]_vars /\ WF_vars(Reset) /\ WF_vars(PerformReset) /\ WF_vars(ComeToRest)

-----------------------------------------------------------------------------
TypeOK ==
  /\ client \in {"idle", "matching", "waiting", "settling", "chain", "kept"}
  /\ call \in {1, 2}
  /\ reqUp \in BOOLEAN /\ evtUp \in BOOLEAN /\ got \in BOOLEAN
  /\ requests \in Nat /\ (Prompt => requests <= 1)
  /\ scene \in {"lay", "moving", "clean"}
  /\ chains \in 0..MaxCalls

(* A call that returns True has seen the event of its own request: the     *)
(* scene it hands over has been reset and owes no further reset            *)
(* (scene_reset, the request/ack contract).                                *)
AckIsForThisRequest ==
  client = "settling" => requests = 0 /\ scene # "lay"

(* No reset lands on a running chain or on a kept lay (main: the scene is  *)
(* left in its scored state), over any run of lost requests and events.    *)
NoResetUnderChain ==
  [][(client \in {"chain", "kept"}) => requests' = requests]_vars

(* Every reset call returns and a chain runs, even if no endpoint ever     *)
(* matches (wait_for_reset_endpoints, the two timeouts).                   *)
ResetReturns == client = "matching" ~> client = "chain"

=============================================================================
