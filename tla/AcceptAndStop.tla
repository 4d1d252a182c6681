---------------------------- MODULE AcceptAndStop ----------------------------
(***************************************************************************)
(* What the self-hunting official run promises, with its clock, its ladder *)
(* and its resets left out: it tries at most MaxTries times, it stops on a *)
(* score it has read from the scene and that is worth something, and once  *)
(* it has stopped it does not touch the scene again.                       *)
(***************************************************************************)
EXTENDS Naturals

CONSTANT MaxTries

VARIABLES
  phase,   \* "hunting", "kept" (stopped on a lay) or "gave_up"
  tries,   \* chains started
  score    \* what the scene would be worth, as far as the run has read it

vars == <<phase, tries, score>>

Init == phase = "hunting" /\ tries = 0 /\ score = 0

\* A chain runs on the scene: whatever was read of it is stale.  It may end
\* in a state that no further try can heal.
Try ==
  /\ phase = "hunting" /\ tries < MaxTries
  /\ tries' = tries + 1 /\ score' = 0
  /\ phase' \in {"hunting", "gave_up"}

Read ==
  /\ phase = "hunting" /\ tries > 0
  /\ score' \in Nat
  /\ UNCHANGED <<phase, tries>>

Wipe ==
  /\ phase = "hunting"
  /\ score' = 0
  /\ UNCHANGED <<phase, tries>>

Keep ==
  /\ phase = "hunting" /\ score > 0
  /\ phase' = "kept"
  /\ UNCHANGED <<tries, score>>

GiveUp ==
  /\ phase = "hunting"
  /\ phase' = "gave_up"
  /\ UNCHANGED <<tries, score>>

Next == Try \/ Read \/ Wipe \/ Keep \/ GiveUp

Spec == Init /\ [][Next]_vars
=============================================================================
