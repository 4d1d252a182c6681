---------------------------- MODULE EpisodeState ----------------------------
(***************************************************************************)
(* What the autonomy node and its policy share in one episode: the clock   *)
(* of the tick, the latest messages, the policy's phase and time stamps,   *)
(* and the gripper command.                                                *)
(***************************************************************************)
EXTENDS Integers, Sequences, FiniteSetsExt

CONSTANTS
  WpTimeout,      \* waypoint_timeout_s
  VerifyTimeout,  \* verification_timeout_s
  ReleaseSettle,  \* release_settle_s
  ChunkSize,      \* action_chunk_size
  MaxEpisode,     \* max_episode_s
  PhotoRetreat,   \* the 8 s of the photo retreat
  Gaps,           \* how far the clock can move from one tick to the next
  Horizon         \* bound: no tick later than this

ASSUME EpisodeAssumption ==
  /\ WpTimeout \in Nat /\ VerifyTimeout \in Nat /\ ReleaseSettle \in Nat
  /\ ChunkSize \in Nat \ {0}
  /\ MaxEpisode \in Nat /\ PhotoRetreat \in Nat \ {0}
  /\ Gaps \subseteq Nat /\ \E most \in Gaps : \A g \in Gaps : g <= most
  /\ Horizon \in Nat

Never == -1

VARIABLES
  kind,          \* the kind of policy the node was made with
  clock,         \* the clock as the last tick read it; 0 before /clock
  joints,        \* has a joint state arrived?
  obs,           \* the latest observation: "none", or does it pass the gate?
  start,         \* _episode_start
  phase,         \* the policy's phase
  phaseStart,    \* _phase_start
  verifyStart,   \* _verify_start
  chunk,         \* the VLA policy's action chunk
  budgetFailed,  \* _budget_failed
  retreat,       \* _photo_retreat_start
  done,          \* episode_done
  command,       \* _gripper_open: the last gripper command decided, and open
                 \* before the first one
  gripper,       \* the gripper as it was last told, and open before that
  openSince      \* history: since when it has been open, 0 from the start

policy  == <<phase, phaseStart, verifyStart, chunk>>
episode == <<kind, clock, start, policy, budgetFailed, retreat, done, command,
             gripper, openSince>>
vars    == <<joints, obs, episode>>

Terminal == {"succeeded", "failed"}

\* A terminal policy repeats its gripper command.
Stay ==
  /\ phase \in Terminal
  /\ command' = IF phase = "failed" THEN "open" ELSE "closed"
  /\ UNCHANGED policy

\* Since when a verification that goes on now has been going on.
VerifyingSince(since) == IF since = Never THEN clock' ELSE since

=============================================================================
