# A TLA+ verification of the EBiM Task 2 autonomy

This directory models the control logic of `src/ebim_task2`: a program that drives
a robot to lay a thermal pad on a board in a simulated scene. The modules are
checked with TLC on small instances. Every safety property that a passing run checks
is also proved with TLAPS, for every value of the constants its theorem allows. `PROJECT.json` lists the runs,
the mutants, the source lines behind every definition, the findings, the hazards
and the theorems.

Line numbers are those of `src/ebim_task2/*.py`.

## 1. Inventory

The repository holds two programs.

* **official_run** hunts for a good lay. It starts the placement chain
  (`mirror_lay`, a subprocess), reads the verdict of the end state, and either
  stops on it or resets the scene and tries again.
* **runner** is a ROS node with a timer. It steps one of three policies
  (waypoint, perception, VLA) and publishes what the policy decides.

| component | state | operations | interacts through |
|---|---|---|---|
| accept ladder, wall governor (`official_run.py` 96-187) | none (pure) | continuation values, threshold, may an attempt start, attempts left | called by `main` |
| official run loop (389-801, 883-1033) | attempt, clock, durations, verdict, draws of this run | attempt, capture, chain, verdict, judgement, reset | subprocess markers, evaluate service, reset topics |
| reset handshake (366-386, 804-850) | a fresh node per call, the event flag | match, publish once, wait, settle | un-latched topics to the scene process |
| placement chain (`mirror_lay.py` 482-2129) | command, grip, carrying, spine, locked plate | gates, probe, pinch and retry, peel, ride, spine drive, lay, park | scene topics; exit code and markers |
| base drive (`mirror_lay.py` 968-1188) | caps, swallowed pulses, last token, arm base | pulse, settle, relocalise | pedal tokens, odometry |
| waypoint policy (`policy.py`) | phase, two time stamps, waypoint | step | called by the node |
| perception policy (`vla_policy.py` 24-1680) | phase, trajectory, servo, push and retry budgets, left arm, pose locks | step, left-arm command | called by the node; poses and feeds set on it |
| VLA policy (`vla_policy.py` 1681-1949, `backends/`) | action chunk, terminal state | step, report_verification | called by the node |
| node: episode (`runner.py` 795-906) | episode start, budget flag, retreat, gripper | tick, publish | timer, topics |
| node: gates (`runner.py` 368-445, 599-637, 724-830) | calibration samples, id candidates, adopted ids | subscriptions, fallback, early returns of tick | topics; attributes of the policy |
| left calibration, GT feeds, perception, room and lay frames, kinematics, observation, configuration, scripts | last values | numeric | - |

What makes it hard:

* **Ordering and delivery.** Reset request and event are lost, late or answered
  to the wrong call. Poses, id maps, masks and ticks come in any order.
* **Time.** Timeouts start from stamps that must be renewed on a phase change. Two
  clocks (two arms; policy and budget) run against each other. A lookahead
  charges a cost the real reset may exceed.
* **Partial failure.** Any stage of the chain can fail with the strip pinched and
  the spine moved, and must still leave a state the next attempt can start from.
* **Stale reads.** The strip may slip between two looks. A verdict, an id map or a
  stall time stamp may belong to something that is gone.
* **Termination.** Nested retries, budgets and dwells must all run out.

What makes each part correct is stated by the properties in section 3.

## 2. Modules

`Ladder` - the pure functions of `official_run`. A score is a natural number of
fixed units, a time a natural number of clock units. The average duration is kept
as sum and count, and comparisons with it are multiplied out: only the
continuation values round (down, once per step). `MCLadder` adds a step that draws
an attempt, and reference definitions: the value of every fixed-threshold policy
(`KeptFrom`, `ExpectedFrom`), and the governor iterated attempt by attempt.

`OfficialRun` EXTENDS `Ladder` - `main()`. `pc` is the place in the loop. The chain
is an action that leaves any scene and one of three marker combinations. The
replica's verdict is any verdict (its ids or box may be stale). The clock starts at
`t0` (887): when attempt 1 starts, the start-up (service probe, warm-up, wait for the
stream, 899-911) has already used some of the budget, and attempt 1 starts anyway. The live service's
verdict is that of the scene, or does not come. `scene_reset` is one action with an
acknowledged and an unacknowledged form. `lost` is a history variable: the score of
the last lay a retry reset wiped.

`AcceptAndStop` - the abstract specification: at most `MaxTries` chains, stop on a
score that was read and is worth something, then leave the scene alone.
`OfficialRun!Promise` is the refinement mapping, `KeepsPromise` the property.

`ResetHandshake` - one level below `OfficialRun`'s reset: a node per call,
discovery of either half at any time or never, one un-latched request, the event
heard by whoever is subscribed then. The scene process is external.

`EpisodeState` - the variables of one episode of the node and what the two policies
that own no planner share: terminal states, staying, the verification clock.
`WaypointPolicy` is `Task2WaypointPolicy.step`, `VlaPolicy` is `VLAPolicy.step` with
its chunk runtime. A chunk is a length and perhaps a column of gripper commands; a
failed inference is a chunk of holds. `NodeEpisode` EXTENDS both and is
`Task2AutonomyNode.tick` around them: dispatch, budget, verification (for the VLA
`_maybe_verify_vla` and its window at the end of the budget), photo retreat,
shutdown. A tick reads the clock once, so the time before it is part of the tick.
Messages are actions between ticks. Which policy runs is chosen at the start.
`command` and `gripper` start "open", as `_gripper_open = 1.0` does (`runner.py:279`):
a VLA policy that never commands the gripper counts as having released.

`PerceptionGates` - what stands between the timer and the perception policy:
measured or guessed arm base, re-arming, id maps from two sources, the early
returns of `tick` in their order, the budget. `enabled` is `calibration.enabled`:
without it neither gate nor fallback waits for a pose. The other branch of that
test, a policy with `owns_base_transform`, is left out: no class of the source sets
that attribute.

`PerceptionPolicy` - `PerceptionPolicy.step`, one action per branch in the order of
the code, each followed by the left-arm command of the same tick. A trajectory is
a length and a position. Planning, reaching, clinging and falling are free
choices. All budgets, dwells, timeouts and the stall guard are kept, including
that stall stamps survive a stroke. The left arm's state "done" is two states here:
"done" after a lift that was driven to its end, "stuck" after one that timed out
(1113-1121), with the arm perhaps still over the sheet. Where the jaws open in a
press release (`OpensAfter`) follows the plan: after the rise if the release has a
dump, or a shake or tilt that solves, and at the first waypoint otherwise (876).

`BaseDrive` - `base_goto`, `zero_base_yaw` and `relocalise`, pulse by pulse: yaw
first, the stop before a loaded reversal, a cap that is halved when a pulse made
it worse and grown when pulses are swallowed, the lunge, the number of tries, and
the three refusals of a base that seems to have jumped. A pose is its distance, how
the next direction lies to the last, and whether the yaw is off. Where a pulse
takes the base is the scene's choice. Pulses that turn the base have no length
here. A stage in which the arm moves looks at every waypoint, so it may take any
number of looks (`LooksWhileReaching`); a guarded look is refused, or, the jump
being short, accepted.

`MirrorChain` EXTENDS `BaseDrive` - `mirror_lay.main`, one action per stage; a stage
that drives the base begins a drive, and goes on when the drive is over. The strip
is the scene's and slips at any time (`Slip`), onto the table or, while it is near,
back onto the stand, whose wall (0.097 m) is too high for a strip on it to read as
dropped. The chain looks only where the code
does (`loaded_ok`, the hang checks, the spine drive). `slips` is a history of what
slipped and when.

`MCOfficialRun` gives the pool for TLC. The theorems are in `LadderProofs` (about
`MCLadder`), `OfficialRunProofs`, `ResetHandshakeProofs`, `NodeEpisodeProofs`,
`PerceptionGatesProofs`, `PerceptionPolicyProofs` and `MirrorChainProofs`, each of
which EXTENDS the module it is about. `NumberFacts` holds what several of them need
of numbers: induction over sets of naturals, sums over finite sets, and ranks.

`OfficialRun` sees the chain as `MirrorChain` presents it (three marker
combinations, parked arms), and uses `scene_reset` as `ResetHandshake` justifies it
under its assumption of a prompt scene. These two joints are read, not composed in
a single specification; composing them is in the plan.

## 3. Runs

| run | shows | expected |
|---|---|---|
| `ladder` | from one attempt to the next the bar rises only on a draw better than the expected one, V is the value of optimal stopping, aborts lower the bar, horizon and governor agree | pass |
| `official_run` | a run whose chains end does end, its overrun (start-up included) is bounded; refinement of `AcceptAndStop`, and the self-zero guard: a scoring lay is lost for nothing only through a reset slower than charged | pass |
| `official_slow_reset` | such a slow reset does lose it | violation |
| `reset_handshake` | with a prompt scene: events answer their own request, no reset under a chain, calls return | pass |
| `reset_late` | with a slow scene the event of the first request acknowledges the second | violation |
| `waypoint_episode` | both policies in the node: the episode ends in bounded time and fails with the gripper open; the waypoint policy drops nothing in transport and verifies only once the gripper has been open for the release settle; the VLA policy succeeds only if its last gripper command was open (or it gave none), except in the last window of the budget, and its holds leave the gripper alone | pass |
| `perception_gates` | the guess yields to the pose, an episode that is calibrated or needs no calibration ends | pass |
| `gates_budget` | a calibration left pending keeps the budget from opening the gripper | violation |
| `gates_lock` | adoption from labels keeps a target lock made with other ids | violation |
| `perception_policy` | the policy comes to verification or fails, strokes only after the left arm's lift or after the whole of its timeout, each counted push is driven, what is laid was carried, jaws closed until the rise in every plan that has something to open them after it | pass |
| `mirror_chain` | a completed chain has lost no strip that its checks look for, every exit parks the arm (but for a room without odometry) and the spine (with the exceptions below), after a drive the next settled look is never refused, a loaded pulse that translates the base is no longer than the lunge of the ride, every attempt ends | pass |
| `mirror_stuck` | with a spine that does not follow, the place-phase loop never ends | violation |

Each property of a passing run has a mutant in `PROJECT.json`: a plausible bug in
one mapped definition which makes TLC find that property violated.

### What the findings mean

* **Self-zero** (`official_run.py:1027`): the charge of 40 s is a typical reset. The
  waits allow 10 + 90 s, twice. `SelfZeroOnlyBySlowReset` is exactly what remains
  true. The built-in ladder is meant: `--stop-iou` switches the guard off.
* **Late event** (`official_run.py:819`): requests and events carry no identity.
  The retry makes a second reset possible while the chain already runs.
* **Budget behind the gates** (`runner.py:818`): one `ee_pose` followed by silence
  disables both the fallback and the budget.
* **Target lock** (`runner.py:441`): mask inference drops the lock, labels do not.
  The lock is refreshed while a target is visible up to LIFT, so it matters if the
  target is then occluded.
* **Spine loop** (`mirror_lay.py:1981`): the loop compares heights and counts
  nothing; `run_chain` waits without a timeout.

### What the properties do not say

* `VerifiedAfterRelease` dates the release, not the observation. The node keeps the
  last one it received, which may be older than the release.
* `StrokeWaitsForLift`: after a lift that timed out the code drives the stroke,
  wherever the left arm is.
* `JawsKeepTheSheet` leaves out the press releases without a dump in which no shake
  or tilt is asked for or solves: there the jaws open at the first waypoint.
* `LossIsCaught`: on a fixed base nothing finds a strip that folded or fell back
  onto the stand after the hang check; `CheckHang` and the end of the ride are the
  only looks that would.
* `SpineIsParked`: `--park-spine` says the spine returns to the height the scene
  started at (565-569, and the comment at 2101). The code compares that height with
  `--spine` and not with where the spine is (960, 2103), so a scene that starts at
  `--spine` and has a place-phase height is left between the two. The exits with
  codes 1, 2 and 10 do not park.
* `SolvesOnRenewedFrame` is about refusals: after a drive the next settled look is
  accepted. As long as no pair settles the chain solves in the old frame.
* `LoadedTranslationIsShort` is about pulses that translate the base. Loaded pulses
  that turn it last up to 0.25 s (0.55 s in the room, 1056-1058) and 0.30 s in
  `zero_base_yaw` (1145), which is longer than the lunge of 220 or 280 ms.

### Bounds

* `ladder`: a pool of 11 (deciles and two aborts), 4 draws of 4 scores, totals up to
  7, 6 continuation steps: past the ramp and past the end of the table.
* `official_run`: clock units of 5 s, 3 attempts, budget for two long or three
  short ones, so that cap and budget each end runs. Acknowledged and lost resets;
  a reset of 8 units is charged, 8 or 18 are taken.
* `reset_handshake`: 3 chains, so that a late answer can reach the next call and the
  next chain.
* `waypoint_episode`: the budget is shorter than the sum of the phase timeouts, so
  it can run out in every phase and in the retreat. Ticks may be 0, 1 or 3 apart.
  Chunks of 2 actions: a chunk can end, and a hold can begin, inside any phase.
  `Horizon` is past the latest end (`EndsInTime` shows it is never binding).
* `perception_gates`: two id maps, 2 repeats instead of 8, 2 samples. Counters
  saturate at `K`: more sightings change nothing.
* `perception_policy`: budgets of 2 regrasps, 1 re-shake, 2 pushes and 1 dwell
  (4, 3, 6, 6), so that each is met on both sides; clocks saturate one past the
  last value they are compared with, timeouts and dwells alike. `ReleaseTimeout` exceeds `PinTimeout` as in the
  configurations with a press release (120 s, 90 s). With the default of 25 s a
  slow pin eats up the peel; this is recorded as a hazard.
* `mirror_chain`: 3 pinches, 2 probe cycles, 1 approach and 2 ride legs, a spine
  that starts at or below its target and one place height two steps below. A drive
  has 3 pulses (2 for the yaw) over distances of 10, 40 and 100 mm: below
  tolerance, on either side of the limits for unsticking (40) and for a loaded
  reversal (60). Three pulses are enough for a cap to be halved and grown again;
  the theorem `LoadedTranslationsAreShort` is for any number and any distances.

### Fairness

* `OfficialRun`: weak fairness of the thread, but not of the end of a chain: its
  waits for topics, files and the service have timeouts, `run_chain`'s wait for the
  process has none (451-476). So `Termination` is conditional: a run ends if no
  chain runs for ever.
* `MirrorChain`: weak fairness of the thread, whose motions all have timeouts.
  Nothing is asked of slips.
* `ResetHandshake`: of the client and of the scene process, not of discovery.
* `NodeEpisode`: of ticks on a moving clock (the timer), not of any topic.
* `PerceptionGates`: of the two clocks and the timer, not of any topic.
* `PerceptionPolicy`: of the tick, not of the sheet. The tick's outcomes are not
  fair: a waypoint may never be reached and a mask never come.

## 4. Proofs

Each proof module assumes only what the named assumptions say of the constants,
and the hypotheses its theorems state. Every safety property of the passing runs
is proved; what is left to TLC is listed at the end.

**`LadderProofs`** - the five properties of `MCLadder`, for every pool, history,
multiplier and budget. What the code computes in a loop is a recursive function or
a sum here, so each proof needs an induction. `NumberFacts` states it for sets
instead of predicates: every nonempty set of naturals has a least element (from the
well-foundedness of `<`), so a set that holds 0 and is closed under the successor
holds every natural. With it a recursive function exists and obeys its own
equation, and a sum over a finite set obeys its recursion whatever order `CHOOSE`
takes the elements in. On that rest:

* the table `V` never falls with the draws left, stays at or below the best draw,
  and falls when a draw no better than `V[1]` joins the pool
  (`BarFollowsTheDraws`: the pool grows by the run's own draws, and only a draw
  better than the expected one may raise the bar of the next attempt);
* replacing the draw "keep it or go on" by any fixed rule gives no more, at each
  step and by monotony of the sum at all of them (`ValuesOptimal`);
* one more zero in the pool lowers the average in each step (`AbortsLower`);
* `attempts_left_in_budget` divides what `should_start_attempt` subtracts; the
  quotient is the number of attempts the governor starts (`HorizonGoverned`,
  `HorizonLookahead`).

The invariant `Typed` says that once there is a draw the durations add up to
something. It comes from `DrawsAssumption`, that an attempt takes time, and the
last two need it: with an average of 0 `attempts_left_in_budget` returns its cap
and does not look at the budget.

**`OfficialRunProofs`** - `TypeCorrect`, `SelfZeroGuarded`, `OverrunIsBounded`, and
`RunKeepsPromise` (`Spec => KeepsPromise`, the refinement of `AcceptAndStop`). The
inductive invariant `IInv` adds to `TypeOK`:

* `ChainCount`: how many chains have run, by `pc` (bounds `tries` in the mapping);
* `VerdictHeld`: a verdict exists only between its reading and its judgement, and
  one from the live service is the scene's (the mapping's `score`);
* `LookedAhead`: before a reset of a scoring lay, the lookahead from the judgement
  plus `ResetCost` allowed another attempt, and still does on return to the loop;
* `LostWindow`: a loss is open only from the reset to the next chain.

`SelfZeroOnlyBySlowReset` is not inductive: when the loop stops, it needs to know
what the judgement saw. `LookedAhead` carries that over the resets, and
`ShouldStartSooner` (the governor is monotone in time) turns "it would have started
at judgement + charge" and "it does not start now" into "now is later than
judgement + charge". At the judgement itself, either the lookahead holds or the
threshold is 0, and `ZeroThresholdAccepts` says that then a scoring lay is kept.
`OverrunIsBounded` rests on `Punctual`, which says for each place of an attempt how
much later than the budget it can be, and on `WaitsAssumption`: each wait has a
longest one, the start-up included: a start-up longer than the budget takes its place
in the bound. For the chain this is an assumption about the chain, since
`run_chain` waits for it without a timeout. `RunRunsDown` is about termination, see
below.

**`ResetHandshakeProofs`** - under `Prompt` (the scene answers a request it has
received before the wait for it is over): the acknowledgement is for this request,
no reset hits a running chain, for any number of calls. The
invariant says when the scene owes nothing (`Quiet`) and that what a fresh node has
heard is the answer to its own request (`HeardOwnAnswer`). Without `Prompt` the run
`reset_late` refutes it. `HandshakeRunsDown` is about termination, see below.

**`MirrorChainProofs`** - six safety theorems, each from the invariants before it: what is
typed and which retries are left (`TInv`), where the base may be driven
(`WhereDriven`), where the arm and the spine are by stage (`ArmStages`,
`SpineStages`), what has slipped since which look (`SlipsKnown`), in which frame
the base is known (`FrameKnown`), and that the cap of a loaded drive stays low
(`LoadedDrive`). `SpineComesHome` needs `SpineObeys`; its invariant `SpineStages` says
that from the lift to the park the spine is between the height of `--spine` and that
of the place phase (`PlaceHeights`), whatever the steps of the place phase. `ChainRunsDown` is about
termination, see below.

**`NodeEpisodeProofs`** - all seven safety properties of the episode. `Timely` bounds
budget and retreat by their stamps, `Published` ties the last command to the phase,
`Carried` says when the waypoint policy's gripper is closed and since when it is
open, `Held` that a hold has no gripper column. `EpisodeAssumption` asks that the
time between two ticks has a maximum, nothing else of the timer.

**`PerceptionGatesProofs`** - types, and that the guess yields to the pose
(`Installed`: what is installed, by what was seen).

**`PerceptionPolicyProofs`** - types with a push left wherever one is planned
(`PushLeft`), strokes that wait for the left arm's lift, carries checked, and the jaws
closed. The last needs `ReleaseDwell > 0`: with a dwell of 0, which the configuration
allows, a press release opens the jaws before the rise. The shipped press
configurations use 2.5 s.

`CountedPushesAreDriven` says when a push of the release (up to 6 in the code) that
is counted has been driven: always, except for the last one before the
verification, if the timeouts fit each other. `StrokeFits` is what the literals and
the shipped values satisfy: the settle fits the release timeout, a stall dwell fits
the stall limit, and a stroke has at least three waypoints (hover, descent, drag,
rise and tuck give one each or more). `LiftInTime` asks that, in a configuration
with a pin, the release timeout exceeds the pin's by the three ticks the left arm
needs to be told to lift, to be seen lifted, and the stroke to begin. With two ticks
TLC finds a push that is counted and not driven, so it is needed; the default
release timeout of 25 s does not meet it against a pin timeout of 90 s (the pin is
off by default). The invariant is `PlannedInTime`: how much of the release timeout a
stroke that is still to be planned can have used, by the state of the left arm.

**What is proved about termination.** Liveness needs fairness and ENABLED, which are
out of the prover's reach. Its core is not: four theorems give a rank, a tuple of
naturals compared lexicographically (`Ranks` and `Lower` in `NumberFacts`, which is
proved well-founded there), and say that every step of the program lowers it and
no other step raises it. So no nesting of retries can go on for ever, for any value
of the budgets; only a step that is never taken can keep the system from its end.

* `RunRunsDown` - attempts left, steps left in the attempt; an ended run stays as it
  is.
* `HandshakeRunsDown` - chains left, steps to the next chain, what the scene owes,
  halves of the node not yet discovered. Here every step lowers the rank, those of
  the scene and of the discovery included, and `Prompt` is not needed.
* `ChainRunsDown` - block of stages, rounds left of the count that bounds the block
  (approach legs, probe cycles, pinches, ride legs, height of the spine), stage in
  the round, pulses left of the drive. It needs `SpineObeys`, which is the finding
  of `mirror_stuck` seen from the other side: the loop of the place phase is the only
  one of the chain whose round does not lower a count. `Slip` leaves the rank alone.
* `PolicyRunsDown` - ten components: regrasps, phases, re-shakes, pushes and so on
  down to the clocks of the phase and of the left arm, until the policy verifies or
  fails. The sheet leaves the rank alone.

The node's episode has a bound in time instead (`EndsBoundedly`), which is a safety
property and proved.

Only model-checked: liveness itself (`Termination`, `ResetReturns`, `EpisodeEnds`,
`CalibratedEpisodeEnds`, `ComesToVerify`, `ChainEnds`).

## 5. Not modelled

Numeric code without control state (perception, IK, frames, trajectory geometry)
appears as free choice: a plan solves or not, a pose is reached or not. Message
formats, logging, dry runs and the joint clamp are left out. Configuration is the
models' constants.

* The arm's motion helpers of the chain (`go`, `glide_converge`, `raise_spine`): a
  stage succeeds or fails. `raise_spine` is bounded by its own timeouts; the place
  phase's own spine loop, which is not, is modelled.
* The backends of the VLA (torch, LeRobot): inference and a mapping of channels.
* The left arm's calibration (`runner.py:558-592`): the right arm's sampling without
  fallback, re-arming or a gate in `tick`. Until it is done no pin is planned, one of
  the two outcomes `PerceptionPolicy` allows where it plans one (`PlannedPins`).
* The pad-geometry feeds: attributes of the policy, last value wins.
* In `PerceptionPolicy`, pose locks are left out (`PerceptionGates` has the target
  lock) and the first tick is split in two: the one that begins PREGRASP and the
  one that starts to drive.

## 6. Plan

Done, in this order: `Ladder`, `OfficialRun` with `AcceptAndStop` and its proofs,
`ResetHandshake`, `PerceptionGates`, `PerceptionPolicy`, `MirrorChain`; then
`BaseDrive` inside `MirrorChain`, both light policies in `NodeEpisode`, and the
proofs of the safety properties of all of them, those of `MCLadder` included, and
of the ranks behind four of the liveness properties.

Left, in order of what it would add:

1. Several chains in a row: the spine height and the arm an exit leaves are the
   next attempt's start (codes 1, 2 and 10 do not park the spine).
2. `OfficialRun` with its reset replaced by `ResetHandshake`'s.
3. An abstract `Episode` (start, run, verify, end) implemented by `NodeEpisode` and
   by `PerceptionPolicy` behind `PerceptionGates`.
4. `PerceptionGates`: the time by which a calibrated episode is over, as a bound
   like that of `NodeEpisode`.
