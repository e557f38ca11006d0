# A TLA+ model of the multi-robot RACER exploration stack

This directory holds TLA+ modules for the coordination logic of the repository: who
explores which grid, how the robots agree on it over lossy topics, how they help each
other with what is left, how one robot turns the answer into motion, how its controller
and the TCP link report back, and how the maps spread. TLC checks small instances; TLAPS
proves a part of the results for every instance.

Abbreviations for sources: **F** is
`src/src/RACER/swarm_exploration/exploration_manager/src/fast_exploration_fsm.cpp`,
**M** is `fast_exploration_manager.cpp` beside it, **MM** is
`src/src/RACER/swarm_exploration/plan_env/src/multi_map_manager.cpp`, **C** is
`src/src/racer_integration/ros2_racer_controller.py`; the gateways `ros2_racer_gateway.py`
and `ros1_racer_gateway.py` are beside it.

## 1. The system

Two Go2 robots explore a building. For each robot

    Gazebo -> Swarm-LIO2 (ROS2) -> racer_adapter -> ros2_racer_gateway  --TCP-->
    ros1_racer_gateway -> RACER exploration_node (ROS1) -> traj_server
        -> ros1_racer_gateway --TCP--> ros2_racer_gateway
        -> ros2_racer_controller -> cmd_vel -> legged controller

and the RACER nodes talk to each other over ROS1 topics: `DroneState`, `PairOpt`,
`PairOptResponse` (ownership), `ChunkStamps`, `ChunkData` (maps), `FrontierShare`
(help for a peer), `Bspline` (collision avoidance).

| Component | State | Operations | Interacts through | Hard behaviour | What makes it correct |
|---|---|---|---|---|---|
| Grid ownership and pair optimization (F, M) | `swarm_state_`: route, versions and claims of every robot; the reserved exchange; stamps of messages seen | state timer, optimization timer, three message handlers, map update | topics between robots; its route feeds the state machine | stale rows, lost, late and repeated messages, equal clock values, map changes during an exchange | one owner per grid in the end; a grid is lost only in an exchange that one end took; an old message never undoes a new route |
| Exploration state machine (F, M) | `state_`, replan flags, committed target, blocked episode, failure counters, frontiers | 10 ms timer, safety timer, frontier timer, blocked report, peer trajectory and share | replan and B-spline topics to the server; the route; shares | callbacks between two ticks; repeated reports; failing plans while moving | the server and the state machine agree; stops for a reason; drives again |
| Trajectory server | the current B-spline | take, cut short, sample | topics | order of two topics | as above |
| Map sharing (MM) | voxel map, address buffer, chunks and index list per owner, receive buffer | seal chunks, send stamps, send what is missing, insert | two topics | loss, relays, own scans between two messages | copies agree; own observations win; all maps grow equal |
| Sender slots of the pair optimization (F) | ready time, phase | one slot per robot and cycle | simulated clock | a slot between two timer events | every robot gets a turn, alone, and with partners that are free again |
| Peer frontier rescue (F, M) | shares, claim with a lifetime, failed frontiers | share, select, claim, yield, reject | `FrontierShare` | two claims at once; lost and late shares; a helper that dies; expiry | the lower id keeps its frontier; contests end; an offered frontier gets a helper |
| ROS1/ROS2 gateways | one TCP connection, seen by three threads, last clock sent | connect, accept, forward, throttle the clock | TCP | a broken connection freezes the ROS1 clock; full sockets block callbacks; lost reports | setpoints arrive again after every fault |
| ROS2 controller (C) | last setpoint, bootstrap, blocked episode, recovery bookkeeping | hover, excite, track, back up, report | gateway | its recovery hides the block it recovers from; repeated reports | RACER learns of a blocked robot and of its end; recoveries are short and apart |
| Frontier finder, SDF map, A*, trajectory optimization | voxel data | geometry | calls | - | numeric |
| Frame adapter, UDP and hardware bridges, ray completion, recording, start-up scripts, legged controllers, Swarm-LIO2 | - | conversion | topics | - | not part of the protocols |

`PROJECT.json` lists all of them with their status and the hazards with their lines.
Three facts of the deployment shape every module:

* `exploration_node` runs `ros::spin()` on a single thread. A callback is atomic with
  respect to the other callbacks of the same robot, so a callback is one action.
* `/use_sim_time` is set and the gateway forwards `/clock` at 50 Hz. Several callbacks
  run at the same clock value; two versions may be asked for in one 20 ms tick.
* `drone_num_` counts one entry more than there are robots: the ground station, which
  never broadcasts a `DroneState`.

## 2. Modules

| Module | Extends / uses | Models |
|---|---|---|
| `PairExchange` | `TLAPS` | what the pair optimization promises: compare-and-set exchanges of versioned routes; with its theorem |
| `GridOwnership` | INSTANCE `PairExchange` | ownership in F and M, all robots |
| `OwnershipLosses` | `GridOwnership` | the same with a history of exchanges taken by one end |
| `SenderSlots` | `TLAPS` | the gate of `optTimerCallback`, on integer times; with its theorems |
| `PeerRescue` | - | frontier shares and claims of all robots |
| `ExplorationFSM` | - | the state machine of one robot and the trajectory server |
| `RacerController` | - | C, one robot's channel |
| `GatewayLink` | - | both gateways and the connection between them |
| `ControlLoop` | `RacerController`, INSTANCE `GatewayLink` | controller, link and the clocked setpoints of RACER together |
| `ChunkLists` | - | the interval lists of MM as pure algorithms |
| `MapSharing` | - | MM of every robot |
| `MCGridOwnership` (with `SenderSlots`), `MCOwnershipLosses`, `MCPeerRescue`, `MCControlLoop`, `MCMapSharing` (with `ChunkLists`) | the module of that name | TLC instances |
| `PeerRescueProofs`, `ExplorationFSMProofs` | the module, `TLAPS` | theorems |
| `GridOwnershipProofs` | `MCGridOwnership` | theorems about routes and claims, and about the released slots |
| `PairTransferProofs` | `GridOwnershipProofs`, `OwnershipLosses` | theorems about the pair optimization: the refinement, and that no grid is lost by reconciliation |
| `RacerControllerProofs` | `ControlLoop` | theorems about the controller, alone and in the loop |
| `MapSharingProofs` | `MCMapSharing` | theorems about the maps and the lists |

### GridOwnership

`swarm[i][j]` is robot i's `swarm_state_[j - 1]`; `swarm[i][i]` is its own,
authoritative row, the others are caches. A row has the route (`ids`), a claim epoch per
grid (`epochs`, 0 for no entry), the route's version (`assign`), the stamp and the two
times that throttle exchanges. Routes are sets: the order of a tour matters for costs
only. What a set cannot say, that a grid is listed twice, is in `twice`, because
reconciliation treats the second copy in a way of its own (F:293).

| Action | Code |
|---|---|
| `UpdateRoute` | `findGlobalTourOfGrid`: `updateGridData` rebuilds the route from the map, `syncOwnGridEpochs` (M:1482) versions it, the solver reorders it |
| `BroadcastState`, `ReceiveState` | `droneStateTimerCallback`, `droneStateMsgCallback`; both reconcile (F:266-313) |
| `OptTimer` | `optTimerCallback`: reconcile, choose a partner, offer a new partition, reserve it |
| `ReceiveRequest` | `optMsgCallback`: compare versions, commit both lists or reject |
| `ReceiveResponse` | `optResMsgCallback`: match the reserved exchange, apply both lists, reconcile |
| `Tick` | a `/clock` message |

Messages stay in sets and may be received at any later time, again, or never; the
handlers' stamp tests decide. The solver is a choice among all partitions and the
baseline that appends missed grids to both old routes. The map is a choice of which
grids divide, become relevant and are updated. Three environment constants
restrict the choice in a run: `Divisible`, `RelevanceReturns`, `CandidatesFail`.
Versions have the code's form `max(max(a, b) + 1, clock << 4 | id)`.

`PairExchange` knows no clock, cache or message order. An offer names the versions it
was made for; the receiver, then the sender, take their half if their own version is
still that one. The mapping takes the own rows for `version` and `route`, the requests
for `offers`, and the requests answered with status 1 for `accepted`.

`OwnershipLosses` adds `half`, the exchanges that a receiver has committed (F:2282) and
whose sender has not applied them (F:2369). It is history, not code.

### SenderSlots

The slots of F:1522-1533 on integers: `Cycle`, `SlotBegin`, `SlotWidth`, `InSlot`, and
`Fires`, the clock value at which a timer due at a multiple of its period is run when the
clock moves in steps of 20 ms. `GridOwnership` lets a robot offer at any time, so what is
shown there does not rest on the slots; `SenderSlots` says what they add. It has no state
of its own and is evaluated beside the run `ownership_map`.

### PeerRescue

Time is counted in share periods; stamps are ages and deadlines what is left of them, so
that the state space is finite without a bound on time.

| Action | Code |
|---|---|
| `UpdateFrontierStruct` | `updateFrontierStruct` and the planner's choice (M:1020-1068, 1139-1218): keep, drop or select a peer frontier |
| `PlanFails` | no trajectory to it: `rejectPeerFrontierRescue` |
| `SendShare` | `frontierShareTimerCallback`: refresh the own claim, publish |
| `Receive` | `frontierShareMsgCallback`: older shares are dropped, a lower id's claim is yielded to, a share with frontiers, reserved ones too, wakes the robot |
| `Tick`, `Lose`, `Die` | the end of a period, a lost share, a process that ends (nothing starts it again) |

`contest` is history: for a robot and one that hears it, the periods both have held the
same frontier.

### RacerController, GatewayLink, ControlLoop

`ControlTick(w)` is one step of the control timer that finds world `w`: are the inputs
healthy, is a speed commanded, did the robot move, did a barrier change the velocity. It
publishes one of `hover`, `excite`, `track`, `reverse`, updates the blocked episode
(C:928-949) and the recovery (C:951-1015). Time stamps are ages up to the largest that is
tested. `gap` and `backing` are history.

`GatewayLink` has the connection as each thread sees it: `client` (the ROS2 gateway's
field), `reader` (its network thread), `accepted`, `server`, and `cut`, the connections
that are gone. A frame on a cut connection is lost or its error closes the connection; a
full socket blocks its sender. Connections break, and both processes are started again.

`ControlLoop` joins them: a control step lets simulated time go on, `OnClock` sends it,
RACER answers each clock it gets with a setpoint, `OnBlocked` takes the controller's
report to `told`, what RACER was last told. It is the composition the state machine's
`execution_blocked_` hangs on.

### ExplorationFSM

One robot: `state_`, the four flags, the committed target with its retries, the blocked
episode, the failure counter and the last fallback grid, what the map and the peers
offer, and `server`, what the trajectory server does (`none`, `running`, `cut`). Each
branch of `FSMCallback` is an action, each callback that changes its flags another.
`Plan` is `callExplorationPlanner` with its branches in the code's order: replan to the
same goal, help a peer, follow the route, fail without progress, release a fallback
grid, no grid. Timers and dwell times decide when a branch may be taken; the model lets
it be taken at any time. `streak` is a history variable: trajectory failures in a row
towards one goal, which the code does not keep.

### ChunkLists and MapSharing

`ChunkLists` translates `findMissedChunkIds`, `mergeChunkIds` and the list that
`chunkTimerCallback` makes of its buffer (MM:257-299, 376-390, 439-495) on sequences of
closed intervals; `Ids` is the set a list stands for. `Merge` starts, as the code does,
from the received list and takes the intervals of the known one in turn: each widens
what it meets or goes between its neighbours, then neighbours that touch are joined.
The recursion is a recursive function, and `Sorted` gives every id the place of its
rank, so that both can be reasoned about. Because the lists are exact (proved for all
lists), `MapSharing` uses sets.

`MapSharing` has for every robot the voxel map, the addresses not yet in a chunk, the
chunks and ids of every owner and the receive buffer. `Scan` is `inputPointCloud` with
`updateMapChunk`, `Flush` is `flushPendingChunk`, `ReceiveStamp` is `stampMsgCallback`
with what it publishes and `chunkCallback` of the robots in range, `ChunkTimer` is
`chunkTimerCallback`. `LastOfNothing` is the case of MM:117 in which the code reads the
last element of an empty vector; the process ends.

A message is heard at once or lost. That loses no behaviour that matters here: a chunk
that is late is a chunk that was lost and sent again (its content never changes, and
the buffer is emptied later anyway), and a late stamp lists less than its sender holds
by now, so that only chunks it already holds are sent in addition.

## 3. Runs

Every passing run is exhaustive for its constants, the violations stop at their
counterexample.

| Run | Instance | States | Shows |
|---|---|---|---|
| `ownership_map` | 2 robots, 1 coarse grid with 2 children, 2 requests, 1 map update each, clock 2..3; slots of 5 robots over 5 cycles | 789,301 | `TypeOK`, `ClaimsBounded`, `RouteChangeIsVersioned`: exchanges against divisions, losses and rediscoveries; `OneSenderAtATime`, `EligibleAgain`, `EverySlotIsMet`: the slots |
| `ownership_losses` | 3 robots, 1 grid, 2 requests, clock 1..2, an attempt at every clock value | 766,089 | `VersionNamesRoute`, `LossesAreHalfTaken`, and `ClaimsHeld`, the invariant it rests on |
| `ownership_converges` | 2 robots, 2 grids, 2 requests, an attempt at every clock value, exchanges until 2, clock until 5 | 252,142 | `OwnershipConverges`, `TransferLosesNothing`, and the callbacks refine `PairExchange` (`ImplementsExchange`) |
| `pair_epoch` | 2 robots, 1 coarse grid with 1 child, 3 map updates, relevance returns | violation | `PairEpochKept` fails |
| `fsm_peer` | 1 grid, 1 peer frontier, limits 2 | 756,016 | `TypeOK`, `ExecutesWholeTrajectory`, `EmergencyBrakes`, `HandledNeverExecutes`, `StopsForAReason` |
| `fsm_resumes` | 1 grid, 1 viewpoint, limits 2 | 80,812 | `ResumesWork` |
| `fsm_fallback` | 1 grid, 1 viewpoint, limits 3 and 4 as released | violation | `ReleasesFailingGrid` fails |
| `fsm_yield` | 1 grid, 1 peer frontier, limits as released | violation | `RespectsClaim` fails |
| `peer_rescue` | 2 idle robots and one with a frontier, ages to 1, claims of 2, failures of 4, one fault | 376,626 | `TypeOK`, `LowerClaimHolds`, `ContestIsShort`, `RescueSettles` |
| `control_loop` | 2 connections, sockets of 1 frame, dwells of 1 and 2 steps | 247,577 | `LoopTypeOK`, `ReverseIsShort`, `RecoveriesApart`, `LoopCatchesUp`, `HeldIsTold`, `FreeIsTold`, `NotForeverStanding` |
| `map_sharing` | 2 robots and the ground node in a row, 3 voxels, chunks of 2; lists over ids 1..6 | 15,722 | `TypeOK`, `CopiesAgree`, `SealedOnce`, `LocalObservationsWin`, `KnowledgeSpreads`; `MergeIsUnion`, `MissedIsDifference` for every pair of lists and for those of every state |
| `chunk_boundary` | as `map_sharing` | violation | `NoProcessDies` fails |

Why the bounds are enough to be interesting:

* Ownership: in `ownership_map`, with `AttemptInterval = 2` and a start at 2, two robots can offer in the
  first tick and again later, a request of the first round can arrive after the second
  one, and a response after a map update. `ownership_converges` makes two attempts at
  consecutive clock values, so that the second one works with rows the first one has made
  stale, and then leaves three ticks to settle. The run that needs a long clock has no map
  changes, and the one with map changes has a short clock; `RouteChangeIsVersioned` is
  proved for every bound.
* Losses: three robots are the smallest number at which a third one claims a grid that
  two others are exchanging. An attempt at every clock value lets a grid be given away
  and asked back, so that a receiver gives it up while its sender has not taken it: the
  loss of which the property speaks happens in the run, and three claims of one grid do.
* Slots: the released numbers in units of 10 ms. Cycle and timer period are in the same
  phase again after five cycles, so five cycles are all there are.
* Rescue: two robots that select the same frontier before they hear each other, one
  fault (a lost or late share, a failed plan, a dead helper), and times that let a share
  expire before a claim and a claim before a rejection, in the order of the released ones
  (6, 15 and 30 s), with the rejection twice as long as the claim as there; in the
  instance one lost share is enough to forget a claim. The factor matters: of two robots
  that gave up for each other, the lower one must have claimed again, and been heard,
  before the rejection of the higher one ends. With a rejection of 3 periods
  `RescueSettles` fails; the released one leaves 30 periods for it.
* Loop: with two connections one fault breaks the first and the second has to carry on;
  a socket of one frame blocks its sender at once.
* State machine: limits of 2 let a counter pass both of its limits. With one goal of
  each kind all tests for equality of goals come out both ways.
* Lists: two intervals that meet, touch, nest, contain or miss two others need six ids.
* Maps: robots 1 and 3 never hear each other; the scans fill more than a chunk, exactly
  a chunk and less than one; robots disagree on a voxel and one changes its mind.

`CHECK_DEADLOCK FALSE` stands in the ownership configurations only: the clock of an
instance ends, and then the system really stops. Bounds in guards are `Horizon`,
`MaxTime`, `BeaconLife`, `MaxRequests` and `MaxUpdates` in `GridOwnership`, `MaxFaults` in
`PeerRescue`, `MaxConn` and `MaxQueue` in `GatewayLink`, `Last` and `Transit` in `SenderSlots`.
`BeaconLife = 1` means that a state broadcast is delivered within a tick or lost.

### Fairness

* `GridOwnership.FairSpec` (`ownership_converges`): the clock advances, the 20 Hz
  state timer of every robot fires, and after `Horizon` every state of a tick arrives
  before the next tick. Before `Horizon` anything may be lost. No fairness is assumed of
  exchanges: convergence comes from broadcasts and reconciliation alone.
* `ExplorationFSM.FairSpec` (`fsm_resumes`): weak fairness for the idle check and
  the publication, which run in timers; strong fairness for a call of the planner that
  gets its tour from the solver, and for one that succeeds. These two are assumptions
  about the world: a solver or a planner that fails for ever leaves the robot standing,
  rightly.
* `MapSharing.FairSpec` (`map_sharing`): weak fairness for the chunk timer and for
  `Flush`, which runs in the timer that shares frontiers (with the peer rescue enabled,
  as in the launch files, and odometry present); strong fairness for an exchange between
  two robots in range that loses nothing: stamps are repeated, so such an exchange is
  tried again and again.
* `PeerRescue.FairSpec` (`peer_rescue`): the timers fire, a share that is not lost is
  heard, and a robot updates its frontiers again and again although its map stays as it
  is. A robot without work that was woken does so before the period ends (`Tick`): the
  share resets the time of the last idle check, and the 10 ms timer then runs the next one.
  A share with frontiers wakes, reserved ones too (F:1394); a yield may or may not, because
  it resets that time only when the robot was planning or driving (F:1378).
* `ControlLoop.FairSpec` (`control_loop`): the control timer fires and the threads of the
  gateways run; strong fairness for the two callbacks that wait for room in the socket,
  because the reader empties it again and again and they wait in turn.

## 4. What is proved

All theorems hold for every value of the constants that satisfies the named
assumptions: `DroneAssumption`, `GridAssumption`, `TimeAssumption`,
`EnvironmentAssumption` (`GridOwnership`), `GoalAssumption`, `LimitAssumption`
(`ExplorationFSM`), `MaxIdAssumption` (`ChunkLists`), `DroneAssumption`,
`ChunkAssumption` (`MapSharing`), `BoundAssumption` (`MCMapSharing`: there are no more
voxels than the largest `int`, which the code's `int` voxel addresses imply), `DroneAssumption`,
`TimeAssumption` (`PeerRescue`), `WorldAssumption`, `DelayAssumption` (`RacerController`),
`LinkAssumption` (`ControlLoop`). TLC evaluates them in the runs. The general theorems
about slots name their hypotheses themselves, and so do the two about lost grids.

| Module | Theorem | Argument |
|---|---|---|
| `GridOwnershipProofs` | `TypeCorrect` | by action; a lemma per operator on rows |
| | `RoutesAreVersioned`: `Spec => RouteChangeIsVersioned` | reconciliation and map updates take a version above the old one (`NextEpochGrows`); the receiver of a request tests that the new version is above its own; the sender does not, so the invariant `PendingRises` remembers that the reserved version was above the one it planned with |
| | `ClaimsAlwaysBounded`: `Spec => []ClaimsBounded` | `ClaimsBounded` is not inductive: an epoch recorded for a grid that is not in the route may be read when the grid comes back, and a state on its way overwrites a row. The invariant `AllBounded` bounds every recorded epoch, in all rows and in the states sent, by the version next to it, and says that a route that never had a version is empty, so that the rediscovery epoch 1 is never above version 0 |
| `PairTransferProofs` | `VersionsNameRoutes`: `Spec => []VersionNamesRoute`, `TransfersLoseNothing`: `Spec => TransferLosesNothing` | the invariant `ExchangeInv`, see below |
| | `CallbacksImplementExchange`: `Spec => ImplementsExchange` | one lemma per callback: it is `Local` (only one row changes, and upwards), `Propose`, `Accept` or `Apply` of `PairExchange` |
| | `RequestsAlwaysCover`: `Spec => []Exchange!OffersCover` | the refinement and the theorem of `PairExchange`: what the abstract protocol promises holds of the rows the callbacks keep |
| | `ClaimsAlwaysHeld`: `LossSpec => []ClaimsHeld`, `OnlyHalfTakenExchangesLose`: `LossSpec => []LossesAreHalfTaken` | the invariant `LossInv`, see below; with robot 1 in the team and without map updates |
| `PairExchange` | `OffersAlwaysCover` | inductive with `TypeOK` and `OfferVersionsGrow`: an offer covers the route its version names, and every change of a route takes a higher version, so old offers are outdated and never wrong |
| `SenderSlots` | `SlotsAreApart` | a slot is half a stagger and begins at a multiple of the stagger |
| | `NextCycleIsFree` | hypothesis `OffersArrive`: an offer is accepted before the slots after its own are over. Released: the highest sender of five robots has 0.30 s, and not a step more |
| | `NoSlotIsMissed` | hypothesis `SlotHoldsAnEvent`: timer period and clock step fit into a slot. Released: 50 + 20 ms in a slot of 60 ms, which is the limit for times in units of 10 ms |
| `GridOwnershipProofs` | `ReleasedSlotsAreApart`, `ReleasedCycleIsFree`, `ReleasedSlotsAreMet`: `Spec => []OneSenderAtATime`, `[]EligibleAgain`, `[]EverySlotIsMet` | the released numbers satisfy the hypotheses of the three theorems above |
| `PeerRescueProofs` | `TypeCorrect`, `LowerIdsKeepTheirClaims` | the invariant adds `ClaimsCount`: a claim that is heard or on its way still has time left |
| | `ContestsAreShort` | two invariants more: what a robot has told (`Sound`: of a claim refreshed in this period every hearer was told, or is about to be), and for every contest a bound by what is due, on its way and already faulty (`Accounted`) |
| `ExplorationFSMProofs` | `TypeCorrect` | by action; the bound of the failure counter needs the reset in `Fails` |
| | `TrajectoryHandOver` | `ExecutesWholeTrajectory`, `EmergencyBrakes` and `HandledNeverExecutes` are not inductive alone; the invariant adds what the flags mean in every state (a vehicle that is not static and not braking has a running trajectory) |
| | `EmergenciesBrake`, `BlockedEpisodesEnd` | the two parts by themselves |
| | `MotionEndsForAReason`: `StopsForAReason` | from the same invariant |
| `RacerControllerProofs` | `TypeCorrect`, `ShortRecoveries`, `DwellBetweenRecoveries` | the books of the recovery: while one is owed, the steps that backed up and those that may still are at most its duration (`BackingIsPaid`); otherwise the anchor was set after the last of them (`AnchorIsYoung`), so a dwell since the anchor is a dwell since then |
| | `RecoveriesInTheLoop` | every step of the loop is a step of the controller or leaves it alone |
| | `LoopTypeCorrect` | queues stay bounded because a sender waits for room |
| `MapSharingProofs` | `MissedIsExact`, `MissedAreApart` | for well-formed lists, the gaps of the other list are the complement of its ids, and intersections distribute over them; neither the gaps nor the own intervals have an id in common |
| | `MergeIsExact` | an interval that is widened or inserted leaves a list whose ends are in order (`WidenedIs`, `InsertedIs`); joining such a list keeps what it denotes and leaves nothing that touches (`CoalescedIs`) |
| | `RunsAreExact` | ranks are a bijection from the ids to `1..n` (`SortedIs`); the list of single ids is in order, and is joined |
| | `EveryVoxelIsSealedOnce`: `Spec => []SealedOnce` | relative to the invariant of `CopiesAlwaysAgree`: an address is added when its voxel turns known and leaves the buffer with the chunk it goes to; reading a chunk keeps its voxels |
| | `MergeIsAlwaysUnion`, `MissedIsAlwaysDifference`: `Spec => []MergeIsUnion`, `[]MissedIsDifference` | `SealedOnce` bounds the chunks of a robot by its voxels (`FewChunks`), what is listed anywhere is a chunk of its owner (`ListedAreIds`), so the list theorems apply to every list of every state |
| | `TypeCorrect`, `CopiesAlwaysAgree`, `LocalWins` | `CopiesAgree` needs: own ids are exactly the own chunks, what is held or buffered anywhere was sent and so is no longer to be queried at its owner, a buffered chunk equals the owner's, a listed chunk is there |

The argument about exchanges. A request is made for two versions, and its two lists
cover the routes the sender has under them (`RequestsCover`): for its own route because
a candidate is a partition of the union or contains both routes, for the partner's
because what a robot knows of a higher one is the route the version names
(`VersionNamesRoute`). Versions only grow and a route never changes under an old
version (`RoutesAreVersioned`), so the cover lasts as long as the version does, however
late the request arrives. The sender applies its half from its reservation; that the
answer is to this reservation and to no earlier one needs that a robot never makes two
attempts at one clock value (`UniqueStamps`), which is where `AttemptInterval > 0` is
used, and that an answer was made from a request (`Answers`). What the sender then
writes in the partner's row is what the partner held when it accepted
(`AcceptedCommitted`), so that a row of a higher robot stays a route that was. The
first two theorems and `ExchangeInv` use each other and are one induction
(`TransferInv`).

The argument about lost grids. Reconciliation drops a grid for a claim that some row
records, and the row may be old. `ClaimsHeld` follows the claims: one that is recorded in
a row, in a state on its way or in an exchange its receiver has accepted is matched by a
claim as strong, of a robot that owns the grid or of the sender of an exchange that only
the receiver has taken (`half`). So whoever drops a grid drops it for somebody. Claims
are compared by epoch and then by id, and the strongest claim of a grid is never dropped
by reconciliation, only by an exchange, which hands it on with a higher epoch
(`ClaimsBounded` is what makes it higher). The two hypotheses name what the argument
uses. `MaxUpdates = 0`: a map update may give a grid that has no epoch the rediscovery
epoch 1 (`syncOwnGridEpochs`), which is a weaker claim than the one recorded elsewhere;
this is how `pair_epoch` loses an epoch. `1 \in Drone`: the
first robot starts with all grids, as in the code. Both hold in the run.

Recursion. The installed provers cannot use an induction theorem that takes a predicate.
For the recursive functions of `ChunkLists` that is no limit: `Induction` and
`Recursion` in `MapSharingProofs` state for sets and functions what is needed, that a
set that contains `a` and every successor contains `a..n`, and that a function defined
by recursion exists, and both follow from the well-foundedness of `<` on the naturals.

Only model-checked: the liveness properties `OwnershipConverges`, `ResumesWork`,
`RescueSettles`, `KnowledgeSpreads`, `LoopCatchesUp`, `HeldIsTold`, `FreeIsTold` and
`NotForeverStanding` (the prover has no ENABLED). Every invariant and action property of
a passing run is stated by a theorem. That grids are lost only in half-taken exchanges is
neither checked nor proved while maps change.

## 5. What the checks found

Four statements of the repository do not hold of the code; each has a run that ends in
a counterexample.

* `chunk_boundary` (MM:117): the comment says the branch is for a buffer that is too
  long; the test is `>=`. A buffer of exactly one chunk before the first chunk cuts
  nothing, and the code then reads the last element of an empty vector.
* `pair_epoch` (F:293, M:1523): "Pairwise ACVRP assignments always carry a newer epoch
  and therefore cannot be stolen by rediscovery". A grid may be listed twice, through its
  divided parent and as a rediscovery. Removing the second copy erases the epoch of the
  grid, and the next map update gives the remaining copy the rediscovery epoch.
* `fsm_fallback` (M:674): a frontier-less cell whose fallback target fails to plan three
  times in a row is to be released, but the planner forgets the cell before it fails.
* `fsm_yield` (F:1378): a robot that yields a peer frontier keeps the request to replan
  the same target, and sets out for the frontier it has yielded.

And these are worth knowing, although no run ends in a counterexample for them:

* The recovery is for a robot that RACER "keeps commanding" (C:951), but the time since
  the robot last moved counts whatever was commanded meanwhile (C:973), and `Stood` in
  the model says so. A robot that waited for a dwell (6 s) at the end of a trajectory
  backs up when the next one starts. `RecoveriesApart` and `NotForeverStanding` do not
  speak of what was commanded and do not exclude it.
* An exchange is not atomic over the two robots. The receiver gives up its grids at once
  (F:2282); the sender takes them only if its route and its reservation are unchanged when
  the response arrives (F:2348). If they are not, the grids belong to nobody until
  `findUnallocated` finds them again. `LossesAreHalfTaken` says that this is the only way.
* Two idle robots may select the same frontier, although the message says that the claim
  prevents it. The contest ends with the next share. What makes `RescueSettles` hold is
  that every share with frontiers resets the time of the next idle check: a robot that has
  yielded looks again in each period, and so once its own rejection has expired.
* While a robot hovers, the end of a blocked episode is reported once. If that report is
  lost RACER believes in the block until the robot tracks again.
* A report that the gateway has not taken is replaced by a newer one, which is what lets
  `HeldIsTold` hold with full sockets.
* The last sender's offer has 0.30 s to be accepted; later, and its receiver rejects the
  first offer of the next cycle.

## 6. Assumptions and limits

* No exploration node restarts; nothing is persisted and the code has no recovery. The
  gateways do, and in `PeerRescue` a process may end.
  Trajectory ids therefore ascend, and the server's test of them is left out.
* The replan and the B-spline messages arrive in the order of their publication. They
  are two topics, so a middleware that reorders them is outside the model.
* `go_back_` is never set and `failed_grid_until_` is never filled by the code;
  remote-task leases are switched off in the launch files, as is
  `remote_overwrites_local`. They are left out.
* The tour solver LKH is external. A call of it may fail (`NoGrid`, M:2186); one that does
  not returns a complete tour. That it may leave a partial file is a listed hazard.
* A version is an unsigned 64-bit number, the clock in nanoseconds shifted by four bits; it
  wraps after 2^60 ns (36 years) of simulated time. Versions are natural numbers here.
* A broken TCP connection is seen as broken by both ends. The ROS1 gateway reads without a
  timeout, so a partition that only one end notices would leave it waiting for ever; that
  is a listed hazard.
* Slots are met while the single thread is free; a planner that blocks it for longer than
  a slot costs the robot a turn.
* Not modelled: bounding boxes and inflation of chunks, the throttling of stamps, costs
  of tours, wording of metrics, visualization.

### Not modelled, and why

Most of the repository's lines are outside what a state machine could say more about
than their tests do, and the map covers a small share of them for that reason.

* Vendored code: four copies of `backward.hpp`, Swarm-LIO2 with its plotting and table
  headers, LKH, the locomotion controllers. The models use what the program relies on: a
  tour contains what was asked for, a velocity is followed or not.
* Numeric code without a protocol: voxel maps and ray casting, frontier geometry, A*,
  B-spline optimization, the barriers of the controller, the adapter's frames, ray
  completion. Their answers are nondeterministic choices in the models, so what is shown
  holds whatever they return.
* Hardware and UDP bridges, recording, evaluation and start-up scripts: conversions and
  commands, with no state that other components depend on.

## 7. Plan

Done: everything in section 2. What is left, most useful first:

1. Areas instead of ids in `GridOwnership`: a coarse grid of one robot against its
   children at another (F:2167).
2. `LossesAreHalfTaken` with map updates: what holds then of a grid whose claim fell to the
   rediscovery epoch, and a proof of it.
3. The composition of `ControlLoop` with the blocked episode of `ExplorationFSM`, which
   hears `told` today as an arbitrary report.
