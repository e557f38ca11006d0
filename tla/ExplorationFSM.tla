--------------------------- MODULE ExplorationFSM ---------------------------
(***************************************************************************)
(* FastExplorationFSM of one robot with its trajectory server.             *)
(*                                                                         *)
(* The state machine runs in a 10 ms timer; the safety timer, the          *)
(* trajectories and frontier shares of the peers, the controller's blocked *)
(* report and the pair optimization change its flags between two ticks.    *)
(* All callbacks share one thread, so each is one action.  The trajectory  *)
(* server executes the last B-spline it got until a replan message cuts it *)
(* short; the messages of the two topics are taken to arrive in the order  *)
(* of their publication.                                                   *)
(*                                                                         *)
(* What the map, the planner and the clock answer is the environment's     *)
(* choice.  go_back_ is never set in the code and is left out.             *)
(***************************************************************************)
EXTENDS Integers, FiniteSets

CONSTANTS
  View,             \* viewpoints of the robot's own frontiers
  Grid,             \* grids; as a goal, the centre of a frontier-less grid
  Peer,             \* frontiers of a peer (signatures)
  None,             \* no goal, no grid, no frontier
  FallbackRelease,  \* fallback_grid_release_after_
  PlanFailBlock,    \* plan_fail_block_after_
  PeerIsLower       \* the peer has the lower drone id

ASSUME GoalAssumption ==
  /\ View \cap Grid = {} /\ View \cap Peer = {} /\ Grid \cap Peer = {}
  /\ None \notin View \cup Grid \cup Peer
ASSUME LimitAssumption ==
  /\ FallbackRelease \in Nat
  /\ PlanFailBlock \in Nat \ {0}
  /\ PeerIsLower \in BOOLEAN

VARIABLES
  state,        \* state_
  haveOdom,     \* have_odom_
  trigger,      \* trigger_
  static,       \* static_state_
  emergency,    \* emergency_replan_
  avoid,        \* avoid_collision_
  sameTarget,   \* replan_same_target_
  committed,    \* target_initialized_
  active,       \* active_target_pos_
  retries,      \* target_block_replans_
  blocked,      \* execution_blocked_
  handled,      \* execution_blocked_handled_
  failures,     \* consecutive_plan_failures_
  fallback,     \* last_fallback_grid_
  next,         \* next_pos_
  frontiers,    \* ~ed_->frontiers_.empty()
  rescue,       \* peer_rescue_candidate_ while peer_rescue_valid_
  route,        \* the robot's own grid_ids_
  suppressed,   \* blocked_viewpoints_ that have not expired
  visited,      \* grids whose ever_visited_ is set
  share,        \* peer_frontier_shares_: the peer's last fresh share
  failedPeers,  \* peer_frontier_failed_until_
  server,       \* what the trajectory server does
  streak        \* history: trajectory failures in a row towards one goal

flags == <<static, emergency, avoid, sameTarget>>
target == <<committed, active, retries>>
block == <<blocked, handled>>
planning == <<failures, fallback, next, streak>>
map == <<frontiers, rescue, suppressed, visited>>
peers == <<share, failedPeers>>
vars == <<state, haveOdom, trigger, flags, target, block, planning, map,
          route, peers, server>>

State == {"INIT", "WAIT_TRIGGER", "PLAN_TRAJ", "PUB_TRAJ", "EXEC_TRAJ",
          "IDLE", "FINISH"}
Goal == View \cup Grid \cup Peer \cup {None}
NoShare == [candidates |-> {}, claim |-> None]
Limit == IF FallbackRelease > PlanFailBlock
         THEN FallbackRelease ELSE PlanFailBlock

(* One type invariant.  The failure counter never reaches the limit at      *)
(* which the FSM suppresses a goal.                                         *)
TypeOK ==
  /\ state \in State
  /\ haveOdom \in BOOLEAN /\ trigger \in BOOLEAN
  /\ static \in BOOLEAN /\ emergency \in BOOLEAN
  /\ avoid \in BOOLEAN /\ sameTarget \in BOOLEAN
  /\ committed \in BOOLEAN /\ active \in Goal /\ retries \in {0, 1}
  /\ blocked \in BOOLEAN /\ handled \in BOOLEAN
  /\ failures \in Nat /\ failures < PlanFailBlock
  /\ fallback \in Grid \cup {None} /\ next \in Goal
  /\ frontiers \in BOOLEAN /\ rescue \in Peer \cup {None}
  /\ route \subseteq Grid /\ suppressed \subseteq Goal
  /\ visited \subseteq Grid
  /\ share \in [candidates : SUBSET Peer, claim : Peer \cup {None}]
  /\ failedPeers \subseteq Peer
  /\ server \in {"none", "running", "cut"}
  /\ streak \in [goal : Goal, fails : 0..Limit]

Init ==
  /\ state = "INIT"
  /\ haveOdom = FALSE /\ trigger = FALSE
  /\ static = TRUE /\ emergency = FALSE
  /\ avoid = FALSE /\ sameTarget = FALSE
  /\ committed = FALSE /\ active = None /\ retries = 0
  /\ blocked = FALSE /\ handled = FALSE
  /\ failures = 0 /\ fallback = None /\ next = None
  /\ frontiers = FALSE /\ rescue = None /\ route = {}
  /\ suppressed = {} /\ visited = {}
  /\ share = NoShare /\ failedPeers = {}
  /\ server = "none"
  /\ streak = [goal |-> None, fails |-> 0]

-----------------------------------------------------------------------------
(* Trajectory server and map *)

(* replanCallback: a trajectory that is there ends early.                   *)
Cut(s) == IF s = "none" THEN "none" ELSE "cut"

(* selectPeerFrontierRescue: candidates that are not claimed, not failed.   *)
Rescuable == share.candidates \ (failedPeers \cup {share.claim})

(* updateFrontierStruct: own frontiers come first, then a peer's.           *)
UpdateFrontierStruct ==
  /\ frontiers' \in BOOLEAN
  /\ IF frontiers' THEN rescue' = None
     ELSE rescue' \in Rescuable \cup {None}

FrontierCount == frontiers' \/ rescue' # None

-----------------------------------------------------------------------------
(* Start *)

(* odometryCallback: the robot enters a grid, or grids near it.              *)
Odometry ==
  /\ haveOdom' = TRUE
  /\ \E entered \in SUBSET Grid : visited' = visited \cup entered
  /\ UNCHANGED <<state, trigger, flags, target, block, planning, frontiers,
                 rescue, suppressed, route, peers, server>>

Initialised ==
  /\ state = "INIT" /\ haveOdom
  /\ state' = "WAIT_TRIGGER"
  /\ UNCHANGED <<haveOdom, trigger, flags, target, block, planning, map,
                 route, peers, server>>

Trigger ==
  /\ state = "WAIT_TRIGGER" /\ ~trigger
  /\ trigger' = TRUE
  /\ UNCHANGED <<state, haveOdom, flags, target, block, planning, map, route,
                 peers, server>>

(* frontierCallback: before the start the map and the own grids are kept    *)
(* up to date.                                                              *)
AwaitTrigger ==
  /\ state = "WAIT_TRIGGER"
  /\ UpdateFrontierStruct
  /\ route' \in SUBSET Grid
  /\ UNCHANGED <<state, haveOdom, trigger, flags, target, block, planning,
                 suppressed, visited, peers, server>>

Start ==
  /\ state = "WAIT_TRIGGER" /\ trigger
  /\ UpdateFrontierStruct
  /\ state' = IF FrontierCount \/ route # {} THEN "PLAN_TRAJ" ELSE "FINISH"
  /\ UNCHANGED <<haveOdom, trigger, flags, target, block, planning, route,
                 suppressed, visited, peers, server>>

IdleCheck ==
  /\ state = "IDLE"
  /\ UpdateFrontierStruct
  /\ state' = IF FrontierCount \/ route # {} THEN "PLAN_TRAJ" ELSE "IDLE"
  /\ UNCHANGED <<haveOdom, trigger, flags, target, block, planning, route,
                 suppressed, visited, peers, server>>

-----------------------------------------------------------------------------
(* PLAN_TRAJ *)

(* Mutant of HadSafeTrajectory: an emergency cut is forgotten.              *)
NotStatic == ~static

HadSafeTrajectory == ~static /\ ~emergency

Succeeds ==
  /\ state' = "PUB_TRAJ"
  /\ server' = Cut(server)
  /\ emergency' = FALSE
  /\ failures' = 0 /\ fallback' = None
  /\ streak' = [goal |-> next', fails |-> 0]
  /\ UNCHANGED <<static, committed, suppressed, visited>>

(* Mutant of Blocks: one failure too many.                                  *)
BlocksLate(n) == n > PlanFailBlock

Blocks(n) == n >= PlanFailBlock

(* What the FSM does when the planner returns FAIL with last_fallback_grid_ *)
(* = grid, seen being the grids that are now marked visited.                *)
Fails(grid, seen) ==
  LET release == FallbackRelease > 0 /\ grid # None
                 /\ failures + 1 >= FallbackRelease
      count == IF release THEN 0 ELSE failures + 1
  IN /\ visited' = IF release THEN seen \cup {grid} ELSE seen
     /\ fallback' = IF release THEN None ELSE grid
     /\ failures' = IF Blocks(count) THEN 0 ELSE count
     /\ suppressed' = IF Blocks(count) THEN suppressed \cup {next'}
                      ELSE suppressed
     /\ committed' = (committed /\ ~Blocks(count))
     /\ state' = IF HadSafeTrajectory THEN "EXEC_TRAJ" ELSE "PLAN_TRAJ"
     /\ static' = (static \/ ~HadSafeTrajectory)
     /\ UNCHANGED <<emergency, server>>

Again(goal) ==
  [goal |-> goal,
   fails |-> IF streak.goal # goal THEN 1
             ELSE IF streak.fails < Limit THEN streak.fails + 1 ELSE Limit]

(* Mutant of TrajectoryFails: the old trajectory is cut before the          *)
(* replacement is known to exist.                                           *)
CutThenFail ==
  LET count == failures + 1
  IN /\ visited' = visited /\ fallback' = None
     /\ failures' = IF Blocks(count) THEN 0 ELSE count
     /\ suppressed' = suppressed /\ committed' = committed
     /\ state' = IF HadSafeTrajectory THEN "EXEC_TRAJ" ELSE "PLAN_TRAJ"
     /\ static' = (static \/ ~HadSafeTrajectory)
     /\ server' = Cut(server) /\ streak' = Again(next')
     /\ UNCHANGED emergency

(* planTrajToView forgets last_fallback_grid_ before it fails.              *)
TrajectoryFails ==
  /\ Fails(None, visited)
  /\ streak' = Again(next')

(* callExplorationPlanner plans a new trajectory to the goal it has.        *)
PlanToView ==
  /\ state = "PLAN_TRAJ" /\ (avoid \/ sameTarget)
  /\ avoid' = FALSE /\ sameTarget' = FALSE
  /\ next' = next
  /\ Succeeds \/ TrajectoryFails
  /\ UNCHANGED <<haveOdom, trigger, active, retries, block, frontiers, rescue,
                 route, peers>>

(* planExploreMotion without own frontiers: help the peer.                  *)
PlanRescue ==
  /\ state = "PLAN_TRAJ" /\ ~avoid /\ ~sameTarget
  /\ ~frontiers /\ rescue # None
  /\ next' = rescue
  /\ \/ /\ Succeeds
        /\ UNCHANGED <<rescue, failedPeers>>
     \/ /\ TrajectoryFails
        /\ failedPeers' = failedPeers \cup {rescue}
        /\ rescue' = None
  /\ UNCHANGED <<haveOdom, trigger, avoid, sameTarget, active, retries, block,
                 frontiers, route, share>>

(* The tour of the own grids, after the map changed them.  A visited grid   *)
(* stays relevant only while a frontier lies in it.                         *)
RefreshRoute ==
  /\ state = "PLAN_TRAJ" /\ ~avoid /\ ~sameTarget
  /\ frontiers \/ rescue = None
  /\ route' \in SUBSET Grid
  /\ frontiers \/ route' \cap visited = {}

(* A viewpoint in the next grids, or the fallback target of the first grid: *)
(* a frontier's viewpoint, the centre in place of one that is too near, also *)
(* when the centre is suppressed, or the centre for want of frontiers.       *)
RouteGoal(g) ==
  \/ frontiers /\ g \in View \cup (route' \ visited)
  \/ g \in route' \ (visited \cup suppressed)

PlanRoute ==
  /\ RefreshRoute /\ route' # {}
  /\ \E g \in View \cup Grid : RouteGoal(g) /\ next' = g
  /\ Succeeds \/ TrajectoryFails
  /\ UNCHANGED <<haveOdom, trigger, avoid, sameTarget, active, retries, block,
                 frontiers, rescue, peers>>

(* The viewpoint is where the robot stands: fail before planning.           *)
NoProgress ==
  /\ RefreshRoute /\ route' # {} /\ frontiers
  /\ next' = next
  /\ Fails(None, visited)
  /\ UNCHANGED <<haveOdom, trigger, avoid, sameTarget, active, retries, block,
                 frontiers, rescue, peers, streak>>

(* The fallback target is blocked, or the robot already stands on it.       *)
ReleaseFallbackGrid ==
  /\ RefreshRoute
  /\ \E g \in route' \ visited : Fails(g, visited \cup {g})
  /\ next' = next
  /\ UNCHANGED <<haveOdom, trigger, avoid, sameTarget, active, retries, block,
                 frontiers, rescue, peers, streak>>

(* Mutant of NoGrid: a robot without grids is done for good.                *)
NoGridFinishes ==
  /\ RefreshRoute
  /\ static' = TRUE /\ emergency' = FALSE /\ failures' = 0
  /\ fallback' = None
  /\ server' = Cut(server)
  /\ state' = "FINISH"
  /\ UNCHANGED <<haveOdom, trigger, avoid, sameTarget, target, block, next,
                 streak, map, peers>>

(* The tour is empty: there is no grid left, or the call of the tour solver  *)
(* has failed and the grids stay.                                           *)
NoGrid ==
  /\ RefreshRoute
  /\ static' = TRUE /\ emergency' = FALSE /\ failures' = 0
  /\ fallback' = None
  /\ server' = Cut(server)
  /\ state' = "IDLE"
  /\ UNCHANGED <<haveOdom, trigger, avoid, sameTarget, target, block, next,
                 streak, map, peers>>

-----------------------------------------------------------------------------
(* PUB_TRAJ *)

(* Mutant of Publish: the blocked episode outlives the new trajectory.      *)
PublishKeepsEpisode ==
  /\ state = "PUB_TRAJ"
  /\ server' = "running" /\ static' = FALSE
  /\ IF committed /\ next = active THEN UNCHANGED target
     ELSE committed' = TRUE /\ active' = next /\ retries' = 0
  /\ state' = "EXEC_TRAJ"
  /\ UNCHANGED <<haveOdom, trigger, emergency, avoid, sameTarget, block,
                 planning, map, route, peers>>

Publish ==
  /\ state = "PUB_TRAJ"
  /\ server' = "running" /\ static' = FALSE
  /\ IF committed /\ next = active THEN UNCHANGED target
     ELSE committed' = TRUE /\ active' = next /\ retries' = 0
  /\ blocked' = FALSE /\ handled' = FALSE
  /\ state' = "EXEC_TRAJ"
  /\ UNCHANGED <<haveOdom, trigger, emergency, avoid, sameTarget, planning,
                 map, route, peers>>

-----------------------------------------------------------------------------
(* EXEC_TRAJ *)

ExecutionBlocked ==
  /\ ~handled /\ ~blocked
  /\ blocked' = TRUE
  /\ UNCHANGED <<state, haveOdom, trigger, flags, target, handled, planning,
                 map, route, peers, server>>

ExecutionClear ==
  /\ blocked \/ handled
  /\ blocked' = FALSE /\ handled' = FALSE
  /\ UNCHANGED <<state, haveOdom, trigger, flags, target, planning, map,
                 route, peers, server>>

(* The report has lasted for execution_blocked_replan_delay_.               *)
HandleBlocked ==
  /\ state = "EXEC_TRAJ" /\ blocked
  /\ handled' = TRUE /\ blocked' = FALSE
  /\ static' = TRUE /\ sameTarget' = FALSE
  /\ state' = "PLAN_TRAJ"
  /\ UNCHANGED <<haveOdom, trigger, active, planning, frontiers, rescue,
                 visited, route, peers>>

RetryBlocked ==
  /\ HandleBlocked
  /\ retries < 1 /\ committed
  /\ retries' = retries + 1
  /\ avoid' = TRUE /\ emergency' = TRUE
  /\ server' = Cut(server)
  /\ UNCHANGED <<committed, suppressed>>

ReleaseBlocked ==
  /\ HandleBlocked
  /\ retries >= 1 \/ ~committed
  /\ suppressed' = IF committed THEN suppressed \cup {active} ELSE suppressed
  /\ retries' = 0 /\ committed' = FALSE
  /\ UNCHANGED <<emergency, avoid, server>>

(* arrived_no_gain, near_stagnant, no_progress, no_approach.                *)
Watchdog ==
  /\ state = "EXEC_TRAJ" /\ committed
  /\ suppressed' = suppressed \cup {active}
  /\ committed' = FALSE /\ sameTarget' = FALSE /\ static' = TRUE
  /\ state' = "PLAN_TRAJ"
  /\ UNCHANGED <<haveOdom, trigger, emergency, avoid, active, retries, block,
                 planning, frontiers, rescue, visited, route, peers, server>>

(* The trajectory ends or is old before the target was held long enough.    *)
ReplanSameTarget ==
  /\ state = "EXEC_TRAJ" /\ committed
  /\ sameTarget' = TRUE
  /\ state' = "PLAN_TRAJ"
  /\ UNCHANGED <<haveOdom, trigger, static, emergency, avoid, target, block,
                 planning, map, route, peers, server>>

(* The frontier is covered, the trajectory ends or is old.                  *)
ReplanNextTarget ==
  /\ state = "EXEC_TRAJ"
  /\ sameTarget' = FALSE
  /\ UpdateFrontierStruct
  /\ \/ /\ FrontierCount \/ route # {}
        /\ state' = "PLAN_TRAJ"
        /\ UNCHANGED <<static, server>>
     \/ /\ ~FrontierCount /\ route = {}
        /\ state' = "IDLE" /\ static' = TRUE /\ server' = Cut(server)
  /\ UNCHANGED <<haveOdom, trigger, emergency, avoid, target, block, planning,
                 suppressed, visited, route, peers>>

(* Mutant of Safety: the unsafe trajectory goes on during planning.         *)
SafetyWithoutBrake ==
  /\ state = "EXEC_TRAJ"
  /\ avoid' = TRUE /\ emergency' = TRUE /\ static' = TRUE
  /\ state' = "PLAN_TRAJ"
  /\ UNCHANGED <<haveOdom, trigger, sameTarget, target, block, planning, map,
                 route, peers, server>>

Safety ==
  /\ state = "EXEC_TRAJ"
  /\ avoid' = TRUE /\ emergency' = TRUE /\ static' = TRUE
  /\ server' = Cut(server)
  /\ state' = "PLAN_TRAJ"
  /\ UNCHANGED <<haveOdom, trigger, sameTarget, target, block, planning, map,
                 route, peers>>

SwarmCollision ==
  /\ state = "EXEC_TRAJ"
  /\ avoid' = TRUE /\ emergency' = TRUE
  /\ server' = Cut(server)
  /\ state' = "PLAN_TRAJ"
  /\ UNCHANGED <<haveOdom, trigger, static, sameTarget, target, block,
                 planning, map, route, peers>>

-----------------------------------------------------------------------------
(* Peers and time *)

Yields(claim) == PeerIsLower /\ rescue # None /\ claim = rescue

(* A share whose claim beats the own one.                                   *)
YieldToPeer ==
  /\ \E s \in SUBSET Peer, claim \in Peer :
       Yields(claim) /\ share' = [candidates |-> s, claim |-> claim]
  /\ failedPeers' = failedPeers \cup {rescue}
  /\ rescue' = None
  /\ IF state \in {"EXEC_TRAJ", "PUB_TRAJ", "PLAN_TRAJ"}
     THEN state' = "IDLE" /\ static' = TRUE /\ server' = Cut(server)
     ELSE UNCHANGED <<state, static, server>>
  /\ UNCHANGED <<haveOdom, trigger, emergency, avoid, sameTarget, target,
                 block, planning, frontiers, suppressed, visited, route>>

ReceiveShare ==
  /\ \E s \in SUBSET Peer, claim \in Peer \cup {None} :
       /\ ~Yields(claim)
       /\ share' = [candidates |-> s, claim |-> claim]
       /\ state' = IF s # {} /\ state = "FINISH" /\ trigger THEN "IDLE"
                   ELSE state
  /\ UNCHANGED <<haveOdom, trigger, flags, target, block, planning, map,
                 route, failedPeers, server>>

(* Reconciliation and pair optimizations change the own grids; an accepted  *)
(* optimization wakes an idle robot.                                        *)
ChangeRoute ==
  /\ route' \in SUBSET Grid
  /\ \/ state' = state
     \/ state = "IDLE" /\ route' # {} /\ state' = "PLAN_TRAJ"
  /\ UNCHANGED <<haveOdom, trigger, flags, target, block, planning, map,
                 peers, server>>

Expire ==
  /\ \/ /\ \E g \in suppressed : suppressed' = suppressed \ {g}
        /\ UNCHANGED <<share, failedPeers>>
     \/ /\ share # NoShare /\ share' = NoShare
        /\ UNCHANGED <<suppressed, failedPeers>>
     \/ /\ \E p \in failedPeers : failedPeers' = failedPeers \ {p}
        /\ UNCHANGED <<suppressed, share>>
  /\ UNCHANGED <<state, haveOdom, trigger, flags, target, block, planning,
                 frontiers, rescue, visited, route, server>>

Plan == PlanToView \/ PlanRescue \/ PlanRoute \/ NoProgress
        \/ ReleaseFallbackGrid \/ NoGrid

Next ==
  \/ Odometry \/ Initialised \/ Trigger \/ AwaitTrigger \/ Start
  \/ IdleCheck \/ Plan \/ Publish
  \/ ExecutionBlocked \/ ExecutionClear \/ RetryBlocked \/ ReleaseBlocked
  \/ Watchdog \/ ReplanSameTarget \/ ReplanNextTarget
  \/ Safety \/ SwarmCollision
  \/ YieldToPeer \/ ReceiveShare \/ ChangeRoute \/ Expire

Spec == Init /\ [][Next]_vars

(* The timer keeps running; neither the tour solver nor the planner, asked   *)
(* again and again, fails for ever.                                         *)
PlanAnswers == Plan /\ (state' = "IDLE" => route' = {})
PlanSucceeds == Plan /\ state' = "PUB_TRAJ"
FairSpec ==
  /\ Spec
  /\ WF_vars(IdleCheck) /\ WF_vars(Publish)
  /\ SF_vars(PlanAnswers) /\ SF_vars(PlanSucceeds)

-----------------------------------------------------------------------------
(* Properties *)

(* In EXEC_TRAJ the server executes the whole trajectory: no callback and    *)
(* no failed plan returns to EXEC_TRAJ after a replan message without a new  *)
(* B-spline ("the trajectory server still owns the unmodified safe           *)
(* trajectory").                                                             *)
ExecutesWholeTrajectory == state = "EXEC_TRAJ" => server = "running"

(* From the moment a trajectory is found unsafe until the replacement is     *)
(* published the vehicle brakes, whatever happens in between.                *)
EmergencyBrakes == emergency => server = "cut"

(* A blocked episode that has been handled is over, by a clear report or a   *)
(* new trajectory, before the robot executes again: one blockage cannot      *)
(* drain a target per repeated report.                                       *)
HandledNeverExecutes == ~(handled /\ state = "EXEC_TRAJ")

(* A moving vehicle is stopped only by an emergency, by a complete           *)
(* replacement or because it goes idle: without work or tour, or for a peer; *)
(* never by a failed plan.                                                   *)
StopsForAReason ==
  [][server = "running" /\ server' = "cut"
     => emergency' \/ state' \in {"PUB_TRAJ", "IDLE"}]_vars

(* A robot whose trajectory was cut and that owns a grid drives again.       *)
ResumesWork ==
  server = "cut" ~> (server = "running" \/ route = {})

(* "A frontier-less cell whose fallback target fails to plan 3 times in a    *)
(* row is released."                                                         *)
ReleasesFailingGrid ==
  streak.goal \in Grid /\ FallbackRelease > 0
  /\ streak.fails >= FallbackRelease => streak.goal \in visited

(* "A short-lived claim prevents two idle vehicles from selecting the same   *)
(* peer frontier": a robot does not set out for a frontier that it knows a   *)
(* peer with a lower id to have claimed.                                     *)
RespectsClaim ==
  [][state = "PLAN_TRAJ" /\ state' = "PUB_TRAJ" /\ PeerIsLower
     => next' \notin {share.claim} \ {None}]_vars

=============================================================================
