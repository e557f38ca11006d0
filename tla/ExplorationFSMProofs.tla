------------------------ MODULE ExplorationFSMProofs ------------------------
(***************************************************************************)
(* Type correctness of ExplorationFSM, and the safety of its trajectory    *)
(* hand-over, for every set of goals and all limits.                       *)
(***************************************************************************)
EXTENDS ExplorationFSM, TLAPS

(* What the flags say of the trajectory server.  ExecutesWholeTrajectory    *)
(* and EmergencyBrakes are not inductive: PLAN_TRAJ may go back to           *)
(* EXEC_TRAJ, so that a server that is not running must leave a trace in     *)
(* the flags which the FSM tests there.                                      *)
NotRunningIsFlagged ==
  server # "running" => static \/ emergency \/ state = "PUB_TRAJ"
ExecutionIsUnflagged == state = "EXEC_TRAJ" => ~static /\ ~emergency
PublishedPlanIsNoEmergency == state = "PUB_TRAJ" => ~emergency
HandledIsStatic == handled => static

HandOver ==
  /\ NotRunningIsFlagged
  /\ ExecutionIsUnflagged
  /\ PublishedPlanIsNoEmergency
  /\ HandledIsStatic
  /\ EmergencyBrakes

(* The invariants of the runs follow from the hand-over.                    *)
LEMMA HandOverSuffices ==
  ASSUME HandOver
  PROVE  ExecutesWholeTrajectory /\ EmergencyBrakes /\ HandledNeverExecutes
BY DEF HandOver, NotRunningIsFlagged, ExecutionIsUnflagged, HandledIsStatic,
       ExecutesWholeTrajectory, EmergencyBrakes, HandledNeverExecutes


-----------------------------------------------------------------------------
(* Type correctness *)

LEMMA LimitIsNat == Limit \in Nat
BY LimitAssumption DEF Limit

LEMMA BlockIsPositive == PlanFailBlock \in Nat /\ 0 < PlanFailBlock
BY LimitAssumption

LEMMA TypeInit == Init => TypeOK
<1> SUFFICES ASSUME Init PROVE TypeOK
  OBVIOUS
<1>1. streak \in [goal : Goal, fails : 0..Limit]
  <2>1. 0 \in 0..Limit /\ None \in Goal
    BY LimitIsNat DEF Goal
  <2>2. QED
    BY <2>1 DEF Init
<1>2. share \in [candidates : SUBSET Peer, claim : Peer \cup {None}]
  BY DEF Init, NoShare
<1>3. failures \in Nat /\ failures < PlanFailBlock
  BY BlockIsPositive DEF Init
<1>4. QED
  BY <1>1, <1>2, <1>3 DEF Init, TypeOK, State, Goal

LEMMA CutKeepsType ==
  ASSUME NEW s \in {"none", "running", "cut"}
  PROVE  Cut(s) \in {"none", "running", "cut"}
BY DEF Cut

LEMMA UpdateKeepsType ==
  ASSUME TypeOK, UpdateFrontierStruct
  PROVE  frontiers' \in BOOLEAN /\ rescue' \in Peer \cup {None}
BY DEF TypeOK, UpdateFrontierStruct, Rescuable

(* The part of the state a planning attempt decides.                        *)
PlanTyped ==
  /\ state' \in State /\ server' \in {"none", "running", "cut"}
  /\ emergency' \in BOOLEAN /\ static' \in BOOLEAN
  /\ committed' \in BOOLEAN
  /\ failures' \in Nat /\ failures' < PlanFailBlock
  /\ fallback' \in Grid \cup {None}
  /\ suppressed' \subseteq Goal /\ visited' \subseteq Grid

LEMMA SucceedsTyped ==
  ASSUME TypeOK, next' \in Goal, Succeeds
  PROVE  PlanTyped /\ streak' \in [goal : Goal, fails : 0..Limit]
<1>1. server' \in {"none", "running", "cut"}
  BY CutKeepsType DEF TypeOK, Succeeds
<1>2. streak' \in [goal : Goal, fails : 0..Limit]
  BY LimitIsNat DEF Succeeds
<1>3. failures' \in Nat /\ failures' < PlanFailBlock
  BY BlockIsPositive DEF Succeeds
<1>4. /\ static' \in BOOLEAN /\ committed' \in BOOLEAN
      /\ suppressed' \subseteq Goal /\ visited' \subseteq Grid
  BY DEF TypeOK, Succeeds
<1>5. /\ state' \in State /\ emergency' \in BOOLEAN
      /\ fallback' \in Grid \cup {None}
  BY DEF Succeeds, State
<1>6. QED
  BY <1>1, <1>2, <1>3, <1>4, <1>5 DEF PlanTyped

LEMMA FailsTyped ==
  ASSUME TypeOK, next' \in Goal,
         NEW grid \in Grid \cup {None}, NEW seen \in SUBSET Grid,
         Fails(grid, seen)
  PROVE  PlanTyped
<1> DEFINE release == FallbackRelease > 0 /\ grid # None
                      /\ failures + 1 >= FallbackRelease
           count == IF release THEN 0 ELSE failures + 1
<1>1. /\ visited' = IF release THEN seen \cup {grid} ELSE seen
      /\ fallback' = IF release THEN None ELSE grid
      /\ failures' = IF Blocks(count) THEN 0 ELSE count
      /\ suppressed' = IF Blocks(count) THEN suppressed \cup {next'}
                       ELSE suppressed
      /\ committed' = (committed /\ ~Blocks(count))
      /\ state' = IF HadSafeTrajectory THEN "EXEC_TRAJ" ELSE "PLAN_TRAJ"
      /\ static' = (static \/ ~HadSafeTrajectory)
      /\ UNCHANGED <<emergency, server>>
  BY DEF Fails
<1>2. visited' \subseteq Grid /\ fallback' \in Grid \cup {None}
  BY <1>1
<1>3. count \in Nat
  BY DEF TypeOK
<1>4. failures' \in Nat /\ failures' < PlanFailBlock
  <2>1. CASE Blocks(count)
    BY <1>1, <2>1, LimitAssumption
  <2>2. CASE ~Blocks(count)
    <3>1. failures' = count
      BY <1>1, <2>2
    <3>2. count < PlanFailBlock
      BY <1>3, <2>2, LimitAssumption DEF Blocks
    <3>3. QED
      BY <1>3, <3>1, <3>2
  <2>3. QED
    BY <2>1, <2>2
<1>5. suppressed' \subseteq Goal
  BY <1>1 DEF TypeOK
<1>6. /\ committed' \in BOOLEAN /\ static' \in BOOLEAN
      /\ emergency' \in BOOLEAN
  BY <1>1 DEF TypeOK
<1>7. state' \in State /\ server' \in {"none", "running", "cut"}
  BY <1>1 DEF TypeOK, State
<1>8. QED
  BY <1>2, <1>4, <1>5, <1>6, <1>7 DEF PlanTyped

LEMMA AgainTyped ==
  ASSUME TypeOK, NEW goal \in Goal
  PROVE  Again(goal) \in [goal : Goal, fails : 0..Limit]
<1>1. streak.fails \in 0..Limit
  BY DEF TypeOK
<1>2. CASE streak.fails < Limit
  <2>1. streak.fails + 1 \in 0..Limit /\ 1 \in 0..Limit
    BY <1>1, <1>2, LimitIsNat
  <2>2. QED
    BY <1>2, <2>1 DEF Again
<1>3. CASE ~(streak.fails < Limit)
  <2>1. Limit \in 0..Limit /\ 1 \in 0..Limit
    BY BlockIsPositive, LimitAssumption DEF Limit
  <2>2. QED
    BY <1>3, <2>1 DEF Again
<1>4. QED
  BY <1>2, <1>3

LEMMA AttemptTyped ==
  ASSUME TypeOK, next' \in Goal, Succeeds \/ TrajectoryFails
  PROVE  PlanTyped /\ streak' \in [goal : Goal, fails : 0..Limit]
<1>1. CASE Succeeds
  BY <1>1, SucceedsTyped
<1>2. CASE TrajectoryFails
  <2>1. Fails(None, visited) /\ streak' = Again(next')
    BY <1>2 DEF TrajectoryFails
  <2>2. visited \in SUBSET Grid
    BY DEF TypeOK
  <2>3. PlanTyped
    BY <2>1, <2>2, FailsTyped
  <2>4. QED
    BY <2>1, <2>3, AgainTyped
<1>3. QED
  BY <1>1, <1>2

LEMMA PlanKeepsType ==
  ASSUME TypeOK, Plan
  PROVE  TypeOK'
<1>1. CASE PlanToView
  <2>1. next' \in Goal /\ (Succeeds \/ TrajectoryFails)
    BY <1>1 DEF PlanToView, TypeOK
  <2>2. PlanTyped /\ streak' \in [goal : Goal, fails : 0..Limit]
    BY <2>1, AttemptTyped
  <2>3. QED
    BY <1>1, <2>1, <2>2 DEF PlanToView, PlanTyped, TypeOK, block, peers
<1>2. CASE PlanRescue
  <2>1. next' \in Goal /\ (Succeeds \/ TrajectoryFails)
    BY <1>2 DEF PlanRescue, TypeOK, Goal
  <2>2. PlanTyped /\ streak' \in [goal : Goal, fails : 0..Limit]
    BY <2>1, AttemptTyped
  <2>3. failedPeers' \subseteq Peer /\ rescue' \in Peer \cup {None}
    BY <1>2 DEF PlanRescue, TypeOK
  <2>4. QED
    BY <1>2, <2>1, <2>2, <2>3 DEF PlanRescue, PlanTyped, TypeOK, block
<1>3. CASE PlanRoute
  <2>1. next' \in Goal /\ (Succeeds \/ TrajectoryFails)
    BY <1>3 DEF PlanRoute, Goal
  <2>2. PlanTyped /\ streak' \in [goal : Goal, fails : 0..Limit]
    BY <2>1, AttemptTyped
  <2>3. route' \subseteq Grid
    BY <1>3 DEF PlanRoute, RefreshRoute
  <2>4. QED
    BY <1>3, <2>1, <2>2, <2>3
    DEF PlanRoute, PlanTyped, TypeOK, block, peers
<1>4. CASE NoProgress
  <2>1. next' \in Goal /\ visited \in SUBSET Grid /\ Fails(None, visited)
    BY <1>4 DEF NoProgress, TypeOK
  <2>2. PlanTyped
    BY <2>1, FailsTyped
  <2>3. route' \subseteq Grid
    BY <1>4 DEF NoProgress, RefreshRoute
  <2>4. QED
    BY <1>4, <2>1, <2>2, <2>3
    DEF NoProgress, PlanTyped, TypeOK, block, peers
<1>5. CASE ReleaseFallbackGrid
  <2>1. PICK g \in route' \ visited : Fails(g, visited \cup {g})
    BY <1>5 DEF ReleaseFallbackGrid
  <2>2. route' \subseteq Grid
    BY <1>5 DEF ReleaseFallbackGrid, RefreshRoute
  <2>3. /\ next' \in Goal /\ g \in Grid \cup {None}
        /\ visited \cup {g} \in SUBSET Grid
    BY <1>5, <2>2 DEF ReleaseFallbackGrid, TypeOK
  <2>4. PlanTyped
    BY <2>1, <2>3, FailsTyped
  <2>5. QED
    BY <1>5, <2>2, <2>3, <2>4
    DEF ReleaseFallbackGrid, PlanTyped, TypeOK, block, peers
<1>6. CASE NoGrid
  <2>1. server' \in {"none", "running", "cut"}
    BY <1>6, CutKeepsType DEF NoGrid, TypeOK
  <2>2. failures' \in Nat /\ failures' < PlanFailBlock
    BY <1>6, BlockIsPositive DEF NoGrid
  <2>3. route' \subseteq Grid
    BY <1>6 DEF NoGrid, RefreshRoute
  <2>4. QED
    BY <1>6, <2>1, <2>2, <2>3
    DEF NoGrid, TypeOK, State, target, block, map, peers
<1>7. QED
  BY <1>1, <1>2, <1>3, <1>4, <1>5, <1>6 DEF Plan

LEMMA StartKeepsType ==
  ASSUME TypeOK,
         Odometry \/ Initialised \/ Trigger \/ AwaitTrigger \/ Start \/ IdleCheck
  PROVE  TypeOK'
<1> USE DEF flags, target, block, planning, map, peers
<1>1. CASE Odometry
  BY <1>1 DEF Odometry, TypeOK
<1>2. CASE Initialised
  BY <1>2 DEF Initialised, TypeOK, State
<1>3. CASE Trigger
  BY <1>3 DEF Trigger, TypeOK
<1>4. CASE AwaitTrigger
  <2>1. frontiers' \in BOOLEAN /\ rescue' \in Peer \cup {None}
    BY <1>4, UpdateKeepsType DEF AwaitTrigger
  <2>2. QED
    BY <1>4, <2>1 DEF AwaitTrigger, TypeOK
<1>5. CASE Start
  <2>1. frontiers' \in BOOLEAN /\ rescue' \in Peer \cup {None}
    BY <1>5, UpdateKeepsType DEF Start
  <2>2. state' \in State
    BY <1>5 DEF Start, State
  <2>3. QED
    BY <1>5, <2>1, <2>2 DEF Start, TypeOK
<1>6. CASE IdleCheck
  <2>1. frontiers' \in BOOLEAN /\ rescue' \in Peer \cup {None}
    BY <1>6, UpdateKeepsType DEF IdleCheck
  <2>2. state' \in State
    BY <1>6 DEF IdleCheck, State
  <2>3. QED
    BY <1>6, <2>1, <2>2 DEF IdleCheck, TypeOK
<1>7. QED
  BY <1>1, <1>2, <1>3, <1>4, <1>5, <1>6

LEMMA ExecutionKeepsType ==
  ASSUME TypeOK,
         Publish \/ ExecutionBlocked \/ ExecutionClear \/ RetryBlocked
         \/ ReleaseBlocked \/ Watchdog \/ ReplanSameTarget
         \/ ReplanNextTarget \/ Safety \/ SwarmCollision
  PROVE  TypeOK'
<1> USE DEF flags, target, block, planning, map, peers
<1>1. Cut(server) \in {"none", "running", "cut"}
  BY CutKeepsType DEF TypeOK
<1>2. CASE Publish
  <2>1. committed' \in BOOLEAN /\ active' \in Goal /\ retries' \in {0, 1}
    BY <1>2 DEF Publish, TypeOK
  <2>2. QED
    BY <1>2, <2>1 DEF Publish, TypeOK, State
<1>3. CASE ExecutionBlocked
  BY <1>3 DEF ExecutionBlocked, TypeOK
<1>4. CASE ExecutionClear
  <2>1. blocked' \in BOOLEAN /\ handled' \in BOOLEAN
    BY <1>4 DEF ExecutionClear
  <2>2. QED
    BY <1>4, <2>1 DEF ExecutionClear, TypeOK
<1>5. CASE RetryBlocked
  <2>1. retries' \in {0, 1}
    BY <1>5 DEF RetryBlocked, TypeOK
  <2>2. QED
    BY <1>1, <1>5, <2>1 DEF RetryBlocked, HandleBlocked, TypeOK, State
<1>6. CASE ReleaseBlocked
  <2>1. suppressed' \subseteq Goal
    BY <1>6 DEF ReleaseBlocked, TypeOK
  <2>2. QED
    BY <1>6, <2>1 DEF ReleaseBlocked, HandleBlocked, TypeOK, State
<1>7. CASE Watchdog
  <2>1. suppressed' \subseteq Goal
    BY <1>7 DEF Watchdog, TypeOK
  <2>2. /\ state' \in State /\ committed' \in BOOLEAN
        /\ sameTarget' \in BOOLEAN /\ static' \in BOOLEAN
    BY <1>7 DEF Watchdog, State
  <2>3. QED
    BY <1>7, <2>1, <2>2 DEF Watchdog, TypeOK
<1>8. CASE ReplanSameTarget
  BY <1>8 DEF ReplanSameTarget, TypeOK, State
<1>9. CASE ReplanNextTarget
  <2>1. frontiers' \in BOOLEAN /\ rescue' \in Peer \cup {None}
    BY <1>9, UpdateKeepsType DEF ReplanNextTarget
  <2>2. /\ state' \in State /\ static' \in BOOLEAN
        /\ server' \in {"none", "running", "cut"}
    BY <1>1, <1>9 DEF ReplanNextTarget, TypeOK, State
  <2>3. QED
    BY <1>9, <2>1, <2>2 DEF ReplanNextTarget, TypeOK
<1>10. CASE Safety
  BY <1>1, <1>10 DEF Safety, TypeOK, State
<1>11. CASE SwarmCollision
  BY <1>1, <1>11 DEF SwarmCollision, TypeOK, State
<1>12. QED
  BY <1>2, <1>3, <1>4, <1>5, <1>6, <1>7, <1>8, <1>9, <1>10, <1>11

LEMMA PeersKeepType ==
  ASSUME TypeOK, YieldToPeer \/ ReceiveShare \/ ChangeRoute \/ Expire
  PROVE  TypeOK'
<1> USE DEF flags, target, block, planning, map, peers
<1>1. CASE YieldToPeer
  <2>1. PICK s \in SUBSET Peer, claim \in Peer :
          Yields(claim) /\ share' = [candidates |-> s, claim |-> claim]
    BY <1>1 DEF YieldToPeer
  <2>2. share' \in [candidates : SUBSET Peer, claim : Peer \cup {None}]
    BY <2>1
  <2>3. failedPeers' \subseteq Peer /\ rescue' \in Peer \cup {None}
    BY <1>1, <2>1 DEF YieldToPeer, Yields, TypeOK
  <2>4. Cut(server) \in {"none", "running", "cut"}
    BY CutKeepsType DEF TypeOK
  <2>5. /\ state' \in State /\ static' \in BOOLEAN
        /\ server' \in {"none", "running", "cut"}
    BY <1>1, <2>4 DEF YieldToPeer, TypeOK, State
  <2>6. QED
    BY <1>1, <2>2, <2>3, <2>5 DEF YieldToPeer, TypeOK
<1>2. CASE ReceiveShare
  <2>1. PICK s \in SUBSET Peer, claim \in Peer \cup {None} :
          /\ share' = [candidates |-> s, claim |-> claim]
          /\ state' = IF s # {} /\ state = "FINISH" /\ trigger THEN "IDLE"
                      ELSE state
    BY <1>2 DEF ReceiveShare
  <2>2. share' \in [candidates : SUBSET Peer, claim : Peer \cup {None}]
    BY <2>1
  <2>3. state' \in State
    BY <2>1 DEF TypeOK, State
  <2>4. QED
    BY <1>2, <2>2, <2>3 DEF ReceiveShare, TypeOK
<1>3. CASE ChangeRoute
  BY <1>3 DEF ChangeRoute, TypeOK, State
<1>4. CASE Expire
  <2>1. suppressed' \subseteq Goal /\ failedPeers' \subseteq Peer
    BY <1>4 DEF Expire, TypeOK
  <2>2. share' \in [candidates : SUBSET Peer, claim : Peer \cup {None}]
    BY <1>4 DEF Expire, TypeOK, NoShare
  <2>3. QED
    BY <1>4, <2>1, <2>2 DEF Expire, TypeOK
<1>5. QED
  BY <1>1, <1>2, <1>3, <1>4

LEMMA StutterKeepsType ==
  ASSUME TypeOK, UNCHANGED vars
  PROVE  TypeOK'
BY DEF TypeOK, vars, flags, target, block, planning, map, peers

(* Every variable of the state machine keeps its type; in particular the    *)
(* failure counter stays below the limit at which the FSM acts on it.       *)
THEOREM TypeCorrect == Spec => []TypeOK
<1>1. Init => TypeOK
  BY TypeInit
<1>2. TypeOK /\ [Next]_vars => TypeOK'
  <2> SUFFICES ASSUME TypeOK, [Next]_vars PROVE TypeOK'
    OBVIOUS
  <2>1. CASE Next
    BY <2>1, StartKeepsType, PlanKeepsType, ExecutionKeepsType, PeersKeepType
    DEF Next
  <2>2. CASE UNCHANGED vars
    BY <2>2, StutterKeepsType
  <2>3. QED
    BY <2>1, <2>2
<1>3. QED
  BY <1>1, <1>2, PTL DEF Spec

-----------------------------------------------------------------------------
(* The hand-over of trajectories *)

LEMMA HandOverInit == Init => HandOver
BY DEF Init, HandOver, NotRunningIsFlagged, ExecutionIsUnflagged,
       PublishedPlanIsNoEmergency, HandledIsStatic, EmergencyBrakes

(* An attempt that succeeds is published next; one that fails changes        *)
(* neither the server nor the emergency.                                     *)
LEMMA AttemptHandsOver ==
  ASSUME TypeOK, HandOver, state = "PLAN_TRAJ", handled' = handled,
         \/ Succeeds
         \/ \E grid \in Grid \cup {None}, seen \in SUBSET Grid :
              Fails(grid, seen)
  PROVE  HandOver'
<1> USE DEF HandOver, NotRunningIsFlagged, ExecutionIsUnflagged,
            PublishedPlanIsNoEmergency, HandledIsStatic, EmergencyBrakes
<1>1. CASE Succeeds
  BY <1>1 DEF Succeeds, TypeOK
<1>2. ASSUME NEW grid \in Grid \cup {None}, NEW seen \in SUBSET Grid,
             Fails(grid, seen)
      PROVE  HandOver'
  <2>1. /\ state' = IF HadSafeTrajectory THEN "EXEC_TRAJ" ELSE "PLAN_TRAJ"
        /\ static' = (static \/ ~HadSafeTrajectory)
        /\ emergency' = emergency /\ server' = server
    BY <1>2 DEF Fails
  <2>2. CASE HadSafeTrajectory
    BY <2>1, <2>2 DEF HadSafeTrajectory, TypeOK
  <2>3. CASE ~HadSafeTrajectory
    BY <2>1, <2>3 DEF HadSafeTrajectory, TypeOK
  <2>4. QED
    BY <2>2, <2>3
<1>3. QED
  BY <1>1, <1>2

LEMMA PlanHandsOver ==
  ASSUME TypeOK, HandOver, Plan
  PROVE  HandOver'
<1> DEFINE Fail == \E grid \in Grid \cup {None}, seen \in SUBSET Grid :
                     Fails(grid, seen)
<1>1. ASSUME TrajectoryFails PROVE Fail
  <2>1. visited \in SUBSET Grid
    BY DEF TypeOK
  <2>2. QED
    BY <1>1, <2>1 DEF TrajectoryFails
<1>2. CASE PlanToView
  BY <1>1, <1>2, AttemptHandsOver DEF PlanToView, block
<1>3. CASE PlanRescue
  BY <1>1, <1>3, AttemptHandsOver DEF PlanRescue, block
<1>4. CASE PlanRoute
  BY <1>1, <1>4, AttemptHandsOver DEF PlanRoute, RefreshRoute, block
<1>5. CASE NoProgress
  <2>1. visited \in SUBSET Grid /\ Fails(None, visited)
    BY <1>5 DEF NoProgress, TypeOK
  <2>2. Fail
    BY <2>1
  <2>3. QED
    BY <1>5, <2>2, AttemptHandsOver DEF NoProgress, RefreshRoute, block
<1>6. CASE ReleaseFallbackGrid
  <2>1. PICK g \in route' \ visited : Fails(g, visited \cup {g})
    BY <1>6 DEF ReleaseFallbackGrid
  <2>2. g \in Grid \cup {None} /\ visited \cup {g} \in SUBSET Grid
    BY <1>6 DEF ReleaseFallbackGrid, RefreshRoute, TypeOK
  <2>3. Fail
    BY <2>1, <2>2
  <2>4. QED
    BY <1>6, <2>3, AttemptHandsOver
    DEF ReleaseFallbackGrid, RefreshRoute, block
<1>7. CASE NoGrid
  BY <1>7
  DEF NoGrid, block, HandOver, NotRunningIsFlagged, ExecutionIsUnflagged,
      PublishedPlanIsNoEmergency, HandledIsStatic, EmergencyBrakes
<1>8. QED
  BY <1>2, <1>3, <1>4, <1>5, <1>6, <1>7 DEF Plan

LEMMA OthersHandOver ==
  ASSUME TypeOK, HandOver, Next, ~Plan
  PROVE  HandOver'
<1> USE DEF flags, target, block, planning, map, peers
<1> USE DEF HandOver, NotRunningIsFlagged, ExecutionIsUnflagged,
            PublishedPlanIsNoEmergency, HandledIsStatic, EmergencyBrakes
<1>1. CASE Odometry \/ Initialised \/ Trigger \/ AwaitTrigger
  BY <1>1 DEF Odometry, Initialised, Trigger, AwaitTrigger
<1>2. CASE Start \/ IdleCheck
  BY <1>2 DEF Start, IdleCheck
<1>3. CASE Publish
  BY <1>3 DEF Publish
<1>4. CASE ExecutionBlocked
  BY <1>4 DEF ExecutionBlocked
<1>5. CASE ExecutionClear
  BY <1>5 DEF ExecutionClear
<1>6. CASE RetryBlocked
  BY <1>6 DEF RetryBlocked, HandleBlocked, Cut
<1>7. CASE ReleaseBlocked
  BY <1>7 DEF ReleaseBlocked, HandleBlocked
<1>8. CASE Watchdog \/ ReplanSameTarget
  BY <1>8 DEF Watchdog, ReplanSameTarget
<1>9. CASE ReplanNextTarget
  BY <1>9 DEF ReplanNextTarget, Cut
<1>10. CASE Safety \/ SwarmCollision
  BY <1>10 DEF Safety, SwarmCollision, Cut
<1>11. CASE YieldToPeer
  BY <1>11 DEF YieldToPeer, Cut
<1>12. CASE ReceiveShare
  BY <1>12 DEF ReceiveShare
<1>13. CASE ChangeRoute \/ Expire
  BY <1>13 DEF ChangeRoute, Expire
<1>14. QED
  BY <1>1, <1>2, <1>3, <1>4, <1>5, <1>6, <1>7, <1>8, <1>9, <1>10, <1>11,
     <1>12, <1>13 DEF Next

(* Whatever callbacks interleave, EXEC_TRAJ means that the server executes   *)
(* the whole published trajectory, an emergency brakes until the replacement *)
(* is published, and a handled blocked episode is over before the robot      *)
(* executes again.                                                           *)
THEOREM TrajectoryHandOver ==
  Spec => [](ExecutesWholeTrajectory /\ EmergencyBrakes /\ HandledNeverExecutes)
<1>1. Init => TypeOK /\ HandOver
  BY TypeInit, HandOverInit
<1>2. TypeOK /\ TypeOK' /\ HandOver /\ [Next]_vars => HandOver'
  <2> SUFFICES ASSUME TypeOK, HandOver, [Next]_vars PROVE HandOver'
    OBVIOUS
  <2>1. CASE Next
    BY <2>1, PlanHandsOver, OthersHandOver
  <2>2. CASE UNCHANGED vars
    BY <2>2 DEF vars, flags, block, HandOver, NotRunningIsFlagged,
                ExecutionIsUnflagged, PublishedPlanIsNoEmergency,
                HandledIsStatic, EmergencyBrakes
  <2>3. QED
    BY <2>1, <2>2
<1>3. HandOver => ExecutesWholeTrajectory /\ EmergencyBrakes
                  /\ HandledNeverExecutes
  BY HandOverSuffices
<1>4. QED
  BY <1>1, <1>2, <1>3, TypeCorrect, PTL DEF Spec

(* safetyCallback: an emergency leaves the server cut until the replacement  *)
(* is published, whatever the state machine does meanwhile.                  *)
THEOREM EmergenciesBrake == Spec => []EmergencyBrakes
  BY TrajectoryHandOver, PTL

(* executionBlockedCallback: a handled blocked episode does not last into    *)
(* the execution of the next trajectory.                                     *)
THEOREM BlockedEpisodesEnd == Spec => []HandledNeverExecutes
  BY TrajectoryHandOver, PTL

(* A moving vehicle is stopped by an emergency, by a complete replacement or *)
(* for want of work, and by nothing else: a failed plan leaves the server as *)
(* it is.                                                                    *)
THEOREM MotionEndsForAReason == Spec => StopsForAReason
<1> DEFINE Reason == server = "running" /\ server' = "cut"
                     => emergency' \/ state' \in {"PUB_TRAJ", "IDLE"}
<1> USE DEF flags, target, block, planning, map, peers
<1>1. ASSUME NEW grid, NEW seen, Fails(grid, seen) PROVE Reason
  BY <1>1 DEF Fails
<1>2. ASSUME Succeeds PROVE Reason
  BY <1>2 DEF Succeeds
<1>3. ASSUME Plan PROVE Reason
  <2>1. CASE PlanToView \/ PlanRescue \/ PlanRoute
    <3>1. Succeeds \/ Fails(None, visited)
      BY <2>1 DEF PlanToView, PlanRescue, PlanRoute, TrajectoryFails
    <3>2. QED
      BY <1>1, <1>2, <3>1
  <2>2. CASE NoProgress \/ ReleaseFallbackGrid
    BY <1>1, <2>2 DEF NoProgress, ReleaseFallbackGrid
  <2>3. CASE NoGrid
    BY <2>3 DEF NoGrid
  <2>4. QED
    BY <1>3, <2>1, <2>2, <2>3 DEF Plan
<1>4. ASSUME Next, ~Plan PROVE Reason
  <2>1. CASE \/ Odometry \/ Initialised \/ Trigger \/ AwaitTrigger \/ Start
             \/ IdleCheck \/ Publish
    BY <2>1 DEF Odometry, Initialised, Trigger, AwaitTrigger, Start, IdleCheck,
                Publish
  <2>2. CASE \/ ExecutionBlocked \/ ExecutionClear \/ RetryBlocked
             \/ ReleaseBlocked \/ Watchdog \/ ReplanSameTarget
    BY <2>2 DEF ExecutionBlocked, ExecutionClear, RetryBlocked, ReleaseBlocked,
                HandleBlocked, Watchdog, ReplanSameTarget
  <2>3. CASE ReplanNextTarget \/ Safety \/ SwarmCollision
    BY <2>3 DEF ReplanNextTarget, Safety, SwarmCollision
  <2>4. CASE YieldToPeer \/ ReceiveShare \/ ChangeRoute \/ Expire
    BY <2>4 DEF YieldToPeer, ReceiveShare, ChangeRoute, Expire
  <2>5. QED
    BY <1>4, <2>1, <2>2, <2>3, <2>4 DEF Next
<1>5. [Next]_vars => [Reason]_vars
  BY <1>3, <1>4 DEF vars
<1>6. QED
  BY <1>5, PTL DEF Spec, StopsForAReason

=============================================================================
