-------------------------- MODULE RacerController --------------------------
(***************************************************************************)
(* The ROS2 velocity controller, one robot's channel.                      *)
(*                                                                         *)
(* A timer turns the last setpoint of RACER into a velocity.  It hovers    *)
(* while an input is missing or old, excites the odometry before the       *)
(* common frame exists, reports that the safety barrier keeps the robot    *)
(* from moving, and backs up a robot that is commanded and stands.         *)
(*                                                                         *)
(* Time is counted in steps of the control timer; the code's time stamps   *)
(* are ages, up to the largest one that matters.  Velocities are left out: *)
(* what the sensors and the barrier make of a setpoint is a world.         *)
(***************************************************************************)
EXTENDS Integers

CONSTANTS
  World,           \* what a step may find, see Worlds
  CommandTimeout,  \* command_timeout
  BlockDwell,      \* execution_blocked_dwell
  ReportPeriod,    \* the 0.5 s of update_execution_blocked
  StuckDwell,      \* stuck_recovery_dwell
  RecoveryTime,    \* stuck_recovery_duration
  Cooldown         \* stuck_recovery_cooldown

(* healthy: odometry, attitude, SLAM and lidar are fresh and no emergency     *)
(* stop was asked for (one that was lasts: a run of worlds without health);   *)
(* wanted: the commanded speed reaches stuck_recovery_min_command_speed;      *)
(* moved: the robot left stuck_anchor_pos; limited: a barrier changed the     *)
(* velocity.                                                                  *)
Worlds == [healthy : BOOLEAN, wanted : BOOLEAN, moved : BOOLEAN,
           limited : BOOLEAN]

ASSUME WorldAssumption == World \subseteq Worlds /\ World # {}
ASSUME DelayAssumption ==
  /\ CommandTimeout \in Nat /\ BlockDwell \in Nat /\ Cooldown \in Nat
  /\ ReportPeriod \in Nat \ {0} /\ StuckDwell \in Nat \ {0}
  /\ RecoveryTime \in Nat \ {0}

VARIABLES
  boot,       \* bootstrap_started, _quality_ready_since, _complete
  target,     \* age of target_received
  barrier,    \* age of barrier_active_since
  blocked,    \* execution_blocked
  quiet,      \* age of last_blocked_publish_sim_time
  anchor,     \* age of stuck_anchor_time
  reverse,    \* what is left until recovery_until
  owed,       \* last_recovery_end < recovery_until
  rest,       \* age of last_recovery_end
  report,     \* the last report on /execution_blocked, if it was not taken yet
  command,    \* what the last step published
  world,      \* what the last step found
  gap,        \* history: steps since the last one that backed up
  backing     \* history: steps that backed up since the last one that tracked

inputs == <<boot, target>>
blocking == <<barrier, blocked, quiet>>
recovery == <<anchor, reverse, owed, rest>>
history == <<gap, backing>>
ctlVars == <<inputs, blocking, recovery, report, command, world, history>>

Unset == -1
Age(limit) == Unset .. limit

(* One type invariant.                                                      *)
TypeOK ==
  /\ boot \in {"wait", "excite", "done"}
  /\ target \in Age(CommandTimeout + 1)
  /\ barrier \in Age(BlockDwell) /\ blocked \in BOOLEAN
  /\ quiet \in 0 .. ReportPeriod
  /\ anchor \in Age(StuckDwell) /\ reverse \in 0 .. RecoveryTime
  /\ owed \in BOOLEAN /\ rest \in 0 .. Cooldown
  /\ report \in {"none", "held", "free"}
  /\ command \in {"hover", "excite", "track", "reverse"}
  /\ world \in World
  /\ gap \in 0 .. StuckDwell /\ backing \in Nat

Init ==
  /\ boot = "wait" /\ target = Unset
  /\ barrier = Unset /\ blocked = FALSE /\ quiet = ReportPeriod
  /\ anchor = Unset /\ reverse = 0 /\ owed = FALSE /\ rest = Cooldown
  /\ report = "none" /\ command = "hover" /\ world \in World
  /\ gap = StuckDwell /\ backing = 0

Grow(age, limit) == IF age \in {Unset, limit} THEN age ELSE age + 1
Less(n) == IF n = 0 THEN 0 ELSE n - 1

-----------------------------------------------------------------------------
(* The blocked report *)

(* Mutant of Since: the dwell starts anew at every step.                    *)
SinceNow(limited) == IF limited THEN 0 ELSE Unset

(* barrier_active_since after a step that tracks.                           *)
Since(limited) ==
  IF ~limited THEN Unset
  ELSE IF barrier = Unset THEN 0 ELSE Grow(barrier, BlockDwell)

(* Mutant of Tells: only a change is reported.                              *)
TellsChanges(now) == now # blocked

Tells(now) == now # blocked \/ Grow(quiet, ReportPeriod) = ReportPeriod

(* update_execution_blocked *)
UpdateExecutionBlocked(limited) ==
  LET now == Since(limited) >= BlockDwell
  IN /\ barrier' = Since(limited)
     /\ blocked' = now
     /\ IF Tells(now)
        THEN /\ quiet' = 0
             /\ report' = IF now THEN "held" ELSE "free"
        ELSE quiet' = Grow(quiet, ReportPeriod) /\ UNCHANGED report

(* Nothing is reported; the barrier's time goes on.                         *)
KeepBlocked ==
  /\ barrier' = Grow(barrier, BlockDwell)
  /\ quiet' = Grow(quiet, ReportPeriod)
  /\ UNCHANGED <<blocked, report>>

-----------------------------------------------------------------------------
(* stuck_recovery *)

Over == Less(reverse) = 0

(* Mutant of Stood: the age of the anchor has no bound.                     *)
StoodUncapped(w) == IF anchor = Unset \/ w.moved THEN 0 ELSE anchor + 1

(* The first step that tracks after a recovery ends it.                     *)
Ends == Over /\ owed

(* Mutant of Stood: the end of a recovery does not set a new anchor.        *)
StoodSinceMoved(w) ==
  IF anchor = Unset \/ w.moved THEN 0 ELSE Grow(anchor, StuckDwell)

Stood(w) ==
  IF Ends \/ anchor = Unset \/ w.moved THEN 0 ELSE Grow(anchor, StuckDwell)

(* Mutant of Rested: every step that tracks starts the cooldown anew.        *)
RestedNever == 0

Rested == IF Ends THEN 0 ELSE Grow(rest, Cooldown)

(* Mutant of Triggers: a recovery that is going on starts again.            *)
TriggersAgain(w) ==
  w.wanted /\ Stood(w) = StuckDwell /\ Rested = Cooldown

Triggers(w) ==
  Over /\ w.wanted /\ Stood(w) = StuckDwell /\ Rested = Cooldown

StillOwed(w) == Triggers(w) \/ (owed /\ ~Over)

TimePasses ==
  /\ anchor' = Grow(anchor, StuckDwell)
  /\ reverse' = Less(reverse)
  /\ rest' = Grow(rest, Cooldown)
  /\ UNCHANGED owed

-----------------------------------------------------------------------------
(* control_tick *)

(* publish_hover *)
Hover ==
  /\ command' = "hover"
  /\ barrier' = Unset /\ blocked' = FALSE /\ quiet' = 0
  /\ report' = IF blocked THEN "free" ELSE report
  /\ TimePasses

(* publish_bootstrap_command; without attitude it publishes zero velocity,   *)
(* but unlike publish_hover takes no report back.                           *)
Excite(w) ==
  /\ command' = IF w.healthy THEN "excite" ELSE "hover"
  /\ KeepBlocked /\ TimePasses

Track(w) ==
  /\ anchor' = Stood(w)
  /\ rest' = Rested
  /\ owed' = StillOwed(w)
  /\ reverse' = IF Triggers(w) THEN RecoveryTime ELSE Less(reverse)
  /\ IF reverse' > 0 THEN command' = "reverse" /\ KeepBlocked
     ELSE command' = "track" /\ UpdateExecutionBlocked(w.limited)

(* Excitation begins when every stream is there, ends when the matches of    *)
(* the trajectories have been good enough for the time to settle, and begins *)
(* again when they are not, also once the frame is complete.                 *)
Later == [wait |-> {"wait", "excite"}, excite |-> {"excite", "done"},
          done |-> {"done", "excite"}]

(* Before the frame is there, healthy speaks of the local odometry; the      *)
(* frame adapter publishes odometry in the common frame only afterwards.     *)
(* What is not healthy then may be the attitude, which is looked at last.    *)
Excites(w) == w.healthy /\ boot' = "excite"
Tracks(w) == /\ w.healthy /\ boot' = "done"
             /\ target' \in 0 .. CommandTimeout

Remember ==
  /\ gap' = IF command' = "reverse" THEN 0 ELSE Grow(gap, StuckDwell)
  /\ backing' = IF command' = "reverse" THEN backing + 1
                ELSE IF command' = "track" THEN 0 ELSE backing

ControlTick(w) ==
  /\ boot' \in Later[boot]
  /\ target' = Grow(target, CommandTimeout + 1)
  /\ \/ boot' = "excite" /\ Excite(w)
     \/ Tracks(w) /\ Track(w)
     \/ ~Excites(w) /\ ~Tracks(w) /\ Hover
  /\ world' = w
  /\ Remember

(* on_target, for a setpoint within the bounds.                             *)
OnTarget ==
  /\ target' = 0
  /\ UNCHANGED <<boot, blocking, recovery, report, command, world,
                 history>>

(* The subscriber of /execution_blocked takes the report.                   *)
TakeReport ==
  /\ report # "none" /\ report' = "none"
  /\ UNCHANGED <<inputs, blocking, recovery, command, world, history>>

Next ==
  \/ \E w \in World : ControlTick(w)
  \/ OnTarget \/ TakeReport

Spec == Init /\ [][Next]_ctlVars

-----------------------------------------------------------------------------
(* A recovery backs up no longer than its duration, also when it is          *)
(* interrupted by hovering: its time goes on, and no step extends it.        *)
ReverseIsShort == backing <= RecoveryTime

(* Two recoveries are a whole dwell apart: what the robot stood before the   *)
(* first one, or during it, does not count for the second one.               *)
RecoveriesApart == [][reverse' > reverse => gap >= StuckDwell]_ctlVars
=============================================================================
