---------------------------- MODULE ControlLoop ----------------------------
(***************************************************************************)
(* The controller and RACER around the link between them.                  *)
(*                                                                         *)
(* A step of the controller is a step of simulated time: the ROS2 gateway  *)
(* bridges the clock, RACER's trajectory server samples a setpoint for the *)
(* time it is told, and the setpoint comes back to the controller.  The    *)
(* controller's blocked reports take the same way to RACER.                *)
(***************************************************************************)
EXTENDS RacerController, Sequences

CONSTANTS
  MaxConn, MaxQueue   \* see GatewayLink

ASSUME LinkAssumption == MaxConn \in Nat \ {0} /\ MaxQueue \in Nat \ {0}

VARIABLES made, client, reader, accepted, server, cut, up, down, clockDue,
          cmdDue, told

Link == INSTANCE GatewayLink

linkVars == <<made, client, reader, accepted, server, cut, up, down,
              clockDue, cmdDue, told>>
loopVars == <<ctlVars, linkVars>>

LoopTypeOK == TypeOK /\ Link!TypeOK

LoopInit == Init /\ Link!Init

LoopTick(w) ==
  /\ ControlTick(w)
  /\ clockDue' = TRUE
  /\ UNCHANGED <<made, client, reader, accepted, server, cut, up, down,
                 cmdDue, told>>

OnBlocked == TakeReport /\ Link!OnBlocked(report)

Setpoint == Link!ClientRecv /\ OnTarget

LinkStep ==
  /\ \/ Link!OnClock \/ Link!Connect \/ Link!ClientFail
     \/ Link!Accept \/ Link!ServerRecv \/ Link!ServerFail \/ Link!OnCommand
     \/ Link!Fault
  /\ UNCHANGED ctlVars

LoopNext ==
  \/ \E w \in World : LoopTick(w)
  \/ OnBlocked \/ Setpoint \/ LinkStep

LoopSpec == LoopInit /\ [][LoopNext]_loopVars

(* The timer fires, the threads run, and a callback that waits for room in   *)
(* the socket gets it in turn.  Faults may happen.                           *)
LinkOnly(A) == A /\ UNCHANGED ctlVars

Fairness ==
  /\ WF_loopVars(\E w \in World : LoopTick(w))
  /\ SF_loopVars(OnBlocked) /\ SF_loopVars(LinkOnly(Link!OnClock))
  /\ WF_loopVars(Setpoint)
  /\ WF_loopVars(LinkOnly(Link!Connect)) /\ WF_loopVars(LinkOnly(Link!ClientFail))
  /\ WF_loopVars(LinkOnly(Link!Accept)) /\ WF_loopVars(LinkOnly(Link!ServerRecv))
  /\ WF_loopVars(LinkOnly(Link!ServerFail)) /\ WF_loopVars(LinkOnly(Link!OnCommand))

FairSpec == LoopSpec /\ Fairness

-----------------------------------------------------------------------------
Active == command \in {"track", "reverse"}

(* Setpoints arrive again and again, whatever connections broke: no end waits *)
(* for the other one for ever, though ROS1 has no time without the link.      *)
LoopCatchesUp == []<>(target = 0)

(* A robot that the barrier keeps from following its setpoints is known to    *)
(* RACER as blocked in the end, and stays so, also while it backs up.         *)
HeldIsTold == <>[](world.limited /\ Active) => <>[](told = "held")

(* A report that is over does not stay with RACER.                            *)
FreeIsTold == <>[](~world.limited /\ command = "track") => <>[](told = "free")

(* A robot that is commanded and stands is backed up again and again.         *)
NotForeverStanding ==
  <>[](world.wanted /\ ~world.moved /\ Active) => []<>(command = "reverse")
=============================================================================
