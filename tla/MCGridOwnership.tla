-------------------------- MODULE MCGridOwnership --------------------------
(* TLC instances of GridOwnership. *)
EXTENDS GridOwnership

(* Level-2 grids of the level-1 grids of the instances. *)
NoChildren == [c \in Coarse |-> {}]
TwoChildren == [c \in Coarse |-> IF c = 1 THEN Fine ELSE {}]

(* The slots of the released configuration, in steps of 10 ms, for five       *)
(* robots and a ground station: the timer and the clock meet a cycle in the   *)
(* same way again after five cycles.                                          *)
Slots == INSTANCE SenderSlots
  WITH Sender <- 1 .. 4, DroneNum <- 6, AttemptInterval <- 500,
       PairOptInterval <- 500, Stagger <- 12, Period <- 5, ClockStep <- 2,
       Transit <- 30, Last <- 2859

SlotsApart == Slots!OneSenderAtATime
FreeNextCycle == Slots!EligibleAgain
SlotsMet == Slots!EverySlotIsMet

(* From the first route on (StartTime), the gate of optTimerCallback lets    *)
(* one drone offer at a time ...                                             *)
OneSenderAtATime == now >= StartTime => SlotsApart

(* ... whose receiver is no longer reserved in the next cycle ...            *)
EligibleAgain == now >= StartTime => FreeNextCycle

(* ... and no drone is starved by the phase of its timer.                    *)
EverySlotIsMet == now >= StartTime => SlotsMet
=============================================================================
