---------------------------- MODULE SenderSlots ----------------------------
(***************************************************************************)
(* When a drone may offer a pair optimization.                             *)
(*                                                                         *)
(* The timers of all drones fire on the same phase of the simulated clock. *)
(* The gate of optTimerCallback gives each of them a slot of its own in a  *)
(* cycle that is longer than attempt_interval_.  GridOwnership lets a drone *)
(* offer at any time, so that what it shows does not depend on the slots;  *)
(* this module says what the slots add.  Times are integers of one unit.   *)
(***************************************************************************)
EXTENDS Integers, TLAPS

CONSTANTS
  Sender,           \* ids of the drones that have a partner with a larger id
  DroneNum,         \* drone_num_: the drones and the ground station
  AttemptInterval,  \* attempt_interval_
  PairOptInterval,  \* pair_opt_interval_
  Stagger,          \* pair_opt_timer_stagger_
  Period,           \* period of opt_timer_
  ClockStep,        \* simulated time between two messages on /clock
  Transit,          \* bound: from the slot of an offer to its acceptance
  Last              \* bound: last time considered

Time == 0 .. Last

(* Mutants of SlotWidth: slots that overlap, slots between two timer events. *)
WideSlot == 2 * Stagger
NarrowSlot == Stagger \div 4

SlotWidth == Stagger \div 2

SlotBegin(i) == Stagger * (i - 1)

(* Mutant of Cycle: no guard.                                               *)
CycleWithoutGuard == AttemptInterval

Cycle == AttemptInterval + Stagger * DroneNum

InSlot(i, t) == LET phase == t % Cycle
                IN SlotBegin(i) <= phase /\ phase < SlotBegin(i) + SlotWidth

Turns(i) == {t \in Time : InSlot(i, t)}

(* The clock value at which the timer fires for its k-th due time.          *)
Fires(k) == LET due == k * Period
            IN due + ((-due) % ClockStep)

-----------------------------------------------------------------------------
(* Two drones never offer at the same clock value: the receiver of one is    *)
(* not reserved by another one at the same stamp.                            *)
OneSenderAtATime ==
  \A t \in Time, i, j \in Sender : InSlot(i, t) /\ InSlot(j, t) => i = j

(* "a receiver used in the previous cycle is eligible again before the next  *)
(* low-ID sender starts": an offer accepted within Transit of its slot no    *)
(* longer stands in the way in the next cycle, for any sender as an attempt, *)
(* for the same one as an interaction.                                       *)
EligibleAgain ==
  \A i, j \in Sender : \A t \in Turns(i), u \in Turns(j) :
    u \div Cycle = t \div Cycle + 1
      => /\ u - (t + Transit) >= AttemptInterval
         /\ i = j => u - (t + Transit) >= PairOptInterval

(* No slot falls between two events of the timer, as long as the thread is    *)
(* free: a drone is not starved by the phase of its timer.                   *)
EverySlotIsMet ==
  \A n \in 0 .. (Last \div Cycle) - 1, i \in Sender :
    \E k \in 0 .. Last :
      /\ n * Cycle + SlotBegin(i) <= Fires(k)
      /\ Fires(k) < n * Cycle + SlotBegin(i) + SlotWidth

-----------------------------------------------------------------------------
(* What the slots promise for all numbers of drones and all times.  A slot   *)
(* is half a stagger and begins at a multiple of the stagger: slots of two   *)
(* ids are apart.  The slots of the ids above a sender, which its partners   *)
(* and the ground station do not use, are the time its offer has to be       *)
(* accepted.                                                                 *)

SlotParameters ==
  /\ DroneNum \in Nat \ {0} /\ Sender \subseteq 1 .. DroneNum
  /\ AttemptInterval \in Nat /\ PairOptInterval \in Nat
  /\ Stagger \in Nat \ {0} /\ Period \in Nat \ {0}
  /\ ClockStep \in Nat \ {0} /\ Transit \in Nat /\ Last \in Nat

(* An offer arrives before the slots after its own are over.                *)
OffersArrive ==
  \A i \in Sender : Transit + SlotWidth <= Stagger * (DroneNum - i + 1)

(* A slot is wider than what the timer and the clock may be late together.  *)
SlotHoldsAnEvent == Period + ClockStep <= SlotWidth + 1

-----------------------------------------------------------------------------
(* Numbers *)

LEMMA Division ==
  ASSUME NEW a \in Int, NEW b \in Nat \ {0}
  PROVE  /\ a \div b \in Int /\ a % b \in 0 .. b - 1
         /\ a = b * (a \div b) + (a % b)
  OBVIOUS

LEMMA Widths ==
  ASSUME SlotParameters
  PROVE  /\ SlotWidth \in Nat /\ SlotWidth <= Stagger
         /\ Stagger * DroneNum \in Nat
         /\ Cycle \in Nat \ {0} /\ Cycle = AttemptInterval + Stagger * DroneNum
<1>1. Stagger * DroneNum \in Nat \ {0}
  BY DEF SlotParameters
<1>2. /\ Stagger \div 2 \in Int /\ Stagger % 2 \in 0 .. 1
      /\ Stagger = 2 * (Stagger \div 2) + (Stagger % 2)
  BY Division DEF SlotParameters
<1> QED
  BY <1>1, <1>2 DEF SlotParameters, SlotWidth, Cycle

LEMMA Begins ==
  ASSUME SlotParameters, NEW i \in Sender
  PROVE  /\ i \in 1 .. DroneNum
         /\ SlotBegin(i) \in Nat
         /\ SlotBegin(i) + Stagger * (DroneNum - i + 1) = Stagger * DroneNum
         /\ SlotBegin(i) + Stagger <= Stagger * DroneNum
<1>1. i \in 1 .. DroneNum /\ Stagger \in Nat \ {0} /\ DroneNum \in Nat
  BY DEF SlotParameters
<1>2. Stagger * (i - 1) \in Nat
  BY <1>1
<1>3. Stagger * (i - 1) + Stagger * (DroneNum - i + 1) = Stagger * DroneNum
  BY <1>1
<1>4. Stagger * (i - 1) + Stagger <= Stagger * DroneNum
  BY <1>1
<1> QED
  BY <1>1, <1>2, <1>3, <1>4 DEF SlotBegin

(* The slots of two ids are at least a stagger apart.                       *)
LEMMA Apart ==
  ASSUME SlotParameters, NEW i \in Sender, NEW j \in Sender, i < j
  PROVE  SlotBegin(i) + Stagger <= SlotBegin(j)
<1>1. i \in Int /\ j \in Int /\ Stagger \in Nat
  BY DEF SlotParameters
<1>2. Stagger * (i - 1) + Stagger <= Stagger * (j - 1)
  BY <1>1
<1> QED
  BY <1>2 DEF SlotBegin

-----------------------------------------------------------------------------
(* optTimerCallback: no two drones of any team are in their slots at once.  *)
THEOREM SlotsAreApart ==
  ASSUME SlotParameters
  PROVE  OneSenderAtATime
<1> SUFFICES ASSUME NEW t \in Time, NEW i \in Sender, NEW j \in Sender,
                    InSlot(i, t), InSlot(j, t), i < j
             PROVE  FALSE
  <2>1. \A i, j \in Sender : i \in Int /\ j \in Int
    BY DEF SlotParameters
  <2> QED
    BY <2>1 DEF OneSenderAtATime
<1>1. t % Cycle \in Nat
  <2>1. t \in Int /\ Cycle \in Nat \ {0}
    BY Widths DEF Time, SlotParameters
  <2> QED
    BY <2>1, Division
<1>2. SlotBegin(i) + Stagger <= SlotBegin(j)
  BY Apart
<1> QED
  BY <1>1, <1>2, Widths, Begins DEF InSlot, SlotParameters

(* The guard of the cycle: an offer that arrives before the slots after its  *)
(* own are over keeps no sender of the next cycle away, however many drones. *)
THEOREM NextCycleIsFree ==
  ASSUME SlotParameters, OffersArrive, PairOptInterval <= AttemptInterval
  PROVE  EligibleAgain
<1> SUFFICES ASSUME NEW i \in Sender, NEW j \in Sender,
                    NEW t \in Turns(i), NEW u \in Turns(j),
                    u \div Cycle = t \div Cycle + 1
             PROVE  /\ u - (t + Transit) >= AttemptInterval
                    /\ i = j => u - (t + Transit) >= PairOptInterval
  BY DEF EligibleAgain
<1> DEFINE p == t % Cycle  q == u % Cycle  n == t \div Cycle
<1>1. /\ t \in Int /\ u \in Int
      /\ InSlot(i, t) /\ InSlot(j, u)
  BY DEF Turns, Time, SlotParameters
<1>2. /\ n \in Int /\ p \in Int /\ q \in Nat
      /\ t = Cycle * n + p /\ u = Cycle * (n + 1) + q
  <2>1. Cycle \in Nat \ {0}
    BY Widths
  <2>2. u = Cycle * (u \div Cycle) + q /\ q \in 0 .. Cycle - 1
    BY <1>1, <2>1, Division
  <2>3. t = Cycle * n + p /\ p \in 0 .. Cycle - 1 /\ n \in Int
    BY <1>1, <2>1, Division
  <2> QED
    BY <2>1, <2>2, <2>3
<1>3. Cycle * (n + 1) = Cycle * n + Cycle /\ Cycle * n \in Int
  BY <1>2, Widths
<1>4. p < SlotBegin(i) + SlotWidth
  BY <1>1 DEF InSlot
<1>5. u - t = Cycle + q - p
  <2> HIDE DEF n, p, q
  <2> QED
    BY <1>2, <1>3, Widths
<1>6. Transit + SlotWidth <= Stagger * DroneNum - SlotBegin(i)
  <2>1. Transit + SlotWidth <= Stagger * (DroneNum - i + 1)
    BY DEF OffersArrive
  <2>2. Stagger * (DroneNum - i + 1) \in Int
    BY DEF SlotParameters
  <2> QED
    BY <2>1, <2>2, Begins, Widths DEF SlotParameters
<1> HIDE DEF n, p, q
<1>7. u - (t + Transit) >= AttemptInterval
  BY <1>1, <1>2, <1>4, <1>5, <1>6, Begins, Widths DEF SlotParameters
<1> QED
  BY <1>1, <1>7 DEF SlotParameters

-----------------------------------------------------------------------------
(* The timer is due in every interval of its period.                        *)
LEMMA DueTime ==
  ASSUME NEW b \in Nat, NEW p \in Nat \ {0}
  PROVE  \E k \in 0 .. b : b <= k * p /\ k * p < b + p
<1> DEFINE k == (b + p - 1) \div p  r == (b + p - 1) % p
<1>1. k \in Int /\ r \in 0 .. p - 1 /\ b + p - 1 = p * k + r
  <2>1. b + p - 1 \in Int
    OBVIOUS
  <2> HIDE DEF k, r
  <2> QED
    BY <2>1, Division DEF k, r
<1> HIDE DEF k, r
<1>2. b <= k * p /\ k * p < b + p
  BY <1>1
<1>3. k >= 0
  <2>1. k < 0 => k * p <= 0
    BY <1>1
  <2>2. k < 0 => k * p <= -p
    BY <1>1
  <2> QED
    BY <1>1, <1>2, <2>1, <2>2
<1>4. k <= b
  <2>1. k >= b + 1 => k * p >= (b + 1) * p
    BY <1>1
  <2>2. (b + 1) * p >= b + p
    OBVIOUS
  <2>3. k * p \in Int /\ (b + 1) * p \in Int
    BY <1>1
  <2> QED
    BY <1>1, <1>2, <2>1, <2>2, <2>3
<1> QED
  BY <1>1, <1>2, <1>3, <1>4

(* opt_timer_ on the steps of /clock fires in every slot of every drone.     *)
THEOREM NoSlotIsMissed ==
  ASSUME SlotParameters, SlotHoldsAnEvent
  PROVE  EverySlotIsMet
<1> SUFFICES ASSUME NEW n \in 0 .. (Last \div Cycle) - 1, NEW i \in Sender
             PROVE  \E k \in 0 .. Last :
                      /\ n * Cycle + SlotBegin(i) <= Fires(k)
                      /\ Fires(k) < n * Cycle + SlotBegin(i) + SlotWidth
  BY DEF EverySlotIsMet
<1> DEFINE b == n * Cycle + SlotBegin(i)
<1>0. Last \in Int /\ Cycle \in Nat \ {0}
  BY Widths DEF SlotParameters
<1>1. /\ n \in Nat /\ n * Cycle \in Nat
      /\ n + 1 <= Last \div Cycle /\ Last \div Cycle \in Int
  <2>1. Last \div Cycle \in Int
    BY <1>0, Division
  <2>2. n \in Nat /\ n + 1 <= Last \div Cycle
    BY <2>1
  <2> QED
    BY <2>1, <2>2, Widths
<1>2. b \in Nat /\ b <= Last
  <2>1. /\ Last = Cycle * (Last \div Cycle) + (Last % Cycle)
        /\ Last % Cycle \in Nat
    BY <1>0, Division
  <2>2. Cycle * (n + 1) <= Cycle * (Last \div Cycle)
    BY <1>1, Widths
  <2>3. Cycle * (n + 1) = n * Cycle + Cycle
    BY <1>1, Widths
  <2>4. Cycle * (Last \div Cycle) \in Int
    BY <1>1, Widths
  <2>5. SlotBegin(i) \in Nat /\ SlotBegin(i) < Cycle
    <3>1. /\ SlotBegin(i) \in Nat
          /\ SlotBegin(i) + Stagger <= Stagger * DroneNum
      BY Begins
    <3>2. /\ Cycle = AttemptInterval + Stagger * DroneNum
          /\ Stagger * DroneNum \in Nat
      BY Widths
    <3> QED
      BY <3>1, <3>2 DEF SlotParameters
  <2>6. b <= Cycle * (n + 1)
    BY <1>0, <1>1, <2>3, <2>5
  <2> QED
    BY <1>0, <1>1, <2>1, <2>2, <2>3, <2>4, <2>5, <2>6
<1>3. PICK k \in 0 .. b : b <= k * Period /\ k * Period < b + Period
  BY <1>2, DueTime DEF SlotParameters
<1>4. k * Period \in Nat
  BY <1>2, <1>3 DEF SlotParameters
<1>5. (-(k * Period)) % ClockStep \in 0 .. ClockStep - 1
  <2>1. -(k * Period) \in Int /\ ClockStep \in Nat \ {0}
    BY <1>4 DEF SlotParameters
  <2> QED
    BY <2>1, Division
<1> HIDE DEF b
<1>6. b <= Fires(k) /\ Fires(k) < b + SlotWidth
  BY <1>2, <1>3, <1>4, <1>5, Widths DEF Fires, SlotHoldsAnEvent, SlotParameters
<1>7. k \in 0 .. Last
  BY <1>2, <1>3 DEF SlotParameters
<1> QED
  BY <1>6, <1>7 DEF b
=============================================================================
