----------------------- MODULE RacerControllerProofs -----------------------
(***************************************************************************)
(* What is true of the controller for all delays and all worlds.           *)
(*                                                                         *)
(* The argument is about the book that the recovery keeps.  While a        *)
(* recovery is owed, the steps that backed up and those that may still do  *)
(* so are at most its duration; while none is owed, the anchor is younger  *)
(* than the last step that backed up.  What a recovery needs to start,     *)
(* an anchor of a whole dwell, then puts it a dwell after the last one.    *)
(***************************************************************************)
EXTENDS ControlLoop, TLAPS

(* The duration of a recovery bounds what it did and may still do.          *)
BackingIsPaid ==
  /\ ~owed => backing = 0 /\ reverse = 0
  /\ backing <= RecoveryTime
  /\ reverse > 0 => backing + reverse <= RecoveryTime + 1

(* The anchor was set after the last step that backed up.                   *)
AnchorIsYoung == owed \/ gap = StuckDwell \/ anchor < gap

Inv == TypeOK /\ BackingIsPaid /\ AnchorIsYoung

-----------------------------------------------------------------------------
(* Ages *)

LEMMA GrowType ==
  ASSUME NEW limit \in Nat, NEW age \in Age(limit)
  PROVE  /\ Grow(age, limit) \in Age(limit)
         /\ age # Unset => Grow(age, limit) \in 0 .. limit
  BY DEF Grow, Age, Unset

LEMMA CapType ==
  ASSUME NEW limit \in Nat, NEW age \in 0 .. limit
  PROVE  Grow(age, limit) \in 0 .. limit
  BY DEF Grow, Unset

LEMMA LessType ==
  ASSUME NEW limit \in Nat, NEW n \in 0 .. limit
  PROVE  /\ Less(n) \in 0 .. limit
         /\ n > 0 => Less(n) = n - 1
         /\ n = 0 => Less(n) = 0
  BY DEF Less

-----------------------------------------------------------------------------
(* What a step does to the recovery *)

(* A step that hovers or excites.                                           *)
Waits ==
  /\ command' \in {"hover", "excite"}
  /\ anchor' = Grow(anchor, StuckDwell) /\ reverse' = Less(reverse)
  /\ rest' = Grow(rest, Cooldown) /\ owed' = owed
  /\ gap' = Grow(gap, StuckDwell) /\ backing' = backing

(* A step that begins a recovery, one that goes on with it, one that tracks. *)
Begins ==
  /\ ~owed /\ Grow(anchor, StuckDwell) = StuckDwell
  /\ anchor # Unset
  /\ command' = "reverse" /\ owed' = TRUE /\ reverse' = RecoveryTime
  /\ gap' = 0 /\ backing' = backing + 1
  /\ anchor' = StuckDwell

GoesOn ==
  /\ Less(reverse) > 0 /\ reverse' = Less(reverse)
  /\ owed' = owed /\ command' = "reverse"
  /\ gap' = 0 /\ backing' = backing + 1

TracksOn ==
  /\ Less(reverse) = 0 /\ reverse' = 0 /\ owed' = FALSE
  /\ command' = "track" /\ backing' = 0 /\ gap' = Grow(gap, StuckDwell)
  /\ anchor' = 0 \/ (~owed /\ anchor # Unset /\ anchor' = Grow(anchor, StuckDwell))

LEMMA TrackSteps ==
  ASSUME TypeOK, BackingIsPaid, NEW w \in World, Track(w), Remember
  PROVE  Begins \/ GoesOn \/ TracksOn
<1> USE DelayAssumption
<1>1. /\ reverse \in 0 .. RecoveryTime /\ owed \in BOOLEAN
      /\ anchor \in Age(StuckDwell)
  BY DEF TypeOK
<1>2. Less(reverse) \in 0 .. RecoveryTime
  BY <1>1, LessType
<1>3. StuckDwell \in Nat /\ StuckDwell # 0 /\ RecoveryTime > 0
  OBVIOUS
<1>4. CASE Triggers(w)
  <2>1. Over /\ Stood(w) = StuckDwell
    BY <1>4 DEF Triggers
  <2>2. ~Ends /\ anchor # Unset /\ Grow(anchor, StuckDwell) = StuckDwell
    BY <2>1, <1>3 DEF Stood
  <2>3. ~owed
    BY <2>1, <2>2 DEF Ends
  <2>4. owed' = TRUE
    BY <1>4 DEF Track, StillOwed
  <2>5. anchor' = StuckDwell
    BY <2>1 DEF Track
  <2>6. reverse' = RecoveryTime
    BY <1>4 DEF Track
  <2>7. command' = "reverse"
    BY <2>6, <1>3 DEF Track
  <2>8. gap' = 0 /\ backing' = backing + 1
    BY <2>7 DEF Remember
  <2> QED
    BY <2>2, <2>3, <2>4, <2>5, <2>6, <2>7, <2>8 DEF Begins
<1>5. CASE ~Triggers(w) /\ Less(reverse) > 0
  <2>1. reverse' = Less(reverse)
    BY <1>5 DEF Track
  <2>2. command' = "reverse"
    BY <2>1, <1>5 DEF Track
  <2>3. ~Over
    BY <1>5 DEF Over
  <2>4. owed' = owed
    BY <2>3, <1>5, <1>1 DEF Track, StillOwed
  <2>5. gap' = 0 /\ backing' = backing + 1
    BY <2>2 DEF Remember
  <2> QED
    BY <1>5, <2>1, <2>2, <2>4, <2>5 DEF GoesOn
<1>6. CASE ~Triggers(w) /\ Less(reverse) = 0
  <2>1. reverse' = 0
    BY <1>6 DEF Track
  <2>2. command' = "track"
    BY <2>1 DEF Track
  <2>3. Over
    BY <1>6 DEF Over
  <2>4. owed' = FALSE
    BY <2>3, <1>6 DEF Track, StillOwed
  <2>5. gap' = Grow(gap, StuckDwell) /\ backing' = 0
    BY <2>2 DEF Remember
  <2>6. \/ anchor' = 0
        \/ ~owed /\ anchor # Unset /\ anchor' = Grow(anchor, StuckDwell)
    <3>1. anchor' = Stood(w)
      BY DEF Track
    <3>2. CASE Ends \/ anchor = Unset \/ w.moved
      BY <3>1, <3>2 DEF Stood
    <3>3. CASE ~(Ends \/ anchor = Unset \/ w.moved)
      <4>1. ~owed
        BY <2>3, <3>3 DEF Ends
      <4>2. anchor' = Grow(anchor, StuckDwell)
        BY <3>1, <3>3 DEF Stood
      <4> QED
        BY <4>1, <4>2, <3>3
    <3> QED
      BY <3>2, <3>3
  <2> QED
    BY <1>6, <2>1, <2>2, <2>4, <2>5, <2>6 DEF TracksOn
<1> QED
  BY <1>2, <1>4, <1>5, <1>6

LEMMA WaitSteps ==
  ASSUME NEW w \in World, TimePasses, command' \in {"hover", "excite"},
         Remember
  PROVE  Waits
  BY DEF Waits, TimePasses, Remember

LEMMA TickSteps ==
  ASSUME TypeOK, BackingIsPaid, NEW w \in World, ControlTick(w)
  PROVE  Waits \/ Begins \/ GoesOn \/ TracksOn
<1>1. Remember
  BY DEF ControlTick
<1>2. CASE Excite(w)
  BY <1>1, <1>2, WaitSteps DEF Excite
<1>3. CASE Track(w)
  BY <1>1, <1>3, TrackSteps
<1>4. CASE Hover
  BY <1>1, <1>4, WaitSteps DEF Hover
<1> QED
  BY <1>2, <1>3, <1>4 DEF ControlTick

-----------------------------------------------------------------------------
(* Type correctness *)

LEMMA InitTypes ==
  ASSUME Init
  PROVE  TypeOK
<1>1. /\ boot \in {"wait", "excite", "done"} /\ blocked \in BOOLEAN
      /\ owed \in BOOLEAN /\ report \in {"none", "held", "free"}
      /\ command \in {"hover", "excite", "track", "reverse"}
      /\ world \in World
  BY DEF Init
<1>2. target \in Age(CommandTimeout + 1) /\ barrier \in Age(BlockDwell)
  BY DelayAssumption DEF Init, Age, Unset
<1>3. quiet \in 0 .. ReportPeriod /\ anchor \in Age(StuckDwell)
  BY DelayAssumption DEF Init, Age, Unset
<1>4. reverse \in 0 .. RecoveryTime /\ rest \in 0 .. Cooldown
  BY DelayAssumption DEF Init
<1>5. gap \in 0 .. StuckDwell /\ backing \in Nat
  BY DelayAssumption DEF Init
<1> QED
  BY <1>1, <1>2, <1>3, <1>4, <1>5 DEF TypeOK

LEMMA SinceType ==
  ASSUME TypeOK, NEW limited \in BOOLEAN
  PROVE  Since(limited) \in Age(BlockDwell)
<1>1. BlockDwell \in Nat /\ barrier \in Age(BlockDwell)
  BY DelayAssumption DEF TypeOK
<1>2. Grow(barrier, BlockDwell) \in Age(BlockDwell)
  BY <1>1, GrowType
<1> QED
  BY <1>1, <1>2 DEF Since, Age, Unset

LEMMA StoodType ==
  ASSUME TypeOK, NEW w
  PROVE  Stood(w) \in Age(StuckDwell)
<1>1. StuckDwell \in Nat /\ anchor \in Age(StuckDwell)
  BY DelayAssumption DEF TypeOK
<1>2. Grow(anchor, StuckDwell) \in Age(StuckDwell)
  BY <1>1, GrowType
<1> QED
  BY <1>1, <1>2 DEF Stood, Age, Unset

LEMMA RestedType ==
  ASSUME TypeOK
  PROVE  Rested \in 0 .. Cooldown
<1>1. Cooldown \in Nat /\ rest \in 0 .. Cooldown
  BY DelayAssumption DEF TypeOK
<1>2. Grow(rest, Cooldown) \in 0 .. Cooldown
  BY <1>1, CapType
<1> QED
  BY <1>1, <1>2 DEF Rested

LEMMA KeepTypes ==
  ASSUME TypeOK, KeepBlocked
  PROVE  /\ barrier' \in Age(BlockDwell) /\ blocked' \in BOOLEAN
         /\ quiet' \in 0 .. ReportPeriod
         /\ report' \in {"none", "held", "free"}
<1>1. /\ BlockDwell \in Nat /\ barrier \in Age(BlockDwell)
      /\ ReportPeriod \in Nat /\ quiet \in 0 .. ReportPeriod
  BY DelayAssumption DEF TypeOK
<1>2. Grow(barrier, BlockDwell) \in Age(BlockDwell)
  BY <1>1, GrowType
<1>3. Grow(quiet, ReportPeriod) \in 0 .. ReportPeriod
  BY <1>1, CapType
<1> QED
  BY <1>2, <1>3 DEF KeepBlocked, TypeOK

LEMMA UpdateTypes ==
  ASSUME TypeOK, NEW limited \in BOOLEAN, UpdateExecutionBlocked(limited)
  PROVE  /\ barrier' \in Age(BlockDwell) /\ blocked' \in BOOLEAN
         /\ quiet' \in 0 .. ReportPeriod
         /\ report' \in {"none", "held", "free"}
<1>1. /\ ReportPeriod \in Nat /\ quiet \in 0 .. ReportPeriod
      /\ report \in {"none", "held", "free"}
  BY DelayAssumption DEF TypeOK
<1>2. Since(limited) \in Age(BlockDwell)
  BY SinceType
<1>3. Grow(quiet, ReportPeriod) \in 0 .. ReportPeriod
  BY <1>1, CapType
<1>4. barrier' = Since(limited) /\ blocked' = (Since(limited) >= BlockDwell)
  BY DEF UpdateExecutionBlocked
<1>5. quiet' = 0 \/ quiet' = Grow(quiet, ReportPeriod)
  BY DEF UpdateExecutionBlocked
<1>6. report' \in {"held", "free", report}
  BY DEF UpdateExecutionBlocked
<1>7. blocked' \in BOOLEAN
  <2>1. CASE Since(limited) >= BlockDwell
    BY <1>4, <2>1
  <2>2. CASE ~(Since(limited) >= BlockDwell)
    BY <1>4, <2>2
  <2> QED
    BY <2>1, <2>2
<1> QED
  BY <1>1, <1>2, <1>3, <1>4, <1>5, <1>6, <1>7

LEMMA TickReportTypes ==
  ASSUME TypeOK, NEW w \in World, ControlTick(w)
  PROVE  /\ barrier' \in Age(BlockDwell) /\ blocked' \in BOOLEAN
         /\ quiet' \in 0 .. ReportPeriod
         /\ report' \in {"none", "held", "free"}
<1>1. CASE Excite(w)
  BY <1>1, KeepTypes DEF Excite
<1>2. CASE Track(w)
  <2>1. CASE KeepBlocked
    BY <2>1, KeepTypes
  <2>2. CASE UpdateExecutionBlocked(w.limited)
    <3>1. w.limited \in BOOLEAN
      BY WorldAssumption DEF Worlds
    <3> QED
      BY <2>2, <3>1, UpdateTypes
  <2> QED
    BY <1>2, <2>1, <2>2 DEF Track
<1>3. CASE Hover
  <2>1. barrier' = Unset /\ blocked' = FALSE /\ quiet' = 0
    BY <1>3 DEF Hover
  <2>2. report' \in {"free", report}
    BY <1>3 DEF Hover
  <2>3. blocked' \in BOOLEAN /\ report' \in {"none", "held", "free"}
    BY <2>1, <2>2 DEF TypeOK
  <2>4. barrier' \in Age(BlockDwell) /\ quiet' \in 0 .. ReportPeriod
    BY <2>1, DelayAssumption DEF Age, Unset
  <2> QED
    BY <2>3, <2>4
<1> QED
  BY <1>1, <1>2, <1>3 DEF ControlTick

LEMMA TickRestTypes ==
  ASSUME TypeOK, NEW w \in World, ControlTick(w)
  PROVE  rest' \in 0 .. Cooldown
<1>1. Cooldown \in Nat /\ rest \in 0 .. Cooldown
  BY DelayAssumption DEF TypeOK
<1>2. rest' = Grow(rest, Cooldown) \/ rest' = Rested
  BY DEF ControlTick, Excite, Track, Hover, TimePasses
<1> QED
  BY <1>1, <1>2, CapType, RestedType

LEMMA TickInputTypes ==
  ASSUME TypeOK, NEW w \in World, ControlTick(w)
  PROVE  /\ boot' \in {"wait", "excite", "done"}
         /\ target' \in Age(CommandTimeout + 1) /\ world' \in World
<1>1. CommandTimeout + 1 \in Nat /\ target \in Age(CommandTimeout + 1)
  BY DelayAssumption DEF TypeOK
<1>2. boot' \in {"wait", "excite", "done"}
  BY DEF ControlTick, TypeOK, Later
<1> QED
  BY <1>1, <1>2, GrowType DEF ControlTick

LEMMA TickRecoveryTypes ==
  ASSUME Inv, NEW w \in World, ControlTick(w)
  PROVE  /\ anchor' \in Age(StuckDwell) /\ reverse' \in 0 .. RecoveryTime
         /\ owed' \in BOOLEAN
         /\ command' \in {"hover", "excite", "track", "reverse"}
         /\ gap' \in 0 .. StuckDwell /\ backing' \in Nat
<1>1. /\ StuckDwell \in Nat /\ RecoveryTime \in Nat
      /\ anchor \in Age(StuckDwell) /\ reverse \in 0 .. RecoveryTime
      /\ owed \in BOOLEAN /\ gap \in 0 .. StuckDwell /\ backing \in Nat
  BY DelayAssumption DEF Inv, TypeOK
<1>2. anchor' \in Age(StuckDwell)
  <2>1. anchor' = Grow(anchor, StuckDwell) \/ anchor' = Stood(w)
    BY DEF ControlTick, Excite, Track, Hover, TimePasses
  <2> QED
    BY <2>1, <1>1, GrowType, StoodType DEF Inv
<1>3. /\ Less(reverse) \in 0 .. RecoveryTime
      /\ Grow(gap, StuckDwell) \in 0 .. StuckDwell
  BY <1>1, LessType, CapType
<1>4. Waits \/ Begins \/ GoesOn \/ TracksOn
  BY TickSteps DEF Inv
<1>5. owed' \in BOOLEAN
  BY <1>1, <1>4 DEF Waits, Begins, GoesOn, TracksOn
<1>6. /\ reverse' \in {Less(reverse), RecoveryTime, 0}
      /\ command' \in {"hover", "excite", "track", "reverse"}
      /\ gap' \in {Grow(gap, StuckDwell), 0}
      /\ backing' \in {backing, backing + 1, 0}
  BY <1>4 DEF Waits, Begins, GoesOn, TracksOn
<1>7. reverse' \in 0 .. RecoveryTime
  BY <1>1, <1>3, <1>6
<1>8. gap' \in 0 .. StuckDwell /\ backing' \in Nat
  BY <1>1, <1>3, <1>6
<1> QED
  BY <1>2, <1>5, <1>6, <1>7, <1>8

LEMMA TypesKept ==
  ASSUME Inv, [Next]_ctlVars
  PROVE  TypeOK'
<1> TypeOK
  BY DEF Inv
<1>1. ASSUME NEW w \in World, ControlTick(w) PROVE TypeOK'
  BY <1>1, TickReportTypes, TickRestTypes, TickInputTypes, TickRecoveryTypes
     DEF TypeOK
<1>2. CASE OnTarget
  <2>1. target' \in Age(CommandTimeout + 1)
    BY <1>2, DelayAssumption DEF OnTarget, Age, Unset
  <2> QED
    BY <1>2, <2>1 DEF OnTarget, TypeOK, blocking, recovery, history
<1>3. CASE TakeReport
  BY <1>3 DEF TakeReport, TypeOK, inputs, blocking, recovery, history
<1>4. CASE UNCHANGED ctlVars
  BY <1>4 DEF ctlVars, TypeOK, inputs, blocking, recovery, history
<1> QED
  BY <1>1, <1>2, <1>3, <1>4 DEF Next

-----------------------------------------------------------------------------
(* The recovery *)

LEMMA InitBook ==
  Init => BackingIsPaid /\ AnchorIsYoung
  BY DelayAssumption DEF Init, BackingIsPaid, AnchorIsYoung

LEMMA TickBook ==
  ASSUME Inv, NEW w \in World, ControlTick(w)
  PROVE  BackingIsPaid' /\ AnchorIsYoung'
<1>1. /\ StuckDwell \in Nat \ {0} /\ RecoveryTime \in Nat \ {0}
      /\ anchor \in Age(StuckDwell) /\ reverse \in 0 .. RecoveryTime
      /\ owed \in BOOLEAN /\ gap \in 0 .. StuckDwell /\ backing \in Nat
  BY DelayAssumption DEF Inv, TypeOK
<1>2. /\ ~owed => backing = 0 /\ reverse = 0
      /\ backing <= RecoveryTime
      /\ reverse > 0 => backing + reverse <= RecoveryTime + 1
      /\ owed \/ gap = StuckDwell \/ anchor < gap
  BY DEF Inv, BackingIsPaid, AnchorIsYoung
<1>3. /\ Less(reverse) \in 0 .. RecoveryTime
      /\ reverse > 0 => Less(reverse) = reverse - 1
      /\ reverse = 0 => Less(reverse) = 0
  BY <1>1, LessType
<1>4. owed \/ Grow(gap, StuckDwell) = StuckDwell
          \/ Grow(anchor, StuckDwell) < Grow(gap, StuckDwell)
  BY <1>1, <1>2 DEF Grow, Age, Unset
<1>5. Grow(gap, StuckDwell) > 0
  BY <1>1 DEF Grow, Unset
<1>6. CASE Waits
  BY <1>1, <1>2, <1>3, <1>4, <1>6 DEF Waits, BackingIsPaid, AnchorIsYoung
<1>7. CASE Begins
  BY <1>1, <1>2, <1>7 DEF Begins, BackingIsPaid, AnchorIsYoung
<1>8. CASE GoesOn
  <2>1. reverse > 1 /\ Less(reverse) = reverse - 1
    BY <1>1, <1>3, <1>8 DEF GoesOn
  <2>2. owed /\ owed' = owed
    BY <2>1, <1>2, <1>8 DEF GoesOn
  <2>3. backing' = backing + 1 /\ reverse' = reverse - 1
    BY <2>1, <1>8 DEF GoesOn
  <2> QED
    BY <1>1, <1>2, <2>1, <2>2, <2>3 DEF BackingIsPaid, AnchorIsYoung
<1>9. CASE TracksOn
  BY <1>1, <1>2, <1>4, <1>5, <1>9 DEF TracksOn, BackingIsPaid, AnchorIsYoung
<1> QED
  BY <1>6, <1>7, <1>8, <1>9, TickSteps DEF Inv

LEMMA InvKept ==
  ASSUME Inv, [Next]_ctlVars
  PROVE  Inv'
<1>1. TypeOK'
  BY TypesKept
<1>2. ASSUME NEW w \in World, ControlTick(w)
      PROVE  BackingIsPaid' /\ AnchorIsYoung'
  BY <1>2, TickBook
<1>3. ASSUME UNCHANGED recovery, UNCHANGED history
      PROVE  BackingIsPaid' /\ AnchorIsYoung'
  <2>1. /\ anchor' = anchor /\ reverse' = reverse /\ owed' = owed
        /\ gap' = gap /\ backing' = backing
    BY <1>3 DEF recovery, history
  <2>2. BackingIsPaid /\ AnchorIsYoung
    BY DEF Inv
  <2> QED
    BY <2>1, <2>2 DEF BackingIsPaid, AnchorIsYoung
<1>4. ASSUME OnTarget \/ TakeReport \/ UNCHANGED ctlVars
      PROVE  UNCHANGED recovery /\ UNCHANGED history
  BY <1>4 DEF OnTarget, TakeReport, ctlVars
<1>5. BackingIsPaid' /\ AnchorIsYoung'
  BY <1>2, <1>3, <1>4 DEF Next
<1> QED
  BY <1>1, <1>5 DEF Inv

LEMMA Invariance ==
  Spec => []Inv
<1>1. Init => Inv
  BY InitTypes, InitBook DEF Inv
<1>2. Inv /\ [Next]_ctlVars => Inv'
  BY InvKept
<1> QED
  BY <1>1, <1>2, PTL DEF Spec

(* The ages, the report and the book of the recovery keep their ranges.     *)
THEOREM TypeCorrect ==
  Spec => []TypeOK
<1>1. Inv => TypeOK
  BY DEF Inv
<1> QED
  BY <1>1, Invariance, PTL

(* stuck_recovery: a recovery never backs up longer than its duration.      *)
THEOREM ShortRecoveries ==
  Spec => []ReverseIsShort
<1>1. Inv => ReverseIsShort
  BY DEF Inv, BackingIsPaid, ReverseIsShort
<1> QED
  BY <1>1, Invariance, PTL

(* stuck_recovery: two recoveries are a whole dwell apart.                  *)
THEOREM DwellBetweenRecoveries ==
  Spec => RecoveriesApart
<1>1. ASSUME Inv, [Next]_ctlVars, reverse' > reverse
      PROVE  gap >= StuckDwell
  <2>1. /\ StuckDwell \in Nat \ {0} /\ RecoveryTime \in Nat \ {0}
        /\ anchor \in Age(StuckDwell) /\ reverse \in 0 .. RecoveryTime
        /\ owed \in BOOLEAN /\ gap \in 0 .. StuckDwell
        /\ owed \/ gap = StuckDwell \/ anchor < gap
    BY <1>1, DelayAssumption DEF Inv, TypeOK, AnchorIsYoung
  <2>2. /\ Less(reverse) \in 0 .. RecoveryTime
        /\ reverse > 0 => Less(reverse) = reverse - 1
        /\ reverse = 0 => Less(reverse) = 0
    BY <2>1, LessType
  <2>3. PICK w \in World : ControlTick(w)
    BY <1>1, <2>1 DEF Next, OnTarget, TakeReport, ctlVars, recovery
  <2>4. Waits \/ Begins \/ GoesOn \/ TracksOn
    BY <1>1, <2>3, TickSteps DEF Inv
  <2>5. ~owed /\ anchor # Unset /\ Grow(anchor, StuckDwell) = StuckDwell
    BY <1>1, <2>1, <2>2, <2>4 DEF Waits, Begins, GoesOn, TracksOn
  <2> QED
    BY <2>1, <2>5 DEF Grow, Age, Unset
<1>2. Inv /\ [Next]_ctlVars
        => [reverse' > reverse => gap >= StuckDwell]_ctlVars
  BY <1>1
<1> QED
  BY <1>2, Invariance, PTL DEF Spec, RecoveriesApart

-----------------------------------------------------------------------------
(* The link around the controller takes no step of it away and adds none:   *)
(* what is true of the controller is true of it in the loop.                *)
THEOREM LoopIsController ==
  LoopSpec => Spec
<1>1. LoopInit => Init
  BY DEF LoopInit
<1>2. [LoopNext]_loopVars => [Next]_ctlVars
  <2>1. ASSUME NEW w \in World, LoopTick(w) PROVE Next
    BY <2>1 DEF LoopTick, Next
  <2>2. OnBlocked => Next
    BY DEF OnBlocked, Next
  <2>3. Setpoint => Next
    BY DEF Setpoint, Next
  <2>4. LinkStep \/ UNCHANGED loopVars => UNCHANGED ctlVars
    BY DEF LinkStep, loopVars
  <2> QED
    BY <2>1, <2>2, <2>3, <2>4 DEF LoopNext
<1> QED
  BY <1>1, <1>2, PTL DEF LoopSpec, Spec

(* In the loop, a recovery never backs up longer than its duration, and two *)
(* of them are a dwell apart.                                               *)
THEOREM RecoveriesInTheLoop ==
  LoopSpec => []ReverseIsShort /\ RecoveriesApart
  BY LoopIsController, ShortRecoveries, DwellBetweenRecoveries

-----------------------------------------------------------------------------
(* The types of the loop: what a socket takes is what it gives.             *)

Bounded(q, S) ==
  q \in [Link!Conn -> Seq(S)] /\ \A c \in Link!Conn : Len(q[c]) <= MaxQueue

LEMMA QueueTypes ==
  ASSUME NEW S, NEW q, Bounded(q, S), NEW c \in Link!Conn
  PROVE  /\ Bounded([q EXCEPT ![c] = <<>>], S)
         /\ q[c] # <<>> => /\ Bounded([q EXCEPT ![c] = Tail(@)], S)
                           /\ Head(q[c]) \in S
         /\ Len(q[c]) < MaxQueue =>
              \A f \in S : Bounded([q EXCEPT ![c] = Append(@, f)], S)
<1> USE LinkAssumption
<1> q[c] \in Seq(S) /\ Len(q[c]) \in Nat
  BY DEF Bounded
<1>1. Bounded([q EXCEPT ![c] = <<>>], S)
  BY DEF Bounded
<1>2. ASSUME q[c] # <<>>
      PROVE  Bounded([q EXCEPT ![c] = Tail(@)], S) /\ Head(q[c]) \in S
  <2>1. Tail(q[c]) \in Seq(S) /\ Len(Tail(q[c])) <= Len(q[c])
    BY <1>2
  <2> QED
    BY <1>2, <2>1 DEF Bounded
<1>3. ASSUME NEW f \in S, Len(q[c]) < MaxQueue
      PROVE  Bounded([q EXCEPT ![c] = Append(@, f)], S)
  <2>1. /\ Append(q[c], f) \in Seq(S)
        /\ Len(Append(q[c], f)) = Len(q[c]) + 1
    OBVIOUS
  <2> QED
    BY <1>3, <2>1 DEF Bounded
<1> QED
  BY <1>1, <1>2, <1>3

UpFrames == Link!Reports \cup {"clock"}

EndTypes ==
  /\ made \in 0 .. MaxConn
  /\ client \in 0 .. made /\ reader \in 0 .. made
  /\ accepted \in 0 .. made /\ server \in 0 .. accepted
  /\ cut \subseteq 1 .. made
  /\ clockDue \in BOOLEAN /\ cmdDue \in BOOLEAN
  /\ told \in Link!Reports

QueuesTyped == Bounded(up, UpFrames) /\ Bounded(down, {"setpoint"})

LEMMA LinkTypes ==
  Link!TypeOK <=> EndTypes /\ QueuesTyped
  BY DEF Link!TypeOK, EndTypes, QueuesTyped, Bounded, UpFrames

LEMMA ConnsAreNumbers ==
  ASSUME EndTypes
  PROVE  /\ made \in Nat /\ made <= MaxConn
         /\ 1 .. made \subseteq Link!Conn
         /\ client # 0 => client \in Link!Conn
         /\ reader # 0 => reader \in Link!Conn
         /\ server # 0 => server \in Link!Conn
  BY LinkAssumption DEF EndTypes, Link!Conn

LEMMA SendTypes ==
  ASSUME EndTypes, QueuesTyped, NEW frame \in UpFrames, Link!Send(frame)
  PROVE  Bounded(up', UpFrames) /\ client' \in 0 .. made
<1>1. CASE UNCHANGED up
  BY <1>1 DEF Link!Send, EndTypes, QueuesTyped
<1>2. CASE /\ client \notin cut \cup {0} /\ Len(up[client]) < MaxQueue
           /\ up' = [up EXCEPT ![client] = Append(@, frame)]
           /\ UNCHANGED client
  <2>1. client \in Link!Conn
    BY <1>2, ConnsAreNumbers
  <2> QED
    BY <1>2, <2>1, QueueTypes DEF EndTypes, QueuesTyped
<1> QED
  BY <1>1, <1>2 DEF Link!Send

(* Each action keeps the types of the ends and of the queues.               *)
LEMMA LinkStepTypes ==
  ASSUME EndTypes, QueuesTyped,
         \/ Link!OnClock \/ Link!Connect \/ Link!ClientRecv \/ Link!ClientFail
         \/ Link!Accept \/ Link!ServerRecv \/ Link!ServerFail \/ Link!OnCommand
         \/ Link!Fault
  PROVE  EndTypes' /\ QueuesTyped'
<1> USE LinkAssumption
<1>0. "clock" \in UpFrames
  BY DEF UpFrames
<1>1. CASE Link!OnClock
  BY <1>0, <1>1, SendTypes DEF Link!OnClock, EndTypes, QueuesTyped
<1>2. CASE Link!Connect
  BY <1>2 DEF Link!Connect, Link!queues, EndTypes, QueuesTyped
<1>3. CASE Link!ClientRecv
  BY <1>3, ConnsAreNumbers, QueueTypes
  DEF Link!ClientRecv, Link!ends, EndTypes, QueuesTyped
<1>4. CASE Link!ClientFail
  <2>1. EndTypes'
    BY <1>4 DEF Link!ClientFail, EndTypes
  <2>2. QueuesTyped'
    BY <1>4, ConnsAreNumbers, QueueTypes DEF Link!ClientFail, QueuesTyped
  <2> QED
    BY <2>1, <2>2
<1>5. CASE Link!Accept
  BY <1>5 DEF Link!Accept, Link!queues, EndTypes, QueuesTyped
<1>6. CASE Link!ServerRecv
  <2>1. QueuesTyped' /\ Head(up[server]) \in UpFrames
    BY <1>6, ConnsAreNumbers, QueueTypes DEF Link!ServerRecv, QueuesTyped
  <2>2. EndTypes'
    BY <1>6 DEF Link!ServerRecv, Link!ends, EndTypes
  <2> QED
    BY <2>1, <2>2
<1>7. CASE Link!ServerFail
  <2>1. server # 0
    BY <1>7 DEF Link!ServerFail, EndTypes
  <2>2. EndTypes'
    BY <1>7 DEF Link!ServerFail, EndTypes
  <2>3. QueuesTyped'
    BY <1>7, <2>1, ConnsAreNumbers, QueueTypes DEF Link!ServerFail, QueuesTyped
  <2> QED
    BY <2>2, <2>3
<1>8. CASE Link!OnCommand
  <2>1. EndTypes'
    BY <1>8 DEF Link!OnCommand, Link!ends, EndTypes
  <2>2. CASE UNCHANGED down
    BY <1>8, <2>1, <2>2 DEF Link!OnCommand, QueuesTyped
  <2>3. CASE /\ server \notin cut \cup {0} /\ Len(down[server]) < MaxQueue
             /\ down' = [down EXCEPT ![server] = Append(@, "setpoint")]
    <3>1. server \in Link!Conn /\ Bounded(down, {"setpoint"})
      BY <2>3, ConnsAreNumbers DEF QueuesTyped
    <3>2. Bounded(down', {"setpoint"})
      BY <2>3, <3>1, QueueTypes
    <3> QED
      BY <1>8, <2>1, <3>2 DEF Link!OnCommand, QueuesTyped
  <2> QED
    BY <1>8, <2>1, <2>2, <2>3 DEF Link!OnCommand
<1>9. CASE Link!Fault
  <2>1. Bounded([c \in Link!Conn |-> <<>>], UpFrames)
        /\ Bounded([c \in Link!Conn |-> <<>>], {"setpoint"})
    BY DEF Bounded
  <2>2. CASE Link!RestartRos1
    BY <2>1, <2>2 DEF Link!RestartRos1, EndTypes, QueuesTyped
  <2>3. CASE Link!RestartRos2
    BY <2>1, <2>3 DEF Link!RestartRos2, EndTypes, QueuesTyped
  <2>4. ASSUME NEW c \in Link!Conn, Link!Break(c) PROVE EndTypes' /\ QueuesTyped'
    BY <2>4 DEF Link!Break, Link!ends, Link!queues, EndTypes, QueuesTyped
  <2> QED
    BY <1>9, <2>2, <2>3, <2>4 DEF Link!Fault
<1> QED
  BY <1>1, <1>2, <1>3, <1>4, <1>5, <1>6, <1>7, <1>8, <1>9

(* The whole loop keeps its types: the sockets never hold more than they    *)
(* take, and neither end serves a connection that was not made.             *)
THEOREM LoopTypeCorrect ==
  LoopSpec => []LoopTypeOK
<1>1. LoopInit => Link!TypeOK
  <2>1. LoopInit => EndTypes
    <3>1. 0 \in 0 .. MaxConn /\ 0 \in 0 .. 0 /\ "free" \in Link!Reports
      BY LinkAssumption DEF Link!Reports
    <3> QED
      BY <3>1 DEF LoopInit, Link!Init, EndTypes
  <2>2. LoopInit => QueuesTyped
    BY LinkAssumption DEF LoopInit, Link!Init, QueuesTyped, Bounded
  <2> QED
    BY <2>1, <2>2, LinkTypes
<1>2. ASSUME TypeOK, Link!TypeOK, [LoopNext]_loopVars
      PROVE  Link!TypeOK'
  <2> SUFFICES EndTypes' /\ QueuesTyped'
    BY DEF EndTypes, QueuesTyped, Bounded, UpFrames, Link!TypeOK
  <2>1. EndTypes /\ QueuesTyped
    BY <1>2, LinkTypes
  <2>2. CASE UNCHANGED loopVars
    BY <2>1, <2>2 DEF loopVars, linkVars, EndTypes, QueuesTyped
  <2>3. ASSUME NEW w \in World, LoopTick(w) PROVE EndTypes' /\ QueuesTyped'
    BY <2>1, <2>3 DEF LoopTick, EndTypes, QueuesTyped
  <2>4. CASE OnBlocked
    <3>1. report \in UpFrames /\ Link!Send(report)
      BY <1>2, <2>4
      DEF OnBlocked, TakeReport, TypeOK, UpFrames, Link!Reports, Link!OnBlocked
    <3> QED
      BY <2>1, <2>4, <3>1, SendTypes
      DEF OnBlocked, Link!OnBlocked, EndTypes, QueuesTyped
  <2>5. CASE Setpoint \/ LinkStep
    BY <2>1, <2>5, LinkStepTypes DEF Setpoint, LinkStep
  <2> QED
    BY <1>2, <2>2, <2>3, <2>4, <2>5 DEF LoopNext
<1>3. TypeOK /\ Link!TypeOK /\ [LoopNext]_loopVars => Link!TypeOK'
  BY <1>2
<1> QED
  BY <1>1, <1>3, LoopIsController, TypeCorrect, PTL DEF LoopSpec, LoopTypeOK
=============================================================================
