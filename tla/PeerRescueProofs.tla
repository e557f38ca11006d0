-------------------------- MODULE PeerRescueProofs --------------------------
(***************************************************************************)
(* What is true of PeerRescue for all drones, frontiers, views and times.  *)
(*                                                                         *)
(* A claim in a share, heard or on its way, still has time left: an ended  *)
(* claim is taken out.  So a robot that hears the claim of a lower id for  *)
(* the frontier it holds yields in the same step, and LowerClaimHolds is   *)
(* inductive with that.                                                    *)
(*                                                                         *)
(* While a frontier is contested, the claim of the lower id is to be sent, *)
(* or on its way and new enough to be taken; if it is neither, a fault has *)
(* paid for the period that is going to end.  ContestIsShort counts them.  *)
(***************************************************************************)
EXTENDS PeerRescue, FiniteSetTheorems, TLAPS

ClaimsCount ==
  /\ \A l \in Hears : shares[l].claim # None => shares[l].left > 0
  /\ \A l \in Hears : \A msg \in air[l] : msg.claim # None => msg.left > 0

Inv == TypeOK /\ ClaimsCount /\ LowerClaimHolds

Rescue == [frontier : Signature, left : 0 .. ClaimTtl]

(* A robot that holds a frontier lives; a share of this period comes after  *)
(* its timer and finds no share of this period.                             *)
Sound ==
  /\ \A d \in Drone : rescue[d].frontier # None => d \in alive
  /\ \A l \in Hears : \A msg \in air[l] : msg.age = 0 => l[1] \notin due
  /\ \A l \in Hears :
       l[1] \in due \/ (\E msg \in air[l] : msg.age = 0)
         => shares[l] = NoShare \/ shares[l].age > 0

ClaimComes(l) ==
  \/ l[1] \in due
  \/ /\ air[l] # {}
     /\ \A msg \in air[l] :
          msg.age = 0 /\ msg.claim = rescue[l[1]].frontier

(* What is known of a contest, for the hearer of a lower id.                *)
Accounted(l) ==
  /\ contest[l] <= 1 + faults
  /\ contest[l] > 0 => /\ Contested(l)
                       /\ ClaimComes(l) \/ contest[l] <= faults

Rising == {l \in Hears : l[1] < l[2]}

Book == Inv /\ Sound /\ \A l \in Rising : Accounted(l)

-----------------------------------------------------------------------------
(* Records *)

LEMMA NoShareType ==
  NoShare \in Share
  BY TimeAssumption DEF NoShare, Share, Signature

LEMMA NoRescueType ==
  NoRescue \in Rescue
  BY TimeAssumption DEF NoRescue, Rescue, Signature

LEMMA LinkEnds ==
  ASSUME NEW l \in Hears
  PROVE  l[1] \in Drone /\ l[2] \in Drone
  BY DroneAssumption

LEMMA ViewType ==
  ASSUME NEW d \in Drone, NEW w \in Views[d]
  PROVE  w \in View
  BY DroneAssumption

LEMMA RefreshedType ==
  ASSUME NEW r \in Rescue
  PROVE  /\ Refreshed(r) \in Rescue
         /\ Refreshed(r).frontier = r.frontier
         /\ Refreshed(r).frontier # None => Refreshed(r).left > 0
<1>1. CASE r = NoRescue
  BY <1>1 DEF Refreshed, NoRescue
<1>2. CASE r # NoRescue
  <2>1. Refreshed(r) = [r EXCEPT !.left = ClaimTtl]
    BY <1>2 DEF Refreshed
  <2>2. ClaimTtl \in 0 .. ClaimTtl /\ ClaimTtl > 0
    BY TimeAssumption
  <2> QED
    BY <2>1, <2>2 DEF Rescue
<1> QED
  BY <1>1, <1>2

LEMMA KeptType ==
  ASSUME NEW msg \in Share
  PROVE  /\ Kept(msg) \in Share /\ Kept(msg).age = msg.age
         /\ Kept(msg).claim = msg.claim /\ Kept(msg).left = msg.left
  BY DEF Kept, Share

LEMMA LessType ==
  ASSUME NEW limit \in Nat, NEW n \in 0 .. limit
  PROVE  Less(n) \in 0 .. limit /\ (n > 1 => Less(n) > 0)
  BY DEF Less

LEMMA ShorterType ==
  ASSUME NEW r \in Rescue
  PROVE  /\ [r EXCEPT !.left = Less(@)] \in Rescue
         /\ [r EXCEPT !.left = Less(@)].frontier = r.frontier
<1>1. r.left \in 0 .. ClaimTtl /\ ClaimTtl \in Nat
  BY TimeAssumption DEF Rescue
<1>2. Less(r.left) \in 0 .. ClaimTtl
  BY <1>1, LessType
<1> QED
  BY <1>2 DEF Rescue

LEMMA OlderType ==
  ASSUME NEW s \in Share
  PROVE  /\ Older(s) \in Share
         /\ Older(s).claim \in {s.claim, None}
         /\ Older(s).claim # None => Older(s).left > 0
<1>1. /\ s.age \in 0 .. MaxAge /\ s.open \in SUBSET Frontier
      /\ s.reserved \in SUBSET Frontier
      /\ s.claim \in Signature /\ s.left \in 0 .. ClaimTtl
  BY DEF Share
<1>2. MaxAge \in Nat /\ ClaimTtl \in Nat
  BY TimeAssumption
<1>3. CASE s = NoShare \/ s.age = MaxAge
  <2>1. Older(s) = NoShare
    BY <1>3 DEF Older
  <2>2. NoShare.claim = None
    BY DEF NoShare
  <2> QED
    BY <2>1, <2>2, NoShareType
<1>4. CASE ~(s = NoShare \/ s.age = MaxAge)
  <2> DEFINE c == IF s.left <= 1 THEN None ELSE s.claim
             t == [age |-> s.age + 1, open |-> s.open,
                   reserved |-> s.reserved, claim |-> c,
                   left |-> Less(s.left)]
  <2>1. Older(s) = t
    BY <1>4 DEF Older, Share
  <2>2. s.age + 1 \in 0 .. MaxAge
    BY <1>1, <1>2, <1>4
  <2>3. Less(s.left) \in 0 .. ClaimTtl /\ (s.left > 1 => Less(s.left) > 0)
    BY <1>1, <1>2, LessType
  <2>4. c \in Signature /\ c \in {s.claim, None}
    BY <1>1 DEF Signature
  <2>5. c # None => s.left > 1
    BY <1>1, <1>2
  <2>6. t \in Share
    BY <1>1, <2>2, <2>3, <2>4 DEF Share
  <2>7. t.claim = c /\ t.left = Less(s.left)
    OBVIOUS
  <2> QED
    BY <2>1, <2>3, <2>4, <2>5, <2>6, <2>7
<1> QED
  BY <1>3, <1>4

-----------------------------------------------------------------------------
(* Numbers *)

LEMMA LateIsFinite ==
  Cardinality(Late) \in Nat
<1>1. IsFiniteSet(Drone \X Drone)
  BY DroneAssumption, FS_Product
<1>2. Late \subseteq Drone \X Drone
  BY DroneAssumption DEF Late
<1>3. IsFiniteSet(Late)
  BY <1>1, <1>2, FS_Subset
<1> QED
  BY <1>3, FS_CardinalityType

LEMMA LateIsCounted ==
  ASSUME NEW l \in Late
  PROVE  Cardinality(Late) > 0
<1>1. IsFiniteSet(Drone \X Drone)
  BY DroneAssumption, FS_Product
<1>2. Late \subseteq Drone \X Drone
  BY DroneAssumption DEF Late
<1>3. IsFiniteSet(Late)
  BY <1>1, <1>2, FS_Subset
<1> QED
  BY <1>3, FS_EmptySet, FS_CardinalityType

LEMMA FaultType ==
  ASSUME TypeOK, Fault
  PROVE  faults' \in 0 .. MaxFaults
  BY TimeAssumption DEF TypeOK, Fault

LEMMA WatchType ==
  ASSUME TypeOK, Watch
  PROVE  contest' \in [Hears -> Nat]
  BY DEF TypeOK, Watch

-----------------------------------------------------------------------------
(* Who holds what after a step *)

(* The claims of the others that a robot knows of did not change, and it     *)
(* holds what it held, nothing, or what no known claim is for.               *)
LEMMA SelectionHolds ==
  ASSUME Inv, shares' = shares, NEW d \in Drone,
         \A e \in Drone \ {d} : rescue'[e].frontier = rescue[e].frontier,
         rescue'[d].frontier # None => rescue'[d].frontier \notin Claimed(d)
  PROVE  LowerClaimHolds'
<1> SUFFICES ASSUME NEW l \in Hears, l[1] < l[2], shares'[l].claim # None
             PROVE  rescue'[l[2]].frontier # shares'[l].claim
  BY DEF LowerClaimHolds
<1>1. l[2] \in Drone /\ shares'[l].claim = shares[l].claim
  BY LinkEnds
<1>2. CASE l[2] = d
  <2>1. shares[l].claim \in Claimed(d)
    BY <1>1, <1>2 DEF Claimed, Hearing
  <2> QED
    BY <1>1, <1>2, <2>1
<1>3. CASE l[2] # d
  <2>1. rescue[l[2]].frontier # shares[l].claim
    BY <1>1 DEF Inv, LowerClaimHolds
  <2> QED
    BY <1>1, <1>3, <2>1
<1> QED
  BY <1>2, <1>3

LEMMA RejectTypes ==
  ASSUME TypeOK, NEW d \in Drone, Reject(d)
  PROVE  /\ failed' \in [Drone -> [Frontier -> 0 .. FailureTtl]]
         /\ rescue' \in [Drone -> Rescue]
         /\ rescue'[d] = NoRescue
         /\ \A e \in Drone \ {d} : rescue'[e] = rescue[e]
<1>1. rescue \in [Drone -> Rescue]
  BY DEF TypeOK, Rescue
<1>2. rescue' = [rescue EXCEPT ![d] = NoRescue]
  BY DEF Reject
<1>3. /\ rescue' \in [Drone -> Rescue] /\ rescue'[d] = NoRescue
      /\ \A e \in Drone \ {d} : rescue'[e] = rescue[e]
  BY <1>1, <1>2, NoRescueType
<1>4. failed' \in [Drone -> [Frontier -> 0 .. FailureTtl]]
  <2> DEFINE f == rescue[d].frontier
             row == [failed[d] EXCEPT ![f] = FailureTtl]
  <2>1. /\ failed \in [Drone -> [Frontier -> 0 .. FailureTtl]]
        /\ FailureTtl \in 0 .. FailureTtl
    BY TimeAssumption DEF TypeOK
  <2>2. failed[d] \in [Frontier -> 0 .. FailureTtl]
    BY <2>1
  <2>3. row \in [Frontier -> 0 .. FailureTtl]
    BY <2>1, <2>2
  <2>4. failed' = [failed EXCEPT ![d] = row]
    BY DEF Reject
  <2> QED
    BY <2>1, <2>3, <2>4
<1> QED
  BY <1>3, <1>4

-----------------------------------------------------------------------------
(* The steps *)

LEMMA UpdateKeeps ==
  ASSUME Inv, NEW d \in Drone, NEW w \in Views[d], UpdateFrontierStruct(d, w)
  PROVE  Inv'
<1>1. /\ alive' = alive /\ failed' = failed /\ shares' = shares /\ air' = air
      /\ due' = due /\ faults' = faults
      /\ woken' \subseteq woken /\ map' = [map EXCEPT ![d] = w]
  BY DEF UpdateFrontierStruct
<1>2. \E r \in Rescue :
        /\ rescue' = [rescue EXCEPT ![d] = r]
        /\ r.frontier # None => r.frontier \notin Claimed(d)
  <2>1. CASE rescue' = [rescue EXCEPT ![d] = NoRescue]
    BY <2>1, NoRescueType DEF NoRescue
  <2>2. CASE \E f \in Candidates(d, w) :
               rescue' = [rescue EXCEPT ![d] = [frontier |-> f, left |-> ClaimTtl]]
    <3>1. PICK f \in Candidates(d, w) :
            rescue' = [rescue EXCEPT ![d] = [frontier |-> f, left |-> ClaimTtl]]
      BY <2>2
    <3>2. f \notin Claimed(d)
      BY DEF Candidates
    <3>3. f \in Frontier
      BY ViewType DEF Candidates, View
    <3>4. [frontier |-> f, left |-> ClaimTtl] \in Rescue
      BY <3>3, TimeAssumption DEF Rescue, Signature
    <3> QED
      BY <3>1, <3>2, <3>4
  <2> QED
    BY <2>1, <2>2 DEF UpdateFrontierStruct
<1>3. PICK r \in Rescue :
        /\ rescue' = [rescue EXCEPT ![d] = r]
        /\ r.frontier # None => r.frontier \notin Claimed(d)
  BY <1>2
<1>4. rescue \in [Drone -> Rescue] /\ map \in [Drone -> View]
  BY DEF Inv, TypeOK, Rescue
<1>5. rescue' \in [Drone -> Rescue] /\ map' \in [Drone -> View]
  BY <1>1, <1>3, <1>4, ViewType
<1>6. contest' \in [Hears -> Nat]
  BY WatchType DEF UpdateFrontierStruct, Inv
<1>7. TypeOK'
  BY <1>1, <1>5, <1>6 DEF Inv, TypeOK, Rescue
<1>8. ClaimsCount'
  BY <1>1 DEF Inv, ClaimsCount
<1>9. /\ rescue'[d] = r
      /\ \A e \in Drone \ {d} : rescue'[e] = rescue[e]
  BY <1>3, <1>4
<1>10. LowerClaimHolds'
  BY <1>1, <1>3, <1>9, SelectionHolds
<1> QED
  BY <1>7, <1>8, <1>10 DEF Inv

LEMMA PlanFailsKeeps ==
  ASSUME Inv, NEW d \in Drone, PlanFails(d)
  PROVE  Inv'
<1>1. /\ alive' = alive /\ map' = map /\ shares' = shares /\ air' = air
      /\ due' = due /\ woken' = woken
  BY DEF PlanFails
<1>2. /\ failed' \in [Drone -> [Frontier -> 0 .. FailureTtl]]
      /\ rescue' \in [Drone -> Rescue]
      /\ rescue'[d] = NoRescue
      /\ \A e \in Drone \ {d} : rescue'[e] = rescue[e]
  BY RejectTypes DEF PlanFails, Inv
<1>3. faults' \in 0 .. MaxFaults /\ contest' \in [Hears -> Nat]
  BY FaultType, WatchType DEF PlanFails, Inv
<1>4. TypeOK'
  BY <1>1, <1>2, <1>3 DEF Inv, TypeOK, Rescue
<1>5. ClaimsCount'
  BY <1>1 DEF Inv, ClaimsCount
<1>6. rescue'[d].frontier = None
  BY <1>2 DEF NoRescue
<1>7. LowerClaimHolds'
  BY <1>1, <1>2, <1>6, SelectionHolds
<1> QED
  BY <1>4, <1>5, <1>7 DEF Inv

LEMMA SendKeeps ==
  ASSUME Inv, NEW d \in Drone, SendShare(d)
  PROVE  Inv'
<1>1. /\ alive' = alive /\ map' = map /\ shares' = shares
      /\ failed' = failed /\ due' \subseteq due /\ woken' = woken
      /\ faults' = faults /\ contest' = contest
      /\ rescue' = [rescue EXCEPT ![d] = Refreshed(@)]
  BY DEF SendShare
<1>2. /\ rescue \in [Drone -> Rescue] /\ air \in [Hears -> SUBSET Share]
      /\ map[d] \in View
  BY DEF Inv, TypeOK, Rescue
<1>3. /\ rescue'[d] = Refreshed(rescue[d])
      /\ \A e \in Drone \ {d} : rescue'[e] = rescue[e]
  BY <1>1, <1>2
<1>4. /\ rescue'[d] \in Rescue /\ rescue'[d].frontier = rescue[d].frontier
      /\ rescue'[d].frontier # None => rescue'[d].left > 0
  BY <1>2, <1>3, RefreshedType
<1>5. rescue' \in [Drone -> Rescue]
  <2>1. Refreshed(rescue[d]) \in Rescue
    BY <1>3, <1>4
  <2> QED
    BY <1>1, <1>2, <2>1
<1> DEFINE msg == [age |-> 0, open |-> map[d].open,
                   reserved |-> map[d].reserved,
                   claim |-> rescue'[d].frontier, left |-> rescue'[d].left]
<1>6. msg \in Share
  <2>1. rescue'[d].frontier \in Signature /\ rescue'[d].left \in 0 .. ClaimTtl
    BY <1>4 DEF Rescue
  <2>2. /\ map[d].open \in SUBSET Frontier /\ 0 \in 0 .. MaxAge
        /\ map[d].reserved \in SUBSET Frontier
    BY <1>2, TimeAssumption DEF View
  <2> QED
    BY <2>1, <2>2 DEF Share
<1>7. msg.claim # None => msg.left > 0
  BY <1>4
<1>8. air' = [l \in Hears |-> IF l[1] = d /\ l[2] \in alive THEN {msg}
                             ELSE air[l]]
  BY DEF SendShare
<1> HIDE DEF msg
<1>9. air' \in [Hears -> SUBSET Share]
  BY <1>2, <1>6, <1>8
<1>10. TypeOK'
  BY <1>1, <1>5, <1>9 DEF Inv, TypeOK, Rescue
<1>11. ClaimsCount'
  BY <1>1, <1>7, <1>8 DEF Inv, ClaimsCount
<1>12. \A e \in Drone : rescue'[e].frontier = rescue[e].frontier
  BY <1>3, <1>4
<1>13. LowerClaimHolds'
  BY <1>1, <1>12, LinkEnds DEF Inv, LowerClaimHolds
<1> QED
  BY <1>10, <1>11, <1>13 DEF Inv

LEMMA ReceiveKeeps ==
  ASSUME Inv, NEW l \in Hears, Receive(l)
  PROVE  Inv'
<1> DEFINE d == l[2]
<1>1. PICK msg \in air[l] :
        /\ air' = [air EXCEPT ![l] = {}]
        /\ IF shares[l] # NoShare /\ shares[l].age <= msg.age
           THEN UNCHANGED <<shares, failed, rescue, woken>>
           ELSE /\ shares' = [shares EXCEPT ![l] = Kept(msg)]
                /\ IF Yields(d, l[1], msg)
                   THEN Reject(d) /\ woken' \in {woken, woken \cup {d}}
                   ELSE /\ woken' = IF msg.open \cup msg.reserved = {} THEN woken
                                    ELSE woken \cup {d}
                        /\ UNCHANGED <<failed, rescue>>
        /\ UNCHANGED <<alive, map, due, faults>>
        /\ Watch
  BY DEF Receive
<1>2. /\ d \in Drone /\ rescue \in [Drone -> Rescue]
      /\ air \in [Hears -> SUBSET Share]
      /\ shares \in [Hears -> Share]
  BY LinkEnds, NoShareType DEF Inv, TypeOK, Rescue
<1>3. msg \in Share
  BY <1>1, <1>2
<1>4. /\ air' \in [Hears -> SUBSET Share]
      /\ \A k \in Hears : air'[k] \subseteq air[k]
  BY <1>1, <1>2
<1>5. contest' \in [Hears -> Nat]
  BY <1>1, WatchType DEF Inv
<1>6. /\ failed' \in [Drone -> [Frontier -> 0 .. FailureTtl]]
      /\ rescue' \in [Drone -> Rescue]
      /\ \A e \in Drone : rescue'[e] \in {rescue[e], NoRescue}
  <2>1. CASE UNCHANGED <<failed, rescue>>
    BY <2>1, <1>2 DEF Inv, TypeOK
  <2>2. CASE Reject(d)
    BY <2>2, <1>2, RejectTypes DEF Inv
  <2> QED
    BY <1>1, <2>1, <2>2
<1>7. woken' \subseteq woken \cup {d}
  BY <1>1
<1>8. \/ shares' = shares
      \/ shares' = [shares EXCEPT ![l] = Kept(msg)]
  BY <1>1
<1>9. shares' \in [Hears -> Share]
  BY <1>2, <1>3, <1>8, KeptType
<1>10. TypeOK'
  BY <1>1, <1>2, <1>4, <1>5, <1>6, <1>7, <1>9 DEF Inv, TypeOK, Rescue
<1>11. msg.claim # None => msg.left > 0
  BY <1>1 DEF Inv, ClaimsCount
<1>12. ClaimsCount'
  BY <1>2, <1>3, <1>4, <1>8, <1>11, KeptType DEF Inv, ClaimsCount
<1>13. LowerClaimHolds'
  <2> SUFFICES ASSUME NEW k \in Hears, k[1] < k[2], shares'[k].claim # None
               PROVE  rescue'[k[2]].frontier # shares'[k].claim
    BY DEF LowerClaimHolds
  <2>1. k[2] \in Drone
    BY LinkEnds
  <2>2. CASE shares'[k] = shares[k]
    <3>1. rescue[k[2]].frontier # shares[k].claim
      BY <2>2 DEF Inv, LowerClaimHolds
    <3> QED
      BY <2>1, <2>2, <3>1, <1>6 DEF NoRescue
  <2>3. CASE shares'[k] # shares[k]
    <3>1. k = l /\ shares' = [shares EXCEPT ![l] = Kept(msg)]
      BY <2>3, <1>2, <1>8
    <3>2. shares'[k].claim = msg.claim
      BY <3>1, <1>2, <1>3, KeptType
    <3>3. CASE Reject(d)
      <4>1. rescue'[d] = NoRescue
        BY <3>3, <1>2, RejectTypes DEF Inv
      <4> QED
        BY <3>1, <3>2, <4>1 DEF NoRescue
    <3>4. CASE ~Yields(d, l[1], msg) /\ rescue' = rescue
      <4>1. rescue[d] = NoRescue \/ msg.claim # rescue[d].frontier
        BY <3>1, <3>2, <3>4, <1>11 DEF Yields
      <4> QED
        BY <3>1, <3>2, <3>4, <4>1 DEF NoRescue
    <3>5. shares' # shares
      BY <2>3
    <3> QED
      BY <1>1, <3>3, <3>4, <3>5
  <2> QED
    BY <2>2, <2>3
<1> QED
  BY <1>10, <1>12, <1>13 DEF Inv

LEMMA TickKeeps ==
  ASSUME Inv, Tick
  PROVE  Inv'
<1>1. /\ rescue \in [Drone -> Rescue] /\ air \in [Hears -> SUBSET Share]
      /\ shares \in [Hears -> Share]
      /\ failed \in [Drone -> [Frontier -> 0 .. FailureTtl]]
      /\ faults \in 0 .. MaxFaults /\ contest \in [Hears -> Nat]
  BY NoShareType DEF Inv, TypeOK, Rescue
<1>2. rescue' = [e \in Drone |-> [rescue[e] EXCEPT !.left = Less(@)]]
  BY DEF Tick
<1>3. \A e \in Drone : /\ rescue'[e] \in Rescue
                        /\ rescue'[e].frontier = rescue[e].frontier
  <2> SUFFICES ASSUME NEW e \in Drone
               PROVE  /\ rescue'[e] \in Rescue
                      /\ rescue'[e].frontier = rescue[e].frontier
    OBVIOUS
  <2>1. rescue'[e] = [rescue[e] EXCEPT !.left = Less(@)]
    BY <1>2
  <2>2. rescue[e] \in Rescue
    BY <1>1
  <2> QED
    BY <2>1, <2>2, ShorterType
<1>4. rescue' \in [Drone -> Rescue]
  BY <1>2, <1>3
<1>5. failed' \in [Drone -> [Frontier -> 0 .. FailureTtl]]
  <2>1. \A e \in Drone, f \in Frontier : Less(failed[e][f]) \in 0 .. FailureTtl
    BY <1>1, TimeAssumption, LessType
  <2> QED
    BY <2>1 DEF Tick
<1>6. shares' = [l \in Hears |-> Older(shares[l])]
  BY DEF Tick
<1>7. ASSUME NEW l \in Hears
      PROVE  /\ shares'[l].claim # None => shares'[l].claim = shares[l].claim
             /\ shares'[l].claim # None => shares'[l].left > 0
  <2>1. shares'[l] = Older(shares[l]) /\ shares[l] \in Share
    BY <1>1, <1>6
  <2>2. /\ Older(shares[l]).claim \in {shares[l].claim, None}
        /\ Older(shares[l]).claim # None => Older(shares[l]).left > 0
    BY <2>1, OlderType
  <2> QED
    BY <2>1, <2>2
<1>8. shares' \in [Hears -> Share]
  <2>1. \A l \in Hears : Older(shares[l]) \in Share
    BY <1>1, OlderType
  <2> QED
    BY <1>6, <2>1
<1>9. air' = [l \in Hears |-> {Older(msg) : msg \in air[l]} \ {NoShare}]
  BY DEF Tick
<1>10. \A l \in Hears : \A msg \in air'[l] :
         msg \in Share /\ (msg.claim # None => msg.left > 0)
  BY <1>1, <1>9, OlderType
<1>11. air' \in [Hears -> SUBSET Share]
  BY <1>9, <1>10
<1>12. faults' \in 0 .. MaxFaults
  BY <1>1, LateIsFinite, TimeAssumption DEF Tick
<1>13. contest' \in [Hears -> Nat]
  BY <1>1 DEF Tick
<1>14. alive' = alive /\ map' = map /\ woken' = woken /\ due' = alive
  BY DEF Tick
<1>15. TypeOK'
  BY <1>4, <1>5, <1>8, <1>11, <1>12, <1>13, <1>14 DEF Inv, TypeOK, Rescue
<1>16. ClaimsCount'
  <2>1. \A l \in Hears : shares'[l].claim # None => shares'[l].left > 0
    BY <1>7
  <2>2. \A l \in Hears : \A msg \in air'[l] : msg.claim # None => msg.left > 0
    BY <1>10
  <2> QED
    BY <2>1, <2>2 DEF ClaimsCount
<1>17. LowerClaimHolds'
  <2> SUFFICES ASSUME NEW l \in Hears, l[1] < l[2], shares'[l].claim # None
               PROVE  rescue'[l[2]].frontier # shares'[l].claim
    BY DEF LowerClaimHolds
  <2>1. shares'[l].claim = shares[l].claim /\ l[2] \in Drone
    BY <1>7, LinkEnds
  <2>2. rescue[l[2]].frontier # shares[l].claim
    BY <2>1 DEF Inv, LowerClaimHolds
  <2> QED
    BY <2>1, <2>2, <1>3
<1> QED
  BY <1>15, <1>16, <1>17 DEF Inv

LEMMA LoseKeeps ==
  ASSUME Inv, NEW l \in Hears, Lose(l)
  PROVE  Inv'
<1>1. /\ air' = [air EXCEPT ![l] = {}]
      /\ alive' = alive /\ map' = map /\ rescue' = rescue
      /\ failed' = failed /\ shares' = shares /\ due' = due
      /\ woken' = woken /\ contest' = contest
  BY DEF Lose
<1>2. air \in [Hears -> SUBSET Share]
  BY NoShareType DEF Inv, TypeOK
<1>3. /\ air' \in [Hears -> SUBSET Share]
      /\ \A k \in Hears : air'[k] \subseteq air[k]
  BY <1>1, <1>2
<1>4. faults' \in 0 .. MaxFaults
  BY FaultType DEF Lose, Inv
<1>5. TypeOK'
  BY <1>1, <1>3, <1>4 DEF Inv, TypeOK
<1>6. ClaimsCount'
  BY <1>1, <1>3 DEF Inv, ClaimsCount
<1>7. LowerClaimHolds'
  BY <1>1 DEF Inv, LowerClaimHolds
<1> QED
  BY <1>5, <1>6, <1>7 DEF Inv

LEMMA DieKeeps ==
  ASSUME Inv, NEW d \in Drone, Die(d)
  PROVE  Inv'
<1>1. /\ alive' \subseteq alive /\ map' = map /\ failed' = failed
      /\ shares' = shares /\ due' = due /\ woken' = woken
      /\ rescue' = [rescue EXCEPT ![d] = NoRescue]
      /\ air' = [l \in Hears |-> IF l[2] = d THEN {} ELSE air[l]]
  BY DEF Die
<1>2. rescue \in [Drone -> Rescue] /\ air \in [Hears -> SUBSET Share]
  BY DEF Inv, TypeOK, Rescue
<1>3. /\ rescue' \in [Drone -> Rescue] /\ rescue'[d] = NoRescue
      /\ \A e \in Drone \ {d} : rescue'[e] = rescue[e]
  BY <1>1, <1>2, NoRescueType
<1>4. /\ air' \in [Hears -> SUBSET Share]
      /\ \A k \in Hears : air'[k] \subseteq air[k]
  BY <1>1, <1>2
<1>5. faults' \in 0 .. MaxFaults /\ contest' \in [Hears -> Nat]
  BY FaultType, WatchType DEF Die, Inv
<1>6. TypeOK'
  BY <1>1, <1>3, <1>4, <1>5 DEF Inv, TypeOK, Rescue
<1>7. ClaimsCount'
  BY <1>1, <1>4 DEF Inv, ClaimsCount
<1>8. rescue'[d].frontier = None
  BY <1>3 DEF NoRescue
<1>9. LowerClaimHolds'
  BY <1>1, <1>3, <1>8, SelectionHolds
<1> QED
  BY <1>6, <1>7, <1>9 DEF Inv

LEMMA InitHolds ==
  ASSUME Init
  PROVE  Inv
<1>1. Nothing \in View
  BY DEF Nothing, View
<1>2. map \in [Drone -> View] /\ rescue \in [Drone -> Rescue]
  BY <1>1, NoRescueType DEF Init
<1>3. /\ failed \in [Drone -> [Frontier -> 0 .. FailureTtl]]
      /\ faults \in 0 .. MaxFaults /\ contest \in [Hears -> Nat]
  BY TimeAssumption DEF Init
<1>4. /\ shares \in [Hears -> Share] /\ air \in [Hears -> SUBSET Share]
  BY NoShareType DEF Init
<1>5. alive \subseteq Drone /\ due \subseteq Drone /\ woken \subseteq Drone
  BY DEF Init
<1>6. TypeOK
  BY <1>2, <1>3, <1>4, <1>5 DEF TypeOK, Rescue
<1>7. \A l \in Hears : shares[l].claim = None /\ air[l] = {}
  BY DEF Init, NoShare
<1> QED
  BY <1>6, <1>7 DEF Inv, ClaimsCount, LowerClaimHolds

LEMMA InvKept ==
  ASSUME Inv, [Next]_vars
  PROVE  Inv'
<1>1. ASSUME NEW d \in Drone, NEW w \in Views[d], UpdateFrontierStruct(d, w)
      PROVE  Inv'
  BY <1>1, UpdateKeeps
<1>2. ASSUME NEW d \in Drone, PlanFails(d) \/ SendShare(d) \/ Die(d)
      PROVE  Inv'
  BY <1>2, PlanFailsKeeps, SendKeeps, DieKeeps
<1>3. ASSUME NEW l \in Hears, Receive(l) \/ Lose(l)
      PROVE  Inv'
  BY <1>3, ReceiveKeeps, LoseKeeps
<1>4. CASE Tick
  BY <1>4, TickKeeps
<1>5. CASE UNCHANGED vars
  BY <1>5 DEF vars, Inv, TypeOK, ClaimsCount, LowerClaimHolds
<1> QED
  BY <1>1, <1>2, <1>3, <1>4, <1>5 DEF Next

LEMMA Invariance ==
  Spec => []Inv
<1>1. Init => Inv
  BY InitHolds
<1>2. Inv /\ [Next]_vars => Inv'
  BY InvKept
<1> QED
  BY <1>1, <1>2, PTL DEF Spec

(* The shares, claims and times of the frontier rescue keep their ranges.   *)
THEOREM TypeCorrect ==
  Spec => []TypeOK
<1>1. Inv => TypeOK
  BY DEF Inv
<1> QED
  BY <1>1, Invariance, PTL

(* frontierShareMsgCallback and selectPeerFrontierRescue: a robot never     *)
(* holds a frontier that it has heard a lower id claim.                     *)
THEOREM LowerIdsKeepTheirClaims ==
  Spec => []LowerClaimHolds
<1>1. Inv => LowerClaimHolds
  BY DEF Inv
<1> QED
  BY <1>1, Invariance, PTL

-----------------------------------------------------------------------------
(* How long a frontier is contested *)

LEMMA SoundInit ==
  ASSUME Init
  PROVE  Sound
  BY DEF Init, Sound, NoRescue, NoShare

LEMMA OlderAge ==
  ASSUME NEW s \in Share
  PROVE  Older(s) = NoShare \/ Older(s).age > 0
<1>1. CASE s = NoShare \/ s.age = MaxAge
  BY <1>1 DEF Older
<1>2. CASE ~(s = NoShare \/ s.age = MaxAge)
  <2>1. Older(s).age = s.age + 1 /\ s.age \in Nat
    BY <1>2 DEF Older, Share
  <2> QED
    BY <2>1
<1> QED
  BY <1>1, <1>2

LEMMA Types ==
  ASSUME Inv
  PROVE  /\ rescue \in [Drone -> Rescue] /\ air \in [Hears -> SUBSET Share]
         /\ shares \in [Hears -> Share] /\ due \subseteq Drone
         /\ faults \in Nat /\ contest \in [Hears -> Nat]
  BY NoShareType, TimeAssumption DEF Inv, TypeOK, Rescue

LEMMA SoundKept ==
  ASSUME Inv, Sound, [Next]_vars
  PROVE  Sound'
<1> USE Types
<1>1. ASSUME NEW d \in Drone, NEW w \in Views[d], UpdateFrontierStruct(d, w)
      PROVE  Sound'
  <2>1. /\ d \in alive /\ alive' = alive /\ shares' = shares /\ air' = air
        /\ due' = due
        /\ \A e \in Drone \ {d} : rescue'[e] = rescue[e]
    BY <1>1 DEF UpdateFrontierStruct
  <2> QED
    BY <2>1 DEF Sound
<1>2. ASSUME NEW d \in Drone, PlanFails(d) PROVE Sound'
  <2>1. /\ d \in alive /\ alive' = alive /\ shares' = shares /\ air' = air
        /\ due' = due
        /\ \A e \in Drone \ {d} : rescue'[e] = rescue[e]
    BY <1>2 DEF PlanFails, Reject
  <2> QED
    BY <2>1 DEF Sound
<1>3. ASSUME NEW d \in Drone, SendShare(d) PROVE Sound'
  <2>1. /\ d \in alive \cap due /\ alive' = alive /\ shares' = shares
        /\ due' = due \ {d}
        /\ \A e \in Drone \ {d} : rescue'[e] = rescue[e]
        /\ \A l \in Hears : l[1] # d => air'[l] = air[l]
        /\ \A l \in Hears : air'[l] # air[l] => l[1] = d
    BY <1>3 DEF SendShare
  <2>2. \A e \in Drone : rescue'[e].frontier # None => e \in alive'
    BY <2>1 DEF Sound
  <2>3. \A l \in Hears : \A msg \in air'[l] : msg.age = 0 => l[1] \notin due'
    BY <2>1 DEF Sound
  <2>4. \A l \in Hears :
          l[1] \in due' \/ (\E msg \in air'[l] : msg.age = 0)
            => shares'[l] = NoShare \/ shares'[l].age > 0
    BY <2>1 DEF Sound
  <2> QED
    BY <2>2, <2>3, <2>4 DEF Sound
<1>4. ASSUME NEW l \in Hears, Receive(l) PROVE Sound'
  <2>1. PICK msg \in air[l] :
          /\ air' = [air EXCEPT ![l] = {}]
          /\ shares' \in {shares, [shares EXCEPT ![l] = Kept(msg)]}
    BY <1>4 DEF Receive
  <2>2. alive' = alive /\ due' = due
    BY <1>4 DEF Receive
  <2>3. \A e \in Drone : rescue'[e] \in {rescue[e], NoRescue}
    BY <1>4, LinkEnds DEF Receive, Reject
  <2>4. \A e \in Drone : rescue'[e].frontier # None => e \in alive'
    BY <2>2, <2>3 DEF Sound, NoRescue
  <2>5. air'[l] = {} /\ \A k \in Hears \ {l} : air'[k] = air[k]
    BY <2>1
  <2>6. \A k \in Hears : \A m \in air'[k] : m.age = 0 => k[1] \notin due'
    BY <2>2, <2>5 DEF Sound
  <2>7. msg \in Share /\ (l[1] \in due => msg.age > 0)
    <3>1. msg \in Share /\ msg.age \in Nat
      BY <2>1 DEF Share
    <3>2. msg.age = 0 => l[1] \notin due
      BY <2>1 DEF Sound
    <3> QED
      BY <3>1, <3>2
  <2>8. \A k \in Hears :
          k[1] \in due' \/ (\E m \in air'[k] : m.age = 0)
            => shares'[k] = NoShare \/ shares'[k].age > 0
    BY <2>1, <2>2, <2>5, <2>7, KeptType DEF Sound
  <2> QED
    BY <2>4, <2>6, <2>8 DEF Sound
<1>5. ASSUME NEW l \in Hears, Lose(l) PROVE Sound'
  <2>1. /\ alive' = alive /\ due' = due /\ rescue' = rescue
        /\ shares' = shares
        /\ \A k \in Hears : air'[k] \subseteq air[k]
    BY <1>5 DEF Lose
  <2> QED
    BY <2>1 DEF Sound
<1>6. ASSUME NEW d \in Drone, Die(d) PROVE Sound'
  <2>1. /\ alive' = alive \ {d} /\ due' = due /\ shares' = shares
        /\ rescue'[d] = NoRescue
        /\ \A e \in Drone \ {d} : rescue'[e] = rescue[e]
        /\ \A k \in Hears : air'[k] \subseteq air[k]
    BY <1>6 DEF Die
  <2> QED
    BY <2>1 DEF Sound, NoRescue
<1>7. CASE Tick
  <2>1. /\ alive' = alive
        /\ shares' = [l \in Hears |-> Older(shares[l])]
        /\ air' = [l \in Hears |-> {Older(msg) : msg \in air[l]} \ {NoShare}]
        /\ rescue' = [d \in Drone |-> [rescue[d] EXCEPT !.left = Less(@)]]
    BY <1>7 DEF Tick
  <2>2. \A l \in Hears : shares'[l] = NoShare \/ shares'[l].age > 0
    BY <2>1, OlderAge
  <2>3. \A l \in Hears : \A msg \in air'[l] : msg.age > 0
    BY <2>1, OlderAge
  <2>4. \A d \in Drone : rescue'[d].frontier = rescue[d].frontier
    BY <2>1 DEF Rescue
  <2> QED
    BY <2>1, <2>2, <2>3, <2>4 DEF Sound
<1>8. CASE UNCHANGED vars
  BY <1>8 DEF vars, Sound
<1> QED
  BY <1>1, <1>2, <1>3, <1>4, <1>5, <1>6, <1>7, <1>8 DEF Next

(* A step that counts as a fault pays for itself.                           *)
LEMMA FaultPays ==
  ASSUME Book, Fault, NEW l \in Rising,
         contest'[l] = contest[l] \/ contest'[l] = 0,
         contest'[l] > 0 => Contested(l)'
  PROVE  Accounted(l)'
<1>1. contest[l] <= 1 + faults /\ faults' = faults + 1
  BY DEF Book, Accounted, Fault
<1>2. faults \in Nat /\ contest[l] \in Nat
  BY Types DEF Book, Rising
<1>3. contest'[l] <= faults'
  BY <1>1, <1>2
<1> QED
  BY <1>1, <1>2, <1>3 DEF Accounted

LEMMA Watched ==
  ASSUME Watch, NEW l \in Hears
  PROVE  /\ contest'[l] = contest[l] \/ contest'[l] = 0
         /\ contest'[l] > 0 => Contested(l)'
  BY DEF Watch

(* A contest that goes on is for the same frontier.                         *)
LEMMA SameFrontier ==
  ASSUME Book, NEW l \in Rising, NEW d \in Drone,
         \A e \in Drone \ {d} : rescue'[e] = rescue[e],
         Contested(l), Contested(l)'
  PROVE  rescue'[l[1]].frontier = rescue[l[1]].frontier
<1>1. l[1] \in Drone /\ l[2] \in Drone /\ l[1] # l[2]
  BY DroneAssumption DEF Rising
<1> QED
  BY <1>1 DEF Contested

LEMMA AccountedUpdate ==
  ASSUME Book, NEW d \in Drone, NEW w \in Views[d],
         UpdateFrontierStruct(d, w), NEW l \in Rising
  PROVE  Accounted(l)'
<1>1. /\ air' = air /\ due' = due /\ faults' = faults /\ Watch
      /\ \A e \in Drone \ {d} : rescue'[e] = rescue[e]
  BY Types DEF UpdateFrontierStruct, Book
<1>2. faults \in Nat /\ contest[l] \in Nat
  BY Types DEF Book, Rising
<1>3. CASE contest'[l] = 0
  BY <1>1, <1>2, <1>3 DEF Accounted
<1>4. CASE contest'[l] = contest[l] /\ contest[l] > 0
  <2>1. Contested(l)' /\ Contested(l)
    BY <1>1, <1>4, Watched DEF Book, Accounted, Rising
  <2>2. rescue'[l[1]].frontier = rescue[l[1]].frontier
    BY <1>1, <2>1, SameFrontier
  <2> QED
    BY <1>1, <1>4, <2>1, <2>2 DEF Book, Accounted, ClaimComes
<1> QED
  BY <1>1, <1>2, <1>3, <1>4, Watched DEF Rising

LEMMA AccountedSend ==
  ASSUME Book, NEW d \in Drone, SendShare(d), NEW l \in Rising
  PROVE  Accounted(l)'
<1> DEFINE msg == [age |-> 0, open |-> map[d].open,
                   reserved |-> map[d].reserved,
                   claim |-> rescue'[d].frontier, left |-> rescue'[d].left]
<1>1. /\ due' = due \ {d} /\ faults' = faults /\ contest' = contest
      /\ rescue' = [rescue EXCEPT ![d] = Refreshed(@)]
      /\ air' = [k \in Hears |-> IF k[1] = d /\ k[2] \in alive THEN {msg}
                                 ELSE air[k]]
  BY DEF SendShare
<1>2. /\ rescue \in [Drone -> Rescue] /\ l \in Hears
      /\ l[1] \in Drone /\ l[2] \in Drone
  BY Types, LinkEnds DEF Book, Rising
<1>3. \A e \in Drone : rescue'[e].frontier = rescue[e].frontier
  BY <1>1, <1>2, RefreshedType
<1>4. CASE contest[l] > 0
  <2>1. Contested(l) /\ Contested(l)'
    BY <1>2, <1>3, <1>4 DEF Book, Accounted, Contested
  <2>2. l[2] \in alive
    BY <1>2, <2>1 DEF Book, Sound, Contested
  <2>3. ClaimComes(l) => ClaimComes(l)'
    <3>1. CASE l[1] = d
      <4>1. air'[l] = {msg}
        BY <1>1, <1>2, <2>2, <3>1
      <4> QED
        BY <3>1, <4>1 DEF ClaimComes
    <3>2. CASE l[1] # d
      <4>1. air'[l] = air[l] /\ (l[1] \in due => l[1] \in due')
        BY <1>1, <1>2, <3>2
      <4> QED
        BY <1>2, <1>3, <4>1 DEF ClaimComes
    <3> QED
      BY <3>1, <3>2
  <2> QED
    BY <1>1, <2>1, <2>3 DEF Book, Accounted
<1>5. CASE ~(contest[l] > 0)
  BY <1>1, <1>5 DEF Book, Accounted
<1> QED
  BY <1>4, <1>5

(* The claim that comes ends the contest when it is heard.                  *)
LEMMA AccountedReceive ==
  ASSUME Book, NEW k \in Hears, Receive(k), NEW l \in Rising
  PROVE  Accounted(l)'
<1>1. PICK msg \in air[k] :
        /\ air' = [air EXCEPT ![k] = {}]
        /\ IF shares[k] # NoShare /\ shares[k].age <= msg.age
           THEN UNCHANGED rescue
           ELSE IF Yields(k[2], k[1], msg) THEN Reject(k[2])
                ELSE UNCHANGED rescue
  BY DEF Receive
<1>2. due' = due /\ faults' = faults /\ Watch
  BY DEF Receive
<1>3. /\ rescue \in [Drone -> Rescue] /\ air \in [Hears -> SUBSET Share]
      /\ shares \in [Hears -> Share] /\ l \in Hears
      /\ faults \in Nat /\ contest[l] \in Nat
      /\ l[1] \in Drone /\ l[2] \in Drone /\ k[2] \in Drone /\ l[1] < l[2]
  BY Types, LinkEnds DEF Book, Rising
<1>4. \A e \in Drone \ {k[2]} : rescue'[e] = rescue[e]
  BY <1>1, <1>3 DEF Reject
<1>5. CASE contest'[l] = 0
  BY <1>2, <1>3, <1>5 DEF Accounted
<1>6. CASE contest'[l] = contest[l] /\ contest[l] > 0
  <2>1. Contested(l)' /\ Contested(l)
    BY <1>2, <1>3, <1>6, Watched DEF Book, Accounted
  <2>2. rescue'[l[1]].frontier = rescue[l[1]].frontier
    BY <1>3, <1>4, <2>1, SameFrontier
  <2>3. ClaimComes(l) => ClaimComes(l)'
    <3>1. CASE l[1] \in due
      BY <1>2, <3>1 DEF ClaimComes
    <3>2. CASE l # k /\ l[1] \notin due
      <4>1. air'[l] = air[l]
        BY <1>1, <1>3, <3>2
      <4> QED
        BY <1>2, <2>2, <3>2, <4>1 DEF ClaimComes
    <3>3. CASE l = k /\ l[1] \notin due /\ ClaimComes(l)
      <4>1. msg.age = 0 /\ msg.claim = rescue[l[1]].frontier
        BY <1>1, <3>3 DEF ClaimComes
      <4>2. ~(shares[k] # NoShare /\ shares[k].age <= msg.age)
        <5>1. shares[k] = NoShare \/ shares[k].age > 0
          BY <1>1, <4>1 DEF Book, Sound
        <5>2. shares[k].age \in Nat
          BY <1>3 DEF Share
        <5> QED
          BY <4>1, <5>1, <5>2
      <4>3. msg.left > 0
        BY <1>1, <2>1, <4>1 DEF Book, Inv, ClaimsCount, Contested
      <4>4. Yields(k[2], k[1], msg)
        BY <1>3, <2>1, <3>3, <4>1, <4>3 DEF Yields, Contested, NoRescue
      <4>5. rescue'[l[2]] = NoRescue
        BY <1>1, <1>3, <3>3, <4>2, <4>4 DEF Reject
      <4> QED
        BY <2>1, <4>5 DEF Contested, NoRescue
    <3> QED
      BY <3>1, <3>2, <3>3
  <2> QED
    BY <1>2, <1>6, <2>1, <2>3 DEF Book, Accounted
<1> QED
  BY <1>2, <1>3, <1>5, <1>6, Watched

(* A period that ends with a contest was its first one, or the claim of the *)
(* lower id is late.                                                        *)
LEMMA AccountedTick ==
  ASSUME Book, Tick, NEW l \in Rising
  PROVE  Accounted(l)'
<1>1. /\ due \cap alive = {} /\ due' = alive
      /\ faults' = faults + Cardinality(Late)
      /\ contest' = [k \in Hears |-> IF Contested(k) THEN contest[k] + 1 ELSE 0]
      /\ rescue' = [e \in Drone |-> [rescue[e] EXCEPT !.left = Less(@)]]
  BY DEF Tick
<1>2. /\ rescue \in [Drone -> Rescue] /\ l \in Hears
      /\ faults \in Nat /\ contest[l] \in Nat
      /\ l[1] \in Drone /\ l[2] \in Drone
      /\ Cardinality(Late) \in Nat
  BY Types, LinkEnds, LateIsFinite DEF Book, Rising
<1>3. CASE ~Contested(l)
  BY <1>1, <1>2, <1>3 DEF Accounted
<1>4. CASE Contested(l)
  <2>1. contest'[l] = contest[l] + 1
    BY <1>1, <1>2, <1>4
  <2>2. \A e \in Drone : rescue'[e].frontier = rescue[e].frontier
    BY <1>1, <1>2 DEF Rescue
  <2>3. l[1] \in alive
    BY <1>2, <1>4 DEF Book, Sound, Contested
  <2>4. Contested(l)' /\ ClaimComes(l)'
    BY <1>1, <1>2, <1>4, <2>2, <2>3 DEF Contested, ClaimComes
  <2>5. contest[l] <= faults \/ Cardinality(Late) > 0
    <3>1. CASE contest[l] > 0 /\ ClaimComes(l)
      <4>1. l \in Late
        BY <1>1, <1>2, <2>3, <3>1 DEF ClaimComes, Late
      <4> QED
        BY <1>2, <4>1, LateIsCounted
    <3>2. CASE ~(contest[l] > 0 /\ ClaimComes(l))
      BY <1>2, <3>2 DEF Book, Accounted
    <3> QED
      BY <3>1, <3>2
  <2>6. contest[l] <= 1 + faults
    BY DEF Book, Accounted
  <2>7. contest'[l] <= 1 + faults'
    BY <1>1, <1>2, <2>1, <2>5, <2>6
  <2> QED
    BY <2>4, <2>7 DEF Accounted
<1> QED
  BY <1>3, <1>4

LEMMA BookKept ==
  ASSUME Book, [Next]_vars
  PROVE  Book'
<1>1. Inv' /\ Sound'
  BY InvKept, SoundKept DEF Book
<1>2. ASSUME NEW l \in Rising PROVE Accounted(l)'
  <2>1. l \in Hears
    BY DEF Rising
  <2>2. ASSUME NEW d \in Drone, NEW w \in Views[d], UpdateFrontierStruct(d, w)
        PROVE  Accounted(l)'
    BY <2>2, AccountedUpdate
  <2>3. ASSUME NEW d \in Drone, PlanFails(d) \/ Die(d)
        PROVE  Accounted(l)'
    BY <2>1, <2>3, FaultPays, Watched DEF PlanFails, Die
  <2>4. ASSUME NEW d \in Drone, SendShare(d)
        PROVE  Accounted(l)'
    BY <2>4, AccountedSend
  <2>5. ASSUME NEW k \in Hears, Receive(k)
        PROVE  Accounted(l)'
    BY <2>5, AccountedReceive
  <2>6. ASSUME NEW k \in Hears, Lose(k)
        PROVE  Accounted(l)'
    <3>1. Fault /\ contest' = contest /\ rescue' = rescue
      BY <2>6 DEF Lose
    <3>2. contest[l] > 0 => Contested(l)'
      BY <3>1 DEF Book, Accounted, Contested
    <3> QED
      BY <3>1, <3>2, FaultPays
  <2>7. CASE Tick
    BY <2>7, AccountedTick
  <2>8. CASE UNCHANGED vars
    BY <2>8 DEF vars, Book, Accounted, Contested, ClaimComes
  <2> QED
    BY <2>2, <2>3, <2>4, <2>5, <2>6, <2>7, <2>8 DEF Next
<1> QED
  BY <1>1, <1>2 DEF Book, Rising

(* frontierShareTimerCallback and frontierShareMsgCallback: a robot that    *)
(* hears another one with a lower id holds the same frontier for a share    *)
(* period at most, and one more for every share that is lost or late.       *)
THEOREM ContestsAreShort ==
  Spec => []ContestIsShort
<1>1. Init => Book
  <2>1. Init => Inv /\ Sound
    BY InitHolds, SoundInit
  <2>2. Init => \A l \in Rising : Accounted(l)
    BY DEF Init, Accounted, Rising
  <2> QED
    BY <2>1, <2>2 DEF Book
<1>2. Book /\ [Next]_vars => Book'
  BY BookKept
<1>3. Book => ContestIsShort
  BY DEF Book, Accounted, Rising, ContestIsShort
<1> QED
  BY <1>1, <1>2, <1>3, PTL DEF Spec
=============================================================================
