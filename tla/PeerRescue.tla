----------------------------- MODULE PeerRescue -----------------------------
(***************************************************************************)
(* Frontier shares: robots without work take over frontiers of the others. *)
(*                                                                         *)
(* Every share period a robot tells which of its frontiers are open, which *)
(* it reserves, and which peer frontier it helps with, its claim.  A robot without own *)
(* frontiers selects an open frontier that nobody claims; of two robots    *)
(* that selected the same one the lower id keeps it.                       *)
(*                                                                         *)
(* Time is counted in share periods, a stamp is an age and a deadline the  *)
(* time that is left.  Of the shares of a sender the newest one may be on  *)
(* its way to a hearer; it is heard within its period unless a fault loses *)
(* it or delays it beyond.                                                 *)
(***************************************************************************)
EXTENDS Integers, FiniteSets

CONSTANTS
  Drone,       \* drone ids
  Frontier,    \* signatures
  None,        \* signature 0
  Hears,       \* pairs <<sender, hearer>> in range
  Views,       \* for each drone, what its map may say
  MaxAge,      \* peer_frontier_max_age_
  ClaimTtl,    \* peer_frontier_claim_ttl_
  FailureTtl,  \* peer_frontier_failure_ttl_
  MaxFaults    \* bound on lost and late shares, failed plans, dead robots

View == [open : SUBSET Frontier, reserved : SUBSET Frontier,
         reachable : SUBSET Frontier]

ASSUME DroneAssumption ==
  /\ Drone \subseteq Nat \ {0} /\ IsFiniteSet(Drone)
  /\ Hears \subseteq {l \in Drone \X Drone : l[1] # l[2]}
  /\ None \notin Frontier
  /\ Views \in [Drone -> SUBSET View]
ASSUME TimeAssumption ==
  /\ MaxAge \in Nat /\ FailureTtl \in Nat /\ ClaimTtl \in Nat \ {0}
  /\ MaxFaults \in Nat

VARIABLES
  alive,     \* drones whose process runs
  map,       \* the last updateFrontierStruct: own frontiers, and those of
             \* peers that a path leads to
  rescue,    \* peer_rescue_candidate_, peer_rescue_claim_until_
  failed,    \* peer_frontier_failed_until_
  shares,    \* peer_frontier_shares_
  air,       \* the share that is on its way
  due,       \* drones whose share timer has not fired in this period
  woken,     \* last_check_frontier_time_ was reset by a share
  faults,    \* faults so far
  contest    \* history: for sender and hearer, periods that have ended since
             \* both hold one frontier

vars == <<alive, map, rescue, failed, shares, air, due, woken,
          faults, contest>>

Signature == Frontier \cup {None}
Share == [age : 0 .. MaxAge, open : SUBSET Frontier,
          reserved : SUBSET Frontier, claim : Signature, left : 0 .. ClaimTtl]
NoShare == [age |-> 0, open |-> {}, reserved |-> {}, claim |-> None,
            left |-> 0]
Nothing == [open |-> {}, reserved |-> {}, reachable |-> {}]
NoRescue == [frontier |-> None, left |-> 0]

(* One type invariant.                                                      *)
TypeOK ==
  /\ alive \subseteq Drone
  /\ map \in [Drone -> View]
  /\ rescue \in [Drone -> [frontier : Signature, left : 0 .. ClaimTtl]]
  /\ failed \in [Drone -> [Frontier -> 0 .. FailureTtl]]
  /\ shares \in [Hears -> Share \cup {NoShare}]
  /\ air \in [Hears -> SUBSET Share]
  /\ due \subseteq Drone /\ woken \subseteq Drone
  /\ faults \in 0 .. MaxFaults /\ contest \in [Hears -> Nat]

Init ==
  /\ alive = Drone
  /\ map = [d \in Drone |-> Nothing]
  /\ rescue = [d \in Drone |-> NoRescue]
  /\ failed = [d \in Drone |-> [f \in Frontier |-> 0]]
  /\ shares = [l \in Hears |-> NoShare]
  /\ air = [l \in Hears |-> {}]
  /\ due = Drone /\ woken = {}
  /\ faults = 0 /\ contest = [l \in Hears |-> 0]

Contested(l) == /\ rescue[l[1]].frontier = rescue[l[2]].frontier
                /\ rescue[l[1]].frontier # None

(* The history follows every step inside a period.                          *)
Watch ==
  contest' = [l \in Hears |-> IF Contested(l)' THEN contest[l] ELSE 0]

Fault == faults < MaxFaults /\ faults' = faults + 1

-----------------------------------------------------------------------------
(* updateFrontierStruct *)

Hearing(d) == {l \in Hears : l[2] = d}

(* Mutant of Claimed: the own claim counts, too.                            *)
ClaimedByAnyone(d) ==
  ({shares[l].claim : l \in Hearing(d)} \cup {rescue[d].frontier}) \ {None}

Claimed(d) == {shares[l].claim : l \in Hearing(d)} \ {None}

(* Mutant of Candidates: the claims of the others are ignored.              *)
CandidatesClaimedToo(d, w) ==
  {f \in UNION {shares[l].open : l \in Hearing(d)} :
     failed[d][f] = 0 /\ f \in w.reachable}

(* selectPeerFrontierRescue: open, not claimed, not failed, reachable.      *)
Candidates(d, w) ==
  {f \in UNION {shares[l].open : l \in Hearing(d)} :
     /\ f \notin Claimed(d)
     /\ failed[d][f] = 0
     /\ f \in w.reachable}

(* Own frontiers release the claim; otherwise the best candidate is chosen  *)
(* anew at every update, the one the robot holds among them.                *)
UpdateFrontierStruct(d, w) ==
  /\ d \in alive
  /\ map' = [map EXCEPT ![d] = w]
  /\ \/ /\ w.open \cup w.reserved # {} \/ Candidates(d, w) = {}
        /\ rescue' = [rescue EXCEPT ![d] = NoRescue]
     \/ /\ w.open \cup w.reserved = {}
        /\ \E f \in Candidates(d, w) :
             rescue' = [rescue EXCEPT ![d] = [frontier |-> f, left |-> ClaimTtl]]
  /\ woken' = woken \ {d}
  /\ UNCHANGED <<alive, failed, shares, air, due, faults>>
  /\ Watch

(* rejectPeerFrontierRescue *)
Reject(d) ==
  /\ failed' = [failed EXCEPT ![d][rescue[d].frontier] = FailureTtl]
  /\ rescue' = [rescue EXCEPT ![d] = NoRescue]

(* planExploreMotion: there is no trajectory to the viewpoint.              *)
PlanFails(d) ==
  /\ d \in alive /\ rescue[d] # NoRescue /\ Fault
  /\ Reject(d)
  /\ UNCHANGED <<alive, map, shares, air, due, woken>>
  /\ Watch

-----------------------------------------------------------------------------
(* frontierShareTimerCallback, frontierShareMsgCallback *)

(* Mutant of Refreshed: the claim of the selection just runs out.           *)
RunsOut(r) == r

Refreshed(r) == IF r = NoRescue THEN r ELSE [r EXCEPT !.left = ClaimTtl]

SendShare(d) ==
  /\ d \in alive \cap due
  /\ due' = due \ {d}
  /\ rescue' = [rescue EXCEPT ![d] = Refreshed(@)]
  /\ air' = [l \in Hears |->
               IF l[1] = d /\ l[2] \in alive
               THEN {[age |-> 0, open |-> map[d].open,
                      reserved |-> map[d].reserved,
                      claim |-> rescue'[d].frontier, left |-> rescue'[d].left]}
               ELSE air[l]]
  /\ UNCHANGED <<alive, map, failed, shares, woken, faults, contest>>

Yields(d, from, msg) ==
  /\ rescue[d] # NoRescue
  /\ msg.claim = rescue[d].frontier /\ msg.left > 0
  /\ from < d

(* Every selection skips the reserved frontiers: they need not be kept.     *)
Kept(msg) == [msg EXCEPT !.reserved = {}]

(* A share with frontiers, reserved ones too, wakes its hearer; the yield    *)
(* does if it stops a robot that was planning or driving.                   *)
Receive(l) ==
  \E msg \in air[l] :
    /\ l[2] \in alive
    /\ air' = [air EXCEPT ![l] = {}]
    /\ IF shares[l] # NoShare /\ shares[l].age <= msg.age
       THEN UNCHANGED <<shares, failed, rescue, woken>>
       ELSE /\ shares' = [shares EXCEPT ![l] = Kept(msg)]
            /\ IF Yields(l[2], l[1], msg)
               THEN Reject(l[2]) /\ woken' \in {woken, woken \cup {l[2]}}
               ELSE /\ woken' = IF msg.open \cup msg.reserved = {} THEN woken
                                ELSE woken \cup {l[2]}
                    /\ UNCHANGED <<failed, rescue>>
    /\ UNCHANGED <<alive, map, due, faults>>
    /\ Watch

-----------------------------------------------------------------------------
(* Time and faults *)

Less(n) == IF n = 0 THEN 0 ELSE n - 1

(* Mutant of Older: a share counts for ever.                                *)
EverOlder(s) ==
  IF s = NoShare THEN NoShare
  ELSE [s EXCEPT !.age = @ + 1, !.left = Less(@),
                 !.claim = IF s.left <= 1 THEN None ELSE @]

(* A share that is too old counts no more, nor does a claim that has ended. *)
Older(s) ==
  IF s = NoShare \/ s.age = MaxAge THEN NoShare
  ELSE [s EXCEPT !.age = @ + 1, !.left = Less(@),
                 !.claim = IF s.left <= 1 THEN None ELSE @]

Late == {l \in Hears : air[l] # {}}

Free(d) == map[d].open \cup map[d].reserved = {} /\ rescue[d] = NoRescue

(* The end of a share period.  What has not been heard yet is late; a robot *)
(* without work that was woken has updated its frontiers.                   *)
Tick ==
  /\ due \cap alive = {}
  /\ \A d \in woken \cap alive : ~Free(d)
  /\ due' = alive
  /\ faults' = faults + Cardinality(Late) /\ faults' <= MaxFaults
  /\ rescue' = [d \in Drone |-> [rescue[d] EXCEPT !.left = Less(@)]]
  /\ failed' = [d \in Drone |-> [f \in Frontier |-> Less(failed[d][f])]]
  /\ shares' = [l \in Hears |-> Older(shares[l])]
  /\ air' = [l \in Hears |-> {Older(msg) : msg \in air[l]} \ {NoShare}]
  /\ contest' = [l \in Hears |-> IF Contested(l) THEN contest[l] + 1 ELSE 0]
  /\ UNCHANGED <<alive, map, woken>>

Lose(l) ==
  /\ air[l] # {} /\ Fault
  /\ air' = [air EXCEPT ![l] = {}]
  /\ UNCHANGED <<alive, map, rescue, failed, shares, due, woken, contest>>

(* A process ends and is not started again.                                 *)
Die(d) ==
  /\ d \in alive /\ Fault
  /\ alive' = alive \ {d}
  /\ rescue' = [rescue EXCEPT ![d] = NoRescue]
  /\ air' = [l \in Hears |-> IF l[2] = d THEN {} ELSE air[l]]
  /\ UNCHANGED <<map, failed, shares, due, woken>>
  /\ Watch

Next ==
  \/ \E d \in Drone : \E w \in Views[d] : UpdateFrontierStruct(d, w)
  \/ \E d \in Drone : PlanFails(d) \/ SendShare(d) \/ Die(d)
  \/ \E l \in Hears : Receive(l) \/ Lose(l)
  \/ Tick

Spec == Init /\ [][Next]_vars

(* The timers fire, a share that is not lost is heard, and a robot updates  *)
(* its frontiers again and again, also while its map does not change.       *)
Fairness ==
  /\ \A d \in Drone : /\ WF_vars(UpdateFrontierStruct(d, map[d]))
                      /\ WF_vars(SendShare(d))
  /\ \A l \in Hears : WF_vars(Receive(l))
  /\ WF_vars(Tick)

FairSpec == Spec /\ Fairness

-----------------------------------------------------------------------------
(* "A short-lived claim prevents two idle vehicles from selecting the same   *)
(* peer frontier" (FrontierShare.msg): not quite, both may select it before  *)
(* they hear each other, or when a claim was not heard for MaxAge periods.   *)
(* But the lower id keeps it: a robot that hears another one with a lower id *)
(* holds the same frontier no longer than a share period, and one more for   *)
(* every share that is lost or late.                                         *)
ContestIsShort == \A l \in Hears : l[1] < l[2] => contest[l] <= 1 + faults

(* A robot does not hold a frontier that it has heard a lower id claim, as   *)
(* long as that share and the claim count: it yields at once, and does not   *)
(* select the frontier again.                                                *)
LowerClaimHolds ==
  \A l \in Hears :
    l[1] < l[2] /\ shares[l].claim # None =>
      rescue[l[2]].frontier # shares[l].claim

Holder(f) == {d \in alive : rescue[d].frontier = f}

Offered(f) ==
  /\ \A d \in alive : map[d].open \subseteq {f}
  /\ \E l \in Hears :
       /\ {l[1], l[2]} \subseteq alive
       /\ map[l[1]].open = {f}
       /\ map[l[2]] = [Nothing EXCEPT !.reachable = {f}]

(* A frontier that stays open, with a robot in reach that has nothing else   *)
(* to do, ends up with one helper that keeps it: contests do not go on for   *)
(* ever, and neither a rejected plan nor the claim of a dead robot blocks it. *)
RescueSettles ==
  \A w \in {u \in [Drone -> View] : \A d \in Drone : u[d] \in Views[d]} :
    \A f \in Frontier :
      <>[](map = w /\ Offered(f)) => <>[](Cardinality(Holder(f)) = 1)
=============================================================================
