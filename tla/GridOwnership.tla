--------------------------- MODULE GridOwnership ---------------------------
(***************************************************************************)
(* Ownership of exploration grids in RACER.                                *)
(*                                                                         *)
(* Every drone keeps swarm_state_, one DroneState per drone.  Its own entry *)
(* is authoritative; the others cache what the peers last broadcast, or    *)
(* what the last pair optimization wrote there.  Three mechanisms move     *)
(* grids: reconcileDuplicateOwnership (a drone drops the grids a peer      *)
(* claims with a stronger epoch), the pair optimization (PairOpt request,  *)
(* PairOptResponse), and updateGridData followed by syncOwnGridEpochs (the *)
(* drone's own map divides, drops and rediscovers grids).                  *)
(*                                                                         *)
(* exploration_node runs ros::spin() on one thread, so a callback is one   *)
(* action.  ros::Time::now() follows /clock, forwarded at 50 Hz: several   *)
(* callbacks run at the same clock value, which is what Tick models.       *)
(***************************************************************************)
EXTENDS Integers, FiniteSets

CONSTANTS
  Drone,              \* drone ids, numbered from 1
  DroneNum,           \* drone_num_: the drones and the ground station
  Coarse, Fine,       \* level-1 and level-2 grids
  Children,           \* coarseToFineId: the level-2 grids of a level-1 grid
  Divisible,          \* environment: coarse grids that become known enough
  AttemptInterval,    \* attempt_interval_, in clock ticks
  PairOptInterval,    \* pair_opt_interval_
  StateFreshness,     \* state_freshness_
  RelevanceReturns,   \* environment: an irrelevant grid may become relevant
  CandidatesFail,     \* environment: a candidate may be invalid or too costly
  StartTime,          \* clock at the first updateGridData
  Horizon,            \* bound: no exchange, no map change after this tick
  MaxTime,            \* bound: last tick
  BeaconLife,         \* bound: ticks a broadcast state stays undelivered
  MaxRequests,        \* bound: PairOpt requests sent
  MaxUpdates          \* bound: updateGridData calls per drone

Grid == Coarse \cup Fine

ASSUME DroneAssumption ==
  /\ Drone \subseteq 1..DroneNum
  /\ DroneNum \in Nat \ {0}
ASSUME GridAssumption ==
  /\ Coarse \cap Fine = {}
  /\ Children \in [Coarse -> SUBSET Fine]
  /\ \A c, d \in Coarse : c # d => Children[c] \cap Children[d] = {}
  /\ Divisible \subseteq Coarse
ASSUME TimeAssumption ==
  /\ AttemptInterval \in Nat \ {0}
  /\ PairOptInterval \in Nat /\ StateFreshness \in Nat
  /\ StartTime \in Nat \ {0} /\ Horizon \in Nat
  /\ MaxTime \in Nat /\ BeaconLife \in Nat
  /\ MaxRequests \in Nat /\ MaxUpdates \in Nat
ASSUME EnvironmentAssumption ==
  /\ RelevanceReturns \in BOOLEAN
  /\ CandidatesFail \in BOOLEAN

VARIABLES
  now,          \* ros::Time::now()
  swarm,        \* swarm[i][j]: drone i's swarm_state_[j - 1]
  twice,        \* grids listed more than once in a drone's own route
  pending,      \* wait_response_ and the reserved pair optimization
  optStamps,    \* pair_opt_stamps_
  resStamps,    \* pair_opt_res_stamps_
  beacons,      \* DroneState messages sent so far
  requests,     \* PairOpt messages sent so far
  responses,    \* PairOptResponse messages sent so far
  relevant,     \* grids whose is_cur_relevant_ is set, per drone
  divided,      \* coarse grids with need_divide_ set, per drone
  updates       \* updateGridData calls so far, per drone

exchangeVars == <<pending, optStamps, resStamps, requests, responses>>
mapVars == <<relevant, divided, updates>>
vars == <<now, swarm, twice, beacons, exchangeVars, mapVars>>

-----------------------------------------------------------------------------
(* Types *)

Absent == 0           \* no entry in grid_epochs_
RediscoveryEpoch == 1

DroneState ==
  [ids : SUBSET Grid, epochs : [Grid -> Nat], assign : Nat,
   stamp : Nat, attempt : Nat, interact : Nat]
Beacon ==
  [from : Drone, ids : SUBSET Grid, epochs : [Grid -> Nat], assign : Nat,
   stamp : Nat, attempt : Nat]
Request ==
  [from : Drone, to : Drone, stamp : Nat, expEgo : Nat, expOther : Nat,
   epoch : Nat, ego : SUBSET Grid, other : SUBSET Grid]
Response ==
  [from : Drone, to : Drone, stamp : Nat, expEgo : Nat, expOther : Nat,
   epoch : Nat, status : {1, 2}]
Pending ==
  [waiting : BOOLEAN, stamp : Nat, expEgo : Nat, expOther : Nat,
   epoch : Nat, ego : SUBSET Grid, other : SUBSET Grid]

Own(i) == swarm[i][i]

(* One type invariant: what each variable of the exploration node ranges    *)
(* over.                                                                    *)
TypeOK ==
  /\ now \in Nat
  /\ swarm \in [Drone -> [Drone -> DroneState]]
  /\ twice \in [Drone -> SUBSET Grid]
  /\ pending \in [Drone -> Pending]
  /\ optStamps \in [Drone -> [Drone -> Nat]]
  /\ resStamps \in [Drone -> [Drone -> Nat]]
  /\ beacons \subseteq Beacon
  /\ requests \subseteq Request
  /\ responses \subseteq Response
  /\ relevant \in [Drone -> SUBSET Grid]
  /\ divided \in [Drone -> SUBSET Coarse]
  /\ updates \in [Drone -> Nat]

-----------------------------------------------------------------------------
(* Epochs and claims *)

Larger(a, b) == IF a >= b THEN a ELSE b

(* (nsec << 4) | (drone_id & 0x0f)                                          *)
ClockEpoch(i) == 16 * now + (i % 16)

nextAssignmentEpoch(i, a, b) == Larger(Larger(a, b) + 1, ClockEpoch(i))

(* The epoch with which a row claims a grid.                                *)
Claim(s, g) == IF s.epochs[g] = Absent THEN s.assign ELSE s.epochs[g]

(* Mutant of setRouteOwnership: the claims are new, the version is not.      *)
ClaimsWithoutVersion(s, ids, epoch) ==
  [s EXCEPT !.ids = ids,
            !.epochs = [g \in Grid |-> IF g \in ids THEN epoch ELSE Absent]]

setRouteOwnership(s, ids, epoch) ==
  [s EXCEPT !.ids = ids, !.assign = epoch,
            !.epochs = [g \in Grid |-> IF g \in ids THEN epoch ELSE Absent]]

(* Mutants of Outranked: any claim of a peer, or only one of a lower id.    *)
OutrankedByAnyClaim(i, row, g) == \E j \in Drone \ {i} : g \in row[j].ids
OutrankedByLowerId(i, row, g) ==
  \E j \in Drone : j < i /\ g \in row[j].ids /\ Claim(row[j], g) >= Claim(row[i], g)

(* Grid g of drone i has a stronger claim in the row of a peer: a higher    *)
(* epoch, or the same epoch and a lower drone id.                           *)
Outranked(i, row, g) ==
  \E j \in Drone \ {i} :
    /\ g \in row[j].ids
    /\ \/ Claim(row[j], g) > Claim(row[i], g)
       \/ Claim(row[j], g) = Claim(row[i], g) /\ j < i

(* Mutant of Reconciled: the grids leave, the version stays.                *)
UnversionedReconciled(i, row, copies) ==
  LET lost == {g \in row[i].ids : Outranked(i, row, g)}
  IN  [row EXCEPT
         ![i].ids = @ \ lost,
         ![i].epochs = [g \in Grid |->
            IF g \in lost \cup copies THEN Absent ELSE row[i].epochs[g]]]

(* reconcileDuplicateOwnership on drone i's rows: grids a peer outranks and *)
(* second copies leave the own route; their epochs are erased, also that of *)
(* the copy that stays.                                                     *)
Reconciled(i, row, copies) ==
  LET lost == {g \in row[i].ids : Outranked(i, row, g)}
      touched == lost \cup copies
      own == [row[i] EXCEPT
                !.ids = row[i].ids \ lost,
                !.epochs = [g \in Grid |->
                   IF g \in touched THEN Absent ELSE row[i].epochs[g]],
                !.assign = nextAssignmentEpoch(i, row[i].assign, row[i].assign)]
  IN  IF touched = {} THEN row ELSE [row EXCEPT ![i] = own]

-----------------------------------------------------------------------------
(* Map side of ownership *)

(* A coarse grid is active until it is divided, a fine one after its parent *)
(* was.                                                                     *)
ActiveGrids(div) == (Coarse \ div) \cup UNION {Children[c] : c \in div}

(* findUnallocated over getActiveGrids: active, relevant, in nobody's row.  *)
Missed(i, row) ==
  (ActiveGrids(divided[i]) \cap relevant[i])
    \ UNION {row[j].ids : j \in Drone}

ParentOf(g) == {c \in Coarse : g \in Children[c]}

(* syncOwnGridEpochs: the epochs of the new route.  A kept grid keeps its   *)
(* entry, a child of a coarse grid that left inherits the parent's entry,   *)
(* anything else is a rediscovery.                                          *)
SyncedEpochs(s, ids) ==
  LET heir(g) == {c \in ParentOf(g) : c \in s.ids \ ids /\ s.epochs[c] # Absent}
  IN  [g \in Grid |->
        CASE g \notin ids -> Absent
          [] g \in ids /\ s.epochs[g] # Absent -> s.epochs[g]
          [] g \in ids /\ s.epochs[g] = Absent /\ heir(g) # {} ->
               s.epochs[CHOOSE c \in heir(g) : TRUE]
          [] OTHER -> RediscoveryEpoch]

(* Mutant of SyncedRow: the version is not renewed.                         *)
UnversionedRow(i, s, ids) ==
  [s EXCEPT !.ids = ids, !.epochs = SyncedEpochs(s, ids)]

(* syncOwnGridEpochs: the row after the route became ids.                   *)
SyncedRow(i, s, ids) ==
  [s EXCEPT
     !.ids = ids,
     !.epochs = SyncedEpochs(s, ids),
     !.assign = IF ids = s.ids THEN s.assign
                ELSE nextAssignmentEpoch(i, s.assign, s.assign)]

(* Children of the own coarse grids that are relevant and divided.          *)
FromParents(s, div, rel) ==
  UNION {Children[c] : c \in s.ids \cap Coarse \cap rel \cap div}

(* updateGridData: the own route without the irrelevant grids, with children *)
(* in the place of a divided parent, and the rediscovered grids appended.   *)
NewRoute(s, div, rel, back) ==
  (((s.ids \ (Coarse \cap div)) \cup FromParents(s, div, rel)) \cap rel) \cup back

(* Nothing tests whether a child or a rediscovered grid is listed already.  *)
NewCopies(s, copies, div, rel, back) ==
  LET again == FromParents(s, div, rel) \cap s.ids
  IN  ((copies \cup again) \cap rel)
        \cup (back \cap (s.ids \cup FromParents(s, div, rel)))

(* The route is rebuilt and its epochs are synchronized; the tour solver    *)
(* then reorders the whole route.                                           *)
Replan(i, div, rel, back) ==
  /\ swarm' = [swarm EXCEPT
                 ![i][i] = SyncedRow(i, Own(i), NewRoute(Own(i), div, rel, back))]
  /\ twice' = [twice EXCEPT
                 ![i] = NewCopies(Own(i), twice[i], div, rel, back)]

(* The drone's map divides the grids of newly, updates the grids of seen,   *)
(* finds rel relevant and rediscovers the grids of back.                    *)
Remap(i, newly, rel, seen, back) ==
  LET div == divided[i] \cup newly IN
  /\ RelevanceReturns \/ rel \subseteq relevant[i]
  /\ newly \cup UNION {Children[c] : c \in newly} \subseteq seen
  /\ seen \subseteq ActiveGrids(div) \cup newly
  /\ back \subseteq (seen \cap Fine \cap rel) \ relevant[i]
  /\ divided' = [divided EXCEPT ![i] = div]
  /\ relevant' = [relevant EXCEPT ![i] = (@ \ seen) \cup (seen \cap rel)]
  /\ Replan(i, div, rel, back)

(* findGlobalTourOfGrid                                                     *)
UpdateRoute(i) ==
  /\ now <= Horizon
  /\ updates[i] < MaxUpdates
  /\ \E newly \in SUBSET (Divisible \ divided[i]),
        rel \in SUBSET Grid, seen \in SUBSET Grid :
     \E back \in SUBSET (seen \cap Fine) : Remap(i, newly, rel, seen, back)
  /\ updates' = [updates EXCEPT ![i] = @ + 1]
  /\ UNCHANGED <<now, beacons, exchangeVars>>

-----------------------------------------------------------------------------
(* State broadcast *)

(* Mutant of Snapshot: the message carries no epochs of single grids, and    *)
(* the receivers take the version in their place.                           *)
SnapshotWithoutEpochs(i, s) ==
  [from |-> i, ids |-> s.ids, epochs |-> [g \in Grid |-> Absent],
   assign |-> s.assign, stamp |-> s.stamp, attempt |-> s.attempt]

Snapshot(i, s) ==
  [from |-> i, ids |-> s.ids,
   epochs |-> [g \in Grid |-> IF g \in s.ids THEN Claim(s, g) ELSE Absent],
   assign |-> s.assign, stamp |-> s.stamp, attempt |-> s.attempt]

(* droneStateTimerCallback.  Its period is longer than a clock tick; a      *)
(* second state with the same stamp would be ignored by the receivers.      *)
BroadcastState(i) ==
  LET row == Reconciled(i, swarm[i], twice[i])
      own == [row[i] EXCEPT !.stamp = now]
  IN
  /\ Own(i).stamp < now
  /\ swarm' = [swarm EXCEPT ![i] = [row EXCEPT ![i] = own]]
  /\ twice' = [twice EXCEPT ![i] = {}]
  /\ beacons' = {m \in beacons : m.from # i \/ now - m.stamp < BeaconLife}
                  \cup {Snapshot(i, own)}
  /\ UNCHANGED <<now, exchangeVars, mapVars>>

(* droneStateMsgCallback                                                    *)
ReceiveState(i, m) ==
  LET heard == [swarm[i][m.from] EXCEPT
                  !.ids = m.ids, !.epochs = m.epochs, !.assign = m.assign,
                  !.stamp = m.stamp, !.attempt = m.attempt]
  IN
  /\ m.from # i
  /\ swarm[i][m.from].stamp < m.stamp
  /\ swarm' = [swarm EXCEPT
       ![i] = Reconciled(i, [swarm[i] EXCEPT ![m.from] = heard], twice[i])]
  /\ twice' = [twice EXCEPT ![i] = {}]
  /\ UNCHANGED <<now, beacons, exchangeVars, mapVars>>

-----------------------------------------------------------------------------
(* Pair optimization *)

(* A partner optTimerCallback may select.                                   *)
Eligible(i, row, j) ==
  /\ i < j
  /\ now - row[j].stamp <= StateFreshness
  /\ now - row[j].attempt >= AttemptInterval
  /\ now - row[j].interact >= PairOptInterval
  /\ row[i].ids \cup row[j].ids # {}

(* The solver failed, gave a partial candidate, or the seed phase skips it. *)
AbandonAttempt(i, row) ==
  /\ swarm' = [swarm EXCEPT ![i] = [row EXCEPT ![i].attempt = now]]
  /\ UNCHANGED <<pending, requests>>

(* The candidate is valid but its cost is not accepted.                     *)
RejectCandidate(i, row, j) ==
  /\ swarm' = [swarm EXCEPT
       ![i] = [row EXCEPT ![i].attempt = now, ![j].interact = now]]
  /\ UNCHANGED <<pending, requests>>

(* Both lists of a partition of the union and some missed grids, or the     *)
(* baseline that inserts the missed grids into the two old routes, which    *)
(* are not checked for overlap.                                             *)
Candidates(i, row, j) ==
  LET mine == row[i].ids
      theirs == row[j].ids
  IN  UNION {
        { <<ego, (mine \cup theirs \cup found) \ ego>> :
            ego \in SUBSET (mine \cup theirs \cup found) }
        \cup { <<mine \cup a, theirs \cup (found \ a)>> :
            a \in { b \in SUBSET found :
                      found # {} /\ mine # {} /\ theirs # {} } }
        : found \in SUBSET Missed(i, row) }

Requested(i, row, j, c) ==
  [from |-> i, to |-> j, stamp |-> now,
   expEgo |-> row[i].assign, expOther |-> row[j].assign,
   epoch |-> nextAssignmentEpoch(i, row[i].assign, row[j].assign),
   ego |-> c[1], other |-> c[2]]

Reserved(m) ==
  [waiting |-> TRUE, stamp |-> m.stamp, expEgo |-> m.expEgo,
   expOther |-> m.expOther, epoch |-> m.epoch, ego |-> m.ego, other |-> m.other]

(* The candidate c is sent and reserved.                                    *)
Offers(i, row, j, c) ==
  LET m == Requested(i, row, j, c) IN
  /\ requests' = requests \cup {m}
  /\ pending' = [pending EXCEPT ![i] = Reserved(m)]
  /\ swarm' = [swarm EXCEPT ![i] = [row EXCEPT ![i].attempt = now]]

Propose(i, row, j) ==
  /\ Cardinality(requests) < MaxRequests
  /\ \E c \in Candidates(i, row, j) : Offers(i, row, j, c)

(* optTimerCallback: always reconciles; then no attempt, or one with an     *)
(* eligible partner.                                                        *)
OptTimer(i) ==
  LET row == Reconciled(i, swarm[i], twice[i]) IN
  /\ now <= Horizon
  /\ twice' = [twice EXCEPT ![i] = {}]
  /\ \/ /\ swarm' = [swarm EXCEPT ![i] = row]
        /\ UNCHANGED <<pending, requests>>
     \/ /\ now - row[i].attempt >= AttemptInterval
        /\ \E j \in Drone :
           /\ Eligible(i, row, j)
           /\ \/ CandidatesFail /\ AbandonAttempt(i, row)
              \/ CandidatesFail /\ RejectCandidate(i, row, j)
              \/ Propose(i, row, j)
  /\ UNCHANGED <<now, optStamps, resStamps, beacons, responses, mapVars>>

(* Mutant of Acceptable: the rows may have changed since the request.       *)
AcceptableAnyVersion(j, m) ==
  /\ m.ego \cap m.other = {}
  /\ m.stamp - swarm[j][j].attempt >= AttemptInterval

(* The receiver's test of a request: its rows still have the versions the   *)
(* sender planned with, the lists do not overlap, no recent own attempt.    *)
Acceptable(j, m) ==
  /\ swarm[j][m.from].assign = m.expEgo
  /\ swarm[j][j].assign = m.expOther
  /\ m.epoch > m.expEgo /\ m.epoch > m.expOther
  /\ m.ego \cap m.other = {}
  /\ m.stamp - swarm[j][j].attempt >= AttemptInterval

(* Mutant of Reply: the status is encoded one too low.                      *)
ReplyOneLower(m, status) ==
  [from |-> m.to, to |-> m.from, stamp |-> m.stamp, expEgo |-> m.expEgo,
   expOther |-> m.expOther, epoch |-> m.epoch, status |-> status - 1]

Reply(m, status) ==
  [from |-> m.to, to |-> m.from, stamp |-> m.stamp, expEgo |-> m.expEgo,
   expOther |-> m.expOther, epoch |-> m.epoch, status |-> status]

(* The receiver's rows once it takes both lists.                            *)
CommittedRow(j, m) ==
  [swarm[j] EXCEPT
     ![m.from] = [setRouteOwnership(@, m.ego, m.epoch) EXCEPT !.interact = m.stamp],
     ![j] = [setRouteOwnership(@, m.other, m.epoch) EXCEPT !.attempt = now]]

(* optMsgCallback                                                           *)
ReceiveRequest(j, m) ==
  /\ now <= Horizon
  /\ m.to = j /\ m.from # j
  /\ m.stamp > optStamps[j][m.from]
  /\ optStamps' = [optStamps EXCEPT ![j][m.from] = m.stamp]
  /\ \/ /\ Acceptable(j, m)
        /\ swarm' = [swarm EXCEPT ![j] = CommittedRow(j, m)]
        /\ twice' = [twice EXCEPT ![j] = {}]
        /\ responses' = responses \cup {Reply(m, 1)}
     \/ /\ ~Acceptable(j, m)
        /\ responses' = responses \cup {Reply(m, 2)}
        /\ UNCHANGED <<swarm, twice>>
  /\ UNCHANGED <<now, pending, resStamps, beacons, requests, mapVars>>

(* transaction_matches                                                      *)
Matches(i, m) ==
  LET p == pending[i] IN
  /\ m.expEgo = p.expEgo /\ m.expOther = p.expOther /\ m.epoch = p.epoch
  /\ swarm[i][i].assign = p.expEgo
  /\ swarm[i][m.from].assign \in {p.expOther, p.epoch}

(* The sender's rows once it takes both lists.                              *)
AppliedRow(i, j) ==
  LET p == pending[i] IN
  [swarm[i] EXCEPT
     ![i] = setRouteOwnership(@, p.ego, p.epoch),
     ![j] = [setRouteOwnership(@, p.other, p.epoch) EXCEPT !.interact = now]]

Awaited(i, m) == pending[i].waiting /\ pending[i].stamp = m.stamp

(* optResMsgCallback                                                        *)
ReceiveResponse(i, m) ==
  /\ now <= Horizon
  /\ m.to = i /\ m.from # i
  /\ m.stamp > resStamps[i][m.from]
  /\ resStamps' = [resStamps EXCEPT ![i][m.from] = m.stamp]
  /\ pending' = [pending EXCEPT ![i].waiting = @ /\ ~Awaited(i, m)]
  /\ \/ /\ Awaited(i, m) /\ m.status = 1 /\ Matches(i, m)
        /\ swarm' = [swarm EXCEPT
                       ![i] = Reconciled(i, AppliedRow(i, m.from), {})]
        /\ twice' = [twice EXCEPT ![i] = {}]
     \/ /\ ~(Awaited(i, m) /\ m.status = 1 /\ Matches(i, m))
        /\ UNCHANGED <<swarm, twice>>
  /\ UNCHANGED <<now, optStamps, beacons, requests, responses, mapVars>>

-----------------------------------------------------------------------------
(* The clock.  After the horizon the network is timely: every DroneState of *)
(* a tick has arrived before the next tick.                                 *)

Settled == \A i, j \in Drone : swarm[i][j].stamp = now

Tick ==
  /\ now < MaxTime
  /\ now > Horizon => Settled
  /\ now' = now + 1
  /\ UNCHANGED <<swarm, twice, beacons, exchangeVars, mapVars>>

InitialState ==
  [ids |-> {}, epochs |-> [g \in Grid |-> Absent], assign |-> 0,
   stamp |-> 0, attempt |-> 0, interact |-> 0]

(* After the first updateGridData, which gives drone 1 every coarse grid.   *)
Init ==
  /\ now = StartTime
  /\ swarm = [i \in Drone |-> [j \in Drone |->
       IF i = 1 /\ j = 1
       THEN [InitialState EXCEPT
               !.ids = Coarse, !.assign = 16 * StartTime + 1,
               !.epochs = [g \in Grid |->
                  IF g \in Coarse THEN RediscoveryEpoch ELSE Absent]]
       ELSE InitialState]]
  /\ twice = [i \in Drone |-> {}]
  /\ pending = [i \in Drone |->
       [waiting |-> FALSE, stamp |-> 0, expEgo |-> 0, expOther |-> 0,
        epoch |-> 0, ego |-> {}, other |-> {}]]
  /\ optStamps = [i \in Drone |-> [j \in Drone |-> 0]]
  /\ resStamps = [i \in Drone |-> [j \in Drone |-> 0]]
  /\ beacons = {} /\ requests = {} /\ responses = {}
  /\ relevant = [i \in Drone |-> Grid]
  /\ divided = [i \in Drone |-> {}]
  /\ updates = [i \in Drone |-> 0]

Next ==
  \/ Tick
  \/ \E i \in Drone :
       \/ UpdateRoute(i)
       \/ BroadcastState(i)
       \/ \E m \in beacons : ReceiveState(i, m)
       \/ OptTimer(i)
       \/ \E m \in requests : ReceiveRequest(i, m)
       \/ \E m \in responses : ReceiveResponse(i, m)

(* The clock advances; the 20 Hz state timer of every drone fires; a state  *)
(* that was sent arrives (after the horizon, before the next tick).         *)
Fairness ==
  /\ WF_vars(Tick)
  /\ \A i \in Drone :
       /\ WF_vars(BroadcastState(i))
       /\ WF_vars(\E m \in beacons : m.stamp = now /\ ReceiveState(i, m))

Spec == Init /\ [][Next]_vars
FairSpec == Spec /\ Fairness

-----------------------------------------------------------------------------
(* Properties *)

(* No recorded claim is stronger than the version of the row it is in, so  *)
(* that the epoch of a new exchange, above both versions, beats every claim *)
(* of the two routes it replaces.                                           *)
ClaimsBounded ==
  \A i, j \in Drone : \A g \in swarm[i][j].ids :
    Claim(swarm[i][j], g) <= swarm[i][j].assign

(* A version names one route: a state on its way, or the row a lower drone  *)
(* plans an exchange with, is either outdated by its version or exactly the *)
(* route its owner holds.  The compare-and-set of optMsgCallback rests on   *)
(* this.                                                                    *)
NamesRoute(j, s) ==
  /\ s.assign <= Own(j).assign
  /\ s.assign = Own(j).assign => s.ids = Own(j).ids

VersionNamesRoute ==
  /\ \A i, j \in Drone : i < j => NamesRoute(j, swarm[i][j])
  /\ \A m \in beacons : NamesRoute(m.from, m)

(* A route is given up only for lists that account for it: when a receiver  *)
(* commits an exchange, and when the sender applies its half, every grid of *)
(* the route it held is in one of the two new routes.                       *)
Commits(m) == m \in requests /\ Reply(m, 1) \in responses' \ responses
Applies(i) ==
  /\ pending[i].waiting /\ ~pending[i].waiting'
  /\ Own(i)' # Own(i)

TransferLosesNothing ==
  [][/\ \A m \in requests : Commits(m) => Own(m.to).ids \subseteq m.ego \cup m.other
     /\ \A i \in Drone : Applies(i) =>
          Own(i).ids \subseteq pending[i].ego \cup pending[i].other]_vars

(* A drone's own version never goes back, and every change of its route     *)
(* carries a new one.                                                       *)
RouteChangeIsVersioned ==
  [][\A i \in Drone :
       /\ Own(i).assign' >= Own(i).assign
       /\ Own(i).ids' # Own(i).ids => Own(i).assign' > Own(i).assign]_vars

(* A claim above the rediscovery epoch stays above it while the grid stays  *)
(* in the route.                                                            *)
PairEpochKept ==
  [][\A i \in Drone : \A g \in Own(i).ids \cap Own(i).ids' :
       Claim(Own(i), g) > RediscoveryEpoch
         => Claim(Own(i), g)' > RediscoveryEpoch]_vars

(* Once exchanges and map changes stop and broadcasts arrive, the drones    *)
(* agree on who owns what and no grid has two owners.                       *)
NoDuplicateOwner ==
  \A i, j \in Drone : i # j => Own(i).ids \cap Own(j).ids = {}
CachesAgree ==
  \A i, j \in Drone : swarm[i][j].ids = Own(j).ids
OwnershipConverges == <>[](NoDuplicateOwner /\ CachesAgree)

-----------------------------------------------------------------------------
(* The pair optimization implements versioned exchanges: every callback is  *)
(* a step of PairExchange on the drones' own rows, or leaves them alone.    *)

OfferOf(m) ==
  [from |-> m.from, to |-> m.to, expEgo |-> m.expEgo, expOther |-> m.expOther,
   epoch |-> m.epoch, ego |-> m.ego, other |-> m.other]

Exchange == INSTANCE PairExchange WITH
  version <- [i \in Drone |-> Own(i).assign],
  route <- [i \in Drone |-> Own(i).ids],
  offers <- {OfferOf(m) : m \in requests},
  accepted <- {OfferOf(m) : m \in {r \in requests : Reply(r, 1) \in responses}}

ImplementsExchange == Exchange!Spec

=============================================================================
