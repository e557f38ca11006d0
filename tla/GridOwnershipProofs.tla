------------------------ MODULE GridOwnershipProofs ------------------------
(* Proofs about GridOwnership, for any drones, grids, intervals and bounds. *)
EXTENDS MCGridOwnership, TLAPS

-----------------------------------------------------------------------------
(* The operators on rows *)

Row == [Drone -> DroneState]

LEMMA ClockEpochNat ==
  ASSUME NEW i \in Drone, now \in Nat
  PROVE  ClockEpoch(i) \in Nat
BY DroneAssumption DEF ClockEpoch

(* A new assignment epoch is above the two it replaces.                     *)
LEMMA NextEpochGrows ==
  ASSUME NEW i \in Drone, NEW a \in Nat, NEW b \in Nat, now \in Nat
  PROVE  /\ nextAssignmentEpoch(i, a, b) \in Nat
         /\ nextAssignmentEpoch(i, a, b) > a
         /\ nextAssignmentEpoch(i, a, b) > b
BY ClockEpochNat DEF nextAssignmentEpoch, Larger

LEMMA setRouteOwnershipRow ==
  ASSUME NEW s \in DroneState, NEW ids \in SUBSET Grid, NEW e \in Nat
  PROVE  /\ setRouteOwnership(s, ids, e) \in DroneState
         /\ setRouteOwnership(s, ids, e).ids = ids
         /\ setRouteOwnership(s, ids, e).assign = e
         /\ setRouteOwnership(s, ids, e).attempt = s.attempt
         /\ setRouteOwnership(s, ids, e).stamp = s.stamp
BY DEF setRouteOwnership, DroneState, Absent

(* Reconciliation touches the own row only; it keeps it, or gives it a      *)
(* higher version and at most the grids it had.                             *)
LEMMA ReconciledRow ==
  ASSUME NEW i \in Drone, NEW row \in Row, NEW copies \in SUBSET Grid, now \in Nat
  PROVE  /\ Reconciled(i, row, copies) \in Row
         /\ \A j \in Drone \ {i} : Reconciled(i, row, copies)[j] = row[j]
         /\ Reconciled(i, row, copies)[i].stamp = row[i].stamp
         /\ Reconciled(i, row, copies)[i].attempt = row[i].attempt
         /\ Reconciled(i, row, copies)[i].ids \subseteq row[i].ids
         /\ \/ Reconciled(i, row, copies)[i] = row[i]
            \/ Reconciled(i, row, copies)[i].assign > row[i].assign
<1> DEFINE lost == {g \in row[i].ids : Outranked(i, row, g)}
           touched == lost \cup copies
           next == nextAssignmentEpoch(i, row[i].assign, row[i].assign)
           own == [row[i] EXCEPT
                     !.ids = row[i].ids \ lost,
                     !.epochs = [g \in Grid |->
                        IF g \in touched THEN Absent ELSE row[i].epochs[g]],
                     !.assign = next]
<1>1. Reconciled(i, row, copies) = IF touched = {} THEN row ELSE [row EXCEPT ![i] = own]
  BY DEF Reconciled
<1>2. row[i] \in DroneState
  BY DEF Row
<1>3. next \in Nat /\ next > row[i].assign
  BY <1>2, NextEpochGrows DEF DroneState
<1> HIDE DEF lost, next
<1>4. lost \subseteq row[i].ids
  BY DEF lost
<1>5. /\ own \in DroneState
      /\ own.ids \subseteq row[i].ids /\ own.assign = next
      /\ own.stamp = row[i].stamp /\ own.attempt = row[i].attempt
  BY <1>2, <1>3, <1>4 DEF DroneState, Absent
<1> HIDE DEF own
<1>6. QED
  BY <1>1, <1>2, <1>3, <1>5 DEF Row

LEMMA SyncedEpochsType ==
  ASSUME NEW s \in DroneState, NEW ids \in SUBSET Grid
  PROVE  SyncedEpochs(s, ids) \in [Grid -> Nat]
<1> DEFINE heir(g) == {c \in ParentOf(g) : c \in s.ids \ ids /\ s.epochs[c] # Absent}
<1>1. s.epochs \in [Grid -> Nat]
  BY DEF DroneState
<1>2. ASSUME NEW g \in Grid, heir(g) # {}
      PROVE s.epochs[CHOOSE c \in heir(g) : TRUE] \in Nat
  <2>1. (CHOOSE c \in heir(g) : TRUE) \in heir(g)
    BY <1>2
  <2>2. heir(g) \subseteq Grid
    BY DEF ParentOf, Grid
  <2>3. QED
    BY <1>1, <2>1, <2>2
<1>3. QED
  BY <1>1, <1>2 DEF SyncedEpochs, Absent, RediscoveryEpoch

LEMMA SyncedRowVersion ==
  ASSUME NEW i \in Drone, NEW s \in DroneState, NEW ids \in SUBSET Grid, now \in Nat
  PROVE  /\ SyncedRow(i, s, ids) \in DroneState
         /\ SyncedRow(i, s, ids).ids = ids
         /\ SyncedRow(i, s, ids).attempt = s.attempt
         /\ SyncedRow(i, s, ids).assign >= s.assign
         /\ ids # s.ids => SyncedRow(i, s, ids).assign > s.assign
<1>1. SyncedEpochs(s, ids) \in [Grid -> Nat]
  BY SyncedEpochsType
<1>2. s.assign \in Nat
  BY DEF DroneState
<1>3. /\ nextAssignmentEpoch(i, s.assign, s.assign) \in Nat
      /\ nextAssignmentEpoch(i, s.assign, s.assign) > s.assign
  BY <1>2, NextEpochGrows
<1> DEFINE a == IF ids = s.ids THEN s.assign
                ELSE nextAssignmentEpoch(i, s.assign, s.assign)
<1>4. a \in Nat /\ a >= s.assign /\ (ids # s.ids => a > s.assign)
  BY <1>2, <1>3
<1>5. SyncedRow(i, s, ids)
        = [s EXCEPT !.ids = ids, !.epochs = SyncedEpochs(s, ids), !.assign = a]
  BY DEF SyncedRow
<1> HIDE DEF a
<1>6. QED
  BY <1>1, <1>4, <1>5 DEF DroneState

-----------------------------------------------------------------------------
(* Type correctness *)

LEMMA TypeInit == Init => TypeOK
<1> SUFFICES ASSUME Init PROVE TypeOK
  OBVIOUS
<1>1. InitialState \in DroneState
  BY DEF InitialState, DroneState, Absent
<1> DEFINE first == [g \in Grid |-> IF g \in Coarse THEN RediscoveryEpoch ELSE Absent]
<1>a. first \in [Grid -> Nat] /\ 16 * StartTime + 1 \in Nat /\ Coarse \in SUBSET Grid
  BY TimeAssumption DEF Absent, RediscoveryEpoch, Grid
<1> HIDE DEF first
<1>2. [InitialState EXCEPT !.ids = Coarse, !.assign = 16 * StartTime + 1,
                           !.epochs = first] \in DroneState
  BY <1>a, <1>1 DEF DroneState
<1>3. swarm \in [Drone -> [Drone -> DroneState]]
  BY <1>1, <1>2 DEF Init, first
<1>4. now \in Nat
  BY TimeAssumption DEF Init
<1>5. pending \in [Drone -> Pending]
  BY DEF Init, Pending
<1>6. QED
  BY <1>3, <1>4, <1>5 DEF Init, TypeOK

(* What UpdateRoute does to the variables, the map's choices forgotten.      *)
RowStep(i, route, copies) ==
  /\ swarm' = [swarm EXCEPT ![i][i] = SyncedRow(i, Own(i), route)]
  /\ twice' = [twice EXCEPT ![i] = copies]

LEMMA UpdateRouteShape ==
  ASSUME TypeOK, NEW i \in Drone, UpdateRoute(i)
  PROVE  /\ divided' \in [Drone -> SUBSET Coarse]
         /\ relevant' \in [Drone -> SUBSET Grid]
         /\ updates' \in [Drone -> Nat]
         /\ UNCHANGED <<now, beacons, exchangeVars>>
         /\ \E route \in SUBSET Grid, copies \in SUBSET Grid :
              RowStep(i, route, copies)
<1>1. PICK newly \in SUBSET (Divisible \ divided[i]),
           rel \in SUBSET Grid, seen \in SUBSET Grid :
        \E back \in SUBSET (seen \cap Fine) : Remap(i, newly, rel, seen, back)
  BY DEF UpdateRoute
<1>2. PICK back \in SUBSET (seen \cap Fine) : Remap(i, newly, rel, seen, back)
  BY <1>1
<1> DEFINE div == divided[i] \cup newly
           route == NewRoute(Own(i), div, rel, back)
           copies == NewCopies(Own(i), twice[i], div, rel, back)
<1>3. divided' \in [Drone -> SUBSET Coarse]
  BY <1>2, GridAssumption DEF Remap, TypeOK
<1>4. relevant' \in [Drone -> SUBSET Grid]
  BY <1>2 DEF Remap, TypeOK
<1>5. route \in SUBSET Grid
  BY DEF NewRoute, Grid
<1>6. copies \in SUBSET Grid
  BY GridAssumption DEF NewCopies, FromParents, TypeOK, Own, Grid, DroneState
<1>7. RowStep(i, route, copies)
  BY <1>2 DEF Remap, Replan, RowStep
<1>8. updates' \in [Drone -> Nat] /\ UNCHANGED <<now, beacons, exchangeVars>>
  BY DEF UpdateRoute, TypeOK
<1> HIDE DEF route, copies
<1>9. \E r \in SUBSET Grid, c \in SUBSET Grid : RowStep(i, r, c)
  BY <1>5, <1>6, <1>7
<1>10. QED
  BY <1>3, <1>4, <1>8, <1>9

LEMMA TypeUpdateRoute ==
  ASSUME TypeOK, NEW i \in Drone, UpdateRoute(i)
  PROVE  TypeOK'
<1>0. PICK route \in SUBSET Grid, copies \in SUBSET Grid :
        RowStep(i, route, copies)
  BY UpdateRouteShape
<1>1. /\ swarm' = [swarm EXCEPT ![i][i] = SyncedRow(i, Own(i), route)]
      /\ twice' = [twice EXCEPT ![i] = copies]
  BY <1>0 DEF RowStep
<1>2. SyncedRow(i, Own(i), route) \in DroneState
  BY SyncedRowVersion DEF TypeOK, Own
<1>4. swarm' \in [Drone -> [Drone -> DroneState]]
  BY <1>1, <1>2 DEF TypeOK
<1>5. twice' \in [Drone -> SUBSET Grid]
  BY <1>1 DEF TypeOK
<1>6. QED
  BY <1>4, <1>5, UpdateRouteShape DEF TypeOK, exchangeVars

LEMMA TypeBroadcastState ==
  ASSUME TypeOK, NEW i \in Drone, BroadcastState(i)
  PROVE  TypeOK'
<1> DEFINE row == Reconciled(i, swarm[i], twice[i])
           own == [row[i] EXCEPT !.stamp = now]
<1>1. row \in Row
  BY ReconciledRow DEF TypeOK, Row
<1>2. own \in DroneState
  BY <1>1 DEF Row, DroneState, TypeOK
<1>3. swarm' = [swarm EXCEPT ![i] = [row EXCEPT ![i] = own]]
      /\ twice' = [twice EXCEPT ![i] = {}]
      /\ beacons' \subseteq beacons \cup {Snapshot(i, own)}
      /\ UNCHANGED <<now, exchangeVars, mapVars>>
  BY DEF BroadcastState
<1> HIDE DEF row
<1>4. Snapshot(i, own) \in Beacon
  BY <1>2 DEF Snapshot, Claim, Beacon, DroneState, Absent
<1> HIDE DEF own
<1>5. swarm' \in [Drone -> [Drone -> DroneState]]
  BY <1>1, <1>2, <1>3 DEF TypeOK, Row
<1>6. QED
  BY <1>3, <1>4, <1>5 DEF TypeOK, exchangeVars, mapVars

LEMMA TypeReceiveState ==
  ASSUME TypeOK, NEW i \in Drone, NEW m \in beacons, ReceiveState(i, m)
  PROVE  TypeOK'
<1> DEFINE heard == [swarm[i][m.from] EXCEPT
                       !.ids = m.ids, !.epochs = m.epochs, !.assign = m.assign,
                       !.stamp = m.stamp, !.attempt = m.attempt]
           row == [swarm[i] EXCEPT ![m.from] = heard]
<1>1. m \in Beacon
  BY DEF TypeOK
<1>a. swarm[i][m.from] \in DroneState
  BY <1>1 DEF TypeOK, Beacon
<1>2. heard \in DroneState
  BY <1>1, <1>a DEF DroneState, Beacon
<1>3. swarm' = [swarm EXCEPT ![i] = Reconciled(i, row, twice[i])]
      /\ twice' = [twice EXCEPT ![i] = {}]
      /\ UNCHANGED <<now, beacons, exchangeVars, mapVars>>
  BY DEF ReceiveState
<1> HIDE DEF heard
<1>4. row \in Row
  BY <1>1, <1>2 DEF TypeOK, Row, Beacon
<1> HIDE DEF row
<1>5. Reconciled(i, row, twice[i]) \in Row
  BY <1>4, ReconciledRow DEF TypeOK
<1>6. QED
  BY <1>3, <1>5 DEF TypeOK, exchangeVars, mapVars, Row

(* An attempt with partner j: the rows and the outstanding exchange stay    *)
(* well-typed.                                                              *)
LEMMA TypeAttempt ==
  ASSUME TypeOK, NEW i \in Drone, NEW j \in Drone, NEW row \in Row,
         \/ AbandonAttempt(i, row)
         \/ RejectCandidate(i, row, j)
         \/ Propose(i, row, j)
  PROVE  /\ swarm' \in [Drone -> Row]
         /\ pending' \in [Drone -> Pending]
         /\ requests' \subseteq Request
<1>0. swarm \in [Drone -> Row] /\ now \in Nat
  BY DEF TypeOK, Row
<1>1. row[i] \in DroneState /\ row[j] \in DroneState
  BY DEF Row
<1>2. [row EXCEPT ![i].attempt = now] \in Row
  BY <1>0, <1>1 DEF Row, DroneState
<1>3. [row EXCEPT ![i].attempt = now, ![j].interact = now] \in Row
  <2>1. [row EXCEPT ![i].attempt = now][j] \in DroneState
    BY <1>2 DEF Row
  <2>2. QED
    BY <1>0, <1>2, <2>1 DEF Row, DroneState
<1>4. CASE AbandonAttempt(i, row)
  BY <1>0, <1>2, <1>4 DEF AbandonAttempt, TypeOK
<1>5. CASE RejectCandidate(i, row, j)
  BY <1>0, <1>3, <1>5 DEF RejectCandidate, TypeOK
<1>6. CASE Propose(i, row, j)
  <2>1. PICK c \in Candidates(i, row, j) :
          Offers(i, row, j, c)
    BY <1>6 DEF Propose
  <2>2. c[1] \in SUBSET Grid /\ c[2] \in SUBSET Grid
    BY <1>1 DEF Candidates, Missed, DroneState, ActiveGrids, Row, TypeOK
  <2>3. Requested(i, row, j, c) \in Request
    BY <1>0, <1>1, <2>2, NextEpochGrows DEF Requested, Request, DroneState
  <2>4. Reserved(Requested(i, row, j, c)) \in Pending
    BY <2>3 DEF Reserved, Request, Pending
  <2>5. QED
    BY <1>0, <1>2, <2>1, <2>3, <2>4 DEF Offers, TypeOK
<1>7. QED
  BY <1>4, <1>5, <1>6

LEMMA TypeOptTimer ==
  ASSUME TypeOK, NEW i \in Drone, OptTimer(i)
  PROVE  TypeOK'
<1> DEFINE row == Reconciled(i, swarm[i], twice[i])
<1>1. row \in Row
  BY ReconciledRow DEF TypeOK, Row
<1> HIDE DEF row
<1>2. /\ twice' = [twice EXCEPT ![i] = {}]
      /\ UNCHANGED <<now, optStamps, resStamps, beacons, responses, mapVars>>
      /\ \/ swarm' = [swarm EXCEPT ![i] = row] /\ UNCHANGED <<pending, requests>>
         \/ \E j \in Drone :
              \/ AbandonAttempt(i, row)
              \/ RejectCandidate(i, row, j)
              \/ Propose(i, row, j)
  BY DEF OptTimer, row
<1>3. /\ swarm' \in [Drone -> Row]
      /\ pending' \in [Drone -> Pending]
      /\ requests' \subseteq Request
  <2>1. CASE swarm' = [swarm EXCEPT ![i] = row] /\ UNCHANGED <<pending, requests>>
    BY <1>1, <2>1 DEF TypeOK, Row
  <2>2. ASSUME NEW j \in Drone,
               \/ AbandonAttempt(i, row)
               \/ RejectCandidate(i, row, j)
               \/ Propose(i, row, j)
        PROVE  /\ swarm' \in [Drone -> Row]
               /\ pending' \in [Drone -> Pending]
               /\ requests' \subseteq Request
    BY <1>1, <2>2, TypeAttempt
  <2>3. QED
    BY <1>2, <2>1, <2>2
<1>4. QED
  BY <1>2, <1>3 DEF TypeOK, Row, mapVars

(* Recording an attempt or an interaction leaves the rest of a row alone.    *)
LEMMA WithAttempt ==
  ASSUME NEW s \in DroneState, NEW t \in Nat
  PROVE  /\ [s EXCEPT !.attempt = t] \in DroneState
         /\ [s EXCEPT !.attempt = t].ids = s.ids
         /\ [s EXCEPT !.attempt = t].assign = s.assign
         /\ [s EXCEPT !.attempt = t].stamp = s.stamp
         /\ [s EXCEPT !.attempt = t].attempt = t
BY DEF DroneState

LEMMA WithInteract ==
  ASSUME NEW s \in DroneState, NEW t \in Nat
  PROVE  /\ [s EXCEPT !.interact = t] \in DroneState
         /\ [s EXCEPT !.interact = t].ids = s.ids
         /\ [s EXCEPT !.interact = t].assign = s.assign
         /\ [s EXCEPT !.interact = t].stamp = s.stamp
         /\ [s EXCEPT !.interact = t].attempt = s.attempt
BY DEF DroneState

(* The rows both ends take over, and what they say about versions.          *)
LEMMA CommittedRowType ==
  ASSUME TypeOK, NEW j \in Drone, NEW m \in Request, m.from # j
  PROVE  /\ CommittedRow(j, m) \in Row
         /\ CommittedRow(j, m)[j].ids = m.other
         /\ CommittedRow(j, m)[j].assign = m.epoch
         /\ CommittedRow(j, m)[j].attempt = now
         /\ \A k \in Drone \ {j, m.from} : CommittedRow(j, m)[k] = swarm[j][k]
<1> DEFINE theirs == [setRouteOwnership(swarm[j][m.from], m.ego, m.epoch)
                        EXCEPT !.interact = m.stamp]
           mine == [setRouteOwnership(swarm[j][j], m.other, m.epoch)
                      EXCEPT !.attempt = now]
<1>1. /\ m.from \in Drone /\ m.stamp \in Nat /\ m.epoch \in Nat /\ now \in Nat
      /\ m.ego \in SUBSET Grid /\ m.other \in SUBSET Grid
      /\ swarm[j] \in Row
  BY DEF Request, TypeOK, Row
<1>2. swarm[j][m.from] \in DroneState /\ swarm[j][j] \in DroneState
  BY <1>1 DEF Row
<1>3. theirs \in DroneState
  BY <1>1, <1>2, setRouteOwnershipRow, WithInteract
<1>4. mine \in DroneState /\ mine.ids = m.other /\ mine.assign = m.epoch
      /\ mine.attempt = now
  BY <1>1, <1>2, setRouteOwnershipRow, WithAttempt
<1>5. CommittedRow(j, m) = [swarm[j] EXCEPT ![m.from] = theirs, ![j] = mine]
  BY DEF CommittedRow
<1> HIDE DEF theirs, mine
<1>6. QED
  BY <1>1, <1>3, <1>4, <1>5 DEF Row

LEMMA AppliedRowType ==
  ASSUME TypeOK, NEW i \in Drone, NEW j \in Drone, i # j
  PROVE  /\ AppliedRow(i, j) \in Row
         /\ AppliedRow(i, j)[i].ids = pending[i].ego
         /\ AppliedRow(i, j)[i].assign = pending[i].epoch
         /\ AppliedRow(i, j)[i].attempt = swarm[i][i].attempt
         /\ AppliedRow(i, j)[j].ids = pending[i].other
         /\ AppliedRow(i, j)[j].assign = pending[i].epoch
         /\ \A k \in Drone \ {i, j} : AppliedRow(i, j)[k] = swarm[i][k]
<1> DEFINE p == pending[i]
           mine == setRouteOwnership(swarm[i][i], p.ego, p.epoch)
           theirs == [setRouteOwnership(swarm[i][j], p.other, p.epoch)
                        EXCEPT !.interact = now]
<1>1. /\ p.epoch \in Nat /\ now \in Nat
      /\ p.ego \in SUBSET Grid /\ p.other \in SUBSET Grid
      /\ swarm[i] \in Row /\ swarm[i][i] \in DroneState /\ swarm[i][j] \in DroneState
  BY DEF Pending, TypeOK, Row
<1>2. mine \in DroneState /\ mine.ids = p.ego /\ mine.assign = p.epoch
      /\ mine.attempt = swarm[i][i].attempt
  BY <1>1, setRouteOwnershipRow
<1>3. theirs \in DroneState /\ theirs.ids = p.other /\ theirs.assign = p.epoch
  BY <1>1, setRouteOwnershipRow, WithInteract
<1>4. AppliedRow(i, j) = [swarm[i] EXCEPT ![i] = mine, ![j] = theirs]
  BY DEF AppliedRow
<1> HIDE DEF mine, theirs
<1>5. QED
  BY <1>1, <1>2, <1>3, <1>4 DEF Row

LEMMA TypeReceiveRequest ==
  ASSUME TypeOK, NEW j \in Drone, NEW m \in requests, ReceiveRequest(j, m)
  PROVE  TypeOK'
<1>1. m \in Request /\ m.from \in Drone /\ m.from # j /\ m.stamp \in Nat
  BY DEF TypeOK, Request, ReceiveRequest
<1>2. CommittedRow(j, m) \in Row
  BY <1>1, CommittedRowType
<1>3. Reply(m, 1) \in Response /\ Reply(m, 2) \in Response
  BY <1>1 DEF Reply, Response, Request
<1>4. swarm' \in [Drone -> Row] /\ twice' \in [Drone -> SUBSET Grid]
      /\ responses' \subseteq Response
  <2>1. swarm \in [Drone -> Row]
    BY DEF TypeOK, Row
  <2>2. \/ swarm' = [swarm EXCEPT ![j] = CommittedRow(j, m)]
        \/ swarm' = swarm
    BY DEF ReceiveRequest
  <2>3. twice' = [twice EXCEPT ![j] = {}] \/ twice' = twice
    BY DEF ReceiveRequest
  <2>4. responses' = responses \cup {Reply(m, 1)} \/ responses' = responses \cup {Reply(m, 2)}
    BY DEF ReceiveRequest
  <2>5. swarm' \in [Drone -> Row]
    BY <1>2, <2>1, <2>2
  <2>6. QED
    BY <1>3, <2>3, <2>4, <2>5 DEF TypeOK
<1>5. optStamps' \in [Drone -> [Drone -> Nat]]
  BY <1>1 DEF ReceiveRequest, TypeOK
<1>6. UNCHANGED <<now, pending, resStamps, beacons, requests, mapVars>>
  BY DEF ReceiveRequest
<1>7. QED
  BY <1>4, <1>5, <1>6 DEF TypeOK, Row, mapVars

LEMMA TypeReceiveResponse ==
  ASSUME TypeOK, NEW i \in Drone, NEW m \in responses, ReceiveResponse(i, m)
  PROVE  TypeOK'
<1>1. m.from \in Drone /\ m.from # i /\ m.stamp \in Nat
  BY DEF TypeOK, Response, ReceiveResponse
<1>2. Reconciled(i, AppliedRow(i, m.from), {}) \in Row
  BY <1>1, AppliedRowType, ReconciledRow DEF TypeOK
<1>3. swarm' \in [Drone -> Row] /\ twice' \in [Drone -> SUBSET Grid]
  <2>1. swarm \in [Drone -> Row]
    BY DEF TypeOK, Row
  <2>2. \/ swarm' = [swarm EXCEPT ![i] = Reconciled(i, AppliedRow(i, m.from), {})]
        \/ swarm' = swarm
    BY DEF ReceiveResponse
  <2>3. twice' = [twice EXCEPT ![i] = {}] \/ twice' = twice
    BY DEF ReceiveResponse
  <2>4. swarm' \in [Drone -> Row]
    BY <1>2, <2>1, <2>2
  <2>5. QED
    BY <2>3, <2>4 DEF TypeOK
<1>4. resStamps' \in [Drone -> [Drone -> Nat]]
  BY <1>1 DEF ReceiveResponse, TypeOK
<1>5. pending' \in [Drone -> Pending]
  <2>1. pending[i] \in Pending
    BY DEF TypeOK
  <2>2. [pending[i] EXCEPT !.waiting = @ /\ ~Awaited(i, m)] \in Pending
    <3>1. (pending[i].waiting /\ ~Awaited(i, m)) \in BOOLEAN
      BY Zenon
    <3>2. QED
      BY <2>1, <3>1 DEF Pending
  <2>3. QED
    BY <2>2 DEF ReceiveResponse, TypeOK
<1>6. UNCHANGED <<now, optStamps, beacons, requests, responses, mapVars>>
  BY DEF ReceiveResponse
<1>7. QED
  BY <1>3, <1>4, <1>5, <1>6 DEF TypeOK, Row, mapVars

LEMMA TypeNext == TypeOK /\ [Next]_vars => TypeOK'
<1> SUFFICES ASSUME TypeOK, [Next]_vars PROVE TypeOK'
  OBVIOUS
<1>1. CASE Tick
  BY <1>1 DEF Tick, TypeOK, exchangeVars, mapVars
<1>2. CASE UNCHANGED vars
  BY <1>2 DEF vars, TypeOK, exchangeVars, mapVars
<1>3. QED
  BY <1>1, <1>2, TypeUpdateRoute, TypeBroadcastState, TypeReceiveState,
     TypeOptTimer, TypeReceiveRequest, TypeReceiveResponse DEF Next

(* Every variable keeps its type, for every set of drones and grids.        *)
THEOREM TypeCorrect == Spec => []TypeOK
BY TypeInit, TypeNext, PTL DEF Spec

-----------------------------------------------------------------------------
(* Versions *)

(* The receiver tests that the new version is above its own.  The sender     *)
(* does not: it has to remember that it made it so.                          *)
PendingRises ==
  \A i \in Drone : pending[i].waiting => pending[i].epoch > pending[i].expEgo

Rises(i) ==
  /\ Own(i).assign' >= Own(i).assign
  /\ Own(i).ids' # Own(i).ids => Own(i).assign' > Own(i).assign

(* One drone replaces its rows by others with a newer own row.               *)
LEMMA NewRowsRise ==
  ASSUME TypeOK, NEW i \in Drone, NEW row \in Row,
         swarm' = [swarm EXCEPT ![i] = row],
         row[i].assign >= swarm[i][i].assign,
         row[i].ids # swarm[i][i].ids => row[i].assign > swarm[i][i].assign
  PROVE  \A k \in Drone : Rises(k)
<1>1. swarm \in [Drone -> Row]
  BY DEF TypeOK, Row
<1>2. SUFFICES ASSUME NEW k \in Drone PROVE Rises(k)
  OBVIOUS
<1>3. swarm[k][k].assign \in Nat
  BY <1>1 DEF Row, DroneState
<1>4. CASE k = i
  BY <1>1, <1>4 DEF Rises, Own
<1>5. CASE k # i
  <2>1. swarm'[k] = swarm[k]
    BY <1>1, <1>5
  <2>2. QED
    BY <1>3, <2>1 DEF Rises, Own
<1>6. QED
  BY <1>4, <1>5

LEMMA SameRowsRise ==
  ASSUME TypeOK, swarm' = swarm
  PROVE  \A k \in Drone : Rises(k)
<1>1. \A k \in Drone : swarm[k][k].assign \in Nat
  BY DEF TypeOK, DroneState
<1>2. QED
  BY <1>1 DEF Rises, Own

(* Reconciled rows of rows with a newer own row.                             *)
LEMMA ReconciledRises ==
  ASSUME TypeOK, NEW i \in Drone, NEW row \in Row, NEW copies \in SUBSET Grid,
         row[i].assign >= swarm[i][i].assign,
         row[i].ids # swarm[i][i].ids => row[i].assign > swarm[i][i].assign
  PROVE  /\ Reconciled(i, row, copies) \in Row
         /\ Reconciled(i, row, copies)[i].assign >= swarm[i][i].assign
         /\ Reconciled(i, row, copies)[i].ids # swarm[i][i].ids =>
              Reconciled(i, row, copies)[i].assign > swarm[i][i].assign
<1> DEFINE new == Reconciled(i, row, copies)
<1>1. new \in Row
  BY ReconciledRow DEF TypeOK
<1>2. new[i] = row[i] \/ new[i].assign > row[i].assign
  BY ReconciledRow DEF TypeOK
<1>3. /\ new[i].assign \in Nat /\ row[i].assign \in Nat
      /\ swarm[i][i].assign \in Nat
  <2> HIDE DEF new
  <2>1. QED
    BY <1>1 DEF Row, DroneState, TypeOK
<1> HIDE DEF new
<1>4. CASE new[i] = row[i]
  BY <1>1, <1>4 DEF new
<1>5. CASE new[i].assign > row[i].assign
  <2>1. new[i].assign > swarm[i][i].assign
    BY <1>3, <1>5
  <2>2. QED
    BY <1>1, <1>3, <2>1 DEF new
<1>6. QED
  BY <1>2, <1>4, <1>5

LEMMA UpdateRouteRises ==
  ASSUME TypeOK, NEW i \in Drone, UpdateRoute(i)
  PROVE  \A k \in Drone : Rises(k)
<1>1. PICK route \in SUBSET Grid, copies \in SUBSET Grid :
        RowStep(i, route, copies)
  BY UpdateRouteShape
<1> DEFINE own == SyncedRow(i, Own(i), route)
           row == [swarm[i] EXCEPT ![i] = own]
<1>2. /\ own \in DroneState /\ own.ids = route
      /\ own.assign >= swarm[i][i].assign
      /\ route # swarm[i][i].ids => own.assign > swarm[i][i].assign
  BY SyncedRowVersion DEF TypeOK, Own
<1>3. swarm' = [swarm EXCEPT ![i][i] = own]
  BY <1>1 DEF RowStep
<1> HIDE DEF own
<1>4. row \in Row /\ row[i] = own /\ swarm' = [swarm EXCEPT ![i] = row]
  BY <1>2, <1>3 DEF TypeOK, Row
<1> HIDE DEF row
<1>5. QED
  BY <1>2, <1>4, NewRowsRise

LEMMA BroadcastStateRises ==
  ASSUME TypeOK, NEW i \in Drone, BroadcastState(i)
  PROVE  \A k \in Drone : Rises(k)
<1> DEFINE row == Reconciled(i, swarm[i], twice[i])
           sent == [row EXCEPT ![i].stamp = now]
<1>1. swarm[i] \in Row /\ twice[i] \in SUBSET Grid /\ now \in Nat
      /\ swarm[i][i].assign \in Nat
  BY DEF TypeOK, Row, DroneState
<1>2. /\ row \in Row
      /\ row[i].assign >= swarm[i][i].assign
      /\ row[i].ids # swarm[i][i].ids => row[i].assign > swarm[i][i].assign
  BY <1>1, ReconciledRises
<1>3. swarm' = [swarm EXCEPT ![i] = [row EXCEPT ![i] = [row[i] EXCEPT !.stamp = now]]]
  BY DEF BroadcastState
<1> HIDE DEF row
<1>4. /\ [row[i] EXCEPT !.stamp = now] \in DroneState
      /\ [row[i] EXCEPT !.stamp = now].ids = row[i].ids
      /\ [row[i] EXCEPT !.stamp = now].assign = row[i].assign
  BY <1>1, <1>2 DEF Row, DroneState
<1>5. /\ sent \in Row /\ sent[i].ids = row[i].ids
      /\ sent[i].assign = row[i].assign
      /\ swarm' = [swarm EXCEPT ![i] = sent]
  BY <1>2, <1>3, <1>4 DEF Row
<1> HIDE DEF sent
<1>6. QED
  BY <1>2, <1>5, NewRowsRise

LEMMA ReceiveStateRises ==
  ASSUME TypeOK, NEW i \in Drone, NEW m \in beacons, ReceiveState(i, m)
  PROVE  \A k \in Drone : Rises(k)
<1> DEFINE heard == [swarm[i][m.from] EXCEPT
                       !.ids = m.ids, !.epochs = m.epochs, !.assign = m.assign,
                       !.stamp = m.stamp, !.attempt = m.attempt]
           row == [swarm[i] EXCEPT ![m.from] = heard]
<1>1. m \in Beacon /\ m.from \in Drone /\ m.from # i
  BY DEF TypeOK, Beacon, ReceiveState
<1>a. swarm[i][m.from] \in DroneState
  BY <1>1 DEF TypeOK
<1>2. heard \in DroneState
  BY <1>1, <1>a DEF DroneState, Beacon
<1>3. swarm' = [swarm EXCEPT ![i] = Reconciled(i, row, twice[i])]
  BY DEF ReceiveState
<1> HIDE DEF heard
<1>4. /\ row \in Row /\ row[i] = swarm[i][i] /\ twice[i] \in SUBSET Grid
      /\ swarm[i][i].assign \in Nat
  BY <1>1, <1>2 DEF TypeOK, Row, DroneState
<1> HIDE DEF row
<1>5. /\ Reconciled(i, row, twice[i]) \in Row
      /\ Reconciled(i, row, twice[i])[i].assign >= swarm[i][i].assign
      /\ Reconciled(i, row, twice[i])[i].ids # swarm[i][i].ids =>
           Reconciled(i, row, twice[i])[i].assign > swarm[i][i].assign
  BY <1>4, ReconciledRises
<1>6. QED
  BY <1>3, <1>5, NewRowsRise

(* optTimerCallback: the own row is the reconciled one, whatever becomes of  *)
(* the attempt.                                                              *)
LEMMA OptTimerRises ==
  ASSUME TypeOK, NEW i \in Drone, OptTimer(i)
  PROVE  \A k \in Drone : Rises(k)
<1> DEFINE row == Reconciled(i, swarm[i], twice[i])
           tried == [row EXCEPT ![i].attempt = now]
           turned(j) == [row EXCEPT ![i].attempt = now, ![j].interact = now]
<1>1. swarm[i] \in Row /\ twice[i] \in SUBSET Grid /\ now \in Nat
      /\ swarm[i][i].assign \in Nat
  BY DEF TypeOK, Row, DroneState
<1>2. /\ row \in Row
      /\ row[i].assign >= swarm[i][i].assign
      /\ row[i].ids # swarm[i][i].ids => row[i].assign > swarm[i][i].assign
  BY <1>1, ReconciledRises
<1>3. \/ swarm' = [swarm EXCEPT ![i] = row]
      \/ swarm' = [swarm EXCEPT ![i] = tried]
      \/ \E j \in Drone : i < j /\ swarm' = [swarm EXCEPT ![i] = turned(j)]
  <2>1. \/ swarm' = [swarm EXCEPT ![i] = row]
        \/ \E j \in Drone :
             /\ i < j
             /\ \/ AbandonAttempt(i, row)
                \/ RejectCandidate(i, row, j)
                \/ Propose(i, row, j)
    BY DEF OptTimer, Eligible
  <2> HIDE DEF row
  <2>2. ASSUME NEW j \in Drone, Propose(i, row, j)
        PROVE  swarm' = [swarm EXCEPT ![i] = tried]
    BY <2>2 DEF Propose, Offers
  <2>3. QED
    BY <2>1, <2>2 DEF AbandonAttempt, RejectCandidate
<1> HIDE DEF row
<1>4. row[i] \in DroneState
  BY <1>2 DEF Row
<1>5. /\ tried \in Row
      /\ tried[i].ids = row[i].ids /\ tried[i].assign = row[i].assign
      /\ \A j \in Drone \ {i} : tried[j] = row[j]
  BY <1>1, <1>2, <1>4, WithAttempt DEF Row
<1>6. ASSUME NEW j \in Drone, i < j
      PROVE  /\ turned(j) \in Row
             /\ turned(j)[i].ids = row[i].ids /\ turned(j)[i].assign = row[i].assign
  <2>1. i # j
    BY <1>6, DroneAssumption
  <2>2. turned(j) = [tried EXCEPT ![j] = [tried[j] EXCEPT !.interact = now]]
    OBVIOUS
  <2> HIDE DEF tried
  <2>3. [tried[j] EXCEPT !.interact = now] \in DroneState
    BY <1>1, <1>5, WithInteract DEF Row
  <2>4. QED
    BY <1>5, <2>1, <2>2, <2>3 DEF Row
<1> HIDE DEF tried, turned
<1>7. CASE swarm' = [swarm EXCEPT ![i] = row]
  BY <1>2, <1>7, NewRowsRise
<1>8. CASE swarm' = [swarm EXCEPT ![i] = tried]
  BY <1>2, <1>5, <1>8, NewRowsRise
<1>9. ASSUME NEW j \in Drone, i < j, swarm' = [swarm EXCEPT ![i] = turned(j)]
      PROVE  \A k \in Drone : Rises(k)
  BY <1>2, <1>6, <1>9, NewRowsRise
<1>10. QED
  BY <1>3, <1>7, <1>8, <1>9

(* optMsgCallback: the version of an accepted request is above the one the   *)
(* receiver holds.                                                           *)
LEMMA ReceiveRequestRises ==
  ASSUME TypeOK, NEW j \in Drone, NEW m \in requests, ReceiveRequest(j, m)
  PROVE  \A k \in Drone : Rises(k)
<1>1. m \in Request /\ m.from # j /\ m.epoch \in Nat /\ swarm[j][j].assign \in Nat
  BY DEF TypeOK, Request, ReceiveRequest, DroneState
<1>2. CASE swarm' = [swarm EXCEPT ![j] = CommittedRow(j, m)] /\ Acceptable(j, m)
  <2>1. m.epoch > swarm[j][j].assign
    BY <1>2 DEF Acceptable
  <2>2. /\ CommittedRow(j, m) \in Row
        /\ CommittedRow(j, m)[j].assign = m.epoch
    BY <1>1, CommittedRowType
  <2>3. /\ CommittedRow(j, m)[j].assign >= swarm[j][j].assign
        /\ CommittedRow(j, m)[j].ids # swarm[j][j].ids =>
             CommittedRow(j, m)[j].assign > swarm[j][j].assign
    BY <1>1, <2>1, <2>2
  <2>4. QED
    BY <1>2, <2>2, <2>3, NewRowsRise
<1>3. CASE swarm' = swarm
  BY <1>3, SameRowsRise
<1>4. QED
  BY <1>2, <1>3 DEF ReceiveRequest

(* optResMsgCallback: the sender still holds the version it planned with,    *)
(* and made the reserved one higher.                                         *)
LEMMA ReceiveResponseRises ==
  ASSUME TypeOK, PendingRises, NEW i \in Drone, NEW m \in responses,
         ReceiveResponse(i, m)
  PROVE  \A k \in Drone : Rises(k)
<1>1. m.from \in Drone /\ m.from # i
  BY DEF TypeOK, Response, ReceiveResponse
<1>2. CASE /\ swarm' = [swarm EXCEPT ![i] = Reconciled(i, AppliedRow(i, m.from), {})]
           /\ Awaited(i, m) /\ Matches(i, m)
  <2>1. /\ AppliedRow(i, m.from) \in Row
        /\ AppliedRow(i, m.from)[i].assign = pending[i].epoch
    BY <1>1, AppliedRowType
  <2>2. pending[i].epoch \in Nat /\ swarm[i][i].assign \in Nat
    BY DEF TypeOK, Pending, DroneState
  <2>3. pending[i].epoch > swarm[i][i].assign
    BY <1>2 DEF PendingRises, Awaited, Matches
  <2>4. /\ AppliedRow(i, m.from)[i].assign >= swarm[i][i].assign
        /\ AppliedRow(i, m.from)[i].ids # swarm[i][i].ids =>
             AppliedRow(i, m.from)[i].assign > swarm[i][i].assign
    BY <2>1, <2>2, <2>3
  <2>5. /\ Reconciled(i, AppliedRow(i, m.from), {}) \in Row
        /\ Reconciled(i, AppliedRow(i, m.from), {})[i].assign >= swarm[i][i].assign
        /\ Reconciled(i, AppliedRow(i, m.from), {})[i].ids # swarm[i][i].ids =>
             Reconciled(i, AppliedRow(i, m.from), {})[i].assign > swarm[i][i].assign
    BY <2>1, <2>4, ReconciledRises
  <2>6. QED
    BY <1>2, <2>5, NewRowsRise
<1>3. CASE swarm' = swarm
  BY <1>3, SameRowsRise
<1>4. QED
  BY <1>2, <1>3 DEF ReceiveResponse

LEMMA InitRises == Init => PendingRises
<1>1. ASSUME Init, NEW i \in Drone PROVE ~pending[i].waiting
  BY <1>1 DEF Init
<1>2. QED
  BY <1>1 DEF PendingRises

LEMMA PendingRisesNext ==
  ASSUME TypeOK, PendingRises, [Next]_vars
  PROVE  PendingRises'
<1>1. CASE UNCHANGED pending
  BY <1>1 DEF PendingRises
<1>2. ASSUME NEW i \in Drone, OptTimer(i), pending' # pending
      PROVE  PendingRises'
  <2> DEFINE row == Reconciled(i, swarm[i], twice[i])
  <2>1. row \in Row /\ now \in Nat
    BY ReconciledRow DEF TypeOK, Row
  <2>2. PICK j \in Drone : Propose(i, row, j)
    BY <1>2 DEF OptTimer, AbandonAttempt, RejectCandidate
  <2> HIDE DEF row
  <2>3. PICK c \in Candidates(i, row, j) : Offers(i, row, j, c)
    BY <2>2 DEF Propose
  <2>4. row[i].assign \in Nat /\ row[j].assign \in Nat
    BY <2>1 DEF Row, DroneState
  <2> DEFINE p == Reserved(Requested(i, row, j, c))
  <2>5. p.epoch > p.expEgo
    BY <2>1, <2>4, NextEpochGrows DEF Reserved, Requested
  <2>6. pending' = [pending EXCEPT ![i] = p]
    BY <2>3 DEF Offers
  <2> HIDE DEF p
  <2>7. QED
    BY <2>5, <2>6 DEF PendingRises, TypeOK
<1>3. ASSUME NEW i \in Drone, NEW m \in responses, ReceiveResponse(i, m)
      PROVE  PendingRises'
  <2>1. pending' = [pending EXCEPT ![i].waiting = @ /\ ~Awaited(i, m)]
    BY <1>3 DEF ReceiveResponse
  <2>2. pending \in [Drone -> Pending]
    BY DEF TypeOK
  <2>3. ASSUME NEW k \in Drone
        PROVE  /\ pending'[k].waiting => pending[k].waiting
               /\ pending'[k].epoch = pending[k].epoch
               /\ pending'[k].expEgo = pending[k].expEgo
    BY <2>1, <2>2, Zenon DEF Pending
  <2>4. QED
    BY <2>3 DEF PendingRises
<1>4. QED
  BY <1>1, <1>2, <1>3 DEF Next, vars, exchangeVars, Tick, UpdateRoute,
     BroadcastState, ReceiveState, ReceiveRequest

LEMMA RisesNext ==
  ASSUME TypeOK, PendingRises, [Next]_vars
  PROVE  \A k \in Drone : Rises(k)
<1>1. CASE Tick \/ UNCHANGED vars
  BY <1>1, SameRowsRise DEF Tick, vars
<1>2. QED
  BY <1>1, UpdateRouteRises, BroadcastStateRises, ReceiveStateRises,
     OptTimerRises, ReceiveRequestRises, ReceiveResponseRises DEF Next

(* Whatever the drones, the losses and the clock do, a drone's own version   *)
(* never goes back and its route never changes under an old version.  The    *)
(* compare-and-set of optMsgCallback is built on this.                       *)
THEOREM RoutesAreVersioned == Spec => RouteChangeIsVersioned
<1>1. Init => TypeOK /\ PendingRises
  BY TypeInit, InitRises
<1>2. TypeOK /\ PendingRises /\ [Next]_vars => (TypeOK /\ PendingRises)'
  BY TypeNext, PendingRisesNext
<1>3. TypeOK /\ PendingRises /\ [Next]_vars =>
        [\A i \in Drone :
           /\ Own(i).assign' >= Own(i).assign
           /\ Own(i).ids' # Own(i).ids => Own(i).assign' > Own(i).assign]_vars
  BY RisesNext DEF Rises
<1>4. QED
  BY <1>1, <1>2, <1>3, PTL DEF Spec, RouteChangeIsVersioned

-----------------------------------------------------------------------------
(* Claims *)

(* No recorded epoch, used or left over, is above the version of its row.   *)
RowBounded(s) == \A g \in Grid : s.epochs[g] <= s.assign
Bounded(row) == \A j \in Drone : RowBounded(row[j])

(* What keeps claims below versions: rows and states on their way are        *)
(* bounded, and a route that was never versioned is empty, so that a         *)
(* rediscovery never outgrows version 0.                                     *)
AllBounded ==
  /\ \A i \in Drone : Bounded(swarm[i])
  /\ \A m \in beacons : RowBounded(m)
  /\ \A i \in Drone : Own(i).assign = 0 => Own(i).ids = {}

LEMMA AllBoundedSuffices ==
  ASSUME TypeOK, AllBounded
  PROVE  ClaimsBounded
<1> SUFFICES ASSUME NEW i \in Drone, NEW j \in Drone, NEW g \in swarm[i][j].ids
             PROVE  Claim(swarm[i][j], g) <= swarm[i][j].assign
  BY DEF ClaimsBounded
<1>1. swarm[i][j] \in DroneState
  BY DEF TypeOK
<1>2. g \in Grid /\ swarm[i][j].assign \in Nat
  BY <1>1 DEF DroneState
<1>3. swarm[i][j].epochs[g] <= swarm[i][j].assign
  BY <1>2 DEF AllBounded, Bounded, RowBounded
<1>4. QED
  BY <1>2, <1>3 DEF Claim

LEMMA setRouteOwnershipBounded ==
  ASSUME NEW s \in DroneState, NEW ids \in SUBSET Grid, NEW e \in Nat
  PROVE  RowBounded(setRouteOwnership(s, ids, e))
BY DEF setRouteOwnership, RowBounded, DroneState, Absent

LEMMA ReconciledBounded ==
  ASSUME NEW i \in Drone, NEW row \in Row, NEW copies \in SUBSET Grid,
         now \in Nat, Bounded(row)
  PROVE  Bounded(Reconciled(i, row, copies))
<1> DEFINE lost == {g \in row[i].ids : Outranked(i, row, g)}
           touched == lost \cup copies
           next == nextAssignmentEpoch(i, row[i].assign, row[i].assign)
           left == [g \in Grid |->
                      IF g \in touched THEN Absent ELSE row[i].epochs[g]]
           own == [row[i] EXCEPT !.ids = row[i].ids \ lost, !.epochs = left,
                                 !.assign = next]
<1>1. Reconciled(i, row, copies) = IF touched = {} THEN row ELSE [row EXCEPT ![i] = own]
  BY DEF Reconciled
<1>2. row[i] \in DroneState /\ RowBounded(row[i])
  BY DEF Row, Bounded
<1>3. next \in Nat /\ next > row[i].assign /\ row[i].assign \in Nat
  BY <1>2, NextEpochGrows DEF DroneState
<1> HIDE DEF lost, next
<1>4. \A g \in Grid : left[g] <= next
  <2> TAKE g \in Grid
  <2>1. row[i].epochs[g] \in Nat /\ row[i].epochs[g] <= row[i].assign
    BY <1>2 DEF DroneState, RowBounded
  <2>2. QED
    BY <1>3, <2>1 DEF Absent
<1> HIDE DEF left
<1>5. own.epochs = left /\ own.assign = next
  BY <1>2 DEF DroneState
<1> HIDE DEF own
<1>6. RowBounded(own)
  BY <1>4, <1>5 DEF RowBounded
<1>7. QED
  BY <1>1, <1>6 DEF Row, Bounded

LEMMA SyncedRowBounded ==
  ASSUME NEW i \in Drone, NEW s \in DroneState, NEW ids \in SUBSET Grid,
         now \in Nat, RowBounded(s), s.assign = 0 => s.ids = {}
  PROVE  RowBounded(SyncedRow(i, s, ids))
<1> DEFINE heir(g) == {c \in ParentOf(g) : c \in s.ids \ ids /\ s.epochs[c] # Absent}
           new == SyncedRow(i, s, ids)
<1>1. s.epochs \in [Grid -> Nat] /\ s.assign \in Nat
  BY DEF DroneState
<1>2. new.assign >= s.assign /\ (ids # s.ids => new.assign > s.assign)
      /\ new.assign \in Nat
  BY SyncedRowVersion DEF DroneState
<1>3. new.epochs = SyncedEpochs(s, ids)
  BY DEF SyncedRow, DroneState
<1> HIDE DEF new
<1>4. SUFFICES ASSUME NEW g \in Grid
               PROVE  SyncedEpochs(s, ids)[g] <= new.assign
  BY <1>3 DEF RowBounded, new
<1>5. s.epochs[g] <= new.assign
  BY <1>1, <1>2 DEF RowBounded
<1>6. ASSUME heir(g) # {}
      PROVE  s.epochs[CHOOSE c \in heir(g) : TRUE] <= new.assign
  <2>1. (CHOOSE c \in heir(g) : TRUE) \in heir(g)
    BY <1>6
  <2>2. heir(g) \subseteq Grid
    BY DEF ParentOf, Grid
  <2>3. PICK c \in Grid : c = CHOOSE d \in heir(g) : TRUE
    BY <2>1, <2>2
  <2>4. s.epochs[c] <= new.assign
    BY <1>1, <1>2 DEF RowBounded
  <2>5. QED
    BY <2>3, <2>4
<1>7. g \in ids => RediscoveryEpoch <= new.assign
  BY <1>1, <1>2 DEF RediscoveryEpoch
<1>8. QED
  BY <1>2, <1>5, <1>6, <1>7 DEF SyncedEpochs, Absent

(* One drone replaces its rows by bounded ones.                              *)
LEMMA NewRowsBounded ==
  ASSUME TypeOK, AllBounded, NEW i \in Drone, NEW row \in Row,
         swarm' = [swarm EXCEPT ![i] = row], Bounded(row),
         \A m \in beacons' : RowBounded(m),
         \A k \in Drone : Rises(k)
  PROVE  AllBounded'
<1>1. swarm \in [Drone -> Row] /\ swarm' \in [Drone -> Row]
  BY DEF TypeOK, Row
<1>2. \A k \in Drone : Bounded(swarm'[k])
  BY <1>1 DEF AllBounded
<1>3. ASSUME NEW k \in Drone, Own(k)'.assign = 0 PROVE Own(k)'.ids = {}
  <2>1. Own(k).assign \in Nat
    BY <1>1 DEF Own, Row, DroneState
  <2>2. Own(k).assign = 0 /\ Own(k)'.ids = Own(k).ids
    BY <1>3, <2>1 DEF Rises
  <2>3. QED
    BY <2>2 DEF AllBounded
<1>4. QED
  BY <1>2, <1>3 DEF AllBounded

LEMMA SameRowsBounded ==
  ASSUME AllBounded, UNCHANGED <<swarm, beacons>>
  PROVE  AllBounded'
BY DEF AllBounded, Own

(* Fields that RowBounded does not look at.                                  *)
LEMMA WithTimesBounded ==
  ASSUME NEW s \in DroneState, NEW t \in Nat, RowBounded(s)
  PROVE  /\ RowBounded([s EXCEPT !.attempt = t])
         /\ RowBounded([s EXCEPT !.interact = t])
         /\ RowBounded([s EXCEPT !.stamp = t])
BY DEF RowBounded, DroneState

LEMMA UpdateRouteBounded ==
  ASSUME TypeOK, AllBounded, NEW i \in Drone, UpdateRoute(i)
  PROVE  AllBounded'
<1>1. PICK route \in SUBSET Grid, copies \in SUBSET Grid :
        RowStep(i, route, copies)
  BY UpdateRouteShape
<1> DEFINE own == SyncedRow(i, Own(i), route)
           row == [swarm[i] EXCEPT ![i] = own]
<1>2. Own(i) \in DroneState /\ RowBounded(Own(i)) /\ now \in Nat
      /\ (Own(i).assign = 0 => Own(i).ids = {})
  BY DEF TypeOK, Own, AllBounded, Bounded
<1>3. own \in DroneState /\ RowBounded(own)
  BY <1>2, SyncedRowVersion, SyncedRowBounded
<1>4. swarm' = [swarm EXCEPT ![i][i] = own]
  BY <1>1 DEF RowStep
<1> HIDE DEF own
<1>5. row \in Row /\ swarm' = [swarm EXCEPT ![i] = row]
  BY <1>3, <1>4 DEF TypeOK, Row
<1>6. Bounded(row)
  BY <1>3 DEF AllBounded, Bounded, TypeOK
<1>7. \A m \in beacons' : RowBounded(m)
  BY DEF UpdateRoute, AllBounded
<1> HIDE DEF row
<1>8. QED
  BY <1>5, <1>6, <1>7, UpdateRouteRises, NewRowsBounded

LEMMA BroadcastStateBounded ==
  ASSUME TypeOK, AllBounded, NEW i \in Drone, BroadcastState(i)
  PROVE  AllBounded'
<1> DEFINE row == Reconciled(i, swarm[i], twice[i])
           own == [row[i] EXCEPT !.stamp = now]
           sent == [row EXCEPT ![i] = own]
<1>1. swarm[i] \in Row /\ twice[i] \in SUBSET Grid /\ now \in Nat /\ Bounded(swarm[i])
  BY DEF TypeOK, Row, AllBounded
<1>2. row \in Row /\ Bounded(row)
  BY <1>1, ReconciledRow, ReconciledBounded
<1>3. /\ swarm' = [swarm EXCEPT ![i] = sent]
      /\ beacons' \subseteq beacons \cup {Snapshot(i, own)}
  BY DEF BroadcastState
<1> HIDE DEF row
<1>4. row[i] \in DroneState /\ RowBounded(row[i])
  BY <1>2 DEF Row, Bounded
<1>5. own \in DroneState /\ RowBounded(own)
  BY <1>1, <1>4, WithTimesBounded DEF DroneState
<1> HIDE DEF own
<1>6. sent \in Row /\ Bounded(sent)
  BY <1>2, <1>5 DEF Row, Bounded
<1>7. RowBounded(Snapshot(i, own))
  <2>1. ASSUME NEW g \in Grid
        PROVE  (IF g \in own.ids THEN Claim(own, g) ELSE Absent) <= own.assign
    <3>1. own.epochs[g] <= own.assign /\ own.assign \in Nat
      BY <1>5 DEF RowBounded, DroneState
    <3>2. QED
      BY <3>1 DEF Claim, Absent
  <2>2. QED
    BY <2>1 DEF Snapshot, RowBounded
<1>8. \A m \in beacons' : RowBounded(m)
  BY <1>3, <1>7 DEF AllBounded
<1> HIDE DEF sent
<1>9. QED
  BY <1>3, <1>6, <1>8, BroadcastStateRises, NewRowsBounded

LEMMA ReceiveStateBounded ==
  ASSUME TypeOK, AllBounded, NEW i \in Drone, NEW m \in beacons, ReceiveState(i, m)
  PROVE  AllBounded'
<1> DEFINE heard == [swarm[i][m.from] EXCEPT
                       !.ids = m.ids, !.epochs = m.epochs, !.assign = m.assign,
                       !.stamp = m.stamp, !.attempt = m.attempt]
           row == [swarm[i] EXCEPT ![m.from] = heard]
           new == Reconciled(i, row, twice[i])
<1>1. m \in Beacon /\ m.from \in Drone /\ RowBounded(m)
  BY DEF TypeOK, Beacon, AllBounded
<1>a. swarm[i][m.from] \in DroneState
  BY <1>1 DEF TypeOK
<1>2. heard \in DroneState /\ heard.epochs = m.epochs /\ heard.assign = m.assign
  BY <1>1, <1>a DEF DroneState, Beacon
<1>3. swarm' = [swarm EXCEPT ![i] = new] /\ beacons' = beacons
  BY DEF ReceiveState
<1> HIDE DEF heard
<1>4. RowBounded(heard)
  BY <1>1, <1>2 DEF RowBounded
<1>5. row \in Row /\ Bounded(row) /\ twice[i] \in SUBSET Grid /\ now \in Nat
  BY <1>1, <1>2, <1>4 DEF TypeOK, Row, AllBounded, Bounded
<1> HIDE DEF row
<1>6. new \in Row /\ Bounded(new)
  BY <1>5, ReconciledRow, ReconciledBounded
<1>7. \A n \in beacons' : RowBounded(n)
  BY <1>3 DEF AllBounded
<1> HIDE DEF new
<1>8. QED
  BY <1>3, <1>6, <1>7, ReceiveStateRises, NewRowsBounded

(* The rows an attempt leaves behind are bounded like those it found.        *)
LEMMA OptTimerBounded ==
  ASSUME TypeOK, AllBounded, NEW i \in Drone, OptTimer(i)
  PROVE  AllBounded'
<1> DEFINE row == Reconciled(i, swarm[i], twice[i])
           tried == [row EXCEPT ![i].attempt = now]
           turned(j) == [row EXCEPT ![i].attempt = now, ![j].interact = now]
<1>1. swarm[i] \in Row /\ twice[i] \in SUBSET Grid /\ now \in Nat /\ Bounded(swarm[i])
  BY DEF TypeOK, Row, AllBounded
<1>2. row \in Row /\ Bounded(row)
  BY <1>1, ReconciledRow, ReconciledBounded
<1>3. \/ swarm' = [swarm EXCEPT ![i] = row]
      \/ swarm' = [swarm EXCEPT ![i] = tried]
      \/ \E j \in Drone : swarm' = [swarm EXCEPT ![i] = turned(j)]
  <2>1. \/ swarm' = [swarm EXCEPT ![i] = row]
        \/ \E j \in Drone :
             \/ AbandonAttempt(i, row)
             \/ RejectCandidate(i, row, j)
             \/ Propose(i, row, j)
    BY DEF OptTimer
  <2> HIDE DEF row
  <2>2. ASSUME NEW j \in Drone, Propose(i, row, j)
        PROVE  swarm' = [swarm EXCEPT ![i] = tried]
    BY <2>2 DEF Propose, Offers
  <2>3. QED
    BY <2>1, <2>2 DEF AbandonAttempt, RejectCandidate
<1> HIDE DEF row
<1>4. row[i] \in DroneState /\ RowBounded(row[i])
  BY <1>2 DEF Row, Bounded
<1>a. [row[i] EXCEPT !.attempt = now] \in DroneState
      /\ RowBounded([row[i] EXCEPT !.attempt = now])
  BY <1>1, <1>4, WithAttempt, WithTimesBounded
<1>5. tried \in Row /\ Bounded(tried)
  BY <1>2, <1>a DEF Row, Bounded
<1>6. ASSUME NEW j \in Drone PROVE turned(j) \in Row /\ Bounded(turned(j))
  <2>1. turned(j) = [tried EXCEPT ![j] = [tried[j] EXCEPT !.interact = now]]
    OBVIOUS
  <2> HIDE DEF tried
  <2>2. tried[j] \in DroneState /\ RowBounded(tried[j])
    BY <1>5 DEF Row, Bounded
  <2>3. [tried[j] EXCEPT !.interact = now] \in DroneState
        /\ RowBounded([tried[j] EXCEPT !.interact = now])
    BY <1>1, <2>2, WithInteract, WithTimesBounded
  <2>4. QED
    BY <1>5, <2>1, <2>3 DEF Row, Bounded
<1> HIDE DEF tried, turned
<1>7. \A m \in beacons' : RowBounded(m)
  BY DEF OptTimer, AllBounded
<1>8. CASE swarm' = [swarm EXCEPT ![i] = row]
  BY <1>2, <1>7, <1>8, OptTimerRises, NewRowsBounded
<1>9. CASE swarm' = [swarm EXCEPT ![i] = tried]
  BY <1>5, <1>7, <1>9, OptTimerRises, NewRowsBounded
<1>10. ASSUME NEW j \in Drone, swarm' = [swarm EXCEPT ![i] = turned(j)]
       PROVE  AllBounded'
  BY <1>6, <1>7, <1>10, OptTimerRises, NewRowsBounded
<1>11. QED
  BY <1>3, <1>8, <1>9, <1>10

LEMMA ReceiveRequestBounded ==
  ASSUME TypeOK, AllBounded, NEW j \in Drone, NEW m \in requests,
         ReceiveRequest(j, m)
  PROVE  AllBounded'
<1>1. m \in Request /\ m.from \in Drone /\ m.from # j
      /\ m.epoch \in Nat /\ m.stamp \in Nat /\ now \in Nat
      /\ m.ego \in SUBSET Grid /\ m.other \in SUBSET Grid
  BY DEF TypeOK, Request, ReceiveRequest
<1>2. beacons' = beacons
  BY DEF ReceiveRequest
<1>3. CASE swarm' = [swarm EXCEPT ![j] = CommittedRow(j, m)]
  <2> DEFINE theirs == [setRouteOwnership(swarm[j][m.from], m.ego, m.epoch)
                          EXCEPT !.interact = m.stamp]
             mine == [setRouteOwnership(swarm[j][j], m.other, m.epoch)
                        EXCEPT !.attempt = now]
  <2>1. swarm[j][m.from] \in DroneState /\ swarm[j][j] \in DroneState
        /\ swarm[j] \in Row /\ Bounded(swarm[j])
    BY <1>1 DEF TypeOK, Row, AllBounded
  <2>2. /\ setRouteOwnership(swarm[j][m.from], m.ego, m.epoch) \in DroneState
        /\ RowBounded(setRouteOwnership(swarm[j][m.from], m.ego, m.epoch))
        /\ setRouteOwnership(swarm[j][j], m.other, m.epoch) \in DroneState
        /\ RowBounded(setRouteOwnership(swarm[j][j], m.other, m.epoch))
    BY <1>1, <2>1, setRouteOwnershipRow, setRouteOwnershipBounded
  <2>3. RowBounded(theirs) /\ RowBounded(mine)
    BY <1>1, <2>2, WithTimesBounded
  <2>4. CommittedRow(j, m) = [swarm[j] EXCEPT ![m.from] = theirs, ![j] = mine]
    BY DEF CommittedRow
  <2> HIDE DEF theirs, mine
  <2>5. Bounded(CommittedRow(j, m))
    BY <1>1, <2>1, <2>3, <2>4 DEF Row, Bounded
  <2>6. CommittedRow(j, m) \in Row
    BY <1>1, CommittedRowType
  <2>7. \A n \in beacons' : RowBounded(n)
    BY <1>2 DEF AllBounded
  <2>8. QED
    BY <1>3, <2>5, <2>6, <2>7, ReceiveRequestRises, NewRowsBounded
<1>4. CASE swarm' = swarm
  BY <1>2, <1>4, SameRowsBounded
<1>5. QED
  BY <1>3, <1>4 DEF ReceiveRequest

LEMMA ReceiveResponseBounded ==
  ASSUME TypeOK, PendingRises, AllBounded, NEW i \in Drone, NEW m \in responses,
         ReceiveResponse(i, m)
  PROVE  AllBounded'
<1>1. m.from \in Drone /\ m.from # i
  BY DEF TypeOK, Response, ReceiveResponse
<1>2. beacons' = beacons
  BY DEF ReceiveResponse
<1>3. CASE swarm' = [swarm EXCEPT ![i] = Reconciled(i, AppliedRow(i, m.from), {})]
  <2> DEFINE j == m.from
             p == pending[i]
             mine == setRouteOwnership(swarm[i][i], p.ego, p.epoch)
             theirs == [setRouteOwnership(swarm[i][j], p.other, p.epoch)
                          EXCEPT !.interact = now]
             new == Reconciled(i, AppliedRow(i, j), {})
  <2>1. /\ swarm[i][i] \in DroneState /\ swarm[i][j] \in DroneState
        /\ swarm[i] \in Row /\ Bounded(swarm[i]) /\ now \in Nat
        /\ p.epoch \in Nat /\ p.ego \in SUBSET Grid /\ p.other \in SUBSET Grid
    BY <1>1 DEF TypeOK, Row, AllBounded, Pending
  <2>2. /\ RowBounded(mine)
        /\ setRouteOwnership(swarm[i][j], p.other, p.epoch) \in DroneState
        /\ RowBounded(setRouteOwnership(swarm[i][j], p.other, p.epoch))
    BY <2>1, setRouteOwnershipRow, setRouteOwnershipBounded
  <2>3. RowBounded(theirs)
    BY <2>1, <2>2, WithTimesBounded
  <2>4. AppliedRow(i, j) = [swarm[i] EXCEPT ![i] = mine, ![j] = theirs]
    BY DEF AppliedRow
  <2> HIDE DEF mine, theirs
  <2>5. Bounded(AppliedRow(i, j))
    BY <1>1, <2>1, <2>2, <2>3, <2>4 DEF Row, Bounded
  <2>6. AppliedRow(i, j) \in Row
    BY <1>1, AppliedRowType
  <2>7. new \in Row /\ Bounded(new)
    BY <2>1, <2>5, <2>6, ReconciledRow, ReconciledBounded
  <2>8. \A n \in beacons' : RowBounded(n)
    BY <1>2 DEF AllBounded
  <2> HIDE DEF new
  <2>9. QED
    BY <1>3, <2>7, <2>8, ReceiveResponseRises, NewRowsBounded DEF new
<1>4. CASE swarm' = swarm
  BY <1>2, <1>4, SameRowsBounded
<1>5. QED
  BY <1>3, <1>4 DEF ReceiveResponse

LEMMA BoundedInit == Init => AllBounded
<1> SUFFICES ASSUME Init PROVE AllBounded
  OBVIOUS
<1> DEFINE first == [g \in Grid |-> IF g \in Coarse THEN RediscoveryEpoch ELSE Absent]
           mine == [InitialState EXCEPT !.ids = Coarse,
                      !.assign = 16 * StartTime + 1, !.epochs = first]
<1>1. RowBounded(InitialState) /\ InitialState.ids = {}
  BY DEF InitialState, RowBounded, Absent
<1>2. mine.epochs = first /\ mine.assign = 16 * StartTime + 1
  BY DEF InitialState
<1>3. \A g \in Grid : first[g] <= 16 * StartTime + 1
  BY TimeAssumption DEF RediscoveryEpoch, Absent
<1>4. mine.assign # 0
  BY <1>2, TimeAssumption
<1> HIDE DEF first
<1>5. RowBounded(mine)
  BY <1>2, <1>3 DEF RowBounded
<1>6. \A i, j \in Drone : swarm[i][j] = IF i = 1 /\ j = 1 THEN mine ELSE InitialState
  BY DEF Init, first
<1> HIDE DEF mine
<1>7. QED
  BY <1>1, <1>4, <1>5, <1>6 DEF AllBounded, Bounded, Own, Init

LEMMA BoundedNext ==
  ASSUME TypeOK, PendingRises, AllBounded, [Next]_vars
  PROVE  AllBounded'
<1>1. CASE Tick \/ UNCHANGED vars
  BY <1>1, SameRowsBounded DEF Tick, vars
<1>2. QED
  BY <1>1, UpdateRouteBounded, BroadcastStateBounded, ReceiveStateBounded,
     OptTimerBounded, ReceiveRequestBounded, ReceiveResponseBounded DEF Next

(* No claim is ever stronger than the version of the row it is recorded in:  *)
(* the epoch of a new exchange, above both versions, beats every claim of    *)
(* the routes it replaces, in every row and in every message.                *)
THEOREM ClaimsAlwaysBounded == Spec => []ClaimsBounded
<1>1. Init => TypeOK /\ PendingRises /\ AllBounded
  BY InitRises, TypeInit, BoundedInit
<1>2. TypeOK /\ PendingRises /\ AllBounded /\ [Next]_vars
        => (TypeOK /\ PendingRises /\ AllBounded)'
  BY TypeNext, PendingRisesNext, BoundedNext
<1>3. TypeOK /\ AllBounded => ClaimsBounded
  BY AllBoundedSuffices
<1>4. QED
  BY <1>1, <1>2, <1>3, PTL DEF Spec

-----------------------------------------------------------------------------
(* The slots of the released configuration: the theorems of SenderSlots for  *)
(* its numbers.                                                              *)

LEMMA ReleasedParameters ==
  Slots!SlotParameters /\ Slots!OffersArrive /\ Slots!SlotHoldsAnEvent
<1>1. Slots!SlotParameters
  BY DEF Slots!SlotParameters
<1>2. Slots!SlotWidth = 6
  <2>1. 12 \div 2 = 6
    OBVIOUS
  <2> QED
    BY <2>1 DEF Slots!SlotWidth
<1>3. Slots!OffersArrive
  BY <1>2 DEF Slots!OffersArrive
<1>4. Slots!SlotHoldsAnEvent
  BY <1>2 DEF Slots!SlotHoldsAnEvent
<1> QED
  BY <1>1, <1>3, <1>4

(* Two robots of a team of five never offer at the same time.                *)
THEOREM ReleasedSlotsAreApart == Spec => []OneSenderAtATime
<1>1. OneSenderAtATime
  BY ReleasedParameters, Slots!SlotsAreApart DEF OneSenderAtATime, SlotsApart
<1> QED
  BY <1>1, PTL

(* An offer accepted within 300 ms keeps nobody away in the next cycle.      *)
THEOREM ReleasedCycleIsFree == Spec => []EligibleAgain
<1>1. EligibleAgain
  BY ReleasedParameters, Slots!NextCycleIsFree DEF EligibleAgain, FreeNextCycle
<1> QED
  BY <1>1, PTL

(* The timer of 50 ms on a clock of 20 ms meets every slot of 60 ms.         *)
THEOREM ReleasedSlotsAreMet == Spec => []EverySlotIsMet
<1>1. EverySlotIsMet
  BY ReleasedParameters, Slots!NoSlotIsMissed DEF EverySlotIsMet, SlotsMet
<1> QED
  BY <1>1, PTL
=============================================================================
