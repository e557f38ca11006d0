------------------------ MODULE PairTransferProofs ------------------------
(***************************************************************************)
(* The pair optimization of GridOwnership, for any robots, grids and       *)
(* bounds: a version names one route, an exchange gives up no grid its     *)
(* lists do not account for, and the callbacks implement PairExchange.     *)
(*                                                                         *)
(* The argument: a request is made for two versions, and covers the routes *)
(* they name at the time.  Versions only grow and a route never changes    *)
(* under an old version (GridOwnershipProofs), so a request that is still  *)
(* acceptable still covers both routes.  A response can be traced to its   *)
(* request because a robot never makes two attempts at one clock value.    *)
(***************************************************************************)
EXTENDS GridOwnershipProofs, OwnershipLosses

-----------------------------------------------------------------------------
(* The invariant *)

(* Request r accounts for the route that version v of drone d names.        *)
CoversEnd(r, d, v) ==
  /\ v <= Own(d).assign
  /\ Own(d).assign = v => Own(d).ids \subseteq r.ego \cup r.other

RequestsCover ==
  \A r \in requests :
    /\ r.from < r.to
    /\ r.epoch > r.expEgo /\ r.epoch > r.expOther
    /\ CoversEnd(r, r.from, r.expEgo) /\ CoversEnd(r, r.to, r.expOther)

(* The receiver of r took its half, and may have gone on since.             *)
Committed(r) ==
  /\ r.epoch <= Own(r.to).assign
  /\ r.epoch = Own(r.to).assign => Own(r.to).ids = r.other

AcceptedCommitted ==
  \A r \in requests : Reply(r, 1) \in responses => Committed(r)

(* Attempts lie in the past, and every request was an attempt.              *)
AttemptsPast ==
  /\ \A i \in Drone : Own(i).attempt <= now
  /\ \A r \in requests : r.stamp <= Own(r.from).attempt

UniqueStamps ==
  \A r, q \in requests : r.from = q.from /\ r.stamp = q.stamp => r = q

Answers == \A m \in responses : \E r \in requests : m = Reply(r, m.status)

PendingRequested ==
  \A i \in Drone : pending[i].waiting =>
    \E r \in requests : r.from = i /\ pending[i] = Reserved(r)

ExchangeInv ==
  /\ RequestsCover /\ AcceptedCommitted /\ AttemptsPast
  /\ UniqueStamps /\ Answers /\ PendingRequested

-----------------------------------------------------------------------------
(* What growing versions keep *)

LEMMA NamesStays ==
  ASSUME TypeOK, TypeOK', NEW j \in Drone, Rises(j), NEW a \in Nat, NEW s,
         a <= Own(j).assign, a = Own(j).assign => Own(j).ids = s
  PROVE  /\ a <= Own(j)'.assign
         /\ a = Own(j)'.assign => Own(j)'.ids = s
<1>1. Own(j).assign \in Nat /\ Own(j)'.assign \in Nat
  BY DEF TypeOK, Own, DroneState
<1>2. /\ Own(j)'.assign >= Own(j).assign
      /\ Own(j)'.ids # Own(j).ids => Own(j)'.assign > Own(j).assign
  BY DEF Rises
<1>3. QED
  BY <1>1, <1>2

LEMMA CoversStays ==
  ASSUME TypeOK, TypeOK', NEW j \in Drone, Rises(j), NEW r, NEW v \in Nat,
         CoversEnd(r, j, v)
  PROVE  CoversEnd(r, j, v)'
<1>1. Own(j).assign \in Nat /\ Own(j)'.assign \in Nat
  BY DEF TypeOK, Own, DroneState
<1>2. /\ Own(j)'.assign >= Own(j).assign
      /\ Own(j)'.ids # Own(j).ids => Own(j)'.assign > Own(j).assign
  BY DEF Rises
<1>3. QED
  BY <1>1, <1>2 DEF CoversEnd

LEMMA RequestStays ==
  ASSUME TypeOK, TypeOK', \A k \in Drone : Rises(k), NEW r \in requests,
         RequestsCover
  PROVE  /\ r.from < r.to
         /\ r.epoch > r.expEgo /\ r.epoch > r.expOther
         /\ CoversEnd(r, r.from, r.expEgo)' /\ CoversEnd(r, r.to, r.expOther)'
         /\ Committed(r) => Committed(r)'
<1>1. r.from \in Drone /\ r.to \in Drone /\ r.expEgo \in Nat /\ r.expOther \in Nat
      /\ r.epoch \in Nat
  BY DEF TypeOK, Request
<1>2. r.from < r.to /\ r.epoch > r.expEgo /\ r.epoch > r.expOther
      /\ CoversEnd(r, r.from, r.expEgo) /\ CoversEnd(r, r.to, r.expOther)
  BY DEF RequestsCover
<1>3. CoversEnd(r, r.from, r.expEgo)' /\ CoversEnd(r, r.to, r.expOther)'
  BY <1>1, <1>2, CoversStays
<1>4. Committed(r) => Committed(r)'
  BY <1>1, NamesStays DEF Committed
<1>5. QED
  BY <1>2, <1>3, <1>4

(* A drone's last attempt moves forward, and not beyond the clock.          *)
AttemptsRise ==
  /\ now' >= now
  /\ \A k \in Drone : Own(k).attempt' >= Own(k).attempt /\ Own(k).attempt' <= now'

(* A callback without exchange messages keeps the invariant.                *)
LEMMA QuietKeepsExchange ==
  ASSUME TypeOK, TypeOK', ExchangeInv, \A k \in Drone : Rises(k), AttemptsRise,
         UNCHANGED <<requests, responses, pending>>
  PROVE  ExchangeInv'
<1>1. RequestsCover'
  BY RequestStays DEF ExchangeInv, RequestsCover
<1>2. AcceptedCommitted'
  BY RequestStays DEF ExchangeInv, AcceptedCommitted, Reply
<1>3. AttemptsPast'
  <2>1. ASSUME NEW r \in requests PROVE r.stamp <= Own(r.from)'.attempt
    <3>1. r.from \in Drone /\ r.stamp \in Nat
      BY DEF TypeOK, Request
    <3>2. Own(r.from).attempt \in Nat /\ Own(r.from)'.attempt \in Nat
      BY <3>1 DEF TypeOK, Own, DroneState
    <3>3. r.stamp <= Own(r.from).attempt
      BY DEF ExchangeInv, AttemptsPast
    <3>4. Own(r.from)'.attempt >= Own(r.from).attempt
      BY <3>1 DEF AttemptsRise
    <3>5. QED
      BY <3>1, <3>2, <3>3, <3>4
  <2>2. QED
    BY <2>1 DEF AttemptsPast, AttemptsRise
<1>4. UniqueStamps' /\ Answers' /\ PendingRequested'
  BY DEF ExchangeInv, UniqueStamps, Answers, PendingRequested, Reply, Reserved
<1>5. QED
  BY <1>1, <1>2, <1>3, <1>4 DEF ExchangeInv

-----------------------------------------------------------------------------
(* What the callbacks do to the rows *)

(* The callbacks of drone i replace its rows.                               *)
Replaces(i, row) ==
  /\ row \in Row
  /\ swarm' = [swarm EXCEPT ![i] = row]
  /\ row[i].attempt \in {swarm[i][i].attempt, now}

(* The rows of the others in row say what swarm[i] says about routes.       *)
PeersKept(i, row) ==
  \A j \in Drone \ {i} :
    row[j].ids = swarm[i][j].ids /\ row[j].assign = swarm[i][j].assign

LEMMA ReplacesAttempts ==
  ASSUME TypeOK, AttemptsPast, NEW i \in Drone, NEW row, Replaces(i, row), now' = now
  PROVE  AttemptsRise
<1>1. swarm \in [Drone -> Row] /\ now \in Nat
  BY DEF TypeOK, Row
<1>2. ASSUME NEW k \in Drone
      PROVE  Own(k).attempt' >= Own(k).attempt /\ Own(k).attempt' <= now
  <2>1. Own(k).attempt \in Nat /\ Own(k).attempt <= now
    BY <1>1 DEF AttemptsPast, Own, Row, DroneState
  <2>2. Own(k)'.attempt \in {Own(k).attempt, now}
    BY <1>1 DEF Replaces, Own
  <2>3. QED
    BY <1>1, <2>1, <2>2
<1>3. QED
  BY <1>1, <1>2 DEF AttemptsRise

LEMMA SameAttempts ==
  ASSUME TypeOK, AttemptsPast, swarm' = swarm, now' \in Nat, now' >= now
  PROVE  AttemptsRise
<1>1. ASSUME NEW k \in Drone PROVE Own(k).attempt \in Nat /\ Own(k).attempt <= now
  BY DEF TypeOK, Own, DroneState, AttemptsPast
<1>2. now \in Nat
  BY DEF TypeOK
<1>3. \A k \in Drone : Own(k)' = Own(k)
  BY DEF Own
<1>4. QED
  BY <1>1, <1>2, <1>3 DEF AttemptsRise

(* A version names a route after drone i replaced its rows, if it does in    *)
(* the rows it has of higher drones and in the states it sent.               *)
LEMMA RowsName ==
  ASSUME TypeOK, TypeOK', VersionNamesRoute, NEW i \in Drone, NEW row,
         Replaces(i, row), \A k \in Drone : Rises(k),
         \A j \in Drone : i < j => NamesRoute(j, row[j]),
         \A m \in beacons' : m \in beacons
            \/ (m.from = i /\ m.ids = row[i].ids /\ m.assign = row[i].assign)
  PROVE  VersionNamesRoute'
<1>1. swarm \in [Drone -> Row] /\ swarm' \in [Drone -> Row] /\ row \in Row
  BY DEF TypeOK, Row, Replaces
<1>2. ASSUME NEW k \in Drone, NEW j \in Drone, k < j
      PROVE  NamesRoute(j, swarm[k][j])'
  <2> DEFINE s == swarm'[k][j]
  <2>1. s \in DroneState /\ s.assign \in Nat
    BY <1>1 DEF Row, DroneState
  <2>2. s = IF k = i THEN row[j] ELSE swarm[k][j]
    BY <1>1 DEF Replaces
  <2>3. NamesRoute(j, s)
    BY <1>2, <2>2 DEF VersionNamesRoute
  <2> HIDE DEF s
  <2>4. s.assign <= Own(j).assign /\ (s.assign = Own(j).assign => Own(j).ids = s.ids)
    BY <2>3 DEF NamesRoute
  <2>5. s.assign <= Own(j)'.assign /\ (s.assign = Own(j)'.assign => Own(j)'.ids = s.ids)
    BY <2>1, <2>4, NamesStays
  <2>6. QED
    BY <2>5 DEF NamesRoute, s
<1>3. ASSUME NEW m \in beacons' PROVE NamesRoute(m.from, m)'
  <2>1. m.assign \in Nat /\ m.from \in Drone
    BY DEF TypeOK, Beacon
  <2>2. CASE m \in beacons
    <3>1. m.assign <= Own(m.from).assign
          /\ (m.assign = Own(m.from).assign => Own(m.from).ids = m.ids)
      BY <2>2 DEF VersionNamesRoute, NamesRoute
    <3>2. m.assign <= Own(m.from)'.assign
          /\ (m.assign = Own(m.from)'.assign => Own(m.from)'.ids = m.ids)
      BY <2>1, <3>1, NamesStays
    <3>3. QED
      BY <3>2 DEF NamesRoute
  <2>3. CASE m.from = i /\ m.ids = row[i].ids /\ m.assign = row[i].assign
    <3>1. Own(i)' = row[i]
      BY <1>1 DEF Replaces, Own
    <3>2. QED
      BY <2>1, <2>3, <3>1 DEF NamesRoute
  <2>4. QED
    BY <2>2, <2>3
<1>4. QED
  BY <1>2, <1>3 DEF VersionNamesRoute

LEMMA SameRowsName ==
  ASSUME VersionNamesRoute, UNCHANGED <<swarm, beacons>>
  PROVE  VersionNamesRoute'
BY DEF VersionNamesRoute, NamesRoute, Own

LEMMA KeptPeersName ==
  ASSUME VersionNamesRoute, NEW i \in Drone, NEW row, PeersKept(i, row)
  PROVE  \A j \in Drone : i < j => NamesRoute(j, row[j])
<1> SUFFICES ASSUME NEW j \in Drone, i < j PROVE NamesRoute(j, row[j])
  OBVIOUS
<1>1. j # i
  BY DroneAssumption
<1>2. NamesRoute(j, swarm[i][j])
  BY DEF VersionNamesRoute
<1>3. QED
  BY <1>1, <1>2 DEF PeersKept, NamesRoute

-----------------------------------------------------------------------------
(* Callbacks without exchange messages *)

TransferInv == TypeOK /\ PendingRises /\ VersionNamesRoute /\ ExchangeInv

LEMMA UpdateRouteTransfer ==
  ASSUME TransferInv, TypeOK', NEW i \in Drone, UpdateRoute(i)
  PROVE  VersionNamesRoute' /\ ExchangeInv'
<1>1. TypeOK /\ VersionNamesRoute /\ ExchangeInv /\ AttemptsPast
  BY DEF TransferInv, ExchangeInv
<1>2. PICK route \in SUBSET Grid, copies \in SUBSET Grid :
        RowStep(i, route, copies)
  BY <1>1, UpdateRouteShape
<1> DEFINE own == SyncedRow(i, Own(i), route)
           row == [swarm[i] EXCEPT ![i] = own]
<1>3. own \in DroneState /\ own.attempt = swarm[i][i].attempt
  BY <1>1, SyncedRowVersion DEF TypeOK, Own
<1>4. swarm' = [swarm EXCEPT ![i][i] = own]
  BY <1>2 DEF RowStep
<1> HIDE DEF own
<1>5. Replaces(i, row) /\ PeersKept(i, row)
  BY <1>1, <1>3, <1>4 DEF TypeOK, Row, Replaces, PeersKept
<1> HIDE DEF row
<1>6. now' = now /\ beacons' = beacons /\ UNCHANGED <<requests, responses, pending>>
  BY DEF UpdateRoute, exchangeVars
<1>7. \A k \in Drone : Rises(k)
  BY <1>1, UpdateRouteRises
<1>8. VersionNamesRoute'
  BY <1>1, <1>5, <1>6, <1>7, KeptPeersName, RowsName
<1>9. ExchangeInv'
  BY <1>1, <1>5, <1>6, <1>7, ReplacesAttempts, QuietKeepsExchange
<1>10. QED
  BY <1>8, <1>9

LEMMA BroadcastStateTransfer ==
  ASSUME TransferInv, TypeOK', NEW i \in Drone, BroadcastState(i)
  PROVE  VersionNamesRoute' /\ ExchangeInv'
<1> DEFINE row == Reconciled(i, swarm[i], twice[i])
           own == [row[i] EXCEPT !.stamp = now]
           sent == [row EXCEPT ![i] = own]
<1>1. TypeOK /\ VersionNamesRoute /\ ExchangeInv /\ AttemptsPast
  BY DEF TransferInv, ExchangeInv
<1>2. swarm[i] \in Row /\ twice[i] \in SUBSET Grid /\ now \in Nat
  BY <1>1 DEF TypeOK, Row
<1>3. /\ row \in Row
      /\ \A j \in Drone \ {i} : row[j] = swarm[i][j]
      /\ row[i].attempt = swarm[i][i].attempt
  BY <1>2, ReconciledRow
<1>4. /\ swarm' = [swarm EXCEPT ![i] = sent]
      /\ beacons' \subseteq beacons \cup {Snapshot(i, own)}
      /\ now' = now /\ UNCHANGED <<requests, responses, pending>>
  BY DEF BroadcastState, exchangeVars
<1> HIDE DEF row
<1>5. own \in DroneState /\ own.attempt = row[i].attempt
  BY <1>2, <1>3 DEF Row, DroneState
<1> HIDE DEF own
<1>6. Replaces(i, sent) /\ PeersKept(i, sent) /\ sent[i] = own
  BY <1>3, <1>4, <1>5 DEF Row, Replaces, PeersKept
<1> HIDE DEF sent
<1>7. \A m \in beacons' : m \in beacons
         \/ (m.from = i /\ m.ids = sent[i].ids /\ m.assign = sent[i].assign)
  BY <1>4, <1>6 DEF Snapshot
<1>8. \A k \in Drone : Rises(k)
  BY <1>1, BroadcastStateRises
<1>9. VersionNamesRoute'
  BY <1>1, <1>6, <1>7, <1>8, KeptPeersName, RowsName
<1>10. ExchangeInv'
  BY <1>1, <1>4, <1>6, <1>8, ReplacesAttempts, QuietKeepsExchange
<1>11. QED
  BY <1>9, <1>10

LEMMA ReceiveStateTransfer ==
  ASSUME TransferInv, TypeOK', NEW i \in Drone, NEW m \in beacons,
         ReceiveState(i, m)
  PROVE  VersionNamesRoute' /\ ExchangeInv'
<1> DEFINE heard == [swarm[i][m.from] EXCEPT
                       !.ids = m.ids, !.epochs = m.epochs, !.assign = m.assign,
                       !.stamp = m.stamp, !.attempt = m.attempt]
           row == [swarm[i] EXCEPT ![m.from] = heard]
           new == Reconciled(i, row, twice[i])
<1>1. TypeOK /\ VersionNamesRoute /\ ExchangeInv /\ AttemptsPast
  BY DEF TransferInv, ExchangeInv
<1>2. m \in Beacon /\ m.from \in Drone /\ m.from # i
  BY <1>1 DEF TypeOK, Beacon, ReceiveState
<1>3. swarm[i][m.from] \in DroneState
  BY <1>1, <1>2 DEF TypeOK
<1>4. heard \in DroneState /\ heard.ids = m.ids /\ heard.assign = m.assign
  BY <1>2, <1>3 DEF DroneState, Beacon
<1>5. /\ swarm' = [swarm EXCEPT ![i] = new] /\ beacons' = beacons
      /\ now' = now /\ UNCHANGED <<requests, responses, pending>>
  BY DEF ReceiveState, exchangeVars
<1> HIDE DEF heard
<1>6. /\ row \in Row /\ row[i] = swarm[i][i] /\ row[m.from] = heard
      /\ \A j \in Drone \ {i, m.from} : row[j] = swarm[i][j]
      /\ twice[i] \in SUBSET Grid /\ now \in Nat
  BY <1>1, <1>2, <1>4 DEF TypeOK, Row
<1> HIDE DEF row
<1>7. /\ new \in Row
      /\ \A j \in Drone \ {i} : new[j] = row[j]
      /\ new[i].attempt = row[i].attempt
  BY <1>6, ReconciledRow
<1> HIDE DEF new
<1>8. Replaces(i, new)
  BY <1>5, <1>6, <1>7 DEF Replaces
<1>9. ASSUME NEW j \in Drone, i < j PROVE NamesRoute(j, new[j])
  <2>1. j # i
    BY <1>9, DroneAssumption
  <2>2. CASE j = m.from
    BY <1>1, <1>4, <1>6, <1>7, <2>1, <2>2 DEF VersionNamesRoute, NamesRoute
  <2>3. CASE j # m.from
    <3>1. new[j] = swarm[i][j]
      BY <1>6, <1>7, <2>1, <2>3
    <3>2. QED
      BY <1>1, <1>9, <3>1 DEF VersionNamesRoute
  <2>4. QED
    BY <2>2, <2>3
<1>10. \A k \in Drone : Rises(k)
  BY <1>1, ReceiveStateRises
<1>11. VersionNamesRoute'
  BY <1>1, <1>5, <1>8, <1>9, <1>10, RowsName
<1>12. ExchangeInv'
  BY <1>1, <1>5, <1>8, <1>10, ReplacesAttempts, QuietKeepsExchange
<1>13. QED
  BY <1>11, <1>12

LEMMA TickTransfer ==
  ASSUME TransferInv, TypeOK', Tick \/ UNCHANGED vars
  PROVE  VersionNamesRoute' /\ ExchangeInv'
<1>1. TypeOK /\ VersionNamesRoute /\ ExchangeInv /\ AttemptsPast
  BY DEF TransferInv, ExchangeInv
<1>2. UNCHANGED <<swarm, beacons, requests, responses, pending>>
  BY DEF Tick, vars, exchangeVars
<1>3. now' \in Nat /\ now' >= now
  BY <1>1 DEF Tick, vars, TypeOK
<1>4. VersionNamesRoute'
  BY <1>1, <1>2, SameRowsName
<1>5. \A k \in Drone : Rises(k)
  BY <1>1, <1>2, SameRowsRise
<1>6. ExchangeInv'
  BY <1>1, <1>2, <1>3, <1>5, SameAttempts, QuietKeepsExchange
<1>7. QED
  BY <1>4, <1>6

-----------------------------------------------------------------------------
(* Offers *)

(* Every candidate accounts for both routes it replaces.                    *)
LEMMA CandidatesCover ==
  ASSUME NEW i \in Drone, NEW j \in Drone, NEW row \in Row,
         NEW c \in Candidates(i, row, j)
  PROVE  row[i].ids \cup row[j].ids \subseteq c[1] \cup c[2]
BY DEF Candidates

LEMMA ReplyFields ==
  ASSUME NEW r, NEW q, NEW a, NEW b, Reply(r, a) = Reply(q, b)
  PROVE  r.from = q.from /\ r.to = q.to /\ r.stamp = q.stamp /\ a = b
<1>1. /\ Reply(r, a).to = r.from /\ Reply(r, a).from = r.to
      /\ Reply(r, a).stamp = r.stamp /\ Reply(r, a).status = a
      /\ Reply(q, b).to = q.from /\ Reply(q, b).from = q.to
      /\ Reply(q, b).stamp = q.stamp /\ Reply(q, b).status = b
  BY DEF Reply
<1>2. QED
  BY <1>1

(* Tried(i) is what an attempt of drone i starts from: its reconciled rows. *)
Tried(i) == Reconciled(i, swarm[i], twice[i])

LEMMA TriedRow ==
  ASSUME TypeOK, NEW i \in Drone
  PROVE  /\ Tried(i) \in Row
         /\ \A j \in Drone \ {i} : Tried(i)[j] = swarm[i][j]
         /\ Tried(i)[i].attempt = swarm[i][i].attempt
         /\ [Tried(i) EXCEPT ![i].attempt = now] \in Row
         /\ [Tried(i) EXCEPT ![i].attempt = now][i].attempt = now
         /\ [Tried(i) EXCEPT ![i].attempt = now][i].ids = Tried(i)[i].ids
         /\ [Tried(i) EXCEPT ![i].attempt = now][i].assign = Tried(i)[i].assign
         /\ \A j \in Drone \ {i} :
              [Tried(i) EXCEPT ![i].attempt = now][j] = swarm[i][j]
<1>1. swarm[i] \in Row /\ twice[i] \in SUBSET Grid /\ now \in Nat
  BY DEF TypeOK, Row
<1>2. /\ Tried(i) \in Row
      /\ \A j \in Drone \ {i} : Tried(i)[j] = swarm[i][j]
      /\ Tried(i)[i].attempt = swarm[i][i].attempt
  BY <1>1, ReconciledRow DEF Tried
<1>3. Tried(i)[i] \in DroneState
  BY <1>2 DEF Row
<1>4. /\ [Tried(i)[i] EXCEPT !.attempt = now] \in DroneState
      /\ [Tried(i)[i] EXCEPT !.attempt = now].ids = Tried(i)[i].ids
      /\ [Tried(i)[i] EXCEPT !.attempt = now].assign = Tried(i)[i].assign
      /\ [Tried(i)[i] EXCEPT !.attempt = now].attempt = now
  BY <1>1, <1>3, WithAttempt
<1>5. QED
  BY <1>2, <1>4 DEF Row

(* An attempt without an offer.                                             *)
LEMMA NoOfferShape ==
  ASSUME TypeOK, NEW i \in Drone,
         \/ swarm' = [swarm EXCEPT ![i] = Tried(i)]
         \/ AbandonAttempt(i, Tried(i))
         \/ \E j \in Drone : i < j /\ RejectCandidate(i, Tried(i), j)
  PROVE  \E row : Replaces(i, row) /\ PeersKept(i, row)
<1> DEFINE row == Tried(i)
           tried == [row EXCEPT ![i].attempt = now]
<1>1. /\ row \in Row /\ tried \in Row
      /\ \A j \in Drone \ {i} : row[j] = swarm[i][j] /\ tried[j] = swarm[i][j]
      /\ row[i].attempt = swarm[i][i].attempt /\ tried[i].attempt = now
  BY TriedRow
<1> HIDE DEF row
<1>2. CASE swarm' = [swarm EXCEPT ![i] = row]
  BY <1>1, <1>2 DEF Replaces, PeersKept
<1>3. CASE AbandonAttempt(i, row)
  <2>1. swarm' = [swarm EXCEPT ![i] = tried]
    BY <1>3 DEF AbandonAttempt
  <2> HIDE DEF tried
  <2>2. Replaces(i, tried) /\ PeersKept(i, tried)
    BY <1>1, <2>1 DEF Replaces, PeersKept
  <2>3. QED
    BY <2>2
<1>4. ASSUME NEW j \in Drone, i < j, RejectCandidate(i, row, j)
      PROVE  \E new : Replaces(i, new) /\ PeersKept(i, new)
  <2> DEFINE new == [row EXCEPT ![i].attempt = now, ![j].interact = now]
  <2>1. i # j
    BY <1>4, DroneAssumption
  <2>2. swarm' = [swarm EXCEPT ![i] = new]
    BY <1>4 DEF RejectCandidate
  <2>3. new = [tried EXCEPT ![j] = [tried[j] EXCEPT !.interact = now]]
    OBVIOUS
  <2> HIDE DEF tried, new
  <2>4. tried[j] \in DroneState /\ now \in Nat
    BY <1>1 DEF Row, TypeOK
  <2>5. /\ [tried[j] EXCEPT !.interact = now] \in DroneState
        /\ [tried[j] EXCEPT !.interact = now].ids = tried[j].ids
        /\ [tried[j] EXCEPT !.interact = now].assign = tried[j].assign
    BY <2>4, WithInteract
  <2>6. /\ new \in Row /\ new[i] = tried[i]
        /\ \A k \in Drone \ {i, j} : new[k] = swarm[i][k]
        /\ new[j].ids = swarm[i][j].ids /\ new[j].assign = swarm[i][j].assign
    BY <1>1, <2>1, <2>3, <2>5 DEF Row
  <2>7. Replaces(i, new) /\ PeersKept(i, new)
    BY <1>1, <2>2, <2>6 DEF Replaces, PeersKept
  <2>8. QED
    BY <2>7
<1>5. QED
  BY <1>2, <1>3, <1>4 DEF row

(* Drone i offers drone j the partition c.                                  *)
Offering(i, j, c) ==
  /\ i < j
  /\ now - Tried(i)[i].attempt >= AttemptInterval
  /\ c \in Candidates(i, Tried(i), j)
  /\ Offers(i, Tried(i), j, c)

LEMMA OptTimerCases ==
  ASSUME TypeOK, NEW i \in Drone, OptTimer(i)
  PROVE  \/ /\ UNCHANGED <<pending, requests>>
            /\ \E row : Replaces(i, row) /\ PeersKept(i, row)
         \/ \E j \in Drone : \E c : Offering(i, j, c)
<1> DEFINE row == Tried(i)
<1>1. \/ swarm' = [swarm EXCEPT ![i] = row] /\ UNCHANGED <<pending, requests>>
      \/ \E j \in Drone :
           /\ i < j /\ now - row[i].attempt >= AttemptInterval
           /\ \/ AbandonAttempt(i, row)
              \/ RejectCandidate(i, row, j)
              \/ Propose(i, row, j)
  BY DEF OptTimer, Eligible, Tried
<1> HIDE DEF row
<1>2. CASE swarm' = [swarm EXCEPT ![i] = row] /\ UNCHANGED <<pending, requests>>
  BY <1>2, NoOfferShape DEF row
<1>3. ASSUME NEW j \in Drone, i < j, AbandonAttempt(i, row) \/ RejectCandidate(i, row, j)
      PROVE  /\ UNCHANGED <<pending, requests>>
             /\ \E new : Replaces(i, new) /\ PeersKept(i, new)
  <2>1. UNCHANGED <<pending, requests>>
    BY <1>3 DEF AbandonAttempt, RejectCandidate
  <2>2. \E new : Replaces(i, new) /\ PeersKept(i, new)
    BY <1>3, NoOfferShape DEF row
  <2>3. QED
    BY <2>1, <2>2
<1>4. ASSUME NEW j \in Drone, i < j, now - row[i].attempt >= AttemptInterval,
             Propose(i, row, j)
      PROVE  \E c : Offering(i, j, c)
  <2>1. PICK c \in Candidates(i, row, j) : Offers(i, row, j, c)
    BY <1>4 DEF Propose
  <2>2. Offering(i, j, c)
    BY <1>4, <2>1 DEF Offering, row
  <2>3. QED
    BY <2>2
<1>5. QED
  BY <1>1, <1>2, <1>3, <1>4

(* What an offer changes.                                                   *)
LEMMA OfferingShape ==
  ASSUME TypeOK, NEW i \in Drone, NEW j \in Drone, NEW c, Offering(i, j, c)
  PROVE  \E m :
           /\ m = Requested(i, Tried(i), j, c)
           /\ requests' = requests \cup {m}
           /\ pending' = [pending EXCEPT ![i] = Reserved(m)]
           /\ m.from = i /\ m.to = j /\ m.stamp = now
           /\ m.expEgo = Tried(i)[i].assign /\ m.expOther = swarm[i][j].assign
           /\ m.epoch > m.expEgo /\ m.epoch > m.expOther
           /\ Tried(i)[i].ids \subseteq m.ego \cup m.other
           /\ swarm[i][j].ids \subseteq m.ego \cup m.other
           /\ Own(i)'.ids = Tried(i)[i].ids
           /\ Own(i)'.assign = Tried(i)[i].assign
           /\ Own(i)'.attempt = now
           /\ \A k \in Drone \ {i} : Own(k)' = Own(k)
           /\ \E row : Replaces(i, row) /\ PeersKept(i, row)
<1> DEFINE row == Tried(i)
           tried == [row EXCEPT ![i].attempt = now]
           m == Requested(i, row, j, c)
<1>1. /\ row \in Row
      /\ \A k \in Drone \ {i} : row[k] = swarm[i][k] /\ tried[k] = swarm[i][k]
      /\ tried \in Row /\ tried[i].attempt = now
      /\ tried[i].ids = row[i].ids /\ tried[i].assign = row[i].assign
  BY TriedRow
<1>2. /\ i # j /\ c \in Candidates(i, row, j)
      /\ requests' = requests \cup {m}
      /\ pending' = [pending EXCEPT ![i] = Reserved(m)]
      /\ swarm' = [swarm EXCEPT ![i] = tried]
  BY DroneAssumption DEF Offering, Offers
<1> HIDE DEF row, tried
<1>3. /\ m.from = i /\ m.to = j /\ m.stamp = now
      /\ m.expEgo = row[i].assign /\ m.expOther = row[j].assign
      /\ m.ego = c[1] /\ m.other = c[2]
      /\ m.epoch = nextAssignmentEpoch(i, row[i].assign, row[j].assign)
  BY DEF Requested
<1>4. row[i].assign \in Nat /\ row[j].assign \in Nat /\ now \in Nat
  BY <1>1 DEF Row, DroneState, TypeOK
<1>5. m.epoch > m.expEgo /\ m.epoch > m.expOther
  BY <1>3, <1>4, NextEpochGrows
<1>6. row[i].ids \cup row[j].ids \subseteq m.ego \cup m.other
  BY <1>1, <1>2, <1>3, CandidatesCover
<1>7. row[j] = swarm[i][j]
  BY <1>1, <1>2
<1>8. Replaces(i, tried) /\ PeersKept(i, tried)
  BY <1>1, <1>2 DEF Replaces, PeersKept
<1>9. Own(i)' = tried[i] /\ \A k \in Drone \ {i} : Own(k)' = Own(k)
  BY <1>2 DEF Own, TypeOK
<1>a. m = Requested(i, Tried(i), j, c)
  BY DEF row
<1> HIDE DEF m
<1>10. \E new : Replaces(i, new) /\ PeersKept(i, new)
  BY <1>8
<1>b. /\ m.expEgo = Tried(i)[i].assign /\ m.expOther = swarm[i][j].assign
      /\ Tried(i)[i].ids \subseteq m.ego \cup m.other
      /\ swarm[i][j].ids \subseteq m.ego \cup m.other
      /\ Own(i)'.ids = Tried(i)[i].ids
      /\ Own(i)'.assign = Tried(i)[i].assign
      /\ Own(i)'.attempt = now
  BY <1>1, <1>3, <1>6, <1>7, <1>9 DEF row
<1>11. QED
  BY <1>2, <1>3, <1>5, <1>9, <1>a, <1>10, <1>b

(* A response belongs to one request.                                       *)
LEMMA OneRequest ==
  ASSUME UniqueStamps, NEW r \in requests, NEW q \in requests, NEW a, NEW b,
         Reply(r, a) = Reply(q, b)
  PROVE  r = q /\ a = b
<1>1. r.from = q.from /\ r.stamp = q.stamp /\ a = b
  BY ReplyFields
<1>2. QED
  BY <1>1 DEF UniqueStamps

(* An attempt has a stamp that no request and no response of drone i has.   *)
LEMMA StampIsNew ==
  ASSUME TransferInv, NEW i \in Drone, NEW j \in Drone, NEW c, Offering(i, j, c)
  PROVE  /\ \A r \in requests : r.from = i => r.stamp < now
         /\ \A m : m.from = i /\ m.stamp = now => Reply(m, 1) \notin responses
<1>1. TypeOK /\ AttemptsPast /\ Answers
  BY DEF TransferInv, ExchangeInv
<1>2. now \in Nat /\ now - Tried(i)[i].attempt >= AttemptInterval
      /\ Tried(i)[i].attempt = Own(i).attempt /\ Own(i).attempt \in Nat
  <2>1. Tried(i)[i].attempt = Own(i).attempt
    BY <1>1, TriedRow DEF Own
  <2>2. QED
    BY <1>1, <2>1 DEF Offering, TypeOK, Own, DroneState
<1>3. ASSUME NEW r \in requests, r.from = i PROVE r.stamp < now
  <2>1. r.stamp <= Own(i).attempt /\ r.stamp \in Nat
    BY <1>1, <1>3 DEF AttemptsPast, TypeOK, Request
  <2>2. QED
    BY <1>2, <2>1, TimeAssumption
<1>4. ASSUME NEW m, m.from = i, m.stamp = now, Reply(m, 1) \in responses
      PROVE  FALSE
  <2>1. PICK q \in requests : Reply(m, 1) = Reply(q, Reply(m, 1).status)
    BY <1>1, <1>4 DEF Answers
  <2>2. q.from = i /\ q.stamp = now
    BY <1>4, <2>1, ReplyFields
  <2>3. q.stamp < now
    BY <1>3, <2>2
  <2>4. QED
    BY <1>2, <2>2, <2>3
<1>5. QED
  BY <1>3, <1>4

LEMMA OfferTransfer ==
  ASSUME TransferInv, TypeOK', NEW i \in Drone, NEW j \in Drone, NEW c,
         OptTimer(i), Offering(i, j, c)
  PROVE  VersionNamesRoute' /\ ExchangeInv'
<1>1. /\ TypeOK /\ VersionNamesRoute /\ ExchangeInv
      /\ RequestsCover /\ AcceptedCommitted /\ AttemptsPast
      /\ UniqueStamps /\ Answers /\ PendingRequested
  BY DEF TransferInv, ExchangeInv
<1>2. PICK m :
        /\ requests' = requests \cup {m}
        /\ pending' = [pending EXCEPT ![i] = Reserved(m)]
        /\ m.from = i /\ m.to = j /\ m.stamp = now
        /\ m.expEgo = Tried(i)[i].assign /\ m.expOther = swarm[i][j].assign
        /\ m.epoch > m.expEgo /\ m.epoch > m.expOther
        /\ Tried(i)[i].ids \subseteq m.ego \cup m.other
        /\ swarm[i][j].ids \subseteq m.ego \cup m.other
        /\ Own(i)'.ids = Tried(i)[i].ids
        /\ Own(i)'.assign = Tried(i)[i].assign
        /\ Own(i)'.attempt = now
        /\ \A k \in Drone \ {i} : Own(k)' = Own(k)
        /\ \E row : Replaces(i, row) /\ PeersKept(i, row)
  BY <1>1, OfferingShape
<1>3. PICK row : Replaces(i, row) /\ PeersKept(i, row)
  BY <1>2
<1>4. now' = now /\ beacons' = beacons /\ responses' = responses
  BY DEF OptTimer
<1>5. \A k \in Drone : Rises(k)
  BY <1>1, OptTimerRises
<1>6. AttemptsRise
  BY <1>1, <1>3, <1>4, ReplacesAttempts
<1>7. VersionNamesRoute'
  BY <1>1, <1>3, <1>4, <1>5, KeptPeersName, RowsName
<1>8. now \in Nat /\ i < j /\ i # j
  BY <1>1, DroneAssumption DEF Offering, TypeOK
<1>9. ASSUME NEW r \in requests, r.from = i PROVE r.stamp < now
  BY <1>9, StampIsNew
<1>10. RequestsCover'
  <2>1. CoversEnd(m, i, m.expEgo)'
    <3>1. Tried(i)[i].assign \in Nat
      BY <1>1, TriedRow DEF Row, DroneState
    <3>2. QED
      BY <1>2, <3>1 DEF CoversEnd
  <2>2. CoversEnd(m, j, m.expOther)'
    <3>1. NamesRoute(j, swarm[i][j])
      BY <1>1, <1>8 DEF VersionNamesRoute
    <3>2. Own(j)' = Own(j)
      BY <1>2, <1>8
    <3>3. QED
      BY <1>2, <3>1, <3>2 DEF CoversEnd, NamesRoute
  <2>3. ASSUME NEW r \in requests
        PROVE  /\ r.from < r.to
               /\ r.epoch > r.expEgo /\ r.epoch > r.expOther
               /\ CoversEnd(r, r.from, r.expEgo)' /\ CoversEnd(r, r.to, r.expOther)'
    BY <1>1, <1>5, RequestStays
  <2>4. QED
    BY <1>2, <1>8, <2>1, <2>2, <2>3 DEF RequestsCover
<1>11. AcceptedCommitted'
  <2>1. Reply(m, 1) \notin responses
    BY <1>2, StampIsNew
  <2>2. ASSUME NEW r \in requests, Reply(r, 1) \in responses
        PROVE  Committed(r)'
    BY <1>1, <1>5, <2>2, RequestStays DEF AcceptedCommitted
  <2>3. QED
    BY <1>2, <1>4, <2>1, <2>2 DEF AcceptedCommitted, Reply
<1>12. AttemptsPast'
  <2>1. ASSUME NEW r \in requests PROVE r.stamp <= Own(r.from)'.attempt
    <3>1. r.from \in Drone /\ r.stamp \in Nat
      BY <1>1 DEF TypeOK, Request
    <3>2. Own(r.from).attempt \in Nat /\ Own(r.from)'.attempt \in Nat
      BY <1>1, <3>1 DEF TypeOK, Own, DroneState
    <3>3. r.stamp <= Own(r.from).attempt /\ Own(r.from)'.attempt >= Own(r.from).attempt
      BY <1>1, <1>6, <3>1 DEF AttemptsPast, AttemptsRise
    <3>4. QED
      BY <3>1, <3>2, <3>3
  <2>2. m.stamp <= Own(m.from)'.attempt
    BY <1>2, <1>8
  <2>3. \A k \in Drone : Own(k)'.attempt <= now'
    BY <1>6 DEF AttemptsRise
  <2>4. QED
    BY <1>2, <2>1, <2>2, <2>3 DEF AttemptsPast
<1>13. UniqueStamps'
  <2>1. \A r \in requests : r.from = m.from => r.stamp # m.stamp
    <3>1. SUFFICES ASSUME NEW r \in requests, r.from = m.from, r.stamp = m.stamp
                   PROVE  FALSE
      OBVIOUS
    <3>2. r.stamp < now
      BY <1>2, <1>9, <3>1
    <3>3. QED
      BY <1>2, <1>8, <3>1, <3>2
  <2>2. QED
    BY <1>1, <1>2, <2>1 DEF UniqueStamps
<1>14. Answers'
  BY <1>1, <1>2, <1>4 DEF Answers, Reply
<1>15. PendingRequested'
  <2>1. SUFFICES ASSUME NEW k \in Drone, pending'[k].waiting
                 PROVE  \E r \in requests' : r.from = k /\ pending'[k] = Reserved(r)
    BY DEF PendingRequested, Reserved
  <2>2. CASE k = i
    <3>1. pending'[i] = Reserved(m)
      BY <1>1, <1>2 DEF TypeOK
    <3>2. QED
      BY <1>2, <2>2, <3>1
  <2>3. CASE k # i
    <3>1. pending'[k] = pending[k]
      BY <1>1, <1>2, <2>3 DEF TypeOK
    <3>2. QED
      BY <1>1, <1>2, <2>1, <3>1 DEF PendingRequested
  <2>4. QED
    BY <2>2, <2>3
<1>16. QED
  BY <1>7, <1>10, <1>11, <1>12, <1>13, <1>14, <1>15 DEF ExchangeInv

LEMMA OptTimerTransfer ==
  ASSUME TransferInv, TypeOK', NEW i \in Drone, OptTimer(i)
  PROVE  VersionNamesRoute' /\ ExchangeInv'
<1>1. TypeOK /\ VersionNamesRoute /\ ExchangeInv /\ AttemptsPast
  BY DEF TransferInv, ExchangeInv
<1>2. now' = now /\ beacons' = beacons /\ responses' = responses
  BY DEF OptTimer
<1>3. \A k \in Drone : Rises(k)
  BY <1>1, OptTimerRises
<1>4. ASSUME UNCHANGED <<pending, requests>>,
             NEW row, Replaces(i, row), PeersKept(i, row)
      PROVE  VersionNamesRoute' /\ ExchangeInv'
  <2>1. VersionNamesRoute'
    BY <1>1, <1>2, <1>3, <1>4, KeptPeersName, RowsName
  <2>2. ExchangeInv'
    BY <1>1, <1>2, <1>3, <1>4, ReplacesAttempts, QuietKeepsExchange
  <2>3. QED
    BY <2>1, <2>2
<1>5. ASSUME NEW j \in Drone, NEW c, Offering(i, j, c)
      PROVE  VersionNamesRoute' /\ ExchangeInv'
  BY <1>5, OfferTransfer
<1>6. QED
  BY <1>1, <1>4, <1>5, OptTimerCases

-----------------------------------------------------------------------------
(* Requests and responses *)

LEMMA AnswerKeepsExchange ==
  ASSUME TransferInv, TypeOK', \A k \in Drone : Rises(k), AttemptsRise,
         NEW m \in requests, NEW status \in {1, 2},
         responses' = responses \cup {Reply(m, status)},
         UNCHANGED <<requests, pending>>,
         status = 1 => Committed(m)'
  PROVE  ExchangeInv'
<1>1. /\ TypeOK /\ RequestsCover /\ AcceptedCommitted /\ AttemptsPast
      /\ UniqueStamps /\ Answers /\ PendingRequested
  BY DEF TransferInv, ExchangeInv
<1>2. RequestsCover'
  BY <1>1, RequestStays DEF RequestsCover
<1>3. AcceptedCommitted'
  <2>1. ASSUME NEW r \in requests, Reply(r, 1) \in responses'
        PROVE  Committed(r)'
    <3>1. CASE Reply(r, 1) \in responses
      <4>1. Committed(r)
        BY <1>1, <3>1 DEF AcceptedCommitted
      <4>2. QED
        BY <1>1, <4>1, RequestStays
    <3>2. CASE Reply(r, 1) = Reply(m, status)
      BY <1>1, <3>2, OneRequest
    <3>3. QED
      BY <2>1, <3>1, <3>2
  <2>2. QED
    BY <2>1 DEF AcceptedCommitted, Reply
<1>4. AttemptsPast'
  <2>1. ASSUME NEW r \in requests PROVE r.stamp <= Own(r.from)'.attempt
    <3>1. r.from \in Drone /\ r.stamp \in Nat
      BY <1>1 DEF TypeOK, Request
    <3>2. Own(r.from).attempt \in Nat /\ Own(r.from)'.attempt \in Nat
      BY <1>1, <3>1 DEF TypeOK, Own, DroneState
    <3>3. r.stamp <= Own(r.from).attempt /\ Own(r.from)'.attempt >= Own(r.from).attempt
      BY <1>1, <3>1 DEF AttemptsPast, AttemptsRise
    <3>4. QED
      BY <3>1, <3>2, <3>3
  <2>2. QED
    BY <2>1 DEF AttemptsPast, AttemptsRise
<1>5. UniqueStamps' /\ PendingRequested'
  BY <1>1 DEF UniqueStamps, PendingRequested, Reserved
<1>6. Answers'
  <2>1. Reply(m, status) = Reply(m, Reply(m, status).status)
    BY DEF Reply
  <2>2. ASSUME NEW n \in responses' PROVE \E r \in requests : n = Reply(r, n.status)
    BY <1>1, <2>1 DEF Answers
  <2>3. QED
    BY <2>2 DEF Answers, Reply
<1>7. QED
  BY <1>2, <1>3, <1>4, <1>5, <1>6 DEF ExchangeInv

LEMMA ReceiveRequestTransfer ==
  ASSUME TransferInv, TypeOK', NEW j \in Drone, NEW m \in requests,
         ReceiveRequest(j, m)
  PROVE  VersionNamesRoute' /\ ExchangeInv'
<1>1. TypeOK /\ VersionNamesRoute /\ ExchangeInv /\ AttemptsPast /\ RequestsCover
  BY DEF TransferInv, ExchangeInv
<1>2. m \in Request /\ m.from \in Drone /\ m.to = j /\ m.from < j /\ m.from # j
  BY <1>1 DEF TypeOK, Request, ReceiveRequest, RequestsCover
<1>3. now' = now /\ beacons' = beacons /\ UNCHANGED <<requests, pending>>
  BY DEF ReceiveRequest
<1>4. \A k \in Drone : Rises(k)
  BY <1>1, ReceiveRequestRises
<1>5. CASE /\ swarm' = [swarm EXCEPT ![j] = CommittedRow(j, m)]
           /\ responses' = responses \cup {Reply(m, 1)}
  <2> DEFINE row == CommittedRow(j, m)
  <2>1. /\ row \in Row /\ row[j].ids = m.other /\ row[j].assign = m.epoch
        /\ row[j].attempt = now
        /\ \A k \in Drone \ {j, m.from} : row[k] = swarm[j][k]
    BY <1>1, <1>2, CommittedRowType
  <2> HIDE DEF row
  <2>2. Replaces(j, row)
    BY <1>5, <2>1 DEF Replaces, row
  <2>3. ASSUME NEW k \in Drone, j < k PROVE NamesRoute(k, row[k])
    <3>1. k # j /\ k # m.from
      BY <1>2, <2>3, DroneAssumption
    <3>2. NamesRoute(k, swarm[j][k])
      BY <1>1, <2>3 DEF VersionNamesRoute
    <3>3. QED
      BY <2>1, <3>1, <3>2
  <2>4. VersionNamesRoute'
    BY <1>1, <1>3, <1>4, <2>2, <2>3, RowsName
  <2>5. Committed(m)'
    <3>1. Own(j)' = row[j]
      BY <1>1, <2>2 DEF Replaces, Own, TypeOK
    <3>2. m.epoch \in Nat
      BY <1>2 DEF Request
    <3>3. QED
      BY <1>2, <2>1, <3>1, <3>2 DEF Committed
  <2>6. AttemptsRise
    BY <1>1, <1>3, <2>2, ReplacesAttempts
  <2>7. ExchangeInv'
    BY <1>3, <1>4, <1>5, <2>5, <2>6, AnswerKeepsExchange
  <2>8. QED
    BY <2>4, <2>7
<1>6. CASE swarm' = swarm /\ responses' = responses \cup {Reply(m, 2)}
  <2>1. VersionNamesRoute'
    BY <1>1, <1>3, <1>6, SameRowsName
  <2>2. AttemptsRise
    <3>1. now' \in Nat /\ now' >= now
      BY <1>1, <1>3 DEF TypeOK
    <3>2. QED
      BY <1>1, <1>6, <3>1, SameAttempts
  <2>3. ExchangeInv'
    <3>1. (2 = 1) => Committed(m)'
      OBVIOUS
    <3>2. QED
      BY <1>3, <1>4, <1>6, <2>2, <3>1, AnswerKeepsExchange
  <2>4. QED
    BY <2>1, <2>3
<1>7. QED
  BY <1>5, <1>6 DEF ReceiveRequest

(* A response that is awaited answers the request that is reserved.         *)
LEMMA AwaitedRequest ==
  ASSUME TransferInv, NEW i \in Drone, NEW m \in responses, m.to = i,
         Awaited(i, m)
  PROVE  \E r \in requests :
           /\ r.from = i /\ r.to = m.from
           /\ pending[i] = Reserved(r) /\ m = Reply(r, m.status)
<1>1. UniqueStamps /\ Answers /\ PendingRequested
  BY DEF TransferInv, ExchangeInv
<1>2. PICK r \in requests : r.from = i /\ pending[i] = Reserved(r)
  BY <1>1 DEF Awaited, PendingRequested
<1>3. PICK q \in requests : m = Reply(q, m.status)
  BY <1>1 DEF Answers
<1>4. q.from = m.to /\ q.to = m.from /\ q.stamp = m.stamp
  <2>1. /\ Reply(q, m.status).to = q.from /\ Reply(q, m.status).from = q.to
        /\ Reply(q, m.status).stamp = q.stamp
    BY DEF Reply
  <2>2. QED
    BY <1>3, <2>1
<1>5. pending[i].stamp = r.stamp
  BY <1>2 DEF Reserved
<1>6. q = r
  BY <1>1, <1>2, <1>4, <1>5 DEF UniqueStamps, Awaited
<1>7. QED
  BY <1>2, <1>3, <1>4, <1>6

LEMMA ReceiveResponseTransfer ==
  ASSUME TransferInv, TypeOK', NEW i \in Drone, NEW m \in responses,
         ReceiveResponse(i, m)
  PROVE  VersionNamesRoute' /\ ExchangeInv'
<1>1. /\ TypeOK /\ PendingRises /\ VersionNamesRoute /\ ExchangeInv
      /\ RequestsCover /\ AcceptedCommitted /\ AttemptsPast
      /\ UniqueStamps /\ Answers /\ PendingRequested
  BY DEF TransferInv, ExchangeInv
<1>2. m.from \in Drone /\ m.from # i /\ m.to = i
  BY <1>1 DEF TypeOK, Response, ReceiveResponse
<1>3. now' = now /\ beacons' = beacons /\ UNCHANGED <<requests, responses>>
  BY DEF ReceiveResponse
<1>4. \A k \in Drone : Rises(k)
  BY <1>1, ReceiveResponseRises
<1>5. VersionNamesRoute' /\ AttemptsRise
  <2>1. CASE /\ swarm' = [swarm EXCEPT ![i] = Reconciled(i, AppliedRow(i, m.from), {})]
             /\ Awaited(i, m) /\ m.status = 1
    <3> DEFINE applied == AppliedRow(i, m.from)
               row == Reconciled(i, applied, {})
    <3>1. /\ applied \in Row
          /\ applied[i].attempt = swarm[i][i].attempt
          /\ applied[m.from].ids = pending[i].other
          /\ applied[m.from].assign = pending[i].epoch
          /\ \A k \in Drone \ {i, m.from} : applied[k] = swarm[i][k]
      BY <1>1, <1>2, AppliedRowType
    <3> HIDE DEF applied
    <3>2. now \in Nat
      BY <1>1 DEF TypeOK
    <3>3. /\ row \in Row
          /\ \A k \in Drone \ {i} : row[k] = applied[k]
          /\ row[i].attempt = applied[i].attempt
      BY <3>1, <3>2, ReconciledRow
    <3>4. swarm' = [swarm EXCEPT ![i] = row]
      BY <2>1 DEF applied
    <3> HIDE DEF row
    <3>5. Replaces(i, row)
      BY <3>1, <3>3, <3>4 DEF Replaces
    <3>6. NamesRoute(m.from, row[m.from])
      <4>1. PICK r \in requests :
              r.to = m.from /\ pending[i] = Reserved(r) /\ m = Reply(r, m.status)
        BY <1>2, <2>1, AwaitedRequest
      <4>2. Committed(r)
        BY <1>1, <2>1, <4>1 DEF AcceptedCommitted
      <4>3. pending[i].other = r.other /\ pending[i].epoch = r.epoch
        BY <4>1 DEF Reserved
      <4>4. row[m.from].ids = r.other /\ row[m.from].assign = r.epoch
        BY <1>2, <3>1, <3>3, <4>3
      <4>5. QED
        BY <4>1, <4>2, <4>4 DEF Committed, NamesRoute
    <3>7. ASSUME NEW k \in Drone, i < k PROVE NamesRoute(k, row[k])
      <4>1. k # i
        BY <3>7, DroneAssumption
      <4>2. CASE k = m.from
        BY <3>6, <4>2
      <4>3. CASE k # m.from
        <5>1. row[k] = swarm[i][k]
          BY <3>1, <3>3, <4>1, <4>3
        <5>2. QED
          BY <1>1, <3>7, <5>1 DEF VersionNamesRoute
      <4>4. QED
        BY <4>2, <4>3
    <3>8. VersionNamesRoute'
      BY <1>1, <1>3, <1>4, <3>5, <3>7, RowsName
    <3>9. AttemptsRise
      BY <1>1, <1>3, <3>5, ReplacesAttempts
    <3>10. QED
      BY <3>8, <3>9
  <2>2. CASE swarm' = swarm
    <3>1. VersionNamesRoute'
      BY <1>1, <1>3, <2>2, SameRowsName
    <3>2. now' \in Nat /\ now' >= now
      BY <1>1, <1>3 DEF TypeOK
    <3>3. AttemptsRise
      BY <1>1, <2>2, <3>2, SameAttempts
    <3>4. QED
      BY <3>1, <3>3
  <2>3. QED
    BY <2>1, <2>2 DEF ReceiveResponse
<1>6. RequestsCover'
  BY <1>1, <1>3, <1>4, RequestStays DEF RequestsCover
<1>7. AcceptedCommitted'
  BY <1>1, <1>3, <1>4, RequestStays DEF AcceptedCommitted, Reply
<1>8. AttemptsPast'
  <2>1. ASSUME NEW r \in requests PROVE r.stamp <= Own(r.from)'.attempt
    <3>1. r.from \in Drone /\ r.stamp \in Nat
      BY <1>1 DEF TypeOK, Request
    <3>2. Own(r.from).attempt \in Nat /\ Own(r.from)'.attempt \in Nat
      BY <1>1, <3>1 DEF TypeOK, Own, DroneState
    <3>3. r.stamp <= Own(r.from).attempt /\ Own(r.from)'.attempt >= Own(r.from).attempt
      BY <1>1, <1>5, <3>1 DEF AttemptsPast, AttemptsRise
    <3>4. QED
      BY <3>1, <3>2, <3>3
  <2>2. QED
    BY <1>3, <1>5, <2>1 DEF AttemptsPast, AttemptsRise
<1>9. UniqueStamps' /\ Answers'
  BY <1>1, <1>3 DEF UniqueStamps, Answers, Reply
<1>10. PendingRequested'
  <2>1. SUFFICES ASSUME NEW k \in Drone, pending'[k].waiting
                 PROVE  \E r \in requests : r.from = k /\ pending'[k] = Reserved(r)
    BY <1>3 DEF PendingRequested, Reserved
  <2>2. pending \in [Drone -> Pending]
        /\ pending' = [pending EXCEPT ![i].waiting = @ /\ ~Awaited(i, m)]
    BY <1>1 DEF TypeOK, ReceiveResponse
  <2>3. pending'[k] = pending[k]
    <3>1. CASE k = i
      <4>1. pending'[i] = [pending[i] EXCEPT !.waiting = @ /\ ~Awaited(i, m)]
        BY <2>2
      <4>2. pending[i] \in Pending
        BY <2>2
      <4>3. pending'[i].waiting = (pending[i].waiting /\ ~Awaited(i, m))
        BY <4>1, <4>2, Zenon DEF Pending
      <4>4. (pending[i].waiting /\ ~Awaited(i, m)) = pending[i].waiting
        <5>1. pending[i].waiting \in BOOLEAN
          BY <4>2 DEF Pending
        <5>2. pending[i].waiting /\ ~Awaited(i, m)
          BY <2>1, <3>1, <4>3
        <5>3. QED
          BY <5>1, <5>2
      <4>5. [pending[i] EXCEPT !.waiting = @] = pending[i]
        BY <4>2 DEF Pending
      <4>6. QED
        BY <3>1, <4>1, <4>4, <4>5
    <3>2. CASE k # i
      BY <2>2, <3>2
    <3>3. QED
      BY <3>1, <3>2
  <2>4. QED
    BY <1>1, <2>1, <2>3 DEF PendingRequested
<1>11. QED
  BY <1>5, <1>6, <1>7, <1>8, <1>9, <1>10 DEF ExchangeInv

-----------------------------------------------------------------------------
(* Theorems *)

LEMMA TransferInit == Init => TransferInv
<1> SUFFICES ASSUME Init PROVE TransferInv
  OBVIOUS
<1>1. TypeOK /\ PendingRises
  BY TypeInit, InitRises
<1>2. /\ requests = {} /\ responses = {} /\ beacons = {} /\ now \in Nat
      /\ \A i \in Drone : ~pending[i].waiting
  BY <1>1 DEF Init, TypeOK
<1>3. \A i, j \in Drone : i # j => swarm[i][j] = InitialState
  BY DEF Init
<1>4. \A i \in Drone : Own(i).attempt = 0
  <2> DEFINE first == [g \in Grid |-> IF g \in Coarse THEN RediscoveryEpoch ELSE Absent]
             mine == [InitialState EXCEPT !.ids = Coarse,
                        !.assign = 16 * StartTime + 1, !.epochs = first]
  <2>1. InitialState.attempt = 0 /\ mine.attempt = 0
    BY DEF InitialState
  <2>2. \A i \in Drone : Own(i) = IF i = 1 THEN mine ELSE InitialState
    BY DEF Init, Own
  <2> HIDE DEF mine
  <2>3. QED
    BY <2>1, <2>2
<1>5. VersionNamesRoute
  <2>1. ASSUME NEW i \in Drone, NEW j \in Drone, i < j
        PROVE  NamesRoute(j, swarm[i][j])
    <3>1. i # j /\ j # 1
      BY <2>1, DroneAssumption
    <3>2. swarm[i][j] = InitialState /\ Own(j) = InitialState
      BY <1>3, <3>1 DEF Init, Own
    <3>3. InitialState.assign = 0
      BY DEF InitialState
    <3>4. QED
      BY <3>2, <3>3 DEF NamesRoute
  <2>2. QED
    BY <1>2, <2>1 DEF VersionNamesRoute
<1>6. ExchangeInv
  BY <1>2, <1>4 DEF ExchangeInv, RequestsCover, AcceptedCommitted, AttemptsPast,
     UniqueStamps, Answers, PendingRequested
<1>7. QED
  BY <1>1, <1>5, <1>6 DEF TransferInv

LEMMA TransferNext == TransferInv /\ [Next]_vars => TransferInv'
<1> SUFFICES ASSUME TransferInv, [Next]_vars PROVE TransferInv'
  OBVIOUS
<1>1. TypeOK /\ PendingRises
  BY DEF TransferInv
<1>2. TypeOK' /\ PendingRises'
  BY <1>1, TypeNext, PendingRisesNext
<1>3. VersionNamesRoute' /\ ExchangeInv'
  <2>1. CASE Tick \/ UNCHANGED vars
    BY <1>2, <2>1, TickTransfer
  <2>2. QED
    BY <1>2, <2>1, UpdateRouteTransfer, BroadcastStateTransfer,
       ReceiveStateTransfer, OptTimerTransfer, ReceiveRequestTransfer,
       ReceiveResponseTransfer DEF Next
<1>4. QED
  BY <1>2, <1>3 DEF TransferInv

(* A version names one route: whatever is lost, late or repeated, what a     *)
(* robot knows of a higher one is outdated by its version or exactly the     *)
(* route its owner holds.                                                    *)
THEOREM VersionsNameRoutes == Spec => []VersionNamesRoute
<1>1. TransferInv => VersionNamesRoute
  BY DEF TransferInv
<1>2. QED
  BY <1>1, TransferInit, TransferNext, PTL DEF Spec

(* What an accepted request or an applied exchange replaces.                *)
LossFree ==
  /\ \A m \in requests : Commits(m) => Own(m.to).ids \subseteq m.ego \cup m.other
  /\ \A i \in Drone : Applies(i) =>
       Own(i).ids \subseteq pending[i].ego \cup pending[i].other

LEMMA LossFreeNext ==
  ASSUME TransferInv, [Next]_vars
  PROVE  LossFree
<1>1. /\ TypeOK /\ RequestsCover /\ UniqueStamps
  BY DEF TransferInv, ExchangeInv
<1>2. ASSUME NEW m \in requests, Commits(m)
      PROVE  Own(m.to).ids \subseteq m.ego \cup m.other
  <2>1. responses' # responses /\ Reply(m, 1) \in responses' \ responses
    BY <1>2 DEF Commits
  <2>2. PICK j \in Drone, q \in requests : ReceiveRequest(j, q)
    BY <2>1 DEF Next, vars, Tick, UpdateRoute, BroadcastState, ReceiveState,
       OptTimer, ReceiveResponse, exchangeVars
  <2>3. (Reply(q, 1) = Reply(m, 1) /\ Acceptable(j, q)) \/ Reply(q, 2) = Reply(m, 1)
    BY <2>1, <2>2 DEF ReceiveRequest
  <2>4. q = m /\ Acceptable(j, q)
    BY <1>1, <2>3, OneRequest
  <2>5. m.to = j /\ Own(j).assign = m.expOther
    BY <2>2, <2>4 DEF ReceiveRequest, Acceptable, Own
  <2>6. CoversEnd(m, m.to, m.expOther)
    BY <1>1 DEF RequestsCover
  <2>7. QED
    BY <2>5, <2>6 DEF CoversEnd
<1>3. ASSUME NEW i \in Drone, Applies(i)
      PROVE  Own(i).ids \subseteq pending[i].ego \cup pending[i].other
  <2>1. pending[i].waiting /\ ~pending[i].waiting' /\ Own(i)' # Own(i)
    BY <1>3 DEF Applies
  <2>2. pending' # pending
    BY <2>1
  <2>3. CASE \E k \in Drone : OptTimer(k)
    <3>1. PICK k \in Drone : OptTimer(k)
      BY <2>3
    <3>a. PICK j \in Drone : \E c : Offering(k, j, c)
      BY <1>1, <2>2, <3>1, OptTimerCases
    <3>2. PICK c : Offering(k, j, c)
      BY <3>a
    <3>3. PICK m : pending' = [pending EXCEPT ![k] = Reserved(m)]
      BY <1>1, <3>2, OfferingShape
    <3>4. Reserved(m).waiting
      BY DEF Reserved
    <3>5. pending'[i] = IF i = k THEN Reserved(m) ELSE pending[i]
      BY <1>1, <3>3 DEF TypeOK
    <3>6. QED
      BY <2>1, <3>4, <3>5
  <2>4. CASE \E k \in Drone : \E m \in responses : ReceiveResponse(k, m)
    <3>1. PICK k \in Drone, m \in responses : ReceiveResponse(k, m)
      BY <2>4
    <3>2. k = i
      <4>1. SUFFICES ASSUME k # i PROVE FALSE
        OBVIOUS
      <4>2. pending' = [pending EXCEPT ![k].waiting = @ /\ ~Awaited(k, m)]
        BY <3>1 DEF ReceiveResponse
      <4>3. pending'[i] = pending[i]
        BY <1>1, <4>1, <4>2 DEF TypeOK
      <4>4. QED
        BY <2>1, <4>3
    <3>3. Awaited(i, m) /\ Matches(i, m) /\ m.to = i
      <4>1. swarm' # swarm
        BY <2>1 DEF Own
      <4>2. QED
        BY <3>1, <3>2, <4>1 DEF ReceiveResponse
    <3>4. PICK r \in requests : r.from = i /\ pending[i] = Reserved(r)
      BY <3>3, AwaitedRequest
    <3>5. Own(i).assign = r.expEgo
      BY <3>3, <3>4 DEF Matches, Reserved, Own
    <3>6. CoversEnd(r, r.from, r.expEgo)
      BY <1>1 DEF RequestsCover
    <3>7. QED
      BY <3>4, <3>5, <3>6 DEF CoversEnd, Reserved
  <2>5. QED
    BY <2>2, <2>3, <2>4 DEF Next, vars, exchangeVars, Tick, UpdateRoute,
       BroadcastState, ReceiveState, ReceiveRequest
<1>4. QED
  BY <1>2, <1>3 DEF LossFree

(* No exchange, however late its messages, replaces a route by lists that do *)
(* not account for every grid of it, at the receiver or at the sender.       *)
THEOREM TransfersLoseNothing == Spec => TransferLosesNothing
<1>1. TransferInv /\ [Next]_vars =>
        [/\ \A m \in requests : Commits(m) => Own(m.to).ids \subseteq m.ego \cup m.other
         /\ \A i \in Drone : Applies(i) =>
              Own(i).ids \subseteq pending[i].ego \cup pending[i].other]_vars
  BY LossFreeNext DEF LossFree
<1>2. QED
  BY <1>1, TransferInit, TransferNext, PTL DEF Spec, TransferLosesNothing

-----------------------------------------------------------------------------
(* The callbacks as steps of PairExchange *)

Version == [k \in Drone |-> Own(k).assign]
Route == [k \in Drone |-> Own(k).ids]
Offered == {OfferOf(m) : m \in requests}
Taken == {OfferOf(m) : m \in {r \in requests : Reply(r, 1) \in responses}}

OthersKept(i) == \A k \in Drone \ {i} : Own(k)' = Own(k)

LEMMA ReplacesKeepsOthers ==
  ASSUME TypeOK, NEW i \in Drone, NEW row, Replaces(i, row)
  PROVE  OthersKept(i) /\ Own(i)' = row[i]
BY DEF TypeOK, Replaces, Own, OthersKept

LEMMA OneRowChanges ==
  ASSUME TypeOK', NEW i \in Drone, OthersKept(i)
  PROVE  Exchange!Changes(i)
<1>1. Own(i)'.assign \in Nat
  BY DEF TypeOK, Own, DroneState
<1>2. /\ Version'[i] = Own(i)'.assign
      /\ Version' = [Version EXCEPT ![i] = Version'[i]]
      /\ Route' = [Route EXCEPT ![i] = Route'[i]]
  BY DEF Version, Route, OthersKept
<1>3. QED
  BY <1>1, <1>2 DEF Exchange!Changes, Version, Route

(* One row changes, and only under a higher version.                        *)
LEMMA RowTouched ==
  ASSUME TypeOK, TypeOK', NEW i \in Drone, OthersKept(i), Rises(i)
  PROVE  Exchange!Touch(i)
<1>1. /\ Own(i).assign \in Nat /\ Own(i)'.assign \in Nat
      /\ Own(i)'.ids \subseteq Grid
  BY DEF TypeOK, Own, DroneState
<1>2. CASE Own(i)'.assign = Own(i).assign
  <2>1. Own(i)'.ids = Own(i).ids
    BY <1>1, <1>2 DEF Rises
  <2>2. Version' = Version /\ Route' = Route
    BY <1>2, <2>1 DEF Version, Route, OthersKept
  <2>3. QED
    BY <2>2 DEF Exchange!Touch, Version, Route
<1>3. CASE Own(i)'.assign > Own(i).assign
  <2>1. Exchange!Changes(i)
    BY OneRowChanges
  <2>2. Version'[i] > Version[i] /\ Route'[i] \subseteq Grid
    BY <1>1, <1>3 DEF Version, Route
  <2>3. QED
    BY <2>1, <2>2 DEF Exchange!Touch, Version, Route
<1>4. QED
  BY <1>1, <1>2, <1>3 DEF Rises

LEMMA LocalStep ==
  ASSUME TypeOK, TypeOK', NEW i \in Drone, OthersKept(i), Rises(i),
         UNCHANGED <<requests, Taken>>
  PROVE  Exchange!Local(i)
<1>1. Offered' = Offered /\ Taken' = Taken
  BY DEF Offered, OfferOf
<1>2. QED
  BY <1>1, RowTouched DEF Exchange!Local, Offered, Taken

LEMMA TakenStays ==
  ASSUME UNCHANGED <<requests, responses>>
  PROVE  Taken' = Taken
BY DEF Taken, OfferOf, Reply

LEMMA TakenAfterAnswer ==
  ASSUME UniqueStamps, NEW m \in requests, NEW status,
         responses' = responses \cup {Reply(m, status)}, requests' = requests
  PROVE  Taken' = IF status = 1 THEN Taken \cup {OfferOf(m)} ELSE Taken
<1>1. ASSUME NEW r \in requests, Reply(r, 1) = Reply(m, status)
      PROVE  r = m /\ status = 1
  BY <1>1, OneRequest
<1>2. \A r \in requests : Reply(r, 1) \in responses' <=>
        (Reply(r, 1) \in responses \/ (r = m /\ status = 1))
  BY <1>1
<1>3. Taken' = {OfferOf(r) : r \in {q \in requests : Reply(q, 1) \in responses'}}
  BY DEF Taken, OfferOf, Reply
<1>4. QED
  BY <1>2, <1>3 DEF Taken

LEMMA UpdateRouteRefines ==
  ASSUME TypeOK, TypeOK', NEW i \in Drone, UpdateRoute(i)
  PROVE  Exchange!Local(i)
<1>1. PICK route \in SUBSET Grid, copies \in SUBSET Grid : RowStep(i, route, copies)
  BY UpdateRouteShape
<1>2. OthersKept(i)
  BY <1>1 DEF RowStep, OthersKept, Own, TypeOK
<1>3. UNCHANGED <<requests, responses>>
  BY DEF UpdateRoute, exchangeVars
<1>4. Rises(i)
  BY UpdateRouteRises
<1>5. QED
  BY <1>2, <1>3, <1>4, TakenStays, LocalStep

LEMMA StateRefines ==
  ASSUME TypeOK, TypeOK', NEW i \in Drone,
         BroadcastState(i) \/ \E m \in beacons : ReceiveState(i, m)
  PROVE  Exchange!Local(i)
<1>1. OthersKept(i)
  <2>1. \E row : swarm' = [swarm EXCEPT ![i] = row]
    BY DEF BroadcastState, ReceiveState
  <2>2. QED
    BY <2>1 DEF OthersKept, Own, TypeOK
<1>2. UNCHANGED <<requests, responses>>
  BY DEF BroadcastState, ReceiveState, exchangeVars
<1>3. Rises(i)
  BY BroadcastStateRises, ReceiveStateRises
<1>4. QED
  BY <1>1, <1>2, <1>3, TakenStays, LocalStep

LEMMA OfferRefines ==
  ASSUME TransferInv, TypeOK', ExchangeInv', NEW i \in Drone, NEW j \in Drone, NEW c,
         OptTimer(i), Offering(i, j, c)
  PROVE  Exchange!Propose(i)
<1>1. TypeOK /\ ExchangeInv /\ RequestsCover' /\ UniqueStamps' /\ Answers
      /\ AttemptsPast
  BY DEF TransferInv, ExchangeInv
<1>2. PICK m :
        /\ requests' = requests \cup {m}
        /\ m.from = i /\ m.to = j /\ m.stamp = now
        /\ m.expEgo = Tried(i)[i].assign
        /\ m.epoch > m.expEgo /\ m.epoch > m.expOther
        /\ Own(i)'.assign = Tried(i)[i].assign
        /\ \A k \in Drone \ {i} : Own(k)' = Own(k)
  BY <1>1, OfferingShape
<1>3. OthersKept(i) /\ Rises(i) /\ responses' = responses
  BY <1>1, <1>2, OptTimerRises DEF OthersKept, OptTimer
<1>4. Exchange!Touch(i)
  BY <1>1, <1>3, RowTouched
<1> DEFINE o == OfferOf(m)
<1>5. /\ o.from = m.from /\ o.to = m.to /\ o.expEgo = m.expEgo
      /\ o.expOther = m.expOther /\ o.epoch = m.epoch
      /\ o.ego = m.ego /\ o.other = m.other
  BY DEF OfferOf
<1>6. o \in Exchange!Offer
  <2>1. m \in Request
    BY <1>2 DEF TypeOK
  <2>2. QED
    BY <2>1 DEF Request, OfferOf, Exchange!Offer
<1>7. Offered' = Offered \cup {o}
  BY <1>2 DEF Offered, OfferOf
<1>8. Reply(m, 1) \notin responses
  BY <1>2, StampIsNew
<1>9. Taken' = Taken
  BY <1>2, <1>3, <1>8 DEF Taken, OfferOf, Reply
<1> HIDE DEF o
<1>10. Exchange!Covers(o, i, o.expEgo)' /\ Exchange!Covers(o, j, o.expOther)'
  <2>1. CoversEnd(m, i, m.expEgo)' /\ CoversEnd(m, j, m.expOther)'
    BY <1>1, <1>2 DEF RequestsCover
  <2>2. QED
    BY <1>5, <2>1 DEF CoversEnd, Exchange!Covers
<1>11. Version'[i] = o.expEgo
  BY <1>2, <1>5 DEF Version
<1>12. i # j
  BY DroneAssumption DEF Offering
<1>13. QED
  BY <1>2, <1>4, <1>5, <1>6, <1>7, <1>9, <1>10, <1>11, <1>12
  DEF Exchange!Propose, Version, Offered, Taken

LEMMA OptTimerRefines ==
  ASSUME TransferInv, TypeOK', ExchangeInv', NEW i \in Drone, OptTimer(i)
  PROVE  Exchange!Local(i) \/ Exchange!Propose(i)
<1>1. TypeOK
  BY DEF TransferInv
<1>2. CASE /\ UNCHANGED <<pending, requests>>
           /\ \E row : Replaces(i, row) /\ PeersKept(i, row)
  <2>1. OthersKept(i)
    BY <1>1, <1>2, ReplacesKeepsOthers
  <2>2. Rises(i)
    BY <1>1, OptTimerRises
  <2>3. UNCHANGED <<requests, responses>>
    BY <1>2 DEF OptTimer
  <2>4. QED
    BY <1>1, <2>1, <2>2, <2>3, TakenStays, LocalStep
<1>3. ASSUME NEW j \in Drone, NEW c, Offering(i, j, c)
      PROVE  Exchange!Propose(i)
  BY <1>3, OfferRefines
<1>4. QED
  BY <1>1, <1>2, <1>3, OptTimerCases

LEMMA ReceiveRequestRefines ==
  ASSUME TransferInv, TypeOK', NEW j \in Drone, NEW m \in requests,
         ReceiveRequest(j, m)
  PROVE  Exchange!Local(j) \/ Exchange!Accept(j)
<1>1. TypeOK /\ UniqueStamps
  BY DEF TransferInv, ExchangeInv
<1>2. m \in Request /\ m.to = j /\ m.from # j /\ requests' = requests
  BY <1>1 DEF TypeOK, ReceiveRequest
<1>3. CASE /\ swarm' = [swarm EXCEPT ![j] = CommittedRow(j, m)] /\ Acceptable(j, m)
           /\ responses' = responses \cup {Reply(m, 1)}
  <2> DEFINE row == CommittedRow(j, m)
             o == OfferOf(m)
  <2>1. /\ row[j].ids = m.other /\ row[j].assign = m.epoch
        /\ swarm' = [swarm EXCEPT ![j] = row]
    BY <1>1, <1>2, <1>3, CommittedRowType
  <2> HIDE DEF row
  <2>2. Own(j)' = row[j] /\ OthersKept(j)
    BY <1>1, <2>1 DEF Own, TypeOK, OthersKept
  <2>3. Version[j] = o.expOther /\ o.to = j
    BY <1>2, <1>3 DEF Acceptable, OfferOf, Version, Own
  <2>4. /\ Version' = [Version EXCEPT ![j] = o.epoch]
        /\ Route' = [Route EXCEPT ![j] = o.other]
    BY <2>1, <2>2 DEF Version, Route, OthersKept, OfferOf
  <2>5. Taken' = Taken \cup {o}
    BY <1>1, <1>2, <1>3, TakenAfterAnswer
  <2>6. o \in Offered /\ Offered' = Offered
    BY <1>2 DEF Offered, OfferOf
  <2> HIDE DEF o
  <2>7. Exchange!Accept(j)
    BY <2>3, <2>4, <2>5, <2>6 DEF Exchange!Accept, Version, Route, Offered, Taken
  <2>8. QED
    BY <2>7
<1>4. CASE swarm' = swarm /\ responses' = responses \cup {Reply(m, 2)}
  <2>1. Taken' = Taken
    <3>1. 2 # 1
      OBVIOUS
    <3>2. QED
      BY <1>1, <1>2, <1>4, <3>1, TakenAfterAnswer
  <2>2. OthersKept(j) /\ Rises(j)
    BY <1>1, <1>4, SameRowsRise DEF OthersKept, Own
  <2>3. QED
    BY <1>1, <1>2, <2>1, <2>2, LocalStep
<1>5. QED
  BY <1>3, <1>4 DEF ReceiveRequest

LEMMA ReceiveResponseRefines ==
  ASSUME TransferInv, TypeOK', NEW i \in Drone, NEW m \in responses,
         ReceiveResponse(i, m)
  PROVE  Exchange!Local(i) \/ Exchange!Apply(i)
<1>1. TypeOK
  BY DEF TransferInv
<1>2. /\ m.from \in Drone /\ m.from # i /\ m.to = i
      /\ UNCHANGED <<requests, responses>>
  BY <1>1 DEF TypeOK, Response, ReceiveResponse
<1>3. CASE /\ swarm' = [swarm EXCEPT ![i] = Reconciled(i, AppliedRow(i, m.from), {})]
           /\ Awaited(i, m) /\ m.status = 1 /\ Matches(i, m)
  <2>1. PICK r \in requests :
          r.from = i /\ pending[i] = Reserved(r) /\ m = Reply(r, m.status)
    BY <1>2, <1>3, AwaitedRequest
  <2> DEFINE applied == AppliedRow(i, m.from)
             row == Reconciled(i, applied, {})
             o == OfferOf(r)
  <2>2. /\ applied \in Row
        /\ applied[i].ids = pending[i].ego /\ applied[i].assign = pending[i].epoch
        /\ now \in Nat
    BY <1>1, <1>2, AppliedRowType DEF TypeOK
  <2> HIDE DEF applied
  <2>3. /\ row \in Row /\ row[i].ids \subseteq applied[i].ids
        /\ row[i] = applied[i] \/ row[i].assign > applied[i].assign
    BY <2>2, ReconciledRow
  <2>4. swarm' = [swarm EXCEPT ![i] = row]
    BY <1>3 DEF applied
  <2> HIDE DEF row
  <2>5. Own(i)' = row[i] /\ OthersKept(i)
    BY <1>1, <2>4 DEF Own, TypeOK, OthersKept
  <2>6. /\ o.from = i /\ o.ego = pending[i].ego /\ o.epoch = pending[i].epoch
        /\ o.expEgo = pending[i].expEgo
    BY <2>1 DEF OfferOf, Reserved
  <2>7. o \in Taken /\ Offered' = Offered /\ Taken' = Taken
    BY <1>2, <1>3, <2>1, TakenStays DEF Taken, Offered, OfferOf
  <2> HIDE DEF o
  <2>8. Version[i] = o.expEgo
    BY <1>3, <2>6 DEF Matches, Version, Own
  <2>9. row[i].assign \in Nat /\ applied[i].assign \in Nat
    BY <2>2, <2>3 DEF Row, DroneState
  <2>10. /\ Version'[i] >= o.epoch
         /\ Route'[i] \subseteq o.ego
         /\ Version'[i] = o.epoch => Route'[i] = o.ego
    <3>1. Version'[i] = row[i].assign /\ Route'[i] = row[i].ids
      BY <2>5 DEF Version, Route
    <3>2. QED
      BY <2>2, <2>3, <2>6, <2>9, <3>1
  <2>11. Exchange!Changes(i)
    BY <2>5, OneRowChanges
  <2>12. Exchange!Apply(i)
    BY <2>6, <2>7, <2>8, <2>10, <2>11
    DEF Exchange!Apply, Version, Route, Offered, Taken
  <2>13. QED
    BY <2>12
<1>4. CASE swarm' = swarm
  <2>1. OthersKept(i) /\ Rises(i)
    BY <1>1, <1>4, SameRowsRise DEF OthersKept, Own
  <2>2. QED
    BY <1>1, <1>2, <2>1, TakenStays, LocalStep
<1>5. QED
  BY <1>3, <1>4 DEF ReceiveResponse

LEMMA ExchangeInit == Init => Exchange!Init
<1> SUFFICES ASSUME Init PROVE Exchange!Init
  OBVIOUS
<1>1. TypeOK /\ requests = {} /\ responses = {}
  BY TypeInit DEF Init
<1>2. Version \in [Drone -> Nat] /\ Route \in [Drone -> SUBSET Grid]
  BY <1>1 DEF Version, Route, TypeOK, Own, DroneState
<1>3. Offered = {} /\ Taken = {}
  BY <1>1 DEF Offered, Taken
<1>4. QED
  BY <1>2, <1>3 DEF Exchange!Init, Version, Route, Offered, Taken

LEMMA ExchangeStep ==
  ASSUME TransferInv, TransferInv', [Next]_vars
  PROVE  [Exchange!Next]_Exchange!vars
<1>1. TypeOK /\ TypeOK' /\ ExchangeInv'
  BY DEF TransferInv
<1>2. CASE Tick \/ UNCHANGED vars
  <2>1. UNCHANGED <<swarm, requests, responses>>
    BY <1>2 DEF Tick, vars, exchangeVars
  <2>2. Version' = Version /\ Route' = Route /\ Offered' = Offered
    BY <2>1 DEF Version, Route, Offered, OfferOf, Own
  <2>3. Taken' = Taken
    BY <2>1, TakenStays
  <2>4. QED
    BY <2>2, <2>3 DEF Exchange!vars, Version, Route, Offered, Taken
<1>3. ASSUME NEW i \in Drone,
             \/ UpdateRoute(i) \/ BroadcastState(i)
             \/ \E m \in beacons : ReceiveState(i, m)
             \/ OptTimer(i)
             \/ \E m \in requests : ReceiveRequest(i, m)
             \/ \E m \in responses : ReceiveResponse(i, m)
      PROVE  Exchange!Next
  <2>1. \/ Exchange!Local(i) \/ Exchange!Propose(i)
        \/ Exchange!Accept(i) \/ Exchange!Apply(i)
    BY <1>1, <1>3, UpdateRouteRefines, StateRefines, OptTimerRefines,
       ReceiveRequestRefines, ReceiveResponseRefines
  <2>2. QED
    BY <2>1 DEF Exchange!Next
<1>4. QED
  BY <1>2, <1>3 DEF Next

(* On the drones' own rows, the callbacks of the pair optimization are steps *)
(* of the abstract exchange protocol, or leave its state alone.             *)
THEOREM CallbacksImplementExchange == Spec => ImplementsExchange
BY ExchangeInit, ExchangeStep, TransferInit, TransferNext, PTL
DEF Spec, ImplementsExchange, Exchange!Spec

(* What the abstract protocol promises holds of the callbacks' own rows: a   *)
(* request that any robot may still accept, however late it arrives, leaves  *)
(* out none of the grids of the rows it replaces.                            *)
THEOREM RequestsAlwaysCover == Spec => []Exchange!OffersCover
BY CallbacksImplementExchange, Exchange!OffersAlwaysCover, PTL
DEF ImplementsExchange

-----------------------------------------------------------------------------
(* The only loss of the pair optimization: a grid without an owner is in an  *)
(* exchange whose receiver has committed and whose sender has not taken its  *)
(* lists.                                                                    *)
(*                                                                           *)
(* The argument: a claim is an epoch and a robot.  A living claim is one     *)
(* that an owner makes, or a half-taken exchange makes for its sender.       *)
(* Every claim that is recorded anywhere (a row, a state on its way, an      *)
(* accepted exchange) is matched by a living claim that is as strong.  A     *)
(* robot drops a grid only for a recorded claim stronger than its own, so    *)
(* the living claim behind it is another one and stays.                      *)

(* Claims *)

LEMMA ClaimNat ==
  ASSUME NEW s \in DroneState, NEW g \in Grid
  PROVE  Claim(s, g) \in Nat
BY DEF Claim, DroneState

LEMMA BoundedClaim ==
  ASSUME NEW s \in DroneState, RowBounded(s), NEW g \in Grid
  PROVE  Claim(s, g) <= s.assign
BY DEF Claim, DroneState, RowBounded

(* A claim that is as strong as a held one's witness holds the weaker one.  *)
LEMMA WeakerHeld ==
  ASSUME NEW own \in Row, NEW hf \in SUBSET Request, NEW g \in Grid,
         NEW e \in Nat, NEW j \in Drone, NEW f \in Nat, NEW k \in Drone,
         Held(own, hf, g, e, j), AtLeast(e, j, f, k)
  PROVE  Held(own, hf, g, f, k)
<1>1. \A n \in Drone : n \in Nat
  BY DroneAssumption
<1>2. ASSUME NEW n \in Drone, g \in own[n].ids, AtLeast(Claim(own[n], g), n, e, j)
      PROVE  Held(own, hf, g, f, k)
  <2>1. Claim(own[n], g) \in Nat
    BY ClaimNat DEF Row
  <2>2. AtLeast(Claim(own[n], g), n, f, k)
    BY <1>1, <1>2, <2>1 DEF AtLeast
  <2>3. QED
    BY <1>2, <2>2 DEF Held
<1>3. ASSUME NEW m \in hf, g \in m.ego, AtLeast(m.epoch, m.from, e, j)
      PROVE  Held(own, hf, g, f, k)
  <2>1. m.epoch \in Nat /\ m.from \in Drone
    BY DEF Request
  <2>2. AtLeast(m.epoch, m.from, f, k)
    BY <1>1, <1>3, <2>1 DEF AtLeast
  <2>3. QED
    BY <1>3, <2>2 DEF Held
<1>4. QED
  BY <1>2, <1>3 DEF Held

(* Every claim held before is held after.                                   *)
KeepsHeld(own, hf, new, hfNew) ==
  \A g \in Grid, f \in Nat, k \in Drone :
    Held(own, hf, g, f, k) => Held(new, hfNew, g, f, k)

(* It is enough that the living claims are.                                 *)
LEMMA LivingKept ==
  ASSUME NEW own \in Row, NEW hf \in SUBSET Request,
         NEW new \in Row, NEW hfNew \in SUBSET Request,
         \A j \in Drone : SaidHeld(new, hfNew, own[j], j),
         \A m \in hf : \A g \in m.ego : Held(new, hfNew, g, m.epoch, m.from)
  PROVE  KeepsHeld(own, hf, new, hfNew)
<1> SUFFICES ASSUME NEW g \in Grid, NEW f \in Nat, NEW k \in Drone,
                    Held(own, hf, g, f, k)
             PROVE  Held(new, hfNew, g, f, k)
  BY DEF KeepsHeld
<1>1. ASSUME NEW j \in Drone, g \in own[j].ids, AtLeast(Claim(own[j], g), j, f, k)
      PROVE  Held(new, hfNew, g, f, k)
  <2>1. Claim(own[j], g) \in Nat
    BY ClaimNat DEF Row
  <2>2. Held(new, hfNew, g, Claim(own[j], g), j)
    BY <1>1 DEF SaidHeld
  <2>3. QED
    BY <1>1, <2>1, <2>2, WeakerHeld
<1>2. ASSUME NEW m \in hf, g \in m.ego, AtLeast(m.epoch, m.from, f, k)
      PROVE  Held(new, hfNew, g, f, k)
  <2>1. m.epoch \in Nat /\ m.from \in Drone
    BY DEF Request
  <2>2. QED
    BY <1>2, <2>1, WeakerHeld
<1>3. QED
  BY <1>1, <1>2 DEF Held

LEMMA SaidStaysHeld ==
  ASSUME NEW own, NEW hf, NEW new, NEW hfNew, KeepsHeld(own, hf, new, hfNew),
         NEW s \in DroneState \cup Beacon, NEW k \in Drone, SaidHeld(own, hf, s, k)
  PROVE  SaidHeld(new, hfNew, s, k)
<1>1. \A g \in s.ids : g \in Grid /\ Claim(s, g) \in Nat
  BY DEF Claim, DroneState, Beacon
<1>2. QED
  BY <1>1 DEF SaidHeld, KeepsHeld

LEMMA ExchangeStaysHeld ==
  ASSUME NEW own, NEW hf, NEW new, NEW hfNew, KeepsHeld(own, hf, new, hfNew),
         NEW m \in Request, ExchangeHeld(own, hf, m)
  PROVE  ExchangeHeld(new, hfNew, m)
<1>1. /\ m.from \in Drone /\ m.to \in Drone /\ m.epoch \in Nat
      /\ m.ego \subseteq Grid /\ m.other \subseteq Grid
  BY DEF Request
<1>2. QED
  BY <1>1 DEF ExchangeHeld, KeepsHeld

(* An owner's claims are living, and so held.                               *)
LEMMA OwnHeld ==
  ASSUME NEW own \in Row, NEW hf, NEW k \in Drone
  PROVE  SaidHeld(own, hf, own[k], k)
<1> SUFFICES ASSUME NEW g \in own[k].ids
             PROVE  Held(own, hf, g, Claim(own[k], g), k)
  BY DEF SaidHeld
<1>1. k \in Nat
  BY DroneAssumption
<1>2. AtLeast(Claim(own[k], g), k, Claim(own[k], g), k)
  BY <1>1 DEF AtLeast
<1>3. QED
  BY <1>2 DEF Held

-----------------------------------------------------------------------------
(* Reconciliation *)

(* Rows that say the same about routes.                                     *)
SameRoute(s, t) == s.ids = t.ids /\ s.epochs = t.epochs /\ s.assign = t.assign

LEMMA SameRouteClaims ==
  ASSUME NEW s, NEW t, SameRoute(s, t)
  PROVE  s.ids = t.ids /\ \A g \in Grid : Claim(s, g) = Claim(t, g)
BY DEF SameRoute, Claim

(* A grid leaves for a stronger claim only, and the claim of one that stays  *)
(* never sinks.                                                             *)
LEMMA ReconciledClaims ==
  ASSUME NEW i \in Drone, NEW row \in Row, NEW copies \in SUBSET Grid, now \in Nat,
         RowBounded(row[i]), NEW g \in row[i].ids
  PROVE  \/ /\ g \in Reconciled(i, row, copies)[i].ids
            /\ Claim(Reconciled(i, row, copies)[i], g) >= Claim(row[i], g)
         \/ /\ g \notin Reconciled(i, row, copies)[i].ids
            /\ Outranked(i, row, g)
<1> DEFINE lost == {n \in row[i].ids : Outranked(i, row, n)}
           touched == lost \cup copies
           next == nextAssignmentEpoch(i, row[i].assign, row[i].assign)
           left == [n \in Grid |->
                      IF n \in touched THEN Absent ELSE row[i].epochs[n]]
           own == [row[i] EXCEPT !.ids = row[i].ids \ lost, !.epochs = left,
                                 !.assign = next]
<1>1. Reconciled(i, row, copies) = IF touched = {} THEN row ELSE [row EXCEPT ![i] = own]
  BY DEF Reconciled
<1>2. row[i] \in DroneState /\ g \in Grid
  BY DEF Row, DroneState
<1>3. next \in Nat /\ next > row[i].assign /\ row[i].assign \in Nat
  BY <1>2, NextEpochGrows DEF DroneState
<1>4. Claim(row[i], g) \in Nat /\ Claim(row[i], g) <= row[i].assign
  BY <1>2, ClaimNat, BoundedClaim
<1>5. g \in lost <=> Outranked(i, row, g)
  OBVIOUS
<1> HIDE DEF lost, next
<1>6. CASE touched = {}
  BY <1>1, <1>4, <1>6
<1>7. CASE touched # {}
  <2>1. Reconciled(i, row, copies)[i] = own
    BY <1>1, <1>7 DEF Row
  <2>2. /\ own.ids = row[i].ids \ lost /\ own.assign = next
        /\ own.epochs[g] = IF g \in touched THEN Absent ELSE row[i].epochs[g]
    BY <1>2 DEF DroneState
  <2>3. row[i].epochs[g] \in Nat
    BY <1>2 DEF DroneState
  <2> HIDE DEF own
  <2>4. Claim(own, g) >= Claim(row[i], g)
    <3>1. CASE own.epochs[g] = Absent
      BY <1>3, <1>4, <2>2, <3>1 DEF Claim
    <3>2. CASE own.epochs[g] # Absent
      BY <1>4, <2>2, <3>2 DEF Claim
    <3>3. QED
      BY <3>1, <3>2
  <2>5. QED
    BY <1>5, <2>1, <2>2, <2>4
<1>8. QED
  BY <1>6, <1>7

(* What drone i drops was claimed more strongly by somebody else: if all     *)
(* that its rows say is held, all that was held still is.                   *)
LEMMA ReconcileKeepsHeld ==
  ASSUME NEW i \in Drone, NEW row \in Row, NEW copies \in SUBSET Grid, now \in Nat,
         RowBounded(row[i]),
         NEW own \in Row, NEW hf \in SUBSET Request, own[i] = row[i],
         \A j \in Drone \ {i} : SaidHeld(own, hf, row[j], j),
         NEW s \in DroneState, SameRoute(s, Reconciled(i, row, copies)[i])
  PROVE  KeepsHeld(own, hf, [own EXCEPT ![i] = s], hf)
<1> DEFINE new == [own EXCEPT ![i] = s]
<1>1. new \in Row /\ new[i] = s /\ \A k \in Drone \ {i} : new[k] = own[k]
  BY DEF Row
<1> HIDE DEF new
<1>2. \A n \in Drone : n \in Nat
  BY DroneAssumption
<1>3. ASSUME NEW m \in hf, NEW g \in m.ego
      PROVE  Held(new, hf, g, m.epoch, m.from)
  <2>1. AtLeast(m.epoch, m.from, m.epoch, m.from)
    BY <1>2 DEF AtLeast, Request
  <2>2. QED
    BY <2>1 DEF Held
<1>4. ASSUME NEW j \in Drone, j # i
      PROVE  SaidHeld(new, hf, own[j], j)
  BY <1>1, <1>4, OwnHeld
<1>5. SaidHeld(new, hf, own[i], i)
  <2> SUFFICES ASSUME NEW g \in own[i].ids
               PROVE  Held(new, hf, g, Claim(own[i], g), i)
    BY DEF SaidHeld
  <2>1. g \in Grid /\ own[i] \in DroneState /\ row[i] \in DroneState
    BY DEF Row, DroneState
  <2> DEFINE c == Claim(row[i], g)
  <2>2. c \in Nat /\ Claim(own[i], g) = c
    BY <2>1, ClaimNat
  <2> HIDE DEF c
  <2>3. CASE /\ g \in Reconciled(i, row, copies)[i].ids
             /\ Claim(Reconciled(i, row, copies)[i], g) >= c
    <3>1. g \in s.ids /\ Claim(s, g) >= c /\ Claim(s, g) \in Nat
      BY <2>1, <2>3, SameRouteClaims, ClaimNat
    <3>2. AtLeast(Claim(new[i], g), i, c, i)
      BY <1>1, <1>2, <2>2, <3>1 DEF AtLeast
    <3>3. QED
      BY <1>1, <2>2, <3>1, <3>2 DEF Held
  <2>4. CASE Outranked(i, row, g)
    <3>1. PICK j \in Drone \ {i} :
            /\ g \in row[j].ids
            /\ Claim(row[j], g) > c \/ (Claim(row[j], g) = c /\ j < i)
      BY <2>4 DEF Outranked, c
    <3> DEFINE f == Claim(row[j], g)
    <3>2. f \in Nat /\ Held(own, hf, g, f, j)
      BY <2>1, <3>1, ClaimNat DEF SaidHeld, Row
    <3>3. f > c \/ (f = c /\ j < i)
      BY <3>1
    <3> HIDE DEF f
    <3>4. ASSUME NEW k \in Drone, g \in own[k].ids, AtLeast(Claim(own[k], g), k, f, j)
          PROVE  Held(new, hf, g, c, i)
      <4>1. k # i
        BY <1>2, <2>2, <3>2, <3>3, <3>4 DEF AtLeast
      <4>2. Claim(own[k], g) \in Nat
        BY <2>1, ClaimNat DEF Row
      <4>3. AtLeast(Claim(own[k], g), k, c, i)
        BY <1>2, <2>2, <3>2, <3>3, <3>4, <4>2 DEF AtLeast
      <4>4. QED
        BY <1>1, <3>4, <4>1, <4>3 DEF Held
    <3>5. ASSUME NEW m \in hf, g \in m.ego, AtLeast(m.epoch, m.from, f, j)
          PROVE  Held(new, hf, g, c, i)
      <4>1. m.epoch \in Nat /\ m.from \in Drone
        BY DEF Request
      <4>2. AtLeast(m.epoch, m.from, c, i)
        BY <1>2, <2>2, <3>2, <3>3, <3>5, <4>1 DEF AtLeast
      <4>3. QED
        BY <3>5, <4>2 DEF Held
    <3>6. QED
      BY <2>2, <3>2, <3>4, <3>5 DEF Held
  <2>5. QED
    BY <2>3, <2>4, ReconciledClaims DEF c
<1>6. QED
  BY <1>1, <1>3, <1>4, <1>5, LivingKept DEF new

-----------------------------------------------------------------------------
(* What a step has to show *)

LEMMA OwnRowsType ==
  ASSUME TypeOK
  PROVE  OwnRows \in Row /\ \A k \in Drone : OwnRows[k] = Own(k)
BY DEF TypeOK, Row, OwnRows, Own

LEMMA HalfType ==
  ASSUME TypeOK, HalfAccepted
  PROVE  half \in SUBSET Request
BY DEF TypeOK, HalfAccepted, Accepted

LEMMA RowChanged ==
  ASSUME TypeOK, NEW i \in Drone, NEW row \in Row, swarm' = [swarm EXCEPT ![i] = row]
  PROVE  OwnRows' = [OwnRows EXCEPT ![i] = row[i]]
BY DEF TypeOK, OwnRows, Own, Row

(* Drone i replaced its rows: what was held is, and what is new is too.      *)
LEMMA StepHeld ==
  ASSUME TypeOK, TypeOK', ClaimsHeld, HalfAccepted',
         NEW i \in Drone, NEW row \in Row, swarm' = [swarm EXCEPT ![i] = row],
         KeepsHeld(OwnRows, half, OwnRows', half'),
         \A j \in Drone \ {i} : SaidHeld(OwnRows', half', row[j], j),
         \A b \in beacons' : b \in beacons \/ SaidHeld(OwnRows', half', b, b.from),
         \A m \in Accepted' :
            m \in Accepted \/ (ExchangeHeld(OwnRows', half', m) /\ m.ego \cap m.other = {})
  PROVE  ClaimsHeld'
<1>1. RowsHeld /\ BeaconsHeld /\ AcceptedHeld /\ AcceptedApart /\ NoneLost
  BY DEF ClaimsHeld
<1>2. OwnRows' \in Row /\ \A k \in Drone : OwnRows'[k] = swarm'[k][k]
  BY DEF TypeOK, Row, OwnRows, Own
<1>3. RowsHeld'
  <2>1. ASSUME NEW k \in Drone, NEW j \in Drone
        PROVE  SaidHeld(OwnRows', half', swarm'[k][j], j)
    <3>1. CASE k # i
      <4>1. swarm'[k][j] = swarm[k][j] /\ swarm[k][j] \in DroneState
        BY <3>1 DEF TypeOK
      <4>2. SaidHeld(OwnRows, half, swarm[k][j], j)
        BY <1>1 DEF RowsHeld
      <4>3. QED
        BY <4>1, <4>2, SaidStaysHeld
    <3>2. CASE k = i /\ j # i
      BY <3>2 DEF TypeOK
    <3>3. CASE k = i /\ j = i
      BY <1>2, <3>3, OwnHeld
    <3>4. QED
      BY <3>1, <3>2, <3>3
  <2>2. QED
    BY <2>1 DEF RowsHeld
<1>4. BeaconsHeld'
  <2>1. ASSUME NEW b \in beacons' PROVE SaidHeld(OwnRows', half', b, b.from)
    <3>1. CASE b \in beacons
      <4>1. b \in Beacon /\ b.from \in Drone /\ SaidHeld(OwnRows, half, b, b.from)
        BY <1>1, <3>1 DEF TypeOK, Beacon, BeaconsHeld
      <4>2. QED
        BY <4>1, SaidStaysHeld
    <3>2. QED
      BY <3>1
  <2>2. QED
    BY <2>1 DEF BeaconsHeld
<1>5. AcceptedHeld'
  <2>1. ASSUME NEW m \in Accepted' PROVE ExchangeHeld(OwnRows', half', m)
    <3>1. CASE m \in Accepted
      <4>1. m \in Request /\ ExchangeHeld(OwnRows, half, m)
        BY <1>1, <3>1 DEF TypeOK, Accepted, AcceptedHeld
      <4>2. QED
        BY <4>1, ExchangeStaysHeld
    <3>2. QED
      BY <3>1
  <2>2. QED
    BY <2>1 DEF AcceptedHeld
<1>6. AcceptedApart'
  BY <1>1 DEF AcceptedApart
<1>7. NoneLost'
  <2>1. ASSUME NEW g \in Coarse PROVE \E k \in Drone : Held(OwnRows', half', g, 0, k)
    <3>1. PICK k \in Drone : Held(OwnRows, half, g, 0, k)
      BY <1>1 DEF NoneLost
    <3>2. g \in Grid /\ 0 \in Nat
      BY DEF Grid
    <3>3. QED
      BY <3>1, <3>2 DEF KeepsHeld
  <2>2. QED
    BY <2>1 DEF NoneLost
<1>8. QED
  BY <1>3, <1>4, <1>5, <1>6, <1>7 DEF ClaimsHeld

(* Drone i learned row, reconciled it, and went on with new.                *)
LEMMA LocalHeld ==
  ASSUME TypeOK, TypeOK', AllBounded, ClaimsHeld,
         half' = half, Accepted' = Accepted,
         NEW i \in Drone, NEW row \in Row, NEW copies \in SUBSET Grid,
         row[i] = Own(i),
         \A j \in Drone \ {i} : SaidHeld(OwnRows, half, row[j], j),
         NEW new \in Row, swarm' = [swarm EXCEPT ![i] = new],
         SameRoute(new[i], Reconciled(i, row, copies)[i]),
         \A j \in Drone \ {i} : SameRoute(new[j], row[j]),
         \A b \in beacons' : b \in beacons
           \/ (b.from = i /\ b.ids = new[i].ids
               /\ \A g \in b.ids : Claim(b, g) = Claim(new[i], g))
  PROVE  ClaimsHeld'
<1>1. HalfAccepted /\ half \in SUBSET Request
  BY HalfType DEF ClaimsHeld
<1>2. HalfAccepted'
  BY <1>1 DEF HalfAccepted
<1>3. OwnRows \in Row /\ OwnRows[i] = row[i]
  BY OwnRowsType
<1>4. RowBounded(row[i]) /\ now \in Nat
  BY DEF AllBounded, Bounded, Own, TypeOK
<1>5. OwnRows' = [OwnRows EXCEPT ![i] = new[i]]
  BY RowChanged
<1>6. new[i] \in DroneState
  BY DEF Row
<1>7. KeepsHeld(OwnRows, half, OwnRows', half')
  BY <1>1, <1>3, <1>4, <1>5, <1>6, ReconcileKeepsHeld
<1>8. ASSUME NEW j \in Drone \ {i} PROVE SaidHeld(OwnRows', half', new[j], j)
  <2>1. SaidHeld(OwnRows, half, new[j], j)
    <3>1. /\ new[j].ids = row[j].ids /\ row[j].ids \subseteq Grid
          /\ \A g \in Grid : Claim(new[j], g) = Claim(row[j], g)
      BY SameRouteClaims DEF Row, DroneState
    <3>2. QED
      BY <3>1 DEF SaidHeld
  <2>2. new[j] \in DroneState
    BY DEF Row
  <2>3. QED
    BY <1>7, <2>1, <2>2, SaidStaysHeld
<1>9. OwnRows' \in Row /\ OwnRows'[i] = new[i]
  BY <1>3, <1>5, <1>6 DEF Row
<1>10. SaidHeld(OwnRows', half', new[i], i)
  BY <1>9, OwnHeld
<1>11. \A b \in beacons' : b \in beacons \/ SaidHeld(OwnRows', half', b, b.from)
  BY <1>10 DEF SaidHeld
<1>12. QED
  BY <1>2, <1>7, <1>8, <1>11, StepHeld

(* Nothing that claims are about changes.                                   *)
LEMMA QuietHeld ==
  ASSUME ClaimsHeld, UNCHANGED <<swarm, half>>, beacons' \subseteq beacons,
         Accepted' = Accepted
  PROVE  ClaimsHeld'
<1>1. OwnRows' = OwnRows
  BY DEF OwnRows, Own
<1>2. QED
  BY <1>1 DEF ClaimsHeld, RowsHeld, BeaconsHeld, AcceptedHeld, AcceptedApart,
     HalfAccepted, NoneLost

(* Only an accepting receiver and a sender that takes its lists are followed. *)
LEMMA HalfStays ==
  ASSUME TypeOK, Follow, responses' = responses,
         \A k \in Drone : pending[k].waiting => pending'[k].waiting
  PROVE  half' = half
<1>1. \A m \in requests : ~Commits(m)
  BY DEF Commits
<1>2. \A m \in requests : ~Takes(m)
  BY DEF Takes, Applies, TypeOK, Request
<1>3. QED
  BY <1>1, <1>2 DEF Follow

LEMMA AcceptedStays ==
  ASSUME UNCHANGED <<requests, responses>>
  PROVE  Accepted' = Accepted
BY DEF Accepted, Reply

-----------------------------------------------------------------------------
(* The callbacks *)

LossInv == TransferInv /\ AllBounded /\ ClaimsHeld

LEMMA SnapshotClaims ==
  ASSUME NEW i \in Drone, NEW s \in DroneState
  PROVE  /\ Snapshot(i, s).from = i /\ Snapshot(i, s).ids = s.ids
         /\ \A g \in s.ids : Claim(Snapshot(i, s), g) = Claim(s, g)
<1> DEFINE b == Snapshot(i, s)
<1>1. /\ b.from = i /\ b.ids = s.ids /\ b.assign = s.assign
      /\ b.epochs = [g \in Grid |-> IF g \in s.ids THEN Claim(s, g) ELSE Absent]
  BY DEF Snapshot
<1> HIDE DEF b
<1>2. ASSUME NEW g \in s.ids PROVE Claim(b, g) = Claim(s, g)
  <2>1. g \in Grid
    BY DEF DroneState
  <2>2. b.epochs[g] = Claim(s, g)
    BY <1>1, <2>1
  <2>3. QED
    BY <1>1, <2>2 DEF Claim
<1>3. QED
  BY <1>1, <1>2 DEF b

LEMMA BroadcastStateHeld ==
  ASSUME LossInv, TypeOK', Follow, NEW i \in Drone, BroadcastState(i)
  PROVE  ClaimsHeld'
<1> DEFINE row == Reconciled(i, swarm[i], twice[i])
           own == [row[i] EXCEPT !.stamp = now]
           new == [row EXCEPT ![i] = own]
<1>1. TypeOK /\ AllBounded /\ ClaimsHeld
  BY DEF LossInv, TransferInv
<1>2. swarm[i] \in Row /\ twice[i] \in SUBSET Grid /\ now \in Nat
  BY <1>1 DEF TypeOK, Row
<1>3. row \in Row /\ \A j \in Drone \ {i} : row[j] = swarm[i][j]
  BY <1>2, ReconciledRow
<1>4. /\ swarm' = [swarm EXCEPT ![i] = new]
      /\ beacons' \subseteq beacons \cup {Snapshot(i, own)}
      /\ UNCHANGED <<requests, responses, pending>>
  BY DEF BroadcastState, exchangeVars
<1>5. own \in DroneState /\ SameRoute(own, row[i])
  BY <1>2, <1>3 DEF Row, DroneState, SameRoute
<1>6. /\ Snapshot(i, own).from = i /\ Snapshot(i, own).ids = own.ids
      /\ \A g \in own.ids : Claim(Snapshot(i, own), g) = Claim(own, g)
  BY <1>5, SnapshotClaims
<1> HIDE DEF own
<1>7. /\ new \in Row /\ new[i] = own
      /\ \A j \in Drone \ {i} : new[j] = swarm[i][j]
  BY <1>3, <1>5 DEF Row
<1> HIDE DEF new
<1>9. SameRoute(new[i], Reconciled(i, swarm[i], twice[i])[i])
  BY <1>5, <1>7
<1> HIDE DEF row
<1>10. half' = half /\ Accepted' = Accepted
  BY <1>1, <1>4, HalfStays, AcceptedStays
<1>11. \A j \in Drone \ {i} : SaidHeld(OwnRows, half, swarm[i][j], j)
  BY <1>1 DEF ClaimsHeld, RowsHeld
<1>12. \A j \in Drone \ {i} : SameRoute(new[j], swarm[i][j])
  BY <1>7 DEF SameRoute
<1>13. \A b \in beacons' : b \in beacons
         \/ (b.from = i /\ b.ids = new[i].ids
             /\ \A g \in b.ids : Claim(b, g) = Claim(new[i], g))
  BY <1>4, <1>6, <1>7
<1>14. swarm[i][i] = Own(i)
  BY DEF Own
<1>15. QED
  BY <1>1, <1>2, <1>4, <1>7, <1>9, <1>10, <1>11, <1>12, <1>13, <1>14, LocalHeld

LEMMA ReceiveStateHeld ==
  ASSUME LossInv, TypeOK', Follow, NEW i \in Drone, NEW m \in beacons,
         ReceiveState(i, m)
  PROVE  ClaimsHeld'
<1> DEFINE heard == [swarm[i][m.from] EXCEPT
                       !.ids = m.ids, !.epochs = m.epochs, !.assign = m.assign,
                       !.stamp = m.stamp, !.attempt = m.attempt]
           row == [swarm[i] EXCEPT ![m.from] = heard]
           new == Reconciled(i, row, twice[i])
<1>1. TypeOK /\ AllBounded /\ ClaimsHeld
  BY DEF LossInv, TransferInv
<1>2. /\ m \in Beacon /\ m.from \in Drone /\ m.from # i
      /\ swarm[i] \in Row /\ swarm[i][m.from] \in DroneState
      /\ twice[i] \in SUBSET Grid /\ now \in Nat
  BY <1>1 DEF TypeOK, Row, Beacon, ReceiveState
<1>3. heard \in DroneState /\ SameRoute(heard, m)
  BY <1>2 DEF DroneState, Beacon, SameRoute
<1>4. swarm' = [swarm EXCEPT ![i] = new]
      /\ UNCHANGED <<beacons, requests, responses, pending>>
  BY DEF ReceiveState, exchangeVars
<1> HIDE DEF heard
<1>5. /\ row \in Row /\ row[i] = Own(i) /\ row[m.from] = heard
      /\ \A j \in Drone \ {i, m.from} : row[j] = swarm[i][j]
  BY <1>2, <1>3 DEF Row, Own
<1> HIDE DEF row
<1>6. new \in Row /\ \A j \in Drone \ {i} : new[j] = row[j]
  BY <1>2, <1>5, ReconciledRow
<1>7. ASSUME NEW j \in Drone \ {i} PROVE SaidHeld(OwnRows, half, row[j], j)
  <2>1. CASE j = m.from
    <3>1. SaidHeld(OwnRows, half, m, m.from)
      BY <1>1 DEF ClaimsHeld, BeaconsHeld
    <3>2. heard.ids = m.ids /\ \A g \in Grid : Claim(heard, g) = Claim(m, g)
      BY <1>3, SameRouteClaims
    <3>3. m.ids \subseteq Grid
      BY <1>2 DEF Beacon
    <3>4. QED
      BY <1>5, <2>1, <3>1, <3>2, <3>3 DEF SaidHeld
  <2>2. CASE j # m.from
    BY <1>1, <1>5, <2>2 DEF ClaimsHeld, RowsHeld
  <2>3. QED
    BY <2>1, <2>2
<1>8. half' = half /\ Accepted' = Accepted
  BY <1>1, <1>4, HalfStays, AcceptedStays
<1>9. /\ SameRoute(new[i], Reconciled(i, row, twice[i])[i])
      /\ \A j \in Drone \ {i} : SameRoute(new[j], row[j])
  BY <1>6 DEF SameRoute
<1> HIDE DEF new
<1>10. QED
  BY <1>1, <1>2, <1>4, <1>5, <1>6, <1>7, <1>8, <1>9, LocalHeld

(* An attempt, with or without an offer, starts from the reconciled rows.   *)
LEMMA OptTimerRows ==
  ASSUME TypeOK, NEW i \in Drone, OptTimer(i)
  PROVE  \E new \in Row :
           /\ swarm' = [swarm EXCEPT ![i] = new]
           /\ \A j \in Drone : SameRoute(new[j], Tried(i)[j])
<1> DEFINE row == Tried(i)
           tried == [row EXCEPT ![i].attempt = now]
<1>1. row \in Row /\ now \in Nat
  BY TriedRow DEF TypeOK
<1>2. \/ swarm' = [swarm EXCEPT ![i] = row]
      \/ swarm' = [swarm EXCEPT ![i] = tried]
      \/ \E j \in Drone : i # j /\ RejectCandidate(i, row, j)
  BY DroneAssumption DEF OptTimer, Eligible, Tried, AbandonAttempt, Propose, Offers
<1> HIDE DEF row
<1>3. tried \in Row /\ \A j \in Drone : SameRoute(tried[j], row[j])
  BY <1>1 DEF Row, DroneState, SameRoute
<1>4. CASE swarm' = [swarm EXCEPT ![i] = row]
  BY <1>1, <1>4 DEF SameRoute, row
<1>5. CASE swarm' = [swarm EXCEPT ![i] = tried]
  BY <1>3, <1>5 DEF row
<1>6. ASSUME NEW j \in Drone, i # j, RejectCandidate(i, row, j)
      PROVE  \E new \in Row :
               /\ swarm' = [swarm EXCEPT ![i] = new]
               /\ \A k \in Drone : SameRoute(new[k], row[k])
  <2> DEFINE new == [row EXCEPT ![i].attempt = now, ![j].interact = now]
  <2>1. swarm' = [swarm EXCEPT ![i] = new]
    BY <1>6 DEF RejectCandidate
  <2>2. new = [tried EXCEPT ![j] = [tried[j] EXCEPT !.interact = now]]
    OBVIOUS
  <2> DEFINE theirs == [tried[j] EXCEPT !.interact = now]
  <2> HIDE DEF tried, new
  <2>a. theirs \in DroneState /\ SameRoute(theirs, tried[j])
    BY <1>1, <1>3 DEF Row, DroneState, SameRoute
  <2> HIDE DEF theirs
  <2>b. /\ new \in Row /\ new[j] = theirs
        /\ \A k \in Drone \ {j} : new[k] = tried[k]
    BY <1>3, <2>2, <2>a DEF Row, theirs
  <2>3. new \in Row /\ \A k \in Drone : SameRoute(new[k], tried[k])
    BY <2>a, <2>b DEF SameRoute
  <2>4. \A k \in Drone : SameRoute(new[k], row[k])
    BY <1>3, <2>3 DEF SameRoute
  <2>5. QED
    BY <2>1, <2>3, <2>4
<1>7. QED
  BY <1>2, <1>4, <1>5, <1>6 DEF row

LEMMA OptTimerHeld ==
  ASSUME LossInv, TypeOK', Follow, NEW i \in Drone, OptTimer(i)
  PROVE  ClaimsHeld'
<1>1. TransferInv /\ TypeOK /\ AllBounded /\ ClaimsHeld
  BY DEF LossInv, TransferInv
<1>2. PICK new \in Row :
        /\ swarm' = [swarm EXCEPT ![i] = new]
        /\ \A j \in Drone : SameRoute(new[j], Tried(i)[j])
  BY <1>1, OptTimerRows
<1>3. responses' = responses /\ beacons' = beacons
  BY DEF OptTimer
<1>4. half' = half /\ Accepted' = Accepted
  <2>1. CASE UNCHANGED <<pending, requests>>
    BY <1>1, <1>3, <2>1, HalfStays, AcceptedStays
  <2>2. ASSUME NEW j \in Drone, NEW c, Offering(i, j, c)
        PROVE  half' = half /\ Accepted' = Accepted
    <3>1. PICK m :
            /\ requests' = requests \cup {m}
            /\ pending' = [pending EXCEPT ![i] = Reserved(m)]
            /\ m.from = i /\ m.stamp = now
      BY <1>1, <2>2, OfferingShape
    <3>2. Reply(m, 1) \notin responses
      BY <1>1, <2>2, <3>1, StampIsNew
    <3>3. Accepted' = Accepted
      BY <1>3, <3>1, <3>2 DEF Accepted, Reply
    <3>4. \A k \in Drone : pending[k].waiting => pending'[k].waiting
      BY <1>1, <3>1 DEF TypeOK, Reserved
    <3>5. QED
      BY <1>1, <1>3, <3>3, <3>4, HalfStays
  <2>3. QED
    BY <1>1, <2>1, <2>2, OptTimerCases
<1>5. swarm[i] \in Row /\ twice[i] \in SUBSET Grid /\ swarm[i][i] = Own(i)
  BY <1>1 DEF TypeOK, Row, Own
<1>6. SameRoute(new[i], Reconciled(i, swarm[i], twice[i])[i])
  BY <1>2 DEF Tried
<1>7. \A j \in Drone \ {i} : SameRoute(new[j], swarm[i][j])
  BY <1>1, <1>2, TriedRow
<1>8. \A j \in Drone \ {i} : SaidHeld(OwnRows, half, swarm[i][j], j)
  BY <1>1 DEF ClaimsHeld, RowsHeld
<1>9. QED
  BY <1>1, <1>2, <1>3, <1>4, <1>5, <1>6, <1>7, <1>8, LocalHeld

(* A route taken over whole is claimed with the epoch of the exchange.      *)
LEMMA NewRouteClaims ==
  ASSUME NEW s \in DroneState, NEW ids \in SUBSET Grid, NEW e \in Nat,
         NEW t, SameRoute(t, setRouteOwnership(s, ids, e))
  PROVE  t.ids = ids /\ t.assign = e /\ \A g \in ids : Claim(t, g) = e
BY DEF setRouteOwnership, DroneState, SameRoute, Claim, Absent

LEMMA CommittedRowClaims ==
  ASSUME TypeOK, NEW j \in Drone, NEW m \in Request, m.from # j
  PROVE  /\ CommittedRow(j, m)[j].ids = m.other
         /\ \A g \in m.other : Claim(CommittedRow(j, m)[j], g) = m.epoch
         /\ CommittedRow(j, m)[m.from].ids = m.ego
         /\ \A g \in m.ego : Claim(CommittedRow(j, m)[m.from], g) = m.epoch
<1> DEFINE theirs == [setRouteOwnership(swarm[j][m.from], m.ego, m.epoch)
                        EXCEPT !.interact = m.stamp]
           mine == [setRouteOwnership(swarm[j][j], m.other, m.epoch)
                      EXCEPT !.attempt = now]
<1>1. /\ m.from \in Drone /\ m.stamp \in Nat /\ m.epoch \in Nat /\ now \in Nat
      /\ m.ego \in SUBSET Grid /\ m.other \in SUBSET Grid
      /\ swarm[j] \in Row
  BY DEF Request, TypeOK, Row
<1>2. swarm[j][m.from] \in DroneState /\ swarm[j][j] \in DroneState
  BY <1>1 DEF Row
<1>3. /\ SameRoute(theirs, setRouteOwnership(swarm[j][m.from], m.ego, m.epoch))
      /\ SameRoute(mine, setRouteOwnership(swarm[j][j], m.other, m.epoch))
  BY <1>1, <1>2, setRouteOwnershipRow DEF SameRoute, DroneState
<1>4. /\ theirs.ids = m.ego /\ \A g \in m.ego : Claim(theirs, g) = m.epoch
      /\ mine.ids = m.other /\ \A g \in m.other : Claim(mine, g) = m.epoch
  <2> HIDE DEF theirs, mine
  <2>1. theirs.ids = m.ego /\ \A g \in m.ego : Claim(theirs, g) = m.epoch
    <3> DEFINE s == swarm[j][m.from]
               ids == m.ego
               e == m.epoch
    <3>1. /\ s \in DroneState /\ ids \in SUBSET Grid /\ e \in Nat
          /\ SameRoute(theirs, setRouteOwnership(s, ids, e))
      BY <1>1, <1>2, <1>3
    <3> HIDE DEF s, ids, e
    <3>2. theirs.ids = ids /\ \A g \in ids : Claim(theirs, g) = e
      BY <3>1, NewRouteClaims
    <3>3. QED
      BY <3>2 DEF ids, e
  <2>2. mine.ids = m.other /\ \A g \in m.other : Claim(mine, g) = m.epoch
    BY <1>1, <1>2, <1>3, NewRouteClaims
  <2>3. QED
    BY <2>1, <2>2
<1>5. CommittedRow(j, m) = [swarm[j] EXCEPT ![m.from] = theirs, ![j] = mine]
  BY DEF CommittedRow
<1> HIDE DEF theirs, mine
<1>6. CommittedRow(j, m)[j] = mine /\ CommittedRow(j, m)[m.from] = theirs
  BY <1>1, <1>5 DEF Row
<1>7. QED
  BY <1>4, <1>6

LEMMA AppliedRowClaims ==
  ASSUME TypeOK, NEW i \in Drone, NEW j \in Drone, i # j
  PROVE  /\ \A g \in pending[i].ego :
              Claim(AppliedRow(i, j)[i], g) = pending[i].epoch
         /\ \A g \in pending[i].other :
              Claim(AppliedRow(i, j)[j], g) = pending[i].epoch
         /\ RowBounded(AppliedRow(i, j)[i])
<1> DEFINE p == pending[i]
           mine == setRouteOwnership(swarm[i][i], p.ego, p.epoch)
           theirs == [setRouteOwnership(swarm[i][j], p.other, p.epoch)
                        EXCEPT !.interact = now]
<1>1. /\ p.epoch \in Nat /\ now \in Nat
      /\ p.ego \in SUBSET Grid /\ p.other \in SUBSET Grid
      /\ swarm[i] \in Row /\ swarm[i][i] \in DroneState /\ swarm[i][j] \in DroneState
  BY DEF Pending, TypeOK, Row
<1>2. /\ SameRoute(theirs, setRouteOwnership(swarm[i][j], p.other, p.epoch))
      /\ SameRoute(mine, setRouteOwnership(swarm[i][i], p.ego, p.epoch))
  BY <1>1, setRouteOwnershipRow DEF SameRoute, DroneState
<1> HIDE DEF p
<1>3. /\ \A g \in p.other : Claim(theirs, g) = p.epoch
      /\ \A g \in p.ego : Claim(mine, g) = p.epoch
  <2> HIDE DEF mine, theirs
  <2>1. QED
    BY <1>1, <1>2, NewRouteClaims
<1>4. RowBounded(mine)
  BY <1>1, setRouteOwnershipBounded
<1>5. AppliedRow(i, j) = [swarm[i] EXCEPT ![i] = mine, ![j] = theirs]
  BY DEF AppliedRow, p
<1> HIDE DEF mine, theirs
<1>6. AppliedRow(i, j)[i] = mine /\ AppliedRow(i, j)[j] = theirs
  BY <1>1, <1>5 DEF Row
<1>7. QED
  BY <1>3, <1>4, <1>6 DEF p

(* The receiver takes its half: what it gives up goes to the sender.        *)
LEMMA CommitHeld ==
  ASSUME LossInv, TypeOK', Follow, NEW j \in Drone, NEW m \in requests,
         ReceiveRequest(j, m), Acceptable(j, m),
         swarm' = [swarm EXCEPT ![j] = CommittedRow(j, m)],
         responses' = responses \cup {Reply(m, 1)}
  PROVE  ClaimsHeld'
<1> DEFINE row == CommittedRow(j, m)
<1>1. /\ TypeOK /\ ClaimsHeld /\ AllBounded /\ UniqueStamps
      /\ RequestsCover /\ AcceptedCommitted
  BY DEF LossInv, TransferInv, ExchangeInv
<1>2. /\ m \in Request /\ m.from \in Drone /\ m.to = j /\ m.from # j
      /\ m.epoch \in Nat /\ m.expOther \in Nat
      /\ m.ego \subseteq Grid /\ m.other \subseteq Grid
  BY <1>1 DEF TypeOK, Request, ReceiveRequest
<1>3. /\ beacons' = beacons /\ requests' = requests /\ pending' = pending
  BY DEF ReceiveRequest
<1>4. /\ row \in Row /\ \A k \in Drone \ {j, m.from} : row[k] = swarm[j][k]
      /\ row[j].ids = m.other /\ \A g \in m.other : Claim(row[j], g) = m.epoch
      /\ row[m.from].ids = m.ego /\ \A g \in m.ego : Claim(row[m.from], g) = m.epoch
  BY <1>1, <1>2, CommittedRowType, CommittedRowClaims
<1> HIDE DEF row
<1>5. /\ Own(j).assign = m.expOther /\ m.epoch > m.expOther
      /\ m.ego \cap m.other = {}
  BY DEF Acceptable, Own
<1>6. Reply(m, 1) \notin responses
  <2>1. Own(j).assign \in Nat
    BY <1>1 DEF TypeOK, Own, DroneState
  <2>2. ~Committed(m)
    BY <1>2, <1>5, <2>1 DEF Committed
  <2>3. QED
    BY <1>1, <2>2 DEF AcceptedCommitted
<1>7. half' = half \cup {m} /\ Accepted' = Accepted \cup {m}
  <2>1. \A q \in requests : Reply(q, 1) = Reply(m, 1) => q = m
    BY <1>1, OneRequest
  <2>2. \A q \in requests : Commits(q) <=> q = m
    BY <1>6, <2>1 DEF Commits
  <2>3. \A q \in requests : ~Takes(q)
    BY <1>3 DEF Takes, Applies
  <2>4. half' = half \cup {m}
    BY <2>2, <2>3 DEF Follow
  <2>5. Accepted' = {q \in requests : Reply(q, 1) \in responses'}
    BY <1>3 DEF Accepted, Reply
  <2>6. Accepted' = Accepted \cup {m}
    BY <2>1, <2>5 DEF Accepted
  <2>7. QED
    BY <2>4, <2>6
<1>8. HalfAccepted' /\ half \in SUBSET Request /\ half' \in SUBSET Request
  BY <1>1, <1>2, <1>7, HalfType DEF ClaimsHeld, HalfAccepted
<1>9. /\ OwnRows \in Row /\ OwnRows[j] = Own(j)
      /\ OwnRows' \in Row /\ OwnRows'[j] = row[j]
      /\ \A k \in Drone \ {j} : OwnRows'[k] = OwnRows[k]
  <2>1. swarm' = [swarm EXCEPT ![j] = row]
    BY DEF row
  <2>2. OwnRows' = [OwnRows EXCEPT ![j] = row[j]]
    BY <1>1, <1>4, <2>1, RowChanged
  <2>3. QED
    BY <1>1, <1>4, <2>2, OwnRowsType DEF Row
<1>10. \A n \in Drone : n \in Nat
  BY DroneAssumption
<1>11. \A g \in m.ego : Held(OwnRows', half', g, m.epoch, m.from)
  <2>1. AtLeast(m.epoch, m.from, m.epoch, m.from)
    BY <1>2, <1>10 DEF AtLeast
  <2>2. QED
    BY <1>7, <2>1 DEF Held
<1>12. \A g \in m.other : Held(OwnRows', half', g, m.epoch, j)
  <2>1. AtLeast(m.epoch, j, m.epoch, j)
    BY <1>2, <1>10 DEF AtLeast
  <2>2. QED
    BY <1>4, <1>9, <2>1 DEF Held
<1>13. SaidHeld(OwnRows', half', OwnRows[j], j)
  <2> SUFFICES ASSUME NEW g \in OwnRows[j].ids
               PROVE  Held(OwnRows', half', g, Claim(OwnRows[j], g), j)
    BY DEF SaidHeld
  <2>1. OwnRows[j] \in DroneState /\ RowBounded(OwnRows[j]) /\ g \in Grid
    BY <1>1, <1>9 DEF AllBounded, Bounded, Own, Row, DroneState
  <2> DEFINE c == Claim(OwnRows[j], g)
  <2>2. c \in Nat /\ c <= m.expOther
    BY <1>5, <1>9, <2>1, ClaimNat, BoundedClaim
  <2>3. g \in m.ego \cup m.other
    <3>1. CoversEnd(m, m.to, m.expOther)
      BY <1>1 DEF RequestsCover
    <3>2. QED
      BY <1>2, <1>5, <1>9, <3>1 DEF CoversEnd
  <2> HIDE DEF c
  <2>4. m.epoch > c
    BY <1>2, <1>5, <2>2
  <2>5. \A n \in Drone : AtLeast(m.epoch, n, c, j)
    BY <2>4 DEF AtLeast
  <2>6. CASE g \in m.ego
    BY <1>2, <1>8, <1>9, <1>11, <2>1, <2>2, <2>5, <2>6, WeakerHeld DEF c
  <2>7. CASE g \in m.other
    BY <1>2, <1>8, <1>9, <1>12, <2>1, <2>2, <2>5, <2>7, WeakerHeld DEF c
  <2>8. QED
    BY <2>3, <2>6, <2>7
<1>14. KeepsHeld(OwnRows, half, OwnRows', half')
  <2>1. ASSUME NEW k \in Drone PROVE SaidHeld(OwnRows', half', OwnRows[k], k)
    <3>1. CASE k = j
      BY <1>13, <3>1
    <3>2. CASE k # j
      BY <1>9, <3>2, OwnHeld
    <3>3. QED
      BY <3>1, <3>2
  <2>2. ASSUME NEW q \in half, NEW g \in q.ego
        PROVE  Held(OwnRows', half', g, q.epoch, q.from)
    <3>1. q.epoch \in Nat /\ q.from \in Nat
      BY <1>8, <1>10 DEF Request
    <3>2. AtLeast(q.epoch, q.from, q.epoch, q.from)
      BY <3>1 DEF AtLeast
    <3>3. QED
      BY <1>7, <3>2 DEF Held
  <2>3. QED
    BY <1>8, <1>9, <2>1, <2>2, LivingKept
<1>15. ASSUME NEW k \in Drone \ {j} PROVE SaidHeld(OwnRows', half', row[k], k)
  <2>1. CASE k = m.from
    BY <1>4, <1>11, <2>1 DEF SaidHeld
  <2>2. CASE k # m.from
    <3>1. SaidHeld(OwnRows, half, swarm[j][k], k) /\ swarm[j][k] \in DroneState
      BY <1>1 DEF ClaimsHeld, RowsHeld, TypeOK
    <3>2. row[k] = swarm[j][k]
      BY <1>4, <2>2
    <3>3. QED
      BY <1>14, <3>1, <3>2, SaidStaysHeld
  <2>3. QED
    BY <2>1, <2>2
<1>16. ExchangeHeld(OwnRows', half', m)
  BY <1>2, <1>11, <1>12 DEF ExchangeHeld
<1>17. \A q \in Accepted' :
         q \in Accepted \/ (ExchangeHeld(OwnRows', half', q) /\ q.ego \cap q.other = {})
  BY <1>5, <1>7, <1>16
<1>18. swarm' = [swarm EXCEPT ![j] = row]
  BY DEF row
<1>19. QED
  BY <1>1, <1>3, <1>4, <1>8, <1>14, <1>15, <1>17, <1>18, StepHeld
(* The sender takes its half: what it gives up the receiver has claimed.     *)
LEMMA ApplyHeld ==
  ASSUME LossInv, TypeOK', Follow, NEW i \in Drone, NEW m \in responses,
         ReceiveResponse(i, m), Awaited(i, m), m.status = 1, Matches(i, m),
         swarm' = [swarm EXCEPT ![i] = Reconciled(i, AppliedRow(i, m.from), {})]
  PROVE  ClaimsHeld'
<1> DEFINE applied == AppliedRow(i, m.from)
           row == Reconciled(i, applied, {})
<1>1. /\ TransferInv /\ TypeOK /\ ClaimsHeld /\ AllBounded /\ UniqueStamps
      /\ RequestsCover /\ HalfAccepted /\ AcceptedApart /\ AcceptedHeld
  BY DEF LossInv, TransferInv, ExchangeInv, ClaimsHeld
<1>2. /\ m.from \in Drone /\ m.from # i /\ m.to = i /\ now \in Nat
      /\ UNCHANGED <<beacons, requests, responses>>
      /\ pending' = [pending EXCEPT ![i].waiting = @ /\ ~Awaited(i, m)]
  BY <1>1 DEF TypeOK, Response, ReceiveResponse
<1>3. PICK r \in requests :
        /\ r.from = i /\ r.to = m.from
        /\ pending[i] = Reserved(r) /\ m = Reply(r, m.status)
  BY <1>1, <1>2, AwaitedRequest
<1>4. /\ r \in Request /\ r.epoch \in Nat /\ r.expEgo \in Nat
      /\ r.ego \subseteq Grid /\ r.other \subseteq Grid
  BY <1>1 DEF TypeOK, Request
<1>5. /\ r.epoch > r.expEgo /\ CoversEnd(r, i, r.expEgo)
      /\ Own(i).assign = r.expEgo
  BY <1>1, <1>3 DEF RequestsCover, Matches, Reserved, Own
<1>6. /\ pending[i].ego = r.ego /\ pending[i].other = r.other
      /\ pending[i].epoch = r.epoch /\ pending[i].stamp = r.stamp
  BY <1>3 DEF Reserved
<1>7. r \in Accepted /\ r.ego \cap r.other = {} /\ ExchangeHeld(OwnRows, half, r)
  <2>1. Reply(r, 1) \in responses
    BY <1>3
  <2>2. QED
    BY <1>1, <2>1 DEF Accepted, AcceptedApart, AcceptedHeld
<1>8. /\ applied \in Row
      /\ applied[i].ids = r.ego /\ applied[m.from].ids = r.other
      /\ applied[i].assign = r.epoch
      /\ \A k \in Drone \ {i, m.from} : applied[k] = swarm[i][k]
      /\ \A g \in r.ego : Claim(applied[i], g) = r.epoch
      /\ \A g \in r.other : Claim(applied[m.from], g) = r.epoch
      /\ RowBounded(applied[i])
  <2>1. i # m.from
    BY <1>2
  <2>2. QED
    BY <1>1, <1>2, <1>6, <2>1, AppliedRowType, AppliedRowClaims
<1> HIDE DEF applied
<1>9. /\ row \in Row /\ \A k \in Drone \ {i} : row[k] = applied[k]
      /\ row[i] = applied[i] \/ row[i].assign > applied[i].assign
  BY <1>2, <1>8, ReconciledRow
<1>10. swarm' = [swarm EXCEPT ![i] = row]
  BY DEF applied
<1> HIDE DEF row
<1>11. OwnRows \in Row /\ OwnRows[i] = Own(i) /\ OwnRows' = [OwnRows EXCEPT ![i] = row[i]]
  BY <1>1, <1>9, <1>10, OwnRowsType, RowChanged
<1>12. half \in SUBSET Request
  BY <1>1, HalfType
<1>13. half' = half \ {r} /\ Accepted' = Accepted
  <2>1. Own(i)' = row[i]
    BY <1>1, <1>9, <1>10 DEF Own, TypeOK
  <2>2. Applies(i)
    <3>1. Own(i)'.assign \in Nat /\ Own(i)'.assign >= r.epoch
      BY <1>4, <1>8, <1>9, <2>1 DEF Row, DroneState
    <3>2. Own(i)' # Own(i)
      BY <1>4, <1>5, <3>1
    <3>3. pending[i].waiting /\ ~pending'[i].waiting
      BY <1>1, <1>2 DEF TypeOK, Pending, Awaited
    <3>4. QED
      BY <3>2, <3>3 DEF Applies
  <2>3. ASSUME NEW q \in requests, Takes(q) PROVE q = r
    <3>1. q.from \in Drone /\ pending'[q.from] # pending[q.from]
      BY <1>1, <2>3 DEF Takes, Applies, TypeOK, Request
    <3>2. q.from = i
      BY <1>1, <1>2, <3>1 DEF TypeOK
    <3>3. q.stamp = r.stamp
      BY <1>6, <2>3, <3>2 DEF Takes, Reserved
    <3>4. QED
      BY <1>1, <1>3, <3>2, <3>3 DEF UniqueStamps
  <2>4. Takes(r)
    BY <1>3, <2>2 DEF Takes
  <2>5. \A q \in requests : ~Commits(q)
    BY <1>2 DEF Commits
  <2>6. half' = half \ {r}
    BY <2>3, <2>4, <2>5 DEF Follow
  <2>7. QED
    BY <1>2, <2>6, AcceptedStays
<1>14. HalfAccepted' /\ half' \in SUBSET Request
  BY <1>1, <1>12, <1>13 DEF HalfAccepted
<1> DEFINE mid == [OwnRows EXCEPT ![i] = applied[i]]
<1>15. /\ mid \in Row /\ mid[i] = applied[i]
       /\ \A k \in Drone \ {i} : mid[k] = OwnRows[k]
       /\ OwnRows' = [mid EXCEPT ![i] = row[i]]
  BY <1>8, <1>11 DEF Row
<1> HIDE DEF mid
<1>16. \A n \in Drone : n \in Nat
  BY DroneAssumption
<1>17. SaidHeld(mid, half', OwnRows[i], i)
  <2> SUFFICES ASSUME NEW g \in OwnRows[i].ids
               PROVE  Held(mid, half', g, Claim(OwnRows[i], g), i)
    BY DEF SaidHeld
  <2>1. OwnRows[i] \in DroneState /\ RowBounded(OwnRows[i]) /\ g \in Grid
    BY <1>1, <1>11 DEF AllBounded, Bounded, Own, Row, DroneState
  <2> DEFINE c == Claim(OwnRows[i], g)
  <2>2. c \in Nat /\ c < r.epoch
    <3>1. c \in Nat /\ c <= OwnRows[i].assign
      BY <2>1, ClaimNat, BoundedClaim
    <3> HIDE DEF c
    <3>2. QED
      BY <1>4, <1>5, <1>11, <3>1
  <2>3. g \in r.ego \cup r.other
    BY <1>5, <1>11 DEF CoversEnd
  <2> HIDE DEF c
  <2>4. CASE g \in r.ego
    <3>1. AtLeast(r.epoch, i, c, i)
      BY <2>2 DEF AtLeast
    <3>2. QED
      BY <1>8, <1>15, <2>4, <3>1 DEF Held, c
  <2>5. CASE g \in r.other
    <3>1. Held(OwnRows, half, g, r.epoch, r.to) /\ g \notin r.ego
      BY <1>7, <2>5 DEF ExchangeHeld
    <3>2. ASSUME NEW k \in Drone, g \in OwnRows[k].ids,
                 AtLeast(Claim(OwnRows[k], g), k, r.epoch, r.to)
          PROVE  Held(mid, half', g, c, i)
      <4>1. Claim(OwnRows[k], g) \in Nat
        BY <1>11, <2>1, ClaimNat DEF Row
      <4>2. Claim(OwnRows[k], g) >= r.epoch
        BY <1>4, <3>2, <4>1 DEF AtLeast
      <4>3. k # i
        BY <1>4, <2>2, <4>2 DEF c
      <4>4. AtLeast(Claim(OwnRows[k], g), k, c, i)
        BY <1>4, <2>2, <4>1, <4>2 DEF AtLeast
      <4>5. QED
        BY <1>15, <3>2, <4>3, <4>4 DEF Held
    <3>3. ASSUME NEW q \in half, g \in q.ego, AtLeast(q.epoch, q.from, r.epoch, r.to)
          PROVE  Held(mid, half', g, c, i)
      <4>1. q \in half' /\ q.epoch \in Nat
        BY <1>12, <1>13, <3>1, <3>3 DEF Request
      <4>2. AtLeast(q.epoch, q.from, c, i)
        BY <1>4, <2>2, <3>3, <4>1 DEF AtLeast
      <4>3. QED
        BY <3>3, <4>1, <4>2 DEF Held
    <3>4. QED
      BY <3>1, <3>2, <3>3 DEF Held, c
  <2>6. QED
    BY <2>3, <2>4, <2>5
<1>18. KeepsHeld(OwnRows, half, mid, half')
  <2>1. ASSUME NEW k \in Drone PROVE SaidHeld(mid, half', OwnRows[k], k)
    <3>1. CASE k = i
      BY <1>17, <3>1
    <3>2. CASE k # i
      BY <1>15, <3>2, OwnHeld
    <3>3. QED
      BY <3>1, <3>2
  <2>2. ASSUME NEW q \in half, NEW g \in q.ego
        PROVE  Held(mid, half', g, q.epoch, q.from)
    <3>1. q.epoch \in Nat /\ q.from \in Drone /\ q.from \in Nat
      BY <1>12, <1>16 DEF Request
    <3>2. AtLeast(q.epoch, q.from, q.epoch, q.from)
      BY <3>1 DEF AtLeast
    <3>3. CASE q = r
      BY <1>3, <1>8, <1>15, <3>2, <3>3 DEF Held
    <3>4. CASE q # r
      BY <1>13, <3>2, <3>4 DEF Held
    <3>5. QED
      BY <3>3, <3>4
  <2>3. QED
    BY <1>11, <1>12, <1>14, <1>15, <2>1, <2>2, LivingKept
<1>19. ASSUME NEW k \in Drone \ {i} PROVE SaidHeld(mid, half', applied[k], k)
  <2>1. CASE k = m.from
    <3>1. ExchangeHeld(mid, half', r)
      BY <1>4, <1>7, <1>18, ExchangeStaysHeld
    <3>2. QED
      BY <1>3, <1>8, <2>1, <3>1 DEF ExchangeHeld, SaidHeld
  <2>2. CASE k # m.from
    <3>1. SaidHeld(OwnRows, half, swarm[i][k], k) /\ swarm[i][k] \in DroneState
      BY <1>1 DEF ClaimsHeld, RowsHeld, TypeOK
    <3>2. QED
      BY <1>8, <1>18, <2>2, <3>1, SaidStaysHeld
  <2>3. QED
    BY <2>1, <2>2
<1>20. KeepsHeld(mid, half', OwnRows', half')
  <2>1. row[i] \in DroneState /\ SameRoute(row[i], Reconciled(i, applied, {})[i])
    BY <1>9 DEF Row, SameRoute, row
  <2>2. {} \in SUBSET Grid
    OBVIOUS
  <2>3. QED
    BY <1>2, <1>8, <1>14, <1>15, <1>19, <2>1, <2>2, ReconcileKeepsHeld
<1>21. KeepsHeld(OwnRows, half, OwnRows', half')
  BY <1>18, <1>20 DEF KeepsHeld
<1>22. \A k \in Drone \ {i} : SaidHeld(OwnRows', half', row[k], k)
  BY <1>8, <1>9, <1>19, <1>20, SaidStaysHeld DEF Row
<1>23. QED
  BY <1>1, <1>2, <1>9, <1>10, <1>13, <1>14, <1>21, <1>22, StepHeld

(* The rows stay: nothing is taken, and nothing but a refusal is answered.  *)
LEMMA SameRowsHeld ==
  ASSUME TypeOK, ClaimsHeld, Follow, UNCHANGED <<swarm, beacons>>,
         \A q \in requests : ~Commits(q), Accepted' = Accepted
  PROVE  ClaimsHeld'
<1>1. \A q \in requests : ~Takes(q)
  BY DEF Takes, Applies, Own
<1>2. half' = half
  BY <1>1 DEF Follow
<1>3. QED
  BY <1>2, QuietHeld

LEMMA ReceiveRequestHeld ==
  ASSUME LossInv, TypeOK', Follow, NEW j \in Drone, NEW m \in requests,
         ReceiveRequest(j, m)
  PROVE  ClaimsHeld'
<1>1. TypeOK /\ ClaimsHeld /\ UniqueStamps
  BY DEF LossInv, TransferInv, ExchangeInv
<1>2. beacons' = beacons /\ requests' = requests
  BY DEF ReceiveRequest
<1>3. CASE /\ Acceptable(j, m) /\ swarm' = [swarm EXCEPT ![j] = CommittedRow(j, m)]
           /\ responses' = responses \cup {Reply(m, 1)}
  BY <1>3, CommitHeld
<1>4. CASE swarm' = swarm /\ responses' = responses \cup {Reply(m, 2)}
  <2>1. \A q \in requests : Reply(q, 1) # Reply(m, 2)
    <3>1. ASSUME NEW q \in requests, Reply(q, 1) = Reply(m, 2) PROVE FALSE
      <4>1. 1 = 2
        BY <3>1, ReplyFields
      <4>2. QED
        BY <4>1
    <3>2. QED
      BY <3>1
  <2>2. \A q \in requests : ~Commits(q)
    BY <1>4, <2>1 DEF Commits
  <2>3. Accepted' = {q \in requests : Reply(q, 1) \in responses'}
    BY <1>2 DEF Accepted, Reply
  <2>4. Accepted' = Accepted
    BY <1>4, <2>1, <2>3 DEF Accepted
  <2>5. QED
    BY <1>1, <1>2, <1>4, <2>2, <2>4, SameRowsHeld
<1>5. QED
  BY <1>3, <1>4 DEF ReceiveRequest

LEMMA ReceiveResponseHeld ==
  ASSUME LossInv, TypeOK', Follow, NEW i \in Drone, NEW m \in responses,
         ReceiveResponse(i, m)
  PROVE  ClaimsHeld'
<1>1. TypeOK /\ ClaimsHeld
  BY DEF LossInv, TransferInv
<1>2. UNCHANGED <<beacons, requests, responses>>
  BY DEF ReceiveResponse
<1>3. CASE swarm' = swarm
  <2>1. \A q \in requests : ~Commits(q)
    BY <1>2 DEF Commits
  <2>2. QED
    BY <1>1, <1>2, <1>3, <2>1, AcceptedStays, SameRowsHeld
<1>4. CASE /\ Awaited(i, m) /\ m.status = 1 /\ Matches(i, m)
           /\ swarm' = [swarm EXCEPT ![i] = Reconciled(i, AppliedRow(i, m.from), {})]
  BY <1>4, ApplyHeld
<1>5. QED
  BY <1>3, <1>4 DEF ReceiveResponse

LEMMA TickHeld ==
  ASSUME LossInv, Follow, Tick
  PROVE  ClaimsHeld'
<1>1. TypeOK /\ ClaimsHeld
  BY DEF LossInv, TransferInv
<1>2. UNCHANGED <<swarm, beacons, requests, responses>>
  BY DEF Tick, exchangeVars
<1>3. \A q \in requests : ~Commits(q)
  BY <1>2 DEF Commits
<1>4. QED
  BY <1>1, <1>2, <1>3, AcceptedStays, SameRowsHeld

-----------------------------------------------------------------------------
(* The theorem *)

LEMMA LossInvNext ==
  ASSUME MaxUpdates = 0, LossInv, [Next /\ Follow]_lossVars
  PROVE  LossInv'
<1>1. [Next]_vars
  BY DEF lossVars
<1>2. TransferInv' /\ AllBounded'
  BY <1>1, TransferNext, BoundedNext DEF LossInv, TransferInv
<1>3. TypeOK' /\ TypeOK /\ ClaimsHeld
  BY <1>2 DEF LossInv, TransferInv
<1>4. CASE UNCHANGED lossVars
  <2>1. UNCHANGED <<swarm, half, beacons, requests, responses>>
    BY <1>4 DEF lossVars, vars, exchangeVars
  <2>2. QED
    BY <1>2, <1>3, <2>1, AcceptedStays, QuietHeld DEF LossInv
<1>5. CASE Next /\ Follow
  <2>1. \A i \in Drone : ~UpdateRoute(i)
    BY <1>3 DEF UpdateRoute, TypeOK
  <2>2. ClaimsHeld'
    BY <1>3, <1>5, <2>1, TickHeld, BroadcastStateHeld, ReceiveStateHeld,
       OptTimerHeld, ReceiveRequestHeld, ReceiveResponseHeld DEF Next
  <2>3. QED
    BY <1>2, <2>2 DEF LossInv
<1>6. QED
  BY <1>4, <1>5

LEMMA LossInvInit ==
  ASSUME 1 \in Drone, LossInit
  PROVE  LossInv
<1>1. Init /\ half = {} /\ responses = {} /\ beacons = {}
  BY DEF LossInit, Init
<1>2. TransferInv /\ AllBounded /\ TypeOK
  BY <1>1, TransferInit, BoundedInit, TypeInit
<1>3. \A i, j \in Drone : swarm[i][j].ids = IF i = 1 /\ j = 1 THEN Coarse ELSE {}
  BY <1>1 DEF Init, InitialState
<1>4. OwnRows \in Row /\ \A k \in Drone : OwnRows[k] = Own(k)
  BY <1>2, OwnRowsType
<1>5. RowsHeld
  <2>1. ASSUME NEW i \in Drone, NEW j \in Drone
        PROVE  SaidHeld(OwnRows, half, swarm[i][j], j)
    <3>1. CASE i = j
      BY <1>4, <3>1, OwnHeld DEF Own
    <3>2. CASE i # j
      BY <1>3, <3>2 DEF SaidHeld
    <3>3. QED
      BY <3>1, <3>2
  <2>2. QED
    BY <2>1 DEF RowsHeld
<1>6. Accepted = {}
  BY <1>1 DEF Accepted
<1>7. BeaconsHeld /\ AcceptedHeld /\ AcceptedApart /\ HalfAccepted
  BY <1>1, <1>6 DEF BeaconsHeld, AcceptedHeld, AcceptedApart, HalfAccepted
<1>8. NoneLost
  <2>1. ASSUME NEW g \in Coarse PROVE Held(OwnRows, half, g, 0, 1)
    <3>1. g \in OwnRows[1].ids /\ OwnRows[1] \in DroneState /\ g \in Grid
      BY <1>3, <1>4 DEF Own, Row, Grid
    <3>2. Claim(OwnRows[1], g) \in Nat
      BY <3>1, ClaimNat
    <3>3. AtLeast(Claim(OwnRows[1], g), 1, 0, 1)
      BY <3>2 DEF AtLeast
    <3>4. QED
      BY <3>1, <3>3 DEF Held
  <2>2. QED
    BY <2>1 DEF NoneLost
<1>9. QED
  BY <1>2, <1>5, <1>7, <1>8 DEF LossInv, ClaimsHeld

(* Whatever a robot has recorded, however outdated, is matched by a living   *)
(* claim that is as strong, so that reconcileDuplicateOwnership gives a grid *)
(* up only to somebody.                                                     *)
THEOREM ClaimsAlwaysHeld ==
  ASSUME 1 \in Drone, MaxUpdates = 0
  PROVE  LossSpec => []ClaimsHeld
<1>1. LossInit => LossInv
  BY LossInvInit
<1>2. LossInv /\ [Next /\ Follow]_lossVars => LossInv'
  BY LossInvNext
<1>3. LossInv => ClaimsHeld
  BY DEF LossInv
<1>4. QED
  BY <1>1, <1>2, <1>3, PTL DEF LossSpec

(* Reconciliation never drops the last owner of a grid, whatever is lost,    *)
(* late or repeated and however old the rows are that robots compare: while  *)
(* the maps do not change, a grid nobody owns is in an exchange that its     *)
(* receiver has committed and its sender has not taken.                      *)
THEOREM OnlyHalfTakenExchangesLose ==
  ASSUME 1 \in Drone, MaxUpdates = 0
  PROVE  LossSpec => []LossesAreHalfTaken
<1>1. LossInit => LossInv
  BY LossInvInit
<1>2. LossInv /\ [Next /\ Follow]_lossVars => LossInv'
  BY LossInvNext
<1>3. LossInv => LossesAreHalfTaken
  <2> SUFFICES ASSUME LossInv, NEW g \in Coarse
               PROVE  \/ \E i \in Drone : g \in Own(i).ids
                      \/ \E m \in half : g \in m.ego
    BY DEF LossesAreHalfTaken
  <2>1. \E k \in Drone : Held(OwnRows, half, g, 0, k)
    BY DEF LossInv, ClaimsHeld, NoneLost
  <2>2. \A k \in Drone : OwnRows[k] = Own(k)
    BY OwnRowsType DEF LossInv, TransferInv
  <2>3. QED
    BY <2>1, <2>2 DEF Held
<1>4. QED
  BY <1>1, <1>2, <1>3, PTL DEF LossSpec
=============================================================================
