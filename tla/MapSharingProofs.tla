-------------------------- MODULE MapSharingProofs --------------------------
(***************************************************************************)
(* What is true of MapSharing for all drones, links, voxels and scans, and *)
(* of the algorithms of ChunkLists for all lists.                          *)
(*                                                                         *)
(* A chunk is public once its owner has read the occupancy of its voxels.  *)
(* A public chunk never changes, everything in a buffer is public, and so  *)
(* is every copy: CopiesAgree follows.  The own chunks of a robot have no  *)
(* voxel in common, so there are at most Cardinality(Voxel) of them, and   *)
(* every id that is listed anywhere is one of these.                       *)
(*                                                                         *)
(* findMissedChunkIds: for well-formed lists the gaps of the other one are *)
(* the complement of its ids, and intersections distribute over them.      *)
(* mergeChunkIds and chunkTimerCallback: an interval that is widened or    *)
(* inserted leaves a list whose ends are in order, and joining keeps what  *)
(* such a list denotes.                                                    *)
(***************************************************************************)
EXTENDS MCMapSharing, FiniteSetTheorems, WellFoundedInduction, TLAPS

Public(o, i) == i \in DOMAIN chunks[o][o] /\ ~chunks[o][o][i].query

(* A robot has the data of all its own chunks.                               *)
OwnHeld ==
  \A d \in Drone : \A i \in DOMAIN chunks[d][d] : ~chunks[d][d][i].empty

(* What a chunk message says is what the owner holds.                        *)
Agrees(o, c) ==
  /\ Public(o, c.idx)
  /\ c.voxels = chunks[o][o][c.idx].voxels
  /\ c.occupied = chunks[o][o][c.idx].occupied

BufferAgrees ==
  \A d, o \in Drone : \A c \in buffer[d][o] : Agrees(o, c)

(* A copy is a placeholder or the public chunk of the owner.                 *)
HeldIsPublic ==
  \A d, o \in Drone : d # o => \A i \in DOMAIN chunks[d][o] :
    ~chunks[d][o][i].empty =>
      Public(o, i) /\ chunks[d][o][i] = chunks[o][o][i]

ListedIsHeld ==
  \A d, o \in Drone : \A i \in ids[d][o] :
    i \in DOMAIN chunks[d][o] /\ ~chunks[d][o][i].empty

Inv == TypeOK /\ OwnHeld /\ BufferAgrees /\ HeldIsPublic /\ ListedIsHeld

(* What a step has to keep.                                                  *)
PublicStays ==
  \A o \in Drone : \A i \in DOMAIN chunks[o][o] :
    ~chunks[o][o][i].query =>
      i \in DOMAIN chunks'[o][o] /\ chunks'[o][o][i] = chunks[o][o][i]

-----------------------------------------------------------------------------
(* Numbers, sets and functions *)

(* A bounded set of naturals that is not empty has a largest element.        *)
LEMMA Largest ==
  ASSUME NEW T \in SUBSET Nat, T # {}, NEW b \in Nat, \A k \in T : k <= b
  PROVE  Max(T) \in T /\ \A k \in T : k <= Max(T)
<1> DEFINE R == OpToRel(<, Nat)
           Bounds == {n \in Nat : \A k \in T : k <= n}
<1>1. IsWellFoundedOn(R, Nat)
  BY NatLessThanWellFounded
<1>2. b \in Bounds /\ Bounds \in SUBSET Nat
  OBVIOUS
<1>a. \A m, k \in Nat : k < m => <<k, m>> \in R
  BY DEF OpToRel
<1> HIDE DEF R
<1>3. PICK m \in Bounds : \A n \in Bounds : ~(<<n, m>> \in R)
  <2> HIDE DEF Bounds
  <2>1. QED
    BY <1>1, <1>2, WFMin
<1>4. m \in T
  <2>1. SUFFICES ASSUME m \notin T PROVE FALSE
    OBVIOUS
  <2>a. m \in Nat /\ \A k \in T : k \in Nat /\ k <= m /\ k # m
    BY <2>1, <1>3
  <2>2. \A k \in T : k <= m - 1
    BY <2>a
  <2>c. PICK k \in T : TRUE
    OBVIOUS
  <2>d. k \in Nat /\ k <= m - 1
    BY <2>a, <2>2, <2>c
  <2>b. m - 1 \in Nat
    BY <2>a, <2>d
  <2>3. m - 1 \in Bounds
    BY <2>2, <2>b
  <2>4. m - 1 \in Nat /\ m \in Nat /\ m - 1 < m
    BY <2>3
  <2>5. QED
    BY <2>3, <2>4, <1>a, <1>3
<1>5. \A k \in T : k <= m
  BY <1>3
<1>6. QED
  BY <1>4, <1>5 DEF Max

(* A change of the own chunks of d changes nothing else.                     *)
LEMMA OwnChange ==
  ASSUME TypeOK, NEW d \in Drone, NEW own \in Seq(Chunk),
         chunks' = [chunks EXCEPT ![d][d] = own]
  PROVE  /\ chunks' \in [Drone -> [Drone -> Seq(Chunk)]]
         /\ chunks'[d][d] = own
         /\ \A e, o \in Drone : e # d \/ o # d => chunks'[e][o] = chunks[e][o]
BY DEF TypeOK

(* Own chunks may be added and read; what is public stays as it is.          *)
LEMMA OwnGrows ==
  ASSUME Inv, NEW d \in Drone, NEW own \in Seq(Chunk),
         chunks' = [chunks EXCEPT ![d][d] = own],
         \A i \in DOMAIN chunks[d][d] :
           /\ i \in DOMAIN own
           /\ ~chunks[d][d][i].query => own[i] = chunks[d][d][i],
         \A i \in DOMAIN own : ~own[i].empty
  PROVE  PublicStays /\ OwnHeld' /\ HeldIsPublic'
<1>1. TypeOK /\ OwnHeld /\ HeldIsPublic
  BY DEF Inv
<1>2. /\ chunks'[d][d] = own
      /\ \A e, o \in Drone : e # d \/ o # d => chunks'[e][o] = chunks[e][o]
  BY <1>1, OwnChange
<1>3. PublicStays
  BY <1>2 DEF PublicStays
<1>4. OwnHeld'
  BY <1>1, <1>2 DEF OwnHeld
<1>5. HeldIsPublic'
  <2>1. SUFFICES ASSUME NEW e \in Drone, NEW o \in Drone, e # o,
                        NEW i \in DOMAIN chunks'[e][o],
                        ~chunks'[e][o][i].empty
                 PROVE  /\ i \in DOMAIN chunks'[o][o]
                        /\ ~chunks'[o][o][i].query
                        /\ chunks'[e][o][i] = chunks'[o][o][i]
    BY DEF HeldIsPublic, Public
  <2>2. chunks'[e][o] = chunks[e][o]
    BY <2>1, <1>2
  <2>3. /\ i \in DOMAIN chunks[o][o] /\ ~chunks[o][o][i].query
        /\ chunks[e][o][i] = chunks[o][o][i]
    BY <2>1, <2>2, <1>1 DEF HeldIsPublic, Public
  <2>4. QED
    BY <2>2, <2>3, <1>3 DEF PublicStays
<1>6. QED
  BY <1>3, <1>4, <1>5

(* A buffer that nothing was added to keeps agreeing with the owners.        *)
LEMMA BufferKeeps ==
  ASSUME PublicStays, NEW o \in Drone, NEW c, Agrees(o, c)
  PROVE  Agrees(o, c)'
BY DEF PublicStays, Agrees, Public

-----------------------------------------------------------------------------
(* Remote data is written to unknown voxels only.                            *)
LEMMA OnlyScanChangesKnown ==
  ASSUME TypeOK, [Next]_vars
  PROVE  \A d \in Drone, v \in Voxel :
           map[d][v] # "unknown" /\ map'[d][v] # map[d][v] => Scan(d)
<1>1. SUFFICES ASSUME NEW d \in Drone, NEW v \in Voxel,
                      map[d][v] # "unknown", map'[d][v] # map[d][v]
               PROVE  Scan(d)
  BY Zenon
<1>2. map' # map
  BY <1>1
<1>3. PICK e \in Drone : Scan(e) \/ Flush(e) \/ ChunkTimer(e)
                         \/ \E s \in Drone : ReceiveStamp(e, s)
  BY <1>2 DEF Next, vars
<1>4. ~Flush(e) /\ ~(\E s \in Drone : ReceiveStamp(e, s))
  BY <1>2 DEF Flush, ReceiveStamp, Exchange
<1>5. CASE Scan(e)
  <2>1. PICK new : map' = [map EXCEPT ![e] = new]
    BY <1>5 DEF Scan
  <2>2. e = d
    BY <1>1, <2>1 DEF TypeOK
  <2>3. QED
    BY <1>5, <2>2
<1>6. CASE ChunkTimer(e)
  <2>1. map'[d][v] = map[d][v]
    <3>1. CASE e = d
      <4>1. map'[d] = [w \in Voxel |->
               IF \E o \in Drone : Inserts(d, o, w)
               THEN InsertedBy(d, w) ELSE map[d][w]]
        BY <1>6, <3>1 DEF ChunkTimer, TypeOK
      <4>2. ~ \E o \in Drone : Inserts(d, o, v)
        BY <1>1 DEF Inserts
      <4>3. QED
        BY <4>1, <4>2
    <3>2. CASE e # d
      BY <1>6, <3>2 DEF ChunkTimer, TypeOK
    <3>3. QED
      BY <3>1, <3>2
  <2>2. QED
    BY <1>1, <2>1
<1>7. QED
  BY <1>3, <1>4, <1>5, <1>6
-----------------------------------------------------------------------------
(* The own chunks *)

(* New chunks at the end of the own ones.                                    *)
LEMMA Appended ==
  ASSUME Inv, NEW d \in Drone, NEW new \in Seq(Chunk),
         \A i \in DOMAIN new : ~new[i].empty,
         NEW listed \in SUBSET (1 .. Len(chunks[d][d] \o new)),
         chunks' = [chunks EXCEPT ![d][d] = chunks[d][d] \o new],
         ids' = [ids EXCEPT ![d][d] = listed],
         buffer' = buffer
  PROVE  /\ chunks' \in [Drone -> [Drone -> Seq(Chunk)]]
         /\ ids' \in [Drone -> [Drone -> SUBSET (Nat \ {0})]]
         /\ buffer' \in [Drone -> [Drone -> SUBSET ChunkData]]
         /\ OwnHeld' /\ BufferAgrees' /\ HeldIsPublic' /\ ListedIsHeld'
<1> DEFINE own == chunks[d][d] \o new
<1>1. TypeOK /\ OwnHeld /\ BufferAgrees /\ ListedIsHeld
  BY DEF Inv
<1>2. chunks[d][d] \in Seq(Chunk)
  BY <1>1 DEF TypeOK
<1>3. /\ own \in Seq(Chunk)
      /\ DOMAIN own = 1 .. Len(own)
      /\ \A i \in DOMAIN chunks[d][d] :
           i \in DOMAIN own /\ own[i] = chunks[d][d][i]
      /\ \A i \in DOMAIN own :
           i \notin DOMAIN chunks[d][d] =>
             i - Len(chunks[d][d]) \in DOMAIN new
             /\ own[i] = new[i - Len(chunks[d][d])]
  BY <1>2
<1>4. \A i \in DOMAIN own : ~own[i].empty
  BY <1>1, <1>3 DEF OwnHeld
<1> HIDE DEF own
<1>5. chunks' = [chunks EXCEPT ![d][d] = own]
  BY DEF own
<1>a. own \in Seq(Chunk)
      /\ \A i \in DOMAIN chunks[d][d] :
           /\ i \in DOMAIN own
           /\ ~chunks[d][d][i].query => own[i] = chunks[d][d][i]
  BY <1>3, Zenon
<1>6. PublicStays /\ OwnHeld' /\ HeldIsPublic'
  BY <1>a, <1>4, <1>5, OwnGrows, Zenon
<1>7. /\ chunks' \in [Drone -> [Drone -> Seq(Chunk)]]
      /\ chunks'[d][d] = own
      /\ \A e, o \in Drone : e # d \/ o # d => chunks'[e][o] = chunks[e][o]
  BY <1>1, <1>3, <1>5, OwnChange
<1>8. listed \in SUBSET (1 .. Len(own)) /\ Len(own) \in Nat
  BY <1>3 DEF own
<1>9. /\ ids' \in [Drone -> [Drone -> SUBSET (Nat \ {0})]]
      /\ ids'[d][d] = listed
      /\ \A e, o \in Drone : e # d \/ o # d => ids'[e][o] = ids[e][o]
  BY <1>1, <1>8 DEF TypeOK
<1>10. BufferAgrees'
  BY <1>1, <1>6, BufferKeeps DEF BufferAgrees
<1>11. ListedIsHeld'
  <2>1. SUFFICES ASSUME NEW e \in Drone, NEW o \in Drone, NEW i \in ids'[e][o]
                 PROVE  i \in DOMAIN chunks'[e][o]
                        /\ ~chunks'[e][o][i].empty
    BY DEF ListedIsHeld
  <2>2. CASE e = d /\ o = d
    BY <2>1, <2>2, <1>3, <1>4, <1>7, <1>8, <1>9
  <2>3. CASE e # d \/ o # d
    BY <2>1, <2>3, <1>1, <1>7, <1>9 DEF ListedIsHeld
  <2>4. QED
    BY <2>2, <2>3
<1>12. buffer' \in [Drone -> [Drone -> SUBSET ChunkData]]
  BY <1>1 DEF TypeOK
<1>13. QED
  BY <1>6, <1>7, <1>9, <1>10, <1>11, <1>12

LEMMA NewChunkType ==
  ASSUME NEW voxels \in SUBSET Voxel
  PROVE  NewChunk(voxels) \in Chunk /\ ~NewChunk(voxels).empty
BY DEF NewChunk, Chunk

LEMMA FlushKeeps ==
  ASSUME Inv, NEW d \in Drone, Flush(d)
  PROVE  Inv'
<1> DEFINE new == <<NewChunk(pending[d])>>
           listed == ids[d][d] \cup {NextId(d)}
<1>1. TypeOK /\ ListedIsHeld
  BY DEF Inv
<1>2. /\ chunks[d][d] \in Seq(Chunk) /\ pending[d] \in SUBSET Voxel
      /\ ids[d][d] \in SUBSET (1 .. Len(chunks[d][d]))
  BY <1>1 DEF TypeOK, ListedIsHeld
<1>3. NewChunk(pending[d]) \in Chunk /\ ~NewChunk(pending[d]).empty
  BY <1>2, NewChunkType
<1>4. /\ new \in Seq(Chunk) /\ \A i \in DOMAIN new : ~new[i].empty
      /\ Append(chunks[d][d], NewChunk(pending[d])) = chunks[d][d] \o new
      /\ Len(chunks[d][d] \o new) = Len(chunks[d][d]) + 1
  BY <1>2, <1>3
<1>5. listed \in SUBSET (1 .. Len(chunks[d][d] \o new))
  BY <1>2, <1>4 DEF NextId
<1>6. /\ chunks' = [chunks EXCEPT ![d][d] = chunks[d][d] \o new]
      /\ ids' = [ids EXCEPT ![d][d] = listed]
      /\ buffer' = buffer
  BY <1>1, <1>4 DEF Flush, TypeOK
<1> HIDE DEF new, listed
<1>7. /\ chunks' \in [Drone -> [Drone -> Seq(Chunk)]]
      /\ ids' \in [Drone -> [Drone -> SUBSET (Nat \ {0})]]
      /\ buffer' \in [Drone -> [Drone -> SUBSET ChunkData]]
      /\ OwnHeld' /\ BufferAgrees' /\ HeldIsPublic' /\ ListedIsHeld'
  BY <1>4, <1>5, <1>6, Appended
<1>8. /\ alive' \subseteq Drone
      /\ map' \in [Drone -> [Voxel -> Observed \cup {"unknown"}]]
      /\ pending' \in [Drone -> SUBSET Voxel]
  BY <1>1 DEF Flush, TypeOK
<1>9. QED
  BY <1>7, <1>8 DEF Inv, TypeOK

LEMMA CutKeeps ==
  ASSUME Inv, NEW d \in Drone, NEW addresses \in SUBSET Voxel,
         Cardinality(addresses) >= ChunkSize,
         Cut(d, addresses), buffer' = buffer
  PROVE  /\ alive' \subseteq Drone
         /\ pending' \in [Drone -> SUBSET Voxel]
         /\ chunks' \in [Drone -> [Drone -> Seq(Chunk)]]
         /\ ids' \in [Drone -> [Drone -> SUBSET (Nat \ {0})]]
         /\ buffer' \in [Drone -> [Drone -> SUBSET ChunkData]]
         /\ OwnHeld' /\ BufferAgrees' /\ HeldIsPublic' /\ ListedIsHeld'
<1>1. PICK cut \in Cuts(addresses) :
        LET own == chunks[d][d] \o [i \in DOMAIN cut |-> NewChunk(cut[i])]
        IN /\ chunks' = [chunks EXCEPT ![d][d] = own]
           /\ ids' = [ids EXCEPT ![d][d] = 1 .. Len(own)]
           /\ pending' = [pending EXCEPT
                            ![d] = addresses \ UNION {cut[i] : i \in DOMAIN cut}]
           /\ UNCHANGED alive
  BY DEF Cut
<1> DEFINE new == [i \in DOMAIN cut |-> NewChunk(cut[i])]
           n == CutCount(addresses)
<1>2. n \in Nat
  <2>1. IsFiniteSet(addresses)
    BY ChunkAssumption, FS_Subset
  <2>2. Cardinality(addresses) \in Nat /\ ChunkSize \in Nat /\ ChunkSize > 0
    BY <2>1, FS_CardinalityType, ChunkAssumption
  <2>3. QED
    BY <2>2 DEF CutCount
<1>3. DOMAIN cut = 1 .. n /\ \A i \in 1 .. n : cut[i] \in SUBSET Voxel
  BY DEF Cuts, kSubset
<1>4. /\ DOMAIN new = 1 .. n
      /\ \A i \in 1 .. n : new[i] \in Chunk /\ ~new[i].empty
  BY <1>3, NewChunkType
<1>5. new = [i \in 1 .. n |-> new[i]]
  BY <1>3
<1>6. new \in [1 .. n -> Chunk]
  BY <1>4, <1>5, Zenon
<1>7. new \in Seq(Chunk)
  BY <1>2, <1>6
<1>8. /\ chunks' = [chunks EXCEPT ![d][d] = chunks[d][d] \o new]
      /\ ids' = [ids EXCEPT ![d][d] = 1 .. Len(chunks[d][d] \o new)]
  BY <1>1
<1>9. \A i \in DOMAIN new : ~new[i].empty
  BY <1>4
<1> HIDE DEF new, n
<1>10. /\ chunks' \in [Drone -> [Drone -> Seq(Chunk)]]
       /\ ids' \in [Drone -> [Drone -> SUBSET (Nat \ {0})]]
       /\ buffer' \in [Drone -> [Drone -> SUBSET ChunkData]]
       /\ OwnHeld' /\ BufferAgrees' /\ HeldIsPublic' /\ ListedIsHeld'
  BY <1>7, <1>8, <1>9, Appended
<1>11. alive' \subseteq Drone /\ pending' \in [Drone -> SUBSET Voxel]
  BY <1>1 DEF Inv, TypeOK
<1>12. QED
  BY <1>10, <1>11

LEMMA ScanKeeps ==
  ASSUME Inv, NEW d \in Drone, Scan(d)
  PROVE  Inv'
<1>1. TypeOK
  BY DEF Inv
<1>2. PICK scan \in Scans[d] :
        LET addresses == pending[d] \cup (DOMAIN scan \cap Unknown(d))
        IN /\ map' = [map EXCEPT ![d] = [v \in Voxel |->
                        IF v \in DOMAIN scan THEN scan[v] ELSE @[v]]]
           /\ IF Cardinality(addresses) < ChunkSize
              THEN /\ pending' = [pending EXCEPT ![d] = addresses]
                   /\ UNCHANGED <<alive, chunks, ids>>
              ELSE IF LastOfNothing(d, addresses)
              THEN /\ alive' = alive \ {d}
                   /\ UNCHANGED <<pending, chunks, ids>>
              ELSE Cut(d, addresses)
  BY DEF Scan
<1>3. buffer' = buffer
  BY DEF Scan
<1> DEFINE addresses == pending[d] \cup (DOMAIN scan \cap Unknown(d))
<1>4. addresses \in SUBSET Voxel
  BY <1>1 DEF TypeOK, Unknown
<1>5. map' \in [Drone -> [Voxel -> Observed \cup {"unknown"}]]
  <2>1. \A v \in DOMAIN scan : scan[v] \in Observed
    <3>1. PICK S \in SUBSET Voxel : scan \in [S -> {"free", "occupied"}]
      BY ChunkAssumption
    <3>2. QED
      BY <3>1 DEF Observed
  <2>2. [v \in Voxel |-> IF v \in DOMAIN scan THEN scan[v] ELSE map[d][v]]
        \in [Voxel -> Observed \cup {"unknown"}]
    BY <2>1, <1>1 DEF TypeOK
  <2>3. QED
    BY <1>1, <1>2, <2>2 DEF TypeOK
<1>6. Cardinality(addresses) \in Nat /\ ChunkSize \in Nat
  BY <1>4, ChunkAssumption, FS_Subset, FS_CardinalityType
<1>7. CASE Cardinality(addresses) < ChunkSize \/ LastOfNothing(d, addresses)
  <2>1. UNCHANGED <<chunks, ids>>
    BY <1>2, <1>7
  <2>2. OwnHeld' /\ BufferAgrees' /\ HeldIsPublic' /\ ListedIsHeld'
    BY <1>3, <2>1
       DEF Inv, OwnHeld, BufferAgrees, HeldIsPublic, ListedIsHeld, Agrees, Public
  <2>3. \/ /\ pending' = [pending EXCEPT ![d] = addresses]
           /\ alive' = alive
        \/ alive' = alive \ {d} /\ pending' = pending
    BY <1>2, <1>7
  <2>4. alive' \subseteq Drone /\ pending' \in [Drone -> SUBSET Voxel]
    BY <1>1, <1>4, <2>3 DEF TypeOK
  <2>5. QED
    BY <1>1, <1>3, <1>5, <2>1, <2>2, <2>4 DEF Inv, TypeOK
<1>8. CASE Cut(d, addresses) /\ ~(Cardinality(addresses) < ChunkSize)
  <2>1. Cardinality(addresses) >= ChunkSize
    BY <1>6, <1>8
  <2>2. /\ alive' \subseteq Drone
        /\ pending' \in [Drone -> SUBSET Voxel]
        /\ chunks' \in [Drone -> [Drone -> Seq(Chunk)]]
        /\ ids' \in [Drone -> [Drone -> SUBSET (Nat \ {0})]]
        /\ buffer' \in [Drone -> [Drone -> SUBSET ChunkData]]
        /\ OwnHeld' /\ BufferAgrees' /\ HeldIsPublic' /\ ListedIsHeld'
    BY <1>3, <1>4, <1>8, <2>1, CutKeeps
  <2>3. QED
    BY <1>5, <2>2 DEF Inv, TypeOK
<1>9. QED
  BY <1>2, <1>7, <1>8

-----------------------------------------------------------------------------
(* Exchange *)

LEMMA QueriedType ==
  ASSUME NEW d, NEW c \in Chunk
  PROVE  /\ Queried(d, c) \in Chunk
         /\ ~Queried(d, c).query
         /\ Queried(d, c).empty = c.empty
<1>1. {v \in c.voxels : map[d][v] = "occupied"} \in SUBSET Voxel
  BY DEF Chunk
<1>2. QED
  BY <1>1 DEF Queried, Chunk

(* An own chunk that is sent is public, and is what it was if it was public. *)
LEMMA SentOwn ==
  ASSUME TypeOK, NEW d \in Drone, NEW i \in DOMAIN chunks[d][d]
  PROVE  /\ Sent(d, d, i) \in Chunk
         /\ ~Sent(d, d, i).query
         /\ Sent(d, d, i).empty = chunks[d][d][i].empty
         /\ ~chunks[d][d][i].query => Sent(d, d, i) = chunks[d][d][i]
<1>1. chunks[d][d][i] \in Chunk
  BY DEF TypeOK
<1>2. CASE chunks[d][d][i].query
  BY <1>1, <1>2, QueriedType DEF Sent
<1>3. CASE ~chunks[d][d][i].query
  BY <1>1, <1>3 DEF Sent
<1>4. QED
  BY <1>2, <1>3

(* What d publishes about a chunk is what its owner holds afterwards.        *)
LEMMA SentAgrees ==
  ASSUME Inv, NEW d \in Drone, NEW s \in Drone, NEW reached,
         Exchange(d, s, reached), PublicStays,
         NEW r \in Missing(d, s)
  PROVE  /\ r[1] \in Drone /\ r[2] \in Nat \ {0}
         /\ r[2] \in DOMAIN chunks'[r[1]][r[1]]
         /\ ~chunks'[r[1]][r[1]][r[2]].query
         /\ Sent(d, r[1], r[2]) = chunks'[r[1]][r[1]][r[2]]
         /\ Sent(d, r[1], r[2]) \in Chunk
<1>1. TypeOK /\ ListedIsHeld /\ HeldIsPublic
  BY DEF Inv
<1>2. PICK o \in Drone \ {s} : r \in {o} \X (ids[d][o] \ ids[s][o])
  BY DEF Missing
<1>3. r[1] = o /\ r[2] \in ids[d][o] /\ r = <<o, r[2]>>
  BY <1>2
<1>4. r[2] \in DOMAIN chunks[d][o] /\ ~chunks[d][o][r[2]].empty
  BY <1>1, <1>3 DEF ListedIsHeld
<1>5. r[2] \in Nat \ {0} /\ chunks[d][o][r[2]] \in Chunk
  BY <1>1, <1>3, <1>4 DEF TypeOK
<1>6. CASE o = d
  <2>1. chunks'[d][d] = [i \in DOMAIN chunks[d][d] |->
           IF <<d, i>> \in Missing(d, s) THEN Sent(d, d, i)
           ELSE chunks[d][d][i]]
    BY <1>1 DEF Exchange, TypeOK
  <2>2. <<d, r[2]>> \in Missing(d, s) /\ r[2] \in DOMAIN chunks[d][d]
    BY <1>3, <1>4, <1>6
  <2>3. r[2] \in DOMAIN chunks'[d][d] /\ chunks'[d][d][r[2]] = Sent(d, d, r[2])
    BY <2>1, <2>2
  <2>4. ~Sent(d, d, r[2]).query /\ Sent(d, d, r[2]) \in Chunk
    BY <1>1, <2>2, SentOwn
  <2>5. QED
    BY <1>3, <1>5, <1>6, <2>3, <2>4
<1>7. CASE o # d
  <2>1. Sent(d, o, r[2]) = chunks[d][o][r[2]]
    BY <1>7 DEF Sent
  <2>2. /\ r[2] \in DOMAIN chunks[o][o] /\ ~chunks[o][o][r[2]].query
        /\ chunks[d][o][r[2]] = chunks[o][o][r[2]]
    BY <1>1, <1>4, <1>7 DEF HeldIsPublic, Public
  <2>3. /\ r[2] \in DOMAIN chunks'[o][o]
        /\ chunks'[o][o][r[2]] = chunks[o][o][r[2]]
    BY <2>2 DEF PublicStays
  <2>4. QED
    BY <1>3, <1>5, <2>1, <2>2, <2>3
<1>8. QED
  BY <1>6, <1>7

LEMMA ExchangeKeeps ==
  ASSUME Inv, NEW d \in Drone, NEW s \in Drone,
         NEW reached \in [Hearers(d) -> SUBSET Missing(d, s)],
         Exchange(d, s, reached)
  PROVE  Inv'
<1> DEFINE own == [i \in DOMAIN chunks[d][d] |->
                     IF <<d, i>> \in Missing(d, s) THEN Sent(d, d, i)
                     ELSE chunks[d][d][i]]
<1>1. TypeOK /\ OwnHeld /\ BufferAgrees /\ ListedIsHeld
  BY DEF Inv
<1>2. UNCHANGED <<alive, map, pending, ids>>
  BY DEF Exchange
<1>3. \A i \in DOMAIN chunks[d][d] :
        /\ own[i] \in Chunk /\ ~own[i].empty
        /\ ~chunks[d][d][i].query => own[i] = chunks[d][d][i]
  <2>1. SUFFICES ASSUME NEW i \in DOMAIN chunks[d][d]
                 PROVE  /\ own[i] \in Chunk /\ ~own[i].empty
                        /\ ~chunks[d][d][i].query => own[i] = chunks[d][d][i]
    BY Zenon
  <2>2. chunks[d][d][i] \in Chunk /\ ~chunks[d][d][i].empty
    BY <1>1 DEF TypeOK, OwnHeld
  <2>3. own[i] = Sent(d, d, i) \/ own[i] = chunks[d][d][i]
    OBVIOUS
  <2>4. /\ Sent(d, d, i) \in Chunk
        /\ Sent(d, d, i).empty = chunks[d][d][i].empty
        /\ ~chunks[d][d][i].query => Sent(d, d, i) = chunks[d][d][i]
    BY <1>1, SentOwn
  <2> HIDE DEF own
  <2>5. QED
    BY <2>2, <2>3, <2>4
<1>4. /\ DOMAIN chunks[d][d] = 1 .. Len(chunks[d][d])
      /\ Len(chunks[d][d]) \in Nat
  BY <1>1 DEF TypeOK
<1>5. DOMAIN own = DOMAIN chunks[d][d]
  OBVIOUS
<1>6. chunks' = [chunks EXCEPT ![d][d] = own]
  BY <1>1 DEF Exchange, TypeOK
<1>7. own \in [1 .. Len(chunks[d][d]) -> Chunk]
  BY <1>3, <1>4
<1>8. own \in Seq(Chunk)
  BY <1>4, <1>7
<1> HIDE DEF own
<1>9. PublicStays /\ OwnHeld' /\ HeldIsPublic'
  BY <1>3, <1>5, <1>6, <1>8, OwnGrows
<1>10. /\ chunks' \in [Drone -> [Drone -> Seq(Chunk)]]
       /\ chunks'[d][d] = own
       /\ \A e, o \in Drone : e # d \/ o # d => chunks'[e][o] = chunks[e][o]
  BY <1>1, <1>6, <1>8, OwnChange
<1>11. ListedIsHeld'
  <2>1. SUFFICES ASSUME NEW e \in Drone, NEW o \in Drone, NEW i \in ids[e][o]
                 PROVE  i \in DOMAIN chunks'[e][o]
                        /\ ~chunks'[e][o][i].empty
    BY <1>2 DEF ListedIsHeld
  <2>2. i \in DOMAIN chunks[e][o] /\ ~chunks[e][o][i].empty
    BY <1>1 DEF ListedIsHeld
  <2>3. CASE e = d /\ o = d
    BY <2>2, <2>3, <1>3, <1>5, <1>10
  <2>4. CASE e # d \/ o # d
    BY <2>2, <2>4, <1>10
  <2>5. QED
    BY <2>3, <2>4
<1>12. \A e, o \in Drone : \A c \in buffer'[e][o] :
         \/ c \in buffer[e][o]
         \/ c \in ChunkData /\ Agrees(o, c)'
  <2>1. SUFFICES ASSUME NEW e \in Drone, NEW o \in Drone,
                        NEW c \in buffer'[e][o], c \notin buffer[e][o]
                 PROVE  c \in ChunkData /\ Agrees(o, c)'
    BY Zenon
  <2>2. buffer' = [f \in Drone |->
                     IF f \in Hearers(d) THEN Buffered(d, f, reached[f])
                     ELSE buffer[f]]
    BY DEF Exchange
  <2>3. e \in Hearers(d) /\ c \in Buffered(d, e, reached[e])[o]
    BY <2>1, <2>2
  <2>4. PICK r \in reached[e] :
          /\ r[1] = o
          /\ c = [idx |-> r[2], voxels |-> Sent(d, o, r[2]).voxels,
                  occupied |-> Sent(d, o, r[2]).occupied]
    BY <2>1, <2>3 DEF Buffered
  <2>5. r \in Missing(d, s)
    BY <2>3, <2>4
  <2>6. /\ r[2] \in Nat \ {0}
        /\ r[2] \in DOMAIN chunks'[o][o]
        /\ ~chunks'[o][o][r[2]].query
        /\ Sent(d, o, r[2]) = chunks'[o][o][r[2]]
        /\ Sent(d, o, r[2]) \in Chunk
    BY <1>9, <2>4, <2>5, SentAgrees
  <2>7. Sent(d, o, r[2]).voxels \in SUBSET Voxel
        /\ Sent(d, o, r[2]).occupied \in SUBSET Voxel
    BY <2>6 DEF Chunk
  <2>8. c \in ChunkData
    BY <2>4, <2>6, <2>7 DEF ChunkData
  <2>9. /\ c.idx = r[2] /\ c.voxels = Sent(d, o, r[2]).voxels
        /\ c.occupied = Sent(d, o, r[2]).occupied
    BY <2>4
  <2>10. Agrees(o, c)'
    BY <2>6, <2>9 DEF Agrees, Public
  <2>11. QED
    BY <2>8, <2>10
<1>13. BufferAgrees'
  BY <1>1, <1>9, <1>12, BufferKeeps DEF BufferAgrees
<1>14. buffer' \in [Drone -> [Drone -> SUBSET ChunkData]]
  <2>1. \A e, o \in Drone : buffer[e][o] \in SUBSET ChunkData
    BY <1>1 DEF TypeOK
  <2>2. \A e, o \in Drone : buffer'[e][o] \in SUBSET ChunkData
    BY <2>1, <1>12
  <2>3. buffer' = [e \in Drone |-> buffer'[e]]
    BY DEF Exchange
  <2>4. \A e \in Drone : buffer'[e] = [o \in Drone |-> buffer'[e][o]]
    BY <1>1 DEF Exchange, Buffered, TypeOK
  <2>5. \A e \in Drone : buffer'[e] \in [Drone -> SUBSET ChunkData]
    BY <2>2, <2>4
  <2>6. QED
    BY <2>3, <2>5
<1>15. QED
  BY <1>1, <1>2, <1>9, <1>10, <1>11, <1>13, <1>14 DEF Inv, TypeOK

-----------------------------------------------------------------------------
(* The chunk timer *)

(* The number of chunks of o that d has room for after the timer.            *)
Room(d, o) == Max({Len(chunks[d][o])} \cup {c.idx : c \in buffer[d][o]})

LEMMA RoomBounds ==
  ASSUME Inv, NEW d \in Drone, NEW o \in Drone
  PROVE  /\ Room(d, o) \in Nat
         /\ Len(chunks[d][o]) <= Room(d, o)
         /\ \A c \in buffer[d][o] : c.idx <= Room(d, o)
         /\ \A c \in buffer[d][o] :
              c.idx \in DOMAIN chunks[o][o] /\ c.idx \in Nat \ {0}
         /\ Room(d, o) = Len(chunks[d][o])
            \/ \E c \in buffer[d][o] : Room(d, o) = c.idx
<1> DEFINE T == {Len(chunks[d][o])} \cup {c.idx : c \in buffer[d][o]}
<1>1. TypeOK /\ BufferAgrees
  BY DEF Inv
<1>2. /\ Len(chunks[d][o]) \in Nat /\ Len(chunks[o][o]) \in Nat
      /\ DOMAIN chunks[o][o] = 1 .. Len(chunks[o][o])
  BY <1>1 DEF TypeOK
<1>3. \A c \in buffer[d][o] :
        c.idx \in DOMAIN chunks[o][o] /\ c.idx \in Nat \ {0}
  BY <1>1, <1>2 DEF BufferAgrees, Agrees, Public
<1>4. T \in SUBSET Nat /\ T # {}
  BY <1>2, <1>3
<1>5. PICK b \in Nat : Len(chunks[d][o]) <= b /\ Len(chunks[o][o]) <= b
  <2>1. \A m, n \in Nat : \E k \in Nat : m <= k /\ n <= k
    <3>1. \A m, n \in Nat : m + n \in Nat /\ m <= m + n /\ n <= m + n
      OBVIOUS
    <3>2. QED
      BY <3>1
  <2>2. QED
    BY <1>2, <2>1
<1>6. \A c \in buffer[d][o] : c.idx <= b
  BY <1>2, <1>3, <1>5
<1>7. \A k \in T : k <= b
  BY <1>5, <1>6
<1>8. /\ \A k \in T : k <= Room(d, o)
      /\ Room(d, o) \in T
  <2> HIDE DEF T
  <2>1. Max(T) \in T /\ \A k \in T : k <= Max(T)
    BY <1>4, <1>5, <1>7, Largest
  <2>2. QED
    BY <2>1 DEF Room, T
<1>9. QED
  BY <1>3, <1>4, <1>8

(* What the timer does to the chunks of one owner.                           *)
LEMMA FilledIs ==
  ASSUME Inv, NEW d \in Drone, NEW o \in Drone
  PROVE  /\ DOMAIN Filled(d, o) = 1 .. Room(d, o)
         /\ \A i \in 1 .. Room(d, o) :
              \/ \E c \in Fresh(d, o) :
                   /\ c.idx = i
                   /\ Filled(d, o)[i] = [voxels |-> c.voxels,
                         occupied |-> c.occupied,
                         query |-> FALSE, empty |-> FALSE]
              \/ /\ ~ \E c \in Fresh(d, o) : c.idx = i
                 /\ i <= Len(chunks[d][o])
                 /\ Filled(d, o)[i] = chunks[d][o][i]
              \/ /\ ~ \E c \in Fresh(d, o) : c.idx = i
                 /\ ~(i <= Len(chunks[d][o]))
                 /\ Filled(d, o)[i] = Placeholder
<1>1. Filled(d, o) =
        [i \in 1 .. Room(d, o) |->
           IF \E c \in Fresh(d, o) : c.idx = i
           THEN LET c == CHOOSE c \in Fresh(d, o) : c.idx = i
                IN [voxels |-> c.voxels, occupied |-> c.occupied,
                    query |-> FALSE, empty |-> FALSE]
           ELSE IF i <= Len(chunks[d][o]) THEN chunks[d][o][i]
           ELSE Placeholder]
  BY DEF Filled, Room
<1>2. SUFFICES ASSUME NEW i \in 1 .. Room(d, o)
               PROVE
              \/ \E c \in Fresh(d, o) :
                   /\ c.idx = i
                   /\ Filled(d, o)[i] = [voxels |-> c.voxels,
                         occupied |-> c.occupied,
                         query |-> FALSE, empty |-> FALSE]
              \/ /\ ~ \E c \in Fresh(d, o) : c.idx = i
                 /\ i <= Len(chunks[d][o])
                 /\ Filled(d, o)[i] = chunks[d][o][i]
              \/ /\ ~ \E c \in Fresh(d, o) : c.idx = i
                 /\ ~(i <= Len(chunks[d][o]))
                 /\ Filled(d, o)[i] = Placeholder
  BY <1>1
<1>3. CASE \E c \in Fresh(d, o) : c.idx = i
  <2> DEFINE f == CHOOSE c \in Fresh(d, o) : c.idx = i
  <2>1. f \in Fresh(d, o) /\ f.idx = i
    BY <1>3
  <2>2. Filled(d, o)[i] = [voxels |-> f.voxels, occupied |-> f.occupied,
                           query |-> FALSE, empty |-> FALSE]
    BY <1>1, <1>3
  <2> HIDE DEF f
  <2>3. QED
    BY <2>1, <2>2
<1>4. CASE ~ \E c \in Fresh(d, o) : c.idx = i
  BY <1>1, <1>4
<1>5. QED
  BY <1>3, <1>4

LEMMA FilledType ==
  ASSUME Inv, NEW d \in Drone, NEW o \in Drone
  PROVE  Filled(d, o) \in Seq(Chunk)
<1>1. TypeOK
  BY DEF Inv
<1>2. DOMAIN Filled(d, o) = 1 .. Room(d, o) /\ Room(d, o) \in Nat
  BY FilledIs, RoomBounds
<1>3. ASSUME NEW i \in 1 .. Room(d, o)
      PROVE  Filled(d, o)[i] \in Chunk
  <2>1. CASE \E c \in Fresh(d, o) :
               /\ c.idx = i
               /\ Filled(d, o)[i] = [voxels |-> c.voxels,
                     occupied |-> c.occupied, query |-> FALSE, empty |-> FALSE]
    <3>1. PICK c \in Fresh(d, o) :
               Filled(d, o)[i] = [voxels |-> c.voxels,
                     occupied |-> c.occupied, query |-> FALSE, empty |-> FALSE]
      BY <2>1
    <3>2. c \in ChunkData
      BY <1>1 DEF Fresh, TypeOK
    <3>3. c.voxels \in SUBSET Voxel /\ c.occupied \in SUBSET Voxel
      BY <3>2 DEF ChunkData
    <3>4. QED
      BY <3>1, <3>3 DEF Chunk
  <2>2. CASE i <= Len(chunks[d][o]) /\ Filled(d, o)[i] = chunks[d][o][i]
    BY <1>1, <1>2, <2>2 DEF TypeOK
  <2>3. CASE Filled(d, o)[i] = Placeholder
    BY <2>3 DEF Placeholder, Chunk
  <2>4. QED
    BY <2>1, <2>2, <2>3, FilledIs
<1>4. Filled(d, o) = [i \in 1 .. Room(d, o) |-> Filled(d, o)[i]]
  BY <1>2 DEF Filled, Room
<1>5. Filled(d, o) \in [1 .. Room(d, o) -> Chunk]
  BY <1>3, <1>4
<1>6. QED
  BY <1>2, <1>5

(* Its own chunks come back to a robot, and change nothing.                  *)
LEMMA FilledOwn ==
  ASSUME Inv, NEW d \in Drone
  PROVE  Filled(d, d) = chunks[d][d]
<1>1. TypeOK /\ OwnHeld
  BY DEF Inv
<1>2. /\ chunks[d][d] \in Seq(Chunk)
      /\ Len(chunks[d][d]) \in Nat
      /\ DOMAIN chunks[d][d] = 1 .. Len(chunks[d][d])
  BY <1>1 DEF TypeOK
<1>3. \A c \in buffer[d][d] :
        /\ c.idx \in Nat /\ c.idx <= Len(chunks[d][d])
        /\ ~chunks[d][d][c.idx].empty
  BY <1>1, <1>2, RoomBounds DEF OwnHeld
<1>4. \A c : c \notin Fresh(d, d)
  BY <1>2, <1>3 DEF Fresh
<1>5. Room(d, d) = Len(chunks[d][d])
  <2>1. Room(d, d) = Len(chunks[d][d])
        \/ \E c \in buffer[d][d] : Room(d, d) = c.idx
    BY RoomBounds
  <2>2. Room(d, d) \in Nat /\ Len(chunks[d][d]) <= Room(d, d)
    BY RoomBounds
  <2>3. (\E c \in buffer[d][d] : Room(d, d) = c.idx)
        => Room(d, d) <= Len(chunks[d][d])
    BY <1>3
  <2>4. QED
    <3>1. Len(chunks[d][d]) \in Nat
      BY <1>2
    <3>2. Room(d, d) <= Len(chunks[d][d])
      BY <2>1, <2>3, <3>1
    <3>3. QED
      BY <2>2, <3>1, <3>2
<1>6. \A i \in 1 .. Len(chunks[d][d]) : Filled(d, d)[i] = chunks[d][d][i]
  <2>1. SUFFICES ASSUME NEW i \in 1 .. Room(d, d)
                 PROVE  Filled(d, d)[i] = chunks[d][d][i]
    BY <1>5
  <2>2. i <= Len(chunks[d][d])
    BY <1>2, <1>5, <2>1
  <2>3. ~ \E c \in Fresh(d, d) : c.idx = i
    BY <1>4
  <2>4. QED
    BY <2>1, <2>2, <2>3, FilledIs
<1>7. Filled(d, d) \in Seq(Chunk) /\ DOMAIN Filled(d, d) = 1 .. Room(d, d)
  BY FilledIs, FilledType
<1>8. QED
  BY <1>2, <1>5, <1>6, <1>7

LEMMA TimerMap ==
  ASSUME TypeOK, NEW d \in Drone, ChunkTimer(d)
  PROVE  map' \in [Drone -> [Voxel -> Observed \cup {"unknown"}]]
<1>1. \A v \in Voxel : InsertedBy(d, v) \in Observed
  BY DEF InsertedBy, Observed
<1>2. [v \in Voxel |-> IF \E o \in Drone : Inserts(d, o, v)
                       THEN InsertedBy(d, v) ELSE map[d][v]]
      \in [Voxel -> Observed \cup {"unknown"}]
  BY <1>1 DEF TypeOK
<1>3. QED
  BY <1>2 DEF ChunkTimer, TypeOK

LEMMA TimerKeeps ==
  ASSUME Inv, NEW d \in Drone, ChunkTimer(d)
  PROVE  Inv'
<1>1. TypeOK /\ OwnHeld /\ BufferAgrees /\ HeldIsPublic /\ ListedIsHeld
  BY DEF Inv
<1>2. /\ chunks' \in [Drone -> [Drone -> Seq(Chunk)]]
      /\ \A o \in Drone : chunks'[d][o] = Filled(d, o)
      /\ \A e \in Drone : e # d => chunks'[e] = chunks[e]
  <2>1. [o \in Drone |-> Filled(d, o)] \in [Drone -> Seq(Chunk)]
    BY FilledType
  <2>2. chunks' = [chunks EXCEPT ![d] = [o \in Drone |-> Filled(d, o)]]
    BY DEF ChunkTimer
  <2>3. QED
    BY <1>1, <2>1, <2>2 DEF TypeOK
<1>3. \A o \in Drone : chunks'[o][o] = chunks[o][o]
  BY <1>2, FilledOwn
<1>4. OwnHeld' /\ PublicStays
  BY <1>1, <1>3 DEF OwnHeld, PublicStays
<1>5. /\ buffer' \in [Drone -> [Drone -> SUBSET ChunkData]]
      /\ \A e, o \in Drone : buffer'[e][o] \subseteq buffer[e][o]
  BY <1>1 DEF ChunkTimer, TypeOK
<1>6. BufferAgrees'
  BY <1>1, <1>4, <1>5, BufferKeeps DEF BufferAgrees
<1>7. /\ ids' \in [Drone -> [Drone -> SUBSET (Nat \ {0})]]
      /\ \A e \in Drone : e # d => ids'[e] = ids[e]
      /\ \A o \in Drone :
           ids'[d][o] = ids[d][o] \cup {c.idx : c \in buffer[d][o]}
  <2>1. \A o \in Drone : {c.idx : c \in buffer[d][o]} \in SUBSET (Nat \ {0})
    BY RoomBounds
  <2>2. [o \in Drone |-> ids[d][o] \cup {c.idx : c \in buffer[d][o]}]
        \in [Drone -> SUBSET (Nat \ {0})]
    BY <1>1, <2>1 DEF TypeOK
  <2>3. ids' = [ids EXCEPT ![d] =
                  [o \in Drone |-> ids[d][o] \cup {c.idx : c \in buffer[d][o]}]]
    BY <1>1 DEF ChunkTimer, TypeOK
  <2>4. QED
    BY <1>1, <2>2, <2>3 DEF TypeOK
<1>8. HeldIsPublic'
  <2>1. SUFFICES ASSUME NEW e \in Drone, NEW o \in Drone, e # o,
                        NEW i \in DOMAIN chunks'[e][o],
                        ~chunks'[e][o][i].empty
                 PROVE  /\ i \in DOMAIN chunks[o][o]
                        /\ ~chunks[o][o][i].query
                        /\ chunks'[e][o][i] = chunks[o][o][i]
    BY <1>3 DEF HeldIsPublic, Public
  <2>2. CASE e # d
    <3>1. chunks'[e][o] = chunks[e][o]
      BY <1>2, <2>2
    <3>2. i \in DOMAIN chunks[e][o] /\ ~chunks[e][o][i].empty
      BY <2>1, <3>1
    <3>3. QED
      BY <1>1, <2>1, <3>1, <3>2 DEF HeldIsPublic, Public
  <2>3. CASE e = d
    <3>1. i \in 1 .. Room(d, o) /\ ~Filled(d, o)[i].empty
      BY <1>2, <2>1, <2>3, FilledIs
    <3>2. CASE \E c \in Fresh(d, o) :
                 /\ c.idx = i
                 /\ Filled(d, o)[i] = [voxels |-> c.voxels,
                       occupied |-> c.occupied, query |-> FALSE, empty |-> FALSE]
      <4>1. PICK c \in Fresh(d, o) :
                 /\ c.idx = i
                 /\ Filled(d, o)[i] = [voxels |-> c.voxels,
                       occupied |-> c.occupied, query |-> FALSE, empty |-> FALSE]
        BY <3>2
      <4>2. /\ i \in DOMAIN chunks[o][o]
            /\ ~chunks[o][o][i].query
            /\ c.voxels = chunks[o][o][i].voxels
            /\ c.occupied = chunks[o][o][i].occupied
        BY <1>1, <4>1 DEF Fresh, BufferAgrees, Agrees, Public
      <4>3. chunks[o][o][i] \in Chunk /\ ~chunks[o][o][i].empty
        BY <1>1, <4>2 DEF OwnHeld, TypeOK
      <4>4. chunks[o][o][i] = [voxels |-> c.voxels, occupied |-> c.occupied,
                               query |-> FALSE, empty |-> FALSE]
        BY <4>2, <4>3 DEF Chunk
      <4>5. QED
        BY <1>2, <2>3, <4>1, <4>2, <4>4
    <3>3. CASE i <= Len(chunks[d][o]) /\ Filled(d, o)[i] = chunks[d][o][i]
      <4>a. Room(d, o) \in Nat
        BY RoomBounds
      <4>b. /\ Len(chunks[d][o]) \in Nat
            /\ DOMAIN chunks[d][o] = 1 .. Len(chunks[d][o])
        BY <1>1 DEF TypeOK
      <4>1. i \in DOMAIN chunks[d][o]
        BY <3>1, <3>3, <4>a, <4>b
      <4>2. QED
        BY <1>1, <1>2, <2>1, <2>3, <3>1, <3>3, <4>1 DEF HeldIsPublic, Public
    <3>4. CASE Filled(d, o)[i] = Placeholder
      BY <3>1, <3>4 DEF Placeholder
    <3>5. QED
      BY <3>1, <3>2, <3>3, <3>4, FilledIs
  <2>4. QED
    BY <2>2, <2>3
<1>9. ListedIsHeld'
  <2>1. SUFFICES ASSUME NEW e \in Drone, NEW o \in Drone, NEW i \in ids'[e][o]
                 PROVE  i \in DOMAIN chunks'[e][o]
                        /\ ~chunks'[e][o][i].empty
    BY DEF ListedIsHeld
  <2>2. CASE e # d
    BY <1>1, <1>2, <1>7, <2>1, <2>2 DEF ListedIsHeld
  <2>3. CASE e = d
    <3>1. i \in ids[d][o] \/ \E c \in buffer[d][o] : c.idx = i
      BY <1>7, <2>1, <2>3
    <3>2. /\ Len(chunks[d][o]) \in Nat /\ Room(d, o) \in Nat
          /\ DOMAIN chunks[d][o] = 1 .. Len(chunks[d][o])
          /\ Len(chunks[d][o]) <= Room(d, o)
      <4>1. chunks[d][o] \in Seq(Chunk)
        BY <1>1 DEF TypeOK
      <4>2. Room(d, o) \in Nat /\ Len(chunks[d][o]) <= Room(d, o)
        BY <1>1, RoomBounds
      <4> QED
        BY <4>1, <4>2
    <3>3. i \in ids[d][o] =>
            i \in 1 .. Len(chunks[d][o]) /\ ~chunks[d][o][i].empty
      BY <1>1, <3>2 DEF ListedIsHeld
    <3>4. i \in 1 .. Room(d, o)
      <4>1. CASE i \in ids[d][o]
        BY <3>2, <3>3, <4>1
      <4>2. CASE \E c \in buffer[d][o] : c.idx = i
        <5>1. i \in Nat \ {0} /\ i <= Room(d, o)
          BY <4>2, RoomBounds
        <5>2. QED
          BY <3>2, <5>1
      <4>3. QED
        BY <3>1, <4>1, <4>2
    <3>5. ~(\E c \in Fresh(d, o) : c.idx = i) =>
            i \in 1 .. Len(chunks[d][o]) /\ ~chunks[d][o][i].empty
      <4>1. SUFFICES ASSUME ~(\E c \in Fresh(d, o) : c.idx = i),
                            NEW c \in buffer[d][o], c.idx = i
                     PROVE  i <= Len(chunks[d][o]) /\ ~chunks[d][o][i].empty
        BY <3>1, <3>3, <3>4
      <4>2. c \notin Fresh(d, o)
        BY <4>1
      <4>3. ~(i > Len(chunks[d][o])) /\ ~chunks[d][o][i].empty
        BY <4>1, <4>2 DEF Fresh
      <4>4. QED
        BY <3>2, <3>4, <4>3
    <3>6. ~Filled(d, o)[i].empty
      <4>1. CASE \E c \in Fresh(d, o) :
                   /\ c.idx = i
                   /\ Filled(d, o)[i] = [voxels |-> c.voxels,
                         occupied |-> c.occupied,
                         query |-> FALSE, empty |-> FALSE]
        BY <4>1
      <4>2. CASE /\ ~(\E c \in Fresh(d, o) : c.idx = i)
                 /\ i <= Len(chunks[d][o])
                 /\ Filled(d, o)[i] = chunks[d][o][i]
        BY <3>5, <4>2
      <4>3. CASE /\ ~(\E c \in Fresh(d, o) : c.idx = i)
                 /\ ~(i <= Len(chunks[d][o]))
        BY <3>2, <3>5, <4>3
      <4>4. i \in 1 .. Room(d, o)
        BY <3>4
      <4>5. \/ \E c \in Fresh(d, o) :
                  /\ c.idx = i
                  /\ Filled(d, o)[i] = [voxels |-> c.voxels,
                        occupied |-> c.occupied,
                        query |-> FALSE, empty |-> FALSE]
            \/ /\ ~ \E c \in Fresh(d, o) : c.idx = i
               /\ i <= Len(chunks[d][o])
               /\ Filled(d, o)[i] = chunks[d][o][i]
            \/ /\ ~ \E c \in Fresh(d, o) : c.idx = i
               /\ ~(i <= Len(chunks[d][o]))
               /\ Filled(d, o)[i] = Placeholder
        BY <2>1, <4>4, FilledIs
      <4>6. QED
        BY <4>1, <4>2, <4>3, <4>5
    <3>7. QED
      BY <1>2, <2>3, <3>4, <3>6, FilledIs
  <2>4. QED
    BY <2>2, <2>3
<1>10. alive' \subseteq Drone /\ pending' \in [Drone -> SUBSET Voxel]
  BY <1>1 DEF ChunkTimer, TypeOK
<1>11. map' \in [Drone -> [Voxel -> Observed \cup {"unknown"}]]
  BY <1>1, TimerMap
<1>12. QED
  BY <1>2, <1>4, <1>5, <1>6, <1>7, <1>8, <1>9, <1>10, <1>11 DEF Inv, TypeOK

-----------------------------------------------------------------------------
LEMMA InvInit == Init => Inv
<1> SUFFICES ASSUME Init PROVE Inv
  OBVIOUS
<1>1. \A d, o \in Drone : /\ chunks[d][o] = <<>>
                          /\ ids[d][o] = {} /\ buffer[d][o] = {}
  BY DEF Init
<1>2. \A d, o \in Drone : \A i : i \notin DOMAIN chunks[d][o]
  BY <1>1
<1>3. OwnHeld /\ BufferAgrees /\ HeldIsPublic /\ ListedIsHeld
  BY <1>1, <1>2 DEF OwnHeld, BufferAgrees, HeldIsPublic, ListedIsHeld
<1>4. TypeOK
  BY DEF Init, TypeOK
<1>5. QED
  BY <1>3, <1>4 DEF Inv

LEMMA InvNext == Inv /\ [Next]_vars => Inv'
<1> SUFFICES ASSUME Inv, [Next]_vars PROVE Inv'
  OBVIOUS
<1>1. CASE UNCHANGED vars
  BY <1>1 DEF vars, Inv, TypeOK, OwnHeld, BufferAgrees, HeldIsPublic,
              ListedIsHeld, Agrees, Public
<1>2. ASSUME NEW d \in Drone, Scan(d) PROVE Inv'
  BY <1>2, ScanKeeps
<1>3. ASSUME NEW d \in Drone, Flush(d) PROVE Inv'
  BY <1>3, FlushKeeps
<1>4. ASSUME NEW d \in Drone, ChunkTimer(d) PROVE Inv'
  BY <1>4, TimerKeeps
<1>5. ASSUME NEW d \in Drone, NEW s \in Drone, ReceiveStamp(d, s) PROVE Inv'
  BY <1>5, ExchangeKeeps DEF ReceiveStamp
<1>6. QED
  BY <1>1, <1>2, <1>3, <1>4, <1>5 DEF Next

LEMMA InvGivesCopiesAgree == Inv => CopiesAgree
BY DEF Inv, ListedIsHeld, HeldIsPublic, Public, CopiesAgree

LEMMA Invariance == Spec => []Inv
BY InvInit, InvNext, PTL DEF Spec

(* In every state of every system all variables have their types.            *)
THEOREM TypeCorrect == Spec => []TypeOK
<1>1. Inv => TypeOK
  BY DEF Inv
<1>2. QED
  BY <1>1, Invariance, PTL

(* Whatever is lost, repeated or relayed, and however the maps change        *)
(* meanwhile: what a robot lists it has, and it is what the owner has.       *)
THEOREM CopiesAlwaysAgree == Spec => []CopiesAgree
BY Invariance, InvGivesCopiesAgree, PTL

(* Remote chunks never change a voxel that the robot knows.                  *)
THEOREM LocalWins == Spec => LocalObservationsWin
<1>1. TypeOK /\ [Next]_vars =>
        [\A d \in Drone, v \in Voxel :
           map[d][v] # "unknown" /\ map'[d][v] # map[d][v] => Scan(d)]_vars
  BY OnlyScanChangesKnown
<1>2. QED
  BY <1>1, TypeCorrect, PTL DEF Spec, LocalObservationsWin
-----------------------------------------------------------------------------
(* The index lists *)

(* Every set of naturals that is not empty has a least element.              *)
LEMMA Least ==
  ASSUME NEW T \in SUBSET Nat, T # {}
  PROVE  \E m \in T : \A k \in T : m <= k
<1> DEFINE R == OpToRel(<, Nat)
<1>1. IsWellFoundedOn(R, Nat)
  BY NatLessThanWellFounded
<1> HIDE DEF R
<1>2. PICK m \in T : \A k \in T : ~(<<k, m>> \in R)
  BY <1>1, WFMin
<1>3. \A k \in T : k < m => <<k, m>> \in R
  BY DEF R, OpToRel
<1>4. \A k \in T : ~(k < m)
  BY <1>2, <1>3, Zenon
<1>5. m \in Nat /\ \A k \in T : k \in Nat
  OBVIOUS
<1>6. \A k \in T : m <= k
  BY <1>4, <1>5
<1>7. QED
  BY <1>6, Zenon

(* The intervals of a list are pairs of ids in order.                        *)
LEMMA Intervals ==
  ASSUME NEW list, WellFormed(list)
  PROVE  /\ DOMAIN list = 1 .. Len(list) /\ Len(list) \in Nat
         /\ \A i \in 1 .. Len(list) :
              /\ list[i] = <<list[i][1], list[i][2]>>
              /\ list[i][1] \in 1 .. MaxId /\ list[i][2] \in 1 .. MaxId
              /\ list[i][1] <= list[i][2]
         /\ \A i, k \in 1 .. Len(list) : i < k => list[i][2] + 1 < list[k][1]
<1>1. list \in Seq(Interval)
  BY DEF WellFormed
<1>2. DOMAIN list = 1 .. Len(list) /\ Len(list) \in Nat
      /\ \A i \in 1 .. Len(list) : list[i] \in Interval
  BY <1>1
<1>3. \A i \in 1 .. Len(list) :
        /\ list[i] = <<list[i][1], list[i][2]>>
        /\ list[i][1] \in 1 .. MaxId /\ list[i][2] \in 1 .. MaxId
  BY <1>2 DEF Interval
<1>4. QED
  BY <1>2, <1>3 DEF WellFormed

(* The end of the gap after the i-th interval.                               *)
GapEnd(list, i) == IF i = Len(list) THEN MaxId ELSE list[i + 1][1] - 1

LEMMA GapsAreBounds ==
  ASSUME NEW list, WellFormed(list), list # <<>>, NEW n \in Int
  PROVE  (\E gap \in Gaps(list) : n \in gap[1] .. gap[2])
         <=> \/ \E i \in 1 .. Len(list) :
                  list[i][2] < n /\ n <= GapEnd(list, i)
             \/ 1 <= n /\ n < list[1][1]
<1> DEFINE after(i) == <<list[i][2] + 1, GapEnd(list, i)>>
           before == <<1, list[1][1] - 1>>
<1>1. Gaps(list) = {after(i) : i \in 1 .. Len(list)}
                   \cup (IF list[1][1] > 1 THEN {before} ELSE {})
  BY Intervals DEF Gaps, GapEnd
<1>2. Len(list) >= 1
  BY Intervals DEF WellFormed
<1>3. \A i \in 1 .. Len(list) :
        list[i][2] \in Int /\ GapEnd(list, i) \in Int /\ list[i][1] \in Int
  BY Intervals, MaxIdAssumption DEF GapEnd
<1>4. \A i \in 1 .. Len(list) :
        n \in after(i)[1] .. after(i)[2]
        <=> list[i][2] < n /\ n <= GapEnd(list, i)
  BY <1>3
<1>5. n \in before[1] .. before[2] <=> 1 <= n /\ n < list[1][1]
  BY <1>2, <1>3
<1>6. list[1][1] > 1 \/ ~(1 <= n /\ n < list[1][1])
  BY <1>2, <1>3
<1> HIDE DEF after, before
<1>7. QED
  BY <1>1, <1>4, <1>5, <1>6

(* The gaps of a list hold exactly the ids that the list does not denote.    *)
LEMMA GapsAreComplement ==
  ASSUME NEW list, WellFormed(list), list # <<>>, NEW n \in 1 .. MaxId
  PROVE  (\E gap \in Gaps(list) : n \in gap[1] .. gap[2]) <=> n \notin Ids(list)
<1>0. Len(list) >= 1
  BY Intervals DEF WellFormed
<1>1. n \in Ids(list) <=>
        \E k \in 1 .. Len(list) : list[k][1] <= n /\ n <= list[k][2]
  BY Intervals DEF Ids
<1>2. ASSUME NEW i \in 1 .. Len(list), list[i][2] < n, n <= GapEnd(list, i),
             NEW k \in 1 .. Len(list), list[k][1] <= n, n <= list[k][2]
      PROVE  FALSE
  <2>1. CASE k <= i
    BY <1>2, <2>1, Intervals, MaxIdAssumption
  <2>2. CASE i < k
    <3>1. i + 1 \in 1 .. Len(list) /\ n < list[i + 1][1]
      BY <1>2, <2>2, Intervals DEF GapEnd
    <3>2. list[i + 1][1] <= list[k][1]
      <4>1. CASE k = i + 1
        BY <3>1, <4>1, Intervals, MaxIdAssumption
      <4>2. CASE i + 1 < k
        <5>1. list[i + 1][2] + 1 < list[k][1]
          BY <3>1, <4>2, Intervals
        <5>2. list[i + 1][1] <= list[i + 1][2]
              /\ list[i + 1][1] \in Int /\ list[i + 1][2] \in Int
              /\ list[k][1] \in Int
          BY <3>1, Intervals, MaxIdAssumption
        <5>3. QED
          BY <5>1, <5>2
      <4>3. QED
        BY <2>2, <4>1, <4>2, Intervals
    <3>3. QED
      BY <1>2, <3>1, <3>2, Intervals
  <2>3. QED
    BY <2>1, <2>2
<1>3. ASSUME n < list[1][1],
             NEW k \in 1 .. Len(list), list[k][1] <= n, n <= list[k][2]
      PROVE  FALSE
  <2>1. /\ list[1][1] <= list[1][2] /\ list[1][1] \in Int
        /\ list[1][2] \in Int /\ list[k][1] \in Int
    BY <1>0, Intervals, MaxIdAssumption
  <2>2. CASE k = 1
    BY <1>3, <2>1, <2>2
  <2>3. CASE 1 < k
    <3>1. list[1][2] + 1 < list[k][1]
      BY <1>0, <2>3, Intervals
    <3>2. QED
      BY <1>3, <2>1, <3>1
  <2>4. QED
    BY <2>2, <2>3, Intervals
<1>4. ASSUME \A k \in 1 .. Len(list) : ~(list[k][1] <= n /\ n <= list[k][2])
      PROVE  \/ \E i \in 1 .. Len(list) :
                  list[i][2] < n /\ n <= GapEnd(list, i)
             \/ 1 <= n /\ n < list[1][1]
  <2> DEFINE T == {i \in 1 .. Len(list) : n <= list[i][2]}
  <2>1. CASE T = {}
    <3>1. list[Len(list)][2] < n
      BY <1>0, <2>1, Intervals
    <3>2. n <= GapEnd(list, Len(list))
      BY DEF GapEnd
    <3>3. QED
      BY <1>0, <3>1, <3>2, Intervals
  <2>2. CASE T # {}
    <3>1. T \in SUBSET Nat
      BY Intervals
    <3>2. PICK m \in T : \A k \in T : m <= k
      BY <2>2, <3>1, Least
    <3>3. m \in 1 .. Len(list) /\ n < list[m][1]
      BY <1>4, <3>2, Intervals
    <3>4. CASE m = 1
      BY <3>3, <3>4
    <3>5. CASE m # 1
      <4>1. m - 1 \in 1 .. Len(list) /\ m - 1 \notin T
        BY <3>2, <3>3, <3>5, Intervals
      <4>2. list[m - 1][2] < n
        BY <4>1, Intervals
      <4>3. n <= GapEnd(list, m - 1)
        BY <3>3, <4>1, Intervals DEF GapEnd
      <4>4. QED
        BY <4>1, <4>2, <4>3
    <3>6. QED
      BY <3>4, <3>5
  <2>3. QED
    BY <2>1, <2>2
<1>5. QED
  BY <1>1, <1>2, <1>3, <1>4, GapsAreBounds

LEMMA CommonIsIntersection ==
  ASSUME NEW p \in Int \X Int, NEW q \in Int \X Int, NEW n \in Int
  PROVE  n \in Common(p, q)[1] .. Common(p, q)[2]
         <=> n \in p[1] .. p[2] /\ n \in q[1] .. q[2]
  BY DEF Common, Upper, Lower

LEMMA GapsAreIntervals ==
  ASSUME NEW list, WellFormed(list), list # <<>>
  PROVE  Gaps(list) \subseteq Int \X Int
<1>1. Len(list) >= 1
  BY Intervals DEF WellFormed
<1>2. ASSUME NEW i \in 1 .. Len(list)
      PROVE  <<list[i][2] + 1,
               IF i = Len(list) THEN MaxId ELSE list[i + 1][1] - 1>> \in Int \X Int
  <2>1. list[i][2] \in Int /\ MaxId \in Int
    BY Intervals, MaxIdAssumption
  <2>2. i # Len(list) => list[i + 1][1] \in Int
    BY Intervals, MaxIdAssumption
  <2>3. QED
    BY <2>1, <2>2
<1>3. <<1, list[1][1] - 1>> \in Int \X Int
  BY <1>1, Intervals
<1>4. QED
  BY <1>2, <1>3, Intervals DEF Gaps

(* For all lists, what findMissedChunkIds returns denotes exactly the chunks *)
(* that the own list denotes and the other one does not.                     *)
THEOREM MissedIsExact ==
  ASSUME NEW own, NEW other, WellFormed(own), WellFormed(other)
  PROVE  UNION {p[1] .. p[2] : p \in Missed(own, other)}
         = Ids(own) \ Ids(other)
<1> DEFINE sent == UNION {p[1] .. p[2] : p \in Missed(own, other)}
<1>1. CASE other = <<>>
  <2>1. Ids(other) = {}
    BY <1>1 DEF Ids
  <2>2. Missed(own, other) = {own[i] : i \in DOMAIN own}
    BY <1>1 DEF Missed
  <2>3. QED
    BY <2>1, <2>2 DEF Ids
<1>2. CASE other # <<>>
  <2>1. ASSUME NEW i \in DOMAIN own
        PROVE  /\ own[i] \in Int \X Int
               /\ own[i][1] \in 1 .. MaxId /\ own[i][2] \in 1 .. MaxId
    <3>1. /\ own[i] = <<own[i][1], own[i][2]>>
          /\ own[i][1] \in 1 .. MaxId /\ own[i][2] \in 1 .. MaxId
      BY Intervals
    <3>2. own[i][1] \in Int /\ own[i][2] \in Int
      BY <3>1
    <3>3. QED
      BY <3>1, <3>2
  <2>2. Missed(own, other) =
          {p \in {Common(own[i], gap) : i \in DOMAIN own, gap \in Gaps(other)} :
             p[1] <= p[2]}
    BY <1>2 DEF Missed
  <2>3. ASSUME NEW n \in sent
        PROVE  n \in Ids(own) \ Ids(other)
    <3>1. PICK i \in DOMAIN own, gap \in Gaps(other) :
            n \in Common(own[i], gap)[1] .. Common(own[i], gap)[2]
      BY <2>2, <2>3
    <3>2. n \in Int
      BY <3>1
    <3>3. n \in own[i][1] .. own[i][2] /\ n \in gap[1] .. gap[2]
      BY <1>2, <2>1, <3>1, <3>2, GapsAreIntervals, CommonIsIntersection
    <3>4. n \in 1 .. MaxId
      BY <2>1, <3>2, <3>3, MaxIdAssumption
    <3>5. n \in Ids(own)
      BY <3>3 DEF Ids
    <3>6. QED
      BY <1>2, <3>3, <3>4, <3>5, GapsAreComplement
  <2>4. ASSUME NEW n \in Ids(own) \ Ids(other)
        PROVE  n \in sent
    <3>1. PICK i \in DOMAIN own : n \in own[i][1] .. own[i][2]
      BY DEF Ids
    <3>2. n \in 1 .. MaxId
      BY <2>1, <3>1, MaxIdAssumption
    <3>3. PICK gap \in Gaps(other) : n \in gap[1] .. gap[2]
      BY <1>2, <3>2, GapsAreComplement
    <3>4. n \in Common(own[i], gap)[1] .. Common(own[i], gap)[2]
      BY <1>2, <2>1, <3>1, <3>2, <3>3, GapsAreIntervals, CommonIsIntersection
    <3>5. Common(own[i], gap)[1] <= Common(own[i], gap)[2]
      <4>1. Common(own[i], gap)[1] \in Int /\ Common(own[i], gap)[2] \in Int
        BY <1>2, <2>1, GapsAreIntervals DEF Common, Upper, Lower
      <4>2. QED
        BY <3>2, <3>4, <4>1
    <3>6. Common(own[i], gap) \in Missed(own, other)
      BY <2>2, <3>5
    <3>7. QED
      BY <3>4, <3>6
  <2>5. QED
    BY <2>3, <2>4
<1>3. QED
  BY <1>1, <1>2

-----------------------------------------------------------------------------
(* Recursion: the installed provers cannot use an induction theorem that     *)
(* takes a predicate, so both are stated for sets and functions.             *)

LEMMA Induction ==
  ASSUME NEW T, NEW a \in Nat, NEW n \in Nat,
         a \in T, \A k \in a .. n - 1 : k \in T => k + 1 \in T
  PROVE  \A k \in a .. n : k \in T
<1> DEFINE Rest == {k \in a .. n : k \notin T}
<1> SUFFICES ASSUME Rest # {} PROVE FALSE
  OBVIOUS
<1>1. Rest \in SUBSET Nat
  OBVIOUS
<1>2. PICK m \in Rest : \A k \in Rest : m <= k
  BY <1>1, Least
<1>3. m # a /\ m \in a .. n
  OBVIOUS
<1>4. m - 1 \in a .. n - 1 /\ m - 1 \notin Rest
  BY <1>2, <1>3
<1>5. m - 1 \in T
  BY <1>4
<1>6. m \in T
  BY <1>3, <1>4, <1>5
<1> QED
  BY <1>6

(* The values of f from a to n start with s and go on with F.                *)
Follows(f, a, n, s, F) ==
  \A k \in a .. n : f[k] = IF k = a THEN s ELSE F[<<k, f[k - 1]>>]

(* A function that is defined by recursion exists.                           *)
LEMMA Recursion ==
  ASSUME NEW S, NEW s \in S, NEW a \in Nat, NEW n \in Nat, a <= n,
         NEW F \in [(a .. n) \X S -> S]
  PROVE  \E f \in [a .. n -> S] : Follows(f, a, n, s, F)
<1> DEFINE Starts(f, m) ==
             \A k \in a .. m : f[k] = IF k = a THEN s ELSE F[<<k, f[k - 1]>>]
           T == {m \in a .. n : \E f \in [a .. m -> S] : Starts(f, m)}
<1>1. a \in T
  <2> DEFINE f == [k \in a .. a |-> s]
  <2>1. f \in [a .. a -> S]
    OBVIOUS
  <2>2. Starts(f, a)
    OBVIOUS
  <2>3. \E e \in [a .. a -> S] : Starts(e, a)
    <3> HIDE DEF f, Starts
    <3> QED
      BY <2>1, <2>2
  <2>4. a \in a .. n
    OBVIOUS
  <2> QED
    BY <2>3, <2>4
<1>2. ASSUME NEW m \in a .. n - 1, m \in T PROVE m + 1 \in T
  <2>1. PICK f \in [a .. m -> S] : Starts(f, m)
    BY <1>2
  <2> DEFINE g == [k \in a .. m + 1 |->
                     IF k = m + 1 THEN F[<<k, f[m]>>] ELSE f[k]]
  <2>2. m \in a .. m /\ f[m] \in S /\ m + 1 \in a .. n
    BY <2>1
  <2>3. F[<<m + 1, f[m]>>] \in S
    BY <2>2
  <2>4. g \in [a .. m + 1 -> S]
    BY <2>1, <2>3
  <2>5. ASSUME NEW k \in a .. m + 1
        PROVE  g[k] = IF k = a THEN s ELSE F[<<k, g[k - 1]>>]
    <3>1. CASE k = m + 1
      <4>1. k # a /\ k - 1 = m /\ g[k - 1] = f[m]
        BY <3>1
      <4> QED
        BY <3>1, <4>1
    <3>2. CASE k # m + 1
      <4>1. k \in a .. m /\ g[k] = f[k]
        BY <3>2
      <4>2. f[k] = IF k = a THEN s ELSE F[<<k, f[k - 1]>>]
        BY <2>1, <4>1
      <4>3. k # a => k - 1 \in a .. m /\ k - 1 # m + 1
        BY <4>1
      <4>4. k # a => g[k - 1] = f[k - 1]
        BY <4>3
      <4> QED
        BY <4>1, <4>2, <4>4
    <3> QED
      BY <3>1, <3>2
  <2>6. Starts(g, m + 1)
    BY <2>5
  <2> QED
    BY <2>2, <2>4, <2>6
<1>3. n \in T
  <2> HIDE DEF T
  <2>1. \A k \in a .. n : k \in T
    BY <1>1, <1>2, Induction
  <2> QED
    BY <2>1
<1> QED
  BY <1>3 DEF Follows

-----------------------------------------------------------------------------
(* Lists of intervals *)

(* A list before its intervals are joined: they overlap, but both their ends *)
(* are in order.                                                             *)
Ordered(list) ==
  /\ list \in Seq(Interval)
  /\ \A i \in DOMAIN list : list[i][1] <= list[i][2]
  /\ \A i, k \in DOMAIN list :
       i < k => list[i][1] <= list[k][1] /\ list[i][2] <= list[k][2]

LEMMA IntervalEnds ==
  ASSUME NEW p \in Interval
  PROVE  p[1] \in 1 .. MaxId /\ p[2] \in 1 .. MaxId /\ p = <<p[1], p[2]>>
         /\ p[1] \in Nat /\ p[2] \in Nat
BY MaxIdAssumption DEF Interval

LEMMA OrderedIs ==
  ASSUME NEW list, Ordered(list)
  PROVE  /\ DOMAIN list = 1 .. Len(list) /\ Len(list) \in Nat
         /\ \A i \in 1 .. Len(list) :
              /\ list[i] \in Interval
              /\ list[i][1] \in Nat /\ list[i][2] \in Nat
              /\ list[i][1] <= list[i][2]
         /\ \A i, k \in 1 .. Len(list) :
              i < k => list[i][1] <= list[k][1] /\ list[i][2] <= list[k][2]
<1>1. DOMAIN list = 1 .. Len(list) /\ Len(list) \in Nat
      /\ \A i \in 1 .. Len(list) : list[i] \in Interval
  BY DEF Ordered
<1> QED
  BY <1>1, IntervalEnds DEF Ordered

LEMMA IdsIs ==
  ASSUME NEW list, NEW n
  PROVE  n \in Ids(list) <=> \E i \in DOMAIN list : n \in list[i][1] .. list[i][2]
BY DEF Ids

(* A list grows at its end.                                                  *)
LEMMA ExtendedIs ==
  ASSUME NEW list, WellFormed(list), list # <<>>,
         NEW p \in Interval, p[1] <= p[2],
         list[Len(list)][1] <= p[1], list[Len(list)][2] <= p[2]
  PROVE  LET longer == Extended(list, p)
         IN /\ WellFormed(longer) /\ longer # <<>>
            /\ Ids(longer) = Ids(list) \cup (p[1] .. p[2])
            /\ longer[Len(longer)][1] <= p[1] /\ longer[Len(longer)][2] = p[2]
<1> DEFINE n == Len(list)  last == list[n]  longer == Extended(list, p)
<1>1. /\ list \in Seq(Interval) /\ DOMAIN list = 1 .. n /\ n \in Nat /\ n >= 1
      /\ \A i \in 1 .. n : list[i] \in Interval
  BY Intervals DEF WellFormed
<1>2. /\ last \in Interval /\ last[1] \in Nat /\ last[2] \in Nat
      /\ p[1] \in Nat /\ p[2] \in Nat /\ last[1] <= last[2]
      /\ last[1] \in 1 .. MaxId /\ p[2] \in 1 .. MaxId
  BY <1>1, IntervalEnds DEF WellFormed
<1>3. \A i \in 1 .. n : list[i][1] \in Nat /\ list[i][2] \in Nat /\ list[i][1] <= list[i][2]
  BY <1>1, IntervalEnds DEF WellFormed
<1>4. \A i, k \in 1 .. n : i < k => list[i][2] + 1 < list[k][1]
  BY <1>1 DEF WellFormed
<1>5. CASE Joins(last, p)
  <2> DEFINE wide == <<last[1], p[2]>>
  <2>1. longer = [list EXCEPT ![n] = wide]
    BY <1>5 DEF Extended
  <2>2. wide \in Interval
    BY <1>2 DEF Interval
  <2>3. longer \in Seq(Interval) /\ Len(longer) = n /\ DOMAIN longer = 1 .. n
    BY <1>1, <2>1, <2>2
  <2>4. longer[n] = wide /\ \A i \in 1 .. n : i # n => longer[i] = list[i]
    BY <1>1, <2>1
  <2>5. wide[1] = last[1] /\ wide[2] = p[2]
    OBVIOUS
  <2> HIDE DEF wide, longer
  <2>6. WellFormed(longer)
    <3>1. \A i \in 1 .. n : longer[i][1] <= longer[i][2]
      BY <1>2, <1>3, <2>4, <2>5
    <3>2. ASSUME NEW i \in 1 .. n, NEW k \in 1 .. n, i < k
          PROVE  longer[i][2] + 1 < longer[k][1]
      <4>1. i # n
        BY <1>1, <3>2
      <4>2. longer[i] = list[i] /\ list[i][2] + 1 < list[k][1]
        BY <1>4, <2>4, <3>2, <4>1
      <4>3. longer[k][1] = list[k][1]
        BY <2>4, <2>5
      <4> QED
        BY <4>2, <4>3
    <3> QED
      BY <2>3, <3>1, <3>2 DEF WellFormed
  <2>7. \A m \in Int : m \in wide[1] .. wide[2]
                       <=> m \in last[1] .. last[2] \/ m \in p[1] .. p[2]
    BY <1>2, <1>5, <2>5 DEF Joins
  <2>8. Ids(longer) = Ids(list) \cup (p[1] .. p[2])
    <3>1. ASSUME NEW m \in Ids(longer) PROVE m \in Ids(list) \cup (p[1] .. p[2])
      <4>1. PICK i \in 1 .. n : m \in longer[i][1] .. longer[i][2]
        BY <2>3, IdsIs
      <4>2. m \in Int
        BY <4>1
      <4> QED
        BY <1>1, <2>4, <2>7, <4>1, <4>2, IdsIs
    <3>2. ASSUME NEW m \in Ids(list) PROVE m \in Ids(longer)
      <4>1. PICK i \in 1 .. n : m \in list[i][1] .. list[i][2]
        BY <1>1, IdsIs
      <4>2. m \in Int
        BY <4>1
      <4> QED
        BY <1>1, <2>3, <2>4, <2>7, <4>1, <4>2, IdsIs
    <3>3. ASSUME NEW m \in p[1] .. p[2] PROVE m \in Ids(longer)
      <4>0. m \in Int
        OBVIOUS
      <4>a. m \in wide[1] .. wide[2]
        BY <2>7, <4>0
      <4>b. longer[n] = wide
        BY <2>4
      <4>c. n \in DOMAIN longer
        BY <1>1, <2>3
      <4>1. m \in longer[n][1] .. longer[n][2] /\ n \in DOMAIN longer
        BY <4>a, <4>b, <4>c
      <4> QED
        BY <4>1, IdsIs
    <3> QED
      BY <3>1, <3>2, <3>3
  <2>9. longer[Len(longer)][1] <= p[1] /\ longer[Len(longer)][2] = p[2]
    BY <2>3, <2>4, <2>5
  <2>10. longer # <<>>
    BY <1>1, <2>3
  <2> QED
    BY <2>6, <2>8, <2>9, <2>10 DEF longer
<1>6. CASE ~Joins(last, p)
  <2>1. longer = Append(list, p)
    BY <1>6 DEF Extended
  <2>2. /\ longer \in Seq(Interval) /\ Len(longer) = n + 1
        /\ DOMAIN longer = 1 .. n + 1
        /\ longer[n + 1] = p /\ \A i \in 1 .. n : longer[i] = list[i]
    BY <1>1, <2>1
  <2>3. last[2] + 1 < p[1]
    BY <1>2, <1>6 DEF Joins
  <2> HIDE DEF longer
  <2>4. WellFormed(longer)
    <3>1. \A i \in 1 .. n + 1 : longer[i][1] <= longer[i][2]
      BY <1>1, <1>3, <2>2
    <3>2. ASSUME NEW i \in 1 .. n + 1, NEW k \in 1 .. n + 1, i < k
          PROVE  longer[i][2] + 1 < longer[k][1]
      <4>1. i \in 1 .. n /\ longer[i] = list[i]
        BY <1>1, <2>2, <3>2
      <4>2. CASE k = n + 1
        <5>1. list[i][2] <= last[2]
          <6>0. n \in 1 .. n /\ i <= n
            BY <1>1, <4>1
          <6>1. i = n \/ list[i][2] + 1 < list[n][1]
            BY <1>4, <4>1, <6>0
          <6> QED
            BY <1>2, <1>3, <4>1, <6>1
        <5> QED
          BY <1>2, <1>3, <2>2, <2>3, <4>1, <4>2, <5>1
      <4>3. CASE k # n + 1
        <5>1. k \in 1 .. n /\ longer[k] = list[k]
          BY <1>1, <2>2, <4>3
        <5> QED
          BY <1>4, <3>2, <4>1, <5>1
      <4> QED
        BY <4>2, <4>3
    <3> QED
      BY <2>2, <3>1, <3>2 DEF WellFormed
  <2>5. Ids(longer) = Ids(list) \cup (p[1] .. p[2])
    <3>1. ASSUME NEW m \in Ids(longer) PROVE m \in Ids(list) \cup (p[1] .. p[2])
      <4>1. PICK i \in 1 .. n + 1 : m \in longer[i][1] .. longer[i][2]
        BY <2>2, IdsIs
      <4>2. i = n + 1 \/ i \in 1 .. n
        BY <1>1
      <4> QED
        BY <1>1, <2>2, <4>1, <4>2, IdsIs
    <3>2. ASSUME NEW m \in Ids(list) PROVE m \in Ids(longer)
      <4>1. PICK i \in 1 .. n : m \in list[i][1] .. list[i][2]
        BY <1>1, IdsIs
      <4>2. i \in 1 .. n + 1 /\ longer[i] = list[i]
        BY <1>1, <2>2
      <4> QED
        BY <2>2, <4>1, <4>2, IdsIs
    <3>3. ASSUME NEW m \in p[1] .. p[2] PROVE m \in Ids(longer)
      <4>1. n + 1 \in DOMAIN longer
        BY <1>1, <2>2
      <4> QED
        BY <2>2, <4>1, IdsIs
    <3> QED
      BY <3>1, <3>2, <3>3
  <2>6. /\ longer # <<>>
        /\ longer[Len(longer)][1] <= p[1] /\ longer[Len(longer)][2] = p[2]
    BY <1>1, <1>2, <2>2
  <2> QED
    BY <2>4, <2>5, <2>6 DEF longer
<1> QED
  BY <1>5, <1>6

LEMMA ExtendedType ==
  ASSUME NEW list \in Seq(Interval) \ {<<>>}, NEW p \in Interval
  PROVE  Extended(list, p) \in Seq(Interval) \ {<<>>}
<1> DEFINE last == list[Len(list)]
<1>1. Len(list) \in 1 .. Len(list) /\ last \in Interval
  OBVIOUS
<1>2. <<last[1], p[2]>> \in Interval
  BY <1>1 DEF Interval
<1>3. [list EXCEPT ![Len(list)] = <<last[1], p[2]>>] \in Seq(Interval) \ {<<>>}
  BY <1>1, <1>2
<1>4. Append(list, p) \in Seq(Interval) \ {<<>>}
  OBVIOUS
<1> QED
  BY <1>3, <1>4 DEF Extended

(* The end of mergeChunkIds: joining the intervals of a list changes nothing *)
(* of what it denotes, and leaves none that overlap or touch.                *)
LEMMA CoalescedIs ==
  ASSUME NEW list, Ordered(list), list # <<>>
  PROVE  /\ WellFormed(Coalesced(list)) /\ Coalesced(list) # <<>>
         /\ Ids(Coalesced(list)) = Ids(list)
<1> DEFINE n == Len(list)
           S == Seq(Interval) \ {<<>>}
           IsJoined(f) == f = [k \in DOMAIN list |->
                                 IF k = 1 THEN <<list[1]>>
                                 ELSE Extended(f[k - 1], list[k])]
           done == CHOOSE f : IsJoined(f)
           Upto(k) == UNION {list[i][1] .. list[i][2] : i \in 1 .. k}
           Joined(k) == /\ WellFormed(done[k]) /\ done[k] # <<>>
                        /\ Ids(done[k]) = Upto(k)
                        /\ done[k][Len(done[k])][1] <= list[k][1]
                        /\ done[k][Len(done[k])][2] = list[k][2]
<1>1. /\ DOMAIN list = 1 .. n /\ n \in Nat /\ n >= 1
      /\ \A i \in 1 .. n :
           /\ list[i] \in Interval
           /\ list[i][1] \in Nat /\ list[i][2] \in Nat
           /\ list[i][1] <= list[i][2]
      /\ \A i, k \in 1 .. n :
           i < k => list[i][1] <= list[k][1] /\ list[i][2] <= list[k][2]
  <2>1. list \in Seq(Interval) /\ n # 0
    BY DEF Ordered
  <2> QED
    BY <2>1, OrderedIs
<1>2. Coalesced(list) = done[n]
  BY DEF Coalesced
<1>3. IsJoined(done)
  <2> DEFINE F == [q \in (1 .. n) \X S |-> Extended(q[2], list[q[1]])]
  <2>1. F \in [(1 .. n) \X S -> S]
    BY <1>1, ExtendedType
  <2>2. <<list[1]>> \in S
    BY <1>1
  <2>3. PICK f \in [1 .. n -> S] : Follows(f, 1, n, <<list[1]>>, F)
    <3>1. n \in Nat /\ 1 \in Nat /\ 1 <= n
      BY <1>1
    <3> HIDE DEF F, S, n
    <3> QED
      BY <2>1, <2>2, <3>1, Recursion
  <2>4. ASSUME NEW k \in 1 .. n, k # 1
        PROVE  F[<<k, f[k - 1]>>] = Extended(f[k - 1], list[k])
    <3>1. f[k - 1] \in S
      BY <2>4
    <3>2. <<k, f[k - 1]>> \in (1 .. n) \X S
      BY <3>1
    <3> QED
      BY <3>2
  <2>5. IsJoined(f)
    <3>1. f = [k \in 1 .. n |-> f[k]]
      OBVIOUS
    <3> HIDE DEF F, S, n
    <3>2. \A k \in 1 .. n : f[k] = IF k = 1 THEN <<list[1]>>
                                  ELSE Extended(f[k - 1], list[k])
      BY <2>3, <2>4 DEF Follows
    <3> QED
      BY <1>1, <3>1, <3>2
  <2>6. \E g : IsJoined(g)
    <3> HIDE DEF IsJoined
    <3> QED
      BY <2>5
  <2> HIDE DEF IsJoined
  <2> QED
    BY <2>6
<1>4. /\ done[1] = <<list[1]>>
      /\ \A k \in 2 .. n : done[k] = Extended(done[k - 1], list[k])
  <2> HIDE DEF done
  <2>1. \A k \in 1 .. n : done[k] = IF k = 1 THEN <<list[1]>>
                                   ELSE Extended(done[k - 1], list[k])
    <3> HIDE DEF n
    <3> QED
      BY <1>1, <1>3
  <2> HIDE DEF n, IsJoined
  <2>2. 1 \in 1 .. n /\ \A k \in 2 .. n : k \in 1 .. n /\ k # 1
    BY <1>1
  <2> QED
    BY <2>1, <2>2
<1> HIDE DEF done, IsJoined, n, S
<1>5. Joined(1)
  <2>1. done[1] \in Seq(Interval) /\ Len(done[1]) = 1 /\ done[1][1] = list[1]
    BY <1>1, <1>4
  <2>2. WellFormed(done[1])
    BY <1>1, <2>1 DEF WellFormed
  <2>3. Ids(done[1]) = Upto(1)
    <3>1. DOMAIN done[1] = 1 .. 1
      BY <2>1
    <3>2. 1 .. 1 = {1}
      OBVIOUS
    <3> QED
      BY <2>1, <3>1, <3>2 DEF Ids
  <2> QED
    BY <1>1, <2>1, <2>2, <2>3
<1>6. ASSUME NEW k \in 1 .. n - 1, Joined(k) PROVE Joined(k + 1)
  <2> HIDE DEF Joined
  <2>0. /\ k \in 1 .. n /\ k + 1 \in 1 .. n /\ k < k + 1
        /\ k + 1 \in 2 .. n /\ (k + 1) - 1 = k
    BY <1>1
  <2>1. /\ k \in 1 .. n /\ k + 1 \in 1 .. n /\ k < k + 1
        /\ done[k + 1] = Extended(done[k], list[k + 1])
    BY <1>4, <2>0
  <2> USE DEF Joined
  <2>2. done[k][Len(done[k])][1] \in Nat
    <3>1. Len(done[k]) \in 1 .. Len(done[k])
      BY <1>6, Intervals DEF WellFormed
    <3>2. done[k][Len(done[k])] \in Interval
      BY <1>6, <3>1 DEF WellFormed
    <3> QED
      BY <3>2, IntervalEnds
  <2>3. list[k][1] <= list[k + 1][1] /\ list[k][2] <= list[k + 1][2]
    BY <1>1, <2>1
  <2>4. list[k + 1] \in Interval /\ list[k + 1][1] <= list[k + 1][2]
    BY <1>1, <2>1
  <2>5. /\ done[k][Len(done[k])][1] <= list[k + 1][1]
        /\ done[k][Len(done[k])][2] <= list[k + 1][2]
    BY <1>1, <1>6, <2>1, <2>2, <2>3
  <2>6. Upto(k + 1) = Upto(k) \cup (list[k + 1][1] .. list[k + 1][2])
    <3>1. 1 .. k + 1 = (1 .. k) \cup {k + 1}
      BY <2>1
    <3> QED
      BY <3>1
  <2>7. WellFormed(done[k]) /\ done[k] # <<>> /\ Ids(done[k]) = Upto(k)
    BY <1>6
  <2> HIDE DEF Upto, Joined
  <2>8. /\ WellFormed(done[k + 1]) /\ done[k + 1] # <<>>
        /\ Ids(done[k + 1]) = Ids(done[k]) \cup (list[k + 1][1] .. list[k + 1][2])
        /\ done[k + 1][Len(done[k + 1])][1] <= list[k + 1][1]
        /\ done[k + 1][Len(done[k + 1])][2] = list[k + 1][2]
    BY <2>1, <2>4, <2>5, <2>7, ExtendedIs
  <2> QED
    BY <2>6, <2>7, <2>8 DEF Joined
<1>7. Joined(n)
  <2> DEFINE T == {k \in 1 .. n : Joined(k)}
  <2> HIDE DEF Joined
  <2>1. 1 \in T /\ \A k \in 1 .. n - 1 : k \in T => k + 1 \in T
    BY <1>1, <1>5, <1>6
  <2>2. \A k \in 1 .. n : k \in T
    <3> HIDE DEF T
    <3> QED
      BY <1>1, <2>1, Induction
  <2> QED
    BY <1>1, <2>2
<1>8. Upto(n) = Ids(list)
  BY <1>1 DEF Ids
<1> QED
  BY <1>2, <1>7, <1>8

(* Two intervals meet when neither lies before the other.                    *)
LEMMA MeetsIs ==
  ASSUME NEW p \in Interval, NEW q \in Interval, p[1] <= p[2], q[1] <= q[2]
  PROVE  Meets(p, q) <=> p[1] <= q[2] /\ q[1] <= p[2]
BY IntervalEnds DEF Meets, Common, Upper, Lower

(* An interval that meets p is widened to what both of them hold.            *)
LEMMA WidenedIs ==
  ASSUME NEW list, WellFormed(list), NEW p \in Interval, p[1] <= p[2],
         NEW j \in DOMAIN list, Meets(list[j], p)
  PROVE  /\ Ordered(Widened(list, p)) /\ Widened(list, p) # <<>>
         /\ Ids(Widened(list, p)) = Ids(list) \cup (p[1] .. p[2])
<1> DEFINE n == Len(list)  wide == Widened(list, p)
<1>1. /\ DOMAIN list = 1 .. n /\ n \in Nat
      /\ \A i \in 1 .. n :
           /\ list[i] \in Interval
           /\ list[i][1] \in Nat /\ list[i][2] \in Nat
           /\ list[i][1] <= list[i][2]
      /\ \A i, k \in 1 .. n : i < k => list[i][2] + 1 < list[k][1]
  <2>1. list \in Seq(Interval)
    BY DEF WellFormed
  <2>2. \A i \in 1 .. n : list[i] \in Interval
    BY <2>1
  <2> QED
    BY <2>2, Intervals, IntervalEnds
<1>2. p[1] \in Nat /\ p[2] \in Nat /\ p[1] \in 1 .. MaxId /\ p[2] \in 1 .. MaxId
  BY IntervalEnds
<1>3. \A i \in 1 .. n : Meets(list[i], p) <=> list[i][1] <= p[2] /\ p[1] <= list[i][2]
  BY <1>1, MeetsIs
<1>4. ASSUME NEW i \in 1 .. n
      PROVE  /\ wide[i] \in Interval
             /\ wide[i][1] \in Nat /\ wide[i][2] \in Nat
             /\ list[i][1] <= p[2] /\ p[1] <= list[i][2]
                => /\ wide[i][1] = Lower(list[i][1], p[1])
                   /\ wide[i][2] = Upper(list[i][2], p[2])
             /\ ~(list[i][1] <= p[2] /\ p[1] <= list[i][2])
                => wide[i] = list[i]
  <2>1. wide[i] = IF Meets(list[i], p)
                  THEN <<Lower(list[i][1], p[1]), Upper(list[i][2], p[2])>>
                  ELSE list[i]
    BY <1>1 DEF Widened
  <2>2. <<Lower(list[i][1], p[1]), Upper(list[i][2], p[2])>> \in Interval
    <3>1. list[i][1] \in 1 .. MaxId /\ list[i][2] \in 1 .. MaxId
      BY <1>1, IntervalEnds
    <3> QED
      BY <1>2, <3>1 DEF Lower, Upper, Interval
  <2>3. wide[i] \in Interval
    BY <1>1, <2>1, <2>2
  <2> HIDE DEF wide
  <2> QED
    BY <1>3, <2>1, <2>3, IntervalEnds
<1>5. wide \in Seq(Interval) /\ Len(wide) = n /\ DOMAIN wide = 1 .. n
  <2>1. wide \in [1 .. n -> Interval]
    <3>1. DOMAIN wide = 1 .. n /\ wide = [i \in 1 .. n |-> wide[i]]
      BY <1>1 DEF Widened
    <3> HIDE DEF wide
    <3> QED
      BY <1>4, <3>1
  <2> HIDE DEF wide, n
  <2> QED
    BY <1>1, <2>1
<1> HIDE DEF wide, n
<1>6. \A i \in 1 .. n : wide[i][1] <= wide[i][2]
  BY <1>1, <1>2, <1>4 DEF Lower, Upper
<1>e. \A i \in 1 .. n :
        \/ /\ list[i][1] <= p[2] /\ p[1] <= list[i][2]
           /\ wide[i][1] = Lower(list[i][1], p[1])
           /\ wide[i][2] = Upper(list[i][2], p[2])
        \/ /\ list[i][2] < p[1] \/ p[2] < list[i][1]
           /\ wide[i][1] = list[i][1] /\ wide[i][2] = list[i][2]
  BY <1>1, <1>2, <1>4
<1>7. ASSUME NEW i \in 1 .. n, NEW k \in 1 .. n, i < k
      PROVE  wide[i][1] <= wide[k][1] /\ wide[i][2] <= wide[k][2]
  <2>1. list[i][2] + 1 < list[k][1]
    BY <1>1, <1>7
  <2>2. \A h \in {i, k} : /\ list[h][1] \in Nat /\ list[h][2] \in Nat
                           /\ list[h][1] <= list[h][2]
    BY <1>1
  <2> QED
    BY <1>2, <1>e, <2>1, <2>2 DEF Lower, Upper
<1>8. Ordered(wide)
  BY <1>5, <1>6, <1>7 DEF Ordered
<1>9. ASSUME NEW i \in 1 .. n, NEW m \in Int
      PROVE  /\ m \in wide[i][1] .. wide[i][2]
                => m \in list[i][1] .. list[i][2] \/ m \in p[1] .. p[2]
             /\ m \in list[i][1] .. list[i][2] => m \in wide[i][1] .. wide[i][2]
  <2>1. /\ list[i][1] \in Nat /\ list[i][2] \in Nat /\ list[i][1] <= list[i][2]
        /\ wide[i][1] \in Nat /\ wide[i][2] \in Nat
    BY <1>1, <1>4
  <2> QED
    BY <1>2, <1>e, <2>1 DEF Lower, Upper
<1>10. Ids(wide) = Ids(list) \cup (p[1] .. p[2])
  <2>1. ASSUME NEW m \in Ids(wide) PROVE m \in Ids(list) \cup (p[1] .. p[2])
    <3>1. PICK i \in 1 .. n : m \in wide[i][1] .. wide[i][2]
      BY <1>5, IdsIs
    <3>2. m \in Int
      BY <3>1
    <3> QED
      BY <1>1, <1>9, <3>1, <3>2, IdsIs
  <2>2. ASSUME NEW m \in Ids(list) PROVE m \in Ids(wide)
    <3>1. PICK i \in 1 .. n : m \in list[i][1] .. list[i][2]
      BY <1>1, IdsIs
    <3>2. m \in Int
      BY <3>1
    <3> QED
      BY <1>5, <1>9, <3>1, <3>2, IdsIs
  <2>3. ASSUME NEW m \in p[1] .. p[2] PROVE m \in Ids(wide)
    <3>0. m \in Int /\ p[1] <= m /\ m <= p[2] /\ j \in 1 .. n
      BY <1>1, <1>2
    <3>1. list[j][1] <= p[2] /\ p[1] <= list[j][2]
      BY <1>3, <3>0
    <3>2. wide[j][1] <= p[1] /\ p[2] <= wide[j][2]
          /\ wide[j][1] \in Nat /\ wide[j][2] \in Nat
      BY <1>1, <1>2, <1>4, <3>0, <3>1 DEF Lower, Upper
    <3>3. m \in wide[j][1] .. wide[j][2]
      BY <1>2, <3>0, <3>2
    <3> QED
      BY <1>5, <3>0, <3>3, IdsIs
  <2> QED
    BY <2>1, <2>2, <2>3
<1>11. wide # <<>>
  BY <1>1, <1>5
<1> QED
  BY <1>8, <1>10, <1>11 DEF wide

(* An interval that meets no other one has a place between two of them.      *)
LEMMA PlaceExists ==
  ASSUME NEW list, WellFormed(list), NEW p \in Interval, p[1] <= p[2],
         \A i \in DOMAIN list : ~Meets(list[i], p)
  PROVE  \E k \in 0 .. Len(list) :
           /\ k > 0 => list[k][2] < p[1]
           /\ k < Len(list) => list[k + 1][1] > p[2]
<1> DEFINE n == Len(list)
           T == {k \in 0 .. n : k < n => list[k + 1][1] > p[2]}
<1>1. /\ DOMAIN list = 1 .. n /\ n \in Nat
      /\ \A i \in 1 .. n :
           /\ list[i] \in Interval
           /\ list[i][1] \in Nat /\ list[i][2] \in Nat
           /\ list[i][1] <= list[i][2]
  <2>1. list \in Seq(Interval)
    BY DEF WellFormed
  <2>2. \A i \in 1 .. n : list[i] \in Interval
    BY <2>1
  <2> QED
    BY <2>2, Intervals, IntervalEnds
<1>2. p[1] \in Nat /\ p[2] \in Nat
  BY IntervalEnds
<1> HIDE DEF n
<1>3. T \in SUBSET Nat /\ n \in T
  BY <1>1
<1>4. PICK k \in T : \A i \in T : k <= i
  BY <1>3, Least
<1>5. k \in 0 .. n /\ (k < n => list[k + 1][1] > p[2])
  BY <1>4
<1>6. ASSUME k > 0 PROVE list[k][2] < p[1]
  <2>1. k \in 1 .. n /\ k - 1 \in 0 .. n /\ ~(k <= k - 1) /\ k - 1 < n /\ (k - 1) + 1 = k
    BY <1>1, <1>5, <1>6
  <2>2. k - 1 \notin T
    BY <1>4, <2>1
  <2>3. ~(list[k][1] > p[2])
    BY <2>1, <2>2
  <2>4. ~Meets(list[k], p)
    BY <1>1, <2>1
  <2>5. ~(list[k][1] <= p[2] /\ p[1] <= list[k][2])
    BY <1>1, <2>1, <2>4, MeetsIs
  <2> QED
    BY <1>1, <1>2, <2>1, <2>3, <2>5
<1> QED
  BY <1>5, <1>6 DEF n

LEMMA InsertedIs ==
  ASSUME NEW list, WellFormed(list), NEW p \in Interval, p[1] <= p[2],
         \A i \in DOMAIN list : ~Meets(list[i], p)
  PROVE  /\ Ordered(Inserted(list, p)) /\ Inserted(list, p) # <<>>
         /\ Ids(Inserted(list, p)) = Ids(list) \cup (p[1] .. p[2])
<1> DEFINE n == Len(list)
           Place(k) == /\ k > 0 => list[k][2] < p[1]
                       /\ k < Len(list) => list[k + 1][1] > p[2]
           at == CHOOSE k \in 0 .. Len(list) : Place(k)
           new == Inserted(list, p)
<1>1. /\ list \in Seq(Interval) /\ DOMAIN list = 1 .. n /\ n \in Nat
      /\ \A i \in 1 .. n :
           /\ list[i] \in Interval
           /\ list[i][1] \in Nat /\ list[i][2] \in Nat
           /\ list[i][1] <= list[i][2]
      /\ \A i, k \in 1 .. n : i < k => list[i][2] + 1 < list[k][1]
  <2>1. list \in Seq(Interval)
    BY DEF WellFormed
  <2>2. \A i \in 1 .. n : list[i] \in Interval
    BY <2>1
  <2> QED
    BY <2>1, <2>2, Intervals, IntervalEnds
<1>2. p[1] \in Nat /\ p[2] \in Nat
  BY IntervalEnds
<1>3. at \in 0 .. n /\ Place(at)
  <2>1. \E k \in 0 .. Len(list) : Place(k)
    BY PlaceExists
  <2> HIDE DEF Place
  <2> QED
    BY <2>1
<1>4. new = SubSeq(list, 1, at) \o <<p>> \o SubSeq(list, at + 1, n)
  <2>1. new = InsertAt(list, at + 1, p)
    BY DEF Inserted
  <2>2. (at + 1) - 1 = at
    BY <1>3
  <2> HIDE DEF at, new
  <2> QED
    BY <2>1, <2>2 DEF InsertAt
<1> HIDE DEF at, new, n
<1>5. /\ new \in Seq(Interval) /\ Len(new) = n + 1 /\ DOMAIN new = 1 .. n + 1
      /\ \A i \in 1 .. at : new[i] = list[i]
      /\ new[at + 1] = p
      /\ \A i \in at + 2 .. n + 1 : new[i] = list[i - 1]
  <2> DEFINE front == SubSeq(list, 1, at)  back == SubSeq(list, at + 1, n)
  <2>1. /\ front \in Seq(Interval) /\ Len(front) = at
        /\ \A i \in 1 .. at : front[i] = list[i]
    BY <1>1, <1>3 DEF n
  <2>2. /\ back \in Seq(Interval) /\ Len(back) = n - at
        /\ \A i \in 1 .. n - at : back[i] = list[at + i]
    <3>1. at \in 0 .. n /\ n \in Nat /\ at + 1 \in 1 .. n + 1
      BY <1>1, <1>3
    <3>2. back \in Seq(Interval)
      BY <1>1, <3>1 DEF n
    <3>3. Len(back) = n - at
      <4>1. Len(back) = IF at + 1 <= Len(list) THEN Len(list) - (at + 1) + 1 ELSE 0
        BY <1>1, <3>1 DEF n
      <4> HIDE DEF back
      <4> QED
        BY <3>1, <4>1 DEF n
    <3>4. ASSUME NEW i \in 1 .. n - at PROVE back[i] = list[at + i]
      <4>1. back[i] = list[(at + 1) + i - 1]
        BY <1>1, <3>1 DEF n
      <4>2. (at + 1) + i - 1 = at + i
        BY <3>1
      <4> HIDE DEF back
      <4> QED
        BY <4>1, <4>2
    <3> QED
      BY <3>2, <3>3, <3>4
  <2> HIDE DEF front, back
  <2>3. <<p>> \in Seq(Interval) /\ Len(<<p>>) = 1 /\ <<p>>[1] = p
    OBVIOUS
  <2> DEFINE start == front \o <<p>>
  <2>4. /\ start \in Seq(Interval) /\ Len(start) = at + 1
        /\ \A i \in 1 .. at : start[i] = list[i]
        /\ start[at + 1] = p
    BY <1>3, <2>1, <2>3
  <2>5. new = start \o back
    BY <1>4 DEF front, back
  <2> HIDE DEF start
  <2>6. /\ new \in Seq(Interval) /\ Len(new) = n + 1
        /\ \A i \in 1 .. at + 1 : new[i] = start[i]
        /\ \A i \in at + 2 .. n + 1 : new[i] = back[i - (at + 1)]
    BY <1>1, <1>3, <2>2, <2>4, <2>5
  <2>7. \A i \in at + 2 .. n + 1 : new[i] = list[i - 1]
    BY <1>1, <1>3, <2>2, <2>6
  <2>8. DOMAIN new = 1 .. n + 1
    BY <2>6
  <2> QED
    BY <1>3, <2>4, <2>6, <2>7, <2>8
<1>6. ASSUME NEW i \in 1 .. n + 1
      PROVE  \/ i <= at /\ i \in 1 .. n /\ new[i] = list[i]
             \/ i = at + 1 /\ new[i] = p
             \/ i > at + 1 /\ i - 1 \in 1 .. n /\ new[i] = list[i - 1]
  BY <1>1, <1>3, <1>5
(* What stands before p ends before it, what stands after it starts later.   *)
<1>7. /\ \A i \in 1 .. n : i <= at => list[i][2] < p[1]
      /\ \A i \in 1 .. n : i > at => p[2] < list[i][1]
  <2>1. ASSUME NEW i \in 1 .. n, i <= at PROVE list[i][2] < p[1]
    <3>1. at \in 1 .. n /\ list[at][2] < p[1]
      BY <1>1, <1>3, <2>1
    <3>2. i = at \/ list[i][2] + 1 < list[at][1]
      BY <1>1, <1>3, <2>1, <3>1
    <3> QED
      BY <1>1, <1>2, <3>1, <3>2
  <2>2. ASSUME NEW i \in 1 .. n, i > at PROVE p[2] < list[i][1]
    <3>1. at + 1 \in 1 .. n /\ list[at + 1][1] > p[2]
      BY <1>1, <1>3, <2>2 DEF n
    <3>2. i = at + 1 \/ list[at + 1][2] + 1 < list[i][1]
      BY <1>1, <1>3, <2>2, <3>1
    <3> QED
      BY <1>1, <1>2, <3>1, <3>2
  <2> QED
    BY <2>1, <2>2
<1>8. Ordered(new)
  <2>1. \A i \in 1 .. n + 1 : new[i][1] <= new[i][2]
    BY <1>1, <1>6
  <2>2. ASSUME NEW i \in 1 .. n + 1, NEW k \in 1 .. n + 1, i < k
        PROVE  new[i][1] <= new[k][1] /\ new[i][2] <= new[k][2]
    <3>0. at \in Int /\ n \in Nat
      BY <1>1, <1>3
    <3>1. CASE i <= at
      <4>1. i \in 1 .. n /\ new[i] = list[i]
        BY <1>6, <3>0, <3>1
      <4>2. CASE k <= at
        <5>1. k \in 1 .. n /\ new[k] = list[k]
          BY <1>6, <3>0, <4>2
        <5>2. list[i][2] + 1 < list[k][1]
          BY <1>1, <2>2, <4>1, <5>1
        <5> QED
          BY <1>1, <4>1, <5>1, <5>2
      <4>3. CASE k = at + 1
        <5>1. new[k] = p /\ list[i][2] < p[1]
          BY <1>5, <1>7, <3>1, <4>1, <4>3
        <5> QED
          BY <1>1, <1>2, <4>1, <5>1
      <4>4. CASE k > at + 1
        <5>1. k - 1 \in 1 .. n /\ new[k] = list[k - 1] /\ i < k - 1
          BY <1>6, <3>0, <3>1, <4>4
        <5>2. list[i][2] + 1 < list[k - 1][1]
          BY <1>1, <4>1, <5>1
        <5> QED
          BY <1>1, <4>1, <5>1, <5>2
      <4> QED
        BY <3>0, <4>2, <4>3, <4>4
    <3>2. CASE i = at + 1
      <4>1. k - 1 \in 1 .. n /\ new[k] = list[k - 1] /\ new[i] = p /\ k - 1 > at
        BY <1>5, <1>6, <2>2, <3>0, <3>2
      <4>2. p[2] < list[k - 1][1]
        BY <1>7, <4>1
      <4> QED
        BY <1>1, <1>2, <4>1, <4>2
    <3>3. CASE i > at + 1
      <4>1. /\ i - 1 \in 1 .. n /\ new[i] = list[i - 1]
            /\ k - 1 \in 1 .. n /\ new[k] = list[k - 1] /\ i - 1 < k - 1
        BY <1>6, <2>2, <3>0, <3>3
      <4>2. list[i - 1][2] + 1 < list[k - 1][1]
        BY <1>1, <4>1
      <4> QED
        BY <1>1, <4>1, <4>2
    <3> QED
      BY <3>0, <3>1, <3>2, <3>3
  <2> QED
    BY <1>5, <2>1, <2>2 DEF Ordered
<1>9. Ids(new) = Ids(list) \cup (p[1] .. p[2])
  <2>1. ASSUME NEW m \in Ids(new) PROVE m \in Ids(list) \cup (p[1] .. p[2])
    <3>1. PICK i \in 1 .. n + 1 : m \in new[i][1] .. new[i][2]
      BY <1>5, IdsIs
    <3>2. new[i] = p \/ \E k \in 1 .. n : new[i] = list[k]
      BY <1>6
    <3> QED
      BY <1>1, <3>1, <3>2, IdsIs
  <2>2. ASSUME NEW m \in Ids(list) PROVE m \in Ids(new)
    <3>1. PICK i \in 1 .. n : m \in list[i][1] .. list[i][2]
      BY <1>1, IdsIs
    <3>2. \E k \in 1 .. n + 1 : new[k] = list[i]
      <4>1. CASE i <= at
        <5>1. i \in 1 .. at /\ i \in 1 .. n + 1
          BY <1>1, <1>3, <4>1
        <5> QED
          BY <1>5, <5>1
      <4>2. CASE i > at
        <5>1. i + 1 \in at + 2 .. n + 1 /\ i + 1 \in 1 .. n + 1 /\ (i + 1) - 1 = i
          BY <1>1, <1>3, <4>2
        <5>2. new[i + 1] = list[i]
          BY <1>5, <5>1
        <5> QED
          BY <5>1, <5>2
      <4> QED
        BY <1>3, <4>1, <4>2
    <3> QED
      BY <1>5, <3>1, <3>2, IdsIs
  <2>3. ASSUME NEW m \in p[1] .. p[2] PROVE m \in Ids(new)
    <3>1. at + 1 \in DOMAIN new
      BY <1>1, <1>3, <1>5
    <3> QED
      BY <1>5, <3>1, IdsIs
  <2> QED
    BY <2>1, <2>2, <2>3
<1>10. new # <<>>
  BY <1>1, <1>5
<1> QED
  BY <1>8, <1>9, <1>10 DEF new

(* One round of mergeChunkIds adds an interval to what a list denotes.       *)
LEMMA AbsorbedIs ==
  ASSUME NEW list, WellFormed(list), NEW p \in Interval, p[1] <= p[2]
  PROVE  /\ WellFormed(Absorbed(list, p))
         /\ Ids(Absorbed(list, p)) = Ids(list) \cup (p[1] .. p[2])
<1>1. CASE \E i \in DOMAIN list : Meets(list[i], p)
  <2>1. PICK j \in DOMAIN list : Meets(list[j], p)
    BY <1>1
  <2>2. Absorbed(list, p) = Coalesced(Widened(list, p))
    BY <1>1 DEF Absorbed
  <2> QED
    BY <2>1, <2>2, WidenedIs, CoalescedIs
<1>2. CASE ~\E i \in DOMAIN list : Meets(list[i], p)
  <2>1. Absorbed(list, p) = Coalesced(Inserted(list, p))
    BY <1>2 DEF Absorbed
  <2> QED
    BY <1>2, <2>1, InsertedIs, CoalescedIs
<1> QED
  BY <1>1, <1>2

(* mergeChunkIds, for all lists: the result denotes a chunk exactly when one *)
(* of the two lists does, and is well-formed again.                          *)
THEOREM MergeIsExact ==
  ASSUME NEW list1, NEW list2, WellFormed(list1), WellFormed(list2)
  PROVE  /\ WellFormed(Merge(list1, list2))
         /\ Ids(Merge(list1, list2)) = Ids(list1) \cup Ids(list2)
<1> DEFINE n == Len(list2)
           S == {list \in Seq(Interval) : WellFormed(list)}
           IsMerged(f) == f = [k \in 0 .. Len(list2) |->
                                 IF k = 0 THEN list1
                                 ELSE Absorbed(f[k - 1], list2[k])]
           merged == CHOOSE f : IsMerged(f)
           Upto(k) == UNION {list2[i][1] .. list2[i][2] : i \in 1 .. k}
           Done(k) == WellFormed(merged[k]) /\ Ids(merged[k]) = Ids(list1) \cup Upto(k)
<1>1. /\ list2 \in Seq(Interval) /\ DOMAIN list2 = 1 .. n /\ n \in Nat
      /\ \A i \in 1 .. n : list2[i] \in Interval /\ list2[i][1] <= list2[i][2]
  BY Intervals DEF WellFormed
<1>2. Merge(list1, list2) = IF list1 = <<>> THEN list2 ELSE merged[n]
  BY DEF Merge
<1>3. IsMerged(merged)
  <2> DEFINE F == [q \in (0 .. n) \X S |->
                     IF q[1] = 0 THEN q[2] ELSE Absorbed(q[2], list2[q[1]])]
  <2>1. F \in [(0 .. n) \X S -> S]
    <3>1. ASSUME NEW k \in 0 .. n, NEW l \in S
          PROVE  (IF k = 0 THEN l ELSE Absorbed(l, list2[k])) \in S
      <4>1. CASE k = 0
        BY <4>1
      <4>2. CASE k # 0
        <5>1. k \in 1 .. n
          BY <4>2
        <5>2. WellFormed(Absorbed(l, list2[k]))
          BY <1>1, <5>1, AbsorbedIs
        <5> QED
          BY <4>2, <5>2 DEF WellFormed
      <4> QED
        BY <4>1, <4>2
    <3> HIDE DEF S, n
    <3> QED
      BY <3>1
  <2>2. list1 \in S
    BY DEF WellFormed
  <2>3. PICK f \in [0 .. n -> S] : Follows(f, 0, n, list1, F)
    <3>1. n \in Nat /\ 0 \in Nat /\ 0 <= n
      BY <1>1
    <3> HIDE DEF F, S, n
    <3> QED
      BY <2>1, <2>2, <3>1, Recursion
  <2>4. ASSUME NEW k \in 0 .. n, k # 0
        PROVE  F[<<k, f[k - 1]>>] = Absorbed(f[k - 1], list2[k])
    <3>1. f[k - 1] \in S
      <4>1. k - 1 \in 0 .. n
        BY <1>1, <2>4
      <4> HIDE DEF S, n
      <4> QED
        BY <4>1
    <3>2. <<k, f[k - 1]>> \in (0 .. n) \X S
      BY <3>1
    <3> HIDE DEF S, n
    <3> QED
      BY <2>4, <3>2
  <2>5. IsMerged(f)
    <3>1. f = [k \in 0 .. n |-> f[k]]
      OBVIOUS
    <3>2. \A k \in 0 .. n : f[k] = IF k = 0 THEN list1
                                  ELSE Absorbed(f[k - 1], list2[k])
      <4> HIDE DEF F, S, n
      <4> QED
        BY <2>3, <2>4 DEF Follows
    <3> HIDE DEF F, S
    <3> QED
      BY <3>1, <3>2
  <2>6. \E g : IsMerged(g)
    <3> HIDE DEF IsMerged
    <3> QED
      BY <2>5
  <2> HIDE DEF IsMerged
  <2> QED
    BY <2>6
<1>4. /\ merged[0] = list1
      /\ \A k \in 1 .. n : merged[k] = Absorbed(merged[k - 1], list2[k])
  <2> HIDE DEF merged
  <2>1. \A k \in 0 .. n : merged[k] = IF k = 0 THEN list1
                                     ELSE Absorbed(merged[k - 1], list2[k])
    BY <1>3
  <2> HIDE DEF n, IsMerged
  <2>2. 0 \in 0 .. n /\ \A k \in 1 .. n : k \in 0 .. n /\ k # 0
    BY <1>1
  <2> QED
    BY <2>1, <2>2
<1> HIDE DEF merged, IsMerged, n, S
<1>5. Done(0)
  <2>1. Upto(0) = {}
    OBVIOUS
  <2> QED
    BY <1>4, <2>1
<1>6. ASSUME NEW k \in 0 .. n - 1, Done(k) PROVE Done(k + 1)
  <2>1. k + 1 \in 1 .. n /\ (k + 1) - 1 = k
    BY <1>1
  <2>2. merged[k + 1] = Absorbed(merged[k], list2[k + 1])
    BY <1>4, <2>1
  <2>3. Upto(k + 1) = Upto(k) \cup (list2[k + 1][1] .. list2[k + 1][2])
    <3>1. 1 .. k + 1 = (1 .. k) \cup {k + 1}
      OBVIOUS
    <3> QED
      BY <3>1
  <2>4. list2[k + 1] \in Interval /\ list2[k + 1][1] <= list2[k + 1][2]
    BY <1>1, <2>1
  <2>5. WellFormed(merged[k]) /\ Ids(merged[k]) = Ids(list1) \cup Upto(k)
    BY <1>6
  <2> HIDE DEF Upto
  <2>6. /\ WellFormed(merged[k + 1])
        /\ Ids(merged[k + 1])
           = Ids(merged[k]) \cup (list2[k + 1][1] .. list2[k + 1][2])
    BY <2>2, <2>4, <2>5, AbsorbedIs
  <2> QED
    BY <2>3, <2>5, <2>6
<1>7. Done(n)
  <2> DEFINE T == {k \in 0 .. n : Done(k)}
  <2> HIDE DEF Done
  <2>1. 0 \in T /\ \A k \in 0 .. n - 1 : k \in T => k + 1 \in T
    BY <1>1, <1>5, <1>6
  <2>2. \A k \in 0 .. n : k \in T
    <3> HIDE DEF T
    <3> QED
      BY <1>1, <2>1, Induction
  <2> QED
    BY <1>1, <2>2
<1>8. Upto(n) = Ids(list2)
  BY <1>1 DEF Ids
<1>9. list1 = <<>> => Ids(list1) = {}
  BY DEF Ids
<1> QED
  BY <1>2, <1>7, <1>8, <1>9

-----------------------------------------------------------------------------
(* The list of a set *)

LEMMA CardinalityOf ==
  ASSUME NEW held \in SUBSET (1 .. MaxId)
  PROVE  IsFiniteSet(held) /\ Cardinality(held) \in Nat
<1>1. IsFiniteSet(1 .. MaxId)
  BY MaxIdAssumption, FS_Interval
<1> QED
  BY <1>1, FS_Subset, FS_CardinalityType

(* The ids of a set, each at the place of its rank.                          *)
LEMMA SortedIs ==
  ASSUME NEW held \in SUBSET (1 .. MaxId)
  PROVE  LET n == Cardinality(held)
         IN /\ Sorted(held) \in [1 .. n -> held]
            /\ \A i, k \in 1 .. n : i < k => Sorted(held)[i] < Sorted(held)[k]
            /\ \A h \in held : \E i \in 1 .. n : Sorted(held)[i] = h
<1> DEFINE n == Cardinality(held)
           Upto(h) == {m \in held : m <= h}
           rank == [h \in held |-> Cardinality(Upto(h))]
<1>1. IsFiniteSet(held) /\ n \in Nat
  BY CardinalityOf
<1>2. \A h \in held : h \in Nat
  BY MaxIdAssumption
<1>3. ASSUME NEW h \in held PROVE rank[h] \in 1 .. n
  <2>1. Upto(h) \in SUBSET held /\ h \in Upto(h)
    BY <1>2
  <2> HIDE DEF Upto
  <2>2. /\ IsFiniteSet(Upto(h)) /\ Cardinality(Upto(h)) <= n
        /\ Cardinality(Upto(h)) \in Nat
    BY <1>1, <2>1, FS_Subset, FS_CardinalityType
  <2>3. Cardinality(Upto(h)) # 0
    BY <2>1, <2>2, FS_EmptySet
  <2> QED
    BY <1>1, <2>2, <2>3
<1>4. ASSUME NEW h \in held, NEW k \in held, h < k PROVE rank[h] < rank[k]
  <2>0. h \in Nat /\ k \in Nat /\ \A m \in held : m \in Nat
    BY <1>2
  <2>1. Upto(h) \in SUBSET Upto(k) /\ k \in Upto(k) /\ k \notin Upto(h)
    <3>1. \A m \in held : m <= h => m <= k
      BY <1>4, <2>0
    <3>2. k <= k /\ ~(k <= h)
      BY <1>4, <2>0
    <3> QED
      BY <3>1, <3>2
  <2>2. Upto(k) \in SUBSET held /\ Upto(h) \in SUBSET held
    OBVIOUS
  <2> HIDE DEF Upto
  <2>3. IsFiniteSet(Upto(k))
    BY <1>1, <2>2, FS_Subset
  <2>4. Cardinality(Upto(h)) <= Cardinality(Upto(k))
        /\ Cardinality(Upto(k)) # Cardinality(Upto(h))
    BY <2>1, <2>3, FS_Subset
  <2>5. rank[h] \in Nat /\ rank[k] \in Nat
    BY <1>3
  <2> QED
    BY <2>4, <2>5
<1>5. rank \in Injection(held, 1 .. n)
  <2>1. rank \in [held -> 1 .. n]
    <3>1. rank = [h \in held |-> rank[h]]
      OBVIOUS
    <3> HIDE DEF rank
    <3> QED
      BY <1>3, <3>1
  <2>2. ASSUME NEW h \in held, NEW k \in held, rank[h] = rank[k] PROVE h = k
    <3>1. rank[h] \in Nat /\ rank[k] \in Nat
      BY <1>3
    <3> HIDE DEF rank
    <3> QED
      BY <1>2, <1>4, <2>2, <3>1
  <2> HIDE DEF rank
  <2> QED
    BY <2>1, <2>2 DEF Injection, IsInjective
<1>6. rank \in Surjection(held, 1 .. n)
  <2>1. IsFiniteSet(1 .. n) /\ Cardinality(1 .. n) = n
    BY <1>1, FS_Interval
  <2> HIDE DEF rank
  <2> QED
    BY <1>5, <2>1, FS_Injection
<1>7. \A i \in 1 .. n : \E h \in held : rank[h] = i
  <2> HIDE DEF rank, n
  <2> QED
    BY <1>6 DEF Surjection
<1>8. \A h \in held : rank[h] = Cardinality({m \in held : m <= h})
  OBVIOUS
<1> HIDE DEF rank, n, Upto
<1>9. ASSUME NEW i \in 1 .. n
      PROVE  Sorted(held)[i] \in held /\ rank[Sorted(held)[i]] = i
  <2>1. Sorted(held)[i] = CHOOSE h \in held : Cardinality({m \in held : m <= h}) = i
    BY DEF Sorted, n
  <2>2. \E h \in held : Cardinality({m \in held : m <= h}) = i
    BY <1>7, <1>8
  <2>3. /\ Sorted(held)[i] \in held
        /\ Cardinality({m \in held : m <= Sorted(held)[i]}) = i
    BY <2>1, <2>2
  <2> QED
    BY <1>8, <2>3
<1>10. Sorted(held) \in [1 .. n -> held]
  <2>1. Sorted(held) = [i \in 1 .. n |-> Sorted(held)[i]]
    BY DEF Sorted, n
  <2> QED
    BY <1>9, <2>1
<1>11. ASSUME NEW i \in 1 .. n, NEW k \in 1 .. n, i < k
       PROVE  Sorted(held)[i] < Sorted(held)[k]
  <2> DEFINE g == Sorted(held)[i]  h == Sorted(held)[k]
  <2>1. g \in held /\ h \in held /\ rank[g] = i /\ rank[h] = k /\ g \in Nat /\ h \in Nat
    BY <1>2, <1>9
  <2>2. g # h /\ ~(h < g)
    <3>1. i \in Int /\ k \in Int
      OBVIOUS
    <3> HIDE DEF g, h
    <3> QED
      BY <1>4, <1>11, <2>1, <3>1
  <2> HIDE DEF g, h
  <2> QED
    BY <2>1, <2>2 DEF g, h
<1>12. ASSUME NEW h \in held PROVE \E i \in 1 .. n : Sorted(held)[i] = h
  <2>1. rank[h] \in 1 .. n
    BY <1>3
  <2>2. Sorted(held)[rank[h]] \in held /\ rank[Sorted(held)[rank[h]]] = rank[h]
    BY <1>9, <2>1
  <2>3. Sorted(held)[rank[h]] = h
    BY <1>5, <2>2 DEF Injection, IsInjective
  <2> QED
    BY <2>1, <2>3
<1> QED
  BY <1>10, <1>11, <1>12 DEF n

(* The list that chunkTimerCallback makes of the buffered chunks denotes     *)
(* them, and is well-formed, for any set of ids.                             *)
THEOREM RunsAreExact ==
  ASSUME NEW held \in SUBSET (1 .. MaxId)
  PROVE  WellFormed(Runs(held)) /\ Ids(Runs(held)) = held
<1>1. CASE held = {}
  <2>1. Runs(held) = <<>>
    BY <1>1 DEF Runs
  <2>2. <<>> \in Seq(Interval) /\ DOMAIN <<>> = {}
    OBVIOUS
  <2> QED
    BY <1>1, <2>1, <2>2 DEF WellFormed, Ids
<1>2. CASE held # {}
  <2> DEFINE n == Cardinality(held)
             sorted == Sorted(held)
             list == [i \in DOMAIN sorted |-> <<sorted[i], sorted[i]>>]
  <2>1. Runs(held) = Coalesced(list)
    BY <1>2 DEF Runs
  <2>2. IsFiniteSet(held) /\ n \in Nat /\ n # 0
    BY <1>2, CardinalityOf, FS_EmptySet
  <2>3. /\ sorted \in [1 .. n -> held]
        /\ \A i, k \in 1 .. n : i < k => sorted[i] < sorted[k]
        /\ \A h \in held : \E i \in 1 .. n : sorted[i] = h
    BY SortedIs
  <2> HIDE DEF n, sorted
  <2>4. /\ DOMAIN list = 1 .. n
        /\ \A i \in 1 .. n : /\ list[i] = <<sorted[i], sorted[i]>>
                             /\ sorted[i] \in 1 .. MaxId /\ sorted[i] \in Nat
    <3>1. \A i \in 1 .. n : sorted[i] \in held
      BY <2>3
    <3>2. \A h \in held : h \in 1 .. MaxId /\ h \in Nat
      BY MaxIdAssumption
    <3> QED
      BY <2>3, <3>1, <3>2
  <2>5. list \in Seq(Interval) /\ Len(list) = n
    <3>1. \A i \in 1 .. n : list[i] \in Interval
      BY <2>4 DEF Interval
    <3>2. list \in [1 .. n -> Interval]
      BY <2>4, <3>1
    <3> HIDE DEF list
    <3> QED
      BY <2>2, <3>2
  <2>6. \A i \in 1 .. n : list[i][1] = sorted[i] /\ list[i][2] = sorted[i]
    BY <2>4
  <2> HIDE DEF list
  <2>7. Ordered(list)
    <3>1. \A i \in DOMAIN list : list[i][1] <= list[i][2]
      BY <2>4, <2>6
    <3>2. ASSUME NEW i \in DOMAIN list, NEW k \in DOMAIN list, i < k
          PROVE  list[i][1] <= list[k][1] /\ list[i][2] <= list[k][2]
      BY <2>3, <2>4, <2>6, <3>2
    <3> QED
      BY <2>5, <3>1, <3>2 DEF Ordered
  <2>8. list # <<>>
    BY <2>2, <2>5
  <2>9. Ids(list) = held
    <3>1. ASSUME NEW m \in Ids(list) PROVE m \in held
      <4>0. PICK i \in 1 .. n : m \in list[i][1] .. list[i][2]
        BY <2>4, IdsIs
      <4>1. m \in sorted[i] .. sorted[i]
        BY <2>6, <4>0
      <4>2. m = sorted[i]
        BY <2>4, <4>1
      <4> QED
        BY <2>3, <4>2
    <3>2. ASSUME NEW m \in held PROVE m \in Ids(list)
      <4>1. PICK i \in 1 .. n : sorted[i] = m
        BY <2>3
      <4>2. m \in list[i][1] .. list[i][2]
        BY <2>4, <2>6, <4>1
      <4> QED
        BY <2>4, <4>2, IdsIs
    <3> QED
      BY <3>1, <3>2
  <2> QED
    BY <2>1, <2>7, <2>8, <2>9, CoalescedIs DEF sorted, list
<1> QED
  BY <1>1, <1>2

-----------------------------------------------------------------------------
(* Every voxel is sealed once *)

LEMMA Appending ==
  ASSUME NEW own \in Seq(Chunk), NEW new \in Seq(Chunk),
         NEW addresses, NEW waiting, NEW unknown,
         Apart(own, addresses, unknown), waiting \subseteq addresses,
         \A i \in DOMAIN new : /\ new[i].voxels # {}
                               /\ new[i].voxels \subseteq addresses \ waiting,
         \A i, k \in DOMAIN new : i # k => new[i].voxels \cap new[k].voxels = {}
  PROVE  Apart(own \o new, waiting, unknown)
<1> DEFINE all == own \o new
<1>1. ASSUME NEW i \in DOMAIN all
      PROVE  \/ i \in DOMAIN own /\ all[i] = own[i]
             \/ /\ i \notin DOMAIN own
                /\ i - Len(own) \in DOMAIN new /\ all[i] = new[i - Len(own)]
                /\ i \in Int
  OBVIOUS
<1> HIDE DEF all
<1>2. ASSUME NEW i \in DOMAIN all
      PROVE  all[i].voxels # {} /\ all[i].voxels \cap (waiting \cup unknown) = {}
  BY <1>1 DEF Apart
<1>3. ASSUME NEW i \in DOMAIN all, NEW k \in DOMAIN all, i # k
      PROVE  all[i].voxels \cap all[k].voxels = {}
  <2>1. CASE i \in DOMAIN own /\ k \in DOMAIN own
    BY <1>1, <1>3, <2>1 DEF Apart
  <2>2. CASE i \in DOMAIN own /\ k \notin DOMAIN own
    BY <1>1, <2>2 DEF Apart
  <2>3. CASE i \notin DOMAIN own /\ k \in DOMAIN own
    BY <1>1, <2>3 DEF Apart
  <2>4. CASE i \notin DOMAIN own /\ k \notin DOMAIN own
    <3>1. i - Len(own) # k - Len(own)
      BY <1>1, <1>3, <2>4
    <3> QED
      BY <1>1, <2>4, <3>1
  <2> QED
    BY <2>1, <2>2, <2>3, <2>4
<1>4. waiting \cap unknown = {}
  BY DEF Apart
<1> QED
  BY <1>2, <1>3, <1>4 DEF Apart, all

(* The other robots' buffers and chunks do not matter.                       *)
LEMMA OthersSealed ==
  ASSUME SealedOnce, NEW d \in Drone,
         \A e \in Drone \ {d} : /\ chunks'[e][e] = chunks[e][e]
                                /\ pending'[e] = pending[e]
                                /\ map'[e] = map[e],
         Apart(chunks'[d][d], pending'[d], Unknown(d)')
  PROVE  SealedOnce'
<1>1. \A e \in Drone \ {d} : Unknown(e)' = Unknown(e)
  BY DEF Unknown
<1> QED
  BY <1>1 DEF SealedOnce

LEMMA SealedScan ==
  ASSUME Inv, SealedOnce, NEW d \in Drone, Scan(d)
  PROVE  SealedOnce'
<1>1. TypeOK
  BY DEF Inv
<1>2. PICK scan \in Scans[d] :
        LET addresses == pending[d] \cup (DOMAIN scan \cap Unknown(d))
        IN /\ map' = [map EXCEPT ![d] = [v \in Voxel |->
                        IF v \in DOMAIN scan THEN scan[v] ELSE @[v]]]
           /\ IF Cardinality(addresses) < ChunkSize
              THEN /\ pending' = [pending EXCEPT ![d] = addresses]
                   /\ UNCHANGED <<alive, chunks, ids>>
              ELSE IF LastOfNothing(d, addresses)
              THEN /\ alive' = alive \ {d}
                   /\ UNCHANGED <<pending, chunks, ids>>
              ELSE Cut(d, addresses)
  BY DEF Scan
<1> DEFINE addresses == pending[d] \cup (DOMAIN scan \cap Unknown(d))
           own == chunks[d][d]
<1>3. addresses \in SUBSET Voxel /\ own \in Seq(Chunk)
  BY <1>1 DEF TypeOK, Unknown
<1>4. Unknown(d)' = Unknown(d) \ DOMAIN scan
  <2>1. \A v \in DOMAIN scan : scan[v] \in Observed
    <3>1. PICK S \in SUBSET Voxel : scan \in [S -> {"free", "occupied"}]
      BY ChunkAssumption
    <3>2. QED
      BY <3>1 DEF Observed
  <2>2. map'[d] = [v \in Voxel |-> IF v \in DOMAIN scan THEN scan[v] ELSE map[d][v]]
    BY <1>1, <1>2 DEF TypeOK
  <2>3. \A v \in Voxel : map'[d][v] = "unknown"
                         <=> map[d][v] = "unknown" /\ v \notin DOMAIN scan
    BY <2>1, <2>2 DEF Observed
  <2> QED
    BY <2>3 DEF Unknown
<1>5. \A e \in Drone \ {d} : map'[e] = map[e]
  BY <1>1, <1>2 DEF TypeOK
<1>6. Apart(own, pending[d], Unknown(d))
  BY DEF SealedOnce
<1>7. Apart(own, addresses, Unknown(d)')
  BY <1>4, <1>6 DEF Apart
<1>8. CASE chunks' = chunks /\ pending' = [pending EXCEPT ![d] = addresses]
  <2>1. pending'[d] = addresses /\ \A e \in Drone \ {d} : pending'[e] = pending[e]
    BY <1>1, <1>8 DEF TypeOK
  <2> HIDE DEF addresses
  <2> QED
    BY <1>5, <1>7, <1>8, <2>1, OthersSealed
<1>9. CASE chunks' = chunks /\ pending' = pending
  <2>1. Apart(own, pending[d], Unknown(d)')
    BY <1>7 DEF Apart
  <2> QED
    BY <1>5, <1>9, <2>1, OthersSealed
<1>10. CASE Cut(d, addresses) /\ ~(Cardinality(addresses) < ChunkSize)
  <2>1. PICK cut \in Cuts(addresses) :
          LET longer == chunks[d][d] \o [i \in DOMAIN cut |-> NewChunk(cut[i])]
          IN /\ chunks' = [chunks EXCEPT ![d][d] = longer]
             /\ pending' = [pending EXCEPT
                              ![d] = addresses \ UNION {cut[i] : i \in DOMAIN cut}]
    BY <1>10 DEF Cut
  <2> DEFINE new == [i \in DOMAIN cut |-> NewChunk(cut[i])]
             left == addresses \ UNION {cut[i] : i \in DOMAIN cut}
             n == CutCount(addresses)
  <2>2. IsFiniteSet(addresses)
    BY <1>3, ChunkAssumption, FS_Subset
  <2>3. n \in Nat
    <3>1. Cardinality(addresses) \in Nat /\ ChunkSize \in Nat /\ ChunkSize > 0
      BY <2>2, FS_CardinalityType, ChunkAssumption
    <3> HIDE DEF addresses
    <3> QED
      BY <1>10, <3>1 DEF CutCount
  <2>4. /\ DOMAIN cut = 1 .. n
        /\ \A i \in 1 .. n : /\ cut[i] \in SUBSET addresses
                             /\ Cardinality(cut[i]) = ChunkSize
        /\ \A i, k \in 1 .. n : i # k => cut[i] \cap cut[k] = {}
    BY DEF Cuts, kSubset
  <2>5. \A i \in 1 .. n : cut[i] # {}
    BY <2>4, FS_EmptySet, ChunkAssumption
  <2>6. /\ DOMAIN new = 1 .. n
        /\ \A i \in 1 .. n : new[i] \in Chunk /\ new[i].voxels = cut[i]
    <3>1. ASSUME NEW i \in 1 .. n PROVE new[i] \in Chunk /\ new[i].voxels = cut[i]
      <4>1. new[i] = NewChunk(cut[i]) /\ cut[i] \in SUBSET Voxel
        BY <1>3, <2>4
      <4> QED
        BY <4>1, NewChunkType DEF NewChunk
    <3> QED
      BY <2>4, <3>1
  <2>7. new \in Seq(Chunk)
    <3>1. new = [i \in 1 .. n |-> new[i]]
      BY <2>4
    <3> HIDE DEF new, n
    <3>2. new \in [1 .. n -> Chunk]
      BY <2>6, <3>1
    <3> QED
      BY <2>3, <3>2
  <2>8. left \subseteq addresses
    OBVIOUS
  <2>9. \A i \in DOMAIN new : /\ new[i].voxels # {}
                              /\ new[i].voxels \subseteq addresses \ left
    <3> HIDE DEF new, n, addresses
    <3> QED
      BY <2>4, <2>5, <2>6
  <2>10. \A i, k \in DOMAIN new : i # k => new[i].voxels \cap new[k].voxels = {}
    <3> HIDE DEF new, n, addresses
    <3> QED
      BY <2>4, <2>6
  <2>11. /\ chunks'[d][d] = own \o new /\ pending'[d] = left
         /\ \A e \in Drone \ {d} : /\ chunks'[e][e] = chunks[e][e]
                                   /\ pending'[e] = pending[e]
    <3> HIDE DEF new, left
    <3>1. /\ chunks' = [chunks EXCEPT ![d][d] = chunks[d][d] \o new]
          /\ pending' = [pending EXCEPT ![d] = left]
      BY <2>1 DEF new, left
    <3> QED
      BY <1>1, <3>1 DEF TypeOK
  <2> HIDE DEF new, left, n, own, addresses
  <2>12. Apart(own \o new, left, Unknown(d)')
    BY <1>3, <1>7, <2>7, <2>8, <2>9, <2>10, Appending
  <2> QED
    BY <1>5, <2>11, <2>12, OthersSealed
<1> QED
  BY <1>2, <1>8, <1>9, <1>10

LEMMA SealedFlush ==
  ASSUME Inv, SealedOnce, NEW d \in Drone, Flush(d)
  PROVE  SealedOnce'
<1> DEFINE new == <<NewChunk(pending[d])>>
<1>1. TypeOK
  BY DEF Inv
<1>2. chunks[d][d] \in Seq(Chunk) /\ pending[d] \in SUBSET Voxel /\ pending[d] # {}
  BY <1>1 DEF TypeOK, Flush
<1>3. NewChunk(pending[d]) \in Chunk /\ NewChunk(pending[d]).voxels = pending[d]
  BY <1>2, NewChunkType DEF NewChunk
<1>4. /\ new \in Seq(Chunk) /\ DOMAIN new = {1} /\ new[1].voxels = pending[d]
      /\ Append(chunks[d][d], NewChunk(pending[d])) = chunks[d][d] \o new
  BY <1>2, <1>3
<1>5. /\ chunks'[d][d] = chunks[d][d] \o new /\ pending'[d] = {}
      /\ \A e \in Drone \ {d} : /\ chunks'[e][e] = chunks[e][e]
                                /\ pending'[e] = pending[e]
      /\ map' = map
  BY <1>1, <1>4 DEF Flush, TypeOK
<1>6. Apart(chunks[d][d], pending[d], Unknown(d)) /\ Unknown(d)' = Unknown(d)
  BY <1>5 DEF SealedOnce, Unknown
<1> HIDE DEF new
<1>7. Apart(chunks[d][d] \o new, {}, Unknown(d))
  <2>1. /\ \A i \in DOMAIN new : /\ new[i].voxels # {}
                                 /\ new[i].voxels \subseteq pending[d] \ {}
        /\ \A i, k \in DOMAIN new : i # k => new[i].voxels \cap new[k].voxels = {}
    BY <1>2, <1>4
  <2>2. {} \subseteq pending[d]
    OBVIOUS
  <2> QED
    BY <1>2, <1>4, <1>6, <2>1, <2>2, Appending
<1> QED
  BY <1>5, <1>6, <1>7, OthersSealed

LEMMA SealedExchange ==
  ASSUME Inv, SealedOnce, NEW d \in Drone, NEW s \in Drone, ReceiveStamp(d, s)
  PROVE  SealedOnce'
<1>1. TypeOK
  BY DEF Inv
<1>2. /\ chunks' = [chunks EXCEPT ![d][d] =
                     [i \in DOMAIN @ |-> IF <<d, i>> \in Missing(d, s)
                                       THEN Sent(d, d, i) ELSE @[i]]]
      /\ UNCHANGED <<map, pending>>
  BY DEF ReceiveStamp, Exchange
<1>3. \A e \in Drone \ {d} : chunks'[e][e] = chunks[e][e]
  BY <1>1, <1>2 DEF TypeOK
<1>4. chunks'[d][d] = [i \in DOMAIN chunks[d][d] |->
                         IF <<d, i>> \in Missing(d, s) THEN Sent(d, d, i)
                         ELSE chunks[d][d][i]]
  BY <1>1, <1>2 DEF TypeOK
<1>5. \A i \in DOMAIN chunks[d][d] : Sent(d, d, i).voxels = chunks[d][d][i].voxels
  <2>1. \A i \in DOMAIN chunks[d][d] : chunks[d][d][i] \in Chunk
    BY <1>1 DEF TypeOK
  <2> QED
    BY <2>1 DEF Sent, Queried, Chunk
<1>6. /\ DOMAIN chunks'[d][d] = DOMAIN chunks[d][d]
      /\ \A i \in DOMAIN chunks[d][d] :
           chunks'[d][d][i].voxels = chunks[d][d][i].voxels
  BY <1>4, <1>5
<1>7. Unknown(d)' = Unknown(d) /\ pending'[d] = pending[d]
  BY <1>2 DEF Unknown
<1>8. Apart(chunks[d][d], pending[d], Unknown(d))
  BY DEF SealedOnce
<1>9. Apart(chunks'[d][d], pending'[d], Unknown(d)')
  BY <1>6, <1>7, <1>8 DEF Apart
<1> QED
  BY <1>2, <1>3, <1>9, OthersSealed

LEMMA SealedTimer ==
  ASSUME Inv, SealedOnce, NEW d \in Drone, ChunkTimer(d)
  PROVE  SealedOnce'
<1>1. TypeOK
  BY DEF Inv
<1>2. /\ chunks'[d][d] = chunks[d][d]
      /\ \A e \in Drone \ {d} : chunks'[e][e] = chunks[e][e]
  BY <1>1, FilledOwn DEF ChunkTimer, TypeOK
<1>3. /\ pending' = pending
      /\ \A e \in Drone \ {d} : map'[e] = map[e]
      /\ map'[d] = [v \in Voxel |-> IF \E o \in Drone : Inserts(d, o, v)
                                    THEN InsertedBy(d, v) ELSE map[d][v]]
  BY <1>1 DEF ChunkTimer, TypeOK
<1>4. Unknown(d)' \subseteq Unknown(d)
  <2>1. \A v \in Voxel : InsertedBy(d, v) # "unknown"
    BY DEF InsertedBy
  <2> QED
    BY <1>3, <2>1 DEF Unknown
<1>5. Apart(chunks[d][d], pending[d], Unknown(d))
  BY DEF SealedOnce
<1>6. Apart(chunks[d][d], pending[d], Unknown(d)')
  BY <1>4, <1>5 DEF Apart
<1> QED
  BY <1>2, <1>3, <1>6, OthersSealed

LEMMA SealedInit == Init => SealedOnce
<1> SUFFICES ASSUME Init PROVE SealedOnce
  OBVIOUS
<1>1. \A d \in Drone : /\ chunks[d][d] = <<>> /\ pending[d] = {}
                       /\ \A i : i \notin DOMAIN chunks[d][d]
  BY DEF Init
<1> QED
  BY <1>1 DEF SealedOnce, Apart

LEMMA SealedNext == Inv /\ SealedOnce /\ [Next]_vars => SealedOnce'
<1> SUFFICES ASSUME Inv, SealedOnce, [Next]_vars PROVE SealedOnce'
  OBVIOUS
<1>1. CASE UNCHANGED vars
  BY <1>1 DEF vars, SealedOnce, Apart, Unknown
<1>2. ASSUME NEW d \in Drone, Scan(d) PROVE SealedOnce'
  BY <1>2, SealedScan
<1>3. ASSUME NEW d \in Drone, Flush(d) PROVE SealedOnce'
  BY <1>3, SealedFlush
<1>4. ASSUME NEW d \in Drone, ChunkTimer(d) PROVE SealedOnce'
  BY <1>4, SealedTimer
<1>5. ASSUME NEW d \in Drone, NEW s \in Drone, ReceiveStamp(d, s) PROVE SealedOnce'
  BY <1>5, SealedExchange
<1>6. QED
  BY <1>1, <1>2, <1>3, <1>4, <1>5 DEF Next

(* However scans, flushes, exchanges and timers interleave, a robot puts a   *)
(* voxel into at most one chunk of its own.                                  *)
THEOREM EveryVoxelIsSealedOnce == Spec => []SealedOnce
BY Invariance, SealedInit, SealedNext, PTL DEF Spec

-----------------------------------------------------------------------------
(* Nothing is sent twice *)

LEMMA IntervalsAreApart ==
  ASSUME NEW list, WellFormed(list), NEW i \in DOMAIN list, NEW k \in DOMAIN list,
         NEW n \in list[i][1] .. list[i][2], n \in list[k][1] .. list[k][2]
  PROVE  i = k
<1>1. /\ i \in 1 .. Len(list) /\ k \in 1 .. Len(list)
      /\ Len(list) \in Nat /\ i \in Nat /\ k \in Nat
  BY Intervals
<1>2. /\ list[i][1] \in Nat /\ list[i][2] \in Nat
      /\ list[k][1] \in Nat /\ list[k][2] \in Nat
  BY <1>1, Intervals, MaxIdAssumption
<1>3. n \in Int /\ n <= list[i][2] /\ n >= list[i][1]
      /\ n <= list[k][2] /\ n >= list[k][1]
  BY <1>2
<1>4. ~(i < k)
  <2>1. i < k => list[i][2] + 1 < list[k][1]
    BY <1>1, Intervals
  <2> QED
    BY <1>2, <1>3, <2>1
<1>5. ~(k < i)
  <2>1. k < i => list[k][2] + 1 < list[i][1]
    BY <1>1, Intervals
  <2> QED
    BY <1>2, <1>3, <2>1
<1> QED
  BY <1>1, <1>4, <1>5

LEMMA GapsAreApart ==
  ASSUME NEW list, WellFormed(list), list # <<>>,
         NEW g \in Gaps(list), NEW h \in Gaps(list),
         NEW n \in Int, n \in g[1] .. g[2], n \in h[1] .. h[2]
  PROVE  g = h
<1> DEFINE after(i) == <<list[i][2] + 1, GapEnd(list, i)>>
           before == <<1, list[1][1] - 1>>
<1>1. \A gap \in Gaps(list) : gap = before \/ \E i \in 1 .. Len(list) : gap = after(i)
  BY Intervals DEF Gaps, GapEnd
<1>2. Len(list) \in Nat /\ 1 \in 1 .. Len(list)
  BY Intervals DEF WellFormed
<1>3. \A i \in 1 .. Len(list) :
        /\ list[i][1] \in Nat /\ list[i][2] \in Nat
        /\ list[i][1] <= list[i][2] /\ GapEnd(list, i) \in Int
  BY Intervals, MaxIdAssumption DEF GapEnd
<1>4. ASSUME NEW i \in 1 .. Len(list), NEW k \in 1 .. Len(list), i < k
      PROVE  GapEnd(list, i) < list[k][1]
  <2>1. i + 1 \in 1 .. Len(list) /\ i # Len(list)
    BY <1>2, <1>4
  <2>2. GapEnd(list, i) = list[i + 1][1] - 1
    BY <2>1 DEF GapEnd
  <2>3. i + 1 = k \/ list[i + 1][2] + 1 < list[k][1]
    <3>1. i + 1 = k \/ i + 1 < k
      BY <1>4
    <3> QED
      BY <2>1, <3>1, Intervals
  <2> QED
    BY <1>3, <2>1, <2>2, <2>3
<1>5. ASSUME NEW i \in 1 .. Len(list), NEW k \in 1 .. Len(list), i < k,
             n \in after(i)[1] .. after(i)[2], n \in after(k)[1] .. after(k)[2]
      PROVE  FALSE
  BY <1>3, <1>4, <1>5
<1>6. ASSUME NEW i \in 1 .. Len(list),
             n \in before[1] .. before[2], n \in after(i)[1] .. after(i)[2]
      PROVE  FALSE
  <2>1. n < list[1][1] /\ list[i][2] < n
    BY <1>2, <1>3, <1>6
  <2>2. CASE i = 1
    BY <1>2, <1>3, <2>1, <2>2
  <2>3. CASE i # 1
    <3>1. list[1][2] + 1 < list[i][1]
      BY <1>2, <2>3, Intervals
    <3> QED
      BY <1>2, <1>3, <2>1, <3>1
  <2> QED
    BY <2>2, <2>3
<1> HIDE DEF after, before
<1>7. CASE g = before /\ h = before
  BY <1>7
<1>8. CASE (g = before /\ h # before) \/ (g # before /\ h = before)
  BY <1>1, <1>6, <1>8
<1>9. CASE g # before /\ h # before
  <2>1. PICK i \in 1 .. Len(list) : g = after(i)
    BY <1>1, <1>9
  <2>2. PICK k \in 1 .. Len(list) : h = after(k)
    BY <1>1, <1>9
  <2>3. ~(i < k) /\ ~(k < i)
    BY <1>5, <2>1, <2>2
  <2>4. i = k
    BY <2>3
  <2> QED
    BY <2>1, <2>2, <2>4
<1> QED
  BY <1>7, <1>8, <1>9

LEMMA EndsOf ==
  ASSUME NEW own, WellFormed(own), NEW i \in DOMAIN own
  PROVE  own[i] \in Int \X Int
<1>1. own[i] \in Interval
  BY DEF WellFormed
<1>2. own[i][1] \in Int /\ own[i][2] \in Int /\ own[i] = <<own[i][1], own[i][2]>>
  BY <1>1, IntervalEnds
<1> QED
  BY <1>2

(* For all lists, findMissedChunkIds lists no chunk in two intervals: none   *)
(* is published twice.                                                       *)
THEOREM MissedAreApart ==
  ASSUME NEW own, NEW other, WellFormed(own), WellFormed(other),
         NEW p \in Missed(own, other), NEW q \in Missed(own, other), p # q
  PROVE  ~Meets(p, q)
<1> SUFFICES ASSUME Meets(p, q) PROVE FALSE
  OBVIOUS
<1>1. CASE other = <<>>
  <2>1. PICK i \in DOMAIN own, k \in DOMAIN own : p = own[i] /\ q = own[k]
    BY <1>1 DEF Missed
  <2> DEFINE n == Common(p, q)[1]
  <2>2. p \in Int \X Int /\ q \in Int \X Int
    BY <2>1, EndsOf
  <2>3. n \in Int /\ n \in Common(p, q)[1] .. Common(p, q)[2]
    BY <2>2 DEF Meets, Common, Upper, Lower
  <2>4. n \in p[1] .. p[2] /\ n \in q[1] .. q[2]
    BY <2>2, <2>3, CommonIsIntersection
  <2> QED
    BY <2>1, <2>4, IntervalsAreApart
<1>2. CASE other # <<>>
  <2>1. PICK i \in DOMAIN own, g \in Gaps(other) : p = Common(own[i], g)
    BY <1>2 DEF Missed
  <2>2. PICK k \in DOMAIN own, h \in Gaps(other) : q = Common(own[k], h)
    BY <1>2 DEF Missed
  <2>3. /\ own[i] \in Int \X Int /\ own[k] \in Int \X Int
        /\ g \in Int \X Int /\ h \in Int \X Int
    BY <1>2, EndsOf, GapsAreIntervals
  <2>4. p \in Int \X Int /\ q \in Int \X Int
    BY <2>1, <2>2, <2>3 DEF Common, Upper, Lower
  <2> DEFINE n == Common(p, q)[1]
  <2>5. n \in Int /\ n \in Common(p, q)[1] .. Common(p, q)[2]
    BY <2>4 DEF Meets, Common, Upper, Lower
  <2>6. n \in p[1] .. p[2] /\ n \in q[1] .. q[2]
    BY <2>4, <2>5, CommonIsIntersection
  <2>7. /\ n \in own[i][1] .. own[i][2] /\ n \in g[1] .. g[2]
        /\ n \in own[k][1] .. own[k][2] /\ n \in h[1] .. h[2]
    BY <2>1, <2>2, <2>3, <2>5, <2>6, CommonIsIntersection
  <2> HIDE DEF n
  <2>8. i = k
    BY <2>7, IntervalsAreApart
  <2>9. g = h
    BY <1>2, <2>5, <2>7, GapsAreApart
  <2> QED
    BY <2>1, <2>2, <2>8, <2>9
<1> QED
  BY <1>1, <1>2

-----------------------------------------------------------------------------
(* The lists of a state *)

(* A robot has no more chunks than there are voxels.                         *)
LEMMA FewChunks ==
  ASSUME Inv, SealedOnce, NEW o \in Drone
  PROVE  Len(chunks[o][o]) \in 0 .. MaxId
<1> DEFINE own == chunks[o][o]
           first == [i \in 1 .. Len(own) |-> CHOOSE v \in own[i].voxels : TRUE]
<1>1. own \in Seq(Chunk)
  BY DEF Inv, TypeOK
<1>2. /\ Len(own) \in Nat /\ DOMAIN own = 1 .. Len(own)
      /\ \A i \in 1 .. Len(own) : own[i].voxels \subseteq Voxel
  <2>1. \A c \in Chunk : c.voxels \subseteq Voxel
    BY DEF Chunk
  <2> HIDE DEF own
  <2>2. /\ Len(own) \in Nat /\ DOMAIN own = 1 .. Len(own)
        /\ \A i \in 1 .. Len(own) : own[i] \in Chunk
    BY <1>1
  <2> QED
    BY <2>1, <2>2
<1>3. /\ \A i \in DOMAIN own : own[i].voxels # {}
      /\ \A i, k \in DOMAIN own : i # k => own[i].voxels \cap own[k].voxels = {}
  BY DEF SealedOnce, Apart
<1> HIDE DEF own
<1>4. \A i \in 1 .. Len(own) : first[i] \in own[i].voxels /\ first[i] \in Voxel
  BY <1>2, <1>3
<1>5. first \in Injection(1 .. Len(own), Voxel)
  <2>1. first \in [1 .. Len(own) -> Voxel]
    <3>1. first = [i \in 1 .. Len(own) |-> first[i]]
      OBVIOUS
    <3> HIDE DEF first
    <3> QED
      BY <1>4, <3>1
  <2> HIDE DEF first
  <2>2. \A i, k \in 1 .. Len(own) : first[i] = first[k] => i = k
    BY <1>2, <1>3, <1>4
  <2> QED
    BY <2>1, <2>2 DEF Injection, IsInjective
<1> HIDE DEF first
<1>6. IsFiniteSet(Voxel)
  BY ChunkAssumption
<1>7. Cardinality(1 .. Len(own)) <= Cardinality(Voxel)
  BY <1>5, <1>6, FS_Injection
<1>8. Cardinality(1 .. Len(own)) = Len(own)
  BY <1>2, FS_Interval
<1>9. Cardinality(Voxel) \in Nat /\ Cardinality(Voxel) <= MaxId
  BY <1>6, FS_CardinalityType, BoundAssumption
<1> QED
  BY <1>2, <1>7, <1>8, <1>9, MaxIdAssumption DEF own

(* So every list ends below the largest integer.                             *)
LEMMA ListedAreIds ==
  ASSUME Inv, SealedOnce, NEW d \in Drone, NEW o \in Drone
  PROVE  ids[d][o] \in SUBSET (1 .. MaxId)
<1> SUFFICES ASSUME NEW i \in ids[d][o] PROVE i \in 1 .. MaxId
  OBVIOUS
<1>1. i \in DOMAIN chunks[d][o] /\ ~chunks[d][o][i].empty
  BY DEF Inv, ListedIsHeld
<1>2. i \in DOMAIN chunks[o][o]
  BY <1>1 DEF Inv, HeldIsPublic, Public
<1>3. DOMAIN chunks[o][o] = 1 .. Len(chunks[o][o])
  BY DEF Inv, TypeOK
<1> QED
  BY <1>2, <1>3, FewChunks, MaxIdAssumption

LEMMA IdSetsAreSmall == \A S \in IdSets : S \in SUBSET (1 .. MaxId)
BY BoundAssumption, MaxIdAssumption DEF IdSets

LEMMA MergeIs == Inv /\ SealedOnce => MergeIsUnion
<1> SUFFICES ASSUME Inv, SealedOnce PROVE MergeIsUnion
  OBVIOUS
<1>1. MergesAreUnions
  BY IdSetsAreSmall, RunsAreExact, MergeIsExact DEF MergesAreUnions
<1>2. \A d, o \in Drone : Ids(Runs(ids[d][o])) = ids[d][o]
  BY ListedAreIds, RunsAreExact
<1> QED
  BY <1>1, <1>2 DEF MergeIsUnion

LEMMA MissedIs == Inv /\ SealedOnce => MissedIsDifference
<1> SUFFICES ASSUME Inv, SealedOnce PROVE MissedIsDifference
  OBVIOUS
<1>1. ASSUME NEW own \in SUBSET (1 .. MaxId), NEW other \in SUBSET (1 .. MaxId)
      PROVE  LET missed == Missed(Runs(own), Runs(other))
             IN /\ UNION {p[1] .. p[2] : p \in missed} = own \ other
                /\ \A p, q \in missed : p # q => ~Meets(p, q)
  <2>1. /\ WellFormed(Runs(own)) /\ Ids(Runs(own)) = own
        /\ WellFormed(Runs(other)) /\ Ids(Runs(other)) = other
    BY RunsAreExact
  <2> QED
    BY <2>1, MissedIsExact, MissedAreApart
<1>2. MissedAreDifferences
  BY <1>1, IdSetsAreSmall DEF MissedAreDifferences
<1>3. ASSUME NEW d \in Drone, NEW e \in Drone, NEW o \in Drone
      PROVE  UNION {p[1] .. p[2] : p \in Missed(Runs(ids[d][o]), Runs(ids[e][o]))}
             = ids[d][o] \ ids[e][o]
  <2>1. ids[d][o] \in SUBSET (1 .. MaxId) /\ ids[e][o] \in SUBSET (1 .. MaxId)
    BY ListedAreIds
  <2> QED
    BY <1>1, <2>1
<1> QED
  BY <1>2, <1>3 DEF MissedIsDifference

(* In every state the list of any robot denotes what the robot holds, and    *)
(* merging two lists gives a list of the union.                              *)
THEOREM MergeIsAlwaysUnion == Spec => []MergeIsUnion
BY Invariance, EveryVoxelIsSealedOnce, MergeIs, PTL

(* In every state a robot publishes exactly the chunks that another one does *)
(* not list, each of them once.                                              *)
THEOREM MissedIsAlwaysDifference == Spec => []MissedIsDifference
BY Invariance, EveryVoxelIsSealedOnce, MissedIs, PTL
=============================================================================
