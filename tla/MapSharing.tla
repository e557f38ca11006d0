----------------------------- MODULE MapSharing -----------------------------
(***************************************************************************)
(* MultiMapManager of every robot: how the voxel maps spread.              *)
(*                                                                         *)
(* A robot collects the voxels it observes for the first time and seals    *)
(* them into numbered chunks.  Every robot broadcasts which chunks of      *)
(* which owner it holds; a robot that hears it publishes the chunks that   *)
(* are missing there, its own ones and those of others.  Both topics lose  *)
(* messages and reach only the robots in range.                            *)
(*                                                                         *)
(* An index list is the set of ids it denotes; ChunkLists is about the     *)
(* lists themselves.  A message is heard at once or lost.  A chunk message *)
(* that is late is one that was lost and sent again: what it says does not *)
(* change, and the buffer it goes to is emptied later anyway.  A stamp     *)
(* that is late lists less than the robot holds; what is published for it  *)
(* in addition is held there, and changes nothing.                         *)
(***************************************************************************)
EXTENDS Integers, Sequences, FiniteSets, FiniteSetsExt

CONSTANTS
  Drone,      \* drone ids, the ground node among them
  Ground,     \* drone_num_, the id of the ground node
  Link,       \* who hears whom
  Voxel,      \* voxel addresses
  Scans,      \* for each drone, what it may see in one scan
  ChunkSize   \* chunk_size_

ASSUME DroneAssumption ==
  /\ Drone \subseteq Nat /\ IsFiniteSet(Drone)
  /\ Link \subseteq {l \in Drone \X Drone : l[1] # l[2]}
ASSUME ChunkAssumption ==
  /\ ChunkSize \in Nat \ {0}
  /\ IsFiniteSet(Voxel)
  /\ Scans \in [Drone -> SUBSET UNION {[S -> {"free", "occupied"}] :
                                        S \in SUBSET Voxel}]

VARIABLES
  alive,    \* drones whose process runs
  map,      \* occupancy_buffer_ of each drone, as getOccupancy reads it
  pending,  \* adr_buffer_
  chunks,   \* multi_map_chunks_[owner].chunks_
  ids,      \* multi_map_chunks_[owner].idx_list_
  buffer    \* chunk_buffer_[owner]

vars == <<alive, map, pending, chunks, ids, buffer>>

Observed == {"free", "occupied"}
Chunk == [voxels : SUBSET Voxel, occupied : SUBSET Voxel,
          query : BOOLEAN, empty : BOOLEAN]
ChunkData == [idx : Nat \ {0}, voxels : SUBSET Voxel, occupied : SUBSET Voxel]

(* One type invariant.                                                      *)
TypeOK ==
  /\ alive \subseteq Drone
  /\ map \in [Drone -> [Voxel -> Observed \cup {"unknown"}]]
  /\ pending \in [Drone -> SUBSET Voxel]
  /\ chunks \in [Drone -> [Drone -> Seq(Chunk)]]
  /\ ids \in [Drone -> [Drone -> SUBSET (Nat \ {0})]]
  /\ buffer \in [Drone -> [Drone -> SUBSET ChunkData]]

Init ==
  /\ alive = Drone
  /\ map = [d \in Drone |-> [v \in Voxel |-> "unknown"]]
  /\ pending = [d \in Drone |-> {}]
  /\ chunks = [d \in Drone |-> [o \in Drone |-> <<>>]]
  /\ ids = [d \in Drone |-> [o \in Drone |-> {}]]
  /\ buffer = [d \in Drone |-> [o \in Drone |-> {}]]

NewChunk(voxels) ==
  [voxels |-> voxels, occupied |-> {}, query |-> TRUE, empty |-> FALSE]
Placeholder ==
  [voxels |-> {}, occupied |-> {}, query |-> FALSE, empty |-> TRUE]

-----------------------------------------------------------------------------
(* The own map and the own chunks *)

Unknown(d) == {v \in Voxel : map[d][v] = "unknown"}

(* How many full chunks updateMapChunk cuts off: it keeps at least one       *)
(* address.                                                                  *)
CutCount(addresses) == (Cardinality(addresses) - 1) \div ChunkSize

(* The order of the addresses decides which of them share a chunk.           *)
Cuts(addresses) ==
  {cut \in [1 .. CutCount(addresses) -> kSubset(ChunkSize, addresses)] :
     \A i, j \in DOMAIN cut : i # j => cut[i] \cap cut[j] = {}}

Cut(d, addresses) ==
  \E cut \in Cuts(addresses) :
    LET own == chunks[d][d] \o [i \in DOMAIN cut |-> NewChunk(cut[i])]
    IN /\ chunks' = [chunks EXCEPT ![d][d] = own]
       /\ ids' = [ids EXCEPT ![d][d] = 1 .. Len(own)]
       /\ pending' = [pending EXCEPT
                        ![d] = addresses \ UNION {cut[i] : i \in DOMAIN cut}]
       /\ UNCHANGED alive

(* The buffer holds exactly one chunk and nothing was cut before: the code   *)
(* takes the last element of an empty vector.                                *)
LastOfNothing(d, addresses) ==
  Cardinality(addresses) = ChunkSize /\ chunks[d][d] = <<>>

(* inputPointCloud: one scan and updateMapChunk.  A voxel seen again may or  *)
(* may not change its class.                                                 *)
Scan(d) ==
  /\ d \in alive /\ d # Ground
  /\ \E scan \in Scans[d] :
       LET addresses == pending[d] \cup (DOMAIN scan \cap Unknown(d))
       IN /\ map' = [map EXCEPT ![d] = [v \in Voxel |->
                       IF v \in DOMAIN scan THEN scan[v] ELSE @[v]]]
          /\ IF Cardinality(addresses) < ChunkSize
             THEN /\ pending' = [pending EXCEPT ![d] = addresses]
                  /\ UNCHANGED <<alive, chunks, ids>>
             ELSE IF LastOfNothing(d, addresses)
             THEN /\ alive' = alive \ {d}
                  /\ UNCHANGED <<pending, chunks, ids>>
             ELSE Cut(d, addresses)
  /\ UNCHANGED buffer

(* Mutant of NextId: ids count from zero.                                    *)
NextIdFromZero(d) == Len(chunks[d][d])

NextId(d) == Len(chunks[d][d]) + 1

(* Mutant of Flush: the addresses stay in the buffer.                        *)
FlushKeepingAddresses(d) ==
  /\ d \in alive
  /\ pending[d] # {}
  /\ chunks' = [chunks EXCEPT ![d][d] = Append(@, NewChunk(pending[d]))]
  /\ ids' = [ids EXCEPT ![d][d] = @ \cup {NextId(d)}]
  /\ UNCHANGED <<alive, map, buffer, pending>>

(* flushPendingChunk, before the frontiers are shared.                       *)
Flush(d) ==
  /\ d \in alive
  /\ pending[d] # {}
  /\ chunks' = [chunks EXCEPT ![d][d] = Append(@, NewChunk(pending[d]))]
  /\ ids' = [ids EXCEPT ![d][d] = @ \cup {NextId(d)}]
  /\ pending' = [pending EXCEPT ![d] = {}]
  /\ UNCHANGED <<alive, map, buffer>>

-----------------------------------------------------------------------------
(* Exchange *)

(* The occupancy of the own voxels is read when a chunk is sent first.       *)
Queried(d, c) ==
  [c EXCEPT !.occupied = {v \in c.voxels : map[d][v] = "occupied"},
            !.query = FALSE]

(* Mutant of Sent: the occupancy is read whenever the chunk is sent.         *)
SentAnew(d, o, i) ==
  LET c == chunks[d][o][i]
  IN IF d = o THEN Queried(d, c) ELSE c

Sent(d, o, i) ==
  LET c == chunks[d][o][i]
  IN IF d = o /\ c.query THEN Queried(d, c) ELSE c

(* Mutant of Missing: a robot shares its own chunks only.                    *)
MissingOwn(d, s) == {d} \X (ids[d][d] \ ids[s][d])

(* The chunks, with their owners, that d holds and that s does not list in    *)
(* its stamp.                                                                 *)
Missing(d, s) ==
  UNION {{o} \X (ids[d][o] \ ids[s][o]) : o \in Drone \ {s}}

(* chunkCallback: to_drone_id is not looked at; a chunk that is already in   *)
(* the buffer is dropped.                                                    *)
Buffered(d, e, reached) ==
  [o \in Drone |->
     buffer[e][o] \cup
     {[idx |-> r[2], voxels |-> Sent(d, o, r[2]).voxels,
       occupied |-> Sent(d, o, r[2]).occupied] :
        r \in {q \in reached : q[1] = o
                 /\ \A b \in buffer[e][o] : b.idx # q[2]}}]

Hearers(d) == {e \in alive : <<d, e>> \in Link}

(* stampMsgCallback of d for a stamp of s.  What d publishes reaches some of *)
(* the robots in range.                                                      *)
Exchange(d, s, reached) ==
  /\ d \in alive /\ s \in alive
  /\ d # Ground /\ <<s, d>> \in Link
  /\ buffer' = [e \in Drone |->
                  IF e \in Hearers(d) THEN Buffered(d, e, reached[e])
                  ELSE buffer[e]]
  /\ chunks' = [chunks EXCEPT ![d][d] =
                  [i \in DOMAIN @ |-> IF <<d, i>> \in Missing(d, s)
                                    THEN Sent(d, d, i) ELSE @[i]]]
  /\ UNCHANGED <<alive, map, pending, ids>>

ReceiveStamp(d, s) ==
  \E reached \in [Hearers(d) -> SUBSET Missing(d, s)] :
    Exchange(d, s, reached)

(* The buffered chunks that the robot has no data of.                        *)
Fresh(d, o) ==
  {c \in buffer[d][o] : c.idx > Len(chunks[d][o]) \/ chunks[d][o][c.idx].empty}

(* The chunks with placeholders up to the last buffered one.                 *)
Filled(d, o) ==
  [i \in 1 .. Max({Len(chunks[d][o])} \cup {c.idx : c \in buffer[d][o]}) |->
     IF \E c \in Fresh(d, o) : c.idx = i
     THEN LET c == CHOOSE c \in Fresh(d, o) : c.idx = i
          IN [voxels |-> c.voxels, occupied |-> c.occupied,
              query |-> FALSE, empty |-> FALSE]
     ELSE IF i <= Len(chunks[d][o]) THEN chunks[d][o][i] ELSE Placeholder]

(* Mutant of Inserts: a chunk overwrites what the robot saw itself.          *)
InsertsAlways(d, o, v) == \E c \in Fresh(d, o) : v \in c.voxels

(* insertChunkToMap with remote_overwrites_local_ = false.                   *)
Inserts(d, o, v) ==
  /\ map[d][v] = "unknown"
  /\ \E c \in Fresh(d, o) : v \in c.voxels

(* Owners in the order of their ids: the first one to know a voxel sets it.  *)
InsertedBy(d, v) ==
  LET o == Min({p \in Drone : Inserts(d, p, v)})
  IN IF \E c \in Fresh(d, o) : v \in c.occupied THEN "occupied" ELSE "free"

ChunkTimer(d) ==
  /\ d \in alive
  /\ \E o \in Drone : buffer[d][o] # {}
  /\ chunks' = [chunks EXCEPT ![d] = [o \in Drone |-> Filled(d, o)]]
  /\ map' = [map EXCEPT ![d] = [v \in Voxel |->
               IF \E o \in Drone : Inserts(d, o, v)
               THEN InsertedBy(d, v) ELSE @[v]]]
  /\ ids' = [ids EXCEPT ![d] =
               [o \in Drone |-> @[o] \cup {c.idx : c \in buffer[d][o]}]]
  /\ buffer' = [buffer EXCEPT ![d] = [o \in Drone |-> {}]]
  /\ UNCHANGED <<alive, pending>>

-----------------------------------------------------------------------------
Next ==
  \E d \in Drone :
    \/ Scan(d) \/ Flush(d) \/ ChunkTimer(d)
    \/ \E s \in Drone : ReceiveStamp(d, s)

Spec == Init /\ [][Next]_vars

(* An exchange in which nothing is lost on the way to s.                     *)
Reaches(d, s) ==
  \E reached \in [Hearers(d) -> SUBSET Missing(d, s)] :
    /\ s \in Hearers(d) /\ reached[s] = Missing(d, s)
    /\ Exchange(d, s, reached)

(* The timers run; of the exchanges that happen again and again between two  *)
(* robots, some lose nothing.                                                *)
FairSpec ==
  /\ Spec
  /\ \A d \in Drone : WF_vars(Flush(d)) /\ WF_vars(ChunkTimer(d))
  /\ \A d, s \in Drone : SF_vars(Reaches(d, s))

-----------------------------------------------------------------------------
(* Properties *)

(* A robot lists only chunks it has data of, and every copy of a chunk says  *)
(* the same: a relayed chunk is as good as one from its owner, although the  *)
(* owner's map changes all the time.                                         *)
CopiesAgree ==
  \A d, o \in Drone : \A i \in ids[d][o] :
    /\ i \in DOMAIN chunks[d][o] /\ ~chunks[d][o][i].empty
    /\ d # o => /\ i \in DOMAIN chunks[o][o]
                /\ chunks[d][o][i] = chunks[o][o][i]

(* The voxels of the chunks own, of the buffer waiting, and those still      *)
(* unknown have nothing in common, and no chunk is empty.                    *)
Apart(own, waiting, unknown) ==
  /\ \A i \in DOMAIN own :
       own[i].voxels # {} /\ own[i].voxels \cap (waiting \cup unknown) = {}
  /\ \A i, k \in DOMAIN own : i # k => own[i].voxels \cap own[k].voxels = {}
  /\ waiting \cap unknown = {}

(* A robot publishes every voxel it discovers in one chunk only: whatever it *)
(* cuts off or flushes leaves the buffer, and what it knows, by its own scan *)
(* or from others, never enters the buffer again.  So there are never more   *)
(* chunks of a robot than voxels.                                            *)
SealedOnce == \A d \in Drone : Apart(chunks[d][d], pending[d], Unknown(d))

(* "Local observations win": a voxel that is known changes only with a scan  *)
(* of the robot itself.                                                      *)
LocalObservationsWin ==
  [][\A d \in Drone, v \in Voxel :
       map[d][v] # "unknown" /\ map'[d][v] # map[d][v] => Scan(d)]_vars

(* Whatever one robot knows, the others know in the end, also those it never *)
(* meets and also the voxels of a chunk that is not full, unless a process   *)
(* dies.                                                                     *)
KnowledgeSpreads ==
  <>[](alive = Drone => \A d, e \in Drone : Unknown(d) = Unknown(e))

(* "Insert chunk from too long buffer": no process dies of a buffer that is  *)
(* just full.                                                                *)
NoProcessDies == alive = Drone
=============================================================================
