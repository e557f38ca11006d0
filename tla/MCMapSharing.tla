---------------------------- MODULE MCMapSharing ----------------------------
(***************************************************************************)
(* Two robots and the ground node in a row: 1 and 3 never hear each other. *)
(* The robots disagree about voxel v1, and robot 1 changes its mind.       *)
(***************************************************************************)
EXTENDS MapSharing, ChunkLists, TLC

CONSTANTS
  v1, v2, v3,
  Bound    \* largest chunk id in a list; below MaxId

(* The lists end below the largest integer.                                 *)
ASSUME BoundAssumption == Bound \in 0 .. MaxId /\ Cardinality(Voxel) <= MaxId

Line == {<<1, 2>>, <<2, 1>>, <<2, 3>>, <<3, 2>>}

(* Robot 1 sees more than a chunk at once, and may change its mind; robot 2 *)
(* sees exactly a chunk, if it has not heard of v1 or v2 before.            *)
Views == (1 :> {v1 :> "occupied" @@ v2 :> "free" @@ v3 :> "free",
                v1 :> "free" @@ v2 :> "free" @@ v3 :> "free"})
         @@ (2 :> {v1 :> "free" @@ v2 :> "free"})
         @@ (3 :> {})

IdSets == SUBSET (1..Bound)

MergesAreUnions ==
  \A known, received \in IdSets :
    LET merged == Merge(Runs(received), Runs(known))
    IN WellFormed(merged) /\ Ids(merged) = known \cup received

MissedAreDifferences ==
  \A own, other \in IdSets :
    LET missed == Missed(Runs(own), Runs(other))
    IN /\ UNION {p[1] .. p[2] : p \in missed} = own \ other
       /\ \A p, q \in missed : p # q => ~Meets(p, q)

(* What mergeChunkIds makes of two lists denotes a chunk exactly when one of *)
(* them does, and stays sorted without touching intervals: the next          *)
(* findMissedChunkIds, of any robot, relies on both.  So a list always       *)
(* denotes what its robot holds, for any two lists and for those of a state. *)
MergeIsUnion ==
  /\ MergesAreUnions
  /\ \A d, o \in Drone : Ids(Runs(ids[d][o])) = ids[d][o]

(* A robot that learns another one's list sends exactly the chunks that are  *)
(* missing there, each of them once: for any two lists, and for those of any *)
(* two robots in a state.                                                    *)
MissedIsDifference ==
  /\ MissedAreDifferences
  /\ \A d, e, o \in Drone :
       UNION {p[1] .. p[2] : p \in Missed(Runs(ids[d][o]), Runs(ids[e][o]))}
       = ids[d][o] \ ids[e][o]
=============================================================================
