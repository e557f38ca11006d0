----------------------------- MODULE ChunkLists -----------------------------
(***************************************************************************)
(* The index lists of MultiMapManager.                                     *)
(*                                                                         *)
(* A robot tells which map chunks of an owner it holds by a sorted list of *)
(* closed intervals; the code flattens it, <<lo1, hi1, lo2, hi2, ...>>.    *)
(* Here a list is a sequence of pairs.  Ids gives the set a list denotes;  *)
(* Missed and Merge are the code's algorithms.                             *)
(***************************************************************************)
EXTENDS Integers, SequencesExt

CONSTANT MaxId    \* std::numeric_limits<int>::max()
ASSUME MaxIdAssumption == MaxId \in Nat \ {0}

Interval == (1..MaxId) \X (1..MaxId)

Ids(list) == UNION {list[i][1] .. list[i][2] : i \in DOMAIN list}

(* Sorted, and no two intervals overlap or touch.                           *)
WellFormed(list) ==
  /\ list \in Seq(Interval)
  /\ \A i \in DOMAIN list : list[i][1] <= list[i][2]
  /\ \A i, k \in DOMAIN list : i < k => list[i][2] + 1 < list[k][1]

Lower(m, n) == IF m <= n THEN m ELSE n
Upper(m, n) == IF m <= n THEN n ELSE m

(* findIntersect                                                            *)
Common(p, q) == <<Upper(p[1], q[1]), Lower(p[2], q[2])>>
Meets(p, q) == Common(p, q)[1] <= Common(p, q)[2]

-----------------------------------------------------------------------------
(* findMissedChunkIds: the gaps of the other list, cut with the own list.   *)

(* Mutant of Gaps: the gap starts at the last chunk the other one has.      *)
GapsFromLast(other) ==
  {<<other[i][2],
     IF i = Len(other) THEN MaxId ELSE other[i + 1][1] - 1>> :
   i \in DOMAIN other}
  \cup (IF other[1][1] > 1 THEN {<<1, other[1][1] - 1>>} ELSE {})

Gaps(other) ==
  {<<other[i][2] + 1,
     IF i = Len(other) THEN MaxId ELSE other[i + 1][1] - 1>> :
   i \in DOMAIN other}
  \cup (IF other[1][1] > 1 THEN {<<1, other[1][1] - 1>>} ELSE {})

(* The intervals in no order: the chunks are published one by one.          *)
Missed(own, other) ==
  IF other = <<>> THEN {own[i] : i \in DOMAIN own}
  ELSE {p \in {Common(own[i], gap) : i \in DOMAIN own, gap \in Gaps(other)} :
          p[1] <= p[2]}

-----------------------------------------------------------------------------
(* mergeChunkIds *)

(* Mutant of Joins: intervals that only touch stay apart.                   *)
JoinsOnOverlap(last, p) == last[2] >= p[1]

(* The next interval starts before the end of the last one or right after.  *)
Joins(last, p) == last[2] >= p[1] - 1

(* Erases the end of an interval and the start of the next one that joins.  *)
Extended(list, p) ==
  LET last == list[Len(list)]
  IN IF Joins(last, p) THEN [list EXCEPT ![Len(list)] = <<last[1], p[2]>>]
     ELSE Append(list, p)

Coalesced(list) ==
  LET done[k \in DOMAIN list] ==
        IF k = 1 THEN <<list[1]>> ELSE Extended(done[k - 1], list[k])
  IN done[Len(list)]

(* The interval goes between its neighbours.                                *)
Inserted(list, p) ==
  LET at == CHOOSE k \in 0 .. Len(list) :
              /\ k > 0 => list[k][2] < p[1]
              /\ k < Len(list) => list[k + 1][1] > p[2]
  IN InsertAt(list, at + 1, p)

(* Every interval that meets p is widened to cover p.                       *)
Widened(list, p) ==
  [i \in DOMAIN list |->
     IF Meets(list[i], p)
     THEN <<Lower(list[i][1], p[1]), Upper(list[i][2], p[2])>>
     ELSE list[i]]

Absorbed(list, p) ==
  Coalesced(IF \E i \in DOMAIN list : Meets(list[i], p)
            THEN Widened(list, p) ELSE Inserted(list, p))

(* The intervals of the second list are absorbed one after the other.       *)
Merge(list1, list2) ==
  LET merged[k \in 0 .. Len(list2)] ==
        IF k = 0 THEN list1 ELSE Absorbed(merged[k - 1], list2[k])
  IN IF list1 = <<>> THEN list2 ELSE merged[Len(list2)]

(* The i-th smallest id at place i.                                         *)
Sorted(held) ==
  [i \in 1 .. Cardinality(held) |->
     CHOOSE n \in held : Cardinality({m \in held : m <= n}) = i]

(* chunkTimerCallback: the list of the buffered chunks.                     *)
Runs(held) ==
  IF held = {} THEN <<>>
  ELSE Coalesced([i \in DOMAIN Sorted(held) |->
                    <<Sorted(held)[i], Sorted(held)[i]>>])
=============================================================================
