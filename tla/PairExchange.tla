---------------------------- MODULE PairExchange ----------------------------
(***************************************************************************)
(* What the pair optimization of RACER promises: routes are versioned, and *)
(* an exchange between two drones is two compare-and-set steps, the        *)
(* receiver's first.  No clock, no cache, no message order: an offer may   *)
(* be taken at any later time, or never, but only by a drone whose version *)
(* is still the one the offer was made for.                                *)
(***************************************************************************)
EXTENDS Integers, TLAPS

CONSTANTS Drone, Grid

VARIABLES
  version,    \* assignment_epoch_ of each drone's own route
  route,      \* grids of each drone's own route
  offers,     \* exchanges proposed so far
  accepted    \* offers whose receiver has committed its half

vars == <<version, route, offers, accepted>>

Offer ==
  [from : Drone, to : Drone, expEgo : Nat, expOther : Nat, epoch : Nat,
   ego : SUBSET Grid, other : SUBSET Grid]

(* The two lists of an offer account for the route version v of d named.    *)
Covers(o, d, v) ==
  /\ v <= version[d]
  /\ version[d] = v => route[d] \subseteq o.ego \cup o.other

Init ==
  /\ version \in [Drone -> Nat]
  /\ route \in [Drone -> SUBSET Grid]
  /\ offers = {} /\ accepted = {}

(* Only the row of drone d may change; its version stays a number.          *)
Changes(d) ==
  /\ version'[d] \in Nat
  /\ version' = [version EXCEPT ![d] = version'[d]]
  /\ route' = [route EXCEPT ![d] = route'[d]]

(* Drone d keeps its row, or changes the route under a higher version.      *)
Touch(d) ==
  \/ UNCHANGED <<version, route>>
  \/ Changes(d) /\ version'[d] > version[d] /\ route'[d] \subseteq Grid

Local(d) == Touch(d) /\ UNCHANGED <<offers, accepted>>

(* The sender may first repair its own route, then offers.                  *)
Propose(d) ==
  /\ Touch(d)
  /\ \E o \in offers' :
       /\ o \in Offer
       /\ o.from = d /\ o.to # d
       /\ o.epoch > o.expEgo /\ o.epoch > o.expOther
       /\ o.expEgo = version'[d]
       /\ Covers(o, d, o.expEgo)'
       /\ Covers(o, o.to, o.expOther)'
       /\ offers' = offers \cup {o}
  /\ UNCHANGED accepted

(* The receiver commits if its version is the expected one.                 *)
Accept(d) ==
  \E o \in offers :
    /\ o.to = d
    /\ version[d] = o.expOther
    /\ version' = [version EXCEPT ![d] = o.epoch]
    /\ route' = [route EXCEPT ![d] = o.other]
    /\ accepted' = accepted \cup {o}
    /\ UNCHANGED offers

(* The sender applies its half of an accepted offer if its own version is   *)
(* still the expected one; grids a third drone claims may drop out at once, *)
(* under a still higher version.                                            *)
Apply(d) ==
  \E o \in accepted :
    /\ o.from = d
    /\ version[d] = o.expEgo
    /\ Changes(d)
    /\ version'[d] >= o.epoch
    /\ route'[d] \subseteq o.ego
    /\ version'[d] = o.epoch => route'[d] = o.ego
    /\ UNCHANGED <<offers, accepted>>

Next == \E d \in Drone : Local(d) \/ Propose(d) \/ Accept(d) \/ Apply(d)

Spec == Init /\ [][Next]_vars

(* Versions are numbers, routes are grids, and only offers are accepted.    *)
TypeOK ==
  /\ version \in [Drone -> Nat]
  /\ route \in [Drone -> SUBSET Grid]
  /\ offers \subseteq Offer
  /\ accepted \subseteq offers

(* An offer carries a higher version than the two it replaces.              *)
OfferVersionsGrow ==
  \A o \in offers : o.epoch > o.expEgo /\ o.epoch > o.expOther

(* Every offer, however old, either is outdated for a drone by its version  *)
(* or accounts for every grid the drone holds: taking it loses nothing.     *)
OffersCover ==
  \A o \in offers : Covers(o, o.from, o.expEgo) /\ Covers(o, o.to, o.expOther)

-----------------------------------------------------------------------------
(* Proofs: an offer never loses a grid, for any drones, grids and offers.   *)

Inv == TypeOK /\ OfferVersionsGrow /\ OffersCover

(* Whatever happens to one drone's row, if its version does not go back and *)
(* a changed row has a higher version, an offer that covered it still does. *)
LEMMA CoverKept ==
  ASSUME NEW o, NEW d \in Drone, NEW v \in Nat,
         TypeOK, version' \in [Drone -> Nat], Covers(o, d, v),
         \/ version'[d] = version[d] /\ route'[d] = route[d]
         \/ version'[d] > version[d]
  PROVE  Covers(o, d, v)'
BY DEF Covers, TypeOK

LEMMA InitInv == Init => Inv
BY DEF Init, Inv, TypeOK, OfferVersionsGrow, OffersCover

(* The steps change the rows of one drone, and only upwards.                *)
RowsRise ==
  \A d \in Drone :
    \/ version'[d] = version[d] /\ route'[d] = route[d]
    \/ version'[d] > version[d]

LEMMA TouchRises ==
  ASSUME TypeOK, NEW d \in Drone, Touch(d)
  PROVE  /\ RowsRise
         /\ version' \in [Drone -> Nat] /\ route' \in [Drone -> SUBSET Grid]
<1>1. CASE UNCHANGED <<version, route>>
  BY <1>1 DEF TypeOK, RowsRise
<1>2. CASE Changes(d) /\ version'[d] > version[d] /\ route'[d] \subseteq Grid
  BY <1>2 DEF TypeOK, RowsRise, Changes
<1>3. QED
  BY <1>1, <1>2 DEF Touch

LEMMA AcceptRises ==
  ASSUME Inv, NEW d \in Drone, Accept(d)
  PROVE  /\ RowsRise
         /\ version' \in [Drone -> Nat] /\ route' \in [Drone -> SUBSET Grid]
         /\ offers' = offers /\ accepted' \subseteq offers
<1>1. PICK o \in offers :
        /\ version[d] = o.expOther
        /\ version' = [version EXCEPT ![d] = o.epoch]
        /\ route' = [route EXCEPT ![d] = o.other]
        /\ accepted' = accepted \cup {o}
        /\ UNCHANGED offers
  BY DEF Accept
<1>2. o \in Offer /\ o.epoch > o.expOther
  BY DEF Inv, TypeOK, OfferVersionsGrow
<1>3. QED
  BY <1>1, <1>2 DEF Inv, TypeOK, Offer, RowsRise

LEMMA ApplyRises ==
  ASSUME Inv, NEW d \in Drone, Apply(d)
  PROVE  /\ RowsRise
         /\ version' \in [Drone -> Nat] /\ route' \in [Drone -> SUBSET Grid]
         /\ offers' = offers /\ accepted' \subseteq offers
<1>1. PICK o \in accepted :
        /\ version[d] = o.expEgo
        /\ Changes(d)
        /\ version'[d] >= o.epoch
        /\ route'[d] \subseteq o.ego
        /\ UNCHANGED <<offers, accepted>>
  BY DEF Apply
<1>2. o \in Offer /\ o.epoch > o.expEgo /\ o.epoch \in Nat /\ o.expEgo \in Nat
      /\ o.ego \subseteq Grid
  BY DEF Inv, TypeOK, OfferVersionsGrow, Offer
<1>3. version'[d] > version[d]
  BY <1>1, <1>2 DEF Changes, Inv, TypeOK
<1>4. QED
  BY <1>1, <1>2, <1>3 DEF Inv, TypeOK, RowsRise, Changes

(* Offers that were there keep covering when rows only rise.                *)
LEMMA CoversKept ==
  ASSUME Inv, RowsRise, version' \in [Drone -> Nat]
  PROVE  \A o \in offers : Covers(o, o.from, o.expEgo)'
                           /\ Covers(o, o.to, o.expOther)'
<1> SUFFICES ASSUME NEW o \in offers
             PROVE Covers(o, o.from, o.expEgo)' /\ Covers(o, o.to, o.expOther)'
  OBVIOUS
<1>1. o.from \in Drone /\ o.to \in Drone /\ o.expEgo \in Nat /\ o.expOther \in Nat
  BY DEF Inv, TypeOK, Offer
<1>2. Covers(o, o.from, o.expEgo) /\ Covers(o, o.to, o.expOther)
  BY DEF Inv, OffersCover
<1>3. QED
  BY <1>1, <1>2, CoverKept DEF Inv, RowsRise

LEMMA NextInv == Inv /\ [Next]_vars => Inv'
<1> SUFFICES ASSUME Inv, [Next]_vars PROVE Inv'
  OBVIOUS
<1>1. ASSUME NEW d \in Drone, Local(d) PROVE Inv'
  <2>1. RowsRise /\ version' \in [Drone -> Nat] /\ route' \in [Drone -> SUBSET Grid]
    BY <1>1, TouchRises DEF Local, Inv
  <2>2. offers' = offers /\ accepted' = accepted
    BY <1>1 DEF Local
  <2>3. QED
    BY <2>1, <2>2, CoversKept DEF Inv, TypeOK, OfferVersionsGrow, OffersCover, Covers
<1>2. ASSUME NEW d \in Drone, Propose(d) PROVE Inv'
  <2>1. RowsRise /\ version' \in [Drone -> Nat] /\ route' \in [Drone -> SUBSET Grid]
    BY <1>2, TouchRises DEF Propose, Inv
  <2>2. PICK o \in offers' :
          /\ o \in Offer /\ o.from = d
          /\ o.epoch > o.expEgo /\ o.epoch > o.expOther
          /\ o.expEgo = version'[d]
          /\ Covers(o, d, o.expEgo)'
          /\ Covers(o, o.to, o.expOther)'
          /\ offers' = offers \cup {o}
    BY <1>2 DEF Propose
  <2>3. accepted' = accepted
    BY <1>2 DEF Propose
  <2>4. TypeOK' /\ OfferVersionsGrow'
    BY <2>1, <2>2, <2>3 DEF Inv, TypeOK, OfferVersionsGrow
  <2>5. OffersCover'
    BY <2>1, <2>2, CoversKept DEF OffersCover, Covers
  <2>6. QED
    BY <2>4, <2>5 DEF Inv
<1>3. ASSUME NEW d \in Drone, Accept(d) PROVE Inv'
  BY <1>3, AcceptRises, CoversKept
  DEF Inv, TypeOK, OfferVersionsGrow, OffersCover, Covers
<1>4. ASSUME NEW d \in Drone, Apply(d) PROVE Inv'
  BY <1>4, ApplyRises, CoversKept
  DEF Inv, TypeOK, OfferVersionsGrow, OffersCover, Covers
<1>5. CASE UNCHANGED vars
  BY <1>5 DEF vars, Inv, TypeOK, OfferVersionsGrow, OffersCover, Covers
<1>6. QED
  BY <1>1, <1>2, <1>3, <1>4, <1>5 DEF Next

(* An exchange taken at any time, by a drone whose version is still the one *)
(* it names, accounts for every grid the drone holds.                       *)
THEOREM OffersAlwaysCover == Spec => []OffersCover
<1>1. Inv => OffersCover
  BY DEF Inv
<1>2. QED
  BY InitInv, NextInv, <1>1, PTL DEF Spec

=============================================================================
