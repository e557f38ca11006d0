-------------------------- MODULE OwnershipLosses --------------------------
(***************************************************************************)
(* What the pair optimization may lose.                                    *)
(*                                                                         *)
(* An exchange is committed by its receiver first, and taken by its sender *)
(* when the response arrives if both rows still match.  Until then the     *)
(* grids the receiver gave up belong to nobody, and for ever if the sender *)
(* has changed its route or reserved another exchange meanwhile.  This     *)
(* module adds to GridOwnership a history of such exchanges, to tell that  *)
(* loss from every other one.                                              *)
(***************************************************************************)
EXTENDS GridOwnership

VARIABLE half    \* requests whose receiver has committed and whose sender
                 \* has not taken its lists

lossVars == <<vars, half>>

Takes(m) == Applies(m.from) /\ pending[m.from] = Reserved(m)

Follow ==
  half' = (half \cup {m \in requests : Commits(m)}) \ {m \in requests : Takes(m)}

LossInit == Init /\ half = {}
LossSpec == LossInit /\ [][Next /\ Follow]_lossVars

(* While the maps do not change, every grid has an owner, or an exchange    *)
(* that its receiver has committed gives it to a sender which has not taken *)
(* it.  In particular reconcileDuplicateOwnership, which every robot runs   *)
(* against rows that may be outdated, never makes all owners of a grid drop *)
(* it for one another.                                                      *)
LossesAreHalfTaken ==
  \A g \in Coarse :
    \/ \E i \in Drone : g \in Own(i).ids
    \/ \E m \in half : g \in m.ego

-----------------------------------------------------------------------------
(* Why nothing else is lost.  A claim is an epoch and a robot; a living      *)
(* claim is one that an owner makes, or a half-taken exchange makes for its  *)
(* sender.                                                                  *)

(* Claim (e, j) is as strong as claim (f, k).                               *)
AtLeast(e, j, f, k) == e > f \/ (e = f /\ j <= k)

OwnRows == [k \in Drone |-> Own(k)]

Accepted == {m \in requests : Reply(m, 1) \in responses}

(* Some owner among own, or some exchange of hf, claims grid g as strongly  *)
(* as (f, k).                                                               *)
Held(own, hf, g, f, k) ==
  \/ \E j \in Drone : g \in own[j].ids /\ AtLeast(Claim(own[j], g), j, f, k)
  \/ \E m \in hf : g \in m.ego /\ AtLeast(m.epoch, m.from, f, k)

(* What s says of the claims of drone k is held.                            *)
SaidHeld(own, hf, s, k) == \A g \in s.ids : Held(own, hf, g, Claim(s, g), k)

ExchangeHeld(own, hf, m) ==
  /\ \A g \in m.ego : Held(own, hf, g, m.epoch, m.from)
  /\ \A g \in m.other : Held(own, hf, g, m.epoch, m.to)

RowsHeld == \A i, j \in Drone : SaidHeld(OwnRows, half, swarm[i][j], j)
BeaconsHeld == \A b \in beacons : SaidHeld(OwnRows, half, b, b.from)
AcceptedHeld == \A m \in Accepted : ExchangeHeld(OwnRows, half, m)
AcceptedApart == \A m \in Accepted : m.ego \cap m.other = {}
HalfAccepted == half \subseteq Accepted
NoneLost == \A g \in Coarse : \E k \in Drone : Held(OwnRows, half, g, 0, k)

(* A robot gives a grid up for what it has recorded, which may be outdated.  *)
(* That is safe because every recorded claim, in a row, in a state on its   *)
(* way or in an accepted exchange, is matched by a living claim that is as   *)
(* strong: whoever drops a grid for a stronger claim leaves an owner behind. *)
ClaimsHeld ==
  /\ RowsHeld /\ BeaconsHeld /\ AcceptedHeld
  /\ AcceptedApart /\ HalfAccepted /\ NoneLost
=============================================================================
