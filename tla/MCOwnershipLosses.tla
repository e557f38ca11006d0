------------------------- MODULE MCOwnershipLosses -------------------------
(* TLC instance of OwnershipLosses. *)
EXTENDS OwnershipLosses

(* No grid divides. *)
NoChildren == [c \in Coarse |-> {}]
=============================================================================
