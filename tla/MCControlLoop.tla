--------------------------- MODULE MCControlLoop ---------------------------
(* What the controller may find in the instance. *)
EXTENDS ControlLoop

Ill == [healthy |-> FALSE, wanted |-> FALSE, moved |-> FALSE, limited |-> FALSE]
Free == [Ill EXCEPT !.healthy = TRUE, !.wanted = TRUE, !.moved = TRUE]
Held == [Ill EXCEPT !.healthy = TRUE, !.wanted = TRUE, !.limited = TRUE]

Findings == {Ill, Free, Held}
=============================================================================
