---------------------------- MODULE MCPeerRescue ----------------------------
(* Two robots without work hear the third one, and each other. *)
EXTENDS PeerRescue, TLC

CONSTANT a

AllHear == {<<3, 1>>, <<3, 2>>, <<1, 2>>, <<2, 1>>}

Idle == [Nothing EXCEPT !.reachable = Frontier]
Busy == [Nothing EXCEPT !.reserved = Frontier]
Offers(S) == [Nothing EXCEPT !.open = S, !.reserved = Frontier \ S]

Maps == (1 :> {Idle, Busy}) @@ (2 :> {Idle})
        @@ (3 :> {Offers({}), Offers({a})})
=============================================================================
