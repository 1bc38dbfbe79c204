---------------------------- MODULE MCPurchases ----------------------------
(* Small instances of Purchases for TLC; the fee is one unit.              *)
EXTENDS Purchases

Guest == {2}
HostAndGuest == {1, 2}
InvitedByHost == [u \in Users |-> IF u = 2 /\ 1 \in Users THEN 1 ELSE NoUser]
EnoughForOne == [u \in Users |-> 2]
Nothing == [u \in Users |-> 0]
UpAndDown == {2, -2}
NoMoves == {}
=============================================================================
