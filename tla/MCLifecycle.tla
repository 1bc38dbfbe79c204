---------------------------- MODULE MCLifecycle ----------------------------
(* Small instances of Lifecycle for TLC.                                   *)
EXTENDS Lifecycle

(* One customer with two services.                                         *)
OneUser == {1}
OneService == {1}
TwoServices == {1, 2}
SoleOwner == [s \in Services |-> 1]
NoInviter == [u \in Users |-> NoUser]

(* Two customers; the second was invited by the first.                     *)
TwoUsers == {1, 2}
InvitedOwner == [s \in Services |-> 2]
OwnEach == [s \in Services |-> s]
InvitedByFirst == [u \in Users |-> IF u = 2 THEN 1 ELSE NoUser]

(* 1024 toman per GiB is one toman per MiB; 1536 rounds up on odd usage.   *)
PriceWhole == [s \in Services |-> 1024]
PriceRounded == [s \in Services |-> 1024 + 512 * s]

Pennies == [u \in Users |-> 1]
Empty == [u \in Users |-> 0]
=============================================================================
