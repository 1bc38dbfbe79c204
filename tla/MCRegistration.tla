--------------------------- MODULE MCRegistration ---------------------------
(* Small instances of Registration for TLC: two people who invite each     *)
(* other, two imports in opposite orders, a payment with Stars.            *)
EXTENDS Registration

Two == {1, 2}
KindOf == <<"start", "import", "import", "stars">>
From == <<1, 2, 2, 2>>
Invited == <<2, 0, 0, 0>>
Lists == <<<<>>, <<1, 2>>, <<2, 1>>, <<>>>>

KindOfFive == Append(KindOf, "menu")
FromFive == Append(From, 2)
InvitedFive == Append(Invited, 0)
ListsFive == Append(Lists, <<>>)
=============================================================================
