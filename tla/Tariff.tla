------------------------------- MODULE Tariff -------------------------------
(***************************************************************************)
(* The integer arithmetic of billing: app/jobs/billing.py charges whole    *)
(* MiB rounded up to a toman, app/services/wallet.py pays a percentage     *)
(* rounded down.                                                           *)
(***************************************************************************)
EXTENDS Integers, FiniteSetsExt

(* billing.py cost_for_mb: a started toman is charged in full (the mutant  *)
(* rounds it down).                                                        *)
CostFloor(mb, price) == (mb * price) \div 1024
CostForMb(mb, price) == (mb * price + 1023) \div 1024

(* wallet.py pay_referral_cashback: the inviter's share, rounded down.     *)
Cashback(spent, percent) ==
    IF spent > 0 /\ percent > 0 THEN (spent * percent) \div 100 ELSE 0

(* The sum of f[s] over the elements of S.                                 *)
Total(f, S) == MapThenSumSet(LAMBDA s : f[s], S)
=============================================================================
