------------------------------ MODULE Account ------------------------------
(***************************************************************************)
(* What billing promises its customers, one atomic step per settled        *)
(* transaction: traffic is charged once and at the tariff, a wallet        *)
(* without money cuts services off, money brings them back, and only a     *)
(* service that has been cut off for 48 hours is deleted.  Lifecycle       *)
(* implements it with the row locks and the panel calls of the code.       *)
(***************************************************************************)
EXTENDS Tariff

CONSTANTS Users, Services, Owner, Inviter, Price, Percent, Opening, Amounts,
          NoUser, MaxUsed

VARIABLES
    wallet,    \* what a customer has
    metered,   \* MiB charged so far, per service
    state,     \* "active", "cut" (no money) or "deleted"
    cutAt,     \* when a service was cut off
    now        \* in units of 48 hours

vars == <<wallet, metered, state, cutAt, now>>

Mine(u) == {s \in Services : Owner[s] = u}

Init ==
    /\ wallet = Opening
    /\ metered = [s \in Services |-> 0]
    /\ state = [s \in Services |-> "active"]
    /\ cutAt = [s \in Services |-> 0]
    /\ now = 0

(* Some of the services that may be switched are: a panel can refuse.      *)
Switch(services) ==
    LET target == [s \in Services |->
            IF s \in services
            THEN IF state[s] = "active" THEN "cut" ELSE "active"
            ELSE state[s]] IN
    /\ state' = target
    /\ \E t \in [services -> 0..now] :
        cutAt' = [s \in Services |->
            IF s \in services /\ target[s] = "cut" THEN t[s]
            ELSE IF s \in services THEN 0 ELSE cutAt[s]]

SwitchByWallet(u) ==
    IF wallet'[u] <= 0
    THEN \E S \in SUBSET {s \in Mine(u) : state[s] = "active"} : Switch(S)
    ELSE \E S \in SUBSET {s \in Mine(u) : state[s] = "cut"} : Switch(S)

(* The usage of a customer since the last settlement is charged, service   *)
(* by service, the inviter gets a share, and the wallet decides.           *)
Settle(u) ==
    \E mb \in [Mine(u) -> 0..MaxUsed] :
        LET cost == [s \in Mine(u) |-> CostForMb(mb[s], Price[s])]
            share == [s \in Mine(u) |-> Cashback(cost[s], Percent)]
            change == [v \in Users |->
                IF v = u THEN -Total(cost, Mine(u))
                ELSE IF v = Inviter[u] THEN Total(share, Mine(u)) ELSE 0]
        IN  /\ \A s \in Mine(u) : mb[s] > 0 => state[s] # "deleted"
            /\ metered' = [s \in Services |->
                   metered[s] + IF s \in Mine(u) THEN mb[s] ELSE 0]
            /\ wallet' = [v \in Users |-> wallet[v] + change[v]]
            /\ SwitchByWallet(u)
            /\ UNCHANGED now

Deposit(u) ==
    /\ \E a \in Amounts : wallet' = [wallet EXCEPT ![u] = wallet[u] + a]
    /\ \E S \in SUBSET {s \in Mine(u) : state[s] = "cut"} :
        (S # {} => wallet'[u] > 0) /\ Switch(S)
    /\ UNCHANGED <<metered, now>>

(* An admin takes money out, never more than there is.                     *)
Remove(u) ==
    /\ \E a \in Amounts \cup 0..wallet[u] :
        a <= wallet[u] /\ wallet' = [wallet EXCEPT ![u] = wallet[u] - a]
    /\ UNCHANGED <<metered, state, cutAt, now>>

Expire(s) ==
    /\ state[s] = "cut" /\ wallet[Owner[s]] <= 0 /\ cutAt[s] < now
    /\ state' = [state EXCEPT ![s] = "deleted"]
    /\ UNCHANGED <<wallet, metered, cutAt, now>>

Pass == now' = now + 1 /\ UNCHANGED <<wallet, metered, state, cutAt>>

Next ==
    \/ \E u \in Users : Settle(u) \/ Deposit(u) \/ Remove(u)
    \/ \E s \in Services : Expire(s)
    \/ Pass

Spec == Init /\ [][Next]_vars
=============================================================================
