------------------------------ MODULE Purchases ------------------------------
(***************************************************************************)
(* Creation of services: a customer buys a plan or takes the test account. *)
(* Each handler is one transaction: it reads the user, creates the account *)
(* on the panel, inserts the row, takes the creation fee, pays the inviter *)
(* and delivers the link over Telegram, all before the commit.  Billing,   *)
(* top-ups and admins change wallets and blocks between its steps.         *)
(***************************************************************************)
EXTENDS FiniteSets, Tariff

CONSTANTS
    Users, Inviter,            \* ids, positive; [Users -> Users \cup {NoUser}]
    Accounts,                  \* names of panel accounts
    MinBalance, Fee,           \* min_new_service_balance, creation_fee_toman
    Percent,                   \* referral_cashback_percent
    Opening,                   \* [Users -> Int]: wallets before the first step
    Moves,                     \* amounts by which other transactions move wallets
    Buyers,                    \* the handlers
    Free,                      \* the lock of a row nobody holds
    Kinds,                     \* what is requested: "plan", "test"
    Failures, MaxMoves, MaxFailures   \* failures exercised, and bounds

NoUser == 0

ASSUME IdsAssumption ==
    /\ Users \subseteq Nat \ {NoUser}
    /\ Inviter \in [Users -> Users \cup {NoUser}]
    /\ Free \notin Buyers
ASSUME MoneyAssumption ==
    /\ MinBalance \in Nat /\ Fee \in Nat /\ Percent \in Nat
    /\ Opening \in [Users -> Int] /\ Moves \subseteq Int
ASSUME BoundsAssumption ==
    /\ MaxMoves \in Nat /\ MaxFailures \in Nat
    /\ Kinds \subseteq {"plan", "test"}
    /\ Failures \subseteq {"refused", "lost", "crash", "telegram"}

VARIABLES
    wallet, tested, blocked,   \* the users table
    rows,                      \* the services table: a set of rows
    ledger,                    \* wallet_transactions, summed per user and kind
    lock,                      \* who holds the row lock of each user
    sess,                      \* the open transaction of each handler
    accounts,                  \* the names that exist on the panel
    moves, failures            \* so far (bounded)

tables == <<wallet, tested, blocked, rows, ledger>>
bounds == <<moves, failures>>
vars == <<tables, lock, sess, accounts, bounds>>

-----------------------------------------------------------------------------
Row == [name : Accounts, user : Users, test : BOOLEAN]
Entries == {"fee", "cashback", "other"}
NoMoney == [k \in Entries |-> 0]
Session ==
    [at : {"idle", "flag", "create", "fee", "cashback", "deliver", "commit"},
     kind : {"plan", "test"}, user : Users \cup {NoUser},
     flagged : BOOLEAN,                 \* has_test_account was set
     new : SUBSET Row,                  \* the row that was inserted
     txn : [Users -> [Entries -> Int]]]

Idle == [at |-> "idle", kind |-> "plan", user |-> NoUser, flagged |-> FALSE,
         new |-> {}, txn |-> [u \in Users |-> NoMoney]]

Sum(T, u) == T[u]["fee"] + T[u]["cashback"] + T[u]["other"]
Required == IF MinBalance >= Fee THEN MinBalance ELSE Fee
CanLock(p, u) == lock[u] \in {Free, p}
Unlocked(p) == [u \in Users |-> IF lock[u] = p THEN Free ELSE lock[u]]
Become(p, S) == sess' = [sess EXCEPT ![p] = S]
Rollback(p) == Become(p, Idle) /\ lock' = Unlocked(p)
Fails(kind) ==
    /\ kind \in Failures /\ failures < MaxFailures
    /\ failures' = failures + 1

(* WalletService: the UPDATE takes the row lock and leaves a log row.      *)
Move(p, S, u, kind, amount) ==
    /\ CanLock(p, u)
    /\ lock' = [lock EXCEPT ![u] = p]
    /\ Become(p, [S EXCEPT !.txn[u][kind] = S.txn[u][kind] + amount])

-----------------------------------------------------------------------------
(* buy_service_username: the block and the balance are read without a lock *)
AskPlan(p) ==
    /\ sess[p].at = "idle"
    /\ "plan" \in Kinds
    /\ \E u \in Users :
        /\ ~blocked[u] /\ wallet[u] >= Required
        /\ Become(p, [Idle EXCEPT !.at = "create", !.user = u])
    /\ UNCHANGED <<tables, lock, accounts, bounds>>

(* test_account, create_test_service: and so is has_test_account.          *)
AskTest(p) ==
    /\ sess[p].at = "idle"
    /\ "test" \in Kinds
    /\ \E u \in Users :
        /\ ~blocked[u] /\ ~tested[u]
        /\ Become(p, [Idle EXCEPT !.at = "flag", !.kind = "test", !.user = u])
    /\ UNCHANGED <<tables, lock, accounts, bounds>>

(* The next SELECT flushes the flag, whose UPDATE takes the row lock.      *)
Flagged(S) == [S EXCEPT !.at = "create", !.flagged = TRUE]
Flag(p) ==
    LET S == sess[p] IN
    /\ S.at = "flag"
    /\ CanLock(p, S.user)
    /\ lock' = [lock EXCEPT ![S.user] = p]
    /\ Become(p, Flagged(S))
    /\ UNCHANGED <<tables, accounts, bounds>>

(* VpnServiceManager._create: the account, its link, then the row (one     *)
(* mutant forgets to add the row, the other does not notice an error).     *)
AfterCreation(S) == IF S.kind = "test" THEN "deliver" ELSE "fee"
NotInserted(S, name) == [S EXCEPT !.at = AfterCreation(S)]
Inserted(S, name) ==
    [S EXCEPT !.at = AfterCreation(S),
              !.new = {[name |-> name, user |-> S.user, test |-> S.kind = "test"]}]
Unnoticed(S, name) == Inserted(S, name)
GivenUp(S, name) == [S EXCEPT !.at = "deliver"]

(* The panel refuses a name it knows.  After an error a purchase leaves    *)
(* nothing to commit, but the flag of a test account is committed.         *)
CreateAccount(p) ==
    LET S == sess[p] IN
    /\ S.at = "create"
    /\ \E name \in Accounts :
        \/ /\ name \notin accounts
           /\ accounts' = accounts \cup {name}
           /\ Become(p, Inserted(S, name))
           /\ UNCHANGED failures
        \/ /\ \/ name \in accounts /\ UNCHANGED <<accounts, failures>>
              \/ Fails("refused") /\ UNCHANGED accounts
              \/ /\ name \notin accounts /\ accounts' = accounts \cup {name}
                 /\ Fails("lost")
           /\ Become(p, GivenUp(S, name))
    /\ UNCHANGED <<tables, lock, moves>>

(* _charge_creation_fee: a wallet that no longer covers the fee is left    *)
(* alone, and nobody looks at the result (the mutant has no WHERE clause). *)
AlwaysCovers(u) == TRUE
Covers(u) == wallet[u] >= Fee
ChargeFee(p) ==
    LET S == sess[p] IN
    /\ S.at = "fee"
    /\ CanLock(p, S.user)
    /\ IF Fee > 0 /\ Covers(S.user)
       THEN Move(p, [S EXCEPT !.at = "cashback"], S.user, "fee", -Fee)
       ELSE Become(p, [S EXCEPT !.at = "cashback"]) /\ UNCHANGED lock
    /\ UNCHANGED <<tables, accounts, bounds>>

PayInviter(p) ==
    LET S == sess[p]
        T == [S EXCEPT !.at = "deliver"]
        cash == Cashback(Fee, Percent) IN
    /\ S.at = "cashback"
    /\ IF Inviter[S.user] # NoUser /\ cash > 0
       THEN Move(p, T, Inviter[S.user], "cashback", cash)
       ELSE Become(p, T) /\ UNCHANGED lock
    /\ UNCHANGED <<tables, accounts, bounds>>

(* The answer, with the link or with the error.  If Telegram fails, the    *)
(* handler is rolled back, but the panel is not.                           *)
Deliver(p) ==
    /\ sess[p].at = "deliver"
    /\ \/ Become(p, [sess[p] EXCEPT !.at = "commit"]) /\ UNCHANGED <<lock, failures>>
       \/ Fails("telegram") /\ Rollback(p)
    /\ UNCHANGED <<tables, accounts, moves>>

Commit(p) ==
    LET S == sess[p] IN
    /\ S.at = "commit"
    /\ rows' = rows \cup S.new
    /\ tested' = [u \in Users |-> tested[u] \/ (u = S.user /\ S.flagged)]
    /\ wallet' = [u \in Users |-> wallet[u] + Sum(S.txn, u)]
    /\ ledger' = [u \in Users |-> [k \in Entries |-> ledger[u][k] + S.txn[u][k]]]
    /\ Rollback(p)
    /\ UNCHANGED <<blocked, accounts, bounds>>

Abort(p) ==
    /\ sess[p].at # "idle"
    /\ Fails("crash")
    /\ Rollback(p)
    /\ UNCHANGED <<tables, accounts, moves>>

(* Billing, a top-up or an admin commits a change of a wallet.             *)
Elsewhere(u) ==
    /\ lock[u] = Free
    /\ moves < MaxMoves /\ moves' = moves + 1
    /\ \E a \in Moves :
        /\ wallet' = [wallet EXCEPT ![u] = wallet[u] + a]
        /\ ledger' = [ledger EXCEPT ![u]["other"] = ledger[u]["other"] + a]
    /\ UNCHANGED <<tested, blocked, rows, lock, sess, accounts, failures>>

(* admin_block_user, admin_unblock_user *)
Block(u) ==
    /\ lock[u] = Free
    /\ moves < MaxMoves /\ moves' = moves + 1
    /\ blocked' = [blocked EXCEPT ![u] = ~blocked[u]]
    /\ UNCHANGED <<wallet, tested, rows, ledger, lock, sess, accounts, failures>>

-----------------------------------------------------------------------------
Init ==
    /\ wallet = Opening
    /\ tested = [u \in Users |-> FALSE] /\ blocked = [u \in Users |-> FALSE]
    /\ rows = {}
    /\ ledger = [u \in Users |-> NoMoney]
    /\ lock = [u \in Users |-> Free]
    /\ sess = [p \in Buyers |-> Idle]
    /\ accounts = {}
    /\ moves = 0 /\ failures = 0

Step(p) ==
    \/ AskPlan(p) \/ AskTest(p) \/ Flag(p) \/ CreateAccount(p)
    \/ ChargeFee(p) \/ PayInviter(p) \/ Deliver(p) \/ Commit(p)

Next ==
    \/ \E p \in Buyers : Step(p) \/ Abort(p)
    \/ \E u \in Users : Elsewhere(u) \/ Block(u)

Spec == Init /\ [][Next]_vars
-----------------------------------------------------------------------------
(* Properties *)

Bought(u) == {r \in rows : r.user = u /\ ~r.test}
Tests(u) == {r \in rows : r.user = u /\ r.test}
Recorded(name, services) == \E r \in services : r.name = name

(* The tables, the locks and the open transactions keep their shape.       *)
TypeOK ==
    /\ wallet \in [Users -> Int]
    /\ tested \in [Users -> BOOLEAN] /\ blocked \in [Users -> BOOLEAN]
    /\ rows \subseteq Row
    /\ ledger \in [Users -> [Entries -> Int]]
    /\ lock \in [Users -> Buyers \cup {Free}]
    /\ sess \in [Buyers -> Session]
    /\ \A p \in Buyers : sess[p].at # "idle" => sess[p].user \in Users
    /\ accounts \subseteq Accounts
    /\ moves \in Nat /\ failures \in Nat

(* A service in the table has its account on the panel, and no two         *)
(* services share one: a purchase that failed is not sold.                 *)
RowsHaveAccounts ==
    \A r \in rows :
        r.name \in accounts /\ \A q \in rows : q.name = r.name => q = r

(* Nobody pays a creation fee for a service that is not in the table.      *)
FeesAreForServices ==
    \A u \in Users : -ledger[u]["fee"] <= Fee * Cardinality(Bought(u))

(* The fee never takes a wallet below zero, although the balance was       *)
(* checked long before and other transactions moved it meanwhile.          *)
FeeNeverOverdraws ==
    [][\A u \in Users :
        ledger'[u]["fee"] < ledger[u]["fee"] => wallet'[u] >= 0]_vars

(* As long as nothing has failed, every account on the panel belongs to a  *)
(* service of the table or of a handler that is still at work.             *)
NoStrayAccounts ==
    failures = 0 =>
        \A name \in accounts :
            \/ Recorded(name, rows)
            \/ \E p \in Buyers : Recorded(name, sess[p].new)

(* "one-time 100MB/1 day test account" (README).                           *)
OneTestAccount == \A u \in Users : Cardinality(Tests(u)) <= 1

(* "50,000 Toman minimum only for new paid service creation" (README): a   *)
(* new service belongs to a customer who has the minimum.                  *)
MinimumForNewService ==
    [][\A u \in Users :
        Bought(u)' # Bought(u) => wallet[u] >= MinBalance]_vars
=============================================================================
