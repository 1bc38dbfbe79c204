----------------------------- MODULE Lifecycle -----------------------------
(***************************************************************************)
(* Wallets, services and the panel: the billing job, the top-ups, the      *)
(* cleanup job and the buttons that enable, disable and delete services,   *)
(* run as interleaved database transactions around calls to the panel.     *)
(*                                                                         *)
(* A transaction is a session record: the attributes it loaded (base),     *)
(* the attributes it has now (orm), its uncommitted wallet versions and    *)
(* log rows.  lock is the row lock on users (FOR UPDATE, or the lock an    *)
(* UPDATE takes until commit).  A commit writes only the attributes that   *)
(* differ from the ones loaded, as SQLAlchemy's unit of work does.  A      *)
(* panel call takes effect at once and is not undone by a rollback.        *)
(***************************************************************************)
EXTENDS FiniteSets, Tariff

CONSTANTS
    Users, Services,          \* ids, positive integers
    Owner,                    \* [Services -> Users]
    Inviter,                  \* [Users -> Users \cup {NoUser}]: referred_by_id
    Price,                    \* [Services -> Nat]: toman per GiB
    Percent,                  \* referral_cashback_percent
    Opening,                  \* [Users -> Int]: wallets before the first step
    Syncs, Cashiers, Cleaners, Desks,   \* the sessions of each kind
    Free,                     \* the lock of a row nobody holds
    Requests,                 \* the desk operations that are exercised
    Amounts,                  \* toman a top-up or a removal names
    Failures,                 \* the failures that are exercised
    MaxUsed, MaxClock, MaxOrders, MaxFailures   \* bounds of the exploration

NoUser == 0
NoTime == -1                  \* disabled_at IS NULL
Procs == Syncs \cup Cashiers \cup Cleaners \cup Desks
Kinds == {"traffic", "other"}

ASSUME IdsAssumption ==
    /\ Users \subseteq Nat \ {NoUser}
    /\ Services \subseteq Nat /\ IsFiniteSet(Services)
    /\ Owner \in [Services -> Users]
    /\ Inviter \in [Users -> Users \cup {NoUser}]
    /\ \A u \in Users : Inviter[u] # u     \* Registration: InviterIsOlder
ASSUME MoneyAssumption ==
    /\ Price \in [Services -> Nat]
    /\ Percent \in Nat
    /\ Opening \in [Users -> Int]
    /\ Amounts \subseteq Nat \ {0}
ASSUME SessionsAssumption ==
    /\ Free \notin Procs
    /\ Syncs \cap (Cashiers \cup Cleaners \cup Desks) = {}
    /\ Cashiers \cap (Cleaners \cup Desks) = {}
    /\ Cleaners \cap Desks = {}
ASSUME BoundsAssumption ==
    /\ MaxUsed \in Nat /\ MaxClock \in Nat /\ MaxOrders \in Nat
    /\ MaxFailures \in Nat
    /\ Failures \subseteq {"refused", "lost", "crash", "telegram", "reset"}

VARIABLES
    wallet, blocked,   \* users: wallet_balance_toman, is_blocked
    svc,               \* services: the row of each service
    ledger,            \* wallet_transactions, summed per user and kind
    usage,             \* traffic_usage_logs, summed per service
    lock,              \* who holds the row lock of each user
    sess,              \* the open session of each process
    acct, used,        \* the panel: accounts and their MiB counters
    clock,             \* time in units of 48 hours
    orders, failures   \* requests and failures so far (bounded)

tables == <<wallet, blocked, svc, ledger, usage>>
panel == <<acct, used>>
bounds == <<orders, failures>>
vars == <<tables, lock, sess, panel, clock, bounds>>

-----------------------------------------------------------------------------
(* Rows *)

Statuses == {"active", "disabled", "deleted"}
Row == [status : Statuses, reason : {"none", "wallet", "manual"},
        since : Int, mb : Nat, billed : Nat]

NewRow == [status |-> "active", reason |-> "none", since |-> NoTime,
           mb |-> 0, billed |-> 0]
Active(r) == r.status = "active"
OutOfMoney(r) == r.status = "disabled" /\ r.reason = "wallet"
ActiveOnly(r) == Active(r)                  \* mutant: forgets failed reactivations
Eligible(r) == Active(r) \/ OutOfMoney(r)
Stale(r, cutoff) == OutOfMoney(r) /\ r.since # NoTime /\ r.since <= cutoff

Enabled(r) == [r EXCEPT !.status = "active", !.reason = "none", !.since = NoTime]
Disabled(r, why) == [r EXCEPT !.status = "disabled", !.reason = why, !.since = clock]
Deleted(r) == [r EXCEPT !.status = "deleted"]

(* UPDATE of the attributes that changed since they were loaded (the       *)
(* mutant saves the whole row).                                            *)
FlushRow(b, o, c) == IF o # b THEN o ELSE c
Keep(loaded, mine, current) == IF mine # loaded THEN mine ELSE current
Flush(b, o, c) ==
    [status |-> Keep(b.status, o.status, c.status),
     reason |-> Keep(b.reason, o.reason, c.reason),
     since  |-> Keep(b.since, o.since, c.since),
     mb     |-> Keep(b.mb, o.mb, c.mb),
     billed |-> Keep(b.billed, o.billed, c.billed)]

Owned(u) == {s \in Services : Owner[s] = u}
First(S) == {x \in S : \A y \in S : x <= y}      \* ORDER BY id

-----------------------------------------------------------------------------
(* Sessions *)

Operations == {"reactivate", "reenable", "disable", "delete", "delete_all",
               "block", "unblock", "debit"}
Phases == {"idle", "next", "meter", "cut", "restore", "expire", "credit",
           "call", "block", "unblock", "debit", "commit"}

NoEntry == [mb |-> 0, cost |-> 0, rows |-> 0]
NoMoney == [k \in Kinds |-> 0]
Entry == [mb : Nat, cost : Nat, rows : Nat]
Session ==
    [at : Phases, op : Operations \cup {"none"},
     queue : SUBSET Users,           \* users a sync has still to settle
     due : SUBSET Services,          \* candidates a cleanup has still to check
     cutoff : Int,
     user : Users \cup {NoUser}, blk : BOOLEAN, bal : [Users -> Int],
     touched : SUBSET Users,         \* wallets updated and not yet committed
     txn : [Users -> [Kinds -> Int]],
     mark : {"none", "block", "unblock"},
     seen : SUBSET Services, base : [Services -> Row], orm : [Services -> Row],
     todo : SUBSET Services,         \* services the current loop has left
     failed : BOOLEAN, log : [Services -> Entry],
     amount : Int]

Idle ==
    [at |-> "idle", op |-> "none", queue |-> {}, due |-> {}, cutoff |-> 0,
     user |-> NoUser, blk |-> FALSE, bal |-> [u \in Users |-> 0],
     touched |-> {}, txn |-> [u \in Users |-> NoMoney], mark |-> "none",
     seen |-> {}, base |-> [s \in Services |-> NewRow],
     orm |-> [s \in Services |-> NewRow], todo |-> {}, failed |-> FALSE,
     log |-> [s \in Services |-> NoEntry], amount |-> 0]

(* session.get / SELECT: rows already in the identity map keep their       *)
(* attributes, the others are loaded from the committed table.             *)
LoadUser(S, u) ==
    [S EXCEPT !.user = u, !.blk = blocked[u], !.bal[u] = wallet[u]]
LoadRows(S, rows) ==
    [S EXCEPT !.seen = S.seen \cup rows,
              !.base = [s \in Services |->
                  IF s \in rows \ S.seen THEN svc[s] ELSE S.base[s]],
              !.orm = [s \in Services |->
                  IF s \in rows \ S.seen THEN svc[s] ELSE S.orm[s]]]

(* The wallet an UPDATE of this transaction finds: its own version, or the *)
(* last committed one.                                                     *)
Current(S, u) == IF u \in S.touched THEN S.bal[u] ELSE wallet[u]

(* WalletService.add and deduct: an atomic UPDATE ... RETURNING and the    *)
(* WalletTransaction row that records it (the mutant adds to the balance   *)
(* that was loaded, as assigning the attribute would).                     *)
MoveLoaded(S, u, kind, amount) ==
    [S EXCEPT !.bal[u] = S.bal[u] + amount,
              !.touched = S.touched \cup {u},
              !.txn[u][kind] = S.txn[u][kind] + amount]
Move(S, u, kind, amount) ==
    [S EXCEPT !.bal[u] = Current(S, u) + amount,
              !.touched = S.touched \cup {u},
              !.txn[u][kind] = S.txn[u][kind] + amount]

(* The next state of the loop whose body has dealt with s.                 *)
Left(S, s) ==
    [S EXCEPT !.todo = S.todo \ {s},
              !.at = IF S.todo \ {s} = {} THEN "commit" ELSE S.at]
Loop(S, phase, rows) ==
    [LoadRows(S, rows) EXCEPT !.todo = rows,
                              !.at = IF rows = {} THEN "commit" ELSE phase]

(* A finished transaction: the job goes on with its next item.             *)
After(S) ==
    [Idle EXCEPT !.at = IF S.queue = {} /\ S.due = {} THEN "idle" ELSE "next",
                 !.queue = S.queue, !.due = S.due,
                 !.cutoff = IF S.due = {} THEN 0 ELSE S.cutoff]

(* FOR UPDATE, or an UPDATE, waits for the row (the mutant does not).      *)
DoNotWait(p, u) == TRUE
CanLock(p, u) == lock[u] \in {Free, p}
Unlocked(p) == [u \in Users |-> IF lock[u] = p THEN Free ELSE lock[u]]
Become(p, S) == sess' = [sess EXCEPT ![p] = S]

Fails(kind) ==
    /\ kind \in Failures /\ failures < MaxFailures
    /\ failures' = failures + 1

(* One panel request on the account of s.  "refused": it had no effect and *)
(* an error was raised; "lost": it took effect and the answer did not      *)
(* arrive, so an error was raised too.                                     *)
PanelOk(s, state) ==
    /\ acct[s] # "gone"
    /\ acct' = [acct EXCEPT ![s] = state]
    /\ UNCHANGED failures
PanelRefused(s) ==
    /\ UNCHANGED acct
    /\ \/ acct[s] = "gone" /\ UNCHANGED failures
       \/ acct[s] # "gone" /\ Fails("refused")
PanelLost(s, state) ==
    /\ acct[s] # "gone"
    /\ acct' = [acct EXCEPT ![s] = state]
    /\ Fails("lost")
PanelError(s, state) == PanelRefused(s) \/ PanelLost(s, state)

-----------------------------------------------------------------------------
(* The billing job: sync_traffic_usage *)

SyncStart(p) ==
    LET billable == {u \in Users : \E s \in Owned(u) : Eligible(svc[s])} IN
    /\ sess[p].at = "idle"
    /\ billable # {}
    /\ Become(p, [Idle EXCEPT !.at = "next", !.queue = billable])
    /\ UNCHANGED <<tables, lock, panel, clock, bounds>>

(* A wallet without money.                                                 *)
Broke(S) == S.bal[S.user] <= 0

(* SELECT ... FOR UPDATE of the next user, then of the eligible services.  *)
SyncLock(p) ==
    LET S == sess[p] IN
    /\ S.at = "next"
    /\ \E u \in First(S.queue) :
        LET rows == {s \in Owned(u) : Eligible(svc[s])}
            T == LoadRows(LoadUser(S, u), rows) IN
        /\ CanLock(p, u)
        /\ lock' = [lock EXCEPT ![u] = p]
        /\ Become(p, [T EXCEPT !.at = "meter", !.todo = rows,
                               !.queue = S.queue \ {u}])
    /\ UNCHANGED <<tables, panel, clock, bounds>>

Metered(p, S) ==
    /\ Become(p, S)
    /\ UNCHANGED <<tables, acct, used, clock, orders>>

(* The counter cannot be read, or has moved backwards.                     *)
MeterError(p) ==
    LET S == sess[p] IN
    /\ S.at = "meter"
    /\ \E s \in First(S.todo) :
        /\ \/ PanelRefused(s)
           \/ /\ acct[s] # "gone" /\ used[s] < S.orm[s].mb
              /\ UNCHANGED <<acct, failures>>
        /\ Metered(p, [S EXCEPT !.todo = S.todo \ {s}, !.failed = TRUE])
    /\ UNCHANGED lock

MeterIdle(p) ==
    LET S == sess[p] IN
    /\ S.at = "meter"
    /\ \E s \in First(S.todo) :
        /\ acct[s] # "gone" /\ used[s] = S.orm[s].mb
        /\ Metered(p, [S EXCEPT !.todo = S.todo \ {s}])
    /\ UNCHANGED <<lock, failures>>

(* The counter has moved on since the reading the session loaded (the      *)
(* mutant takes any other value for progress).                             *)
Moved(S, s) == used[s] # S.orm[s].mb
Grown(S, s) == used[s] > S.orm[s].mb

(* The session after the usage since the last reading has been charged     *)
(* (the mutant deducts without allow_negative, which fails silently).      *)
ChargedIfCovered(S, s) ==
    LET delta == used[s] - S.orm[s].mb
        cost == CostForMb(delta, Price[s])
        T == IF cost > 0 /\ cost <= S.bal[S.user]
             THEN Move(S, S.user, "traffic", -cost) ELSE S
    IN  [T EXCEPT !.todo = S.todo \ {s},
                  !.orm[s] = [S.orm[s] EXCEPT !.mb = used[s],
                                              !.billed = S.orm[s].billed + delta],
                  !.log[s] = [mb |-> delta, cost |-> cost, rows |-> 1]]
Charged(S, s) ==
    LET delta == used[s] - S.orm[s].mb
        cost == CostForMb(delta, Price[s])
        T == IF cost > 0 THEN Move(S, S.user, "traffic", -cost) ELSE S
    IN  [T EXCEPT !.todo = S.todo \ {s},
                  !.orm[s] = [S.orm[s] EXCEPT !.mb = used[s],
                                              !.billed = S.orm[s].billed + delta],
                  !.log[s] = [mb |-> delta, cost |-> cost, rows |-> 1]]

MeterCharge(p) ==
    LET S == sess[p] IN
    /\ S.at = "meter"
    /\ \E s \in First(S.todo) :
        LET T == Charged(S, s)
            cash == Cashback(T.log[s].cost, Percent)
            inviter == Inviter[S.user] IN
        /\ acct[s] # "gone" /\ Grown(S, s)
        /\ IF cash > 0 /\ inviter # NoUser
           THEN /\ CanLock(p, inviter)
                /\ lock' = [lock EXCEPT ![inviter] = p]
                /\ Metered(p, Move(T, inviter, "other", cash))
           ELSE Metered(p, T) /\ UNCHANGED lock
    /\ UNCHANGED failures

(* Every service is settled: enforce the balance, or retry a reactivation. *)
Decide(p) ==
    LET S == sess[p]
        retry == ~Broke(S) /\ ~S.failed /\ ~S.blk IN
    /\ S.at = "meter" /\ S.todo = {}
    /\ Become(p,
         IF Broke(S) THEN Loop(S, "cut", {s \in Owned(S.user) : Active(svc[s])})
         ELSE IF retry
         THEN Loop(S, "restore", {s \in Owned(S.user) : OutOfMoney(svc[s])})
         ELSE [S EXCEPT !.at = "commit"])
    /\ UNCHANGED <<tables, lock, panel, clock, bounds>>

(* service_lifecycle.py: one account of the loop; an error leaves its row. *)
SwitchAccount(p, phase, state, Edit(_)) ==
    LET S == sess[p] IN
    /\ S.at = phase
    /\ \E s \in S.todo :
        \/ PanelOk(s, state)
           /\ Become(p, [Left(S, s) EXCEPT !.orm[s] = Edit(S.orm[s])])
        \/ PanelError(s, state) /\ Become(p, Left(S, s))
    /\ UNCHANGED <<tables, lock, used, clock, orders>>

(* The mutant marks the row before it knows whether the panel obeyed.      *)
CutUnconfirmed(p) ==
    LET S == sess[p] IN
    /\ S.at = "cut"
    /\ \E s \in S.todo :
        /\ PanelOk(s, "off") \/ PanelError(s, "off")
        /\ Become(p, [Left(S, s) EXCEPT !.orm[s] = Disabled(S.orm[s], "wallet")])
    /\ UNCHANGED <<tables, lock, used, clock, orders>>
Cut(p) == LET ByWallet(r) == Disabled(r, "wallet")
          IN  SwitchAccount(p, "cut", "off", ByWallet)
Restore(p) == SwitchAccount(p, "restore", "on", Enabled)

-----------------------------------------------------------------------------
(* Top-ups: PaymentService.approve, stars_paid, add_balance and the admin  *)
(* wallet form all read the user, credit it and reactivate.                *)

TopUpBegin(p) ==
    /\ sess[p].at = "idle"
    /\ orders < MaxOrders /\ orders' = orders + 1
    /\ \E u \in Users, a \in Amounts :
        Become(p, [LoadUser(Idle, u) EXCEPT !.at = "credit", !.amount = a])
    /\ UNCHANGED <<tables, lock, panel, clock, failures>>

TopUpCredit(p) ==
    LET S == sess[p]
        T == Move(S, S.user, "other", S.amount) IN
    /\ S.at = "credit"
    /\ CanLock(p, S.user)
    /\ lock' = [lock EXCEPT ![S.user] = p]
    /\ Become(p,
         IF ~Broke(T) /\ ~S.blk
         THEN Loop(T, "restore", {s \in Owned(S.user) : OutOfMoney(svc[s])})
         ELSE [T EXCEPT !.at = "commit"])
    /\ UNCHANGED <<tables, panel, clock, bounds>>

-----------------------------------------------------------------------------
(* The cleanup job: delete_stale_disabled_services *)

CleanStart(p) ==
    LET stale == {s \in Services : Stale(svc[s], clock - 1)} IN
    /\ sess[p].at = "idle"
    /\ stale # {}
    /\ Become(p, [Idle EXCEPT !.at = "next", !.due = stale, !.cutoff = clock - 1])
    /\ UNCHANGED <<tables, lock, panel, clock, bounds>>

CleanCheck(p) ==
    LET S == sess[p] IN
    /\ S.at = "next"
    /\ \E s \in S.due :
        LET u == Owner[s]
            T == [LoadRows(LoadUser(S, u), {s}) EXCEPT !.due = S.due \ {s}] IN
        /\ CanLock(p, u)
        /\ IF wallet[u] <= 0 /\ Stale(svc[s], S.cutoff)
           THEN /\ lock' = [lock EXCEPT ![u] = p]
                /\ Become(p, [T EXCEPT !.at = "expire", !.todo = {s}])
           ELSE Become(p, After(T)) /\ UNCHANGED lock
    /\ UNCHANGED <<tables, panel, clock, bounds>>

Expire(p) ==
    LET S == sess[p] IN
    /\ S.at = "expire"
    /\ \E s \in S.todo :
        \/ /\ PanelOk(s, "gone")
           /\ Become(p, [Left(S, s) EXCEPT !.orm[s] = Deleted(S.orm[s])])
           /\ UNCHANGED lock
        \/ /\ PanelError(s, "gone")
           /\ Become(p, After(S)) /\ lock' = Unlocked(p)
    /\ UNCHANGED <<tables, used, clock, orders>>

-----------------------------------------------------------------------------
(* The buttons of users and admins: handlers without a lock on the user *)

Ask(p, op, S) ==
    /\ op \in Requests
    /\ sess[p].at = "idle"
    /\ orders < MaxOrders /\ orders' = orders + 1
    /\ Become(p, [S EXCEPT !.op = op])
    /\ UNCHANGED <<tables, lock, panel, clock, failures>>

(* svc_reactivate, admin_svc_reactivate, admin_svc_disable, svc_delete and *)
(* admin_svc_delete: only the customer's own button checks anything.       *)
AskService(p) ==
    \E s \in Services, op \in {"reactivate", "reenable", "disable", "delete"} :
        /\ op = "reactivate" =>
             /\ OutOfMoney(svc[s])
             /\ ~blocked[Owner[s]] /\ wallet[Owner[s]] > 0
        /\ Ask(p, op, Loop(LoadUser(Idle, Owner[s]), "call", {s}))

(* admin_user_delete_services *)
AskDeleteAll(p) ==
    \E u \in Users :
        Ask(p, "delete_all", Loop(LoadUser(Idle, u), "call",
            {s \in Owned(u) : svc[s].status # "deleted"}))

(* admin_user_block, admin_user_unblock: the row is read first.            *)
AskBlocking(p) ==
    \E u \in Users, op \in {"block", "unblock"} :
        Ask(p, op, [LoadUser(Idle, u) EXCEPT !.at = op])

(* The flush of is_blocked takes the row lock; nothing is written when the *)
(* attribute already had that value.  block then disables the services.    *)
SetBlocked(p) ==
    LET S == sess[p]
        changes == S.blk # (S.at = "block")
        T == IF changes THEN [S EXCEPT !.mark = S.at] ELSE S IN
    /\ S.at \in {"block", "unblock"}
    /\ IF changes
       THEN CanLock(p, S.user) /\ lock' = [lock EXCEPT ![S.user] = p]
       ELSE UNCHANGED lock
    /\ Become(p, IF S.at = "block"
                 THEN Loop(T, "call", {s \in Owned(S.user) : Active(svc[s])})
                 ELSE [T EXCEPT !.at = "commit"])
    /\ UNCHANGED <<tables, panel, clock, bounds>>

Wanted(op) ==
    IF op \in {"reactivate", "reenable"} THEN "on"
    ELSE IF op \in {"disable", "block"} THEN "off" ELSE "gone"
Edited(op, r) ==
    IF Wanted(op) = "on" THEN Enabled(r)
    ELSE IF Wanted(op) = "off" THEN Disabled(r, "manual") ELSE Deleted(r)

(* VpnServiceManager.reenable, disable, delete.  The loops swallow an      *)
(* error and go on; a single operation lets it roll the handler back.      *)
Call(p) ==
    LET S == sess[p] IN
    /\ S.at = "call"
    /\ \E s \in S.todo :
        \/ /\ PanelOk(s, Wanted(S.op))
           /\ Become(p, [Left(S, s) EXCEPT !.orm[s] = Edited(S.op, S.orm[s])])
        \/ /\ PanelError(s, Wanted(S.op))
           /\ Become(p, IF S.op \in {"block", "delete_all"}
                        THEN Left(S, s) ELSE After(S))
    /\ UNCHANGED <<tables, lock, used, clock, orders>>

(* remove_balance and the admin wallet form: the amount is capped by the   *)
(* balance that was read, the UPDATE by the balance it finds.              *)
AskDebit(p) ==
    \E u \in Users, a \in Amounts :
        LET capped == IF wallet[u] < a THEN wallet[u] ELSE a IN
        Ask(p, "debit", [LoadUser(Idle, u) EXCEPT !.at = "debit", !.amount = capped])

(* UPDATE ... WHERE wallet_balance_toman >= amount (the mutant has no      *)
(* WHERE clause).                                                          *)
AlwaysCovers(u, amount) == TRUE
Covers(u, amount) == wallet[u] >= amount

Debit(p) ==
    LET S == sess[p] IN
    /\ S.at = "debit"
    /\ CanLock(p, S.user)
    /\ IF S.amount < 0
       THEN Become(p, After(S)) /\ UNCHANGED lock
       ELSE IF S.amount = 0 \/ ~Covers(S.user, S.amount)
       THEN Become(p, [S EXCEPT !.at = "commit"]) /\ UNCHANGED lock
       ELSE /\ Become(p, [Move(S, S.user, "other", -S.amount) EXCEPT !.at = "commit"])
            /\ lock' = [lock EXCEPT ![S.user] = p]
    /\ UNCHANGED <<tables, panel, clock, bounds>>

-----------------------------------------------------------------------------
(* The end of a transaction *)

Commit(p) ==
    LET S == sess[p] IN
    /\ S.at = "commit"
    /\ svc' = [s \in Services |-> Flush(S.base[s], S.orm[s], svc[s])]
    /\ wallet' = [u \in Users |-> Current(S, u)]
    /\ ledger' = [u \in Users |-> [k \in Kinds |-> ledger[u][k] + S.txn[u][k]]]
    /\ usage' = [s \in Services |->
                    [mb |-> usage[s].mb + S.log[s].mb,
                     cost |-> usage[s].cost + S.log[s].cost,
                     rows |-> usage[s].rows + S.log[s].rows]]
    /\ blocked' = [u \in Users |-> IF u = S.user /\ S.mark # "none"
                                   THEN S.mark = "block" ELSE blocked[u]]
    /\ lock' = Unlocked(p)
    /\ Become(p, After(S))
    /\ UNCHANGED <<panel, clock, bounds>>

(* An exception nobody handles rolls back; a crash also loses the queue.   *)
Abort(p) ==
    /\ sess[p].at \notin {"idle", "next"}
    /\ Fails("crash")
    /\ lock' = Unlocked(p)
    /\ Become(p, After(sess[p])) \/ Become(p, Idle)
    /\ UNCHANGED <<tables, panel, clock, orders>>

(* A button's answer to Telegram is sent before the middleware commits: if *)
(* it cannot be delivered, the handler raises and is rolled back.          *)
Undelivered(p) ==
    /\ sess[p].at = "commit"
    /\ Fails("telegram")
    /\ lock' = Unlocked(p)
    /\ Become(p, Idle)
    /\ UNCHANGED <<tables, panel, clock, orders>>

-----------------------------------------------------------------------------
(* The panel and the clock *)

Use(s) ==
    /\ acct[s] = "on" /\ used[s] < MaxUsed
    /\ used' = [used EXCEPT ![s] = used[s] + 1]
    /\ UNCHANGED <<tables, lock, sess, acct, clock, bounds>>

(* An operator resets the counter on the panel.                            *)
Reset(s) ==
    /\ acct[s] # "gone" /\ used[s] > 0
    /\ Fails("reset")
    /\ used' = [used EXCEPT ![s] = 0]
    /\ UNCHANGED <<tables, lock, sess, acct, clock, orders>>

Tick ==
    /\ clock < MaxClock
    /\ clock' = clock + 1
    /\ UNCHANGED <<tables, lock, sess, panel, bounds>>

-----------------------------------------------------------------------------
Init ==
    /\ wallet = Opening
    /\ blocked = [u \in Users |-> FALSE]
    /\ svc = [s \in Services |-> NewRow]
    /\ ledger = [u \in Users |-> NoMoney]
    /\ usage = [s \in Services |-> NoEntry]
    /\ lock = [u \in Users |-> Free]
    /\ sess = [p \in Procs |-> Idle]
    /\ acct = [s \in Services |-> "on"]
    /\ used = [s \in Services |-> 0]
    /\ clock = 0
    /\ orders = 0 /\ failures = 0

SyncStep(p) ==
    \/ SyncStart(p) \/ SyncLock(p)
    \/ MeterError(p) \/ MeterIdle(p) \/ MeterCharge(p)
    \/ Decide(p) \/ Cut(p) \/ Restore(p) \/ Commit(p)
TopUpStep(p) == TopUpCredit(p) \/ Restore(p) \/ Commit(p)
CleanStep(p) == CleanStart(p) \/ CleanCheck(p) \/ Expire(p) \/ Commit(p)
DeskStep(p) == SetBlocked(p) \/ Call(p) \/ Debit(p) \/ Commit(p)
DeskAsk(p) == AskService(p) \/ AskDeleteAll(p) \/ AskBlocking(p) \/ AskDebit(p)

Next ==
    \/ \E p \in Syncs : SyncStep(p)
    \/ \E p \in Cashiers : TopUpBegin(p) \/ TopUpStep(p)
    \/ \E p \in Cleaners : CleanStep(p)
    \/ \E p \in Desks : DeskAsk(p) \/ DeskStep(p) \/ Undelivered(p)
    \/ \E p \in Procs : Abort(p)
    \/ \E s \in Services : Use(s) \/ Reset(s)
    \/ Tick

Spec == Init /\ [][Next]_vars

(* The scheduler keeps starting the jobs and a started handler runs on;    *)
(* nothing obliges customers, admins, the clock or a failure.              *)
Fairness ==
    /\ \A p \in Syncs : WF_vars(SyncStep(p))
    /\ \A p \in Cashiers : WF_vars(TopUpStep(p))
    /\ \A p \in Cleaners : WF_vars(CleanStep(p))
    /\ \A p \in Desks : WF_vars(DeskStep(p))
FairSpec == Spec /\ Fairness
-----------------------------------------------------------------------------
(* Properties *)

(* Every table, lock, session and panel record keeps its shape: in         *)
(* particular a recorded counter is never negative.                        *)
TypeOK ==
    /\ wallet \in [Users -> Int]
    /\ blocked \in [Users -> BOOLEAN]
    /\ svc \in [Services -> Row]
    /\ ledger \in [Users -> [Kinds -> Int]]
    /\ usage \in [Services -> Entry]
    /\ lock \in [Users -> Procs \cup {Free}]
    /\ sess \in [Procs -> Session]
    /\ acct \in [Services -> {"on", "off", "gone"}]
    /\ used \in [Services -> Nat]
    /\ clock \in Nat /\ orders \in Nat /\ failures \in Nat

(* The stored balance is the opening balance plus the wallet transactions, *)
(* whatever deposits, charges, cashbacks and removals overlap or fail.     *)
WalletIsLedger ==
    \A u \in Users :
        wallet[u] = Opening[u] + ledger[u]["traffic"] + ledger[u]["other"]

(* "concurrent syncs must not charge twice" (billing.py): the usage logs   *)
(* of a service add up to the counter billing has reached, and to its      *)
(* total_billed_mb: no interval is charged twice and none is skipped.      *)
MeteredOnce ==
    \A s \in Services :
        usage[s].mb = svc[s].mb /\ usage[s].mb = svc[s].billed

(* What the services of a user were charged according to the usage logs is *)
(* what the wallet transactions took for traffic.                          *)
ChargesAreLogged ==
    \A u \in Users :
        ledger[u]["traffic"] + Total([s \in Services |-> usage[s].cost], Owned(u)) = 0

(* A service never costs less than its price per GiB, and rounding each    *)
(* interval up costs less than one toman per interval.                     *)
CostIsFair ==
    \A s \in Services :
        /\ 1024 * usage[s].cost >= usage[s].mb * Price[s]
        /\ 1024 * usage[s].cost <= usage[s].mb * Price[s] + 1023 * usage[s].rows

(* While nobody is at work on a customer, the row and the account of each  *)
(* of the services say the same, although the panel cannot be rolled back. *)
Matches(r, state) ==
    CASE state = "on" -> Active(r)
      [] state = "off" -> r.status = "disabled"
      [] state = "gone" -> r.status = "deleted"
Working(p) == sess[p].at \in {"cut", "restore", "expire", "call", "commit"}
RowsMatchPanel ==
    \A s \in Services :
        \/ \E p \in Procs : Working(p) /\ sess[p].user = Owner[s]
        \/ Matches(svc[s], acct[s])

(* Why the three invariants above hold.  A wallet that a transaction has    *)
(* updated is locked by it, and its uncommitted version is the committed   *)
(* balance plus the transaction's own rows; a service that a transaction   *)
(* meters belongs to a customer it has locked, and the counters it loaded  *)
(* are still the committed ones.  (w, rows, l: the wallets, the services   *)
(* and the locks the session S of p is judged against.)                    *)
OpenOf(p, S, l) ==
    /\ S.at \notin {"idle", "next"} => S.user \in Users
    /\ S.at \in {"idle", "next"} => S.seen = {} /\ S.touched = {}
    /\ S.at = "meter" => l[S.user] = p

MoneyOf(p, S, w, l) ==
    \A u \in Users :
        /\ u \in S.touched =>
              /\ l[u] = p
              /\ S.bal[u] = w[u] + S.txn[u]["traffic"] + S.txn[u]["other"]
        /\ u \notin S.touched => S.txn[u]["traffic"] = 0 /\ S.txn[u]["other"] = 0

CountersKept(p, S, s, rows, l) ==
    /\ l[Owner[s]] = p /\ s \in S.seen
    /\ S.base[s].mb = rows[s].mb /\ S.base[s].billed = rows[s].billed

UsageOf(p, S, rows, l) ==
    \A s \in Services :
        /\ S.orm[s].mb = S.base[s].mb + S.log[s].mb
        /\ S.orm[s].billed = S.base[s].billed + S.log[s].mb
        /\ S.log[s].mb > 0 => CountersKept(p, S, s, rows, l)
        /\ S.at = "meter" /\ s \in S.todo =>
              S.log[s].mb = 0 /\ CountersKept(p, S, s, rows, l)
        /\ 1024 * S.log[s].cost >= S.log[s].mb * Price[s]
        /\ 1024 * S.log[s].cost <= S.log[s].mb * Price[s] + 1023 * S.log[s].rows

Inductive ==
    /\ TypeOK
    /\ WalletIsLedger /\ MeteredOnce /\ CostIsFair
    /\ \A p \in Procs :
        /\ OpenOf(p, sess[p], lock)
        /\ MoneyOf(p, sess[p], wallet, lock)
        /\ UsageOf(p, sess[p], svc, lock)

(* Billing and top-ups disconnect only a wallet at or below zero and       *)
(* reconnect only a positive one, judged by the balance that is committed  *)
(* together with the new status.                                           *)
StatusFollowsBalance ==
    [][\A s \in Services :
        /\ Active(svc[s]) /\ OutOfMoney(svc'[s]) => wallet'[Owner[s]] <= 0
        /\ OutOfMoney(svc[s]) /\ Active(svc'[s]) => wallet'[Owner[s]] > 0]_vars

(* A blocked customer's wallet-disabled service is not reactivated.        *)
BlockedStaysOff ==
    [][\A s \in Services :
        OutOfMoney(svc[s]) /\ Active(svc'[s]) => ~blocked[Owner[s]]]_vars

(* "a simultaneous top-up must be committed and checked before an account  *)
(* can be deleted" (billing.py): an account disappears only while its      *)
(* customer's committed wallet is not positive and its service has been    *)
(* out of money for 48 hours.                                              *)
ExpiredOnlyBroke ==
    [][\A s \in Services :
        acct[s] # "gone" /\ acct'[s] = "gone" =>
            wallet[Owner[s]] <= 0 /\ Stale(svc[s], clock - 1)]_vars

(* A deleted service stays deleted: no transaction that loaded the row     *)
(* earlier writes it back.                                                 *)
DeletedIsFinal ==
    [][\A s \in Services :
        svc[s].status = "deleted" => svc'[s].status = "deleted"]_vars

(* The cleanup spares a service that was disabled by hand meanwhile.       *)
ManualIsPreserved ==
    [][\A s \in Services :
        acct[s] # "gone" /\ acct'[s] = "gone" => svc[s].reason # "manual"]_vars

(* A service disabled by hand is not enabled again by billing or a top-up. *)
ManualStaysOff ==
    [][\A s \in Services :
        svc[s].status = "disabled" /\ svc[s].reason = "manual" =>
            ~Active(svc'[s])]_vars

(* A customer without money is cut off, however many calls fail first.     *)
CutOff ==
    \A s \in Services :
        (wallet[Owner[s]] <= 0 /\ acct[s] = "on")
            ~> (acct[s] # "on" \/ wallet[Owner[s]] > 0)

(* A paying customer whose services were cut off for lack of money gets    *)
(* them back without another payment, however many calls fail first.       *)
Restored ==
    \A s \in Services :
        (/\ wallet[Owner[s]] > 0 /\ acct[s] = "off"
         /\ Active(svc[s]) \/ OutOfMoney(svc[s]))
            ~> (acct[s] = "on" \/ wallet[Owner[s]] <= 0)

-----------------------------------------------------------------------------
(* What the committed tables promise: each commit of billing, a top-up,    *)
(* the cleanup or a removal is one atomic step of Account, and every other *)
(* step of Lifecycle leaves the promise as it was.                         *)
Standing(r) ==
    IF r.status = "disabled" THEN "cut" ELSE r.status
Promise == INSTANCE Account WITH
    metered <- [s \in Services |-> svc[s].billed],
    state <- [s \in Services |-> Standing(svc[s])],
    cutAt <- [s \in Services |-> IF svc[s].since = NoTime THEN 0 ELSE svc[s].since],
    now <- clock
KeepsPromise == Promise!Spec
=============================================================================
