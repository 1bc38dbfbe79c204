--------------------------- MODULE LifecycleProofs ---------------------------
(***************************************************************************)
(* Proofs about Lifecycle for any number of customers, services, sessions  *)
(* and failures.  Whatever is asked and whatever fails: type correctness,  *)
(* the wallet is the sum of its ledger, traffic is charged once, every     *)
(* charge is logged, the cleanup deletes nothing of a customer who has     *)
(* money.  Where no button switches an account (Calm): a deleted service   *)
(* stays deleted, the balance decides about the services, and every commit *)
(* is a step of the promise in Account.  Where, besides, no failure hides  *)
(* the effect of a panel call (Mild): rows and accounts agree.             *)
(***************************************************************************)
EXTENDS Lifecycle, TariffProofs

-----------------------------------------------------------------------------
(* The operators on sessions return sessions. *)

LEMMA RowEdit ==
    ASSUME NEW r \in Row, NEW status \in Statuses,
           NEW reason \in {"none", "wallet", "manual"}, NEW since \in Int
    PROVE  [r EXCEPT !.status = status, !.reason = reason, !.since = since] \in Row
  BY DEF Row

LEMMA RowTypes ==
    /\ NewRow \in Row
    /\ \A r \in Row : Enabled(r) \in Row /\ Deleted(r) \in Row
    /\ clock \in Nat => \A r \in Row, why \in {"wallet", "manual"} :
           Disabled(r, why) \in Row
    /\ \A b, o, c \in Row : Flush(b, o, c) \in Row
<1>1. NewRow \in Row
  BY DEF NewRow, Row, Statuses, NoTime
<1>2. ASSUME NEW r \in Row PROVE Enabled(r) \in Row
  <2>1. NoTime \in Int
    BY DEF NoTime
  <2>2. QED
    BY <2>1, RowEdit DEF Enabled, Statuses
<1>3. ASSUME NEW r \in Row PROVE Deleted(r) \in Row
  BY DEF Row, Statuses, Deleted
<1>4. ASSUME clock \in Nat, NEW r \in Row, NEW why \in {"wallet", "manual"}
      PROVE  Disabled(r, why) \in Row
  <2>1. clock \in Int
    BY <1>4
  <2>2. QED
    BY <2>1, RowEdit DEF Disabled, Statuses
<1>5. ASSUME NEW b \in Row, NEW o \in Row, NEW c \in Row
      PROVE  Flush(b, o, c) \in Row
  BY DEF Row, Flush, Keep
<1>6. QED
  BY <1>1, <1>2, <1>3, <1>4, <1>5

LEMMA IdleType == Idle \in Session
  BY RowTypes, IdsAssumption
  DEF Idle, Session, Phases, Operations, NoMoney, NoEntry, Entry, Kinds

LEMMA LoadUserType ==
    ASSUME TypeOK, NEW S \in Session, NEW u \in Users
    PROVE  LoadUser(S, u) \in Session
  BY DEF LoadUser, Session, TypeOK

LEMMA LoadRowsType ==
    ASSUME TypeOK, NEW S \in Session, NEW rows \in SUBSET Services
    PROVE  LoadRows(S, rows) \in Session
  BY DEF LoadRows, Session, TypeOK

LEMMA MoveType ==
    ASSUME TypeOK, NEW S \in Session, NEW u \in Users, NEW k \in Kinds,
           NEW amount \in Int
    PROVE  Move(S, u, k, amount) \in Session
<1> DEFINE bal == [S.bal EXCEPT ![u] = Current(S, u) + amount]
           txn == [S.txn EXCEPT ![u] = [S.txn[u] EXCEPT ![k] = S.txn[u][k] + amount]]
           touched == S.touched \cup {u}
<1>1. Current(S, u) \in Int
  BY DEF Current, Session, TypeOK
<1>2. bal \in [Users -> Int]
  BY <1>1 DEF Session
<1>3. txn \in [Users -> [Kinds -> Int]]
  BY DEF Session
<1>4. touched \in SUBSET Users
  BY DEF Session
<1>5. Move(S, u, k, amount) =
        [S EXCEPT !.bal = bal, !.touched = touched, !.txn = txn]
  BY DEF Move, Session
<1> HIDE DEF bal, txn, touched
<1>6. QED
  BY <1>2, <1>3, <1>4, <1>5 DEF Session

LEMMA LeftType ==
    ASSUME NEW S \in Session, NEW s \in Services
    PROVE  Left(S, s) \in Session
  BY DEF Left, Session, Phases

LEMMA LoopType ==
    ASSUME TypeOK, NEW S \in Session, NEW phase \in Phases,
           NEW rows \in SUBSET Services
    PROVE  Loop(S, phase, rows) \in Session
<1> DEFINE T == LoadRows(S, rows)
<1>1. T \in Session
  BY LoadRowsType
<1>2. Loop(S, phase, rows) =
        [T EXCEPT !.todo = rows, !.at = IF rows = {} THEN "commit" ELSE phase]
  BY DEF Loop
<1> HIDE DEF T
<1>3. QED
  BY <1>1, <1>2 DEF Session, Phases

LEMMA AfterType ==
    ASSUME NEW S \in Session
    PROVE  After(S) \in Session
<1> DEFINE T == Idle
           phase == IF S.queue = {} /\ S.due = {} THEN "idle" ELSE "next"
           cutoff == IF S.due = {} THEN 0 ELSE S.cutoff
<1>1. T \in Session
  BY IdleType
<1>2. phase \in Phases /\ cutoff \in Int
  BY DEF Session, Phases
<1>3. After(S) = [T EXCEPT !.at = phase, !.queue = S.queue, !.due = S.due,
                           !.cutoff = cutoff]
  BY DEF After
<1> HIDE DEF T, phase, cutoff
<1>4. QED
  BY <1>1, <1>2, <1>3 DEF Session

-----------------------------------------------------------------------------
(* What the operators on sessions do to the parts of the invariant. *)

(* MoneyOf looks at nothing but the pending wallet versions and rows.      *)
LEMMA MoneySame ==
    ASSUME NEW p, NEW w, NEW l, NEW S, NEW T, MoneyOf(p, S, w, l),
           T.touched = S.touched, T.txn = S.txn,
           \A u \in S.touched : T.bal[u] = S.bal[u]
    PROVE  MoneyOf(p, T, w, l)
  BY DEF MoneyOf

(* A lock that stays and a wallet that nobody else may write keep it.      *)
LEMMA MoneyFrame ==
    ASSUME NEW p, NEW w, NEW l, NEW w2, NEW l2, NEW S, MoneyOf(p, S, w, l),
           \A u \in Users : l[u] = p => l2[u] = p /\ w2[u] = w[u]
    PROVE  MoneyOf(p, S, w2, l2)
  BY DEF MoneyOf

LEMMA MoneyMove ==
    ASSUME TypeOK, NEW p, NEW l, NEW S \in Session, NEW u \in Users,
           NEW k \in Kinds, NEW amount \in Int, MoneyOf(p, S, wallet, l), l[u] = p
    PROVE  MoneyOf(p, Move(S, u, k, amount), wallet, l)
<1> DEFINE T == Move(S, u, k, amount)
<1>1. /\ T.touched = S.touched \cup {u}
      /\ T.bal = [S.bal EXCEPT ![u] = Current(S, u) + amount]
      /\ T.txn = [S.txn EXCEPT ![u] = [S.txn[u] EXCEPT ![k] = S.txn[u][k] + amount]]
  BY DEF Move, Session
<1>2. S.bal \in [Users -> Int] /\ S.txn \in [Users -> [Kinds -> Int]]
  BY DEF Session
<1> HIDE DEF T
<1>3. ASSUME NEW v \in Users \ {u}
      PROVE  /\ v \in T.touched <=> v \in S.touched
             /\ T.bal[v] = S.bal[v] /\ T.txn[v] = S.txn[v]
  BY <1>1, <1>2
<1>4. T.bal[u] = Current(S, u) + amount
  BY <1>1, <1>2
<1>5. T.txn[u]["traffic"] + T.txn[u]["other"]
        = S.txn[u]["traffic"] + S.txn[u]["other"] + amount
  <2>1. T.txn[u] = [S.txn[u] EXCEPT ![k] = S.txn[u][k] + amount]
    BY <1>1, <1>2
  <2>2. S.txn[u] \in [Kinds -> Int]
    BY <1>2
  <2>3. CASE k = "traffic"
    BY <2>1, <2>2, <2>3 DEF Kinds
  <2>4. CASE k = "other"
    BY <2>1, <2>2, <2>4 DEF Kinds
  <2>5. QED
    BY <2>3, <2>4 DEF Kinds
<1>6. Current(S, u) = wallet[u] + S.txn[u]["traffic"] + S.txn[u]["other"]
  <2>1. wallet[u] \in Int /\ S.txn[u]["traffic"] \in Int /\ S.txn[u]["other"] \in Int
    BY <1>2 DEF TypeOK, Kinds
  <2>2. CASE u \in S.touched
    BY <2>1, <2>2 DEF MoneyOf, Current
  <2>3. CASE u \notin S.touched
    <3>1. S.txn[u]["traffic"] = 0 /\ S.txn[u]["other"] = 0
      BY <2>3 DEF MoneyOf
    <3>2. Current(S, u) = wallet[u]
      BY <2>3 DEF Current
    <3>3. QED
      BY <2>1, <3>1, <3>2
  <2>4. QED
    BY <2>2, <2>3
<1>7. T.bal[u] = wallet[u] + T.txn[u]["traffic"] + T.txn[u]["other"]
  <2>1. /\ wallet[u] \in Int /\ S.txn[u]["traffic"] \in Int
        /\ S.txn[u]["other"] \in Int
    BY <1>2 DEF TypeOK, Kinds
  <2>2. T \in Session
    BY MoveType DEF T
  <2>3. T.txn[u]["traffic"] \in Int /\ T.txn[u]["other"] \in Int
    BY <2>2 DEF Session, Kinds
  <2> DEFINE w == wallet[u]
             a == S.txn[u]["traffic"]
             b == S.txn[u]["other"]
             c == T.txn[u]["traffic"]
             d == T.txn[u]["other"]
  <2>4. w \in Int /\ a \in Int /\ b \in Int /\ c \in Int /\ d \in Int
    BY <2>1, <2>3
  <2>5. /\ c + d = a + b + amount
        /\ T.bal[u] = (w + a + b) + amount
    BY <1>4, <1>5, <1>6
  <2>6. SUFFICES T.bal[u] = w + c + d
    OBVIOUS
  <2> HIDE DEF a, b, c, d, w
  <2>7. QED
    BY <2>4, <2>5
<1>8. u \in T.touched
  BY <1>1
<1>9. QED
  BY <1>3, <1>7, <1>8 DEF MoneyOf, T

(* UsageOf looks at the loaded and edited counters, the log entries and    *)
(* what is left to meter; leaving the metering loop only weakens it.       *)
LEMMA UsageSame ==
    ASSUME NEW p, NEW rows, NEW l, NEW S, NEW T, UsageOf(p, S, rows, l),
           T.base = S.base, T.log = S.log, S.seen \subseteq T.seen,
           \A s \in Services : /\ T.orm[s].mb = S.orm[s].mb
                               /\ T.orm[s].billed = S.orm[s].billed,
           T.at = "meter" => S.at = "meter" /\ T.todo \subseteq S.todo
    PROVE  UsageOf(p, T, rows, l)
  BY DEF UsageOf, CountersKept

LEMMA UsageFrame ==
    ASSUME NEW p, NEW rows, NEW l, NEW rows2, NEW l2, NEW S, UsageOf(p, S, rows, l),
           \A s \in Services : l[Owner[s]] = p =>
               /\ l2[Owner[s]] = p
               /\ rows2[s].mb = rows[s].mb /\ rows2[s].billed = rows[s].billed
    PROVE  UsageOf(p, S, rows2, l2)
  BY DEF UsageOf, CountersKept

(* A row that is loaded now has the committed counters.                    *)
LEMMA UsageLoad ==
    ASSUME TypeOK, NEW p, NEW l, NEW S \in Session, UsageOf(p, S, svc, l),
           NEW rows \in SUBSET Services, S.at = "meter" => S.todo = {}
    PROVE  UsageOf(p, LoadRows(S, rows), svc, l)
<1> DEFINE T == LoadRows(S, rows)
<1>1. /\ T.seen = S.seen \cup rows /\ T.log = S.log /\ T.at = S.at /\ T.todo = S.todo
      /\ T.base = [s \in Services |->
                      IF s \in rows \ S.seen THEN svc[s] ELSE S.base[s]]
      /\ T.orm = [s \in Services |->
                      IF s \in rows \ S.seen THEN svc[s] ELSE S.orm[s]]
  BY DEF LoadRows, Session
<1>2. \A s \in Services : svc[s].mb \in Nat /\ svc[s].billed \in Nat /\ S.log[s].mb \in Nat
  BY DEF TypeOK, Row, Session, Entry
<1> HIDE DEF T
<1>3. QED
  BY <1>1, <1>2 DEF UsageOf, CountersKept, T

(* The end of a transaction leaves nothing pending.                        *)
LEMMA AfterFields ==
    ASSUME NEW S \in Session
    PROVE  /\ After(S).at \in {"idle", "next"}
           /\ After(S).seen = {} /\ After(S).touched = {} /\ After(S).todo = {}
           /\ After(S).txn = Idle.txn /\ After(S).log = Idle.log
           /\ After(S).base = Idle.base /\ After(S).orm = Idle.orm
<1> DEFINE T == Idle
<1>1. T \in Session
  BY IdleType
<1>2. /\ T.seen = {} /\ T.touched = {} /\ T.todo = {}
  BY DEF Idle
<1>3. After(S) = [T EXCEPT !.at = IF S.queue = {} /\ S.due = {} THEN "idle" ELSE "next",
                 !.queue = S.queue, !.due = S.due,
                 !.cutoff = IF S.due = {} THEN 0 ELSE S.cutoff]
  BY DEF After
<1> HIDE DEF T
<1>4. QED
  BY <1>1, <1>2, <1>3 DEF Session, T

(* A session with nothing pending satisfies all three parts.               *)
Quiet(S) ==
    /\ S.at \in {"idle", "next"} /\ S.seen = {} /\ S.touched = {}
    /\ S.txn = Idle.txn /\ S.log = Idle.log
    /\ S.base = Idle.base /\ S.orm = Idle.orm

LEMMA QuietOK ==
    ASSUME NEW p, NEW S, NEW w, NEW rows, NEW l, Quiet(S)
    PROVE  OpenOf(p, S, l) /\ MoneyOf(p, S, w, l) /\ UsageOf(p, S, rows, l)
<1>1. OpenOf(p, S, l)
  BY DEF Quiet, OpenOf
<1>2. MoneyOf(p, S, w, l)
  BY DEF Quiet, MoneyOf, Idle, NoMoney, Kinds
<1>3. UsageOf(p, S, rows, l)
  <2>1. \A s \in Services : Price[s] \in Nat
    BY MoneyAssumption
  <2>2. \A s \in Services : S.log[s] = NoEntry /\ S.orm[s] = NewRow /\ S.base[s] = NewRow
    BY DEF Quiet, Idle
  <2>3. S.at # "meter"
    BY DEF Quiet
  <2>4. QED
    BY <2>1, <2>2, <2>3 DEF UsageOf, NoEntry, NewRow
<1>4. QED
  BY <1>1, <1>2, <1>3

-----------------------------------------------------------------------------
(* A session that may follow: well-typed, and right about the committed    *)
(* tables under the locks l.                                               *)
Good(p, S, l) ==
    /\ S \in Session
    /\ OpenOf(p, S, l) /\ MoneyOf(p, S, wallet, l) /\ UsageOf(p, S, svc, l)

LEMMA GoodQuiet ==
    ASSUME NEW p, NEW l, NEW S \in Session, Quiet(S)
    PROVE  Good(p, S, l)
  BY QuietOK DEF Good

LEMMA GoodIdle ==
    ASSUME NEW p, NEW l
    PROVE  Good(p, Idle, l)
<1>1. Quiet(Idle)
  BY DEF Quiet, Idle
<1>2. QED
  BY <1>1, IdleType, GoodQuiet

LEMMA GoodAfter ==
    ASSUME NEW p, NEW l, NEW S \in Session
    PROVE  Good(p, After(S), l)
<1>1. Quiet(After(S))
  BY AfterFields DEF Quiet
<1>2. QED
  BY <1>1, AfterType, GoodQuiet

(* Locking more rows does no harm.                                         *)
LEMMA GoodLock ==
    ASSUME NEW p, NEW l, NEW l2, NEW S, Good(p, S, l),
           \A u \in Users : l[u] = p => l2[u] = p
    PROVE  Good(p, S, l2)
<1>1. MoneyOf(p, S, wallet, l2)
  BY MoneyFrame DEF Good
<1>2. UsageOf(p, S, svc, l2)
  <2>1. \A s \in Services : Owner[s] \in Users
    BY IdsAssumption
  <2>2. QED
    BY <2>1, UsageFrame DEF Good
<1>3. OpenOf(p, S, l2)
  BY DEF Good, OpenOf
<1>4. QED
  BY <1>1, <1>2, <1>3 DEF Good

(* Steps that touch neither money nor counters.                            *)
LEMMA GoodSet ==
    ASSUME NEW p, NEW l, NEW S, Good(p, S, l), NEW T \in Session,
           T.touched = S.touched, T.txn = S.txn, T.seen = S.seen,
           T.base = S.base, T.orm = S.orm, T.log = S.log,
           \A u \in S.touched : T.bal[u] = S.bal[u],
           T.at = "meter" =>
               S.at = "meter" /\ T.todo \subseteq S.todo /\ T.user = S.user,
           T.at \notin {"idle", "next"} => T.user \in Users,
           T.at \in {"idle", "next"} => S.at \in {"idle", "next"}
    PROVE  Good(p, T, l)
<1>1. MoneyOf(p, T, wallet, l)
  BY MoneySame DEF Good
<1>2. UsageOf(p, T, svc, l)
  BY UsageSame DEF Good
<1>3. OpenOf(p, T, l)
  BY DEF Good, OpenOf
<1>4. QED
  BY <1>1, <1>2, <1>3 DEF Good

LEMMA GoodLoadUser ==
    ASSUME TypeOK, NEW p, NEW l, NEW S, Good(p, S, l), NEW u \in Users,
           S.at \in {"idle", "next"}
    PROVE  /\ Good(p, LoadUser(S, u), l)
           /\ LoadUser(S, u).at = S.at /\ LoadUser(S, u).user = u
           /\ LoadUser(S, u).todo = S.todo /\ LoadUser(S, u).queue = S.queue
           /\ LoadUser(S, u).due = S.due /\ LoadUser(S, u).seen = S.seen
           /\ LoadUser(S, u).touched = S.touched
<1> DEFINE T == LoadUser(S, u)
<1>1. S \in Session /\ S.touched = {}
  BY DEF Good, OpenOf
<1>2. /\ T.touched = S.touched /\ T.txn = S.txn /\ T.seen = S.seen
      /\ T.base = S.base /\ T.orm = S.orm /\ T.log = S.log
      /\ T.at = S.at /\ T.user = u /\ T.todo = S.todo
      /\ T.queue = S.queue /\ T.due = S.due
  BY <1>1 DEF LoadUser, Session
<1>3. T \in Session
  BY <1>1, LoadUserType
<1> HIDE DEF T
<1>4. Good(p, T, l)
  BY <1>1, <1>2, <1>3, GoodSet
<1>5. QED
  BY <1>2, <1>4 DEF T

LEMMA GoodLoop ==
    ASSUME TypeOK, NEW p, NEW l, NEW S, Good(p, S, l), S.user \in Users,
           S.at = "meter" => S.todo = {},
           NEW phase \in Phases \ {"idle", "next", "meter"},
           NEW rows \in SUBSET Services
    PROVE  /\ Good(p, Loop(S, phase, rows), l)
           /\ Loop(S, phase, rows).at \notin {"idle", "next", "meter"}
           /\ Loop(S, phase, rows).user = S.user
<1> DEFINE L == LoadRows(S, rows)
           T == Loop(S, phase, rows)
           at == IF rows = {} THEN "commit" ELSE phase
<1>1. S \in Session
  BY DEF Good
<1>2. L \in Session /\ UsageOf(p, L, svc, l)
  BY <1>1, LoadRowsType, UsageLoad DEF Good
<1>3. /\ L.touched = S.touched /\ L.txn = S.txn /\ L.bal = S.bal
      /\ L.user = S.user /\ S.seen \subseteq L.seen
  BY <1>1 DEF LoadRows, Session
<1>4. T = [L EXCEPT !.todo = rows, !.at = at]
  BY DEF Loop
<1>5. at \in Phases \ {"idle", "next", "meter"}
  BY DEF Phases
<1>6. T \in Session
  BY <1>1, LoopType
<1> HIDE DEF L, T, at
<1>7. /\ T.touched = L.touched /\ T.txn = L.txn /\ T.bal = L.bal
      /\ T.user = L.user /\ T.seen = L.seen /\ T.base = L.base
      /\ T.orm = L.orm /\ T.log = L.log /\ T.at = at
  BY <1>2, <1>4 DEF Session
<1>8. MoneyOf(p, T, wallet, l)
  BY <1>3, <1>7, MoneySame DEF Good
<1>9. UsageOf(p, T, svc, l)
  BY <1>2, <1>5, <1>7, UsageSame
<1>10. OpenOf(p, T, l)
  BY <1>3, <1>5, <1>7 DEF OpenOf
<1>11. QED
  BY <1>3, <1>5, <1>6, <1>7, <1>8, <1>9, <1>10 DEF Good, T

LEMMA GoodMove ==
    ASSUME TypeOK, NEW p, NEW l, NEW S, Good(p, S, l), NEW u \in Users,
           NEW k \in Kinds, NEW amount \in Int, l[u] = p,
           S.at \notin {"idle", "next"}
    PROVE  LET T == Move(S, u, k, amount)
           IN  /\ Good(p, T, l)
               /\ T.at = S.at /\ T.user = S.user /\ T.todo = S.todo
               /\ T.seen = S.seen /\ T.base = S.base /\ T.orm = S.orm
               /\ T.log = S.log /\ T.blk = S.blk
<1> DEFINE T == Move(S, u, k, amount)
<1>1. S \in Session
  BY DEF Good
<1>2. /\ T.at = S.at /\ T.user = S.user /\ T.todo = S.todo
      /\ T.seen = S.seen /\ T.base = S.base /\ T.orm = S.orm /\ T.log = S.log
      /\ T.blk = S.blk
  BY <1>1 DEF Move, Session
<1>3. T \in Session
  BY <1>1, MoveType
<1>4. MoneyOf(p, T, wallet, l)
  BY <1>1, MoneyMove DEF Good
<1> HIDE DEF T
<1>5. UsageOf(p, T, svc, l)
  BY <1>2, UsageSame DEF Good
<1>6. OpenOf(p, T, l)
  BY <1>2 DEF Good, OpenOf
<1>7. QED
  BY <1>2, <1>3, <1>4, <1>5, <1>6 DEF Good, T

(* One turn of a loop of panel calls, with or without an edit of the row.  *)
LEMMA GoodLeft ==
    ASSUME NEW p, NEW l, NEW S, Good(p, S, l), NEW s \in Services,
           S.at \notin {"idle", "next", "meter"}
    PROVE  /\ Good(p, Left(S, s), l)
           /\ Left(S, s).at \notin {"idle", "next", "meter"}
           /\ Left(S, s).orm = S.orm
<1> DEFINE T == Left(S, s)
<1>1. S \in Session
  BY DEF Good
<1>2. /\ T.touched = S.touched /\ T.txn = S.txn /\ T.seen = S.seen
      /\ T.base = S.base /\ T.orm = S.orm /\ T.log = S.log /\ T.bal = S.bal
      /\ T.user = S.user
      /\ T.at = IF S.todo \ {s} = {} THEN "commit" ELSE S.at
  BY <1>1 DEF Left, Session
<1>3. T \in Session
  BY <1>1, LeftType
<1>4. S.user \in Users
  BY DEF Good, OpenOf
<1> HIDE DEF T
<1>5. T.at \notin {"idle", "next", "meter"}
  BY <1>2
<1>6. Good(p, T, l)
  BY <1>2, <1>3, <1>4, <1>5, GoodSet
<1>7. QED
  BY <1>2, <1>5, <1>6 DEF T

LEMMA GoodEdit ==
    ASSUME NEW p, NEW l, NEW S, Good(p, S, l), NEW s \in Services,
           S.at \notin {"idle", "next", "meter"}, NEW r \in Row,
           r.mb = S.orm[s].mb, r.billed = S.orm[s].billed
    PROVE  Good(p, [Left(S, s) EXCEPT !.orm[s] = r], l)
<1> DEFINE L == Left(S, s)
           T == [L EXCEPT !.orm = [L.orm EXCEPT ![s] = r]]
<1>1. /\ Good(p, L, l) /\ L.orm = S.orm
      /\ L.at \notin {"idle", "next", "meter"}
  BY GoodLeft
<1> HIDE DEF L
<1>2. L \in Session
  BY <1>1 DEF Good
<1>3. /\ T.touched = L.touched /\ T.txn = L.txn /\ T.seen = L.seen
      /\ T.base = L.base /\ T.log = L.log /\ T.bal = L.bal
      /\ T.user = L.user /\ T.at = L.at
      /\ T.orm = [L.orm EXCEPT ![s] = r]
  BY <1>2 DEF Session
<1>4. T \in Session
  BY <1>2 DEF Session
<1>5. L.orm \in [Services -> Row]
  BY <1>2 DEF Session
<1> HIDE DEF T
<1>6. \A t \in Services : T.orm[t].mb = L.orm[t].mb /\ T.orm[t].billed = L.orm[t].billed
  BY <1>1, <1>3, <1>5
<1>7. MoneyOf(p, T, wallet, l)
  BY <1>1, <1>3, MoneySame DEF Good
<1>8. UsageOf(p, T, svc, l)
  BY <1>1, <1>3, <1>6, UsageSame DEF Good
<1>9. OpenOf(p, T, l)
  BY <1>1, <1>3 DEF Good, OpenOf
<1>10. QED
  BY <1>4, <1>7, <1>8, <1>9 DEF Good, T, L

-----------------------------------------------------------------------------
(* Steps of the specification. *)

(* Another session's locks: p may take rows nobody else holds and release  *)
(* its own.                                                                *)
OthersKeep(p) == \A u \in Users, q \in Procs \ {p} : lock[u] = q => lock'[u] = q

(* A step in which p only moves its own session and its own locks.         *)
LEMMA SessionStep ==
    ASSUME Inductive, NEW p \in Procs, NEW T, Good(p, T, lock'),
           Become(p, T), UNCHANGED tables,
           lock' \in [Users -> Procs \cup {Free}], OthersKeep(p),
           acct' \in [Services -> {"on", "off", "gone"}],
           used' \in [Services -> Nat],
           clock' \in Nat, orders' \in Nat, failures' \in Nat
    PROVE  Inductive'
<1>1. sess' = [sess EXCEPT ![p] = T] /\ sess \in [Procs -> Session] /\ T \in Session
  BY DEF Become, Inductive, TypeOK, Good
<1>2. /\ wallet' = wallet /\ blocked' = blocked /\ svc' = svc
      /\ ledger' = ledger /\ usage' = usage
  BY DEF tables
<1>3. TypeOK'
  BY <1>1, <1>2 DEF Inductive, TypeOK
<1>4. WalletIsLedger' /\ MeteredOnce' /\ CostIsFair'
  BY <1>2 DEF Inductive, WalletIsLedger, MeteredOnce, CostIsFair
<1>5. ASSUME NEW q \in Procs
      PROVE  Good(q, sess'[q], lock')
  <2>1. CASE q = p
    BY <1>1, <2>1
  <2>2. CASE q # p
    <3>1. sess'[q] = sess[q] /\ sess[q] \in Session
      BY <1>1, <2>2
    <3>2. Good(q, sess[q], lock)
      BY <3>1 DEF Inductive, Good
    <3>3. \A u \in Users : lock[u] = q => lock'[u] = q
      BY <2>2 DEF OthersKeep
    <3>4. QED
      BY <3>1, <3>2, <3>3, GoodLock
  <2>3. QED
    BY <2>1, <2>2
<1>6. QED
  BY <1>2, <1>3, <1>4, <1>5 DEF Inductive, Good

(* The panel and the clock move without any session.                       *)
LEMMA OutsideStep ==
    ASSUME Inductive, UNCHANGED <<tables, lock, sess>>,
           acct' \in [Services -> {"on", "off", "gone"}],
           used' \in [Services -> Nat],
           clock' \in Nat, orders' \in Nat, failures' \in Nat
    PROVE  Inductive'
<1>1. /\ wallet' = wallet /\ blocked' = blocked /\ svc' = svc
      /\ ledger' = ledger /\ usage' = usage /\ lock' = lock /\ sess' = sess
  BY DEF tables
<1>2. TypeOK'
  BY <1>1 DEF Inductive, TypeOK
<1>3. WalletIsLedger' /\ MeteredOnce' /\ CostIsFair'
  BY <1>1 DEF Inductive, WalletIsLedger, MeteredOnce, CostIsFair
<1>4. QED
  BY <1>1, <1>2, <1>3 DEF Inductive

(* What the lock operations do.                                            *)
LEMMA LockStep ==
    ASSUME TypeOK, NEW p \in Procs, NEW u \in Users, CanLock(p, u),
           lock' = [lock EXCEPT ![u] = p]
    PROVE  /\ lock' \in [Users -> Procs \cup {Free}] /\ OthersKeep(p)
           /\ lock'[u] = p /\ \A v \in Users : lock[v] = p => lock'[v] = p
<1>1. lock \in [Users -> Procs \cup {Free}]
  BY DEF TypeOK
<1>2. OthersKeep(p)
  <2> SUFFICES ASSUME NEW v \in Users, NEW q \in Procs \ {p}, lock[v] = q
               PROVE  lock'[v] = q
    BY DEF OthersKeep
  <2>1. q # Free
    BY SessionsAssumption
  <2>2. v # u
    BY <2>1 DEF CanLock
  <2>3. QED
    BY <1>1, <2>2
<1>3. QED
  BY <1>1, <1>2

LEMMA UnlockStep ==
    ASSUME TypeOK, NEW p \in Procs, lock' = Unlocked(p)
    PROVE  lock' \in [Users -> Procs \cup {Free}] /\ OthersKeep(p)
  BY DEF TypeOK, Unlocked, OthersKeep

LEMMA SameLock ==
    ASSUME TypeOK, NEW p \in Procs, lock' = lock
    PROVE  /\ lock' \in [Users -> Procs \cup {Free}] /\ OthersKeep(p)
  BY DEF TypeOK, OthersKeep

LEMMA FailsType ==
    ASSUME TypeOK, NEW kind, Fails(kind)
    PROVE  failures' \in Nat
  BY DEF TypeOK, Fails

LEMMA PanelOkType ==
    ASSUME TypeOK, NEW s \in Services, NEW state \in {"on", "off", "gone"},
           PanelOk(s, state)
    PROVE  acct' \in [Services -> {"on", "off", "gone"}] /\ failures' \in Nat
  BY DEF TypeOK, PanelOk

LEMMA PanelErrorType ==
    ASSUME TypeOK, NEW s \in Services, NEW state \in {"on", "off", "gone"},
           PanelError(s, state)
    PROVE  acct' \in [Services -> {"on", "off", "gone"}] /\ failures' \in Nat
  BY DEF TypeOK, PanelError, PanelRefused, PanelLost, Fails

-----------------------------------------------------------------------------
(* The billing job *)

LEMMA SyncStartStep ==
    ASSUME Inductive, NEW p \in Procs, SyncStart(p)
    PROVE  Inductive'
<1> DEFINE billable == {u \in Users : \E s \in Owned(u) : Eligible(svc[s])}
           I == Idle
           T == [I EXCEPT !.at = "next", !.queue = billable]
<1>1. I \in Session /\ Quiet(I)
  BY IdleType DEF Quiet, Idle
<1>2. /\ Become(p, T) /\ UNCHANGED <<tables, lock, panel, clock, bounds>>
  BY DEF SyncStart
<1>3. billable \in SUBSET Users
  OBVIOUS
<1> HIDE DEF I, billable
<1>4. T \in Session /\ Quiet(T)
  BY <1>1, <1>3 DEF Session, Quiet, Phases
<1>5. Good(p, T, lock')
  BY <1>4, GoodQuiet
<1> HIDE DEF T
<1>6. QED
  BY <1>2, <1>5, SessionStep, SameLock
  DEF Inductive, TypeOK, panel, bounds

LEMMA SyncLockStep ==
    ASSUME Inductive, NEW p \in Procs, SyncLock(p)
    PROVE  Inductive'
<1> DEFINE S == sess[p]
<1>1. PICK u \in First(S.queue) :
        LET rows == {s \in Owned(u) : Eligible(svc[s])}
            T == LoadRows(LoadUser(S, u), rows) IN
        /\ CanLock(p, u)
        /\ lock' = [lock EXCEPT ![u] = p]
        /\ Become(p, [T EXCEPT !.at = "meter", !.todo = rows,
                               !.queue = S.queue \ {u}])
  BY DEF SyncLock
<1>2. /\ TypeOK /\ S \in Session /\ S.at = "next" /\ Good(p, S, lock)
      /\ S.seen = {} /\ S.touched = {}
  BY DEF Inductive, TypeOK, Good, SyncLock, OpenOf
<1>3. u \in Users
  BY <1>2 DEF First, Session
<1> DEFINE rows == {s \in Owned(u) : Eligible(svc[s])}
           U == LoadUser(S, u)
           L == LoadRows(U, rows)
           queue == S.queue \ {u}
           T == [L EXCEPT !.at = "meter", !.todo = rows, !.queue = queue]
<1>4. /\ lock' \in [Users -> Procs \cup {Free}] /\ OthersKeep(p)
      /\ lock'[u] = p /\ \A v \in Users : lock[v] = p => lock'[v] = p
  BY <1>1, <1>2, <1>3, LockStep
<1>5. Good(p, S, lock')
  BY <1>2, <1>4, GoodLock
<1>6. /\ Good(p, U, lock') /\ U.at = "next" /\ U.user = u
      /\ U.seen = {} /\ U.touched = {}
  BY <1>2, <1>3, <1>5, GoodLoadUser
<1>7. rows \in SUBSET Services /\ \A s \in rows : Owner[s] = u
  BY DEF Owned
<1>8. queue \in SUBSET Users
  BY <1>2 DEF Session
<1>9. Become(p, T)
  BY <1>1
<1> HIDE DEF U, rows, queue
<1>10. /\ L \in Session /\ UsageOf(p, L, svc, lock')
  BY <1>2, <1>6, <1>7, LoadRowsType, UsageLoad DEF Good
<1>11. U \in Session
  BY <1>6 DEF Good
<1>12. /\ L.seen = rows /\ L.user = u /\ L.touched = {} /\ L.bal = U.bal
       /\ L.txn = U.txn /\ L.log = U.log
       /\ \A s \in rows : L.base[s] = svc[s]
  BY <1>6, <1>7, <1>11 DEF LoadRows, Session
<1>13. ASSUME NEW s \in rows PROVE L.log[s].mb = 0
  <2>1. U.log[s].mb \in Nat
    BY <1>7, <1>11 DEF Session, Entry
  <2>2. ~(U.log[s].mb > 0)
    BY <1>6, <1>7 DEF Good, UsageOf, CountersKept
  <2>3. QED
    BY <2>1, <2>2, <1>12
<1> HIDE DEF L
<1>14. /\ T.at = "meter" /\ T.todo = rows /\ T.user = u /\ T.touched = {}
       /\ T.bal = L.bal /\ T.txn = L.txn /\ T.log = L.log
       /\ T.seen = rows /\ T.base = L.base /\ T.orm = L.orm
  BY <1>10, <1>12 DEF Session
<1>15. T \in Session
  BY <1>7, <1>8, <1>10 DEF Session, Phases
<1> HIDE DEF T
<1>16. MoneyOf(p, T, wallet, lock')
  BY <1>6, <1>12, <1>14, MoneySame DEF Good
<1>17. UsageOf(p, T, svc, lock')
  <2>1. \A s \in rows : CountersKept(p, T, s, svc, lock')
    BY <1>4, <1>7, <1>12, <1>14 DEF CountersKept
  <2>2. \A s \in Services : L.log[s].mb > 0 => s \in rows
    BY <1>10, <1>12 DEF UsageOf, CountersKept
  <2>3. QED
    BY <2>1, <2>2, <1>10, <1>13, <1>14 DEF UsageOf
<1>18. OpenOf(p, T, lock')
  BY <1>3, <1>4, <1>14 DEF OpenOf
<1>19. Good(p, T, lock')
  BY <1>15, <1>16, <1>17, <1>18 DEF Good
<1>20. UNCHANGED <<tables, panel, clock, bounds>>
  BY DEF SyncLock
<1>21. QED
  BY <1>2, <1>4, <1>9, <1>19, <1>20, SessionStep DEF TypeOK, panel, bounds

(* The session of p keeps what it has while it meters.                     *)
LEMMA MeterOpen ==
    ASSUME Inductive, NEW p \in Procs, sess[p].at = "meter"
    PROVE  /\ TypeOK /\ sess[p] \in Session /\ Good(p, sess[p], lock)
           /\ sess[p].user \in Users /\ lock[sess[p].user] = p
           /\ \A s \in First(sess[p].todo) : s \in sess[p].todo /\ s \in Services
  BY DEF Inductive, TypeOK, Good, OpenOf, First, Session

LEMMA MeterErrorStep ==
    ASSUME Inductive, NEW p \in Procs, MeterError(p)
    PROVE  Inductive'
<1> DEFINE S == sess[p]
<1>1. PICK s \in First(S.todo) :
        /\ \/ PanelRefused(s)
           \/ /\ acct[s] # "gone" /\ used[s] < S.orm[s].mb
              /\ UNCHANGED <<acct, failures>>
        /\ Metered(p, [S EXCEPT !.todo = S.todo \ {s}, !.failed = TRUE])
  BY DEF MeterError
<1>2. /\ TypeOK /\ S \in Session /\ Good(p, S, lock) /\ S.user \in Users
      /\ s \in Services /\ S.at = "meter"
  BY <1>1, MeterOpen DEF MeterError
<1> DEFINE T == [S EXCEPT !.todo = S.todo \ {s}, !.failed = TRUE]
<1>3. /\ T \in Session
      /\ T.touched = S.touched /\ T.txn = S.txn /\ T.seen = S.seen
      /\ T.base = S.base /\ T.orm = S.orm /\ T.log = S.log /\ T.bal = S.bal
      /\ T.user = S.user /\ T.at = S.at /\ T.todo \subseteq S.todo
  BY <1>2 DEF Session
<1>4. /\ Become(p, T) /\ UNCHANGED <<tables, acct, used, clock, orders>>
      /\ lock' = lock
  BY <1>1 DEF Metered, MeterError
<1>5. failures' \in Nat
  BY <1>1, <1>2 DEF PanelRefused, Fails, TypeOK
<1> HIDE DEF T
<1>6. Good(p, T, lock')
  BY <1>2, <1>3, <1>4, GoodSet
<1>7. QED
  BY <1>2, <1>4, <1>5, <1>6, SessionStep, SameLock DEF TypeOK

LEMMA MeterIdleStep ==
    ASSUME Inductive, NEW p \in Procs, MeterIdle(p)
    PROVE  Inductive'
<1> DEFINE S == sess[p]
<1>1. PICK s \in First(S.todo) : Metered(p, [S EXCEPT !.todo = S.todo \ {s}])
  BY DEF MeterIdle
<1>2. /\ TypeOK /\ S \in Session /\ Good(p, S, lock) /\ S.user \in Users
      /\ s \in Services /\ S.at = "meter"
  BY <1>1, MeterOpen DEF MeterIdle
<1> DEFINE T == [S EXCEPT !.todo = S.todo \ {s}]
<1>3. /\ T \in Session
      /\ T.touched = S.touched /\ T.txn = S.txn /\ T.seen = S.seen
      /\ T.base = S.base /\ T.orm = S.orm /\ T.log = S.log /\ T.bal = S.bal
      /\ T.user = S.user /\ T.at = S.at /\ T.todo \subseteq S.todo
  BY <1>2 DEF Session
<1>4. /\ Become(p, T) /\ UNCHANGED <<tables, acct, used, clock, orders>>
      /\ lock' = lock /\ failures' = failures
  BY <1>1 DEF Metered, MeterIdle
<1> HIDE DEF T
<1>5. Good(p, T, lock')
  BY <1>2, <1>3, <1>4, GoodSet
<1>6. QED
  BY <1>2, <1>4, <1>5, SessionStep, SameLock DEF TypeOK

LEMMA DecideStep ==
    ASSUME Inductive, NEW p \in Procs, Decide(p)
    PROVE  Inductive'
<1> DEFINE S == sess[p]
           broke == {s \in Owned(S.user) : Active(svc[s])}
           back == {s \in Owned(S.user) : OutOfMoney(svc[s])}
           C == [S EXCEPT !.at = "commit"]
<1>1. /\ TypeOK /\ S \in Session /\ Good(p, S, lock) /\ S.user \in Users
      /\ S.at = "meter" /\ S.todo = {}
  BY MeterOpen DEF Decide
<1>2. broke \in SUBSET Services /\ back \in SUBSET Services
  BY DEF Owned
<1>3. UNCHANGED <<tables, lock, panel, clock, bounds>>
  BY DEF Decide
<1>4. PICK T : /\ Become(p, T)
               /\ T \in {Loop(S, "cut", broke), Loop(S, "restore", back), C}
  BY DEF Decide
<1>5. Good(p, Loop(S, "cut", broke), lock) /\ Good(p, Loop(S, "restore", back), lock)
  BY <1>1, <1>2, GoodLoop DEF Phases
<1>6. Good(p, C, lock)
  <2>1. /\ C \in Session
        /\ C.touched = S.touched /\ C.txn = S.txn /\ C.seen = S.seen
        /\ C.base = S.base /\ C.orm = S.orm /\ C.log = S.log /\ C.bal = S.bal
        /\ C.user = S.user /\ C.at = "commit"
    BY <1>1 DEF Session, Phases
  <2> HIDE DEF C
  <2>2. QED
    BY <1>1, <2>1, GoodSet
<1>7. Good(p, T, lock') /\ lock' = lock
  BY <1>3, <1>4, <1>5, <1>6
<1>8. QED
  BY <1>1, <1>3, <1>4, <1>7, SessionStep, SameLock DEF TypeOK, panel, bounds

LEMMA CashbackInt ==
    ASSUME NEW spent \in Nat, NEW percent \in Nat
    PROVE  Cashback(spent, percent) \in Int
<1>1. spent * percent \in Nat
  BY ProductNat
<1>2. \A n \in Nat : n \div 100 \in Int
  OBVIOUS
<1>3. QED
  BY <1>1, <1>2 DEF Cashback

(* Charging what was used since the last reading: the entry covers exactly *)
(* the distance between the loaded counter and the new one.                *)
LEMMA ChargedGood ==
    ASSUME Inductive, NEW p \in Procs, sess[p].at = "meter",
           NEW s \in sess[p].todo, s \in Services, used[s] > sess[p].orm[s].mb
    PROVE  /\ Good(p, Charged(sess[p], s), lock)
           /\ Charged(sess[p], s).at = "meter"
           /\ Charged(sess[p], s).log[s].cost \in Nat
<1> DEFINE S == sess[p]
           delta == used[s] - S.orm[s].mb
           cost == CostForMb(delta, Price[s])
           M == Move(S, S.user, "traffic", -cost)
           B == IF cost > 0 THEN M ELSE S
           todo == S.todo \ {s}
           r == [S.orm[s] EXCEPT !.mb = used[s], !.billed = S.orm[s].billed + delta]
           e == [mb |-> delta, cost |-> cost, rows |-> 1]
           orm == [B.orm EXCEPT ![s] = r]
           log == [B.log EXCEPT ![s] = e]
           T == [B EXCEPT !.todo = todo, !.orm = orm, !.log = log]
<1>1. /\ TypeOK /\ S \in Session /\ Good(p, S, lock) /\ S.user \in Users
      /\ lock[S.user] = p
  BY MeterOpen
<1>2. /\ S.orm[s] \in Row /\ S.base[s] \in Row /\ used[s] \in Nat /\ Price[s] \in Nat
  BY <1>1, MoneyAssumption DEF Session, TypeOK
<1>3. /\ S.orm[s].mb \in Nat /\ S.orm[s].billed \in Nat /\ delta \in Nat /\ delta > 0
  BY <1>2 DEF Row
<1>4. /\ cost \in Nat
      /\ 1024 * cost >= delta * Price[s]
      /\ 1024 * cost <= delta * Price[s] + 1023
  BY <1>2, <1>3, CostBounds
<1>5. /\ Good(p, B, lock)
      /\ B.at = S.at /\ B.user = S.user /\ B.todo = S.todo
      /\ B.seen = S.seen /\ B.base = S.base /\ B.orm = S.orm /\ B.log = S.log
  <2>1. -cost \in Int /\ "traffic" \in Kinds
    BY <1>4 DEF Kinds
  <2> HIDE DEF cost, delta
  <2>2. Good(p, M, lock) /\ M.at = S.at /\ M.user = S.user /\ M.todo = S.todo
        /\ M.seen = S.seen /\ M.base = S.base /\ M.orm = S.orm /\ M.log = S.log
    BY <1>1, <2>1, GoodMove
  <2>3. QED
    BY <1>1, <2>2
<1>6. r \in Row /\ r.mb = used[s] /\ r.billed = S.orm[s].billed + delta
  <2>1. S.orm[s].billed + delta \in Nat
    BY <1>3
  <2> DEFINE old == S.orm[s]
             billed == S.orm[s].billed + delta
             mb == used[s]
  <2>2. old \in Row /\ billed \in Nat /\ mb \in Nat
    BY <1>2, <2>1
  <2>3. r = [old EXCEPT !.mb = mb, !.billed = billed]
    OBVIOUS
  <2> HIDE DEF old, billed, mb, r
  <2>4. r \in Row /\ r.mb = mb /\ r.billed = billed
    BY <2>2, <2>3 DEF Row
  <2>5. QED
    BY <2>4 DEF billed, mb
<1>7. e \in Entry /\ e.mb = delta /\ e.cost = cost /\ e.rows = 1
  BY <1>3, <1>4 DEF Entry
<1>8. Charged(S, s) = T
  BY DEF Charged
<1>9. B \in Session
  BY <1>5 DEF Good
<1> HIDE DEF B, r, e
<1>10. /\ orm \in [Services -> Row] /\ log \in [Services -> Entry]
       /\ orm[s] = r /\ log[s] = e
       /\ \A t \in Services \ {s} : orm[t] = B.orm[t] /\ log[t] = B.log[t]
  BY <1>6, <1>7, <1>9 DEF Session
<1>11. todo \in SUBSET Services
  BY <1>1 DEF Session
<1> HIDE DEF orm, log, todo
<1>12. /\ T \in Session /\ T.todo = todo /\ T.orm = orm /\ T.log = log
       /\ T.at = B.at /\ T.user = B.user /\ T.seen = B.seen /\ T.base = B.base
       /\ T.touched = B.touched /\ T.txn = B.txn /\ T.bal = B.bal
  BY <1>9, <1>10, <1>11 DEF Session
<1> HIDE DEF T, M
<1>13. MoneyOf(p, T, wallet, lock)
  BY <1>5, <1>12, MoneySame DEF Good
<1>14. OpenOf(p, T, lock)
  BY <1>5, <1>12 DEF Good, OpenOf
<1>15. /\ S.log[s].mb = 0 /\ CountersKept(p, S, s, svc, lock)
       /\ S.orm[s].mb = S.base[s].mb + S.log[s].mb
       /\ S.orm[s].billed = S.base[s].billed + S.log[s].mb
  BY <1>1 DEF Good, UsageOf
<1>16. UsageOf(p, T, svc, lock)
  <2> SUFFICES ASSUME NEW t \in Services
      PROVE  /\ T.orm[t].mb = T.base[t].mb + T.log[t].mb
             /\ T.orm[t].billed = T.base[t].billed + T.log[t].mb
             /\ T.log[t].mb > 0 => CountersKept(p, T, t, svc, lock)
             /\ T.at = "meter" /\ t \in T.todo =>
                   T.log[t].mb = 0 /\ CountersKept(p, T, t, svc, lock)
             /\ 1024 * T.log[t].cost >= T.log[t].mb * Price[t]
             /\ 1024 * T.log[t].cost <= T.log[t].mb * Price[t] + 1023 * T.log[t].rows
    BY DEF UsageOf
  <2>1. CASE t = s
    <3>1. CountersKept(p, T, s, svc, lock)
      BY <1>5, <1>12, <1>15 DEF CountersKept
    <3>2. s \notin T.todo
      BY <1>12 DEF todo
    <3>3. /\ S.base[s].mb \in Nat /\ S.base[s].billed \in Nat
      BY <1>2 DEF Row
    <3>4. T.orm[s].mb = T.base[s].mb + T.log[s].mb
      BY <1>3, <1>5, <1>6, <1>7, <1>10, <1>12, <1>15, <3>3, <1>2
    <3>5. T.orm[s].billed = T.base[s].billed + T.log[s].mb
      BY <1>3, <1>5, <1>6, <1>7, <1>10, <1>12, <1>15, <3>3, <1>2
    <3>6. /\ 1024 * T.log[s].cost >= T.log[s].mb * Price[s]
          /\ 1024 * T.log[s].cost <= T.log[s].mb * Price[s] + 1023 * T.log[s].rows
      <4> HIDE DEF cost, delta
      <4>1. QED
        BY <1>4, <1>7, <1>10, <1>12
    <3>7. QED
      BY <2>1, <3>1, <3>2, <3>4, <3>5, <3>6
  <2>2. CASE t # s
    <3>1. T.log[t] = B.log[t] /\ T.orm[t] = B.orm[t] /\ (t \in T.todo => t \in B.todo)
      BY <1>5, <1>10, <1>12, <2>2 DEF todo
    <3>2. CountersKept(p, B, t, svc, lock) => CountersKept(p, T, t, svc, lock)
      BY <1>12 DEF CountersKept
    <3>3. QED
      BY <1>5, <1>12, <3>1, <3>2 DEF Good, UsageOf
  <2>3. QED
    BY <2>1, <2>2
<1>17. T.log[s].cost \in Nat
  BY <1>4, <1>7, <1>10, <1>12
<1>18. QED
  BY <1>1, <1>5, <1>8, <1>12, <1>13, <1>14, <1>16, <1>17 DEF Good

LEMMA MeterChargeStep ==
    ASSUME Inductive, NEW p \in Procs, MeterCharge(p)
    PROVE  Inductive'
<1> DEFINE S == sess[p]
<1>1. PICK s \in First(S.todo) :
        LET T == Charged(S, s)
            cash == Cashback(T.log[s].cost, Percent)
            inviter == Inviter[S.user] IN
        /\ acct[s] # "gone" /\ Grown(S, s)
        /\ IF cash > 0 /\ inviter # NoUser
           THEN /\ CanLock(p, inviter)
                /\ lock' = [lock EXCEPT ![inviter] = p]
                /\ Metered(p, Move(T, inviter, "other", cash))
           ELSE Metered(p, T) /\ UNCHANGED lock
  BY DEF MeterCharge
<1> DEFINE T == Charged(S, s)
           cash == Cashback(T.log[s].cost, Percent)
           inviter == Inviter[S.user]
<1>2. /\ TypeOK /\ S.user \in Users /\ S.at = "meter"
      /\ s \in S.todo /\ s \in Services
  BY <1>1, MeterOpen DEF MeterCharge
<1>3. Good(p, T, lock) /\ T.at = "meter" /\ T.log[s].cost \in Nat
  BY <1>1, <1>2, ChargedGood DEF Grown
<1>4. cash \in Int
  BY <1>3, CashbackInt, MoneyAssumption
<1>5. failures' = failures
  BY DEF MeterCharge
<1> HIDE DEF T, cash
<1>6. CASE cash > 0 /\ inviter # NoUser
  <2>1. /\ CanLock(p, inviter) /\ lock' = [lock EXCEPT ![inviter] = p]
        /\ Metered(p, Move(T, inviter, "other", cash))
    BY <1>1, <1>6 DEF T, cash
  <2>2. inviter \in Users
    BY <1>2, <1>6, IdsAssumption
  <2>3. /\ lock' \in [Users -> Procs \cup {Free}] /\ OthersKeep(p)
        /\ lock'[inviter] = p /\ \A v \in Users : lock[v] = p => lock'[v] = p
    BY <1>2, <2>1, <2>2, LockStep
  <2>4. Good(p, T, lock')
    BY <1>3, <2>3, GoodLock
  <2>5. Good(p, Move(T, inviter, "other", cash), lock')
    BY <1>2, <1>3, <1>4, <2>2, <2>3, <2>4, GoodMove DEF Kinds
  <2>6. QED
    BY <1>2, <1>5, <2>1, <2>3, <2>5, SessionStep DEF Metered, TypeOK
<1>7. CASE ~(cash > 0 /\ inviter # NoUser)
  <2>1. Metered(p, T) /\ lock' = lock
    BY <1>1, <1>7 DEF T, cash
  <2>2. QED
    BY <1>2, <1>3, <1>5, <2>1, SessionStep, SameLock DEF Metered, TypeOK
<1>8. QED
  BY <1>6, <1>7

(* Disconnecting and reconnecting edit the status of a row, not its        *)
(* counters.                                                               *)
LEMMA EditsKeepCounters ==
    ASSUME TypeOK, NEW r \in Row
    PROVE  /\ Enabled(r) \in Row /\ Enabled(r).mb = r.mb /\ Enabled(r).billed = r.billed
           /\ Deleted(r) \in Row /\ Deleted(r).mb = r.mb /\ Deleted(r).billed = r.billed
           /\ \A why \in {"wallet", "manual"} :
                /\ Disabled(r, why) \in Row
                /\ Disabled(r, why).mb = r.mb /\ Disabled(r, why).billed = r.billed
<1>1. Enabled(r).mb = r.mb /\ Enabled(r).billed = r.billed
  BY DEF Enabled, Row
<1>2. Deleted(r).mb = r.mb /\ Deleted(r).billed = r.billed
  BY DEF Deleted, Row
<1>3. \A why \in {"wallet", "manual"} :
        Disabled(r, why).mb = r.mb /\ Disabled(r, why).billed = r.billed
  BY DEF Disabled, Row
<1>4. QED
  BY <1>1, <1>2, <1>3, RowTypes DEF TypeOK

(* One turn of a loop of panel calls ends in a good session either way.    *)
LEMMA TurnStep ==
    ASSUME Inductive, NEW p \in Procs, NEW s \in Services,
           sess[p].at \notin {"idle", "next", "meter"},
           NEW state \in {"on", "off", "gone"}, NEW r \in Row,
           r.mb = sess[p].orm[s].mb, r.billed = sess[p].orm[s].billed,
           \/ PanelOk(s, state) /\ Become(p, [Left(sess[p], s) EXCEPT !.orm[s] = r])
           \/ PanelError(s, state) /\ Become(p, Left(sess[p], s)),
           lock' = lock, UNCHANGED <<tables, used, clock, orders>>
    PROVE  Inductive'
<1> DEFINE S == sess[p]
           E == [Left(S, s) EXCEPT !.orm[s] = r]
<1>1. TypeOK /\ Good(p, S, lock) /\ lock' = lock
  BY DEF Inductive, TypeOK, Good
<1>2. Good(p, E, lock') /\ Good(p, Left(S, s), lock')
  BY <1>1, GoodEdit, GoodLeft
<1>3. acct' \in [Services -> {"on", "off", "gone"}] /\ failures' \in Nat
  BY <1>1, PanelOkType, PanelErrorType
<1>4. Become(p, E) \/ Become(p, Left(S, s))
  OBVIOUS
<1> HIDE DEF E
<1>5. QED
  BY <1>1, <1>2, <1>3, <1>4, SessionStep, SameLock DEF TypeOK

LEMMA SessionRow ==
    ASSUME Inductive, NEW p \in Procs, NEW s \in sess[p].todo
    PROVE  s \in Services /\ sess[p].orm[s] \in Row /\ TypeOK
  BY DEF Inductive, TypeOK, Session

LEMMA CutStep ==
    ASSUME Inductive, NEW p \in Procs, Cut(p)
    PROVE  Inductive'
<1> DEFINE S == sess[p]
<1>1. /\ S.at = "cut" /\ UNCHANGED <<tables, lock, used, clock, orders>>
      /\ \E s \in S.todo :
           \/ PanelOk(s, "off")
              /\ Become(p, [Left(S, s) EXCEPT !.orm[s] = Disabled(S.orm[s], "wallet")])
           \/ PanelError(s, "off") /\ Become(p, Left(S, s))
  BY DEF Cut, SwitchAccount
<1>2. PICK s \in S.todo :
        \/ PanelOk(s, "off")
           /\ Become(p, [Left(S, s) EXCEPT !.orm[s] = Disabled(S.orm[s], "wallet")])
        \/ PanelError(s, "off") /\ Become(p, Left(S, s))
  BY <1>1
<1>3. s \in Services /\ S.orm[s] \in Row /\ TypeOK
  BY SessionRow
<1> DEFINE r == Disabled(S.orm[s], "wallet")
<1>4. r \in Row /\ r.mb = S.orm[s].mb /\ r.billed = S.orm[s].billed
  BY <1>3, EditsKeepCounters
<1> HIDE DEF r
<1>5. \/ PanelOk(s, "off") /\ Become(p, [Left(S, s) EXCEPT !.orm[s] = r])
      \/ PanelError(s, "off") /\ Become(p, Left(S, s))
  BY <1>2 DEF r
<1>6. QED
  BY <1>1, <1>3, <1>4, <1>5, TurnStep

LEMMA RestoreStep ==
    ASSUME Inductive, NEW p \in Procs, Restore(p)
    PROVE  Inductive'
<1> DEFINE S == sess[p]
<1>1. /\ S.at = "restore" /\ UNCHANGED <<tables, lock, used, clock, orders>>
      /\ \E s \in S.todo :
           \/ PanelOk(s, "on")
              /\ Become(p, [Left(S, s) EXCEPT !.orm[s] = Enabled(S.orm[s])])
           \/ PanelError(s, "on") /\ Become(p, Left(S, s))
  BY DEF Restore, SwitchAccount
<1>2. PICK s \in S.todo :
        \/ PanelOk(s, "on")
           /\ Become(p, [Left(S, s) EXCEPT !.orm[s] = Enabled(S.orm[s])])
        \/ PanelError(s, "on") /\ Become(p, Left(S, s))
  BY <1>1
<1>3. s \in Services /\ S.orm[s] \in Row /\ TypeOK
  BY SessionRow
<1> DEFINE r == Enabled(S.orm[s])
<1>4. r \in Row /\ r.mb = S.orm[s].mb /\ r.billed = S.orm[s].billed
  BY <1>3, EditsKeepCounters
<1> HIDE DEF r
<1>5. \/ PanelOk(s, "on") /\ Become(p, [Left(S, s) EXCEPT !.orm[s] = r])
      \/ PanelError(s, "on") /\ Become(p, Left(S, s))
  BY <1>2 DEF r
<1>6. QED
  BY <1>1, <1>3, <1>4, <1>5, TurnStep

-----------------------------------------------------------------------------
(* Top-ups *)

LEMMA IdleLoaded ==
    ASSUME TypeOK, NEW p, NEW l, NEW u \in Users
    PROVE  /\ Good(p, LoadUser(Idle, u), l) /\ LoadUser(Idle, u).at = "idle"
           /\ LoadUser(Idle, u).user = u /\ LoadUser(Idle, u).todo = {}
<1>1. Idle.at = "idle" /\ Idle.todo = {}
  BY DEF Idle
<1>2. QED
  BY <1>1, GoodIdle, GoodLoadUser

LEMMA TopUpBeginStep ==
    ASSUME Inductive, NEW p \in Procs, TopUpBegin(p)
    PROVE  Inductive'
<1>1. PICK u \in Users, a \in Amounts :
        Become(p, [LoadUser(Idle, u) EXCEPT !.at = "credit", !.amount = a])
  BY DEF TopUpBegin
<1> DEFINE L == LoadUser(Idle, u)
           T == [L EXCEPT !.at = "credit", !.amount = a]
<1>2. TypeOK /\ a \in Int
  BY MoneyAssumption DEF Inductive
<1>3. Good(p, L, lock) /\ L.user = u
  BY <1>2, IdleLoaded
<1>4. Become(p, T)
  BY <1>1
<1> HIDE DEF L
<1>5. /\ T \in Session
      /\ T.touched = L.touched /\ T.txn = L.txn /\ T.seen = L.seen
      /\ T.base = L.base /\ T.orm = L.orm /\ T.log = L.log /\ T.bal = L.bal
      /\ T.user = L.user /\ T.at = "credit"
  BY <1>2, <1>3 DEF Good, Session, Phases
<1> HIDE DEF T
<1>6. Good(p, T, lock)
  BY <1>3, <1>5, GoodSet
<1>7. /\ UNCHANGED <<tables, lock, panel, clock, failures>> /\ orders' = orders + 1
  BY DEF TopUpBegin
<1>8. QED
  BY <1>2, <1>4, <1>6, <1>7, SessionStep, SameLock DEF TypeOK, panel

LEMMA TopUpCreditStep ==
    ASSUME Inductive, NEW p \in Procs, TopUpCredit(p)
    PROVE  Inductive'
<1> DEFINE S == sess[p]
           T == Move(S, S.user, "other", S.amount)
           back == {s \in Owned(S.user) : OutOfMoney(svc[s])}
           C == [T EXCEPT !.at = "commit"]
           L == Loop(T, "restore", back)
<1>1. /\ TypeOK /\ S \in Session /\ Good(p, S, lock) /\ S.at = "credit"
      /\ S.user \in Users /\ S.amount \in Int
  BY DEF TopUpCredit, Inductive, TypeOK, Good, OpenOf, Session
<1>2. /\ CanLock(p, S.user) /\ lock' = [lock EXCEPT ![S.user] = p]
      /\ UNCHANGED <<tables, panel, clock, bounds>>
      /\ Become(p, L) \/ Become(p, C)
  BY DEF TopUpCredit
<1>3. /\ lock' \in [Users -> Procs \cup {Free}] /\ OthersKeep(p)
      /\ lock'[S.user] = p /\ \A v \in Users : lock[v] = p => lock'[v] = p
  BY <1>1, <1>2, LockStep
<1>4. Good(p, S, lock')
  BY <1>1, <1>3, GoodLock
<1>5. Good(p, T, lock') /\ T.at = "credit" /\ T.user = S.user
  BY <1>1, <1>3, <1>4, GoodMove DEF Kinds
<1>6. back \in SUBSET Services
  BY DEF Owned
<1> HIDE DEF T, back
<1>7. Good(p, L, lock')
  BY <1>1, <1>5, <1>6, GoodLoop DEF Phases
<1>8. Good(p, C, lock')
  <2>1. /\ C \in Session
        /\ C.touched = T.touched /\ C.txn = T.txn /\ C.seen = T.seen
        /\ C.base = T.base /\ C.orm = T.orm /\ C.log = T.log /\ C.bal = T.bal
        /\ C.user = T.user /\ C.at = "commit"
    BY <1>5 DEF Good, Session, Phases
  <2> HIDE DEF C
  <2>2. QED
    BY <1>1, <1>5, <2>1, GoodSet
<1> HIDE DEF L, C
<1>9. QED
  BY <1>1, <1>2, <1>3, <1>7, <1>8, SessionStep DEF TypeOK, panel, bounds

-----------------------------------------------------------------------------
(* The cleanup job *)

LEMMA CleanStartStep ==
    ASSUME Inductive, NEW p \in Procs, CleanStart(p)
    PROVE  Inductive'
<1> DEFINE stale == {s \in Services : Stale(svc[s], clock - 1)}
           I == Idle
           cutoff == clock - 1
           T == [I EXCEPT !.at = "next", !.due = stale, !.cutoff = cutoff]
<1>1. I \in Session /\ Quiet(I)
  BY IdleType DEF Quiet, Idle
<1>2. Become(p, T) /\ UNCHANGED <<tables, lock, panel, clock, bounds>>
  BY DEF CleanStart
<1>3. stale \in SUBSET Services /\ cutoff \in Int
  BY DEF Inductive, TypeOK
<1> HIDE DEF I, stale, cutoff
<1>4. T \in Session /\ Quiet(T)
  BY <1>1, <1>3 DEF Session, Quiet, Phases
<1>5. Good(p, T, lock')
  BY <1>4, GoodQuiet
<1> HIDE DEF T
<1>6. QED
  BY <1>2, <1>5, SessionStep, SameLock DEF Inductive, TypeOK, panel, bounds

LEMMA CleanCheckStep ==
    ASSUME Inductive, NEW p \in Procs, CleanCheck(p)
    PROVE  Inductive'
<1> DEFINE S == sess[p]
<1>1. PICK s \in S.due :
        LET u == Owner[s]
            T == [LoadRows(LoadUser(S, u), {s}) EXCEPT !.due = S.due \ {s}] IN
        /\ CanLock(p, u)
        /\ IF wallet[u] <= 0 /\ Stale(svc[s], S.cutoff)
           THEN /\ lock' = [lock EXCEPT ![u] = p]
                /\ Become(p, [T EXCEPT !.at = "expire", !.todo = {s}])
           ELSE Become(p, After(T)) /\ UNCHANGED lock
  BY DEF CleanCheck
<1>2. /\ TypeOK /\ S \in Session /\ S.at = "next" /\ Good(p, S, lock)
      /\ s \in Services
  BY <1>1 DEF Inductive, TypeOK, Good, CleanCheck, Session
<1> DEFINE u == Owner[s]
           U == LoadUser(S, u)
           R == LoadRows(U, {s})
           due == S.due \ {s}
           T == [R EXCEPT !.due = due]
           E == [T EXCEPT !.at = "expire", !.todo = {s}]
<1>3. u \in Users
  BY <1>2, IdsAssumption
<1>4. \A l : Good(p, S, l) => Good(p, U, l) /\ U.at = "next" /\ U.user = u
  BY <1>2, <1>3, GoodLoadUser
<1>5. due \in SUBSET Services
  BY <1>2 DEF Session
<1>6. U \in Session
  BY <1>2, <1>4 DEF Good
<1> HIDE DEF U, due
<1>7. /\ R \in Session /\ R.touched = U.touched /\ R.txn = U.txn /\ R.bal = U.bal
      /\ R.user = U.user /\ R.at = U.at
  <2>1. {s} \in SUBSET Services
    BY <1>2
  <2>2. R \in Session
    BY <1>2, <1>6, <2>1, LoadRowsType
  <2>3. /\ R.touched = U.touched /\ R.txn = U.txn /\ R.bal = U.bal
        /\ R.user = U.user /\ R.at = U.at
    BY <1>6 DEF LoadRows, Session
  <2>4. QED
    BY <2>2, <2>3
<1>8. ASSUME NEW l, Good(p, S, l) PROVE UsageOf(p, R, svc, l) /\ MoneyOf(p, R, wallet, l)
  <2>1. Good(p, U, l) /\ U.at # "meter"
    BY <1>4, <1>8
  <2>2. UsageOf(p, R, svc, l)
    BY <1>2, <1>6, <2>1, UsageLoad DEF Good
  <2> HIDE DEF R
  <2>3. QED
    BY <1>7, <2>1, <2>2, MoneySame DEF Good
<1> HIDE DEF R
<1>9. T \in Session
  BY <1>5, <1>7 DEF Session
<1>10. /\ E \in Session
       /\ E.touched = R.touched /\ E.txn = R.txn /\ E.seen = R.seen
       /\ E.base = R.base /\ E.orm = R.orm /\ E.log = R.log /\ E.bal = R.bal
       /\ E.user = R.user /\ E.at = "expire"
  BY <1>2, <1>5, <1>7 DEF Session, Phases
<1> HIDE DEF E
<1>11. UNCHANGED <<tables, panel, clock, bounds>>
  BY DEF CleanCheck
<1>12. CASE wallet[u] <= 0 /\ Stale(svc[s], S.cutoff)
  <2>1. CanLock(p, u) /\ lock' = [lock EXCEPT ![u] = p] /\ Become(p, E)
    BY <1>1, <1>12 DEF E, R, U, due
  <2>2. /\ lock' \in [Users -> Procs \cup {Free}] /\ OthersKeep(p)
        /\ \A v \in Users : lock[v] = p => lock'[v] = p
    BY <1>2, <1>3, <2>1, LockStep
  <2>3. Good(p, S, lock')
    BY <1>2, <2>2, GoodLock
  <2>4. UsageOf(p, R, svc, lock') /\ MoneyOf(p, R, wallet, lock')
    BY <1>8, <2>3
  <2>5. UsageOf(p, E, svc, lock')
    BY <1>10, <2>4, UsageSame
  <2>6. MoneyOf(p, E, wallet, lock')
    BY <1>10, <2>4, MoneySame
  <2>7. OpenOf(p, E, lock')
    <3>1. U.user = u
      BY <1>2, <1>4
    <3>2. QED
      BY <1>3, <1>7, <1>10, <3>1 DEF OpenOf
  <2>8. QED
    BY <1>2, <1>10, <1>11, <2>1, <2>2, <2>5, <2>6, <2>7, SessionStep
    DEF Good, TypeOK, panel, bounds
<1>13. CASE ~(wallet[u] <= 0 /\ Stale(svc[s], S.cutoff))
  <2>1. Become(p, After(T)) /\ lock' = lock
    BY <1>1, <1>13 DEF R, U, due
  <2>2. Good(p, After(T), lock')
    BY <1>9, GoodAfter
  <2>3. QED
    BY <1>2, <1>11, <2>1, <2>2, SessionStep, SameLock DEF TypeOK, panel, bounds
<1>14. QED
  BY <1>12, <1>13

LEMMA ExpireStep ==
    ASSUME Inductive, NEW p \in Procs, Expire(p)
    PROVE  Inductive'
<1> DEFINE S == sess[p]
<1>1. PICK s \in S.todo :
        \/ /\ PanelOk(s, "gone")
           /\ Become(p, [Left(S, s) EXCEPT !.orm[s] = Deleted(S.orm[s])])
           /\ UNCHANGED lock
        \/ /\ PanelError(s, "gone")
           /\ Become(p, After(S)) /\ lock' = Unlocked(p)
  BY DEF Expire
<1>2. /\ s \in Services /\ S.orm[s] \in Row /\ TypeOK /\ S \in Session
      /\ S.at = "expire" /\ UNCHANGED <<tables, used, clock, orders>>
  BY SessionRow DEF Expire, TypeOK
<1>3. CASE /\ PanelOk(s, "gone")
           /\ Become(p, [Left(S, s) EXCEPT !.orm[s] = Deleted(S.orm[s])])
           /\ UNCHANGED lock
  <2> DEFINE r == Deleted(S.orm[s])
  <2>1. r \in Row /\ r.mb = S.orm[s].mb /\ r.billed = S.orm[s].billed
    BY <1>2, EditsKeepCounters
  <2>2. PanelOk(s, "gone") /\ Become(p, [Left(S, s) EXCEPT !.orm[s] = r]) /\ lock' = lock
    BY <1>3
  <2> HIDE DEF r
  <2>3. QED
    BY <1>2, <2>1, <2>2, TurnStep
<1>4. CASE PanelError(s, "gone") /\ Become(p, After(S)) /\ lock' = Unlocked(p)
  <2>1. Good(p, After(S), lock')
    BY <1>2, GoodAfter
  <2>2. QED
    BY <1>2, <1>4, <2>1, PanelErrorType, UnlockStep, SessionStep DEF TypeOK
<1>5. QED
  BY <1>1, <1>3, <1>4

-----------------------------------------------------------------------------
(* The buttons *)

(* A request that has loaded its user and is ready for its loop.           *)
LEMMA AskStep ==
    ASSUME Inductive, NEW p \in Procs, NEW op \in Operations, NEW S,
           Good(p, S, lock), S.at \notin {"idle", "next", "meter"}, Ask(p, op, S)
    PROVE  Inductive'
<1> DEFINE T == [S EXCEPT !.op = op]
<1>1. /\ T \in Session
      /\ T.touched = S.touched /\ T.txn = S.txn /\ T.seen = S.seen
      /\ T.base = S.base /\ T.orm = S.orm /\ T.log = S.log /\ T.bal = S.bal
      /\ T.user = S.user /\ T.at = S.at
  BY DEF Good, Session
<1>2. S.user \in Users
  BY DEF Good, OpenOf
<1>3. /\ Become(p, T) /\ UNCHANGED <<tables, lock, panel, clock, failures>>
      /\ orders' = orders + 1
  BY DEF Ask
<1> HIDE DEF T
<1>4. Good(p, T, lock)
  BY <1>1, <1>2, GoodSet
<1>5. QED
  BY <1>3, <1>4, SessionStep, SameLock DEF Inductive, TypeOK, panel

(* A request that loops over rows starts in a good session.                *)
LEMMA AskLoop ==
    ASSUME TypeOK, NEW p, NEW u \in Users, NEW rows \in SUBSET Services
    PROVE  /\ Good(p, Loop(LoadUser(Idle, u), "call", rows), lock)
           /\ Loop(LoadUser(Idle, u), "call", rows).at \notin {"idle", "next", "meter"}
<1> DEFINE L == LoadUser(Idle, u)
<1>1. Good(p, L, lock) /\ L.at = "idle" /\ L.user = u /\ L.todo = {}
  BY IdleLoaded
<1> HIDE DEF L
<1>2. Good(p, Loop(L, "call", rows), lock)
      /\ Loop(L, "call", rows).at \notin {"idle", "next", "meter"}
  BY <1>1, GoodLoop DEF Phases
<1>3. QED
  BY <1>2 DEF L

LEMMA AskServiceStep ==
    ASSUME Inductive, NEW p \in Procs, AskService(p)
    PROVE  Inductive'
<1>1. PICK s \in Services, op \in {"reactivate", "reenable", "disable", "delete"} :
        Ask(p, op, Loop(LoadUser(Idle, Owner[s]), "call", {s}))
  BY DEF AskService
<1>2. TypeOK /\ Owner[s] \in Users /\ {s} \in SUBSET Services /\ op \in Operations
  BY IdsAssumption DEF Inductive, Operations
<1> DEFINE S == Loop(LoadUser(Idle, Owner[s]), "call", {s})
<1>3. Good(p, S, lock) /\ S.at \notin {"idle", "next", "meter"}
  BY <1>2, AskLoop
<1>4. Ask(p, op, S)
  BY <1>1
<1> HIDE DEF S
<1>5. QED
  BY <1>2, <1>3, <1>4, AskStep

LEMMA AskDeleteAllStep ==
    ASSUME Inductive, NEW p \in Procs, AskDeleteAll(p)
    PROVE  Inductive'
<1>1. PICK u \in Users :
        Ask(p, "delete_all", Loop(LoadUser(Idle, u), "call",
            {s \in Owned(u) : svc[s].status # "deleted"}))
  BY DEF AskDeleteAll
<1> DEFINE rows == {s \in Owned(u) : svc[s].status # "deleted"}
           S == Loop(LoadUser(Idle, u), "call", rows)
<1>2. TypeOK /\ rows \in SUBSET Services /\ "delete_all" \in Operations
  BY DEF Inductive, Owned, Operations
<1>3. Ask(p, "delete_all", S)
  BY <1>1
<1> HIDE DEF rows
<1>4. Good(p, S, lock) /\ S.at \notin {"idle", "next", "meter"}
  BY <1>2, AskLoop
<1> HIDE DEF S
<1>5. QED
  BY <1>2, <1>3, <1>4, AskStep

LEMMA AskBlockingStep ==
    ASSUME Inductive, NEW p \in Procs, AskBlocking(p)
    PROVE  Inductive'
<1>1. PICK u \in Users, op \in {"block", "unblock"} :
        Ask(p, op, [LoadUser(Idle, u) EXCEPT !.at = op])
  BY DEF AskBlocking
<1> DEFINE L == LoadUser(Idle, u)
           S == [L EXCEPT !.at = op]
<1>2. Good(p, L, lock) /\ L.user = u
  BY IdleLoaded DEF Inductive
<1>3. op \in Operations /\ op \in Phases \ {"idle", "next", "meter"}
  BY DEF Operations, Phases
<1>4. Ask(p, op, S)
  BY <1>1
<1> HIDE DEF L
<1>5. /\ S \in Session
      /\ S.touched = L.touched /\ S.txn = L.txn /\ S.seen = L.seen
      /\ S.base = L.base /\ S.orm = L.orm /\ S.log = L.log /\ S.bal = L.bal
      /\ S.user = L.user /\ S.at = op
  BY <1>2, <1>3 DEF Good, Session
<1> HIDE DEF S
<1>6. Good(p, S, lock)
  BY <1>2, <1>3, <1>5, GoodSet
<1>7. QED
  BY <1>3, <1>4, <1>5, <1>6, AskStep

LEMMA AskDebitStep ==
    ASSUME Inductive, NEW p \in Procs, AskDebit(p)
    PROVE  Inductive'
<1>1. PICK u \in Users, a \in Amounts :
        LET capped == IF wallet[u] < a THEN wallet[u] ELSE a IN
        Ask(p, "debit", [LoadUser(Idle, u) EXCEPT !.at = "debit", !.amount = capped])
  BY DEF AskDebit
<1> DEFINE capped == IF wallet[u] < a THEN wallet[u] ELSE a
           L == LoadUser(Idle, u)
           S == [L EXCEPT !.at = "debit", !.amount = capped]
<1>2. Good(p, L, lock) /\ L.user = u
  BY IdleLoaded DEF Inductive
<1>3. "debit" \in Operations /\ "debit" \in Phases /\ capped \in Int
  BY MoneyAssumption DEF Operations, Phases, Inductive, TypeOK
<1>4. Ask(p, "debit", S)
  BY <1>1
<1> HIDE DEF L, capped
<1>5. /\ S \in Session
      /\ S.touched = L.touched /\ S.txn = L.txn /\ S.seen = L.seen
      /\ S.base = L.base /\ S.orm = L.orm /\ S.log = L.log /\ S.bal = L.bal
      /\ S.user = L.user /\ S.at = "debit"
  BY <1>2, <1>3 DEF Good, Session
<1> HIDE DEF S
<1>6. Good(p, S, lock)
  BY <1>2, <1>5, GoodSet
<1>7. QED
  BY <1>3, <1>4, <1>5, <1>6, AskStep

LEMMA SetBlockedStep ==
    ASSUME Inductive, NEW p \in Procs, SetBlocked(p)
    PROVE  Inductive'
<1> DEFINE S == sess[p]
           changes == S.blk # (S.at = "block")
           T == IF changes THEN [S EXCEPT !.mark = S.at] ELSE S
           rows == {s \in Owned(S.user) : Active(svc[s])}
           L == Loop(T, "call", rows)
           C == [T EXCEPT !.at = "commit"]
<1>1. /\ TypeOK /\ S \in Session /\ Good(p, S, lock)
      /\ S.at \in {"block", "unblock"} /\ S.user \in Users
  BY DEF SetBlocked, Inductive, TypeOK, Good, OpenOf
<1>2. /\ \/ CanLock(p, S.user) /\ lock' = [lock EXCEPT ![S.user] = p]
         \/ lock' = lock
      /\ Become(p, L) \/ Become(p, C)
      /\ UNCHANGED <<tables, panel, clock, bounds>>
  BY DEF SetBlocked
<1>3. /\ lock' \in [Users -> Procs \cup {Free}] /\ OthersKeep(p)
      /\ \A v \in Users : lock[v] = p => lock'[v] = p
  BY <1>1, <1>2, LockStep, SameLock
<1>4. Good(p, S, lock')
  BY <1>1, <1>3, GoodLock
<1>5. /\ T \in Session
      /\ T.touched = S.touched /\ T.txn = S.txn /\ T.seen = S.seen
      /\ T.base = S.base /\ T.orm = S.orm /\ T.log = S.log /\ T.bal = S.bal
      /\ T.user = S.user /\ T.at = S.at
  BY <1>1 DEF Session
<1>6. rows \in SUBSET Services
  BY DEF Owned
<1> HIDE DEF T, rows
<1>7. Good(p, T, lock')
  BY <1>1, <1>4, <1>5, GoodSet
<1>8. Good(p, L, lock')
  BY <1>1, <1>5, <1>6, <1>7, GoodLoop DEF Phases
<1>9. Good(p, C, lock')
  <2>1. /\ C \in Session
        /\ C.touched = T.touched /\ C.txn = T.txn /\ C.seen = T.seen
        /\ C.base = T.base /\ C.orm = T.orm /\ C.log = T.log /\ C.bal = T.bal
        /\ C.user = T.user /\ C.at = "commit"
    BY <1>5 DEF Session, Phases
  <2> HIDE DEF C
  <2>2. QED
    BY <1>1, <1>5, <1>7, <2>1, GoodSet
<1> HIDE DEF L, C
<1>10. QED
  BY <1>1, <1>2, <1>3, <1>8, <1>9, SessionStep DEF TypeOK, panel, bounds

LEMMA CallStep ==
    ASSUME Inductive, NEW p \in Procs, Call(p)
    PROVE  Inductive'
<1> DEFINE S == sess[p]
<1>1. PICK s \in S.todo :
        \/ /\ PanelOk(s, Wanted(S.op))
           /\ Become(p, [Left(S, s) EXCEPT !.orm[s] = Edited(S.op, S.orm[s])])
        \/ /\ PanelError(s, Wanted(S.op))
           /\ Become(p, IF S.op \in {"block", "delete_all"}
                        THEN Left(S, s) ELSE After(S))
  BY DEF Call
<1>2. /\ s \in Services /\ S.orm[s] \in Row /\ TypeOK /\ S \in Session
      /\ S.at = "call" /\ UNCHANGED <<tables, lock, used, clock, orders>>
  BY SessionRow DEF Call, TypeOK
<1> DEFINE state == Wanted(S.op)
           r == Edited(S.op, S.orm[s])
<1>3. state \in {"on", "off", "gone"}
  BY DEF Wanted
<1>4. r \in Row /\ r.mb = S.orm[s].mb /\ r.billed = S.orm[s].billed
  BY <1>2, EditsKeepCounters DEF Edited
<1>5. \/ PanelOk(s, state) /\ Become(p, [Left(S, s) EXCEPT !.orm[s] = r])
      \/ PanelError(s, state) /\ Become(p, Left(S, s))
      \/ PanelError(s, state) /\ Become(p, After(S))
  BY <1>1
<1> HIDE DEF state, r
<1>6. CASE PanelError(s, state) /\ Become(p, After(S))
  <2>1. Good(p, After(S), lock')
    BY <1>2, GoodAfter
  <2>2. QED
    BY <1>2, <1>3, <1>6, <2>1, PanelErrorType, SameLock, SessionStep DEF TypeOK
<1>7. CASE \/ PanelOk(s, state) /\ Become(p, [Left(S, s) EXCEPT !.orm[s] = r])
           \/ PanelError(s, state) /\ Become(p, Left(S, s))
  BY <1>2, <1>3, <1>4, <1>7, TurnStep
<1>8. QED
  BY <1>5, <1>6, <1>7

LEMMA DebitStep ==
    ASSUME Inductive, NEW p \in Procs, Debit(p)
    PROVE  Inductive'
<1> DEFINE S == sess[p]
           back == -S.amount
           M == Move(S, S.user, "other", back)
           C == [S EXCEPT !.at = "commit"]
           D == [M EXCEPT !.at = "commit"]
<1>1. /\ TypeOK /\ S \in Session /\ Good(p, S, lock) /\ S.at = "debit"
      /\ S.user \in Users /\ back \in Int
  <2>1. /\ TypeOK /\ S \in Session /\ Good(p, S, lock) /\ S.at = "debit"
    BY DEF Debit, Inductive, TypeOK, Good
  <2>2. S.user \in Users
    BY <2>1 DEF Good, OpenOf
  <2>3. S.amount \in Int
    BY <2>1 DEF Session
  <2>4. QED
    BY <2>1, <2>2, <2>3
<1>2. /\ CanLock(p, S.user) /\ UNCHANGED <<tables, panel, clock, bounds>>
      /\ \/ Become(p, After(S)) /\ lock' = lock
         \/ Become(p, C) /\ lock' = lock
         \/ Become(p, D) /\ lock' = [lock EXCEPT ![S.user] = p]
  BY DEF Debit
<1>3. CASE Become(p, After(S)) /\ lock' = lock
  <2>1. Good(p, After(S), lock')
    BY <1>1, GoodAfter
  <2>2. QED
    BY <1>1, <1>2, <1>3, <2>1, SessionStep, SameLock DEF TypeOK, panel, bounds
<1>4. CASE Become(p, C) /\ lock' = lock
  <2>1. /\ C \in Session
        /\ C.touched = S.touched /\ C.txn = S.txn /\ C.seen = S.seen
        /\ C.base = S.base /\ C.orm = S.orm /\ C.log = S.log /\ C.bal = S.bal
        /\ C.user = S.user /\ C.at = "commit"
    BY <1>1 DEF Session, Phases
  <2> HIDE DEF C
  <2>2. Good(p, C, lock')
    BY <1>1, <1>4, <2>1, GoodSet
  <2>3. QED
    BY <1>1, <1>2, <1>4, <2>2, SessionStep, SameLock DEF TypeOK, panel, bounds
<1>5. CASE Become(p, D) /\ lock' = [lock EXCEPT ![S.user] = p]
  <2>1. /\ lock' \in [Users -> Procs \cup {Free}] /\ OthersKeep(p)
        /\ lock'[S.user] = p /\ \A v \in Users : lock[v] = p => lock'[v] = p
    BY <1>1, <1>2, <1>5, LockStep
  <2>2. Good(p, S, lock')
    BY <1>1, <2>1, GoodLock
  <2> HIDE DEF back
  <2>3. Good(p, M, lock') /\ M.at = "debit" /\ M.user = S.user
    BY <1>1, <2>1, <2>2, GoodMove DEF Kinds
  <2> HIDE DEF M
  <2>4. /\ D \in Session
        /\ D.touched = M.touched /\ D.txn = M.txn /\ D.seen = M.seen
        /\ D.base = M.base /\ D.orm = M.orm /\ D.log = M.log /\ D.bal = M.bal
        /\ D.user = M.user /\ D.at = "commit"
    BY <2>3 DEF Good, Session, Phases
  <2> HIDE DEF D
  <2>5. Good(p, D, lock')
    BY <1>1, <2>3, <2>4, GoodSet
  <2>6. QED
    BY <1>1, <1>2, <1>5, <2>1, <2>5, SessionStep DEF TypeOK, panel, bounds
<1>6. QED
  BY <1>2, <1>3, <1>4, <1>5

-----------------------------------------------------------------------------
(* The end of a transaction *)

(* A commit adds to each counter exactly what the transaction logged.      *)
LEMMA CommitCounts ==
    ASSUME Inductive, NEW p \in Procs, Commit(p), NEW s \in Services
    PROVE  /\ svc'[s].mb = svc[s].mb + sess[p].log[s].mb
           /\ svc'[s].billed = svc[s].billed + sess[p].log[s].mb
<1> DEFINE S == sess[p]
           b == S.base[s]
           o == S.orm[s]
           c == svc[s]
           n == S.log[s].mb
<1>1. TypeOK /\ S \in Session /\ UsageOf(p, S, svc, lock)
  BY DEF Inductive, TypeOK
<1>2. b \in Row /\ o \in Row /\ c \in Row /\ n \in Nat
  BY <1>1 DEF Session, Entry, TypeOK
<1>3. /\ o.mb = b.mb + n /\ o.billed = b.billed + n
      /\ n > 0 => b.mb = c.mb /\ b.billed = c.billed
  BY <1>1 DEF UsageOf, CountersKept
<1>4. svc'[s] = Flush(b, o, c)
  BY DEF Commit
<1> HIDE DEF b, o, c, n
<1>5. svc'[s].mb = c.mb + n /\ svc'[s].billed = c.billed + n
  BY <1>2, <1>3, <1>4 DEF Flush, Keep, Row
<1>6. QED
  BY <1>5 DEF c, n

(* A commit changes no wallet and no counter that it has not locked.       *)
LEMMA CommitFrame ==
    ASSUME Inductive, NEW p \in Procs, Commit(p)
    PROVE  /\ \A u \in Users : lock[u] # p => wallet'[u] = wallet[u]
           /\ \A s \in Services : lock[Owner[s]] # p =>
                 svc'[s].mb = svc[s].mb /\ svc'[s].billed = svc[s].billed
<1> DEFINE S == sess[p]
<1>1. /\ TypeOK /\ S \in Session
      /\ MoneyOf(p, S, wallet, lock) /\ UsageOf(p, S, svc, lock)
  BY DEF Inductive, TypeOK
<1>2. ASSUME NEW u \in Users, lock[u] # p PROVE wallet'[u] = wallet[u]
  BY <1>1, <1>2 DEF Commit, Current, MoneyOf
<1>3. ASSUME NEW s \in Services, lock[Owner[s]] # p
      PROVE  svc'[s].mb = svc[s].mb /\ svc'[s].billed = svc[s].billed
  <2>1. S.log[s].mb \in Nat /\ svc[s].mb \in Nat /\ svc[s].billed \in Nat
    BY <1>1 DEF Session, Entry, TypeOK, Row
  <2>2. S.log[s].mb = 0
    BY <1>1, <1>3, <2>1 DEF UsageOf, CountersKept
  <2>3. QED
    BY <2>1, <2>2, CommitCounts
<1>4. QED
  BY <1>2, <1>3

LEMMA CommitTables ==
    ASSUME Inductive, NEW p \in Procs, Commit(p)
    PROVE  TypeOK' /\ WalletIsLedger' /\ MeteredOnce' /\ CostIsFair'
<1> DEFINE S == sess[p]
<1>1. /\ TypeOK /\ S \in Session /\ WalletIsLedger /\ MeteredOnce /\ CostIsFair
      /\ MoneyOf(p, S, wallet, lock) /\ UsageOf(p, S, svc, lock)
  BY DEF Inductive, TypeOK
<1>2. /\ svc' = [s \in Services |-> Flush(S.base[s], S.orm[s], svc[s])]
      /\ wallet' = [u \in Users |-> Current(S, u)]
      /\ ledger' = [u \in Users |->
                       [k \in Kinds |-> ledger[u][k] + S.txn[u][k]]]
      /\ usage' = [s \in Services |->
                      [mb |-> usage[s].mb + S.log[s].mb,
                       cost |-> usage[s].cost + S.log[s].cost,
                       rows |-> usage[s].rows + S.log[s].rows]]
      /\ blocked' = [u \in Users |-> IF u = S.user /\ S.mark # "none"
                                     THEN S.mark = "block" ELSE blocked[u]]
      /\ Become(p, After(S)) /\ UNCHANGED <<panel, clock, bounds>>
  BY DEF Commit
<1>3. ASSUME NEW s \in Services
      PROVE  /\ usage[s].mb \in Nat /\ usage[s].cost \in Nat /\ usage[s].rows \in Nat
             /\ S.log[s].mb \in Nat /\ S.log[s].cost \in Nat /\ S.log[s].rows \in Nat
             /\ usage'[s].mb = usage[s].mb + S.log[s].mb
             /\ usage'[s].cost = usage[s].cost + S.log[s].cost
             /\ usage'[s].rows = usage[s].rows + S.log[s].rows
  BY <1>1, <1>2 DEF TypeOK, Session, Entry
<1>4. TypeOK'
  <2>1. svc' \in [Services -> Row]
    BY <1>1, <1>2, RowTypes DEF TypeOK, Session
  <2>2. wallet' \in [Users -> Int]
    BY <1>1, <1>2 DEF TypeOK, Session, Current
  <2>3. ledger' \in [Users -> [Kinds -> Int]]
    BY <1>1, <1>2 DEF TypeOK, Session
  <2>4. usage' \in [Services -> Entry]
    BY <1>1, <1>2 DEF TypeOK, Session, Entry
  <2>5. blocked' \in [Users -> BOOLEAN]
    BY <1>1, <1>2 DEF TypeOK
  <2>6. lock' \in [Users -> Procs \cup {Free}]
    BY <1>1, UnlockStep DEF Commit
  <2>7. sess' \in [Procs -> Session]
    BY <1>1, <1>2, AfterType DEF TypeOK, Become
  <2>8. QED
    BY <1>1, <1>2, <2>1, <2>2, <2>3, <2>4, <2>5, <2>6, <2>7
    DEF TypeOK, panel, bounds
<1>5. WalletIsLedger'
  <2> SUFFICES ASSUME NEW u \in Users
               PROVE  wallet'[u] = Opening[u] + ledger'[u]["traffic"] + ledger'[u]["other"]
    BY DEF WalletIsLedger
  <2> DEFINE lt == ledger[u]["traffic"]
             lo == ledger[u]["other"]
             xt == S.txn[u]["traffic"]
             xo == S.txn[u]["other"]
             w == wallet[u]
             open == Opening[u]
  <2>1. /\ lt \in Int /\ lo \in Int /\ xt \in Int /\ xo \in Int /\ w \in Int
        /\ open \in Int
    BY <1>1, MoneyAssumption DEF TypeOK, Session, Kinds
  <2>2. ledger'[u]["traffic"] = lt + xt /\ ledger'[u]["other"] = lo + xo
    BY <1>2 DEF Kinds
  <2>3. w = open + lt + lo
    BY <1>1 DEF WalletIsLedger
  <2>4. wallet'[u] = w + xt + xo
    <3>1. CASE u \in S.touched
      BY <1>1, <1>2, <3>1 DEF Current, MoneyOf
    <3>2. CASE u \notin S.touched
      <4>1. wallet'[u] = w /\ xt = 0 /\ xo = 0
        BY <1>1, <1>2, <3>2 DEF Current, MoneyOf
      <4> HIDE DEF w, xt, xo
      <4>2. QED
        BY <2>1, <4>1
    <3>3. QED
      BY <3>1, <3>2
  <2> HIDE DEF lt, lo, xt, xo, w, open
  <2>5. wallet'[u] = open + (lt + xt) + (lo + xo)
    BY <2>1, <2>3, <2>4
  <2>6. QED
    BY <2>2, <2>5 DEF open
<1>6. MeteredOnce'
  <2> SUFFICES ASSUME NEW s \in Services
               PROVE  usage'[s].mb = svc'[s].mb /\ usage'[s].mb = svc'[s].billed
    BY DEF MeteredOnce
  <2>1. usage[s].mb = svc[s].mb /\ usage[s].mb = svc[s].billed
    BY <1>1 DEF MeteredOnce
  <2>2. QED
    BY <1>3, <2>1, CommitCounts
<1>7. CostIsFair'
  <2> SUFFICES ASSUME NEW s \in Services
               PROVE  /\ 1024 * usage'[s].cost >= usage'[s].mb * Price[s]
                      /\ 1024 * usage'[s].cost
                            <= usage'[s].mb * Price[s] + 1023 * usage'[s].rows
    BY DEF CostIsFair
  <2> DEFINE m == usage[s].mb
             c == usage[s].cost
             r == usage[s].rows
             dm == S.log[s].mb
             dc == S.log[s].cost
             dr == S.log[s].rows
             pr == Price[s]
  <2>1. /\ m \in Nat /\ c \in Nat /\ r \in Nat
        /\ dm \in Nat /\ dc \in Nat /\ dr \in Nat /\ pr \in Nat
    BY <1>3, MoneyAssumption
  <2>2. /\ 1024 * c >= m * pr /\ 1024 * c <= m * pr + 1023 * r
        /\ 1024 * dc >= dm * pr /\ 1024 * dc <= dm * pr + 1023 * dr
    BY <1>1 DEF CostIsFair, UsageOf
  <2>3. /\ usage'[s].mb = m + dm /\ usage'[s].cost = c + dc
        /\ usage'[s].rows = r + dr
    BY <1>3
  <2> HIDE DEF m, c, r, dm, dc, dr, pr
  <2>4. (m + dm) * pr = m * pr + dm * pr
    BY <2>1
  <2>5. m * pr \in Nat /\ dm * pr \in Nat
    BY <2>1, ProductNat
  <2>6. /\ 1024 * (c + dc) >= (m + dm) * pr
        /\ 1024 * (c + dc) <= (m + dm) * pr + 1023 * (r + dr)
    <3> DEFINE x == m * pr
               y == dm * pr
    <3>1. x \in Nat /\ y \in Nat
      BY <2>5
    <3>2. /\ 1024 * c >= x /\ 1024 * c <= x + 1023 * r
          /\ 1024 * dc >= y /\ 1024 * dc <= y + 1023 * dr
      BY <2>2
    <3> HIDE DEF x, y
    <3>3. 1024 * (c + dc) >= x + y /\ 1024 * (c + dc) <= x + y + 1023 * (r + dr)
      BY <2>1, <3>1, <3>2
    <3>4. QED
      BY <2>4, <3>3 DEF x, y
  <2>7. QED
    BY <2>3, <2>6 DEF pr
<1>8. QED
  BY <1>4, <1>5, <1>6, <1>7

LEMMA CommitStep ==
    ASSUME Inductive, NEW p \in Procs, Commit(p)
    PROVE  Inductive'
<1> DEFINE S == sess[p]
           T == After(S)
<1>1. TypeOK /\ sess \in [Procs -> Session] /\ S \in Session
  BY DEF Inductive, TypeOK
<1>2. Become(p, T) /\ lock' = Unlocked(p)
  BY DEF Commit
<1>3. OthersKeep(p)
  BY <1>1, <1>2, UnlockStep
<1>4. Quiet(T)
  BY <1>1, AfterFields DEF Quiet
<1> HIDE DEF T
<1>5. ASSUME NEW q \in Procs
      PROVE  /\ OpenOf(q, sess'[q], lock')
             /\ MoneyOf(q, sess'[q], wallet', lock')
             /\ UsageOf(q, sess'[q], svc', lock')
  <2>1. CASE q = p
    <3>1. sess'[q] = T
      BY <1>1, <1>2, <2>1 DEF Become
    <3>2. QED
      BY <1>4, <3>1, QuietOK
  <2>2. CASE q # p
    <3>1. sess'[q] = sess[q]
      BY <1>1, <1>2, <2>2 DEF Become
    <3>2. /\ OpenOf(q, sess[q], lock) /\ MoneyOf(q, sess[q], wallet, lock)
          /\ UsageOf(q, sess[q], svc, lock)
      BY DEF Inductive
    <3>3. \A u \in Users : lock[u] = q => lock'[u] = q /\ wallet'[u] = wallet[u]
      BY <1>3, <2>2, CommitFrame DEF OthersKeep
    <3>4. \A s \in Services : lock[Owner[s]] = q =>
            /\ lock'[Owner[s]] = q
            /\ svc'[s].mb = svc[s].mb /\ svc'[s].billed = svc[s].billed
      BY <2>2, <3>3, CommitFrame, IdsAssumption
    <3>5. OpenOf(q, sess[q], lock')
      BY <3>2, <3>3 DEF OpenOf
    <3>6. MoneyOf(q, sess[q], wallet', lock')
      BY <3>2, <3>3, MoneyFrame
    <3>7. UsageOf(q, sess[q], svc', lock')
      BY <3>2, <3>4, UsageFrame
    <3>8. QED
      BY <3>1, <3>5, <3>6, <3>7
  <2>3. QED
    BY <2>1, <2>2
<1>6. QED
  BY <1>5, CommitTables DEF Inductive

LEMMA AbortStep ==
    ASSUME Inductive, NEW p \in Procs, Abort(p)
    PROVE  Inductive'
<1>1. TypeOK /\ sess[p] \in Session
  BY DEF Inductive, TypeOK
<1>2. Good(p, After(sess[p]), lock') /\ Good(p, Idle, lock')
  BY <1>1, GoodAfter, GoodIdle
<1>3. /\ failures' \in Nat /\ lock' = Unlocked(p)
      /\ Become(p, After(sess[p])) \/ Become(p, Idle)
      /\ UNCHANGED <<tables, panel, clock, orders>>
  BY <1>1, FailsType DEF Abort
<1>4. QED
  BY <1>1, <1>2, <1>3, UnlockStep, SessionStep DEF TypeOK, panel

LEMMA UndeliveredStep ==
    ASSUME Inductive, NEW p \in Procs, Undelivered(p)
    PROVE  Inductive'
<1>1. TypeOK
  BY DEF Inductive
<1>2. Good(p, Idle, lock')
  BY GoodIdle
<1>3. /\ failures' \in Nat /\ lock' = Unlocked(p) /\ Become(p, Idle)
      /\ UNCHANGED <<tables, panel, clock, orders>>
  BY <1>1, FailsType DEF Undelivered
<1>4. QED
  BY <1>1, <1>2, <1>3, UnlockStep, SessionStep DEF TypeOK, panel

(* Traffic, a reset counter and the clock.                                 *)
LEMMA WorldStep ==
    ASSUME Inductive, (\E s \in Services : Use(s) \/ Reset(s)) \/ Tick
    PROVE  Inductive'
<1>1. TypeOK
  BY DEF Inductive
<1>2. /\ UNCHANGED <<tables, lock, sess, acct, orders>>
      /\ used' \in [Services -> Nat] /\ clock' \in Nat /\ failures' \in Nat
  BY <1>1, FailsType DEF Use, Reset, Tick, TypeOK, panel, bounds, Fails
<1>3. QED
  BY <1>1, <1>2, OutsideStep DEF TypeOK

-----------------------------------------------------------------------------
(* The invariant *)

LEMMA InitInductive == Init => Inductive
<1> SUFFICES ASSUME Init PROVE Inductive
  OBVIOUS
<1>1. TypeOK
  BY RowTypes, IdleType, MoneyAssumption
  DEF Init, TypeOK, NoMoney, NoEntry, Entry, Kinds
<1>2. WalletIsLedger
  BY MoneyAssumption DEF Init, WalletIsLedger, NoMoney, Kinds
<1>3. MeteredOnce
  BY DEF Init, MeteredOnce, NoEntry, NewRow
<1>4. CostIsFair
  BY MoneyAssumption DEF Init, CostIsFair, NoEntry
<1>5. ASSUME NEW p \in Procs PROVE Good(p, sess[p], lock)
  BY GoodIdle DEF Init
<1>6. QED
  BY <1>1, <1>2, <1>3, <1>4, <1>5 DEF Inductive, Good

LEMMA NextInductive == Inductive /\ [Next]_vars => Inductive'
<1> SUFFICES ASSUME Inductive, [Next]_vars PROVE Inductive'
  OBVIOUS
<1>1. CASE UNCHANGED vars
  <2>1. UNCHANGED <<tables, lock, sess>> /\ UNCHANGED <<panel, clock, bounds>>
    BY <1>1 DEF vars
  <2>2. QED
    BY <2>1, OutsideStep DEF Inductive, TypeOK, panel, bounds
<1>2. ASSUME NEW p \in Syncs, SyncStep(p) PROVE Inductive'
  <2>1. p \in Procs
    BY DEF Procs
  <2>2. QED
    BY <1>2, <2>1, SyncStartStep, SyncLockStep, MeterErrorStep, MeterIdleStep,
       MeterChargeStep, DecideStep, CutStep, RestoreStep, CommitStep DEF SyncStep
<1>3. ASSUME NEW p \in Cashiers, TopUpBegin(p) \/ TopUpStep(p) PROVE Inductive'
  <2>1. p \in Procs
    BY DEF Procs
  <2>2. QED
    BY <1>3, <2>1, TopUpBeginStep, TopUpCreditStep, RestoreStep, CommitStep
    DEF TopUpStep
<1>4. ASSUME NEW p \in Cleaners, CleanStep(p) PROVE Inductive'
  <2>1. p \in Procs
    BY DEF Procs
  <2>2. QED
    BY <1>4, <2>1, CleanStartStep, CleanCheckStep, ExpireStep, CommitStep
    DEF CleanStep
<1>5. ASSUME NEW p \in Desks, DeskAsk(p) \/ DeskStep(p) \/ Undelivered(p)
      PROVE  Inductive'
  <2>1. p \in Procs
    BY DEF Procs
  <2>2. QED
    BY <1>5, <2>1, AskServiceStep, AskDeleteAllStep, AskBlockingStep, AskDebitStep,
       SetBlockedStep, CallStep, DebitStep, CommitStep, UndeliveredStep
    DEF DeskAsk, DeskStep
<1>6. ASSUME NEW p \in Procs, Abort(p) PROVE Inductive'
  BY <1>6, AbortStep
<1>7. CASE (\E s \in Services : Use(s) \/ Reset(s)) \/ Tick
  BY <1>7, WorldStep
<1>8. QED
  BY <1>1, <1>2, <1>3, <1>4, <1>5, <1>6, <1>7 DEF Next

(* Inductive holds in every reachable state of any number of syncs,        *)
(* top-ups, cleanups and buttons, and under any failures: the row locks    *)
(* and the partial writes of a commit are enough.                          *)
THEOREM InductiveInvariant == Spec => []Inductive
  BY InitInductive, NextInductive, PTL DEF Spec

(* Every table, lock, session and panel record keeps its shape.            *)
THEOREM TypeCorrect == Spec => []TypeOK
<1>1. Inductive => TypeOK
  BY DEF Inductive
<1>2. QED
  BY <1>1, InductiveInvariant, PTL

(* The stored balance of wallet.py is always the opening balance plus the  *)
(* wallet transactions.                                                    *)
THEOREM LedgerCorrect == Spec => []WalletIsLedger
<1>1. Inductive => WalletIsLedger
  BY DEF Inductive
<1>2. QED
  BY <1>1, InductiveInvariant, PTL

(* "concurrent syncs must not charge twice" (billing.py): the usage logs   *)
(* add up to the counter billing has reached.                              *)
THEOREM ChargedOnce == Spec => []MeteredOnce
<1>1. Inductive => MeteredOnce
  BY DEF Inductive
<1>2. QED
  BY <1>1, InductiveInvariant, PTL

(* The cost logged for a service is its traffic at the price per GiB,      *)
(* rounded up by less than one toman per interval (cost_for_mb).           *)
THEOREM FairCost == Spec => []CostIsFair
<1>1. Inductive => CostIsFair
  BY DEF Inductive
<1>2. QED
  BY <1>1, InductiveInvariant, PTL

-----------------------------------------------------------------------------
(* Who is allowed to delete *)

(* No button that switches an account is pressed: these buttons take no    *)
(* lock before they read.                                                  *)
Calm == Requests \subseteq {"unblock", "debit"}

(* A cleanup that is about to delete holds the customer, who has no money. *)
HoldsOf(p, S, w, l) ==
    S.at = "expire" =>
        /\ l[S.user] = p /\ w[S.user] <= 0
        /\ \A s \in S.todo : Owner[s] = S.user

(* While it is calm, whoever has loaded a row holds its customer: the row  *)
(* is still the committed one, it is not deleted if it is to be changed,   *)
(* and a row that is to be deleted has been out of money for 48 hours.     *)
Loops == {"meter", "cut", "restore", "expire"}
RowsOf(p, S, rows, l, now) ==
    /\ S.at \notin {"call", "block"}
    /\ S.due # {} \/ S.at = "expire" => S.cutoff <= now - 1
    /\ S.at = "expire" => \A s \in S.todo : Stale(rows[s], S.cutoff)
    /\ S.at \in Loops => \A s \in S.todo : s \in S.seen /\ rows[s].status # "deleted"
    /\ \A s \in S.seen : l[Owner[s]] = p /\ S.base[s] = rows[s]
    /\ \A s \in Services :
        S.orm[s] # S.base[s] => s \in S.seen /\ rows[s].status # "deleted"

Fit(p, S, l) ==
    /\ S \in Session /\ HoldsOf(p, S, wallet, l)
    /\ Calm => RowsOf(p, S, svc, l, clock)
Held ==
    \A p \in Procs :
        /\ HoldsOf(p, sess[p], wallet, lock)
        /\ Calm => RowsOf(p, sess[p], svc, lock, clock)

(* Nothing is loaded, and nothing is to be written.                        *)
Blank(S) ==
    /\ S.seen = {} /\ S.todo = {} /\ S.orm = S.base
    /\ S.at \in {"idle", "next", "credit", "unblock", "debit"}
LEMMA BlankFits ==
    ASSUME NEW p, NEW l, NEW S \in Session, Blank(S),
           Calm => (S.due # {} => S.cutoff <= clock - 1)
    PROVE  Fit(p, S, l)
BY DEF Fit, HoldsOf, RowsOf, Blank, Loops

LEMMA IdleBlank ==
    /\ Idle \in Session /\ Blank(Idle) /\ Idle.due = {} /\ Idle.at = "idle" /\ Idle.queue = {}
BY IdleType DEF Idle, Blank

LEMMA AfterBlank ==
    ASSUME NEW S \in Session
    PROVE  /\ After(S) \in Session /\ Blank(After(S)) /\ After(S).due = S.due
           /\ After(S).due # {} => After(S).cutoff = S.cutoff
<1>. DEFINE I == Idle
            at == IF S.queue = {} /\ S.due = {} THEN "idle" ELSE "next"
            cutoff == IF S.due = {} THEN 0 ELSE S.cutoff
            T == [I EXCEPT !.at = at, !.queue = S.queue, !.due = S.due, !.cutoff = cutoff]
<1>1. After(S) = T /\ After(S) \in Session
  BY AfterType DEF After
<1>2. I \in Session /\ Blank(I)
  BY IdleBlank
<1>3. at \in {"idle", "next"}
  OBVIOUS
<1>. HIDE DEF I, at
<1>4. /\ T.seen = {} /\ T.todo = {} /\ T.orm = T.base /\ T.at = at
      /\ T.due = S.due /\ T.cutoff = cutoff
  BY <1>2 DEF Session, Blank
<1>. HIDE DEF T
<1>. QED  BY <1>1, <1>3, <1>4 DEF Blank

LEMMA AfterFits ==
    ASSUME NEW p, NEW l, NEW l2, NEW S \in Session, Fit(p, S, l)
    PROVE  Fit(p, After(S), l2)
<1>1. Calm => (S.due # {} => S.cutoff <= clock - 1)
  BY DEF Fit, RowsOf
<1>. QED  BY <1>1, AfterBlank, BlankFits

(* Later phases of the same session, with more locks and less to do.       *)
LEMMA FitsOn ==
    ASSUME NEW p, NEW l, NEW l2, NEW S \in Session, NEW T \in Session, Fit(p, S, l),
           \A u \in Users : l[u] = p => l2[u] = p,
           T.seen = S.seen, T.base = S.base, T.orm = S.orm,
           T.due = S.due, T.cutoff = S.cutoff,
           T.at \notin {"call", "block", "expire"},
           T.at \in Loops => S.at \in Loops /\ T.todo \subseteq S.todo
    PROVE  Fit(p, T, l2)
<1>1. \A s \in Services : Owner[s] \in Users
  BY IdsAssumption
<1>2. S.seen \subseteq Services
  BY DEF Session
<1>. QED  BY <1>1, <1>2 DEF Fit, HoldsOf, RowsOf

(* A step of p that commits nothing.                                       *)
LEMMA TurnHeld ==
    ASSUME Inductive, Held, NEW p \in Procs, NEW T, Become(p, T), Fit(p, T, lock'),
           UNCHANGED <<tables, clock>>, OthersKeep(p)
    PROVE  Held'
<1>1. sess' = [sess EXCEPT ![p] = T] /\ sess \in [Procs -> Session]
  BY DEF Become, Inductive, TypeOK
<1>2. wallet' = wallet /\ svc' = svc /\ clock' = clock
  BY DEF tables
<1>3. ASSUME NEW q \in Procs
      PROVE  /\ HoldsOf(q, sess'[q], wallet, lock')
             /\ Calm => RowsOf(q, sess'[q], svc, lock', clock)
  <2>1. CASE q = p
    BY <1>1, <2>1 DEF Fit
  <2>2. CASE q # p
    <3>1. sess'[q] = sess[q] /\ sess[q] \in Session
      BY <1>1, <2>2
    <3>2. \A u \in Users : lock[u] = q => lock'[u] = q
      BY <2>2 DEF OthersKeep
    <3>3. \A s \in Services : Owner[s] \in Users
      BY IdsAssumption
    <3>4. sess[q].at = "expire" => sess[q].user \in Users
      BY DEF Inductive, OpenOf
    <3>5. sess[q].seen \subseteq Services
      BY <3>1 DEF Session
    <3>6. HoldsOf(q, sess[q], wallet, lock')
      BY <3>2, <3>4 DEF Held, HoldsOf
    <3>7. Calm => RowsOf(q, sess[q], svc, lock', clock)
      BY <3>2, <3>3, <3>5 DEF Held, RowsOf
    <3>. QED  BY <3>1, <3>6, <3>7
  <2>. QED  BY <2>1, <2>2
<1>. QED  BY <1>2, <1>3 DEF Held

LEMMA InitHeld == Init => Held
<1>. SUFFICES ASSUME Init PROVE Held
  OBVIOUS
<1>1. \A p \in Procs : sess[p] = Idle
  BY DEF Init
<1>2. \A p \in Procs : Fit(p, Idle, lock)
  BY IdleBlank, BlankFits
<1>. QED  BY <1>1, <1>2 DEF Held, Fit

(* What the helpers on sessions do to the fields of RowsOf.                *)
LEMMA LoadUserFields ==
    ASSUME TypeOK, NEW S \in Session, NEW u \in Users
    PROVE  LET T == LoadUser(S, u) IN
           /\ T \in Session /\ T.at = S.at /\ T.user = u /\ T.due = S.due
           /\ T.cutoff = S.cutoff /\ T.todo = S.todo /\ T.seen = S.seen
           /\ T.base = S.base /\ T.orm = S.orm /\ T.queue = S.queue
BY LoadUserType DEF LoadUser, Session

LEMMA LoadRowsFields ==
    ASSUME TypeOK, NEW S \in Session, NEW rows \in SUBSET Services
    PROVE  LET T == LoadRows(S, rows) IN
           /\ T \in Session /\ T.at = S.at /\ T.user = S.user /\ T.due = S.due
           /\ T.cutoff = S.cutoff /\ T.seen = S.seen \cup rows
           /\ \A s \in Services :
                /\ T.base[s] = IF s \in rows \ S.seen THEN svc[s] ELSE S.base[s]
                /\ T.orm[s] = IF s \in rows \ S.seen THEN svc[s] ELSE S.orm[s]
<1>. DEFINE base == [s \in Services |-> IF s \in rows \ S.seen THEN svc[s] ELSE S.base[s]]
            orm == [s \in Services |-> IF s \in rows \ S.seen THEN svc[s] ELSE S.orm[s]]
            seen == S.seen \cup rows
            T == [S EXCEPT !.seen = seen, !.base = base, !.orm = orm]
<1>1. T = LoadRows(S, rows) /\ T \in Session
  BY LoadRowsType DEF LoadRows
<1>2. \A s \in Services :
        /\ base[s] = IF s \in rows \ S.seen THEN svc[s] ELSE S.base[s]
        /\ orm[s] = IF s \in rows \ S.seen THEN svc[s] ELSE S.orm[s]
  OBVIOUS
<1>. HIDE DEF base, orm, seen
<1>3. /\ T.at = S.at /\ T.user = S.user /\ T.due = S.due
      /\ T.cutoff = S.cutoff /\ T.seen = seen /\ T.base = base /\ T.orm = orm
  BY DEF Session
<1>. HIDE DEF T
<1>. QED  BY <1>1, <1>2, <1>3 DEF seen

LEMMA MoveFields ==
    ASSUME TypeOK, NEW S \in Session, NEW u \in Users, NEW k \in Kinds, NEW amount \in Int
    PROVE  LET T == Move(S, u, k, amount) IN
           /\ T \in Session /\ T.at = S.at /\ T.user = S.user /\ T.due = S.due
           /\ T.cutoff = S.cutoff /\ T.todo = S.todo /\ T.seen = S.seen
           /\ T.base = S.base /\ T.orm = S.orm
<1>. DEFINE bal == [S.bal EXCEPT ![u] = Current(S, u) + amount]
            txn == [S.txn EXCEPT ![u] = [S.txn[u] EXCEPT ![k] = S.txn[u][k] + amount]]
            touched == S.touched \cup {u}
            T == [S EXCEPT !.bal = bal, !.touched = touched, !.txn = txn]
<1>1. Move(S, u, k, amount) = T
  BY DEF Move, Session
<1>. HIDE DEF bal, txn, touched
<1>2. /\ T.at = S.at /\ T.user = S.user /\ T.due = S.due /\ T.cutoff = S.cutoff
      /\ T.todo = S.todo /\ T.seen = S.seen /\ T.base = S.base /\ T.orm = S.orm
  BY DEF Session
<1>. HIDE DEF T
<1>. QED  BY <1>1, <1>2, MoveType

(* Loading rows of a customer that is held, and looping over them.         *)
LEMMA LoopFits ==
    ASSUME TypeOK, NEW p, NEW l, NEW l2, NEW S \in Session, Fit(p, S, l),
           NEW phase \in {"cut", "restore"}, NEW rows \in SUBSET Services,
           \A u \in Users : l[u] = p => l2[u] = p,
           \A s \in rows : l2[Owner[s]] = p /\ svc[s].status # "deleted"
    PROVE  Fit(p, Loop(S, phase, rows), l2)
<1>. DEFINE L == LoadRows(S, rows)
            at == IF rows = {} THEN "commit" ELSE phase
            T == [L EXCEPT !.todo = rows, !.at = at]
<1>1. T = Loop(S, phase, rows) /\ T \in Session
  BY LoopType DEF Loop, Phases
<1>2. /\ L \in Session /\ L.due = S.due /\ L.cutoff = S.cutoff /\ L.seen = S.seen \cup rows
      /\ \A s \in Services :
           /\ L.base[s] = IF s \in rows \ S.seen THEN svc[s] ELSE S.base[s]
           /\ L.orm[s] = IF s \in rows \ S.seen THEN svc[s] ELSE S.orm[s]
  BY LoadRowsFields
<1>3. at \in {"commit", "cut", "restore"}
  OBVIOUS
<1>. HIDE DEF L, at
<1>4. /\ T.at = at /\ T.todo = rows /\ T.due = S.due /\ T.cutoff = S.cutoff
      /\ T.seen = S.seen \cup rows /\ T.base = L.base /\ T.orm = L.orm
  BY <1>2 DEF Session
<1>5. S.seen \subseteq Services /\ \A s \in Services : Owner[s] \in Users
  BY IdsAssumption DEF Session
<1>. HIDE DEF T
<1>6. HoldsOf(p, T, wallet, l2)
  BY <1>3, <1>4 DEF HoldsOf
<1>7. Calm => RowsOf(p, T, svc, l2, clock)
  <2>. SUFFICES ASSUME Calm PROVE RowsOf(p, T, svc, l2, clock)
    OBVIOUS
  <2>1. RowsOf(p, S, svc, l, clock)
    BY DEF Fit
  <2>2. \A s \in T.seen : l2[Owner[s]] = p /\ T.base[s] = svc[s]
    BY <1>2, <1>4, <1>5, <2>1 DEF RowsOf
  <2>3. \A s \in Services : T.orm[s] # T.base[s] => s \in T.seen /\ svc[s].status # "deleted"
    BY <1>2, <1>4, <2>1 DEF RowsOf
  <2>. QED  BY <1>3, <1>4, <2>1, <2>2, <2>3 DEF RowsOf, Loops
<1>. QED  BY <1>1, <1>6, <1>7 DEF Fit

(* One item of a loop is dealt with: its row may have been edited.         *)
LEMMA LeftFits ==
    ASSUME NEW p, NEW l, NEW S \in Session, Fit(p, S, l), S.at \in Loops, NEW s \in S.todo,
           NEW r \in Row, NEW T \in Session,
           T.todo = S.todo \ {s}, T.at \in {"commit", S.at}, T.user = S.user,
           T.due = S.due, T.cutoff = S.cutoff, T.seen = S.seen, T.base = S.base,
           T.orm = [S.orm EXCEPT ![s] = r]
    PROVE  Fit(p, T, l)
<1>1. S.orm \in [Services -> Row] /\ s \in Services
  BY DEF Session
<1>2. \A x \in Services : x # s => T.orm[x] = S.orm[x]
  BY <1>1
<1>3. HoldsOf(p, T, wallet, l)
  BY DEF Fit, HoldsOf
<1>4. Calm => RowsOf(p, T, svc, l, clock)
  BY <1>2 DEF Fit, RowsOf, Loops
<1>. QED  BY <1>3, <1>4 DEF Fit

(* The session of a step is well-typed and fits.                           *)
LEMMA FitNow ==
    ASSUME Inductive, Held, NEW p \in Procs
    PROVE  TypeOK /\ sess[p] \in Session /\ Fit(p, sess[p], lock)
BY DEF Inductive, TypeOK, Held, Fit

(* With buttons, only the phase matters.                                   *)
LEMMA BusyHeld ==
    ASSUME Inductive, Held, NEW p \in Procs, NEW T \in Session, Become(p, T),
           ~Calm, T.at # "expire", UNCHANGED <<tables, clock>>, OthersKeep(p)
    PROVE  Held'
<1>1. Fit(p, T, lock')
  BY DEF Fit, HoldsOf
<1>. QED  BY <1>1, TurnHeld

LEMMA LeftFields ==
    ASSUME NEW S \in Session, NEW s \in Services
    PROVE  LET T == Left(S, s) IN
           /\ T \in Session /\ T.todo = S.todo \ {s} /\ T.user = S.user
           /\ T.at \in {"commit", S.at} /\ T.due = S.due /\ T.cutoff = S.cutoff
           /\ T.seen = S.seen /\ T.base = S.base /\ T.orm = S.orm
<1>. DEFINE todo == S.todo \ {s}
            at == IF todo = {} THEN "commit" ELSE S.at
            T == [S EXCEPT !.todo = todo, !.at = at]
<1>1. T = Left(S, s) /\ T \in Session
  BY LeftType DEF Left
<1>2. at \in {"commit", S.at}
  OBVIOUS
<1>. HIDE DEF at, todo
<1>3. /\ T.todo = todo /\ T.user = S.user /\ T.at = at
      /\ T.due = S.due /\ T.cutoff = S.cutoff
      /\ T.seen = S.seen /\ T.base = S.base /\ T.orm = S.orm
  BY DEF Session
<1>. HIDE DEF T
<1>. QED  BY <1>1, <1>2, <1>3 DEF todo

LEMMA EditFields ==
    ASSUME NEW S \in Session, NEW s \in Services, NEW r \in Row
    PROVE  LET T == [S EXCEPT !.orm[s] = r] IN
           /\ T \in Session /\ T.todo = S.todo /\ T.user = S.user
           /\ T.at = S.at /\ T.due = S.due /\ T.cutoff = S.cutoff
           /\ T.seen = S.seen /\ T.base = S.base /\ T.orm = [S.orm EXCEPT ![s] = r]
<1>. DEFINE orm == [S.orm EXCEPT ![s] = r]
            T == [S EXCEPT !.orm = orm]
<1>1. orm \in [Services -> Row]
  BY DEF Session
<1>2. [S EXCEPT !.orm[s] = r] = T
  BY DEF Session
<1>. HIDE DEF orm
<1>3. /\ T \in Session /\ T.todo = S.todo /\ T.user = S.user
      /\ T.at = S.at /\ T.due = S.due /\ T.cutoff = S.cutoff
      /\ T.seen = S.seen /\ T.base = S.base /\ T.orm = orm
  BY <1>1 DEF Session
<1>. HIDE DEF T
<1>. QED  BY <1>2, <1>3 DEF orm

(* One turn of a loop: the row is edited, or left as it was.               *)
LEMMA TurnFits ==
    ASSUME NEW p, NEW l, NEW S \in Session, Fit(p, S, l), S.at \in Loops,
           NEW s \in S.todo, NEW r \in Row
    PROVE  Fit(p, Left(S, s), l) /\ Fit(p, [Left(S, s) EXCEPT !.orm[s] = r], l)
<1>1. s \in Services /\ S.orm \in [Services -> Row] /\ S.orm[s] \in Row
  BY DEF Session
<1>. DEFINE L == Left(S, s)
            E == [L EXCEPT !.orm[s] = r]
<1>2. /\ L \in Session /\ L.todo = S.todo \ {s} /\ L.user = S.user
      /\ L.at \in {"commit", S.at} /\ L.due = S.due /\ L.cutoff = S.cutoff
      /\ L.seen = S.seen /\ L.base = S.base /\ L.orm = S.orm
  BY <1>1, LeftFields
<1>. HIDE DEF L
<1>3. /\ E \in Session /\ E.todo = L.todo /\ E.user = L.user
      /\ E.at = L.at /\ E.due = L.due /\ E.cutoff = L.cutoff
      /\ E.seen = L.seen /\ E.base = L.base /\ E.orm = [L.orm EXCEPT ![s] = r]
  BY <1>1, <1>2, EditFields
<1>. HIDE DEF E
<1>4. S.orm = [S.orm EXCEPT ![s] = S.orm[s]]
  BY <1>1
<1>5. Fit(p, L, l)
  BY <1>1, <1>2, <1>4, LeftFits
<1>6. Fit(p, E, l)
  BY <1>2, <1>3, LeftFits
<1>. QED  BY <1>5, <1>6 DEF L, E

-----------------------------------------------------------------------------
(* Billing *)

LEMMA SyncStartHeld ==
    ASSUME Inductive, Held, NEW p \in Procs, SyncStart(p)
    PROVE  Held'
<1>. DEFINE billable == {u \in Users : \E s \in Owned(u) : Eligible(svc[s])}
            I == Idle
            T == [I EXCEPT !.at = "next", !.queue = billable]
<1>1. I \in Session /\ Blank(I) /\ I.due = {}
  BY IdleBlank
<1>2. Become(p, T) /\ UNCHANGED <<tables, lock, clock>>
  BY DEF SyncStart
<1>3. billable \in SUBSET Users
  OBVIOUS
<1>. HIDE DEF I, billable
<1>4. T \in Session /\ Blank(T) /\ T.due = {}
  BY <1>1, <1>3 DEF Session, Blank, Phases
<1>5. Fit(p, T, lock')
  BY <1>4, BlankFits
<1>. HIDE DEF T
<1>. QED  BY <1>2, <1>5, TurnHeld, SameLock DEF Inductive

LEMMA SyncLockHeld ==
    ASSUME Inductive, Held, NEW p \in Procs, SyncLock(p)
    PROVE  Held'
<1>. DEFINE S == sess[p]
<1>1. PICK u \in First(S.queue) :
        LET rows == {s \in Owned(u) : Eligible(svc[s])}
            T == LoadRows(LoadUser(S, u), rows) IN
        /\ CanLock(p, u)
        /\ lock' = [lock EXCEPT ![u] = p]
        /\ Become(p, [T EXCEPT !.at = "meter", !.todo = rows,
                               !.queue = S.queue \ {u}])
  BY DEF SyncLock
<1>2. /\ TypeOK /\ S \in Session /\ S.at = "next" /\ Fit(p, S, lock) /\ S.seen = {}
  BY FitNow DEF SyncLock, Inductive, OpenOf
<1>3. u \in Users
  BY <1>2 DEF First, Session
<1>. DEFINE rows == {s \in Owned(u) : Eligible(svc[s])}
            U == LoadUser(S, u)
            L == LoadRows(U, rows)
            queue == S.queue \ {u}
            T == [L EXCEPT !.at = "meter", !.todo = rows, !.queue = queue]
<1>4. OthersKeep(p) /\ lock'[u] = p
  BY <1>1, <1>2, <1>3, LockStep
<1>5. /\ U \in Session /\ U.due = S.due /\ U.cutoff = S.cutoff /\ U.seen = {}
      /\ U.base = S.base /\ U.orm = S.orm
  BY <1>2, <1>3, LoadUserFields
<1>6. /\ rows \in SUBSET Services
      /\ \A s \in rows : Owner[s] = u /\ svc[s].status # "deleted"
  BY DEF Owned, Eligible, Active, OutOfMoney
<1>7. queue \in SUBSET Users
  BY <1>2 DEF Session
<1>8. Become(p, T)
  BY <1>1
<1>. HIDE DEF U, rows, queue
<1>9. /\ L \in Session /\ L.due = S.due /\ L.cutoff = S.cutoff /\ L.seen = rows
      /\ \A s \in Services :
           /\ L.base[s] = IF s \in rows THEN svc[s] ELSE S.base[s]
           /\ L.orm[s] = IF s \in rows THEN svc[s] ELSE S.orm[s]
  <2>1. /\ L \in Session /\ L.due = U.due /\ L.cutoff = U.cutoff
        /\ L.seen = U.seen \cup rows
        /\ \A s \in Services :
             /\ L.base[s] = IF s \in rows \ U.seen THEN svc[s] ELSE U.base[s]
             /\ L.orm[s] = IF s \in rows \ U.seen THEN svc[s] ELSE U.orm[s]
    BY <1>2, <1>5, <1>6, LoadRowsFields
  <2>. HIDE DEF L
  <2>2. rows \ U.seen = rows /\ U.seen \cup rows = rows
    BY <1>5
  <2>. QED  BY <1>5, <2>1, <2>2
<1>. HIDE DEF L
<1>10. /\ T \in Session /\ T.at = "meter" /\ T.todo = rows /\ T.due = S.due
       /\ T.cutoff = S.cutoff /\ T.seen = rows /\ T.base = L.base /\ T.orm = L.orm
  BY <1>6, <1>7, <1>9 DEF Session, Phases
<1>. HIDE DEF T
<1>11. Fit(p, T, lock')
  <2>1. HoldsOf(p, T, wallet, lock')
    BY <1>10 DEF HoldsOf
  <2>2. ASSUME Calm PROVE RowsOf(p, T, svc, lock', clock)
    <3>1. RowsOf(p, S, svc, lock, clock)
      BY <1>2, <2>2 DEF Fit
    <3>2. \A s \in T.seen : lock'[Owner[s]] = p /\ T.base[s] = svc[s]
      BY <1>4, <1>6, <1>9, <1>10
    <3>3. \A s \in Services :
            T.orm[s] # T.base[s] => s \in T.seen /\ svc[s].status # "deleted"
      BY <1>2, <1>9, <1>10, <3>1 DEF RowsOf
    <3>. QED  BY <1>6, <1>10, <3>1, <3>2, <3>3 DEF RowsOf
  <2>. QED  BY <1>10, <2>1, <2>2 DEF Fit
<1>. QED  BY <1>4, <1>8, <1>11, TurnHeld DEF SyncLock

LEMMA MeterErrorHeld ==
    ASSUME Inductive, Held, NEW p \in Procs, MeterError(p) \/ MeterIdle(p)
    PROVE  Held'
<1>. DEFINE S == sess[p]
            Failed(s) == [S EXCEPT !.todo = S.todo \ {s}, !.failed = TRUE]
            Same(s) == [S EXCEPT !.todo = S.todo \ {s}]
<1>1. TypeOK /\ S \in Session /\ Fit(p, S, lock) /\ S.at = "meter"
  BY FitNow DEF MeterError, MeterIdle
<1>2. PICK s : Become(p, Failed(s)) \/ Become(p, Same(s))
  BY DEF MeterError, MeterIdle, Metered
<1>3. ASSUME NEW T \in {Failed(s), Same(s)}
      PROVE  Fit(p, T, lock)
  <2>1. /\ T \in Session /\ T.at = "meter" /\ T.todo \subseteq S.todo /\ T.due = S.due
        /\ T.cutoff = S.cutoff /\ T.seen = S.seen /\ T.base = S.base /\ T.orm = S.orm
    BY <1>1 DEF Session
  <2>. QED  BY <1>1, <2>1, FitsOn DEF Loops
<1>4. PICK T : Become(p, T) /\ Fit(p, T, lock)
  BY <1>2, <1>3
<1>5. UNCHANGED <<tables, lock, clock>>
  BY DEF MeterError, MeterIdle, Metered
<1>. QED  BY <1>1, <1>4, <1>5, TurnHeld, SameLock

LEMMA DecideHeld ==
    ASSUME Inductive, Held, NEW p \in Procs, Decide(p)
    PROVE  Held'
<1>. DEFINE S == sess[p]
            broke == {s \in Owned(S.user) : Active(svc[s])}
            back == {s \in Owned(S.user) : OutOfMoney(svc[s])}
            C == [S EXCEPT !.at = "commit"]
<1>1. /\ TypeOK /\ S \in Session /\ Fit(p, S, lock) /\ S.at = "meter"
      /\ S.user \in Users /\ lock[S.user] = p
  BY FitNow, MeterOpen DEF Decide
<1>2. /\ broke \in SUBSET Services /\ back \in SUBSET Services
      /\ \A s \in broke \cup back : lock[Owner[s]] = p /\ svc[s].status # "deleted"
  BY <1>1 DEF Owned, Active, OutOfMoney
<1>3. UNCHANGED <<tables, lock, clock>>
  BY DEF Decide
<1>4. PICK T : /\ Become(p, T)
               /\ T \in {Loop(S, "cut", broke), Loop(S, "restore", back), C}
  BY DEF Decide
<1>5. Fit(p, Loop(S, "cut", broke), lock) /\ Fit(p, Loop(S, "restore", back), lock)
  <2>. HIDE DEF broke, back
  <2>. QED  BY <1>1, <1>2, LoopFits
<1>6. Fit(p, C, lock)
  <2>1. /\ C \in Session /\ C.at = "commit" /\ C.due = S.due
        /\ C.cutoff = S.cutoff /\ C.seen = S.seen /\ C.base = S.base /\ C.orm = S.orm
    BY <1>1 DEF Session, Phases
  <2>. HIDE DEF C
  <2>. QED  BY <1>1, <2>1, FitsOn DEF Loops
<1>7. Fit(p, T, lock') /\ OthersKeep(p)
  BY <1>1, <1>3, <1>4, <1>5, <1>6, SameLock
<1>. QED  BY <1>3, <1>4, <1>7, TurnHeld

(* Charging edits the counters of a row that is held.                      *)
LEMMA MeterChargeHeld ==
    ASSUME Inductive, Held, NEW p \in Procs, MeterCharge(p)
    PROVE  Held'
<1>. DEFINE S == sess[p]
<1>1. PICK s \in First(S.todo) :
        LET T == Charged(S, s)
            cash == Cashback(T.log[s].cost, Percent)
            inviter == Inviter[S.user] IN
        /\ acct[s] # "gone" /\ Grown(S, s)
        /\ IF cash > 0 /\ inviter # NoUser
           THEN /\ CanLock(p, inviter)
                /\ lock' = [lock EXCEPT ![inviter] = p]
                /\ Metered(p, Move(T, inviter, "other", cash))
           ELSE Metered(p, T) /\ UNCHANGED lock
  BY DEF MeterCharge
<1>. DEFINE T == Charged(S, s)
            cash == Cashback(T.log[s].cost, Percent)
            inviter == Inviter[S.user]
<1>2. /\ TypeOK /\ S.user \in Users /\ S.at = "meter" /\ S \in Session /\ Fit(p, S, lock)
      /\ s \in S.todo /\ s \in Services
  BY <1>1, FitNow, MeterOpen DEF MeterCharge
<1>3. T.log[s].cost \in Nat /\ T \in Session /\ T.at = "meter"
  BY <1>1, <1>2, ChargedGood DEF Grown, Good
<1>4. cash \in Int
  BY <1>3, CashbackInt, MoneyAssumption
<1>5. /\ T.todo = S.todo \ {s} /\ T.user = S.user
      /\ T.due = S.due /\ T.cutoff = S.cutoff /\ T.seen = S.seen /\ T.base = S.base
      /\ \E r \in Row : T.orm = [S.orm EXCEPT ![s] = r]
  <2>. DEFINE delta == used[s] - S.orm[s].mb
              cost == CostForMb(delta, Price[s])
              M == Move(S, S.user, "traffic", -cost)
              B == IF cost > 0 THEN M ELSE S
              todo == S.todo \ {s}
              r == [S.orm[s] EXCEPT !.mb = used[s], !.billed = S.orm[s].billed + delta]
              e == [mb |-> delta, cost |-> cost, rows |-> 1]
              orm == [B.orm EXCEPT ![s] = r]
              log == [B.log EXCEPT ![s] = e]
              C == [B EXCEPT !.todo = todo, !.orm = orm, !.log = log]
  <2>1. /\ S.orm[s] \in Row /\ used[s] \in Nat /\ Price[s] \in Nat /\ S.orm[s].mb \in Nat
        /\ delta \in Nat /\ S.orm[s].billed + delta \in Nat
    BY <1>1, <1>2, MoneyAssumption DEF Session, TypeOK, Row, Grown
  <2>2. -cost \in Int /\ "traffic" \in Kinds
    BY <2>1, CostBounds DEF Kinds
  <2>3. r \in Row
    <3>. DEFINE old == S.orm[s]
                billed == S.orm[s].billed + delta
                mb == used[s]
    <3>1. old \in Row /\ billed \in Nat /\ mb \in Nat
      BY <2>1
    <3>. HIDE DEF old, billed, mb
    <3>2. [old EXCEPT !.mb = mb, !.billed = billed] \in Row
      BY <3>1 DEF Row
    <3>. QED  BY <3>2 DEF old, billed, mb
  <2>4. /\ B \in Session /\ B.at = S.at /\ B.user = S.user /\ B.due = S.due
        /\ B.cutoff = S.cutoff /\ B.seen = S.seen /\ B.base = S.base /\ B.orm = S.orm
    <3>. HIDE DEF cost
    <3>1. /\ M \in Session /\ M.at = S.at /\ M.user = S.user /\ M.due = S.due
          /\ M.cutoff = S.cutoff /\ M.seen = S.seen /\ M.base = S.base /\ M.orm = S.orm
      BY <1>2, <2>2, MoveFields
    <3>. QED  BY <1>2, <3>1
  <2>5. T = C
    BY DEF Charged
  <2>. HIDE DEF B, r, e, orm, log, todo
  <2>6. /\ C.todo = todo /\ C.user = B.user /\ C.due = B.due /\ C.cutoff = B.cutoff
        /\ C.seen = B.seen /\ C.base = B.base /\ C.orm = orm
    BY <2>4 DEF Session
  <2>7. orm = [S.orm EXCEPT ![s] = r]
    BY <2>4 DEF orm
  <2>. HIDE DEF C, T
  <2>. QED  BY <2>3, <2>4, <2>5, <2>6, <2>7 DEF todo
<1>. HIDE DEF T, cash
<1>6. Fit(p, T, lock)
  BY <1>2, <1>3, <1>5, LeftFits DEF Loops
<1>7. UNCHANGED <<tables, clock>>
  BY <1>1 DEF Metered
<1>8. CASE cash > 0 /\ inviter # NoUser
  <2>. DEFINE M == Move(T, inviter, "other", cash)
  <2>1. /\ CanLock(p, inviter) /\ lock' = [lock EXCEPT ![inviter] = p]
        /\ Become(p, M)
    BY <1>1, <1>8 DEF T, cash, Metered
  <2>2. inviter \in Users /\ "other" \in Kinds
    BY <1>2, <1>8, IdsAssumption DEF Kinds
  <2>3. OthersKeep(p) /\ \A v \in Users : lock[v] = p => lock'[v] = p
    BY <1>2, <2>1, <2>2, LockStep
  <2>4. /\ M \in Session /\ M.at = T.at /\ M.due = T.due /\ M.todo = T.todo
        /\ M.cutoff = T.cutoff /\ M.seen = T.seen /\ M.base = T.base /\ M.orm = T.orm
    BY <1>2, <1>3, <1>4, <2>2, MoveFields
  <2>. HIDE DEF M
  <2>5. Fit(p, M, lock')
    BY <1>3, <1>6, <2>3, <2>4, FitsOn DEF Loops
  <2>. QED  BY <1>7, <2>1, <2>3, <2>5, TurnHeld
<1>9. CASE ~(cash > 0 /\ inviter # NoUser)
  <2>1. Become(p, T) /\ lock' = lock
    BY <1>1, <1>9 DEF T, cash, Metered
  <2>. QED  BY <1>2, <1>6, <1>7, <2>1, TurnHeld, SameLock
<1>. QED  BY <1>8, <1>9

LEMMA SwitchHeld ==
    ASSUME Inductive, Held, NEW p \in Procs, Cut(p) \/ Restore(p)
    PROVE  Held'
<1>. DEFINE S == sess[p]
<1>1. /\ TypeOK /\ S \in Session /\ Fit(p, S, lock) /\ S.at \in Loops
      /\ UNCHANGED <<tables, lock, clock>>
  BY FitNow DEF Cut, Restore, SwitchAccount, Loops
<1>2. PICK s \in S.todo :
        \/ Become(p, [Left(S, s) EXCEPT !.orm[s] = Disabled(S.orm[s], "wallet")])
        \/ Become(p, [Left(S, s) EXCEPT !.orm[s] = Enabled(S.orm[s])])
        \/ Become(p, Left(S, s))
  BY DEF Cut, Restore, SwitchAccount
<1>3. S.orm[s] \in Row
  BY SessionRow
<1>4. Disabled(S.orm[s], "wallet") \in Row /\ Enabled(S.orm[s]) \in Row
  BY <1>1, <1>3, EditsKeepCounters
<1>5. PICK T : Become(p, T) /\ Fit(p, T, lock)
  BY <1>1, <1>2, <1>4, TurnFits
<1>. QED  BY <1>1, <1>5, TurnHeld, SameLock
-----------------------------------------------------------------------------
(* Top-ups and the cleanup *)

LEMMA LoadedBlank ==
    ASSUME TypeOK, NEW u \in Users
    PROVE  LET T == LoadUser(Idle, u) IN T \in Session /\ Blank(T) /\ T.due = {}
<1>. DEFINE I == Idle
            T == LoadUser(I, u)
<1>1. I \in Session /\ Blank(I) /\ I.due = {} /\ I.at = "idle"
  BY IdleBlank
<1>. HIDE DEF I
<1>2. /\ T \in Session /\ T.at = I.at /\ T.due = I.due /\ T.todo = I.todo
      /\ T.seen = I.seen /\ T.base = I.base /\ T.orm = I.orm
  BY <1>1, LoadUserFields
<1>. HIDE DEF T
<1>3. T \in Session /\ Blank(T) /\ T.due = {}
  BY <1>1, <1>2 DEF Blank
<1>. QED  BY <1>3 DEF T, I

LEMMA TopUpBeginHeld ==
    ASSUME Inductive, Held, NEW p \in Procs, TopUpBegin(p)
    PROVE  Held'
<1>1. PICK u \in Users, a \in Amounts :
        Become(p, [LoadUser(Idle, u) EXCEPT !.at = "credit", !.amount = a])
  BY DEF TopUpBegin
<1>. DEFINE L == LoadUser(Idle, u)
            T == [L EXCEPT !.at = "credit", !.amount = a]
<1>2. L \in Session /\ Blank(L) /\ L.due = {} /\ a \in Int
  BY LoadedBlank, MoneyAssumption DEF Inductive
<1>3. Become(p, T) /\ UNCHANGED <<tables, lock, clock>>
  BY <1>1 DEF TopUpBegin
<1>. HIDE DEF L
<1>4. T \in Session /\ Blank(T) /\ T.due = {}
  BY <1>2 DEF Session, Phases, Blank
<1>. HIDE DEF T
<1>. QED  BY <1>3, <1>4, BlankFits, TurnHeld, SameLock DEF Inductive

LEMMA TopUpCreditHeld ==
    ASSUME Inductive, Held, NEW p \in Procs, TopUpCredit(p)
    PROVE  Held'
<1>. DEFINE S == sess[p]
            M == Move(S, S.user, "other", S.amount)
            back == {s \in Owned(S.user) : OutOfMoney(svc[s])}
            C == [M EXCEPT !.at = "commit"]
            L == Loop(M, "restore", back)
<1>1. /\ TypeOK /\ S \in Session /\ Fit(p, S, lock) /\ S.at = "credit"
      /\ S.user \in Users /\ S.amount \in Int
  BY FitNow DEF TopUpCredit, Inductive, OpenOf, Session
<1>2. /\ CanLock(p, S.user) /\ lock' = [lock EXCEPT ![S.user] = p]
      /\ UNCHANGED <<tables, clock>>
      /\ Become(p, L) \/ Become(p, C)
  BY DEF TopUpCredit
<1>3. /\ OthersKeep(p) /\ lock'[S.user] = p
      /\ \A v \in Users : lock[v] = p => lock'[v] = p
  BY <1>1, <1>2, LockStep
<1>4. /\ M \in Session /\ M.at = S.at /\ M.due = S.due /\ M.cutoff = S.cutoff
      /\ M.seen = S.seen /\ M.base = S.base /\ M.orm = S.orm
  BY <1>1, MoveFields DEF Kinds
<1>. HIDE DEF M
<1>5. Fit(p, M, lock')
  BY <1>1, <1>3, <1>4, FitsOn DEF Loops
<1>6. Fit(p, L, lock')
  <2>1. \A s \in back : lock'[Owner[s]] = p /\ svc[s].status # "deleted"
    BY <1>3 DEF Owned, OutOfMoney
  <2>2. back \in SUBSET Services
    BY DEF Owned
  <2>. HIDE DEF back
  <2>. QED  BY <1>1, <1>4, <1>5, <2>1, <2>2, LoopFits
<1>7. Fit(p, C, lock')
  <2>1. /\ C \in Session /\ C.at = "commit" /\ C.due = M.due /\ C.cutoff = M.cutoff
        /\ C.seen = M.seen /\ C.base = M.base /\ C.orm = M.orm
    BY <1>4 DEF Session, Phases
  <2>. HIDE DEF C
  <2>. QED  BY <1>4, <1>5, <2>1, FitsOn DEF Loops
<1>. HIDE DEF L, C
<1>. QED  BY <1>2, <1>3, <1>6, <1>7, TurnHeld

LEMMA CleanStartHeld ==
    ASSUME Inductive, Held, NEW p \in Procs, CleanStart(p)
    PROVE  Held'
<1>. DEFINE stale == {s \in Services : Stale(svc[s], clock - 1)}
            I == Idle
            cutoff == clock - 1
            T == [I EXCEPT !.at = "next", !.due = stale, !.cutoff = cutoff]
<1>1. I \in Session /\ Blank(I)
  BY IdleBlank
<1>2. Become(p, T) /\ UNCHANGED <<tables, lock, clock>>
  BY DEF CleanStart
<1>3. stale \in SUBSET Services /\ cutoff \in Int /\ cutoff <= clock - 1
  BY DEF Inductive, TypeOK
<1>. HIDE DEF I, stale, cutoff
<1>4. T \in Session /\ Blank(T) /\ T.cutoff = cutoff
  BY <1>1, <1>3 DEF Session, Blank, Phases
<1>5. Fit(p, T, lock')
  BY <1>3, <1>4, BlankFits
<1>. HIDE DEF T
<1>. QED  BY <1>2, <1>5, TurnHeld, SameLock DEF Inductive

(* The row and the wallet of a candidate are read under its customer's lock *)
(* before it is deleted.                                                   *)
LEMMA CleanCheckHeld ==
    ASSUME Inductive, Held, NEW p \in Procs, CleanCheck(p)
    PROVE  Held'
<1>. DEFINE S == sess[p]
<1>1. PICK s \in S.due :
        LET u == Owner[s]
            T == [LoadRows(LoadUser(S, u), {s}) EXCEPT !.due = S.due \ {s}] IN
        /\ CanLock(p, u)
        /\ IF wallet[u] <= 0 /\ Stale(svc[s], S.cutoff)
           THEN /\ lock' = [lock EXCEPT ![u] = p]
                /\ Become(p, [T EXCEPT !.at = "expire", !.todo = {s}])
           ELSE Become(p, After(T)) /\ UNCHANGED lock
  BY DEF CleanCheck
<1>2. /\ TypeOK /\ S \in Session /\ S.at = "next" /\ Fit(p, S, lock)
      /\ s \in Services /\ S.seen = {} /\ S.due # {}
  BY <1>1, FitNow DEF CleanCheck, Inductive, OpenOf, Session
<1>. DEFINE u == Owner[s]
            U == LoadUser(S, u)
            L == LoadRows(U, {s})
            due == S.due \ {s}
            T == [L EXCEPT !.due = due]
            E == [T EXCEPT !.at = "expire", !.todo = {s}]
<1>3. u \in Users /\ {s} \in SUBSET Services
  BY <1>2, IdsAssumption
<1>4. due \in SUBSET Services
  BY <1>2 DEF Session
<1>5. UNCHANGED <<tables, clock>>
  BY DEF CleanCheck
<1>6. /\ U \in Session /\ U.at = "next" /\ U.user = u /\ U.cutoff = S.cutoff /\ U.seen = {}
      /\ U.base = S.base /\ U.orm = S.orm
  BY <1>2, <1>3, LoadUserFields
<1>. HIDE DEF U, due
<1>7. /\ L \in Session /\ L.at = "next" /\ L.user = u /\ L.cutoff = S.cutoff
      /\ L.seen = {s}
      /\ \A x \in Services :
           /\ L.base[x] = IF x = s THEN svc[x] ELSE S.base[x]
           /\ L.orm[x] = IF x = s THEN svc[x] ELSE S.orm[x]
  <2>1. /\ L \in Session /\ L.at = U.at /\ L.user = U.user /\ L.cutoff = U.cutoff
        /\ L.seen = U.seen \cup {s}
        /\ \A x \in Services :
             /\ L.base[x] = IF x \in {s} \ U.seen THEN svc[x] ELSE U.base[x]
             /\ L.orm[x] = IF x \in {s} \ U.seen THEN svc[x] ELSE U.orm[x]
    BY <1>2, <1>3, <1>6, LoadRowsFields
  <2>. HIDE DEF L
  <2>2. {s} \ U.seen = {s} /\ U.seen \cup {s} = {s}
    BY <1>6
  <2>. QED  BY <1>6, <2>1, <2>2
<1>. HIDE DEF L
<1>8. /\ T \in Session /\ T.at = "next" /\ T.cutoff = S.cutoff /\ T.due = due
      /\ T.seen = {s} /\ T.base = L.base /\ T.orm = L.orm
  BY <1>4, <1>7 DEF Session
<1>9. CASE wallet[u] <= 0 /\ Stale(svc[s], S.cutoff)
  <2>1. CanLock(p, u) /\ lock' = [lock EXCEPT ![u] = p] /\ Become(p, E)
    BY <1>1, <1>9 DEF L, U, due
  <2>2. OthersKeep(p) /\ lock'[u] = p
    BY <1>2, <1>3, <2>1, LockStep
  <2>3. /\ E \in Session /\ E.at = "expire" /\ E.todo = {s} /\ E.user = u
        /\ E.cutoff = S.cutoff /\ E.seen = {s} /\ E.base = L.base /\ E.orm = L.orm
    BY <1>2, <1>4, <1>7 DEF Session, Phases
  <2>. HIDE DEF E
  <2>4. HoldsOf(p, E, wallet, lock')
    BY <1>9, <2>2, <2>3 DEF HoldsOf
  <2>5. ASSUME Calm PROVE RowsOf(p, E, svc, lock', clock)
    <3>1. RowsOf(p, S, svc, lock, clock)
      BY <1>2, <2>5 DEF Fit
    <3>2. S.cutoff <= clock - 1
      BY <1>2, <3>1 DEF RowsOf
    <3>3. svc[s].status # "deleted"
      BY <1>9 DEF Stale, OutOfMoney
    <3>4. \A x \in E.seen : lock'[Owner[x]] = p /\ E.base[x] = svc[x]
      BY <1>2, <1>7, <2>2, <2>3
    <3>5. \A x \in Services : E.orm[x] # E.base[x] => FALSE
      BY <1>2, <1>7, <2>3, <3>1 DEF RowsOf
    <3>. QED  BY <1>9, <2>3, <3>2, <3>3, <3>4, <3>5 DEF RowsOf
  <2>6. Fit(p, E, lock')
    BY <2>3, <2>4, <2>5 DEF Fit
  <2>. QED  BY <1>5, <2>1, <2>2, <2>6, TurnHeld
<1>10. CASE ~(wallet[u] <= 0 /\ Stale(svc[s], S.cutoff))
  <2>1. Become(p, After(T)) /\ lock' = lock
    BY <1>1, <1>10 DEF L, U, due
  <2>. HIDE DEF T
  <2>2. /\ After(T) \in Session /\ Blank(After(T))
        /\ After(T).due # {} => After(T).cutoff = S.cutoff
    BY <1>8, AfterBlank
  <2>3. Calm => S.cutoff <= clock - 1
    BY <1>2 DEF Fit, RowsOf
  <2>. QED  BY <1>2, <1>5, <2>1, <2>2, <2>3, BlankFits, TurnHeld, SameLock
<1>. QED  BY <1>9, <1>10

LEMMA ExpireHeld ==
    ASSUME Inductive, Held, NEW p \in Procs, Expire(p)
    PROVE  Held'
<1>. DEFINE S == sess[p]
<1>1. PICK s \in S.todo :
        \/ /\ Become(p, [Left(S, s) EXCEPT !.orm[s] = Deleted(S.orm[s])])
           /\ UNCHANGED lock
        \/ Become(p, After(S)) /\ lock' = Unlocked(p)
  BY DEF Expire
<1>2. /\ TypeOK /\ S \in Session /\ Fit(p, S, lock) /\ S.at \in Loops
      /\ UNCHANGED <<tables, clock>>
  BY FitNow DEF Expire, Loops
<1>3. Deleted(S.orm[s]) \in Row
  BY <1>2, SessionRow, EditsKeepCounters
<1>4. CASE /\ Become(p, [Left(S, s) EXCEPT !.orm[s] = Deleted(S.orm[s])])
           /\ lock' = lock
  <2>1. Fit(p, [Left(S, s) EXCEPT !.orm[s] = Deleted(S.orm[s])], lock)
    BY <1>2, <1>3, TurnFits
  <2>. QED  BY <1>2, <1>4, <2>1, TurnHeld, SameLock
<1>5. CASE Become(p, After(S)) /\ lock' = Unlocked(p)
  <2>1. Fit(p, After(S), lock')
    BY <1>2, AfterFits
  <2>. QED  BY <1>2, <1>5, <2>1, TurnHeld, UnlockStep
<1>. QED  BY <1>1, <1>4, <1>5

-----------------------------------------------------------------------------
(* The buttons *)

(* A removal and an unblocking load no rows.                               *)
LEMMA AskHeld ==
    ASSUME Inductive, Held, NEW p \in Procs, AskBlocking(p) \/ AskDebit(p)
    PROVE  Held'
<1>1. PICK u \in Users, op \in {"block", "unblock", "debit"} :
        /\ op \in Requests
        /\ \E amount \in Int :
             Become(p, [[LoadUser(Idle, u) EXCEPT !.at = op, !.amount = amount]
                           EXCEPT !.op = op])
  <2>1. CASE AskBlocking(p)
    <3>1. PICK u \in Users, op \in {"block", "unblock"} :
            /\ op \in Requests
            /\ Become(p, [[LoadUser(Idle, u) EXCEPT !.at = op] EXCEPT !.op = op])
      BY <2>1 DEF AskBlocking, Ask
    <3>. DEFINE L == LoadUser(Idle, u)
    <3>2. L \in Session
      BY LoadedBlank DEF Inductive
    <3>. HIDE DEF L
    <3>3. /\ L.amount \in Int
          /\ [L EXCEPT !.at = op] = [L EXCEPT !.at = op, !.amount = L.amount]
      BY <3>2 DEF Session
    <3>. QED  BY <3>1, <3>3 DEF L
  <2>2. CASE AskDebit(p)
    <3>1. PICK u \in Users, a \in Amounts :
            LET capped == IF wallet[u] < a THEN wallet[u] ELSE a IN
            Ask(p, "debit", [LoadUser(Idle, u) EXCEPT !.at = "debit", !.amount = capped])
      BY <2>2 DEF AskDebit
    <3>. DEFINE capped == IF wallet[u] < a THEN wallet[u] ELSE a
    <3>2. capped \in Int
      BY MoneyAssumption DEF Inductive, TypeOK
    <3>3. Ask(p, "debit", [LoadUser(Idle, u) EXCEPT !.at = "debit", !.amount = capped])
      BY <3>1
    <3>. HIDE DEF capped
    <3>. QED  BY <3>2, <3>3 DEF Ask
  <2>. QED  BY <2>1, <2>2
<1>2. PICK amount \in Int :
        Become(p, [[LoadUser(Idle, u) EXCEPT !.at = op, !.amount = amount] EXCEPT !.op = op])
  BY <1>1
<1>. DEFINE L == LoadUser(Idle, u)
            R == [L EXCEPT !.at = op, !.amount = amount]
            T == [R EXCEPT !.op = op]
<1>3. L \in Session /\ Blank(L) /\ L.due = {}
  BY LoadedBlank DEF Inductive
<1>4. Become(p, T) /\ UNCHANGED <<tables, lock, clock>>
  BY <1>2 DEF AskBlocking, AskDebit, Ask
<1>5. op \in Phases /\ op \in Operations
  BY DEF Phases, Operations
<1>. HIDE DEF L
<1>6. /\ T \in Session /\ T.at = op /\ T.due = {} /\ T.seen = {} /\ T.todo = {}
      /\ T.orm = T.base
  BY <1>3, <1>5 DEF Session, Blank
<1>. HIDE DEF T
<1>7. CASE op = "block"
  <2>1. ~Calm
    BY <1>1, <1>7 DEF Calm
  <2>. QED  BY <1>4, <1>6, <1>7, <2>1, BusyHeld, SameLock DEF Inductive
<1>8. CASE op # "block"
  <2>1. Blank(T)
    BY <1>6, <1>8 DEF Blank
  <2>. QED  BY <1>4, <1>6, <2>1, BlankFits, TurnHeld, SameLock DEF Inductive
<1>. QED  BY <1>7, <1>8

(* The other buttons only exist when it is not calm.                       *)
LEMMA LoopBusy ==
    ASSUME TypeOK, NEW S \in Session, NEW rows \in SUBSET Services
    PROVE  LET T == Loop(S, "call", rows) IN
           T \in Session /\ T.at \in {"commit", "call"}
<1>. DEFINE L == LoadRows(S, rows)
            at == IF rows = {} THEN "commit" ELSE "call"
            T == [L EXCEPT !.todo = rows, !.at = at]
<1>1. T = Loop(S, "call", rows) /\ T \in Session
  BY LoopType DEF Loop, Phases
<1>2. L \in Session
  BY LoadRowsType
<1>3. at \in {"commit", "call"}
  OBVIOUS
<1>. HIDE DEF L, at
<1>4. T.at = at
  BY <1>2 DEF Session
<1>. QED  BY <1>1, <1>3, <1>4

LEMMA AskLoopHeld ==
    ASSUME Inductive, Held, NEW p \in Procs, AskService(p) \/ AskDeleteAll(p)
    PROVE  Held'
<1>1. PICK u \in Users, rows \in SUBSET Services, op \in Operations \ {"unblock", "debit"} :
        Ask(p, op, Loop(LoadUser(Idle, u), "call", rows))
  <2>1. CASE AskService(p)
    <3>1. PICK s \in Services, op \in {"reactivate", "reenable", "disable", "delete"} :
            Ask(p, op, Loop(LoadUser(Idle, Owner[s]), "call", {s}))
      BY <2>1 DEF AskService
    <3>2. Owner[s] \in Users /\ op \in Operations \ {"unblock", "debit"}
          /\ {s} \in SUBSET Services
      BY IdsAssumption DEF Operations
    <3>. QED  BY <3>1, <3>2
  <2>2. CASE AskDeleteAll(p)
    <3>1. PICK u \in Users :
            Ask(p, "delete_all", Loop(LoadUser(Idle, u), "call",
                {s \in Owned(u) : svc[s].status # "deleted"}))
      BY <2>2 DEF AskDeleteAll
    <3>. DEFINE rows == {s \in Owned(u) : svc[s].status # "deleted"}
    <3>2. rows \in SUBSET Services /\ "delete_all" \in Operations \ {"unblock", "debit"}
      BY DEF Owned, Operations
    <3>3. Ask(p, "delete_all", Loop(LoadUser(Idle, u), "call", rows))
      BY <3>1
    <3>. HIDE DEF rows
    <3>. QED  BY <3>2, <3>3
  <2>. QED  BY <2>1, <2>2
<1>. DEFINE L == LoadUser(Idle, u)
            S == Loop(L, "call", rows)
            T == [S EXCEPT !.op = op]
<1>2. TypeOK /\ L \in Session
  BY LoadedBlank DEF Inductive
<1>3. /\ ~Calm /\ Become(p, T) /\ UNCHANGED <<tables, lock, clock>>
  BY <1>1 DEF Ask, Calm
<1>. HIDE DEF L
<1>4. S \in Session /\ S.at \in {"commit", "call"}
  BY <1>2, LoopBusy
<1>. HIDE DEF S
<1>5. T \in Session /\ T.at # "expire"
  BY <1>4 DEF Session
<1>. HIDE DEF T
<1>. QED  BY <1>2, <1>3, <1>5, BusyHeld, SameLock

LEMMA SetBlockedHeld ==
    ASSUME Inductive, Held, NEW p \in Procs, SetBlocked(p)
    PROVE  Held'
<1>. DEFINE S == sess[p]
            changes == S.blk # (S.at = "block")
            T == IF changes THEN [S EXCEPT !.mark = S.at] ELSE S
            rows == {s \in Owned(S.user) : Active(svc[s])}
            L == Loop(T, "call", rows)
            C == [T EXCEPT !.at = "commit"]
<1>1. /\ TypeOK /\ S \in Session /\ Fit(p, S, lock)
      /\ S.at \in {"block", "unblock"} /\ S.user \in Users
  BY FitNow DEF SetBlocked, Inductive, OpenOf
<1>2. /\ \/ CanLock(p, S.user) /\ lock' = [lock EXCEPT ![S.user] = p]
         \/ lock' = lock
      /\ Become(p, IF S.at = "block" THEN L ELSE C)
      /\ UNCHANGED <<tables, clock>>
  BY DEF SetBlocked
<1>3. OthersKeep(p) /\ \A v \in Users : lock[v] = p => lock'[v] = p
  BY <1>1, <1>2, LockStep, SameLock
<1>4. /\ T \in Session /\ T.seen = S.seen /\ T.base = S.base /\ T.orm = S.orm
      /\ T.due = S.due /\ T.cutoff = S.cutoff
  BY <1>1 DEF Session
<1>5. rows \in SUBSET Services
  BY DEF Owned
<1>. HIDE DEF T, rows
<1>6. CASE S.at = "block"
  <2>1. ~Calm
    BY <1>1, <1>6 DEF Fit, RowsOf
  <2>2. L \in Session /\ L.at # "expire"
    BY <1>1, <1>4, <1>5, LoopBusy
  <2>. HIDE DEF L
  <2>. QED  BY <1>2, <1>3, <1>6, <2>1, <2>2, BusyHeld
<1>7. CASE S.at # "block"
  <2>1. /\ C \in Session /\ C.seen = S.seen /\ C.base = S.base /\ C.orm = S.orm
        /\ C.due = S.due /\ C.cutoff = S.cutoff /\ C.at = "commit"
    BY <1>4 DEF Session, Phases
  <2>. HIDE DEF C
  <2>2. Fit(p, C, lock')
    BY <1>1, <1>3, <2>1, FitsOn DEF Loops
  <2>. QED  BY <1>2, <1>3, <1>7, <2>2, TurnHeld
<1>. QED  BY <1>6, <1>7

LEMMA CallHeld ==
    ASSUME Inductive, Held, NEW p \in Procs, Call(p)
    PROVE  Held'
<1>. DEFINE S == sess[p]
<1>1. PICK s \in S.todo :
        \/ Become(p, [Left(S, s) EXCEPT !.orm[s] = Edited(S.op, S.orm[s])])
        \/ Become(p, Left(S, s))
        \/ Become(p, After(S))
  BY DEF Call
<1>2. /\ TypeOK /\ S \in Session /\ Fit(p, S, lock) /\ S.at = "call"
      /\ s \in Services /\ S.orm[s] \in Row /\ UNCHANGED <<tables, lock, clock>>
  BY FitNow, SessionRow DEF Call
<1>3. ~Calm
  BY <1>2 DEF Fit, RowsOf
<1>. DEFINE L == Left(S, s)
            r == Edited(S.op, S.orm[s])
            E == [L EXCEPT !.orm[s] = r]
<1>4. r \in Row
  BY <1>2, EditsKeepCounters DEF Edited
<1>5. L \in Session /\ L.at \in {"commit", "call"}
  BY <1>2, LeftFields
<1>. HIDE DEF L, r
<1>6. E \in Session /\ E.at = L.at
  BY <1>2, <1>4, <1>5, EditFields
<1>. HIDE DEF E
<1>7. After(S) \in Session /\ After(S).at # "expire"
  BY <1>2, AfterBlank DEF Blank
<1>8. PICK T \in Session : Become(p, T) /\ T.at # "expire"
  BY <1>1, <1>5, <1>6, <1>7 DEF L, r, E
<1>. QED  BY <1>2, <1>3, <1>8, BusyHeld, SameLock

LEMMA DebitHeld ==
    ASSUME Inductive, Held, NEW p \in Procs, Debit(p)
    PROVE  Held'
<1>. DEFINE S == sess[p]
            back == -S.amount
            M == Move(S, S.user, "other", back)
            C == [S EXCEPT !.at = "commit"]
            D == [M EXCEPT !.at = "commit"]
<1>1. /\ TypeOK /\ S \in Session /\ Fit(p, S, lock) /\ S.at = "debit"
  BY FitNow DEF Debit
<1>2. S.user \in Users /\ back \in Int
  <2>1. S.amount \in Int
    BY <1>1 DEF Session
  <2>2. S.user \in Users
    BY <1>1 DEF Inductive, OpenOf
  <2>. QED  BY <2>1, <2>2
<1>3. /\ CanLock(p, S.user) /\ UNCHANGED <<tables, clock>>
      /\ \/ Become(p, After(S)) /\ lock' = lock
         \/ Become(p, C) /\ lock' = lock
         \/ Become(p, D) /\ lock' = [lock EXCEPT ![S.user] = p]
  BY DEF Debit
<1>4. CASE Become(p, After(S)) /\ lock' = lock
  BY <1>1, <1>3, <1>4, AfterFits, TurnHeld, SameLock
<1>5. CASE Become(p, C) /\ lock' = lock
  <2>1. /\ C \in Session /\ C.seen = S.seen /\ C.base = S.base /\ C.orm = S.orm
        /\ C.due = S.due /\ C.cutoff = S.cutoff /\ C.at = "commit"
    BY <1>1 DEF Session, Phases
  <2>. HIDE DEF C
  <2>2. Fit(p, C, lock)
    BY <1>1, <2>1, FitsOn DEF Loops
  <2>. QED  BY <1>1, <1>3, <1>5, <2>2, TurnHeld, SameLock
<1>6. CASE Become(p, D) /\ lock' = [lock EXCEPT ![S.user] = p]
  <2>1. OthersKeep(p) /\ \A v \in Users : lock[v] = p => lock'[v] = p
    BY <1>1, <1>2, <1>3, <1>6, LockStep
  <2>. HIDE DEF back
  <2>2. /\ M \in Session /\ M.at = S.at /\ M.due = S.due /\ M.cutoff = S.cutoff
        /\ M.seen = S.seen /\ M.base = S.base /\ M.orm = S.orm
    BY <1>1, <1>2, MoveFields DEF Kinds
  <2>. HIDE DEF M
  <2>3. /\ D \in Session /\ D.seen = S.seen /\ D.base = S.base /\ D.orm = S.orm
        /\ D.due = S.due /\ D.cutoff = S.cutoff /\ D.at = "commit"
    BY <2>2 DEF Session, Phases
  <2>. HIDE DEF D
  <2>4. Fit(p, D, lock')
    BY <1>1, <2>1, <2>3, FitsOn DEF Loops
  <2>. QED  BY <1>3, <1>6, <2>1, <2>4, TurnHeld
<1>. QED  BY <1>3, <1>4, <1>5, <1>6

-----------------------------------------------------------------------------
(* The end of a transaction, and the world outside *)

LEMMA FlushSame == \A b, c \in Row : Flush(b, b, c) = c
BY DEF Flush, Keep, Row

(* While it is calm, a commit writes only to rows that its session holds,  *)
(* and none of these is deleted.                                           *)
LEMMA CommitRows ==
    ASSUME Inductive, Held, Calm, NEW p \in Procs, Commit(p), NEW s \in Services
    PROVE  svc'[s] = svc[s] \/ (lock[Owner[s]] = p /\ svc[s].status # "deleted")
<1>. DEFINE S == sess[p]
<1>1. TypeOK /\ S \in Session /\ RowsOf(p, S, svc, lock, clock)
  BY FitNow DEF Fit
<1>2. svc'[s] = Flush(S.base[s], S.orm[s], svc[s])
  BY DEF Commit
<1>3. S.base[s] \in Row /\ svc[s] \in Row
  BY <1>1 DEF Session, TypeOK
<1>4. CASE S.orm[s] = S.base[s]
  BY <1>2, <1>3, <1>4, FlushSame
<1>5. CASE S.orm[s] # S.base[s]
  BY <1>1, <1>5 DEF RowsOf
<1>. QED  BY <1>4, <1>5

(* Nobody else holds what is committed, so what the others read stays.     *)
LEMMA CommitHeld ==
    ASSUME Inductive, Held, NEW p \in Procs, Commit(p)
    PROVE  Held'
<1>. DEFINE S == sess[p]
            T == After(S)
<1>1. TypeOK /\ sess \in [Procs -> Session] /\ S \in Session /\ Fit(p, S, lock)
  BY FitNow DEF TypeOK
<1>2. Become(p, T) /\ lock' = Unlocked(p) /\ clock' = clock
  BY DEF Commit
<1>3. OthersKeep(p)
  BY <1>1, <1>2, UnlockStep
<1>4. T \in Session /\ Blank(T)
  BY <1>1, AfterBlank
<1>5. Calm => (T.due # {} => T.cutoff <= clock - 1)
  BY <1>1, AfterBlank DEF Fit, RowsOf
<1>. HIDE DEF T
<1>6. ASSUME NEW q \in Procs
      PROVE  /\ HoldsOf(q, sess'[q], wallet', lock')
             /\ Calm => RowsOf(q, sess'[q], svc', lock', clock')
  <2>1. CASE q = p
    <3>1. sess'[q] = T
      BY <1>1, <1>2, <2>1 DEF Become
    <3>2. HoldsOf(q, T, wallet', lock')
      BY <1>4 DEF Blank, HoldsOf
    <3>3. Calm => RowsOf(q, T, svc', lock', clock')
      BY <1>2, <1>4, <1>5 DEF Blank, RowsOf, Loops
    <3>. QED  BY <3>1, <3>2, <3>3
  <2>2. CASE q # p
    <3>. DEFINE R == sess[q]
    <3>1. sess'[q] = R /\ R \in Session
      BY <1>1, <1>2, <2>2 DEF Become
    <3>2. \A u \in Users : lock[u] = q => lock'[u] = q /\ wallet'[u] = wallet[u]
      BY <1>3, <2>2, CommitFrame DEF OthersKeep
    <3>3. R.at = "expire" => R.user \in Users
      BY DEF Inductive, OpenOf
    <3>4. HoldsOf(q, R, wallet, lock) /\ (Calm => RowsOf(q, R, svc, lock, clock))
      BY DEF Held
    <3>. HIDE DEF R
    <3>5. HoldsOf(q, R, wallet', lock')
      BY <3>2, <3>3, <3>4 DEF HoldsOf
    <3>6. ASSUME Calm PROVE RowsOf(q, R, svc', lock', clock')
      <4>1. RowsOf(q, R, svc, lock, clock) /\ R.seen \subseteq Services /\ R.todo \subseteq Services
        BY <3>1, <3>4, <3>6 DEF Session
      <4>2. \A s \in R.seen : lock[Owner[s]] = q /\ lock'[Owner[s]] = q /\ svc'[s] = svc[s]
        <5>. TAKE s \in R.seen
        <5>1. lock[Owner[s]] = q /\ s \in Services /\ Owner[s] \in Users
          BY <4>1, IdsAssumption DEF RowsOf
        <5>2. svc'[s] = svc[s]
          BY <2>2, <3>6, <5>1, CommitRows
        <5>. QED  BY <3>2, <5>1, <5>2
      <4>. QED  BY <1>2, <4>1, <4>2 DEF RowsOf, Loops
    <3>. QED  BY <3>1, <3>5, <3>6
  <2>. QED  BY <2>1, <2>2
<1>. QED  BY <1>6 DEF Held

LEMMA EndHeld ==
    ASSUME Inductive, Held, NEW p \in Procs, Abort(p) \/ Undelivered(p)
    PROVE  Held'
<1>1. TypeOK /\ sess[p] \in Session /\ Fit(p, sess[p], lock)
  BY FitNow
<1>2. Fit(p, After(sess[p]), lock')
  BY <1>1, AfterFits
<1>3. Fit(p, Idle, lock')
  BY IdleBlank, BlankFits
<1>4. /\ lock' = Unlocked(p) /\ UNCHANGED <<tables, clock>>
      /\ Become(p, After(sess[p])) \/ Become(p, Idle)
  BY DEF Abort, Undelivered
<1>. QED  BY <1>1, <1>2, <1>3, <1>4, TurnHeld, UnlockStep

LEMMA OutsideHeld ==
    ASSUME Inductive, Held, UNCHANGED <<tables, lock, sess>>, clock' \in {clock, clock + 1}
    PROVE  Held'
<1>1. wallet' = wallet /\ svc' = svc /\ lock' = lock /\ sess' = sess
  BY DEF tables
<1>2. clock \in Nat /\ sess \in [Procs -> Session]
  BY DEF Inductive, TypeOK
<1>3. ASSUME NEW p \in Procs
      PROVE  /\ HoldsOf(p, sess[p], wallet, lock)
             /\ Calm => RowsOf(p, sess[p], svc, lock, clock')
  <2>1. HoldsOf(p, sess[p], wallet, lock) /\ (Calm => RowsOf(p, sess[p], svc, lock, clock))
    BY DEF Held
  <2>2. sess[p].cutoff \in Int
    BY <1>2 DEF Session
  <2>3. Calm => RowsOf(p, sess[p], svc, lock, clock')
    BY <1>2, <2>1, <2>2 DEF RowsOf
  <2>. QED  BY <2>1, <2>3
<1>. QED  BY <1>1, <1>3 DEF Held

LEMMA NextHeld == Inductive /\ Held /\ [Next]_vars => Held'
<1>. SUFFICES ASSUME Inductive, Held, [Next]_vars PROVE Held'
  OBVIOUS
<1>1. CASE UNCHANGED vars
  BY <1>1, OutsideHeld DEF vars
<1>2. ASSUME NEW p \in Syncs, SyncStep(p) PROVE Held'
  <2>1. p \in Procs
    BY DEF Procs
  <2>. QED
    BY <1>2, <2>1, SyncStartHeld, SyncLockHeld, MeterErrorHeld, MeterChargeHeld,
       DecideHeld, SwitchHeld, CommitHeld DEF SyncStep
<1>3. ASSUME NEW p \in Cashiers, TopUpBegin(p) \/ TopUpStep(p) PROVE Held'
  <2>1. p \in Procs
    BY DEF Procs
  <2>. QED
    BY <1>3, <2>1, TopUpBeginHeld, TopUpCreditHeld, SwitchHeld, CommitHeld DEF TopUpStep
<1>4. ASSUME NEW p \in Cleaners, CleanStep(p) PROVE Held'
  <2>1. p \in Procs
    BY DEF Procs
  <2>. QED
    BY <1>4, <2>1, CleanStartHeld, CleanCheckHeld, ExpireHeld, CommitHeld DEF CleanStep
<1>5. ASSUME NEW p \in Desks, DeskAsk(p) \/ DeskStep(p) \/ Undelivered(p)
      PROVE  Held'
  <2>1. p \in Procs
    BY DEF Procs
  <2>. QED
    BY <1>5, <2>1, AskLoopHeld, AskHeld, SetBlockedHeld, CallHeld, DebitHeld,
       CommitHeld, EndHeld DEF DeskAsk, DeskStep
<1>6. ASSUME NEW p \in Procs, Abort(p) PROVE Held'
  BY <1>6, EndHeld
<1>7. CASE (\E s \in Services : Use(s) \/ Reset(s)) \/ Tick
  BY <1>7, OutsideHeld DEF Use, Reset, Tick
<1>. QED
  BY <1>1, <1>2, <1>3, <1>4, <1>5, <1>6, <1>7 DEF Next

(* The locks of the cleanup hold in every reachable state.                 *)
THEOREM HeldInvariant == Spec => []Held
<1>1. Init => Held
  BY InitHeld
<1>2. Inductive /\ Held /\ [Next]_vars => Held'
  BY NextHeld
<1>. QED  BY <1>1, <1>2, InductiveInvariant, PTL DEF Spec

(* A deletion that the cleanup asks the panel for.                         *)
Gone(s) == acct[s] # "gone" /\ acct'[s] = "gone"

LEMMA SwitchedGone ==
    ASSUME TypeOK, NEW s \in Services, NEW x \in Services, NEW state,
           PanelOk(x, state) \/ PanelError(x, state), Gone(s)
    PROVE  x = s /\ state = "gone"
BY DEF Gone, TypeOK, PanelOk, PanelError, PanelRefused, PanelLost

LEMMA WhoDeletes ==
    ASSUME Inductive, Held, [Next]_vars, NEW s \in Services, Gone(s)
    PROVE  \/ \E p \in Cleaners : sess[p].at = "expire" /\ s \in sess[p].todo
           \/ ~Calm /\ \E p \in Desks : Call(p)
<1>1. TypeOK /\ \A p \in Procs : sess[p].todo \subseteq Services
  BY DEF Inductive, TypeOK, Session
<1>2. acct' # acct
  BY DEF Gone
<1>3. ASSUME NEW p \in Procs, Cut(p) \/ Restore(p) PROVE FALSE
  <2>1. PICK x \in sess[p].todo, state \in {"off", "on"} :
          PanelOk(x, state) \/ PanelError(x, state)
    BY <1>3 DEF Cut, Restore, SwitchAccount
  <2>. QED  BY <1>1, <2>1, SwitchedGone
<1>4. ASSUME NEW p \in Procs, Expire(p) PROVE sess[p].at = "expire" /\ s \in sess[p].todo
  BY <1>1, <1>4, SwitchedGone DEF Expire
<1>5. ASSUME NEW p \in Procs, Call(p) PROVE ~Calm
  BY <1>5, FitNow DEF Call, Fit, RowsOf
<1>6. ASSUME NEW p \in Procs, MeterError(p) PROVE FALSE
  BY <1>2, <1>6 DEF MeterError, Metered
<1>7. ASSUME NEW p \in Procs, \/ SyncStart(p) \/ SyncLock(p) \/ MeterIdle(p) \/ MeterCharge(p)
             \/ Decide(p) \/ Commit(p) \/ TopUpBegin(p) \/ TopUpCredit(p) \/ CleanStart(p)
             \/ CleanCheck(p) \/ DeskAsk(p) \/ SetBlocked(p) \/ Debit(p)
             \/ Undelivered(p) \/ Abort(p)
      PROVE FALSE
  BY <1>2, <1>7 DEF SyncStart, SyncLock, MeterIdle, MeterCharge, Metered, Decide, Commit,
     TopUpBegin, TopUpCredit, CleanStart, CleanCheck, DeskAsk, AskService, AskDeleteAll,
     AskBlocking, AskDebit, Ask, SetBlocked, Debit, Undelivered, Abort, panel
<1>8. ~(\E x \in Services : Use(x) \/ Reset(x)) /\ ~Tick /\ ~UNCHANGED vars
  BY <1>2 DEF Use, Reset, Tick, vars, panel
<1>9. Next /\ Syncs \cup Cashiers \cup Cleaners \cup Desks = Procs
  BY <1>8 DEF Procs
<1>. QED
  BY <1>3, <1>4, <1>5, <1>6, <1>7, <1>8, <1>9
  DEF Next, SyncStep, TopUpStep, CleanStep, DeskStep

(* An account that the cleanup deletes belongs to a customer who has no    *)
(* money at that moment, whatever the other jobs and the buttons do: "a    *)
(* simultaneous top-up must be committed and checked before" (billing.py). *)
THEOREM CleanupSparesPayers ==
    Spec => [][\A s \in Services, p \in Cleaners :
                 Gone(s) /\ Expire(p) => wallet[Owner[s]] <= 0]_vars
<1>1. ASSUME Inductive, Held, [Next]_vars
      PROVE  [\A s \in Services, p \in Cleaners :
                Gone(s) /\ Expire(p) => wallet[Owner[s]] <= 0]_vars
  <2>. SUFFICES ASSUME NEW s \in Services, NEW p \in Cleaners, Gone(s), Expire(p)
                PROVE  wallet[Owner[s]] <= 0
    OBVIOUS
  <2>1. p \in Procs
    BY DEF Procs
  <2>2. TypeOK /\ sess[p].todo \subseteq Services /\ HoldsOf(p, sess[p], wallet, lock)
    BY <1>1, <2>1 DEF Inductive, TypeOK, Session, Held
  <2>3. PICK x \in sess[p].todo : PanelOk(x, "gone") \/ PanelError(x, "gone")
    BY DEF Expire
  <2>4. sess[p].at = "expire" /\ s \in sess[p].todo
    BY <2>2, <2>3, SwitchedGone DEF Expire
  <2>. QED  BY <2>2, <2>4 DEF HoldsOf
<1>. QED  BY <1>1, InductiveInvariant, HeldInvariant, PTL DEF Spec

(* While no button that switches accounts is pressed, an account disappears *)
(* only while its customer has no money and its service has been out of    *)
(* money for 48 hours.                                                     *)
THEOREM OnlyBrokeExpire ==
    ASSUME Calm
    PROVE  Spec => ExpiredOnlyBroke
<1>1. ASSUME Inductive, Held, [Next]_vars
      PROVE  [\A s \in Services :
                acct[s] # "gone" /\ acct'[s] = "gone" =>
                    wallet[Owner[s]] <= 0 /\ Stale(svc[s], clock - 1)]_vars
  <2>. SUFFICES ASSUME NEW s \in Services, Gone(s)
                PROVE  wallet[Owner[s]] <= 0 /\ Stale(svc[s], clock - 1)
    BY DEF Gone
  <2>1. PICK p \in Cleaners : sess[p].at = "expire" /\ s \in sess[p].todo
    BY <1>1, WhoDeletes
  <2>2. p \in Procs
    BY DEF Procs
  <2>3. wallet[Owner[s]] <= 0 /\ Stale(svc[s], sess[p].cutoff) /\ sess[p].cutoff <= clock - 1
    BY <1>1, <2>1, <2>2 DEF Held, HoldsOf, RowsOf
  <2>4. svc[s].since \in Int /\ sess[p].cutoff \in Int /\ clock \in Int
    BY <1>1, <2>2 DEF Inductive, TypeOK, Session, Row
  <2>. QED  BY <2>3, <2>4 DEF Stale
<1>. QED  BY <1>1, InductiveInvariant, HeldInvariant, PTL DEF Spec, ExpiredOnlyBroke

LEMMA OnlyCommitsWrite ==
    ASSUME [Next]_vars
    PROVE  svc' = svc \/ \E p \in Procs : Commit(p)
<1>1. ASSUME NEW p \in Procs, \/ SyncStart(p) \/ SyncLock(p) \/ MeterError(p) \/ MeterIdle(p)
             \/ MeterCharge(p) \/ Decide(p) \/ Cut(p) \/ Restore(p) \/ TopUpBegin(p)
             \/ TopUpCredit(p) \/ CleanStart(p) \/ CleanCheck(p) \/ Expire(p) \/ DeskAsk(p)
             \/ SetBlocked(p) \/ Call(p) \/ Debit(p) \/ Undelivered(p) \/ Abort(p)
      PROVE svc' = svc
  BY <1>1 DEF SyncStart, SyncLock, MeterError, MeterIdle, MeterCharge, Metered, Decide,
     Cut, Restore, SwitchAccount, TopUpBegin, TopUpCredit, CleanStart, CleanCheck, Expire,
     DeskAsk, AskService, AskDeleteAll, AskBlocking, AskDebit, Ask, SetBlocked, Call, Debit,
     Undelivered, Abort, tables
<1>2. CASE UNCHANGED vars \/ (\E x \in Services : Use(x) \/ Reset(x)) \/ Tick
  BY <1>2 DEF Use, Reset, Tick, vars, tables
<1>3. Syncs \cup Cashiers \cup Cleaners \cup Desks = Procs
  BY DEF Procs
<1>. QED
  BY <1>1, <1>2, <1>3 DEF Next, SyncStep, TopUpStep, CleanStep, DeskStep

(* While no button that switches accounts is pressed, no transaction that  *)
(* loaded a row earlier brings a deleted service back.                     *)
THEOREM DeletedForGood ==
    ASSUME Calm
    PROVE  Spec => DeletedIsFinal
<1>1. ASSUME Inductive, Held, [Next]_vars
      PROVE  [\A s \in Services :
                svc[s].status = "deleted" => svc'[s].status = "deleted"]_vars
  <2>. SUFFICES ASSUME NEW s \in Services, svc[s].status = "deleted"
                PROVE  svc'[s].status = "deleted"
    OBVIOUS
  <2>1. ASSUME NEW p \in Procs, Commit(p) PROVE svc'[s].status = "deleted"
    BY <1>1, <2>1, CommitRows
  <2>2. CASE svc' = svc
    BY <2>2
  <2>3. svc' = svc \/ \E p \in Procs : Commit(p)
    BY <1>1, OnlyCommitsWrite
  <2>. QED  BY <2>1, <2>2, <2>3
<1>. QED  BY <1>1, InductiveInvariant, HeldInvariant, PTL DEF Spec, DeletedIsFinal

-----------------------------------------------------------------------------
(* What each step does to a session, field by field. *)

(* A session without money, log entries or rows of its own.                *)
Fresh(S) ==
    /\ S \in Session
    /\ S.txn = Idle.txn /\ S.log = Idle.log /\ S.touched = {}
    /\ S.base = Idle.base /\ S.orm = Idle.orm /\ S.todo = {}

(* The money, the log and the rows of a transaction stay as they are.      *)
MoneyKept(S, T) ==
    /\ T.user = S.user /\ T.amount = S.amount /\ T.log = S.log
    /\ T.touched = S.touched /\ T.txn = S.txn /\ T.bal = S.bal
RowsKept(S, T) == T.base = S.base /\ T.orm = S.orm

(* The pending transaction rows have grown by one of the given amount.     *)
Paid(S, T, u, kind, amount) ==
    \A v \in Users, k \in Kinds :
        T.txn[v][k] = S.txn[v][k] + (IF v = u /\ k = kind THEN amount ELSE 0)

Balanced(S, T, u, amount) ==
    \A v \in Users : T.bal[v] = IF v = u THEN Current(S, u) + amount ELSE S.bal[v]

(* Only the phase and what is left of the loop move on.                    *)
LEMMA AtDoes ==
    ASSUME NEW S \in Session, NEW at \in Phases, NEW T, T = [S EXCEPT !.at = at]
    PROVE  T \in Session /\ T.at = at /\ T.todo = S.todo /\ MoneyKept(S, T) /\ RowsKept(S, T)
BY DEF Session, MoneyKept, RowsKept

LEMMA TodoDoes ==
    ASSUME NEW S \in Session, NEW s,
           NEW T \in {[S EXCEPT !.todo = S.todo \ {s}],
                      [S EXCEPT !.todo = S.todo \ {s}, !.failed = TRUE]}
    PROVE  /\ T \in Session /\ T.at = S.at /\ T.todo = S.todo \ {s}
           /\ MoneyKept(S, T) /\ RowsKept(S, T)
BY DEF Session, MoneyKept, RowsKept

LEMMA IdleFresh == Fresh(Idle) /\ Idle.at = "idle" /\ Idle.user = NoUser
BY IdleType DEF Fresh, Idle

LEMMA AfterDoes ==
    ASSUME NEW S \in Session, NEW T, T = After(S)
    PROVE  Fresh(T) /\ T.at \in {"idle", "next"}
BY AfterType, AfterFields DEF Fresh

LEMMA LoadUserDoes ==
    ASSUME TypeOK, NEW S \in Session, NEW u \in Users, NEW T, T = LoadUser(S, u)
    PROVE  /\ T \in Session /\ T.at = S.at /\ T.todo = S.todo /\ T.user = u
           /\ T.amount = S.amount /\ T.log = S.log /\ T.touched = S.touched
           /\ T.txn = S.txn /\ T.bal[u] = wallet[u]
           /\ T.seen = S.seen /\ RowsKept(S, T)
<1>. DEFINE bal == [S.bal EXCEPT ![u] = wallet[u]]
<1>1. T = [S EXCEPT !.user = u, !.blk = blocked[u], !.bal = bal] /\ T \in Session
  BY LoadUserType DEF LoadUser
<1>2. bal[u] = wallet[u]
  BY DEF Session
<1>. HIDE DEF bal
<1>3. /\ T.at = S.at /\ T.todo = S.todo /\ T.user = u
      /\ T.amount = S.amount /\ T.log = S.log /\ T.touched = S.touched
      /\ T.txn = S.txn /\ T.bal = bal /\ T.seen = S.seen /\ RowsKept(S, T)
  BY <1>1 DEF Session, RowsKept
<1>. QED  BY <1>1, <1>2, <1>3

LEMMA LoadRowsDoes ==
    ASSUME TypeOK, NEW S \in Session, NEW rows \in SUBSET Services,
           NEW T, T = LoadRows(S, rows)
    PROVE  /\ T \in Session /\ T.at = S.at /\ T.todo = S.todo /\ MoneyKept(S, T)
           /\ T.seen = S.seen \cup rows
           /\ \A s \in Services :
                /\ T.base[s] = IF s \in rows \ S.seen THEN svc[s] ELSE S.base[s]
                /\ T.orm[s] = IF s \in rows \ S.seen THEN svc[s] ELSE S.orm[s]
<1>. DEFINE base == [s \in Services |-> IF s \in rows \ S.seen THEN svc[s] ELSE S.base[s]]
            orm == [s \in Services |-> IF s \in rows \ S.seen THEN svc[s] ELSE S.orm[s]]
            seen == S.seen \cup rows
<1>1. T \in Session /\ T = [S EXCEPT !.seen = seen, !.base = base, !.orm = orm]
  BY LoadRowsType DEF LoadRows
<1>2. \A s \in Services :
        /\ base[s] = IF s \in rows \ S.seen THEN svc[s] ELSE S.base[s]
        /\ orm[s] = IF s \in rows \ S.seen THEN svc[s] ELSE S.orm[s]
  OBVIOUS
<1>. HIDE DEF base, orm, seen
<1>3. /\ T.at = S.at /\ T.todo = S.todo /\ MoneyKept(S, T)
      /\ T.seen = seen /\ T.base = base /\ T.orm = orm
  BY <1>1 DEF Session, MoneyKept
<1>. QED  BY <1>1, <1>2, <1>3 DEF seen

LEMMA LoopDoes ==
    ASSUME TypeOK, NEW S \in Session, NEW phase \in Phases, NEW rows \in SUBSET Services,
           NEW T, T = Loop(S, phase, rows)
    PROVE  /\ T \in Session /\ T.at = IF rows = {} THEN "commit" ELSE phase
           /\ T.todo = rows /\ MoneyKept(S, T)
           /\ T.seen = S.seen \cup rows
           /\ \A s \in Services :
                /\ T.base[s] = IF s \in rows \ S.seen THEN svc[s] ELSE S.base[s]
                /\ T.orm[s] = IF s \in rows \ S.seen THEN svc[s] ELSE S.orm[s]
<1>. DEFINE at == IF rows = {} THEN "commit" ELSE phase
<1>1. PICK L : L = LoadRows(S, rows)
  OBVIOUS
<1>2. T \in Session /\ T = [L EXCEPT !.todo = rows, !.at = at]
  BY <1>1, LoopType DEF Loop
<1>3. /\ L \in Session /\ MoneyKept(S, L)
      /\ L.seen = S.seen \cup rows
      /\ \A s \in Services :
           /\ L.base[s] = IF s \in rows \ S.seen THEN svc[s] ELSE S.base[s]
           /\ L.orm[s] = IF s \in rows \ S.seen THEN svc[s] ELSE S.orm[s]
  BY <1>1, LoadRowsDoes
<1>. HIDE DEF at
<1>4. /\ T.at = at /\ T.todo = rows /\ MoneyKept(L, T) /\ RowsKept(L, T) /\ T.seen = L.seen
  BY <1>2, <1>3 DEF Session, MoneyKept, RowsKept
<1>. QED  BY <1>2, <1>3, <1>4 DEF MoneyKept, RowsKept, at

LEMMA MoveDoes ==
    ASSUME TypeOK, NEW S \in Session, NEW u \in Users, NEW k \in Kinds, NEW amount \in Int,
           NEW T, T = Move(S, u, k, amount)
    PROVE  /\ T \in Session /\ T.at = S.at /\ T.todo = S.todo /\ T.user = S.user
           /\ T.amount = S.amount /\ T.log = S.log /\ T.seen = S.seen /\ RowsKept(S, T)
           /\ T.touched = S.touched \cup {u} /\ Balanced(S, T, u, amount)
           /\ Paid(S, T, u, k, amount)
<1>. DEFINE bal == [S.bal EXCEPT ![u] = Current(S, u) + amount]
            txn == [S.txn EXCEPT ![u] = [S.txn[u] EXCEPT ![k] = S.txn[u][k] + amount]]
            touched == S.touched \cup {u}
<1>1. T = [S EXCEPT !.bal = bal, !.touched = touched, !.txn = txn] /\ T \in Session
  <2>1. Move(S, u, k, amount) = [S EXCEPT !.bal = bal, !.touched = touched, !.txn = txn]
    BY DEF Move, Session
  <2>2. Move(S, u, k, amount) \in Session
    BY MoveType
  <2>. HIDE DEF bal, txn, touched
  <2>. QED  BY <2>1, <2>2
<1>2. \A v \in Users, j \in Kinds :
        txn[v][j] = S.txn[v][j] + (IF v = u /\ j = k THEN amount ELSE 0)
  BY DEF Session
<1>. HIDE DEF bal, txn, touched
<1>3. /\ T.at = S.at /\ T.todo = S.todo /\ T.user = S.user
      /\ T.amount = S.amount /\ T.log = S.log /\ T.seen = S.seen /\ RowsKept(S, T)
      /\ T.touched = touched /\ T.bal = bal /\ T.txn = txn
  BY <1>1 DEF Session, RowsKept
<1>. QED  BY <1>1, <1>2, <1>3 DEF bal, touched, Paid, Balanced, Session

LEMMA LeftDoes ==
    ASSUME NEW S \in Session, NEW s \in Services, NEW T, T = Left(S, s)
    PROVE  /\ T \in Session /\ T.todo = S.todo \ {s} /\ MoneyKept(S, T) /\ RowsKept(S, T)
           /\ T.at = IF S.todo \ {s} = {} THEN "commit" ELSE S.at
           /\ T.seen = S.seen
<1>. DEFINE todo == S.todo \ {s}
            at == IF todo = {} THEN "commit" ELSE S.at
<1>1. T = [S EXCEPT !.todo = todo, !.at = at] /\ T \in Session
  BY LeftType DEF Left
<1>. HIDE DEF todo, at
<1>2. /\ T.todo = todo /\ T.at = at /\ MoneyKept(S, T) /\ RowsKept(S, T) /\ T.seen = S.seen
  BY <1>1 DEF Session, MoneyKept, RowsKept
<1>. QED  BY <1>1, <1>2 DEF todo, at

(* The rest of a row, which charging leaves alone.                         *)
Same(b, o) == o.status = b.status /\ o.reason = b.reason /\ o.since = b.since

LEMMA CashbackNat ==
    ASSUME NEW spent \in Nat, NEW percent \in Nat
    PROVE  Cashback(spent, percent) \in Nat
<1>1. spent * percent \in Nat
  BY ProductNat
<1>2. \A n \in Nat : n \div 100 \in Nat
  OBVIOUS
<1>. QED  BY <1>1, <1>2 DEF Cashback

LEMMA CostNat == \A mb, price \in Nat : CostForMb(mb, price) \in Nat
BY CostBounds

(* Charging what was used since the last reading.                          *)
LEMMA ChargedDoes ==
    ASSUME TypeOK, NEW S \in Session, S.user \in Users, NEW s \in Services,
           used[s] > S.orm[s].mb, NEW T, T = Charged(S, s)
    PROVE  LET delta == used[s] - S.orm[s].mb
               cost == CostForMb(delta, Price[s]) IN
           /\ delta \in Nat /\ cost \in Nat
           /\ T \in Session /\ T.at = S.at /\ T.todo = S.todo \ {s}
           /\ T.user = S.user /\ T.amount = S.amount /\ T.base = S.base
           /\ \A t \in Services : Same(S.orm[t], T.orm[t])
           /\ T.log[s].mb = delta /\ T.log[s].cost = cost
           /\ \A t \in Services \ {s} : T.log[t] = S.log[t]
           /\ S.touched \subseteq T.touched
           /\ S.user \in T.touched \/ (T.touched = S.touched /\ T.bal = S.bal)
           /\ Paid(S, T, S.user, "traffic", -cost)
<1>1. PICK delta : delta = used[s] - S.orm[s].mb
  OBVIOUS
<1>2. PICK cost : cost = CostForMb(delta, Price[s])
  OBVIOUS
<1>3. /\ S.orm[s] \in Row /\ used[s] \in Nat /\ Price[s] \in Nat
      /\ S.orm[s].mb \in Nat /\ S.orm[s].billed \in Nat
      /\ S.txn \in [Users -> [Kinds -> Int]]
  BY MoneyAssumption DEF Session, TypeOK, Row
<1>4. delta \in Nat /\ S.orm[s].billed + delta \in Nat
  BY <1>1, <1>3
<1>5. cost \in Nat
  BY <1>2, <1>3, <1>4, CostNat
<1>6. PICK B : B = IF cost > 0 THEN Move(S, S.user, "traffic", -cost) ELSE S
  OBVIOUS
<1>7. /\ B \in Session /\ B.at = S.at /\ B.todo = S.todo /\ B.user = S.user
      /\ B.amount = S.amount /\ B.log = S.log /\ RowsKept(S, B)
      /\ S.touched \subseteq B.touched
      /\ S.user \in B.touched \/ (B.touched = S.touched /\ B.bal = S.bal)
      /\ Paid(S, B, S.user, "traffic", -cost)
  <2>1. CASE cost > 0
    <3>1. PICK neg \in Int : neg = -cost
      BY <1>5
    <3>2. B = Move(S, S.user, "traffic", neg) /\ "traffic" \in Kinds
      BY <1>6, <2>1, <3>1 DEF Kinds
    <3>3. PICK u \in Users, k \in Kinds : u = S.user /\ k = "traffic"
      BY <3>2
    <3>4. B = Move(S, u, k, neg)
      BY <3>2, <3>3
    <3>5. /\ B \in Session /\ B.at = S.at /\ B.todo = S.todo /\ B.user = S.user
          /\ B.amount = S.amount /\ B.log = S.log /\ RowsKept(S, B)
          /\ B.touched = S.touched \cup {u}
          /\ Paid(S, B, u, k, neg)
      BY <3>4, MoveDoes
    <3>. QED  BY <3>1, <3>3, <3>5
  <2>2. CASE ~(cost > 0)
    <3>1. B = S /\ cost = 0
      BY <1>5, <1>6, <2>2
    <3>2. \A v \in Users, j \in Kinds : S.txn[v][j] \in Int
      BY <1>3
    <3>. QED  BY <3>1, <3>2 DEF RowsKept, Paid
  <2>. QED  BY <2>1, <2>2
<1>8. PICK r : r = [S.orm[s] EXCEPT !.mb = used[s], !.billed = S.orm[s].billed + delta]
  OBVIOUS
<1>9. r \in Row /\ Same(S.orm[s], r)
  <2>1. PICK old, billed, mb : old = S.orm[s] /\ billed = S.orm[s].billed + delta /\ mb = used[s]
    OBVIOUS
  <2>2. r = [old EXCEPT !.mb = mb, !.billed = billed] /\ old \in Row /\ billed \in Nat /\ mb \in Nat
    BY <1>3, <1>4, <1>8, <2>1
  <2>3. r \in Row /\ Same(old, r)
    BY <2>2 DEF Row, Same
  <2>. QED  BY <2>1, <2>3
<1>10. PICK e : e = [mb |-> delta, cost |-> cost, rows |-> 1]
  OBVIOUS
<1>11. e \in Entry
  BY <1>4, <1>5, <1>10 DEF Entry
<1>12. PICK orm, log, todo :
         /\ orm = [B.orm EXCEPT ![s] = r] /\ log = [B.log EXCEPT ![s] = e]
         /\ todo = S.todo \ {s}
  OBVIOUS
<1>13. /\ orm \in [Services -> Row] /\ log \in [Services -> Entry] /\ todo \in SUBSET Services
       /\ \A t \in Services : Same(S.orm[t], orm[t])
  <2>1. orm \in [Services -> Row] /\ log \in [Services -> Entry] /\ todo \in SUBSET Services
    BY <1>7, <1>9, <1>11, <1>12 DEF Session
  <2>2. B.orm \in [Services -> Row] /\ B.orm = S.orm
    BY <1>7 DEF Session, RowsKept
  <2>3. \A t \in Services : Same(S.orm[t], orm[t])
    BY <1>9, <1>12, <2>2 DEF Same
  <2>. QED  BY <2>1, <2>3
<1>14. Charged(S, s) = [B EXCEPT !.todo = todo, !.orm = orm, !.log = log]
  BY <1>1, <1>2, <1>6, <1>8, <1>10, <1>12 DEF Charged
<1>15. /\ T \in Session /\ T.at = B.at /\ T.todo = todo /\ T.user = B.user
       /\ T.amount = B.amount /\ T.base = B.base /\ T.orm = orm /\ T.log = log
       /\ T.touched = B.touched /\ T.bal = B.bal /\ T.txn = B.txn
  BY <1>7, <1>13, <1>14 DEF Session
<1>16. \A t \in Services : T.log[t] = IF t = s THEN e ELSE S.log[t]
  BY <1>7, <1>12, <1>15 DEF Session
<1>17. /\ T.log[s].mb = delta /\ T.log[s].cost = cost
       /\ \A t \in Services \ {s} : T.log[t] = S.log[t]
  <2>1. e.mb = delta /\ e.cost = cost
    BY <1>10
  <2>2. T.log[s] = e
    BY <1>16
  <2>. QED  BY <1>16, <2>1, <2>2
<1>18. T.base = S.base
  BY <1>7, <1>15 DEF RowsKept
<1>. QED  BY <1>1, <1>2, <1>4, <1>5, <1>7, <1>10, <1>12, <1>13, <1>15, <1>17, <1>18 DEF Paid

(* mb MiB of s are charged: the log entry, the customer's row of the cost  *)
(* and the inviter's row of the share.                                     *)
Charges(S, T, s, mb) ==
    LET cost == CostForMb(mb, Price[s]) IN
    /\ T.at = "meter" /\ T.todo = S.todo \ {s}
    /\ T.user = S.user /\ T.amount = S.amount
    /\ T.base = S.base /\ \A t \in Services : Same(S.orm[t], T.orm[t])
    /\ T.log[s].mb = mb /\ T.log[s].cost = cost
    /\ \A t \in Services \ {s} : T.log[t] = S.log[t]
    /\ \A u \in Users : T.txn[u]["traffic"] =
         S.txn[u]["traffic"] - (IF u = S.user THEN cost ELSE 0)
    /\ \A u \in Users : T.txn[u]["other"] =
         S.txn[u]["other"] + (IF u = Inviter[S.user] THEN Cashback(cost, Percent) ELSE 0)
    /\ S.touched \subseteq T.touched
    /\ S.user \in T.touched \/ T.bal[S.user] = S.bal[S.user]

LEMMA MeterChargeDoes ==
    ASSUME Inductive, NEW p \in Procs, MeterCharge(p)
    PROVE  \E s \in sess[p].todo, T \in Session, mb \in Nat :
             /\ s \in Services /\ 0 < mb /\ mb <= used[s] /\ sess[p].log[s].mb = 0
             /\ Charges(sess[p], T, s, mb) /\ Become(p, T)
             /\ UNCHANGED <<tables, acct, used, clock>> /\ OthersKeep(p)
             /\ \A u \in Users : lock[u] = p => lock'[u] = p
<1>1. PICK S : S = sess[p]
  OBVIOUS
<1>2. PICK s, T, cash, inviter :
        /\ s \in First(S.todo)
        /\ T = Charged(S, s)
        /\ cash = Cashback(T.log[s].cost, Percent)
        /\ inviter = Inviter[S.user]
        /\ acct[s] # "gone" /\ Grown(S, s)
        /\ IF cash > 0 /\ inviter # NoUser
           THEN /\ CanLock(p, inviter)
                /\ lock' = [lock EXCEPT ![inviter] = p]
                /\ Metered(p, Move(T, inviter, "other", cash))
           ELSE Metered(p, T) /\ UNCHANGED lock
  BY <1>1 DEF MeterCharge
<1>3. /\ TypeOK /\ S \in Session /\ S.user \in Users /\ S.at = "meter"
      /\ s \in S.todo /\ s \in Services /\ S.log[s].mb = 0
  BY <1>1, <1>2, MeterOpen DEF MeterCharge, Good, UsageOf
<1>4. PICK mb, cost : mb = used[s] - S.orm[s].mb /\ cost = CostForMb(mb, Price[s])
  OBVIOUS
<1>5. used[s] > S.orm[s].mb /\ S.orm[s].mb \in Nat /\ used[s] \in Nat
  BY <1>2, <1>3 DEF Grown, Session, Row, TypeOK
<1>6. /\ mb \in Nat /\ cost \in Nat /\ 0 < mb /\ mb <= used[s]
      /\ T \in Session /\ T.at = S.at /\ T.todo = S.todo \ {s}
      /\ T.user = S.user /\ T.amount = S.amount /\ T.base = S.base
      /\ \A t \in Services : Same(S.orm[t], T.orm[t])
      /\ T.log[s].mb = mb /\ T.log[s].cost = cost
      /\ \A t \in Services \ {s} : T.log[t] = S.log[t]
      /\ S.touched \subseteq T.touched
      /\ S.user \in T.touched \/ (T.touched = S.touched /\ T.bal = S.bal)
      /\ Paid(S, T, S.user, "traffic", -cost)
  BY <1>2, <1>3, <1>4, <1>5, ChargedDoes
<1>7. /\ S.txn \in [Users -> [Kinds -> Int]] /\ T.txn \in [Users -> [Kinds -> Int]]
      /\ "traffic" \in Kinds /\ "other" \in Kinds
  BY <1>3, <1>6 DEF Session, Kinds
<1>8. /\ cash \in Nat /\ cash = Cashback(cost, Percent)
      /\ inviter \in Users \cup {NoUser} /\ inviter # S.user
  BY <1>2, <1>3, <1>6, CashbackNat, MoneyAssumption, IdsAssumption
<1>9. ASSUME NEW u \in Users
      PROVE  /\ T.txn[u]["traffic"] = S.txn[u]["traffic"] - (IF u = S.user THEN cost ELSE 0)
             /\ T.txn[u]["other"] = S.txn[u]["other"]
  <2>1. S.txn[u]["traffic"] \in Int /\ S.txn[u]["other"] \in Int
    BY <1>7
  <2>. QED  BY <1>6, <1>7, <2>1 DEF Paid
<1>10. CASE cash > 0 /\ inviter # NoUser
  <2>1. PICK M : M = Move(T, inviter, "other", cash)
    OBVIOUS
  <2>2. /\ CanLock(p, inviter) /\ lock' = [lock EXCEPT ![inviter] = p]
        /\ Become(p, M) /\ UNCHANGED <<tables, acct, used, clock>>
    BY <1>2, <1>10, <2>1 DEF Metered
  <2>3. inviter \in Users
    BY <1>8, <1>10
  <2>4. OthersKeep(p) /\ \A v \in Users : lock[v] = p => lock'[v] = p
    BY <1>3, <2>2, <2>3, LockStep
  <2>5. cash \in Int
    BY <1>8
  <2>6. /\ M \in Session /\ M.at = T.at /\ M.todo = T.todo /\ M.user = T.user
        /\ M.amount = T.amount /\ M.log = T.log /\ RowsKept(T, M)
        /\ M.touched = T.touched \cup {inviter} /\ Balanced(T, M, inviter, cash)
        /\ Paid(T, M, inviter, "other", cash)
    <3>1. PICK k \in Kinds : k = "other"
      BY <1>7
    <3>2. M = Move(T, inviter, k, cash)
      BY <2>1, <3>1
    <3>3. /\ M \in Session /\ M.at = T.at /\ M.todo = T.todo /\ M.user = T.user
          /\ M.amount = T.amount /\ M.log = T.log /\ RowsKept(T, M)
          /\ M.touched = T.touched \cup {inviter} /\ Balanced(T, M, inviter, cash)
          /\ Paid(T, M, inviter, k, cash)
      <4>1. TypeOK /\ T \in Session
        BY <1>3, <1>6
      <4>. QED  BY <2>3, <2>5, <3>2, <4>1, MoveDoes
    <3>. QED  BY <3>1, <3>3
  <2>7. ASSUME NEW u \in Users
        PROVE  /\ M.txn[u]["traffic"] = S.txn[u]["traffic"] - (IF u = S.user THEN cost ELSE 0)
               /\ M.txn[u]["other"] = S.txn[u]["other"] + (IF u = inviter THEN cash ELSE 0)
    <3>1. T.txn[u]["traffic"] \in Int /\ T.txn[u]["other"] \in Int
      BY <1>7
    <3>2. /\ M.txn[u]["traffic"] = T.txn[u]["traffic"]
          /\ M.txn[u]["other"] = T.txn[u]["other"] + (IF u = inviter THEN cash ELSE 0)
      BY <1>7, <2>6, <3>1 DEF Paid
    <3>. QED  BY <1>9, <3>2
  <2>8. M.bal[S.user] = T.bal[S.user]
    BY <1>3, <1>8, <2>6 DEF Balanced
  <2>9. Charges(S, M, s, mb)
    <3>1. /\ M.at = "meter" /\ M.todo = S.todo \ {s} /\ M.user = S.user
          /\ M.amount = S.amount /\ M.base = S.base /\ M.orm = T.orm /\ M.log = T.log
          /\ S.touched \subseteq M.touched
          /\ S.user \in M.touched \/ M.bal[S.user] = S.bal[S.user]
      BY <1>3, <1>6, <2>6, <2>8 DEF RowsKept
    <3>. QED  BY <1>2, <1>4, <1>6, <1>8, <2>7, <3>1 DEF Charges
  <2>. QED  BY <1>1, <1>3, <1>6, <2>2, <2>4, <2>6, <2>9
<1>11. CASE ~(cash > 0 /\ inviter # NoUser)
  <2>1. Become(p, T) /\ UNCHANGED <<tables, acct, used, clock, lock>>
    BY <1>2, <1>11 DEF Metered
  <2>2. \A u \in Users : u = inviter => cash = 0
    BY <1>8, <1>11, IdsAssumption
  <2>3. ASSUME NEW u \in Users
        PROVE  T.txn[u]["other"] = S.txn[u]["other"] + (IF u = inviter THEN cash ELSE 0)
    <3>1. S.txn[u]["other"] \in Int
      BY <1>7
    <3>. QED  BY <1>9, <2>2, <3>1
  <2>4. Charges(S, T, s, mb)
    BY <1>2, <1>3, <1>4, <1>6, <1>8, <1>9, <2>3 DEF Charges
  <2>. QED  BY <1>1, <1>3, <1>6, <2>1, <2>4, SameLock
<1>. QED  BY <1>10, <1>11

-----------------------------------------------------------------------------
(* Charges and their logs *)

(* What a session has charged is what it will log: its entries are priced  *)
(* by the tariff and belong to the customer it settles, and its traffic    *)
(* rows are the sums of the entries.  Only a sync charges.                 *)
Costs(S) == [s \in Services |-> S.log[s].cost]
BillOf(p, S) ==
    /\ S.at = "meter" => p \in Syncs /\ S.todo \subseteq Owned(S.user)
    /\ p \notin Syncs => \A s \in Services : S.log[s].mb = 0
    /\ \A s \in Services :
        /\ S.log[s].cost = CostForMb(S.log[s].mb, Price[s])
        /\ S.log[s].mb > 0 => Owner[s] = S.user
        /\ S.log[s].mb <= MaxUsed
    /\ \A u \in Users : S.txn[u]["traffic"] + Total(Costs(S), Owned(u)) = 0
Billed == \A s \in Services : used[s] <= MaxUsed
Bills == ChargesAreLogged /\ Billed /\ \A p \in Procs : BillOf(p, sess[p])

LEMMA OwnedFinite == \A u : IsFiniteSet(Owned(u)) /\ Owned(u) \subseteq Services
<1>1. \A u : Owned(u) \subseteq Services
  BY DEF Owned
<1>. QED  BY <1>1, FS_Subset, IdsAssumption

LEMMA NoTraffic == \A price \in Nat : CostForMb(0, price) = 0
BY DEF CostForMb

LEMMA BillFresh ==
    ASSUME NEW p, NEW S, S.txn = Idle.txn, S.log = Idle.log, S.at # "meter"
    PROVE  BillOf(p, S)
<1>1. \A s \in Services : S.log[s].mb = 0 /\ S.log[s].cost = 0
  BY DEF Idle, NoEntry
<1>2. ASSUME NEW u \in Users PROVE S.txn[u]["traffic"] + Total(Costs(S), Owned(u)) = 0
  <2>1. S.txn[u]["traffic"] = 0
    BY DEF Idle, NoMoney, Kinds
  <2>2. \A s \in Owned(u) : Costs(S)[s] = 0
    BY <1>1, OwnedFinite DEF Costs
  <2>3. Total(Costs(S), Owned(u)) = 0
    BY <2>2, OwnedFinite, TotalZero
  <2>. QED  BY <2>1, <2>3
<1>3. \A s \in Services : CostForMb(0, Price[s]) = 0
  BY NoTraffic, MoneyAssumption
<1>. QED  BY <1>1, <1>2, <1>3, BoundsAssumption DEF BillOf

(* Steps that charge nothing.                                              *)
LEMMA BillOn ==
    ASSUME NEW p, NEW S, BillOf(p, S), NEW T, T.log = S.log,
           \A u \in Users : T.txn[u]["traffic"] = S.txn[u]["traffic"],
           T.at = "meter" => p \in Syncs /\ T.todo \subseteq Owned(T.user),
           T.user = S.user \/ \A s \in Services : ~(S.log[s].mb > 0)
    PROVE  BillOf(p, T)
<1>1. Costs(T) = Costs(S)
  BY DEF Costs
<1>. QED  BY <1>1 DEF BillOf

LEMMA BillCharged ==
    ASSUME NEW p, NEW S \in Session, BillOf(p, S), S.at = "meter", S.user \in Users,
           NEW s \in S.todo, s \in Services, S.log[s].mb = 0,
           NEW mb \in Nat, 0 < mb, mb <= MaxUsed, NEW T \in Session, Charges(S, T, s, mb)
    PROVE  BillOf(p, T)
<1>1. PICK cost : cost = CostForMb(mb, Price[s])
  OBVIOUS
<1>2. cost \in Nat /\ cost \in Int
  BY <1>1, CostNat, MoneyAssumption
<1>3. /\ T.at = "meter" /\ T.todo = S.todo \ {s} /\ T.user = S.user
      /\ T.log[s].mb = mb /\ T.log[s].cost = cost
      /\ \A t \in Services \ {s} : T.log[t] = S.log[t]
      /\ \A u \in Users : T.txn[u]["traffic"] =
           S.txn[u]["traffic"] - (IF u = S.user THEN cost ELSE 0)
  BY <1>1 DEF Charges
<1>4. /\ p \in Syncs /\ s \in Owned(S.user) /\ T.todo \subseteq Owned(T.user)
      /\ Owner[s] = S.user
  BY <1>3 DEF BillOf, Owned
<1>5. \A t \in Services : /\ Costs(S)[t] \in Int /\ Costs(T)[t] \in Int
                          /\ t # s => Costs(T)[t] = Costs(S)[t]
  BY <1>3 DEF Costs, Session, Entry
<1>6. Costs(S)[s] = 0 /\ Costs(T)[s] = cost
  BY <1>3, NoTraffic, MoneyAssumption DEF Costs, BillOf
<1>7. ASSUME NEW u \in Users PROVE T.txn[u]["traffic"] + Total(Costs(T), Owned(u)) = 0
  <2>1. S.txn[u]["traffic"] + Total(Costs(S), Owned(u)) = 0
    BY DEF BillOf
  <2>9. S.txn[u]["traffic"] \in Int
    BY DEF Session, Kinds
  <2>2. PICK rest : rest = Owned(u) \ {s}
    OBVIOUS
  <2>3. IsFiniteSet(rest) /\ rest \subseteq Services /\ s \notin rest
    BY <2>2, OwnedFinite, FS_Subset
  <2>4. Total(Costs(T), rest) = Total(Costs(S), rest)
    <3>1. \A t \in rest : Costs(T)[t] = Costs(S)[t]
      BY <1>5, <2>3
    <3>. QED  BY <2>3, <3>1, TotalSame
  <2>5. Total(Costs(S), rest) \in Int
    <3>1. \A t \in rest : Costs(S)[t] \in Int
      BY <1>5, <2>3
    <3>. QED  BY <2>3, <3>1, TotalInt
  <2>6. CASE u = S.user
    <3>1. IsFiniteSet(Owned(u)) /\ Owned(u) \subseteq Services /\ s \in Owned(u)
      BY <1>4, <2>6, OwnedFinite
    <3>2. Total(Costs(S), Owned(u)) = Costs(S)[s] + Total(Costs(S), Owned(u) \ {s})
      BY <1>5, <3>1, TotalRemove
    <3>3. Total(Costs(T), Owned(u)) = Costs(T)[s] + Total(Costs(T), Owned(u) \ {s})
      BY <1>5, <3>1, TotalRemove
    <3>4. T.txn[u]["traffic"] = S.txn[u]["traffic"] - cost
      BY <1>3, <2>6
    <3>5. /\ Total(Costs(S), Owned(u)) = 0 + Total(Costs(S), rest)
          /\ Total(Costs(T), Owned(u)) = cost + Total(Costs(S), rest)
      BY <1>6, <2>2, <2>4, <3>2, <3>3
    <3>. QED  BY <1>2, <2>1, <2>5, <2>9, <3>4, <3>5
  <2>7. CASE u # S.user
    <3>1. Owned(u) = rest
      BY <1>4, <2>2, <2>7 DEF Owned
    <3>2. T.txn[u]["traffic"] = S.txn[u]["traffic"]
      BY <1>3, <2>7, <2>9
    <3>. QED  BY <2>1, <2>4, <3>1, <3>2
  <2>. QED  BY <2>6, <2>7
<1>8. ASSUME NEW t \in Services
      PROVE  /\ T.log[t].cost = CostForMb(T.log[t].mb, Price[t])
             /\ T.log[t].mb > 0 => Owner[t] = T.user
             /\ T.log[t].mb <= MaxUsed
  <2>1. CASE t = s
    BY <1>1, <1>3, <1>4, <2>1
  <2>2. CASE t # s
    <3>1. T.log[t] = S.log[t]
      BY <1>3, <2>2
    <3>. QED  BY <1>3, <3>1 DEF BillOf
  <2>. QED  BY <2>1, <2>2
<1>. QED  BY <1>3, <1>4, <1>7, <1>8 DEF BillOf

(* A step of p that commits nothing.                                       *)
LEMMA BillsTurn ==
    ASSUME Inductive, Bills, NEW p \in Procs, NEW T, Become(p, T), BillOf(p, T),
           UNCHANGED <<tables, used>>
    PROVE  Bills'
<1>1. sess' = [sess EXCEPT ![p] = T] /\ sess \in [Procs -> Session]
  BY DEF Become, Inductive, TypeOK
<1>2. ledger' = ledger /\ usage' = usage /\ used' = used
  BY DEF tables
<1>3. \A q \in Procs : BillOf(q, sess'[q])
  BY <1>1 DEF Bills
<1>4. ChargesAreLogged' /\ Billed'
  BY <1>2 DEF Bills, ChargesAreLogged, Billed
<1>. QED  BY <1>3, <1>4 DEF Bills

LEMMA BillNow ==
    ASSUME Inductive, Bills, NEW p \in Procs
    PROVE  /\ TypeOK /\ sess[p] \in Session /\ BillOf(p, sess[p])
           /\ sess[p].at \in {"idle", "next"} =>
                 \A s \in Services : ~(sess[p].log[s].mb > 0)
BY DEF Inductive, TypeOK, Bills, OpenOf, UsageOf, CountersKept

LEMMA SyncStartBills ==
    ASSUME Inductive, Bills, NEW p \in Procs, SyncStart(p) \/ CleanStart(p)
    PROVE  Bills'
<1>1. PICK I : I = Idle
  OBVIOUS
<1>2. PICK queue, due, cutoff, T :
        /\ queue \in SUBSET Users /\ due \in SUBSET Services /\ cutoff \in Int
        /\ T \in {[I EXCEPT !.at = "next", !.queue = queue],
                  [I EXCEPT !.at = "next", !.due = due, !.cutoff = cutoff]}
        /\ Become(p, T)
  <2>1. clock - 1 \in Int /\ 0 \in Int
    BY DEF Inductive, TypeOK
  <2>2. {u \in Users : \E s \in Owned(u) : Eligible(svc[s])} \in SUBSET Users
    OBVIOUS
  <2>3. {s \in Services : Stale(svc[s], clock - 1)} \in SUBSET Services
    OBVIOUS
  <2>. QED  BY <1>1, <2>1, <2>2, <2>3 DEF SyncStart, CleanStart
<1>3. I \in Session /\ I.txn = Idle.txn /\ I.log = Idle.log
  BY <1>1, IdleType
<1>4. T.at = "next" /\ T.txn = I.txn /\ T.log = I.log
  BY <1>2, <1>3 DEF Session
<1>5. BillOf(p, T)
  BY <1>3, <1>4, BillFresh
<1>6. UNCHANGED <<tables, used>>
  BY DEF SyncStart, CleanStart, panel
<1>. QED  BY <1>2, <1>5, <1>6, BillsTurn

(* What SELECT ... FOR UPDATE of the next customer loads.                  *)
Begins(S, T, u) ==
    LET rows == {s \in Owned(u) : Eligible(svc[s])} IN
    /\ T.at = "meter" /\ T.todo = rows /\ T.user = u
    /\ T.log = S.log /\ T.txn = S.txn /\ T.touched = {}
    /\ T.bal[u] = wallet[u] /\ T.amount = S.amount
    /\ \A s \in Services :
         /\ T.base[s] = IF s \in rows THEN svc[s] ELSE S.base[s]
         /\ T.orm[s] = IF s \in rows THEN svc[s] ELSE S.orm[s]

LEMMA SyncLockDoes ==
    ASSUME Inductive, NEW p \in Procs, SyncLock(p)
    PROVE  \E u \in Users, T \in Session :
             /\ CanLock(p, u) /\ lock' = [lock EXCEPT ![u] = p] /\ Become(p, T)
             /\ Begins(sess[p], T, u)
<1>1. PICK S : S = sess[p]
  OBVIOUS
<1>2. PICK u, rows, U, L, queue, T :
        /\ u \in First(S.queue)
        /\ rows = {s \in Owned(u) : Eligible(svc[s])}
        /\ U = LoadUser(S, u) /\ L = LoadRows(U, rows) /\ queue = S.queue \ {u}
        /\ T = [L EXCEPT !.at = "meter", !.todo = rows, !.queue = queue]
        /\ CanLock(p, u) /\ lock' = [lock EXCEPT ![u] = p] /\ Become(p, T)
  BY <1>1 DEF SyncLock
<1>3. /\ TypeOK /\ S \in Session /\ S.at = "next" /\ S.seen = {} /\ S.touched = {}
  BY <1>1 DEF SyncLock, Inductive, OpenOf, TypeOK
<1>4. u \in Users /\ rows \in SUBSET Owned(u) /\ rows \in SUBSET Services /\ queue \in SUBSET Users
  BY <1>2, <1>3, OwnedFinite DEF First, Session
<1>5. /\ U \in Session /\ U.user = u /\ U.amount = S.amount /\ U.log = S.log
      /\ U.touched = {} /\ U.txn = S.txn /\ U.bal[u] = wallet[u]
      /\ U.seen = {} /\ RowsKept(S, U)
  BY <1>2, <1>3, <1>4, LoadUserDoes
<1>6. /\ L \in Session /\ MoneyKept(U, L)
      /\ \A s \in Services :
           /\ L.base[s] = IF s \in rows THEN svc[s] ELSE U.base[s]
           /\ L.orm[s] = IF s \in rows THEN svc[s] ELSE U.orm[s]
  <2>1. rows \ U.seen = rows
    BY <1>5
  <2>. QED  BY <1>2, <1>3, <1>4, <1>5, <2>1, LoadRowsDoes
<1>7. /\ T \in Session /\ T.at = "meter" /\ T.todo = rows
      /\ T.user = L.user /\ T.log = L.log /\ T.txn = L.txn /\ T.touched = L.touched
      /\ T.bal = L.bal /\ T.amount = L.amount /\ T.base = L.base /\ T.orm = L.orm
  BY <1>2, <1>4, <1>6 DEF Session, Phases
<1>8. /\ T.user = u /\ T.log = S.log /\ T.txn = S.txn /\ T.touched = {}
      /\ T.bal[u] = wallet[u] /\ T.amount = S.amount
      /\ \A s \in Services :
           /\ T.base[s] = IF s \in rows THEN svc[s] ELSE S.base[s]
           /\ T.orm[s] = IF s \in rows THEN svc[s] ELSE S.orm[s]
  BY <1>5, <1>6, <1>7 DEF MoneyKept, RowsKept
<1>9. Begins(S, T, u)
  BY <1>2, <1>7, <1>8 DEF Begins
<1>10. u \in Users /\ T \in Session
  BY <1>4, <1>7
<1>11. CanLock(p, u) /\ lock' = [lock EXCEPT ![u] = p] /\ Become(p, T)
  BY <1>2
<1>. QED  BY <1>1, <1>9, <1>10, <1>11

LEMMA SyncLockBills ==
    ASSUME Inductive, Bills, NEW p \in Syncs, SyncLock(p)
    PROVE  Bills'
<1>1. p \in Procs
  BY DEF Procs
<1>2. PICK u \in Users, T \in Session : Become(p, T) /\ Begins(sess[p], T, u)
  BY <1>1, SyncLockDoes
<1>6. /\ T.at = "meter" /\ T.todo \subseteq Owned(u) /\ T.user = u
      /\ T.log = sess[p].log /\ T.txn = sess[p].txn
  BY <1>2 DEF Begins
<1>3. sess[p].at = "next"
  BY DEF SyncLock
<1>4. BillOf(p, T)
  BY <1>1, <1>2, <1>3, <1>6, BillNow, BillOn
<1>5. UNCHANGED <<tables, used>>
  BY DEF SyncLock, panel
<1>. QED  BY <1>1, <1>2, <1>4, <1>5, BillsTurn

LEMMA MeterErrorDoes ==
    ASSUME Inductive, NEW p \in Procs, MeterError(p) \/ MeterIdle(p)
    PROVE  \E s \in sess[p].todo, T \in Session :
             /\ Become(p, T) /\ sess[p].at = "meter" /\ T.at = "meter"
             /\ T.todo = sess[p].todo \ {s}
             /\ MoneyKept(sess[p], T) /\ RowsKept(sess[p], T)
             /\ UNCHANGED <<tables, acct, used, clock, lock>>
<1>1. PICK S : S = sess[p]
  OBVIOUS
<1>2. PICK s, T :
        /\ s \in First(S.todo)
        /\ T \in {[S EXCEPT !.todo = S.todo \ {s}],
                  [S EXCEPT !.todo = S.todo \ {s}, !.failed = TRUE]}
        /\ Become(p, T)
  BY <1>1 DEF MeterError, MeterIdle, Metered
<1>3. S \in Session /\ S.at = "meter" /\ s \in S.todo
  BY <1>1, <1>2 DEF Inductive, TypeOK, MeterError, MeterIdle, First
<1>4. /\ T \in Session /\ T.at = S.at /\ T.todo = S.todo \ {s}
      /\ MoneyKept(S, T) /\ RowsKept(S, T)
  BY <1>2, <1>3, TodoDoes
<1>5. UNCHANGED <<tables, acct, used, clock, lock>>
  BY DEF MeterError, MeterIdle, Metered
<1>. QED  BY <1>1, <1>2, <1>3, <1>4, <1>5

LEMMA MeterBills ==
    ASSUME Inductive, Bills, NEW p \in Procs,
           MeterError(p) \/ MeterIdle(p) \/ MeterCharge(p)
    PROVE  Bills'
<1>1. CASE MeterError(p) \/ MeterIdle(p)
  <2>1. PICK s \in sess[p].todo, T \in Session :
          /\ Become(p, T) /\ sess[p].at = "meter" /\ T.at = "meter"
          /\ T.todo = sess[p].todo \ {s} /\ MoneyKept(sess[p], T)
          /\ UNCHANGED <<tables, acct, used, clock, lock>>
    BY <1>1, MeterErrorDoes
  <2>2. BillOf(p, T)
    <3>1. p \in Syncs /\ T.todo \subseteq Owned(T.user)
      BY <2>1, BillNow DEF BillOf, MoneyKept
    <3>. QED  BY <2>1, <3>1, BillNow, BillOn DEF MoneyKept
  <2>. QED  BY <2>1, <2>2, BillsTurn
<1>2. CASE MeterCharge(p)
  <2>1. PICK s \in sess[p].todo, T \in Session, mb \in Nat :
          /\ s \in Services /\ 0 < mb /\ mb <= used[s] /\ sess[p].log[s].mb = 0
          /\ Charges(sess[p], T, s, mb) /\ Become(p, T)
          /\ UNCHANGED <<tables, acct, used, clock>>
    BY <1>2, MeterChargeDoes
  <2>2. sess[p].at = "meter" /\ sess[p].user \in Users
    BY <1>2, MeterOpen DEF MeterCharge
  <2>3. mb <= MaxUsed
    <3>1. used[s] <= MaxUsed /\ used[s] \in Nat
      BY <2>1 DEF Bills, Billed, Inductive, TypeOK
    <3>. QED  BY <2>1, <3>1, BoundsAssumption
  <2>4. BillOf(p, T)
    BY <2>1, <2>2, <2>3, BillNow, BillCharged
  <2>. QED  BY <2>1, <2>4, BillsTurn
<1>. QED  BY <1>1, <1>2

-----------------------------------------------------------------------------
(* The other steps, field by field *)

(* A loop over rows starts: the rows that were not loaded yet are.         *)
Loads(S, T, phase, rows) ==
    /\ T.at = (IF rows = {} THEN "commit" ELSE phase)
    /\ T.todo = rows /\ MoneyKept(S, T)
    /\ \A s \in Services :
         /\ T.base[s] = IF s \in rows \ S.seen THEN svc[s] ELSE S.base[s]
         /\ T.orm[s] = IF s \in rows \ S.seen THEN svc[s] ELSE S.orm[s]

(* One item of a loop is dealt with: its row becomes r, or stays.          *)
Turns(S, T, s) ==
    /\ T.todo = S.todo \ {s} /\ MoneyKept(S, T) /\ T.base = S.base
    /\ T.at = IF S.todo \ {s} = {} THEN "commit" ELSE S.at
Edits(S, T, s, r) ==
    /\ Turns(S, T, s)
    /\ \A x \in Services : T.orm[x] = IF x = s THEN r ELSE S.orm[x]
Leaves(S, T, s) == Turns(S, T, s) /\ T.orm = S.orm

LEMMA LoopLoads ==
    ASSUME TypeOK, NEW S \in Session, NEW phase \in Phases, NEW rows \in SUBSET Services,
           NEW T, T = Loop(S, phase, rows)
    PROVE  T \in Session /\ Loads(S, T, phase, rows)
BY LoopDoes DEF Loads

LEMMA LeftLeaves ==
    ASSUME NEW S \in Session, NEW s \in Services, NEW T, T = Left(S, s)
    PROVE  T \in Session /\ Leaves(S, T, s)
BY LeftDoes DEF Leaves, Turns, RowsKept

LEMMA EditEdits ==
    ASSUME NEW S \in Session, NEW s \in Services, NEW r \in Row,
           NEW T, T = [Left(S, s) EXCEPT !.orm[s] = r]
    PROVE  T \in Session /\ Edits(S, T, s, r)
<1>1. PICK L : L = Left(S, s)
  OBVIOUS
<1>2. /\ L \in Session /\ L.todo = S.todo \ {s} /\ MoneyKept(S, L) /\ RowsKept(S, L)
      /\ L.at = IF S.todo \ {s} = {} THEN "commit" ELSE S.at
      /\ L.seen = S.seen
  BY <1>1, LeftDoes
<1>. DEFINE orm == [L.orm EXCEPT ![s] = r]
<1>3. T = [L EXCEPT !.orm = orm] /\ orm \in [Services -> Row]
  BY <1>1, <1>2 DEF Session
<1>4. orm = [S.orm EXCEPT ![s] = r]
  BY <1>2 DEF RowsKept
<1>. HIDE DEF orm
<1>5. /\ T \in Session /\ T.todo = L.todo /\ MoneyKept(L, T) /\ T.base = L.base
      /\ T.orm = orm /\ T.at = L.at /\ T.seen = L.seen
  BY <1>2, <1>3 DEF Session, MoneyKept
<1>6. \A x \in Services : orm[x] = IF x = s THEN r ELSE S.orm[x]
  BY <1>4 DEF Session
<1>. QED  BY <1>2, <1>5, <1>6 DEF Edits, Turns, MoneyKept, RowsKept

(* The balance decides which loop follows the last reading.                *)
Decides(S, T) ==
    \/ Broke(S) /\ Loads(S, T, "cut", {s \in Owned(S.user) : Active(svc[s])})
    \/ ~Broke(S) /\ Loads(S, T, "restore", {s \in Owned(S.user) : OutOfMoney(svc[s])})
    \/ /\ ~Broke(S) /\ T.at = "commit" /\ T.todo = S.todo
       /\ MoneyKept(S, T) /\ RowsKept(S, T)

LEMMA DecideDoes ==
    ASSUME Inductive, NEW p \in Procs, Decide(p)
    PROVE  \E T \in Session :
             /\ Become(p, T) /\ sess[p].at = "meter" /\ sess[p].todo = {}
             /\ Decides(sess[p], T) /\ UNCHANGED <<tables, lock, panel, clock>>
<1>1. PICK S, cut, back :
        /\ S = sess[p]
        /\ cut = {s \in Owned(S.user) : Active(svc[s])}
        /\ back = {s \in Owned(S.user) : OutOfMoney(svc[s])}
  OBVIOUS
<1>2. PICK T :
        /\ Become(p, T)
        /\ \/ Broke(S) /\ T = Loop(S, "cut", cut)
           \/ ~Broke(S) /\ T = Loop(S, "restore", back)
           \/ ~Broke(S) /\ T = [S EXCEPT !.at = "commit"]
  BY <1>1 DEF Decide
<1>3. TypeOK /\ S \in Session
  BY <1>1 DEF Inductive, TypeOK
<1>4. cut \in SUBSET Services /\ back \in SUBSET Services
  BY <1>1 DEF Owned
<1>5. {"cut", "restore", "commit"} \subseteq Phases
  BY DEF Phases
<1>6. T \in Session /\ Decides(S, T)
  <2>1. CASE Broke(S) /\ T = Loop(S, "cut", cut)
    BY <1>1, <1>3, <1>4, <1>5, <2>1, LoopLoads DEF Decides
  <2>2. CASE ~Broke(S) /\ T = Loop(S, "restore", back)
    BY <1>1, <1>3, <1>4, <1>5, <2>2, LoopLoads DEF Decides
  <2>3. CASE ~Broke(S) /\ T = [S EXCEPT !.at = "commit"]
    BY <1>3, <1>5, <2>3, AtDoes DEF Decides
  <2>. QED  BY <1>2, <2>1, <2>2, <2>3
<1>7. S.at = "meter" /\ S.todo = {} /\ UNCHANGED <<tables, lock, panel, clock>>
  BY <1>1 DEF Decide
<1>. QED  BY <1>1, <1>2, <1>6, <1>7

(* The panel obeys and the row follows, or an error leaves the row.        *)
LEMMA CutDoes ==
    ASSUME Inductive, NEW p \in Procs, Cut(p)
    PROVE  \E s \in sess[p].todo, T \in Session :
             /\ s \in Services /\ Become(p, T) /\ sess[p].at = "cut"
             /\ \/ /\ PanelOk(s, "off")
                   /\ Edits(sess[p], T, s, Disabled(sess[p].orm[s], "wallet"))
                \/ PanelError(s, "off") /\ Leaves(sess[p], T, s)
             /\ UNCHANGED <<tables, lock, used, clock>>
<1>1. PICK S : S = sess[p]
  OBVIOUS
<1>2. PICK s, r, T :
        /\ s \in S.todo
        /\ r = Disabled(S.orm[s], "wallet") /\ Become(p, T)
        /\ \/ PanelOk(s, "off") /\ T = [Left(S, s) EXCEPT !.orm[s] = r]
           \/ PanelError(s, "off") /\ T = Left(S, s)
  BY <1>1 DEF Cut, SwitchAccount
<1>3. TypeOK /\ S \in Session /\ S.at = "cut" /\ UNCHANGED <<tables, lock, used, clock>>
  BY <1>1 DEF Inductive, TypeOK, Cut, SwitchAccount
<1>4. s \in Services /\ S.orm[s] \in Row
  BY <1>2, <1>3 DEF Session
<1>5. r \in Row
  BY <1>2, <1>3, <1>4, EditsKeepCounters
<1>6. T \in Session /\ (\/ PanelOk(s, "off") /\ Edits(S, T, s, r)
                        \/ PanelError(s, "off") /\ Leaves(S, T, s))
  BY <1>2, <1>3, <1>4, <1>5, EditEdits, LeftLeaves
<1>. QED  BY <1>1, <1>2, <1>3, <1>4, <1>6

LEMMA RestoreDoes ==
    ASSUME Inductive, NEW p \in Procs, Restore(p)
    PROVE  \E s \in sess[p].todo, T \in Session :
             /\ s \in Services /\ Become(p, T) /\ sess[p].at = "restore"
             /\ \/ PanelOk(s, "on") /\ Edits(sess[p], T, s, Enabled(sess[p].orm[s]))
                \/ PanelError(s, "on") /\ Leaves(sess[p], T, s)
             /\ UNCHANGED <<tables, lock, used, clock>>
<1>1. PICK S : S = sess[p]
  OBVIOUS
<1>2. PICK s, r, T :
        /\ s \in S.todo
        /\ r = Enabled(S.orm[s]) /\ Become(p, T)
        /\ \/ PanelOk(s, "on") /\ T = [Left(S, s) EXCEPT !.orm[s] = r]
           \/ PanelError(s, "on") /\ T = Left(S, s)
  BY <1>1 DEF Restore, SwitchAccount
<1>3. TypeOK /\ S \in Session /\ S.at = "restore" /\ UNCHANGED <<tables, lock, used, clock>>
  BY <1>1 DEF Inductive, TypeOK, Restore, SwitchAccount
<1>4. s \in Services /\ S.orm[s] \in Row
  BY <1>2, <1>3 DEF Session
<1>5. r \in Row
  BY <1>2, <1>3, <1>4, EditsKeepCounters
<1>6. T \in Session /\ (\/ PanelOk(s, "on") /\ Edits(S, T, s, r)
                        \/ PanelError(s, "on") /\ Leaves(S, T, s))
  BY <1>2, <1>3, <1>4, <1>5, EditEdits, LeftLeaves
<1>. QED  BY <1>1, <1>2, <1>3, <1>4, <1>6

(* A session that has read a customer and nothing else.                    *)
Opens(T, u, phase) ==
    /\ T.at = phase /\ T.user = u /\ T.bal[u] = wallet[u]
    /\ T.log = Idle.log /\ T.txn = Idle.txn /\ T.touched = {}
    /\ T.base = Idle.base /\ T.orm = Idle.orm /\ T.todo = {}

LEMMA LoadedOpens ==
    ASSUME TypeOK, NEW u \in Users, NEW L, L = LoadUser(Idle, u)
    PROVE  L \in Session /\ Opens(L, u, "idle")
<1>1. PICK I : I = Idle
  OBVIOUS
<1>2. /\ I \in Session /\ I.touched = {} /\ I.todo = {} /\ I.at = "idle"
  BY <1>1, IdleFresh DEF Fresh
<1>3. /\ L \in Session /\ L.at = I.at /\ L.user = u /\ L.bal[u] = wallet[u]
      /\ L.log = I.log /\ L.txn = I.txn /\ L.touched = {}
      /\ L.base = I.base /\ L.orm = I.orm /\ L.todo = {}
  BY <1>1, <1>2, LoadUserDoes DEF RowsKept
<1>. QED  BY <1>1, <1>2, <1>3 DEF Opens

LEMMA OpDoes ==
    ASSUME NEW S \in Session, NEW op \in Operations, NEW T, T = [S EXCEPT !.op = op]
    PROVE  /\ T \in Session /\ T.at = S.at /\ T.todo = S.todo
           /\ MoneyKept(S, T) /\ RowsKept(S, T)
BY DEF Session, MoneyKept, RowsKept

LEMMA TopUpBeginDoes ==
    ASSUME Inductive, NEW p \in Procs, TopUpBegin(p)
    PROVE  \E u \in Users, T \in Session :
             /\ Become(p, T) /\ Opens(T, u, "credit") /\ T.amount \in Amounts
             /\ sess[p].at = "idle" /\ UNCHANGED <<tables, lock, panel, clock>>
<1>1. PICK u, amount, L, T :
        /\ u \in Users /\ amount \in Amounts
        /\ Become(p, T) /\ L = LoadUser(Idle, u)
        /\ T = [L EXCEPT !.at = "credit", !.amount = amount]
  BY DEF TopUpBegin
<1>2. TypeOK /\ "credit" \in Phases /\ amount \in Int
  BY <1>1, MoneyAssumption DEF Inductive, Phases
<1>3. L \in Session /\ Opens(L, u, "idle")
  BY <1>1, <1>2, LoadedOpens
<1>4. /\ T \in Session /\ T.at = "credit" /\ T.user = L.user /\ T.bal = L.bal
      /\ T.log = L.log /\ T.txn = L.txn /\ T.touched = L.touched
      /\ T.base = L.base /\ T.orm = L.orm /\ T.todo = L.todo /\ T.amount = amount
  BY <1>1, <1>2, <1>3 DEF Session
<1>5. T \in Session /\ Opens(T, u, "credit") /\ T.amount = amount
  BY <1>3, <1>4 DEF Opens
<1>6. sess[p].at = "idle" /\ UNCHANGED <<tables, lock, panel, clock>>
  BY DEF TopUpBegin
<1>. QED  BY <1>1, <1>5, <1>6

(* The amount is added to the wallet the UPDATE finds, and money brings    *)
(* the services back.                                                      *)
Credits(S, T) ==
    \E M \in Session :
        /\ M.log = S.log /\ RowsKept(S, M) /\ M.seen = S.seen /\ M.user = S.user
        /\ M.amount = S.amount /\ M.touched = S.touched \cup {S.user}
        /\ Balanced(S, M, S.user, S.amount) /\ Paid(S, M, S.user, "other", S.amount)
        /\ \/ /\ ~Broke(M)
              /\ Loads(M, T, "restore", {s \in Owned(S.user) : OutOfMoney(svc[s])})
           \/ /\ T.at = "commit" /\ T.todo = S.todo
              /\ MoneyKept(M, T) /\ RowsKept(M, T)

LEMMA TopUpCreditDoes ==
    ASSUME Inductive, NEW p \in Procs, TopUpCredit(p)
    PROVE  \E T \in Session :
             /\ Become(p, T) /\ sess[p].at = "credit" /\ Credits(sess[p], T)
             /\ CanLock(p, sess[p].user) /\ lock' = [lock EXCEPT ![sess[p].user] = p]
             /\ UNCHANGED <<tables, panel, clock>>
<1>1. PICK S, u, k, amount, back, M :
        /\ S = sess[p] /\ u = S.user /\ k = "other" /\ amount = S.amount
        /\ back = {s \in Owned(u) : OutOfMoney(svc[s])} /\ M = Move(S, u, k, amount)
  OBVIOUS
<1>2. /\ TypeOK /\ S \in Session /\ S.at = "credit" /\ u \in Users /\ k \in Kinds
      /\ amount \in Int /\ back \in SUBSET Services
  BY <1>1 DEF Inductive, TypeOK, TopUpCredit, OpenOf, Session, Kinds, Owned
<1>3. /\ M \in Session /\ M.todo = S.todo /\ M.user = S.user
      /\ M.amount = S.amount /\ M.log = S.log /\ M.seen = S.seen /\ RowsKept(S, M)
      /\ M.touched = S.touched \cup {u} /\ Balanced(S, M, u, amount)
      /\ Paid(S, M, u, k, amount)
  BY <1>1, <1>2, MoveDoes
<1>4. PICK T :
        /\ Become(p, T)
        /\ \/ ~Broke(M) /\ T = Loop(M, "restore", back)
           \/ T = [M EXCEPT !.at = "commit"]
  BY <1>1 DEF TopUpCredit
<1>5. {"restore", "commit"} \subseteq Phases
  BY DEF Phases
<1>6. /\ T \in Session
      /\ \/ ~Broke(M) /\ Loads(M, T, "restore", back)
         \/ T.at = "commit" /\ T.todo = S.todo /\ MoneyKept(M, T) /\ RowsKept(M, T)
  BY <1>2, <1>3, <1>4, <1>5, AtDoes, LoopLoads
<1>7. Credits(S, T)
  BY <1>1, <1>3, <1>6 DEF Credits
<1>8. /\ CanLock(p, u) /\ lock' = [lock EXCEPT ![u] = p]
      /\ UNCHANGED <<tables, panel, clock>>
  BY <1>1 DEF TopUpCredit
<1>. QED  BY <1>1, <1>2, <1>4, <1>6, <1>7, <1>8
(* A candidate of the cleanup is checked with its customer locked.         *)
Checks(S, T, s) ==
    /\ wallet[Owner[s]] <= 0 /\ Stale(svc[s], S.cutoff)
    /\ T.at = "expire" /\ T.todo = {s} /\ T.user = Owner[s]
    /\ T.log = S.log /\ T.txn = S.txn /\ T.touched = {}
    /\ \A x \in Services :
         /\ T.base[x] = IF x = s THEN svc[x] ELSE S.base[x]
         /\ T.orm[x] = IF x = s THEN svc[x] ELSE S.orm[x]

(* The transaction of p is over.                                           *)
Ends(p, T) == Become(p, T) /\ Fresh(T) /\ T.at \in {"idle", "next"}

LEMMA CleanCheckDoes ==
    ASSUME Inductive, NEW p \in Procs, CleanCheck(p)
    PROVE  \E s \in Services, T \in Session :
             /\ sess[p].at = "next" /\ UNCHANGED <<tables, panel, clock>>
             /\ \/ Ends(p, T) /\ UNCHANGED lock
                \/ /\ Become(p, T) /\ Checks(sess[p], T, s) /\ s \in sess[p].due
                   /\ CanLock(p, Owner[s]) /\ lock' = [lock EXCEPT ![Owner[s]] = p]
<1>1. PICK S : S = sess[p]
  OBVIOUS
<1>2. PICK s, u, U, L, D, T, due, rows :
        /\ s \in S.due
        /\ u = Owner[s] /\ rows = {s} /\ due = S.due \ {s}
        /\ U = LoadUser(S, u) /\ L = LoadRows(U, rows) /\ D = [L EXCEPT !.due = due]
        /\ \/ T = After(D) /\ Become(p, T) /\ UNCHANGED lock
           \/ /\ T = [D EXCEPT !.at = "expire", !.todo = rows] /\ Become(p, T)
              /\ wallet[u] <= 0 /\ Stale(svc[s], S.cutoff)
              /\ CanLock(p, u) /\ lock' = [lock EXCEPT ![u] = p]
  BY <1>1 DEF CleanCheck
<1>3. /\ TypeOK /\ S \in Session /\ S.at = "next" /\ S.seen = {} /\ S.touched = {}
  BY <1>1 DEF CleanCheck, Inductive, OpenOf, TypeOK
<1>4. s \in Services /\ u \in Users /\ rows \in SUBSET Services /\ due \in SUBSET Services
  BY <1>2, <1>3, IdsAssumption DEF Session
<1>5. /\ U \in Session /\ U.user = u /\ U.log = S.log /\ U.touched = {} /\ U.txn = S.txn
      /\ U.seen = {} /\ RowsKept(S, U)
  BY <1>2, <1>3, <1>4, LoadUserDoes
<1>6. /\ L \in Session /\ MoneyKept(U, L)
      /\ \A x \in Services :
           /\ L.base[x] = IF x \in rows THEN svc[x] ELSE U.base[x]
           /\ L.orm[x] = IF x \in rows THEN svc[x] ELSE U.orm[x]
  <2>1. rows \ U.seen = rows
    BY <1>5
  <2>. QED  BY <1>2, <1>3, <1>4, <1>5, <2>1, LoadRowsDoes
<1>7. /\ D \in Session /\ D.user = L.user /\ D.log = L.log /\ D.txn = L.txn
      /\ D.touched = L.touched /\ D.base = L.base /\ D.orm = L.orm
  BY <1>2, <1>4, <1>6 DEF Session
<1>8. CASE T = After(D) /\ Become(p, T) /\ UNCHANGED lock
  <2>1. Fresh(T) /\ T.at \in {"idle", "next"}
    BY <1>7, <1>8, AfterDoes
  <2>2. T \in Session
    BY <2>1 DEF Fresh
  <2>3. UNCHANGED <<tables, panel, clock>>
    BY DEF CleanCheck
  <2>. QED  BY <1>1, <1>3, <1>4, <1>8, <2>1, <2>2, <2>3 DEF Ends
<1>9. CASE /\ T = [D EXCEPT !.at = "expire", !.todo = rows] /\ Become(p, T)
           /\ wallet[u] <= 0 /\ Stale(svc[s], S.cutoff)
           /\ CanLock(p, u) /\ lock' = [lock EXCEPT ![u] = p]
  <2>1. /\ T \in Session /\ T.at = "expire" /\ T.todo = rows /\ T.user = D.user
        /\ T.log = D.log /\ T.txn = D.txn /\ T.touched = D.touched
        /\ T.base = D.base /\ T.orm = D.orm
    BY <1>4, <1>7, <1>9 DEF Session, Phases
  <2>2. /\ T.at = "expire" /\ T.todo = {s} /\ T.user = Owner[s]
        /\ T.log = S.log /\ T.txn = S.txn /\ T.touched = {}
        /\ wallet[Owner[s]] <= 0 /\ Stale(svc[s], S.cutoff)
    BY <1>2, <1>5, <1>6, <1>7, <1>9, <2>1 DEF MoneyKept
  <2>3. \A x \in Services :
          /\ T.base[x] = IF x = s THEN svc[x] ELSE S.base[x]
          /\ T.orm[x] = IF x = s THEN svc[x] ELSE S.orm[x]
    <3>1. rows = {s}
      BY <1>2
    <3>2. T.base = L.base /\ T.orm = L.orm /\ U.base = S.base /\ U.orm = S.orm
      BY <1>5, <1>7, <2>1 DEF RowsKept
    <3>. QED  BY <1>6, <3>1, <3>2
  <2>4. Checks(S, T, s)
    BY <2>2, <2>3 DEF Checks
  <2>5. UNCHANGED <<tables, panel, clock>>
    BY DEF CleanCheck
  <2>. QED  BY <1>1, <1>2, <1>3, <1>4, <1>9, <2>1, <2>4, <2>5
<1>. QED  BY <1>2, <1>8, <1>9

LEMMA ExpireDoes ==
    ASSUME Inductive, NEW p \in Procs, Expire(p)
    PROVE  \E s \in sess[p].todo, T \in Session :
             /\ s \in Services /\ sess[p].at = "expire" /\ UNCHANGED <<tables, used, clock>>
             /\ \/ /\ PanelOk(s, "gone") /\ UNCHANGED lock /\ Become(p, T)
                   /\ Edits(sess[p], T, s, Deleted(sess[p].orm[s]))
                \/ /\ PanelError(s, "gone") /\ lock' = Unlocked(p) /\ Ends(p, T)
<1>1. PICK S : S = sess[p]
  OBVIOUS
<1>2. PICK s, r, T :
        /\ s \in S.todo
        /\ r = Deleted(S.orm[s])
        /\ \/ /\ PanelOk(s, "gone") /\ UNCHANGED lock
              /\ T = [Left(S, s) EXCEPT !.orm[s] = r] /\ Become(p, T)
           \/ PanelError(s, "gone") /\ T = After(S) /\ Become(p, T) /\ lock' = Unlocked(p)
  BY <1>1 DEF Expire
<1>3. TypeOK /\ S \in Session /\ S.at = "expire" /\ UNCHANGED <<tables, used, clock>>
  BY <1>1 DEF Inductive, TypeOK, Expire
<1>4. s \in Services /\ S.orm[s] \in Row
  BY <1>2, <1>3 DEF Session
<1>5. r \in Row
  BY <1>2, <1>3, <1>4, EditsKeepCounters
<1>6. CASE /\ PanelOk(s, "gone") /\ UNCHANGED lock
           /\ T = [Left(S, s) EXCEPT !.orm[s] = r] /\ Become(p, T)
  <2>1. T \in Session /\ Edits(S, T, s, r)
    BY <1>3, <1>4, <1>5, <1>6, EditEdits
  <2>. QED  BY <1>1, <1>2, <1>3, <1>4, <1>6, <2>1
<1>7. CASE PanelError(s, "gone") /\ T = After(S) /\ Become(p, T) /\ lock' = Unlocked(p)
  <2>1. Fresh(T) /\ T.at \in {"idle", "next"} /\ T \in Session
    BY <1>3, <1>7, AfterDoes DEF Fresh
  <2>. QED  BY <1>1, <1>2, <1>3, <1>4, <1>7, <2>1 DEF Ends
<1>. QED  BY <1>2, <1>6, <1>7

(* The buttons that loop over services only read when they start.          *)
LEMMA AskLoopDoes ==
    ASSUME Inductive, NEW p \in Procs, AskService(p) \/ AskDeleteAll(p)
    PROVE  \E T \in Session :
             /\ Become(p, T) /\ T.log = Idle.log /\ T.txn = Idle.txn
             /\ T.at \in {"call", "commit"} /\ UNCHANGED <<tables, lock, panel, clock>>
<1>1. PICK op \in Operations, u \in Users, rows \in SUBSET Services :
        Ask(p, op, Loop(LoadUser(Idle, u), "call", rows))
  <2>1. CASE AskService(p)
    <3>1. PICK s \in Services, op \in {"reactivate", "reenable", "disable", "delete"} :
            Ask(p, op, Loop(LoadUser(Idle, Owner[s]), "call", {s}))
      BY <2>1 DEF AskService
    <3>2. Owner[s] \in Users /\ {s} \in SUBSET Services /\ op \in Operations
      BY IdsAssumption DEF Operations
    <3>. QED  BY <3>1, <3>2
  <2>2. CASE AskDeleteAll(p)
    <3>1. PICK u \in Users :
            Ask(p, "delete_all", Loop(LoadUser(Idle, u), "call",
                {s \in Owned(u) : svc[s].status # "deleted"}))
      BY <2>2 DEF AskDeleteAll
    <3>2. PICK rows : rows = {s \in Owned(u) : svc[s].status # "deleted"}
      OBVIOUS
    <3>3. rows \in SUBSET Services /\ "delete_all" \in Operations
      BY <3>2 DEF Owned, Operations
    <3>. QED  BY <3>1, <3>2, <3>3
  <2>. QED  BY <2>1, <2>2
<1>2. PICK L, K, T :
        /\ L = LoadUser(Idle, u) /\ K = Loop(L, "call", rows)
        /\ T = [K EXCEPT !.op = op] /\ Become(p, T)
  BY <1>1 DEF Ask
<1>3. TypeOK /\ "call" \in Phases
  BY DEF Inductive, Phases
<1>4. L \in Session /\ Opens(L, u, "idle")
  BY <1>2, <1>3, LoadedOpens
<1>5. K \in Session /\ Loads(L, K, "call", rows)
  BY <1>2, <1>3, <1>4, LoopLoads
<1>6. T \in Session /\ T.at = K.at /\ MoneyKept(K, T)
  BY <1>2, <1>5, OpDoes
<1>7. T.log = Idle.log /\ T.txn = Idle.txn /\ T.at \in {"call", "commit"}
  BY <1>4, <1>5, <1>6 DEF Loads, MoneyKept, Opens
<1>8. UNCHANGED <<tables, lock, panel, clock>>
  BY <1>1 DEF Ask
<1>. QED  BY <1>2, <1>6, <1>7, <1>8

LEMMA AskBlockingDoes ==
    ASSUME Inductive, NEW p \in Procs, AskBlocking(p)
    PROVE  \E u \in Users, op \in {"block", "unblock"} \cap Requests, T \in Session :
             /\ Become(p, T) /\ Opens(T, u, op) /\ sess[p].at = "idle"
             /\ UNCHANGED <<tables, lock, panel, clock>>
<1>1. PICK u, op, L, K, T :
        /\ u \in Users /\ op \in {"block", "unblock"}
        /\ op \in Requests
        /\ L = LoadUser(Idle, u) /\ K = [L EXCEPT !.at = op]
        /\ T = [K EXCEPT !.op = op] /\ Become(p, T)
        /\ sess[p].at = "idle" /\ UNCHANGED <<tables, lock, panel, clock>>
  BY DEF AskBlocking, Ask
<1>2. TypeOK /\ op \in Phases /\ op \in Operations
  BY <1>1 DEF Inductive, Phases, Operations
<1>3. L \in Session /\ Opens(L, u, "idle")
  BY <1>1, <1>2, LoadedOpens
<1>4. K \in Session /\ K.at = op /\ K.todo = L.todo /\ MoneyKept(L, K) /\ RowsKept(L, K)
  BY <1>1, <1>2, <1>3, AtDoes
<1>5. T = [K EXCEPT !.op = op] /\ op \in Operations
  BY <1>1, <1>2
<1>6. K \in Session /\ K.at = op
  BY <1>4
<1>7. T \in Session /\ T.at = op /\ T.todo = K.todo /\ MoneyKept(K, T) /\ RowsKept(K, T)
  BY <1>5, <1>6, OpDoes
<1>8. Opens(T, u, op)
  BY <1>3, <1>4, <1>7 DEF Opens, MoneyKept, RowsKept
<1>. QED  BY <1>1, <1>7, <1>8

LEMMA AskDebitDoes ==
    ASSUME Inductive, NEW p \in Procs, AskDebit(p)
    PROVE  \E u \in Users, T \in Session :
             /\ Become(p, T) /\ Opens(T, u, "debit") /\ sess[p].at = "idle"
             /\ UNCHANGED <<tables, lock, panel, clock>>
<1>1. PICK u, a, capped, L, K, T :
        /\ u \in Users /\ a \in Amounts
        /\ capped = (IF wallet[u] < a THEN wallet[u] ELSE a)
        /\ L = LoadUser(Idle, u) /\ K = [L EXCEPT !.at = "debit", !.amount = capped]
        /\ T = [K EXCEPT !.op = "debit"] /\ Become(p, T)
        /\ sess[p].at = "idle" /\ UNCHANGED <<tables, lock, panel, clock>>
  BY DEF AskDebit, Ask
<1>2. /\ TypeOK /\ "debit" \in Phases /\ "debit" \in Operations /\ capped \in Int
  BY <1>1, MoneyAssumption DEF Inductive, TypeOK, Phases, Operations
<1>3. L \in Session /\ Opens(L, u, "idle")
  BY <1>1, <1>2, LoadedOpens
<1>4. /\ K \in Session /\ K.at = "debit" /\ K.user = L.user /\ K.bal = L.bal
      /\ K.log = L.log /\ K.txn = L.txn /\ K.touched = L.touched
      /\ K.base = L.base /\ K.orm = L.orm /\ K.todo = L.todo
  BY <1>1, <1>2, <1>3 DEF Session
<1>5. T = [K EXCEPT !.op = "debit"] /\ "debit" \in Operations
  BY <1>1, <1>2
<1>6. K \in Session /\ K.at = "debit"
  BY <1>4
<1>7. T \in Session /\ T.at = "debit" /\ T.todo = K.todo /\ MoneyKept(K, T) /\ RowsKept(K, T)
  BY <1>5, <1>6, OpDoes
<1>8. Opens(T, u, "debit")
  BY <1>3, <1>4, <1>7 DEF Opens, MoneyKept, RowsKept
<1>. QED  BY <1>1, <1>7, <1>8

LEMMA SetBlockedDoes ==
    ASSUME Inductive, NEW p \in Procs, SetBlocked(p)
    PROVE  \E T \in Session :
             /\ Become(p, T) /\ sess[p].at \in {"block", "unblock"}
             /\ MoneyKept(sess[p], T) /\ T.at \in {"call", "commit"}
             /\ sess[p].at = "unblock" => /\ RowsKept(sess[p], T) /\ T.at = "commit"
                                          /\ T.todo = sess[p].todo
             /\ UNCHANGED <<tables, panel, clock>> /\ OthersKeep(p)
             /\ \A u \in Users : lock[u] = p => lock'[u] = p
<1>1. PICK S, K, rows, T :
        /\ S = sess[p] /\ rows = {s \in Owned(S.user) : Active(svc[s])}
        /\ K = IF S.blk # (S.at = "block") THEN [S EXCEPT !.mark = S.at] ELSE S
        /\ Become(p, T)
        /\ \/ S.at = "block" /\ T = Loop(K, "call", rows)
           \/ S.at = "unblock" /\ T = [K EXCEPT !.at = "commit"]
  BY DEF SetBlocked
<1>2. /\ TypeOK /\ S \in Session /\ S.at \in {"block", "unblock"} /\ S.user \in Users
      /\ UNCHANGED <<tables, panel, clock>>
      /\ \/ CanLock(p, S.user) /\ lock' = [lock EXCEPT ![S.user] = p]
         \/ lock' = lock
  BY <1>1 DEF SetBlocked, Inductive, TypeOK, OpenOf
<1>3. OthersKeep(p) /\ \A v \in Users : lock[v] = p => lock'[v] = p
  BY <1>2, LockStep, SameLock
<1>4. /\ K \in Session /\ K.at = S.at /\ K.todo = S.todo /\ MoneyKept(S, K) /\ RowsKept(S, K)
  BY <1>1, <1>2 DEF Session, MoneyKept, RowsKept
<1>5. rows \in SUBSET Services /\ "call" \in Phases /\ "commit" \in Phases
  BY <1>1 DEF Owned, Phases
<1>6. CASE S.at = "block" /\ T = Loop(K, "call", rows)
  <2>1. T \in Session /\ Loads(K, T, "call", rows)
    BY <1>2, <1>4, <1>5, <1>6, LoopLoads
  <2>2. MoneyKept(S, T) /\ T.at \in {"call", "commit"}
    BY <1>4, <2>1 DEF Loads, MoneyKept
  <2>. QED  BY <1>1, <1>2, <1>3, <1>6, <2>1, <2>2
<1>7. CASE S.at = "unblock" /\ T = [K EXCEPT !.at = "commit"]
  <2>1. /\ T \in Session /\ T.at = "commit" /\ T.todo = K.todo
        /\ MoneyKept(K, T) /\ RowsKept(K, T)
    BY <1>4, <1>5, <1>7, AtDoes
  <2>2. MoneyKept(S, T) /\ RowsKept(S, T) /\ T.todo = S.todo
    BY <1>4, <2>1 DEF MoneyKept, RowsKept
  <2>. QED  BY <1>1, <1>2, <1>3, <1>7, <2>1, <2>2
<1>. QED  BY <1>1, <1>6, <1>7

LEMMA CallDoes ==
    ASSUME Inductive, NEW p \in Procs, Call(p)
    PROVE  \E T \in Session :
             /\ Become(p, T) /\ sess[p].at = "call" /\ T.at # "meter"
             /\ (MoneyKept(sess[p], T) \/ Fresh(T))
             /\ UNCHANGED <<tables, lock, used, clock>>
<1>1. PICK S : S = sess[p]
  OBVIOUS
<1>2. PICK s, r, T :
        /\ s \in S.todo
        /\ r = Edited(S.op, S.orm[s]) /\ Become(p, T)
        /\ T \in {[Left(S, s) EXCEPT !.orm[s] = r], Left(S, s), After(S)}
  BY <1>1 DEF Call
<1>3. TypeOK /\ S \in Session /\ S.at = "call" /\ UNCHANGED <<tables, lock, used, clock>>
  BY <1>1 DEF Inductive, TypeOK, Call
<1>4. s \in Services /\ S.orm[s] \in Row
  BY <1>2, <1>3 DEF Session
<1>5. r \in Row
  BY <1>2, <1>3, <1>4, EditsKeepCounters DEF Edited
<1>6. CASE T = [Left(S, s) EXCEPT !.orm[s] = r]
  <2>1. T \in Session /\ Edits(S, T, s, r)
    BY <1>3, <1>4, <1>5, <1>6, EditEdits
  <2>. QED  BY <1>1, <1>2, <1>3, <2>1 DEF Edits, Turns
<1>7. CASE T = Left(S, s)
  <2>1. T \in Session /\ Leaves(S, T, s)
    BY <1>3, <1>4, <1>7, LeftLeaves
  <2>. QED  BY <1>1, <1>2, <1>3, <2>1 DEF Leaves, Turns
<1>8. CASE T = After(S)
  <2>1. Fresh(T) /\ T.at \in {"idle", "next"} /\ T \in Session
    BY <1>3, <1>8, AfterDoes DEF Fresh
  <2>. QED  BY <1>1, <1>2, <1>3, <2>1
<1>. QED  BY <1>2, <1>6, <1>7, <1>8

(* The amount is taken from the wallet the UPDATE finds, if it covers it.  *)
Debits(S, T) ==
    /\ 0 < S.amount /\ S.amount <= wallet[S.user]
    /\ T.at = "commit" /\ T.todo = S.todo /\ T.user = S.user /\ T.amount = S.amount
    /\ T.log = S.log /\ RowsKept(S, T) /\ T.touched = S.touched \cup {S.user}
    /\ \A u \in Users :
         /\ T.txn[u]["traffic"] = S.txn[u]["traffic"]
         /\ T.txn[u]["other"] = S.txn[u]["other"] - (IF u = S.user THEN S.amount ELSE 0)

LEMMA DebitDoes ==
    ASSUME Inductive, NEW p \in Procs, Debit(p)
    PROVE  \E T \in Session :
             /\ sess[p].at = "debit" /\ UNCHANGED <<tables, panel, clock>>
             /\ \/ Ends(p, T) /\ UNCHANGED lock
                \/ /\ Become(p, T) /\ T.at = "commit" /\ T.todo = sess[p].todo
                   /\ MoneyKept(sess[p], T) /\ RowsKept(sess[p], T) /\ UNCHANGED lock
                \/ /\ Become(p, T) /\ Debits(sess[p], T) /\ CanLock(p, sess[p].user)
                   /\ lock' = [lock EXCEPT ![sess[p].user] = p]
<1>1. PICK S : S = sess[p]
  OBVIOUS
<1>2. /\ TypeOK /\ S \in Session /\ S.at = "debit" /\ S.user \in Users
      /\ UNCHANGED <<tables, panel, clock>>
  BY <1>1 DEF Inductive, TypeOK, Debit, OpenOf
<1>3. S.amount \in Int /\ wallet[S.user] \in Int
  BY <1>2 DEF Session, TypeOK
<1>4. PICK back, u, k, M, T :
        /\ back = -S.amount /\ u = S.user /\ k = "other" /\ M = Move(S, u, k, back)
        /\ Become(p, T)
        /\ \/ T = After(S) /\ UNCHANGED lock
           \/ T = [S EXCEPT !.at = "commit"] /\ UNCHANGED lock
           \/ /\ T = [M EXCEPT !.at = "commit"] /\ 0 < S.amount /\ S.amount <= wallet[u]
              /\ CanLock(p, u) /\ lock' = [lock EXCEPT ![u] = p]
  <2>1. CASE S.amount < 0
    BY <1>1, <2>1 DEF Debit
  <2>2. CASE ~(S.amount < 0) /\ (S.amount = 0 \/ ~Covers(S.user, S.amount))
    BY <1>1, <2>2 DEF Debit
  <2>3. CASE ~(S.amount < 0) /\ ~(S.amount = 0 \/ ~Covers(S.user, S.amount))
    <3>1. 0 < S.amount /\ S.amount <= wallet[S.user]
      BY <1>3, <2>3 DEF Covers
    <3>. QED  BY <1>1, <2>3, <3>1 DEF Debit
  <2>. QED  BY <2>1, <2>2, <2>3
<1>5. back \in Int /\ k \in Kinds /\ u \in Users /\ "commit" \in Phases
  BY <1>2, <1>3, <1>4 DEF Kinds, Phases
<1>6. CASE T = After(S) /\ UNCHANGED lock
  <2>1. Fresh(T) /\ T.at \in {"idle", "next"} /\ T \in Session
    BY <1>2, <1>6, AfterDoes DEF Fresh
  <2>. QED  BY <1>1, <1>2, <1>4, <1>6, <2>1 DEF Ends
<1>7. CASE T = [S EXCEPT !.at = "commit"] /\ UNCHANGED lock
  <2>1. /\ T \in Session /\ T.at = "commit" /\ T.todo = S.todo
        /\ MoneyKept(S, T) /\ RowsKept(S, T)
    BY <1>2, <1>5, <1>7, AtDoes
  <2>. QED  BY <1>1, <1>2, <1>4, <1>7, <2>1
<1>8. CASE /\ T = [M EXCEPT !.at = "commit"] /\ 0 < S.amount /\ S.amount <= wallet[u]
           /\ CanLock(p, u) /\ lock' = [lock EXCEPT ![u] = p]
  <2>1. /\ M \in Session /\ M.todo = S.todo /\ M.user = S.user
        /\ M.amount = S.amount /\ M.log = S.log /\ RowsKept(S, M)
        /\ M.touched = S.touched \cup {u} /\ Paid(S, M, u, k, back)
    BY <1>2, <1>4, <1>5, MoveDoes
  <2>2. /\ T \in Session /\ T.at = "commit" /\ T.todo = M.todo
        /\ MoneyKept(M, T) /\ RowsKept(M, T)
    BY <1>5, <1>8, <2>1, AtDoes
  <2>3. ASSUME NEW v \in Users
        PROVE  /\ T.txn[v]["traffic"] = S.txn[v]["traffic"]
               /\ T.txn[v]["other"] = S.txn[v]["other"] - (IF v = S.user THEN S.amount ELSE 0)
    <3>1. S.txn[v]["traffic"] \in Int /\ S.txn[v]["other"] \in Int
      BY <1>2 DEF Session, Kinds
    <3>2. /\ T.txn[v]["traffic"] = M.txn[v]["traffic"]
          /\ T.txn[v]["other"] = M.txn[v]["other"]
      BY <2>2 DEF MoneyKept
    <3>3. /\ M.txn[v]["traffic"] = S.txn[v]["traffic"] + 0
          /\ M.txn[v]["other"] = S.txn[v]["other"] + (IF v = u THEN back ELSE 0)
      BY <1>4, <2>1 DEF Paid, Kinds
    <3>. QED  BY <1>3, <1>4, <3>1, <3>2, <3>3
  <2>4. Debits(S, T)
    BY <1>4, <1>8, <2>1, <2>2, <2>3 DEF Debits, MoneyKept, RowsKept
  <2>. QED  BY <1>1, <1>2, <1>4, <1>8, <2>2, <2>4
<1>. QED  BY <1>4, <1>6, <1>7, <1>8

LEMMA EndDoes ==
    ASSUME Inductive, NEW p \in Procs, Abort(p) \/ Undelivered(p)
    PROVE  \E T \in Session :
             /\ Ends(p, T) /\ lock' = Unlocked(p)
             /\ sess[p].at # "idle" /\ UNCHANGED <<tables, panel, clock>>
<1>1. PICK S, T : S = sess[p] /\ T \in {Idle, After(S)} /\ Become(p, T)
  BY DEF Abort, Undelivered
<1>2. S \in Session
  BY <1>1 DEF Inductive, TypeOK
<1>3. Fresh(T) /\ T.at \in {"idle", "next"} /\ T \in Session
  BY <1>1, <1>2, AfterDoes, IdleFresh DEF Fresh
<1>4. /\ lock' = Unlocked(p) /\ sess[p].at # "idle" /\ UNCHANGED <<tables, panel, clock>>
  BY DEF Abort, Undelivered
<1>. QED  BY <1>1, <1>3, <1>4 DEF Ends

(* A step that charges nothing, or starts from nothing.                    *)
LEMMA BillKept ==
    ASSUME Inductive, Bills, NEW p \in Procs, NEW T, Become(p, T), T.at # "meter",
           T.log = sess[p].log, T.user = sess[p].user \/ sess[p].at \in {"idle", "next"},
           \A u \in Users : T.txn[u]["traffic"] = sess[p].txn[u]["traffic"],
           UNCHANGED <<tables, used>>
    PROVE  Bills'
<1>1. BillOf(p, T)
  BY BillNow, BillOn
<1>. QED  BY <1>1, BillsTurn

LEMMA BillNothing ==
    ASSUME Inductive, Bills, NEW p \in Procs, NEW T, Become(p, T), T.at # "meter",
           T.log = Idle.log, T.txn = Idle.txn, UNCHANGED <<tables, used>>
    PROVE  Bills'
BY BillFresh, BillsTurn

LEMMA LoopBills ==
    ASSUME Inductive, Bills, NEW p \in Procs,
           Decide(p) \/ Cut(p) \/ Restore(p) \/ Call(p) \/ SetBlocked(p)
    PROVE  Bills'
<1>1. \E T \in Session :
        /\ Become(p, T) /\ T.at # "meter" /\ (MoneyKept(sess[p], T) \/ Fresh(T))
        /\ UNCHANGED <<tables, used>>
  <2>1. CASE Decide(p)
    <3>1. PICK T \in Session :
            /\ Become(p, T) /\ Decides(sess[p], T) /\ UNCHANGED <<tables, lock, panel, clock>>
      BY <2>1, DecideDoes
    <3>2. MoneyKept(sess[p], T) /\ T.at # "meter"
      BY <3>1 DEF Decides, Loads
    <3>. QED  BY <3>1, <3>2 DEF panel
  <2>2. CASE Cut(p)
    <3>1. PICK s \in sess[p].todo, T \in Session :
            /\ Become(p, T) /\ sess[p].at = "cut" /\ Turns(sess[p], T, s)
            /\ UNCHANGED <<tables, lock, used, clock>>
      BY <2>2, CutDoes DEF Edits, Leaves
    <3>. QED  BY <3>1 DEF Turns
  <2>3. CASE Restore(p)
    <3>1. PICK s \in sess[p].todo, T \in Session :
            /\ Become(p, T) /\ sess[p].at = "restore" /\ Turns(sess[p], T, s)
            /\ UNCHANGED <<tables, lock, used, clock>>
      BY <2>3, RestoreDoes DEF Edits, Leaves
    <3>. QED  BY <3>1 DEF Turns
  <2>4. CASE Call(p)
    BY <2>4, CallDoes
  <2>5. CASE SetBlocked(p)
    <3>1. PICK T \in Session :
            /\ Become(p, T) /\ MoneyKept(sess[p], T) /\ T.at \in {"call", "commit"}
            /\ UNCHANGED <<tables, panel, clock>>
      BY <2>5, SetBlockedDoes
    <3>. QED  BY <3>1 DEF panel
  <2>. QED  BY <2>1, <2>2, <2>3, <2>4, <2>5
<1>2. PICK T \in Session :
        /\ Become(p, T) /\ T.at # "meter" /\ (MoneyKept(sess[p], T) \/ Fresh(T))
        /\ UNCHANGED <<tables, used>>
  BY <1>1
<1>3. CASE MoneyKept(sess[p], T)
  BY <1>2, <1>3, BillKept DEF MoneyKept
<1>4. CASE Fresh(T)
  BY <1>2, <1>4, BillNothing DEF Fresh
<1>. QED  BY <1>2, <1>3, <1>4

LEMMA AskBills ==
    ASSUME Inductive, Bills, NEW p \in Procs,
           TopUpBegin(p) \/ AskService(p) \/ AskDeleteAll(p) \/ AskBlocking(p) \/ AskDebit(p)
    PROVE  Bills'
<1>1. PICK T \in Session :
        /\ Become(p, T) /\ T.log = Idle.log /\ T.txn = Idle.txn /\ T.at # "meter"
        /\ UNCHANGED <<tables, lock, panel, clock>>
  <2>1. CASE TopUpBegin(p)
    BY <2>1, TopUpBeginDoes DEF Opens
  <2>2. CASE AskService(p) \/ AskDeleteAll(p)
    <3>1. PICK T \in Session :
            /\ Become(p, T) /\ T.log = Idle.log /\ T.txn = Idle.txn
            /\ T.at \in {"call", "commit"} /\ UNCHANGED <<tables, lock, panel, clock>>
      BY <2>2, AskLoopDoes
    <3>. QED  BY <3>1
  <2>3. CASE AskBlocking(p)
    <3>1. PICK u \in Users, op \in {"block", "unblock"}, T \in Session :
            Become(p, T) /\ Opens(T, u, op) /\ UNCHANGED <<tables, lock, panel, clock>>
      BY <2>3, AskBlockingDoes
    <3>. QED  BY <3>1 DEF Opens
  <2>4. CASE AskDebit(p)
    BY <2>4, AskDebitDoes DEF Opens
  <2>. QED  BY <2>1, <2>2, <2>3, <2>4
<1>. QED  BY <1>1, BillNothing DEF panel

LEMMA CreditBills ==
    ASSUME Inductive, Bills, NEW p \in Procs, TopUpCredit(p)
    PROVE  Bills'
<1>1. PICK T \in Session :
        /\ Become(p, T) /\ sess[p].at = "credit" /\ Credits(sess[p], T)
        /\ UNCHANGED <<tables, panel, clock>>
  BY TopUpCreditDoes
<1>2. PICK M \in Session :
        /\ M.log = sess[p].log /\ M.user = sess[p].user
        /\ Paid(sess[p], M, sess[p].user, "other", sess[p].amount)
        /\ MoneyKept(M, T) /\ T.at # "meter"
  BY <1>1 DEF Credits, Loads
<1>3. sess[p] \in Session
  BY DEF Inductive, TypeOK
<1>4. ASSUME NEW u \in Users PROVE T.txn[u]["traffic"] = sess[p].txn[u]["traffic"]
  <2>1. sess[p].txn[u]["traffic"] \in Int
    BY <1>3 DEF Session, Kinds
  <2>. QED  BY <1>2, <2>1 DEF Paid, Kinds, MoneyKept
<1>. QED  BY <1>1, <1>2, <1>4, BillKept DEF MoneyKept, panel

LEMMA DebitBills ==
    ASSUME Inductive, Bills, NEW p \in Procs, Debit(p)
    PROVE  Bills'
<1>1. PICK T \in Session :
        /\ UNCHANGED <<tables, panel, clock>> /\ Become(p, T)
        /\ \/ Ends(p, T)
           \/ T.at = "commit" /\ MoneyKept(sess[p], T)
           \/ Debits(sess[p], T)
  BY DebitDoes DEF Ends
<1>2. CASE Ends(p, T)
  BY <1>1, <1>2, BillNothing DEF Ends, Fresh, panel
<1>3. CASE T.at = "commit" /\ MoneyKept(sess[p], T)
  BY <1>1, <1>3, BillKept DEF MoneyKept, panel
<1>4. CASE Debits(sess[p], T)
  BY <1>1, <1>4, BillKept DEF Debits, panel
<1>. QED  BY <1>1, <1>2, <1>3, <1>4

LEMMA CleanBills ==
    ASSUME Inductive, Bills, NEW p \in Procs, CleanCheck(p) \/ Expire(p)
    PROVE  Bills'
<1>1. PICK T \in Session :
        /\ Become(p, T) /\ UNCHANGED <<tables, used>>
        /\ \/ Ends(p, T)
           \/ sess[p].at = "next" /\ \E s : Checks(sess[p], T, s)
           \/ sess[p].at = "expire" /\ \E s : Turns(sess[p], T, s)
  <2>1. CASE CleanCheck(p)
    BY <2>1, CleanCheckDoes DEF Ends, panel
  <2>2. CASE Expire(p)
    <3>1. PICK s \in sess[p].todo, T \in Session :
            /\ sess[p].at = "expire" /\ UNCHANGED <<tables, used, clock>> /\ Become(p, T)
            /\ \/ Edits(sess[p], T, s, Deleted(sess[p].orm[s]))
               \/ Ends(p, T)
      BY <2>2, ExpireDoes DEF Ends
    <3>. QED  BY <3>1 DEF Edits
  <2>. QED  BY <2>1, <2>2
<1>2. CASE Ends(p, T)
  BY <1>1, <1>2, BillNothing DEF Ends, Fresh
<1>3. CASE sess[p].at = "next" /\ \E s : Checks(sess[p], T, s)
  BY <1>1, <1>3, BillKept DEF Checks
<1>4. CASE sess[p].at = "expire" /\ \E s : Turns(sess[p], T, s)
  BY <1>1, <1>4, BillKept DEF Turns, MoneyKept
<1>. QED  BY <1>1, <1>2, <1>3, <1>4

LEMMA EndBills ==
    ASSUME Inductive, Bills, NEW p \in Procs, Abort(p) \/ Undelivered(p)
    PROVE  Bills'
<1>1. PICK T \in Session : Ends(p, T) /\ UNCHANGED <<tables, panel, clock>>
  BY EndDoes
<1>. QED  BY <1>1, BillNothing DEF Ends, Fresh, panel

(* The rows of a commit are the sums of its entries.                       *)
LEMMA CommitBills ==
    ASSUME Inductive, Bills, NEW p \in Procs, Commit(p)
    PROVE  Bills'
<1>1. PICK S, T : S = sess[p] /\ T = After(S) /\ Become(p, T)
  BY DEF Commit
<1>2. /\ TypeOK /\ S \in Session /\ BillOf(p, S)
  BY <1>1, BillNow
<1>3. Fresh(T) /\ T.at \in {"idle", "next"} /\ BillOf(p, T)
  <2>1. Fresh(T) /\ T.at \in {"idle", "next"}
    BY <1>1, <1>2, AfterDoes
  <2>. QED  BY <2>1, BillFresh DEF Fresh
<1>4. \A q \in Procs : BillOf(q, sess'[q])
  BY <1>1, <1>2, <1>3 DEF Become, Bills, TypeOK
<1>5. Billed'
  BY DEF Bills, Billed, Commit, panel
<1>6. ASSUME NEW u \in Users
      PROVE  ledger'[u]["traffic"] + Total([s \in Services |-> usage'[s].cost], Owned(u)) = 0
  <2>1. PICK old, new :
          /\ old = [s \in Services |-> usage[s].cost]
          /\ new = [s \in Services |-> usage'[s].cost]
    OBVIOUS
  <2>2. \A s \in Services : old[s] \in Int /\ Costs(S)[s] \in Int
    BY <1>2, <2>1 DEF Costs, Session, Entry, TypeOK
  <2>3. \A s \in Services : new[s] = old[s] + Costs(S)[s]
    BY <1>1, <2>1 DEF Commit, Costs
  <2>4. Total(new, Owned(u)) = Total(old, Owned(u)) + Total(Costs(S), Owned(u))
    BY <2>2, <2>3, OwnedFinite, TotalPlus
  <2>5. Total(old, Owned(u)) \in Int /\ Total(Costs(S), Owned(u)) \in Int
    BY <2>2, OwnedFinite, TotalInt
  <2>6. ledger'[u]["traffic"] = ledger[u]["traffic"] + S.txn[u]["traffic"]
    BY <1>1 DEF Commit, Kinds
  <2>7. ledger[u]["traffic"] \in Int /\ S.txn[u]["traffic"] \in Int
    BY <1>2 DEF TypeOK, Session, Kinds
  <2>8. ledger[u]["traffic"] + Total(old, Owned(u)) = 0
    BY <2>1 DEF Bills, ChargesAreLogged
  <2>9. S.txn[u]["traffic"] + Total(Costs(S), Owned(u)) = 0
    BY <1>2 DEF BillOf
  <2>10. ledger'[u]["traffic"] + Total(new, Owned(u)) = 0
    BY <2>4, <2>5, <2>6, <2>7, <2>8, <2>9
  <2>. QED  BY <2>1, <2>10
<1>. QED  BY <1>4, <1>5, <1>6 DEF Bills, ChargesAreLogged

(* Traffic counts up to the bound of the exploration.                      *)
LEMMA OutsideBills ==
    ASSUME Inductive, Bills,
           (\E s \in Services : Use(s) \/ Reset(s)) \/ Tick \/ UNCHANGED vars
    PROVE  Bills'
<1>1. UNCHANGED <<tables, sess>>
  BY DEF Use, Reset, Tick, vars
<1>2. Billed'
  <2>1. ASSUME NEW s \in Services, Use(s) PROVE Billed'
    <3>1. used[s] \in Nat /\ used[s] + 1 <= MaxUsed /\ used \in [Services -> Nat]
      BY <2>1, BoundsAssumption DEF Inductive, TypeOK, Use
    <3>. QED  BY <2>1, <3>1 DEF Use, Bills, Billed
  <2>2. ASSUME NEW s \in Services, Reset(s) PROVE Billed'
    <3>1. 0 <= MaxUsed /\ used \in [Services -> Nat]
      BY BoundsAssumption DEF Inductive, TypeOK
    <3>. QED  BY <2>2, <3>1 DEF Reset, Bills, Billed
  <2>3. CASE Tick \/ UNCHANGED vars
    BY <2>3 DEF Tick, panel, vars, Bills, Billed
  <2>. QED  BY <2>1, <2>2, <2>3
<1>3. ledger' = ledger /\ usage' = usage
  BY <1>1 DEF tables
<1>. QED  BY <1>1, <1>2, <1>3 DEF Bills, ChargesAreLogged

LEMMA InitBills == Init => Bills
<1>. SUFFICES ASSUME Init PROVE Bills
  OBVIOUS
<1>1. ASSUME NEW p \in Procs PROVE BillOf(p, sess[p])
  <2>1. sess[p] = Idle
    BY DEF Init
  <2>2. sess[p].at # "meter"
    BY <2>1, IdleFresh
  <2>. QED  BY <2>1, <2>2, BillFresh
<1>2. Billed
  BY BoundsAssumption DEF Init, Billed
<1>3. ASSUME NEW u \in Users
      PROVE  ledger[u]["traffic"] + Total([s \in Services |-> usage[s].cost], Owned(u)) = 0
  <2>1. PICK f : f = [s \in Services |-> usage[s].cost]
    OBVIOUS
  <2>2. \A s \in Owned(u) : f[s] = 0
    BY <2>1, OwnedFinite DEF Init, NoEntry
  <2>3. Total(f, Owned(u)) = 0
    BY <2>2, OwnedFinite, TotalZero
  <2>4. ledger[u]["traffic"] = 0
    BY DEF Init, NoMoney, Kinds
  <2>. QED  BY <2>1, <2>3, <2>4
<1>. QED  BY <1>1, <1>2, <1>3 DEF Bills, ChargesAreLogged

LEMMA NextBills == Inductive /\ Bills /\ [Next]_vars => Bills'
<1>. SUFFICES ASSUME Inductive, Bills, [Next]_vars PROVE Bills'
  OBVIOUS
<1>1. CASE (\E s \in Services : Use(s) \/ Reset(s)) \/ Tick \/ UNCHANGED vars
  BY <1>1, OutsideBills
<1>2. ASSUME NEW p \in Syncs, SyncStep(p) PROVE Bills'
  <2>1. p \in Procs
    BY DEF Procs
  <2>. QED
    BY <1>2, <2>1, SyncStartBills, SyncLockBills, MeterBills, LoopBills, CommitBills DEF SyncStep
<1>3. ASSUME NEW p \in Cashiers, TopUpBegin(p) \/ TopUpStep(p) PROVE Bills'
  <2>1. p \in Procs
    BY DEF Procs
  <2>. QED  BY <1>3, <2>1, AskBills, CreditBills, LoopBills, CommitBills DEF TopUpStep
<1>4. ASSUME NEW p \in Cleaners, CleanStep(p) PROVE Bills'
  <2>1. p \in Procs
    BY DEF Procs
  <2>. QED  BY <1>4, <2>1, SyncStartBills, CleanBills, CommitBills DEF CleanStep
<1>5. ASSUME NEW p \in Desks, DeskAsk(p) \/ DeskStep(p) \/ Undelivered(p) PROVE Bills'
  <2>1. p \in Procs
    BY DEF Procs
  <2>. QED
    BY <1>5, <2>1, AskBills, LoopBills, DebitBills, CommitBills, EndBills DEF DeskAsk, DeskStep
<1>6. ASSUME NEW p \in Procs, Abort(p) PROVE Bills'
  BY <1>6, EndBills
<1>. QED  BY <1>1, <1>2, <1>3, <1>4, <1>5, <1>6 DEF Next

LEMMA BillsInvariant == Spec => []Bills
<1>. QED  BY InductiveInvariant, InitBills, NextBills, PTL DEF Spec

(* What the usage logs say the services of a user cost is what the wallet  *)
(* transactions took for traffic, however syncs, shares and failures       *)
(* interleave (billing.py logs each charge next to its transaction).       *)
THEOREM ChargesLogged == Spec => []ChargesAreLogged
<1>. QED  BY BillsInvariant, PTL DEF Bills

-----------------------------------------------------------------------------
(* What a session is about to commit *)

(* The inviter's shares of what a session has charged.                     *)
Shares(S) == [s \in Services |-> Cashback(S.log[s].cost, Percent)]
Settling == {"meter", "cut", "restore", "commit"}

(* A service is cut off, or reconnected, since its row was loaded.         *)
Cutting(b, o, now) ==
    Active(b) /\ o.status = "disabled" /\ o.reason = "wallet" /\ o.since \in 0..now
Restoring(b, o) == OutOfMoney(b) /\ Active(o) /\ o.since = NoTime

(* A sync holds its customer, pays the inviter the shares of what it has   *)
(* charged, and switches services by the balance it will commit.           *)
SyncOf(p, S, w, l, now) ==
    /\ S.at \in Settling =>
         l[S.user] = p /\ (S.user \in S.touched \/ S.bal[S.user] = w[S.user])
    /\ \A u \in Users : S.txn[u]["other"] =
         IF S.user # NoUser /\ Inviter[S.user] = u THEN Total(Shares(S), Owned(S.user)) ELSE 0
    /\ \A s \in Services :
         \/ Same(S.base[s], S.orm[s])
         \/ /\ S.at \in {"cut", "commit"} /\ Cutting(S.base[s], S.orm[s], now)
            /\ Owner[s] = S.user /\ S.bal[S.user] <= 0
         \/ /\ S.at \in {"restore", "commit"} /\ Restoring(S.base[s], S.orm[s])
            /\ Owner[s] = S.user /\ S.bal[S.user] > 0
    /\ S.at = "cut" =>
         /\ S.bal[S.user] <= 0
         /\ \A s \in S.todo :
              Same(S.base[s], S.orm[s]) /\ Owner[s] = S.user /\ Active(S.base[s])
    /\ S.at = "restore" =>
         /\ S.bal[S.user] > 0
         /\ \A s \in S.todo :
              Same(S.base[s], S.orm[s]) /\ Owner[s] = S.user /\ OutOfMoney(S.base[s])

(* A top-up adds its amount and reconnects services by the new balance.    *)
CashOf(S) ==
    /\ S.at \in {"credit", "restore", "commit"} => S.amount \in Amounts
    /\ S.at \in {"restore", "commit"} => S.user \in S.touched
    /\ \A u \in Users : S.txn[u]["other"] =
         IF S.at \in {"restore", "commit"} /\ u = S.user THEN S.amount ELSE 0
    /\ \A s \in Services :
         \/ Same(S.base[s], S.orm[s])
         \/ /\ S.at \in {"restore", "commit"} /\ Restoring(S.base[s], S.orm[s])
            /\ Owner[s] = S.user /\ S.bal[S.user] > 0
    /\ S.at = "restore" =>
         /\ S.bal[S.user] > 0
         /\ \A s \in S.todo :
              Same(S.base[s], S.orm[s]) /\ Owner[s] = S.user /\ OutOfMoney(S.base[s])

(* A cleanup moves no money and deletes one service that has been cut off  *)
(* for 48 hours, of a customer without money.                              *)
CleanOf(S, w, now) ==
    /\ S.touched = {}
    /\ \A s \in Services :
         \/ Same(S.base[s], S.orm[s])
         \/ /\ S.at = "commit" /\ Owner[s] = S.user /\ w[S.user] <= 0
            /\ S.orm[s] = Deleted(S.base[s]) /\ Stale(S.base[s], now - 1)
            /\ \A t \in Services \ {s} : Same(S.base[t], S.orm[t])
    /\ S.at = "expire" => \A s, t \in S.todo : s = t

(* A removal takes no more than there is; no button edits a row.           *)
DeskOf(S, w) ==
    /\ \A u \in S.touched :
         /\ S.at = "commit" /\ u = S.user
         /\ S.txn[u]["other"] + S.amount = 0 /\ 0 < S.amount /\ S.amount <= w[u]
    /\ \A s \in Services : Same(S.base[s], S.orm[s])

WorkOf(p, S, w, l, now) ==
    /\ p \in Syncs => SyncOf(p, S, w, l, now)
    /\ p \in Cashiers => CashOf(S)
    /\ p \in Cleaners => CleanOf(S, w, now)
    /\ p \in Desks => DeskOf(S, w)

(* While it is calm, a row is disabled only for lack of money.             *)
RowFine(r, now) ==
    /\ Active(r) => r.since = NoTime
    /\ r.status = "disabled" => r.reason = "wallet" /\ r.since \in 0..now
Work ==
    /\ \A s \in Services : RowFine(svc[s], clock)
    /\ \A p \in Procs : WorkOf(p, sess[p], wallet, lock, clock)

LEMMA WorkNow ==
    ASSUME Inductive, Held, Calm, Work, NEW p \in Procs
    PROVE  /\ TypeOK /\ sess[p] \in Session /\ WorkOf(p, sess[p], wallet, lock, clock)
           /\ RowsOf(p, sess[p], svc, lock, clock) /\ HoldsOf(p, sess[p], wallet, lock)
           /\ MoneyOf(p, sess[p], wallet, lock) /\ OpenOf(p, sess[p], lock)
BY DEF Inductive, TypeOK, Held, Work

LEMMA NoShares ==
    ASSUME NEW S, \A s \in Services : S.log[s].cost = 0, NEW u
    PROVE  Total(Shares(S), Owned(u)) = 0
<1>1. \A s \in Owned(u) : Shares(S)[s] = 0
  BY OwnedFinite DEF Shares, Cashback
<1>. QED  BY <1>1, OwnedFinite, TotalZero

LEMMA WorkFresh ==
    ASSUME NEW p, NEW S, S.txn = Idle.txn, S.log = Idle.log, S.touched = {},
           S.base = Idle.base, S.orm = Idle.orm, S.at \in {"idle", "next"},
           NEW w, NEW l, NEW now
    PROVE  WorkOf(p, S, w, l, now)
<1>1. \A s \in Services : S.log[s].cost = 0 /\ Same(S.base[s], S.orm[s])
  BY DEF Idle, NoEntry, Same
<1>2. \A u \in Users : S.txn[u]["other"] = 0
  BY DEF Idle, NoMoney, Kinds
<1>3. Total(Shares(S), Owned(S.user)) = 0
  BY <1>1, NoShares
<1>4. SyncOf(p, S, w, l, now)
  BY <1>1, <1>2, <1>3 DEF SyncOf, Settling
<1>5. CashOf(S) /\ CleanOf(S, w, now) /\ DeskOf(S, w)
  BY <1>1, <1>2 DEF CashOf, CleanOf, DeskOf
<1>. QED  BY <1>4, <1>5 DEF WorkOf

(* Only its own locks and wallets, and a clock that runs, matter to a      *)
(* session.                                                                *)
LEMMA WorkFrame ==
    ASSUME Inductive, Held, Calm, Work, NEW q \in Procs,
           NEW w \in [Users -> Int], NEW l, NEW now \in Nat, clock <= now,
           \A u \in Users : lock[u] = q => l[u] = q /\ w[u] = wallet[u]
    PROVE  WorkOf(q, sess[q], w, l, now)
<1>1. PICK S : S = sess[q]
  OBVIOUS
<1>2. /\ TypeOK /\ S \in Session /\ WorkOf(q, S, wallet, lock, clock)
      /\ RowsOf(q, S, svc, lock, clock)
      /\ MoneyOf(q, S, wallet, lock) /\ OpenOf(q, S, lock)
  BY <1>1, WorkNow
<1>3. clock \in Nat /\ \A n : n \in 0..clock => n \in 0..now
  BY <1>2 DEF TypeOK
<1>4. ASSUME q \in Syncs PROVE SyncOf(q, S, w, l, now)
  <2>1. SyncOf(q, S, wallet, lock, clock)
    BY <1>2, <1>4 DEF WorkOf
  <2>2. S.at \in Settling => S.user \in Users
    BY <1>2 DEF OpenOf, Settling
  <2>3. S.at \in Settling =>
          l[S.user] = q /\ (S.user \in S.touched \/ S.bal[S.user] = w[S.user])
    BY <2>1, <2>2 DEF SyncOf
  <2>4. \A s \in Services :
          Cutting(S.base[s], S.orm[s], clock) => Cutting(S.base[s], S.orm[s], now)
    BY <1>3 DEF Cutting
  <2>. QED  BY <2>1, <2>3, <2>4 DEF SyncOf
<1>5. ASSUME q \in Cleaners PROVE CleanOf(S, w, now)
  <2>1. CleanOf(S, wallet, clock)
    BY <1>2, <1>5 DEF WorkOf
  <2>2. ASSUME NEW s \in Services, S.orm[s] = Deleted(S.base[s]), Owner[s] = S.user,
               wallet[S.user] <= 0, Stale(S.base[s], clock - 1)
        PROVE  w[S.user] <= 0 /\ Stale(S.base[s], now - 1)
    <3>1. S.base[s] \in Row
      BY <1>2 DEF Session
    <3>2. S.orm[s] # S.base[s]
      BY <2>2, <3>1 DEF Deleted, Stale, OutOfMoney, Row
    <3>3. lock[Owner[s]] = q /\ Owner[s] \in Users
      BY <1>2, <3>2, IdsAssumption DEF RowsOf
    <3>4. S.base[s].since \in Int
      BY <3>1 DEF Row
    <3>5. Stale(S.base[s], now - 1)
      BY <1>3, <2>2, <3>4 DEF Stale
    <3>. QED  BY <2>2, <3>3, <3>5
  <2>. QED  BY <2>1, <2>2 DEF CleanOf
<1>6. ASSUME q \in Desks PROVE DeskOf(S, w)
  <2>1. DeskOf(S, wallet)
    BY <1>2, <1>6 DEF WorkOf
  <2>2. \A u \in S.touched : w[u] = wallet[u]
    BY <1>2 DEF MoneyOf, Session
  <2>. QED  BY <2>1, <2>2 DEF DeskOf
<1>. QED  BY <1>1, <1>2, <1>4, <1>5, <1>6 DEF WorkOf

(* A step of p that commits nothing.                                       *)
LEMMA WorkTurn ==
    ASSUME Inductive, Held, Calm, Work, NEW p \in Procs, NEW T, Become(p, T),
           WorkOf(p, T, wallet, lock', clock), UNCHANGED <<tables, clock>>, OthersKeep(p)
    PROVE  Work'
<1>1. sess' = [sess EXCEPT ![p] = T] /\ sess \in [Procs -> Session]
  BY DEF Become, Inductive, TypeOK
<1>2. wallet' = wallet /\ svc' = svc /\ clock' = clock
  BY DEF tables
<1>3. wallet \in [Users -> Int] /\ clock \in Nat /\ clock <= clock
  BY DEF Inductive, TypeOK
<1>4. ASSUME NEW q \in Procs PROVE WorkOf(q, sess'[q], wallet, lock', clock)
  <2>1. CASE q = p
    BY <1>1, <2>1
  <2>2. CASE q # p
    <3>1. \A u \in Users : lock[u] = q => lock'[u] = q /\ wallet[u] = wallet[u]
      BY <2>2 DEF OthersKeep
    <3>2. WorkOf(q, sess[q], wallet, lock', clock)
      BY <1>3, <3>1, WorkFrame
    <3>. QED  BY <1>1, <2>2, <3>2
  <2>. QED  BY <2>1, <2>2
<1>5. \A s \in Services : RowFine(svc[s], clock)
  BY DEF Work
<1>. QED  BY <1>2, <1>4, <1>5 DEF Work

(* The transaction of p ends without a commit.                             *)
LEMMA WorkEnds ==
    ASSUME Inductive, Held, Calm, Work, NEW p \in Procs, NEW T, Ends(p, T),
           lock' = lock \/ lock' = Unlocked(p), UNCHANGED <<tables, clock>>
    PROVE  Work'
<1>1. WorkOf(p, T, wallet, lock', clock)
  BY WorkFresh DEF Ends, Fresh
<1>2. OthersKeep(p)
  BY SameLock, UnlockStep DEF Inductive
<1>. QED  BY <1>1, <1>2, WorkTurn DEF Ends

LEMMA OneKind ==
    ASSUME NEW p, NEW S, NEW w, NEW l, NEW now
    PROVE  /\ p \in Syncs /\ SyncOf(p, S, w, l, now) => p \in Procs /\ WorkOf(p, S, w, l, now)
           /\ p \in Cashiers /\ CashOf(S) => p \in Procs /\ WorkOf(p, S, w, l, now)
           /\ p \in Cleaners /\ CleanOf(S, w, now) => p \in Procs /\ WorkOf(p, S, w, l, now)
           /\ p \in Desks /\ DeskOf(S, w) => p \in Procs /\ WorkOf(p, S, w, l, now)
BY SessionsAssumption DEF WorkOf, Procs

(* A job that starts has a list of items and nothing else.                 *)
LEMMA StartDoes ==
    ASSUME Inductive, NEW p \in Procs, SyncStart(p) \/ CleanStart(p)
    PROVE  \E T \in Session :
             /\ Ends(p, T) /\ sess[p].at = "idle" /\ UNCHANGED <<tables, lock, panel, clock>>
<1>0. PICK I : I = Idle
  OBVIOUS
<1>1. PICK queue, due, cutoff, T :
        /\ queue \in SUBSET Users /\ due \in SUBSET Services /\ cutoff \in Int
        /\ T \in {[I EXCEPT !.at = "next", !.queue = queue],
                  [I EXCEPT !.at = "next", !.due = due, !.cutoff = cutoff]}
        /\ Become(p, T)
  <2>1. clock - 1 \in Int /\ 0 \in Int
    BY DEF Inductive, TypeOK
  <2>2. {u \in Users : \E s \in Owned(u) : Eligible(svc[s])} \in SUBSET Users
    OBVIOUS
  <2>3. {s \in Services : Stale(svc[s], clock - 1)} \in SUBSET Services
    OBVIOUS
  <2>. QED  BY <1>0, <2>1, <2>2, <2>3 DEF SyncStart, CleanStart
<1>2. I \in Session /\ Fresh(I)
  BY <1>0, IdleFresh DEF Fresh
<1>3. /\ T \in Session /\ T.at = "next" /\ T.txn = I.txn /\ T.log = I.log
      /\ T.touched = I.touched /\ T.base = I.base /\ T.orm = I.orm /\ T.todo = I.todo
  <2>1. I \in Session
    BY <1>2
  <2>. QED  BY <1>1, <2>1 DEF Session, Phases
<1>4. Ends(p, T)
  BY <1>1, <1>2, <1>3 DEF Ends, Fresh
<1>5. sess[p].at = "idle" /\ UNCHANGED <<tables, lock, panel, clock>>
  BY DEF SyncStart, CleanStart
<1>. QED  BY <1>3, <1>4, <1>5

LEMMA StartWork ==
    ASSUME Inductive, Held, Calm, Work, NEW p \in Procs, SyncStart(p) \/ CleanStart(p)
    PROVE  Work'
<1>1. PICK T : Ends(p, T) /\ UNCHANGED <<tables, lock, panel, clock>>
  BY StartDoes
<1>. QED  BY <1>1, WorkEnds

LEMMA SyncLockWork ==
    ASSUME Inductive, Held, Bills, Calm, Work, NEW p \in Syncs, SyncLock(p)
    PROVE  Work'
<1>1. p \in Procs /\ sess[p].at = "next" /\ UNCHANGED <<tables, clock>>
  BY DEF Procs, SyncLock
<1>2. PICK S : S = sess[p]
  OBVIOUS
<1>3. PICK u \in Users, T \in Session :
        /\ CanLock(p, u) /\ lock' = [lock EXCEPT ![u] = p] /\ Become(p, T)
        /\ Begins(S, T, u)
  BY <1>1, <1>2, SyncLockDoes
<1>4. /\ TypeOK /\ S \in Session /\ SyncOf(p, S, wallet, lock, clock)
      /\ MoneyOf(p, S, wallet, lock) /\ S.at = "next" /\ S.touched = {}
      /\ \A s \in Services : S.log[s].mb = 0 /\ S.log[s].cost = 0
  <2>1. /\ TypeOK /\ S \in Session /\ SyncOf(p, S, wallet, lock, clock)
        /\ MoneyOf(p, S, wallet, lock) /\ S.at = "next" /\ S.touched = {}
    BY <1>1, <1>2, WorkNow DEF WorkOf, OpenOf
  <2>2. ASSUME NEW s \in Services PROVE S.log[s].mb = 0 /\ S.log[s].cost = 0
    <3>1. ~(S.log[s].mb > 0) /\ S.log[s].mb \in Nat
      BY <1>1, <1>2, <2>1, BillNow DEF Session, Entry
    <3>2. S.log[s].mb = 0
      BY <3>1
    <3>3. S.log[s].cost = CostForMb(S.log[s].mb, Price[s])
      BY <1>1, <1>2, BillNow DEF BillOf
    <3>. QED  BY <3>2, <3>3, NoTraffic, MoneyAssumption
  <2>. QED  BY <2>1, <2>2
<1>5. OthersKeep(p) /\ lock'[u] = p
  BY <1>1, <1>3, <1>4, LockStep
<1>6. \A v \in Users : T.txn[v]["other"] = 0
  BY <1>3, <1>4 DEF Begins, MoneyOf
<1>7. Total(Shares(T), Owned(T.user)) = 0
  BY <1>3, <1>4, NoShares DEF Begins
<1>8. \A s \in Services : Same(T.base[s], T.orm[s])
  <2>1. \A s \in Services : Same(S.base[s], S.orm[s])
    BY <1>4 DEF SyncOf
  <2>. QED  BY <1>3, <2>1 DEF Begins, Same
<1>9. SyncOf(p, T, wallet, lock', clock)
  BY <1>3, <1>5, <1>6, <1>7, <1>8 DEF SyncOf, Begins
<1>10. WorkOf(p, T, wallet, lock', clock)
  BY <1>9, OneKind
<1>. QED  BY <1>1, <1>3, <1>5, <1>10, WorkTurn

LEMMA MeterErrorWork ==
    ASSUME Inductive, Held, Calm, Work, NEW p \in Syncs, MeterError(p) \/ MeterIdle(p)
    PROVE  Work'
<1>1. p \in Procs
  BY DEF Procs
<1>2. PICK S : S = sess[p]
  OBVIOUS
<1>3. PICK s \in S.todo, T \in Session :
        /\ Become(p, T) /\ S.at = "meter" /\ T.at = "meter"
        /\ MoneyKept(S, T) /\ RowsKept(S, T)
        /\ UNCHANGED <<tables, acct, used, clock, lock>>
  BY <1>1, <1>2, MeterErrorDoes
<1>4. TypeOK /\ SyncOf(p, S, wallet, lock, clock)
  BY <1>1, <1>2, WorkNow DEF WorkOf
<1>5. Shares(T) = Shares(S)
  BY <1>3 DEF Shares, MoneyKept
<1>6. SyncOf(p, T, wallet, lock', clock)
  BY <1>3, <1>4, <1>5 DEF SyncOf, MoneyKept, RowsKept
<1>. QED  BY <1>1, <1>3, <1>4, <1>6, OneKind, WorkTurn, SameLock

(* One more share for the inviter.                                         *)
LEMMA SharesCharged ==
    ASSUME Inductive, NEW S \in Session, NEW T \in Session, NEW s \in Owned(S.user), NEW mb \in Nat,
           S.log[s].cost = 0, Charges(S, T, s, mb)
    PROVE  /\ Cashback(CostForMb(mb, Price[s]), Percent) \in Nat
           /\ Total(Shares(S), Owned(S.user)) \in Int
           /\ Total(Shares(T), Owned(S.user)) =
                Total(Shares(S), Owned(S.user)) + Cashback(CostForMb(mb, Price[s]), Percent)
<1>1. PICK own, rest, cash : /\ own = Owned(S.user) /\ rest = own \ {s}
                             /\ cash = Cashback(CostForMb(mb, Price[s]), Percent)
  OBVIOUS
<1>2. /\ IsFiniteSet(own) /\ own \subseteq Services /\ s \in own /\ s \in Services
      /\ IsFiniteSet(rest) /\ rest \subseteq Services /\ s \notin rest
  BY <1>1, OwnedFinite, FS_Subset
<1>3. cash \in Nat
  BY <1>1, <1>2, CostNat, CashbackNat, MoneyAssumption
<1>4. ASSUME NEW t \in Services PROVE Shares(S)[t] \in Int /\ Shares(T)[t] \in Int
  <2>1. S.log[t].cost \in Nat /\ T.log[t].cost \in Nat
    BY DEF Session, Entry
  <2>2. Cashback(S.log[t].cost, Percent) \in Nat /\ Cashback(T.log[t].cost, Percent) \in Nat
    BY <2>1, CashbackNat, MoneyAssumption
  <2>. QED  BY <2>2 DEF Shares
<1>5. Shares(S)[s] = 0 /\ Shares(T)[s] = cash
  BY <1>1, <1>2 DEF Shares, Charges, Cashback
<1>6. \A t \in rest : Shares(T)[t] = Shares(S)[t]
  BY <1>2 DEF Shares, Charges
<1>7. Total(Shares(T), rest) = Total(Shares(S), rest)
  BY <1>2, <1>6, TotalSame
<1>8. Total(Shares(S), own) = Shares(S)[s] + Total(Shares(S), rest)
  BY <1>1, <1>2, <1>4, TotalRemove
<1>9. Total(Shares(T), own) = Shares(T)[s] + Total(Shares(T), rest)
  BY <1>1, <1>2, <1>4, TotalRemove
<1>10. Total(Shares(S), rest) \in Int
  BY <1>2, <1>4, TotalInt
<1>. QED  BY <1>1, <1>3, <1>5, <1>7, <1>8, <1>9, <1>10

LEMMA MeterChargeWork ==
    ASSUME Inductive, Held, Bills, Calm, Work, NEW p \in Syncs, MeterCharge(p)
    PROVE  Work'
<1>1. p \in Procs
  BY DEF Procs
<1>2. PICK S : S = sess[p]
  OBVIOUS
<1>3. PICK s \in S.todo, T \in Session, mb \in Nat :
        /\ s \in Services /\ 0 < mb /\ S.log[s].mb = 0
        /\ Charges(S, T, s, mb) /\ Become(p, T)
        /\ UNCHANGED <<tables, acct, used, clock>> /\ OthersKeep(p)
        /\ \A u \in Users : lock[u] = p => lock'[u] = p
  BY <1>1, <1>2, MeterChargeDoes
<1>4. /\ TypeOK /\ S \in Session /\ SyncOf(p, S, wallet, lock, clock)
      /\ S.at = "meter" /\ S.user \in Users /\ S.user # NoUser /\ BillOf(p, S)
  BY <1>1, <1>2, WorkNow, BillNow, IdsAssumption DEF WorkOf, OpenOf, MeterCharge
<1>5. s \in Owned(S.user) /\ S.log[s].cost = 0
  BY <1>3, <1>4, NoTraffic, MoneyAssumption DEF BillOf
<1>6. PICK cash : cash = Cashback(CostForMb(mb, Price[s]), Percent)
  OBVIOUS
<1>7. /\ cash \in Nat /\ Total(Shares(S), Owned(S.user)) \in Int
      /\ Total(Shares(T), Owned(S.user)) = Total(Shares(S), Owned(S.user)) + cash
  BY <1>3, <1>4, <1>5, <1>6, SharesCharged
<1>8. ASSUME NEW u \in Users
      PROVE  T.txn[u]["other"] =
               IF T.user # NoUser /\ Inviter[T.user] = u THEN Total(Shares(T), Owned(T.user)) ELSE 0
  <2>1. T.txn[u]["other"] = S.txn[u]["other"] + (IF u = Inviter[S.user] THEN cash ELSE 0)
    BY <1>3, <1>6 DEF Charges
  <2>2. S.txn[u]["other"] =
          IF Inviter[S.user] = u THEN Total(Shares(S), Owned(S.user)) ELSE 0
    BY <1>4 DEF SyncOf
  <2>3. T.user = S.user
    BY <1>3 DEF Charges
  <2>4. CASE u = Inviter[S.user]
    BY <1>4, <1>7, <2>1, <2>2, <2>3, <2>4
  <2>5. CASE u # Inviter[S.user]
    BY <1>4, <2>1, <2>2, <2>3, <2>5
  <2>. QED  BY <2>4, <2>5
<1>9. \A t \in Services : Same(T.base[t], T.orm[t])
  <2>1. \A t \in Services : Same(S.base[t], S.orm[t])
    BY <1>4 DEF SyncOf
  <2>. QED  BY <1>3, <2>1 DEF Charges, Same
<1>10. lock'[T.user] = p /\ (T.user \in T.touched \/ T.bal[T.user] = wallet[T.user])
  <2>1. lock[S.user] = p /\ (S.user \in S.touched \/ S.bal[S.user] = wallet[S.user])
    BY <1>4 DEF SyncOf, Settling
  <2>. QED  BY <1>3, <1>4, <2>1 DEF Charges
<1>11. T.at = "meter"
  BY <1>3 DEF Charges
<1>12. SyncOf(p, T, wallet, lock', clock)
  BY <1>8, <1>9, <1>10, <1>11 DEF SyncOf
<1>. QED  BY <1>1, <1>3, <1>12, OneKind, WorkTurn

LEMMA DecideWork ==
    ASSUME Inductive, Held, Calm, Work, NEW p \in Syncs, Decide(p)
    PROVE  Work'
<1>1. p \in Procs
  BY DEF Procs
<1>2. PICK S : S = sess[p]
  OBVIOUS
<1>3. PICK T \in Session :
        /\ Become(p, T) /\ S.at = "meter" /\ Decides(S, T)
        /\ UNCHANGED <<tables, lock, panel, clock>>
  BY <1>1, <1>2, DecideDoes
<1>4. /\ TypeOK /\ S \in Session /\ SyncOf(p, S, wallet, lock, clock)
      /\ RowsOf(p, S, svc, lock, clock)
  BY <1>1, <1>2, WorkNow DEF WorkOf
<1>5. MoneyKept(S, T) /\ T.at \in {"cut", "restore", "commit"}
  BY <1>3 DEF Decides, Loads
<1>6. Shares(T) = Shares(S)
  BY <1>5 DEF Shares, MoneyKept
<1>7. \A s \in Services : /\ Same(S.base[s], S.orm[s])
                          /\ s \in S.seen => S.base[s] = svc[s]
  BY <1>3, <1>4 DEF SyncOf, RowsOf
<1>8. \A s \in Services : /\ Same(T.base[s], T.orm[s])
  BY <1>3, <1>7 DEF Decides, Loads, RowsKept, Same
<1>9. S.bal[S.user] \in Int \/ S.user \notin Users
  BY <1>4 DEF Session
<1>10. S.user \in Users
  BY <1>1, <1>2, <1>3, WorkNow DEF OpenOf
<1>11. ASSUME T.at = "cut"
       PROVE  /\ S.bal[S.user] <= 0
              /\ \A s \in T.todo : s \in Services /\ Owner[s] = S.user /\ Active(T.base[s])
  <2>1. /\ Broke(S) /\ T.todo = {s \in Owned(S.user) : Active(svc[s])}
        /\ \A s \in Services : T.base[s] = IF s \in T.todo \ S.seen THEN svc[s] ELSE S.base[s]
    BY <1>3, <1>11 DEF Decides, Loads
  <2>. QED  BY <1>7, <2>1 DEF Broke, Owned
<1>12. ASSUME T.at = "restore"
       PROVE  /\ S.bal[S.user] > 0
              /\ \A s \in T.todo : s \in Services /\ Owner[s] = S.user /\ OutOfMoney(T.base[s])
  <2>1. /\ ~Broke(S) /\ T.todo = {s \in Owned(S.user) : OutOfMoney(svc[s])}
        /\ \A s \in Services : T.base[s] = IF s \in T.todo \ S.seen THEN svc[s] ELSE S.base[s]
    BY <1>3, <1>12 DEF Decides, Loads
  <2>2. S.bal[S.user] > 0
    BY <1>9, <1>10, <2>1 DEF Broke
  <2>. QED  BY <1>7, <2>1, <2>2 DEF Owned
<1>13. /\ lock'[T.user] = p /\ (T.user \in T.touched \/ T.bal[T.user] = wallet[T.user])
       /\ T.user = S.user /\ T.bal = S.bal
  BY <1>3, <1>4, <1>5 DEF SyncOf, Settling, MoneyKept
<1>14. \A u \in Users : T.txn[u]["other"] =
         IF T.user # NoUser /\ Inviter[T.user] = u THEN Total(Shares(T), Owned(T.user)) ELSE 0
  BY <1>4, <1>5, <1>6 DEF SyncOf, MoneyKept
<1>15. SyncOf(p, T, wallet, lock', clock)
  BY <1>8, <1>11, <1>12, <1>13, <1>14 DEF SyncOf
<1>. QED  BY <1>1, <1>3, <1>4, <1>15, OneKind, WorkTurn, SameLock

(* A row of the loop is switched: it was active and is cut off, or the     *)
(* other way round.                                                        *)
LEMMA CutEdit ==
    ASSUME NEW b \in Row, NEW o \in Row, Same(b, o), Active(b), clock \in Nat
    PROVE  Cutting(b, Disabled(o, "wallet"), clock)
<1>1. PICK r : r = Disabled(o, "wallet")
  OBVIOUS
<1>2. r.status = "disabled" /\ r.reason = "wallet" /\ r.since = clock
  BY <1>1 DEF Disabled, Row
<1>3. Cutting(b, r, clock)
  BY <1>2 DEF Cutting
<1>. QED  BY <1>1, <1>3

LEMMA RestoreEdit ==
    ASSUME NEW b \in Row, NEW o \in Row, OutOfMoney(b)
    PROVE  Restoring(b, Enabled(o))
<1>1. PICK r : r = Enabled(o)
  OBVIOUS
<1>2. r.status = "active" /\ r.since = NoTime
  BY <1>1 DEF Enabled, Row
<1>3. Restoring(b, r)
  BY <1>2 DEF Restoring, Active
<1>. QED  BY <1>1, <1>3

LEMMA CutWork ==
    ASSUME Inductive, Held, Calm, Work, NEW p \in Syncs, Cut(p)
    PROVE  Work'
<1>1. p \in Procs
  BY DEF Procs
<1>2. PICK S : S = sess[p]
  OBVIOUS
<1>3. PICK s \in S.todo, T \in Session :
        /\ s \in Services /\ Become(p, T) /\ S.at = "cut"
        /\ Edits(S, T, s, Disabled(S.orm[s], "wallet")) \/ Leaves(S, T, s)
        /\ UNCHANGED <<tables, lock, used, clock>>
  BY <1>1, <1>2, CutDoes
<1>4. /\ TypeOK /\ S \in Session /\ SyncOf(p, S, wallet, lock, clock)
  BY <1>1, <1>2, WorkNow DEF WorkOf
<1>5. /\ Turns(S, T, s) /\ T.at \in {"cut", "commit"}
      /\ \A x \in Services : x # s => T.orm[x] = S.orm[x]
  BY <1>3 DEF Edits, Leaves, Turns
<1>6. /\ MoneyKept(S, T) /\ T.base = S.base /\ T.todo = S.todo \ {s}
  BY <1>5 DEF Turns
<1>7. Shares(T) = Shares(S)
  BY <1>6 DEF Shares, MoneyKept
<1>8. /\ S.bal[S.user] <= 0
      /\ \A x \in S.todo : Same(S.base[x], S.orm[x]) /\ Owner[x] = S.user /\ Active(S.base[x])
  BY <1>3, <1>4 DEF SyncOf
<1>9. Same(T.base[s], T.orm[s]) \/ Cutting(T.base[s], T.orm[s], clock)
  <2>1. CASE Edits(S, T, s, Disabled(S.orm[s], "wallet"))
    <3>1. T.orm[s] = Disabled(S.orm[s], "wallet")
      BY <1>3, <2>1 DEF Edits
    <3>2. S.base[s] \in Row /\ S.orm[s] \in Row /\ clock \in Nat
      BY <1>3, <1>4 DEF Session, TypeOK
    <3>3. Cutting(S.base[s], Disabled(S.orm[s], "wallet"), clock)
      BY <1>8, <3>2, CutEdit
    <3>. QED  BY <1>6, <3>1, <3>3
  <2>2. CASE Leaves(S, T, s)
    BY <1>6, <1>8, <2>2 DEF Leaves
  <2>. QED  BY <1>3, <2>1, <2>2
<1>10. ASSUME NEW x \in Services
       PROVE  \/ Same(T.base[x], T.orm[x])
              \/ /\ Cutting(T.base[x], T.orm[x], clock)
                 /\ Owner[x] = S.user /\ S.bal[S.user] <= 0
  <2>1. CASE x = s
    BY <1>3, <1>8, <1>9, <2>1
  <2>2. CASE x # s
    BY <1>3, <1>4, <1>5, <1>6, <2>2 DEF SyncOf
  <2>. QED  BY <2>1, <2>2
<1>11. \A x \in T.todo : Same(T.base[x], T.orm[x]) /\ Owner[x] = S.user /\ Active(T.base[x])
  <2>1. \A x \in T.todo : x \in S.todo /\ x \in Services /\ x # s
    BY <1>4, <1>6 DEF Session
  <2>. QED  BY <1>5, <1>6, <1>8, <2>1
<1>12. /\ lock'[T.user] = p /\ (T.user \in T.touched \/ T.bal[T.user] = wallet[T.user])
       /\ T.user = S.user /\ T.bal = S.bal
  BY <1>3, <1>4, <1>6 DEF SyncOf, Settling, MoneyKept
<1>13. \A u \in Users : T.txn[u]["other"] =
         IF T.user # NoUser /\ Inviter[T.user] = u THEN Total(Shares(T), Owned(T.user)) ELSE 0
  BY <1>4, <1>6, <1>7 DEF SyncOf, MoneyKept
<1>14. SyncOf(p, T, wallet, lock', clock)
  BY <1>5, <1>8, <1>10, <1>11, <1>12, <1>13 DEF SyncOf
<1>. QED  BY <1>1, <1>3, <1>4, <1>14, OneKind, WorkTurn, SameLock

(* The rows and the money of a session that reconnects, before and after a *)
(* turn.                                                                   *)
LEMMA RestoreTurn ==
    ASSUME Inductive, NEW p \in Procs, NEW S, S = sess[p], Restore(p),
           \A x \in S.todo :
             Same(S.base[x], S.orm[x]) /\ Owner[x] = S.user /\ OutOfMoney(S.base[x]),
           \A x \in Services :
             Same(S.base[x], S.orm[x]) \/ (Restoring(S.base[x], S.orm[x]) /\ Owner[x] = S.user)
    PROVE  \E T \in Session :
             /\ Become(p, T) /\ MoneyKept(S, T) /\ T.at \in {"restore", "commit"}
             /\ S.at = "restore" /\ UNCHANGED <<tables, lock, used, clock>>
             /\ \A x \in T.todo :
                  Same(T.base[x], T.orm[x]) /\ Owner[x] = S.user /\ OutOfMoney(T.base[x])
             /\ \A x \in Services :
                  \/ Same(T.base[x], T.orm[x])
                  \/ Restoring(T.base[x], T.orm[x]) /\ Owner[x] = S.user
<1>1. PICK s \in S.todo, T \in Session :
        /\ s \in Services /\ Become(p, T) /\ S.at = "restore"
        /\ Edits(S, T, s, Enabled(S.orm[s])) \/ Leaves(S, T, s)
        /\ UNCHANGED <<tables, lock, used, clock>>
  BY RestoreDoes
<1>2. S \in Session
  BY DEF Inductive, TypeOK
<1>3. /\ Turns(S, T, s) /\ \A x \in Services : x # s => T.orm[x] = S.orm[x]
  BY <1>1 DEF Edits, Leaves
<1>4. /\ MoneyKept(S, T) /\ T.base = S.base /\ T.todo = S.todo \ {s}
      /\ T.at \in {"restore", "commit"}
  BY <1>1, <1>3 DEF Turns
<1>5. Same(T.base[s], T.orm[s]) \/ Restoring(T.base[s], T.orm[s])
  <2>1. CASE Edits(S, T, s, Enabled(S.orm[s]))
    <3>1. T.orm[s] = Enabled(S.orm[s])
      BY <1>1, <2>1 DEF Edits
    <3>2. S.base[s] \in Row /\ S.orm[s] \in Row
      BY <1>1, <1>2 DEF Session
    <3>3. Restoring(S.base[s], Enabled(S.orm[s]))
      BY <1>1, <3>2, RestoreEdit
    <3>. QED  BY <1>4, <3>1, <3>3
  <2>2. CASE Leaves(S, T, s)
    BY <1>1, <1>4, <2>2 DEF Leaves
  <2>. QED  BY <1>1, <2>1, <2>2
<1>6. ASSUME NEW x \in Services
      PROVE  Same(T.base[x], T.orm[x]) \/ (Restoring(T.base[x], T.orm[x]) /\ Owner[x] = S.user)
  <2>1. CASE x = s
    BY <1>1, <1>5, <2>1
  <2>2. CASE x # s
    BY <1>3, <1>4, <2>2
  <2>. QED  BY <2>1, <2>2
<1>7. \A x \in T.todo : Same(T.base[x], T.orm[x]) /\ Owner[x] = S.user /\ OutOfMoney(T.base[x])
  <2>1. \A x \in T.todo : x \in S.todo /\ x \in Services /\ x # s
    BY <1>2, <1>4 DEF Session
  <2>. QED  BY <1>3, <1>4, <2>1
<1>. QED  BY <1>1, <1>4, <1>6, <1>7

LEMMA SyncRestoreWork ==
    ASSUME Inductive, Held, Calm, Work, NEW p \in Syncs, Restore(p)
    PROVE  Work'
<1>1. p \in Procs
  BY DEF Procs
<1>2. PICK S : S = sess[p]
  OBVIOUS
<1>3. TypeOK /\ SyncOf(p, S, wallet, lock, clock) /\ S.at = "restore"
  BY <1>1, <1>2, WorkNow DEF WorkOf, Restore, SwitchAccount
<1>4. PICK T \in Session :
        /\ Become(p, T) /\ MoneyKept(S, T) /\ T.at \in {"restore", "commit"}
        /\ UNCHANGED <<tables, lock, used, clock>>
        /\ \A x \in T.todo :
             Same(T.base[x], T.orm[x]) /\ Owner[x] = S.user /\ OutOfMoney(T.base[x])
        /\ \A x \in Services :
             Same(T.base[x], T.orm[x]) \/ (Restoring(T.base[x], T.orm[x]) /\ Owner[x] = S.user)
  <2>1. /\ \A x \in S.todo :
             Same(S.base[x], S.orm[x]) /\ Owner[x] = S.user /\ OutOfMoney(S.base[x])
        /\ \A x \in Services :
             Same(S.base[x], S.orm[x]) \/ (Restoring(S.base[x], S.orm[x]) /\ Owner[x] = S.user)
    BY <1>3 DEF SyncOf
  <2>. QED  BY <1>1, <1>2, <2>1, RestoreTurn
<1>5. Shares(T) = Shares(S)
  BY <1>4 DEF Shares, MoneyKept
<1>6. /\ lock'[T.user] = p /\ (T.user \in T.touched \/ T.bal[T.user] = wallet[T.user])
      /\ T.user = S.user /\ T.bal = S.bal /\ S.bal[S.user] > 0
  BY <1>3, <1>4 DEF SyncOf, Settling, MoneyKept
<1>7. \A u \in Users : T.txn[u]["other"] =
        IF T.user # NoUser /\ Inviter[T.user] = u THEN Total(Shares(T), Owned(T.user)) ELSE 0
  BY <1>3, <1>4, <1>5 DEF SyncOf, MoneyKept
<1>8. SyncOf(p, T, wallet, lock', clock)
  BY <1>4, <1>6, <1>7 DEF SyncOf
<1>. QED  BY <1>1, <1>3, <1>4, <1>8, OneKind, WorkTurn, SameLock

LEMMA CashRestoreWork ==
    ASSUME Inductive, Held, Calm, Work, NEW p \in Cashiers, Restore(p)
    PROVE  Work'
<1>1. p \in Procs
  BY DEF Procs
<1>2. PICK S : S = sess[p]
  OBVIOUS
<1>3. TypeOK /\ CashOf(S) /\ S.at = "restore"
  BY <1>1, <1>2, WorkNow DEF WorkOf, Restore, SwitchAccount
<1>4. PICK T \in Session :
        /\ Become(p, T) /\ MoneyKept(S, T) /\ T.at \in {"restore", "commit"}
        /\ UNCHANGED <<tables, lock, used, clock>>
        /\ \A x \in T.todo :
             Same(T.base[x], T.orm[x]) /\ Owner[x] = S.user /\ OutOfMoney(T.base[x])
        /\ \A x \in Services :
             Same(T.base[x], T.orm[x]) \/ (Restoring(T.base[x], T.orm[x]) /\ Owner[x] = S.user)
  <2>1. /\ \A x \in S.todo :
             Same(S.base[x], S.orm[x]) /\ Owner[x] = S.user /\ OutOfMoney(S.base[x])
        /\ \A x \in Services :
             Same(S.base[x], S.orm[x]) \/ (Restoring(S.base[x], S.orm[x]) /\ Owner[x] = S.user)
    BY <1>3 DEF CashOf
  <2>. QED  BY <1>1, <1>2, <2>1, RestoreTurn
<1>5. CashOf(T)
  BY <1>3, <1>4 DEF CashOf, MoneyKept
<1>. QED  BY <1>1, <1>3, <1>4, <1>5, OneKind, WorkTurn, SameLock

LEMMA TopUpBeginWork ==
    ASSUME Inductive, Held, Calm, Work, NEW p \in Cashiers, TopUpBegin(p)
    PROVE  Work'
<1>1. p \in Procs
  BY DEF Procs
<1>2. PICK u \in Users, T \in Session :
        /\ Become(p, T) /\ Opens(T, u, "credit") /\ T.amount \in Amounts
        /\ UNCHANGED <<tables, lock, panel, clock>>
  BY <1>1, TopUpBeginDoes
<1>3. \A s \in Services : Same(T.base[s], T.orm[s])
  BY <1>2 DEF Opens, Idle, Same
<1>4. \A v \in Users : T.txn[v]["other"] = 0
  BY <1>2 DEF Opens, Idle, NoMoney, Kinds
<1>5. CashOf(T)
  BY <1>2, <1>3, <1>4 DEF CashOf, Opens
<1>. QED  BY <1>1, <1>2, <1>5, OneKind, WorkTurn, SameLock DEF Inductive

LEMMA TopUpCreditWork ==
    ASSUME Inductive, Held, Calm, Work, NEW p \in Cashiers, TopUpCredit(p)
    PROVE  Work'
<1>1. p \in Procs
  BY DEF Procs
<1>2. PICK S : S = sess[p]
  OBVIOUS
<1>3. PICK T \in Session :
        /\ Become(p, T) /\ S.at = "credit" /\ Credits(S, T)
        /\ CanLock(p, S.user) /\ lock' = [lock EXCEPT ![S.user] = p]
        /\ UNCHANGED <<tables, panel, clock>>
  BY <1>1, <1>2, TopUpCreditDoes
<1>4. /\ TypeOK /\ S \in Session /\ CashOf(S) /\ RowsOf(p, S, svc, lock, clock)
      /\ S.user \in Users
  BY <1>1, <1>2, <1>3, WorkNow DEF WorkOf, OpenOf
<1>5. OthersKeep(p)
  BY <1>1, <1>3, <1>4, LockStep
<1>6. PICK M, back :
        /\ M \in Session
        /\ back = {s \in Owned(S.user) : OutOfMoney(svc[s])}
        /\ RowsKept(S, M) /\ M.seen = S.seen /\ M.user = S.user
        /\ M.amount = S.amount /\ M.touched = S.touched \cup {S.user}
        /\ Paid(S, M, S.user, "other", S.amount)
        /\ \/ ~Broke(M) /\ Loads(M, T, "restore", back)
           \/ T.at = "commit" /\ T.todo = S.todo /\ MoneyKept(M, T) /\ RowsKept(M, T)
  BY <1>3 DEF Credits
<1>7. MoneyKept(M, T) /\ T.at \in {"restore", "commit"}
  BY <1>6 DEF Loads
<1>8. \A s \in Services : /\ Same(S.base[s], S.orm[s])
                          /\ s \in S.seen => S.base[s] = svc[s]
  BY <1>3, <1>4 DEF CashOf, RowsOf
<1>9. \A s \in Services : Same(T.base[s], T.orm[s])
  BY <1>6, <1>8 DEF Loads, RowsKept, Same
<1>10. ASSUME NEW u \in Users
       PROVE  T.txn[u]["other"] = IF u = S.user THEN S.amount ELSE 0
  <2>1. S.txn[u]["other"] = 0
    BY <1>3, <1>4 DEF CashOf
  <2>2. M.txn[u]["other"] = S.txn[u]["other"] + (IF u = S.user THEN S.amount ELSE 0)
    BY <1>6 DEF Paid, Kinds
  <2>3. S.amount \in Int
    BY <1>4 DEF Session
  <2>. QED  BY <1>7, <2>1, <2>2, <2>3 DEF MoneyKept
<1>11. ASSUME T.at = "restore"
       PROVE  /\ T.bal[T.user] > 0
              /\ \A s \in T.todo : s \in Services /\ Owner[s] = S.user /\ OutOfMoney(T.base[s])
  <2>1. /\ ~Broke(M) /\ T.todo = {s \in Owned(S.user) : OutOfMoney(svc[s])}
        /\ \A s \in Services : T.base[s] = IF s \in T.todo \ S.seen THEN svc[s] ELSE S.base[s]
    BY <1>6, <1>11 DEF Loads, RowsKept
  <2>2. M.bal[M.user] \in Int
    BY <1>4, <1>6 DEF Session
  <2>3. T.bal[T.user] > 0
    BY <1>7, <2>1, <2>2 DEF Broke, MoneyKept
  <2>. QED  BY <1>8, <2>1, <2>3 DEF Owned
<1>12. T.user = S.user /\ T.user \in T.touched /\ T.amount = S.amount /\ S.amount \in Amounts
  BY <1>3, <1>4, <1>6, <1>7 DEF MoneyKept, CashOf
<1>13. CashOf(T)
  BY <1>7, <1>9, <1>10, <1>11, <1>12 DEF CashOf
<1>. QED  BY <1>1, <1>3, <1>5, <1>13, OneKind, WorkTurn

LEMMA CleanCheckWork ==
    ASSUME Inductive, Held, Calm, Work, NEW p \in Cleaners, CleanCheck(p)
    PROVE  Work'
<1>1. p \in Procs
  BY DEF Procs
<1>2. PICK S : S = sess[p]
  OBVIOUS
<1>3. PICK s \in Services, T \in Session :
        /\ S.at = "next" /\ UNCHANGED <<tables, panel, clock>>
        /\ \/ Ends(p, T) /\ UNCHANGED lock
           \/ /\ Become(p, T) /\ Checks(S, T, s)
              /\ CanLock(p, Owner[s]) /\ lock' = [lock EXCEPT ![Owner[s]] = p]
  BY <1>1, <1>2, CleanCheckDoes
<1>4. TypeOK /\ CleanOf(S, wallet, clock)
  BY <1>1, <1>2, WorkNow DEF WorkOf
<1>5. CASE Ends(p, T) /\ UNCHANGED lock
  BY <1>1, <1>3, <1>5, WorkEnds
<1>6. CASE /\ Become(p, T) /\ Checks(S, T, s)
           /\ CanLock(p, Owner[s]) /\ lock' = [lock EXCEPT ![Owner[s]] = p]
  <2>1. OthersKeep(p)
    BY <1>1, <1>4, <1>6, LockStep, IdsAssumption
  <2>2. \A x \in Services : Same(S.base[x], S.orm[x])
    BY <1>3, <1>4 DEF CleanOf
  <2>3. \A x \in Services : Same(T.base[x], T.orm[x])
    BY <1>6, <2>2 DEF Checks, Same
  <2>4. CleanOf(T, wallet, clock)
    BY <1>6, <2>3 DEF CleanOf, Checks
  <2>. QED  BY <1>1, <1>3, <1>6, <2>1, <2>4, OneKind, WorkTurn
<1>. QED  BY <1>3, <1>5, <1>6

(* Rows whose status and counters are the loaded ones are the loaded ones. *)
LEMMA SameRow ==
    ASSUME NEW b \in Row, NEW o \in Row, Same(b, o), o.mb = b.mb, o.billed = b.billed
    PROVE  o = b
BY DEF Row, Same

(* Only a sync edits counters.                                             *)
LEMMA CountersOfSyncs ==
    ASSUME Inductive, Bills, NEW p \in Procs, p \notin Syncs, NEW s \in Services,
           Same(sess[p].base[s], sess[p].orm[s])
    PROVE  sess[p].orm[s] = sess[p].base[s]
<1>1. PICK S : S = sess[p]
  OBVIOUS
<1>2. S \in Session /\ BillOf(p, S) /\ UsageOf(p, S, svc, lock)
  BY <1>1, BillNow DEF Inductive
<1>3. S.base[s] \in Row /\ S.orm[s] \in Row /\ S.base[s].mb \in Nat /\ S.base[s].billed \in Nat
  BY <1>2 DEF Session, Row
<1>4. S.log[s].mb = 0
  BY <1>2 DEF BillOf
<1>5. S.orm[s].mb = S.base[s].mb /\ S.orm[s].billed = S.base[s].billed
  BY <1>2, <1>3, <1>4 DEF UsageOf
<1>. QED  BY <1>1, <1>3, <1>5, SameRow

LEMMA ExpireWork ==
    ASSUME Inductive, Held, Bills, Calm, Work, NEW p \in Cleaners, Expire(p)
    PROVE  Work'
<1>1. p \in Procs /\ p \notin Syncs
  BY SessionsAssumption DEF Procs
<1>2. PICK S : S = sess[p]
  OBVIOUS
<1>3. PICK s \in S.todo, T \in Session :
        /\ s \in Services /\ S.at = "expire" /\ UNCHANGED <<tables, used, clock>>
        /\ \/ UNCHANGED lock /\ Become(p, T) /\ Edits(S, T, s, Deleted(S.orm[s]))
           \/ lock' = Unlocked(p) /\ Ends(p, T)
  BY <1>1, <1>2, ExpireDoes
<1>4. /\ TypeOK /\ S \in Session /\ CleanOf(S, wallet, clock)
      /\ RowsOf(p, S, svc, lock, clock) /\ HoldsOf(p, S, wallet, lock)
  BY <1>1, <1>2, WorkNow DEF WorkOf
<1>5. CASE lock' = Unlocked(p) /\ Ends(p, T)
  BY <1>1, <1>3, <1>5, WorkEnds
<1>6. CASE UNCHANGED lock /\ Become(p, T) /\ Edits(S, T, s, Deleted(S.orm[s]))
  <2>1. \A x \in Services : Same(S.base[x], S.orm[x])
    BY <1>3, <1>4 DEF CleanOf
  <2>2. S.orm[s] = S.base[s]
    BY <1>1, <1>2, <1>3, <2>1, CountersOfSyncs
  <2>3. S.todo \ {s} = {}
    BY <1>3, <1>4 DEF CleanOf
  <2>4. /\ T.at = "commit" /\ MoneyKept(S, T) /\ T.base = S.base
        /\ \A x \in Services : T.orm[x] = IF x = s THEN Deleted(S.orm[s]) ELSE S.orm[x]
    BY <1>6, <2>3 DEF Edits, Turns
  <2>5. Stale(S.base[s], clock - 1)
    <3>1. Stale(svc[s], S.cutoff) /\ S.cutoff <= clock - 1 /\ s \in S.seen
      BY <1>3, <1>4 DEF RowsOf, Loops
    <3>2. S.base[s] = svc[s]
      BY <1>4, <3>1 DEF RowsOf
    <3>3. S.cutoff \in Int /\ clock \in Int /\ svc[s].since \in Int
      BY <1>3, <1>4 DEF Session, TypeOK, Row
    <3>. QED  BY <3>1, <3>2, <3>3 DEF Stale
  <2>6. Owner[s] = T.user /\ wallet[T.user] <= 0
    BY <1>3, <1>4, <2>4 DEF HoldsOf, MoneyKept
  <2>7. T.orm[s] = Deleted(T.base[s]) /\ \A x \in Services \ {s} : Same(T.base[x], T.orm[x])
    BY <1>3, <2>1, <2>2, <2>4
  <2>8. T.touched = {}
    BY <1>4, <2>4 DEF CleanOf, MoneyKept
  <2>9. CleanOf(T, wallet, clock)
    BY <2>4, <2>5, <2>6, <2>7, <2>8 DEF CleanOf
  <2>. QED  BY <1>1, <1>3, <1>4, <1>6, <2>9, OneKind, WorkTurn, SameLock
<1>. QED  BY <1>3, <1>5, <1>6

LEMMA AskWork ==
    ASSUME Inductive, Held, Calm, Work, NEW p \in Desks, DeskAsk(p)
    PROVE  Work'
<1>1. p \in Procs
  BY DEF Procs
<1>2. PICK u, phase, T :
        /\ u \in Users /\ T \in Session
        /\ Become(p, T) /\ Opens(T, u, phase) /\ UNCHANGED <<tables, lock, panel, clock>>
  <2>1. CASE AskService(p)
    BY <2>1 DEF AskService, Ask, Calm
  <2>2. CASE AskDeleteAll(p)
    BY <2>2 DEF AskDeleteAll, Ask, Calm
  <2>3. CASE AskBlocking(p)
    <3>1. PICK u \in Users, op \in {"block", "unblock"} \cap Requests, T \in Session :
            Become(p, T) /\ Opens(T, u, op) /\ UNCHANGED <<tables, lock, panel, clock>>
      BY <1>1, <2>3, AskBlockingDoes
    <3>. QED  BY <3>1
  <2>4. CASE AskDebit(p)
    <3>1. PICK u \in Users, T \in Session :
            Become(p, T) /\ Opens(T, u, "debit") /\ UNCHANGED <<tables, lock, panel, clock>>
      BY <1>1, <2>4, AskDebitDoes
    <3>. QED  BY <3>1
  <2>. QED  BY <2>1, <2>2, <2>3, <2>4 DEF DeskAsk
<1>3. \A s \in Services : Same(T.base[s], T.orm[s])
  BY <1>2 DEF Opens, Idle, Same
<1>4. DeskOf(T, wallet)
  BY <1>2, <1>3 DEF DeskOf, Opens
<1>. QED  BY <1>1, <1>2, <1>4, OneKind, WorkTurn, SameLock DEF Inductive

LEMMA SetBlockedWork ==
    ASSUME Inductive, Held, Calm, Work, NEW p \in Desks, SetBlocked(p)
    PROVE  Work'
<1>1. p \in Procs
  BY DEF Procs
<1>2. PICK S : S = sess[p]
  OBVIOUS
<1>3. DeskOf(S, wallet) /\ S.at # "block"
  BY <1>1, <1>2, WorkNow DEF WorkOf, RowsOf
<1>4. PICK T \in Session :
        /\ Become(p, T) /\ S.at \in {"block", "unblock"} /\ MoneyKept(S, T)
        /\ S.at = "unblock" => RowsKept(S, T)
        /\ UNCHANGED <<tables, panel, clock>> /\ OthersKeep(p)
  BY <1>1, <1>2, SetBlockedDoes
<1>5. DeskOf(T, wallet)
  BY <1>3, <1>4 DEF DeskOf, MoneyKept, RowsKept
<1>. QED  BY <1>1, <1>4, <1>5, OneKind, WorkTurn

LEMMA DebitWork ==
    ASSUME Inductive, Held, Calm, Work, NEW p \in Desks, Debit(p)
    PROVE  Work'
<1>1. p \in Procs
  BY DEF Procs
<1>2. PICK S : S = sess[p]
  OBVIOUS
<1>3. PICK T \in Session :
        /\ S.at = "debit" /\ UNCHANGED <<tables, panel, clock>>
        /\ \/ Ends(p, T) /\ UNCHANGED lock
           \/ /\ Become(p, T) /\ MoneyKept(S, T) /\ RowsKept(S, T) /\ UNCHANGED lock
           \/ /\ Become(p, T) /\ Debits(S, T) /\ CanLock(p, S.user)
              /\ lock' = [lock EXCEPT ![S.user] = p]
  BY <1>1, <1>2, DebitDoes
<1>4. /\ TypeOK /\ S \in Session /\ DeskOf(S, wallet) /\ S.user \in Users
      /\ MoneyOf(p, S, wallet, lock)
  BY <1>1, <1>2, <1>3, WorkNow DEF WorkOf, OpenOf
<1>5. CASE Ends(p, T) /\ UNCHANGED lock
  BY <1>1, <1>3, <1>5, WorkEnds
<1>6. CASE /\ Become(p, T) /\ MoneyKept(S, T) /\ RowsKept(S, T) /\ UNCHANGED lock
  <2>1. DeskOf(T, wallet)
    BY <1>3, <1>4, <1>6 DEF DeskOf, MoneyKept, RowsKept
  <2>. QED  BY <1>1, <1>3, <1>4, <1>6, <2>1, OneKind, WorkTurn, SameLock
<1>7. CASE /\ Become(p, T) /\ Debits(S, T) /\ CanLock(p, S.user)
           /\ lock' = [lock EXCEPT ![S.user] = p]
  <2>1. OthersKeep(p)
    BY <1>1, <1>4, <1>7, LockStep
  <2>2. S.touched = {} /\ T.touched = {S.user}
    BY <1>3, <1>4, <1>7 DEF DeskOf, Debits, Session
  <2>3. S.txn[S.user]["other"] = 0
    BY <1>4, <2>2 DEF MoneyOf
  <2>4. T.txn[S.user]["other"] = S.txn[S.user]["other"] - S.amount /\ S.amount \in Int
    BY <1>4, <1>7 DEF Debits, Session
  <2>5. T.txn[S.user]["other"] + S.amount = 0
    BY <2>3, <2>4
  <2>6. DeskOf(T, wallet)
    BY <1>4, <1>7, <2>2, <2>5 DEF DeskOf, Debits, RowsKept
  <2>. QED  BY <1>1, <1>3, <1>7, <2>1, <2>6, OneKind, WorkTurn
<1>. QED  BY <1>3, <1>5, <1>6, <1>7

(* A commit writes the edits of the rows it loaded and leaves the others.  *)
LEMMA FlushKeeps ==
    ASSUME NEW b \in Row, NEW o \in Row, NEW c \in Row
    PROVE  /\ Same(b, o) => Same(c, Flush(b, o, c))
           /\ b = c => Same(o, Flush(b, o, c))
BY DEF Same, Flush, Keep, Row

LEMMA CommitRow ==
    ASSUME Inductive, Held, Calm, NEW p \in Procs, Commit(p), NEW s \in Services
    PROVE  \/ Same(sess[p].base[s], sess[p].orm[s]) /\ Same(svc[s], svc'[s])
           \/ /\ ~Same(sess[p].base[s], sess[p].orm[s])
              /\ sess[p].base[s] = svc[s] /\ Same(sess[p].orm[s], svc'[s])
              /\ s \in sess[p].seen /\ lock[Owner[s]] = p
<1>1. PICK S, b, o, c : S = sess[p] /\ b = S.base[s] /\ o = S.orm[s] /\ c = svc[s]
  OBVIOUS
<1>2. /\ S \in Session /\ TypeOK /\ RowsOf(p, S, svc, lock, clock)
  BY <1>1 DEF Inductive, TypeOK, Held
<1>3. b \in Row /\ o \in Row /\ c \in Row
  BY <1>1, <1>2 DEF Session, TypeOK
<1>4. svc'[s] = Flush(b, o, c)
  BY <1>1 DEF Commit
<1>5. CASE Same(b, o)
  <2>1. Same(c, Flush(b, o, c))
    BY <1>3, <1>5, FlushKeeps
  <2>. QED  BY <1>1, <1>4, <1>5, <2>1
<1>6. CASE ~Same(b, o)
  <2>1. o # b
    BY <1>6 DEF Same
  <2>2. s \in S.seen
    BY <1>1, <1>2, <2>1 DEF RowsOf
  <2>3. b = c /\ lock[Owner[s]] = p
    BY <1>1, <1>2, <2>2 DEF RowsOf
  <2>4. Same(o, Flush(b, o, c))
    BY <1>3, <2>3, FlushKeeps
  <2>. QED  BY <1>1, <1>4, <1>6, <2>2, <2>3, <2>4
<1>. QED  BY <1>5, <1>6

LEMMA CommitWork ==
    ASSUME Inductive, Held, Calm, Work, NEW p \in Procs, Commit(p)
    PROVE  Work'
<1>1. PICK S, T : S = sess[p] /\ T = After(S) /\ Become(p, T)
  BY DEF Commit
<1>2. /\ TypeOK /\ S \in Session /\ WorkOf(p, S, wallet, lock, clock) /\ S.at = "commit"
      /\ MoneyOf(p, S, wallet, lock)
  BY <1>1, WorkNow DEF Commit
<1>3. Fresh(T) /\ T.at \in {"idle", "next"}
  BY <1>1, <1>2, AfterDoes
<1>4. WorkOf(p, T, wallet', lock', clock)
  BY <1>3, WorkFresh DEF Fresh
<1>5. /\ clock' = clock /\ clock \in Nat
      /\ sess' = [sess EXCEPT ![p] = T] /\ sess \in [Procs -> Session]
  BY <1>1, <1>2 DEF Commit, Become, TypeOK
<1>6. wallet' \in [Users -> Int]
  BY CommitStep DEF Inductive, TypeOK
<1>7. ASSUME NEW q \in Procs, q # p PROVE WorkOf(q, sess[q], wallet', lock', clock)
  <2>1. ASSUME NEW u \in Users, lock[u] = q
        PROVE  lock'[u] = q /\ wallet'[u] = wallet[u]
    <3>1. lock'[u] = q
      BY <1>7, <2>1 DEF Commit, Unlocked
    <3>2. u \notin S.touched
      BY <1>2, <1>7, <2>1 DEF MoneyOf
    <3>. QED  BY <1>1, <3>1, <3>2 DEF Commit, Current
  <2>. QED  BY <1>5, <1>6, <2>1, WorkFrame
<1>8. ASSUME NEW s \in Services PROVE RowFine(svc'[s], clock)
  <2>1. RowFine(svc[s], clock)
    BY DEF Work
  <2>2. CASE Same(svc[s], svc'[s])
    BY <2>1, <2>2 DEF RowFine, Same, Active
  <2>3. CASE /\ ~Same(S.base[s], S.orm[s]) /\ S.base[s] = svc[s] /\ Same(S.orm[s], svc'[s])
    <3>1. \/ Cutting(S.base[s], S.orm[s], clock) \/ Restoring(S.base[s], S.orm[s])
          \/ S.orm[s] = Deleted(S.base[s])
      <4>1. p \in Syncs => SyncOf(p, S, wallet, lock, clock)
        BY <1>2 DEF WorkOf
      <4>2. p \in Cashiers => CashOf(S)
        BY <1>2 DEF WorkOf
      <4>3. p \in Cleaners => CleanOf(S, wallet, clock)
        BY <1>2 DEF WorkOf
      <4>4. p \in Desks => DeskOf(S, wallet)
        BY <1>2 DEF WorkOf
      <4>. QED  BY <2>3, <4>1, <4>2, <4>3, <4>4 DEF Procs, SyncOf, CashOf, CleanOf, DeskOf
    <3>2. RowFine(S.orm[s], clock)
      <4>1. ASSUME S.orm[s] = Deleted(S.base[s]) PROVE S.orm[s].status = "deleted"
        <5>1. S.base[s] \in Row
          BY <1>2 DEF Session
        <5>. QED  BY <4>1, <5>1 DEF Deleted, Row
      <4>. QED  BY <3>1, <4>1 DEF RowFine, Cutting, Restoring, Active
    <3>. QED  BY <2>3, <3>2 DEF RowFine, Same, Active
  <2>. QED  BY <1>1, <2>2, <2>3, CommitRow
<1>9. \A q \in Procs : WorkOf(q, sess'[q], wallet', lock', clock)
  BY <1>4, <1>5, <1>7
<1>. QED  BY <1>5, <1>8, <1>9 DEF Work

LEMMA OutsideWork ==
    ASSUME Inductive, Held, Calm, Work,
           (\E s \in Services : Use(s) \/ Reset(s)) \/ Tick \/ UNCHANGED vars
    PROVE  Work'
<1>1. /\ UNCHANGED <<tables, sess, lock>> /\ clock \in Nat /\ clock' \in Nat /\ clock <= clock'
  BY DEF Use, Reset, Tick, vars, Inductive, TypeOK
<1>2. wallet' = wallet /\ svc' = svc /\ wallet \in [Users -> Int]
  BY <1>1 DEF tables, Inductive, TypeOK
<1>3. \A q \in Procs : WorkOf(q, sess[q], wallet, lock, clock')
  BY <1>1, <1>2, WorkFrame
<1>4. ASSUME NEW s \in Services PROVE RowFine(svc[s], clock')
  <2>1. RowFine(svc[s], clock)
    BY DEF Work
  <2>. QED  BY <1>1, <2>1 DEF RowFine
<1>. QED  BY <1>1, <1>2, <1>3, <1>4 DEF Work

LEMMA EndWork ==
    ASSUME Inductive, Held, Calm, Work, NEW p \in Procs, Abort(p) \/ Undelivered(p)
    PROVE  Work'
<1>1. PICK T : /\ Ends(p, T) /\ lock' = Unlocked(p) /\ UNCHANGED <<tables, panel, clock>>
  BY EndDoes
<1>. QED  BY <1>1, WorkEnds

LEMMA InitWork == Init => Work
<1>. SUFFICES ASSUME Init PROVE Work
  OBVIOUS
<1>1. ASSUME NEW p \in Procs PROVE WorkOf(p, sess[p], wallet, lock, clock)
  <2>1. PICK I : I = Idle
    OBVIOUS
  <2>2. Fresh(I) /\ I.at = "idle" /\ sess[p] = I
    BY <2>1, IdleFresh DEF Init
  <2>. QED  BY <2>2, WorkFresh DEF Fresh
<1>2. ASSUME NEW s \in Services PROVE RowFine(svc[s], clock)
  <2>1. svc[s] = NewRow
    BY DEF Init
  <2>. QED  BY <2>1 DEF NewRow, RowFine
<1>. QED  BY <1>1, <1>2 DEF Work

LEMMA NextWork ==
    ASSUME Inductive, Held, Bills, Calm, Work, [Next]_vars
    PROVE  Work'
<1>1. CASE (\E s \in Services : Use(s) \/ Reset(s)) \/ Tick \/ UNCHANGED vars
  BY <1>1, OutsideWork
<1>2. ASSUME NEW p \in Syncs, SyncStep(p) PROVE Work'
  <2>1. p \in Procs
    BY DEF Procs
  <2>. QED
    BY <1>2, <2>1, StartWork, SyncLockWork, MeterErrorWork, MeterChargeWork, DecideWork,
       CutWork, SyncRestoreWork, CommitWork DEF SyncStep
<1>3. ASSUME NEW p \in Cashiers, TopUpBegin(p) \/ TopUpStep(p) PROVE Work'
  <2>1. p \in Procs
    BY DEF Procs
  <2>. QED
    BY <1>3, <2>1, TopUpBeginWork, TopUpCreditWork, CashRestoreWork, CommitWork DEF TopUpStep
<1>4. ASSUME NEW p \in Cleaners, CleanStep(p) PROVE Work'
  <2>1. p \in Procs
    BY DEF Procs
  <2>. QED  BY <1>4, <2>1, StartWork, CleanCheckWork, ExpireWork, CommitWork DEF CleanStep
<1>5. ASSUME NEW p \in Desks, DeskAsk(p) \/ DeskStep(p) \/ Undelivered(p) PROVE Work'
  <2>1. p \in Procs
    BY DEF Procs
  <2>2. ~Call(p)
    BY <2>1, WorkNow DEF Call, RowsOf
  <2>. QED
    BY <1>5, <2>1, <2>2, AskWork, SetBlockedWork, DebitWork, CommitWork, EndWork DEF DeskStep
<1>6. ASSUME NEW p \in Procs, Abort(p) PROVE Work'
  BY <1>6, EndWork
<1>. QED  BY <1>1, <1>2, <1>3, <1>4, <1>5, <1>6 DEF Next

LEMMA WorkInvariant ==
    ASSUME Calm
    PROVE  Spec => []Work
<1>1. Inductive /\ Held /\ Bills /\ Work /\ [Next]_vars => Work'
  BY NextWork
<1>. QED
  BY <1>1, InitWork, InductiveInvariant, HeldInvariant, BillsInvariant, PTL DEF Spec

-----------------------------------------------------------------------------
(* Rows and accounts *)

(* No failure keeps an effect of a panel call and loses the record of it.  *)
Mild == Failures \subseteq {"refused", "reset"}

(* A row that a session has switched agrees with the account already, and  *)
(* a row that no session has switched still does.                          *)
Untouched(S, s) == Same(S.base[s], S.orm[s])
Obeys ==
    \A s \in Services :
        /\ \A p \in Procs : ~Untouched(sess[p], s) => Matches(sess[p].orm[s], acct[s])
        /\ (\A p \in Procs : Untouched(sess[p], s)) => Matches(svc[s], acct[s])

(* A step of a session leaves what it has switched as it was.              *)
Unmoved(S, T, s) ==
    /\ Untouched(S, s) <=> Untouched(T, s)
    /\ ~Untouched(S, s) => T.orm[s].status = S.orm[s].status

LEMMA SameMatches ==
    ASSUME NEW r, NEW o, r.status = o.status, NEW a, Matches(r, a)
    PROVE  Matches(o, a)
BY DEF Matches, Active

(* Only one session can have switched a service: it holds the customer.    *)
LEMMA Alone ==
    ASSUME Inductive, Held, Calm, NEW p \in Procs, NEW s \in sess[p].seen,
           NEW q \in Procs, q # p
    PROVE  Untouched(sess[q], s)
<1>1. PICK R, S : R = sess[q] /\ S = sess[p]
  OBVIOUS
<1>2. S \in Session /\ RowsOf(p, S, svc, lock, clock) /\ RowsOf(q, R, svc, lock, clock)
  BY <1>1 DEF Inductive, TypeOK, Held
<1>3. s \in Services /\ lock[Owner[s]] = p
  BY <1>1, <1>2 DEF RowsOf, Session
<1>4. R.orm[s] = R.base[s]
  BY <1>2, <1>3 DEF RowsOf
<1>. QED  BY <1>1, <1>4 DEF Untouched, Same

LEMMA TurnObeys ==
    ASSUME Inductive, Obeys, NEW p \in Procs, NEW T, Become(p, T), svc' = svc,
           \A s \in Services :
             \/ Unmoved(sess[p], T, s) /\ acct'[s] = acct[s]
             \/ /\ ~Untouched(T, s) /\ Matches(T.orm[s], acct'[s])
                /\ \A q \in Procs \ {p} : Untouched(sess[q], s)
    PROVE  Obeys'
<1>1. sess' = [sess EXCEPT ![p] = T] /\ sess \in [Procs -> Session]
  BY DEF Become, Inductive, TypeOK
<1>2. sess'[p] = T /\ \A q \in Procs \ {p} : sess'[q] = sess[q]
  BY <1>1
<1>3. ASSUME NEW s \in Services
      PROVE  /\ \A q \in Procs : ~Untouched(sess'[q], s) => Matches(sess'[q].orm[s], acct'[s])
             /\ (\A q \in Procs : Untouched(sess'[q], s)) => Matches(svc[s], acct'[s])
  <2>1. /\ \A q \in Procs : ~Untouched(sess[q], s) => Matches(sess[q].orm[s], acct[s])
        /\ (\A q \in Procs : Untouched(sess[q], s)) => Matches(svc[s], acct[s])
    BY DEF Obeys
  <2>2. CASE Unmoved(sess[p], T, s) /\ acct'[s] = acct[s]
    <3>1. ~Untouched(T, s) => Matches(T.orm[s], acct'[s])
      BY <2>1, <2>2, SameMatches DEF Unmoved
    <3>2. (\A q \in Procs : Untouched(sess'[q], s)) => \A q \in Procs : Untouched(sess[q], s)
      BY <1>2, <2>2 DEF Unmoved
    <3>3. ASSUME NEW q \in Procs, ~Untouched(sess'[q], s)
          PROVE  Matches(sess'[q].orm[s], acct'[s])
      <4>1. CASE q = p
        BY <1>2, <3>1, <3>3, <4>1
      <4>2. CASE q # p
        BY <1>2, <2>1, <2>2, <3>3, <4>2
      <4>. QED  BY <4>1, <4>2
    <3>. QED  BY <2>1, <2>2, <3>2, <3>3
  <2>3. CASE /\ ~Untouched(T, s) /\ Matches(T.orm[s], acct'[s])
             /\ \A q \in Procs \ {p} : Untouched(sess[q], s)
    BY <1>2, <2>3
  <2>. QED  BY <2>2, <2>3
<1>. QED  BY <1>3 DEF Obeys, Untouched

(* The account of every service stays as it is.                            *)
LEMMA QuietObeys ==
    ASSUME Inductive, Obeys, NEW p \in Procs, NEW T, Become(p, T),
           svc' = svc, acct' = acct, \A s \in Services : Unmoved(sess[p], T, s)
    PROVE  Obeys'
BY TurnObeys

LEMMA KeptQuiet ==
    ASSUME NEW S, NEW T, RowsKept(S, T)
    PROVE  \A s \in Services : Unmoved(S, T, s)
BY DEF RowsKept, Unmoved, Untouched

(* A session that has loaded nothing has switched nothing.                 *)
LEMMA EmptyUntouched ==
    ASSUME Inductive, Held, Calm, NEW p \in Procs, sess[p].at \in {"idle", "next"}
    PROVE  \A s \in Services : sess[p].orm[s] = sess[p].base[s] /\ Untouched(sess[p], s)
<1>1. sess[p].seen = {} /\ RowsOf(p, sess[p], svc, lock, clock)
  BY DEF Inductive, OpenOf, Held
<1>. QED  BY <1>1 DEF RowsOf, Untouched, Same

LEMMA FreshUntouched ==
    ASSUME NEW T, T.base = Idle.base, T.orm = Idle.orm
    PROVE  \A s \in Services : Untouched(T, s)
BY DEF Untouched, Idle, Same

LEMMA OpensObeys ==
    ASSUME Inductive, Held, Calm, Obeys, NEW p \in Procs, NEW T, Become(p, T),
           T.base = Idle.base, T.orm = Idle.orm, svc' = svc, acct' = acct,
           \A s \in Services : Untouched(sess[p], s)
    PROVE  Obeys'
<1>1. \A s \in Services : Unmoved(sess[p], T, s)
  BY FreshUntouched DEF Unmoved
<1>. QED  BY <1>1, QuietObeys

(* Loading a row switches nothing.                                         *)
LEMMA LoadsQuiet ==
    ASSUME Inductive, Held, Calm, NEW p \in Procs, NEW M, NEW T, NEW phase, NEW rows,
           RowsKept(sess[p], M), M.seen = sess[p].seen, Loads(M, T, phase, rows)
    PROVE  \A s \in Services : Unmoved(sess[p], T, s)
<1>1. PICK S : S = sess[p]
  OBVIOUS
<1>2. RowsOf(p, S, svc, lock, clock) /\ RowsKept(S, M) /\ M.seen = S.seen
  BY <1>1 DEF Held
<1>3. ASSUME NEW s \in Services PROVE Unmoved(S, T, s)
  <2>1. CASE s \in rows \ M.seen
    <3>1. T.base[s] = svc[s] /\ T.orm[s] = svc[s]
      BY <2>1 DEF Loads
    <3>2. S.orm[s] = S.base[s]
      BY <1>2, <2>1 DEF RowsOf
    <3>. QED  BY <3>1, <3>2 DEF Unmoved, Untouched, Same
  <2>2. CASE s \notin rows \ M.seen
    <3>1. T.base[s] = S.base[s] /\ T.orm[s] = S.orm[s]
      BY <1>2, <2>2 DEF Loads, RowsKept
    <3>. QED  BY <3>1 DEF Unmoved, Untouched
  <2>. QED  BY <2>1, <2>2
<1>. QED  BY <1>1, <1>3

(* The row a session loops over is its own.                                *)
LEMMA SwitchObeys ==
    ASSUME Inductive, Held, Calm, Obeys, NEW p \in Procs, sess[p].at \in Loops,
           NEW s \in sess[p].todo, NEW r, NEW state, PanelOk(s, state), svc' = svc,
           NEW T, Become(p, T), Edits(sess[p], T, s, r),
           ~Same(sess[p].base[s], r), Matches(r, state)
    PROVE  Obeys'
<1>1. PICK S : S = sess[p]
  OBVIOUS
<1>2. /\ S \in Session /\ acct \in [Services -> {"on", "off", "gone"}] /\ s \in S.seen
  BY <1>1 DEF Inductive, TypeOK, Held, RowsOf
<1>3. s \in Services
  BY <1>2 DEF Session
<1>4. \A q \in Procs \ {p} : Untouched(sess[q], s)
  BY <1>1, <1>2, Alone
<1>5. acct' = [acct EXCEPT ![s] = state]
  BY DEF PanelOk
<1>6. T.base = S.base /\ \A x \in Services : T.orm[x] = IF x = s THEN r ELSE S.orm[x]
  BY <1>1 DEF Edits, Turns
<1>7. ~Untouched(T, s) /\ Matches(T.orm[s], acct'[s])
  BY <1>1, <1>2, <1>3, <1>5, <1>6 DEF Untouched
<1>8. \A x \in Services \ {s} : Unmoved(S, T, x) /\ acct'[x] = acct[x]
  BY <1>2, <1>5, <1>6 DEF Unmoved, Untouched
<1>. QED  BY <1>1, <1>4, <1>7, <1>8, TurnObeys

(* A refused call changes nothing.                                         *)
LEMMA LeaveObeys ==
    ASSUME Inductive, Mild, Obeys, NEW p \in Procs, NEW s, NEW state, PanelError(s, state),
           svc' = svc, NEW T, Become(p, T), \A x \in Services : Unmoved(sess[p], T, x)
    PROVE  Obeys'
<1>1. acct' = acct
  BY DEF Mild, PanelError, PanelRefused, PanelLost, Fails
<1>. QED  BY <1>1, QuietObeys

-----------------------------------------------------------------------------
(* Rows and accounts: the steps *)

LEMMA StartObeys ==
    ASSUME Inductive, Held, Calm, Obeys, NEW p \in Procs, SyncStart(p) \/ CleanStart(p)
    PROVE  Obeys'
<1>1. PICK T : Ends(p, T) /\ sess[p].at = "idle" /\ UNCHANGED <<tables, lock, panel, clock>>
  BY StartDoes
<1>2. Become(p, T) /\ T.base = Idle.base /\ T.orm = Idle.orm /\ svc' = svc /\ acct' = acct
  BY <1>1 DEF Ends, Fresh, tables, panel
<1>. QED  BY <1>1, <1>2, EmptyUntouched, OpensObeys

LEMMA SyncLockObeys ==
    ASSUME Inductive, Held, Calm, Obeys, NEW p \in Procs, SyncLock(p)
    PROVE  Obeys'
<1>1. PICK u, T : Become(p, T) /\ Begins(sess[p], T, u)
  BY SyncLockDoes
<1>2. svc' = svc /\ acct' = acct /\ sess[p].at = "next"
  BY DEF SyncLock, tables, panel
<1>3. \A s \in Services : Unmoved(sess[p], T, s)
  BY <1>1, <1>2, EmptyUntouched DEF Unmoved, Untouched, Begins, Same
<1>. QED  BY <1>1, <1>2, <1>3, QuietObeys

LEMMA MeterObeys ==
    ASSUME Inductive, Obeys, NEW p \in Procs, MeterError(p) \/ MeterIdle(p) \/ MeterCharge(p)
    PROVE  Obeys'
<1>1. CASE MeterError(p) \/ MeterIdle(p)
  <2>1. PICK T : Become(p, T) /\ RowsKept(sess[p], T) /\ UNCHANGED <<tables, acct, used, clock, lock>>
    BY <1>1, MeterErrorDoes
  <2>. QED  BY <2>1, KeptQuiet, QuietObeys DEF tables
<1>2. CASE MeterCharge(p)
  <2>1. PICK s, T, mb : /\ Charges(sess[p], T, s, mb) /\ Become(p, T)
                        /\ UNCHANGED <<tables, acct, used, clock>>
    BY <1>2, MeterChargeDoes
  <2>2. \A x \in Services : Unmoved(sess[p], T, x)
    BY <2>1 DEF Charges, Unmoved, Untouched, Same
  <2>. QED  BY <2>1, <2>2, QuietObeys DEF tables
<1>. QED  BY <1>1, <1>2

LEMMA DecideObeys ==
    ASSUME Inductive, Held, Calm, Obeys, NEW p \in Procs, Decide(p)
    PROVE  Obeys'
<1>1. PICK T : /\ Become(p, T) /\ Decides(sess[p], T) /\ UNCHANGED <<tables, lock, panel, clock>>
  BY DecideDoes
<1>2. RowsKept(sess[p], sess[p])
  BY DEF RowsKept
<1>3. \A s \in Services : Unmoved(sess[p], T, s)
  BY <1>1, <1>2, KeptQuiet, LoadsQuiet DEF Decides
<1>. QED  BY <1>1, <1>3, QuietObeys DEF tables, panel

LEMMA CutObeys ==
    ASSUME Inductive, Held, Calm, Mild, Work, Obeys, NEW p \in Syncs, Cut(p)
    PROVE  Obeys'
<1>1. p \in Procs
  BY DEF Procs
<1>2. PICK S : S = sess[p]
  OBVIOUS
<1>3. PICK s, T :
        /\ s \in S.todo /\ s \in Services /\ Become(p, T) /\ S.at = "cut" /\ svc' = svc
        /\ \/ PanelOk(s, "off") /\ Edits(S, T, s, Disabled(S.orm[s], "wallet"))
           \/ PanelError(s, "off") /\ Leaves(S, T, s)
  BY <1>1, <1>2, CutDoes DEF tables
<1>4. S \in Session /\ SyncOf(p, S, wallet, lock, clock)
  BY <1>1, <1>2, WorkNow DEF WorkOf
<1>5. CASE PanelOk(s, "off") /\ Edits(S, T, s, Disabled(S.orm[s], "wallet"))
  <2>1. PICK r : r = Disabled(S.orm[s], "wallet")
    OBVIOUS
  <2>2. S.orm[s] \in Row /\ Active(S.base[s])
    BY <1>3, <1>4 DEF Session, SyncOf
  <2>3. r.status = "disabled"
    BY <2>1, <2>2 DEF Disabled, Row
  <2>4. ~Same(S.base[s], r) /\ Matches(r, "off")
    BY <2>2, <2>3 DEF Same, Active, Matches
  <2>. QED  BY <1>1, <1>2, <1>3, <1>5, <2>1, <2>4, SwitchObeys DEF Loops
<1>6. CASE PanelError(s, "off") /\ Leaves(S, T, s)
  <2>1. RowsKept(S, T)
    BY <1>6 DEF Leaves, Turns, RowsKept
  <2>. QED  BY <1>1, <1>2, <1>3, <1>6, <2>1, KeptQuiet, LeaveObeys
<1>. QED  BY <1>3, <1>5, <1>6

LEMMA RestoreObeys ==
    ASSUME Inductive, Held, Calm, Mild, Work, Obeys, NEW p \in Procs, Restore(p),
           p \in Syncs \/ p \in Cashiers
    PROVE  Obeys'
<1>2. PICK S : S = sess[p]
  OBVIOUS
<1>3. PICK s, T :
        /\ s \in S.todo /\ s \in Services /\ Become(p, T) /\ S.at = "restore" /\ svc' = svc
        /\ \/ PanelOk(s, "on") /\ Edits(S, T, s, Enabled(S.orm[s]))
           \/ PanelError(s, "on") /\ Leaves(S, T, s)
  BY <1>2, RestoreDoes DEF tables
<1>4. S \in Session /\ OutOfMoney(S.base[s])
  BY <1>2, <1>3, WorkNow DEF WorkOf, SyncOf, CashOf
<1>5. CASE PanelOk(s, "on") /\ Edits(S, T, s, Enabled(S.orm[s]))
  <2>1. PICK r : r = Enabled(S.orm[s])
    OBVIOUS
  <2>2. S.orm[s] \in Row
    BY <1>3, <1>4 DEF Session
  <2>3. r.status = "active"
    BY <2>1, <2>2 DEF Enabled, Row
  <2>4. ~Same(S.base[s], r) /\ Matches(r, "on")
    BY <1>4, <2>3 DEF Same, OutOfMoney, Active, Matches
  <2>. QED  BY <1>2, <1>3, <1>5, <2>1, <2>4, SwitchObeys DEF Loops
<1>6. CASE PanelError(s, "on") /\ Leaves(S, T, s)
  <2>1. RowsKept(S, T)
    BY <1>6 DEF Leaves, Turns, RowsKept
  <2>. QED  BY <1>2, <1>3, <1>6, <2>1, KeptQuiet, LeaveObeys
<1>. QED  BY <1>3, <1>5, <1>6

LEMMA TopUpObeys ==
    ASSUME Inductive, Held, Calm, Obeys, NEW p \in Cashiers, TopUpBegin(p) \/ TopUpCredit(p)
    PROVE  Obeys'
<1>1. p \in Procs
  BY DEF Procs
<1>2. CASE TopUpBegin(p)
  <2>1. PICK u, T : /\ Become(p, T) /\ Opens(T, u, "credit") /\ sess[p].at = "idle"
                    /\ UNCHANGED <<tables, lock, panel, clock>>
    BY <1>1, <1>2, TopUpBeginDoes
  <2>2. T.base = Idle.base /\ T.orm = Idle.orm /\ svc' = svc /\ acct' = acct
    BY <2>1 DEF Opens, tables, panel
  <2>. QED  BY <1>1, <2>1, <2>2, EmptyUntouched, OpensObeys
<1>3. CASE TopUpCredit(p)
  <2>1. PICK T : /\ Become(p, T) /\ Credits(sess[p], T) /\ UNCHANGED <<tables, panel, clock>>
    BY <1>1, <1>3, TopUpCreditDoes
  <2>2. PICK M, back :
          /\ RowsKept(sess[p], M) /\ M.seen = sess[p].seen
          /\ \/ Loads(M, T, "restore", back)
             \/ RowsKept(M, T)
    BY <2>1 DEF Credits
  <2>3. RowsKept(M, T) => RowsKept(sess[p], T)
    BY <2>2 DEF RowsKept
  <2>4. \A s \in Services : Unmoved(sess[p], T, s)
    BY <1>1, <2>2, <2>3, KeptQuiet, LoadsQuiet
  <2>. QED  BY <1>1, <2>1, <2>4, QuietObeys DEF tables, panel
<1>. QED  BY <1>2, <1>3

LEMMA CleanCheckObeys ==
    ASSUME Inductive, Held, Calm, Obeys, NEW p \in Procs, CleanCheck(p)
    PROVE  Obeys'
<1>1. PICK s, T :
        /\ sess[p].at = "next" /\ UNCHANGED <<tables, panel, clock>>
        /\ \/ Ends(p, T)
           \/ Become(p, T) /\ Checks(sess[p], T, s)
  BY CleanCheckDoes
<1>2. svc' = svc /\ acct' = acct
  BY <1>1 DEF tables, panel
<1>3. CASE Ends(p, T)
  <2>1. Become(p, T) /\ T.base = Idle.base /\ T.orm = Idle.orm
    BY <1>3 DEF Ends, Fresh
  <2>. QED  BY <1>1, <1>2, <2>1, EmptyUntouched, OpensObeys
<1>4. CASE Become(p, T) /\ Checks(sess[p], T, s)
  <2>1. \A x \in Services : Unmoved(sess[p], T, x)
    BY <1>1, <1>4, EmptyUntouched DEF Checks, Unmoved, Untouched, Same
  <2>. QED  BY <1>2, <1>4, <2>1, QuietObeys
<1>. QED  BY <1>1, <1>3, <1>4

LEMMA ExpireObeys ==
    ASSUME Inductive, Held, Bills, Calm, Mild, Work, Obeys, NEW p \in Cleaners, Expire(p)
    PROVE  Obeys'
<1>1. p \in Procs /\ p \notin Syncs
  BY SessionsAssumption DEF Procs
<1>2. PICK S : S = sess[p]
  OBVIOUS
<1>3. PICK s, T :
        /\ s \in S.todo /\ s \in Services /\ S.at = "expire" /\ svc' = svc
        /\ \/ PanelOk(s, "gone") /\ Become(p, T) /\ Edits(S, T, s, Deleted(S.orm[s]))
           \/ PanelError(s, "gone") /\ Ends(p, T)
  BY <1>1, <1>2, ExpireDoes DEF tables
<1>4. /\ S \in Session /\ RowsOf(p, S, svc, lock, clock) /\ CleanOf(S, wallet, clock)
  BY <1>1, <1>2, WorkNow DEF WorkOf
<1>5. \A x \in Services : Untouched(S, x)
  BY <1>3, <1>4 DEF CleanOf, Untouched
<1>6. CASE PanelOk(s, "gone") /\ Become(p, T) /\ Edits(S, T, s, Deleted(S.orm[s]))
  <2>1. PICK r : r = Deleted(S.orm[s])
    OBVIOUS
  <2>2. S.orm[s] \in Row
    BY <1>3, <1>4 DEF Session
  <2>3. r.status = "deleted"
    BY <2>1, <2>2 DEF Deleted, Row
  <2>4. S.base[s] = svc[s] /\ svc[s].status # "deleted"
    BY <1>3, <1>4 DEF RowsOf, Loops
  <2>5. ~Same(S.base[s], r) /\ Matches(r, "gone")
    BY <2>3, <2>4 DEF Same, Matches
  <2>. QED  BY <1>1, <1>2, <1>3, <1>6, <2>1, <2>5, SwitchObeys DEF Loops
<1>7. CASE PanelError(s, "gone") /\ Ends(p, T)
  <2>1. Become(p, T) /\ T.base = Idle.base /\ T.orm = Idle.orm
    BY <1>7 DEF Ends, Fresh
  <2>2. \A x \in Services : Unmoved(S, T, x)
    BY <1>5, <2>1, FreshUntouched DEF Unmoved
  <2>. QED  BY <1>1, <1>2, <1>3, <1>7, <2>1, <2>2, LeaveObeys
<1>. QED  BY <1>3, <1>6, <1>7

LEMMA DeskObeys ==
    ASSUME Inductive, Held, Calm, Work, Obeys, NEW p \in Desks,
           DeskAsk(p) \/ SetBlocked(p) \/ Debit(p)
    PROVE  Obeys'
<1>1. p \in Procs
  BY DEF Procs
<1>2. DeskOf(sess[p], wallet) /\ sess[p].at # "block"
  BY <1>1, WorkNow DEF WorkOf, RowsOf
<1>3. \A s \in Services : Untouched(sess[p], s)
  BY <1>2 DEF DeskOf, Untouched
<1>4. PICK T :
        /\ Become(p, T) /\ UNCHANGED <<tables, panel, clock>>
        /\ RowsKept(sess[p], T) \/ (T.base = Idle.base /\ T.orm = Idle.orm)
  <2>1. CASE AskService(p) \/ AskDeleteAll(p)
    BY <2>1 DEF AskService, AskDeleteAll, Ask, Calm
  <2>2. CASE AskBlocking(p)
    BY <1>1, <2>2, AskBlockingDoes DEF Opens
  <2>3. CASE AskDebit(p)
    BY <1>1, <2>3, AskDebitDoes DEF Opens
  <2>4. CASE SetBlocked(p)
    BY <1>1, <1>2, <2>4, SetBlockedDoes
  <2>5. CASE Debit(p)
    <3>1. PICK T :
        /\ UNCHANGED <<tables, panel, clock>>
        /\ \/ Ends(p, T)
           \/ Become(p, T) /\ RowsKept(sess[p], T)
           \/ Become(p, T) /\ Debits(sess[p], T)
      BY <1>1, <2>5, DebitDoes
    <3>. QED  BY <3>1 DEF Ends, Fresh, Debits
  <2>. QED  BY <2>1, <2>2, <2>3, <2>4, <2>5 DEF DeskAsk
<1>5. svc' = svc /\ acct' = acct
  BY <1>4 DEF tables, panel
<1>. QED  BY <1>1, <1>3, <1>4, <1>5, KeptQuiet, QuietObeys, OpensObeys

LEMMA CommitObeys ==
    ASSUME Inductive, Held, Calm, Obeys, NEW p \in Procs, Commit(p)
    PROVE  Obeys'
<1>1. PICK S, T : S = sess[p] /\ T = After(S) /\ Become(p, T)
  BY DEF Commit
<1>2. /\ S \in Session /\ sess \in [Procs -> Session] /\ svc \in [Services -> Row]
      /\ svc' \in [Services -> Row]
  BY <1>1, CommitStep DEF Inductive, TypeOK
<1>3. \A s \in Services : Untouched(T, s)
  BY <1>1, <1>2, AfterDoes, FreshUntouched DEF Fresh
<1>4. sess'[p] = T /\ \A q \in Procs \ {p} : sess'[q] = sess[q]
  BY <1>1, <1>2 DEF Become
<1>5. acct' = acct
  BY DEF Commit, panel
<1>6. ASSUME NEW s \in Services
      PROVE  /\ \A q \in Procs : ~Untouched(sess'[q], s) => Matches(sess'[q].orm[s], acct[s])
             /\ (\A q \in Procs : Untouched(sess'[q], s)) => Matches(svc'[s], acct[s])
  <2>1. /\ \A q \in Procs : ~Untouched(sess[q], s) => Matches(sess[q].orm[s], acct[s])
        /\ (\A q \in Procs : Untouched(sess[q], s)) => Matches(svc[s], acct[s])
    BY DEF Obeys
  <2>2. CASE Untouched(S, s) /\ Same(svc[s], svc'[s])
    <3>1. (\A q \in Procs : Untouched(sess'[q], s)) => \A q \in Procs : Untouched(sess[q], s)
      BY <1>1, <1>4, <2>2
    <3>2. svc'[s].status = svc[s].status
      BY <2>2 DEF Same
    <3>. QED  BY <1>3, <1>4, <2>1, <3>1, <3>2, SameMatches
  <2>3. CASE ~Untouched(S, s) /\ Same(S.orm[s], svc'[s])
    <3>1. Matches(S.orm[s], acct[s]) /\ svc'[s].status = S.orm[s].status
      BY <1>1, <2>1, <2>3 DEF Same
    <3>. QED  BY <1>3, <1>4, <2>1, <3>1, SameMatches
  <2>. QED  BY <1>1, <2>2, <2>3, CommitRow DEF Untouched
<1>. QED  BY <1>5, <1>6 DEF Obeys, Untouched

LEMMA InitObeys == Init => Obeys
<1>. SUFFICES ASSUME Init PROVE Obeys
  OBVIOUS
<1>1. \A p \in Procs, s \in Services : Untouched(sess[p], s)
  BY DEF Init, Untouched, Idle, Same
<1>2. \A s \in Services : Matches(svc[s], acct[s])
  BY DEF Init, Matches, NewRow, Active
<1>. QED  BY <1>1, <1>2 DEF Obeys

LEMMA NextObeys ==
    ASSUME Inductive, Held, Bills, Calm, Mild, Work, Obeys, [Next]_vars
    PROVE  Obeys'
<1>1. CASE (\E s \in Services : Use(s) \/ Reset(s)) \/ Tick \/ UNCHANGED vars
  <2>1. svc' = svc /\ acct' = acct /\ sess' = sess
    BY <1>1 DEF Use, Reset, Tick, vars, tables, panel
  <2>. QED  BY <2>1 DEF Obeys, Untouched
<1>2. ASSUME NEW p \in Syncs, SyncStep(p) PROVE Obeys'
  <2>1. p \in Procs
    BY DEF Procs
  <2>. QED
    BY <1>2, <2>1, StartObeys, SyncLockObeys, MeterObeys, DecideObeys, CutObeys,
       RestoreObeys, CommitObeys DEF SyncStep
<1>3. ASSUME NEW p \in Cashiers, TopUpBegin(p) \/ TopUpStep(p) PROVE Obeys'
  <2>1. p \in Procs
    BY DEF Procs
  <2>. QED  BY <1>3, <2>1, TopUpObeys, RestoreObeys, CommitObeys DEF TopUpStep
<1>4. ASSUME NEW p \in Cleaners, CleanStep(p) PROVE Obeys'
  <2>1. p \in Procs
    BY DEF Procs
  <2>. QED  BY <1>4, <2>1, StartObeys, CleanCheckObeys, ExpireObeys, CommitObeys DEF CleanStep
<1>5. ASSUME NEW p \in Desks, DeskAsk(p) \/ DeskStep(p) \/ Undelivered(p) PROVE Obeys'
  <2>1. p \in Procs
    BY DEF Procs
  <2>2. ~Call(p)
    BY <2>1, WorkNow DEF Call, RowsOf
  <2>3. ~Undelivered(p)
    BY DEF Undelivered, Fails, Mild
  <2>. QED  BY <1>5, <2>1, <2>2, <2>3, DeskObeys, CommitObeys DEF DeskStep
<1>6. \A p \in Procs : ~Abort(p)
  BY DEF Abort, Fails, Mild
<1>. QED  BY <1>1, <1>2, <1>3, <1>4, <1>5, <1>6 DEF Next

LEMMA ObeysInvariant ==
    ASSUME Calm, Mild
    PROVE  Spec => []Obeys
<1>1. Inductive /\ Held /\ Bills /\ Work /\ Obeys /\ [Next]_vars => Obeys'
  BY NextObeys
<1>. QED  BY <1>1, InitObeys, InductiveInvariant, HeldInvariant, BillsInvariant, WorkInvariant,
            PTL DEF Spec

(* Who has switched a row and not committed it is at work on its customer. *)
LEMMA SwitchedIsWorking ==
    ASSUME Inductive, Held, Calm, Work, NEW p \in Procs, NEW s \in Services,
           ~Untouched(sess[p], s)
    PROVE  Working(p) /\ sess[p].user = Owner[s]
<1>1. WorkOf(p, sess[p], wallet, lock, clock)
  BY WorkNow
<1>. QED  BY <1>1 DEF WorkOf, Procs, SyncOf, CashOf, CleanOf, DeskOf, Untouched, Working

(* While no button switches an account and the panel only refuses, the row *)
(* and the account of a service agree whenever nobody is at work on its    *)
(* customer: no interleaving of billing, top-ups, cleanup and removals     *)
(* leaves a service on that the tables call off, or the reverse.           *)
THEOREM RowsMatch ==
    ASSUME Calm, Mild
    PROVE  Spec => []RowsMatchPanel
<1>1. ASSUME Inductive, Held, Work, Obeys PROVE RowsMatchPanel
  <2>1. ASSUME NEW s \in Services
        PROVE  \/ \E p \in Procs : Working(p) /\ sess[p].user = Owner[s]
               \/ Matches(svc[s], acct[s])
    BY <1>1, SwitchedIsWorking DEF Obeys
  <2>. QED  BY <2>1 DEF RowsMatchPanel
<1>. QED  BY <1>1, InductiveInvariant, HeldInvariant, WorkInvariant, ObeysInvariant, PTL

-----------------------------------------------------------------------------
(* The promise *)

CutAt(r) == IF r.since = NoTime THEN 0 ELSE r.since

(* What a commit writes.                                                   *)
Settled(S) ==
    /\ S \in Session /\ S.at = "commit" /\ S.user \in Users
    /\ svc \in [Services -> Row] /\ svc' \in [Services -> Row]
    /\ wallet \in [Users -> Int] /\ wallet' \in [Users -> Int]
    /\ clock \in Nat /\ clock' = clock
    /\ \A u \in Users :
         /\ wallet'[u] = wallet[u] + S.txn[u]["traffic"] + S.txn[u]["other"]
         /\ wallet'[u] = Current(S, u)
    /\ \A s \in Services :
         /\ svc'[s].billed = svc[s].billed + S.log[s].mb
         /\ \/ Untouched(S, s) /\ Same(svc[s], svc'[s])
            \/ /\ ~Untouched(S, s) /\ S.base[s] = svc[s] /\ Same(S.orm[s], svc'[s])
               /\ svc[s].status # "deleted"
         /\ S.log[s].mb > 0 => svc[s].status # "deleted"

LEMMA CommitSettles ==
    ASSUME Inductive, Held, Calm, NEW p \in Procs, Commit(p)
    PROVE  Settled(sess[p])
<1>1. PICK S : S = sess[p]
  OBVIOUS
<1>2. /\ TypeOK /\ S \in Session /\ S.at = "commit" /\ S.user \in Users
      /\ MoneyOf(p, S, wallet, lock) /\ RowsOf(p, S, svc, lock, clock)
      /\ UsageOf(p, S, svc, lock)
  BY <1>1 DEF Inductive, TypeOK, OpenOf, Held, Commit
<1>3. /\ svc \in [Services -> Row] /\ svc' \in [Services -> Row]
      /\ wallet \in [Users -> Int] /\ wallet' \in [Users -> Int]
      /\ clock \in Nat /\ clock' = clock
  BY <1>2, CommitStep DEF Inductive, TypeOK, Commit
<1>4. ASSUME NEW u \in Users
      PROVE  /\ wallet'[u] = wallet[u] + S.txn[u]["traffic"] + S.txn[u]["other"]
             /\ wallet'[u] = Current(S, u)
  <2>1. wallet'[u] = Current(S, u)
    BY <1>1 DEF Commit
  <2>2. wallet[u] \in Int
    BY <1>3
  <2>. QED  BY <1>2, <2>1, <2>2 DEF MoneyOf, Current
<1>5. ASSUME NEW s \in Services
      PROVE  /\ svc'[s].billed = svc[s].billed + S.log[s].mb
             /\ \/ Untouched(S, s) /\ Same(svc[s], svc'[s])
                \/ /\ ~Untouched(S, s) /\ S.base[s] = svc[s] /\ Same(S.orm[s], svc'[s])
                   /\ svc[s].status # "deleted"
             /\ S.log[s].mb > 0 => svc[s].status # "deleted"
  <2>1. svc'[s].billed = svc[s].billed + S.log[s].mb
    BY <1>1, CommitCounts
  <2>2. \/ Untouched(S, s) /\ Same(svc[s], svc'[s])
        \/ ~Untouched(S, s) /\ S.base[s] = svc[s] /\ Same(S.orm[s], svc'[s])
    BY <1>1, CommitRow DEF Untouched
  <2>3. ~Untouched(S, s) => S.orm[s] # S.base[s]
    BY DEF Untouched, Same
  <2>4. S.log[s].mb > 0 => S.orm[s] # S.base[s]
    <3>1. S.base[s].mb \in Nat /\ S.log[s].mb \in Nat /\ S.orm[s].mb = S.base[s].mb + S.log[s].mb
      BY <1>2 DEF Session, Row, Entry, UsageOf
    <3>. QED  BY <3>1
  <2>5. S.orm[s] # S.base[s] => svc[s].status # "deleted"
    BY <1>2 DEF RowsOf
  <2>. QED  BY <2>1, <2>2, <2>3, <2>4, <2>5
<1>. QED  BY <1>1, <1>2, <1>3, <1>4, <1>5 DEF Settled

(* Services that are cut off or reconnected are switched in the promise.   *)
LEMMA SwitchPromise ==
    ASSUME svc \in [Services -> Row], svc' \in [Services -> Row], clock \in Nat,
           NEW rows \in SUBSET Services,
           \A s \in rows : \/ Cutting(svc[s], svc'[s], clock)
                           \/ Restoring(svc[s], svc'[s]),
           \A s \in Services \ rows : Same(svc[s], svc'[s])
    PROVE  Promise!Switch(rows)
<1>. DEFINE state == [s \in Services |-> Standing(svc[s])]
            cut == [s \in Services |-> CutAt(svc[s])]
            target == [s \in Services |-> IF s \in rows
                         THEN IF state[s] = "active" THEN "cut" ELSE "active"
                         ELSE state[s]]
            t == [s \in rows |-> CutAt(svc'[s])]
<1>1. ASSUME NEW s \in rows
      PROVE  /\ Standing(svc'[s]) = target[s]
             /\ target[s] = "cut" => CutAt(svc'[s]) \in 0..clock
             /\ target[s] # "cut" => CutAt(svc'[s]) = 0
             /\ CutAt(svc'[s]) \in 0..clock
  <2>1. CASE Cutting(svc[s], svc'[s], clock)
    BY <1>1, <2>1 DEF Cutting, Active, Standing, CutAt, NoTime
  <2>2. CASE Restoring(svc[s], svc'[s])
    BY <1>1, <2>2 DEF Restoring, Active, OutOfMoney, Standing, CutAt, NoTime
  <2>. QED  BY <1>1, <2>1, <2>2
<1>2. ASSUME NEW s \in Services \ rows
      PROVE  Standing(svc'[s]) = target[s] /\ CutAt(svc'[s]) = cut[s]
  BY <1>2 DEF Same, Standing, CutAt
<1>3. [s \in Services |-> Standing(svc'[s])] = target
  BY <1>1, <1>2
<1>4. t \in [rows -> 0..clock]
  BY <1>1
<1>5. [s \in Services |-> CutAt(svc'[s])] =
        [s \in Services |-> IF s \in rows /\ target[s] = "cut" THEN t[s]
                            ELSE IF s \in rows THEN 0 ELSE cut[s]]
  BY <1>1, <1>2
<1>. QED  BY <1>3, <1>4, <1>5 DEF Promise!Switch, CutAt

(* Account has its own names for the tariff.                               *)
LEMMA SameTotal == \A f, S : Promise!Total(f, S) = Total(f, S)
BY Zenon DEF Promise!Total, Total, Promise!MapThenSumSet, MapThenSumSet,
             Promise!MapThenFoldSet, MapThenFoldSet
LEMMA SameCost == \A mb, price : Promise!CostForMb(mb, price) = CostForMb(mb, price)
BY DEF Promise!CostForMb, CostForMb
LEMMA SameShare == \A spent, percent : Promise!Cashback(spent, percent) = Cashback(spent, percent)
BY DEF Promise!Cashback, Cashback
LEMMA SameMine == \A u : Promise!Mine(u) = Owned(u)
BY DEF Promise!Mine, Owned

(* A commit whose session has metered nothing moves no counter.            *)
LEMMA Unmetered ==
    ASSUME NEW S, Settled(S), \A s \in Services : S.log[s].mb = 0
    PROVE  [s \in Services |-> svc'[s].billed] = [s \in Services |-> svc[s].billed]
<1>1. ASSUME NEW s \in Services PROVE svc'[s].billed = svc[s].billed
  <2>1. svc'[s].billed = svc[s].billed + S.log[s].mb /\ svc[s] \in Row
    BY DEF Settled
  <2>. QED  BY <2>1 DEF Row
<1>. QED  BY <1>1

(* The rows that a commit of a sync or a top-up switches.                  *)
Switched(S) == {s \in Services : ~Untouched(S, s)}

LEMMA SettledSwitch ==
    ASSUME NEW S, Settled(S),
           \A s \in Services : \/ Untouched(S, s)
                               \/ Cutting(S.base[s], S.orm[s], clock)
                               \/ Restoring(S.base[s], S.orm[s])
    PROVE  /\ Promise!Switch(Switched(S))
           /\ \A s \in Switched(S) :
                /\ Cutting(S.base[s], S.orm[s], clock) => Standing(svc[s]) = "active"
                /\ Restoring(S.base[s], S.orm[s]) => Standing(svc[s]) = "cut"
<1>1. Switched(S) \in SUBSET Services
  BY DEF Switched
<1>2. ASSUME NEW s \in Switched(S)
      PROVE  /\ S.base[s] = svc[s] /\ Same(S.orm[s], svc'[s])
             /\ Cutting(S.base[s], S.orm[s], clock) \/ Restoring(S.base[s], S.orm[s])
  BY DEF Switched, Settled
<1>3. ASSUME NEW s \in Switched(S)
      PROVE  Cutting(svc[s], svc'[s], clock) \/ Restoring(svc[s], svc'[s])
  BY <1>2 DEF Cutting, Restoring, Same, Active
<1>4. \A s \in Services \ Switched(S) : Same(svc[s], svc'[s])
  BY DEF Switched, Settled
<1>5. Promise!Switch(Switched(S))
  <2>1. svc \in [Services -> Row] /\ svc' \in [Services -> Row] /\ clock \in Nat
    BY DEF Settled
  <2>. QED  BY <1>1, <1>3, <1>4, <2>1, SwitchPromise
<1>. QED  BY <1>2, <1>5 DEF Cutting, Restoring, Active, OutOfMoney, Standing

(* The traffic a session charges is its customer's, and nobody else's.     *)
LEMMA ChargedTo ==
    ASSUME NEW p, NEW S \in Session, BillOf(p, S), NEW u \in Users
    PROVE  S.txn[u]["traffic"] = IF u = S.user THEN -Total(Costs(S), Owned(u)) ELSE 0
<1>1. S.txn[u]["traffic"] + Total(Costs(S), Owned(u)) = 0 /\ S.txn[u]["traffic"] \in Int
  BY DEF BillOf, Session, Kinds
<1>2. \A s \in Services : Costs(S)[s] = S.log[s].cost /\ S.log[s].cost \in Int
  BY DEF Costs, Session, Entry
<1>3. Total(Costs(S), Owned(u)) \in Int
  BY <1>2, OwnedFinite, TotalInt
<1>4. ASSUME u # S.user PROVE Total(Costs(S), Owned(u)) = 0
  <2>1. ASSUME NEW s \in Owned(u) PROVE Costs(S)[s] = 0
    <3>1. s \in Services /\ Owner[s] = u /\ S.log[s].mb \in Nat
      BY DEF Owned, Session, Entry
    <3>2. S.log[s].mb = 0
      BY <1>4, <3>1 DEF BillOf
    <3>3. Costs(S)[s] = CostForMb(0, Price[s]) /\ Price[s] \in Nat
      BY <1>2, <3>1, <3>2, MoneyAssumption DEF BillOf
    <3>. QED  BY <3>3, NoTraffic
  <2>. QED  BY <2>1, OwnedFinite, TotalZero
<1>. QED  BY <1>1, <1>3, <1>4

LEMMA SettlePromise ==
    ASSUME Inductive, Held, Bills, Calm, Work, NEW p \in Syncs, Commit(p)
    PROVE  \E u \in Users : Promise!Settle(u)
<1>1. p \in Procs
  BY DEF Procs
<1>2. PICK S, u : S = sess[p] /\ u = S.user
  OBVIOUS
<1>3. Settled(S) /\ S \in Session /\ BillOf(p, S) /\ SyncOf(p, S, wallet, lock, clock)
  BY <1>1, <1>2, CommitSettles, BillNow, WorkNow DEF WorkOf
<1>4. u \in Users /\ S.at = "commit" /\ clock' = clock /\ S.user # NoUser
  BY <1>2, <1>3, IdsAssumption DEF Settled
<1>. DEFINE mb == [s \in Owned(u) |-> S.log[s].mb]
            cost == [s \in Owned(u) |-> CostForMb(mb[s], Price[s])]
            share == [s \in Owned(u) |-> Cashback(cost[s], Percent)]
            change == [v \in Users |->
                IF v = u THEN -Total(cost, Owned(u))
                ELSE IF v = Inviter[u] THEN Total(share, Owned(u)) ELSE 0]
<1>5. \A s \in Owned(u) : s \in Services /\ Owner[s] = u
  BY DEF Owned
<1>6. \A s \in Owned(u) : cost[s] = Costs(S)[s] /\ share[s] = Shares(S)[s]
  BY <1>3, <1>5 DEF Costs, Shares, BillOf
<1>7. mb \in [Owned(u) -> 0..MaxUsed]
  BY <1>3, <1>5, BoundsAssumption DEF Session, Entry, BillOf
<1>8. Total(cost, Owned(u)) = Total(Costs(S), Owned(u)) /\ Total(share, Owned(u)) = Total(Shares(S), Owned(u))
  BY <1>6, OwnedFinite, TotalSame
<1>9. \A s \in Owned(u) : mb[s] > 0 => Standing(svc[s]) # "deleted"
  <2>1. \A s \in Owned(u) : mb[s] > 0 => svc[s].status # "deleted"
    BY <1>3, <1>5 DEF Settled
  <2>. QED  BY <2>1 DEF Standing
<1>10. ASSUME NEW s \in Services
       PROVE  svc'[s].billed = svc[s].billed + IF s \in Owned(u) THEN mb[s] ELSE 0
  <2>1. svc'[s].billed = svc[s].billed + S.log[s].mb /\ S.log[s].mb \in Nat
    BY <1>3 DEF Settled, Session, Entry
  <2>2. s \notin Owned(u) => S.log[s].mb = 0
    BY <1>2, <1>3, <2>1 DEF BillOf, Owned
  <2>. QED  BY <2>1, <2>2
<1>. HIDE DEF mb, cost, share
<1>11. ASSUME NEW v \in Users PROVE wallet'[v] = wallet[v] + change[v]
  <2>1. /\ wallet'[v] = wallet[v] + S.txn[v]["traffic"] + S.txn[v]["other"]
        /\ wallet[v] \in Int /\ S.txn[v]["traffic"] \in Int /\ S.txn[v]["other"] \in Int
    BY <1>3 DEF Settled, Session, Kinds
  <2>2. S.txn[v]["traffic"] = IF v = u THEN -Total(Costs(S), Owned(v)) ELSE 0
    BY <1>2, <1>3, ChargedTo
  <2>3. S.txn[v]["other"] = IF Inviter[u] = v THEN Total(Shares(S), Owned(u)) ELSE 0
    BY <1>2, <1>3, <1>4 DEF SyncOf
  <2>4. Inviter[u] # u
    BY <1>4, IdsAssumption
  <2>5. CASE v = u
    BY <1>8, <2>1, <2>2, <2>3, <2>4, <2>5
  <2>6. CASE v # u
    BY <1>8, <2>1, <2>2, <2>3, <2>6
  <2>. QED  BY <2>5, <2>6
<1>12. wallet'[u] = S.bal[u]
  BY <1>2, <1>3, <1>4 DEF Settled, Current, SyncOf, Settling
<1>13. /\ Promise!Switch(Switched(S))
       /\ Switched(S) \subseteq Services /\ \A s \in Switched(S) : Owner[s] = u
       /\ wallet'[u] <= 0 => \A s \in Switched(S) : Standing(svc[s]) = "active"
       /\ ~(wallet'[u] <= 0) => \A s \in Switched(S) : Standing(svc[s]) = "cut"
  <2>1. \A s \in Services :
          \/ Untouched(S, s)
          \/ Cutting(S.base[s], S.orm[s], clock) /\ Owner[s] = u /\ S.bal[u] <= 0
          \/ Restoring(S.base[s], S.orm[s]) /\ Owner[s] = u /\ S.bal[u] > 0
    BY <1>2, <1>3 DEF SyncOf, Untouched
  <2>2. S.bal[u] \in Int
    BY <1>3, <1>4 DEF Session
  <2>3. /\ Promise!Switch(Switched(S))
        /\ \A s \in Switched(S) :
             /\ Cutting(S.base[s], S.orm[s], clock) => Standing(svc[s]) = "active"
             /\ Restoring(S.base[s], S.orm[s]) => Standing(svc[s]) = "cut"
    BY <1>3, <2>1, SettledSwitch
  <2>. QED  BY <1>12, <2>1, <2>2, <2>3 DEF Switched
<1>14. Promise!SwitchByWallet(u)
  <2>1. CASE wallet'[u] <= 0
    <3>1. Switched(S) \in SUBSET {s \in Promise!Mine(u) : Standing(svc[s]) = "active"}
      BY <1>13, <2>1, SameMine DEF Owned
    <3>. QED  BY <1>13, <2>1, <3>1 DEF Promise!SwitchByWallet
  <2>2. CASE ~(wallet'[u] <= 0)
    <3>1. Switched(S) \in SUBSET {s \in Promise!Mine(u) : Standing(svc[s]) = "cut"}
      BY <1>13, <2>2, SameMine DEF Owned
    <3>. QED  BY <1>13, <2>2, <3>1 DEF Promise!SwitchByWallet
  <2>. QED  BY <2>1, <2>2
<1>15. wallet' = [v \in Users |-> wallet[v] + change[v]]
  BY <1>3, <1>11 DEF Settled
<1>16. /\ cost = [s \in Promise!Mine(u) |-> Promise!CostForMb(mb[s], Price[s])]
       /\ share = [s \in Promise!Mine(u) |-> Promise!Cashback(cost[s], Percent)]
       /\ Promise!Mine(u) = Owned(u)
  BY SameCost, SameShare, SameMine DEF cost, share
<1>17. change = [v \in Users |->
                   IF v = u THEN -Promise!Total(cost, Promise!Mine(u))
                   ELSE IF v = Inviter[u] THEN Promise!Total(share, Promise!Mine(u)) ELSE 0]
  BY <1>16, SameTotal
<1>18. [s \in Services |-> svc'[s].billed] =
         [s \in Services |-> [x \in Services |-> svc[x].billed][s]
                               + IF s \in Promise!Mine(u) THEN mb[s] ELSE 0]
  BY <1>10, <1>16
<1>19. \A s \in Promise!Mine(u) :
         mb[s] > 0 => [x \in Services |-> Standing(svc[x])][s] # "deleted"
  BY <1>5, <1>9, <1>16
<1>20. mb \in [Promise!Mine(u) -> 0..MaxUsed]
  BY <1>7, <1>16
<1>. HIDE DEF change
<1>21. Promise!Settle(u)
  BY <1>4, <1>14, <1>15, <1>16, <1>17, <1>18, <1>19, <1>20 DEF Promise!Settle
<1>. QED  BY <1>4, <1>21

LEMMA NoCharge ==
    ASSUME NEW p \in Procs, p \notin Syncs, NEW S \in Session, BillOf(p, S)
    PROVE  /\ \A s \in Services : S.log[s].mb = 0
           /\ \A u \in Users : S.txn[u]["traffic"] = 0
<1>1. \A s \in Services : S.log[s].mb = 0
  BY DEF BillOf
<1>2. \A s \in Services : Costs(S)[s] = 0
  BY <1>1, NoTraffic, MoneyAssumption DEF Costs, BillOf
<1>3. ASSUME NEW u \in Users PROVE S.txn[u]["traffic"] = 0
  <2>1. Total(Costs(S), Owned(u)) = 0
    BY <1>2, OwnedFinite, TotalZero
  <2>2. S.txn[u]["traffic"] + Total(Costs(S), Owned(u)) = 0 /\ S.txn[u]["traffic"] \in Int
    BY DEF BillOf, Session, Kinds
  <2>. QED  BY <2>1, <2>2
<1>. QED  BY <1>1, <1>3

LEMMA DepositPromise ==
    ASSUME Inductive, Held, Bills, Calm, Work, NEW p \in Cashiers, Commit(p)
    PROVE  \E u \in Users : Promise!Deposit(u)
<1>1. p \in Procs /\ p \notin Syncs
  BY SessionsAssumption DEF Procs
<1>2. PICK S, u, a : S = sess[p] /\ u = S.user /\ a = S.amount
  OBVIOUS
<1>3. Settled(S) /\ S \in Session /\ BillOf(p, S) /\ CashOf(S)
  BY <1>1, <1>2, CommitSettles, BillNow, WorkNow DEF WorkOf
<1>4. u \in Users /\ S.at = "commit" /\ clock' = clock /\ u \in S.touched /\ a \in Amounts
  BY <1>2, <1>3 DEF Settled, CashOf
<1>5. \A s \in Services : S.log[s].mb = 0
  BY <1>1, <1>3, NoCharge
<1>6. ASSUME NEW v \in Users PROVE wallet'[v] = [wallet EXCEPT ![u] = wallet[u] + a][v]
  <2>1. /\ wallet'[v] = wallet[v] + S.txn[v]["traffic"] + S.txn[v]["other"]
        /\ wallet[v] \in Int /\ wallet \in [Users -> Int]
    BY <1>3 DEF Settled
  <2>2. S.txn[v]["traffic"] = 0
    BY <1>1, <1>3, NoCharge
  <2>3. S.txn[v]["other"] = IF v = u THEN a ELSE 0
    BY <1>2, <1>3, <1>4 DEF CashOf
  <2>4. a \in Int
    BY <1>4, MoneyAssumption
  <2>. QED  BY <2>1, <2>2, <2>3, <2>4
<1>7. wallet' = [wallet EXCEPT ![u] = wallet[u] + a]
  BY <1>3, <1>6 DEF Settled
<1>8. wallet'[u] = S.bal[u]
  BY <1>3, <1>4 DEF Settled, Current
<1>9. \A s \in Services :
        \/ Untouched(S, s)
        \/ Restoring(S.base[s], S.orm[s]) /\ Owner[s] = u /\ S.bal[u] > 0
  BY <1>2, <1>3 DEF CashOf, Untouched
<1>10. /\ Promise!Switch(Switched(S))
       /\ \A s \in Switched(S) : Restoring(S.base[s], S.orm[s]) => Standing(svc[s]) = "cut"
  BY <1>3, <1>9, SettledSwitch
<1>11. /\ Switched(S) \in SUBSET {s \in Promise!Mine(u) : [x \in Services |-> Standing(svc[x])][s] = "cut"}
       /\ Switched(S) # {} => wallet'[u] > 0
  BY <1>8, <1>9, <1>10, SameMine DEF Switched, Owned
<1>12. [s \in Services |-> svc'[s].billed] = [s \in Services |-> svc[s].billed]
  BY <1>3, <1>5, Unmetered
<1>13. Promise!Deposit(u)
  BY <1>4, <1>7, <1>10, <1>11, <1>12 DEF Promise!Deposit
<1>. QED  BY <1>4, <1>13

(* Nothing that the promise is about has changed.                          *)
LEMMA Stutters ==
    ASSUME wallet' = wallet, clock' = clock, \A s \in Services : Same(svc[s], svc'[s]),
           [s \in Services |-> svc'[s].billed] = [s \in Services |-> svc[s].billed]
    PROVE  UNCHANGED Promise!vars
<1>1. \A s \in Services : Standing(svc'[s]) = Standing(svc[s]) /\ CutAt(svc'[s]) = CutAt(svc[s])
  BY DEF Same, Standing, CutAt
<1>2. [s \in Services |-> Standing(svc'[s])] = [s \in Services |-> Standing(svc[s])]
  BY <1>1
<1>3. [s \in Services |-> CutAt(svc'[s])] = [s \in Services |-> CutAt(svc[s])]
  BY <1>1
<1>. QED  BY <1>2, <1>3 DEF Promise!vars, CutAt

LEMMA RemovePromise ==
    ASSUME Inductive, Held, Bills, Calm, Work, NEW p \in Desks, Commit(p)
    PROVE  UNCHANGED Promise!vars \/ \E u \in Users : Promise!Remove(u)
<1>1. p \in Procs /\ p \notin Syncs
  BY SessionsAssumption DEF Procs
<1>2. PICK S, u, a : S = sess[p] /\ u = S.user /\ a = S.amount
  OBVIOUS
<1>3. Settled(S) /\ S \in Session /\ BillOf(p, S) /\ DeskOf(S, wallet)
  BY <1>1, <1>2, CommitSettles, BillNow, WorkNow DEF WorkOf
<1>4. \A s \in Services : Untouched(S, s)
  BY <1>3 DEF DeskOf, Untouched
<1>5. /\ \A s \in Services : Same(svc[s], svc'[s])
      /\ clock' = clock /\ wallet \in [Users -> Int] /\ wallet' \in [Users -> Int]
  BY <1>3, <1>4 DEF Settled
<1>6. [s \in Services |-> svc'[s].billed] = [s \in Services |-> svc[s].billed]
  BY <1>1, <1>3, NoCharge, Unmetered
<1>7. CASE S.touched = {}
  <2>1. \A v \in Users : wallet'[v] = wallet[v]
    BY <1>3, <1>7 DEF Settled, Current
  <2>2. wallet' = wallet
    BY <1>5, <2>1
  <2>. QED  BY <1>5, <1>6, <2>2, Stutters
<1>8. CASE S.touched # {}
  <2>1. /\ u \in S.touched /\ u \in Users /\ a \in Int /\ 0 < a /\ a <= wallet[u]
        /\ S.txn[u]["other"] + a = 0 /\ \A v \in S.touched : v = u
    BY <1>2, <1>3, <1>8 DEF DeskOf, Session
  <2>2. ASSUME NEW v \in Users PROVE wallet'[v] = [wallet EXCEPT ![u] = wallet[u] - a][v]
    <3>1. CASE v = u
      <4>1. wallet'[v] = wallet[v] + S.txn[v]["traffic"] + S.txn[v]["other"]
        BY <1>3 DEF Settled
      <4>2. S.txn[v]["traffic"] = 0 /\ S.txn[v]["other"] \in Int /\ wallet[v] \in Int
        BY <1>1, <1>3, <1>5, NoCharge DEF Session, Kinds
      <4>. QED  BY <1>5, <2>1, <3>1, <4>1, <4>2
    <3>2. CASE v # u
      <4>1. wallet'[v] = wallet[v]
        BY <1>3, <2>1, <3>2 DEF Settled, Current
      <4>. QED  BY <1>5, <3>2, <4>1
    <3>. QED  BY <3>1, <3>2
  <2>3. wallet' = [wallet EXCEPT ![u] = wallet[u] - a]
    BY <1>5, <2>2
  <2>4. a \in Amounts \cup 0..wallet[u]
    BY <1>5, <2>1
  <2>5. /\ [s \in Services |-> Standing(svc'[s])] = [s \in Services |-> Standing(svc[s])]
        /\ [s \in Services |-> IF svc'[s].since = NoTime THEN 0 ELSE svc'[s].since] =
             [s \in Services |-> IF svc[s].since = NoTime THEN 0 ELSE svc[s].since]
    BY <1>5 DEF Same, Standing
  <2>6. Promise!Remove(u)
    BY <1>5, <1>6, <2>1, <2>3, <2>4, <2>5 DEF Promise!Remove
  <2>. QED  BY <2>1, <2>6
<1>. QED  BY <1>7, <1>8

LEMMA ExpirePromise ==
    ASSUME Inductive, Held, Bills, Calm, Work, NEW p \in Cleaners, Commit(p)
    PROVE  UNCHANGED Promise!vars \/ \E s \in Services : Promise!Expire(s)
<1>1. p \in Procs /\ p \notin Syncs
  BY SessionsAssumption DEF Procs
<1>2. PICK S : S = sess[p]
  OBVIOUS
<1>3. Settled(S) /\ S \in Session /\ BillOf(p, S) /\ CleanOf(S, wallet, clock)
  BY <1>1, <1>2, CommitSettles, BillNow, WorkNow DEF WorkOf
<1>4. clock' = clock /\ clock \in Nat /\ wallet' = wallet
  <2>1. wallet \in [Users -> Int] /\ wallet' \in [Users -> Int] /\ \A v \in Users : wallet'[v] = wallet[v]
    BY <1>3 DEF Settled, Current, CleanOf
  <2>. QED  BY <1>3, <2>1 DEF Settled
<1>5. [s \in Services |-> svc'[s].billed] = [s \in Services |-> svc[s].billed]
  BY <1>1, <1>3, NoCharge, Unmetered
<1>6. CASE \A s \in Services : Untouched(S, s)
  <2>1. \A s \in Services : Same(svc[s], svc'[s])
    BY <1>3, <1>6 DEF Settled
  <2>. QED  BY <1>4, <1>5, <2>1, Stutters
<1>7. CASE ~(\A s \in Services : Untouched(S, s))
  <2>1. PICK s \in Services :
          /\ ~Untouched(S, s) /\ Owner[s] = S.user /\ wallet[S.user] <= 0
          /\ S.orm[s] = Deleted(S.base[s]) /\ Stale(S.base[s], clock - 1)
          /\ \A t \in Services \ {s} : Untouched(S, t)
    BY <1>3, <1>7 DEF CleanOf, Untouched
  <2>2. /\ S.base[s] = svc[s] /\ Same(S.orm[s], svc'[s]) /\ svc[s] \in Row
        /\ \A t \in Services \ {s} : Same(svc[t], svc'[t])
    BY <1>3, <2>1 DEF Settled
  <2>3. /\ Standing(svc[s]) = "cut" /\ svc[s].since <= clock - 1 /\ svc[s].since # NoTime
        /\ svc[s].since \in Int
    BY <2>1, <2>2 DEF Stale, OutOfMoney, Standing, Row
  <2>4. S.orm[s].status = "deleted" /\ S.orm[s].since = svc[s].since
    BY <2>1, <2>2 DEF Deleted, Row
  <2>5. Standing(svc'[s]) = "deleted" /\ svc'[s].since = svc[s].since
    BY <2>2, <2>4 DEF Same, Standing
  <2>6. \A t \in Services \ {s} : Standing(svc'[t]) = Standing(svc[t]) /\ svc'[t].since = svc[t].since
    BY <2>2 DEF Same, Standing
  <2>7. [t \in Services |-> Standing(svc'[t])] =
          [[t \in Services |-> Standing(svc[t])] EXCEPT ![s] = "deleted"]
    BY <2>5, <2>6
  <2>8. [t \in Services |-> IF svc'[t].since = NoTime THEN 0 ELSE svc'[t].since] =
          [t \in Services |-> IF svc[t].since = NoTime THEN 0 ELSE svc[t].since]
    BY <2>5, <2>6
  <2>9. /\ [t \in Services |-> Standing(svc[t])][s] = "cut" /\ wallet[Owner[s]] <= 0
        /\ [t \in Services |-> IF svc[t].since = NoTime THEN 0 ELSE svc[t].since][s] < clock
    BY <1>4, <2>1, <2>3
  <2>10. Promise!Expire(s)
    BY <1>4, <1>5, <2>7, <2>8, <2>9 DEF Promise!Expire
  <2>. QED  BY <2>10
<1>. QED  BY <1>6, <1>7

-----------------------------------------------------------------------------
(* The promise, step by step *)

LEMMA OnlyCommitsShow ==
    ASSUME [Next]_vars
    PROVE  \/ wallet' = wallet /\ svc' = svc /\ clock' = clock
           \/ Tick \/ \E p \in Procs : Commit(p)
<1>1. ASSUME NEW p \in Procs, \/ SyncStart(p) \/ SyncLock(p) \/ MeterError(p) \/ MeterIdle(p)
             \/ MeterCharge(p) \/ Decide(p) \/ Cut(p) \/ Restore(p) \/ TopUpBegin(p)
             \/ TopUpCredit(p) \/ CleanStart(p) \/ CleanCheck(p) \/ Expire(p) \/ DeskAsk(p)
             \/ SetBlocked(p) \/ Call(p) \/ Debit(p) \/ Undelivered(p) \/ Abort(p)
      PROVE wallet' = wallet /\ svc' = svc /\ clock' = clock
  BY <1>1 DEF SyncStart, SyncLock, MeterError, MeterIdle, MeterCharge, Metered, Decide,
     Cut, Restore, SwitchAccount, TopUpBegin, TopUpCredit, CleanStart, CleanCheck, Expire,
     DeskAsk, AskService, AskDeleteAll, AskBlocking, AskDebit, Ask, SetBlocked, Call, Debit,
     Undelivered, Abort, tables
<1>2. CASE UNCHANGED vars \/ (\E x \in Services : Use(x) \/ Reset(x))
  BY <1>2 DEF Use, Reset, vars, tables
<1>3. Syncs \cup Cashiers \cup Cleaners \cup Desks = Procs
  BY DEF Procs
<1>. QED
  BY <1>1, <1>2, <1>3 DEF Next, SyncStep, TopUpStep, CleanStep, DeskStep

LEMMA InitPromise == Init => Promise!Init
<1>. SUFFICES ASSUME Init PROVE Promise!Init
  OBVIOUS
<1>1. \A s \in Services : svc[s] = NewRow
  BY DEF Init
<1>2. \A s \in Services : /\ svc[s].billed = 0 /\ Standing(svc[s]) = "active"
                          /\ svc[s].since = NoTime
  BY <1>1 DEF NewRow, Standing
<1>. QED  BY <1>2 DEF Init, Promise!Init

LEMMA StepPromise ==
    ASSUME Inductive, Held, Bills, Calm, Work, [Next]_vars
    PROVE  [Promise!Next]_(Promise!vars)
<1>1. CASE wallet' = wallet /\ svc' = svc /\ clock' = clock
  BY <1>1 DEF Promise!vars
<1>2. CASE Tick
  <2>1. wallet' = wallet /\ svc' = svc /\ clock' = clock + 1
    BY <1>2 DEF Tick, tables
  <2>2. Promise!Pass
    BY <2>1 DEF Promise!Pass
  <2>. QED  BY <2>2 DEF Promise!Next
<1>3. ASSUME NEW p \in Procs, Commit(p) PROVE [Promise!Next]_(Promise!vars)
  <2>1. CASE p \in Syncs
    BY <1>3, <2>1, SettlePromise DEF Promise!Next
  <2>2. CASE p \in Cashiers
    BY <1>3, <2>2, DepositPromise DEF Promise!Next
  <2>3. CASE p \in Cleaners
    BY <1>3, <2>3, ExpirePromise DEF Promise!Next
  <2>4. CASE p \in Desks
    BY <1>3, <2>4, RemovePromise DEF Promise!Next
  <2>. QED  BY <2>1, <2>2, <2>3, <2>4 DEF Procs
<1>. QED  BY <1>1, <1>2, <1>3, OnlyCommitsShow

(* While no button switches an account, each commit of billing, a top-up,  *)
(* the cleanup or a removal is one atomic step of Account, whatever is     *)
(* interleaved with it and whichever call or transaction fails.            *)
THEOREM PromiseKept ==
    ASSUME Calm
    PROVE  Spec => KeepsPromise
<1>1. Inductive /\ Held /\ Bills /\ Work /\ [Next]_vars => [Promise!Next]_(Promise!vars)
  BY StepPromise
<1>. QED
  BY <1>1, InitPromise, InductiveInvariant, HeldInvariant, BillsInvariant, WorkInvariant,
     PTL DEF Spec, KeepsPromise, Promise!Spec

(* The balance that decided about a service is the one that is committed   *)
(* with its new status.                                                    *)
LEMMA DecidedByBalance ==
    ASSUME Inductive, Held, Calm, Work, NEW p \in Procs, Commit(p), NEW s \in Services,
           ~Untouched(sess[p], s)
    PROVE  LET b == sess[p].base[s]
               o == sess[p].orm[s] IN
           /\ b = svc[s] /\ Same(o, svc'[s])
           /\ \/ Cutting(b, o, clock) /\ wallet'[Owner[s]] <= 0
              \/ Restoring(b, o) /\ wallet'[Owner[s]] > 0
              \/ o.status = "deleted"
<1>1. PICK S : S = sess[p]
  OBVIOUS
<1>2. Settled(S) /\ WorkOf(p, S, wallet, lock, clock) /\ S \in Session
  BY <1>1, CommitSettles, WorkNow
<1>3. S.base[s] = svc[s] /\ Same(S.orm[s], svc'[s]) /\ S.base[s] \in Row
  BY <1>1, <1>2 DEF Settled
<1>4. S.at = "commit" /\ S.user \in Users /\ wallet'[S.user] = Current(S, S.user)
  BY <1>2 DEF Settled
<1>5. CASE p \in Syncs
  <2>1. wallet'[S.user] = S.bal[S.user]
    BY <1>2, <1>4, <1>5 DEF WorkOf, SyncOf, Settling, Current
  <2>. QED  BY <1>1, <1>2, <1>3, <1>5, <2>1 DEF WorkOf, SyncOf, Untouched
<1>6. CASE p \in Cashiers
  <2>1. wallet'[S.user] = S.bal[S.user]
    BY <1>2, <1>4, <1>6 DEF WorkOf, CashOf, Current
  <2>. QED  BY <1>1, <1>2, <1>3, <1>6, <2>1 DEF WorkOf, CashOf, Untouched
<1>7. CASE p \in Cleaners
  <2>1. S.orm[s] = Deleted(S.base[s])
    BY <1>1, <1>2, <1>7 DEF WorkOf, CleanOf, Untouched
  <2>2. S.orm[s].status = "deleted"
    BY <1>3, <2>1 DEF Deleted, Row
  <2>. QED  BY <1>1, <1>3, <2>2
<1>8. CASE p \in Desks
  BY <1>1, <1>2, <1>8 DEF WorkOf, DeskOf, Untouched
<1>. QED  BY <1>5, <1>6, <1>7, <1>8 DEF Procs

(* While no button switches an account, billing and top-ups cut off only a *)
(* customer who is left with nothing, and reconnect only one who is left   *)
(* with money, by the balance that is committed together with the status.  *)
THEOREM BalanceDecides ==
    ASSUME Calm
    PROVE  Spec => StatusFollowsBalance
<1>1. ASSUME Inductive, Held, Work, [Next]_vars
      PROVE  [\A s \in Services :
                /\ Active(svc[s]) /\ OutOfMoney(svc'[s]) => wallet'[Owner[s]] <= 0
                /\ OutOfMoney(svc[s]) /\ Active(svc'[s]) => wallet'[Owner[s]] > 0]_vars
  <2>. SUFFICES ASSUME NEW s \in Services
                PROVE  /\ Active(svc[s]) /\ OutOfMoney(svc'[s]) => wallet'[Owner[s]] <= 0
                       /\ OutOfMoney(svc[s]) /\ Active(svc'[s]) => wallet'[Owner[s]] > 0
    OBVIOUS
  <2>1. CASE svc' = svc
    BY <2>1 DEF Active, OutOfMoney
  <2>2. ASSUME NEW p \in Procs, Commit(p)
        PROVE  /\ Active(svc[s]) /\ OutOfMoney(svc'[s]) => wallet'[Owner[s]] <= 0
               /\ OutOfMoney(svc[s]) /\ Active(svc'[s]) => wallet'[Owner[s]] > 0
    <3>1. CASE Untouched(sess[p], s)
      <4>1. Same(svc[s], svc'[s])
        BY <1>1, <2>2, <3>1, CommitRow DEF Untouched
      <4>. QED  BY <4>1 DEF Same, Active, OutOfMoney
    <3>2. CASE ~Untouched(sess[p], s)
      <4>1. PICK b, o :
              /\ b = svc[s] /\ Same(o, svc'[s])
              /\ \/ Cutting(b, o, clock) /\ wallet'[Owner[s]] <= 0
                 \/ Restoring(b, o) /\ wallet'[Owner[s]] > 0
                 \/ o.status = "deleted"
        BY <1>1, <2>2, <3>2, DecidedByBalance
      <4>. QED  BY <4>1 DEF Same, Active, OutOfMoney, Cutting, Restoring
    <3>. QED  BY <3>1, <3>2
  <2>. QED  BY <1>1, <2>1, <2>2, OnlyCommitsWrite
<1>. QED  BY <1>1, InductiveInvariant, HeldInvariant, WorkInvariant, PTL DEF Spec, StatusFollowsBalance
=============================================================================
