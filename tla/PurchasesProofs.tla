-------------------------- MODULE PurchasesProofs ---------------------------
(***************************************************************************)
(* Proofs about Purchases for any customers, invitations, names, prices,   *)
(* handlers and failures: a recorded service has its account, nobody pays  *)
(* for a service that is not recorded, and a fee never overdraws a wallet. *)
(***************************************************************************)
EXTENDS Purchases, TLAPS, FiniteSetTheorems

-----------------------------------------------------------------------------
(* The inductive invariant *)

(* A handler has at most one new service: it belongs to its customer, its  *)
(* account exists, and no other service has that name.                     *)
DraftOf(p) ==
    LET S == sess[p] IN
    /\ S.at \in {"idle", "flag", "create"} => S.new = {}
    /\ S.at = "fee" => \E r \in S.new : ~r.test
    /\ \A r \in S.new :
        /\ r.name \in accounts /\ r.user = S.user /\ ~Recorded(r.name, rows)
        /\ \A q \in S.new : q = r
NamesApart ==
    \A p, q \in Buyers : p # q =>
        \A r \in sess[p].new, t \in sess[q].new : r.name # t.name

(* What a handler will write to a wallet it has locked since: a fee that   *)
(* the wallet covered, and still does, for a service it will record.       *)
MoneyOf(p) ==
    LET S == sess[p] IN
    /\ S.at \in {"idle", "flag", "create", "fee"} => S.txn = [u \in Users |-> NoMoney]
    /\ \A u \in Users, k \in Entries : S.txn[u][k] # 0 => lock[u] = p
    /\ \A u \in Users :
        /\ S.txn[u]["other"] = 0 /\ S.txn[u]["cashback"] >= 0
        /\ S.txn[u]["fee"] # 0 =>
              /\ u = S.user /\ S.txn[u]["fee"] = -Fee /\ wallet[u] >= Fee
              /\ \E r \in S.new : ~r.test

Tables == TypeOK /\ IsFiniteSet(rows) /\ RowsHaveAccounts /\ NamesApart
Inductive ==
    /\ Tables
    /\ \A p \in Buyers : DraftOf(p) /\ MoneyOf(p)
    /\ FeesAreForServices /\ NoStrayAccounts

-----------------------------------------------------------------------------
(* A step that commits nothing: one session changes, and locks only        *)
(* between Free and its handler.                                           *)
Quiet(p) ==
    /\ UNCHANGED tables
    /\ sess' = [sess EXCEPT ![p] = sess'[p]] /\ sess'[p] \in Session
    /\ sess'[p].at # "idle" => sess'[p].user \in Users
    /\ lock' \in [Users -> Buyers \cup {Free}]
    /\ \A u \in Users : lock'[u] = lock[u] \/ lock[u] \in {Free, p}
    /\ accounts \subseteq accounts' /\ accounts' \subseteq Accounts
    /\ moves' \in Nat /\ failures' \in Nat

LEMMA QuietStep ==
    ASSUME Inductive, NEW p \in Buyers, Quiet(p), DraftOf(p)', MoneyOf(p)',
           \A r \in sess'[p].new : r \in sess[p].new \/ r.name \notin accounts,
           failures' = 0 =>
               /\ failures = 0 /\ sess[p].new \subseteq sess'[p].new
               /\ \A name \in accounts' : name \in accounts \/ Recorded(name, sess'[p].new)
    PROVE  Inductive'
<1>1. \A q \in Buyers : sess'[q] = IF q = p THEN sess'[p] ELSE sess[q]
  BY DEF Quiet, Inductive, Tables, TypeOK
<1>2. TypeOK'
  <2>1. sess' \in [Buyers -> Session]
    BY DEF Quiet, Inductive, Tables, TypeOK
  <2>2. \A q \in Buyers : sess'[q].at # "idle" => sess'[q].user \in Users
    BY <1>1 DEF Quiet, Inductive, Tables, TypeOK
  <2>. QED  BY <2>1, <2>2 DEF Quiet, Inductive, Tables, TypeOK, tables
<1>3. \A q \in Buyers : q # p => DraftOf(q)' /\ MoneyOf(q)'
  <2>. SUFFICES ASSUME NEW q \in Buyers, q # p PROVE DraftOf(q)' /\ MoneyOf(q)'
    OBVIOUS
  <2>1. sess'[q] = sess[q] /\ DraftOf(q) /\ MoneyOf(q)
    BY <1>1 DEF Inductive
  <2>2. \A u \in Users : lock[u] = q => lock'[u] = q
    BY IdsAssumption DEF Quiet
  <2>3. DraftOf(q)'
    BY <2>1 DEF DraftOf, Quiet, tables, Recorded
  <2>4. MoneyOf(q)'
    BY <2>1, <2>2 DEF MoneyOf, Quiet, tables
  <2>. QED  BY <2>3, <2>4
<1>4. NamesApart'
  <2>1. \A q \in Buyers : \A t \in sess[q].new : t.name \in accounts
    BY DEF Inductive, DraftOf
  <2>. QED  BY <1>1, <2>1 DEF NamesApart, Inductive, Tables
<1>5. RowsHaveAccounts' /\ IsFiniteSet(rows)' /\ FeesAreForServices'
  BY DEF Quiet, tables, Inductive, Tables, RowsHaveAccounts, FeesAreForServices, Bought
<1>6. NoStrayAccounts'
  <2>1. SUFFICES ASSUME failures' = 0, NEW name \in accounts'
        PROVE  Recorded(name, rows)' \/ \E q \in Buyers : Recorded(name, sess[q].new)'
    BY DEF NoStrayAccounts
  <2>2. CASE Recorded(name, sess'[p].new)
    BY <2>2 DEF Recorded
  <2>3. CASE name \in accounts
    <3>1. CASE Recorded(name, rows)
      BY <3>1 DEF Recorded, Quiet, tables
    <3>2. ASSUME NEW q \in Buyers, Recorded(name, sess[q].new)
          PROVE  Recorded(name, sess[q].new)'
      BY <1>1, <2>1, <3>2 DEF Recorded
    <3>. QED  BY <2>1, <2>3, <3>1, <3>2 DEF Inductive, NoStrayAccounts
  <2>. QED  BY <2>1, <2>2, <2>3
<1>. QED  BY <1>1, <1>2, <1>3, <1>4, <1>5, <1>6 DEF Inductive, Tables

LEMMA UnlockedIs ==
    ASSUME TypeOK, NEW p \in Buyers
    PROVE  /\ Unlocked(p) \in [Users -> Buyers \cup {Free}]
           /\ \A u \in Users : Unlocked(p)[u] = lock[u] \/ lock[u] = p
BY DEF TypeOK, Unlocked

LEMMA IdleIs ==
    /\ Idle \in Session /\ Idle.at = "idle" /\ Idle.new = {} /\ ~Idle.flagged
    /\ Idle.txn = [u \in Users |-> NoMoney]
    /\ \A u \in Users, k \in Entries : Idle.txn[u][k] = 0
BY DEF Idle, Session, NoMoney, Entries

(* A rollback after a failure keeps the invariant.                         *)
LEMMA RollbackStep ==
    ASSUME Inductive, NEW p \in Buyers, Rollback(p), NEW kind, Fails(kind),
           UNCHANGED <<tables, accounts, moves>>
    PROVE  Inductive'
<1>1. /\ sess' = [sess EXCEPT ![p] = sess'[p]] /\ sess'[p] = Idle /\ lock' = Unlocked(p)
  BY DEF Rollback, Become, Inductive, Tables, TypeOK
<1>2. failures' \in Nat /\ failures' # 0
  BY DEF Fails, Inductive, Tables, TypeOK
<1>3. Quiet(p)
  BY <1>1, <1>2, UnlockedIs, IdleIs DEF Quiet, Inductive, Tables, TypeOK
<1>4. DraftOf(p)' /\ MoneyOf(p)'
  BY <1>1, IdleIs DEF DraftOf, MoneyOf, Entries
<1>. QED  BY <1>1, <1>2, <1>3, <1>4, IdleIs, QuietStep

-----------------------------------------------------------------------------
(* One lemma for every action *)

LEMMA InitHolds == Init => Inductive
<1>. SUFFICES ASSUME Init PROVE Inductive
  OBVIOUS
<1>1. TypeOK
  BY IdleIs, IdsAssumption, MoneyAssumption DEF Init, TypeOK, NoMoney, Entries
<1>2. \A p \in Buyers : DraftOf(p) /\ MoneyOf(p)
  BY IdleIs DEF Init, DraftOf, MoneyOf, Entries
<1>3. IsFiniteSet(rows) /\ RowsHaveAccounts /\ NoStrayAccounts
  BY FS_EmptySet DEF Init, RowsHaveAccounts, NoStrayAccounts
<1>4. NamesApart
  BY IdleIs DEF Init, NamesApart
<1>5. FeesAreForServices
  <2>1. \A u \in Users : Bought(u) = {} /\ ledger[u]["fee"] = 0
    BY DEF Init, Bought, NoMoney, Entries
  <2>2. Cardinality({}) = 0
    BY FS_EmptySet
  <2>3. \A u \in Users : Cardinality(Bought(u)) = 0
    BY <2>1, <2>2
  <2>4. Fee * 0 = 0 /\ -0 <= 0
    BY MoneyAssumption
  <2>. QED  BY <2>1, <2>3, <2>4 DEF FeesAreForServices
<1>. QED  BY <1>1, <1>2, <1>3, <1>4, <1>5 DEF Inductive, Tables

LEMMA AskStep ==
    ASSUME Inductive, NEW p \in Buyers, AskPlan(p) \/ AskTest(p)
    PROVE  Inductive'
<1>1. PICK u \in Users, at \in {"create", "flag"}, kind \in {"plan", "test"} :
        sess' = [sess EXCEPT ![p] = [Idle EXCEPT !.at = at, !.kind = kind, !.user = u]]
  <2>1. CASE AskTest(p)
    BY <2>1 DEF AskTest, Become
  <2>2. CASE AskPlan(p)
    <3>1. Idle.kind = "plan"
      BY DEF Idle
    <3>2. PICK u \in Users : sess' = [sess EXCEPT ![p] = [Idle EXCEPT !.at = "create", !.user = u]]
      BY <2>2 DEF AskPlan, Become
    <3>3. [Idle EXCEPT !.at = "create", !.user = u]
            = [Idle EXCEPT !.at = "create", !.kind = "plan", !.user = u]
      BY <3>1 DEF Idle
    <3>. QED  BY <3>2, <3>3
  <2>. QED  BY <2>1, <2>2
<1>2. /\ sess' = [sess EXCEPT ![p] = sess'[p]] /\ sess'[p] \in Session
      /\ sess'[p].at = at /\ sess'[p].user = u /\ sess'[p].new = {}
      /\ sess'[p].txn = Idle.txn
  BY <1>1, IdleIs DEF Inductive, Tables, TypeOK, Session
<1>3. UNCHANGED <<tables, lock, accounts, bounds>>
  BY DEF AskPlan, AskTest
<1>4. Quiet(p)
  BY <1>2, <1>3 DEF Quiet, bounds, Inductive, Tables, TypeOK
<1>5. DraftOf(p)' /\ MoneyOf(p)'
  BY <1>1, <1>2, IdleIs DEF DraftOf, MoneyOf, Entries
<1>6. sess[p].new = {}
  BY DEF AskPlan, AskTest, Inductive, DraftOf
<1>. QED  BY <1>2, <1>3, <1>4, <1>5, <1>6, QuietStep DEF bounds

LEMMA FlagStep ==
    ASSUME Inductive, NEW p \in Buyers, Flag(p)
    PROVE  Inductive'
<1>. DEFINE S == sess[p]
<1>1. /\ S \in Session /\ S.user \in Users /\ S.at = "flag"
      /\ lock' = [lock EXCEPT ![S.user] = p] /\ lock[S.user] \in {Free, p}
  BY DEF Flag, CanLock, Inductive, Tables, TypeOK
<1>2. /\ sess' = [sess EXCEPT ![p] = sess'[p]] /\ sess'[p] \in Session
      /\ sess'[p].at = "create" /\ sess'[p].user = S.user /\ sess'[p].new = S.new
      /\ sess'[p].txn = S.txn
  BY DEF Flag, Flagged, Become, Inductive, Tables, TypeOK, Session
<1>3. UNCHANGED <<tables, accounts, bounds>>
  BY DEF Flag
<1>4. Quiet(p)
  BY <1>1, <1>2, <1>3 DEF Quiet, bounds, Inductive, Tables, TypeOK
<1>5. S.new = {} /\ S.txn = Idle.txn
  BY <1>1, IdleIs DEF Inductive, DraftOf, MoneyOf
<1>6. DraftOf(p)' /\ MoneyOf(p)'
  BY <1>2, <1>5, IdleIs DEF DraftOf, MoneyOf, Entries
<1>. QED  BY <1>2, <1>3, <1>4, <1>6, QuietStep DEF bounds

(* The account is new, or the handler gives up with nothing to record.     *)
LEMMA CreateAccountStep ==
    ASSUME Inductive, NEW p \in Buyers, CreateAccount(p)
    PROVE  Inductive'
<1>. DEFINE S == sess[p]
<1>1. /\ S \in Session /\ S.user \in Users /\ S.at = "create"
      /\ S.new = {} /\ S.txn = Idle.txn
      /\ lock' = lock /\ moves' = moves /\ UNCHANGED tables
      /\ failures \in Nat /\ accounts \subseteq Accounts
  BY IdleIs DEF CreateAccount, Inductive, Tables, TypeOK, DraftOf, MoneyOf
<1>2. PICK name \in Accounts :
        \/ /\ name \notin accounts /\ accounts' = accounts \cup {name}
           /\ Become(p, Inserted(S, name)) /\ UNCHANGED failures
        \/ /\ \/ UNCHANGED <<accounts, failures>>
              \/ Fails("refused") /\ UNCHANGED accounts
              \/ accounts' = accounts \cup {name} /\ Fails("lost")
           /\ Become(p, GivenUp(S, name))
  BY DEF CreateAccount
<1>3. CASE /\ name \notin accounts /\ accounts' = accounts \cup {name}
           /\ Become(p, Inserted(S, name)) /\ UNCHANGED failures
  <2>. DEFINE r == [name |-> name, user |-> S.user, test |-> S.kind = "test"]
  <2>1. /\ sess' = [sess EXCEPT ![p] = sess'[p]] /\ sess'[p] \in Session
        /\ sess'[p].at = IF S.kind = "test" THEN "deliver" ELSE "fee"
        /\ sess'[p].user = S.user /\ sess'[p].new = {r} /\ sess'[p].txn = S.txn
    <3>1. r \in Row
      BY <1>1 DEF Row
    <3>2. Inserted(S, name) = [S EXCEPT !.at = AfterCreation(S), !.new = {r}]
      BY DEF Inserted
    <3>3. {r} \in SUBSET Row
      BY <3>1
    <3>. HIDE DEF r
    <3>4. Inserted(S, name) \in Session
      BY <1>1, <3>2, <3>3 DEF Session, AfterCreation
    <3>5. sess' = [sess EXCEPT ![p] = Inserted(S, name)] /\ sess \in [Buyers -> Session]
      BY <1>3 DEF Become, Inductive, Tables, TypeOK
    <3>6. sess'[p] = Inserted(S, name)
      BY <3>5
    <3>7. Inserted(S, name).at = AfterCreation(S) /\ Inserted(S, name).new = {r}
          /\ Inserted(S, name).user = S.user /\ Inserted(S, name).txn = S.txn
      BY <1>1, <3>2 DEF Session
    <3>. QED  BY <3>4, <3>5, <3>6, <3>7 DEF AfterCreation
  <2>2. Quiet(p)
    BY <1>1, <1>3, <2>1 DEF Quiet, Inductive, Tables, TypeOK
  <2>3. r.name = name /\ r.user = S.user /\ r.test = (S.kind = "test")
    OBVIOUS
  <2>4. ~Recorded(name, rows)
    BY <1>3 DEF Inductive, Tables, RowsHaveAccounts, Recorded
  <2>5. DraftOf(p)'
    BY <1>1, <1>3, <2>1, <2>3, <2>4 DEF DraftOf, tables, Recorded
  <2>6. MoneyOf(p)'
    BY <1>1, <2>1, IdleIs DEF MoneyOf, Entries
  <2>. QED  BY <1>1, <1>3, <2>1, <2>2, <2>3, <2>5, <2>6, QuietStep DEF Recorded
<1>4. CASE /\ \/ UNCHANGED <<accounts, failures>>
              \/ Fails("refused") /\ UNCHANGED accounts
              \/ accounts' = accounts \cup {name} /\ Fails("lost")
           /\ Become(p, GivenUp(S, name))
  <2>1. /\ sess' = [sess EXCEPT ![p] = sess'[p]] /\ sess'[p] \in Session
        /\ sess'[p].at = "deliver" /\ sess'[p].user = S.user
        /\ sess'[p].new = {} /\ sess'[p].txn = S.txn
    BY <1>1, <1>4 DEF Become, GivenUp, Inductive, Tables, TypeOK, Session
  <2>2. /\ accounts \subseteq accounts' /\ accounts' \subseteq Accounts
        /\ failures' \in Nat /\ (failures' = 0 => failures = 0 /\ accounts' = accounts)
    BY <1>1, <1>4 DEF Fails
  <2>3. Quiet(p)
    BY <1>1, <2>1, <2>2 DEF Quiet, Inductive, Tables, TypeOK
  <2>4. DraftOf(p)' /\ MoneyOf(p)'
    BY <1>1, <2>1, IdleIs DEF DraftOf, MoneyOf, Entries
  <2>. QED  BY <1>1, <2>1, <2>2, <2>3, <2>4, QuietStep
<1>. QED  BY <1>2, <1>3, <1>4

(* The new version of a wallet is one entry away from the old one.         *)
LEMMA MoveIs ==
    ASSUME TypeOK, NEW p \in Buyers, NEW S \in Session, NEW u \in Users,
           NEW kind \in Entries, NEW amount \in Int, Move(p, S, u, kind, amount)
    PROVE  /\ sess' = [sess EXCEPT ![p] = sess'[p]] /\ sess'[p] \in Session
           /\ sess'[p].at = S.at /\ sess'[p].user = S.user /\ sess'[p].new = S.new
           /\ lock[u] \in {Free, p} /\ lock' = [lock EXCEPT ![u] = p]
           /\ \A v \in Users, k \in Entries :
                sess'[p].txn[v][k] = S.txn[v][k] + (IF v = u /\ k = kind THEN amount ELSE 0)
<1>. DEFINE row == [S.txn[u] EXCEPT ![kind] = S.txn[u][kind] + amount]
            txn == [S.txn EXCEPT ![u] = row]
            T == [S EXCEPT !.txn[u][kind] = S.txn[u][kind] + amount]
<1>1. S.txn \in [Users -> [Entries -> Int]]
  BY DEF Session
<1>2. row \in [Entries -> Int] /\ \A k \in Entries :
        row[k] = S.txn[u][k] + (IF k = kind THEN amount ELSE 0)
  <2>1. S.txn[u] \in [Entries -> Int]
    BY <1>1
  <2>. QED  BY <2>1
<1>3. txn \in [Users -> [Entries -> Int]]
  BY <1>1, <1>2
<1>4. \A v \in Users, k \in Entries :
        txn[v][k] = S.txn[v][k] + (IF v = u /\ k = kind THEN amount ELSE 0)
  <2>1. \A v \in Users, k \in Entries : S.txn[v][k] \in Int
    BY <1>1
  <2>2. \A v \in Users : txn[v] = IF v = u THEN row ELSE S.txn[v]
    BY <1>1
  <2>. HIDE DEF row, txn
  <2>. QED  BY <1>2, <2>1, <2>2
<1>5. T = [S EXCEPT !.txn = txn]
  BY DEF Session
<1>6. T \in Session /\ T.txn = txn /\ T.at = S.at /\ T.user = S.user /\ T.new = S.new
  <2>. HIDE DEF txn, T
  <2>. QED  BY <1>3, <1>5 DEF Session
<1>7. sess' = [sess EXCEPT ![p] = T] /\ sess'[p] = T
  BY DEF Move, Become, TypeOK
<1>8. lock[u] \in {Free, p} /\ lock' = [lock EXCEPT ![u] = p]
  BY DEF Move, CanLock
<1>. HIDE DEF T, txn
<1>. QED  BY <1>4, <1>6, <1>7, <1>8

LEMMA ChargeFeeStep ==
    ASSUME Inductive, NEW p \in Buyers, ChargeFee(p)
    PROVE  Inductive'
<1>. DEFINE S == sess[p]
            T == [S EXCEPT !.at = "cashback"]
<1>1. /\ S \in Session /\ S.user \in Users /\ S.at = "fee" /\ S.txn = Idle.txn
      /\ T \in Session /\ T.at = "cashback" /\ T.user = S.user /\ T.new = S.new
      /\ T.txn = S.txn /\ Fee \in Nat /\ DraftOf(p)
  BY MoneyAssumption, IdleIs
     DEF ChargeFee, Inductive, Tables, TypeOK, Session, MoneyOf
<1>2. UNCHANGED <<tables, accounts, bounds>>
  BY DEF ChargeFee
<1>3. \A u \in Users, k \in Entries : T.txn[u][k] = 0
  BY <1>1, IdleIs
<1>4. CASE Move(p, T, S.user, "fee", -Fee) /\ Covers(S.user)
  <2>1. /\ sess' = [sess EXCEPT ![p] = sess'[p]] /\ sess'[p] \in Session
        /\ sess'[p].at = "cashback" /\ sess'[p].user = S.user /\ sess'[p].new = S.new
        /\ lock[S.user] \in {Free, p} /\ lock' = [lock EXCEPT ![S.user] = p]
        /\ \A u \in Users, k \in Entries :
             sess'[p].txn[u][k] = T.txn[u][k] + (IF u = S.user /\ k = "fee" THEN -Fee ELSE 0)
    <3>1. -Fee \in Int /\ "fee" \in Entries /\ TypeOK
      BY <1>1 DEF Entries, Inductive, Tables
    <3>. HIDE DEF T
    <3>. QED  BY <1>1, <1>4, <3>1, MoveIs
  <2>2. \A u \in Users, k \in Entries :
          sess'[p].txn[u][k] = IF u = S.user /\ k = "fee" THEN -Fee ELSE 0
    BY <1>1, <1>3, <2>1
  <2>3. Quiet(p)
    BY <1>1, <1>2, <2>1 DEF Quiet, bounds, Inductive, Tables, TypeOK
  <2>4. DraftOf(p)'
    BY <1>1, <1>2, <2>1 DEF DraftOf, tables, Recorded
  <2>5. \E r \in S.new : ~r.test
    BY <1>1 DEF DraftOf
  <2>6. wallet'[S.user] >= Fee
    BY <1>2, <1>4 DEF Covers, tables
  <2>7. \A u \in Users : lock[u] \in Buyers \cup {Free} /\ lock'[S.user] = p
    BY <1>1, <2>1 DEF Inductive, Tables, TypeOK
  <2>8. MoneyOf(p)'
    <3>1. \A u \in Users, k \in Entries : sess'[p].txn[u][k] # 0 => lock'[u] = p
      BY <2>2, <2>7
    <3>2. \A u \in Users :
            /\ sess'[p].txn[u]["other"] = 0 /\ sess'[p].txn[u]["cashback"] >= 0
            /\ sess'[p].txn[u]["fee"] # 0 => u = S.user /\ sess'[p].txn[u]["fee"] = -Fee
      BY <2>2 DEF Entries
    <3>. QED  BY <2>1, <2>5, <2>6, <3>1, <3>2 DEF MoneyOf
  <2>. QED  BY <1>2, <2>1, <2>3, <2>4, <2>8, QuietStep DEF bounds
<1>5. CASE Become(p, T) /\ UNCHANGED lock
  <2>1. sess' = [sess EXCEPT ![p] = T] /\ sess'[p] = T
    BY <1>5 DEF Become, Inductive, Tables, TypeOK
  <2>2. Quiet(p)
    BY <1>1, <1>2, <1>5, <2>1 DEF Quiet, bounds, Inductive, Tables, TypeOK
  <2>3. DraftOf(p)'
    BY <1>1, <1>2, <2>1 DEF DraftOf, tables, Recorded
  <2>4. MoneyOf(p)'
    <3>1. /\ sess'[p].at = "cashback"
          /\ \A u \in Users, k \in Entries : sess'[p].txn[u][k] = 0
      BY <1>1, <1>3, <2>1
    <3>. QED  BY <3>1 DEF MoneyOf, Entries
  <2>. QED  BY <1>1, <1>2, <2>1, <2>2, <2>3, <2>4, QuietStep DEF bounds
<1>. QED  BY <1>4, <1>5 DEF ChargeFee

LEMMA PayInviterStep ==
    ASSUME Inductive, NEW p \in Buyers, PayInviter(p)
    PROVE  Inductive'
<1>. DEFINE S == sess[p]
            T == [S EXCEPT !.at = "deliver"]
            cash == Cashback(Fee, Percent)
<1>1. /\ S \in Session /\ S.user \in Users /\ S.at = "cashback"
      /\ T \in Session /\ T.at = "deliver" /\ T.user = S.user /\ T.new = S.new
      /\ T.txn = S.txn /\ DraftOf(p) /\ MoneyOf(p)
  BY DEF PayInviter, Inductive, Tables, TypeOK, Session
<1>2. UNCHANGED <<tables, accounts, bounds>>
  BY DEF PayInviter
<1>3. DraftOf(p)' \/ sess'[p].new # S.new \/ sess'[p].user # S.user \/ sess'[p].at # "deliver"
  BY <1>1, <1>2 DEF DraftOf, tables, Recorded
<1>4. CASE Inviter[S.user] # NoUser /\ cash > 0 /\ Move(p, T, Inviter[S.user], "cashback", cash)
  <2>. DEFINE i == Inviter[S.user]
  <2>1. cash \in Int /\ i \in Users /\ "cashback" \in Entries /\ TypeOK
    BY <1>1, <1>4, MoneyAssumption, IdsAssumption DEF Cashback, Entries, Inductive, Tables
  <2>2. /\ sess' = [sess EXCEPT ![p] = sess'[p]] /\ sess'[p] \in Session
        /\ sess'[p].at = "deliver" /\ sess'[p].user = S.user /\ sess'[p].new = S.new
        /\ lock[i] \in {Free, p} /\ lock' = [lock EXCEPT ![i] = p]
        /\ \A u \in Users, k \in Entries :
             sess'[p].txn[u][k] = S.txn[u][k] + (IF u = i /\ k = "cashback" THEN cash ELSE 0)
    <3>. HIDE DEF T, cash, i
    <3>1. Move(p, T, i, "cashback", cash)
      BY <1>4 DEF i
    <3>. QED  BY <1>1, <2>1, <3>1, MoveIs
  <2>3. Quiet(p)
    BY <1>1, <1>2, <2>1, <2>2 DEF Quiet, bounds, Inductive, Tables, TypeOK
  <2>4. DraftOf(p)'
    BY <1>3, <2>2
  <2>5. lock'[i] = p /\ \A u \in Users : lock[u] = p => lock'[u] = p
    BY <2>1, <2>2 DEF TypeOK
  <2>6. \A u \in Users, k \in Entries : S.txn[u][k] \in Int
    BY <1>1 DEF Session
  <2>7. MoneyOf(p)'
    <3>. HIDE DEF cash, i
    <3>1. \A u \in Users, k \in Entries : sess'[p].txn[u][k] # 0 => lock'[u] = p
      BY <1>1, <2>2, <2>5, <2>6 DEF MoneyOf
    <3>2. \A u \in Users :
            /\ sess'[p].txn[u]["other"] = S.txn[u]["other"]
            /\ sess'[p].txn[u]["fee"] = S.txn[u]["fee"]
            /\ sess'[p].txn[u]["cashback"] >= S.txn[u]["cashback"]
            /\ sess'[p].txn[u]["cashback"] \in Int
      BY <1>4, <2>1, <2>2, <2>6 DEF Entries
    <3>3. \A u \in Users : S.txn[u]["other"] = 0 /\ S.txn[u]["cashback"] >= 0
                           /\ S.txn[u]["cashback"] \in Int
      BY <1>1, <2>6 DEF MoneyOf, Entries
    <3>4. wallet' = wallet
      BY <1>2 DEF tables
    <3>. QED  BY <1>1, <2>2, <3>1, <3>2, <3>3, <3>4 DEF MoneyOf
  <2>. QED  BY <1>2, <2>2, <2>3, <2>4, <2>7, QuietStep DEF bounds
<1>5. CASE Become(p, T) /\ UNCHANGED lock
  <2>1. sess' = [sess EXCEPT ![p] = T] /\ sess'[p] = T
    BY <1>5 DEF Become, Inductive, Tables, TypeOK
  <2>2. Quiet(p)
    BY <1>1, <1>2, <1>5, <2>1 DEF Quiet, bounds, Inductive, Tables, TypeOK
  <2>3. DraftOf(p)'
    BY <1>1, <1>3, <2>1
  <2>4. MoneyOf(p)'
    BY <1>1, <1>2, <1>5, <2>1 DEF MoneyOf, tables
  <2>. QED  BY <1>1, <1>2, <2>1, <2>2, <2>3, <2>4, QuietStep DEF bounds
<1>. QED  BY <1>4, <1>5 DEF PayInviter

LEMMA DeliverStep ==
    ASSUME Inductive, NEW p \in Buyers, Deliver(p)
    PROVE  Inductive'
<1>. DEFINE S == sess[p]
            T == [S EXCEPT !.at = "commit"]
<1>1. CASE Fails("telegram") /\ Rollback(p)
  BY <1>1, RollbackStep DEF Deliver
<1>2. CASE Become(p, T) /\ UNCHANGED <<lock, failures>>
  <2>1. /\ S \in Session /\ S.user \in Users /\ S.at = "deliver" /\ DraftOf(p) /\ MoneyOf(p)
        /\ T \in Session /\ T.at = "commit" /\ T.user = S.user /\ T.new = S.new
        /\ T.txn = S.txn
    BY DEF Deliver, Inductive, Tables, TypeOK, Session
  <2>2. sess' = [sess EXCEPT ![p] = T] /\ sess'[p] = T
    BY <1>2 DEF Become, Inductive, Tables, TypeOK
  <2>3. UNCHANGED <<tables, accounts, moves>>
    BY DEF Deliver
  <2>4. Quiet(p)
    BY <1>2, <2>1, <2>2, <2>3 DEF Quiet, Inductive, Tables, TypeOK
  <2>5. DraftOf(p)'
    BY <2>1, <2>2, <2>3 DEF DraftOf, tables, Recorded
  <2>6. MoneyOf(p)'
    BY <1>2, <2>1, <2>2, <2>3 DEF MoneyOf, tables
  <2>. QED  BY <1>2, <2>1, <2>2, <2>3, <2>4, <2>5, <2>6, QuietStep
<1>. QED  BY <1>1, <1>2 DEF Deliver

LEMMA AbortStep ==
    ASSUME Inductive, NEW p \in Buyers, Abort(p)
    PROVE  Inductive'
BY RollbackStep DEF Abort

(* Elsewhere: another transaction moves a wallet nobody holds.             *)
LEMMA ElsewhereStep ==
    ASSUME Inductive, NEW u \in Users, Elsewhere(u)
    PROVE  Inductive'
<1>1. PICK a \in Moves :
        /\ wallet' = [wallet EXCEPT ![u] = wallet[u] + a]
        /\ ledger' = [ledger EXCEPT ![u]["other"] = ledger[u]["other"] + a]
  BY DEF Elsewhere
<1>2. /\ a \in Int /\ lock[u] = Free /\ moves' \in Nat
      /\ UNCHANGED <<tested, blocked, rows, lock, sess, accounts, failures>>
  BY MoneyAssumption DEF Elsewhere, Inductive, Tables, TypeOK
<1>3. /\ wallet' \in [Users -> Int] /\ ledger' \in [Users -> [Entries -> Int]]
      /\ \A v \in Users : v # u => wallet'[v] = wallet[v]
      /\ \A v \in Users : ledger'[v]["fee"] = ledger[v]["fee"]
  <2>1. ledger \in [Users -> [Entries -> Int]] /\ wallet \in [Users -> Int]
    BY DEF Inductive, Tables, TypeOK
  <2>. QED  BY <1>1, <1>2, <2>1 DEF Entries
<1>4. TypeOK'
  BY <1>2, <1>3 DEF Inductive, Tables, TypeOK
<1>5. \A p \in Buyers : DraftOf(p)'
  BY <1>2 DEF Inductive, DraftOf, Recorded
<1>6. \A p \in Buyers : MoneyOf(p)'
  <2>. SUFFICES ASSUME NEW p \in Buyers PROVE MoneyOf(p)'
    OBVIOUS
  <2>1. MoneyOf(p) /\ lock[u] # p
    BY <1>2, IdsAssumption DEF Inductive
  <2>2. "fee" \in Entries
    BY DEF Entries
  <2>. QED  BY <1>2, <1>3, <2>1, <2>2 DEF MoneyOf
<1>7. FeesAreForServices'
  BY <1>2, <1>3 DEF Inductive, FeesAreForServices, Bought
<1>8. /\ IsFiniteSet(rows)' /\ RowsHaveAccounts' /\ NamesApart' /\ NoStrayAccounts'
  BY <1>2 DEF Inductive, Tables, RowsHaveAccounts, NamesApart, NoStrayAccounts, Recorded
<1>. QED  BY <1>4, <1>5, <1>6, <1>7, <1>8 DEF Inductive, Tables

LEMMA BlockStep ==
    ASSUME Inductive, NEW u \in Users, Block(u)
    PROVE  Inductive'
<1>1. /\ UNCHANGED <<wallet, tested, rows, ledger, lock, sess, accounts, failures>>
      /\ blocked' \in [Users -> BOOLEAN] /\ moves' \in Nat
  BY DEF Block, Inductive, Tables, TypeOK
<1>2. TypeOK'
  BY <1>1 DEF Inductive, Tables, TypeOK
<1>3. \A p \in Buyers : DraftOf(p)' /\ MoneyOf(p)'
  BY <1>1 DEF Inductive, DraftOf, MoneyOf, Recorded
<1>4. /\ IsFiniteSet(rows)' /\ RowsHaveAccounts' /\ NamesApart' /\ NoStrayAccounts'
      /\ FeesAreForServices'
  BY <1>1
     DEF Inductive, Tables, RowsHaveAccounts, NamesApart, NoStrayAccounts, Recorded,
         FeesAreForServices, Bought
<1>. QED  BY <1>2, <1>3, <1>4 DEF Inductive, Tables

-----------------------------------------------------------------------------
(* A commit *)

(* It moves only wallets it holds, the fee is what the wallet covers, and  *)
(* its service was in no table and no other handler.                       *)
LEMMA WhatCommitWrites ==
    ASSUME Inductive, NEW p \in Buyers, Commit(p)
    PROVE  /\ rows' = rows \cup sess[p].new
           /\ tested' \in [Users -> BOOLEAN]
           /\ wallet' \in [Users -> Int] /\ ledger' \in [Users -> [Entries -> Int]]
           /\ \A u \in Users : lock[u] # p => wallet'[u] = wallet[u]
           /\ \A u \in Users :
                \/ ledger'[u]["fee"] = ledger[u]["fee"]
                \/ /\ ledger'[u]["fee"] = ledger[u]["fee"] - Fee /\ u = sess[p].user
                   /\ wallet'[u] >= 0 /\ \E r \in sess[p].new : ~r.test
           /\ sess' = [sess EXCEPT ![p] = sess'[p]] /\ sess'[p] = Idle
           /\ lock' = Unlocked(p) /\ UNCHANGED <<blocked, accounts, moves, failures>>
<1>. DEFINE S == sess[p]
<1>1. /\ S \in Session /\ MoneyOf(p) /\ Fee \in Nat
      /\ wallet \in [Users -> Int] /\ ledger \in [Users -> [Entries -> Int]]
      /\ tested \in [Users -> BOOLEAN]
  BY MoneyAssumption DEF Inductive, Tables, TypeOK
<1>2. /\ \A u \in Users, k \in Entries : S.txn[u][k] \in Int /\ ledger[u][k] \in Int
      /\ S.flagged \in BOOLEAN
  BY <1>1 DEF Session
<1>3. /\ \A u \in Users : wallet'[u] = wallet[u] + Sum(S.txn, u)
      /\ \A u \in Users, k \in Entries : ledger'[u][k] = ledger[u][k] + S.txn[u][k]
      /\ wallet' = [u \in Users |-> wallet[u] + Sum(S.txn, u)]
      /\ ledger' = [u \in Users |-> [k \in Entries |-> ledger[u][k] + S.txn[u][k]]]
  BY DEF Commit
<1>4. \A u \in Users :
        /\ Sum(S.txn, u) = S.txn[u]["fee"] + S.txn[u]["cashback"] + S.txn[u]["other"]
        /\ S.txn[u]["fee"] \in Int /\ S.txn[u]["cashback"] \in Int /\ S.txn[u]["other"] \in Int
        /\ wallet[u] \in Int /\ ledger[u]["fee"] \in Int
        /\ ledger'[u]["fee"] = ledger[u]["fee"] + S.txn[u]["fee"]
  BY <1>1, <1>2, <1>3 DEF Sum, Entries
<1>5. wallet' \in [Users -> Int] /\ ledger' \in [Users -> [Entries -> Int]]
  <2>1. \A u \in Users : wallet[u] + Sum(S.txn, u) \in Int
    BY <1>4
  <2>2. \A u \in Users, k \in Entries : ledger[u][k] + S.txn[u][k] \in Int
    BY <1>2
  <2>. QED  BY <1>3, <2>1, <2>2
<1>6. ASSUME NEW u \in Users, lock[u] # p
      PROVE  wallet'[u] = wallet[u]
  <2>1. S.txn[u]["fee"] = 0 /\ S.txn[u]["cashback"] = 0 /\ S.txn[u]["other"] = 0
    BY <1>1, <1>6 DEF MoneyOf, Entries
  <2>. QED  BY <1>3, <1>4, <2>1
<1>7. ASSUME NEW u \in Users
      PROVE  \/ ledger'[u]["fee"] = ledger[u]["fee"]
             \/ /\ ledger'[u]["fee"] = ledger[u]["fee"] - Fee /\ u = S.user
                /\ wallet'[u] >= 0 /\ \E r \in S.new : ~r.test
  <2>1. CASE S.txn[u]["fee"] = 0
    BY <1>4, <2>1
  <2>2. CASE S.txn[u]["fee"] # 0
    <3>1. /\ u = S.user /\ S.txn[u]["fee"] = -Fee /\ wallet[u] >= Fee
          /\ S.txn[u]["other"] = 0 /\ S.txn[u]["cashback"] >= 0
          /\ \E r \in S.new : ~r.test
      BY <1>1, <2>2 DEF MoneyOf
    <3>2. /\ wallet'[u] = wallet[u] + Sum(S.txn, u)
          /\ Sum(S.txn, u) = S.txn[u]["fee"] + S.txn[u]["cashback"] + S.txn[u]["other"]
          /\ ledger'[u]["fee"] = ledger[u]["fee"] + S.txn[u]["fee"]
      BY <1>3, <1>4
    <3>3. /\ S.txn[u]["cashback"] \in Int /\ wallet[u] \in Int
          /\ ledger[u]["fee"] \in Int /\ Fee \in Nat
      BY <1>1, <1>4
    <3>4. wallet'[u] >= 0 /\ ledger'[u]["fee"] = ledger[u]["fee"] - Fee
      BY <3>1, <3>2, <3>3
    <3>. QED  BY <3>1, <3>4
  <2>. QED  BY <2>1, <2>2
<1>8. tested' \in [Users -> BOOLEAN]
  BY <1>1, <1>2 DEF Commit
<1>9. sess' = [sess EXCEPT ![p] = sess'[p]] /\ sess'[p] = Idle /\ lock' = Unlocked(p)
  BY DEF Commit, Rollback, Become, Inductive, Tables, TypeOK
<1>. QED  BY <1>5, <1>6, <1>7, <1>8, <1>9 DEF Commit, bounds

LEMMA CommitStep ==
    ASSUME Inductive, NEW p \in Buyers, Commit(p)
    PROVE  Inductive'
<1>. DEFINE S == sess[p]
<1>1. /\ S \in Session /\ DraftOf(p) /\ S.new \subseteq Row
      /\ rows' = rows \cup S.new /\ accounts' = accounts /\ failures' = failures
  BY WhatCommitWrites DEF Inductive, Tables, TypeOK, Session
<1>2. \A q \in Buyers : sess'[q] = IF q = p THEN Idle ELSE sess[q]
  BY WhatCommitWrites DEF Inductive, Tables, TypeOK
<1>3. TypeOK'
  <2>1. sess' \in [Buyers -> Session]
    BY WhatCommitWrites, IdleIs DEF Inductive, Tables, TypeOK
  <2>2. \A q \in Buyers : sess'[q].at # "idle" => sess'[q].user \in Users
    BY <1>2, IdleIs DEF Inductive, Tables, TypeOK
  <2>. QED  BY <1>1, <2>1, <2>2, WhatCommitWrites, UnlockedIs DEF Inductive, Tables, TypeOK
<1>4. S.new = {} \/ \E r \in S.new : S.new = {r}
  BY <1>1 DEF DraftOf
<1>5. IsFiniteSet(rows') /\ IsFiniteSet(rows)
  <2>1. IsFiniteSet(S.new)
    <3>1. CASE S.new = {}
      BY <3>1, FS_EmptySet
    <3>2. ASSUME NEW r, S.new = {r} PROVE IsFiniteSet(S.new)
      <4>1. IsFiniteSet({r})
        BY FS_Singleton
      <4>. QED  BY <3>2, <4>1
    <3>. QED  BY <1>4, <3>1, <3>2
  <2>. QED  BY <1>1, <2>1, FS_Union DEF Inductive, Tables
<1>6. RowsHaveAccounts'
  BY <1>1 DEF Inductive, Tables, RowsHaveAccounts, DraftOf, Recorded
<1>7. NamesApart'
  BY <1>2, IdleIs DEF Inductive, Tables, NamesApart
<1>8. ASSUME NEW q \in Buyers PROVE DraftOf(q)' /\ MoneyOf(q)'
  <2>1. CASE q = p
    BY <1>2, <2>1, IdleIs DEF DraftOf, MoneyOf, Entries
  <2>2. CASE q # p
    <3>1. sess'[q] = sess[q] /\ DraftOf(q) /\ MoneyOf(q)
      BY <1>2, <2>2 DEF Inductive
    <3>2. \A t \in sess[q].new, r \in S.new : r.name # t.name
      BY <2>2 DEF Inductive, Tables, NamesApart
    <3>3. DraftOf(q)'
      BY <1>1, <3>1, <3>2 DEF DraftOf, Recorded
    <3>4. \A u \in Users : lock[u] = q => lock'[u] = q /\ wallet'[u] = wallet[u]
      BY <2>2, WhatCommitWrites, UnlockedIs DEF Inductive, Tables
    <3>5. MoneyOf(q)'
      BY <3>1, <3>4 DEF MoneyOf, Entries
    <3>. QED  BY <3>3, <3>5
  <2>. QED  BY <2>1, <2>2
<1>9. FeesAreForServices'
  <2>1. SUFFICES ASSUME NEW u \in Users
        PROVE  -ledger'[u]["fee"] <= Fee * Cardinality(Bought(u)')
    BY DEF FeesAreForServices
  <2>2. /\ IsFiniteSet(Bought(u)) /\ IsFiniteSet(Bought(u)')
    BY <1>5, FS_Subset DEF Bought
  <2>3. Bought(u) \subseteq Bought(u)'
    BY <1>1 DEF Bought
  <2>. DEFINE c == Cardinality(Bought(u))
              d == Cardinality(Bought(u)')
  <2>4. /\ c \in Nat /\ d \in Nat /\ c <= d /\ Fee \in Nat
        /\ ledger[u]["fee"] \in Int /\ -ledger[u]["fee"] <= Fee * c
    <3>1. c \in Nat /\ d \in Nat /\ c <= d
      BY <2>2, <2>3, FS_CardinalityType, FS_Subset
    <3>. QED
      BY <3>1, MoneyAssumption DEF Inductive, Tables, TypeOK, FeesAreForServices, Entries
  <2>5. CASE ledger'[u]["fee"] = ledger[u]["fee"]
    <3>. HIDE DEF c, d
    <3>1. Fee * c <= Fee * d /\ Fee * c \in Int /\ Fee * d \in Int
      BY <2>4
    <3>2. -ledger'[u]["fee"] <= Fee * d
      BY <2>4, <2>5, <3>1
    <3>. QED  BY <3>2 DEF d
  <2>6. CASE /\ ledger'[u]["fee"] = ledger[u]["fee"] - Fee /\ u = S.user
             /\ \E r \in S.new : ~r.test
    <3>1. PICK r \in S.new : ~r.test
      BY <2>6
    <3>2. r.user = u /\ r \notin rows /\ S.new = {r}
      BY <1>1, <2>6, <3>1 DEF DraftOf, Recorded
    <3>3. Bought(u)' = Bought(u) \cup {r} /\ r \notin Bought(u)
      BY <1>1, <3>1, <3>2 DEF Bought
    <3>4. d = c + 1
      BY <2>2, <3>3, FS_AddElement
    <3>. HIDE DEF c, d
    <3>5. Fee * d = Fee * c + Fee /\ Fee * c \in Int
      BY <2>4, <3>4
    <3>6. -ledger'[u]["fee"] <= Fee * d
      BY <2>4, <2>6, <3>5
    <3>. QED  BY <3>6 DEF d
  <2>. QED  BY <2>5, <2>6, WhatCommitWrites
<1>10. NoStrayAccounts'
  <2>1. SUFFICES ASSUME failures = 0, NEW name \in accounts
        PROVE  Recorded(name, rows') \/ \E q \in Buyers : Recorded(name, sess'[q].new)
    BY <1>1 DEF NoStrayAccounts, Recorded
  <2>2. Recorded(name, rows) \/ \E q \in Buyers : Recorded(name, sess[q].new)
    BY <2>1 DEF Inductive, NoStrayAccounts
  <2>. QED  BY <1>1, <1>2, <2>2 DEF Recorded
<1>. QED  BY <1>3, <1>5, <1>6, <1>7, <1>8, <1>9, <1>10 DEF Inductive, Tables

-----------------------------------------------------------------------------
(* The theorems *)

LEMMA NextStep ==
    ASSUME Inductive, [Next]_vars
    PROVE  Inductive'
<1>1. CASE UNCHANGED vars
  BY <1>1
     DEF vars, tables, bounds, Inductive, Tables, TypeOK, RowsHaveAccounts, NamesApart,
         DraftOf, MoneyOf, Recorded, FeesAreForServices, Bought, NoStrayAccounts
<1>2. ASSUME NEW p \in Buyers, Step(p)
      PROVE  Inductive'
  BY <1>2, AskStep, FlagStep, CreateAccountStep, ChargeFeeStep, PayInviterStep,
     DeliverStep, CommitStep DEF Step
<1>. QED  BY <1>1, <1>2, AbortStep, ElsewhereStep, BlockStep DEF Next

(* A handler's new service and its money stay its own until the commit.    *)
THEOREM PurchasesInvariant == Spec => []Inductive
<1>. QED  BY InitHolds, NextStep, PTL DEF Spec

(* VpnServiceManager._create adds the row only after the panel has made    *)
(* the account: every service of the table has one, and its own.           *)
THEOREM RowsAreReal == Spec => []RowsHaveAccounts
<1>1. Inductive => RowsHaveAccounts
  BY DEF Inductive, Tables
<1>. QED  BY <1>1, PurchasesInvariant, PTL

(* _charge_creation_fee runs after the row was added, in its transaction:  *)
(* nobody pays for a service that is not there.                            *)
THEOREM FeesBuyServices == Spec => []FeesAreForServices
<1>1. Inductive => FeesAreForServices
  BY DEF Inductive
<1>. QED  BY <1>1, PurchasesInvariant, PTL

(* Without a failure every account on the panel is recorded, or will be by *)
(* the handler that made it.                                               *)
THEOREM AccountsAreRecorded == Spec => []NoStrayAccounts
<1>1. Inductive => NoStrayAccounts
  BY DEF Inductive
<1>. QED  BY <1>1, PurchasesInvariant, PTL

(* The conditional UPDATE of the fee keeps its wallet from being overdrawn *)
(* although the balance was checked long before, without a lock.           *)
THEOREM FeesAreCovered == Spec => FeeNeverOverdraws
<1>. DEFINE Covered ==
       \A u \in Users : ledger'[u]["fee"] < ledger[u]["fee"] => wallet'[u] >= 0
<1>1. ASSUME Inductive, NEW p \in Buyers, Commit(p)
      PROVE  Covered
  <2>1. \A u \in Users : ledger[u]["fee"] \in Int
    BY <1>1 DEF Inductive, Tables, TypeOK, Entries
  <2>. QED  BY <1>1, <2>1, WhatCommitWrites
<1>2. ASSUME Inductive, NEW u \in Users, Elsewhere(u)
      PROVE  Covered
  <2>1. ledger \in [Users -> [Entries -> Int]]
    BY <1>2 DEF Inductive, Tables, TypeOK
  <2>2. \A v \in Users : ledger'[v]["fee"] = ledger[v]["fee"] /\ ledger[v]["fee"] \in Int
    BY <1>2, <2>1 DEF Elsewhere, Entries
  <2>. QED  BY <2>2
<1>3. ASSUME Inductive, ledger' = ledger
      PROVE  Covered
  <2>1. \A u \in Users : ledger[u]["fee"] \in Int
    BY <1>3 DEF Inductive, Tables, TypeOK, Entries
  <2>. QED  BY <1>3, <2>1
<1>4. ASSUME Next, \A p \in Buyers : ~Commit(p), \A u \in Users : ~Elsewhere(u)
      PROVE  ledger' = ledger
  BY <1>4
     DEF Next, Step, AskPlan, AskTest, Flag, CreateAccount, ChargeFee, PayInviter,
         Deliver, Abort, Block, tables
<1>5. Inductive /\ [Next]_vars => [Covered]_vars
  BY <1>1, <1>2, <1>3, <1>4
<1>. QED  BY <1>5, PurchasesInvariant, PTL DEF Spec, FeeNeverOverdraws
=============================================================================
