---------------------------- MODULE Registration ----------------------------
(***************************************************************************)
(* How customers get into the table users: by their first message, by an   *)
(* invitation link, by a payment with Telegram Stars, or by an admin who   *)
(* imports a list.  Each update of Telegram is handled by a task of its    *)
(* own, which is one database transaction.  Updates come in their order;   *)
(* the next poll acknowledges them, whatever their handlers do, and those  *)
(* that were not are delivered again after a restart.  telegram_id is a    *)
(* unique key: an INSERT waits while another transaction has an            *)
(* uncommitted INSERT or UPDATE of the same customer, and so does an       *)
(* UPDATE.                                                                 *)
(***************************************************************************)
EXTENDS Naturals, Sequences, FiniteSets

CONSTANTS
    People,             \* Telegram ids
    MaxUpdate,          \* how many updates Telegram has to deliver
    Kind,               \* what an update is: see Kinds
    Sender,             \* who sent it
    Code,               \* the Telegram id in the link of a start, or NoOne
    Text,               \* the customers an import lists, each once
    Free,               \* the lock of a customer nobody holds
    MaxIds, MaxFailures     \* bounds of the exploration

NoId == 0
NoOne == 0
Ids == 1..MaxIds
Updates == 1..MaxUpdate
Kinds == {"start", "menu", "stars", "import"}

ASSUME PeopleAssumption == People \subseteq Nat \ {NoOne}
ASSUME UpdatesAssumption ==
    /\ Kind \in [Updates -> Kinds] /\ Sender \in [Updates -> People]
    /\ Code \in [Updates -> People \cup {NoOne}]
    /\ Text \in [Updates -> Seq(People)]
    /\ \A u \in Updates : Kind[u] = "import" => Text[u] # <<>>
    /\ Free \notin Updates
ASSUME BoundsAssumption ==
    MaxUpdate \in Nat /\ MaxIds \in Nat /\ MaxFailures \in Nat

VARIABLES
    users,      \* the committed rows: id, telegram_id, referred_by_id
    drawn,      \* the last id of the sequence
    lock,       \* the transaction with an uncommitted row of the customer
    sess,       \* the handler of each update
    got, offset,    \* the last update delivered, the last acknowledged
    announced,  \* how often the group was told of the row with this id
    credits,    \* how often a Stars payment was credited, committed
    crashes, failures      \* so far (bounded)

vars == <<users, drawn, lock, sess, got, offset, announced, credits, crashes, failures>>

-----------------------------------------------------------------------------
Rows == [id : Ids, who : People, ref : Ids \cup {NoId}]
Working == {"select", "refer", "insert", "flush", "credit", "answer"}
Session ==
    [at : Working \cup {"sent", "done", "failed", "lost"},
     who : People \cup {NoOne},      \* the customer dealt with
     rest : Seq(People),             \* those the import has still to read
     ref : Ids \cup {NoId},
     pend : {"none", "insert", "update"},   \* what the next flush writes
     new : SUBSET Rows,              \* inserted and not yet committed
     born : BOOLEAN,                 \* _was_created
     credit : BOOLEAN,
     told : BOOLEAN]                 \* the admin has the result of the import

Fresh == [at |-> "sent", who |-> NoOne, rest |-> <<>>, ref |-> NoId, pend |-> "none",
          new |-> {}, born |-> FALSE, credit |-> FALSE, told |-> FALSE]

Become(u, S) == sess' = [sess EXCEPT ![u] = S]
CanLock(u, p) == lock[p] \in {Free, u}
Lock(u, p) == CanLock(u, p) /\ lock' = [lock EXCEPT ![p] = u]
Unlock(u) == lock' = [p \in People |-> IF lock[p] = u THEN Free ELSE lock[p]]

(* The customer has a row that is committed, or this transaction's own: a  *)
(* SELECT finds it, and an INSERT meets the unique key on telegram_id (the *)
(* mutant: there is none).                                                 *)
NoKey(S) == FALSE
Known(S) == \E r \in users \cup S.new : r.who = S.who

Started(u) ==
    [Fresh EXCEPT !.at = "select",
        !.who = IF Kind[u] = "import" THEN Head(Text[u]) ELSE Sender[u],
        !.rest = IF Kind[u] = "import" THEN Tail(Text[u]) ELSE <<>>]

(* The ends of a handler: commit, and rollback after an error.  The        *)
(* mutant: a payment is handled again when the answer after its commit     *)
(* failed.                                                                 *)
Ended(u, how) == [Fresh EXCEPT !.at = how, !.told = sess[u].told]
RunAgain(u) == IF Kind[u] = "stars" THEN Started(u) ELSE Ended(u, "done")
Closed(u) == Ended(u, "done")
Commit(u, S) ==
    /\ users' = users \cup S.new
    /\ credits' = IF S.credit THEN [credits EXCEPT ![u] = @ + 1] ELSE credits
    /\ Become(u, Closed(u)) /\ Unlock(u)
Rollback(u) ==
    Become(u, Ended(u, "failed")) /\ Unlock(u) /\ UNCHANGED <<users, credits>>
Continue(u, S) == Become(u, S) /\ UNCHANGED <<users, credits>>

-----------------------------------------------------------------------------
(* Telegram *)

(* A poll acknowledges what earlier ones have returned and returns more.   *)
Poll ==
    /\ \E last \in got..MaxUpdate :
        /\ <<last, got>> # <<got, offset>>
        /\ sess' = [u \in Updates |-> IF u \in got + 1..last THEN Started(u) ELSE sess[u]]
        /\ got' = last /\ offset' = got
    /\ UNCHANGED <<users, drawn, lock, announced, credits, crashes, failures>>

(* The process dies: every transaction is rolled back.                     *)
Crash ==
    /\ crashes + failures < MaxFailures /\ crashes' = crashes + 1
    /\ sess' = [u \in Updates |->
                  IF u > offset THEN Fresh
                  ELSE IF sess[u].at \in Working THEN Ended(u, "lost") ELSE sess[u]]
    /\ got' = offset
    /\ lock' = [p \in People |-> Free]
    /\ UNCHANGED <<users, drawn, offset, announced, credits, failures>>

-----------------------------------------------------------------------------
(* get_or_create, and the loop of import_users_from_text *)

(* Where a handler goes when nothing is pending.                           *)
Onward(u, S) ==
    CASE Kind[u] = "stars" -> [S EXCEPT !.at = "credit"]
      [] Kind[u] = "import" /\ S.rest # <<>> ->
            [S EXCEPT !.at = "select", !.who = Head(S.rest), !.rest = Tail(S.rest)]
      [] OTHER -> [S EXCEPT !.at = "answer"]

(* The next query flushes what is pending; the last row of an import is    *)
(* flushed by the commit, after the answer.                                *)
Pending(u, S, what) ==
    [S EXCEPT !.at = IF Kind[u] = "import" /\ S.rest = <<>> THEN "answer" ELSE "flush",
              !.pend = what]

(* A customer who is there: the names are assigned, which writes them if   *)
(* they differ; the credit of a payment flushes them too.  The mutants: he *)
(* counts as created; the INSERT is tried again.                           *)
CreatedToo(u, S) == {[Onward(u, S) EXCEPT !.born = TRUE]}
TryAgain(u, S) == {[S EXCEPT !.at = "insert"]}
Existing(u, S) ==
    {Onward(u, S)} \cup
        IF Kind[u] = "stars" THEN {} ELSE {Pending(u, S, "update")}

(* SELECT by telegram_id.                                                  *)
Select(u) ==
    LET S == sess[u] IN
    /\ S.at = "select"
    /\ \E T \in
          CASE Known(S) -> Existing(u, S)
            [] ~Known(S) /\ Kind[u] = "import" -> {Pending(u, S, "insert")}
            [] OTHER -> {[S EXCEPT !.at = IF Kind[u] = "start" /\ Code[u] # NoOne
                                          THEN "refer" ELSE "insert"]} :
          Continue(u, T)
    /\ UNCHANGED <<drawn, lock, got, offset, announced, crashes, failures>>

Refer(u) ==
    LET S == sess[u]
        found == {r.id : r \in {r \in users : r.who = Code[u]}} IN
    /\ S.at = "refer"
    /\ \E ref \in IF found = {} THEN {NoId} ELSE found :
          Continue(u, [S EXCEPT !.at = "insert", !.ref = ref])
    /\ UNCHANGED <<drawn, lock, got, offset, announced, crashes, failures>>

(* The id of a new row comes from a sequence (the mutants: the last value  *)
(* of it, the id of Telegram).  Ids drawn by failed INSERTs are left out.  *)
LastId(p) == drawn
TelegramId(p) == p
NewId(p) == drawn + 1
NewRow(S) == [id |-> NewId(S.who), who |-> S.who, ref |-> S.ref]
Added(S) == [S EXCEPT !.new = S.new \cup {NewRow(S)}, !.pend = "none"]
Draw == drawn < MaxIds /\ drawn' = drawn + 1

(* INSERT in a savepoint; on a conflict the row is there and is read.      *)
Insert(u) ==
    LET S == sess[u] IN
    /\ S.at = "insert"
    /\ \/ /\ ~Known(S)
          /\ Draw /\ Lock(u, S.who)
          /\ Continue(u, Onward(u, [Added(S) EXCEPT !.born = TRUE]))
       \/ /\ Known(S) /\ CanLock(u, S.who)
          /\ \E T \in Existing(u, S) : Continue(u, T)
          /\ UNCHANGED <<drawn, lock>>
    /\ UNCHANGED <<got, offset, announced, crashes, failures>>

(* An import whose INSERT meets the key is rolled back as a whole (the     *)
(* mutant goes on with the next row).                                      *)
GoOn(u) ==
    LET T == [sess[u] EXCEPT !.new = {}, !.pend = "none"] IN
    IF T.told THEN Commit(u, T)
    ELSE Become(u, Onward(u, T)) /\ Unlock(u) /\ UNCHANGED <<users, credits>>
Refused(u) == Rollback(u)

Flush(u) ==
    LET S == sess[u]
        wrote(T) == IF S.told THEN Commit(u, T)
                    ELSE Lock(u, S.who) /\ Continue(u, Onward(u, T)) IN
    /\ S.at = "flush" /\ CanLock(u, S.who)
    /\ \/ /\ S.pend = "update"
          /\ wrote([S EXCEPT !.pend = "none"]) /\ UNCHANGED drawn
       \/ /\ S.pend = "insert" /\ ~Known(S)
          /\ Draw /\ wrote(Added(S))
       \/ /\ S.pend = "insert" /\ Known(S)
          /\ Refused(u) /\ UNCHANGED drawn
    /\ UNCHANGED <<got, offset, announced, crashes, failures>>

-----------------------------------------------------------------------------
(* The ends: start, wallet, stars_paid, import_users_from_text *)

(* stars_paid updates the balance and commits before it answers (the       *)
(* mutant answers first).                                                  *)
AnswerFirst(u, S) == Lock(u, S.who) /\ Continue(u, [S EXCEPT !.at = "answer"])
CommitFirst(u, S) == Commit(u, S)
Credit(u) ==
    LET S == sess[u] IN
    /\ S.at = "credit" /\ CanLock(u, S.who)
    /\ CommitFirst(u, [S EXCEPT !.credit = TRUE])
    /\ UNCHANGED <<drawn, got, offset, announced, crashes, failures>>

(* start tells the group of a customer it created, whatever comes of that. *)
(* Then the answer, and the commit unless it failed.                       *)
Answer(u) ==
    LET S == sess[u]
        told(i) == S.born /\ Kind[u] = "start" /\
                   \E r \in S.new \cup users : r.id = i /\ r.who = S.who IN
    /\ S.at = "answer"
    /\ announced' = [i \in Ids |-> IF told(i) THEN announced[i] + 1 ELSE announced[i]]
    /\ \/ /\ S.pend = "none" /\ Commit(u, S)
          /\ UNCHANGED failures
       \/ /\ S.pend # "none" /\ Continue(u, [S EXCEPT !.at = "flush", !.told = TRUE])
          /\ UNCHANGED <<lock, failures>>
       \/ crashes + failures < MaxFailures /\ failures' = failures + 1 /\ Rollback(u)
    /\ UNCHANGED <<drawn, got, offset, crashes>>

(* PostgreSQL ends one of the transactions that wait for each other.       *)
Waiting(u) ==
    sess[u].at \in {"insert", "flush", "credit"} /\ ~CanLock(u, sess[u].who)
Victim(u) ==
    /\ \E circle \in SUBSET {v \in Updates : Waiting(v)} :
        u \in circle /\ {lock[sess[v].who] : v \in circle} = circle
    /\ Rollback(u)
    /\ UNCHANGED <<drawn, got, offset, announced, crashes, failures>>

-----------------------------------------------------------------------------
Init ==
    /\ users = {} /\ drawn = 0
    /\ lock = [p \in People |-> Free]
    /\ sess = [u \in Updates |-> Fresh]
    /\ got = 0 /\ offset = 0
    /\ announced = [i \in Ids |-> 0] /\ credits = [u \in Updates |-> 0]
    /\ crashes = 0 /\ failures = 0

Step(u) ==
    Select(u) \/ Refer(u) \/ Insert(u) \/ Flush(u) \/ Credit(u) \/ Answer(u)

Next == Poll \/ Crash \/ \E u \in Updates : Step(u) \/ Victim(u)

Spec == Init /\ [][Next]_vars

(* start_polling goes on, asyncio runs every task on, and PostgreSQL looks *)
(* for deadlocks.                                                          *)
Fairness ==
    /\ WF_vars(Poll)
    /\ \A u \in Updates : WF_vars(Step(u))
    /\ WF_vars(\E u \in Updates : Victim(u))
FairSpec == Spec /\ Fairness

-----------------------------------------------------------------------------
(* Properties *)

(* The table, the locks and the handlers keep their shape: a handler works *)
(* on a known customer.                                                    *)
TypeOK ==
    /\ users \subseteq Rows /\ drawn \in 0..MaxIds
    /\ lock \in [People -> Updates \cup {Free}]
    /\ sess \in [Updates -> Session]
    /\ \A u \in Updates : sess[u].at \in Working => sess[u].who \in People
    /\ got \in 0..MaxUpdate /\ offset \in 0..got
    /\ announced \in [Ids -> Nat] /\ credits \in [Updates -> Nat]
    /\ crashes \in Nat /\ failures \in Nat

(* Who invited a customer was there before him: nobody invites himself,    *)
(* invitations form no circle, however the handlers of people who invite   *)
(* each other overlap.  The cashback relies on it: it locks an inviter's   *)
(* wallet while it holds that of the customer (wallet.py).                 *)
InviterIsOlder ==
    \A r \in users : r.ref # NoId =>
        r.ref < r.id /\ \E q \in users : q.id = r.ref

(* A customer has one row, and with it one wallet, although first messages *)
(* and imports all look first and insert later.                            *)
OneRowEach == \A r, q \in users : r.who = q.who \/ r.id = q.id => r = q

(* An import that has ended well has registered everybody on its list,     *)
(* whoever registered himself meanwhile.                                   *)
ImportIsWhole ==
    \A u \in Updates : Kind[u] = "import" /\ sess[u].at = "done" =>
        \A i \in 1..Len(Text[u]) : \E r \in users : r.who = Text[u][i]

(* The group is told of a new customer once, by the handler that created   *)
(* his row, although several handlers of his overlap.                      *)
AnnouncedOnce == \A i \in Ids : announced[i] <= 1

(* A payment with Stars has no request row that would stop a second        *)
(* credit: it is credited once for every run of the process at most.       *)
CreditedOncePerRun == \A u \in Updates : credits[u] <= 1 + crashes

(* No failure of an answer and no overlap with an import loses a payment   *)
(* with Stars: its handler ends well, or the process dies.                 *)
StarsSurvive ==
    \A u \in Updates : Kind[u] = "stars" =>
        /\ sess[u].at # "failed"
        /\ sess[u].at = "done" => credits[u] > 0

(* Every update is handled in the end: waits for rows and keys are no      *)
(* lasting deadlock, and no collision is tried for ever.                   *)
AllAreHandled ==
    <>[](\A u \in Updates : sess[u].at \in {"done", "failed", "lost"})

(* An import whose result the admin has been told is saved.  (It is not:   *)
(* its last rows are flushed after the answer and may meet the key.)       *)
ToldIsSaved ==
    \A u \in Updates : sess[u].told => sess[u].at # "failed"

(* A payment with Stars is credited once.  (The process may die after the  *)
(* commit and before the poll that acknowledges the update.)               *)
StarsOnce == \A u \in Updates : credits[u] <= 1
=============================================================================
