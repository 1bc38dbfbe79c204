------------------------- MODULE RegistrationProofs -------------------------
(***************************************************************************)
(* Proofs about Registration for any number of people and updates, of any  *)
(* kinds and lists: a customer has one row, who invited him was there      *)
(* before, an import is all or nothing, he is announced once, and a        *)
(* payment with Stars survives everything but the death of the process.    *)
(***************************************************************************)
EXTENDS Registration, TLAPS

-----------------------------------------------------------------------------
(* The inductive invariant *)

(* Ids come from the sequence.                                             *)
RowsAreDrawn ==
    /\ \A r \in users : r.id <= drawn
    /\ \A u \in Updates : \A r \in sess[u].new : r.id <= drawn

(* A row that is not yet committed is locked by its transaction, and       *)
(* nobody else has that customer or that id.                               *)
DraftsAreLocked ==
    \A u \in Updates : \A r \in sess[u].new :
        /\ lock[r.who] = u
        /\ \A q \in users : q.who # r.who /\ q.id # r.id
        /\ \A v \in Updates : \A q \in sess[v].new : q.id = r.id \/ q.who = r.who => q = r

(* Whoever is named as inviter is committed.                               *)
ReferrersAreThere ==
    \A u \in Updates :
        /\ sess[u].ref # NoId => \E q \in users : q.id = sess[u].ref
        /\ \A r \in sess[u].new : r.ref # NoId =>
              r.ref < r.id /\ \E q \in users : q.id = r.ref

(* A handler that does not run has nothing open, and updates that were not *)
(* delivered have no handler.                                              *)
OnlyRunningWork ==
    /\ \A u \in Updates : sess[u].at \notin Working => sess[u].new = {}
    /\ \A u \in Updates : u > got => sess[u].at = "sent"

Tables ==
    /\ TypeOK /\ RowsAreDrawn /\ DraftsAreLocked /\ ReferrersAreThere
    /\ OnlyRunningWork /\ OneRowEach /\ InviterIsOlder

(* An import has dealt with everybody but those it has still to read and   *)
(* the one it is dealing with.                                             *)
Has(S, rows, p) == \E r \in rows \cup S.new : r.who = p
Listed(S, p) == \E j \in 1..Len(S.rest) : S.rest[j] = p
Covers(u, S, rows) ==
    \A i \in 1..Len(Text[u]) :
        Listed(S, Text[u][i]) \/ Text[u][i] = S.who \/ Has(S, rows, Text[u][i])
ImportGoesOn(u, S, rows) ==
    /\ S.at \in {"sent", "select", "flush", "answer", "done", "failed", "lost"}
    /\ S.at \in Working => Covers(u, S, rows)
    /\ S.at \in {"flush", "answer"} /\ S.pend # "insert" => Has(S, rows, S.who)
    /\ S.at = "answer" \/ (S.told /\ S.at \in Working) => S.rest = <<>>
ImportsGoOn ==
    \A u \in Updates : Kind[u] = "import" => ImportGoesOn(u, sess[u], users)

(* A payment holds the row of its customer only while it can go on.        *)
StarsHoldTheirs ==
    \A u \in Updates : Kind[u] = "stars" =>
        /\ sess[u].at \in {"sent", "select", "insert", "credit", "done", "lost"}
        /\ \A p \in People : lock[p] = u => sess[u].at = "credit" /\ p = sess[u].who

(* A new row is announced by the handler that has it, when it answers.     *)
Born(u, S) ==
    /\ Kind[u] # "import" /\ S.at \in {"credit", "answer"} /\ S.pend = "none"
    /\ \E r \in S.new : r.who = S.who
NewAreUnannounced ==
    /\ \A i \in Ids : i > drawn => announced[i] = 0
    /\ \A u \in Updates :
        /\ \A r \in sess[u].new : announced[r.id] = 0
        /\ sess[u].born => Born(u, sess[u])

CreditsAreCounted ==
    \A u \in Updates : sess[u].at # "done" => credits[u] <= crashes

Inductive ==
    /\ Tables /\ ImportsGoOn /\ StarsHoldTheirs /\ NewAreUnannounced
    /\ CreditsAreCounted
    /\ ImportIsWhole /\ AnnouncedOnce /\ CreditedOncePerRun /\ StarsSurvive

-----------------------------------------------------------------------------
(* What one step of a handler does to the table *)

(* The rows it inserts: none, or one with the next id.                     *)
Adds(u, A) ==
    \/ A = {} /\ drawn' = drawn
    \/ /\ A = {NewRow(sess[u])} /\ drawn < MaxIds /\ drawn' = drawn + 1
       /\ ~Known(sess[u]) /\ CanLock(u, sess[u].who)
(* It goes on, perhaps with one more lock.                                 *)
Keeps(u, A) ==
    /\ sess' = [sess EXCEPT ![u] = sess'[u]] /\ sess'[u] \in Session
    /\ sess'[u].at \in Working /\ sess'[u].who \in People
    /\ sess'[u].new = sess[u].new \cup A
    /\ sess'[u].ref \in {sess[u].ref} \cup {q.id : q \in users} \cup {NoId}
    /\ \/ lock' = lock /\ A = {}
       \/ Lock(u, sess[u].who)
    /\ users' = users
(* Or it ends.                                                             *)
Commits(u, A) ==
    /\ sess' = [sess EXCEPT ![u] = Ended(u, "done")] /\ Unlock(u)
    /\ users' = users \cup sess[u].new \cup A
RollsBack(u) ==
    /\ sess' = [sess EXCEPT ![u] = Ended(u, "failed")] /\ Unlock(u)
    /\ users' = users
Effect(u) ==
    /\ sess[u].at \in Working
    /\ UNCHANGED <<got, offset, crashes>>
    /\ \E A \in SUBSET Rows : Adds(u, A) /\ (Keeps(u, A) \/ Commits(u, A) \/ (A = {} /\ RollsBack(u)))

(* What is next keeps the type of a handler and what it has inserted.      *)
LEMMA OnwardIs ==
    ASSUME NEW u \in Updates, NEW S \in Session, S.at \in Working, S.who \in People
    PROVE  /\ Onward(u, S) \in Session /\ Onward(u, S).at \in Working
           /\ Onward(u, S).who \in People /\ Onward(u, S).new = S.new
           /\ Onward(u, S).ref = S.ref /\ Onward(u, S).pend = S.pend
           /\ Onward(u, S).born = S.born /\ Onward(u, S).told = S.told
           /\ Onward(u, S).credit = S.credit
           /\ Kind[u] = "stars" => Onward(u, S).at = "credit" /\ Onward(u, S).who = S.who
           /\ Kind[u] # "stars" => Onward(u, S).at \in {"select", "answer"}
           /\ Kind[u] # "import" => Onward(u, S).who = S.who
<1>1. CASE Kind[u] = "stars"
  BY <1>1 DEF Onward, Session, Working
<1>2. CASE Kind[u] = "import" /\ S.rest # <<>>
  <2>1. Head(S.rest) \in People /\ Tail(S.rest) \in Seq(People)
    BY <1>2 DEF Session
  <2>. QED  BY <1>2, <2>1 DEF Onward, Session, Working
<1>3. CASE Kind[u] # "stars" /\ ~(Kind[u] = "import" /\ S.rest # <<>>)
  BY <1>3 DEF Onward, Session, Working
<1>. QED  BY <1>1, <1>2, <1>3

LEMMA PendingIs ==
    ASSUME NEW u \in Updates, NEW S \in Session, NEW what \in {"insert", "update"}
    PROVE  /\ Pending(u, S, what) \in Session
           /\ Pending(u, S, what).at \in {"flush", "answer"}
           /\ Pending(u, S, what).at = "answer" <=> Kind[u] = "import" /\ S.rest = <<>>
           /\ Pending(u, S, what).who = S.who /\ Pending(u, S, what).new = S.new
           /\ Pending(u, S, what).ref = S.ref /\ Pending(u, S, what).pend = what
           /\ Pending(u, S, what).born = S.born /\ Pending(u, S, what).told = S.told
           /\ Pending(u, S, what).rest = S.rest /\ Pending(u, S, what).credit = S.credit
BY DEF Pending, Session, Working

LEMMA ExistingIs ==
    ASSUME NEW u \in Updates, NEW S \in Session, S.at \in Working, S.who \in People,
           NEW T \in Existing(u, S)
    PROVE  /\ T \in Session /\ T.at \in Working /\ T.who \in People
           /\ T.new = S.new /\ T.ref = S.ref
           /\ T = Onward(u, S) \/ (Kind[u] # "stars" /\ T = Pending(u, S, "update"))
<1>1. T = Onward(u, S) \/ (Kind[u] # "stars" /\ T = Pending(u, S, "update"))
  BY DEF Existing
<1>2. CASE T = Onward(u, S)
  BY <1>2, OnwardIs
<1>3. CASE Kind[u] # "stars" /\ T = Pending(u, S, "update")
  <2>1. T \in Session /\ T.at \in {"flush", "answer"} /\ T.who = S.who
        /\ T.new = S.new /\ T.ref = S.ref
    BY <1>3, PendingIs
  <2>. QED  BY <1>3, <2>1 DEF Working
<1>. QED  BY <1>1, <1>2, <1>3

LEMMA AddedIs ==
    ASSUME TypeOK, NEW S \in Session, S.who \in People, drawn < MaxIds
    PROVE  /\ NewRow(S) \in Rows
           /\ NewRow(S).id = drawn + 1 /\ NewRow(S).who = S.who /\ NewRow(S).ref = S.ref
           /\ Added(S) \in Session /\ Added(S).new = S.new \cup {NewRow(S)}
           /\ Added(S).pend = "none" /\ Added(S).at = S.at /\ Added(S).who = S.who
           /\ Added(S).ref = S.ref /\ Added(S).rest = S.rest /\ Added(S).born = S.born
           /\ Added(S).told = S.told
<1>1. NewRow(S) \in Rows /\ NewRow(S).id = drawn + 1
      /\ NewRow(S).who = S.who /\ NewRow(S).ref = S.ref
  BY BoundsAssumption DEF TypeOK, NewRow, NewId, Rows, Ids, Session
<1>. QED  BY <1>1 DEF Added, Session

LEMMA EndedIs ==
    ASSUME TypeOK, NEW u \in Updates, NEW how \in {"done", "failed", "lost"}
    PROVE  /\ Ended(u, how) \in Session /\ Ended(u, how).at = how
           /\ Ended(u, how).new = {} /\ Ended(u, how).ref = NoId
           /\ Ended(u, how).born = FALSE /\ Ended(u, how).told = sess[u].told
<1>1. sess[u].told \in BOOLEAN
  BY DEF TypeOK, Session
<1>2. <<>> \in Seq(People) /\ NoId \in Ids \cup {NoId}
  OBVIOUS
<1>3. Fresh \in Session
  BY <1>2 DEF Fresh, Session, NoOne
<1>. QED  BY <1>1, <1>3 DEF Ended, Fresh, Session

(* The ways a handler can go on are effects.                               *)
LEMMA KeepsOn ==
    ASSUME TypeOK, NEW u \in Updates, NEW T \in Session, T.at \in Working, T.who \in People,
           NEW A, T.new = sess[u].new \cup A,
           T.ref \in {sess[u].ref} \cup {q.id : q \in users} \cup {NoId},
           Continue(u, T), (lock' = lock /\ A = {}) \/ Lock(u, sess[u].who)
    PROVE  Keeps(u, A) /\ sess'[u] = T
<1>1. sess' = [sess EXCEPT ![u] = T] /\ sess'[u] = T
  BY DEF Continue, Become, TypeOK
<1>. QED  BY <1>1 DEF Keeps, Continue

LEMMA SelectEffect ==
    ASSUME TypeOK, NEW u \in Updates, Select(u)
    PROVE  Effect(u)
<1>. DEFINE S == sess[u]
<1>0. S \in Session /\ S.at \in Working /\ S.who \in People
  BY DEF TypeOK, Select, Working
<1>1. PICK T : /\ Continue(u, T)
               /\ \/ Known(S) /\ T \in Existing(u, S)
                  \/ ~Known(S) /\ Kind[u] = "import" /\ T = Pending(u, S, "insert")
                  \/ ~Known(S) /\ Kind[u] # "import"
                     /\ T = [S EXCEPT !.at = IF Kind[u] = "start" /\ Code[u] # NoOne
                                             THEN "refer" ELSE "insert"]
  BY DEF Select
<1>2. /\ T \in Session /\ T.at \in Working /\ T.who \in People
      /\ T.new = S.new /\ T.ref = S.ref
  <2>1. CASE T \in Existing(u, S)
    BY <2>1, <1>0, ExistingIs
  <2>2. CASE T = Pending(u, S, "insert")
    <3>1. T \in Session /\ T.at \in {"flush", "answer"} /\ T.who = S.who
          /\ T.new = S.new /\ T.ref = S.ref
      BY <1>0, <2>2, PendingIs
    <3>. QED  BY <1>0, <3>1 DEF Working
  <2>3. CASE T = [S EXCEPT !.at = IF Kind[u] = "start" /\ Code[u] # NoOne
                                  THEN "refer" ELSE "insert"]
    BY <1>0, <2>3 DEF Session, Working
  <2>. QED  BY <1>1, <2>1, <2>2, <2>3
<1>3. Keeps(u, {})
  <2>1. lock' = lock
    BY DEF Select
  <2>. QED  BY <1>1, <1>2, <2>1, KeepsOn
<1>4. Adds(u, {}) /\ UNCHANGED <<got, offset, crashes>>
  BY DEF Adds, Select
<1>. QED  BY <1>0, <1>3, <1>4 DEF Effect

LEMMA ReferEffect ==
    ASSUME TypeOK, NEW u \in Updates, Refer(u)
    PROVE  Effect(u)
<1>. DEFINE S == sess[u]
<1>0. S \in Session /\ S.at \in Working /\ S.who \in People
  BY DEF TypeOK, Refer, Working
<1>1. PICK ref : /\ ref \in {q.id : q \in users} \cup {NoId}
                 /\ Continue(u, [S EXCEPT !.at = "insert", !.ref = ref])
  BY DEF Refer
<1>. DEFINE T == [S EXCEPT !.at = "insert", !.ref = ref]
<1>2. /\ T \in Session /\ T.at \in Working /\ T.who \in People
      /\ T.new = S.new /\ T.ref = ref
  <2>1. ref \in Ids \cup {NoId}
    BY <1>1 DEF TypeOK, Rows
  <2>. QED  BY <1>0, <2>1 DEF Session, Working
<1>3. Keeps(u, {})
  <2>1. lock' = lock
    BY DEF Refer
  <2>. HIDE DEF T
  <2>2. Continue(u, T)
    BY <1>1 DEF T
  <2>. QED  BY <1>1, <1>2, <2>1, <2>2, KeepsOn
<1>4. Adds(u, {}) /\ UNCHANGED <<got, offset, crashes>>
  BY DEF Adds, Refer
<1>. QED  BY <1>0, <1>3, <1>4 DEF Effect

LEMMA InsertEffect ==
    ASSUME TypeOK, NEW u \in Updates, Insert(u)
    PROVE  Effect(u)
<1>. DEFINE S == sess[u]
<1>0. S \in Session /\ S.at \in Working /\ S.who \in People
  BY DEF TypeOK, Insert, Working
<1>1. CASE ~Known(S) /\ Draw /\ Lock(u, S.who)
            /\ Continue(u, Onward(u, [Added(S) EXCEPT !.born = TRUE]))
  <2>. DEFINE R == [Added(S) EXCEPT !.born = TRUE]
  <2>1. drawn < MaxIds /\ drawn' = drawn + 1
    BY <1>1 DEF Draw
  <2>2. /\ R \in Session /\ R.at \in Working /\ R.who \in People
        /\ R.new = S.new \cup {NewRow(S)} /\ R.ref = S.ref
    <3>1. /\ Added(S) \in Session /\ Added(S).new = S.new \cup {NewRow(S)}
          /\ Added(S).at = S.at /\ Added(S).who = S.who /\ Added(S).ref = S.ref
      BY <1>0, <2>1, AddedIs
    <3>. QED  BY <1>0, <3>1 DEF Session
  <2>3. /\ Onward(u, R) \in Session /\ Onward(u, R).at \in Working
        /\ Onward(u, R).who \in People /\ Onward(u, R).new = S.new \cup {NewRow(S)}
        /\ Onward(u, R).ref = S.ref
    <3>. HIDE DEF R
    <3>. QED  BY <2>2, OnwardIs
  <2>4. Keeps(u, {NewRow(S)})
    BY <1>1, <2>3, KeepsOn
  <2>5. Adds(u, {NewRow(S)})
    BY <1>1, <2>1 DEF Adds, Lock
  <2>6. {NewRow(S)} \in SUBSET Rows
    BY <1>0, <2>1, AddedIs
  <2>. QED  BY <1>0, <2>4, <2>5, <2>6 DEF Effect, Insert
<1>2. CASE Known(S) /\ \E T \in Existing(u, S) : Continue(u, T)
            /\ UNCHANGED <<drawn, lock>>
  <2>1. PICK T \in Existing(u, S) : Continue(u, T)
    BY <1>2
  <2>2. /\ T \in Session /\ T.at \in Working /\ T.who \in People
        /\ T.new = S.new /\ T.ref = S.ref
    BY <1>0, ExistingIs
  <2>3. lock' = lock
    BY <1>2
  <2>4. Keeps(u, {})
    BY <2>1, <2>2, <2>3, KeepsOn
  <2>5. Adds(u, {})
    BY <1>2 DEF Adds
  <2>. QED  BY <1>0, <2>4, <2>5 DEF Effect, Insert
<1>. QED  BY <1>1, <1>2 DEF Insert

LEMMA EndsAreEffects ==
    ASSUME TypeOK, NEW u \in Updates, NEW A
    PROVE  /\ \A T : Commit(u, T) /\ T.new = sess[u].new \cup A => Commits(u, A)
           /\ Rollback(u) => RollsBack(u)
BY DEF Commit, Commits, Closed, Become, Rollback, RollsBack

LEMMA FlushEffect ==
    ASSUME TypeOK, NEW u \in Updates, Flush(u)
    PROVE  Effect(u)
<1>. DEFINE S == sess[u]
<1>0. S \in Session /\ S.at \in Working /\ S.who \in People
  BY DEF TypeOK, Flush, Working
<1>1. ASSUME NEW A, NEW T \in Session, T.at \in Working, T.who \in People,
             T.new = S.new \cup A, T.ref = S.ref,
             IF S.told THEN Commit(u, T) ELSE Lock(u, S.who) /\ Continue(u, Onward(u, T))
      PROVE  Keeps(u, A) \/ Commits(u, A)
  <2>1. CASE S.told
    BY <1>1, <2>1, EndsAreEffects
  <2>2. CASE ~S.told
    <3>1. /\ Onward(u, T) \in Session /\ Onward(u, T).at \in Working
          /\ Onward(u, T).who \in People /\ Onward(u, T).new = T.new
          /\ Onward(u, T).ref = T.ref
      BY <1>1, OnwardIs
    <3>. QED  BY <1>1, <2>2, <3>1, KeepsOn
  <2>. QED  BY <2>1, <2>2
<1>2. CASE S.pend = "update" /\ UNCHANGED drawn
  <2>. DEFINE T == [S EXCEPT !.pend = "none"]
  <2>1. /\ T \in Session /\ T.at \in Working /\ T.who \in People
        /\ T.new = S.new \cup {} /\ T.ref = S.ref
    BY <1>0 DEF Session
  <2>2. IF S.told THEN Commit(u, T) ELSE Lock(u, S.who) /\ Continue(u, Onward(u, T))
    BY <1>2 DEF Flush
  <2>. HIDE DEF T
  <2>3. Keeps(u, {}) \/ Commits(u, {})
    BY <1>1, <2>1, <2>2
  <2>4. Adds(u, {})
    BY <1>2 DEF Adds
  <2>. QED  BY <1>0, <2>3, <2>4 DEF Effect, Flush
<1>3. CASE S.pend = "insert" /\ ~Known(S) /\ Draw
  <2>. DEFINE T == Added(S)
  <2>1. drawn < MaxIds /\ drawn' = drawn + 1
    BY <1>3 DEF Draw
  <2>2. /\ T \in Session /\ T.at \in Working /\ T.who \in People
        /\ T.new = S.new \cup {NewRow(S)} /\ T.ref = S.ref
        /\ NewRow(S) \in Rows
    BY <1>0, <2>1, AddedIs
  <2>3. IF S.told THEN Commit(u, T) ELSE Lock(u, S.who) /\ Continue(u, Onward(u, T))
    BY <1>3 DEF Flush
  <2>4. Keeps(u, {NewRow(S)}) \/ Commits(u, {NewRow(S)})
    BY <1>1, <2>2, <2>3
  <2>5. Adds(u, {NewRow(S)})
    BY <1>3, <2>1 DEF Adds, Flush
  <2>. QED  BY <1>0, <2>2, <2>4, <2>5 DEF Effect, Flush
<1>4. CASE S.pend = "insert" /\ Known(S) /\ Refused(u) /\ UNCHANGED drawn
  <2>1. RollsBack(u) /\ Adds(u, {})
    BY <1>4, EndsAreEffects DEF Refused, Adds
  <2>. QED  BY <1>0, <2>1 DEF Effect, Flush
<1>. QED  BY <1>2, <1>3, <1>4 DEF Flush

LEMMA CreditEffect ==
    ASSUME TypeOK, NEW u \in Updates, Credit(u)
    PROVE  Effect(u)
<1>. DEFINE S == sess[u]
            T == [S EXCEPT !.credit = TRUE]
<1>0. S \in Session /\ S.at \in Working
  BY DEF TypeOK, Credit, Working
<1>1. T.new = S.new \cup {}
  BY <1>0 DEF Session
<1>2. Commit(u, T)
  BY DEF Credit, CommitFirst
<1>3. Commits(u, {})
  BY <1>1, <1>2, EndsAreEffects
<1>. QED  BY <1>0, <1>3 DEF Effect, Adds, Credit

LEMMA AnswerEffect ==
    ASSUME TypeOK, NEW u \in Updates, Answer(u)
    PROVE  Effect(u)
<1>. DEFINE S == sess[u]
<1>0. S \in Session /\ S.at \in Working /\ S.who \in People
  BY DEF TypeOK, Answer, Working
<1>1. Adds(u, {}) /\ UNCHANGED <<got, offset, crashes>>
  BY DEF Adds, Answer
<1>2. CASE Commit(u, S)
  BY <1>0, <1>1, <1>2, EndsAreEffects DEF Effect
<1>3. CASE Rollback(u)
  BY <1>0, <1>1, <1>3, EndsAreEffects DEF Effect
<1>4. CASE Continue(u, [S EXCEPT !.at = "flush", !.told = TRUE]) /\ lock' = lock
  <2>. DEFINE T == [S EXCEPT !.at = "flush", !.told = TRUE]
  <2>1. /\ T \in Session /\ T.at \in Working /\ T.who \in People
        /\ T.new = S.new \cup {} /\ T.ref = S.ref
    BY <1>0 DEF Session, Working
  <2>. HIDE DEF T
  <2>2. Continue(u, T) /\ lock' = lock
    BY <1>4 DEF T
  <2>3. Keeps(u, {})
    BY <2>1, <2>2, KeepsOn
  <2>. QED  BY <1>0, <1>1, <2>3 DEF Effect
<1>. QED  BY <1>2, <1>3, <1>4 DEF Answer

LEMMA StepEffect ==
    ASSUME TypeOK, NEW u \in Updates, Step(u) \/ Victim(u)
    PROVE  Effect(u)
<1>1. CASE Victim(u)
  <2>1. sess[u].at \in Working
    BY <1>1 DEF Victim, Waiting, Working
  <2>2. RollsBack(u) /\ Adds(u, {})
    BY <1>1, EndsAreEffects DEF Victim, Adds
  <2>. QED  BY <1>1, <2>1, <2>2 DEF Effect, Victim
<1>. QED
  BY <1>1, SelectEffect, ReferEffect, InsertEffect, FlushEffect, CreditEffect,
     AnswerEffect DEF Step

LEMMA CountersType ==
    ASSUME TypeOK, NEW u \in Updates, Step(u) \/ Victim(u)
    PROVE  announced' \in [Ids -> Nat] /\ credits' \in [Updates -> Nat] /\ failures' \in Nat
<1>1. announced' \in [Ids -> Nat] /\ failures' \in Nat
  <2>1. CASE Answer(u)
    BY <2>1 DEF TypeOK, Answer
  <2>2. CASE ~Answer(u)
    BY <2>2 DEF TypeOK, Step, Victim, Select, Refer, Insert, Flush, Credit
  <2>. QED  BY <2>1, <2>2
<1>2. credits' = credits \/ \E T : Commit(u, T)
  <2>1. CASE Select(u) \/ Refer(u) \/ Insert(u)
    BY <2>1 DEF Select, Refer, Insert, Continue
  <2>2. CASE Flush(u)
    BY <2>2 DEF Flush, Continue, Refused, Rollback
  <2>3. CASE Credit(u)
    BY <2>3 DEF Credit, CommitFirst
  <2>4. CASE Answer(u)
    BY <2>4 DEF Answer, Continue, Rollback
  <2>5. CASE Victim(u)
    BY <2>5 DEF Victim, Rollback
  <2>. QED  BY <2>1, <2>2, <2>3, <2>4, <2>5 DEF Step
<1>. QED  BY <1>1, <1>2 DEF Commit, TypeOK

-----------------------------------------------------------------------------
(* The tables stay consistent *)

(* A step of a handler: what follows of the new rows from its guards.      *)
LEMMA AddedFits ==
    ASSUME Tables, NEW u \in Updates, sess[u].at \in Working,
           NEW A \in SUBSET Rows, Adds(u, A)
    PROVE  /\ drawn' \in drawn..MaxIds
           /\ \A r \in A :
                /\ r.id = drawn + 1 /\ drawn' = drawn + 1 /\ r.who = sess[u].who
                /\ r.ref # NoId => r.ref < r.id /\ \E q \in users : q.id = r.ref
                /\ \A q \in users \cup sess[u].new : q.who # r.who /\ q.id # r.id
                /\ \A q \in A : q = r
                /\ \A v \in Updates : \A q \in sess[v].new :
                      v # u => q.who # r.who /\ q.id # r.id
<1>. USE DEF Tables
<1>1. drawn \in 0..MaxIds /\ MaxIds \in Nat
  BY BoundsAssumption DEF TypeOK
<1>2. CASE A = {} /\ drawn' = drawn
  BY <1>1, <1>2
<1>3. CASE /\ A = {NewRow(sess[u])} /\ drawn < MaxIds /\ drawn' = drawn + 1
           /\ ~Known(sess[u]) /\ CanLock(u, sess[u].who)
  <2>. DEFINE S == sess[u]
              n == NewRow(S)
  <2>1. S \in Session /\ S.who \in People
    BY DEF TypeOK
  <2>2. n.id = drawn + 1 /\ n.who = S.who /\ n.ref = S.ref
    BY <1>3, <2>1, AddedIs
  <2>. HIDE DEF n
  <2>3. users \subseteq Rows /\ S.new \subseteq Rows
    BY <2>1 DEF TypeOK, Session
  <2>4. \A q \in users : q.id \in Nat /\ q.id <= drawn
    BY <2>3 DEF RowsAreDrawn, Rows, Ids
  <2>5. n.ref # NoId => n.ref < n.id /\ \E q \in users : q.id = n.ref
    BY <1>1, <2>2, <2>4 DEF ReferrersAreThere
  <2>6. \A q \in users \cup S.new : q.who # n.who /\ q.id # n.id
    BY <1>1, <1>3, <2>2, <2>3 DEF RowsAreDrawn, Rows, Ids, Known
  <2>7. ASSUME NEW v \in Updates, NEW q \in sess[v].new, v # u
        PROVE  q.who # n.who /\ q.id # n.id
    <3>1. q \in Rows /\ q.id <= drawn
      BY <2>7 DEF TypeOK, Session, RowsAreDrawn
    <3>2. lock[q.who] = v
      BY <2>7 DEF DraftsAreLocked
    <3>3. CanLock(u, n.who) => lock[n.who] \in {Free, u}
      BY DEF CanLock
    <3>4. v # Free
      BY UpdatesAssumption
    <3>. QED  BY <1>1, <1>3, <2>2, <2>7, <3>1, <3>2, <3>3, <3>4 DEF Rows, Ids
  <2>. QED  BY <1>1, <1>3, <2>2, <2>5, <2>6, <2>7 DEF n
<1>. QED  BY <1>2, <1>3 DEF Adds

LEMMA KeepsTables ==
    ASSUME Tables, NEW u \in Updates, sess[u].at \in Working,
           UNCHANGED <<got, offset, crashes>>,
           announced' \in [Ids -> Nat], credits' \in [Updates -> Nat], failures' \in Nat,
           NEW A \in SUBSET Rows, Adds(u, A), Keeps(u, A)
    PROVE  Tables'
<1>. DEFINE T == sess'[u]
<1>0. /\ TypeOK /\ RowsAreDrawn /\ DraftsAreLocked /\ ReferrersAreThere
      /\ OnlyRunningWork /\ OneRowEach /\ InviterIsOlder
  BY DEF Tables
<1>1. /\ sess' = [sess EXCEPT ![u] = T] /\ T \in Session
      /\ T.at \in Working /\ T.who \in People /\ T.new = sess[u].new \cup A
      /\ T.ref \in {sess[u].ref} \cup {q.id : q \in users} \cup {NoId}
      /\ users' = users
  BY DEF Keeps
<1>2. \A v \in Updates : v # u => sess'[v] = sess[v]
  BY <1>0, <1>1 DEF TypeOK
<1>3. /\ drawn' \in drawn..MaxIds /\ drawn \in Nat /\ MaxIds \in Nat
      /\ \A r \in A :
           /\ r.id = drawn + 1 /\ drawn' = drawn + 1 /\ r.who = sess[u].who
           /\ r.ref # NoId => r.ref < r.id /\ \E q \in users : q.id = r.ref
           /\ \A q \in users \cup sess[u].new : q.who # r.who /\ q.id # r.id
           /\ \A q \in A : q = r
           /\ \A v \in Updates : \A q \in sess[v].new :
                 v # u => q.who # r.who /\ q.id # r.id
  BY <1>0, AddedFits, BoundsAssumption DEF TypeOK
<1>4. TypeOK'
  <2>1. drawn' \in 0..MaxIds
    BY <1>0, <1>3 DEF TypeOK
  <2>2. lock' \in [People -> Updates \cup {Free}]
    BY <1>0 DEF Keeps, Lock, TypeOK
  <2>3. sess' \in [Updates -> Session]
    BY <1>0, <1>1 DEF TypeOK
  <2>4. \A v \in Updates : sess'[v].at \in Working => sess'[v].who \in People
    BY <1>0, <1>1, <1>2 DEF TypeOK
  <2>. QED  BY <1>0, <1>1, <2>1, <2>2, <2>3, <2>4 DEF TypeOK
<1>5. RowsAreDrawn'
  <2>1. \A r \in Rows : r.id \in Nat
    BY DEF Rows, Ids
  <2>2. ASSUME NEW v \in Updates, NEW r \in sess'[v].new PROVE r.id <= drawn'
    <3>1. CASE r \in sess[v].new
      <4>1. r \in Rows /\ r.id <= drawn
        BY <3>1, <1>0 DEF TypeOK, Session, RowsAreDrawn
      <4>. QED  BY <4>1, <2>1, <1>3
    <3>2. CASE v = u /\ r \in A
      BY <3>2, <1>3
    <3>. QED  BY <2>2, <3>1, <3>2, <1>1, <1>2
  <2>3. ASSUME NEW r \in users PROVE r.id <= drawn'
    BY <2>1, <1>0, <1>3 DEF TypeOK, RowsAreDrawn
  <2>. QED  BY <1>1, <2>2, <2>3 DEF RowsAreDrawn
<1>6. DraftsAreLocked'
  <2>1. \A p \in People : lock[p] = u => lock'[p] = u
    BY <1>0 DEF Keeps, Lock, TypeOK
  <2>2. \A p \in People, v \in Updates : v # u /\ lock[p] = v => lock'[p] = v
    BY <1>0, UpdatesAssumption DEF Keeps, Lock, CanLock, TypeOK
  <2>3. \A r \in A : lock'[r.who] = u
    BY <1>0, <1>3 DEF Keeps, Lock, TypeOK
  <2>4. \A v \in Updates : sess[v].new \subseteq Rows
    BY <1>0 DEF TypeOK, Session
  <2>5. ASSUME NEW v \in Updates, NEW r \in sess'[v].new
        PROVE  lock'[r.who] = v
    <3>1. CASE v = u /\ r \in A
      BY <3>1, <2>3
    <3>2. CASE v = u /\ r \in sess[u].new
      BY <3>2, <2>1, <2>4, <1>0 DEF DraftsAreLocked, Rows
    <3>3. CASE v # u
      BY <3>3, <2>2, <2>4, <2>5, <1>0, <1>2 DEF DraftsAreLocked, Rows
    <3>. QED  BY <2>5, <3>1, <3>2, <3>3, <1>1
  <2>6. ASSUME NEW v \in Updates, NEW r \in sess'[v].new, NEW q \in users
        PROVE  q.who # r.who /\ q.id # r.id
    <3>1. CASE r \in A /\ v = u
      BY <3>1, <1>3, <2>6
    <3>2. CASE r \in sess[v].new
      BY <3>2, <1>0 DEF DraftsAreLocked
    <3>. QED  BY <2>6, <3>1, <3>2, <1>1, <1>2
  <2>7. ASSUME NEW v \in Updates, NEW r \in sess'[v].new,
               NEW w \in Updates, NEW q \in sess'[w].new, q.id = r.id \/ q.who = r.who
        PROVE  q = r
    <3>1. r \in sess[v].new \/ (v = u /\ r \in A)
      BY <2>7, <1>1, <1>2
    <3>2. q \in sess[w].new \/ (w = u /\ q \in A)
      BY <2>7, <1>1, <1>2
    <3>3. CASE r \in sess[v].new /\ q \in sess[w].new
      BY <3>3, <2>7, <1>0 DEF DraftsAreLocked
    <3>4. CASE v = u /\ r \in A
      BY <3>4, <3>2, <2>7, <1>3
    <3>5. CASE w = u /\ q \in A
      BY <3>5, <3>1, <2>7, <1>3
    <3>. QED  BY <3>1, <3>2, <3>3, <3>4, <3>5
  <2>. QED  BY <1>1, <2>5, <2>6, <2>7 DEF DraftsAreLocked
<1>7. ReferrersAreThere'
  <2>1. ASSUME NEW v \in Updates, sess'[v].ref # NoId
        PROVE  \E q \in users : q.id = sess'[v].ref
    BY <2>1, <1>0, <1>1, <1>2 DEF ReferrersAreThere
  <2>2. ASSUME NEW v \in Updates, NEW r \in sess'[v].new, r.ref # NoId
        PROVE  r.ref < r.id /\ \E q \in users : q.id = r.ref
    <3>1. CASE r \in sess[v].new
      BY <2>2, <3>1, <1>0 DEF ReferrersAreThere
    <3>2. CASE v = u /\ r \in A
      BY <2>2, <3>2, <1>3
    <3>. QED  BY <2>2, <3>1, <3>2, <1>1, <1>2
  <2>. QED  BY <1>1, <2>1, <2>2 DEF ReferrersAreThere
<1>8. OnlyRunningWork'
  <2>1. u <= got
    BY <1>0 DEF OnlyRunningWork, Working, TypeOK, Updates
  <2>2. got' = got
    OBVIOUS
  <2>3. ASSUME NEW v \in Updates
        PROVE  /\ sess'[v].at \notin Working => sess'[v].new = {}
               /\ v > got => sess'[v].at = "sent"
    <3>1. CASE v = u
      <4>1. ~(u > got)
        BY <1>0, <2>1 DEF TypeOK, Updates
      <4>. QED  BY <3>1, <4>1, <1>1
    <3>2. CASE v # u
      BY <3>2, <1>0, <1>2 DEF OnlyRunningWork
    <3>. QED  BY <3>1, <3>2
  <2>. QED  BY <2>2, <2>3 DEF OnlyRunningWork
<1>9. OneRowEach' /\ InviterIsOlder'
  BY <1>0, <1>1 DEF OneRowEach, InviterIsOlder
<1>. QED  BY <1>4, <1>5, <1>6, <1>7, <1>8, <1>9 DEF Tables

(* The two ends: what was inserted is committed, or nothing is.            *)
LEMMA EndsTables ==
    ASSUME Tables, NEW u \in Updates, sess[u].at \in Working,
           UNCHANGED <<got, offset, crashes>>,
           announced' \in [Ids -> Nat], credits' \in [Updates -> Nat], failures' \in Nat,
           NEW A \in SUBSET Rows, Adds(u, A), NEW how \in {"done", "failed"},
           sess' = [sess EXCEPT ![u] = Ended(u, how)], Unlock(u),
           NEW B \in {{}, sess[u].new \cup A}, users' = users \cup B
    PROVE  Tables'
<1>0. /\ TypeOK /\ RowsAreDrawn /\ DraftsAreLocked /\ ReferrersAreThere
      /\ OnlyRunningWork /\ OneRowEach /\ InviterIsOlder
  BY DEF Tables
<1>1. /\ sess'[u] \in Session /\ sess'[u].at = how /\ sess'[u].new = {}
      /\ sess'[u].ref = NoId /\ how \notin Working
  <2>1. sess'[u] = Ended(u, how)
    BY <1>0 DEF TypeOK
  <2>. QED  BY <1>0, <2>1, EndedIs DEF Working
<1>2. \A v \in Updates : v # u => sess'[v] = sess[v]
  BY <1>0 DEF TypeOK
<1>3. /\ drawn' \in drawn..MaxIds /\ drawn \in Nat /\ MaxIds \in Nat
      /\ \A r \in A :
           /\ r.id = drawn + 1 /\ drawn' = drawn + 1 /\ r.who = sess[u].who
           /\ r.ref # NoId => r.ref < r.id /\ \E q \in users : q.id = r.ref
           /\ \A q \in users \cup sess[u].new : q.who # r.who /\ q.id # r.id
           /\ \A q \in A : q = r
           /\ \A v \in Updates : \A q \in sess[v].new :
                 v # u => q.who # r.who /\ q.id # r.id
  BY <1>0, AddedFits, BoundsAssumption DEF TypeOK
<1>4. TypeOK'
  <2>1. drawn' \in 0..MaxIds
    BY <1>0, <1>3 DEF TypeOK
  <2>2. lock' \in [People -> Updates \cup {Free}]
    BY <1>0 DEF Unlock, TypeOK
  <2>3. sess' \in [Updates -> Session]
    BY <1>0, <1>1 DEF TypeOK
  <2>4. \A v \in Updates : sess'[v].at \in Working => sess'[v].who \in People
    BY <1>0, <1>1, <1>2 DEF TypeOK
  <2>5. users' \subseteq Rows
    BY <1>0 DEF TypeOK, Session
  <2>. QED  BY <1>0, <2>1, <2>2, <2>3, <2>4, <2>5 DEF TypeOK
<1>5. RowsAreDrawn'
  <2>1. \A r \in Rows : r.id \in Nat
    BY DEF Rows, Ids
  <2>2. ASSUME NEW v \in Updates, NEW r \in sess[v].new PROVE r.id <= drawn'
    <3>1. r \in Rows /\ r.id <= drawn
      BY <1>0 DEF TypeOK, Session, RowsAreDrawn
    <3>. QED  BY <3>1, <2>1, <1>3
  <2>3. ASSUME NEW r \in users PROVE r.id <= drawn'
    BY <2>1, <1>0, <1>3 DEF TypeOK, RowsAreDrawn
  <2>4. ASSUME NEW r \in A PROVE r.id <= drawn'
    BY <1>3
  <2>. QED  BY <1>1, <1>2, <2>2, <2>3, <2>4 DEF RowsAreDrawn
<1>6. DraftsAreLocked'
  <2>1. ASSUME NEW v \in Updates, NEW r \in sess'[v].new
        PROVE  v # u /\ r \in sess[v].new /\ r \in Rows
    BY <1>0, <1>1, <1>2, <2>1 DEF TypeOK, Session
  <2>2. ASSUME NEW v \in Updates, NEW r \in sess'[v].new
        PROVE  lock'[r.who] = v
    BY <2>1, <1>0 DEF Unlock, TypeOK, DraftsAreLocked, Rows
  <2>3. ASSUME NEW v \in Updates, NEW r \in sess'[v].new, NEW q \in users'
        PROVE  q.who # r.who /\ q.id # r.id
    <3>1. v # u /\ r \in sess[v].new
      BY <2>1
    <3>2. CASE q \in users
      BY <3>1, <3>2, <1>0 DEF DraftsAreLocked
    <3>3. CASE q \in sess[u].new
      <4>1. lock[q.who] = u /\ lock[r.who] = v
        BY <3>1, <3>3, <1>0 DEF DraftsAreLocked
      <4>2. q # r
        BY <3>1, <4>1
      <4>. QED  BY <3>1, <3>3, <4>2, <1>0 DEF DraftsAreLocked
    <3>4. CASE q \in A
      BY <3>1, <3>4, <1>3
    <3>. QED  BY <2>3, <3>2, <3>3, <3>4
  <2>4. ASSUME NEW v \in Updates, NEW r \in sess'[v].new,
               NEW w \in Updates, NEW q \in sess'[w].new, q.id = r.id \/ q.who = r.who
        PROVE  q = r
    <3>1. r \in sess[v].new /\ q \in sess[w].new
      BY <2>1, <2>4
    <3>. QED  BY <3>1, <2>4, <1>0 DEF DraftsAreLocked
  <2>. QED  BY <2>2, <2>3, <2>4 DEF DraftsAreLocked
<1>7. ReferrersAreThere'
  <2>1. ASSUME NEW v \in Updates, sess'[v].ref # NoId
        PROVE  \E q \in users : q.id = sess'[v].ref
    BY <2>1, <1>0, <1>1, <1>2 DEF ReferrersAreThere
  <2>2. ASSUME NEW v \in Updates, NEW r \in sess'[v].new, r.ref # NoId
        PROVE  r.ref < r.id /\ \E q \in users : q.id = r.ref
    <3>1. r \in sess[v].new
      BY <1>1, <1>2, <2>2
    <3>. QED  BY <2>2, <3>1, <1>0 DEF ReferrersAreThere
  <2>. QED  BY <2>1, <2>2 DEF ReferrersAreThere
<1>8. OnlyRunningWork'
  <2>1. u <= got /\ got' = got
    BY <1>0 DEF OnlyRunningWork, Working, TypeOK, Updates
  <2>2. ASSUME NEW v \in Updates
        PROVE  /\ sess'[v].at \notin Working => sess'[v].new = {}
               /\ v > got => sess'[v].at = "sent"
    <3>1. CASE v = u
      <4>1. ~(u > got)
        BY <1>0, <2>1 DEF TypeOK, Updates
      <4>. QED  BY <3>1, <4>1, <1>1
    <3>2. CASE v # u
      BY <3>2, <1>0, <1>2 DEF OnlyRunningWork
    <3>. QED  BY <3>1, <3>2
  <2>. QED  BY <2>1, <2>2 DEF OnlyRunningWork
<1>9. OneRowEach'
  <2>1. ASSUME NEW r \in sess[u].new, NEW q \in users \cup sess[u].new, q.who = r.who \/ q.id = r.id
        PROVE  q = r
    BY <2>1, <1>0 DEF DraftsAreLocked
  <2>2. ASSUME NEW r \in A, NEW q \in users \cup sess[u].new \cup A, q.who = r.who \/ q.id = r.id
        PROVE  q = r
    BY <2>2, <1>3
  <2>. QED  BY <1>0, <2>1, <2>2 DEF OneRowEach
<1>10. InviterIsOlder'
  <2>1. ASSUME NEW r \in users \cup sess[u].new \cup A, r.ref # NoId
        PROVE  r.ref < r.id /\ \E q \in users : q.id = r.ref
    <3>1. CASE r \in users
      BY <2>1, <3>1, <1>0 DEF InviterIsOlder
    <3>2. CASE r \in sess[u].new
      BY <2>1, <3>2, <1>0 DEF ReferrersAreThere
    <3>3. CASE r \in A
      BY <2>1, <3>3, <1>3
    <3>. QED  BY <2>1, <3>1, <3>2, <3>3
  <2>. QED  BY <2>1 DEF InviterIsOlder
<1>. QED  BY <1>4, <1>5, <1>6, <1>7, <1>8, <1>9, <1>10 DEF Tables

LEMMA StepTables ==
    ASSUME Tables, NEW u \in Updates, Step(u) \/ Victim(u)
    PROVE  Tables'
<1>1. announced' \in [Ids -> Nat] /\ credits' \in [Updates -> Nat] /\ failures' \in Nat
  BY CountersType DEF Tables
<1>2. Effect(u)
  BY StepEffect DEF Tables
<1>3. PICK A \in SUBSET Rows : Adds(u, A) /\ (Keeps(u, A) \/ Commits(u, A) \/ (A = {} /\ RollsBack(u)))
  BY <1>2 DEF Effect
<1>4. sess[u].at \in Working /\ UNCHANGED <<got, offset, crashes>>
  BY <1>2 DEF Effect
<1>5. CASE Keeps(u, A)
  BY <1>1, <1>3, <1>4, <1>5, KeepsTables
<1>6. CASE Commits(u, A)
  <2>1. /\ sess' = [sess EXCEPT ![u] = Ended(u, "done")] /\ Unlock(u)
        /\ users' = users \cup (sess[u].new \cup A)
    BY <1>6 DEF Commits
  <2>2. sess[u].new \cup A \in {{}, sess[u].new \cup A}
    OBVIOUS
  <2>. QED  BY <1>1, <1>3, <1>4, <2>1, <2>2, EndsTables
<1>7. CASE A = {} /\ RollsBack(u)
  <2>1. /\ sess' = [sess EXCEPT ![u] = Ended(u, "failed")] /\ Unlock(u)
        /\ users' = users \cup {}
    BY <1>7 DEF RollsBack
  <2>2. {} \in {{}, sess[u].new \cup A}
    OBVIOUS
  <2>. QED  BY <1>1, <1>3, <1>4, <2>1, <2>2, EndsTables
<1>. QED  BY <1>3, <1>5, <1>6, <1>7

-----------------------------------------------------------------------------
(* Deliveries and crashes *)

LEMMA FreshIs ==
    /\ Fresh \in Session /\ Fresh.at = "sent" /\ Fresh.new = {} /\ Fresh.ref = NoId
    /\ Fresh.born = FALSE /\ Fresh.told = FALSE
<1>1. <<>> \in Seq(People) /\ NoId \in Ids \cup {NoId}
  OBVIOUS
<1>. QED  BY <1>1 DEF Fresh, Session, NoOne

LEMMA StartedIs ==
    ASSUME NEW u \in Updates
    PROVE  /\ Started(u) \in Session /\ Started(u).at = "select" /\ Started(u).who \in People
           /\ Started(u).new = {} /\ Started(u).ref = NoId /\ Started(u).born = FALSE
           /\ Started(u).told = FALSE
           /\ Kind[u] = "import" => \A i \in 1..Len(Text[u]) :
                 Listed(Started(u), Text[u][i]) \/ Text[u][i] = Started(u).who
<1>. DEFINE who == IF Kind[u] = "import" THEN Head(Text[u]) ELSE Sender[u]
            rest == IF Kind[u] = "import" THEN Tail(Text[u]) ELSE <<>>
<1>1. Kind[u] = "import" => /\ Text[u] \in Seq(People) /\ Text[u] # <<>>
                            /\ Head(Text[u]) \in People /\ Tail(Text[u]) \in Seq(People)
  BY UpdatesAssumption
<1>2. who \in People /\ rest \in Seq(People)
  BY <1>1, UpdatesAssumption
<1>3. /\ Started(u) \in Session /\ Started(u).at = "select" /\ Started(u).who = who
      /\ Started(u).rest = rest /\ Started(u).new = {} /\ Started(u).ref = NoId
      /\ Started(u).born = FALSE /\ Started(u).told = FALSE
  <2>. HIDE DEF who, rest
  <2>1. Started(u) = [Fresh EXCEPT !.at = "select", !.who = who, !.rest = rest]
    BY DEF Started, who, rest
  <2>. QED  BY <1>2, <2>1, FreshIs DEF Session, Working
<1>4. ASSUME Kind[u] = "import", NEW i \in 1..Len(Text[u])
      PROVE  Listed(Started(u), Text[u][i]) \/ Text[u][i] = Started(u).who
  <2>1. CASE i = 1
    BY <1>1, <1>3, <1>4, <2>1
  <2>2. CASE i # 1
    <3>1. i - 1 \in 1..Len(Tail(Text[u])) /\ Tail(Text[u])[i - 1] = Text[u][i]
      BY <1>1, <1>4, <2>2
    <3>. QED  BY <1>3, <1>4, <3>1 DEF Listed
  <2>. QED  BY <2>1, <2>2
<1>. QED  BY <1>2, <1>3, <1>4

LEMMA PollKeeps ==
    ASSUME Inductive, Poll
    PROVE  Inductive'
<1>0. /\ TypeOK /\ RowsAreDrawn /\ DraftsAreLocked /\ ReferrersAreThere
      /\ OnlyRunningWork /\ OneRowEach /\ InviterIsOlder
      /\ ImportsGoOn /\ StarsHoldTheirs /\ NewAreUnannounced /\ CreditsAreCounted
      /\ ImportIsWhole /\ AnnouncedOnce /\ CreditedOncePerRun /\ StarsSurvive
  BY DEF Inductive, Tables
<1>1. PICK last \in got..MaxUpdate :
        /\ sess' = [u \in Updates |-> IF u \in got + 1..last THEN Started(u) ELSE sess[u]]
        /\ got' = last /\ offset' = got
  BY DEF Poll
<1>2. UNCHANGED <<users, drawn, lock, announced, credits, crashes, failures>>
  BY DEF Poll
<1>3. \A u \in Updates :
        \/ sess'[u] = sess[u]
        \/ /\ sess'[u] = Started(u) /\ sess[u].at = "sent" /\ sess[u].new = {}
  BY <1>0, <1>1 DEF OnlyRunningWork, TypeOK, Updates, Working
<1>4. TypeOK'
  <2>1. sess' \in [Updates -> Session]
    BY <1>0, <1>1, StartedIs DEF TypeOK
  <2>2. \A u \in Updates : sess'[u].at \in Working => sess'[u].who \in People
    BY <1>0, <1>3, StartedIs DEF TypeOK
  <2>3. got' \in 0..MaxUpdate /\ offset' \in 0..got'
    BY <1>0, <1>1, BoundsAssumption DEF TypeOK
  <2>. QED  BY <1>0, <1>2, <2>1, <2>2, <2>3 DEF TypeOK
<1>5. \A u \in Updates : sess'[u].new = sess[u].new /\ (sess'[u].ref # NoId => sess'[u].ref = sess[u].ref)
  BY <1>3, StartedIs
<1>6. Tables'
  <2>1. RowsAreDrawn' /\ DraftsAreLocked'
    BY <1>0, <1>2, <1>5 DEF RowsAreDrawn, DraftsAreLocked
  <2>2. ReferrersAreThere'
    BY <1>0, <1>2, <1>5 DEF ReferrersAreThere
  <2>3. OnlyRunningWork'
    <3>1. \A u \in Updates : sess'[u].at \notin Working => sess'[u].new = {}
      BY <1>0, <1>3, StartedIs DEF OnlyRunningWork
    <3>2. ASSUME NEW u \in Updates, u > got'
          PROVE  sess'[u].at = "sent"
      <4>1. u > got /\ u \notin got + 1..last
        BY <1>0, <1>1, <3>2 DEF TypeOK, Updates
      <4>. QED  BY <1>0, <1>1, <4>1 DEF OnlyRunningWork
    <3>. QED  BY <3>1, <3>2 DEF OnlyRunningWork
  <2>4. OneRowEach' /\ InviterIsOlder'
    BY <1>0, <1>2 DEF OneRowEach, InviterIsOlder
  <2>. QED  BY <1>4, <2>1, <2>2, <2>3, <2>4 DEF Tables
<1>7. ImportsGoOn'
  <2>1. ASSUME NEW u \in Updates, Kind[u] = "import"
        PROVE  ImportGoesOn(u, sess'[u], users)
    <3>1. CASE sess'[u] = sess[u]
      BY <2>1, <3>1, <1>0 DEF ImportsGoOn
    <3>2. CASE sess'[u] = Started(u)
      BY <2>1, <3>2, StartedIs DEF ImportGoesOn, Covers
    <3>. QED  BY <3>1, <3>2, <1>3
  <2>. QED  BY <1>2, <2>1 DEF ImportsGoOn
<1>8. StarsHoldTheirs'
  <2>1. ASSUME NEW u \in Updates, Kind[u] = "stars"
        PROVE  /\ sess'[u].at \in {"sent", "select", "insert", "credit", "done", "lost"}
               /\ \A p \in People : lock[p] = u => sess'[u].at = "credit" /\ p = sess'[u].who
    <3>1. CASE sess'[u] = sess[u]
      BY <2>1, <3>1, <1>0 DEF StarsHoldTheirs
    <3>2. CASE sess'[u] = Started(u) /\ sess[u].at = "sent"
      BY <2>1, <3>2, <1>0, StartedIs DEF StarsHoldTheirs
    <3>. QED  BY <3>1, <3>2, <1>3
  <2>. QED  BY <1>2, <2>1 DEF StarsHoldTheirs
<1>9. NewAreUnannounced'
  <2>1. ASSUME NEW u \in Updates
        PROVE  /\ \A r \in sess'[u].new : announced[r.id] = 0
               /\ sess'[u].born => Born(u, sess'[u])
    <3>1. CASE sess'[u] = sess[u]
      BY <3>1, <1>0 DEF NewAreUnannounced
    <3>2. CASE sess'[u] = Started(u)
      BY <3>2, StartedIs
    <3>. QED  BY <3>1, <3>2, <1>3
  <2>. QED  BY <1>0, <1>2, <2>1 DEF NewAreUnannounced
<1>10. CreditsAreCounted' /\ CreditedOncePerRun' /\ AnnouncedOnce'
  BY <1>0, <1>2, <1>3 DEF CreditsAreCounted, CreditedOncePerRun, AnnouncedOnce
<1>11. ImportIsWhole' /\ StarsSurvive'
  BY <1>0, <1>2, <1>3, StartedIs DEF ImportIsWhole, StarsSurvive
<1>. QED  BY <1>6, <1>7, <1>8, <1>9, <1>10, <1>11 DEF Inductive

LEMMA CrashKeeps ==
    ASSUME Inductive, Crash
    PROVE  Inductive'
<1>0. /\ TypeOK /\ RowsAreDrawn /\ DraftsAreLocked /\ ReferrersAreThere
      /\ OnlyRunningWork /\ OneRowEach /\ InviterIsOlder
      /\ ImportsGoOn /\ StarsHoldTheirs /\ NewAreUnannounced /\ CreditsAreCounted
      /\ ImportIsWhole /\ AnnouncedOnce /\ CreditedOncePerRun /\ StarsSurvive
  BY DEF Inductive, Tables
<1>1. /\ sess' = [u \in Updates |->
                    IF u > offset THEN Fresh
                    ELSE IF sess[u].at \in Working THEN Ended(u, "lost") ELSE sess[u]]
      /\ got' = offset /\ crashes' = crashes + 1
      /\ lock' = [p \in People |-> Free]
      /\ UNCHANGED <<users, drawn, offset, announced, credits, failures>>
  BY DEF Crash
<1>2. ASSUME NEW u \in Updates
      PROVE  /\ sess'[u] \in Session /\ sess'[u].at \notin Working /\ sess'[u].new = {}
             /\ sess'[u].ref # NoId => sess'[u].ref = sess[u].ref
             /\ \/ sess'[u].at \in {"sent", "lost"} /\ sess'[u].born = FALSE
                \/ sess'[u] = sess[u]
             /\ u > offset => sess'[u].at = "sent"
  <2>1. CASE u > offset
    BY <2>1, <1>1, FreshIs DEF Working
  <2>2. CASE ~(u > offset) /\ sess[u].at \in Working
    <3>1. sess'[u] = Ended(u, "lost")
      BY <2>2, <1>1
    <3>. QED  BY <2>2, <3>1, <1>0, EndedIs DEF Working
  <2>3. CASE ~(u > offset) /\ sess[u].at \notin Working
    <3>1. sess'[u] = sess[u]
      BY <2>3, <1>1
    <3>. QED  BY <2>3, <3>1, <1>0 DEF OnlyRunningWork, TypeOK
  <2>. QED  BY <2>1, <2>2, <2>3
<1>3. TypeOK'
  <2>1. sess' \in [Updates -> Session]
    BY <1>1, <1>2
  <2>2. got' \in 0..MaxUpdate /\ offset' \in 0..got' /\ crashes' \in Nat
    BY <1>0, <1>1, BoundsAssumption DEF TypeOK
  <2>. QED  BY <1>0, <1>1, <1>2, <2>1, <2>2 DEF TypeOK
<1>4. Tables'
  <2>1. RowsAreDrawn' /\ DraftsAreLocked' /\ OnlyRunningWork'
    BY <1>0, <1>1, <1>2 DEF RowsAreDrawn, DraftsAreLocked, OnlyRunningWork
  <2>2. ReferrersAreThere'
    <3>1. ASSUME NEW u \in Updates
          PROVE  /\ sess'[u].ref # NoId => \E q \in users : q.id = sess'[u].ref
                 /\ sess'[u].new = {}
      BY <1>0, <1>2 DEF ReferrersAreThere
    <3>. QED  BY <1>1, <3>1 DEF ReferrersAreThere
  <2>3. OneRowEach' /\ InviterIsOlder'
    BY <1>0, <1>1 DEF OneRowEach, InviterIsOlder
  <2>. QED  BY <1>3, <2>1, <2>2, <2>3 DEF Tables
<1>5. ImportsGoOn'
  <2>1. ASSUME NEW u \in Updates, Kind[u] = "import"
        PROVE  ImportGoesOn(u, sess'[u], users)
    <3>1. CASE sess'[u] = sess[u]
      BY <2>1, <3>1, <1>0 DEF ImportsGoOn
    <3>2. CASE sess'[u].at \in {"sent", "lost"}
      BY <3>2 DEF ImportGoesOn, Working
    <3>. QED  BY <3>1, <3>2, <1>2
  <2>. QED  BY <1>1, <2>1 DEF ImportsGoOn
<1>6. StarsHoldTheirs'
  <2>1. ASSUME NEW u \in Updates, Kind[u] = "stars"
        PROVE  sess'[u].at \in {"sent", "select", "insert", "credit", "done", "lost"}
    BY <2>1, <1>0, <1>2 DEF StarsHoldTheirs
  <2>2. ASSUME NEW p \in People, NEW u \in Updates
        PROVE  lock'[p] # u
    BY <1>1, UpdatesAssumption
  <2>. QED  BY <2>1, <2>2 DEF StarsHoldTheirs
<1>7. NewAreUnannounced'
  BY <1>0, <1>1, <1>2 DEF NewAreUnannounced
<1>8. CreditsAreCounted' /\ CreditedOncePerRun' /\ AnnouncedOnce'
  BY <1>0, <1>1 DEF CreditsAreCounted, CreditedOncePerRun, AnnouncedOnce, TypeOK
<1>9. ImportIsWhole' /\ StarsSurvive'
  <2>1. \A u \in Updates : sess'[u].at \in {"sent", "lost"} \/ sess'[u].at = sess[u].at
    BY <1>2
  <2>. QED  BY <1>0, <1>1, <2>1 DEF ImportIsWhole, StarsSurvive
<1>. QED  BY <1>4, <1>5, <1>6, <1>7, <1>8, <1>9 DEF Inductive

-----------------------------------------------------------------------------
(* What a step leaves alone *)

(* The other handlers, the committed rows, the locks of others.            *)
LEMMA Frame ==
    ASSUME Tables, NEW u \in Updates, Effect(u)
    PROVE  /\ \A v \in Updates : v # u => sess'[v] = sess[v]
           /\ sess'[u] \in Session /\ users \subseteq users'
           /\ \A v \in Updates, p \in People : v # u /\ lock'[p] = v => lock[p] = v
           /\ drawn' \in Nat /\ drawn <= drawn' /\ UNCHANGED <<got, offset, crashes>>
<1>0. TypeOK /\ sess[u].at \in Working /\ UNCHANGED <<got, offset, crashes>>
  BY DEF Tables, Effect
<1>1. PICK A \in SUBSET Rows :
        Adds(u, A) /\ (Keeps(u, A) \/ Commits(u, A) \/ (A = {} /\ RollsBack(u)))
  BY DEF Effect
<1>2. drawn' \in Nat /\ drawn <= drawn'
  BY <1>0, <1>1 DEF Adds, TypeOK
<1>3. CASE Keeps(u, A)
  <2>1. \A v \in Updates, p \in People : v # u /\ lock'[p] = v => lock[p] = v
    BY <1>0, <1>3 DEF Keeps, Lock, TypeOK
  <2>. QED  BY <1>0, <1>2, <1>3, <2>1 DEF Keeps, TypeOK
<1>4. ASSUME NEW how \in {"done", "failed"}, sess' = [sess EXCEPT ![u] = Ended(u, how)],
             Unlock(u), users \subseteq users'
      PROVE  /\ \A v \in Updates : v # u => sess'[v] = sess[v]
             /\ sess'[u] \in Session /\ users \subseteq users'
             /\ \A v \in Updates, p \in People : v # u /\ lock'[p] = v => lock[p] = v
  <2>1. sess'[u] \in Session
    BY <1>0, <1>4, EndedIs DEF TypeOK
  <2>2. \A v \in Updates, p \in People : v # u /\ lock'[p] = v => lock[p] = v
    BY <1>0, <1>4, UpdatesAssumption DEF Unlock, TypeOK
  <2>. QED  BY <1>0, <1>4, <2>1, <2>2 DEF TypeOK
<1>5. CASE Commits(u, A)
  BY <1>0, <1>2, <1>4, <1>5 DEF Commits
<1>6. CASE RollsBack(u)
  BY <1>0, <1>2, <1>4, <1>6 DEF RollsBack
<1>. QED  BY <1>1, <1>3, <1>5, <1>6

(* Rows are never taken away, so that other imports go on.                 *)
LEMMA GoesOnWithMore ==
    ASSUME NEW u \in Updates, NEW S, NEW rows, NEW more, rows \subseteq more,
           ImportGoesOn(u, S, rows)
    PROVE  ImportGoesOn(u, S, more)
<1>1. \A p : Has(S, rows, p) => Has(S, more, p)
  BY DEF Has
<1>2. Covers(u, S, rows) => Covers(u, S, more)
  BY <1>1 DEF Covers
<1>. QED  BY <1>1, <1>2 DEF ImportGoesOn

-----------------------------------------------------------------------------
(* Imports *)

ImportIsDone(u, rows) ==
    \A i \in 1..Len(Text[u]) : \E r \in rows : r.who = Text[u][i]

(* The customer dealt with has a row: the import goes on with the next.    *)
LEMMA OnwardCovers ==
    ASSUME NEW u \in Updates, Kind[u] = "import", NEW S \in Session,
           S.at \in Working, S.who \in People, NEW rows,
           Covers(u, S, rows), Has(S, rows, S.who), S.told => S.rest = <<>>
    PROVE  ImportGoesOn(u, Onward(u, S), rows)
<1>. DEFINE T == Onward(u, S)
<1>0. T \in Session /\ T.at \in {"select", "answer"} /\ T.new = S.new /\ T.told = S.told
  BY OnwardIs
<1>1. CASE S.rest # <<>>
  <2>1. T = [S EXCEPT !.at = "select", !.who = Head(S.rest), !.rest = Tail(S.rest)]
    BY <1>1 DEF Onward
  <2>2. T.at = "select" /\ T.who = Head(S.rest) /\ T.rest = Tail(S.rest)
    BY <2>1 DEF Session
  <2>3. ASSUME NEW p, Listed(S, p)
        PROVE  Listed(T, p) \/ p = T.who
    <3>1. S.rest \in Seq(People)
      BY DEF Session
    <3>2. PICK j \in 1..Len(S.rest) : S.rest[j] = p
      BY <2>3 DEF Listed
    <3>3. CASE j = 1
      BY <1>1, <2>2, <3>1, <3>2, <3>3
    <3>4. CASE j # 1
      <4>1. j - 1 \in 1..Len(Tail(S.rest)) /\ Tail(S.rest)[j - 1] = p
        BY <1>1, <3>1, <3>2, <3>4
      <4>. QED  BY <2>2, <4>1 DEF Listed
    <3>. QED  BY <3>3, <3>4
  <2>4. \A p : Has(S, rows, p) => Has(T, rows, p)
    BY <1>0 DEF Has
  <2>5. Covers(u, T, rows)
    BY <2>3, <2>4 DEF Covers
  <2>. QED  BY <1>0, <1>1, <2>2, <2>5 DEF ImportGoesOn, Working
<1>2. CASE S.rest = <<>>
  <2>1. T = [S EXCEPT !.at = "answer"]
    BY <1>2 DEF Onward
  <2>2. T.at = "answer" /\ T.who = S.who /\ T.rest = S.rest
    BY <2>1 DEF Session
  <2>3. Has(T, rows, T.who) /\ Covers(u, T, rows)
    BY <1>0, <2>2 DEF Has, Covers, Listed
  <2>. QED  BY <1>0, <1>2, <2>2, <2>3 DEF ImportGoesOn, Working
<1>. QED  BY <1>1, <1>2

LEMMA CommitFinishes ==
    ASSUME TypeOK, NEW u \in Updates, NEW T, Commit(u, T), T.rest = <<>>,
           Covers(u, T, users), Has(T, users, T.who)
    PROVE  ImportGoesOn(u, sess'[u], users') /\ ImportIsDone(u, users')
<1>1. sess'[u] = Ended(u, "done") /\ users' = users \cup T.new
  BY DEF Commit, Become, Closed, TypeOK
<1>2. ImportGoesOn(u, sess'[u], users')
  BY <1>1, EndedIs DEF ImportGoesOn, Working
<1>3. \A p : ~Listed(T, p)
  BY DEF Listed
<1>. QED  BY <1>1, <1>2, <1>3 DEF Covers, Has, ImportIsDone

LEMMA RollbackFinishes ==
    ASSUME TypeOK, NEW u \in Updates, Rollback(u)
    PROVE  sess'[u].at = "failed" /\ ImportGoesOn(u, sess'[u], users')
<1>1. sess'[u] = Ended(u, "failed")
  BY DEF Rollback, Become, TypeOK
<1>. QED  BY <1>1, EndedIs DEF ImportGoesOn, Working

LEMMA ImportStep ==
    ASSUME TypeOK, NEW u \in Updates, Kind[u] = "import", Step(u) \/ Victim(u),
           ImportGoesOn(u, sess[u], users)
    PROVE  /\ ImportGoesOn(u, sess'[u], users')
           /\ sess'[u].at = "done" => ImportIsDone(u, users')
<1>. DEFINE S == sess[u]
<1>0. S \in Session /\ (S.at \in Working => S.who \in People)
  BY DEF TypeOK
<1>1. CASE Select(u)
  <2>1. S.at = "select" /\ S.at \in Working
    BY <1>1 DEF Select, Working
  <2>2. Covers(u, S, users) /\ (S.told => S.rest = <<>>)
    BY <2>1 DEF ImportGoesOn
  <2>3. PICK T : /\ Continue(u, T)
                 /\ \/ Known(S) /\ T \in Existing(u, S)
                    \/ ~Known(S) /\ T = Pending(u, S, "insert")
    BY <1>1 DEF Select
  <2>4. sess'[u] = T /\ users' = users
    BY <2>3 DEF Continue, Become, TypeOK
  <2>5. ASSUME NEW what \in {"insert", "update"}, T = Pending(u, S, what),
               what = "insert" \/ Has(S, users, S.who)
        PROVE  ImportGoesOn(u, T, users) /\ T.at # "done"
    <3>1. /\ T.at \in {"flush", "answer"} /\ (T.at = "answer" <=> S.rest = <<>>)
          /\ T.who = S.who /\ T.new = S.new /\ T.pend = what /\ T.told = S.told /\ T.rest = S.rest
      BY <1>0, <2>5, PendingIs
    <3>2. Covers(u, T, users) /\ (Has(S, users, S.who) => Has(T, users, T.who))
      BY <2>2, <3>1 DEF Covers, Has, Listed
    <3>. QED  BY <2>2, <2>5, <3>1, <3>2 DEF ImportGoesOn
  <2>6. CASE Known(S) /\ T = Onward(u, S)
    <3>1. Has(S, users, S.who)
      BY <2>6 DEF Known, Has
    <3>2. ImportGoesOn(u, T, users)
      BY <1>0, <2>1, <2>2, <2>6, <3>1, OnwardCovers
    <3>3. T.at # "done"
      BY <1>0, <2>1, <2>6, OnwardIs
    <3>. QED  BY <2>4, <3>2, <3>3
  <2>7. CASE Known(S) /\ T = Pending(u, S, "update")
    BY <2>4, <2>5, <2>7 DEF Known, Has
  <2>8. CASE T = Pending(u, S, "insert")
    BY <2>4, <2>5, <2>8
  <2>. QED  BY <2>3, <2>6, <2>7, <2>8 DEF Existing
<1>2. CASE Flush(u)
  <2>1. S.at = "flush" /\ S.at \in Working /\ S.who \in People
    BY <1>0, <1>2 DEF Flush, Working
  <2>2. Covers(u, S, users) /\ (S.told => S.rest = <<>>)
        /\ (S.pend # "insert" => Has(S, users, S.who))
    BY <2>1 DEF ImportGoesOn
  <2>3. ASSUME NEW T \in Session, T.at = S.at, T.who = S.who, T.rest = S.rest, T.told = S.told,
               S.new \subseteq T.new, Has(T, users, T.who),
               IF S.told THEN Commit(u, T) ELSE Continue(u, Onward(u, T))
        PROVE  /\ ImportGoesOn(u, sess'[u], users')
               /\ sess'[u].at = "done" => ImportIsDone(u, users')
    <3>1. Covers(u, T, users)
      BY <2>2, <2>3 DEF Covers, Has, Listed
    <3>2. CASE S.told
      BY <2>2, <2>3, <3>1, <3>2, CommitFinishes
    <3>3. CASE ~S.told
      <4>1. sess'[u] = Onward(u, T) /\ users' = users
        BY <2>3, <3>3 DEF Continue, Become, TypeOK
      <4>2. ImportGoesOn(u, Onward(u, T), users)
        BY <2>1, <2>2, <2>3, <3>1, OnwardCovers
      <4>3. Onward(u, T).at # "done"
        BY <2>1, <2>3, OnwardIs
      <4>. QED  BY <4>1, <4>2, <4>3
    <3>. QED  BY <3>2, <3>3
  <2>4. CASE S.pend = "update"
    <3>. DEFINE T == [S EXCEPT !.pend = "none"]
    <3>1. T \in Session /\ T.at = S.at /\ T.who = S.who /\ T.rest = S.rest /\ T.told = S.told
          /\ T.new = S.new
      BY <1>0 DEF Session
    <3>2. Has(T, users, T.who)
      BY <2>2, <2>4, <3>1 DEF Has
    <3>3. IF S.told THEN Commit(u, T) ELSE Continue(u, Onward(u, T))
      BY <1>2, <2>4 DEF Flush
    <3>. HIDE DEF T
    <3>. QED  BY <2>3, <3>1, <3>2, <3>3
  <2>5. CASE S.pend = "insert" /\ ~Known(S) /\ Draw
    <3>. DEFINE T == Added(S)
    <3>1. T \in Session /\ T.at = S.at /\ T.who = S.who /\ T.rest = S.rest /\ T.told = S.told
          /\ T.new = S.new \cup {NewRow(S)} /\ NewRow(S).who = S.who
      BY <1>0, <2>1, <2>5, AddedIs DEF Draw
    <3>2. Has(T, users, T.who)
      BY <3>1 DEF Has
    <3>3. IF S.told THEN Commit(u, T) ELSE Continue(u, Onward(u, T))
      BY <1>2, <2>5 DEF Flush
    <3>. HIDE DEF T
    <3>. QED  BY <2>3, <3>1, <3>2, <3>3
  <2>6. CASE Rollback(u)
    BY <2>6, RollbackFinishes
  <2>. QED  BY <1>2, <2>4, <2>5, <2>6 DEF Flush, Refused
<1>3. CASE Answer(u)
  <2>1. S.at = "answer" /\ S.at \in Working
    BY <1>3 DEF Answer, Working
  <2>2. Covers(u, S, users) /\ S.rest = <<>> /\ (S.pend # "insert" => Has(S, users, S.who))
    BY <2>1 DEF ImportGoesOn
  <2>3. CASE S.pend = "none" /\ Commit(u, S)
    BY <2>2, <2>3, CommitFinishes
  <2>4. CASE Continue(u, [S EXCEPT !.at = "flush", !.told = TRUE])
    <3>. DEFINE T == [S EXCEPT !.at = "flush", !.told = TRUE]
    <3>1. T.at = "flush" /\ T.who = S.who /\ T.rest = S.rest /\ T.pend = S.pend /\ T.new = S.new
      BY <1>0 DEF Session
    <3>2. sess'[u] = T /\ users' = users
      BY <2>4 DEF Continue, Become, TypeOK
    <3>. HIDE DEF T
    <3>3. Covers(u, T, users) /\ (Has(S, users, S.who) => Has(T, users, T.who))
      BY <2>2, <3>1 DEF Covers, Has, Listed
    <3>4. ImportGoesOn(u, T, users)
      BY <2>2, <3>1, <3>3 DEF ImportGoesOn
    <3>. QED  BY <3>1, <3>2, <3>4
  <2>5. CASE Rollback(u)
    BY <2>5, RollbackFinishes
  <2>. QED  BY <1>3, <2>3, <2>4, <2>5 DEF Answer
<1>4. CASE Victim(u)
  BY <1>4, RollbackFinishes DEF Victim
<1>5. CASE Refer(u) \/ Insert(u) \/ Credit(u)
  BY <1>5 DEF ImportGoesOn, Refer, Insert, Credit
<1>. QED  BY <1>1, <1>2, <1>3, <1>4, <1>5 DEF Step

-----------------------------------------------------------------------------
(* Payments with Stars *)

(* No deadlock picks a payment: in a circle it would hold the row of its   *)
(* customer, which is the one it waits for.                                *)
LEMMA NoVictim ==
    ASSUME TypeOK, StarsHoldTheirs, NEW u \in Updates, Kind[u] = "stars"
    PROVE  ~Victim(u)
<1>. SUFFICES ASSUME Victim(u) PROVE FALSE
  OBVIOUS
<1>1. PICK circle \in SUBSET {v \in Updates : Waiting(v)} :
        u \in circle /\ {lock[sess[v].who] : v \in circle} = circle
  BY DEF Victim
<1>2. PICK v \in circle : u = lock[sess[v].who]
  BY <1>1
<1>3. v \in Updates /\ Waiting(v) /\ Waiting(u)
  BY <1>1, <1>2
<1>4. sess[v].who \in People
  BY <1>3 DEF Waiting, TypeOK, Working
<1>5. sess[v].who = sess[u].who
  BY <1>2, <1>4 DEF StarsHoldTheirs
<1>. QED  BY <1>2, <1>3, <1>5 DEF Waiting, CanLock

LEMMA CreditsMove ==
    ASSUME TypeOK, NEW u \in Updates, Step(u) \/ Victim(u)
    PROVE  \/ credits' = credits
           \/ credits' = [credits EXCEPT ![u] = @ + 1] /\ sess'[u].at = "done"
<1>1. ASSUME NEW T, Commit(u, T)
      PROVE  \/ credits' = credits
             \/ credits' = [credits EXCEPT ![u] = @ + 1] /\ sess'[u].at = "done"
  <2>1. sess'[u] = Ended(u, "done")
    BY <1>1 DEF Commit, Become, Closed, TypeOK
  <2>. QED  BY <1>1, <2>1, EndedIs DEF Commit
<1>2. CASE Select(u) \/ Refer(u) \/ Insert(u)
  BY <1>2 DEF Select, Refer, Insert, Continue
<1>3. CASE Flush(u)
  BY <1>1, <1>3 DEF Flush, Continue, Refused, Rollback
<1>4. CASE Credit(u)
  BY <1>1, <1>4 DEF Credit, CommitFirst
<1>5. CASE Answer(u)
  BY <1>1, <1>5 DEF Answer, Continue, Rollback
<1>6. CASE Victim(u)
  BY <1>6 DEF Victim, Rollback
<1>. QED  BY <1>2, <1>3, <1>4, <1>5, <1>6 DEF Step

LEMMA StarsStep ==
    ASSUME TypeOK, StarsHoldTheirs, NEW u \in Updates, Kind[u] = "stars", Step(u) \/ Victim(u)
    PROVE  /\ sess'[u].at \in {"sent", "select", "insert", "credit", "done", "lost"}
           /\ \A p \in People : lock'[p] = u => sess'[u].at = "credit" /\ p = sess'[u].who
           /\ sess'[u].at = "done" => credits'[u] > 0
<1>. DEFINE S == sess[u]
<1>0. /\ S \in Session /\ (S.at \in Working => S.who \in People)
      /\ S.at \in {"sent", "select", "insert", "credit", "done", "lost"}
      /\ \A p \in People : lock[p] = u => S.at = "credit" /\ p = S.who
  BY DEF TypeOK, StarsHoldTheirs
<1>1. ASSUME NEW T \in Session, T.at = S.at, T.who = S.who, S.at \in Working,
             S.at # "credit", Continue(u, Onward(u, T)),
             lock' = lock \/ lock' = [lock EXCEPT ![S.who] = u]
      PROVE  /\ sess'[u].at = "credit"
             /\ \A p \in People : lock'[p] = u => sess'[u].at = "credit" /\ p = sess'[u].who
  <2>1. sess'[u] = Onward(u, T)
    BY <1>1 DEF Continue, Become, TypeOK
  <2>2. sess'[u].at = "credit" /\ sess'[u].who = S.who
    BY <1>0, <1>1, <2>1, OnwardIs
  <2>. QED  BY <1>0, <1>1, <2>2 DEF TypeOK
<1>2. CASE Select(u)
  <2>1. S.at = "select" /\ S.at \in Working /\ lock' = lock
    BY <1>2 DEF Select, Working
  <2>2. PICK T : /\ Continue(u, T)
                 /\ T = Onward(u, S) \/ T = [S EXCEPT !.at = "insert"]
    BY <1>2 DEF Select, Existing
  <2>3. CASE T = Onward(u, S)
    BY <1>0, <1>1, <2>1, <2>2, <2>3
  <2>4. CASE T = [S EXCEPT !.at = "insert"]
    <3>1. sess'[u] = T /\ T.at = "insert"
      BY <1>0, <2>2, <2>4 DEF Continue, Become, TypeOK, Session
    <3>. QED  BY <1>0, <2>1, <3>1
  <2>. QED  BY <2>2, <2>3, <2>4
<1>3. CASE Insert(u)
  <2>1. S.at = "insert" /\ S.at \in Working /\ S.who \in People
    BY <1>0, <1>3 DEF Insert, Working
  <2>2. CASE Draw /\ Lock(u, S.who) /\ Continue(u, Onward(u, [Added(S) EXCEPT !.born = TRUE]))
    <3>. DEFINE T == [Added(S) EXCEPT !.born = TRUE]
    <3>1. Added(S) \in Session /\ Added(S).at = S.at /\ Added(S).who = S.who
      BY <1>0, <2>1, <2>2, AddedIs DEF Draw
    <3>2. T \in Session /\ T.at = S.at /\ T.who = S.who
      BY <3>1 DEF Session
    <3>. HIDE DEF T
    <3>3. Continue(u, Onward(u, T)) /\ lock' = [lock EXCEPT ![S.who] = u]
      BY <2>2 DEF T, Lock
    <3>. QED  BY <1>1, <2>1, <3>2, <3>3
  <2>3. CASE lock' = lock /\ \E T \in Existing(u, S) : Continue(u, T)
    <3>1. Continue(u, Onward(u, S))
      BY <2>3 DEF Existing
    <3>. QED  BY <1>0, <1>1, <2>1, <2>3, <3>1
  <2>. QED  BY <1>3, <2>2, <2>3 DEF Insert
<1>4. CASE Credit(u)
  <2>. DEFINE T == [S EXCEPT !.credit = TRUE]
  <2>1. Commit(u, T) /\ T.credit = TRUE
    BY <1>0, <1>4 DEF Credit, CommitFirst, Session
  <2>2. sess'[u] = Ended(u, "done") /\ credits' = [credits EXCEPT ![u] = @ + 1] /\ Unlock(u)
    BY <2>1 DEF Commit, Become, Closed, TypeOK
  <2>3. credits'[u] > 0
    BY <2>2 DEF TypeOK
  <2>4. \A p \in People : lock'[p] # u
    BY <2>2, UpdatesAssumption DEF Unlock, TypeOK
  <2>. QED  BY <2>2, <2>3, <2>4, EndedIs
<1>5. CASE Refer(u) \/ Flush(u) \/ Answer(u)
  BY <1>0, <1>5 DEF Refer, Flush, Answer
<1>. QED  BY <1>2, <1>3, <1>4, <1>5, NoVictim DEF Step

-----------------------------------------------------------------------------
(* Announcements *)

(* Only the handler that inserts a row counts as its creator.              *)
LEMMA BornStep ==
    ASSUME TypeOK, ImportsGoOn, NewAreUnannounced, NEW u \in Updates, Step(u) \/ Victim(u)
    PROVE  sess'[u].born => Born(u, sess'[u])
<1>. DEFINE S == sess[u]
<1>0. /\ S \in Session /\ (S.at \in Working => S.who \in People)
      /\ S.born => Born(u, S)
  BY DEF TypeOK, NewAreUnannounced
<1>1. ASSUME NEW T, Continue(u, T)
      PROVE  sess'[u] = T
  BY <1>1 DEF Continue, Become, TypeOK
<1>2. ASSUME NEW T, Commit(u, T) \/ Rollback(u)
      PROVE  sess'[u].born = FALSE
  <2>1. sess'[u] = Ended(u, "done") \/ sess'[u] = Ended(u, "failed")
    BY <1>2 DEF Commit, Closed, Rollback, Become, TypeOK
  <2>. QED  BY <2>1, EndedIs
<1>3. ASSUME NEW T \in Existing(u, S), S.at \in Working, S.at \notin {"credit", "answer"}
      PROVE  T.born = FALSE
  <2>1. S.born = FALSE
    BY <1>0, <1>3 DEF Born, Session
  <2>2. CASE T = Onward(u, S)
    BY <1>0, <1>3, <2>1, <2>2, OnwardIs
  <2>3. CASE T = Pending(u, S, "update")
    BY <1>0, <1>3, <2>1, <2>3, PendingIs
  <2>. QED  BY <2>2, <2>3, <1>3 DEF Existing
<1>4. CASE Select(u)
  <2>1. S.at = "select" /\ S.born = FALSE /\ S.at \in Working
    BY <1>0, <1>4 DEF Select, Born, Session, Working
  <2>2. PICK T : /\ Continue(u, T)
                 /\ \/ T \in Existing(u, S)
                    \/ T = Pending(u, S, "insert")
                    \/ T = [S EXCEPT !.at = IF Kind[u] = "start" /\ Code[u] # NoOne
                                            THEN "refer" ELSE "insert"]
    BY <1>4 DEF Select
  <2>3. T.born = FALSE
    <3>1. CASE T \in Existing(u, S)
      BY <2>1, <3>1, <1>3
    <3>2. CASE T = Pending(u, S, "insert")
      BY <1>0, <2>1, <3>2, PendingIs
    <3>3. CASE T = [S EXCEPT !.at = IF Kind[u] = "start" /\ Code[u] # NoOne
                                    THEN "refer" ELSE "insert"]
      BY <1>0, <2>1, <3>3 DEF Session
    <3>. QED  BY <2>2, <3>1, <3>2, <3>3
  <2>. QED  BY <1>1, <2>2, <2>3
<1>5. CASE Refer(u)
  <2>1. S.at = "refer" /\ S.born = FALSE
    BY <1>0, <1>5 DEF Refer, Born, Session
  <2>2. PICK ref : Continue(u, [S EXCEPT !.at = "insert", !.ref = ref])
    BY <1>5 DEF Refer
  <2>3. sess'[u] = [S EXCEPT !.at = "insert", !.ref = ref]
    BY <1>1, <2>2
  <2>. QED  BY <1>0, <2>1, <2>3 DEF Session
<1>6. CASE Insert(u)
  <2>1. S.at = "insert" /\ S.at \in Working /\ S.who \in People
    BY <1>0, <1>6 DEF Insert, Working
  <2>2. Kind[u] # "import"
    BY <2>1 DEF ImportsGoOn, ImportGoesOn
  <2>3. CASE Draw /\ Continue(u, Onward(u, [Added(S) EXCEPT !.born = TRUE]))
    <3>. DEFINE T == [Added(S) EXCEPT !.born = TRUE]
    <3>1. /\ Added(S) \in Session /\ Added(S).at = S.at /\ Added(S).who = S.who
          /\ Added(S).pend = "none" /\ Added(S).new = S.new \cup {NewRow(S)}
          /\ NewRow(S).who = S.who
      BY <1>0, <2>1, <2>3, AddedIs DEF Draw
    <3>2. /\ T \in Session /\ T.at = S.at /\ T.who = S.who /\ T.pend = "none"
          /\ \E r \in T.new : r.who = S.who
      BY <3>1 DEF Session
    <3>. HIDE DEF T
    <3>3. /\ Onward(u, T).at \in {"credit", "select", "answer"} /\ Onward(u, T).pend = "none"
          /\ Onward(u, T).who = S.who /\ Onward(u, T).new = T.new
      BY <2>1, <2>2, <3>2, OnwardIs
    <3>4. Onward(u, T).at # "select"
      BY <2>2, <3>2 DEF Onward, Session
    <3>5. sess'[u] = Onward(u, T)
      BY <1>1, <2>3 DEF T
    <3>. QED  BY <2>2, <3>2, <3>3, <3>4, <3>5 DEF Born
  <2>4. CASE \E T \in Existing(u, S) : Continue(u, T)
    BY <1>1, <1>3, <2>1, <2>4
  <2>. QED  BY <1>6, <2>3, <2>4 DEF Insert
<1>7. CASE Flush(u)
  <2>1. S.at = "flush" /\ S.at \in Working /\ S.who \in People
    BY <1>0, <1>7 DEF Flush, Working
  <2>2. S.born = FALSE
    BY <1>0, <2>1 DEF Born, Session
  <2>3. ASSUME NEW T \in Session, T.at = S.at, T.who = S.who, T.born = FALSE,
               IF S.told THEN Commit(u, T) ELSE Continue(u, Onward(u, T))
        PROVE  sess'[u].born = FALSE
    <3>1. Onward(u, T).born = FALSE
      BY <2>1, <2>3, OnwardIs
    <3>2. CASE S.told
      BY <1>2, <2>3, <3>2
    <3>3. CASE ~S.told
      BY <1>1, <2>3, <3>1, <3>3
    <3>. QED  BY <3>2, <3>3
  <2>4. CASE S.pend = "update"
    <3>. DEFINE T == [S EXCEPT !.pend = "none"]
    <3>1. T \in Session /\ T.at = S.at /\ T.who = S.who /\ T.born = FALSE
      BY <1>0, <2>2 DEF Session
    <3>2. IF S.told THEN Commit(u, T) ELSE Continue(u, Onward(u, T))
      BY <1>7, <2>4 DEF Flush
    <3>. HIDE DEF T
    <3>. QED  BY <2>3, <3>1, <3>2
  <2>5. CASE S.pend = "insert" /\ ~Known(S) /\ Draw
    <3>. DEFINE T == Added(S)
    <3>1. T \in Session /\ T.at = S.at /\ T.who = S.who /\ T.born = FALSE
      BY <1>0, <2>1, <2>2, <2>5, AddedIs DEF Draw
    <3>2. IF S.told THEN Commit(u, T) ELSE Continue(u, Onward(u, T))
      BY <1>7, <2>5 DEF Flush
    <3>. HIDE DEF T
    <3>. QED  BY <2>3, <3>1, <3>2
  <2>6. CASE Rollback(u)
    BY <1>2, <2>6
  <2>. QED  BY <1>7, <2>4, <2>5, <2>6 DEF Flush, Refused
<1>8. CASE Credit(u)
  BY <1>2, <1>8 DEF Credit, CommitFirst
<1>9. CASE Answer(u)
  <2>1. CASE Commit(u, S) \/ Rollback(u)
    BY <1>2, <2>1
  <2>2. CASE S.pend # "none" /\ Continue(u, [S EXCEPT !.at = "flush", !.told = TRUE])
    <3>1. sess'[u] = [S EXCEPT !.at = "flush", !.told = TRUE]
      BY <1>1, <2>2
    <3>. QED  BY <1>0, <2>2, <3>1 DEF Born, Session
  <2>. QED  BY <1>9, <2>1, <2>2 DEF Answer
<1>10. CASE Victim(u)
  BY <1>2, <1>10 DEF Victim
<1>. QED  BY <1>4, <1>5, <1>6, <1>7, <1>8, <1>9, <1>10 DEF Step

LEMMA AnnounceStep ==
    ASSUME Tables, Tables', ImportsGoOn, NewAreUnannounced, AnnouncedOnce,
           NEW u \in Updates, Step(u) \/ Victim(u)
    PROVE  NewAreUnannounced' /\ AnnouncedOnce'
<1>. DEFINE S == sess[u]
<1>0. /\ TypeOK /\ RowsAreDrawn /\ DraftsAreLocked /\ Effect(u)
      /\ S \in Session /\ S.new \subseteq Rows
  BY StepEffect DEF Tables, TypeOK, Session
<1>1. /\ \A v \in Updates : v # u => sess'[v] = sess[v]
      /\ sess'[u] \in Session /\ drawn' \in Nat /\ drawn \in Nat /\ drawn <= drawn'
  BY <1>0, Frame DEF TypeOK
<1>2. sess'[u].born => Born(u, sess'[u])
  BY <1>0, BornStep
<1>3. \A v \in Updates : v # u => (sess'[v].born => Born(v, sess'[v]))
  BY <1>1 DEF NewAreUnannounced
<1>4. CASE announced' = announced
  <2>1. \A i \in Ids : i > drawn' => announced'[i] = 0
    BY <1>1, <1>4 DEF NewAreUnannounced, Ids
  <2>2. ASSUME NEW v \in Updates, NEW r \in sess'[v].new
        PROVE  announced'[r.id] = 0
    <3>1. CASE r \in sess[v].new
      BY <1>4, <3>1 DEF NewAreUnannounced
    <3>2. CASE v = u /\ r \notin S.new
      <4>1. PICK A \in SUBSET Rows : Adds(u, A) /\ sess'[u].new \subseteq S.new \cup A
        BY <1>0, EndedIs DEF Effect, Keeps, Commits, RollsBack, TypeOK
      <4>2. r \in A /\ A = {NewRow(S)} /\ drawn < MaxIds
        BY <2>2, <3>2, <4>1 DEF Adds
      <4>3. r.id = drawn + 1 /\ r \in Rows
        BY <4>2 DEF NewRow, NewId
      <4>. QED  BY <1>1, <1>4, <4>3 DEF NewAreUnannounced, Rows, Ids
    <3>. QED  BY <1>1, <2>2, <3>1, <3>2
  <2>3. AnnouncedOnce'
    BY <1>4 DEF AnnouncedOnce
  <2>. QED  BY <1>2, <1>3, <2>1, <2>2, <2>3 DEF NewAreUnannounced
<1>5. CASE Answer(u) /\ announced' # announced
  <2>. DEFINE told(i) == S.born /\ Kind[u] = "start" /\
                         \E r \in S.new \cup users : r.id = i /\ r.who = S.who
  <2>1. announced' = [i \in Ids |-> IF told(i) THEN announced[i] + 1 ELSE announced[i]]
    BY <1>5 DEF Answer
  <2>2. S.born /\ Born(u, S)
    <3>1. S.born \/ announced' = announced
      BY <2>1, <1>0 DEF TypeOK
    <3>. QED  BY <1>5, <3>1 DEF NewAreUnannounced
  <2>3. PICK r \in S.new : r.who = S.who
    BY <2>2 DEF Born
  <2>4. ASSUME NEW i \in Ids, told(i)
        PROVE  i = r.id
    <3>1. PICK q \in S.new \cup users : q.id = i /\ q.who = S.who
      BY <2>4
    <3>. QED  BY <1>0, <2>3, <3>1 DEF DraftsAreLocked
  <2>5. announced[r.id] = 0 /\ r.id <= drawn /\ r.id \in Ids
    BY <1>0, <2>3 DEF NewAreUnannounced, RowsAreDrawn, Rows
  <2>6. \A i \in Ids : announced'[i] = IF i = r.id THEN 1 ELSE announced[i]
    BY <1>0, <2>1, <2>2, <2>3, <2>4, <2>5, <1>5 DEF TypeOK
  <2>7. sess'[u].new = {} /\ drawn' = drawn
    <3>1. sess'[u] = Ended(u, "done") \/ sess'[u] = Ended(u, "failed")
      BY <1>0, <1>5, <2>2 DEF Born, Answer, Commit, Closed, Rollback, Become, TypeOK
    <3>. QED  BY <1>0, <1>5, <3>1, EndedIs DEF Answer
  <2>8. ASSUME NEW v \in Updates, NEW q \in sess'[v].new
        PROVE  announced'[q.id] = 0
    <3>1. v # u /\ q \in sess[v].new /\ q \in Rows
      BY <1>0, <1>1, <2>7, <2>8 DEF TypeOK, Session
    <3>2. lock[q.who] = v /\ lock[r.who] = u
      BY <1>0, <2>3, <3>1 DEF DraftsAreLocked
    <3>3. q.id # r.id
      BY <1>0, <2>3, <3>1, <3>2 DEF DraftsAreLocked
    <3>. QED  BY <2>6, <3>1, <3>3 DEF NewAreUnannounced, Rows
  <2>9. \A i \in Ids : i > drawn' => announced'[i] = 0
    BY <1>1, <2>5, <2>6, <2>7 DEF NewAreUnannounced, Ids
  <2>10. AnnouncedOnce'
    BY <2>6 DEF AnnouncedOnce
  <2>. QED  BY <1>2, <1>3, <2>8, <2>9, <2>10 DEF NewAreUnannounced
<1>6. Answer(u) \/ announced' = announced
  BY DEF Step, Victim, Select, Refer, Insert, Flush, Credit
<1>. QED  BY <1>4, <1>5, <1>6

-----------------------------------------------------------------------------
(* The invariant *)

LEMMA StepKeeps ==
    ASSUME Inductive, NEW u \in Updates, Step(u) \/ Victim(u)
    PROVE  Inductive'
<1>0. /\ Tables /\ TypeOK /\ Effect(u)
      /\ ImportsGoOn /\ StarsHoldTheirs /\ NewAreUnannounced /\ CreditsAreCounted
      /\ ImportIsWhole /\ AnnouncedOnce /\ CreditedOncePerRun /\ StarsSurvive
  BY StepEffect DEF Inductive, Tables
<1>1. Tables'
  BY <1>0, StepTables
<1>2. /\ \A v \in Updates : v # u => sess'[v] = sess[v]
      /\ users \subseteq users'
      /\ \A v \in Updates, p \in People : v # u /\ lock'[p] = v => lock[p] = v
      /\ crashes' = crashes /\ crashes \in Nat /\ sess[u].at \in Working
  BY <1>0, Frame DEF Effect, TypeOK
<1>3. ImportsGoOn' /\ ImportIsWhole'
  <2>1. ASSUME NEW v \in Updates, Kind[v] = "import"
        PROVE  /\ ImportGoesOn(v, sess'[v], users')
               /\ sess'[v].at = "done" => ImportIsDone(v, users')
    <3>1. CASE v = u
      BY <1>0, <2>1, <3>1, ImportStep DEF ImportsGoOn
    <3>2. CASE v # u
      <4>1. sess'[v] = sess[v] /\ ImportGoesOn(v, sess[v], users)
        BY <1>0, <1>2, <2>1, <3>2 DEF ImportsGoOn
      <4>2. ImportGoesOn(v, sess'[v], users')
        BY <1>2, <4>1, GoesOnWithMore
      <4>3. sess'[v].at = "done" => ImportIsDone(v, users')
        BY <1>0, <1>2, <2>1, <4>1 DEF ImportIsWhole, ImportIsDone
      <4>. QED  BY <4>2, <4>3
    <3>. QED  BY <3>1, <3>2
  <2>. QED  BY <2>1 DEF ImportsGoOn, ImportIsWhole, ImportIsDone
<1>4. /\ credits' \in [Updates -> Nat]
      /\ \/ credits' = credits
         \/ credits' = [credits EXCEPT ![u] = @ + 1] /\ sess'[u].at = "done"
  <2>1. credits' \in [Updates -> Nat]
    BY <1>1 DEF Tables, TypeOK
  <2>2. \/ credits' = credits
        \/ credits' = [credits EXCEPT ![u] = @ + 1] /\ sess'[u].at = "done"
    BY <1>0, CreditsMove
  <2>. QED  BY <2>1, <2>2
<1>5. StarsHoldTheirs' /\ StarsSurvive'
  <2>1. ASSUME NEW v \in Updates, Kind[v] = "stars"
        PROVE  /\ sess'[v].at \in {"sent", "select", "insert", "credit", "done", "lost"}
               /\ \A p \in People : lock'[p] = v => sess'[v].at = "credit" /\ p = sess'[v].who
               /\ sess'[v].at = "done" => credits'[v] > 0
    <3>1. CASE v = u
      BY <1>0, <2>1, <3>1, StarsStep
    <3>2. CASE v # u
      BY <1>0, <1>2, <1>4, <2>1, <3>2 DEF StarsHoldTheirs, StarsSurvive, TypeOK
    <3>. QED  BY <3>1, <3>2
  <2>. QED  BY <2>1 DEF StarsHoldTheirs, StarsSurvive
<1>6. NewAreUnannounced' /\ AnnouncedOnce'
  BY <1>0, <1>1, AnnounceStep
<1>7. CreditsAreCounted' /\ CreditedOncePerRun'
  <2>1. ASSUME NEW v \in Updates
        PROVE  /\ sess'[v].at # "done" => credits'[v] <= crashes'
               /\ credits'[v] <= 1 + crashes'
    <3>1. CASE v = u
      <4>1. credits[u] <= crashes /\ credits[u] \in Nat
        BY <1>0, <1>2 DEF CreditsAreCounted, Working, TypeOK
      <4>. QED  BY <1>0, <1>2, <1>4, <3>1, <4>1 DEF TypeOK
    <3>2. CASE v # u
      BY <1>0, <1>2, <1>4, <3>2 DEF CreditsAreCounted, CreditedOncePerRun, TypeOK
    <3>. QED  BY <3>1, <3>2
  <2>. QED  BY <2>1 DEF CreditsAreCounted, CreditedOncePerRun
<1>. QED  BY <1>1, <1>3, <1>5, <1>6, <1>7 DEF Inductive

LEMMA InitInductive == Init => Inductive
<1>. SUFFICES ASSUME Init PROVE Inductive
  OBVIOUS
<1>1. TypeOK
  BY BoundsAssumption, FreshIs DEF Init, TypeOK, Working
<1>2. (\A u \in Updates : sess[u] = Fresh) /\ (\A p \in People : lock[p] = Free)
  BY DEF Init
<1>3. Tables
  BY <1>1, <1>2, FreshIs DEF Init, Tables, RowsAreDrawn, DraftsAreLocked, ReferrersAreThere,
     OnlyRunningWork, OneRowEach, InviterIsOlder, Working
<1>4. ImportsGoOn /\ ImportIsWhole
  BY <1>2, FreshIs DEF ImportsGoOn, ImportGoesOn, ImportIsWhole, Working
<1>5. StarsHoldTheirs /\ StarsSurvive
  BY <1>2, FreshIs, UpdatesAssumption DEF StarsHoldTheirs, StarsSurvive
<1>6. NewAreUnannounced /\ AnnouncedOnce
  BY <1>2, FreshIs DEF Init, NewAreUnannounced, AnnouncedOnce
<1>7. CreditsAreCounted /\ CreditedOncePerRun
  BY DEF Init, CreditsAreCounted, CreditedOncePerRun
<1>. QED  BY <1>3, <1>4, <1>5, <1>6, <1>7 DEF Inductive

LEMMA NextInductive == Inductive /\ [Next]_vars => Inductive'
<1>. SUFFICES ASSUME Inductive, [Next]_vars PROVE Inductive'
  OBVIOUS
<1>1. CASE Poll
  BY <1>1, PollKeeps
<1>2. CASE Crash
  BY <1>2, CrashKeeps
<1>3. CASE \E u \in Updates : Step(u) \/ Victim(u)
  BY <1>3, StepKeeps
<1>4. CASE UNCHANGED vars
  BY <1>4 DEF vars, Inductive, Tables, TypeOK, RowsAreDrawn, DraftsAreLocked,
     ReferrersAreThere, OnlyRunningWork, OneRowEach, InviterIsOlder, ImportsGoOn,
     StarsHoldTheirs, NewAreUnannounced, CreditsAreCounted, ImportIsWhole, AnnouncedOnce,
     CreditedOncePerRun, StarsSurvive
<1>. QED  BY <1>1, <1>2, <1>3, <1>4 DEF Next

LEMMA AlwaysInductive == Spec => []Inductive
BY InitInductive, NextInductive, PTL DEF Spec

-----------------------------------------------------------------------------
(* The theorems *)

(* The tables and the handlers always have their types, for any number of  *)
(* updates (get_or_create, start, import_users_from_text, stars_paid).     *)
THEOREM TypeCorrect == Spec => []TypeOK
<1>1. Inductive => TypeOK
  BY DEF Inductive, Tables
<1>. QED  BY <1>1, AlwaysInductive, PTL

(* The unique key and the savepoint of get_or_create leave one row to each *)
(* customer.                                                               *)
THEOREM OneRow == Spec => []OneRowEach
<1>1. Inductive => OneRowEach
  BY DEF Inductive, Tables
<1>. QED  BY <1>1, AlwaysInductive, PTL

(* The inviter that start stores has an older row: invitations are a       *)
(* forest, so that locks of inviters are taken in one order.               *)
THEOREM Forest == Spec => []InviterIsOlder
<1>1. Inductive => InviterIsOlder
  BY DEF Inductive, Tables
<1>. QED  BY <1>1, AlwaysInductive, PTL

(* import_users_from_text registers its whole list or ends in an error.    *)
THEOREM AllOrNothing == Spec => []ImportIsWhole
<1>1. Inductive => ImportIsWhole
  BY DEF Inductive
<1>. QED  BY <1>1, AlwaysInductive, PTL

(* start announces a row at most once, however many handlers of the same   *)
(* customer overlap.                                                       *)
THEOREM OneAnnouncement == Spec => []AnnouncedOnce
<1>1. Inductive => AnnouncedOnce
  BY DEF Inductive
<1>. QED  BY <1>1, AlwaysInductive, PTL

(* stars_paid credits a payment twice only if the process died between.    *)
THEOREM NoSecondCredit == Spec => []CreditedOncePerRun
<1>1. Inductive => CreditedOncePerRun
  BY DEF Inductive
<1>. QED  BY <1>1, AlwaysInductive, PTL

(* stars_paid never ends in an error: it takes one lock only, so that no   *)
(* deadlock picks it, and it commits before it answers.                    *)
THEOREM StarsAreKept == Spec => []StarsSurvive
<1>1. Inductive => StarsSurvive
  BY DEF Inductive
<1>. QED  BY <1>1, AlwaysInductive, PTL

=============================================================================
