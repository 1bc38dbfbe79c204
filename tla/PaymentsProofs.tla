--------------------------- MODULE PaymentsProofs ---------------------------
(***************************************************************************)
(* Proofs about Payments for any number of requests, handlers, receipts,   *)
(* clicks and failures: a deposit is made only while its request is open,  *)
(* and closes it in the same commit.                                       *)
(***************************************************************************)
EXTENDS Payments, TLAPS

-----------------------------------------------------------------------------
(* The inductive invariant *)

(* Only ids that were handed out have rows.                                *)
RowsAreDrawn == \A r \in Payments : row[r] # "none" => r \in drawn

(* A transaction that will insert a request has its id for itself.         *)
Creating(S) ==
    S.at \in {"invoice", "offer"} \/ (S.at = "commit" /\ S.seen = "none" /\ S.mine # "none")
Creates(p) == Creating(sess[p])
CreatorOf(p) ==
    LET S == sess[p] IN
    Creating(S) =>
        /\ S.pay \in drawn /\ row[S.pay] = "none"
        /\ S.seen = "none" /\ S.mine \in Approvable /\ ~S.credit
CreatorsAreAlone ==
    \A p, q \in Procs : Creates(p) /\ Creates(q) /\ sess[p].pay = sess[q].pay => p = q

(* All others know requests that are there, and hold the row of the one    *)
(* they change.                                                            *)
ReaderOf(p) ==
    LET S == sess[p] IN
    /\ S.at \in {"receipt", "review", "approve", "reject", "answer"} =>
          row[S.pay] # "none" /\ S.seen # "none"
    /\ \A r \in S.queue : row[r] # "none"
    /\ S.at \in {"receipt", "review"} => S.mine = "pending"
    /\ S.at = "answer" => S.mine = "rejected"
    /\ S.at = "verify" => S.mine = S.seen
WriterOf(p) ==
    LET S == sess[p] IN
    /\ S.at \in {"review", "answer"} => lock[S.pay] = p
    /\ S.at = "commit" /\ S.mine # S.seen /\ ~Creating(S) =>
          /\ S.pay \in Payments /\ lock[S.pay] = p /\ row[S.pay] # "none"
          /\ S.credit \/ S.mine \in {"pending", "rejected"}

(* Who credits has read the row again under its lock.                      *)
CreditOf(p) ==
    LET S == sess[p] IN
    S.credit =>
        /\ S.at = "commit" /\ S.pay \in Payments /\ lock[S.pay] = p
        /\ row[S.pay] = S.seen /\ S.seen \in Approvable /\ S.mine = "approved"

SessionOf(p) == CreatorOf(p) /\ ReaderOf(p) /\ WriterOf(p) /\ CreditOf(p)
Inductive ==
    /\ TypeOK /\ RowsAreDrawn /\ CreatorsAreAlone
    /\ \A p \in Procs : SessionOf(p)
    /\ ApprovedIsDeposited

-----------------------------------------------------------------------------
(* A step that commits nothing: one session changes, and locks only        *)
(* between Free and its process.                                           *)
Quiet(p) ==
    /\ UNCHANGED tables
    /\ sess' = [sess EXCEPT ![p] = sess'[p]]
    /\ drawn \subseteq drawn'
    /\ \A r \in Payments : lock'[r] = lock[r] \/ lock[r] \in {Free, p}

(* Such a step keeps the invariant if what changed is in order.            *)
LEMMA QuietStep ==
    ASSUME Inductive, TypeOK', NEW p \in Procs, Quiet(p), SessionOf(p)',
           \A q \in Procs : q # p /\ Creates(q) /\ Creates(p)' => sess[q].pay # sess'[p].pay
    PROVE  Inductive'
<1>1. \A q \in Procs : q # p => sess'[q] = sess[q]
  BY DEF Inductive, TypeOK, Quiet
<1>2. \A q \in Procs : q # p => SessionOf(q)'
  <2>. SUFFICES ASSUME NEW q \in Procs, q # p PROVE SessionOf(q)'
    OBVIOUS
  <2>1. SessionOf(q) /\ sess'[q] = sess[q] /\ row' = row /\ drawn \subseteq drawn'
    BY <1>1 DEF Inductive, Quiet, tables
  <2>2. q # Free
    BY ProcsAssumption
  <2>3. \A r \in Payments : lock[r] = q => lock'[r] = q
    BY <2>2 DEF Quiet
  <2>4. sess[q].at \in {"review", "answer"} => sess[q].pay \in Payments
    BY DEF Inductive, TypeOK
  <2>. QED
    BY <2>1, <2>3, <2>4 DEF SessionOf, CreatorOf, ReaderOf, WriterOf, CreditOf, Creating
<1>3. RowsAreDrawn'
  BY DEF Inductive, RowsAreDrawn, Quiet, tables
<1>4. CreatorsAreAlone'
  BY <1>1 DEF Inductive, CreatorsAreAlone, Creates, Creating
<1>5. ApprovedIsDeposited'
  BY DEF Inductive, ApprovedIsDeposited, Quiet, tables
<1>. QED  BY <1>2, <1>3, <1>4, <1>5 DEF Inductive

(* The lock table keeps its type.                                          *)
LEMMA UnlockedIs ==
    ASSUME TypeOK, NEW p \in Procs
    PROVE  /\ Unlocked(p) \in [Payments -> Procs \cup {Free}]
           /\ \A r \in Payments : Unlocked(p)[r] = lock[r] \/ lock[r] = p
BY DEF TypeOK, Unlocked

LEMMA IdleIs ==
    /\ Idle \in Session /\ Idle.at = "idle" /\ ~Idle.credit /\ Idle.queue = {}
    /\ Idle.pay = NoPayment /\ Idle.seen = "none" /\ Idle.mine = "none"
BY DEF Idle, Session, Statuses

(* The table of sessions keeps its type if one of them does.               *)
SessionTypes ==
    /\ sess \in [Procs -> Session]
    /\ \A p \in Procs :
        /\ sess[p].at \notin {"idle", "verify", "commit"} => sess[p].pay \in Payments
        /\ sess[p].at = "verify" => sess[p].queue # {}
LEMMA SessionStep ==
    ASSUME TypeOK, NEW p \in Procs, sess' = [sess EXCEPT ![p] = sess'[p]],
           sess'[p] \in Session,
           sess'[p].at \notin {"idle", "verify", "commit"} => sess'[p].pay \in Payments,
           sess'[p].at = "verify" => sess'[p].queue # {}
    PROVE  SessionTypes'
<1>1. \A q \in Procs : sess'[q] = IF q = p THEN sess'[p] ELSE sess[q]
  BY DEF TypeOK
<1>2. sess' \in [Procs -> Session]
  BY DEF TypeOK
<1>. QED  BY <1>1, <1>2 DEF SessionTypes, TypeOK

(* A rollback keeps the invariant, whatever was told to the chat.          *)
LEMMA RollbackStep ==
    ASSUME Inductive, NEW p \in Procs, Rollback(p), UNCHANGED <<tables, drawn, paid>>,
           offered' \in [Payments -> BOOLEAN], review' \in [Payments -> BOOLEAN],
           asking' \in Payments \cup {NoPayment},
           receipts' \in Nat, clicks' \in Nat, failures' \in Nat
    PROVE  Inductive'
<1>1. sess' = [sess EXCEPT ![p] = Idle] /\ sess'[p] = Idle /\ lock' = Unlocked(p)
  BY DEF Rollback, Become, Inductive, TypeOK
<1>2. TypeOK'
  BY <1>1, UnlockedIs, IdleIs DEF Inductive, TypeOK, tables
<1>3. Quiet(p)
  BY <1>1, UnlockedIs DEF Quiet, tables, Inductive
<1>4. SessionOf(p)' /\ ~Creates(p)'
  BY <1>1, IdleIs DEF SessionOf, CreatorOf, ReaderOf, WriterOf, CreditOf, Creating, Creates
<1>. QED  BY <1>2, <1>3, <1>4, QuietStep

-----------------------------------------------------------------------------
(* One lemma for every action *)

LEMMA InitHolds == Init => Inductive
<1>. SUFFICES ASSUME Init PROVE Inductive
  OBVIOUS
<1>1. TypeOK
  BY IdleIs, IdsAssumption DEF Init, TypeOK, Statuses
<1>2. \A p \in Procs : SessionOf(p) /\ ~Creates(p)
  BY IdleIs DEF Init, SessionOf, CreatorOf, ReaderOf, WriterOf, CreditOf, Creating, Creates
<1>. QED
  BY <1>1, <1>2
     DEF Init, Inductive, RowsAreDrawn, CreatorsAreAlone, ApprovedIsDeposited

LEMMA CreateStep ==
    ASSUME Inductive, NEW p \in Chats, Create(p)
    PROVE  Inductive'
<1>. p \in Procs
  BY DEF Procs
<1>1. PICK r \in Payments \ drawn :
        /\ drawn' = drawn \cup {r}
        /\ asking' = IF r \in Crypto THEN NoPayment ELSE asking
        /\ sess' = [sess EXCEPT ![p] = [Idle EXCEPT
              !.at = IF r \in Crypto THEN "invoice" ELSE "offer", !.pay = r,
              !.mine = IF r \in Crypto THEN "pending" ELSE "waiting_receipt"]]
  BY DEF Create, Become
<1>2. /\ sess'[p] \in Session /\ sess'[p].at \in {"invoice", "offer"}
      /\ sess'[p].pay = r /\ sess'[p].mine \in Approvable
      /\ sess'[p].seen = "none" /\ ~sess'[p].credit /\ sess'[p].queue = {}
      /\ sess' = [sess EXCEPT ![p] = sess'[p]]
  BY <1>1, IdleIs DEF Inductive, TypeOK, Session, Statuses, Approvable
<1>3. row[r] = "none"
  BY DEF Inductive, RowsAreDrawn
<1>4. TypeOK'
  BY <1>1, <1>2 DEF Inductive, TypeOK, Create, tables, bounds
<1>5. Quiet(p)
  BY <1>1, <1>2 DEF Quiet, Create
<1>6. SessionOf(p)'
  BY <1>1, <1>2, <1>3
     DEF SessionOf, CreatorOf, ReaderOf, WriterOf, CreditOf, Creating, Create, tables
<1>7. \A q \in Procs : Creates(q) => sess[q].pay \in drawn
  BY DEF Inductive, SessionOf, CreatorOf, Creates
<1>. QED  BY <1>1, <1>2, <1>4, <1>5, <1>6, <1>7, QuietStep

LEMMA InvoiceStep ==
    ASSUME Inductive, NEW p \in Chats, Invoice(p)
    PROVE  Inductive'
<1>. p \in Procs
  BY DEF Procs
<1>1. CASE Rollback(p) /\ Fails("provider")
  BY <1>1, RollbackStep DEF Inductive, TypeOK, Invoice, Fails, chat
<1>2. CASE Become(p, [sess[p] EXCEPT !.at = "offer"]) /\ UNCHANGED <<lock, failures>>
  <2>1. /\ sess' = [sess EXCEPT ![p] = sess'[p]]
        /\ sess'[p] = [sess[p] EXCEPT !.at = "offer"] /\ sess'[p] \in Session
    BY <1>2 DEF Become, Inductive, TypeOK, Session
  <2>2. SessionTypes'
    BY <2>1, SessionStep DEF Inductive, TypeOK, Invoice, Session
  <2>. TypeOK'
    BY <1>2, <2>2 DEF Inductive, TypeOK, SessionTypes, Invoice, tables, chat
  <2>3. Quiet(p)
    BY <1>2, <2>1 DEF Quiet, Invoice, chat
  <2>4. Creates(p) /\ SessionOf(p)'
    BY <1>2, <2>1
       DEF Inductive, SessionOf, CreatorOf, ReaderOf, WriterOf, CreditOf, Creating,
           Creates, Invoice, tables, chat, TypeOK, Session
  <2>. QED
    BY <2>1, <2>2, <2>3, <2>4, QuietStep DEF Inductive, CreatorsAreAlone, TypeOK, Session
<1>. QED  BY <1>1, <1>2 DEF Invoice

LEMMA OfferStep ==
    ASSUME Inductive, NEW p \in Chats, Offer(p)
    PROVE  Inductive'
<1>. p \in Procs
  BY DEF Procs
<1>1. offered' \in [Payments -> BOOLEAN]
  BY DEF Offer, Inductive, TypeOK
<1>2. CASE Rollback(p) /\ Fails("telegram")
  BY <1>1, <1>2, RollbackStep DEF Inductive, TypeOK, Offer, Fails
<1>3. CASE Become(p, [sess[p] EXCEPT !.at = "commit"]) /\ UNCHANGED <<lock, failures>>
  <2>1. /\ sess' = [sess EXCEPT ![p] = sess'[p]]
        /\ sess'[p] = [sess[p] EXCEPT !.at = "commit"] /\ sess'[p] \in Session
    BY <1>3 DEF Become, Inductive, TypeOK, Session
  <2>2. SessionTypes'
    BY <2>1, SessionStep DEF Inductive, Session
  <2>. TypeOK'
    BY <1>1, <1>3, <2>2 DEF Inductive, TypeOK, SessionTypes, Offer, tables
  <2>3. Quiet(p)
    BY <1>3, <2>1 DEF Quiet, Offer
  <2>4. Creates(p) /\ sess[p].mine \in Approvable /\ sess[p].seen = "none"
    BY DEF Inductive, SessionOf, CreatorOf, Creating, Creates, Offer
  <2>5. SessionOf(p)'
    BY <1>3, <2>1, <2>4
       DEF Inductive, SessionOf, CreatorOf, ReaderOf, WriterOf, CreditOf, Creating,
           Creates, Offer, tables, TypeOK, Session, Approvable
  <2>. QED
    BY <2>1, <2>2, <2>3, <2>4, <2>5, QuietStep DEF Inductive, CreatorsAreAlone, TypeOK, Session
<1>. QED  BY <1>2, <1>3 DEF Offer

LEMMA ReceiveStep ==
    ASSUME Inductive, NEW p \in Chats, Receive(p)
    PROVE  Inductive'
<1>. p \in Procs
  BY DEF Procs
<1>1. PICK r \in Payments :
        /\ row[r] # "none"
        /\ sess' = [sess EXCEPT ![p] = [Idle EXCEPT
              !.at = "receipt", !.pay = r, !.seen = row[r], !.mine = "pending"]]
  BY DEF Receive, Become
<1>2. /\ sess' = [sess EXCEPT ![p] = sess'[p]] /\ sess'[p] \in Session
      /\ sess'[p].at = "receipt" /\ sess'[p].pay = r /\ sess'[p].seen = row[r]
      /\ sess'[p].mine = "pending" /\ ~sess'[p].credit /\ sess'[p].queue = {}
  BY <1>1, IdleIs DEF Inductive, TypeOK, Session, Statuses
<1>3. TypeOK'
  BY <1>2 DEF Inductive, TypeOK, Receive, tables, chat
<1>4. Quiet(p)
  BY <1>2 DEF Quiet, Receive, chat
<1>5. SessionOf(p)' /\ ~Creates(p)'
  BY <1>1, <1>2
     DEF SessionOf, CreatorOf, ReaderOf, WriterOf, CreditOf, Creating, Creates, Receive, tables
<1>. QED  BY <1>3, <1>4, <1>5, QuietStep

LEMMA FlushReceiptStep ==
    ASSUME Inductive, NEW p \in Chats, FlushReceipt(p)
    PROVE  Inductive'
<1>. p \in Procs
  BY DEF Procs
<1>1. /\ sess' = [sess EXCEPT ![p] = sess'[p]]
      /\ sess'[p] = [sess[p] EXCEPT !.at = "review"] /\ sess'[p] \in Session
  BY DEF FlushReceipt, Become, Inductive, TypeOK, Session
<1>2. /\ sess[p].pay \in Payments /\ lock[sess[p].pay] \in {Free, p}
      /\ lock' = [lock EXCEPT ![sess[p].pay] = p]
  BY DEF FlushReceipt, Lock, CanLock, Inductive, TypeOK
<1>3. SessionTypes'
  BY <1>1, <1>2, SessionStep DEF Inductive, Session
<1>. TypeOK'
  BY <1>2, <1>3 DEF Inductive, TypeOK, SessionTypes, FlushReceipt, tables, chat, bounds
<1>4. Quiet(p)
  BY <1>1, <1>2 DEF Quiet, FlushReceipt, chat, Inductive, TypeOK
<1>5. SessionOf(p)' /\ ~Creates(p)'
  BY <1>1, <1>2
     DEF Inductive, SessionOf, CreatorOf, ReaderOf, WriterOf, CreditOf, Creating,
         Creates, FlushReceipt, tables, TypeOK, Session
<1>. QED  BY <1>3, <1>4, <1>5, QuietStep

LEMMA ReviewStep ==
    ASSUME Inductive, NEW p \in Chats, Review(p)
    PROVE  Inductive'
<1>. p \in Procs
  BY DEF Procs
<1>1. review' \in [Payments -> BOOLEAN] /\ asking' \in Payments \cup {NoPayment}
  BY DEF Review, Inductive, TypeOK
<1>2. CASE Rollback(p) /\ Fails("telegram")
  BY <1>1, <1>2, RollbackStep DEF Inductive, TypeOK, Review, Fails
<1>3. CASE Become(p, [sess[p] EXCEPT !.at = "commit"]) /\ UNCHANGED <<lock, failures>>
  <2>1. /\ sess' = [sess EXCEPT ![p] = sess'[p]]
        /\ sess'[p] = [sess[p] EXCEPT !.at = "commit"] /\ sess'[p] \in Session
    BY <1>3 DEF Become, Inductive, TypeOK, Session
  <2>2. SessionTypes'
    BY <2>1, SessionStep DEF Inductive, Session
  <2>. TypeOK'
    BY <1>1, <1>3, <2>2 DEF Inductive, TypeOK, SessionTypes, Review, tables
  <2>3. Quiet(p)
    BY <1>3, <2>1 DEF Quiet, Review
  <2>4. SessionOf(p)' /\ ~Creates(p)'
    BY <1>3, <2>1
       DEF Inductive, SessionOf, CreatorOf, ReaderOf, WriterOf, CreditOf, Creating,
           Creates, Review, tables, TypeOK, Session
  <2>. QED  BY <2>2, <2>3, <2>4, QuietStep
<1>. QED  BY <1>2, <1>3 DEF Review

LEMMA ClickStep ==
    ASSUME Inductive, NEW p \in Admins, Click(p)
    PROVE  Inductive'
<1>. p \in Procs
  BY DEF Procs
<1>1. PICK r \in Payments, verdict \in {"approve", "reject"} :
        /\ row[r] # "none"
        /\ sess' = [sess EXCEPT ![p] =
              [Idle EXCEPT !.at = verdict, !.pay = r, !.seen = row[r]]]
  BY DEF Click, Become
<1>2. /\ sess' = [sess EXCEPT ![p] = sess'[p]] /\ sess'[p] \in Session
      /\ sess'[p].at = verdict /\ sess'[p].pay = r /\ sess'[p].seen = row[r]
      /\ ~sess'[p].credit /\ sess'[p].queue = {}
  BY <1>1, IdleIs DEF Inductive, TypeOK, Session, Statuses
<1>3. SessionTypes'
  BY <1>2, SessionStep DEF Inductive
<1>4. TypeOK'
  BY <1>3 DEF Inductive, TypeOK, SessionTypes, Click, tables, chat
<1>5. Quiet(p)
  BY <1>2 DEF Quiet, Click, chat
<1>6. SessionOf(p)' /\ ~Creates(p)'
  BY <1>1, <1>2
     DEF SessionOf, CreatorOf, ReaderOf, WriterOf, CreditOf, Creating, Creates, Click, tables
<1>. QED  BY <1>4, <1>5, <1>6, QuietStep

(* The row is read again, and what is committed depends on that alone.     *)
LEMMA ApproveStep ==
    ASSUME Inductive, NEW p \in Admins \cup Jobs, Approve(p)
    PROVE  Inductive'
<1>. p \in Procs
  BY DEF Procs
<1>. DEFINE S == sess[p]
            status == row[S.pay]
<1>1. /\ S \in Session /\ S.at = "approve" /\ S.pay \in Payments
      /\ lock[S.pay] \in {Free, p} /\ status \in Statuses /\ ~S.credit
  BY DEF Inductive, TypeOK, Approve, CanLock, SessionOf, CreditOf
<1>2. CASE Rollback(p)
  BY <1>2, RollbackStep DEF Inductive, TypeOK, Approve, chat, bounds
<1>3. CASE /\ status = "approved" /\ lock' = [lock EXCEPT ![S.pay] = p]
           /\ Become(p, [S EXCEPT !.at = Resume(S), !.seen = status, !.mine = status])
  <2>1. /\ sess' = [sess EXCEPT ![p] = sess'[p]] /\ sess'[p] \in Session
        /\ sess'[p] = [S EXCEPT !.at = Resume(S), !.seen = status, !.mine = status]
        /\ sess'[p].at = IF S.queue = {} THEN "commit" ELSE "verify"
        /\ sess'[p].seen = "approved" /\ sess'[p].mine = "approved"
        /\ ~sess'[p].credit /\ sess'[p].queue = S.queue
    BY <1>1, <1>3 DEF Become, Resume, Inductive, TypeOK, Session
  <2>2. SessionTypes'
    BY <2>1, SessionStep DEF Inductive
  <2>3. TypeOK'
    BY <1>1, <1>3, <2>2 DEF Inductive, TypeOK, SessionTypes, Approve, tables, chat, bounds
  <2>4. Quiet(p)
    BY <1>1, <1>3, <2>1 DEF Quiet, Approve, chat, Inductive, TypeOK
  <2>5. SessionOf(p)' /\ ~Creates(p)'
    BY <2>1
       DEF Inductive, SessionOf, CreatorOf, ReaderOf, WriterOf, CreditOf, Creating,
           Creates, Approve, tables
  <2>. QED  BY <2>3, <2>4, <2>5, QuietStep
<1>4. CASE /\ status \in Approvable /\ lock' = [lock EXCEPT ![S.pay] = p]
           /\ Become(p, [S EXCEPT !.at = "commit", !.seen = status,
                                  !.mine = "approved", !.credit = TRUE])
  <2>1. /\ sess' = [sess EXCEPT ![p] = sess'[p]] /\ sess'[p] \in Session
        /\ sess'[p].at = "commit" /\ sess'[p].seen = status /\ sess'[p].mine = "approved"
        /\ sess'[p].credit /\ sess'[p].queue = S.queue /\ sess'[p].pay = S.pay
    BY <1>1, <1>4 DEF Become, Inductive, TypeOK, Session, Statuses
  <2>2. SessionTypes'
    BY <2>1, SessionStep DEF Inductive
  <2>3. TypeOK'
    BY <1>1, <1>4, <2>2 DEF Inductive, TypeOK, SessionTypes, Approve, tables, chat, bounds
  <2>4. Quiet(p)
    BY <1>1, <1>4, <2>1 DEF Quiet, Approve, chat, Inductive, TypeOK
  <2>5. SessionOf(p)' /\ ~Creates(p)'
    BY <1>1, <1>4, <2>1
       DEF Inductive, TypeOK, SessionOf, CreatorOf, ReaderOf, WriterOf, CreditOf,
           Creating, Creates, Approve, tables, Approvable
  <2>. QED  BY <2>3, <2>4, <2>5, QuietStep
<1>. QED  BY <1>1, <1>2, <1>3, <1>4 DEF Approve, Refreshed, Approvable

LEMMA RejectStep ==
    ASSUME Inductive, NEW p \in Admins, Reject(p)
    PROVE  Inductive'
<1>. p \in Procs
  BY DEF Procs
<1>1. /\ sess' = [sess EXCEPT ![p] = sess'[p]] /\ sess'[p] \in Session
      /\ sess'[p] = [sess[p] EXCEPT !.at = "answer", !.mine = "rejected"]
  BY DEF Reject, Become, Inductive, TypeOK, Session, Statuses
<1>2. /\ sess[p].pay \in Payments /\ lock[sess[p].pay] \in {Free, p}
      /\ lock' = [lock EXCEPT ![sess[p].pay] = p]
  BY DEF Reject, Lock, CanLock, Inductive, TypeOK
<1>3. SessionTypes'
  BY <1>1, <1>2, SessionStep DEF Inductive, TypeOK, Session
<1>4. TypeOK'
  BY <1>2, <1>3 DEF Inductive, TypeOK, SessionTypes, Reject, tables, chat, bounds
<1>5. Quiet(p)
  BY <1>1, <1>2 DEF Quiet, Reject, chat, Inductive, TypeOK
<1>6. SessionOf(p)' /\ ~Creates(p)'
  BY <1>1, <1>2
     DEF Inductive, SessionOf, CreatorOf, ReaderOf, WriterOf, CreditOf, Creating,
         Creates, Reject, tables, TypeOK, Session
<1>. QED  BY <1>4, <1>5, <1>6, QuietStep

LEMMA AnswerStep ==
    ASSUME Inductive, NEW p \in Admins, Answer(p)
    PROVE  Inductive'
<1>. p \in Procs
  BY DEF Procs
<1>1. CASE Rollback(p) /\ Fails("telegram")
  BY <1>1, RollbackStep DEF Inductive, TypeOK, Answer, Fails, chat
<1>2. CASE Become(p, [sess[p] EXCEPT !.at = "commit"]) /\ UNCHANGED <<lock, failures>>
  <2>1. /\ sess' = [sess EXCEPT ![p] = sess'[p]]
        /\ sess'[p] = [sess[p] EXCEPT !.at = "commit"] /\ sess'[p] \in Session
    BY <1>2 DEF Become, Inductive, TypeOK, Session
  <2>2. SessionTypes'
    BY <2>1, SessionStep DEF Inductive, Session
  <2>3. TypeOK'
    BY <1>2, <2>2 DEF Inductive, TypeOK, SessionTypes, Answer, tables, chat
  <2>4. Quiet(p)
    BY <1>2, <2>1 DEF Quiet, Answer, chat
  <2>5. SessionOf(p)' /\ ~Creates(p)'
    BY <1>2, <2>1
       DEF Inductive, SessionOf, CreatorOf, ReaderOf, WriterOf, CreditOf, Creating,
           Creates, Answer, tables, TypeOK, Session
  <2>. QED  BY <2>3, <2>4, <2>5, QuietStep
<1>. QED  BY <1>1, <1>2 DEF Answer

LEMMA VerifyStartStep ==
    ASSUME Inductive, NEW p \in Jobs, VerifyStart(p)
    PROVE  Inductive'
<1>. p \in Procs
  BY DEF Procs
<1>. DEFINE found == {r \in Crypto : Verifiable(r)}
<1>1. /\ found # {} /\ found \subseteq Payments
      /\ sess' = [sess EXCEPT ![p] = [Idle EXCEPT !.at = "verify", !.queue = found]]
  BY IdsAssumption DEF VerifyStart, Become
<1>2. /\ sess' = [sess EXCEPT ![p] = sess'[p]] /\ sess'[p] \in Session
      /\ sess'[p].at = "verify" /\ sess'[p].seen = "none" /\ sess'[p].mine = "none"
      /\ ~sess'[p].credit /\ sess'[p].queue = found
  BY <1>1, IdleIs DEF Inductive, TypeOK, Session
<1>3. SessionTypes'
  BY <1>1, <1>2, SessionStep DEF Inductive
<1>4. TypeOK'
  BY <1>3 DEF Inductive, TypeOK, SessionTypes, VerifyStart, tables, chat, bounds
<1>5. Quiet(p)
  BY <1>2 DEF Quiet, VerifyStart, chat
<1>6. SessionOf(p)' /\ ~Creates(p)'
  BY <1>2
     DEF SessionOf, CreatorOf, ReaderOf, WriterOf, CreditOf, Creating, Creates,
         VerifyStart, Verifiable, tables
<1>. QED  BY <1>4, <1>5, <1>6, QuietStep

LEMMA VerifyStep ==
    ASSUME Inductive, NEW p \in Jobs, Verify(p)
    PROVE  Inductive'
<1>. p \in Procs
  BY DEF Procs
<1>1. CASE Rollback(p) /\ Fails("provider")
  BY <1>1, RollbackStep DEF Inductive, TypeOK, Verify, Fails, chat
<1>2. ASSUME NEW r \in sess[p].queue, UNCHANGED <<lock, failures>>,
             LET T == [sess[p] EXCEPT !.queue = sess[p].queue \ {r}] IN
                Become(p, IF paid[r]
                   THEN [T EXCEPT !.at = "approve", !.pay = r, !.seen = "pending"]
                   ELSE [T EXCEPT !.at = Resume(T)])
      PROVE  Inductive'
  <2>1. /\ sess' = [sess EXCEPT ![p] = sess'[p]] /\ sess'[p] \in Session
        /\ r \in Payments /\ sess'[p].queue = sess[p].queue \ {r}
        /\ sess'[p].mine = sess[p].mine /\ sess'[p].credit = sess[p].credit
        /\ \/ sess'[p].at = "approve" /\ sess'[p].pay = r /\ sess'[p].seen = "pending"
           \/ /\ sess'[p].at = IF sess[p].queue \ {r} = {} THEN "commit" ELSE "verify"
              /\ sess'[p].pay = sess[p].pay /\ sess'[p].seen = sess[p].seen
    BY <1>2 DEF Become, Resume, Inductive, TypeOK, Session, Statuses
  <2>2. SessionTypes'
    BY <2>1, SessionStep DEF Inductive
  <2>3. TypeOK'
    BY <1>2, <2>2 DEF Inductive, TypeOK, SessionTypes, Verify, tables, chat
  <2>4. Quiet(p)
    BY <1>2, <2>1 DEF Quiet, Verify, chat
  <2>5. /\ sess[p].mine = sess[p].seen /\ ~sess[p].credit
        /\ \A x \in sess[p].queue : row[x] # "none"
    BY DEF Inductive, SessionOf, ReaderOf, CreditOf, Verify
  <2>6. SessionOf(p)' /\ ~Creates(p)'
    BY <2>1, <2>5
       DEF SessionOf, CreatorOf, ReaderOf, WriterOf, CreditOf, Creating, Creates, Verify, tables
  <2>. QED  BY <2>3, <2>4, <2>6, QuietStep
<1>. QED  BY <1>1, <1>2 DEF Verify

LEMMA AbortStep ==
    ASSUME Inductive, NEW p \in Procs, Abort(p)
    PROVE  Inductive'
BY RollbackStep DEF Inductive, TypeOK, Abort, Fails, chat

(* The customer's own steps touch no transaction.                          *)
LEMMA CustomerStep ==
    ASSUME Inductive, NEW r \in Payments, AskReceipt(r) \/ Pay(r)
    PROVE  Inductive'
<1>1. /\ UNCHANGED <<tables, lock, sess, drawn, bounds>>
      /\ offered' \in [Payments -> BOOLEAN] /\ asking' \in Payments \cup {NoPayment}
      /\ review' = review /\ paid' \in [Payments -> BOOLEAN]
  BY DEF AskReceipt, Pay, Inductive, TypeOK
<1>2. TypeOK'
  BY <1>1 DEF Inductive, TypeOK, tables, bounds
<1>. QED
  BY <1>1, <1>2
     DEF Inductive, RowsAreDrawn, CreatorsAreAlone, Creates, Creating, SessionOf,
         CreatorOf, ReaderOf, WriterOf, CreditOf, ApprovedIsDeposited, tables

-----------------------------------------------------------------------------
(* A commit *)

(* It changes the status of a new request, or of one it holds, and an      *)
(* approval is written only with its deposit.                              *)
LEMMA WhatCommitWrites ==
    ASSUME Inductive, NEW p \in Procs, Commit(p)
    PROVE  /\ row' \in [Payments -> Statuses] /\ deposits' \in [Payments -> Nat]
           /\ \A r \in Payments : row[r] # "none" => row'[r] # "none"
           /\ \A r \in Payments : row'[r] # row[r] =>
                /\ r = sess[p].pay /\ row'[r] = sess[p].mine
                /\ \/ Creates(p) /\ row[r] = "none" /\ r \in drawn
                   \/ lock[r] = p /\ row[r] # "none"
                /\ row'[r] = "approved" => sess[p].credit
           /\ \A r \in Payments : deposits'[r] # deposits[r] =>
                /\ r = sess[p].pay /\ sess[p].credit /\ deposits'[r] = deposits[r] + 1
           /\ \A r \in Payments : deposits'[r] >= deposits[r]
<1>. DEFINE S == sess[p]
<1>1. /\ S \in Session /\ S.at = "commit" /\ S.mine \in Statuses
      /\ CreatorOf(p) /\ WriterOf(p) /\ CreditOf(p)
      /\ row \in [Payments -> Statuses] /\ deposits \in [Payments -> Nat]
  BY DEF Inductive, SessionOf, Commit, TypeOK, Session
<1>2. /\ row' = [r \in Payments |-> IF r = S.pay THEN Written(S, r) ELSE row[r]]
      /\ deposits' = [r \in Payments |->
                        IF r = S.pay THEN Deposited(S, r) ELSE deposits[r]]
  BY DEF Commit
<1>3. \A r \in Payments : r # S.pay => row'[r] = row[r] /\ deposits'[r] = deposits[r]
  BY <1>2
<1>4. \A r \in Payments : r = S.pay =>
        /\ row'[r] = IF S.mine # S.seen THEN S.mine ELSE row[r]
        /\ deposits'[r] = IF S.credit THEN deposits[r] + 1 ELSE deposits[r]
  BY <1>2 DEF Written, Deposited
<1>5. row' \in [Payments -> Statuses] /\ deposits' \in [Payments -> Nat]
  <2>1. \A r \in Payments : row'[r] \in Statuses /\ deposits'[r] \in Nat
    BY <1>1, <1>3, <1>4
  <2>. QED  BY <1>2, <2>1
<1>6. ASSUME NEW r \in Payments, row'[r] # row[r]
      PROVE  /\ r = S.pay /\ row'[r] = S.mine /\ row'[r] # "none"
             /\ \/ Creates(p) /\ row[r] = "none" /\ r \in drawn
                \/ lock[r] = p /\ row[r] # "none"
             /\ row'[r] = "approved" => S.credit
  <2>1. r = S.pay /\ S.mine # S.seen /\ row'[r] = S.mine
    BY <1>3, <1>4, <1>6
  <2>2. CASE Creates(p)
    BY <1>1, <2>1, <2>2 DEF CreatorOf, Creates, Approvable
  <2>3. CASE ~Creates(p)
    BY <1>1, <2>1, <2>3 DEF WriterOf, CreditOf, Creates
  <2>. QED  BY <2>1, <2>2, <2>3
<1>. QED  BY <1>1, <1>3, <1>4, <1>5, <1>6

LEMMA CommitStep ==
    ASSUME Inductive, NEW p \in Procs, Commit(p)
    PROVE  Inductive'
<1>. DEFINE S == sess[p]
<1>1. /\ sess' = [sess EXCEPT ![p] = sess'[p]] /\ sess'[p] \in Session
      /\ sess'[p].at = IF S.queue = {} THEN "idle" ELSE "verify"
      /\ ~sess'[p].credit /\ sess'[p].queue = S.queue
      /\ sess'[p].seen = "none" /\ sess'[p].mine = "none"
  BY IdleIs DEF Commit, Become, Inductive, TypeOK, Session
<1>2. SessionTypes'
  BY <1>1, SessionStep DEF Inductive
<1>3. lock' = Unlocked(p) /\ UNCHANGED <<chat, bounds>>
  BY DEF Commit
<1>4. TypeOK'
  BY <1>2, <1>3, WhatCommitWrites, UnlockedIs
     DEF Inductive, TypeOK, SessionTypes, chat, bounds
<1>5. RowsAreDrawn'
  BY <1>3, WhatCommitWrites DEF Inductive, RowsAreDrawn, chat
<1>6. \A q \in Procs : q # p => sess'[q] = sess[q]
  BY <1>1 DEF Inductive, TypeOK
<1>7. ~Creates(p)'
  BY <1>1 DEF Creates, Creating
<1>8. CreatorsAreAlone'
  BY <1>6, <1>7 DEF Inductive, CreatorsAreAlone, Creates
<1>9. SessionOf(p)'
  BY <1>1, <1>7, WhatCommitWrites
     DEF SessionOf, CreatorOf, ReaderOf, WriterOf, CreditOf, Creates, Inductive, TypeOK, Session
<1>10. ASSUME NEW q \in Procs, q # p PROVE SessionOf(q)'
  <2>. DEFINE Q == sess[q]
  <2>1. Q \in Session /\ sess'[q] = Q /\ SessionOf(q)
    BY <1>6, <1>10 DEF Inductive, TypeOK
  <2>2. \A r \in Payments : lock[r] = q => lock'[r] = q
    BY <1>3, <1>10, UnlockedIs DEF Inductive
  <2>3. \A r \in Payments : lock[r] = q => row'[r] = row[r] \/ row[r] = "none"
    BY <1>10, WhatCommitWrites
  <2>4. CreatorOf(q)'
    <3>1. SUFFICES ASSUME Creates(q) PROVE row'[Q.pay] = "none" /\ Q.pay \in drawn'
      BY <2>1 DEF SessionOf, CreatorOf, Creates
    <3>2. Q.pay \in Payments /\ row[Q.pay] = "none" /\ Q.pay \in drawn
      BY <2>1, <3>1 DEF SessionOf, CreatorOf, Creates, Inductive, TypeOK
    <3>3. Creates(p) => S.pay # Q.pay
      BY <1>10, <3>1 DEF Inductive, CreatorsAreAlone
    <3>. QED  BY <1>3, <3>2, <3>3, WhatCommitWrites DEF chat
  <2>5. ReaderOf(q)'
    <3>1. Q.at \in {"receipt", "review", "approve", "reject", "answer"} => Q.pay \in Payments
      BY DEF Inductive, TypeOK
    <3>2. Q.queue \subseteq Payments
      BY <2>1 DEF Session
    <3>. QED  BY <2>1, <3>1, <3>2, WhatCommitWrites DEF SessionOf, ReaderOf
  <2>6. WriterOf(q)'
    <3>1. Q.at \in {"review", "answer"} => Q.pay \in Payments
      BY DEF Inductive, TypeOK
    <3>. QED  BY <2>1, <2>2, <3>1, WhatCommitWrites DEF SessionOf, WriterOf, Creating
  <2>7. CreditOf(q)'
    BY <2>1, <2>2, <2>3 DEF SessionOf, CreditOf, Approvable
  <2>. QED  BY <2>4, <2>5, <2>6, <2>7 DEF SessionOf
<1>11. ApprovedIsDeposited'
  <2>1. SUFFICES ASSUME NEW r \in Payments, row'[r] = "approved" PROVE deposits'[r] > 0
    BY DEF ApprovedIsDeposited
  <2>2. /\ deposits[r] \in Nat /\ deposits'[r] \in Nat /\ deposits'[r] >= deposits[r]
        /\ row[r] = "approved" => deposits[r] > 0
    BY WhatCommitWrites DEF Inductive, TypeOK, ApprovedIsDeposited
  <2>3. CASE row[r] = "approved"
    BY <2>2, <2>3
  <2>4. CASE row[r] # "approved"
    <3>1. r = S.pay /\ S.credit
      BY <2>1, <2>4, WhatCommitWrites
    <3>2. deposits'[r] = deposits[r] + 1
      BY <3>1 DEF Commit, Deposited
    <3>. QED  BY <2>2, <3>2
  <2>. QED  BY <2>3, <2>4
<1>. QED  BY <1>4, <1>5, <1>8, <1>9, <1>10, <1>11 DEF Inductive

-----------------------------------------------------------------------------
(* The theorems *)

LEMMA NextStep ==
    ASSUME Inductive, [Next]_vars
    PROVE  Inductive'
<1>1. CASE UNCHANGED vars
  BY <1>1
     DEF vars, tables, chat, bounds, Inductive, TypeOK, RowsAreDrawn, CreatorsAreAlone,
         Creates, Creating, SessionOf, CreatorOf, ReaderOf, WriterOf, CreditOf,
         ApprovedIsDeposited
<1>2. ASSUME NEW p \in Chats, Create(p) \/ Receive(p) \/ ChatStep(p)
      PROVE  Inductive'
  BY <1>2, CreateStep, ReceiveStep, InvoiceStep, OfferStep, FlushReceiptStep,
     ReviewStep, CommitStep DEF ChatStep, Procs
<1>3. ASSUME NEW p \in Admins, Click(p) \/ AdminStep(p)
      PROVE  Inductive'
  BY <1>3, ClickStep, ApproveStep, RejectStep, AnswerStep, CommitStep DEF AdminStep, Procs
<1>4. ASSUME NEW p \in Jobs, JobStep(p)
      PROVE  Inductive'
  BY <1>4, VerifyStartStep, VerifyStep, ApproveStep, CommitStep DEF JobStep, Procs
<1>. QED  BY <1>1, <1>2, <1>3, <1>4, AbortStep, CustomerStep DEF Next

(* Transactions hold the rows they change, new requests are alone, and a   *)
(* credit is given only on a status read again under the lock.             *)
THEOREM PaymentsInvariant == Spec => []Inductive
<1>. QED  BY InitHolds, NextStep, PTL DEF Spec

(* The requests, the locks and the open transactions keep their shape.     *)
THEOREM TypeCorrect == Spec => []TypeOK
<1>1. Inductive => TypeOK
  BY DEF Inductive
<1>. QED  BY <1>1, PaymentsInvariant, PTL

(* PaymentService.approve writes "approved" and the deposit in one commit. *)
THEOREM ApprovedAreDeposited == Spec => []ApprovedIsDeposited
<1>1. Inductive => ApprovedIsDeposited
  BY DEF Inductive
<1>. QED  BY <1>1, PaymentsInvariant, PTL

(* "Two admin callbacks/provider retries must never credit a receipt       *)
(* twice": a deposit is made while the request is open, and closes it.     *)
THEOREM DepositsClose == Spec => DepositClosesRequest
<1>. DEFINE Closes ==
       \A r \in Payments :
          deposits'[r] # deposits[r] =>
            /\ row[r] \in Approvable /\ row'[r] = "approved"
            /\ deposits'[r] = deposits[r] + 1
<1>1. ASSUME Inductive, NEW p \in Procs, Commit(p)
      PROVE  Closes
  <2>1. SUFFICES ASSUME NEW r \in Payments, deposits'[r] # deposits[r]
        PROVE  /\ row[r] \in Approvable /\ row'[r] = "approved"
               /\ deposits'[r] = deposits[r] + 1
    OBVIOUS
  <2>2. r = sess[p].pay /\ sess[p].credit /\ deposits'[r] = deposits[r] + 1
    BY <1>1, <2>1, WhatCommitWrites
  <2>3. row[r] = sess[p].seen /\ sess[p].seen \in Approvable /\ sess[p].mine = "approved"
    BY <1>1, <2>2 DEF Inductive, SessionOf, CreditOf
  <2>. QED  BY <1>1, <2>2, <2>3 DEF Commit, Written, Approvable
<1>2. ASSUME Next, \A p \in Procs : ~Commit(p)
      PROVE  deposits' = deposits
  BY <1>2
     DEF Next, ChatStep, AdminStep, JobStep, Create, Invoice, Offer, AskReceipt, Receive,
         FlushReceipt, Review, Pay, Click, Approve, Reject, Answer, VerifyStart, Verify,
         Abort, tables, Procs
<1>3. Inductive /\ [Next]_vars => [Closes]_vars
  BY <1>1, <1>2
<1>. QED  BY <1>3, PaymentsInvariant, PTL DEF Spec, DepositClosesRequest
=============================================================================
