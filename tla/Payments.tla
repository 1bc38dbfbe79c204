------------------------------ MODULE Payments ------------------------------
(***************************************************************************)
(* The payment requests of a customer, from the chat over the provider or  *)
(* the admins to the deposit: card receipts that admins review, crypto     *)
(* invoices that a job verifies.  A handler is one database transaction    *)
(* around Telegram and provider calls, and the updates of a chat are       *)
(* handled concurrently; lock is the row lock on payment_requests that an  *)
(* UPDATE or FOR UPDATE takes until commit.                                *)
(***************************************************************************)
EXTENDS Naturals, FiniteSets

CONSTANTS
    Payments,              \* ids of payment requests, positive integers
    Crypto,                \* those paid through a provider; the rest by card
    Chats, Admins, Jobs,   \* the handlers of the chat, the admins, the job
    Free,                  \* the lock of a row nobody holds
    Failures,              \* the failures that are exercised
    MaxReceipts, MaxClicks, MaxFailures   \* bounds of the exploration

NoPayment == 0
Procs == Chats \cup Admins \cup Jobs

ASSUME IdsAssumption ==
    /\ Payments \subseteq Nat \ {NoPayment}
    /\ Crypto \subseteq Payments
ASSUME ProcsAssumption ==
    /\ Free \notin Procs
    /\ Chats \cap (Admins \cup Jobs) = {} /\ Admins \cap Jobs = {}
ASSUME BoundsAssumption ==
    /\ MaxReceipts \in Nat /\ MaxClicks \in Nat /\ MaxFailures \in Nat
    /\ Failures \subseteq {"telegram", "provider", "crash"}

VARIABLES
    row,        \* the committed status of each request, "none" if absent
    deposits,   \* how often a request was credited to its customer's wallet
    lock,       \* who holds the row lock of each request
    sess,       \* the open transaction of each process
    drawn,      \* ids the sequence has handed out
    offered,    \* the customer has the invoice link or the receipt button
    asking,     \* the request whose receipt the chat waits for
    review,     \* admins have the buttons that approve or reject
    paid,       \* the provider has the money
    receipts, clicks, failures    \* so far (bounded)

tables == <<row, deposits>>
chat == <<drawn, offered, asking, review, paid>>
bounds == <<receipts, clicks, failures>>
vars == <<tables, lock, sess, chat, bounds>>

-----------------------------------------------------------------------------
Statuses == {"none", "pending", "waiting_receipt", "approved", "rejected"}
Approvable == {"pending", "waiting_receipt"}

(* pending_provider_payments (the mutant selects the other status).        *)
AwaitingReceipt(r) == row[r] = "waiting_receipt"
Verifiable(r) == row[r] = "pending"

Session ==
    [at : {"idle", "invoice", "offer", "receipt", "review", "approve",
           "reject", "answer", "verify", "commit"},
     pay : Payments \cup {NoPayment},
     seen : Statuses, mine : Statuses,    \* the status as loaded, as set
     credit : BOOLEAN,                    \* the wallet was credited
     queue : SUBSET Payments]             \* what a job has still to verify

Idle == [at |-> "idle", pay |-> NoPayment, seen |-> "none", mine |-> "none",
         credit |-> FALSE, queue |-> {}]

(* FOR UPDATE, or an UPDATE, waits for the row.                            *)
CanLock(p, r) == lock[r] \in {Free, p}
Lock(p, r) == CanLock(p, r) /\ lock' = [lock EXCEPT ![r] = p]
Unlocked(p) == [r \in Payments |-> IF lock[r] = p THEN Free ELSE lock[r]]
Become(p, S) == sess' = [sess EXCEPT ![p] = S]
Rollback(p) == Become(p, Idle) /\ lock' = Unlocked(p)

Fails(kind) ==
    /\ kind \in Failures /\ failures < MaxFailures
    /\ failures' = failures + 1

-----------------------------------------------------------------------------
(* The chat: payment_method_selected, ask_receipt, receive_receipt *)

(* create_card_request, create_crypto_request: the new row is flushed.     *)
(* Choosing a crypto method ends the dialogue the chat was in.             *)
Create(p) ==
    /\ sess[p].at = "idle"
    /\ \E r \in Payments \ drawn :
        /\ drawn' = drawn \cup {r}
        /\ asking' = IF r \in Crypto THEN NoPayment ELSE asking
        /\ Become(p, [Idle EXCEPT
              !.at = IF r \in Crypto THEN "invoice" ELSE "offer", !.pay = r,
              !.mine = IF r \in Crypto THEN "pending" ELSE "waiting_receipt"])
    /\ UNCHANGED <<tables, lock, offered, review, paid, bounds>>

Invoice(p) ==
    /\ sess[p].at = "invoice"
    /\ \/ Become(p, [sess[p] EXCEPT !.at = "offer"]) /\ UNCHANGED <<lock, failures>>
       \/ Fails("provider") /\ Rollback(p)
    /\ UNCHANGED <<tables, chat, receipts, clicks>>

(* The customer gets the link or the button before the row is committed;   *)
(* an error of the answer, or of the acknowledgement after it, rolls back. *)
Offer(p) ==
    LET S == sess[p]
        sent == offered' = [offered EXCEPT ![S.pay] = TRUE] IN
    /\ S.at = "offer"
    /\ \/ sent /\ Become(p, [S EXCEPT !.at = "commit"]) /\ UNCHANGED <<lock, failures>>
       \/ Fails("telegram") /\ (sent \/ UNCHANGED offered) /\ Rollback(p)
    /\ UNCHANGED <<tables, drawn, asking, review, paid, receipts, clicks>>

(* The button disappears, unless the message cannot be edited.             *)
AskReceipt(r) ==
    /\ r \notin Crypto /\ offered[r] /\ asking # r
    /\ offered' \in {offered, [offered EXCEPT ![r] = FALSE]}
    /\ asking' = r
    /\ UNCHANGED <<tables, lock, sess, drawn, review, paid, bounds>>

(* A photo: whatever the status is, the request becomes pending.           *)
Receive(p) ==
    /\ sess[p].at = "idle"
    /\ receipts < MaxReceipts /\ receipts' = receipts + 1
    /\ \E r \in Payments :
        /\ asking = r /\ row[r] # "none"
        /\ Become(p, [Idle EXCEPT !.at = "receipt", !.pay = r,
                                  !.seen = row[r], !.mine = "pending"])
    /\ UNCHANGED <<tables, lock, chat, clicks, failures>>

FlushReceipt(p) ==
    LET S == sess[p] IN
    /\ S.at = "receipt"
    /\ Lock(p, S.pay)
    /\ Become(p, [S EXCEPT !.at = "review"])
    /\ UNCHANGED <<tables, chat, bounds>>

(* The photo goes to the receipts topic or to every admin; an error on the *)
(* way rolls back, with or without some admin having the buttons.          *)
Review(p) ==
    LET S == sess[p]
        sent == review' = [review EXCEPT ![S.pay] = TRUE]
        cleared == asking' = NoPayment IN
    /\ S.at = "review"
    /\ \/ /\ sent /\ cleared /\ UNCHANGED <<lock, failures>>
          /\ Become(p, [S EXCEPT !.at = "commit"])
       \/ /\ Fails("telegram") /\ Rollback(p)
          /\ \/ UNCHANGED <<review, asking>>
             \/ sent /\ (cleared \/ UNCHANGED asking)
    /\ UNCHANGED <<tables, drawn, offered, paid, receipts, clicks>>

(* The customer pays the invoice.                                          *)
Pay(r) ==
    /\ r \in Crypto /\ offered[r] /\ ~paid[r]
    /\ paid' = [paid EXCEPT ![r] = TRUE]
    /\ UNCHANGED <<tables, lock, sess, drawn, offered, asking, review, bounds>>

-----------------------------------------------------------------------------
(* The admins: approve_receipt, reject_receipt.  The buttons of a reviewed *)
(* receipt stay where several admins have them or the edit fails.          *)

Click(p) ==
    /\ sess[p].at = "idle"
    /\ clicks < MaxClicks /\ clicks' = clicks + 1
    /\ \E r \in Payments, verdict \in {"approve", "reject"} :
        /\ review[r] /\ row[r] # "none"
        /\ Become(p, [Idle EXCEPT !.at = verdict, !.pay = r, !.seen = row[r]])
    /\ UNCHANGED <<tables, lock, chat, receipts, failures>>

(* PaymentService.approve: the row is locked and read again (the mutant    *)
(* trusts what was loaded).  An approved one is left alone, one that is    *)
(* not open any more raises.                                               *)
Remembered(S) == S.seen
Refreshed(S) == row[S.pay]

Resume(S) == IF S.queue = {} THEN "commit" ELSE "verify"
Approve(p) ==
    LET S == sess[p]
        status == Refreshed(S) IN
    /\ S.at = "approve"
    /\ CanLock(p, S.pay)
    /\ IF status = "approved" \/ status \in Approvable
       THEN /\ lock' = [lock EXCEPT ![S.pay] = p]
            /\ Become(p, IF status = "approved"
                 THEN [S EXCEPT !.at = Resume(S), !.seen = status, !.mine = status]
                 ELSE [S EXCEPT !.at = "commit", !.seen = status,
                                !.mine = "approved", !.credit = TRUE])
       ELSE Rollback(p)
    /\ UNCHANGED <<tables, chat, bounds>>

(* PaymentService.reject writes without looking; the flush takes the lock. *)
Reject(p) ==
    LET S == sess[p] IN
    /\ S.at = "reject"
    /\ Lock(p, S.pay)
    /\ Become(p, [S EXCEPT !.at = "answer", !.mine = "rejected"])
    /\ UNCHANGED <<tables, chat, bounds>>

(* The customer is told before the rejection is committed.                 *)
Answer(p) ==
    /\ sess[p].at = "answer"
    /\ \/ Become(p, [sess[p] EXCEPT !.at = "commit"]) /\ UNCHANGED <<lock, failures>>
       \/ Fails("telegram") /\ Rollback(p)
    /\ UNCHANGED <<tables, chat, receipts, clicks>>

-----------------------------------------------------------------------------
(* The job: verify_crypto_payments *)

VerifyStart(p) ==
    LET found == {r \in Crypto : Verifiable(r)} IN
    /\ sess[p].at = "idle"
    /\ found # {}
    /\ Become(p, [Idle EXCEPT !.at = "verify", !.queue = found])
    /\ UNCHANGED <<tables, lock, chat, bounds>>

(* The provider is asked about the next one.  An error of the request is   *)
(* no PaymentProviderError: it ends the whole run.                         *)
Verify(p) ==
    LET S == sess[p] IN
    /\ S.at = "verify"
    /\ \E r \in S.queue :
        LET T == [S EXCEPT !.queue = S.queue \ {r}] IN
        \/ /\ Become(p, IF paid[r]
                THEN [T EXCEPT !.at = "approve", !.pay = r, !.seen = "pending"]
                ELSE [T EXCEPT !.at = Resume(T)])
           /\ UNCHANGED <<lock, failures>>
        \/ Fails("provider") /\ Rollback(p)
    /\ UNCHANGED <<tables, chat, receipts, clicks>>

-----------------------------------------------------------------------------
(* What a commit writes: the status if it was changed, and the deposit     *)
(* (the mutant leaves it to a transaction of its own).                     *)
Written(S, r) == IF S.mine # S.seen THEN S.mine ELSE row[r]
Separately(S, r) == deposits[r]
Deposited(S, r) == IF S.credit THEN deposits[r] + 1 ELSE deposits[r]

Commit(p) ==
    LET S == sess[p] IN
    /\ S.at = "commit"
    /\ row' = [r \in Payments |-> IF r = S.pay THEN Written(S, r) ELSE row[r]]
    /\ deposits' = [r \in Payments |->
                        IF r = S.pay THEN Deposited(S, r) ELSE deposits[r]]
    /\ lock' = Unlocked(p)
    /\ Become(p, IF S.queue = {} THEN Idle
                 ELSE [Idle EXCEPT !.at = "verify", !.queue = S.queue])
    /\ UNCHANGED <<chat, bounds>>

Abort(p) ==
    /\ sess[p].at # "idle"
    /\ Fails("crash")
    /\ Rollback(p)
    /\ UNCHANGED <<tables, chat, receipts, clicks>>

-----------------------------------------------------------------------------
Init ==
    /\ row = [r \in Payments |-> "none"]
    /\ deposits = [r \in Payments |-> 0]
    /\ lock = [r \in Payments |-> Free]
    /\ sess = [p \in Procs |-> Idle]
    /\ drawn = {}
    /\ offered = [r \in Payments |-> FALSE]
    /\ asking = NoPayment
    /\ review = [r \in Payments |-> FALSE]
    /\ paid = [r \in Payments |-> FALSE]
    /\ receipts = 0 /\ clicks = 0 /\ failures = 0

ChatStep(p) ==
    Invoice(p) \/ Offer(p) \/ FlushReceipt(p) \/ Review(p) \/ Commit(p)
AdminStep(p) == Approve(p) \/ Reject(p) \/ Answer(p) \/ Commit(p)
JobStep(p) == VerifyStart(p) \/ Verify(p) \/ Approve(p) \/ Commit(p)

Next ==
    \/ \E p \in Chats : Create(p) \/ Receive(p) \/ ChatStep(p)
    \/ \E p \in Admins : Click(p) \/ AdminStep(p)
    \/ \E p \in Jobs : JobStep(p)
    \/ \E p \in Procs : Abort(p)
    \/ \E r \in Payments : AskReceipt(r) \/ Pay(r)

Spec == Init /\ [][Next]_vars

(* The scheduler keeps starting the job, and a started handler runs on.    *)
Fairness ==
    /\ \A p \in Chats : WF_vars(ChatStep(p))
    /\ \A p \in Admins : WF_vars(AdminStep(p))
    /\ \A p \in Jobs : WF_vars(JobStep(p))
FairSpec == Spec /\ Fairness

-----------------------------------------------------------------------------
(* Properties *)

(* The requests, their locks and the open transactions keep their shape: a *)
(* transaction that works on a request knows which, and the job verifies   *)
(* only while there is something left to verify.                           *)
TypeOK ==
    /\ row \in [Payments -> Statuses]
    /\ deposits \in [Payments -> Nat]
    /\ lock \in [Payments -> Procs \cup {Free}]
    /\ sess \in [Procs -> Session]
    /\ \A p \in Procs :
        /\ sess[p].at \notin {"idle", "verify", "commit"} => sess[p].pay \in Payments
        /\ sess[p].at = "verify" => sess[p].queue # {}
    /\ drawn \subseteq Payments
    /\ offered \in [Payments -> BOOLEAN] /\ asking \in Payments \cup {NoPayment}
    /\ review \in [Payments -> BOOLEAN] /\ paid \in [Payments -> BOOLEAN]
    /\ receipts \in Nat /\ clicks \in Nat /\ failures \in Nat

(* "Two admin callbacks/provider retries must never credit a receipt       *)
(* twice" (payments.py): a deposit is made once, and only while the        *)
(* request is open, which it closes.                                       *)
DepositClosesRequest ==
    [][\A r \in Payments :
        deposits'[r] # deposits[r] =>
            /\ row[r] \in Approvable /\ row'[r] = "approved"
            /\ deposits'[r] = deposits[r] + 1]_vars

(* An approved request has been credited: the status and the deposit are   *)
(* committed together.                                                     *)
ApprovedIsDeposited ==
    \A r \in Payments : row[r] = "approved" => deposits[r] > 0

(* A payment the provider has received is credited in the end, however     *)
(* many requests to the provider fail first.                               *)
PaidIsDeposited ==
    \A r \in Crypto : (paid[r] /\ row[r] = "pending") ~> deposits[r] > 0

(* "Payment approval locks its receipt to prevent duplicate credits"       *)
(* (README): a request is credited at most once.                           *)
DepositedOnce == \A r \in Payments : deposits[r] <= 1
=============================================================================
