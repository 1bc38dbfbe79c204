# Verification of the PasarGuard sales bot

TLA+ models of the Telegram bot in `src/app`, TLC runs that check them on small
instances, and TLAPS proofs of what matters most for every instance. The bot
sells accounts on a PasarGuard panel, meters their traffic once a minute,
charges wallets, cuts customers off and brings them back. Its hard part is not
any single handler but the overlap: asyncio handlers and scheduler jobs
interleave at every `await`, each is one PostgreSQL transaction around calls to
a panel, a payment provider and Telegram, and none of those calls is undone by
a rollback.

## 1. Inventory

| part | source (`src/app/`) | state | operations | depends on |
|---|---|---|---|---|
| billing job | `jobs/billing.py` | none of its own | `sync_traffic_usage`, `delete_stale_disabled_services` | wallet, lifecycle, panel |
| lifecycle by wallet | `services/service_lifecycle.py` | `services.status`, `disabled_reason`, `disabled_at` | disable / reactivate a user's services | panel |
| wallet | `services/wallet.py` | `users.wallet_balance_toman`, `wallet_transactions` | `add`, `deduct`, `pay_referral_cashback` | row locks |
| service creation | `services/services.py` | `services`, `users.has_test_account` | create plan / test, reenable, disable, delete | wallet, panel |
| payments | `services/payments.py`, `jobs/payments.py`, `integrations/payments.py` | `payment_requests` | create, receive receipt, approve, reject, verify | wallet, lifecycle, providers |
| registration | `services/users.py` | `users`, `referred_by_id` | `get_or_create`, import | unique key, Telegram's updates |
| catalog | `services/catalog.py` | panels, templates, plans | add, edit, enable, delete, resolve | foreign keys |
| panel client | `integrations/pasarguard.py` | token cache of the process | one HTTP request per operation, login, retry after 401 | panel |
| settings | `services/settings.py` | `settings` | `get`, `set`, `admin_ids` | row locks |
| menu | `services/menu.py` | one setting | normalise, move, edit, action of a text | settings |
| notifications | `services/notifications.py` | | topics of the group, receipts | settings, Telegram |
| customer dialogues | `bot/handlers/user.py` | FSM state in Redis | start, buy, test, reactivate, delete, charge, receipt, Stars | all services |
| admin dialogues | `bot/handlers/admin.py` | FSM state in Redis | receipts, wallets, blocks, service buttons, catalog, settings, menu, import, broadcast | all services |
| session middleware | `bot/middlewares.py`, `db/session.py` | | commit after the handler, rollback on any exception | |
| scheduler | `jobs/scheduler.py` | job table | starts the jobs, never two of one job in a process | |
| keyboards, backups, secrets, logging, start-up, migrations | remaining files | files, environment | | |

What makes each correct, and which hazards threaten it at which line, is listed
under `hazards` in `PROJECT.json`. In short:

* **money**: no interval of traffic is charged twice or skipped, no deposit is
  lost or made twice, a balance always equals its transactions, and a fee is
  only paid for a service and from a wallet that covers it;
* **service**: a customer without money is cut off in the end and a paying one
  is restored without paying again, although the panel refuses calls;
* **deletion**: an account is deleted only after 48 hours without money, judged
  again under the lock, and a deleted service does not come back;
* **purchase**: nobody pays for a service that is not recorded, and no account
  is on the panel without a record;
* **customers**: one row each, invitations without circles, payments with Stars
  neither lost nor credited twice, imports whole;
* **catalog**: a service is recorded on the panel that has its account, and that
  panel stays known as long as it has accounts;
* **panel calls**: an operation takes effect at most once in spite of retries,
  and a token is only shown to the panel that issued it;
* **settings**: only admins appoint admins, checked numbers stay numbers, a
  receipt finds a reader, the menu keeps every button.

How the parts interact: everything meets in three places. The *row lock on
`users`*: billing and cleanup take it with `FOR UPDATE`, every wallet update
takes it until commit, the buttons of customers and admins do not take it. *The
panel*: every part switches accounts there before it commits the row. And *the
tables that admins edit*, which handlers read row by row while others commit.

## 2. Modules

| module | models | theorems |
|---|---|---|
| `Tariff` | `cost_for_mb`, the cashback arithmetic, sums over services (`Total`) | `TariffProofs` |
| `Lifecycle` | billing, top-ups, cleanup and all service buttons against locks and panel | `LifecycleProofs` |
| `Account` | what billing promises, one atomic step per commit; `Lifecycle` implements it (`KeepsPromise`) | `LifecycleProofs` |
| `Payments` | payment requests from the chat to the deposit | `PaymentsProofs` |
| `Purchases` | purchase of a plan, test account | `PurchasesProofs` |
| `Registration` | `get_or_create`, invitation links, Stars payments and imports, under redelivery by Telegram | `RegistrationProofs` |
| `Catalog` | panels, templates, plans, their forms and buttons, the panel each service is recorded on | `CatalogProofs` |
| `PanelClient` | the HTTP client with its shared token cache and its retry | `PanelClientProofs` |
| `PanelCall` | what a caller of the client may rely on; `PanelClient` implements it (`Implements`) | |
| `Menu` | the customers' menu: normalisation, moves, edits, lookup | `SettingsProofs` |
| `Settings` | the settings table, the admins' dialogues that write it, the receipt that reads it | `SettingsProofs` |
| `MCLifecycle`, `MCPayments`, `MCPurchases`, `MCRegistration`, `MCCatalog`, `MCPanelClient`, `MCSettings` | values of the constants for TLC | |

`Lifecycle`, `Payments`, `Purchases` and `Registration` meet in the wallet. Each
models the others' effect on it as a commit of its own: a top-up in `Lifecycle` is
what `approve` of `Payments` or `stars_paid` of `Registration` does after the
deposit, and `Elsewhere` of `Purchases` is any commit of `Lifecycle`. `Catalog`
proves what the others assume: `Lifecycle` calls "the panel" of a service, which
is right because a row names the panel that has its account
(`RecordedWhereTheyAre`). `Registration` proves that invitations form a forest
(`InviterIsOlder`), on which the lock order of the cashback relies. `PanelCall` is
the panel call of `Lifecycle` and `Purchases`: once or not at all if it raises,
once if it returns. (A request that the panel serves after the client has given
up is in `PanelCall` and not in its users.)

### Transactions

A process (`Syncs`, `Cashiers`, `Cleaners`, `Desks`; `Chats`, `Admins`, `Jobs`;
`Buyers`; an update of `Registration`; `Procs` of `Settings`) has at most one open
transaction, a record in `sess`.

* **What was read** stays as it was read. In `Lifecycle`, `base` holds a service
  row as loaded and `orm` as the handler has changed it; a commit writes only the
  attributes that differ (`Keep`, `Flush`), as SQLAlchemy does. Writing the same
  value back is therefore no write, which several races depend on. A row of
  `settings` is the exception: `SettingsService` drops its object after each call,
  and the identity map only holds weak references, so every `get` reads again.
* **Wallets** are different: `add` and `deduct` are `UPDATE ... SET balance =
  balance + x RETURNING`, so `Move` works on the current version (`Current`).
* **Locks**: `lock[u]` is the PostgreSQL row lock, kept until commit or
  rollback; in `Registration` also the wait on an uncommitted unique key, in
  `Settings` the lock of a row that was flushed. Isolation is READ COMMITTED. The
  locks that foreign keys take, and the row locks on `services`, only delay a step
  that the model may delay anyway, and are left out.
* **Panel calls** take effect at once. They succeed, are *refused* (no effect,
  an error), or are *lost* (effect, and an error). Reading a counter and
  charging for it is one step; only the traffic itself could come between, and
  it is in the next interval. `PanelClient` opens the call up: login, token,
  request, the panel's effect, the answer, a timeout, the retry.
* **Failures**: `crash` is any exception nobody handles, or the death of the
  process, between two steps; `telegram` is a delivery that fails before the
  commit; `provider` a provider request that fails; `reset` an operator who
  resets a counter. A cfg names the kinds it exercises and how many may happen.

### Actions and code

`SyncStart, SyncLock, Meter*, Decide, Cut, Restore, Commit` are the phases of
`sync_traffic_usage`, service by service in the order of their ids;
`CleanStart, CleanCheck, Expire` those of the cleanup. `TopUpBegin, TopUpCredit`
stand for everything that credits and reactivates: `PaymentService.approve`,
`stars_paid`, `add_balance` and the admin's wallet form. The delay between
reading the user and the credit covers the verification job, whose one session
may have loaded a customer several payments earlier. `Ask*` read what a button
reads; `Call` is the loop or the single panel call of `reenable`, `disable` and
`delete`.

In `Payments`, `Offer` sends the link before the commit, `Receive` and
`FlushReceipt` are the two halves of `receive_receipt` (the row is written when
the next query flushes it), and `Approve` reads the row again under its lock. In
`Purchases` the flag of a test account is flushed, and the customer locked,
before the panel is called.

In `Registration` every update is a task. Telegram hands updates over in order
(`Poll`), the next poll acknowledges them whatever became of their handlers, and
after a crash those that were not acknowledged come again. `get_or_create` is a
look, an INSERT in a savepoint that waits for the unique key, and a second look
after a collision; an import does this for every line of its list in one
transaction. `Victim` is PostgreSQL's deadlock detection.

In `Catalog` a button that reads and writes one value is one step; deletions,
saves and orders are a step that reads (`Ask*`, `Save`) and a step that commits
(`Drop`, `Write`, `Commit`), because others may commit in between. The form of a
plan lives in Redis, outside every transaction (`form`): its steps are messages,
and `Save` clears it before the commit. Foreign keys are the conditions under
which a commit changes nothing. `Ask` and `Assign` are the part of billing that
looks for the panel of an old service.

In `PanelClient` a token is the panel that issued it and the number of
revocations it has survived; a call goes from the cache or a login over the
request to its answer, and `late` holds the requests the client no longer waits
for.

In `Settings` an admin presses a button or types into a dialogue (`Press`,
`Type`); the handler checks that he is an admin, reads, and writes its rows one
`set` after the other: each `set` reads the row (which flushes the one before, and
takes its lock) and leaves its own write to the next query. Its menu is `Menu`.
The `map` of `PROJECT.json` gives the lines of every definition.

## 3. Runs

| run | instance | checks |
|---|---|---|
| `settle` | invited customer with two services, his inviter, 2 billing runs, 2 top-ups, one failure | `Inductive`, `ChargesAreLogged`, `CostIsFair`, absence of deadlock |
| `promise` | 1 customer, 2 services, 2 billing runs, top-up, cleanup, removal of money, one failure | `KeepsPromise`, `ExpiredOnlyBroke` |
| `repair` | 1 customer, 2 services, billing, top-ups, cleanup, two refusals, fair | `RowsMatchPanel`, `CutOff`, `Restored`, `DeletedIsFinal` |
| `desk` | 1 service, every button, every failure | `TypeOK`, `WalletIsLedger`, `MeteredOnce` |
| `payments` | a card payment, two invoices, two admins, the job, one failure, fair | `ApprovedIsDeposited`, `DepositClosesRequest`, `PaidIsDeposited` |
| `purchases` | customer and inviter, two handlers, three names, one failure, one move of a wallet | `RowsHaveAccounts`, `FeesAreForServices`, `NoStrayAccounts`, `FeeNeverOverdraws` |
| `catalog` | two panels, one plan, two admins with four clicks, one customer, one old service without a panel, fair | `TypeOK`, `ServicesOnTheirPanel`, `PanelsWithAccountsStay`, `SavesMerge`, `LegacyIsAssigned` |
| `registration` | two people, one with a link of the other, two imports of both in opposite orders, a Stars payment, one failure or crash, fair (726,853 states) | `TypeOK`, `InviterIsOlder`, `ImportIsWhole`, `AnnouncedOnce`, `CreditedOncePerRun`, `StarsSurvive`, `AllAreHandled` |
| `client` | two calls to one panel, one to a panel that answers 401 to everything, one revocation of each panel, fair (287,280 states) | `TokensStayHome`, `DeniedByRevocation`, `Implements`, `CallsEnd` |
| `settings` | an admin of the environment, one appointed, one outsider; two cards, two groups, a menu of three stored by an older version; two handlers, two or three tasks of one section; fair (277,336 states) | `TypeOK`, `AppointedByAdmins`, `ReceiptIsShown`, `MenuIsWhole`, `HandlersEnd` |
| `v_reopened` | two photos for one payment | `DepositedOnce` is violated |
| `v_test_panel` | `catalog` with six clicks | `TestAccountsExist` is violated |

**Bounds.** Two services are enough for a loop that goes on after an error, two
billing runs for every pairwise race, two customers for the lock order of
cashback (an inviter's charge never comes back to the invited customer). Used
traffic up to two units gives two intervals, so that a baseline matters;
`PriceRounded` makes an odd interval round up. The clock counts 48-hour units,
so one tick makes a disabled service stale, and two ticks let it be disabled,
restored and disabled again. One failure per behaviour reaches every single
point of failure; `repair` has two, so that a retry can fail as well. In
`catalog` two panels are enough for the wrong one to be the only active one, and
four clicks for any pair of concurrent deletions and saves with what they need (a
plan, a second panel); the two names are one account of an older version and one
that is sold. In `registration` two people in opposite orders are the smallest
deadlock on the unique key, and the first message, the payment and the imports
meet on the same customer; `MaxIds` leaves an id for every attempt. In `client` a
second revocation would only repeat the first: a call retries once. In `settings`
the two handlers take any tasks of a section (`Sections`) in any order; tasks of
different sections write different rows. The stored menu has an unknown action,
one twice and one missing, and an odd number of buttons ends in half a row.
`MaxOrders`, `MaxReceipts`, `MaxClicks`, `MaxMoves`, `MaxUpdate`, `MaxEpoch` and
`MaxFailures` bound requests and failures; nothing else is cut off. Runs other
than `settle` turn the deadlock check off because the system may come to rest
when its requests are used up; `settle` keeps it on, as its billing always has a
next run. In `registration` and `settings` the liveness properties take its place.

**Fairness.** Weak fairness for each job and each handler that has started
(`Fairness`): the scheduler restarts every job (`coalesce`, `max_instances=1`),
and asyncio runs a handler on. `Catalog` takes strong fairness for `Ask`: a run
visits every service every minute, and `Ask` of one is disabled only while another
is being asked. `Registration` adds the poll, which aiogram's `start_polling`
repeats for ever, and PostgreSQL's deadlock detection. `PanelClient` is fair to
the client but not to the panel: a panel may never answer, and the client's
timeout of 30 seconds is what ends the call. Nothing makes customers, admins, the
clock or failures happen. Waiting for a row lock is served in the end because the
bounded instance has finitely many competing transactions. Liveness is checked
with failures that end (`MaxFailures`): "however many" means any finite number.

**Mutants.** Each property has a plausible error in a modelled definition that
breaks it, defined just before the original: no lock (`DoNotWait`), a balance
added to the loaded attribute (`MoveLoaded`), a whole row written back
(`FlushRow`), a row marked before the panel obeyed (`CutUnconfirmed`), no refresh
under the lock (`Remembered`), and so on; the pairs are under `mutants` in
`PROJECT.json`.

### What the violations show

1. `v_reopened`: a photo sets any request back to pending, an approved one too,
   although the README of the bot says that approval locks its receipt "to prevent
   duplicate credits".
2. `v_test_panel`: the account is made on the panel the settings name, but
   recorded on the only active one. With two active panels there is none: the
   request fails after the customer was marked, and the mark is committed, so
   that nobody ever gets a test account.

Further configurations are kept beside the listed runs. They show what the code
does where no document of the repository promises otherwise, or where the
promise is in one sentence of its README. `tlc -config v_x.cfg MCx` reproduces
each:

| configuration | module | property | what happens |
|---|---|---|---|
| `v_lost_restore` | `MCLifecycle` | `CutOff` | the answer to a reactivation is lost: the row says disabled, the account is on, and disconnecting looks only at active rows |
| `v_lost_cut` | `MCLifecycle` | `Restored` | the answer to a disconnect is lost |
| `v_sibling` | `MCLifecycle` | `Restored` | one sibling's counter was reset for good, and `failed` stops every retry |
| `v_blocked` | `MCLifecycle` | `BlockedStaysOff` | a top-up that waits for the lock keeps the `is_blocked` it had read |
| `v_cleanup_manual` | `MCLifecycle` | `ManualIsPreserved` | a manual disable takes no lock: committed between check and deletion it does not save the account |
| `v_reactivate` | `MCLifecycle` | `StatusFollowsBalance` | the customer's own button, with a balance that billing empties meanwhile |
| `v_manual_undone` | `MCLifecycle` | `ManualStaysOff` | a top-up undoes a disable by hand |
| `v_telegram` | `MCLifecycle` | `RowsMatchPanel` | an answer cannot be delivered, and the rollback forgets a panel call |
| `v_two_tests` | `MCPurchases` | `OneTestAccount` | `has_test_account` is read without a lock |
| `v_minimum` | `MCPurchases` | `MinimumForNewService` | two purchases at once |
| `v_kept_price` | `MCCatalog` | `KeptPriceStays` | a form that kept the price writes it back over another admin's new one |
| `v_stray` | `MCCatalog` | `NoStrayAccounts` | a plan deleted during an order rolls the order back, and the account stays |
| `v_import_lost` | `MCRegistration` | `ToldIsSaved` | the last rows of an import are flushed after the admin was told, and may meet the key |
| `v_stars_twice` | `MCRegistration` | `StarsOnce` | the process dies between the commit and the poll that acknowledges the payment |
| `v_late` | `MCPanelClient` | `RaisedIsOver` | the panel serves a request the client has given up |
| `v_settings` | `MCSettings` | `SomebodyIsListed`, `CardIsOnePair`, `TopicsOfTheirChat`, `NumbersAreNumbers`, `EveryButtonWorks` | two admins remove each other; a card and the name of another; topics of the former group; a word where billing reads a number; two buttons with one text (check them one at a time) |

## 4. Proofs

The proofs hold for every value of the constants: any sets of customers,
services, panels, handlers, updates and words, any bounds and any failures. What
each takes for granted are the `ASSUME`s of its module: ids and prices are
numbers, kinds of processes are disjoint, `Free` is no process, bounds are
natural numbers. `Lifecycle` also takes its services to be finitely many, since it
sums over them, and nobody to be his own inviter, which `Registration` proves
(`Forest`).

`TariffProofs` bounds the cost of an interval for all amounts and prices
(`CostBounds`, `NoFreeTraffic`), and makes sums over a finite set usable: `Total`
is a fold that picks its elements in an order of its own, so that even "take any
one element out" (`TotalRemove`) and "sums add up pointwise" (`TotalPlus`) need an
induction over subsets. The library's induction theorems take an operator as a
parameter, which the provers cannot instantiate; `SubsetInduction` says the same of
a *set* of subsets, from `WFMin`, which takes none.

`LifecycleProofs` proves `TypeCorrect`, `LedgerCorrect` (`WalletIsLedger`),
`ChargedOnce` (`MeteredOnce`) and `FairCost` (`CostIsFair`) from
`InductiveInvariant`. A commit adds a transaction's log rows to the ledger and
replaces the balance by the transaction's own version. That keeps
`WalletIsLedger` only if the version is the committed balance plus exactly these
rows, and that holds only while nobody else can commit that wallet: `MoneyOf`
says a touched wallet is locked by the transaction and differs from the committed
one by its rows. Likewise a commit keeps `MeteredOnce` only if the counters a
billing run loaded are still the committed ones: `UsageOf` and `CountersKept` say
so for every service that is to be or has been metered, because its customer has
been locked since before the rows were loaded. Handlers that take no lock change
no counter, and `Flush` leaves what they did not change.

A second invariant, `Held`, is about deletion. A cleanup that is about to delete
holds the lock of a customer without money (`HoldsOf`), so that
`CleanupSparesPayers` holds with every button in play. While no button that
switches accounts is pressed (`Calm`: billing, top-ups, cleanup, removals of
money and unblocking remain), everybody who has loaded a row holds its customer,
so the row is still the committed one, and a row that is about to be deleted has
been out of money for 48 hours (`RowsOf`): this gives `OnlyBrokeExpire`
(`ExpiredOnlyBroke`) and `DeletedForGood` (`DeletedIsFinal`). `Calm` is needed:
the buttons read without a lock, and a customer's or an admin's deletion is not
about money at all.

`ChargesLogged` (`ChargesAreLogged`) sets the wallet's transactions against the
traffic logs, for every button and failure. Its invariant `Bills` says what a
billing run carries from its loops to its commit: every entry it is going to log
has its price by the tariff and belongs to the one customer it settles, and its
charge is the sum of the entries (`BillOf`).

The other three theorems are about `Calm` again, and about all of a transaction.
`Work` says, per kind of process and per phase, what a session would commit now:
which rows it has switched, in which direction, by which balance, and what it has
moved on whose wallet (`SyncOf`, `CashOf`, `CleanOf`, `DeskOf`). From it follow

* `BalanceDecides`: whoever is cut off has nothing *after* the commit that cuts
  him off, and whoever is restored has something. The balance judged is the one
  written together with the status, although `Decide` runs before panel calls
  during which others may try to pay.
* `RowsMatch` (`RowsMatchPanel`), if besides no failure hides the effect of a
  panel call (`Mild`: calls are refused or counters reset, but nothing is lost
  between a call and its commit). `Obeys` says that a row that some session has
  switched agrees with the account already, and one that no session has switched
  still does. Without `Mild` it is false (`v_lost_restore`, `v_telegram`).
* `PromiseKept` (`KeepsPromise`): `Lifecycle` implements `Account`. Only commits
  and the clock change what `Account` sees (`OnlyCommitsShow`); the commit of a
  billing run is a `Settle` with everything it switches, that of a top-up a
  `Deposit` with everything it restores; a cleanup's is an `Expire`, a removal's a
  `Remove`, and a commit that moves and switches nothing is a stutter. The abstract `Settle` charges the customer the sum
  over his services and the inviter the sum of the shares, in one step.

`PaymentsProofs` proves `ApprovedAreDeposited` (`ApprovedIsDeposited`) and the
action property `DepositsClose` (`DepositClosesRequest`). The invariant says that
a request that is being created is its creator's alone (`CreatorsAreAlone`), that
a transaction holds the row it changes (`WriterOf`), and that a credit is given
only on a status read again under that lock (`CreditOf`). The last one is why two
approvals at once make one deposit.

`PurchasesProofs` proves `RowsAreReal`, `FeesBuyServices`, `AccountsAreRecorded`
and `FeesAreCovered`. `DraftOf` says a handler has at most one new service, whose
account exists and whose name nobody else has (`NamesApart`); `MoneyOf` that a fee
that is not committed yet was covered by the wallet, which has been locked since.
The sum of fees is a bound on cardinalities (`FiniteSetTheorems`).

`RegistrationProofs` proves `OneRow`, `Forest` (`InviterIsOlder`), `AllOrNothing`
(`ImportIsWhole`), `OneAnnouncement`, `NoSecondCredit` and `StarsAreKept`. Its
invariant relates handlers to the table: a row that is not committed yet is
locked by its handler and shares neither its person nor its id with another row
(`DraftsAreLocked`), its inviter is committed (`ReferrersAreThere`), whom an import
has dealt with is in the table or among its own rows (`ImportsGoOn`), a payment
holds its customer only while it can go on (`StarsHoldTheirs`), rows not yet
committed are not yet announced (`NewAreUnannounced`), and a payment that has not
ended was credited at most once per crash (`CreditsAreCounted`).

`CatalogProofs` proves `CatalogTypes` (`TypeOK`), `RecordedWhereTheyAre`
(`ServicesOnTheirPanel`), `AccountsKeepPanels` (`PanelsWithAccountsStay`) and the
action property `SavesAreMerged` (`SavesMerge`) from `CatalogInvariant`. Its
`Inductive` adds why deletion is safe: accounts are created with the groups of a
template (`OrdersAreSound`, `AccountsHaveGroups`), templates are never deleted, and
the foreign key of a template keeps its panel (`TemplatesKeepPanels`), although
`delete_panel` counts neither. `FormsKnowPlans` and `EditsAreSound` say that a
dialogue knows rows that were there once, and that a save leaves the state of a
plan as loaded, which is what makes the merge harmless. The assumption that needs
justification is `StartAssumption`: panels that have accounts at first have a
template with groups. The bot stores no groups on a panel, so it holds for every
panel that was added by it; a panel of the version before templates, which had
groups of its own, is protected only once it was given a template.

`PanelClientProofs` proves `OwnTokensOnly` (`TokensStayHome`),
`StaleTokensAreHarmless` (`DeniedByRevocation`) and the refinement
`ClientKeepsPromise` (`Implements`).
A retry uses a token that was issued after its call began (`RetriesAreFresh`), so
a second 401 means a revocation during the call; a 401 has had no effect, so the
retry is the first to have one (`AppliedOnce`).

`SettingsProofs` proves `MoveKeepsButtons`, `MoveIsUndone` and `NormalizedIsWhole`
for menus of any length, and `TypeCorrect`, `OnlyAdminsAppoint`
(`AppointedByAdmins`), `ReceiptsAreShown` and `MenusAreWhole` (`MenuIsWhole`) for
the table. Its invariant follows what a handler has read to what it will write
(`SessionIs`): every row it holds back is fine for its key (the menu is a list),
every person it appoints was typed by somebody who was an admin when he typed.
`normalize_buttons` is a loop; after n rounds (`Rounds`) the menu has the known
actions of the first n buttons, each once (`UptoInduction`, again over a set). Of
the stored list nothing is assumed but that it is a list; that it has as many
buttons as the default one is a bijection with its actions (`WholeLength`).

*Only model-checked.* Liveness (`CutOff`, `Restored`, `PaidIsDeposited`,
`LegacyIsAssigned`, `AllAreHandled`, `CallsEnd`, `HandlersEnd`) and the absence of
deadlock, which are out of the prover's reach. Every invariant, action property
and refinement that a passing run checks has a theorem. `RowsMatch`, `PromiseKept`,
`OnlyBrokeExpire` and `DeletedForGood` are proved under the assumptions that the
instances of `repair` and `promise` satisfy.

## 5. Not modelled, and what is left

Not modelled: keyboards and wording (presentation), backups (`pg_dump` and a
file), secrets and logging, start-up, migrations and deployment. They keep no
state that a handler decides by.

Left out of parts that are modelled: `get_or_create` also refreshes a customer's
names, which can take the row lock early; a lock that is taken earlier only
removes interleavings. A PasarGuard account is one per service, and the unit of
its counter is fixed. A panel's address and credentials are fixed: an admin who
edits them moves every service to another server. In `notifications`, only the
receipt has a second way; other messages never raise. The amount dialogue of a
payment, lists, dashboards and broadcasts change no state of the tables. The
scheduler's intervals and misfires are covered by fairness. Two API tokens are
stored encrypted, which no property depends on.

Hazards without a property of a listed run have a note in `PROJECT.json`; most of
them are races that the code does have and that a configuration of the table
above exhibits. Next would be the same theorems with the buttons in play, for the
services whose buttons are not pressed; the edit of a panel's address in
`Catalog`; and the broadcast as a customer of the same rate limits as the
receipts.
