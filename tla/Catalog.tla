------------------------------ MODULE Catalog ------------------------------
(***************************************************************************)
(* Panels, their templates, the plans sold on them, and which panel every  *)
(* service is recorded on.  Admins change the catalog with buttons and a   *)
(* form while customers order and billing assigns panels to services of an *)
(* older version that have none.  An UPDATE, DELETE or INSERT keeps its    *)
(* locks until commit, so that it counts as made at the commit.            *)
(***************************************************************************)
EXTENDS FiniteSetsExt, Integers

CONSTANTS
    Panels, Plans,             \* ids in the order of the table, positive
    Names,                     \* names of accounts
    Admins, Buyers,            \* processes
    Prices, Inputs,            \* of a plan; numbers an admin types
    Home,                      \* [Panels -> SUBSET Names]: accounts at first
    Shop,                      \* [Panels -> panel states] at first
    Grouped,                   \* the panels with a template at first
    Nobody,                    \* the owner of the services without a panel
    MaxClicks                  \* bound on what admins do

None == 0

PanelStates == {"none", "active", "disabled", "deleted"}

ASSUME IdsAssumption ==
    /\ Panels \subseteq Nat \ {None} /\ Plans \subseteq Nat \ {None}
    /\ Nobody \notin Buyers
ASSUME PricesAssumption == Prices \subseteq Nat \ {0} /\ Inputs \subseteq Int
                           /\ \A i \in Inputs : i > 0 => i \in Prices
(* A panel of the version before templates may carry groups itself; such a *)
(* panel is taken to have been given a template when it has accounts.      *)
ASSUME StartAssumption ==
    /\ Home \in [Panels -> SUBSET Names] /\ Shop \in [Panels -> PanelStates]
    /\ Grouped \subseteq Panels
    /\ \A p \in Panels : Home[p] # {} => p \in Grouped
    /\ \A p \in Grouped : Shop[p] \in {"active", "disabled"}
ASSUME BoundAssumption == MaxClicks \in Nat

VARIABLES
    panel,       \* the state of each row of pasarguard_panels
    templates,   \* rows of panel_templates: the panel, and whether it has groups
    plan,        \* product_plans
    rows,        \* services
    tested,      \* the customers with has_test_account
    testPanel,   \* the setting test_panel_id
    accounts,    \* the accounts on each panel server
    form,        \* the dialogue of each admin, kept in Redis
    edit, order, bill,   \* open transactions: admins, customers, billing
    clicks

catalog == <<panel, templates, plan, testPanel>>
services == <<rows, tested, accounts>>
vars == <<catalog, services, form, edit, order, bill, clicks>>

-----------------------------------------------------------------------------
Listed == {"active", "disabled"}      \* rows that are in the table
Template == [panel : Panels, groups : BOOLEAN]
Plan == [state : PanelStates, price : Prices \cup {None}, panel : Panels \cup {None}]
Row == [name : Names, user : Buyers \cup {Nobody}, plan : Plans \cup {None},
        panel : Panels \cup {None}, test : BOOLEAN]
Form == [mode : {"none", "add", "edit"}, plan : Plans \cup {None},
         price : Prices \cup {None}, kept : BOOLEAN]
Edit == [op : {"none", "save", "drop panel", "hide panel", "drop plan", "hide plan"},
         id : Panels \cup Plans \cup {None}, base : Plan, mine : Plan, kept : BOOLEAN]
Order == [at : {"idle", "create", "commit"}, plan : Plans \cup {None},
          client : Panels \cup {None}, groups : BOOLEAN, test : BOOLEAN,
          new : SUBSET Row]
Bill == [name : Names, panel : Panels]

NoPlan == [state |-> "none", price |-> None, panel |-> None]
NoForm == [mode |-> "none", plan |-> None, price |-> None, kept |-> FALSE]
NoEdit == [op |-> "none", id |-> None, base |-> NoPlan, mine |-> NoPlan, kept |-> FALSE]
NoOrder == [at |-> "idle", plan |-> None, client |-> None, groups |-> FALSE,
            test |-> FALSE, new |-> {}]

Active == {p \in Panels : panel[p] = "active"}
HasGroups(p) == \E t \in templates : t.panel = p /\ t.groups
Fresh == Names \ UNION ({accounts[p] : p \in Panels} \cup {{r.name : r \in rows}})

(* resolve_panel(None): the only active panel, or an error (the mutant     *)
(* counts the disabled panels too).                                        *)
CountAll(p) == {q \in Panels : panel[q] \in Listed} = {p}
Resolves(p) == Active = {p}

(* What delete_panel counts, and the foreign keys to a panel, which include *)
(* templates (the mutant deletes these with the panel).                    *)
Counted(p) ==
    \/ \E n \in Plans : plan[n].state \in Listed /\ plan[n].panel = p
    \/ \E r \in rows : r.panel = p
CascadeToTemplates(p) == Counted(p)
Referenced(p) == Counted(p) \/ \E t \in templates : t.panel = p
Sold(n) == \E r \in rows : r.plan = n

-----------------------------------------------------------------------------
(* Buttons that read and write one value *)

Click == clicks < MaxClicks /\ clicks' = clicks + 1

AddPanel ==
    /\ Click
    /\ \E p \in Panels :
        /\ panel[p] = "none"
        /\ panel' = [panel EXCEPT ![p] = "active"]
    /\ UNCHANGED <<templates, plan, testPanel, services, form, edit, order, bill>>

(* enable_panel, disable_panel *)
SwitchPanel ==
    /\ Click
    /\ \E p \in Panels, s \in Listed :
        /\ panel[p] \in Listed
        /\ panel' = [panel EXCEPT ![p] = s]
    /\ UNCHANGED <<templates, plan, testPanel, services, form, edit, order, bill>>

AddTemplate ==
    /\ Click
    /\ \E t \in Template :
        /\ panel[t.panel] \in Listed
        /\ templates' = templates \cup {t}
    /\ UNCHANGED <<panel, plan, testPanel, services, form, edit, order, bill>>

(* enable_plan, disable_plan *)
SwitchPlan ==
    /\ Click
    /\ \E n \in Plans, s \in Listed :
        /\ plan[n].state \in Listed
        /\ plan' = [plan EXCEPT ![n].state = s]
    /\ UNCHANGED <<panel, templates, testPanel, services, form, edit, order, bill>>

SetTestPanel ==
    /\ Click
    /\ \E p \in Panels : panel[p] \in Listed /\ testPanel' = p
    /\ UNCHANGED <<panel, templates, plan, services, form, edit, order, bill>>

-----------------------------------------------------------------------------
(* Deletion: count the references, then delete or only disable.  A panel's *)
(* templates are not counted.                                              *)

Begin(a, E) == edit[a].op = "none" /\ edit' = [edit EXCEPT ![a] = E]

(* Disabling a row that is disabled already writes nothing.                *)
AskDropPanel(a) ==
    /\ Click
    /\ \E p \in Panels, op \in {"drop panel", "hide panel"} :
        /\ panel[p] \in Listed
        /\ Counted(p) <=> op = "hide panel"
        /\ op = "hide panel" => panel[p] = "active"
        /\ Begin(a, [NoEdit EXCEPT !.op = op, !.id = p])
    /\ UNCHANGED <<catalog, services, form, order, bill>>

AskDropPlan(a) ==
    /\ Click
    /\ \E n \in Plans, op \in {"drop plan", "hide plan"} :
        /\ plan[n].state \in Listed
        /\ Sold(n) <=> op = "hide plan"
        /\ op = "hide plan" => plan[n].state = "active"
        /\ Begin(a, [NoEdit EXCEPT !.op = op, !.id = n])
    /\ UNCHANGED <<catalog, services, form, order, bill>>

(* A row that is gone, or referenced by now, makes the transaction fail.   *)
Drop(a) ==
    LET E == edit[a] IN
    /\ \/ /\ E.op \in {"drop panel", "hide panel"}
          /\ panel' = IF \/ panel[E.id] \notin Listed
                         \/ E.op = "drop panel" /\ Referenced(E.id)
                      THEN panel
                      ELSE [panel EXCEPT ![E.id] =
                              IF E.op = "drop panel" THEN "deleted" ELSE "disabled"]
          /\ UNCHANGED plan
       \/ /\ E.op \in {"drop plan", "hide plan"}
          /\ plan' = IF \/ plan[E.id].state \notin Listed
                        \/ E.op = "drop plan" /\ Sold(E.id)
                     THEN plan
                     ELSE [plan EXCEPT ![E.id].state =
                             IF E.op = "drop plan" THEN "deleted" ELSE "disabled"]
          /\ UNCHANGED panel
    /\ edit' = [edit EXCEPT ![a] = NoEdit]
    /\ UNCHANGED <<templates, testPanel, services, form, order, bill, clicks>>

-----------------------------------------------------------------------------
(* The form of a plan.  Its steps are messages of their own. *)

Fill(a, F) == form' = [form EXCEPT ![a] = F]

StartForm(a) ==
    /\ Click
    /\ \/ Active # {} /\ Fill(a, [NoForm EXCEPT !.mode = "add"])
       \/ \E n \in Plans :
            /\ plan[n].state \in Listed
            /\ Fill(a, [NoForm EXCEPT !.mode = "edit", !.plan = n])
    /\ UNCHANGED <<catalog, services, edit, order, bill>>

(* plan_price_step: a number, or "-" to keep the price, which is read now  *)
(* (the mutant takes any number).  Without an active panel the form ends.  *)
AnyNumber(x) == TRUE
Positive(x) == x > 0
TypePrice(a) ==
    LET F == form[a] IN
    /\ F.mode # "none"
    /\ \/ \E x \in Inputs :
            Positive(x) /\ Fill(a, IF Active = {} THEN NoForm
                                   ELSE [F EXCEPT !.price = x, !.kept = FALSE])
       \/ /\ F.mode = "edit" /\ plan[F.plan].state \in Listed
          /\ Fill(a, IF Active = {} THEN NoForm
                     ELSE [F EXCEPT !.price = plan[F.plan].price, !.kept = TRUE])
    /\ UNCHANGED <<catalog, services, edit, order, bill, clicks>>

(* plan_panel_step, plan_panel_keep_current: a panel that is active now,   *)
(* or the one the plan has.                                                *)
Choice(F) ==
    Active \cup (IF F.mode = "edit" THEN {plan[F.plan].panel} ELSE {})

(* save_plan_from_state: the plan is loaded and overwritten; the form is   *)
(* cleared before the commit.                                              *)
Save(a) ==
    LET F == form[a] IN
    /\ F.mode # "none"
    /\ \E p \in Choice(F) :
        \/ /\ \/ F.price = None
              \/ F.mode = "edit" /\ plan[F.plan].state \notin Listed
           /\ UNCHANGED edit
        \/ /\ F.price # None
           /\ \/ /\ F.mode = "edit"
                 /\ plan[F.plan].state \in Listed
                 /\ Begin(a, [op |-> "save", id |-> F.plan, base |-> plan[F.plan],
                              mine |-> [plan[F.plan] EXCEPT !.price = F.price,
                                                            !.panel = p],
                              kept |-> F.kept])
              \/ /\ F.mode = "add"
                 /\ \E n \in Plans :
                    /\ plan[n].state = "none"
                    /\ \A c \in Admins : edit[c].op = "save" => edit[c].id # n
                    /\ Begin(a, [op |-> "save", id |-> n, base |-> NoPlan,
                                 mine |-> [state |-> "active", price |-> F.price,
                                           panel |-> p],
                                 kept |-> FALSE])
    /\ Fill(a, NoForm)
    /\ UNCHANGED <<catalog, services, order, bill, clicks>>

(* Only attributes that differ from the loaded row are written (the mutant *)
(* writes the whole row).                                                  *)
Overwrite(now, base, mine) == mine
Set(now, base, mine) == IF mine # base THEN mine ELSE now
Merge(now, base, mine) ==
    [state |-> Set(now.state, base.state, mine.state),
     price |-> Set(now.price, base.price, mine.price),
     panel |-> Set(now.panel, base.panel, mine.panel)]

(* The commit of a form.  The id of a new plan is drawn here; a panel that *)
(* is gone violates the foreign key.                                       *)
Write(a) ==
    LET E == edit[a] IN
    /\ E.op = "save"
    /\ plan' = IF \/ plan[E.id].state \notin
                        (IF E.base.state = "none" THEN {"none"} ELSE Listed)
                  \/ panel[Merge(plan[E.id], E.base, E.mine).panel] \notin Listed
               THEN plan
               ELSE [plan EXCEPT ![E.id] = Merge(plan[E.id], E.base, E.mine)]
    /\ edit' = [edit EXCEPT ![a] = NoEdit]
    /\ UNCHANGED <<panel, templates, testPanel, services, form, order, bill, clicks>>

-----------------------------------------------------------------------------
(* Orders *)

(* buy_service_username: the plan, and a client for its panel.             *)
AskPlan(b) ==
    /\ order[b].at = "idle"
    /\ \E n \in Plans :
        /\ plan[n].state = "active"
        /\ order' = [order EXCEPT ![b] =
              [NoOrder EXCEPT !.at = "create", !.plan = n, !.client = plan[n].panel,
                              !.groups = HasGroups(plan[n].panel)]]
    /\ UNCHANGED <<catalog, services, form, edit, bill, clicks>>

(* test_account: the panel of the settings, or the first active one.       *)
AskTest(b) ==
    /\ order[b].at = "idle" /\ b \notin tested
    /\ \E p \in Panels :
        /\ p = IF testPanel # None \/ Active = {} THEN testPanel ELSE Min(Active)
        /\ panel[p] \in Listed
        /\ order' = [order EXCEPT ![b] =
              [NoOrder EXCEPT !.at = "create", !.test = TRUE, !.client = p,
                              !.groups = HasGroups(p)]]
    /\ UNCHANGED <<catalog, services, form, edit, bill, clicks>>

(* _create resolves the panel of the row again: for a plan it is the one   *)
(* of the client, for a test account the only active panel.                *)
RecordedOn(S, p) == IF S.test THEN Resolves(p) ELSE p = S.client

(* A client without groups, or an ambiguous panel, is an error; the mark   *)
(* of a test account is committed nevertheless.                            *)
Create(b) ==
    LET S == order[b] IN
    /\ S.at = "create"
    /\ \/ /\ S.groups
          /\ \E p \in Panels, name \in Fresh :
                /\ RecordedOn(S, p)
                /\ accounts' = [accounts EXCEPT ![S.client] = @ \cup {name}]
                /\ order' = [order EXCEPT ![b] = [S EXCEPT !.at = "commit",
                      !.new = {[name |-> name, user |-> b, plan |-> S.plan,
                                panel |-> p, test |-> S.test]}]]
       \/ /\ ~S.groups \/ ~\E p \in Panels : RecordedOn(S, p)
          /\ order' = [order EXCEPT ![b] = [S EXCEPT !.at = "commit"]]
          /\ UNCHANGED accounts
    /\ UNCHANGED <<catalog, rows, tested, form, edit, bill, clicks>>

(* The new row refers to its plan and panel: if one is gone, the order is  *)
(* rolled back, and the account stays.                                     *)
Commit(b) ==
    LET S == order[b]
        valid == \A r \in S.new : /\ panel[r.panel] \in Listed
                                  /\ r.plan = None \/ plan[r.plan].state \in Listed IN
    /\ S.at = "commit"
    /\ rows' = IF valid THEN rows \cup S.new ELSE rows
    /\ tested' = IF valid /\ S.test THEN tested \cup {b} ELSE tested
    /\ order' = [order EXCEPT ![b] = NoOrder]
    /\ UNCHANGED <<catalog, accounts, form, edit, bill, clicks>>

-----------------------------------------------------------------------------
(* Billing of a service without a panel: the only active panel is asked.   *)
Ask(name) ==
    /\ bill = {}
    /\ \E r \in rows, p \in Panels :
        /\ r.name = name /\ r.panel = None /\ Resolves(p)
        /\ bill' = {[name |-> name, panel |-> p]}
    /\ UNCHANGED <<catalog, services, form, edit, order, clicks>>

(* The panel is recorded only if the account could be read there (the      *)
(* mutant records it before).                                              *)
Unread(name, p) == TRUE
Readable(name, p) == name \in accounts[p]
Assign ==
    /\ \E q \in bill :
        rows' = IF Readable(q.name, q.panel) /\ panel[q.panel] \in Listed
                THEN {IF r.name = q.name THEN [r EXCEPT !.panel = q.panel] ELSE r :
                        r \in rows}
                ELSE rows
    /\ bill' = {}
    /\ UNCHANGED <<catalog, tested, accounts, form, edit, order, clicks>>

-----------------------------------------------------------------------------
Init ==
    /\ panel = Shop
    /\ templates = {[panel |-> p, groups |-> TRUE] : p \in Grouped}
    /\ plan = [n \in Plans |-> NoPlan]
    /\ rows = {[name |-> n, user |-> Nobody, plan |-> None, panel |-> None,
                test |-> FALSE] : n \in UNION {Home[p] : p \in Panels}}
    /\ tested = {} /\ testPanel = None
    /\ accounts = Home
    /\ form = [a \in Admins |-> NoForm]
    /\ edit = [a \in Admins |-> NoEdit]
    /\ order = [b \in Buyers |-> NoOrder]
    /\ bill = {} /\ clicks = 0

Buttons == AddPanel \/ SwitchPanel \/ AddTemplate \/ SwitchPlan \/ SetTestPanel
Desk(a) ==
    \/ AskDropPanel(a) \/ AskDropPlan(a) \/ Drop(a)
    \/ StartForm(a) \/ TypePrice(a) \/ Save(a) \/ Write(a)
Buy(b) == AskPlan(b) \/ AskTest(b) \/ Create(b) \/ Commit(b)

Next ==
    \/ Buttons
    \/ \E a \in Admins : Desk(a)
    \/ \E b \in Buyers : Buy(b)
    \/ \E n \in Names : Ask(n)
    \/ Assign

Spec == Init /\ [][Next]_vars

(* Billing visits every service every minute, however often others are     *)
(* being asked; nothing makes admins and customers act.                    *)
FairSpec ==
    Spec /\ (\A n \in Names : SF_vars(Ask(n))) /\ WF_vars(Assign)
-----------------------------------------------------------------------------
(* Properties *)

(* The tables, the dialogues and the transactions keep their shape; in     *)
(* particular no plan is ever sold at a price that is not positive.        *)
TypeOK ==
    /\ panel \in [Panels -> PanelStates]
    /\ templates \subseteq Template
    /\ plan \in [Plans -> Plan]
    /\ \A n \in Plans : plan[n].state # "none" =>
                          plan[n].price # None /\ plan[n].panel # None
    /\ rows \subseteq Row
    /\ tested \subseteq Buyers /\ testPanel \in Panels \cup {None}
    /\ accounts \in [Panels -> SUBSET Names]
    /\ form \in [Admins -> Form] /\ edit \in [Admins -> Edit]
    /\ order \in [Buyers -> Order] /\ bill \subseteq Bill
    /\ clicks \in Nat

(* A paid service is recorded on the panel that has its account, and a     *)
(* service of an older version is recorded on no panel or on that one:     *)
(* what Lifecycle takes for granted when it calls the panel of a row.      *)
ServicesOnTheirPanel ==
    \A r \in rows : ~r.test /\ r.panel # None => r.name \in accounts[r.panel]

(* A panel that has accounts stays in the table, so that they can still be *)
(* disabled and deleted: delete_panel does not count accounts, it is the   *)
(* template every account needs that keeps the panel.                      *)
PanelsWithAccountsStay ==
    \A p \in Panels : accounts[p] # {} => panel[p] \in Listed

(* The save of a form does not undo what another admin has meanwhile done  *)
(* to a plan: neither its state, nor a panel the form did not change.      *)
MergesWith(a) ==
    LET E == edit[a] IN
    E.op = "save" /\ E.base.state # "none" /\ edit'[a].op = "none" =>
        /\ plan'[E.id].state = plan[E.id].state
        /\ E.mine.panel = E.base.panel => plan'[E.id].panel = plan[E.id].panel
SavesMerge == [][\A a \in Admins : MergesWith(a)]_vars

(* If in the end one panel alone is active, the services whose accounts it *)
(* has are assigned to it, however the panels were switched before.        *)
OnPanel(name, p) == \E r \in rows : r.name = name /\ r.panel = p
LegacyIsAssigned ==
    \A p \in Panels : \A n \in Home[p] :
        <>[](Active = {p}) => <>OnPanel(n, p)

(* The invariant of the proofs.  Forms and transactions know rows that     *)
(* were in the table, every template keeps its panel there, and accounts   *)
(* were created with the groups of a template.                             *)
FormsKnowPlans ==
    \A a \in Admins :
        form[a].mode = "edit" =>
            form[a].plan \in Plans /\ plan[form[a].plan].state # "none"
EditsAreSound ==
    \A a \in Admins :
        LET E == edit[a] IN
        /\ E.op \in {"drop panel", "hide panel"} => E.id \in Panels
        /\ E.op \in {"drop plan", "hide plan", "save"} => E.id \in Plans
        /\ E.op = "save" =>
              /\ E.mine.state # "none" /\ E.mine.price # None /\ E.mine.panel # None
              /\ \/ E.base = NoPlan
                 \/ E.base.state # "none" /\ E.mine.state = E.base.state
OrdersAreSound ==
    \A b \in Buyers :
        LET S == order[b] IN
        /\ S.at = "create" => S.client \in Panels
        /\ S.at = "create" /\ S.groups => HasGroups(S.client)
        /\ \A r \in S.new : r.panel \in Panels
        /\ \A r \in S.new : ~r.test => r.name \in accounts[r.panel]
TemplatesKeepPanels == \A t \in templates : panel[t.panel] \in Listed
AccountsHaveGroups == \A p \in Panels : accounts[p] # {} => HasGroups(p)
Inductive ==
    /\ TypeOK /\ FormsKnowPlans /\ EditsAreSound /\ OrdersAreSound
    /\ TemplatesKeepPanels /\ AccountsHaveGroups /\ ServicesOnTheirPanel

(* "Choose the panel of the test account" (admin.py:679): who has used up  *)
(* the test account has one, recorded on the panel that was chosen for it. *)
TestAccountsExist ==
    \A b \in tested :
        \E r \in rows : r.test /\ r.user = b /\ r.name \in accounts[r.panel]

(* "To keep the current value send -" (admin.py:1127): a form that kept    *)
(* the price leaves it as it is.                                           *)
KeptPriceStays ==
    [][\A a \in Admins :
        edit[a].kept /\ edit'[a].op = "none" =>
            plan'[edit[a].id].price = plan[edit[a].id].price]_vars

(* Every account on a panel is a service, or its order is still at work.   *)
NoStrayAccounts ==
    \A p \in Panels : \A name \in accounts[p] :
        \/ \E r \in rows : r.name = name
        \/ \E b \in Buyers : \E r \in order[b].new : r.name = name
=============================================================================
