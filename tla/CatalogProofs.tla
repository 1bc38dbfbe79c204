--------------------------- MODULE CatalogProofs ---------------------------
(***************************************************************************)
(* Proofs about Catalog for any number of panels, plans, accounts, admins  *)
(* and customers: type correctness, paid and old services are recorded on  *)
(* the panel of their account, and panels with accounts are never deleted. *)
(***************************************************************************)
EXTENDS Catalog, TLAPS

(* What a save writes is a sound plan. *)
LEMMA MergeType ==
    ASSUME NEW now \in Plan, NEW base \in Plan, NEW mine \in Plan
    PROVE  /\ Merge(now, base, mine) \in Plan
           /\ /\ mine.state # "none" /\ mine.price # None /\ mine.panel # None
              /\ \/ now.price # None /\ now.panel # None
                 \/ base = NoPlan
              => /\ Merge(now, base, mine).price # None
                 /\ Merge(now, base, mine).panel # None
  BY DEF Merge, Set, Plan, NoPlan

(* Constants of the module are of their types. *)
LEMMA Blanks == NoPlan \in Plan /\ NoForm \in Form /\ NoEdit \in Edit /\ NoOrder \in Order
<1>1. NoPlan \in Plan
  BY DEF NoPlan, Plan, PanelStates
<1>2. NoForm \in Form
  BY DEF NoForm, Form
<1>3. NoEdit \in Edit
  BY <1>1 DEF NoEdit, Edit
<1>4. NoOrder \in Order
  BY DEF NoOrder, Order
<1>5. QED
  BY <1>1, <1>2, <1>3, <1>4

(* The catalog starts sound. *)
LEMMA InitSound == Init => Inductive
<1> SUFFICES ASSUME Init PROVE Inductive
  OBVIOUS
<1> USE DEF Init
<1>1. TypeOK
  <2>1. rows \subseteq Row
    <3>1. ASSUME NEW p \in Panels, NEW n \in Home[p]
          PROVE  [name |-> n, user |-> Nobody, plan |-> None, panel |-> None,
                  test |-> FALSE] \in Row
      BY StartAssumption DEF Row
    <3>2. QED
      BY <3>1
  <2>2. templates \subseteq Template
    <3>1. \A p \in Grouped : [panel |-> p, groups |-> TRUE] \in Template
      BY StartAssumption DEF Template
    <3>2. QED
      BY <3>1
  <2>3. \A n \in Plans : plan[n] = NoPlan
    OBVIOUS
  <2>4. QED
    BY <2>1, <2>2, <2>3, Blanks, StartAssumption DEF TypeOK, NoPlan
<1>2. FormsKnowPlans /\ EditsAreSound /\ OrdersAreSound
  BY DEF FormsKnowPlans, EditsAreSound, OrdersAreSound, NoForm, NoEdit, NoOrder
<1>3. TemplatesKeepPanels
  <2>1. \A t \in templates : t.panel \in Grouped
    OBVIOUS
  <2>2. QED
    BY <2>1, StartAssumption DEF TemplatesKeepPanels, Listed
<1>4. AccountsHaveGroups
  <2>1. \A p \in Grouped : [panel |-> p, groups |-> TRUE] \in templates
    OBVIOUS
  <2>2. \A p \in Grouped : HasGroups(p)
    BY <2>1 DEF HasGroups
  <2>3. QED
    BY <2>2, StartAssumption DEF AccountsHaveGroups
<1>5. ServicesOnTheirPanel
  BY DEF ServicesOnTheirPanel
<1>6. QED
  BY <1>1, <1>2, <1>3, <1>4, <1>5 DEF Inductive

-----------------------------------------------------------------------------
(* Buttons that write one value: no panel with a template leaves the table. *)
LEMMA ButtonsSound == Inductive /\ Buttons => Inductive'
<1> SUFFICES ASSUME Inductive, Buttons PROVE Inductive'
  OBVIOUS
<1> USE DEF Inductive, Click
<1>1. CASE AddPanel
  <2>1. PICK p \in Panels : panel[p] = "none" /\ panel' = [panel EXCEPT ![p] = "active"]
    BY <1>1 DEF AddPanel
  <2>2. TypeOK'
    BY <1>1, <2>1, BoundAssumption
    DEF AddPanel, TypeOK, PanelStates, catalog, services
  <2>3. TemplatesKeepPanels'
    BY <1>1, <2>1 DEF AddPanel, TemplatesKeepPanels, TypeOK, Listed, Template
  <2>4. QED
    BY <1>1, <2>2, <2>3
    DEF AddPanel, services, FormsKnowPlans, EditsAreSound, OrdersAreSound,
        AccountsHaveGroups, ServicesOnTheirPanel, HasGroups
<1>2. CASE SwitchPanel
  <2>1. PICK p \in Panels, st \in Listed :
            panel[p] \in Listed /\ panel' = [panel EXCEPT ![p] = st]
    BY <1>2 DEF SwitchPanel
  <2>2. TypeOK'
    BY <1>2, <2>1 DEF SwitchPanel, TypeOK, PanelStates, Listed, services
  <2>3. TemplatesKeepPanels'
    BY <1>2, <2>1 DEF SwitchPanel, TemplatesKeepPanels, TypeOK, Template
  <2>4. QED
    BY <1>2, <2>2, <2>3
    DEF SwitchPanel, services, FormsKnowPlans, EditsAreSound, OrdersAreSound,
        AccountsHaveGroups, ServicesOnTheirPanel, HasGroups
<1>3. CASE AddTemplate
  <2>1. PICK t \in Template : panel[t.panel] \in Listed
                              /\ templates' = templates \cup {t}
    BY <1>3 DEF AddTemplate
  <2>2. TypeOK'
    BY <1>3, <2>1 DEF AddTemplate, TypeOK, services
  <2>3. \A p : HasGroups(p) => HasGroups(p)'
    BY <2>1 DEF HasGroups
  <2>4. TemplatesKeepPanels'
    BY <1>3, <2>1 DEF AddTemplate, TemplatesKeepPanels
  <2>5. OrdersAreSound'
    BY <1>3, <2>3 DEF AddTemplate, OrdersAreSound, services
  <2>6. AccountsHaveGroups'
    BY <1>3, <2>3 DEF AddTemplate, AccountsHaveGroups, services
  <2>7. QED
    BY <1>3, <2>2, <2>4, <2>5, <2>6
    DEF AddTemplate, services, FormsKnowPlans, EditsAreSound, ServicesOnTheirPanel
<1>4. CASE SwitchPlan
  <2>1. PICK n \in Plans, st \in Listed :
            plan[n].state \in Listed /\ plan' = [plan EXCEPT ![n].state = st]
    BY <1>4 DEF SwitchPlan
  <2>2. plan' \in [Plans -> Plan]
    BY <2>1 DEF TypeOK, Plan, PanelStates, Listed
  <2>3. \A m \in Plans : /\ plan'[m].price = plan[m].price
                         /\ plan'[m].panel = plan[m].panel
                         /\ plan'[m].state # "none" <=> plan[m].state # "none"
    BY <2>1 DEF TypeOK, Plan, Listed
  <2>4. TypeOK'
    BY <1>4, <2>2, <2>3 DEF SwitchPlan, TypeOK, services
  <2>5. FormsKnowPlans'
    BY <1>4, <2>3 DEF SwitchPlan, FormsKnowPlans, services
  <2>6. QED
    BY <1>4, <2>4, <2>5
    DEF SwitchPlan, services, EditsAreSound, OrdersAreSound, TemplatesKeepPanels,
        AccountsHaveGroups, ServicesOnTheirPanel, HasGroups
<1>5. CASE SetTestPanel
  <2>1. TypeOK'
    BY <1>5 DEF SetTestPanel, services, TypeOK
  <2>2. QED
    BY <1>5, <2>1
    DEF SetTestPanel, services, FormsKnowPlans, EditsAreSound, OrdersAreSound,
        TemplatesKeepPanels, AccountsHaveGroups, ServicesOnTheirPanel, HasGroups
<1>6. QED
  BY <1>1, <1>2, <1>3, <1>4, <1>5 DEF Buttons

-----------------------------------------------------------------------------
(* Asking for a deletion changes no table.  A deletion keeps every panel   *)
(* that has a template, whatever was counted before.                       *)
LEMMA AsksSound ==
    ASSUME NEW a \in Admins, Inductive, AskDropPanel(a) \/ AskDropPlan(a)
    PROVE  Inductive'
<1> USE DEF Inductive, Click, Begin
<1>1. PICK E \in Edit :
          /\ edit' = [edit EXCEPT ![a] = E]
          /\ \/ E.op \in {"drop panel", "hide panel"} /\ E.id \in Panels
             \/ E.op \in {"drop plan", "hide plan"} /\ E.id \in Plans
  <2>1. CASE AskDropPanel(a)
    <3>1. PICK p \in Panels, op \in {"drop panel", "hide panel"} :
              edit' = [edit EXCEPT ![a] = [NoEdit EXCEPT !.id = p, !.op = op]]
      BY <2>1 DEF AskDropPanel
    <3>2. [NoEdit EXCEPT !.id = p, !.op = op] \in Edit
      BY Blanks DEF Edit
    <3>3. QED
      BY <3>1, <3>2, Blanks DEF Edit
  <2>2. CASE AskDropPlan(a)
    <3>1. PICK n \in Plans, op \in {"drop plan", "hide plan"} :
              edit' = [edit EXCEPT ![a] = [NoEdit EXCEPT !.id = n, !.op = op]]
      BY <2>2 DEF AskDropPlan
    <3>2. [NoEdit EXCEPT !.id = n, !.op = op] \in Edit
      BY Blanks DEF Edit
    <3>3. QED
      BY <3>1, <3>2, Blanks DEF Edit
  <2>3. QED
    BY <2>1, <2>2
<1>2. UNCHANGED <<catalog, services, form, order, bill>> /\ clicks' = clicks + 1
  BY DEF AskDropPanel, AskDropPlan
<1>3. TypeOK'
  <2>1. edit' \in [Admins -> Edit]
    BY <1>1 DEF TypeOK
  <2>2. clicks' \in Nat
    BY <1>2 DEF TypeOK
  <2>3. QED
    BY <1>2, <2>1, <2>2 DEF TypeOK, catalog, services
<1>4. EditsAreSound'
  BY <1>1, <1>2 DEF EditsAreSound, TypeOK
<1>5. QED
  BY <1>2, <1>3, <1>4
  DEF catalog, services, FormsKnowPlans, OrdersAreSound, TemplatesKeepPanels,
      AccountsHaveGroups, ServicesOnTheirPanel, HasGroups

LEMMA DropSound == ASSUME NEW a \in Admins, Inductive, Drop(a) PROVE Inductive'
<1> USE DEF Inductive
<1>1. /\ UNCHANGED <<templates, testPanel, services, form, order, bill, clicks>>
      /\ edit' = [edit EXCEPT ![a] = NoEdit]
  BY DEF Drop
<1>2. /\ panel' \in [Panels -> PanelStates]
      /\ \A p \in Panels : panel[p] \in Listed =>
             panel'[p] \in Listed \/ ~Referenced(p)
  <2>1. CASE edit[a].op \in {"drop panel", "hide panel"}
    <3>1. edit[a].id \in Panels
      BY <2>1 DEF EditsAreSound
    <3>2. QED
      BY <2>1, <3>1 DEF Drop, TypeOK, PanelStates, Listed
  <2>2. CASE edit[a].op \in {"drop plan", "hide plan"}
    BY <2>2 DEF Drop, TypeOK
  <2>3. QED
    BY <2>1, <2>2 DEF Drop
<1>3. /\ plan' \in [Plans -> Plan]
      /\ \A n \in Plans : /\ plan'[n].price = plan[n].price
                          /\ plan'[n].panel = plan[n].panel
                          /\ plan'[n].state = "none" <=> plan[n].state = "none"
  <2>1. CASE edit[a].op \in {"drop panel", "hide panel"}
    BY <2>1 DEF Drop, TypeOK
  <2>2. CASE edit[a].op \in {"drop plan", "hide plan"}
    <3>1. edit[a].id \in Plans /\ plan[edit[a].id] \in Plan
      BY <2>2 DEF EditsAreSound, TypeOK
    <3>2. \/ plan' = plan
          \/ /\ plan[edit[a].id].state \in Listed
             /\ \E st \in {"deleted", "disabled"} :
                   plan' = [plan EXCEPT ![edit[a].id].state = st]
      BY <2>2 DEF Drop
    <3>3. CASE plan' = plan
      BY <3>3 DEF TypeOK
    <3>4. CASE /\ plan[edit[a].id].state \in Listed
               /\ \E st \in {"deleted", "disabled"} :
                     plan' = [plan EXCEPT ![edit[a].id].state = st]
      <4>1. PICK st \in {"deleted", "disabled"} :
                plan' = [plan EXCEPT ![edit[a].id].state = st]
        BY <3>4
      <4>2. plan[edit[a].id].state # "none" /\ st # "none" /\ st \in PanelStates
        BY <3>4 DEF Listed, PanelStates
      <4>3. QED
        BY <3>1, <4>1, <4>2 DEF TypeOK, Plan
    <3>5. QED
      BY <3>2, <3>3, <3>4
  <2>3. QED
    BY <2>1, <2>2 DEF Drop
<1>4. TypeOK'
  BY <1>1, <1>2, <1>3, Blanks DEF TypeOK, services
<1>5. TemplatesKeepPanels'
  BY <1>1, <1>2 DEF TemplatesKeepPanels, Referenced, TypeOK, Template
<1>6. EditsAreSound'
  BY <1>1 DEF EditsAreSound, TypeOK, NoEdit
<1>7. FormsKnowPlans'
  BY <1>1, <1>3 DEF FormsKnowPlans
<1>8. QED
  BY <1>1, <1>4, <1>5, <1>6, <1>7
  DEF services, OrdersAreSound, AccountsHaveGroups, ServicesOnTheirPanel, HasGroups

-----------------------------------------------------------------------------
(* The form: what it holds can be saved, and what is saved is a plan.      *)
LEMMA FillSound ==
    ASSUME NEW a \in Admins, Inductive, StartForm(a) \/ TypePrice(a)
    PROVE  Inductive'
<1> USE DEF Inductive, Click, Fill
<1>1. PICK F \in Form :
          /\ form' = [form EXCEPT ![a] = F]
          /\ F.mode = "edit" => F.plan \in Plans /\ plan[F.plan].state # "none"
  <2>1. CASE StartForm(a)
    <3>1. CASE form' = [form EXCEPT ![a] = [NoForm EXCEPT !.mode = "add"]]
      <4>1. [NoForm EXCEPT !.mode = "add"] \in Form
        BY Blanks DEF Form
      <4>2. QED
        BY <3>1, <4>1, Blanks DEF Form
    <3>2. CASE \E n \in Plans :
              /\ plan[n].state \in Listed
              /\ form' = [form EXCEPT ![a] = [NoForm EXCEPT !.mode = "edit", !.plan = n]]
      <4>1. PICK n \in Plans :
              /\ plan[n].state \in Listed
              /\ form' = [form EXCEPT ![a] = [NoForm EXCEPT !.mode = "edit", !.plan = n]]
        BY <3>2
      <4>2. [NoForm EXCEPT !.mode = "edit", !.plan = n] \in Form
        BY Blanks DEF Form
      <4>3. QED
        BY <4>1, <4>2, Blanks DEF Form, Listed
    <3>3. QED
      BY <2>1, <3>1, <3>2 DEF StartForm
  <2>2. CASE TypePrice(a)
    <3>1. form[a] \in Form
      BY DEF TypeOK
    <3>2. PICK x \in Prices \cup {None}, k \in BOOLEAN :
              form' = [form EXCEPT ![a] =
                  IF Active = {} THEN NoForm
                  ELSE [form[a] EXCEPT !.price = x, !.kept = k]]
      <4>1. CASE \E x \in Inputs :
                Positive(x) /\ Fill(a, IF Active = {} THEN NoForm
                                ELSE [form[a] EXCEPT !.price = x, !.kept = FALSE])
        BY <4>1, PricesAssumption DEF Positive
      <4>2. CASE /\ form[a].mode = "edit"
                 /\ Fill(a, IF Active = {} THEN NoForm
                        ELSE [form[a] EXCEPT !.price = plan[form[a].plan].price,
                                             !.kept = TRUE])
        <5>1. plan[form[a].plan].price \in Prices \cup {None}
          BY <4>2 DEF FormsKnowPlans, TypeOK, Plan
        <5>2. QED
          BY <4>2, <5>1
      <4>3. QED
        BY <2>2, <4>1, <4>2 DEF TypePrice
    <3>3. [form[a] EXCEPT !.price = x, !.kept = k] \in Form
      BY <3>1 DEF Form
    <3>4. QED
      BY <3>1, <3>2, <3>3, Blanks DEF Form, NoForm, FormsKnowPlans
  <2>3. QED
    BY <2>1, <2>2
<1>2. UNCHANGED <<catalog, services, edit, order, bill>> /\ clicks' \in Nat
  <2>1. clicks' \in {clicks, clicks + 1} /\ clicks \in Nat
    BY DEF StartForm, TypePrice, TypeOK
  <2>2. UNCHANGED <<catalog, services, edit, order, bill>>
    BY DEF StartForm, TypePrice
  <2>3. QED
    BY <2>1, <2>2
<1>3. TypeOK'
  BY <1>1, <1>2 DEF TypeOK, catalog, services
<1>4. FormsKnowPlans'
  BY <1>1, <1>2 DEF FormsKnowPlans, TypeOK, catalog
<1>5. QED
  BY <1>2, <1>3, <1>4
  DEF catalog, services, EditsAreSound, OrdersAreSound, TemplatesKeepPanels,
      AccountsHaveGroups, ServicesOnTheirPanel, HasGroups

LEMMA SaveSound == ASSUME NEW a \in Admins, Inductive, Save(a) PROVE Inductive'
<1> USE DEF Inductive, Begin, Fill
<1> DEFINE F == form[a]
<1>1. /\ UNCHANGED <<catalog, services, order, bill, clicks>>
      /\ form' = [form EXCEPT ![a] = NoForm]
      /\ F \in Form
  BY DEF Save, TypeOK
<1>2. \/ UNCHANGED edit
      \/ \E E \in Edit :
            /\ edit' = [edit EXCEPT ![a] = E]
            /\ E.op = "save" /\ E.id \in Plans
            /\ E.mine.state # "none" /\ E.mine.price # None /\ E.mine.panel # None
            /\ \/ E.base = NoPlan
               \/ E.base.state # "none" /\ E.mine.state = E.base.state
  <2>1. PICK p \in Choice(F) :
          \/ UNCHANGED edit
          \/ /\ F.price # None
             /\ \/ /\ F.mode = "edit" /\ plan[F.plan].state \in Listed
                   /\ edit' = [edit EXCEPT ![a] =
                        [op |-> "save", id |-> F.plan, base |-> plan[F.plan],
                         mine |-> [plan[F.plan] EXCEPT !.price = F.price, !.panel = p],
                         kept |-> F.kept]]
                \/ /\ F.mode = "add"
                   /\ \E n \in Plans :
                        edit' = [edit EXCEPT ![a] =
                          [op |-> "save", id |-> n, base |-> NoPlan,
                           mine |-> [state |-> "active", price |-> F.price, panel |-> p],
                           kept |-> FALSE]]
    BY DEF Save
  <2>2. CASE /\ F.price # None
             /\ F.mode = "edit" /\ plan[F.plan].state \in Listed
             /\ edit' = [edit EXCEPT ![a] =
                    [op |-> "save", id |-> F.plan, base |-> plan[F.plan],
                     mine |-> [plan[F.plan] EXCEPT !.price = F.price, !.panel = p],
                     kept |-> F.kept]]
    <3>1. F.plan \in Plans /\ plan[F.plan] \in Plan
      BY <2>2 DEF FormsKnowPlans, TypeOK
    <3>2. p \in Panels
      BY <2>2, <3>1 DEF Choice, Active, TypeOK, Plan, Listed
    <3>3. p # None
      BY <3>2, IdsAssumption
    <3> DEFINE m == [plan[F.plan] EXCEPT !.price = F.price, !.panel = p]
    <3>4. m \in Plan /\ m.state = plan[F.plan].state /\ m.price = F.price /\ m.panel = p
      BY <1>1, <3>1, <3>2 DEF Plan, Form
    <3> DEFINE E == [op |-> "save", id |-> F.plan, base |-> plan[F.plan],
                     mine |-> m, kept |-> F.kept]
    <3>5. E \in Edit
      BY <1>1, <3>1, <3>4 DEF Edit, Form
    <3>6. plan[F.plan].state # "none"
      BY <2>2 DEF Listed
    <3> HIDE DEF m
    <3>7. QED
      BY <2>2, <3>1, <3>3, <3>4, <3>5, <3>6 DEF m
  <2>3. CASE /\ F.price # None
             /\ \E n \in Plans :
                    edit' = [edit EXCEPT ![a] =
                      [op |-> "save", id |-> n, base |-> NoPlan,
                       mine |-> [state |-> "active", price |-> F.price, panel |-> p],
                       kept |-> FALSE]]
             /\ F.mode = "add"
    <3>1. PICK n \in Plans :
              edit' = [edit EXCEPT ![a] =
                  [op |-> "save", id |-> n, base |-> NoPlan,
                   mine |-> [state |-> "active", price |-> F.price, panel |-> p],
                   kept |-> FALSE]]
      BY <2>3
    <3>2. p \in Panels /\ p # None
      BY <2>3, IdsAssumption DEF Choice, Active
    <3>3. [state |-> "active", price |-> F.price, panel |-> p] \in Plan
      BY <1>1, <3>2 DEF Plan, Form, PanelStates
    <3>4. [op |-> "save", id |-> n, base |-> NoPlan,
           mine |-> [state |-> "active", price |-> F.price, panel |-> p],
           kept |-> FALSE] \in Edit
      BY <3>3, Blanks DEF Edit
    <3>5. QED
      BY <2>3, <3>1, <3>2, <3>4
  <2>4. QED
    BY <2>1, <2>2, <2>3
<1>3. TypeOK'
  BY <1>1, <1>2, Blanks DEF TypeOK, catalog, services
<1>4. FormsKnowPlans'
  BY <1>1 DEF FormsKnowPlans, TypeOK, NoForm, catalog
<1>5. EditsAreSound'
  BY <1>2 DEF EditsAreSound, TypeOK
<1>6. QED
  BY <1>1, <1>3, <1>4, <1>5
  DEF catalog, services, OrdersAreSound, TemplatesKeepPanels, AccountsHaveGroups,
      ServicesOnTheirPanel, HasGroups

LEMMA WriteSound == ASSUME NEW a \in Admins, Inductive, Write(a) PROVE Inductive'
<1> USE DEF Inductive
<1> DEFINE E == edit[a]
           M == Merge(plan[E.id], E.base, E.mine)
<1>1. /\ E.op = "save" /\ E \in Edit /\ E.id \in Plans
      /\ E.mine.state # "none" /\ E.mine.price # None /\ E.mine.panel # None
      /\ \/ E.base = NoPlan
         \/ E.base.state # "none" /\ E.mine.state = E.base.state
      /\ E.base \in Plan /\ E.mine \in Plan
      /\ UNCHANGED <<panel, templates, testPanel, services, form, order, bill, clicks>>
      /\ edit' = [edit EXCEPT ![a] = NoEdit]
  BY DEF Write, TypeOK, EditsAreSound, Edit
<1>2. /\ plan' \in [Plans -> Plan]
      /\ \A n \in Plans : plan'[n].state # "none" =>
                          plan'[n].price # None /\ plan'[n].panel # None
      /\ \A n \in Plans : plan[n].state # "none" => plan'[n].state # "none"
  <2>1. CASE plan' = plan
    BY <2>1 DEF TypeOK
  <2>2. CASE /\ plan' = [plan EXCEPT ![E.id] = M]
             /\ plan[E.id].state \in (IF E.base.state = "none" THEN {"none"} ELSE Listed)
    <3>1. plan[E.id] \in Plan
      BY <1>1 DEF TypeOK
    <3>2. \/ plan[E.id].price # None /\ plan[E.id].panel # None
          \/ E.base = NoPlan
      BY <1>1, <2>2 DEF TypeOK, Listed
    <3>3. M \in Plan /\ M.price # None /\ M.panel # None
      BY <1>1, <3>1, <3>2, MergeType
    <3>4. plan[E.id].state # "none" => M.state # "none"
      BY <1>1 DEF Merge, Set
    <3> HIDE DEF M
    <3>5. QED
      BY <1>1, <2>2, <3>3, <3>4 DEF TypeOK
  <2>3. QED
    BY <2>1, <2>2 DEF Write
<1>3. TypeOK'
  BY <1>1, <1>2, Blanks DEF TypeOK, services
<1>4. FormsKnowPlans'
  BY <1>1, <1>2 DEF FormsKnowPlans
<1>5. EditsAreSound'
  BY <1>1 DEF EditsAreSound, TypeOK, NoEdit
<1>6. QED
  BY <1>1, <1>3, <1>4, <1>5
  DEF services, OrdersAreSound, TemplatesKeepPanels, AccountsHaveGroups,
      ServicesOnTheirPanel, HasGroups

-----------------------------------------------------------------------------
(* Orders: an account is created with the groups of a template, and its    *)
(* row names the panel it was created on.                                  *)
LEMMA AskOrderSound ==
    ASSUME NEW b \in Buyers, Inductive, AskPlan(b) \/ AskTest(b)
    PROVE  Inductive'
<1> USE DEF Inductive
<1>1. PICK S \in Order :
          /\ order' = [order EXCEPT ![b] = S]
          /\ S.client \in Panels /\ S.new = {}
          /\ S.groups = HasGroups(S.client)
  <2>1. CASE AskPlan(b)
    <3>1. PICK n \in Plans :
              /\ plan[n].state = "active"
              /\ order' = [order EXCEPT ![b] =
                    [NoOrder EXCEPT !.at = "create", !.plan = n,
                                    !.client = plan[n].panel,
                                    !.groups = HasGroups(plan[n].panel)]]
      BY <2>1 DEF AskPlan
    <3>2. plan[n].panel \in Panels
      BY <3>1 DEF TypeOK, Plan
    <3>3. HasGroups(plan[n].panel) \in BOOLEAN
      BY DEF HasGroups
    <3> DEFINE S == [NoOrder EXCEPT !.at = "create", !.plan = n,
                                    !.client = plan[n].panel,
                                    !.groups = HasGroups(plan[n].panel)]
    <3>4. /\ S \in Order /\ S.client = plan[n].panel /\ S.new = {}
          /\ S.groups = HasGroups(plan[n].panel)
      BY <3>2, <3>3, Blanks DEF Order, NoOrder
    <3> HIDE DEF S
    <3>5. QED
      BY <3>1, <3>2, <3>4 DEF S
  <2>2. CASE AskTest(b)
    <3>1. PICK p \in Panels :
              order' = [order EXCEPT ![b] =
                  [NoOrder EXCEPT !.at = "create", !.test = TRUE, !.client = p,
                                  !.groups = HasGroups(p)]]
      BY <2>2 DEF AskTest
    <3>2. HasGroups(p) \in BOOLEAN
      BY DEF HasGroups
    <3> DEFINE S == [NoOrder EXCEPT !.at = "create", !.test = TRUE, !.client = p,
                                    !.groups = HasGroups(p)]
    <3>3. S \in Order /\ S.client = p /\ S.new = {} /\ S.groups = HasGroups(p)
      BY <3>2, Blanks DEF Order, NoOrder
    <3> HIDE DEF S
    <3>4. QED
      BY <3>1, <3>3 DEF S
  <2>3. QED
    BY <2>1, <2>2
<1>2. UNCHANGED <<catalog, services, form, edit, bill, clicks>>
  BY DEF AskPlan, AskTest
<1>3. TypeOK'
  BY <1>1, <1>2 DEF TypeOK, catalog, services
<1>4. OrdersAreSound'
  <2>1. \A p : HasGroups(p)' = HasGroups(p)
    BY <1>2 DEF HasGroups, catalog
  <2>2. QED
    BY <1>1, <1>2, <2>1 DEF OrdersAreSound, TypeOK, services
<1>5. QED
  BY <1>2, <1>3, <1>4
  DEF catalog, services, FormsKnowPlans, EditsAreSound, TemplatesKeepPanels,
      AccountsHaveGroups, ServicesOnTheirPanel, HasGroups

LEMMA CreateSound == ASSUME NEW b \in Buyers, Inductive, Create(b) PROVE Inductive'
<1> USE DEF Inductive
<1> DEFINE S == order[b]
<1>1. /\ S \in Order /\ S.client \in Panels
      /\ UNCHANGED <<catalog, rows, tested, form, edit, bill, clicks>>
  BY DEF Create, TypeOK, OrdersAreSound
<1>2. CASE /\ order' = [order EXCEPT ![b] = [S EXCEPT !.at = "commit"]]
           /\ UNCHANGED accounts
  <2>1. [S EXCEPT !.at = "commit"] \in Order
    BY <1>1 DEF Order
  <2>2. TypeOK'
    BY <1>1, <1>2, <2>1 DEF TypeOK, catalog
  <2>3. \A p : HasGroups(p)' = HasGroups(p)
    BY <1>1 DEF HasGroups, catalog
  <2>4. OrdersAreSound'
    BY <1>1, <1>2, <2>3 DEF OrdersAreSound, TypeOK, Order
  <2>5. QED
    BY <1>1, <1>2, <2>2, <2>4
    DEF catalog, FormsKnowPlans, EditsAreSound, TemplatesKeepPanels,
        AccountsHaveGroups, ServicesOnTheirPanel, HasGroups
<1>3. CASE /\ S.at = "create" /\ S.groups
           /\ \E p \in Panels, name \in Fresh :
                /\ RecordedOn(S, p)
                /\ accounts' = [accounts EXCEPT ![S.client] = @ \cup {name}]
                /\ order' = [order EXCEPT ![b] = [S EXCEPT !.at = "commit",
                      !.new = {[name |-> name, user |-> b, plan |-> S.plan,
                                panel |-> p, test |-> S.test]}]]
  <2>1. PICK p \in Panels, name \in Fresh :
                /\ RecordedOn(S, p)
                /\ accounts' = [accounts EXCEPT ![S.client] = @ \cup {name}]
                /\ order' = [order EXCEPT ![b] = [S EXCEPT !.at = "commit",
                      !.new = {[name |-> name, user |-> b, plan |-> S.plan,
                                panel |-> p, test |-> S.test]}]]
    BY <1>3
  <2> DEFINE r == [name |-> name, user |-> b, plan |-> S.plan, panel |-> p,
                   test |-> S.test]
             T == [S EXCEPT !.at = "commit", !.new = {r}]
  <2>2. name \in Names
    BY DEF Fresh
  <2>3. r \in Row /\ r.panel = p /\ r.name = name /\ r.test = S.test
    BY <1>1, <2>2 DEF Row, Order
  <2> HIDE DEF r
  <2>4. T \in Order /\ T.at = "commit" /\ T.new = {r}
    BY <1>1, <2>3 DEF Order
  <2>5. order' = [order EXCEPT ![b] = T]
    BY <2>1 DEF r
  <2> HIDE DEF T
  <2>6. /\ accounts' \in [Panels -> SUBSET Names]
        /\ \A q \in Panels : accounts[q] \subseteq accounts'[q]
        /\ \A q \in Panels : q # S.client => accounts'[q] = accounts[q]
        /\ name \in accounts'[S.client]
    BY <1>1, <2>1, <2>2 DEF TypeOK
  <2>7. TypeOK'
    BY <1>1, <2>4, <2>5, <2>6 DEF TypeOK, catalog
  <2>8. \A q : HasGroups(q)' = HasGroups(q)
    BY <1>1 DEF HasGroups, catalog
  <2>9. ~S.test => p = S.client
    BY <2>1 DEF RecordedOn
  <2>10. OrdersAreSound'
    <3> SUFFICES ASSUME NEW c \in Buyers
                 PROVE  /\ order'[c].at = "create" => order'[c].client \in Panels
                        /\ order'[c].at = "create" /\ order'[c].groups =>
                              \E t \in templates : /\ t.panel = order'[c].client
                                                    /\ t.groups
                        /\ \A x \in order'[c].new : x.panel \in Panels
                        /\ \A x \in order'[c].new :
                              ~x.test => x.name \in accounts'[x.panel]
      BY <1>1 DEF OrdersAreSound, HasGroups, catalog
    <3>1. CASE c = b
      <4>1. order'[c] = T
        BY <2>5, <3>1 DEF TypeOK
      <4>2. QED
        BY <2>3, <2>4, <2>6, <2>9, <4>1
    <3>2. CASE c # b
      <4>1. order'[c] = order[c]
        BY <2>5, <3>2 DEF TypeOK
      <4>2. QED
        <5>1. /\ order[c].at = "create" => order[c].client \in Panels
              /\ order[c].at = "create" /\ order[c].groups => HasGroups(order[c].client)
              /\ \A x \in order[c].new : x.panel \in Panels
              /\ \A x \in order[c].new : ~x.test => x.name \in accounts[x.panel]
          BY DEF OrdersAreSound
        <5>2. QED
          BY <2>6, <4>1, <5>1 DEF HasGroups
    <3>3. QED
      BY <3>1, <3>2
  <2>11. AccountsHaveGroups'
    BY <1>3, <2>6, <2>8 DEF AccountsHaveGroups, OrdersAreSound
  <2>12. ServicesOnTheirPanel'
    BY <1>1, <2>6 DEF ServicesOnTheirPanel, TypeOK, Row
  <2>13. QED
    BY <1>1, <2>7, <2>10, <2>11, <2>12
    DEF catalog, FormsKnowPlans, EditsAreSound, TemplatesKeepPanels
<1>4. QED
  BY <1>2, <1>3 DEF Create

LEMMA CommitSound == ASSUME NEW b \in Buyers, Inductive, Commit(b) PROVE Inductive'
<1> USE DEF Inductive
<1>1. /\ UNCHANGED <<catalog, accounts, form, edit, bill, clicks>>
      /\ order' = [order EXCEPT ![b] = NoOrder]
      /\ rows' \in {rows, rows \cup order[b].new}
      /\ tested' \subseteq tested \cup {b}
  BY DEF Commit
<1>2. order[b].new \subseteq Row
  BY DEF TypeOK, Order
<1>3. TypeOK'
  BY <1>1, <1>2, Blanks DEF TypeOK, catalog
<1>4. \A q : HasGroups(q)' = HasGroups(q)
  BY <1>1 DEF HasGroups, catalog
<1>5. OrdersAreSound'
  BY <1>1, <1>4 DEF OrdersAreSound, TypeOK, NoOrder
<1>6. ServicesOnTheirPanel'
  BY <1>1 DEF ServicesOnTheirPanel, OrdersAreSound
<1>7. QED
  BY <1>1, <1>3, <1>5, <1>6
  DEF catalog, FormsKnowPlans, EditsAreSound, TemplatesKeepPanels,
      AccountsHaveGroups, HasGroups

-----------------------------------------------------------------------------
(* Billing assigns a panel after it has read the account there.            *)
LEMMA BillingSound ==
    Inductive /\ ((\E n \in Names : Ask(n)) \/ Assign) => Inductive'
<1> SUFFICES ASSUME Inductive, (\E n \in Names : Ask(n)) \/ Assign PROVE Inductive'
  OBVIOUS
<1> USE DEF Inductive
<1>1. CASE \E n \in Names : Ask(n)
  <2>1. PICK n \in Names, p \in Panels : bill' = {[name |-> n, panel |-> p]}
    BY <1>1 DEF Ask
  <2>2. UNCHANGED <<catalog, services, form, edit, order, clicks>>
    BY <1>1 DEF Ask
  <2>3. bill' \subseteq Bill
    BY <2>1 DEF Bill
  <2>4. TypeOK'
    BY <2>2, <2>3 DEF TypeOK, catalog, services
  <2>5. QED
    BY <2>2, <2>4
    DEF catalog, services, FormsKnowPlans, EditsAreSound, OrdersAreSound,
        TemplatesKeepPanels, AccountsHaveGroups, ServicesOnTheirPanel, HasGroups
<1>2. CASE Assign
  <2>1. /\ UNCHANGED <<catalog, tested, accounts, form, edit, order, clicks>>
        /\ bill' = {}
    BY <1>2 DEF Assign
  <2>2. \A s \in rows' :
            \/ s \in rows
            \/ \E r \in rows, q \in bill :
                 /\ r.name = q.name /\ s = [r EXCEPT !.panel = q.panel]
                 /\ q.name \in accounts[q.panel]
    BY <1>2 DEF Assign, Readable
  <2>3. ASSUME NEW r \in rows, NEW q \in bill, r.name = q.name,
               q.name \in accounts[q.panel]
        PROVE  /\ [r EXCEPT !.panel = q.panel] \in Row
               /\ [r EXCEPT !.panel = q.panel].name
                     \in accounts[[r EXCEPT !.panel = q.panel].panel]
    BY <2>3 DEF TypeOK, Row, Bill
  <2>4. rows' \subseteq Row
    BY <2>2, <2>3 DEF TypeOK
  <2>5. TypeOK'
    BY <2>1, <2>4 DEF TypeOK, catalog
  <2>6. ServicesOnTheirPanel'
    BY <2>1, <2>2, <2>3 DEF ServicesOnTheirPanel
  <2>7. QED
    BY <2>1, <2>5, <2>6
    DEF catalog, FormsKnowPlans, EditsAreSound, OrdersAreSound,
        TemplatesKeepPanels, AccountsHaveGroups, HasGroups
<1>3. QED
  BY <1>1, <1>2

-----------------------------------------------------------------------------
(* Every step keeps the invariant. *)
LEMMA StepSound == Inductive /\ [Next]_vars => Inductive'
<1> SUFFICES ASSUME Inductive, [Next]_vars PROVE Inductive'
  OBVIOUS
<1>1. CASE Buttons
  BY <1>1, ButtonsSound
<1>2. ASSUME NEW a \in Admins, Desk(a) PROVE Inductive'
  BY <1>2, AsksSound, DropSound, FillSound, SaveSound, WriteSound DEF Desk
<1>3. ASSUME NEW b \in Buyers, Buy(b) PROVE Inductive'
  BY <1>3, AskOrderSound, CreateSound, CommitSound DEF Buy
<1>4. CASE (\E n \in Names : Ask(n)) \/ Assign
  BY <1>4, BillingSound
<1>5. CASE UNCHANGED vars
  BY <1>5
  DEF vars, catalog, services, Inductive, TypeOK, FormsKnowPlans, EditsAreSound,
      OrdersAreSound, TemplatesKeepPanels, AccountsHaveGroups, ServicesOnTheirPanel,
      HasGroups
<1>6. QED
  BY <1>1, <1>2, <1>3, <1>4, <1>5 DEF Next

(* The invariant holds in every state, for every value of the constants.   *)
THEOREM CatalogInvariant == Spec => []Inductive
<1>1. QED
  BY InitSound, StepSound, PTL DEF Spec

(* The tables keep their types and prices stay positive.                   *)
THEOREM CatalogTypes == Spec => []TypeOK
<1>1. Inductive => TypeOK
  BY DEF Inductive
<1>2. QED
  BY <1>1, CatalogInvariant, PTL

(* Paid and old services are recorded on the panel of their account.       *)
THEOREM RecordedWhereTheyAre == Spec => []ServicesOnTheirPanel
<1>1. Inductive => ServicesOnTheirPanel
  BY DEF Inductive
<1>2. QED
  BY <1>1, CatalogInvariant, PTL

(* A panel with accounts is never deleted, because a template keeps it.    *)
THEOREM AccountsKeepPanels == Spec => []PanelsWithAccountsStay
<1>1. Inductive => PanelsWithAccountsStay
  BY DEF Inductive, PanelsWithAccountsStay, AccountsHaveGroups, HasGroups,
         TemplatesKeepPanels
<1>2. QED
  BY <1>1, CatalogInvariant, PTL

(* A save overwrites neither the state of a plan nor a panel it kept: only *)
(* the commit of the form ends it, and it writes what differs.             *)
THEOREM SavesAreMerged == Spec => SavesMerge
<1>1. Inductive /\ [Next]_vars => \A a \in Admins : MergesWith(a)
  <2> SUFFICES ASSUME Inductive, [Next]_vars, NEW a \in Admins,
                      edit[a].op = "save", edit[a].base.state # "none",
                      edit'[a].op = "none"
               PROVE  /\ plan'[edit[a].id].state = plan[edit[a].id].state
                      /\ edit[a].mine.panel = edit[a].base.panel =>
                            plan'[edit[a].id].panel = plan[edit[a].id].panel
    BY DEF MergesWith
  <2> USE DEF Inductive
  <2>1. edit' # edit /\ edit \in [Admins -> Edit]
    BY DEF TypeOK
  <2>2. PICK c \in Admins : Desk(c)
    BY <2>1 DEF Next, Buttons, AddPanel, SwitchPanel, AddTemplate, SwitchPlan,
                SetTestPanel, Buy, AskPlan, AskTest, Create, Commit, Ask, Assign, vars
  <2>3. CASE c # a
    <3>1. \E E \in {edit'[c]} : edit' = [edit EXCEPT ![c] = E]
      <4>1. CASE AskDropPanel(c) \/ AskDropPlan(c) \/ Drop(c) \/ Write(c)
        BY <2>1, <4>1 DEF AskDropPanel, AskDropPlan, Drop, Write, Begin
      <4>2. CASE StartForm(c) \/ TypePrice(c)
        BY <2>1, <4>2 DEF StartForm, TypePrice
      <4>3. CASE Save(c)
        <5>1. PICK E : edit' = [edit EXCEPT ![c] = E]
          BY <2>1, <4>3 DEF Save, Begin
        <5>2. QED
          BY <2>1, <5>1
      <4>4. QED
        BY <2>2, <4>1, <4>2, <4>3 DEF Desk
    <3>2. QED
      BY <2>1, <2>3, <3>1
  <2>4. CASE c = a
    <3>1. Write(a)
      BY <2>1, <2>2, <2>4
      DEF Desk, AskDropPanel, AskDropPlan, Drop, StartForm, TypePrice, Save, Begin
    <3>2. /\ edit[a].id \in Plans /\ edit[a].mine.state = edit[a].base.state
          /\ plan[edit[a].id] \in Plan
      <4>1. edit[a].id \in Plans
        BY DEF EditsAreSound
      <4>2. \/ edit[a].base = NoPlan
            \/ edit[a].mine.state = edit[a].base.state
        BY DEF EditsAreSound
      <4>3. NoPlan.state = "none"
        BY DEF NoPlan
      <4>4. QED
        BY <4>1, <4>2, <4>3 DEF TypeOK
    <3>3. \/ plan' = plan
          \/ plan' = [plan EXCEPT ![edit[a].id] =
                        Merge(plan[edit[a].id], edit[a].base, edit[a].mine)]
      BY <3>1 DEF Write
    <3>4. QED
      BY <3>2, <3>3 DEF Merge, Set, TypeOK
  <2>5. QED
    BY <2>3, <2>4
<1>2. QED
  BY <1>1, CatalogInvariant, PTL DEF SavesMerge, Spec
=============================================================================
