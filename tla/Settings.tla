------------------------------ MODULE Settings ------------------------------
(***************************************************************************)
(* The table of settings and everybody who writes it: admins who appoint   *)
(* and remove admins, type prices and the bank card, connect the           *)
(* supergroup, switch methods of payment and edit the menu; and a          *)
(* customer's receipt, which finds its readers through the table.          *)
(*                                                                         *)
(* Every handler is one database transaction.  SettingsService.get and set *)
(* read a row with a SELECT of their own, since nobody keeps the object    *)
(* that the identity map refers to weakly, so two reads of a handler may   *)
(* see different values.  set leaves its UPDATE or INSERT to the next      *)
(* query, or to the commit.                                                *)
(***************************************************************************)
EXTENDS Menu

CONSTANTS
    People, Env,            \* Telegram ids, ENV_ADMIN_IDS
    Cards, Holders, HolderOf,   \* bank cards and the names on them
    Chats, Topics,          \* supergroups; the topics in their order
    Numbers, Texts, Switches,   \* keys that are checked to be positive, that
                            \* are not, and that are switched
    Words, Positive,        \* what admins type, the positive numbers of it
    Edits,                  \* of the menu
    OpeningAdmins, OpeningForms,    \* who is there at the start, and in which
                            \* dialogues
    OpeningCards, OpeningMenus, \* what may be stored at the start
    Sections,               \* which tasks are explored together, and how many
    Procs, Nobody, Unset, Free,
    MaxFailures             \* bounds of the exploration

ASSUME SettingsAssumption ==
    /\ Env \subseteq People /\ Env # {} /\ Nobody \notin People
    /\ OpeningAdmins \subseteq People
    /\ OpeningCards \subseteq Cards \cup {Unset}
    /\ \A menu \in OpeningMenus : menu = Unset \/ IsList(menu)
    /\ \A e \in Edits :
        /\ DOMAIN e = {"do", "action", "to"} /\ e.do \in EditKinds
        /\ e.do \in {"label", "icon"} \/ e.action \in Actions
    /\ HolderOf \in [Cards -> Holders] /\ Positive \subseteq Words
    /\ Topics \in Seq(STRING) /\ Free \notin Procs
    /\ \A s \in Sections : s.most \in Nat
    /\ MaxFailures \in Nat

VARIABLES
    table,      \* the committed values
    lock,       \* the transaction that has written the row of a key
    sess,       \* the handlers
    form,       \* the dialogue of each admin, in Redis
    named,      \* who was typed by an admin (history)
    section,    \* the tasks of this behaviour
    tasks, failures     \* so far (bounded)

vars == <<table, lock, sess, form, named, section, tasks, failures>>

-----------------------------------------------------------------------------
Receipts == "supergroup_receipts_thread_id"
TopicKeys == {Topics[i] : i \in 1..Len(Topics)}
Typed == Numbers \cup Texts
Fixed == {"admin_ids", "card_number", "card_holder", "supergroup_chat_id",
          "user_menu_buttons"}
Keys == Fixed \cup TopicKeys \cup Typed \cup Switches

ASSUME KeysAssumption ==
    /\ Receipts \in TopicKeys
    /\ TopicKeys \cap (Fixed \cup Typed \cup Switches) = {}
    /\ Fixed \cap (Typed \cup Switches) = {}
    /\ Numbers \cap (Texts \cup Switches) = {} /\ Texts \cap Switches = {}

MenuDialogues == {"menu_button_text", "menu_button_icon"}
Dialogues == {"add_admin", "card_number", "card_holder", "set_value",
              "supergroup_chat_id"} \cup MenuDialogues
Prompt == [state : Dialogues \cup {"none"}, about : Keys \cup Actions \cup {"none"},
           card : Cards \cup {Unset}]
ASSUME FormsAssumption == OpeningForms \subseteq Prompt
NoForm == [state |-> "none", about |-> "none", card |-> Unset]

(* What the buttons open; a switch leaves its key and no state.            *)
Prompts ==
    {f \in Prompt :
        /\ f.card = Unset
        /\ CASE f.state = "none" -> f.about \in Switches
             [] f.state = "set_value" -> f.about \in Typed
             [] f.state \in MenuDialogues -> f.about \in Actions
             [] f.state = "card_holder" -> FALSE
             [] OTHER -> f.about = "none"}
InSection(f) ==
    f.state \in section.tasks \/ (f.state = "none" /\ "set_value" \in section.tasks)

Idle == [at |-> "idle", who |-> Nobody, task |-> "none", arg |-> Unset,
         todo |-> <<>>,     \* the rows to be set, with their new values
         dirty |-> {},      \* set, and not yet sent to the database
         mine |-> {},       \* sent, and not yet committed
         read |-> <<>>,     \* what a reader has found
         seen |-> {}]       \* the chats and people who have the receipt

Become(p, S) == sess' = [sess EXCEPT ![p] = S]
Unlocked(p) == [k \in Keys |-> IF lock[k] = p THEN Free ELSE lock[k]]
End(p) == Become(p, Idle) /\ lock' = Unlocked(p)
Fails == failures < MaxFailures /\ failures' = failures + 1

(* admin_ids: those of the environment are always among them.              *)
Listed == IF table["admin_ids"] = Unset THEN {} ELSE table["admin_ids"]
Admins == Env \cup Listed
Buttons ==
    IF table["user_menu_buttons"] = Unset THEN DefaultButtons
    ELSE Normalized(table["user_menu_buttons"])

-----------------------------------------------------------------------------
(* What people do *)

Begin(p, who, task, arg, at) ==
    /\ sess[p] = Idle
    /\ task \in section.tasks \cup {"open"}
    /\ tasks < section.most /\ tasks' = tasks + 1
    /\ Become(p, [Idle EXCEPT !.at = at, !.who = who, !.task = task, !.arg = arg])
    /\ UNCHANGED <<table, lock, form, named, section, failures>>

(* The keyboards of somebody who was an admin stay where they are.         *)
Press(p, a) ==
    \/ \E x \in People : Begin(p, a, "remove", x, "check")
    \/ \E k \in Switches, w \in {"true", "false"} :
          Begin(p, a, "switch", <<k, w>>, "check")
    \/ \E e \in Edits : e.do \notin {"label", "icon"} /\ Begin(p, a, "edit", e, "check")
    \/ \E f \in Prompts : InSection(f) /\ Begin(p, a, "open", f, "check")

(* A message goes to the dialogue its sender is in.                        *)
Type(p, a) ==
    LET F == form[a]
        Says(x) == Begin(p, a, F.state, x, "check") IN
    \/ F.state = "add_admin" /\ \E x \in People : Says(x)
    \/ F.state = "card_number" /\ \E n \in Cards : Says(n)
    \/ F.state = "card_holder" /\ F.card # Unset /\ Says(HolderOf[F.card])
    \/ F.state = "set_value" /\ \E w \in Words : Says(w)
    \/ F.state = "supergroup_chat_id" /\ \E c \in Chats : Says(c)
    \/ F.state = "menu_button_text" /\ \E e \in Edits : e.do = "label" /\ Says(e)
    \/ F.state = "menu_button_icon" /\ \E e \in Edits : e.do = "icon" /\ Says(e)

(* A customer sends a receipt, or chooses to pay by card.                  *)
Ask(p) ==
    Begin(p, Nobody, "receipt", Unset, "chat") \/ Begin(p, Nobody, "charge", Unset, "number")

-----------------------------------------------------------------------------
(* The handlers of the admins *)

(* is_admin, asked again at every message (the mutant: the dialogue was    *)
(* opened by an admin).                                                    *)
AnyOne(a) == TRUE
Admitted(a) == a \in Admins
Check(p) ==
    LET S == sess[p] IN
    /\ S.at = "check"
    /\ IF Admitted(S.who)
       THEN Become(p, [S EXCEPT !.at =
                IF S.task \in {"open", "card_number"} THEN "fill" ELSE "work"])
       ELSE Become(p, Idle)
    /\ named' = IF S.task = "add_admin" /\ S.who \in Admins
                THEN named \cup {S.arg} ELSE named
    /\ UNCHANGED <<table, lock, form, section, tasks, failures>>

(* A dialogue is opened in two steps: its data, then its state.            *)
Fill(p) ==
    LET S == sess[p] IN
    /\ S.at = "fill"
    /\ form' = [form EXCEPT ![S.who] =
         CASE S.task = "card_number" -> [@ EXCEPT !.card = S.arg]
           [] S.task = "open" /\ S.arg.state = "add_admin" -> @
           [] OTHER -> [S.arg EXCEPT !.state = "none"]]
    /\ Become(p, [S EXCEPT !.at = "state"])
    /\ UNCHANGED <<table, lock, named, section, tasks, failures>>

SetState(p) ==
    LET S == sess[p] IN
    /\ S.at = "state"
    /\ form' = [form EXCEPT ![S.who].state =
         CASE S.task = "card_number" -> "card_holder"
           [] S.task = "open" /\ S.arg.state = "none" -> @
           [] OTHER -> S.arg.state]
    /\ Become(p, Idle)
    /\ UNCHANGED <<table, lock, named, section, tasks, failures>>

(* A number that prices depend on must be positive (the mutant takes any). *)
AnyWord(key, w) == TRUE
Valid(key, w) == key \in Numbers => w \in Positive

(* A dialogue whose data was cleared meanwhile, or is another's: KeyError. *)
Broken(S) ==
    LET F == form[S.who] IN
    \/ S.task = "card_holder" /\ F.card = Unset
    \/ S.task = "set_value" /\ F.about \notin Typed \cup Switches
    \/ S.task \in MenuDialogues /\ F.about \notin Actions
Refused(S) ==
    \/ S.task = "remove" /\ (S.arg = S.who \/ S.arg \notin Listed)
    \/ S.task = "set_value" /\ ~Valid(form[S.who].about, S.arg)

(* The rows of the card are written in one order (the mutant: each admin   *)
(* in an order of his own).                                                *)
OwnOrder(a, card, holder) ==
    LET writes == <<<<"card_number", card>>, <<"card_holder", holder>>>> IN
    IF a \in Env THEN writes ELSE <<writes[2], writes[1]>>
CardRows(a, card, holder) ==
    <<<<"card_number", card>>, <<"card_holder", holder>>>>
GroupRows(chat) ==
    <<<<"supergroup_chat_id", chat>>>> \o
        [i \in 1..Len(Topics) |-> <<Topics[i], <<chat, Topics[i]>>>>]
MenuRow(menu, edit) == <<<<"user_menu_buttons", Normalized(Edited(menu, edit))>>>>

(* What is to be set, from a second look at the list of admins, at the     *)
(* dialogue or at the menu, as it is stored.                               *)
Wanted(S, menu) ==
    LET F == form[S.who] IN
    CASE S.task = "add_admin" -> <<<<"admin_ids", Admins \cup {S.arg}>>>>
      [] S.task = "remove" -> <<<<"admin_ids", Listed \ {S.arg}>>>>
      [] S.task = "switch" -> <<S.arg>>
      [] S.task = "set_value" -> <<<<F.about, S.arg>>>>
      [] S.task = "card_holder" -> CardRows(S.who, F.card, S.arg)
      [] S.task = "supergroup_chat_id" -> GroupRows(S.arg)
      [] S.task = "edit" -> MenuRow(menu, S.arg)
      [] OTHER -> MenuRow(menu, [S.arg EXCEPT !.action = F.about])

Work(p) ==
    LET S == sess[p] IN
    /\ S.at = "work"
    /\ IF Broken(S) \/ Refused(S) THEN Become(p, Idle)
       ELSE \E menu \in {Buttons} : \E writes \in {Wanted(S, menu)} :
                Become(p, [S EXCEPT !.todo = writes, !.at = "set"])
    /\ UNCHANGED <<table, lock, form, named, section, tasks, failures>>

-----------------------------------------------------------------------------
(* SettingsService.set and the unit of work *)

Onward(S, todo) ==
    IF todo # <<>> THEN IF Head(todo)[1] \in TopicKeys THEN "topic" ELSE "set"
    ELSE IF S.task \in Dialogues THEN "clear" ELSE "commit"

(* The row is read, which sends earlier changes first; a value that does   *)
(* not differ is not written.                                              *)
Set(p) ==
    LET S == sess[p]
        key == Head(S.todo)[1]
        value == Head(S.todo)[2] IN
    /\ S.at = "set" /\ S.dirty = {}
    /\ Become(p, [S EXCEPT !.todo = Tail(@), !.at = Onward(S, Tail(S.todo)),
            !.dirty = IF table[key] = value THEN {}
                      ELSE {[key |-> key, value |-> value, was |-> table[key]]}])
    /\ UNCHANGED <<table, lock, form, named, section, tasks, failures>>

(* create_forum_topic; any error ends the loop and is told to the admin.   *)
Topic(p) ==
    LET S == sess[p] IN
    /\ S.at = "topic"
    /\ \/ Become(p, [S EXCEPT !.at = "set"]) /\ UNCHANGED failures
       \/ Fails /\ Become(p, [S EXCEPT !.todo = <<>>, !.at = "clear"])
    /\ UNCHANGED <<table, lock, form, named, section, tasks>>

(* UPDATE, or INSERT if there was no row: it waits for a transaction that  *)
(* has written the row, and an INSERT fails if there is one now.           *)
Flush(p) ==
    LET S == sess[p] IN
    /\ S.at \in {"set", "commit"}
    /\ \E d \in S.dirty :
        /\ lock[d.key] \in {Free, p}
        /\ IF d.was = Unset /\ table[d.key] # Unset THEN End(p)
           ELSE /\ lock' = [lock EXCEPT ![d.key] = p]
                /\ Become(p, [S EXCEPT !.dirty = {}, !.mine = @ \cup {<<d.key, d.value>>}])
    /\ UNCHANGED <<table, form, named, section, tasks, failures>>

Clear(p) ==
    LET S == sess[p] IN
    /\ S.at = "clear"
    /\ form' = [form EXCEPT ![S.who] = NoForm]
    /\ Become(p, [S EXCEPT !.at = "commit"])
    /\ UNCHANGED <<table, lock, named, section, tasks, failures>>

Commit(p) ==
    LET S == sess[p] IN
    /\ S.at = "commit" /\ S.dirty = {}
    /\ table' = [k \in Keys |-> IF \E w \in S.mine : w[1] = k
                                THEN (CHOOSE w \in S.mine : w[1] = k)[2] ELSE table[k]]
    /\ End(p)
    /\ UNCHANGED <<form, named, section, tasks, failures>>

(* An error on the way, or the process dies: the transaction is rolled     *)
(* back.                                                                   *)
Abort(p) ==
    /\ sess[p] # Idle
    /\ Fails /\ End(p)
    /\ UNCHANGED <<table, form, named, section, tasks>>

-----------------------------------------------------------------------------
(* A receipt looks for readers: send_supergroup_photo, then the admins *)

Reads(p, at, key, to) ==
    LET S == sess[p] IN
    /\ S.at = at
    /\ Become(p, [S EXCEPT !.read = Append(@, table[key]), !.at = to])
    /\ UNCHANGED <<table, lock, form, named, section, tasks, failures>>

ReadChat(p) == Reads(p, "chat", "supergroup_chat_id", "thread")
ReadThread(p) == Reads(p, "thread", Receipts, "send")

(* A photo that the group does not get goes to the admins (the mutant      *)
(* forgets it).                                                            *)
Forget(S) == [S EXCEPT !.at = "told"]
Fallback(S) == [S EXCEPT !.at = "admins"]

(* The number of a topic means something only in its own group; elsewhere  *)
(* it is unknown, or happens to be another topic's.                        *)
Send(p) ==
    LET S == sess[p]
        chat == S.read[1]
        thread == S.read[2] IN
    /\ S.at = "send"
    /\ IF chat = Unset \/ thread = Unset
       THEN Become(p, Fallback(S)) /\ UNCHANGED failures
       ELSE \/ Become(p, [S EXCEPT !.at = "told", !.seen = {chat}]) /\ UNCHANGED failures
            \/ thread[1] # chat /\ Become(p, Fallback(S)) /\ UNCHANGED failures
            \/ Fails /\ Become(p, Fallback(S))
    /\ UNCHANGED <<table, lock, form, named, section, tasks>>

ReadAdmins(p) ==
    LET S == sess[p] IN
    /\ S.at = "admins"
    /\ Become(p, [S EXCEPT !.read = <<Admins>>, !.at = "each"])
    /\ UNCHANGED <<table, lock, form, named, section, tasks, failures>>

(* One after the other; an error ends the handler (Abort).                 *)
SendEach(p) ==
    LET S == sess[p]
        left == S.read[1] \ S.seen IN
    /\ S.at = "each"
    /\ IF left = {} THEN Become(p, [S EXCEPT !.at = "told"])
       ELSE \E a \in left : Become(p, [S EXCEPT !.seen = @ \cup {a}])
    /\ UNCHANGED <<table, lock, form, named, section, tasks, failures>>

(* payment_method_selected shows the card.                                 *)
ReadNumber(p) == Reads(p, "number", "card_number", "holder")
ReadHolder(p) == Reads(p, "holder", "card_holder", "told")

Tell(p) ==
    /\ sess[p].at = "told"
    /\ End(p)
    /\ UNCHANGED <<table, form, named, section, tasks, failures>>

-----------------------------------------------------------------------------
Init ==
    /\ \E menu \in OpeningMenus, card \in OpeningCards :
        table = [k \in Keys |->
            CASE k = "admin_ids" -> OpeningAdmins
              [] k = "user_menu_buttons" -> menu
              [] k = "card_number" -> card
              [] k = "card_holder" -> IF card = Unset THEN Unset ELSE HolderOf[card]
              [] OTHER -> Unset]
    /\ lock = [k \in Keys |-> Free]
    /\ sess = [p \in Procs |-> Idle]
    /\ section \in Sections
    /\ form \in [People -> OpeningForms \cup {NoForm}]
    /\ \A a \in People :
        form[a] = NoForm \/ (a \in Env \cup OpeningAdmins /\ InSection(form[a]))
    /\ named = Env \cup OpeningAdmins
    /\ tasks = 0 /\ failures = 0

Step(p) ==
    \/ Check(p) \/ Fill(p) \/ SetState(p) \/ Work(p)
    \/ Set(p) \/ Topic(p) \/ Flush(p) \/ Clear(p) \/ Commit(p)
    \/ ReadChat(p) \/ ReadThread(p) \/ Send(p) \/ ReadAdmins(p) \/ SendEach(p)
    \/ ReadNumber(p) \/ ReadHolder(p) \/ Tell(p)

Next ==
    \E p \in Procs :
        \/ \E a \in named : Press(p, a) \/ Type(p, a)
        \/ Ask(p) \/ Step(p) \/ Abort(p)

Spec == Init /\ [][Next]_vars

(* asyncio runs every handler on.                                          *)
FairSpec == Spec /\ \A p \in Procs : WF_vars(Step(p))

-----------------------------------------------------------------------------
(* Properties *)

Fits(k, v) ==
    /\ k = "admin_ids" => v \subseteq People
    /\ k = "card_number" => v \in Cards
    /\ k = "card_holder" => v \in Holders
    /\ k = "supergroup_chat_id" => v \in Chats
    /\ k = "user_menu_buttons" => IsList(v)
    /\ k \in TopicKeys => v \in Chats \X {k}
    /\ k \in Numbers => v \in Positive
    /\ k \in Texts => v \in Words
    /\ k \in Switches => v \in Words \cup {"true", "false"}

(* Every key holds what its readers can deal with, the prices that are     *)
(* checked among them: a dialogue that is opened while an earlier message  *)
(* is still handled brings no unchecked word under a checked key, though   *)
(* it can bring a word under a switch.                                     *)
TypeOK ==
    /\ DOMAIN table = Keys /\ \A k \in Keys : table[k] # Unset => Fits(k, table[k])
    /\ lock \in [Keys -> Procs \cup {Free}]
    /\ DOMAIN sess = Procs
    /\ \A p \in Procs, k \in Keys : lock[k] = p => \E w \in sess[p].mine : w[1] = k
    /\ form \in [People -> Prompt]
    /\ named \subseteq People /\ tasks \in Nat /\ failures \in 0..MaxFailures

(* Nobody gets into the list of admins but by an admin: an open dialogue   *)
(* of somebody who has been removed appoints nobody.                       *)
AppointedByAdmins == Listed \subseteq named

(* A customer who is told that his receipt was sent has been heard: by the *)
(* group, or by every admin of the list, however much of the group's       *)
(* configuration is missing, stale or refused by Telegram.                 *)
ReceiptIsShown ==
    \A p \in Procs : sess[p].task = "receipt" /\ sess[p].at = "told" =>
        sess[p].seen \cap Chats # {} \/ Env \subseteq sess[p].seen

(* Whatever is stored, the menu has each action once, and every move of a  *)
(* button is undone by the opposite one.                                   *)
Opposite == [left |-> "right", right |-> "left", up |-> "down", down |-> "up"]
MenuIsWhole ==
    LET menu == Buttons IN
    /\ Len(menu) = Len(Default)
    /\ \A a \in Actions : Has(menu, a)
    /\ \A a \in Actions, d \in Directions : CanMove(menu, a, d) =>
        LET moved == Moved(menu, a, d) IN
        CanMove(moved, a, Opposite[d]) /\ Moved(moved, a, Opposite[d]) = menu

(* Every handler ends: those that write several rows do not wait for each  *)
(* other in a circle.                                                      *)
HandlersEnd == \A p \in Procs : sess[p].at # "idle" ~> sess[p].at = "idle"

(* Somebody is left to appoint admins, even if the environment names       *)
(* nobody: "You cannot remove yourself here" (admin.py).  (Two admins who  *)
(* remove each other at the same time can.)                                *)
SomebodyIsListed == Listed # {}

(* The card and the name beside it belong together.  (They do not when an  *)
(* admin types again what another is about to change.)                     *)
CardIsOnePair ==
    table["card_number"] # Unset /\ table["card_holder"] # Unset =>
        table["card_holder"] = HolderOf[table["card_number"]]

(* The topics are those of the group.  (They are not after Telegram has    *)
(* refused to create one: what was set before is committed.)               *)
TopicsOfTheirChat ==
    \A k \in TopicKeys :
        table[k] # Unset => table[k][1] = table["supergroup_chat_id"]

(* What get_int reads is a number.  (low_balance_threshold and             *)
(* referral_cashback_percent are saved as they are typed; from then on     *)
(* every settlement raises.)                                               *)
NumbersAreNumbers == \A k \in Texts : table[k] \in Positive \cup {Unset}

(* A visible button does what it says.  (Not if two have the same text.)   *)
EveryButtonWorks ==
    \A i \in 1..Len(Buttons) : Buttons[i].visible =>
        ActionForText(Buttons, DisplayText(Buttons[i])) = Buttons[i].action
=============================================================================
