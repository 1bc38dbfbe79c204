----------------------------- MODULE MCSettings -----------------------------
(* Small instances of Settings for TLC: an admin of the environment, one   *)
(* that was appointed, and somebody else; two cards, two groups, a menu of *)
(* three buttons.                                                           *)
EXTENDS Settings

Menu3 == <<"buy_service", "wallet", "support">>
TwoTopics == <<"supergroup_users_thread_id", "supergroup_receipts_thread_id">>
OwnerOf == [n1 |-> "h1", n2 |-> "h2"]

(* A list of an older version: an unknown action, one twice, one missing.  *)
Button(a) == DefaultButton(a)
OldList ==
    <<Button("wallet"), Button("profile"), [Button("support") EXCEPT !.color = "pink"],
      Button("wallet")>>
SomeMenus == {OldList}
SomeEdits ==
    [do : {"move"}, action : {"wallet"}, to : {"right", "down"}] \cup
    {[do |-> "toggle", action |-> "support", to |-> "none"],
     [do |-> "color", action |-> "support", to |-> "red"],
     [do |-> "reset", action |-> "wallet", to |-> "none"],
     [do |-> "label", action |-> "none", to |-> "wallet"],
     [do |-> "icon", action |-> "none", to |-> TRUE]}

Dialogue(state, about, card) == [state |-> state, about |-> about, card |-> card]
SomeForms ==
    {Dialogue("add_admin", "none", Unset), Dialogue("card_number", "none", Unset),
     Dialogue("card_holder", "none", "n1"), Dialogue("card_holder", "none", "n2"),
     Dialogue("supergroup_chat_id", "none", Unset),
     Dialogue("set_value", "stars_to_toman_rate", Unset),
     Dialogue("menu_button_text", "buy_service", Unset),
     Dialogue("menu_button_icon", "support", Unset)}

Of(most, names) == [tasks |-> names, most |-> most]
SomeSections ==
    {Of(2, {"add_admin", "remove"}), Of(3, {"card_number", "card_holder", "charge"}),
     Of(3, {"supergroup_chat_id", "receipt"}), Of(2, {"set_value", "switch"}),
     Of(2, {"edit", "menu_button_text", "menu_button_icon"})}
=============================================================================
