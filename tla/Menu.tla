-------------------------------- MODULE Menu --------------------------------
(***************************************************************************)
(* The customers' main menu (app/services/menu.py): a list of buttons in   *)
(* rows of two, which the admins rearrange, and the action that the text   *)
(* of a pressed button stands for.  The list is kept as one setting.       *)
(***************************************************************************)
EXTENDS Integers, Sequences

CONSTANTS
    Default,    \* DEFAULT_MENU_BUTTONS: the actions in their order
    Colors      \* BUTTON_STYLES

Columns == 2
Directions == {"left", "right", "up", "down"}
Actions == {Default[i] : i \in 1..Len(Default)}

ASSUME MenuAssumption ==
    /\ Default \in Seq(STRING) /\ Default # <<>> /\ "none" \in Colors
    /\ \A i, j \in 1..Len(Default) : Default[i] = Default[j] => i = j

(* A button as the code defines it; its label is named after its action.   *)
DefaultButton(a) ==
    [action |-> a, label |-> a, color |-> "none", icon |-> FALSE, visible |-> TRUE]
DefaultButtons == [i \in 1..Len(Default) |-> DefaultButton(Default[i])]

(* What json.loads makes of a stored menu: a list, of whatever buttons.    *)
IsList(list) == list \in Seq({list[i] : i \in 1..Len(list)})

Has(list, a) == \E i \in 1..Len(list) : list[i].action = a
Position(list, a) == CHOOSE i \in 1..Len(list) : list[i].action = a

(* normalize_buttons, on what an older version may have stored: of the    *)
(* list and then the defaults, unknown and repeated actions are dropped.   *)
Clean(b) == [action |-> b.action, label |-> b.label, icon |-> b.icon, visible |-> b.visible,
             color |-> IF b.color \in Colors THEN b.color ELSE "none"]
First(list, n) ==
    /\ list[n].action \in Actions
    /\ \A m \in 1..n - 1 : list[m].action # list[n].action
Normalized(list) ==
    LET all == list \o DefaultButtons
        Upto[n \in 0..Len(all)] ==
            IF n = 0 THEN <<>>
            ELSE IF First(all, n) THEN Append(Upto[n - 1], Clean(all[n])) ELSE Upto[n - 1]
    IN  Upto[Len(all)]

(* move_grid: where the button at place i goes, if that is a place of the  *)
(* list (the mutant moves to the right into the next row).                 *)
Column(i) == (i - 1) % Columns
Wrapped(i, direction) ==
    CASE direction = "left" -> IF Column(i) = 0 THEN 0 ELSE i - 1
      [] direction = "right" -> i + 1
      [] direction = "up" -> i - Columns
      [] direction = "down" -> i + Columns
Target(i, direction) ==
    CASE direction = "left" -> IF Column(i) = 0 THEN 0 ELSE i - 1
      [] direction = "right" -> IF Column(i) = Columns - 1 THEN 0 ELSE i + 1
      [] direction = "up" -> i - Columns
      [] direction = "down" -> i + Columns

Swapped(list, i, j) == [list EXCEPT ![i] = list[j], ![j] = list[i]]
CanMove(list, a, direction) ==
    Target(Position(list, a), direction) \in 1..Len(list)
Moved(list, a, direction) ==
    LET i == Position(list, a) IN Swapped(list, i, Target(i, direction))

(* What an admin can ask for: move_grid, set_label, set_color, set_icon,   *)
(* toggle_visible and reset.                                               *)
EditKinds == {"move", "label", "color", "icon", "toggle", "reset"}
Edited(list, edit) ==
    LET i == Position(list, edit.action) IN
    CASE edit.do = "move" ->
            IF CanMove(list, edit.action, edit.to)
            THEN Moved(list, edit.action, edit.to) ELSE list
      [] edit.do = "label" -> [list EXCEPT ![i].label = edit.to]
      [] edit.do = "color" -> IF edit.to \in Colors THEN [list EXCEPT ![i].color = edit.to]
                              ELSE list
      [] edit.do = "icon" -> [list EXCEPT ![i].icon = edit.to]
      [] edit.do = "toggle" -> [list EXCEPT ![i].visible = ~@]
      [] edit.do = "reset" -> DefaultButtons

(* display_text and action_for_text: the first visible button that shows   *)
(* the text.                                                               *)
DisplayText(b) == <<b.icon, b.label>>
Shows(list, i, text) == list[i].visible /\ DisplayText(list[i]) = text
ActionForText(list, text) ==
    LET found == {i \in 1..Len(list) : Shows(list, i, text)} IN
    IF found = {} THEN "none"
    ELSE list[CHOOSE i \in found : \A j \in found : i <= j].action
=============================================================================
