--------------------------- MODULE MCPanelClient ---------------------------
(* Small instances of PanelClient for TLC: two calls at one panel and      *)
(* one at another, which answers 401 to everything but a login.            *)
EXTENDS PanelClient

Three == 1..3
Panels == {"first", "second"}
Asks == <<"first", "first", "second">>
For == <<"disable", "enable", "create">>
There == [first |-> "on", second |-> "none"]
Shut == {"second"}
=============================================================================
