----------------------------- MODULE MCCatalog -----------------------------
(* Small instances of Catalog for TLC.                                     *)
EXTENDS Catalog

TwoPanels == {1, 2}
OnePlan == {1}
OldOnFirst == [p \in Panels |-> IF p = 1 THEN {"old"} ELSE {}]
FirstActive == [p \in Panels |-> IF p = 1 THEN "active" ELSE "none"]
SomeNumbers == {-1, 1, 2}
=============================================================================
