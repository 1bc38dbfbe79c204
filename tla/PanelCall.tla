----------------------------- MODULE PanelCall -----------------------------
(***************************************************************************)
(* What the bot may rely on when it calls a panel: an operation takes      *)
(* effect at most once; a call that returns has taken effect; a call that  *)
(* raises may have, or may still.  Lifecycle and Purchases take this for   *)
(* granted (without the last case); PanelClient implements it.             *)
(***************************************************************************)
EXTENDS Naturals

CONSTANTS
    Calls,      \* the operations the bot asks for
    Keys,       \* the panels, each with the credentials used
    Key,        \* the panel of a call
    Op          \* what it asks for: see Ops

Ops == {"create", "enable", "disable", "delete", "read"}
Accounts == {"none", "on", "off"}

VARIABLES
    account,    \* the account the calls deal with, on each panel
    phase,      \* "idle", "running", "ok" (returned) or "error" (raised)
    applied     \* how often a call took effect

vars == <<account, phase, applied>>

(* A panel creates what is not there and edits what is.                    *)
Possible(op, a) == (op = "create") = (a = "none")
Result(op, a) ==
    CASE op \in {"create", "enable"} -> "on"
      [] op = "disable" -> "off"
      [] op = "delete" -> "none"
      [] op = "read" -> a

Init ==
    /\ account \in [Keys -> Accounts]
    /\ phase = [c \in Calls |-> "idle"]
    /\ applied = [c \in Calls |-> 0]

Begin(c) ==
    /\ phase[c] = "idle" /\ phase' = [phase EXCEPT ![c] = "running"]
    /\ UNCHANGED <<account, applied>>

Apply(c) ==
    /\ phase[c] \in {"running", "error"} /\ applied[c] = 0
    /\ Possible(Op[c], account[Key[c]])
    /\ account' = [account EXCEPT ![Key[c]] = Result(Op[c], @)]
    /\ applied' = [applied EXCEPT ![c] = 1]
    /\ UNCHANGED phase

Return(c) ==
    /\ phase[c] = "running" /\ applied[c] = 1
    /\ phase' = [phase EXCEPT ![c] = "ok"]
    /\ UNCHANGED <<account, applied>>

Raise(c) ==
    /\ phase[c] = "running" /\ phase' = [phase EXCEPT ![c] = "error"]
    /\ UNCHANGED <<account, applied>>

Next == \E c \in Calls : Begin(c) \/ Apply(c) \/ Return(c) \/ Raise(c)

Spec == Init /\ [][Next]_vars
=============================================================================
