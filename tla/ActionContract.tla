---------------------------- MODULE ActionContract ----------------------------
(***************************************************************************)
(* What the approval layer promises about one consequential action,        *)
(* whatever the number of browser tabs that work on it.  A version of the  *)
(* action is performed only after a user granted it, at most once, and     *)
(* before a receipt closes it; the receipt is written once, and a          *)
(* "completed" receipt means that the version was performed                *)
(* (docs/STAGE8_HUMAN_APPROVAL.md, "Version-Locked Approval" and           *)
(* "Idempotency and Receipts").                                            *)
(***************************************************************************)
EXTENDS Naturals

CONSTANT Versions

VARIABLES
  granted,    \* versions some user clicked Approve for
  effects,    \* how often the tool acted for each version
  receipts    \* the durable receipt of each version

contractVars == <<granted, effects, receipts>>

Init ==
  /\ granted = {}
  /\ effects = [v \in Versions |-> 0]
  /\ receipts = [v \in Versions |-> "none"]

Grant(v) ==
  /\ granted' = granted \union {v}
  /\ UNCHANGED <<effects, receipts>>

Perform(v) ==
  /\ v \in granted
  /\ effects[v] = 0
  /\ receipts[v] = "none"
  /\ effects' = [effects EXCEPT ![v] = 1]
  /\ UNCHANGED <<granted, receipts>>

Settle(v, outcome) ==
  /\ v \in granted
  /\ receipts[v] = "none"
  /\ outcome = "completed" => effects[v] = 1
  /\ receipts' = [receipts EXCEPT ![v] = outcome]
  /\ UNCHANGED <<granted, effects>>

Next ==
  \E v \in Versions :
    \/ Grant(v)
    \/ Perform(v)
    \/ \E outcome \in {"completed", "failed"} : Settle(v, outcome)

Spec == Init /\ [][Next]_contractVars
===============================================================================
