---------------------------- MODULE ActionOutcome ----------------------------
(***************************************************************************)
(* What the ledger promises about an external action, whoever dispatches,  *)
(* recovers, repairs or reviews it: the action is tried under the exclusive *)
(* hold of its resource, takes effect at most once and only while in doubt, *)
(* and is concluded once, in agreement with what happened outside.         *)
(***************************************************************************)
EXTENDS Naturals

CONSTANTS Actions, Resource

VARIABLES
  phase,     \* "open", "inDoubt", "done" or "void"
  effects    \* how often the action took effect outside

vars == <<phase, effects>>

Init ==
  /\ phase = [a \in Actions |-> "open"]
  /\ effects = [a \in Actions |-> 0]

Enter(a, p) == phase' = [phase EXCEPT ![a] = p] /\ UNCHANGED effects

Begin(a) ==
  /\ phase[a] = "open" /\ effects[a] = 0
  /\ \A b \in Actions \ {a} : Resource[b] = Resource[a] => phase[b] # "inDoubt"
  /\ Enter(a, "inDoubt")

TakeEffect(a) ==
  /\ phase[a] = "inDoubt" /\ effects[a] = 0
  /\ effects' = [effects EXCEPT ![a] = 1]
  /\ UNCHANGED phase

Confirm(a) == phase[a] = "inDoubt" /\ effects[a] = 1 /\ Enter(a, "done")

Reopen(a) == phase[a] = "inDoubt" /\ effects[a] = 0 /\ Enter(a, "open")

Abandon(a) == phase[a] \in {"open", "inDoubt"} /\ effects[a] = 0 /\ Enter(a, "void")

Next == \E a \in Actions : Begin(a) \/ TakeEffect(a) \/ Confirm(a) \/ Reopen(a) \/ Abandon(a)

Spec == Init /\ [][Next]_vars
=============================================================================
