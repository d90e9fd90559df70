---------------------------- MODULE ReplyOutcome ----------------------------
(***************************************************************************)
(* What a chat promises about its messages under single_pass: a batch of   *)
(* waiting messages is taken over together while no other batch is, the    *)
(* model and its tools run at most once for it, and it is closed together, *)
(* once its business effects were handled, and never taken again.          *)
(***************************************************************************)
EXTENDS Naturals

CONSTANT Messages

VARIABLES
  phase,     \* of each message: "waiting", "owned" or "closed"
  runs,      \* how often the model and its tools ran for it
  handled    \* whether the business effects of its batch were handled

vars == <<phase, runs, handled>>

In(p) == {m \in Messages : phase[m] = p}

Init ==
  /\ phase = [m \in Messages |-> "waiting"]
  /\ runs = [m \in Messages |-> 0]
  /\ handled = [m \in Messages |-> FALSE]

Enter(S, p) == phase' = [m \in Messages |-> IF m \in S THEN p ELSE phase[m]]

Take(S) ==
  /\ In("owned") = {} /\ S # {} /\ S \subseteq In("waiting")
  /\ Enter(S, "owned") /\ UNCHANGED <<runs, handled>>

Run ==
  /\ In("owned") # {} /\ \A m \in In("owned") : runs[m] = 0
  /\ runs' = [m \in Messages |-> IF m \in In("owned") THEN 1 ELSE runs[m]]
  /\ UNCHANGED <<phase, handled>>

Handle ==
  /\ In("owned") # {} /\ \A m \in In("owned") : runs[m] = 1
  /\ handled' = [m \in Messages |-> m \in In("owned") \/ handled[m]]
  /\ UNCHANGED <<phase, runs>>

Close ==
  /\ In("owned") # {} /\ \A m \in In("owned") : handled[m]
  /\ Enter(In("owned"), "closed") /\ UNCHANGED <<runs, handled>>

Next == Run \/ Handle \/ Close \/ \E S \in SUBSET Messages : Take(S)

Spec == Init /\ [][Next]_vars
=============================================================================
