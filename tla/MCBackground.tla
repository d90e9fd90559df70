---------------------------- MODULE MCBackground ----------------------------
(***************************************************************************)
(* Components that share no state, checked side by side for TLC: a         *)
(* behaviour picks the component that moves, the others stay at their      *)
(* initial state.  What one of them does in the company of the others is   *)
(* then what it does alone.                                                *)
(***************************************************************************)
EXTENDS WorkerSlots, BookingSync, FollowUps, TLC

VARIABLE part

vars == <<part, slotVars, bookingVars, followVars>>

Init ==
  /\ SlotInit /\ BookingInit /\ FollowInit
  /\ \/ part = "slots"
     \/ part \in {"bookings", "followups"} /\ stored = 0

Next ==
  /\ UNCHANGED part
  /\ \/ part = "slots" /\ SlotNext /\ UNCHANGED <<bookingVars, followVars>>
     \/ part = "bookings" /\ BookingNext /\ UNCHANGED <<slotVars, followVars>>
     \/ part = "followups" /\ FollowNext /\ UNCHANGED <<slotVars, bookingVars>>

Spec == Init /\ [][Next]_vars

TypeOK == SlotTypeOK /\ BookingTypeOK /\ FollowTypeOK

\* Operators, syncers and runners are the same model values in the instance: permuting them
\* permutes the actors of whichever part moves.
Symmetry == Permutations(Runners)
=============================================================================
