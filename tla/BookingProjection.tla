-------------------------- MODULE BookingProjection --------------------------
(***************************************************************************)
(* apply_active_booking_projection as functions from row to row: one       *)
(* candidate's list of current bookings, the version of every work order   *)
(* it was told about, and the time of the last reset.  A time is a         *)
(* positive number, 0 is the SQL NULL.                                     *)
(***************************************************************************)
EXTENDS Integers, FiniteSets

CONSTANTS
  Orders,      \* work order ids; sorted as texts, which is their order while their length is one
  Times,       \* input times, 1 .. the largest
  MaxListed    \* the code's 10

ASSUME BookingAssumption ==
  /\ Orders \subseteq Nat /\ IsFiniteSet(Orders)
  /\ Times \subseteq Nat \ {0}
  /\ MaxListed \in Nat \ {0}

Moments == Times \cup {0}

\* at, deleted: active_booking_versions; linked: linked_at of a listed order; seen: what the
\* entry says of the interview; reset: reset_at.
Rows == [at: [Orders -> Moments], deleted: [Orders -> BOOLEAN],
         linked: [Orders -> Moments], seen: [Orders -> Nat], reset: Moments]

Listed(row) == {o \in Orders : row.linked[o] # 0}

Greatest(a, b) == IF a > b THEN a ELSE b

\* previous_at
Version(row, o) == Greatest(Greatest(row.at[o], row.linked[o]), row.reset)

\* ORDER BY linked_at DESC, work_order_id
Before(row, p, o) == row.linked[p] > row.linked[o] \/ (row.linked[p] = row.linked[o] /\ p < o)

\* Mutant: no limit.
Capped_Never(row) == row

\* ... LIMIT 10
Capped(row) ==
  [row EXCEPT !.linked = [o \in Orders |->
     IF Cardinality({p \in Listed(row) : Before(row, p, o)}) < MaxListed THEN row.linked[o] ELSE 0]]

-----------------------------------------------------------------------------
(* newer: a later action of the order is recorded as succeeded. *)

\* Mutant: the recorded version is not compared.
Superseded_OldAllowed(row, op, o, t, newer) == newer \/ t = row.reset

Superseded(row, op, o, t, newer) ==
  \/ newer
  \/ t < Version(row, o)
  \/ t = row.reset
  \/ t = Version(row, o) /\ row.deleted[o] /\ op = "set"

\* The row after set or clear of one order; a set that the row already has changes nothing.
AfterOne(row, op, o, t, seen) ==
  IF t = Version(row, o) /\ op = "set" THEN row
  ELSE Capped([row EXCEPT !.at[o] = t, !.deleted[o] = (op = "clear"),
                          !.linked[o] = IF op = "set" THEN t ELSE 0,
                          !.seen[o] = IF op = "set" THEN seen ELSE @])

\* Mutant: the last call wins.
Apply_Blind(row, op, o, t, seen, newer) == AfterOne(row, op, o, t, seen)

Apply(row, op, o, t, seen, newer) ==
  IF Superseded(row, op, o, t, newer) THEN row ELSE AfterOne(row, op, o, t, seen)

\* Clears every entry that is not newer than t.
Cleared(row, t) == {o \in Listed(row) : Greatest(row.at[o], row.linked[o]) <= t}

ApplyReset(row, t) ==
  IF t <= row.reset THEN row
  ELSE Capped([row EXCEPT
         !.at = [o \in Orders |-> IF o \in Cleared(row, t) THEN t ELSE row.at[o]],
         !.deleted = [o \in Orders |-> row.deleted[o] \/ o \in Cleared(row, t)],
         !.linked = [o \in Orders |-> IF o \in Cleared(row, t) THEN 0 ELSE row.linked[o]],
         !.reset = t])
=============================================================================
