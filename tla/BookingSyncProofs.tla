-------------------------- MODULE BookingSyncProofs ---------------------------
(***************************************************************************)
(* Theorems about BookingProjection and BookingSync for any orders, times, *)
(* actions, syncers and length of the list.                                *)
(***************************************************************************)
EXTENDS BookingSync, FiniteSetTheorems, TLAPS

-----------------------------------------------------------------------------
(* One row. *)

\* An order is listed with its version, which is later than the last reset.
RowOK(r) ==
  /\ r \in Rows
  /\ \A o \in Orders : r.linked[o] = 0 \/ (r.linked[o] = r.at[o] /\ r.linked[o] > r.reset)

\* Nothing of the order with a time up to T can enter the list again.
Dead(r, o, T) ==
  /\ r.linked[o] = 0
  /\ Version(r, o) > T \/ (Version(r, o) = T /\ r.deleted[o]) \/ (Version(r, o) >= T /\ r.reset = T)

LEMMA MomentsNat == Moments \subseteq Nat /\ 0 \in Moments
  BY BookingAssumption DEF BookingAssumption, Moments

LEMMA RowFields ==
  ASSUME NEW r \in Rows
  PROVE  /\ r.reset \in Nat /\ r.reset \in Moments
         /\ \A o \in Orders : /\ r.at[o] \in Nat /\ r.linked[o] \in Nat /\ Version(r, o) \in Nat
                              /\ r.at[o] <= Version(r, o) /\ r.linked[o] <= Version(r, o)
                              /\ r.reset <= Version(r, o)
                              /\ Version(r, o) \in {r.at[o], r.linked[o], r.reset}
<1>1. r.reset \in Nat /\ r.reset \in Moments /\ \A o \in Orders : r.at[o] \in Nat /\ r.linked[o] \in Nat
  BY MomentsNat DEF Rows
<1> QED BY <1>1 DEF Version, Greatest

LEMMA VersionIs ==
  ASSUME NEW r, RowOK(r), NEW o \in Orders
  PROVE  Version(r, o) = Greatest(r.at[o], r.reset)
<1> DEFINE a == r.at[o]
           l == r.linked[o]
           s == r.reset
<1>1. a \in Nat /\ l \in Nat /\ s \in Nat /\ (l = 0 \/ l = a)
  BY RowFields DEF RowOK
<1>2. Version(r, o) = Greatest(Greatest(a, l), s)
  BY DEF Version
<1> HIDE DEF a, l, s
<1>3. Greatest(a, l) = a
  BY <1>1 DEF Greatest
<1> QED BY <1>2, <1>3 DEF a, s

\* The limit only takes orders off the list.
LEMMA CapTakesOff ==
  ASSUME NEW r \in Rows
  PROVE  /\ Capped(r) \in Rows
         /\ Capped(r).at = r.at /\ Capped(r).deleted = r.deleted /\ Capped(r).reset = r.reset
         /\ \A o \in Orders : Capped(r).linked[o] \in {0, r.linked[o]}
<1> DEFINE L == [o \in Orders |->
             IF Cardinality({p \in Listed(r) : Before(r, p, o)}) < MaxListed THEN r.linked[o] ELSE 0]
<1>1. L \in [Orders -> Moments] /\ \A o \in Orders : L[o] \in {0, r.linked[o]}
  BY MomentsNat DEF Rows
<1>2. Capped(r) = [r EXCEPT !.linked = L]
  BY DEF Capped
<1> HIDE DEF L
<1> QED BY <1>1, <1>2 DEF Rows

LEMMA CapKeeps ==
  ASSUME NEW r, RowOK(r)
  PROVE  RowOK(Capped(r))
<1>1. r \in Rows
  BY DEF RowOK
<1> QED BY <1>1, CapTakesOff DEF RowOK

\* One order of the row is written.
LEMMA OneWritten ==
  ASSUME NEW r, RowOK(r), NEW o \in Orders, NEW t \in Moments, NEW seen \in Nat,
         NEW op \in {"set", "clear"}, NEW newer \in BOOLEAN,
         ~Superseded(r, op, o, t, newer), ~(t = Version(r, o) /\ op = "set")
  PROVE  LET q == AfterOne(r, op, o, t, seen)
         IN  /\ RowOK(q) /\ q.reset = r.reset
             /\ q.at[o] = t /\ q.deleted[o] = (op = "clear")
             /\ q.linked[o] \in {0, t} /\ (op = "clear" => q.linked[o] = 0)
             /\ \A p \in Orders : p # o => /\ q.at[p] = r.at[p] /\ q.deleted[p] = r.deleted[p]
                                           /\ q.linked[p] \in {0, r.linked[p]}
<1> DEFINE w == [r EXCEPT !.at[o] = t, !.deleted[o] = (op = "clear"),
                          !.linked[o] = IF op = "set" THEN t ELSE 0,
                          !.seen[o] = IF op = "set" THEN seen ELSE @]
<1>1. AfterOne(r, op, o, t, seen) = Capped(w)
  BY DEF AfterOne
<1>2. r \in Rows /\ t \in Nat /\ t >= Version(r, o) /\ t # r.reset
  BY MomentsNat, RowFields DEF RowOK, Superseded
<1>3. /\ w \in Rows /\ w.reset = r.reset
      /\ w.at[o] = t /\ w.deleted[o] = (op = "clear") /\ w.linked[o] = (IF op = "set" THEN t ELSE 0)
      /\ \A p \in Orders : p # o => /\ w.at[p] = r.at[p] /\ w.deleted[p] = r.deleted[p]
                                    /\ w.linked[p] = r.linked[p]
  BY <1>2, MomentsNat DEF Rows
<1> HIDE DEF w
<1>4. t > r.reset
  BY <1>2, RowFields
<1>5. RowOK(w)
  BY <1>3, <1>4 DEF RowOK
<1>6. RowOK(Capped(w))
  BY <1>5, CapKeeps
<1> QED BY <1>1, <1>3, <1>6, CapTakesOff

\* A row q that follows r: versions never decrease, only o is entered, with the later time t,
\* and what is dead stays dead unless it is entered.
Follows(r, q, o, t) ==
  /\ RowOK(q)
  /\ \A p \in Orders :
       /\ Version(q, p) >= Version(r, p)
       /\ q.linked[p] # 0 /\ q.linked[p] # r.linked[p] => p = o /\ q.linked[p] = t /\ t > Version(r, p)
       /\ \A T \in Nat : Dead(r, p, T) /\ (p = o => t <= T) => Dead(q, p, T)

\* A clear enters nothing.
Clears(r, q) ==
  /\ RowOK(q)
  /\ \A p \in Orders :
       /\ Version(q, p) >= Version(r, p)
       /\ q.linked[p] # 0 => q.linked[p] = r.linked[p]
       /\ \A T \in Nat : Dead(r, p, T) => Dead(q, p, T)

LEMMA SameRow == ASSUME NEW r, RowOK(r) PROVE Clears(r, r) /\ \A o, t : Follows(r, r, o, t)
<1>1. \A p \in Orders : Version(r, p) >= Version(r, p)
  BY RowFields DEF RowOK
<1> QED BY <1>1 DEF Clears, Follows

LEMMA ApplySet ==
  ASSUME NEW r, RowOK(r), NEW o \in Orders, NEW t \in Moments, NEW seen \in Nat, NEW newer \in BOOLEAN
  PROVE  Follows(r, Apply(r, "set", o, t, seen, newer), o, t)
<1> DEFINE q == Apply(r, "set", o, t, seen, newer)
<1>1. CASE Superseded(r, "set", o, t, newer) \/ t = Version(r, o)
  BY <1>1, SameRow DEF Apply, AfterOne
<1>2. CASE ~Superseded(r, "set", o, t, newer) /\ t # Version(r, o)
  <2>1. q = AfterOne(r, "set", o, t, seen)
    BY <1>2 DEF Apply
  <2>2. /\ RowOK(q) /\ q.reset = r.reset /\ q.at[o] = t /\ q.linked[o] \in {0, t}
        /\ \A p \in Orders : p # o => /\ q.at[p] = r.at[p] /\ q.deleted[p] = r.deleted[p]
                                      /\ q.linked[p] \in {0, r.linked[p]}
    BY <1>2, <2>1, OneWritten
  <2> HIDE DEF q
  <2>3. r \in Rows /\ q \in Rows /\ t \in Nat
    BY <2>2, MomentsNat DEF RowOK
  <2>4. t > Version(r, o)
    BY <1>2, <2>3, RowFields DEF Superseded
  <2>5. Version(q, o) = t
    BY <2>2, <2>3, <2>4, RowFields DEF Version, Greatest
  <2>6. \A p \in Orders : p # o => Version(q, p) = Version(r, p)
    BY <2>2, VersionIs
  <2>7. \A p \in Orders : Version(q, p) >= Version(r, p)
    BY <2>3, <2>4, <2>5, <2>6, RowFields
  <2>8. \A p \in Orders : q.linked[p] # 0 /\ q.linked[p] # r.linked[p] =>
                            p = o /\ q.linked[p] = t /\ t > Version(r, p)
    BY <2>2, <2>4
  <2>9. ASSUME NEW p \in Orders, NEW T \in Nat, Dead(r, p, T), p = o => t <= T PROVE Dead(q, p, T)
    <3>1. CASE p = o
      BY <2>3, <2>4, <2>9, <3>1, RowFields DEF Dead
    <3>2. CASE p # o
      BY <2>2, <2>6, <2>9, <3>2 DEF Dead
    <3> QED BY <3>1, <3>2
  <2>10. Follows(r, q, o, t)
    BY <2>2, <2>7, <2>8, <2>9 DEF Follows
  <2> QED BY <2>10 DEF q
<1> QED BY <1>1, <1>2

LEMMA ApplyClear ==
  ASSUME NEW r, RowOK(r), NEW o \in Orders, NEW t \in Moments, NEW seen \in Nat, NEW newer \in BOOLEAN
  PROVE  LET q == Apply(r, "clear", o, t, seen, newer)
         IN  Clears(r, q) /\ (~Superseded(r, "clear", o, t, newer) => Dead(q, o, t))
<1> DEFINE q == Apply(r, "clear", o, t, seen, newer)
<1>1. CASE Superseded(r, "clear", o, t, newer)
  BY <1>1, SameRow DEF Apply
<1>2. CASE ~Superseded(r, "clear", o, t, newer)
  <2>1. q = AfterOne(r, "clear", o, t, seen)
    BY <1>2 DEF Apply
  <2>2. /\ RowOK(q) /\ q.reset = r.reset /\ q.at[o] = t /\ q.deleted[o] = ("clear" = "clear") /\ q.linked[o] = 0
        /\ \A p \in Orders : p # o => /\ q.at[p] = r.at[p] /\ q.deleted[p] = r.deleted[p]
                                      /\ q.linked[p] \in {0, r.linked[p]}
    BY <1>2, <2>1, OneWritten
  <2> HIDE DEF q
  <2>3. r \in Rows /\ q \in Rows /\ t \in Nat
    BY <2>2, MomentsNat DEF RowOK
  <2>4. t >= Version(r, o)
    BY <1>2, <2>3, RowFields DEF Superseded
  <2>5. Version(q, o) = t
    BY <2>2, <2>3, <2>4, RowFields DEF Version, Greatest
  <2>6. \A p \in Orders : p # o => Version(q, p) = Version(r, p)
    BY <2>2, VersionIs
  <2>7. \A p \in Orders : Version(q, p) >= Version(r, p)
    BY <2>3, <2>4, <2>5, <2>6, RowFields
  <2>8. \A p \in Orders : q.linked[p] # 0 => q.linked[p] = r.linked[p]
    BY <2>2
  <2>9. ASSUME NEW p \in Orders, NEW T \in Nat, Dead(r, p, T) PROVE Dead(q, p, T)
    <3>1. CASE p = o
      <4>1. t > T \/ t = T
        BY <2>3, <2>4, <2>9, <3>1, RowFields DEF Dead
      <4> QED BY <2>2, <2>5, <3>1, <4>1 DEF Dead
    <3>2. CASE p # o
      BY <2>2, <2>6, <2>9, <3>2 DEF Dead
    <3> QED BY <3>1, <3>2
  <2>10. Dead(q, o, t)
    BY <2>2, <2>5 DEF Dead
  <2>11. Clears(r, q)
    BY <2>2, <2>7, <2>8, <2>9 DEF Clears
  <2> QED BY <2>10, <2>11 DEF q
<1> QED BY <1>1, <1>2

LEMMA ResetClears ==
  ASSUME NEW r, RowOK(r), NEW t \in Moments
  PROVE  Clears(r, ApplyReset(r, t))
<1> DEFINE C == Cleared(r, t)
           w == [r EXCEPT !.at = [o \in Orders |-> IF o \in C THEN t ELSE r.at[o]],
                          !.deleted = [o \in Orders |-> r.deleted[o] \/ o \in C],
                          !.linked = [o \in Orders |-> IF o \in C THEN 0 ELSE r.linked[o]],
                          !.reset = t]
           q == Capped(w)
<1>0. r \in Rows /\ t \in Nat
  BY MomentsNat DEF RowOK
<1>1. CASE t <= r.reset
  BY <1>1, SameRow DEF ApplyReset
<1>2. CASE ~(t <= r.reset)
  <2>1. ApplyReset(r, t) = q
    BY <1>2 DEF ApplyReset
  <2>2. \A o \in Orders : o \in C <=> r.linked[o] # 0 /\ r.at[o] <= t /\ r.linked[o] <= t
    BY <1>0, RowFields DEF Cleared, Listed, Greatest
  <2> HIDE DEF C
  <2>3. /\ w \in Rows /\ w.reset = t
        /\ \A o \in Orders : /\ w.at[o] = IF o \in C THEN t ELSE r.at[o]
                             /\ w.deleted[o] = (r.deleted[o] \/ o \in C)
                             /\ w.linked[o] = IF o \in C THEN 0 ELSE r.linked[o]
    BY <1>0, MomentsNat DEF Rows
  <2> HIDE DEF w
  <2>4. RowOK(w)
    <3> SUFFICES ASSUME NEW o \in Orders PROVE w.linked[o] = 0 \/ (w.linked[o] = w.at[o] /\ w.linked[o] > w.reset)
      BY <2>3 DEF RowOK
    <3>1. r.linked[o] = 0 \/ r.linked[o] = r.at[o]
      BY DEF RowOK
    <3>2. r.at[o] \in Nat /\ r.linked[o] \in Nat
      BY <1>0, RowFields
    <3> QED BY <1>0, <2>2, <2>3, <3>1, <3>2
  <2>5. /\ RowOK(q) /\ q \in Rows /\ q.reset = t
        /\ \A o \in Orders : /\ q.at[o] = w.at[o] /\ q.deleted[o] = w.deleted[o]
                             /\ q.linked[o] \in {0, w.linked[o]}
    BY <2>3, <2>4, CapKeeps, CapTakesOff
  <2> HIDE DEF q
  <2>6. ASSUME NEW p \in Orders
        PROVE  /\ Version(q, p) >= Version(r, p)
               /\ q.linked[p] # 0 => q.linked[p] = r.linked[p]
               /\ \A T \in Nat : Dead(r, p, T) => Dead(q, p, T)
    <3>1. /\ r.at[p] \in Nat /\ r.linked[p] \in {0, r.at[p]} /\ r.reset \in Nat /\ r.reset < t
          /\ q.reset = t
      <4>1. r.at[p] \in Nat /\ r.reset \in Nat
        BY <1>0, RowFields
      <4>2. r.linked[p] \in {0, r.at[p]}
        BY DEF RowOK
      <4> QED BY <1>0, <1>2, <2>5, <4>1, <4>2
    <3>9. /\ q.linked[p] \in {0, r.linked[p]}
          /\ \/ p \in C /\ q.at[p] = t /\ r.at[p] <= t /\ r.linked[p] # 0 /\ q.linked[p] = 0
             \/ p \notin C /\ q.at[p] = r.at[p] /\ q.deleted[p] = (r.deleted[p] \/ FALSE)
      <4>1. CASE p \in C
        BY <2>2, <2>3, <2>5, <4>1
      <4>2. CASE p \notin C
        BY <2>3, <2>5, <4>2
      <4> QED BY <4>1, <4>2
    <3>2. Version(r, p) = (IF r.at[p] > r.reset THEN r.at[p] ELSE r.reset)
      BY VersionIs DEF Greatest
    <3>3. Version(q, p) = (IF q.at[p] > t THEN q.at[p] ELSE t)
      BY <2>5, VersionIs DEF Greatest
    <3>4. \A T \in Nat : Dead(r, p, T) => Dead(q, p, T)
      <4> SUFFICES ASSUME NEW T \in Nat, Dead(r, p, T) PROVE Dead(q, p, T)
        OBVIOUS
      <4>1. p \notin C /\ q.linked[p] = 0 /\ q.at[p] = r.at[p] /\ q.deleted[p] = (r.deleted[p] \/ FALSE)
        BY <3>1, <3>9 DEF Dead
      <4>2. Version(r, p) >= T
        BY <1>0, <3>1, <3>2 DEF Dead
      <4>3. CASE t > T \/ t = T
        BY <1>0, <3>1, <3>3, <4>1, <4>3 DEF Dead
      <4>4. CASE t < T
        <5>1. Version(q, p) = Version(r, p) /\ r.reset # T
          BY <1>0, <3>1, <3>2, <3>3, <4>1, <4>2, <4>4
        <5> QED BY <4>1, <5>1 DEF Dead
      <4> QED BY <1>0, <4>3, <4>4
    <3> QED BY <1>0, <3>1, <3>9, <3>2, <3>3, <3>4
  <2> QED BY <2>1, <2>5, <2>6 DEF Clears
<1> QED BY <1>1, <1>2

-----------------------------------------------------------------------------
(* Types, and whose call a call is. *)

Statuses == {"none", "landed", "succeeded", "synced"}
WorkOrders == [st: {"none", "active", "ended"}, visit: Nat]
Actions == [kind: {"booking", "modify", "cancel"}, order: Orders \cup {0}, at: Moments, st: Statuses]
Calls == [pc: {"idle", "read", "write", "uncache"}, e: Events \cup {0}, op: {"set", "clear", "reset"},
          order: Orders \cup {0}, at: Moments, seen: Nat, then: {"idle", "read", "synced"}]

SyncTypes ==
  /\ event \in [Events -> Actions] /\ syncer \in [Syncers -> Calls]
  /\ order \in [Orders -> WorkOrders] /\ shown \in [Orders -> WorkOrders]
  /\ upset \in [Orders -> SUBSET Reasons] /\ RowOK(row)

\* An action that was carried out names an order.
Happened(e) == e \in Events /\ event[e].st # "none"

CallShape ==
  /\ \A e \in Events : Happened(e) => event[e].order \in Orders
  /\ \A s \in Syncers : /\ syncer[s].e # 0 => Happened(syncer[s].e)
                        /\ At(s, "read") => syncer[s].e # 0
                        /\ At(s, "write") => syncer[s].op = "reset" \/ syncer[s].order \in Orders
                        /\ At(s, "write") \/ At(s, "uncache") => syncer[s].then \in {"read", "synced"}
                        /\ At(s, "write") \/ At(s, "uncache") =>
                             (syncer[s].then = "read" => syncer[s].e # 0)

SyncInv == SyncTypes /\ CallShape

LEMMA NoCallFacts == /\ NoCall \in Calls /\ NoCall.pc = "idle" /\ NoCall.e = 0
                     /\ NoEvent \in Actions /\ NoEvent.st = "none" /\ 0 \notin Events
  BY MomentsNat, SyncAssumption DEF SyncAssumption, NoCall, Calls, NoEvent, Actions, Statuses

LEMMA SyncInitially == BookingInit => SyncInv
<1> SUFFICES ASSUME BookingInit PROVE SyncInv
  OBVIOUS
<1>1. EmptyRow \in Rows /\ EmptyRow.linked = [o \in Orders |-> 0]
  BY MomentsNat DEF EmptyRow, Rows
<1>2. RowOK(row)
  BY <1>1 DEF RowOK, BookingInit
<1>3. SyncTypes
  BY <1>2, NoCallFacts DEF BookingInit, SyncTypes, NoOrder, WorkOrders, Reasons
<1>4. CallShape
  BY NoCallFacts DEF BookingInit, CallShape, At, Happened
<1> QED BY <1>3, <1>4 DEF SyncInv

\* A step on the actions, the provider and the history only.
LEMMA CallsAside ==
  ASSUME SyncInv, UNCHANGED <<row, syncer>>, event' \in [Events -> Actions],
         order' \in [Orders -> WorkOrders], shown' \in [Orders -> WorkOrders],
         upset' \in [Orders -> SUBSET Reasons],
         \A e \in Events : event'[e].st = "none" => event[e].st = "none",
         \A e \in Events : event'[e].st # "none" => event'[e].order \in Orders
  PROVE  SyncInv'
<1>1. SyncTypes'
  BY DEF SyncInv, SyncTypes, RowOK, Listed
<1>2. CallShape'
  BY DEF SyncInv, CallShape, At, Happened
<1> QED BY <1>1, <1>2 DEF SyncInv

LEMMA TypeCarryOut ==
  ASSUME SyncInv, NEW e \in Events, NEW kind \in {"booking", "modify", "cancel"}, NEW o \in Orders,
         NEW t \in Times, CarryOut(e, kind, o, t)
  PROVE  SyncInv'
<1>1. /\ event' = [event EXCEPT ![e] = [kind |-> kind, order |-> o, at |-> t, st |-> "landed"]]
      /\ [kind |-> kind, order |-> o, at |-> t, st |-> "landed"] \in Actions
  BY DEF CarryOut, Actions, Statuses, Moments
<1>2. event' \in [Events -> Actions] /\ event'[e].st # "none" /\ event'[e].order = o
      /\ \A f \in Events : f # e => event'[f] = event[f]
  BY <1>1 DEF SyncInv, SyncTypes
<1>3. order' \in [Orders -> WorkOrders]
  BY DEF CarryOut, SyncInv, SyncTypes, WorkOrders
<1>4. upset' \in [Orders -> SUBSET Reasons]
  BY DEF CarryOut, SyncInv, SyncTypes, Reasons
<1>5. UNCHANGED <<shown, row, syncer>>
  BY DEF CarryOut
<1>6. \A f \in Events : event'[f].st # "none" => event'[f].order \in Orders
  BY <1>2 DEF SyncInv, CallShape, Happened
<1> QED BY <1>2, <1>3, <1>4, <1>5, <1>6, CallsAside DEF SyncInv, SyncTypes

LEMMA TypeRecord == ASSUME SyncInv, NEW e \in Events, Record(e) PROVE SyncInv'
<1>1. event' = [event EXCEPT ![e].st = "succeeded"] /\ UNCHANGED <<order, shown, row, syncer, upset>>
  BY DEF Record, provider
<1>2. /\ event' \in [Events -> Actions]
      /\ \A f \in Events : (event'[f].st = "none" => event[f].st = "none") /\ event'[f].order = event[f].order
  BY <1>1 DEF SyncInv, SyncTypes, Actions, Statuses
<1>3. event[e].st # "none" /\ \A f \in Events : f # e => event'[f] = event[f]
  BY <1>1 DEF Record
<1> QED BY <1>1, <1>2, <1>3, CallsAside DEF SyncInv, SyncTypes, CallShape, Happened

LEMMA TypeProvider ==
  ASSUME SyncInv, NEW o \in Orders, ListCatchesUp(o) \/ EndedOutside(o)
  PROVE  SyncInv'
<1>1. UNCHANGED <<event, row, syncer>>
  BY DEF ListCatchesUp, EndedOutside
<1>2. order' \in [Orders -> WorkOrders] /\ shown' \in [Orders -> WorkOrders] /\ upset' \in [Orders -> SUBSET Reasons]
  <2>1. CASE ListCatchesUp(o)
    BY <2>1 DEF ListCatchesUp, SyncInv, SyncTypes
  <2>2. CASE EndedOutside(o)
    BY <2>2 DEF EndedOutside, Upset, SyncInv, SyncTypes, WorkOrders, Reasons
  <2> QED BY <2>1, <2>2
<1> QED BY <1>1, <1>2, CallsAside DEF SyncInv, SyncTypes, CallShape, Happened

\* One call moves on.
LEMMA CallMoves ==
  ASSUME SyncInv, NEW s \in Syncers, NEW c \in Calls, syncer' = [syncer EXCEPT ![s] = c],
         UNCHANGED <<event, order, shown, row>>, upset' \in [Orders -> SUBSET Reasons],
         c.e # 0 => Happened(c.e), c.pc = "read" => c.e # 0,
         c.pc = "write" => c.op = "reset" \/ c.order \in Orders,
         c.pc \in {"write", "uncache"} => c.then = "synced" \/ (c.then = "read" /\ c.e # 0)
  PROVE  SyncInv'
<1>1. syncer' \in [Syncers -> Calls] /\ syncer'[s] = c /\ \A z \in Syncers : z # s => syncer'[z] = syncer[z]
  BY DEF SyncInv, SyncTypes
<1>2. SyncTypes'
  BY <1>1 DEF SyncInv, SyncTypes, RowOK, Listed
<1>3. CallShape'
  BY <1>1 DEF SyncInv, CallShape, At, Happened
<1> QED BY <1>2, <1>3 DEF SyncInv

LEMMA TypeBeginSync ==
  ASSUME SyncInv, NEW s \in Syncers, NEW e \in Events, BeginSync(s, e)
  PROVE  SyncInv'
<1> DEFINE c == [NoCall EXCEPT !.e = e, !.op = "clear", !.order = event[e].order, !.at = event[e].at,
                               !.pc = Opening(e), !.then = "read"]
<1>1. Happened(e) /\ event[e] \in Actions /\ event[e].order \in Orders /\ e # 0
  BY NoCallFacts DEF BeginSync, SyncInv, SyncTypes, CallShape, Happened
<1>2. c.e = e /\ c.pc \in {"read", "write"} /\ c.order = event[e].order /\ c.then = "read"
  BY DEF NoCall, Opening
<1>3. c \in Calls
  BY <1>1, MomentsNat DEF NoCall, Opening, Calls, Actions
<1>4. syncer' = [syncer EXCEPT ![s] = c] /\ UNCHANGED <<event, order, shown, row, upset>>
  BY DEF BeginSync, provider
<1> HIDE DEF c
<1> QED BY <1>1, <1>2, <1>3, <1>4, CallMoves DEF SyncInv, SyncTypes

LEMMA TypeSynced ==
  ASSUME SyncInv, NEW s \in Syncers, Synced(s), UNCHANGED <<order, shown, row, upset>>
  PROVE  SyncInv'
<1> DEFINE e == syncer[s].e
<1>1. e # 0 => e \in Events /\ Happened(e)
  BY DEF SyncInv, CallShape, Happened
<1>2. event' = (IF e = 0 THEN event ELSE [event EXCEPT ![e].st = "synced"]) /\ syncer' = [syncer EXCEPT ![s] = NoCall]
  BY DEF Synced
<1>3. /\ event' \in [Events -> Actions] /\ \A f \in Events : event'[f].order = event[f].order
      /\ \A f \in Events : event'[f].st = "none" <=> event[f].st = "none"
  BY <1>1, <1>2 DEF SyncInv, SyncTypes, Actions, Statuses, Happened
<1>4. SyncTypes'
  BY <1>2, <1>3, NoCallFacts DEF SyncInv, SyncTypes, RowOK, Listed
<1>5. \A z \in Syncers : syncer'[z] = NoCall \/ syncer'[z] = syncer[z]
  BY <1>2 DEF SyncInv, SyncTypes
<1>6. CallShape'
  BY <1>3, <1>5, NoCallFacts DEF SyncInv, CallShape, At, Happened
<1> QED BY <1>4, <1>6 DEF SyncInv

LEMMA TypeFetch ==
  ASSUME SyncInv, NEW s \in Syncers, FetchSignupWorkOrders(s)
  PROVE  SyncInv'
<1> DEFINE e == syncer[s].e
           o == event[e].order
           c == [syncer[s] EXCEPT !.pc = "write", !.order = o, !.at = event[e].at, !.seen = shown[o].visit,
                   !.then = "synced", !.op = IF shown[o].st = "active" THEN "set" ELSE "clear"]
<1>1. e \in Events /\ Happened(e) /\ o \in Orders /\ event[e] \in Actions /\ syncer[s] \in Calls
      /\ shown[o] \in WorkOrders /\ e # 0
  BY DEF FetchSignupWorkOrders, SyncInv, SyncTypes, CallShape, Happened, At
<1>2. UNCHANGED <<order, shown, row>>
  BY DEF FetchSignupWorkOrders, provider
<1>3. CASE syncer' = [syncer EXCEPT ![s] = NoCall] /\ UNCHANGED <<event, upset>>
  BY <1>2, <1>3, NoCallFacts, CallMoves DEF SyncInv, SyncTypes
<1>4. CASE Synced(s) /\ UNCHANGED upset
  BY <1>2, <1>4, TypeSynced
<1>5. CASE /\ syncer' = [syncer EXCEPT ![s] = c] /\ UNCHANGED event
           /\ IF shown[o] = order[o] THEN UNCHANGED upset ELSE Upset(o, "lag")
  <2>1. c.e = e /\ c.pc = "write" /\ c.order = o /\ c.then = "synced" /\ c \in Calls
    BY <1>1 DEF Calls, Actions, WorkOrders
  <2>2. upset' \in [Orders -> SUBSET Reasons]
    BY <1>5 DEF Upset, SyncInv, SyncTypes, Reasons
  <2> HIDE DEF c
  <2> QED BY <1>1, <1>2, <1>5, <2>1, <2>2, CallMoves
<1> QED BY <1>3, <1>4, <1>5 DEF FetchSignupWorkOrders

LEMMA TypeApply ==
  ASSUME SyncInv, NEW s \in Syncers, ApplyBookingProjection(s)
  PROVE  /\ SyncInv'
         /\ syncer[s].op = "reset" => Clears(row, row')
         /\ syncer[s].op # "reset" =>
              /\ syncer[s].order \in Orders /\ syncer[s].at \in Moments
              /\ row' = Apply(row, syncer[s].op, syncer[s].order, syncer[s].at, syncer[s].seen,
                              Newer(syncer[s].order, syncer[s].at))
         /\ syncer[s].op = "clear" => Clears(row, row')
         /\ syncer[s].op = "set" => Follows(row, row', syncer[s].order, syncer[s].at)
<1> DEFINE c == syncer[s]
           newer == Newer(c.order, c.at)
           late == Superseded(row, c.op, c.order, c.at, newer)
           d == [NoCall EXCEPT !.pc = "uncache", !.e = c.e,
                               !.then = IF c.op # "reset" /\ late THEN "synced" ELSE c.then]
<1>1. /\ c \in Calls /\ RowOK(row) /\ (c.e # 0 => Happened(c.e)) /\ (c.op = "reset" \/ c.order \in Orders)
      /\ c.then = "synced" \/ (c.then = "read" /\ c.e # 0)
  BY DEF ApplyBookingProjection, SyncInv, SyncTypes, CallShape, At
<1>2. newer \in BOOLEAN
  BY DEF Newer
<1>3. /\ c.op = "reset" => row' = ApplyReset(row, c.at)
      /\ c.op # "reset" => row' = Apply(row, c.op, c.order, c.at, c.seen, newer)
      /\ syncer' = [syncer EXCEPT ![s] = d] /\ UNCHANGED <<event, order, shown>>
  BY DEF ApplyBookingProjection, provider
<1>4. upset' \in [Orders -> SUBSET Reasons]
  BY DEF ApplyBookingProjection, SyncInv, SyncTypes, Reasons
<1>5. d \in Calls /\ d.pc = "uncache" /\ d.e = c.e /\ (d.then = "synced" \/ (d.then = "read" /\ d.e # 0))
  BY <1>1, MomentsNat DEF Calls, NoCall
<1>6. c.at \in Moments /\ c.seen \in Nat /\ c.op \in {"set", "clear", "reset"}
  BY <1>1 DEF Calls
<1> HIDE DEF c, newer, d
<1>7. c.op = "reset" => Clears(row, row')
  BY <1>1, <1>3, <1>6, ResetClears
<1>8. c.op = "clear" => Clears(row, row')
  BY <1>1, <1>2, <1>3, <1>6, ApplyClear
<1>9. c.op = "set" => Follows(row, row', c.order, c.at)
  BY <1>1, <1>2, <1>3, <1>6, ApplySet
<1>10. RowOK(row')
  BY <1>6, <1>7, <1>8, <1>9 DEF Clears, Follows
<1>11. /\ syncer' \in [Syncers -> Calls] /\ syncer'[s] = d
       /\ \A z \in Syncers : z # s => syncer'[z] = syncer[z]
  BY <1>3, <1>5 DEF SyncInv, SyncTypes
<1>12. SyncTypes'
  BY <1>3, <1>4, <1>10, <1>11 DEF SyncInv, SyncTypes, RowOK
<1>13. CallShape'
  BY <1>1, <1>3, <1>5, <1>11 DEF SyncInv, CallShape, At, Happened
<1> QED BY <1>1, <1>3, <1>6, <1>7, <1>8, <1>9, <1>12, <1>13 DEF SyncInv, c, newer

LEMMA TypeDeleteCache ==
  ASSUME SyncInv, NEW s \in Syncers, DeleteCache(s)
  PROVE  SyncInv'
<1>1. UNCHANGED <<order, shown, row, upset>> /\ At(s, "uncache")
  BY DEF DeleteCache, provider
<1>2. CASE Synced(s)
  BY <1>1, <1>2, TypeSynced
<1>3. CASE syncer[s].then = "read" /\ syncer' = [syncer EXCEPT ![s].pc = "read"] /\ UNCHANGED event
  <2> DEFINE c == [syncer[s] EXCEPT !.pc = "read"]
  <2>1. syncer[s] \in Calls /\ (syncer[s].e # 0 => Happened(syncer[s].e)) /\ syncer[s].e # 0
    BY <1>1, <1>3 DEF SyncInv, SyncTypes, CallShape
  <2>2. c \in Calls /\ c.pc = "read" /\ c.e = syncer[s].e
    BY <2>1 DEF Calls
  <2>3. syncer' = [syncer EXCEPT ![s] = c]
    BY <1>3
  <2> HIDE DEF c
  <2> QED BY <1>1, <1>3, <2>1, <2>2, <2>3, CallMoves DEF SyncInv, SyncTypes
<1> QED BY <1>2, <1>3 DEF DeleteCache

LEMMA TypeBreakOff == ASSUME SyncInv, NEW s \in Syncers, BreakOff(s) PROVE SyncInv'
  BY NoCallFacts, CallMoves DEF BreakOff, provider, SyncInv, SyncTypes

LEMMA NowCalls ==
  ASSUME SyncInv, NEW s \in Syncers, NEW o \in Orders \cup {0}, NEW op \in {"set", "clear", "reset"},
         NEW seen \in Nat, Now(s, o, op, seen), op = "reset" \/ o \in Orders,
         UNCHANGED <<event, order, shown, row>>, upset' \in [Orders -> SUBSET Reasons]
  PROVE  SyncInv'
<1> DEFINE c == [pc |-> "write", e |-> 0, op |-> op, order |-> o, at |-> clock', seen |-> seen, then |-> "synced"]
<1>1. syncer' = [syncer EXCEPT ![s] = c] /\ clock' \in Times
  BY DEF Now
<1>2. c \in Calls /\ c.e = 0 /\ c.pc = "write" /\ c.op = op /\ c.order = o /\ c.then = "synced"
  BY <1>1 DEF Calls, Moments
<1> HIDE DEF c
<1> QED BY <1>1, <1>2, CallMoves

LEMMA TypeRelink == ASSUME SyncInv, NEW s \in Syncers, NEW o \in Orders, Relink(s, o) PROVE SyncInv'
<1>1. /\ Now(s, o, "set", shown[o].visit) /\ UNCHANGED <<event, order, shown, row>>
      /\ upset' = [upset EXCEPT ![o] = @ \cup {"relink"}]
  BY DEF Relink, Upset, provider
<1>2. shown[o].visit \in Nat /\ upset' \in [Orders -> SUBSET Reasons]
  BY <1>1 DEF SyncInv, SyncTypes, WorkOrders, Reasons
<1> QED BY <1>1, <1>2, NowCalls

LEMMA TypeReset == ASSUME SyncInv, NEW s \in Syncers, Reset(s) PROVE SyncInv'
<1>1. /\ Now(s, 0, "reset", 0) /\ UNCHANGED <<event, order, shown, row>>
      /\ upset' = [o \in Orders |-> upset[o] \cup {"reset"}]
  BY DEF Reset, provider
<1>2. upset' \in [Orders -> SUBSET Reasons]
  BY <1>1 DEF SyncInv, SyncTypes, Reasons
<1> QED BY <1>1, <1>2, NowCalls

\* Nothing but the cache, the readers and the clock.
LEMMA NothingElse ==
  ASSUME SyncInv, UNCHANGED <<event, order, shown, row, syncer, upset>>
  PROVE  SyncInv'
  BY CallsAside DEF SyncInv, SyncTypes, CallShape, Happened

Quiet == UNCHANGED <<event, order, shown, row, syncer, upset>>

LEMMA ReadersQuiet ==
  ASSUME (\E r \in Readers : ReadRow(r) \/ FillCache(r)) \/ CacheExpires \/ UNCHANGED bookingVars
  PROVE  Quiet
  BY DEF ReadRow, FillCache, CacheExpires, bookingVars, provider, Quiet

LEMMA SyncStep == SyncInv /\ [BookingNext]_bookingVars => SyncInv'
<1> SUFFICES ASSUME SyncInv, [BookingNext]_bookingVars PROVE SyncInv'
  OBVIOUS
<1> QED BY TypeCarryOut, TypeRecord, TypeProvider, TypeBeginSync, TypeFetch, TypeApply, TypeDeleteCache,
           TypeBreakOff, TypeRelink, TypeReset, ReadersQuiet, NothingElse DEF BookingNext, Quiet

\* Only the projection writes the row.
LEMMA RowWritten ==
  ASSUME [BookingNext]_bookingVars
  PROVE  row' = row \/ \E s \in Syncers : ApplyBookingProjection(s)
  BY DEF BookingNext, bookingVars, provider, CarryOut, Record, BeginSync, ListCatchesUp, EndedOutside,
         Relink, Now, FetchSignupWorkOrders, DeleteCache, BreakOff, Reset, ReadRow, FillCache, CacheExpires

\* NeverRevived for any orders, actions and syncers: apply_active_booking_projection never makes
\* what the row knows of an order older, and enters an order only with a time later than all of it.
THEOREM NeverRevivedHolds == BookingSpec => NeverRevived
<1> DEFINE Kept == \A o \in Orders :
             /\ Version(row', o) >= Version(row, o)
             /\ row'.linked[o] # 0 /\ row'.linked[o] # row.linked[o] => row'.linked[o] > Version(row, o)
<1>1. SyncInv /\ [BookingNext]_bookingVars => [Kept]_bookingVars
  <2> SUFFICES ASSUME SyncInv, [BookingNext]_bookingVars PROVE Kept
    OBVIOUS
  <2>1. RowOK(row)
    BY DEF SyncInv, SyncTypes
  <2>2. CASE row' = row
    BY <2>1, <2>2, RowFields DEF RowOK
  <2>3. CASE \E s \in Syncers : ApplyBookingProjection(s)
    <3>1. PICK s \in Syncers : ApplyBookingProjection(s)
      BY <2>3
    <3>2. syncer[s].op \in {"set", "clear", "reset"}
      BY DEF SyncInv, SyncTypes, Calls
    <3>3. Clears(row, row') \/ Follows(row, row', syncer[s].order, syncer[s].at)
      BY <3>1, <3>2, TypeApply
    <3> QED BY <3>3 DEF Clears, Follows
  <2> QED BY <2>2, <2>3, RowWritten
<1> QED BY <1>1, SyncInitially, SyncStep, PTL DEF BookingSpec, NeverRevived

-----------------------------------------------------------------------------
(* Cancelled orders. *)

Excused(o) == upset[o] \cap {"disorder", "relink"} # {}
FromEvent(o, t) == \E f \in Of(o) : event[f].at = t
IsCancel(e) == Happened(e) /\ event[e].kind = "cancel"

\* A cancelled order stays ended, and no action of it has a later input.
CancelLast ==
  \A e \in Events : IsCancel(e) =>
    /\ order[event[e].order].st = "ended"
    /\ Excused(event[e].order) \/ \A f \in Of(event[e].order) : event[f].at <= event[e].at

\* What is about to be written comes from an action, and a cancellation only clears.
CallOf(c) ==
  c.pc = "write" =>
    /\ c.op = "set" => Excused(c.order) \/ FromEvent(c.order, c.at)
    /\ c.e # 0 => /\ c.op # "reset" /\ c.order = event[c.e].order /\ c.at = event[c.e].at
                  /\ IsCancel(c.e) => c.op = "clear"
CallsOf == \A s \in Syncers : CallOf(syncer[s])

RowFromEvents ==
  \A o \in Orders : row.linked[o] # 0 => Excused(o) \/ FromEvent(o, row.linked[o])

\* Its clear was carried out or was superseded.
Passed(e) == event[e].st = "synced" \/ \E s \in Syncers : syncer[s].e = e /\ syncer[s].pc \in {"uncache", "read"}

CancelsGone ==
  \A e \in Events : IsCancel(e) /\ Passed(e) =>
    Excused(event[e].order) \/ Dead(row, event[e].order, event[e].at)

GoneInv == SyncInv /\ CancelLast /\ CallsOf /\ RowFromEvents /\ CancelsGone

LEMMA GoneInitially == BookingInit => GoneInv
<1> SUFFICES ASSUME BookingInit PROVE GoneInv
  OBVIOUS
<1>1. SyncInv
  BY SyncInitially
<1>2. \A e \in Events : event[e].st = "none"
  BY DEF BookingInit, NoEvent
<1>3. \A s \in Syncers : syncer[s].pc = "idle"
  BY DEF BookingInit, NoCall
<1>4. \A o \in Orders : row.linked[o] = 0
  BY DEF BookingInit, EmptyRow
<1> QED BY <1>1, <1>2, <1>3, <1>4 DEF GoneInv, CancelLast, CallsOf, CallOf, RowFromEvents, CancelsGone, IsCancel, Happened

LEMMA CallHere ==
  ASSUME NEW s \in Syncers, NEW c, syncer'[s] = c, CallOf(c)'
  PROVE  CallOf(syncer[s])'
  BY DEF CallOf, Excused, FromEvent, Of, IsCancel, Happened

\* A call that goes on as it is, while the actions and the history only grow.
LEMMA CallStill ==
  ASSUME NEW c \in Calls, CallOf(c), c.pc = "write" => c.op = "reset" \/ c.order \in Orders,
         \A p \in Orders : Excused(p) => Excused(p)',
         \A p, u : FromEvent(p, u) => FromEvent(p, u)',
         c.e # 0 => /\ event'[c.e].order = event[c.e].order /\ event'[c.e].at = event[c.e].at
                    /\ IsCancel(c.e)' <=> IsCancel(c.e)
  PROVE  CallOf(c)'
  BY DEF CallOf

\* Every step but carrying out an action.
SameActions ==
  /\ \A f \in Events : /\ event'[f].kind = event[f].kind /\ event'[f].order = event[f].order
                       /\ event'[f].at = event[f].at
                       /\ event'[f].st = "none" <=> event[f].st = "none"
  /\ \A o \in Orders : upset[o] \subseteq upset'[o]
  /\ \A o \in Orders : order[o].st = "ended" => order'[o].st = "ended"

LEMMA StillSo ==
  ASSUME SameActions
  PROVE  /\ \A o \in Orders : Excused(o) => Excused(o)'
         /\ \A o : Of(o)' = Of(o)
         /\ \A o, t : FromEvent(o, t) => FromEvent(o, t)'
         /\ \A e \in Events : IsCancel(e)' <=> IsCancel(e)
<1>1. ASSUME NEW o \in Orders, Excused(o) PROVE Excused(o)'
  BY <1>1 DEF SameActions, Excused
<1>2. \A o : Of(o)' = Of(o)
  BY DEF SameActions, Of
<1>3. ASSUME NEW o, NEW t, FromEvent(o, t) PROVE FromEvent(o, t)'
  <2>1. PICK f \in Of(o) : event[f].at = t
    BY <1>3 DEF FromEvent
  <2>2. f \in Of(o)' /\ event'[f].at = t
    BY <1>2, <2>1 DEF SameActions, Of
  <2> QED BY <2>2 DEF FromEvent
<1>4. ASSUME NEW e \in Events PROVE IsCancel(e)' <=> IsCancel(e)
  BY DEF SameActions, IsCancel, Happened
<1> QED BY <1>1, <1>2, <1>3, <1>4

LEMMA CancelLastKept ==
  ASSUME SyncInv, CancelLast, SameActions
  PROVE  CancelLast'
<1> SUFFICES ASSUME NEW e \in Events, IsCancel(e)'
             PROVE  /\ order'[event'[e].order].st = "ended"
                    /\ Excused(event[e].order)' \/ \A f \in Of(event[e].order)' : event'[f].at <= event'[e].at
  BY DEF CancelLast
<1>1. IsCancel(e) /\ event'[e].order = event[e].order /\ event[e].order \in Orders /\ event'[e].at = event[e].at
  BY StillSo DEF SameActions, SyncInv, CallShape, IsCancel
<1>2. order[event[e].order].st = "ended"
      /\ (Excused(event[e].order) \/ \A f \in Of(event[e].order) : event[f].at <= event[e].at)
  BY <1>1 DEF CancelLast
<1>3. \A f \in Events : event'[f].at = event[f].at
  BY DEF SameActions
<1> QED BY <1>1, <1>2, <1>3, StillSo DEF SameActions, Of, Excused

\* An action is carried out: a cancelled order is not active, so it is about another order, or it
\* is the cancellation itself; an input older than one of the same order is disorder.
LEMMA GoneCarryOut ==
  ASSUME GoneInv, NEW e \in Events, NEW kind \in {"booking", "modify", "cancel"}, NEW o \in Orders,
         NEW t \in Times, CarryOut(e, kind, o, t)
  PROVE  GoneInv'
<1>1. SyncInv /\ SyncInv'
  BY TypeCarryOut DEF GoneInv
<1>2. /\ event[e].st = "none" /\ UNCHANGED <<row, syncer>>
      /\ event' = [event EXCEPT ![e] = [kind |-> kind, order |-> o, at |-> t, st |-> "landed"]]
  BY DEF CarryOut
<1>3. /\ event'[e].kind = kind /\ event'[e].order = o /\ event'[e].at = t /\ event'[e].st = "landed"
      /\ \A f \in Events : f # e => event'[f] = event[f]
  BY <1>1, <1>2 DEF SyncInv, SyncTypes
<1>4. /\ order[o].st # "ended" /\ (kind = "cancel" => order'[o].st = "ended")
      /\ \A p \in Orders : p # o => order'[p] = order[p]
  BY <1>1 DEF CarryOut, SyncInv, SyncTypes, WorkOrders
<1>5. /\ \A p \in Orders : upset[p] \subseteq upset'[p]
      /\ (\E f \in Of(o) : event[f].at > t) => "disorder" \in upset'[o]
  BY <1>1 DEF CarryOut, SyncInv, SyncTypes
<1>6. \A p \in Orders : Excused(p) => Excused(p)'
  BY <1>5 DEF Excused
<1>7. \A p : Of(p)' = IF p = o THEN Of(p) \cup {e} ELSE Of(p)
  BY <1>2, <1>3 DEF Of
<1>8. \A p, u : FromEvent(p, u) => FromEvent(p, u)'
  <2> SUFFICES ASSUME NEW p, NEW u, FromEvent(p, u) PROVE FromEvent(p, u)'
    OBVIOUS
  <2>1. PICK f \in Of(p) : event[f].at = u
    BY DEF FromEvent
  <2>2. f \in Of(p)' /\ event'[f].at = u
    BY <1>2, <1>3, <1>7, <2>1 DEF Of
  <2> QED BY <2>2 DEF FromEvent
<1>9. CancelLast'
  <2> SUFFICES ASSUME NEW f \in Events, IsCancel(f)'
               PROVE  /\ order'[event'[f].order].st = "ended"
                      /\ Excused(event[f].order)' \/ \A g \in Of(event[f].order)' : event'[g].at <= event'[f].at
    BY DEF CancelLast
  <2>1. CASE f = e
    <3>1. event'[f].order = o /\ event'[f].at = t /\ kind = "cancel"
      BY <1>3, <2>1 DEF IsCancel
    <3>2. CASE \E g \in Of(o) : event[g].at > t
      BY <1>4, <1>5, <3>1, <3>2 DEF Excused
    <3>3. CASE ~ \E g \in Of(o) : event[g].at > t
      <4>1. \A g \in Of(o) : g # e /\ event'[g] = event[g] /\ event[g].at \in Nat
        BY <1>1, <1>2, <1>3, MomentsNat DEF Of, SyncInv, SyncTypes, Actions
      <4>2. t \in Nat
        BY MomentsNat DEF Moments
      <4>3. \A g \in Of(o) \cup {e} : event'[g].at <= t
        BY <1>3, <3>3, <4>1, <4>2
      <4> QED BY <1>4, <1>7, <3>1, <4>3
    <3> QED BY <3>2, <3>3
  <2>2. CASE f # e
    <3>1. IsCancel(f) /\ event'[f] = event[f] /\ event[f].order \in Orders
      BY <1>1, <1>3, <2>2 DEF IsCancel, Happened, SyncInv, CallShape
    <3>2. order[event[f].order].st = "ended"
          /\ (Excused(event[f].order) \/ \A g \in Of(event[f].order) : event[g].at <= event[f].at)
      BY <3>1 DEF GoneInv, CancelLast
    <3>3. event[f].order # o
      BY <1>4, <3>2
    <3>4. Of(event[f].order)' = Of(event[f].order) /\ e \notin Of(event[f].order)
      BY <1>2, <1>7, <3>1, <3>3 DEF Of
    <3>5. \A g \in Of(event[f].order) : event'[g] = event[g]
      BY <1>3, <3>4 DEF Of
    <3> QED BY <1>4, <1>6, <3>1, <3>2, <3>3, <3>4, <3>5
  <2> QED BY <2>1, <2>2
<1>10. \A s \in Syncers : syncer[s].e # 0 => Happened(syncer[s].e) /\ syncer[s].e # e /\ syncer[s].e \in Events
  BY <1>1, <1>2 DEF SyncInv, CallShape, Happened
<1>11. \A s \in Syncers : syncer[s] \in Calls /\ CallOf(syncer[s]) /\
                           (syncer[s].pc = "write" => syncer[s].op = "reset" \/ syncer[s].order \in Orders)
  BY <1>1 DEF SyncInv, SyncTypes, CallShape, At, GoneInv, CallsOf
<1>12. CallsOf'
  <2> SUFFICES ASSUME NEW s \in Syncers PROVE CallOf(syncer[s])'
    BY DEF CallsOf
  <2>1. PICK c : c = syncer[s]
    OBVIOUS
  <2>2. c.e # 0 => event'[c.e] = event[c.e] /\ (IsCancel(c.e)' <=> IsCancel(c.e))
    BY <1>3, <1>10, <2>1 DEF IsCancel, Happened
  <2>3. CallOf(c)'
    BY <1>6, <1>8, <1>11, <2>1, <2>2, CallStill
  <2> QED BY <1>2, <2>1, <2>3, CallHere
<1>13. RowFromEvents'
  BY <1>2, <1>6, <1>8 DEF GoneInv, RowFromEvents
<1>14. CancelsGone'
  <2> SUFFICES ASSUME NEW f \in Events, IsCancel(f)', Passed(f)'
               PROVE  Excused(event[f].order)' \/ Dead(row, event[f].order, event[f].at)'
    BY DEF CancelsGone
  <2>1. f # e
    <3>1. e # 0
      BY NoCallFacts
    <3>2. \A s \in Syncers : syncer[s].e # e
      BY <1>10, <3>1
    <3> QED BY <1>2, <1>3, <3>2 DEF Passed
  <2>2. event'[f] = event[f] /\ IsCancel(f) /\ Passed(f) /\ event[f].order \in Orders
    BY <1>1, <1>2, <1>3, <2>1 DEF IsCancel, Happened, Passed, SyncInv, CallShape
  <2>3. Excused(event[f].order) \/ Dead(row, event[f].order, event[f].at)
    BY <2>2 DEF GoneInv, CancelsGone
  <2> QED BY <1>2, <1>6, <2>2, <2>3 DEF Excused, Dead, Version
<1> QED BY <1>1, <1>9, <1>12, <1>13, <1>14 DEF GoneInv

\* The row stays, at most one call moves on, and no cancellation passes its clear.
LEMMA GoneAside ==
  ASSUME GoneInv, SyncInv', SameActions, row' = row,
         \A s \in Syncers : syncer'[s] = syncer[s] \/ (syncer'[s] \in Calls /\ CallOf(syncer[s])'),
         \A e \in Events : IsCancel(e) /\ Passed(e)' => Passed(e)
  PROVE  GoneInv'
<1>1. SyncInv /\ CancelLast /\ CallsOf /\ RowFromEvents /\ CancelsGone
  BY DEF GoneInv
<1>2. CancelLast'
  BY <1>1, CancelLastKept
<1>3. CallsOf'
  <2> SUFFICES ASSUME NEW s \in Syncers, syncer'[s] = syncer[s] PROVE CallOf(syncer[s])'
    BY DEF CallsOf
  <2>1. PICK c : c = syncer[s]
    OBVIOUS
  <2>2. c \in Calls /\ CallOf(c) /\ (c.pc = "write" => c.op = "reset" \/ c.order \in Orders)
        /\ (c.e # 0 => c.e \in Events)
    BY <1>1, <2>1 DEF CallsOf, SyncInv, SyncTypes, CallShape, At, Happened
  <2>3. c.e # 0 => /\ event'[c.e].order = event[c.e].order /\ event'[c.e].at = event[c.e].at
                   /\ IsCancel(c.e)' <=> IsCancel(c.e)
    BY <2>2, StillSo DEF SameActions
  <2>4. CallOf(c)'
    BY <2>2, <2>3, StillSo, CallStill
  <2> QED BY <2>1, <2>4, CallHere
<1>4. RowFromEvents'
  BY <1>1, StillSo DEF RowFromEvents
<1>5. CancelsGone'
  <2> SUFFICES ASSUME NEW f \in Events, IsCancel(f)', Passed(f)'
               PROVE  Excused(event[f].order)' \/ Dead(row, event[f].order, event[f].at)'
    BY DEF CancelsGone
  <2>1. IsCancel(f) /\ Passed(f) /\ event[f].order \in Orders
        /\ event'[f].order = event[f].order /\ event'[f].at = event[f].at
    BY <1>1, StillSo DEF SameActions, IsCancel, SyncInv, CallShape
  <2>2. Excused(event[f].order) \/ Dead(row, event[f].order, event[f].at)
    BY <1>1, <2>1 DEF CancelsGone
  <2> QED BY <2>1, <2>2, StillSo DEF Excused, Dead, Version
<1> QED BY <1>2, <1>3, <1>4, <1>5 DEF GoneInv

LEMMA IdleCall == CallOf(NoCall) /\ CallOf(NoCall)'
  BY DEF CallOf, NoCall

\* Steps without a call.
LEMMA GoneRecord == ASSUME GoneInv, NEW e \in Events, Record(e) PROVE GoneInv'
<1>1. SyncInv /\ SyncInv' /\ UNCHANGED <<row, syncer, order, upset>> /\ event' = [event EXCEPT ![e].st = "succeeded"]
  BY TypeRecord DEF Record, GoneInv, provider
<1>2. /\ SameActions
      /\ \A f \in Events : event'[f].st = event[f].st \/ event'[f].st = "succeeded"
  BY <1>1 DEF Record, SameActions, SyncInv, SyncTypes, Actions
<1> QED BY <1>1, <1>2, GoneAside DEF Passed

LEMMA GoneQuiet ==
  ASSUME GoneInv, SyncInv', UNCHANGED <<row, syncer, event>>,
         \A o \in Orders : upset[o] \subseteq upset'[o],
         \A o \in Orders : order[o].st = "ended" => order'[o].st = "ended"
  PROVE  GoneInv'
<1>1. SameActions
  BY DEF SameActions
<1> QED BY <1>1, GoneAside DEF Passed

LEMMA GoneProvider ==
  ASSUME GoneInv, NEW o \in Orders, ListCatchesUp(o) \/ EndedOutside(o)
  PROVE  GoneInv'
<1>1. SyncInv /\ SyncInv' /\ UNCHANGED <<event, row, syncer>>
  BY TypeProvider DEF GoneInv, ListCatchesUp, EndedOutside
<1>2. /\ \A p \in Orders : upset[p] \subseteq upset'[p]
      /\ \A p \in Orders : order[p].st = "ended" => order'[p].st = "ended"
  <2>1. CASE ListCatchesUp(o)
    BY <2>1 DEF ListCatchesUp
  <2>2. CASE EndedOutside(o)
    BY <1>1, <2>2 DEF EndedOutside, Upset, SyncInv, SyncTypes, WorkOrders
  <2> QED BY <2>1, <2>2
<1> QED BY <1>1, <1>2, GoneQuiet

\* One call moves on, and the actions stay.
LEMMA GoneMoves ==
  ASSUME GoneInv, SyncInv', NEW s \in Syncers, NEW c \in Calls, CallOf(c)',
         syncer' = [syncer EXCEPT ![s] = c], UNCHANGED <<row, event>>,
         \A o \in Orders : upset[o] \subseteq upset'[o],
         \A o \in Orders : order[o].st = "ended" => order'[o].st = "ended",
         c.pc \notin {"uncache", "read"} \/ c.e \notin Events \/ event[c.e].kind # "cancel" \/ Passed(c.e)
  PROVE  GoneInv'
<1>1. SameActions
  BY DEF SameActions
<1>2. syncer'[s] = c /\ \A z \in Syncers : z # s => syncer'[z] = syncer[z]
  BY DEF GoneInv, SyncInv, SyncTypes
<1>3. CallOf(syncer[s])'
  BY <1>2, CallHere
<1>4. ASSUME NEW e \in Events, IsCancel(e), Passed(e)' PROVE Passed(e)
  BY <1>2, <1>4 DEF Passed, IsCancel
<1> QED BY <1>1, <1>2, <1>3, <1>4, GoneAside

LEMMA GoneBeginSync ==
  ASSUME GoneInv, NEW s \in Syncers, NEW e \in Events, BeginSync(s, e)
  PROVE  GoneInv'
<1> DEFINE c == [NoCall EXCEPT !.e = e, !.op = "clear", !.order = event[e].order, !.at = event[e].at,
                               !.pc = Opening(e), !.then = "read"]
<1>1. SyncInv /\ SyncInv'
  BY TypeBeginSync DEF GoneInv
<1>2. syncer' = [syncer EXCEPT ![s] = c] /\ UNCHANGED <<event, order, row, upset>>
  BY DEF BeginSync, provider
<1>3. /\ c.e = e /\ c.op = "clear" /\ c.order = event[e].order /\ c.at = event[e].at
      /\ c.pc = IF event[e].kind = "cancel" THEN "write" ELSE "read"
  BY DEF NoCall, Opening
<1>4. c \in Calls
  <2>1. syncer'[s] = c /\ syncer' \in [Syncers -> Calls]
    BY <1>1, <1>2 DEF SyncInv, SyncTypes
  <2> QED BY <2>1
<1> HIDE DEF c
<1>5. PICK d : d = c
  OBVIOUS
<1>6. CallOf(d)'
  BY <1>2, <1>3, <1>5 DEF CallOf
<1> QED BY <1>1, <1>2, <1>3, <1>4, <1>5, <1>6, GoneMoves

LEMMA GoneSynced ==
  ASSUME GoneInv, NEW s \in Syncers, Synced(s), syncer[s].pc \in {"uncache", "read"},
         UNCHANGED <<order, shown, row, upset>>
  PROVE  GoneInv'
<1> DEFINE e == syncer[s].e
<1>1. SyncInv /\ SyncInv'
  BY TypeSynced DEF GoneInv
<1>2. e # 0 => e \in Events /\ Happened(e)
  BY <1>1 DEF SyncInv, CallShape, Happened
<1>3. event' = (IF e = 0 THEN event ELSE [event EXCEPT ![e].st = "synced"]) /\ syncer' = [syncer EXCEPT ![s] = NoCall]
  BY DEF Synced
<1>4. SameActions
  BY <1>1, <1>2, <1>3 DEF SameActions, SyncInv, SyncTypes, Actions, Happened
<1>5. \A f \in Events : event'[f].st = event[f].st \/ f = e
  BY <1>1, <1>3 DEF SyncInv, SyncTypes
<1>6. \A z \in Syncers : syncer'[z] = syncer[z] \/ syncer'[z] = NoCall
  BY <1>1, <1>3 DEF SyncInv, SyncTypes
<1>7. ASSUME NEW f \in Events, Passed(f)' PROVE Passed(f)
  BY <1>5, <1>6, <1>7, NoCallFacts DEF Passed
<1> QED BY <1>1, <1>4, <1>6, <1>7, IdleCall, NoCallFacts, GoneAside

LEMMA GoneFetch ==
  ASSUME GoneInv, NEW s \in Syncers, FetchSignupWorkOrders(s)
  PROVE  GoneInv'
<1> DEFINE e == syncer[s].e
           o == event[e].order
           c == [syncer[s] EXCEPT !.pc = "write", !.order = o, !.at = event[e].at, !.seen = shown[o].visit,
                   !.then = "synced", !.op = IF shown[o].st = "active" THEN "set" ELSE "clear"]
<1>1. SyncInv /\ SyncInv'
  BY TypeFetch DEF GoneInv
<1>2. /\ e \in Events /\ Happened(e) /\ o \in Orders /\ syncer[s] \in Calls /\ syncer[s].pc = "read"
      /\ UNCHANGED <<order, shown, row>>
  BY <1>1 DEF FetchSignupWorkOrders, SyncInv, SyncTypes, CallShape, Happened, At, provider
<1>3. CASE syncer' = [syncer EXCEPT ![s] = NoCall] /\ UNCHANGED <<event, upset>>
  BY <1>1, <1>2, <1>3, IdleCall, NoCallFacts, GoneMoves
<1>4. CASE Synced(s) /\ UNCHANGED upset
  BY <1>2, <1>4, GoneSynced
<1>5. CASE /\ syncer' = [syncer EXCEPT ![s] = c] /\ UNCHANGED event /\ event[e].kind # "cancel"
           /\ IF shown[o] = order[o] THEN UNCHANGED upset ELSE Upset(o, "lag")
  <2>1. c.e = e /\ c.pc = "write" /\ c.order = o /\ c.at = event[e].at /\ c.op # "reset"
    BY <1>2 DEF Calls
  <2>2. c \in Calls
    <3>1. syncer'[s] = c /\ syncer' \in [Syncers -> Calls]
      BY <1>1, <1>5 DEF SyncInv, SyncTypes
    <3> QED BY <3>1
  <2>3. \A p \in Orders : upset[p] \subseteq upset'[p]
    BY <1>1, <1>5 DEF Upset, SyncInv, SyncTypes
  <2> HIDE DEF c
  <2>4. PICK d : d = c
    OBVIOUS
  <2>5. FromEvent(d.order, d.at)
    BY <1>2, <2>1, <2>4 DEF FromEvent, Of, Happened
  <2>6. FromEvent(d.order, d.at)'
    BY <1>5, <2>5 DEF FromEvent, Of
  <2>7. CallOf(d)'
    BY <1>5, <2>1, <2>4, <2>6 DEF CallOf, IsCancel
  <2> QED BY <1>1, <1>2, <1>5, <2>1, <2>2, <2>3, <2>4, <2>7, GoneMoves
<1> QED BY <1>3, <1>4, <1>5 DEF FetchSignupWorkOrders

LEMMA GoneDeleteCache ==
  ASSUME GoneInv, NEW s \in Syncers, DeleteCache(s)
  PROVE  GoneInv'
<1>1. SyncInv /\ SyncInv' /\ UNCHANGED <<order, shown, row, upset>> /\ syncer[s].pc = "uncache"
  BY TypeDeleteCache DEF GoneInv, DeleteCache, provider, At
<1>2. CASE Synced(s)
  BY <1>1, <1>2, GoneSynced
<1>3. CASE syncer' = [syncer EXCEPT ![s].pc = "read"] /\ UNCHANGED event
  <2> DEFINE c == [syncer[s] EXCEPT !.pc = "read"]
  <2>1. syncer[s] \in Calls
    BY <1>1 DEF SyncInv, SyncTypes
  <2>2. c \in Calls /\ c.pc = "read" /\ c.e = syncer[s].e /\ syncer' = [syncer EXCEPT ![s] = c]
    BY <1>3, <2>1 DEF Calls
  <2> HIDE DEF c
  <2>3. PICK d : d = c
    OBVIOUS
  <2>4. CallOf(d)'
    BY <2>2, <2>3 DEF CallOf
  <2>5. Passed(c.e)
    BY <1>1, <2>2 DEF Passed
  <2> QED BY <1>1, <1>3, <2>2, <2>3, <2>4, <2>5, GoneMoves
<1> QED BY <1>2, <1>3 DEF DeleteCache

LEMMA GoneBreakOff == ASSUME GoneInv, NEW s \in Syncers, BreakOff(s) PROVE GoneInv'
<1>1. SyncInv' /\ syncer' = [syncer EXCEPT ![s] = NoCall] /\ UNCHANGED <<event, order, row, upset>>
  BY TypeBreakOff DEF GoneInv, BreakOff, provider
<1> QED BY <1>1, IdleCall, NoCallFacts, GoneMoves

LEMMA GoneNow ==
  ASSUME GoneInv, SyncInv', NEW s \in Syncers, NEW o \in Orders \cup {0}, NEW op \in {"set", "reset"},
         NEW seen \in Nat, Now(s, o, op, seen), UNCHANGED <<event, order, shown, row>>,
         \A p \in Orders : upset[p] \subseteq upset'[p], op = "set" => Excused(o)'
  PROVE  GoneInv'
<1> DEFINE c == [pc |-> "write", e |-> 0, op |-> op, order |-> o, at |-> clock', seen |-> seen, then |-> "synced"]
<1>1. SyncInv /\ syncer' = [syncer EXCEPT ![s] = c]
  BY DEF Now, GoneInv
<1>2. c \in Calls
  <2>1. syncer'[s] = c /\ syncer' \in [Syncers -> Calls]
    BY <1>1 DEF SyncInv, SyncTypes
  <2> QED BY <2>1
<1>3. c.e = 0 /\ c.pc = "write" /\ c.op = op /\ c.order = o
  OBVIOUS
<1> HIDE DEF c
<1>4. PICK d : d = c
  OBVIOUS
<1>5. CallOf(d)'
  BY <1>3, <1>4 DEF CallOf, Excused
<1> QED BY <1>1, <1>2, <1>3, <1>4, <1>5, GoneMoves

LEMMA GoneRelink == ASSUME GoneInv, NEW s \in Syncers, NEW o \in Orders, Relink(s, o) PROVE GoneInv'
<1>1. /\ SyncInv /\ SyncInv' /\ Now(s, o, "set", shown[o].visit) /\ UNCHANGED <<event, order, shown, row>>
      /\ upset' = [upset EXCEPT ![o] = @ \cup {"relink"}]
  BY TypeRelink DEF Relink, Upset, provider, GoneInv
<1>2. shown[o].visit \in Nat /\ (\A p \in Orders : upset[p] \subseteq upset'[p]) /\ "relink" \in upset'[o]
  BY <1>1 DEF SyncInv, SyncTypes, WorkOrders
<1>3. Excused(o)'
  BY <1>2 DEF Excused
<1> QED BY <1>1, <1>2, <1>3, GoneNow

LEMMA GoneReset == ASSUME GoneInv, NEW s \in Syncers, Reset(s) PROVE GoneInv'
<1>1. /\ SyncInv' /\ Now(s, 0, "reset", 0) /\ UNCHANGED <<event, order, shown, row>>
      /\ \A p \in Orders : upset[p] \subseteq upset'[p]
  BY TypeReset DEF Reset, provider, GoneInv
<1> QED BY <1>1, GoneNow

\* The projection is written.  The clear of a cancellation leaves its order dead: if it is carried
\* out by its own version, and if it is superseded because a listed order would have a later input.
LEMMA GoneApply ==
  ASSUME GoneInv, NEW s \in Syncers, ApplyBookingProjection(s)
  PROVE  GoneInv'
<1> DEFINE c == syncer[s]
           o == c.order
           late == Superseded(row, c.op, c.order, c.at, Newer(c.order, c.at))
<1>1. /\ SyncInv /\ SyncInv' /\ RowOK(row) /\ CancelLast /\ CallsOf /\ RowFromEvents /\ CancelsGone
      /\ c \in Calls /\ CallOf(c) /\ c.pc = "write" /\ UNCHANGED <<event, order>>
      /\ c.op # "reset" => c.order \in Orders /\ c.at \in Moments
  BY TypeApply DEF GoneInv, SyncInv, SyncTypes, CallsOf, ApplyBookingProjection, At, provider
<1>2. /\ c.op \in {"set", "clear", "reset"}
      /\ c.op # "set" => Clears(row, row')
      /\ c.op = "set" => Follows(row, row', o, c.at)
      /\ c.op # "reset" => row' = Apply(row, c.op, o, c.at, c.seen, Newer(o, c.at))
  BY <1>1, TypeApply DEF Calls
<1>3. SameActions
  BY <1>1 DEF SameActions, ApplyBookingProjection, SyncInv, SyncTypes
<1>4. /\ syncer'[s].pc = "uncache" /\ syncer'[s].e = c.e
      /\ \A z \in Syncers : z # s => syncer'[z] = syncer[z]
  BY <1>1 DEF ApplyBookingProjection, SyncInv, SyncTypes, NoCall
<1>5. CancelLast'
  BY <1>1, <1>3, CancelLastKept
<1>6. CallsOf'
  <2> SUFFICES ASSUME NEW z \in Syncers PROVE CallOf(syncer[z])'
    BY DEF CallsOf
  <2>1. CASE z = s
    BY <1>4, <2>1 DEF CallOf
  <2>2. CASE z # s
    <3>1. PICK d : d = syncer[z]
      OBVIOUS
    <3>2. d \in Calls /\ CallOf(d) /\ (d.pc = "write" => d.op = "reset" \/ d.order \in Orders)
          /\ (d.e # 0 => d.e \in Events)
      BY <1>1, <3>1 DEF CallsOf, SyncInv, SyncTypes, CallShape, At, Happened
    <3>3. CallOf(d)'
      BY <1>3, <3>2, StillSo, CallStill DEF SameActions
    <3> QED BY <1>4, <2>2, <3>1, <3>3, CallHere
  <2> QED BY <2>1, <2>2
<1>7. c.op = "set" => Excused(o) \/ FromEvent(o, c.at)
  BY <1>1 DEF CallOf
<1>8. RowFromEvents'
  <2> SUFFICES ASSUME NEW p \in Orders, row'.linked[p] # 0
               PROVE  Excused(p)' \/ FromEvent(p, row.linked[p])'
    BY DEF RowFromEvents
  <2>1. PICK u : u = row'.linked[p]
    OBVIOUS
  <2>2. Excused(p) \/ FromEvent(p, u)
    <3>1. CASE u = row.linked[p]
      BY <1>1, <2>1, <3>1 DEF RowFromEvents
    <3>2. CASE u # row.linked[p]
      BY <1>2, <1>7, <2>1, <3>2 DEF Clears, Follows
    <3> QED BY <3>1, <3>2
  <2>3. Excused(p)' \/ FromEvent(p, u)'
    BY <1>3, <2>2, StillSo
  <2> QED BY <2>1, <2>3 DEF FromEvent, Of
<1>9. CancelsGone'
  <2> SUFFICES ASSUME NEW f \in Events, IsCancel(f)', Passed(f)'
               PROVE  Excused(event[f].order)' \/ Dead(row, event[f].order, event[f].at)'
    BY DEF CancelsGone
  <2> DEFINE p == event[f].order
             T == event[f].at
  <2>1. /\ IsCancel(f) /\ p \in Orders /\ event'[f].order = p /\ event'[f].at = T /\ T \in Nat
    BY <1>1, <1>3, StillSo, MomentsNat DEF IsCancel, SyncInv, SyncTypes, CallShape, Actions
  <2>2. CASE Excused(p)
    BY <1>3, <2>1, <2>2, StillSo DEF Excused
  <2>3. CASE ~Excused(p)
    <3>1. \A g \in Of(p) : event[g].at <= T
      BY <1>1, <2>1, <2>3 DEF CancelLast
    <3>2. CASE Passed(f)
      <4>1. Dead(row, p, T)
        BY <1>1, <2>1, <2>3, <3>2 DEF CancelsGone
      <4>2. Dead(row', p, T)
        <5>1. CASE c.op # "set"
          BY <1>2, <2>1, <4>1, <5>1 DEF Clears
        <5>2. CASE c.op = "set"
          <6>1. p = o => c.at <= T
            BY <1>7, <2>3, <3>1, <5>2 DEF FromEvent
          <6> QED BY <1>2, <2>1, <4>1, <5>2, <6>1 DEF Follows
        <5> QED BY <5>1, <5>2
      <4> QED BY <2>1, <4>2 DEF Dead, Version
    <3>3. CASE ~Passed(f)
      <4>1. c.e = f
        BY <1>1, <1>4, <3>3 DEF Passed
      <4>2. c.op = "clear" /\ o = p /\ c.at = T /\ c.at \in Moments
        BY <1>1, <2>1, <4>1, NoCallFacts DEF CallOf
      <4>3. CASE ~late
        <5>1. c.seen \in Nat /\ Newer(o, c.at) \in BOOLEAN
          BY <1>1 DEF Calls, Newer
        <5>2. Dead(row', p, T)
          BY <1>1, <1>2, <2>1, <4>2, <4>3, <5>1, ApplyClear
        <5> QED BY <2>1, <5>2 DEF Dead, Version
      <4>4. CASE late
        <5>1. row' = row
          BY <1>2, <4>2, <4>4 DEF Apply
        <5>2. ~Newer(o, c.at)
          <6>1. \A g \in Of(p) : event[g].at \in Nat
            BY <1>1, MomentsNat DEF Of, SyncInv, SyncTypes, Actions
          <6> QED BY <2>1, <3>1, <4>2, <6>1 DEF Newer
        <5>3. T < Version(row, p) \/ T = row.reset
          BY <4>2, <4>4, <5>2 DEF Superseded
        <5>4. row.linked[p] # 0 => row.linked[p] <= T
          BY <1>1, <2>1, <2>3, <3>1 DEF RowFromEvents, FromEvent
        <5>5. /\ row.reset \in Nat /\ row.at[p] \in Nat /\ row.linked[p] \in Nat
              /\ row.linked[p] = 0 \/ (row.linked[p] = row.at[p] /\ row.linked[p] > row.reset)
              /\ Version(row, p) \in Nat /\ row.reset <= Version(row, p)
          BY <1>1, <2>1, RowFields DEF RowOK
        <5>6. Version(row, p) = IF row.at[p] > row.reset THEN row.at[p] ELSE row.reset
          BY <1>1, <2>1, VersionIs DEF Greatest
        <5>7. row.linked[p] = 0
          BY <2>1, <5>3, <5>4, <5>5, <5>6
        <5>8. Dead(row, p, T)
          BY <2>1, <5>3, <5>5, <5>7 DEF Dead
        <5> QED BY <2>1, <5>1, <5>8 DEF Dead, Version
      <4> QED BY <4>3, <4>4
    <3> QED BY <3>2, <3>3
  <2> QED BY <2>2, <2>3
<1> QED BY <1>1, <1>5, <1>6, <1>8, <1>9 DEF GoneInv

LEMMA GoneStep == GoneInv /\ [BookingNext]_bookingVars => GoneInv'
<1> SUFFICES ASSUME GoneInv, [BookingNext]_bookingVars PROVE GoneInv'
  OBVIOUS
<1>1. ASSUME Quiet PROVE GoneInv'
  <2>1. SyncInv'
    BY <1>1, NothingElse DEF Quiet, GoneInv
  <2> QED BY <1>1, <2>1, GoneQuiet DEF Quiet
<1> QED BY <1>1, GoneCarryOut, GoneRecord, GoneProvider, GoneBeginSync, GoneFetch, GoneApply,
           GoneDeleteCache, GoneBreakOff, GoneRelink, GoneReset, ReadersQuiet DEF BookingNext

\* CancelledStaysGone for any orders, actions, syncers and input times: after a cancellation is
\* projected, no repeated or late projection of ToolActionService.sync lists its order again.
THEOREM CancelledStaysGoneHolds == BookingSpec => []CancelledStaysGone
<1>1. GoneInv => CancelledStaysGone
  BY DEF GoneInv, CancelsGone, CancelledStaysGone, IsCancel, Happened, Passed, Dead, Excused
<1> QED BY <1>1, GoneInitially, GoneStep, PTL DEF BookingSpec

-----------------------------------------------------------------------------
(* The limit of the list. *)

Ahead(r, o) == {p \in Listed(r) : Before(r, p, o)}

\* The limit has been applied.
Fits(r) == \A o \in Listed(r) : Cardinality(Ahead(r, o)) < MaxListed

LEMMA FewerAhead ==
  ASSUME NEW r, NEW w, \A p \in Orders : w.linked[p] \in {0, r.linked[p]}, NEW o \in Listed(w)
  PROVE  /\ o \in Listed(r)
         /\ Cardinality(Ahead(w, o)) \in Nat /\ Cardinality(Ahead(r, o)) \in Nat
         /\ Cardinality(Ahead(w, o)) <= Cardinality(Ahead(r, o))
<1>1. Listed(r) \subseteq Orders /\ Listed(w) \subseteq Listed(r) /\ \A p \in Listed(w) : w.linked[p] = r.linked[p]
  BY DEF Listed
<1>2. Ahead(w, o) \subseteq Ahead(r, o) /\ Ahead(r, o) \subseteq Orders
  BY <1>1 DEF Ahead, Before
<1>3. IsFiniteSet(Ahead(r, o))
  BY <1>2, FS_Subset, BookingAssumption DEF BookingAssumption
<1>4. IsFiniteSet(Ahead(w, o)) /\ Cardinality(Ahead(w, o)) <= Cardinality(Ahead(r, o))
  BY <1>2, <1>3, FS_Subset
<1> QED BY <1>1, <1>3, <1>4, FS_CardinalityType

LEMMA FewerFit ==
  ASSUME NEW r, NEW w, Fits(r), \A p \in Orders : w.linked[p] \in {0, r.linked[p]}
  PROVE  Fits(w)
<1> SUFFICES ASSUME NEW o \in Listed(w) PROVE Cardinality(Ahead(w, o)) < MaxListed
  BY DEF Fits
<1>1. /\ o \in Listed(r) /\ Cardinality(Ahead(w, o)) \in Nat /\ Cardinality(Ahead(r, o)) \in Nat
      /\ Cardinality(Ahead(w, o)) <= Cardinality(Ahead(r, o))
  BY FewerAhead
<1>2. Cardinality(Ahead(r, o)) < MaxListed
  BY <1>1 DEF Fits
<1> QED BY <1>1, <1>2, BookingAssumption DEF BookingAssumption

\* Applying the limit makes the row fit, and changes nothing in a row that fits.
LEMMA CapFits ==
  ASSUME NEW r \in Rows
  PROVE  /\ Fits(Capped(r)) /\ Capped(r).seen = r.seen
         /\ Fits(r) => Capped(r).linked = r.linked
<1> DEFINE L == [o \in Orders |-> IF Cardinality(Ahead(r, o)) < MaxListed THEN r.linked[o] ELSE 0]
           q == Capped(r)
<1>1. q = [r EXCEPT !.linked = L]
  BY DEF Capped, Ahead
<1>2. q.linked = L /\ q.seen = r.seen /\ r.linked \in [Orders -> Moments]
  BY <1>1 DEF Rows
<1> HIDE DEF q
<1>3. \A p \in Orders : q.linked[p] \in {0, r.linked[p]}
  BY <1>2
<1>4. Fits(q)
  <2> SUFFICES ASSUME NEW o \in Listed(q) PROVE Cardinality(Ahead(q, o)) < MaxListed
    BY DEF Fits
  <2>1. o \in Orders /\ q.linked[o] # 0
    BY DEF Listed
  <2>2. Cardinality(Ahead(r, o)) < MaxListed
    BY <1>2, <2>1
  <2> QED BY <1>3, <2>2, FewerAhead, BookingAssumption DEF BookingAssumption
<1>5. ASSUME Fits(r) PROVE q.linked = r.linked
  <2>1. ASSUME NEW o \in Orders PROVE L[o] = r.linked[o]
    BY <1>5 DEF Fits, Listed
  <2> HIDE DEF L
  <2>2. L \in [Orders -> Moments]
    BY <1>2, MomentsNat DEF L
  <2> QED BY <1>2, <2>1, <2>2
<1> QED BY <1>2, <1>4, <1>5 DEF q

LEMMA SetWrites ==
  ASSUME NEW r, RowOK(r), NEW o \in Orders, NEW t \in Moments, NEW seen \in Nat, NEW op \in {"set", "clear"}
  PROVE  LET w == [r EXCEPT !.at[o] = t, !.deleted[o] = (op = "clear"),
                            !.linked[o] = IF op = "set" THEN t ELSE 0,
                            !.seen[o] = IF op = "set" THEN seen ELSE @]
         IN  /\ w \in Rows /\ w.seen[o] = (IF op = "set" THEN seen ELSE r.seen[o])
             /\ \A p \in Orders : p # o => w.seen[p] = r.seen[p] /\ w.linked[p] = r.linked[p]
             /\ w.linked[o] = (IF op = "set" THEN t ELSE 0)
             /\ op = "clear" => w.seen = r.seen
  BY MomentsNat DEF RowOK, Rows

LEMMA ApplyFits ==
  ASSUME NEW r, RowOK(r), Fits(r), NEW o \in Orders, NEW t \in Moments, NEW seen \in Nat,
         NEW op \in {"set", "clear"}, NEW newer
  PROVE  Fits(Apply(r, op, o, t, seen, newer))
  BY SetWrites, CapFits DEF Apply, AfterOne

LEMMA ResetFits ==
  ASSUME NEW r, RowOK(r), Fits(r), NEW t \in Moments
  PROVE  Fits(ApplyReset(r, t))
<1> DEFINE w == [r EXCEPT
         !.at = [o \in Orders |-> IF o \in Cleared(r, t) THEN t ELSE r.at[o]],
         !.deleted = [o \in Orders |-> r.deleted[o] \/ o \in Cleared(r, t)],
         !.linked = [o \in Orders |-> IF o \in Cleared(r, t) THEN 0 ELSE r.linked[o]],
         !.reset = t]
<1>1. w \in Rows
  BY MomentsNat DEF RowOK, Rows
<1>2. ApplyReset(r, t) = r \/ ApplyReset(r, t) = Capped(w)
  BY DEF ApplyReset
<1> HIDE DEF w
<1> QED BY <1>1, <1>2, CapFits

\* Clearing an order that is not listed leaves the list alone.
LEMMA ClearUnlisted ==
  ASSUME NEW r, RowOK(r), Fits(r), NEW o \in Orders, NEW t \in Moments, NEW seen \in Nat, NEW newer,
         r.linked[o] = 0 \/ Version(r, o) > t
  PROVE  LET q == Apply(r, "clear", o, t, seen, newer)
         IN  q.linked = r.linked /\ q.seen = r.seen
<1> DEFINE w == [r EXCEPT !.at[o] = t, !.deleted[o] = ("clear" = "clear"),
                          !.linked[o] = IF "clear" = "set" THEN t ELSE 0,
                          !.seen[o] = IF "clear" = "set" THEN seen ELSE @]
           q == Apply(r, "clear", o, t, seen, newer)
<1>1. CASE Superseded(r, "clear", o, t, newer)
  BY <1>1 DEF Apply
<1>2. CASE ~Superseded(r, "clear", o, t, newer)
  <2>1. q = Capped(w)
    BY <1>2 DEF Apply, AfterOne
  <2>2. r.linked[o] = 0
    <3>1. ~(t < Version(r, o)) /\ t \in Nat /\ Version(r, o) \in Nat
      BY <1>2, RowFields, MomentsNat DEF Superseded, RowOK
    <3> QED BY <3>1
  <2>3. /\ w \in Rows /\ w.seen = r.seen /\ w.linked[o] = 0
        /\ \A p \in Orders : p # o => w.linked[p] = r.linked[p]
    BY MomentsNat DEF RowOK, Rows
  <2> HIDE DEF w
  <2>4. w.linked = r.linked
    BY <2>2, <2>3 DEF RowOK, Rows
  <2>5. Fits(w)
    BY <2>4, FewerFit
  <2> QED BY <2>1, <2>3, <2>4, <2>5, CapFits
<1> QED BY <1>1, <1>2

\* A clear of order o with time T changes nothing in the list any more.
Spent(r, o, T) == Version(r, o) > T \/ Dead(r, o, T)

LEMMA SpentUnlisted ==
  ASSUME NEW r, NEW o, NEW T, Spent(r, o, T)
  PROVE  r.linked[o] = 0 \/ Version(r, o) > T
  BY DEF Spent, Dead

LEMMA ClearsSpend ==
  ASSUME NEW r, NEW q, RowOK(r), Clears(r, q), NEW o \in Orders, NEW T \in Nat, Spent(r, o, T)
  PROVE  Spent(q, o, T)
<1>1. Version(r, o) \in Nat /\ Version(q, o) \in Nat /\ Version(q, o) >= Version(r, o)
  BY RowFields DEF Clears, RowOK
<1> QED BY <1>1 DEF Spent, Clears

LEMMA SetSpends ==
  ASSUME NEW r, RowOK(r), NEW o \in Orders, NEW t \in Moments, NEW seen \in Nat, NEW newer \in BOOLEAN,
         NEW p \in Orders, NEW T \in Nat, Spent(r, p, T)
  PROVE  Spent(Apply(r, "set", o, t, seen, newer), p, T)
<1> DEFINE q == Apply(r, "set", o, t, seen, newer)
<1>1. Follows(r, q, o, t)
  BY ApplySet
<1>2. Version(r, p) \in Nat /\ Version(q, p) \in Nat /\ Version(q, p) >= Version(r, p) /\ t \in Nat /\ RowOK(q)
  BY <1>1, RowFields, MomentsNat DEF Follows, RowOK
<1>3. q = r \/ q.at[o] = t
  <2>1. CASE Superseded(r, "set", o, t, newer) \/ t = Version(r, o)
    BY <2>1 DEF Apply, AfterOne
  <2>2. CASE ~Superseded(r, "set", o, t, newer) /\ t # Version(r, o)
    <3>1. q = AfterOne(r, "set", o, t, seen)
      BY <2>2 DEF Apply
    <3>2. AfterOne(r, "set", o, t, seen).at[o] = t
      BY <2>2, OneWritten
    <3> QED BY <3>1, <3>2
  <2> QED BY <2>1, <2>2
<1>4. q = r \/ Version(q, o) >= t
  <2>1. Version(q, o) >= q.at[o]
    BY <1>2, RowFields DEF RowOK
  <2> QED BY <1>3, <2>1
<1> HIDE DEF q
<1>5. ASSUME Version(r, p) > T PROVE Spent(q, p, T)
  BY <1>2, <1>5 DEF Spent
<1>6. ASSUME Dead(r, p, T), p = o => t <= T PROVE Spent(q, p, T)
  BY <1>1, <1>6 DEF Spent, Follows
<1>7. ASSUME p = o, t > T PROVE Spent(q, p, T)
  BY <1>2, <1>4, <1>7 DEF Spent
<1>8. Spent(q, p, T)
  BY <1>2, <1>5, <1>6, <1>7 DEF Spent
<1> QED BY <1>8 DEF q

-----------------------------------------------------------------------------
(* The cache. *)

Recorders == \A s \in Syncers : syncer[s].e # 0 => Recorded(syncer[s].e)

\* The clear of a cancellation was carried out, and its call goes on.
Cleaned(s) == (At(s, "read") \/ (At(s, "uncache") /\ syncer[s].then = "read")) /\ IsCancel(syncer[s].e)
ClearsSpent == \A s \in Syncers : Cleaned(s) => Spent(row, event[syncer[s].e].order, event[syncer[s].e].at)

\* Action e is not going to be finished without another deletion of the cache.
Unread(e) == IsCancel(e) => \A s \in Syncers : ~(At(s, "read") /\ syncer[s].e = e)
Deletes(s) == At(s, "uncache") /\ (Due(s) => Unread(syncer[s].e))
OldKnown ==
  cache = "old" =>
    \/ blurred
    \/ \E s \in Syncers : Deletes(s)
    \/ \E e \in Events : event[e].st = "succeeded" /\ Unread(e)

CacheInv == GoneInv /\ Fits(row) /\ Recorders /\ ClearsSpent /\ OldKnown

LEMMA CacheInitially == BookingInit => CacheInv
<1> SUFFICES ASSUME BookingInit PROVE CacheInv
  OBVIOUS
<1>1. GoneInv
  BY GoneInitially
<1>2. Fits(row)
  BY DEF BookingInit, EmptyRow, Fits, Listed
<1>3. \A s \in Syncers : syncer[s].pc = "idle" /\ syncer[s].e = 0
  BY DEF BookingInit, NoCall
<1>4. cache = "none"
  BY DEF BookingInit
<1> QED BY <1>1, <1>2, <1>3, <1>4 DEF CacheInv, Recorders, ClearsSpent, Cleaned, At, OldKnown

LEMMA FitsKept == ASSUME SyncInv, Fits(row), [BookingNext]_bookingVars PROVE Fits(row)'
<1> SUFFICES ASSUME NEW s \in Syncers, ApplyBookingProjection(s) PROVE Fits(row')
  BY RowWritten DEF Fits, Listed, Ahead, Before
<1> DEFINE c == syncer[s]
<1>1. RowOK(row) /\ c \in Calls
  BY DEF SyncInv, SyncTypes
<1>2. c.at \in Moments /\ c.seen \in Nat /\ c.op \in {"set", "clear", "reset"}
  BY <1>1 DEF Calls
<1>3. CASE c.op = "reset"
  BY <1>1, <1>2, <1>3, ResetFits DEF ApplyBookingProjection
<1>4. CASE c.op # "reset"
  <2>1. c.order \in Orders /\ row' = Apply(row, c.op, c.order, c.at, c.seen, Newer(c.order, c.at))
    BY <1>4, TypeApply
  <2>2. c.op \in {"set", "clear"}
    BY <1>2, <1>4
  <2> QED BY <1>1, <1>2, <2>1, <2>2, ApplyFits
<1> QED BY <1>3, <1>4

\* What a step does to the actions: one is carried out, recorded or marked as projected.
ActionsGo ==
  \A e \in Events : Happened(e) =>
    /\ event'[e].kind = event[e].kind /\ event'[e].order = event[e].order /\ event'[e].at = event[e].at
    /\ event'[e].st # "none" /\ (Recorded(e) => event'[e].st \in {"succeeded", "synced"})
    /\ event[e].st = "synced" => event'[e].st = "synced"

LEMMA ActionsMove == ASSUME SyncInv, [BookingNext]_bookingVars PROVE ActionsGo
<1>1. ASSUME UNCHANGED event PROVE ActionsGo
  BY <1>1 DEF ActionsGo, Happened, Recorded
<1>2. ASSUME NEW e \in Events, NEW kind \in {"booking", "modify", "cancel"}, NEW o \in Orders,
             NEW t \in Times, CarryOut(e, kind, o, t)
      PROVE  ActionsGo
  <2>1. event[e].st = "none" /\ \A f \in Events : f # e => event'[f] = event[f]
    BY <1>2 DEF CarryOut
  <2> QED BY <2>1 DEF ActionsGo, Happened, Recorded
<1>3. ASSUME NEW e \in Events, Record(e) PROVE ActionsGo
  BY <1>3 DEF Record, ActionsGo, Happened, Recorded, SyncInv, SyncTypes, Actions
<1>4. ASSUME NEW s \in Syncers, Synced(s) PROVE ActionsGo
  BY <1>4 DEF Synced, ActionsGo, Happened, Recorded, SyncInv, SyncTypes, Actions
<1> QED BY <1>1, <1>2, <1>3, <1>4 DEF BookingNext, bookingVars, BeginSync, ListCatchesUp, EndedOutside,
         Relink, Now, FetchSignupWorkOrders, ApplyBookingProjection, DeleteCache, BreakOff, Reset, ReadRow,
         FillCache, CacheExpires

\* What a step does to the calls.
CallsGo ==
  \A s \in Syncers :
    \/ syncer'[s] = syncer[s]
    \/ syncer'[s] = NoCall
    \/ \E e \in Events : BeginSync(s, e) /\ syncer'[s].e = e /\ syncer'[s].pc = Opening(e)
    \/ syncer'[s].e = 0 /\ syncer'[s].pc = "write"
    \/ At(s, "read") /\ syncer'[s].e = syncer[s].e /\ syncer'[s].pc = "write"
    \/ ApplyBookingProjection(s) /\ syncer'[s].e = syncer[s].e /\ syncer'[s].pc = "uncache"
    \/ DeleteCache(s) /\ syncer'[s].e = syncer[s].e /\ syncer'[s].pc = "read" /\ syncer[s].then = "read"

LEMMA CallsMove == ASSUME SyncInv, [BookingNext]_bookingVars PROVE CallsGo
<1>1. syncer \in [Syncers -> Calls]
  BY DEF SyncInv, SyncTypes
<1>2. ASSUME UNCHANGED syncer PROVE CallsGo
  BY <1>2 DEF CallsGo
<1>3. ASSUME NEW s \in Syncers, syncer' = [syncer EXCEPT ![s] = NoCall] PROVE CallsGo
  BY <1>1, <1>3 DEF CallsGo
<1>4. ASSUME NEW s \in Syncers, NEW e \in Events, BeginSync(s, e) PROVE CallsGo
  <2>1. syncer'[s].e = e /\ syncer'[s].pc = Opening(e) /\ \A z \in Syncers : z # s => syncer'[z] = syncer[z]
    BY <1>1, <1>4 DEF BeginSync, NoCall
  <2> QED BY <1>4, <2>1 DEF CallsGo
<1>5. ASSUME NEW s \in Syncers, FetchSignupWorkOrders(s) PROVE CallsGo
  <2>1. CASE syncer' = [syncer EXCEPT ![s] = NoCall]
    BY <1>3, <2>1
  <2>2. CASE syncer' # [syncer EXCEPT ![s] = NoCall]
    <3>1. /\ At(s, "read") /\ syncer'[s].e = syncer[s].e /\ syncer'[s].pc = "write"
          /\ \A z \in Syncers : z # s => syncer'[z] = syncer[z]
      <4> DEFINE o == event[syncer[s].e].order
                 c == [syncer[s] EXCEPT !.pc = "write", !.order = o, !.at = event[syncer[s].e].at,
                         !.seen = shown[o].visit, !.then = "synced",
                         !.op = IF shown[o].st = "active" THEN "set" ELSE "clear"]
      <4>1. At(s, "read") /\ syncer' = [syncer EXCEPT ![s] = c]
        BY <1>5, <2>2 DEF FetchSignupWorkOrders, Synced
      <4>2. c.e = syncer[s].e /\ c.pc = "write"
        BY <1>1 DEF Calls
      <4> HIDE DEF c
      <4> QED BY <1>1, <4>1, <4>2
    <3> QED BY <3>1 DEF CallsGo
  <2> QED BY <2>1, <2>2
<1>6. ASSUME NEW s \in Syncers, ApplyBookingProjection(s) PROVE CallsGo
  <2>1. /\ syncer'[s].e = syncer[s].e /\ syncer'[s].pc = "uncache"
        /\ \A z \in Syncers : z # s => syncer'[z] = syncer[z]
    BY <1>1, <1>6 DEF ApplyBookingProjection, NoCall
  <2> QED BY <1>6, <2>1 DEF CallsGo
<1>7. ASSUME NEW s \in Syncers, DeleteCache(s) PROVE CallsGo
  <2>1. CASE syncer' = [syncer EXCEPT ![s] = NoCall]
    BY <1>3, <2>1
  <2>2. CASE syncer' # [syncer EXCEPT ![s] = NoCall]
    <3>1. /\ syncer'[s].e = syncer[s].e /\ syncer'[s].pc = "read" /\ syncer[s].then = "read"
          /\ \A z \in Syncers : z # s => syncer'[z] = syncer[z]
      BY <1>1, <1>7, <2>2 DEF DeleteCache, Synced, Calls
    <3> QED BY <1>7, <3>1 DEF CallsGo
  <2> QED BY <2>1, <2>2
<1>8. ASSUME NEW s \in Syncers, NEW o, NEW op, NEW seen, Now(s, o, op, seen) PROVE CallsGo
  <2>1. /\ syncer'[s].e = 0 /\ syncer'[s].pc = "write"
        /\ \A z \in Syncers : z # s => syncer'[z] = syncer[z]
    BY <1>1, <1>8 DEF Now
  <2> QED BY <2>1 DEF CallsGo
<1>9. ASSUME NEW s \in Syncers, BreakOff(s) PROVE CallsGo
  BY <1>3, <1>9 DEF BreakOff
<1>10. ASSUME NEW s \in Syncers, (\E o \in Orders : Relink(s, o)) \/ Reset(s) PROVE CallsGo
  BY <1>8, <1>10 DEF Relink, Reset
<1> QED BY <1>2, <1>4, <1>5, <1>6, <1>7, <1>9, <1>10 DEF BookingNext, bookingVars, CarryOut, Record,
         ListCatchesUp, EndedOutside, ReadRow, FillCache, CacheExpires

LEMMA RecordersKept == ASSUME SyncInv, Recorders, [BookingNext]_bookingVars PROVE Recorders'
<1> SUFFICES ASSUME NEW s \in Syncers, syncer'[s].e # 0 PROVE Recorded(syncer[s].e)'
  BY DEF Recorders
<1>1. syncer[s].e # 0 => Happened(syncer[s].e) /\ Recorded(syncer[s].e)
  BY DEF Recorders, SyncInv, CallShape
<1>2. PICK e : e = syncer'[s].e
  OBVIOUS
<1>3. Happened(e) /\ Recorded(e)
  <2>1. syncer'[s].e = syncer[s].e \/ \E f \in Events : BeginSync(s, f) /\ syncer'[s].e = f
    BY CallsMove, NoCallFacts DEF CallsGo
  <2>2. \A f \in Events : BeginSync(s, f) => event[f].st = "succeeded"
    BY DEF BeginSync
  <2> QED BY <1>1, <1>2, <2>1, <2>2 DEF Happened, Recorded
<1>4. event'[e].st \in {"succeeded", "synced"}
  BY <1>3, ActionsMove DEF ActionsGo, Happened
<1> QED BY <1>2, <1>4 DEF Recorded

LEMMA ClearsSpentKept ==
  ASSUME GoneInv, Fits(row), ClearsSpent, [BookingNext]_bookingVars
  PROVE  ClearsSpent'
<1> SUFFICES ASSUME NEW s \in Syncers, Cleaned(s)'
             PROVE  Spent(row', event'[syncer'[s].e].order, event'[syncer'[s].e].at)
  BY DEF ClearsSpent, Spent, Dead, Version
<1>1. SyncInv /\ CallsOf /\ RowOK(row) /\ syncer[s] \in Calls
  BY DEF GoneInv, SyncInv, SyncTypes
<1>2. PICK e : e = syncer'[s].e
  OBVIOUS
<1>3. syncer[s].e = e /\ e \in Events /\ Happened(e) /\ e # 0
  <2>1. syncer'[s].pc \in {"read", "uncache"} /\ e \in Events /\ event'[e].kind = "cancel"
    BY <1>2 DEF Cleaned, At, IsCancel, Happened
  <2>2. ~(\E f \in Events : BeginSync(s, f) /\ syncer'[s].e = f /\ syncer'[s].pc = Opening(f))
    <3> SUFFICES ASSUME NEW f \in Events, BeginSync(s, f), syncer'[s].e = f, syncer'[s].pc = Opening(f)
                 PROVE  FALSE
      OBVIOUS
    <3>1. event'[f].kind = event[f].kind
      BY DEF BeginSync
    <3> QED BY <1>2, <2>1, <3>1 DEF Opening
  <2>3. syncer[s].e = e
    BY <1>1, <1>2, <2>1, <2>2, CallsMove, NoCallFacts DEF CallsGo
  <2> QED BY <1>1, <2>1, <2>3, NoCallFacts DEF SyncInv, CallShape
<1>4. /\ event'[e].order = event[e].order /\ event'[e].at = event[e].at /\ event'[e].kind = event[e].kind
      /\ IsCancel(e) /\ event[e].order \in Orders /\ event[e].at \in Nat
  <2>1. event'[e].order = event[e].order /\ event'[e].at = event[e].at /\ event'[e].kind = event[e].kind
    BY <1>1, <1>3, ActionsMove DEF ActionsGo
  <2>2. event[e].order \in Orders /\ event[e].at \in Nat
    BY <1>1, <1>3, MomentsNat DEF SyncInv, SyncTypes, CallShape, Actions
  <2> QED BY <1>2, <1>3, <2>1, <2>2 DEF Cleaned, IsCancel
<1>5. CASE row' = row /\ ~ApplyBookingProjection(s)
  <2>1. Cleaned(s)
    <3>1. syncer'[s].pc \in {"read", "uncache"} /\ (syncer'[s].pc = "uncache" => syncer'[s].then = "read")
      BY DEF Cleaned, At
    <3>2. ~(\E f \in Events : BeginSync(s, f) /\ syncer'[s].e = f /\ syncer'[s].pc = Opening(f))
      BY <1>2, <1>4, <3>1 DEF Opening, IsCancel
    <3>3. syncer'[s] = syncer[s] \/ (DeleteCache(s) /\ syncer[s].then = "read")
      BY <1>1, <1>2, <1>3, <1>5, <3>1, <3>2, CallsMove, NoCallFacts DEF CallsGo
    <3> QED BY <1>3, <1>4, <3>1, <3>3 DEF Cleaned, At, DeleteCache
  <2>2. Spent(row, event[e].order, event[e].at)
    BY <1>3, <2>1 DEF ClearsSpent
  <2> QED BY <1>2, <1>4, <1>5, <2>2
<1>6. CASE \E z \in Syncers : ApplyBookingProjection(z)
  <2> PICK z \in Syncers : ApplyBookingProjection(z)
    BY <1>6
  <2> DEFINE c == syncer[z]
  <2>1. /\ c \in Calls /\ CallOf(c) /\ c.pc = "write"
        /\ c.op \in {"set", "clear", "reset"} /\ c.at \in Moments /\ c.seen \in Nat
    BY <1>1 DEF CallsOf, SyncInv, SyncTypes, ApplyBookingProjection, At, Calls
  <2>2. CASE z # s
    <3>1. syncer'[s] = syncer[s] /\ UNCHANGED event
      BY <1>1, <2>2 DEF ApplyBookingProjection, SyncInv, SyncTypes
    <3>2. Spent(row, event[e].order, event[e].at)
      BY <1>3, <1>4, <3>1 DEF ClearsSpent, Cleaned, At
    <3>3. Spent(row', event[e].order, event[e].at)
      <4>1. CASE c.op # "set"
        <5>1. Clears(row, row')
          BY <1>1, <2>1, <4>1, TypeApply
        <5> QED BY <1>1, <1>4, <3>2, <5>1, ClearsSpend
      <4>2. CASE c.op = "set"
        <5>1. c.order \in Orders /\ row' = Apply(row, "set", c.order, c.at, c.seen, Newer(c.order, c.at))
          BY <1>1, <4>2, TypeApply
        <5>2. Newer(c.order, c.at) \in BOOLEAN
          BY DEF Newer
        <5> QED BY <1>1, <1>4, <2>1, <3>2, <5>1, <5>2, SetSpends
      <4> QED BY <4>1, <4>2
    <3> QED BY <1>2, <1>4, <3>3
  <2>3. CASE z = s
    <3>1. c.op = "clear" /\ c.order = event[e].order /\ c.at = event[e].at
      BY <1>3, <1>4, <2>1, <2>3 DEF CallOf
    <3>2. ~Superseded(row, c.op, c.order, c.at, Newer(c.order, c.at))
      <4>1. syncer'[s].then = "read"
        BY <1>1, <2>3 DEF Cleaned, At, ApplyBookingProjection, NoCall, SyncInv, SyncTypes
      <4> QED BY <1>1, <2>3, <3>1, <4>1 DEF ApplyBookingProjection, NoCall, SyncInv, SyncTypes
    <3>3. row' = Apply(row, "clear", c.order, c.at, c.seen, Newer(c.order, c.at))
      BY <1>1, <2>3, <3>1, TypeApply
    <3>4. Newer(c.order, c.at) \in BOOLEAN
      BY DEF Newer
    <3>5. Dead(row', c.order, c.at)
      BY <1>1, <1>4, <2>1, <3>1, <3>2, <3>3, <3>4, ApplyClear
    <3> QED BY <1>2, <1>4, <3>1, <3>5 DEF Spent
  <2> QED BY <2>2, <2>3
<1> QED BY <1>5, <1>6, RowWritten

\* The cache ages only with a change of the list, and a clear that is repeated makes none.
LEMMA OldMade ==
  ASSUME GoneInv, Fits(row), ClearsSpent, NEW s \in Syncers, ApplyBookingProjection(s),
         cache # "old", cache' = "old"
  PROVE  Deletes(s)'
<1> DEFINE c == syncer[s]
<1>1. /\ SyncInv /\ CallsOf /\ RowOK(row) /\ c \in Calls /\ CallOf(c) /\ c.pc = "write"
      /\ c.at \in Moments /\ c.seen \in Nat
  BY DEF GoneInv, SyncInv, SyncTypes, CallsOf, ApplyBookingProjection, At, Calls
<1>2. /\ syncer'[s].pc = "uncache" /\ syncer'[s].e = c.e /\ UNCHANGED event
      /\ \A z \in Syncers : z # s => syncer'[z] = syncer[z]
  BY <1>1 DEF ApplyBookingProjection, NoCall, SyncInv, SyncTypes
<1>3. View(row') # View(row)
  BY DEF ApplyBookingProjection, Aged
<1>4. ASSUME NEW e, e = c.e, IsCancel(e), NEW z \in Syncers, At(z, "read"), syncer[z].e = e PROVE FALSE
  <2>1. Spent(row, event[e].order, event[e].at)
    BY <1>4 DEF ClearsSpent, Cleaned
  <2>2. c.op = "clear" /\ c.order = event[e].order /\ c.at = event[e].at
    BY <1>1, <1>4, NoCallFacts DEF CallOf, IsCancel, Happened
  <2>3. c.order \in Orders /\ row' = Apply(row, "clear", c.order, c.at, c.seen, Newer(c.order, c.at))
    BY <1>1, <2>2, TypeApply
  <2>4. row.linked[c.order] = 0 \/ Version(row, c.order) > c.at
    BY <2>1, <2>2, SpentUnlisted
  <2>5. row'.linked = row.linked /\ row'.seen = row.seen
    BY <1>1, <2>3, <2>4, ClearUnlisted
  <2>6. View(row') = View(row)
    BY <2>5 DEF View, Listed
  <2> QED BY <1>3, <2>6
<1>5. Unread(syncer[s].e)'
  BY <1>2, <1>4 DEF Unread, At, IsCancel, Happened
<1> QED BY <1>2, <1>5 DEF Deletes, At

LEMMA UnreadStays ==
  ASSUME SyncInv, [BookingNext]_bookingVars, cache' = "old", NEW e, Happened(e), Unread(e)
  PROVE  Unread(e)'
<1> SUFFICES ASSUME IsCancel(e)', NEW s \in Syncers, At(s, "read")', syncer'[s].e = e PROVE FALSE
  BY DEF Unread
<1>1. IsCancel(e)
  BY ActionsMove DEF ActionsGo, IsCancel, Happened
<1>2. ~(At(s, "read") /\ syncer[s].e = e)
  BY <1>1 DEF Unread
<1>3. syncer'[s].pc = "read"
  BY DEF At
<1>4. e # 0
  BY NoCallFacts DEF Happened
<1>5. ~DeleteCache(s)
  BY DEF DeleteCache
<1>6. ~(\E f \in Events : syncer'[s].e = f /\ syncer'[s].pc = Opening(f))
  BY <1>1, <1>3 DEF Opening, IsCancel
<1> QED BY <1>2, <1>3, <1>4, <1>5, <1>6, CallsMove, NoCallFacts DEF CallsGo, At

\* While the cache stays old, a call that is to delete it waits or breaks off, and an action that
\* nobody is about to finish stays due.
LEMMA DeleterStays ==
  ASSUME SyncInv, [BookingNext]_bookingVars, cache' = "old", NEW s \in Syncers, At(s, "uncache")
  PROVE  syncer'[s] = syncer[s] \/ BreakOff(s)
<1>1. syncer \in [Syncers -> Calls] /\ syncer[s].pc = "uncache"
  BY DEF SyncInv, SyncTypes, At
<1>2. ASSUME NEW z \in Syncers, FetchSignupWorkOrders(z) \/ ApplyBookingProjection(z) PROVE syncer'[s] = syncer[s]
  BY <1>1, <1>2 DEF FetchSignupWorkOrders, ApplyBookingProjection, Synced, At
<1>3. ASSUME NEW z \in Syncers, DeleteCache(z) PROVE FALSE
  BY <1>3 DEF DeleteCache
<1>4. ASSUME NEW z \in Syncers, BreakOff(z) PROVE syncer'[s] = syncer[s] \/ BreakOff(s)
  BY <1>1, <1>4 DEF BreakOff
<1>5. ASSUME NEW z \in Syncers, (\E e \in Events : BeginSync(z, e)) \/ (\E o \in Orders : Relink(z, o)) \/ Reset(z)
      PROVE  syncer'[s] = syncer[s]
  BY <1>1, <1>5 DEF BeginSync, Relink, Reset, Now, At
<1> QED BY <1>2, <1>3, <1>4, <1>5 DEF BookingNext, bookingVars, CarryOut, Record, ListCatchesUp, EndedOutside,
         ReadRow, FillCache, CacheExpires

LEMMA DueStays ==
  ASSUME SyncInv, [BookingNext]_bookingVars, cache' = "old", NEW e \in Events, event[e].st = "succeeded", Unread(e)
  PROVE  event'[e].st = "succeeded"
<1>1. ASSUME NEW f \in Events, NEW kind, NEW o, NEW t, CarryOut(f, kind, o, t) PROVE event'[e].st = "succeeded"
  BY <1>1 DEF CarryOut
<1>2. ASSUME NEW f \in Events, Record(f) PROVE event'[e].st = "succeeded"
  BY <1>2 DEF Record
<1>3. ASSUME NEW z \in Syncers, FetchSignupWorkOrders(z) PROVE event'[e].st = "succeeded"
  <2>1. CASE UNCHANGED event
    BY <2>1
  <2>2. CASE Synced(z) /\ event[syncer[z].e].kind = "cancel" /\ At(z, "read")
    <3>1. syncer[z].e # e
      BY <2>2 DEF Unread, IsCancel, Happened
    <3> QED BY <2>2, <3>1 DEF Synced
  <2> QED BY <1>3, <2>1, <2>2 DEF FetchSignupWorkOrders
<1>4. ASSUME NEW z \in Syncers, DeleteCache(z) PROVE FALSE
  BY <1>4 DEF DeleteCache
<1> QED BY <1>1, <1>2, <1>3, <1>4 DEF BookingNext, bookingVars, BeginSync, ListCatchesUp, EndedOutside,
         Relink, ApplyBookingProjection, BreakOff, Reset, ReadRow, FillCache, CacheExpires

LEMMA OldKnownKept ==
  ASSUME GoneInv, Fits(row), Recorders, ClearsSpent, OldKnown, [BookingNext]_bookingVars
  PROVE  OldKnown'
<1> SUFFICES ASSUME cache' = "old"
             PROVE  \/ blurred'
                    \/ \E s \in Syncers : Deletes(s)'
                    \/ \E e \in Events : event'[e].st = "succeeded" /\ Unread(e)'
  BY DEF OldKnown
<1>0. SyncInv
  BY DEF GoneInv
<1>1. CASE cache # "old"
  <2>1. (\E s \in Syncers : ApplyBookingProjection(s)) \/ (\E r \in Readers : FillCache(r))
    BY <1>1 DEF BookingNext, bookingVars, CarryOut, Record, BeginSync, ListCatchesUp, EndedOutside, Relink,
         FetchSignupWorkOrders, DeleteCache, BreakOff, Reset, ReadRow, CacheExpires
  <2>2. ASSUME NEW r \in Readers, FillCache(r) PROVE blurred'
    BY <2>2 DEF FillCache
  <2> QED BY <1>1, <2>1, <2>2, OldMade
<1>2. CASE cache = "old" /\ blurred
  BY <1>2 DEF BookingNext, bookingVars, CarryOut, Record, BeginSync, ListCatchesUp, EndedOutside, Relink,
       FetchSignupWorkOrders, ApplyBookingProjection, DeleteCache, BreakOff, Reset, ReadRow, FillCache, CacheExpires
<1>3. ASSUME NEW s \in Syncers, Deletes(s)
      PROVE  blurred' \/ Deletes(s)' \/ \E e \in Events : event'[e].st = "succeeded" /\ Unread(e)'
  <2> PICK e : e = syncer[s].e
    OBVIOUS
  <2>1. At(s, "uncache") /\ (e # 0 => e \in Events /\ Happened(e) /\ Recorded(e))
    BY <1>0, <1>3 DEF Deletes, Recorders, SyncInv, CallShape, Happened
  <2>2. Due(s) => Unread(e)'
    BY <1>0, <1>3, <2>1, UnreadStays DEF Deletes, Due
  <2>3. CASE syncer'[s] = syncer[s]
    <3>1. e # 0 /\ event'[e].st = "succeeded" => event[e].st = "succeeded"
      BY <1>0, <2>1, ActionsMove DEF ActionsGo, Recorded
    <3>2. Due(s)' => Due(s)
      BY <2>3, <3>1 DEF Due
    <3> QED BY <2>1, <2>2, <2>3, <3>2 DEF Deletes, At, Unread
  <2>4. CASE BreakOff(s)
    <3>1. CASE Due(s)
      <4>1. e \in Events /\ event'[e].st = "succeeded"
        BY <2>1, <2>4, <3>1 DEF Due, BreakOff
      <4> QED BY <2>2, <3>1, <4>1
    <3>2. CASE ~Due(s)
      BY <2>1, <2>4, <3>2 DEF BreakOff
    <3> QED BY <3>1, <3>2
  <2> QED BY <1>0, <2>1, <2>3, <2>4, DeleterStays
<1>4. ASSUME NEW e \in Events, event[e].st = "succeeded", Unread(e)
      PROVE  event'[e].st = "succeeded" /\ Unread(e)'
  BY <1>0, <1>4, DueStays, UnreadStays DEF Happened
<1> QED BY <1>1, <1>2, <1>3, <1>4 DEF OldKnown

LEMMA CacheStep == CacheInv /\ [BookingNext]_bookingVars => CacheInv'
  BY GoneStep, FitsKept, RecordersKept, ClearsSpentKept, OldKnownKept DEF CacheInv, GoneInv

\* CacheAgrees for any orders, actions, syncers and readers: the cache never keeps a list of
\* bookings that the row no longer has, beyond the projection that is to delete it, unless a late
\* reader filled it or a deletion that nobody repeats failed.
THEOREM CacheAgreesHolds == BookingSpec => []CacheAgrees
<1>1. CacheInv => CacheAgrees
  BY DEF CacheInv, OldKnown, CacheAgrees, Deletes, At
<1> QED BY <1>1, CacheInitially, CacheStep, PTL DEF BookingSpec

-----------------------------------------------------------------------------
(* What the row says of an order, against what the provider says. *)

Untroubled(o) == upset[o] = {}
Last(e) == Happened(e) /\ \A f \in Of(event[e].order) : event[f].at <= event[e].at

\* Every order has a last action; without a tie or disorder it is the last one carried out.
History ==
  /\ \A e \in Events : Happened(e) => event[e].at # 0 /\ order[event[e].order].st # "none"
  /\ \A o \in Orders : order[o].st # "none" => \E e \in Events : Last(e) /\ event[e].order = o
  /\ \A o \in Orders : Untroubled(o) => \A e, f \in Of(o) : event[e].at = event[f].at => e = f

RowTold == \A o \in Orders : Untroubled(o) => row.reset = 0 /\ (row.at[o] = 0 \/ FromEvent(o, row.at[o]))

\* Relinks and resets trouble what they write; the last action of an order writes what it did.
Writes(c) ==
  c.pc = "write" =>
    /\ c.e = 0 => IF c.op = "reset" THEN \A o \in Orders : ~Untroubled(o) ELSE ~Untroubled(c.order)
    /\ c.e # 0 =>
         /\ c.op # "reset" /\ c.order = event[c.e].order /\ c.at = event[c.e].at
         /\ Untroubled(c.order) /\ Last(c.e) =>
              IF IsCancel(c.e) THEN c.op = "clear" ELSE c.op = "set" /\ c.seen = order[c.order].visit
AllWrites == \A s \in Syncers : Writes(syncer[s])

\* The row says of the order what action e left of it.
Tells(e) ==
  LET o == event[e].order
  IN  IF IsCancel(e) THEN row.linked[o] = 0
      ELSE row.linked[o] = row.at[o] /\ ~row.deleted[o] /\ row.seen[o] = order[o].visit

Written(e) ==
  \/ event[e].st = "synced"
  \/ \E s \in Syncers : syncer[s].e = e /\ (At(s, "uncache") \/ (At(s, "read") /\ IsCancel(e)))

LastTold ==
  \A e \in Events : Last(e) /\ Untroubled(event[e].order) =>
    LET o == event[e].order
    IN  /\ order[o].st = IF IsCancel(e) THEN "ended" ELSE "active"
        /\ row.at[o] = event[e].at => Tells(e)
        /\ Written(e) => row.at[o] = event[e].at

AgreeInv == SyncInv /\ Fits(row) /\ History /\ RowTold /\ AllWrites /\ LastTold

LEMMA AgreeInitially == BookingInit => AgreeInv
<1> SUFFICES ASSUME BookingInit PROVE AgreeInv
  OBVIOUS
<1>1. SyncInv /\ Fits(row)
  BY CacheInitially, SyncInitially DEF CacheInv
<1>2. /\ \A e \in Events : event[e].st = "none"
      /\ \A o \in Orders : order[o].st = "none" /\ row.at[o] = 0
      /\ row.reset = 0 /\ \A s \in Syncers : syncer[s].pc = "idle"
  BY DEF BookingInit, NoEvent, NoOrder, EmptyRow, NoCall
<1>3. History
  BY <1>2 DEF History, Happened, Of
<1> QED BY <1>1, <1>2, <1>3 DEF AgreeInv, RowTold, AllWrites, Writes, LastTold, Last, Happened

LEMMA AgreeGives == AgreeInv => PointersAgree
<1> SUFFICES ASSUME AgreeInv, NEW o \in Orders, Settled(o), Untroubled(o)
             PROVE  /\ o \in Listed(row) <=> order[o].st = "active"
                    /\ o \in Listed(row) => row.seen[o] = order[o].visit
  BY DEF PointersAgree, Untroubled
<1>1. row.linked[o] # 0 => row.linked[o] = row.at[o]
  BY DEF AgreeInv, SyncInv, SyncTypes, RowOK
<1>2. CASE order[o].st = "none"
  <2>1. Of(o) = {}
    BY <1>2 DEF AgreeInv, History, Of, Happened
  <2>2. row.at[o] = 0
    BY <2>1 DEF AgreeInv, RowTold, FromEvent
  <2> QED BY <1>1, <1>2, <2>2 DEF Listed
<1>3. CASE order[o].st # "none"
  <2>1. PICK e \in Events : Last(e) /\ event[e].order = o
    BY <1>3 DEF AgreeInv, History
  <2>2. event[e].st = "synced" /\ event[e].at # 0
    BY <2>1 DEF Settled, Of, Last, Happened, AgreeInv, History
  <2>3. /\ order[o].st = IF IsCancel(e) THEN "ended" ELSE "active"
        /\ row.at[o] = event[e].at /\ Tells(e)
    BY <2>1, <2>2 DEF AgreeInv, LastTold, Written
  <2> QED BY <2>1, <2>2, <2>3 DEF Tells, Listed
<1> QED BY <1>2, <1>3

\* The limit aside, a write leaves the other orders alone, and says of its own what it was told.
LEMMA ApplyOther ==
  ASSUME NEW r, RowOK(r), Fits(r), NEW o \in Orders, NEW t \in Moments, NEW seen \in Nat,
         NEW op \in {"set", "clear"}, NEW newer, NEW p \in Orders, p # o
  PROVE  LET q == Apply(r, op, o, t, seen, newer)
         IN  /\ q.at[p] = r.at[p] /\ q.deleted[p] = r.deleted[p] /\ q.seen[p] = r.seen[p]
             /\ \/ q.linked[p] = r.linked[p]
                \/ op = "set" /\ ~Superseded(r, op, o, t, newer) /\ p \in Listed(r) /\ p \notin Listed(q)
<1> DEFINE w == [r EXCEPT !.at[o] = t, !.deleted[o] = (op = "clear"),
                          !.linked[o] = IF op = "set" THEN t ELSE 0,
                          !.seen[o] = IF op = "set" THEN seen ELSE @]
           q == Apply(r, op, o, t, seen, newer)
<1>1. CASE Superseded(r, op, o, t, newer) \/ (t = Version(r, o) /\ op = "set")
  BY <1>1 DEF Apply, AfterOne
<1>2. CASE ~Superseded(r, op, o, t, newer) /\ ~(t = Version(r, o) /\ op = "set")
  <2>1. q = Capped(w)
    BY <1>2 DEF Apply, AfterOne
  <2>2. /\ w \in Rows /\ w.at[p] = r.at[p] /\ w.deleted[p] = r.deleted[p] /\ w.seen[p] = r.seen[p]
        /\ w.linked[o] = (IF op = "set" THEN t ELSE 0)
        /\ \A x \in Orders : x # o => w.linked[x] = r.linked[x]
    BY MomentsNat DEF RowOK, Rows
  <2> HIDE DEF w, q
  <2>3. q.at[p] = r.at[p] /\ q.deleted[p] = r.deleted[p] /\ q.seen[p] = r.seen[p] /\ q.linked[p] \in {0, r.linked[p]}
    BY <2>1, <2>2, CapTakesOff, CapFits
  <2>4. CASE op = "set"
    BY <1>2, <2>3, <2>4 DEF Listed, q
  <2>5. CASE op = "clear"
    <3>1. \A x \in Orders : w.linked[x] \in {0, r.linked[x]}
      BY <2>2, <2>5
    <3>2. q.linked = w.linked
      BY <2>1, <2>2, <3>1, FewerFit, CapFits
    <3> QED BY <2>2, <2>3, <3>2 DEF q
  <2> QED BY <2>4, <2>5
<1> QED BY <1>1, <1>2

LEMMA ApplyOwn ==
  ASSUME NEW r, RowOK(r), NEW o \in Orders, NEW t \in Moments, NEW seen \in Nat,
         NEW op \in {"set", "clear"}, NEW newer \in BOOLEAN, ~Superseded(r, op, o, t, newer)
  PROVE  LET q == Apply(r, op, o, t, seen, newer)
         IN  \/ q = r /\ t = Version(r, o) /\ op = "set"
             \/ /\ q.at[o] = t /\ q.reset = r.reset
                /\ op = "clear" => q.linked[o] = 0
                /\ op = "set" => q.linked[o] \in {0, t} /\ ~q.deleted[o] /\ q.seen[o] = seen
<1> DEFINE w == [r EXCEPT !.at[o] = t, !.deleted[o] = (op = "clear"),
                          !.linked[o] = IF op = "set" THEN t ELSE 0,
                          !.seen[o] = IF op = "set" THEN seen ELSE @]
           q == Apply(r, op, o, t, seen, newer)
<1>1. CASE t = Version(r, o) /\ op = "set"
  BY <1>1 DEF Apply, AfterOne
<1>2. CASE ~(t = Version(r, o) /\ op = "set")
  <2>1. q = Capped(w)
    BY <1>2 DEF Apply, AfterOne
  <2>2. /\ w \in Rows /\ w.at[o] = t /\ w.reset = r.reset /\ (op = "set" => ~w.deleted[o] /\ w.seen[o] = seen)
        /\ w.linked[o] = (IF op = "set" THEN t ELSE 0)
    BY MomentsNat DEF RowOK, Rows
  <2> HIDE DEF w, q
  <2>3. /\ q.at[o] = t /\ q.reset = r.reset /\ (op = "set" => ~q.deleted[o] /\ q.seen[o] = seen)
        /\ q.linked[o] \in {0, w.linked[o]}
    BY <2>1, <2>2, CapTakesOff, CapFits
  <2> QED BY <2>2, <2>3 DEF q
<1> QED BY <1>1, <1>2

LEMMA ApplyKeepsReset ==
  ASSUME NEW r, RowOK(r), NEW o \in Orders, NEW t \in Moments, NEW seen \in Nat,
         NEW op \in {"set", "clear"}, NEW newer \in BOOLEAN
  PROVE  LET q == Apply(r, op, o, t, seen, newer)
         IN  q.reset = r.reset /\ q.at[o] \in {r.at[o], t}
<1>1. CASE Superseded(r, op, o, t, newer)
  BY <1>1 DEF Apply
<1>2. CASE ~Superseded(r, op, o, t, newer)
  BY <1>2, ApplyOwn
<1> QED BY <1>1, <1>2

\* Every step but carrying out an action.
Steady ==
  /\ SameActions
  /\ \A o \in Orders : /\ Untroubled(o)' => order'[o] = order[o]
                       /\ order'[o].st = "none" <=> order[o].st = "none"

LEMMA StepSteady ==
  ASSUME SyncInv, [BookingNext]_bookingVars
  PROVE  \/ Steady
         \/ \E e \in Events, kind \in {"booking", "modify", "cancel"}, o \in Orders, t \in Times :
              CarryOut(e, kind, o, t)
<1>1. ASSUME UNCHANGED <<event, order>>, \A o \in Orders : upset[o] \subseteq upset'[o] PROVE Steady
  BY <1>1 DEF Steady, SameActions
<1>2. ASSUME NEW e \in Events, Record(e) PROVE Steady
  <2>1. event' = [event EXCEPT ![e].st = "succeeded"] /\ event[e].st = "landed" /\ UNCHANGED <<order, upset>>
    BY <1>2 DEF Record, provider
  <2> QED BY <2>1 DEF Steady, SameActions, SyncInv, SyncTypes, Actions
<1>3. ASSUME NEW s \in Syncers, Synced(s), UNCHANGED <<order, upset>> PROVE Steady
  <2>1. syncer[s].e # 0 => Happened(syncer[s].e)
    BY DEF SyncInv, CallShape
  <2> QED BY <1>3, <2>1 DEF Synced, Steady, SameActions, SyncInv, SyncTypes, Actions, Happened
<1>4. ASSUME NEW o \in Orders, EndedOutside(o) PROVE Steady
  <2>1. upset' = [upset EXCEPT ![o] = @ \cup {"outside"}] /\ order' = [order EXCEPT ![o].st = "ended"] /\ UNCHANGED event
    BY <1>4 DEF EndedOutside, Upset
  <2>2. "outside" \in upset'[o] /\ \A p \in Orders : upset[p] \subseteq upset'[p]
    BY <2>1 DEF SyncInv, SyncTypes
  <2>3. order[o].st = "active" /\ order'[o].st = "ended" /\ \A p \in Orders : p # o => order'[p] = order[p]
    BY <1>4, <2>1 DEF EndedOutside, SyncInv, SyncTypes, WorkOrders
  <2> QED BY <2>1, <2>2, <2>3 DEF Steady, SameActions, Untroubled
<1>5. ASSUME NEW o, Upset(o, "lag") \/ Upset(o, "relink") PROVE \A p \in Orders : upset[p] \subseteq upset'[p]
  BY <1>5 DEF Upset, SyncInv, SyncTypes
<1>6. ASSUME NEW s \in Syncers, FetchSignupWorkOrders(s) PROVE Steady
  BY <1>1, <1>3, <1>5, <1>6 DEF FetchSignupWorkOrders, provider
<1>7. ASSUME NEW s \in Syncers, ApplyBookingProjection(s) PROVE Steady
  BY <1>1, <1>7 DEF ApplyBookingProjection, provider
<1>8. ASSUME NEW s \in Syncers, DeleteCache(s) PROVE Steady
  BY <1>1, <1>3, <1>8 DEF DeleteCache, provider
<1>9. ASSUME NEW s \in Syncers, (\E o \in Orders : Relink(s, o)) \/ Reset(s) PROVE Steady
  BY <1>1, <1>5, <1>9 DEF Relink, Reset, provider
<1> QED BY <1>1, <1>2, <1>4, <1>6, <1>7, <1>8, <1>9 DEF BookingNext, bookingVars, provider, BeginSync,
         ListCatchesUp, BreakOff, ReadRow, FillCache, CacheExpires

LEMMA SteadyFacts ==
  ASSUME SyncInv, Steady
  PROVE  /\ \A o \in Orders : Untroubled(o)' => Untroubled(o)
         /\ \A e \in Events : /\ Happened(e)' <=> Happened(e)
                              /\ IsCancel(e)' <=> IsCancel(e)
                              /\ Last(e)' <=> Last(e)
                              /\ event'[e].order = event[e].order /\ event'[e].at = event[e].at
         /\ \A o : Of(o)' = Of(o)
         /\ \A o, t : FromEvent(o, t) => FromEvent(o, t)'
<1>1. /\ \A e \in Events : event'[e].order = event[e].order /\ event'[e].at = event[e].at
                           /\ (Happened(e)' <=> Happened(e))
      /\ SameActions
  BY DEF Steady, SameActions, Happened
<1>2. \A o : Of(o)' = Of(o)
  BY <1>1, StillSo
<1>3. ASSUME NEW e \in Events PROVE Last(e)' <=> Last(e)
  <2>1. Of(event[e].order)' = Of(event[e].order)
    BY <1>1, <1>2 DEF Of
  <2>2. Of(event[e].order) \subseteq Events
    BY DEF Of
  <2> QED BY <1>1, <2>1, <2>2 DEF Last
<1>4. \A o \in Orders : Untroubled(o)' => Untroubled(o)
  BY <1>1 DEF SameActions, Untroubled
<1> QED BY <1>1, <1>2, <1>3, <1>4, StillSo

LEMMA HistorySteady == ASSUME SyncInv, History, Steady PROVE History'
<1>1. ASSUME NEW e \in Events, Happened(e)' PROVE event'[e].at # 0 /\ order'[event'[e].order].st # "none"
  BY <1>1, SteadyFacts DEF History, Steady, SyncInv, CallShape
<1>2. ASSUME NEW o \in Orders, order'[o].st # "none" PROVE \E e \in Events : Last(e)' /\ event'[e].order = o
  <2>1. order[o].st # "none"
    BY <1>2 DEF Steady
  <2> QED BY <1>2, <2>1, SteadyFacts DEF History
<1>3. ASSUME NEW o \in Orders, Untroubled(o)', NEW e \in Of(o)', NEW f \in Of(o)', event'[e].at = event'[f].at PROVE e = f
  <2>1. Untroubled(o) /\ e \in Of(o) /\ f \in Of(o) /\ Of(o) \subseteq Events
    BY <1>3, SteadyFacts DEF Of
  <2>2. event[e].at = event[f].at
    BY <1>3, <2>1, SteadyFacts
  <2> QED BY <2>1, <2>2 DEF History
<1> QED BY <1>1, <1>2, <1>3 DEF History

LEMMA RowToldSteady ==
  ASSUME SyncInv, Fits(row), RowTold, AllWrites, Steady, [BookingNext]_bookingVars
  PROVE  RowTold'
<1> SUFFICES ASSUME NEW o \in Orders, Untroubled(o)'
             PROVE  row'.reset = 0 /\ (row'.at[o] = 0 \/ FromEvent(o, row.at[o])')
  BY DEF RowTold
<1>1. Untroubled(o) /\ row.reset = 0 /\ (row.at[o] = 0 \/ FromEvent(o, row.at[o]))
  BY SteadyFacts DEF RowTold
<1>2. CASE row' = row
  <2>1. PICK t : t = row.at[o]
    OBVIOUS
  <2>2. t = 0 \/ FromEvent(o, t)'
    BY <1>1, <2>1, SteadyFacts
  <2> QED BY <1>1, <1>2, <2>1, <2>2 DEF FromEvent
<1>3. ASSUME NEW s \in Syncers, ApplyBookingProjection(s)
      PROVE  row'.reset = 0 /\ (row'.at[o] = 0 \/ FromEvent(o, row.at[o])')
  <2> DEFINE c == syncer[s]
             t == row'.at[o]
  <2>1. /\ RowOK(row) /\ c \in Calls /\ Writes(c) /\ c.pc = "write" /\ c.seen \in Nat
        /\ c.op \in {"set", "clear", "reset"} /\ (c.e # 0 => Happened(c.e))
    BY <1>3 DEF SyncInv, SyncTypes, CallShape, AllWrites, ApplyBookingProjection, At, Calls
  <2>2. c.op # "reset"
    BY <1>1, <2>1 DEF Writes
  <2>3. /\ c.order \in Orders /\ c.at \in Moments
        /\ row' = Apply(row, c.op, c.order, c.at, c.seen, Newer(c.order, c.at))
    BY <1>3, <2>2, TypeApply
  <2>4. Newer(c.order, c.at) \in BOOLEAN
    BY DEF Newer
  <2>5. row'.reset = row.reset /\ row'.at[c.order] \in {row.at[c.order], c.at}
    BY <2>1, <2>2, <2>3, <2>4, ApplyKeepsReset
  <2>6. t = row.at[o] \/ FromEvent(o, t)
    <3>1. CASE c.order # o
      BY <2>1, <2>2, <2>3, <3>1, ApplyOther
    <3>2. CASE c.order = o
      <4>1. c.e # 0
        BY <1>1, <2>1, <2>2, <3>2 DEF Writes
      <4>2. FromEvent(o, c.at)
        BY <2>1, <3>2, <4>1 DEF Writes, FromEvent, Of, Happened
      <4> QED BY <2>5, <3>2, <4>2
    <3> QED BY <3>1, <3>2
  <2>7. PICK u : u = t
    OBVIOUS
  <2>8. u = 0 \/ FromEvent(o, u)'
    BY <1>1, <2>6, <2>7, SteadyFacts
  <2> QED BY <1>1, <2>5, <2>7, <2>8 DEF FromEvent
<1> QED BY <1>2, <1>3, RowWritten

\* A call that goes on as it is.
LEMMA WritesStay ==
  ASSUME SyncInv, Steady, NEW s \in Syncers, Writes(syncer[s]), syncer'[s] = syncer[s]
  PROVE  Writes(syncer[s])'
<1> PICK c : c = syncer[s]
  OBVIOUS
<1>1. /\ Writes(c) /\ (c.e # 0 => c.e \in Events)
      /\ c.pc = "write" => c.op = "reset" \/ c.order \in Orders
  BY DEF SyncInv, CallShape, At, Happened
<1>2. ASSUME c.pc = "write", c.e = 0
      PROVE  IF c.op = "reset" THEN \A o \in Orders : ~Untroubled(o)' ELSE ~Untroubled(c.order)'
  BY <1>1, <1>2, SteadyFacts DEF Writes
<1>3. ASSUME c.pc = "write", c.e # 0
      PROVE  /\ c.op # "reset" /\ c.order = event'[c.e].order /\ c.at = event'[c.e].at
             /\ Untroubled(c.order)' /\ Last(c.e)' =>
                  IF IsCancel(c.e)' THEN c.op = "clear" ELSE c.op = "set" /\ c.seen = order'[c.order].visit
  BY <1>1, <1>3, SteadyFacts DEF Writes, Steady
<1>4. Writes(c)'
  BY <1>2, <1>3 DEF Writes
<1> QED BY <1>4 DEF Writes, Untroubled, Last, IsCancel, Happened, Of

LEMMA NewCalls ==
  ASSUME SyncInv, [BookingNext]_bookingVars, NEW s \in Syncers
  PROVE  \/ syncer'[s] = syncer[s] \/ syncer'[s].pc # "write"
         \/ (\E e \in Events : BeginSync(s, e)) \/ FetchSignupWorkOrders(s)
         \/ (\E o \in Orders : Relink(s, o)) \/ Reset(s)
<1>1. syncer \in [Syncers -> Calls]
  BY DEF SyncInv, SyncTypes
<1>2. ASSUME NEW z \in Syncers, z # s,
             \/ (\E e \in Events : BeginSync(z, e)) \/ FetchSignupWorkOrders(z)
             \/ (\E o \in Orders : Relink(z, o)) \/ Reset(z)
      PROVE  syncer'[s] = syncer[s]
  BY <1>1, <1>2 DEF BeginSync, FetchSignupWorkOrders, Synced, Relink, Reset, Now
<1>3. ASSUME NEW z \in Syncers, ApplyBookingProjection(z) PROVE syncer'[s] = syncer[s] \/ syncer'[s].pc # "write"
  BY <1>1, <1>3 DEF ApplyBookingProjection, NoCall
<1>4. ASSUME NEW z \in Syncers, DeleteCache(z) PROVE syncer'[s] = syncer[s] \/ syncer'[s].pc # "write"
  <2>1. /\ At(z, "uncache")
        /\ syncer' = [syncer EXCEPT ![z].pc = "read"] \/ syncer' = [syncer EXCEPT ![z] = NoCall]
    BY <1>4 DEF DeleteCache, Synced
  <2>2. [syncer[z] EXCEPT !.pc = "read"].pc = "read"
    BY <1>1 DEF Calls
  <2> QED BY <1>1, <2>1, <2>2, NoCallFacts
<1>5. ASSUME NEW z \in Syncers, BreakOff(z) PROVE syncer'[s] = syncer[s] \/ syncer'[s].pc # "write"
  BY <1>1, <1>5, NoCallFacts DEF BreakOff
<1> QED BY <1>2, <1>3, <1>4, <1>5 DEF BookingNext, bookingVars, CarryOut, Record, ListCatchesUp, EndedOutside,
         ReadRow, FillCache, CacheExpires

LEMMA WritesHere ==
  ASSUME NEW s \in Syncers, NEW c, syncer'[s] = c, Writes(c)'
  PROVE  Writes(syncer[s])'
  BY DEF Writes, Untroubled, Last, IsCancel, Happened, Of

LEMMA AllWritesSteady ==
  ASSUME SyncInv, History, AllWrites, LastTold, Steady, [BookingNext]_bookingVars
  PROVE  AllWrites'
<1> SUFFICES ASSUME NEW s \in Syncers PROVE Writes(syncer[s])'
  BY DEF AllWrites
<1>0. syncer \in [Syncers -> Calls]
  BY DEF SyncInv, SyncTypes
<1>1. CASE syncer'[s] = syncer[s]
  BY <1>1, WritesStay DEF AllWrites
<1>2. CASE syncer'[s].pc # "write"
  BY <1>2 DEF Writes
<1>3. ASSUME NEW e \in Events, BeginSync(s, e) PROVE Writes(syncer[s])'
  <2>1. PICK c : c = syncer'[s]
    OBVIOUS
  <2>2. /\ c.e = e /\ c.op = "clear" /\ c.order = event[e].order /\ c.at = event[e].at /\ UNCHANGED event
        /\ c.pc = Opening(e)
    BY <1>0, <1>3, <2>1 DEF BeginSync, NoCall
  <2>3. Happened(e) /\ e # 0
    BY <1>3, NoCallFacts DEF BeginSync, Happened
  <2>4. Writes(c)'
    <3> SUFFICES ASSUME c.pc = "write" PROVE IsCancel(e)'
      BY <2>2, <2>3 DEF Writes
    <3> QED BY <2>2, <2>3 DEF Opening, IsCancel, Happened
  <2> QED BY <2>1, <2>4, WritesHere
<1>4. CASE FetchSignupWorkOrders(s) /\ syncer'[s].pc = "write"
  <2> DEFINE e == syncer[s].e
             o == event[e].order
  <2>1. PICK c : c = syncer'[s]
    OBVIOUS
  <2>2. /\ e \in Events /\ Happened(e) /\ e # 0 /\ o \in Orders /\ At(s, "read")
    BY <1>4, NoCallFacts DEF FetchSignupWorkOrders, SyncInv, CallShape, Happened
  <2>3. /\ syncer' = [syncer EXCEPT ![s] = [@ EXCEPT !.pc = "write", !.order = o,
                   !.at = event[e].at, !.seen = shown[o].visit, !.then = "synced",
                   !.op = IF shown[o].st = "active" THEN "set" ELSE "clear"]]
        /\ IF shown[o] = order[o] THEN UNCHANGED upset ELSE Upset(o, "lag")
        /\ UNCHANGED <<event, order>> /\ event[e].kind # "cancel"
    <3>1. syncer' # [syncer EXCEPT ![s] = NoCall]
      BY <1>0, <1>4, NoCallFacts
    <3> QED BY <1>4, <3>1 DEF FetchSignupWorkOrders, Synced, provider
  <2>4. /\ c.e = e /\ c.order = o /\ c.at = event[e].at /\ c.seen = shown[o].visit
        /\ c.op = (IF shown[o].st = "active" THEN "set" ELSE "clear")
    BY <1>0, <2>1, <2>3 DEF Calls
  <2>5. Untroubled(o)' => shown[o] = order[o] /\ Untroubled(o)
    BY <2>2, <2>3 DEF Untroubled, Upset, SyncInv, SyncTypes
  <2>6. Untroubled(o)' /\ Last(e) => c.op = "set" /\ c.seen = order[o].visit
    BY <2>2, <2>3, <2>4, <2>5 DEF LastTold, IsCancel
  <2>7. PICK f : f = e
    OBVIOUS
  <2>8. /\ c.e = f /\ f # 0 /\ f \in Events /\ c.order \in Orders /\ c.order = event[f].order
        /\ c.at = event[f].at /\ ~IsCancel(f)
        /\ (Untroubled(c.order)' /\ Last(f) => c.op = "set" /\ c.seen = order[c.order].visit)
    BY <2>2, <2>3, <2>4, <2>6, <2>7 DEF IsCancel
  <2>9. ~IsCancel(f)' /\ (Last(f)' => Last(f)) /\ c.op # "reset"
    BY <2>4, <2>8, SteadyFacts
  <2>10. Writes(c)'
    BY <2>3, <2>8, <2>9 DEF Writes
  <2> QED BY <2>1, <2>10, WritesHere
<1>5. ASSUME NEW o \in Orders, Relink(s, o) PROVE Writes(syncer[s])'
  <2>1. PICK c : c = syncer'[s]
    OBVIOUS
  <2>2. c.e = 0 /\ c.op = "set" /\ c.order = o
    BY <1>0, <1>5, <2>1 DEF Relink, Now
  <2>3. "relink" \in upset'[o]
    BY <1>5 DEF Relink, Upset, SyncInv, SyncTypes
  <2>4. Writes(c)'
    BY <2>2, <2>3 DEF Writes, Untroubled
  <2> QED BY <2>1, <2>4, WritesHere
<1>6. CASE Reset(s)
  <2>1. PICK c : c = syncer'[s]
    OBVIOUS
  <2>2. c.e = 0 /\ c.op = "reset"
    BY <1>0, <1>6, <2>1 DEF Reset, Now
  <2>3. \A o \in Orders : "reset" \in upset'[o]
    BY <1>6 DEF Reset
  <2>4. Writes(c)'
    BY <2>2, <2>3 DEF Writes, Untroubled
  <2> QED BY <2>1, <2>4, WritesHere
<1> QED BY <1>1, <1>2, <1>3, <1>4, <1>5, <1>6, NewCalls

\* The last action of an order is never superseded, and no other write gets past it.
LEMMA LastWrites ==
  ASSUME AgreeInv, NEW s \in Syncers, ApplyBookingProjection(s), NEW e \in Events, Last(e),
         NEW o, o = event[e].order, o \in Orders, Untroubled(o), upset'[o] = {}, syncer[s].e = e
  PROVE  /\ row'.at[o] = event[e].at
         /\ IF IsCancel(e) THEN row'.linked[o] = 0
            ELSE row'.linked[o] = row'.at[o] /\ ~row'.deleted[o] /\ row'.seen[o] = order[o].visit
<1> DEFINE c == syncer[s]
           t == event[e].at
           late == Superseded(row, c.op, c.order, c.at, Newer(c.order, c.at))
<1>1. /\ SyncInv /\ RowOK(row) /\ c \in Calls /\ Writes(c) /\ c.pc = "write" /\ c.seen \in Nat
      /\ c.op \in {"set", "clear", "reset"} /\ e # 0 /\ c.e = e
  BY NoCallFacts DEF AgreeInv, SyncInv, SyncTypes, AllWrites, ApplyBookingProjection, At, Calls
<1>2. /\ c.order = o /\ c.at = t /\ c.op \in {"set", "clear"}
      /\ IF IsCancel(e) THEN c.op = "clear" ELSE c.op = "set" /\ c.seen = order[o].visit
  BY <1>1 DEF Writes
<1>3. row' = Apply(row, c.op, o, t, c.seen, Newer(o, t)) /\ t \in Moments /\ Newer(o, t) \in BOOLEAN
  BY <1>1, <1>2, TypeApply DEF Newer
<1>4. t \in Nat /\ t # 0 /\ row.reset = 0 /\ (row.at[o] = 0 \/ FromEvent(o, row.at[o]))
  BY <1>3, MomentsNat DEF AgreeInv, History, RowTold, Last
<1>5. \A f \in Of(o) : event[f].at <= t /\ event[f].at \in Nat
  BY <1>1, MomentsNat DEF Last, Of, SyncInv, SyncTypes, Actions
<1>6. row.at[o] \in Nat /\ row.at[o] <= t
  BY <1>4, <1>5 DEF FromEvent
<1>7. Version(row, o) = row.at[o]
  BY <1>1, <1>4, <1>6, VersionIs DEF Greatest
<1>8. row.at[o] = t => Tells(e)
  BY DEF AgreeInv, LastTold
<1>9. ~late
  <2>1. ~Newer(o, t)
    BY <1>4, <1>5 DEF Newer
  <2>2. ~(t < Version(row, o)) /\ t # row.reset
    BY <1>4, <1>6, <1>7
  <2>3. t = Version(row, o) /\ c.op = "set" => ~row.deleted[o]
    BY <1>2, <1>7, <1>8 DEF Tells
  <2> QED BY <1>2, <2>1, <2>2, <2>3 DEF Superseded
<1>10. c.op = "set" => row'.linked[o] # 0
  <2>1. c.op = "set" => o \notin (Listed(row) \cup {o}) \ Listed(row')
    BY <1>2, <1>9 DEF ApplyBookingProjection
  <2> QED BY <2>1 DEF Listed
<1>11. CASE row' = row /\ t = Version(row, o) /\ c.op = "set"
  BY <1>2, <1>7, <1>8, <1>11 DEF Tells
<1>12. CASE /\ row'.at[o] = t
            /\ c.op = "clear" => row'.linked[o] = 0
            /\ c.op = "set" => row'.linked[o] \in {0, t} /\ ~row'.deleted[o] /\ row'.seen[o] = c.seen
  BY <1>2, <1>10, <1>12
<1> HIDE DEF c, t
<1>13. ~Superseded(row, c.op, o, t, Newer(o, t))
  BY <1>2, <1>9
<1> QED BY <1>1, <1>2, <1>3, <1>11, <1>12, <1>13, ApplyOwn

LEMMA OthersWrite ==
  ASSUME AgreeInv, NEW s \in Syncers, ApplyBookingProjection(s), NEW e \in Events, Last(e),
         NEW o, o = event[e].order, o \in Orders, Untroubled(o), upset'[o] = {}, syncer[s].e # e
  PROVE  /\ row'.at[o] = event[e].at => row.at[o] = event[e].at
         /\ row.at[o] = event[e].at => /\ row'.at[o] = row.at[o] /\ row'.linked[o] = row.linked[o]
                                       /\ row'.deleted[o] = row.deleted[o] /\ row'.seen[o] = row.seen[o]
<1> DEFINE c == syncer[s]
           p == c.order
           late == Superseded(row, c.op, p, c.at, Newer(p, c.at))
<1>1. /\ SyncInv /\ RowOK(row) /\ Fits(row) /\ c \in Calls /\ Writes(c) /\ c.pc = "write" /\ c.seen \in Nat
      /\ c.op \in {"set", "clear", "reset"} /\ (c.e # 0 => Happened(c.e))
  BY DEF AgreeInv, SyncInv, SyncTypes, CallShape, AllWrites, ApplyBookingProjection, At, Calls
<1>2. c.op \in {"set", "clear"}
  BY <1>1 DEF Writes
<1>3. /\ p \in Orders /\ c.at \in Moments /\ Newer(p, c.at) \in BOOLEAN
      /\ row' = Apply(row, c.op, p, c.at, c.seen, Newer(p, c.at))
  BY <1>2, <1>1, TypeApply DEF Newer
<1>4. ~(c.op = "set" /\ ~late /\ o \in Listed(row) /\ o \notin Listed(row'))
  BY <1>2 DEF ApplyBookingProjection
<1>5. CASE p # o
  BY <1>1, <1>2, <1>3, <1>4, <1>5, ApplyOther
<1>6. CASE p = o
  <2>1. c.e # 0 /\ c.e \in Of(o) /\ c.at = event[c.e].at
    BY <1>1, <1>2, <1>6 DEF Writes, Of, Happened
  <2>2. event[c.e].at <= event[e].at /\ event[c.e].at # event[e].at
    BY <2>1 DEF Last, AgreeInv, History, Of, Happened
  <2>3. c.at \in Nat /\ event[e].at \in Nat /\ c.at < event[e].at
    <3>1. c.at \in Nat /\ event[e].at \in Nat
      BY <1>1, <1>3, MomentsNat DEF SyncInv, SyncTypes, Actions
    <3>2. c.at <= event[e].at /\ c.at # event[e].at
      BY <2>1, <2>2
    <3> QED BY <3>1, <3>2
  <2>4. row'.at[o] \in {row.at[o], c.at}
    BY <1>1, <1>2, <1>3, <1>6, ApplyKeepsReset
  <2>5. CASE row.at[o] = event[e].at
    <3>1. Version(row, o) \in Nat /\ Version(row, o) >= event[e].at
      BY <1>1, <2>5, RowFields DEF RowOK
    <3>2. c.at < Version(row, o)
      BY <2>3, <3>1
    <3> QED BY <1>3, <1>6, <3>2 DEF Apply, Superseded
  <2>6. CASE row.at[o] # event[e].at
    BY <2>3, <2>4, <2>6
  <2> QED BY <2>5, <2>6
<1> QED BY <1>5, <1>6

LEMMA SyncedFrom ==
  ASSUME SyncInv, [BookingNext]_bookingVars, NEW e \in Events, event'[e].st = "synced"
  PROVE  Written(e)
<1>1. ASSUME NEW f \in Events, NEW kind, NEW o, NEW t, CarryOut(f, kind, o, t) PROVE event[e].st = "synced"
  BY <1>1 DEF CarryOut, SyncInv, SyncTypes
<1>2. ASSUME NEW f \in Events, Record(f) PROVE event[e].st = "synced"
  BY <1>2 DEF Record, SyncInv, SyncTypes, Actions
<1>3. ASSUME NEW s \in Syncers, Synced(s) PROVE event[e].st = "synced" \/ syncer[s].e = e
  BY <1>3 DEF Synced, SyncInv, SyncTypes, Actions
<1>4. ASSUME NEW s \in Syncers, FetchSignupWorkOrders(s) PROVE Written(e)
  <2>1. syncer[s].e \in Events /\ Happened(syncer[s].e)
    BY <1>4 DEF FetchSignupWorkOrders, SyncInv, CallShape, Happened
  <2> QED BY <1>3, <1>4, <2>1 DEF FetchSignupWorkOrders, Written, IsCancel
<1>5. ASSUME NEW s \in Syncers, DeleteCache(s) PROVE Written(e)
  BY <1>3, <1>5 DEF DeleteCache, Written
<1> QED BY <1>1, <1>2, <1>4, <1>5 DEF Written, BookingNext, bookingVars, BeginSync, ListCatchesUp, EndedOutside,
         Relink, ApplyBookingProjection, BreakOff, Reset, ReadRow, FillCache, CacheExpires

LEMMA LastToldSteady ==
  ASSUME AgreeInv, Steady, [BookingNext]_bookingVars
  PROVE  LastTold'
<1> SUFFICES ASSUME NEW e \in Events, Last(e)', NEW o, o = event[e].order, Untroubled(o)'
             PROVE  /\ order'[o].st = IF IsCancel(e)' THEN "ended" ELSE "active"
                    /\ row'.at[o] = event'[e].at =>
                         IF IsCancel(e)' THEN row'.linked[o] = 0
                         ELSE row'.linked[o] = row'.at[o] /\ ~row'.deleted[o] /\ row'.seen[o] = order'[o].visit
                    /\ Written(e)' => row'.at[o] = event'[e].at
  <2>1. \A e \in Events : event'[e].order = event[e].order
    BY DEF Steady, SameActions
  <2> QED BY <2>1 DEF LastTold, Tells, Untroubled
<1>1. SyncInv /\ SyncInv' /\ LastTold
  BY SyncStep DEF AgreeInv
<1>2. /\ Last(e) /\ event'[e].at = event[e].at /\ (IsCancel(e)' <=> IsCancel(e)) /\ Happened(e) /\ e # 0
  BY <1>1, SteadyFacts, NoCallFacts DEF Last
<1>3. o \in Orders /\ Untroubled(o) /\ order'[o] = order[o] /\ upset'[o] = {}
  <2>1. o \in Orders
    BY <1>1, <1>2 DEF SyncInv, CallShape
  <2> QED BY <1>1, <2>1, SteadyFacts DEF Steady, Untroubled
<1>4. /\ order[o].st = IF IsCancel(e) THEN "ended" ELSE "active"
      /\ row.at[o] = event[e].at =>
           IF IsCancel(e) THEN row.linked[o] = 0
           ELSE row.linked[o] = row.at[o] /\ ~row.deleted[o] /\ row.seen[o] = order[o].visit
      /\ Written(e) => row.at[o] = event[e].at
  BY <1>1, <1>2, <1>3 DEF LastTold, Tells
<1>5. CASE \E s \in Syncers : ApplyBookingProjection(s)
  <2> PICK s \in Syncers : ApplyBookingProjection(s)
    BY <1>5
  <2>1. CASE syncer[s].e = e
    BY <1>2, <1>3, <1>4, <2>1, LastWrites
  <2>2. CASE syncer[s].e # e
    <3>1. Written(e)' => Written(e)
      <4>1. /\ UNCHANGED event /\ syncer'[s].e # e /\ \A z \in Syncers : z # s => syncer'[z] = syncer[z]
        BY <1>1, <2>2 DEF ApplyBookingProjection, NoCall, SyncInv, SyncTypes
      <4> QED BY <1>2, <4>1 DEF Written, At
    <3>2. /\ row'.at[o] = event[e].at => row.at[o] = event[e].at
          /\ row.at[o] = event[e].at => /\ row'.at[o] = row.at[o] /\ row'.linked[o] = row.linked[o]
                                        /\ row'.deleted[o] = row.deleted[o] /\ row'.seen[o] = row.seen[o]
      BY <1>2, <1>3, <2>2, OthersWrite
    <3> QED BY <1>2, <1>3, <1>4, <3>1, <3>2
  <2> QED BY <2>1, <2>2
<1>6. CASE row' = row /\ ~\E s \in Syncers : ApplyBookingProjection(s)
  <2>1. Written(e)' => Written(e)
    <3>1. event'[e].st = "synced" => Written(e)
      BY <1>1, <1>2, SyncedFrom
    <3>2. ASSUME NEW s \in Syncers, syncer'[s].e = e, syncer'[s].pc = "uncache" \/ (syncer'[s].pc = "read" /\ IsCancel(e))
          PROVE  Written(e)
      <4>1. ~(\E f \in Events : syncer'[s].e = f /\ syncer'[s].pc = Opening(f))
        BY <3>2 DEF Opening, IsCancel
      <4>2. syncer'[s] = syncer[s] \/ (DeleteCache(s) /\ syncer'[s].e = syncer[s].e)
        BY <1>1, <1>2, <1>6, <3>2, <4>1, CallsMove, NoCallFacts DEF CallsGo
      <4> QED BY <3>2, <4>2 DEF Written, DeleteCache, At
    <3> QED BY <1>2, <3>1, <3>2 DEF Written, At
  <2> QED BY <1>2, <1>3, <1>4, <1>6, <2>1
<1> QED BY <1>5, <1>6, RowWritten

LEMMA CarryOutFacts ==
  ASSUME AgreeInv, NEW e \in Events, NEW kind \in {"booking", "modify", "cancel"}, NEW o \in Orders,
         NEW t \in Times, CarryOut(e, kind, o, t)
  PROVE  /\ event'[e] = [kind |-> kind, order |-> o, at |-> t, st |-> "landed"]
         /\ \A f \in Events : f # e => event'[f] = event[f]
         /\ \A p \in Orders : p # o => order'[p] = order[p] /\ upset'[p] = upset[p] /\ Of(p)' = Of(p)
         /\ Of(o)' = Of(o) \cup {e} /\ e \notin Of(o)
         /\ \A p \in Orders : Untroubled(p)' => Untroubled(p)
         /\ Untroubled(o)' => \A f \in Of(o) : event[f].at < t
         /\ order'[o].st = (IF kind = "cancel" THEN "ended" ELSE "active")
<1>1. SyncInv
  BY DEF AgreeInv
<1>2. /\ event[e].st = "none"
      /\ event' = [event EXCEPT ![e] = [kind |-> kind, order |-> o, at |-> t, st |-> "landed"]]
  BY DEF CarryOut
<1>3. /\ event'[e] = [kind |-> kind, order |-> o, at |-> t, st |-> "landed"]
      /\ \A f \in Events : f # e => event'[f] = event[f]
  BY <1>1, <1>2 DEF SyncInv, SyncTypes
<1>4. (\A p \in Orders : p # o => Of(p)' = Of(p)) /\ Of(o)' = Of(o) \cup {e} /\ e \notin Of(o)
  BY <1>2, <1>3 DEF Of
<1>5. \A p \in Orders : p # o => order'[p] = order[p] /\ upset'[p] = upset[p]
  BY <1>1 DEF CarryOut, SyncInv, SyncTypes
<1>6. upset'[o] = upset[o] \cup (IF \E f \in Of(o) : event[f].at > t THEN {"disorder"} ELSE {})
                         \cup (IF \E f \in Of(o) : event[f].at = t THEN {"tie"} ELSE {})
  BY <1>1 DEF CarryOut, SyncInv, SyncTypes
<1>7. Untroubled(o)' => Untroubled(o) /\ ~(\E f \in Of(o) : event[f].at > t) /\ ~(\E f \in Of(o) : event[f].at = t)
  BY <1>6 DEF Untroubled
<1>8. t \in Nat /\ \A f \in Of(o) : event[f].at \in Nat
  BY <1>1, BookingAssumption, MomentsNat DEF BookingAssumption, Of, SyncInv, SyncTypes, Actions
<1>9. Untroubled(o)' => \A f \in Of(o) : event[f].at < t
  BY <1>7, <1>8
<1>10. order'[o].st = (IF kind = "cancel" THEN "ended" ELSE "active")
  BY <1>1 DEF CarryOut, SyncInv, SyncTypes, WorkOrders
<1> QED BY <1>3, <1>4, <1>5, <1>7, <1>9, <1>10 DEF Untroubled

LEMMA AgreeCarryOut ==
  ASSUME AgreeInv, NEW e \in Events, NEW kind \in {"booking", "modify", "cancel"}, NEW o \in Orders,
         NEW t \in Times, CarryOut(e, kind, o, t)
  PROVE  AgreeInv'
<1>1. SyncInv /\ SyncInv' /\ History /\ RowTold /\ AllWrites /\ LastTold
  BY TypeCarryOut DEF AgreeInv
<1>2. /\ event'[e] = [kind |-> kind, order |-> o, at |-> t, st |-> "landed"]
      /\ \A f \in Events : f # e => event'[f] = event[f]
      /\ \A p \in Orders : p # o => order'[p] = order[p] /\ upset'[p] = upset[p] /\ Of(p)' = Of(p)
      /\ Of(o)' = Of(o) \cup {e} /\ e \notin Of(o)
      /\ \A p \in Orders : Untroubled(p)' => Untroubled(p)
      /\ Untroubled(o)' => \A f \in Of(o) : event[f].at < t
      /\ order'[o].st = (IF kind = "cancel" THEN "ended" ELSE "active")
  BY CarryOutFacts
<1>3. /\ UNCHANGED <<row, syncer>> /\ event[e].st = "none" /\ order'[o].st # "none"
      /\ order[o].st = "none" \/ order[o].st = "active"
  BY <1>2 DEF CarryOut
<1>4. t \in Nat /\ t # 0 /\ \A f \in Events : event[f].at \in Nat
  BY <1>1, BookingAssumption, MomentsNat DEF BookingAssumption, SyncInv, SyncTypes, Actions
<1>5. /\ Happened(e)' /\ ~Happened(e) /\ event'[e].order = o
      /\ \A f \in Events : f # e => /\ (Happened(f)' <=> Happened(f)) /\ (IsCancel(f)' <=> IsCancel(f))
                                    /\ (Happened(f) => event[f].order \in Orders)
  BY <1>1, <1>2, <1>3 DEF Happened, IsCancel, SyncInv, CallShape
\* The last action of another order stays the last, that of this order does not.
<1>6. ASSUME NEW f \in Events, f # e, event[f].order # o, Happened(f) PROVE Last(f)' <=> Last(f)
  <2>1. Of(event[f].order)' = Of(event[f].order) /\ event'[f] = event[f] /\ e \notin Of(event[f].order)
    BY <1>2, <1>3, <1>5, <1>6 DEF Of
  <2>2. \A g \in Of(event[f].order) : event'[g] = event[g]
    BY <1>2, <2>1 DEF Of
  <2>3. Of(event[f].order)' = {g \in Events : event'[g].order = event'[f].order /\ event'[g].st # "none"}
    BY <2>1 DEF Of
  <2> QED BY <1>5, <1>6, <2>1, <2>2, <2>3 DEF Last, Of
<1>7. ASSUME NEW f \in Events, f # e, event[f].order = o, Untroubled(o)', Last(f)' PROVE FALSE
  <2>1. f \in Of(o) /\ event'[f].at < t
    BY <1>2, <1>5, <1>7 DEF Last, Of, Happened
  <2>2. e \in Of(o)' /\ event'[f].order = o /\ event'[e].at = t
    BY <1>2, <1>7
  <2>3. t <= event'[f].at
    BY <1>2, <1>7, <2>2 DEF Last, Of
  <2> QED BY <1>2, <1>4, <1>7, <2>1, <2>3
<1>8. History'
  <2>1. \A f \in Events : Happened(f)' => event'[f].at # 0 /\ order'[event'[f].order].st # "none"
    BY <1>1, <1>2, <1>3, <1>4, <1>5 DEF History
  <2>2. ASSUME NEW p \in Orders, order'[p].st # "none" PROVE \E f \in Events : Last(f)' /\ event'[f].order = p
    <3>1. CASE p # o
      <4>1. PICK f \in Events : Last(f) /\ event[f].order = p
        BY <1>1, <1>2, <2>2, <3>1 DEF History
      <4>2. f # e /\ Happened(f)
        BY <1>5, <4>1 DEF Last
      <4> QED BY <1>2, <1>6, <3>1, <4>1, <4>2
    <3>2. CASE p = o /\ \A f \in Of(o) : event[f].at <= t
      <4>1. \A g \in Of(o)' : event'[g].at <= t
        BY <1>2, <1>4, <3>2 DEF Of
      <4>2. \A g \in Of(event[e].order)' : event'[g].at <= event'[e].at
        BY <1>2, <1>5, <4>1 DEF Of
      <4>3. Last(e)'
        BY <1>5, <4>2 DEF Last
      <4> QED BY <1>5, <3>2, <4>3
    <3>3. CASE p = o /\ \E f \in Of(o) : ~(event[f].at <= t)
      <4>1. PICK f \in Of(o) : ~(event[f].at <= t)
        BY <3>3
      <4>2. order[o].st # "none"
        BY <1>1, <4>1 DEF History, Of, Happened
      <4>3. PICK g \in Events : Last(g) /\ event[g].order = o
        BY <1>1, <4>2 DEF History
      <4>4. g # e /\ event'[g] = event[g] /\ Happened(g)'
        BY <1>2, <1>5, <4>3 DEF Last
      <4>5. \A h \in Of(o) : event'[h].at <= event'[g].at /\ event'[h] = event[h]
        BY <1>2, <4>3, <4>4 DEF Last, Of
      <4>6. t <= event'[g].at
        <5>1. event[f].at <= event[g].at
          BY <4>1, <4>3 DEF Last
        <5> QED BY <1>4, <4>1, <4>4, <5>1 DEF Of
      <4>7. \A h \in Of(o)' : event'[h].at <= event'[g].at
        BY <1>2, <4>5, <4>6
      <4>8. Last(g)'
        BY <4>3, <4>4, <4>7 DEF Last, Of
      <4> QED BY <3>3, <4>3, <4>4, <4>8
    <3> QED BY <3>1, <3>2, <3>3
  <2>3. ASSUME NEW p \in Orders, Untroubled(p)', NEW f \in Of(p)', NEW g \in Of(p)', event'[f].at = event'[g].at
        PROVE  f = g
    <3>1. CASE p # o
      <4>1. /\ Untroubled(p) /\ f \in Of(p) /\ g \in Of(p) /\ event'[f] = event[f] /\ event'[g] = event[g]
        BY <1>2, <1>5, <2>3, <3>1 DEF Of, Happened
      <4> QED BY <1>1, <2>3, <4>1 DEF History
    <3>2. CASE p = o
      <4>1. \A h \in Of(o) : event'[h] = event[h] /\ event[h].at \in Nat /\ event[h].at < t
        BY <1>2, <1>4, <2>3, <3>2 DEF Of
      <4>2. f \in Of(o) /\ g \in Of(o) => f = g
        BY <1>1, <1>2, <2>3, <3>2, <4>1 DEF History
      <4> QED BY <1>2, <1>4, <2>3, <3>2, <4>1, <4>2
    <3> QED BY <3>1, <3>2
  <2> QED BY <2>1, <2>2, <2>3 DEF History
<1>9. RowTold'
  <2> SUFFICES ASSUME NEW p \in Orders, Untroubled(p)'
               PROVE  row.reset = 0 /\ (row.at[p] = 0 \/ \E f \in Of(p)' : event'[f].at = row.at[p])
    BY <1>3 DEF RowTold, FromEvent
  <2>1. row.reset = 0 /\ (row.at[p] = 0 \/ \E f \in Of(p) : event[f].at = row.at[p])
    BY <1>1, <1>2 DEF RowTold, FromEvent
  <2>2. \A f \in Of(p) : f \in Of(p)' /\ event'[f].at = event[f].at
    BY <1>2, <1>3, <1>5 DEF Of, Happened
  <2> QED BY <2>1, <2>2
<1>10. AllWrites'
  <2> SUFFICES ASSUME NEW s \in Syncers PROVE Writes(syncer[s])'
    BY DEF AllWrites
  <2>1. PICK c : c = syncer[s]
    OBVIOUS
  <2>2. /\ Writes(c) /\ (c.e # 0 => c.e \in Events /\ Happened(c.e)) /\ syncer'[s] = c
        /\ c.pc = "write" => c.op = "reset" \/ c.order \in Orders
    BY <1>1, <1>3, <2>1 DEF AllWrites, SyncInv, CallShape, At, Happened
  <2>3. ASSUME c.pc = "write", c.e = 0
        PROVE  IF c.op = "reset" THEN \A p \in Orders : ~Untroubled(p)' ELSE ~Untroubled(c.order)'
    BY <1>2, <2>2, <2>3 DEF Writes
  <2>4. ASSUME c.pc = "write", c.e # 0
        PROVE  /\ c.op # "reset" /\ c.order = event'[c.e].order /\ c.at = event'[c.e].at
               /\ Untroubled(c.order)' /\ Last(c.e)' =>
                    IF IsCancel(c.e)' THEN c.op = "clear" ELSE c.op = "set" /\ c.seen = order'[c.order].visit
    <3> PICK f : f = c.e
      OBVIOUS
    <3>1. /\ f \in Events /\ f # e /\ Happened(f) /\ event'[f] = event[f] /\ (IsCancel(f)' <=> IsCancel(f))
          /\ c.op # "reset" /\ c.order = event[f].order /\ c.at = event[f].at /\ c.order \in Orders
          /\ (Untroubled(c.order) /\ Last(f) =>
                IF IsCancel(f) THEN c.op = "clear" ELSE c.op = "set" /\ c.seen = order[c.order].visit)
      BY <1>2, <1>5, <2>2, <2>4 DEF Writes
    <3>2. Untroubled(c.order)' /\ Last(f)' => c.order # o
      BY <1>7, <3>1
    <3>3. Untroubled(c.order)' /\ Last(f)' => Untroubled(c.order) /\ Last(f) /\ order'[c.order] = order[c.order]
      BY <1>2, <1>6, <3>1, <3>2
    <3> QED BY <3>1, <3>3
  <2>5. Writes(c)'
    BY <2>3, <2>4 DEF Writes
  <2> QED BY <2>2, <2>5, WritesHere
<1>11. LastTold'
  <2> SUFFICES ASSUME NEW f \in Events, Last(f)', NEW p, p = event'[f].order, Untroubled(p)'
               PROVE  /\ order'[p].st = IF IsCancel(f)' THEN "ended" ELSE "active"
                      /\ row.at[p] = event'[f].at =>
                           IF IsCancel(f)' THEN row.linked[p] = 0
                           ELSE row.linked[p] = row.at[p] /\ ~row.deleted[p] /\ row.seen[p] = order'[p].visit
                      /\ Written(f)' => row.at[p] = event'[f].at
    BY <1>3 DEF LastTold, Tells, Untroubled
  <2>1. CASE f = e
    <3>1. p = o /\ event'[f].at = t /\ (IsCancel(f)' <=> kind = "cancel")
      BY <1>2, <1>5, <2>1 DEF IsCancel
    <3>2. row.at[o] # t
      <4>1. row.at[o] = 0 \/ \E g \in Of(o) : event[g].at = row.at[o]
        BY <1>1, <1>2, <3>1 DEF RowTold, FromEvent
      <4> QED BY <1>2, <1>4, <3>1, <4>1 DEF Of
    <3>3. ~Written(f)'
      <4>1. \A s \in Syncers : syncer'[s].e # e
        BY <1>1, <1>3, <1>5, NoCallFacts DEF SyncInv, CallShape
      <4> QED BY <1>2, <2>1, <4>1 DEF Written
    <3> QED BY <1>2, <3>1, <3>2, <3>3
  <2>2. CASE f # e
    <3>1. /\ event'[f] = event[f] /\ Happened(f) /\ p \in Orders /\ p # o /\ (IsCancel(f)' <=> IsCancel(f))
      BY <1>2, <1>5, <1>7, <2>2 DEF Last
    <3>2. Last(f) /\ Untroubled(p) /\ order'[p] = order[p]
      BY <1>2, <1>6, <2>2, <3>1
    <3>3. Written(f)' => Written(f)
      BY <1>3, <3>1 DEF Written, At
    <3> QED BY <1>1, <3>1, <3>2, <3>3 DEF LastTold, Tells
  <2> QED BY <2>1, <2>2
<1>12. Fits(row)'
  BY <1>3 DEF AgreeInv, Fits, Listed, Ahead, Before
<1> QED BY <1>1, <1>8, <1>9, <1>10, <1>11, <1>12 DEF AgreeInv

LEMMA AgreeStep == AgreeInv /\ [BookingNext]_bookingVars => AgreeInv'
<1> SUFFICES ASSUME AgreeInv, [BookingNext]_bookingVars PROVE AgreeInv'
  OBVIOUS
<1>1. ASSUME Steady PROVE AgreeInv'
  BY <1>1, SyncStep, FitsKept, HistorySteady, RowToldSteady, AllWritesSteady, LastToldSteady DEF AgreeInv
<1> QED BY <1>1, StepSteady, AgreeCarryOut DEF AgreeInv

\* PointersAgree for any orders, actions, syncers, times and length of the list: in whatever order
\* and however often the actions of an order are projected, once all are, the row lists the order
\* exactly if it is active, with its current interview, outside the troubles that the code cannot know.
THEOREM PointersAgreeHolds == BookingSpec => []PointersAgree
<1> QED BY AgreeInitially, AgreeStep, AgreeGives, PTL DEF BookingSpec
-----------------------------------------------------------------------------
(* Types, with the length of the list. *)

\* A row that fits has as many places taken as entries are before its last, and one more.
LEMMA FitsBounds ==
  ASSUME NEW r, RowOK(r), Fits(r)
  PROVE  Cardinality(Listed(r)) <= MaxListed
<1> DEFINE L == Listed(r)
           place == [o \in L |-> Cardinality(Ahead(r, o))]
<1>1. /\ MaxListed \in Nat /\ MaxListed >= 1 /\ IsFiniteSet(Orders) /\ L \subseteq Orders
      /\ \A o \in L : o \in Nat /\ r.linked[o] \in Nat
  BY RowFields, BookingAssumption DEF BookingAssumption, Listed, RowOK
<1>2. \A o \in L : /\ Ahead(r, o) \subseteq L /\ IsFiniteSet(Ahead(r, o))
                   /\ Cardinality(Ahead(r, o)) \in Nat /\ Cardinality(Ahead(r, o)) < MaxListed
  <2> SUFFICES ASSUME NEW o \in L
               PROVE  /\ Ahead(r, o) \subseteq L /\ IsFiniteSet(Ahead(r, o))
                      /\ Cardinality(Ahead(r, o)) \in Nat /\ Cardinality(Ahead(r, o)) < MaxListed
    OBVIOUS
  <2>1. Ahead(r, o) \subseteq L /\ Ahead(r, o) \subseteq Orders
    BY <1>1 DEF Ahead
  <2>2. IsFiniteSet(Ahead(r, o))
    BY <1>1, <2>1, FS_Subset
  <2> QED BY <2>1, <2>2, FS_CardinalityType DEF Fits
<1>3. ASSUME NEW o \in L, NEW p \in L, Before(r, p, o)
      PROVE  Cardinality(Ahead(r, p)) < Cardinality(Ahead(r, o))
  <2>1. p \notin Ahead(r, p) /\ Ahead(r, p) \cup {p} \subseteq Ahead(r, o)
    BY <1>1, <1>3 DEF Ahead, Before
  <2>2. Cardinality(Ahead(r, p) \cup {p}) = Cardinality(Ahead(r, p)) + 1
    BY <1>2, <2>1, FS_AddElement
  <2>3. Cardinality(Ahead(r, p) \cup {p}) <= Cardinality(Ahead(r, o))
    BY <1>2, <2>1, FS_Subset
  <2> QED BY <1>2, <2>2, <2>3
<1>4. ASSUME NEW o \in L, NEW p \in L, o # p PROVE Before(r, p, o) \/ Before(r, o, p)
  BY <1>1, <1>4 DEF Before
<1>5. place \in Injection(L, 0 .. MaxListed - 1)
  <2>1. place \in [L -> 0 .. MaxListed - 1]
    BY <1>1, <1>2
  <2>2. ASSUME NEW o \in L, NEW p \in L, place[o] = place[p] PROVE o = p
    BY <1>2, <1>3, <1>4, <2>2
  <2> HIDE DEF place
  <2> QED BY <2>1, <2>2 DEF Injection, IsInjective
<1> HIDE DEF place
<1>6. IsFiniteSet(0 .. MaxListed - 1) /\ Cardinality(0 .. MaxListed - 1) = MaxListed
  BY <1>1, FS_Interval
<1> QED BY <1>5, <1>6, FS_Injection

CacheTypes == cache \in Views /\ reader \in [Readers -> Views] /\ clock \in Times /\ blurred \in BOOLEAN

BookingTypeInv == SyncInv /\ Fits(row) /\ CacheTypes

LEMMA BookingTypesStart == BookingInit => BookingTypeInv
<1> SUFFICES ASSUME BookingInit PROVE BookingTypeInv
  OBVIOUS
<1>1. Fits(row)
  BY CacheInitially DEF CacheInv
<1>2. CacheTypes
  BY SyncAssumption DEF SyncAssumption, BookingInit, CacheTypes, Views
<1> QED BY <1>1, <1>2, SyncInitially DEF BookingTypeInv

LEMMA AgedView == ASSUME NEW v \in Views PROVE Aged(v) \in Views
  BY DEF Aged, Views

LEMMA LaterTime == ASSUME clock \in Times, NEW t \in Times PROVE Greatest(clock, t) \in Times
  BY DEF Greatest

LEMMA CacheTypesStep == ASSUME CacheTypes, [BookingNext]_bookingVars PROVE CacheTypes'
<1>0. cache \in Views /\ reader \in [Readers -> Views] /\ clock \in Times /\ blurred \in BOOLEAN
  BY DEF CacheTypes
<1>1. ASSUME NEW e \in Events, NEW kind, NEW o, NEW t \in Times, CarryOut(e, kind, o, t) PROVE CacheTypes'
  BY <1>0, <1>1, LaterTime DEF CarryOut, CacheTypes
<1>2. ASSUME NEW e \in Events, Record(e) PROVE CacheTypes'
  BY <1>0, <1>2 DEF Record, readers, CacheTypes
<1>3. ASSUME NEW s \in Syncers, NEW e \in Events, BeginSync(s, e) PROVE CacheTypes'
  BY <1>0, <1>3 DEF BeginSync, readers, CacheTypes
<1>4. ASSUME NEW o \in Orders, ListCatchesUp(o) \/ EndedOutside(o) PROVE CacheTypes'
  BY <1>0, <1>4 DEF ListCatchesUp, EndedOutside, readers, CacheTypes
<1>5. ASSUME NEW s \in Syncers, NEW o \in Orders, Relink(s, o) PROVE CacheTypes'
  BY <1>0, <1>5 DEF Relink, Now, CacheTypes
<1>6. ASSUME NEW s \in Syncers, FetchSignupWorkOrders(s) PROVE CacheTypes'
  BY <1>0, <1>6 DEF FetchSignupWorkOrders, readers, CacheTypes
<1>7. ASSUME NEW s \in Syncers, ApplyBookingProjection(s) PROVE CacheTypes'
  <2>1. cache' \in Views /\ \A r \in Readers : Aged(reader[r]) \in Views
    BY <1>0, <1>7, AgedView DEF ApplyBookingProjection
  <2> QED BY <1>0, <1>7, <2>1 DEF ApplyBookingProjection, CacheTypes
<1>8. ASSUME NEW s \in Syncers, DeleteCache(s) PROVE CacheTypes'
  BY <1>0, <1>8 DEF DeleteCache, readers, CacheTypes, Views
<1>9. ASSUME NEW s \in Syncers, BreakOff(s) PROVE CacheTypes'
  BY <1>0, <1>9 DEF BreakOff, readers, CacheTypes
<1>10. ASSUME NEW s \in Syncers, Reset(s) PROVE CacheTypes'
  BY <1>0, <1>10 DEF Reset, Now, CacheTypes
<1>11. ASSUME NEW r \in Readers, ReadRow(r) \/ FillCache(r) PROVE CacheTypes'
  BY <1>0, <1>11 DEF ReadRow, FillCache, CacheTypes, Views
<1>12. CASE CacheExpires
  BY <1>0, <1>12 DEF CacheExpires, readers, CacheTypes, Views
<1>13. CASE UNCHANGED bookingVars
  BY <1>0, <1>13 DEF bookingVars, readers, CacheTypes
<1> QED BY <1>1, <1>2, <1>3, <1>4, <1>5, <1>6, <1>7, <1>8, <1>9, <1>10, <1>11, <1>12, <1>13 DEF BookingNext

LEMMA BookingTypesStep == BookingTypeInv /\ [BookingNext]_bookingVars => BookingTypeInv'
  BY SyncStep, FitsKept, CacheTypesStep DEF BookingTypeInv

\* BookingTypeOK for any orders, actions, syncers and readers: above all, the list never holds
\* more than MaxListed orders, although nothing counts it but the ranking of its entries.
THEOREM BookingTypes == BookingSpec => []BookingTypeOK
<1>1. BookingTypeInv => BookingTypeOK
  <2> SUFFICES ASSUME BookingTypeInv PROVE BookingTypeOK
    OBVIOUS
  <2>1. Cardinality(Listed(row)) <= MaxListed /\ row \in Rows
    BY FitsBounds DEF BookingTypeInv, SyncInv, SyncTypes, RowOK
  <2>2. \A e \in Events : /\ event[e].kind \in {"booking", "modify", "cancel"}
                          /\ event[e].order \in Orders \cup {0} /\ event[e].at \in Moments
                          /\ event[e].st \in {"none", "landed", "succeeded", "synced"}
    BY DEF BookingTypeInv, SyncInv, SyncTypes, Actions, Statuses
  <2>3. \A s \in Syncers : /\ syncer[s].pc \in {"idle", "read", "write", "uncache"}
                           /\ syncer[s].e \in Events \cup {0} /\ syncer[s].order \in Orders \cup {0}
                           /\ syncer[s].at \in Moments /\ syncer[s].then \in {"idle", "read", "synced"}
    BY DEF BookingTypeInv, SyncInv, SyncTypes, Calls
  <2> QED BY <2>1, <2>2, <2>3 DEF BookingTypeInv, SyncInv, SyncTypes, CacheTypes, WorkOrders, BookingTypeOK
<1> QED BY <1>1, BookingTypesStart, BookingTypesStep, PTL DEF BookingSpec
=============================================================================
