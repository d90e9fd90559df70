------------------------- MODULE ActionEffectProofs -------------------------
(***************************************************************************)
(* Theorems about ActionExecution for every set of actions, resources,     *)
(* callers and recovery workers and every value of the bounds: at most one *)
(* external effect per action, and what the recorded outcome says of it.   *)
(***************************************************************************)
EXTENDS ActionExecutionProofs, FiniteSetTheorems

-----------------------------------------------------------------------------
(* The inductive invariant.  A claim starts the only attempt that can      *)
(* still take effect: the attempts before it are dead or were never sent,  *)
(* and whoever concludes something about an attempt says what became of    *)
(* its request.  While a caller is between its claim and its dispatch the  *)
(* row stays in doubt, because nobody else can conclude that attempt.      *)
(***************************************************************************)

Fresh == {"recheck", "validate", "dispatch"}
Concluding == {"save", "resave", "enqueue", "settle"}
Telling == Fresh \cup Concluding \cup {"wait"}

\* The conclusion c about a request of fate f is right.
Truth(f, c) ==
  /\ c = "succeeded" => f = "landed"
  /\ c = "retryable" => f = "dead"
  /\ c = "failed" => f \in {"unsent", "dead"} \/ (Misreports /\ f = "landed")

\* Row r fits the fates f of the attempts of its action.
RowFits(r, f) ==
  /\ r.attempt <= r.fence
  /\ r.status \in {"executing", "unknown", "succeeded", "failed"} => r.attempt \in Attempts
  /\ r.status \in {"absent", "registered", "cancelled"} => r.attempt = 0
  /\ \A t \in Attempts : /\ t # r.attempt => f[t] \in {"unsent", "dead"}
                         /\ t > r.attempt => f[t] = "unsent"
  /\ r.status = "succeeded" => Truth(f[r.attempt], "succeeded")
  /\ r.status = "failed" => Truth(f[r.attempt], IF r.retryable THEN "retryable" ELSE "failed")

\* A lease of the current fence names the current attempt.
LeaseFits(r, l) ==
  /\ l.fence <= r.fence /\ l.attempt <= r.attempt
  /\ l.fence = r.fence => l.attempt = r.attempt

RowsFit == \A a \in Actions : RowFits(row[a], wire[a])

LeasesFit ==
  /\ \A w \in Workers : work[w].act \in Actions => LeaseFits(row[work[w].act], work[w].lease)
  /\ \A j \in jobs : LeaseFits(row[j.act], j.lease)

Told ==
  /\ \A a \in Actions : \A p \in evidence[a] :
       p[1] \in Attempts /\ p[1] <= row[a].attempt /\ Truth(wire[a][p[1]], p[2])
  /\ \A j \in jobs : j.lease.attempt \in Attempts /\ Truth(wire[j.act][j.lease.attempt], j.out)
  /\ \A w \in Workers : /\ work[w].pc \in Telling \cup {"read"} => work[w].lease.attempt \in Attempts
                        /\ work[w].pc \in Concluding =>
                             Truth(wire[work[w].act][work[w].lease.attempt], work[w].out)

\* Worker k is about to send attempt t of a.
About(k, a, t) == k.pc \in Fresh /\ k.act = a /\ k.lease.attempt = t

\* Worker k has or may get a conclusion about attempt t of a.
Tells(k, a, t) == /\ k.pc \in Telling /\ k.act = a /\ k.lease.attempt = t
                  /\ ~(k.pc = "settle" /\ k.out = "unknown")

FreshAlone ==
  \A e \in Workers, a \in Actions, t \in Attempts : About(work[e], a, t) =>
    /\ t = row[a].attempt /\ InDoubt(row[a]) /\ wire[a][t] = "unsent"
    /\ \A p \in evidence[a] : p[1] # t
    /\ \A j \in jobs : ~(j.act = a /\ j.lease.attempt = t)
    /\ \A w \in Workers \ {e} : ~Tells(work[w], a, t)

\* Only callers send.
CallersOnly == \A w \in Workers : work[w].pc \in Fresh => w \in Executors

EffectInv == RowsFit /\ LeasesFit /\ Told /\ FreshAlone /\ CallersOnly

\* Nobody is about to send attempt t of a.
NotFresh(a, t) == \A e \in Workers : ~About(work[e], a, t)

LEMMA EffectInitially == Init => EffectInv
<1> SUFFICES ASSUME Init PROVE EffectInv
  OBVIOUS
<1>1. \A a \in Actions : row[a] = NoRow /\ evidence[a] = {} /\ \A t \in Attempts : wire[a][t] = "unsent"
  BY DEF Init
<1>2. NoRow.attempt = 0 /\ NoRow.fence = 0 /\ NoRow.status = "absent"
  BY DEF NoRow
<1>3. \A w \in Workers : work[w].pc = "idle" /\ work[w].act \notin Actions
  BY ExecutionAssumption DEF Init, Idle, ExecutionAssumption
<1>4. jobs = {}
  BY DEF Init
<1>5. \A t \in Attempts : t \in Nat /\ t > 0
  BY ExecutionAssumption DEF Attempts, ExecutionAssumption
<1>6. RowsFit
  BY <1>1, <1>2, <1>5 DEF RowsFit, RowFits
<1> QED BY <1>1, <1>3, <1>4, <1>6 DEF EffectInv, LeasesFit, Told, FreshAlone, CallersOnly, About, Telling, Fresh, Concluding

-----------------------------------------------------------------------------
(* Steps that send nothing, claim nothing and leave the provider alone.    *)

\* A row that keeps its attempt, and its outcome unless that is in doubt.
SameAttempt(r, q) == q.attempt = r.attempt /\ r.fence <= q.fence

\* Worker k goes on as m.
GoesOn(k, m) ==
  /\ m.act = k.act /\ m.lease = k.lease
  /\ m.pc \in Telling \cup {"read"} =>
       \/ m.pc = k.pc /\ m.out = k.out
       \/ m.pc \in Fresh /\ k.pc \in Fresh
       \/ m.pc \in {"save", "resave", "enqueue"} /\ k.pc \in Telling \ {"settle"}
          /\ Truth(wire[k.act][k.lease.attempt], m.out)
       \/ m.pc = "settle" /\ k.pc = "read" /\ Truth(wire[k.act][k.lease.attempt], m.out)
          /\ (m.out = "unknown" \/ NotFresh(k.act, k.lease.attempt))

\* Worker begins or ends as m.
Enters(m) ==
  \/ m.act \notin Actions /\ m.pc = "idle"
  \/ /\ m.act \in Actions /\ LeaseFits(row'[m.act], m.lease)
     /\ m.pc \notin Telling /\ (m.pc = "read" => m.lease.attempt \in Attempts)

\* A conclusion about attempt t of a may be stored.
Sayable(a, t, c) ==
  t \in Attempts /\ t <= row[a].attempt /\ Truth(wire[a][t], c) /\ NotFresh(a, t)

LEMMA EffectAside ==
  ASSUME TypeOK, TypeOK', EffectInv, wire' = wire,
         \A a \in Actions : /\ SameAttempt(row[a], row'[a]) /\ RowFits(row'[a], wire[a])
                            /\ InDoubt(row[a]) /\ ~InDoubt(row'[a]) => NotFresh(a, row[a].attempt),
         \A a \in Actions : \A p \in evidence'[a] : p \in evidence[a] \/ Sayable(a, p[1], p[2]),
         \A j \in jobs' : j \in jobs \/ (/\ j.act \in Actions /\ Sayable(j.act, j.lease.attempt, j.out)
                                         /\ LeaseFits(row[j.act], j.lease)),
         \A w \in Workers : GoesOn(work[w], work'[w]) \/ Enters(work'[w])
  PROVE  EffectInv'
<1>1. RowsFit'
  BY DEF RowsFit
<1>2. /\ \A a \in Actions : row[a] \in Rows /\ row'[a] \in Rows
      /\ \A w \in Workers : work[w] \in Works /\ work'[w] \in Works
      /\ \A w \in Workers : work[w].pc # "idle" => work[w].act \in Actions
      /\ \A w \in Workers : work'[w].pc # "idle" => work'[w].act \in Actions
      /\ \A j \in jobs : j \in [act: Actions, lease: Leases, out: Completions]
      /\ \A j \in jobs' : j \in [act: Actions, lease: Leases, out: Completions]
  BY DEF TypeOK, Works
<1>3. ASSUME NEW a \in Actions, NEW l \in Leases, LeaseFits(row[a], l) PROVE LeaseFits(row'[a], l)
  <2>1. /\ row[a].fence \in Nat /\ row'[a].fence \in Nat /\ row[a].attempt \in Nat
        /\ row'[a].attempt = row[a].attempt /\ row[a].fence <= row'[a].fence /\ l.fence \in Nat
    BY <1>2 DEF Rows, SameAttempt, Leases
  <2> QED BY <1>3, <2>1 DEF LeaseFits
<1>4. LeasesFit'
  <2>1. ASSUME NEW w \in Workers, work'[w].act \in Actions
        PROVE  LeaseFits(row'[work'[w].act], work'[w].lease)
    <3>1. CASE GoesOn(work[w], work'[w])
      <4>1. work[w].lease \in Leases /\ LeaseFits(row[work[w].act], work[w].lease)
        BY <1>2, <2>1, <3>1 DEF GoesOn, Works, EffectInv, LeasesFit
      <4> QED BY <1>3, <2>1, <3>1, <4>1 DEF GoesOn
    <3>2. CASE Enters(work'[w])
      BY <2>1, <3>2 DEF Enters
    <3> QED BY <3>1, <3>2
  <2>2. ASSUME NEW j \in jobs' PROVE LeaseFits(row'[j.act], j.lease)
    <3>1. j.lease \in Leases /\ j.act \in Actions /\ LeaseFits(row[j.act], j.lease)
      BY <1>2, <2>2 DEF EffectInv, LeasesFit
    <3> QED BY <1>3, <3>1
  <2> QED BY <2>1, <2>2 DEF LeasesFit
<1>5. Told'
  <2>1. ASSUME NEW a \in Actions, NEW p \in evidence'[a]
        PROVE  p[1] \in Attempts /\ p[1] <= row'[a].attempt /\ Truth(wire[a][p[1]], p[2])
    BY <2>1 DEF SameAttempt, EffectInv, Told, Sayable
  <2>2. ASSUME NEW j \in jobs' PROVE j.lease.attempt \in Attempts /\ Truth(wire[j.act][j.lease.attempt], j.out)
    BY <2>2 DEF EffectInv, Told, Sayable
  <2>3. ASSUME NEW w \in Workers
        PROVE  /\ work'[w].pc \in Telling \cup {"read"} => work'[w].lease.attempt \in Attempts
               /\ work'[w].pc \in Concluding => Truth(wire[work'[w].act][work'[w].lease.attempt], work'[w].out)
    <3>1. CASE GoesOn(work[w], work'[w])
      BY <3>1 DEF GoesOn, EffectInv, Told, Telling, Fresh, Concluding
    <3>2. CASE Enters(work'[w])
      BY <3>2 DEF Enters, Telling, Fresh, Concluding
    <3> QED BY <3>1, <3>2
  <2> QED BY <2>1, <2>2, <2>3 DEF Told
<1>6. FreshAlone'
  <2> SUFFICES ASSUME NEW e \in Workers, NEW a \in Actions, NEW t \in Attempts, About(work'[e], a, t)
               PROVE  /\ t = row'[a].attempt /\ InDoubt(row'[a]) /\ wire[a][t] = "unsent"
                      /\ \A p \in evidence'[a] : p[1] # t
                      /\ \A j \in jobs' : ~(j.act = a /\ j.lease.attempt = t)
                      /\ \A w \in Workers \ {e} : ~Tells(work'[w], a, t)
    BY DEF FreshAlone
  <2>1. GoesOn(work[e], work'[e])
    BY DEF About, Enters, Telling, Fresh
  <2>2. About(work[e], a, t)
    BY <2>1 DEF About, GoesOn, Telling, Fresh, Concluding
  <2>3. /\ t = row[a].attempt /\ InDoubt(row[a]) /\ wire[a][t] = "unsent"
        /\ \A p \in evidence[a] : p[1] # t
        /\ \A j \in jobs : ~(j.act = a /\ j.lease.attempt = t)
        /\ \A w \in Workers \ {e} : ~Tells(work[w], a, t)
    BY <2>2 DEF EffectInv, FreshAlone
  <2>4. ~NotFresh(a, t)
    BY <2>2 DEF NotFresh
  <2>5. \A p \in evidence'[a] : p[1] # t
    BY <2>3, <2>4 DEF Sayable
  <2>6. \A j \in jobs' : ~(j.act = a /\ j.lease.attempt = t)
    BY <2>3, <2>4 DEF Sayable
  <2>7. ASSUME NEW w \in Workers \ {e}, Tells(work'[w], a, t) PROVE FALSE
    <3>1. GoesOn(work[w], work'[w])
      BY <2>7 DEF Tells, Enters, Telling
    <3>2. ~Tells(work[w], a, t)
      BY <2>3
    <3> QED BY <2>4, <2>7, <3>1, <3>2 DEF GoesOn, Tells, Telling, Fresh, Concluding
  <2> QED BY <2>3, <2>4, <2>5, <2>6, <2>7 DEF SameAttempt
<1>7. CallersOnly'
  BY DEF EffectInv, CallersOnly, GoesOn, Enters, Telling, Fresh
<1> QED BY <1>1, <1>4, <1>5, <1>6, <1>7 DEF EffectInv

-----------------------------------------------------------------------------
(* Transitions of a row that keep its attempt. *)

KeepsRow(r, q) ==
  /\ SameAttempt(r, q) /\ q.retryable = r.retryable
  /\ \/ q.status = r.status
     \/ InDoubt(r) /\ InDoubt(q)
     \/ {r.status, q.status} \subseteq {"absent", "registered", "cancelled"}

LEMMA KeptFits ==
  ASSUME NEW r \in Rows, NEW q \in Rows, NEW f, RowFits(r, f), KeepsRow(r, q)
  PROVE  SameAttempt(r, q) /\ RowFits(q, f) /\ (InDoubt(r) => InDoubt(q))
  BY DEF RowFits, KeepsRow, SameAttempt, InDoubt, Rows

LEMMA Transitions ==
  ASSUME NEW r \in Rows
  PROVE  /\ \A m \in Modes : KeepsRow(r, Registered(r, m))
         /\ KeepsRow(r, Cancelled(r)) /\ KeepsRow(r, Woken(r)) /\ KeepsRow(r, ReopenedSync(r))
         /\ KeepsRow(r, TakenOver(r)) /\ (InDoubt(r) => KeepsRow(r, LeftUnknown(r)))
         /\ \A l : KeepsRow(r, MarkedSynced(r, l)) /\ KeepsRow(r, Scheduled(r, l)) /\ KeepsRow(r, Parked(r, l))
         /\ KeepsRow(r, [r EXCEPT !.timer = "due"]) /\ KeepsRow(r, [r EXCEPT !.lapsed = TRUE])
<1>1. r.fence \in Nat /\ r.fence <= r.fence
  BY DEF Rows
<1>2. /\ \A m \in Modes : KeepsRow(r, Registered(r, m))
      /\ KeepsRow(r, Cancelled(r)) /\ KeepsRow(r, Woken(r)) /\ KeepsRow(r, ReopenedSync(r))
  BY <1>1 DEF Rows, KeepsRow, SameAttempt, Registered, Cancelled, Woken, ReopenedSync, InDoubt
<1>3. KeepsRow(r, TakenOver(r))
  BY <1>1 DEF Rows, KeepsRow, SameAttempt, TakenOver, InDoubt
<1>4. InDoubt(r) => KeepsRow(r, LeftUnknown(r))
  BY <1>1 DEF Rows, KeepsRow, SameAttempt, LeftUnknown, InDoubt
<1>5. \A l : KeepsRow(r, MarkedSynced(r, l)) /\ KeepsRow(r, Scheduled(r, l)) /\ KeepsRow(r, Parked(r, l))
  BY <1>1 DEF Rows, KeepsRow, SameAttempt, MarkedSynced, Scheduled, Parked, InDoubt
<1>6. KeepsRow(r, [r EXCEPT !.timer = "due"]) /\ KeepsRow(r, [r EXCEPT !.lapsed = TRUE])
  BY <1>1 DEF Rows, KeepsRow, SameAttempt
<1> QED BY <1>2, <1>3, <1>4, <1>5, <1>6

\* A conclusion under a lease settles the attempt the lease names, or nothing.
LEMMA SettledFits ==
  ASSUME NEW r \in Rows, NEW f, RowFits(r, f), NEW l \in Leases, LeaseFits(r, l),
         NEW c \in Completions, Truth(f[l.attempt], c)
  PROVE  LET q == Settled(r, l, c)
         IN  /\ SameAttempt(r, q) /\ RowFits(q, f)
             /\ InDoubt(r) /\ ~InDoubt(q) => Terminal(c) /\ l.attempt = r.attempt
<1>1. r.fence <= r.fence
  BY DEF Rows
<1>2. CASE ~(Holds(r, l) /\ InDoubt(r))
  BY <1>1, <1>2 DEF Settled, SameAttempt
<1>3. CASE Holds(r, l) /\ InDoubt(r)
  <2> DEFINE d == Normalised(c)
             q == Concluded(r, d)
  <2>1. l.attempt = r.attempt /\ r.attempt \in Attempts
    BY <1>3 DEF Holds, LeaseFits, RowFits, InDoubt
  <2>2. d \in {"succeeded", "failed", "retryable", "unknown"} /\ (d = "unknown" \/ (d = c /\ Terminal(c)))
    BY DEF Normalised, Completions, Terminal
  <2> HIDE DEF d
  <2>3. /\ q.attempt = r.attempt /\ q.fence = r.fence
        /\ q.status = (IF d = "retryable" THEN "failed" ELSE d) /\ q.retryable = (d = "retryable")
    BY DEF Concluded, Rows
  <2> HIDE DEF q
  <2>4. Truth(f[r.attempt], d)
    BY <2>1, <2>2 DEF Truth
  <2>5. RowFits(q, f)
    BY <1>3, <2>1, <2>2, <2>3, <2>4 DEF RowFits
  <2>6. SameAttempt(r, q)
    BY <1>1, <2>3 DEF SameAttempt
  <2>7. ~InDoubt(q) => Terminal(c)
    BY <2>2, <2>3 DEF InDoubt
  <2> QED BY <1>3, <2>1, <2>5, <2>6, <2>7 DEF Settled, d, q
<1> QED BY <1>2, <1>3

-----------------------------------------------------------------------------
(* How one worker moves on. *)

WorkersMove == \A w \in Workers : GoesOn(work[w], work'[w]) \/ Enters(work'[w])

LEMMA NobodyMoves == ASSUME work' = work PROVE WorkersMove
  BY DEF WorkersMove, GoesOn

LEMMA OneMoves ==
  ASSUME TypeOK, NEW w \in Workers, NEW m, work' = [work EXCEPT ![w] = m], GoesOn(work[w], m) \/ Enters(m)
  PROVE  WorkersMove
  BY TypeSplit DEF WorkersMove, GoesOn, WorkOK

LEMMA ReturnMoves == ASSUME TypeOK, NEW w \in Workers, Return(w) PROVE WorkersMove
<1>1. Enters(Idle)
  BY ExecutionAssumption DEF Enters, Idle, ExecutionAssumption
<1> QED BY <1>1, OneMoves DEF Return

\* A worker that goes on to something that sends, reads and concludes nothing.
LEMMA AsideMoves ==
  ASSUME TypeOK, NEW w \in Workers, NEW p, p \notin Telling \cup {"read"}, NEW h,
         \/ Goto(w, p) \/ work' = [work EXCEPT ![w].pc = p, ![w].held = h]
  PROVE  WorkersMove
<1>1. work[w] \in Works /\ DOMAIN work = Workers
  BY WorkFacts, TypeSplit DEF WorkOK
<1>2. PICK m : /\ m = [work[w] EXCEPT !.pc = p] \/ m = [work[w] EXCEPT !.pc = p, !.held = h]
               /\ work' = [work EXCEPT ![w] = m]
  <2>1. CASE Goto(w, p)
    BY <1>1, <2>1 DEF Goto
  <2>2. CASE work' = [work EXCEPT ![w].pc = p, ![w].held = h]
    <3> DEFINE k == [work[w] EXCEPT !.pc = p, !.held = h]
    <3>1. work' = [work EXCEPT ![w] = k]
      BY <2>2, TypeSplit DEF WorkOK
    <3> QED BY <3>1
  <2> QED BY <2>1, <2>2
<1>3. m.act = work[w].act /\ m.lease = work[w].lease /\ m.pc = p
  BY <1>1, <1>2 DEF Works
<1> QED BY <1>2, <1>3, OneMoves DEF GoesOn

-----------------------------------------------------------------------------
(* Steps on at most one row that it keeps. *)

LEMMA CalmStep ==
  ASSUME TypeOK, TypeOK', EffectInv, WorkersMove, wire' = wire,
         row' = row \/ \E a \in Actions, q \in Rows : KeepsRow(row[a], q) /\ Record(a, q),
         \A a \in Actions : \A p \in evidence'[a] : p \in evidence[a] \/ Sayable(a, p[1], p[2]),
         jobs' \subseteq jobs
  PROVE  EffectInv'
<1>1. ASSUME NEW b \in Actions
      PROVE  SameAttempt(row[b], row'[b]) /\ RowFits(row'[b], wire[b]) /\ (InDoubt(row[b]) => InDoubt(row'[b]))
  <2>1. row[b] \in Rows /\ RowFits(row[b], wire[b])
    BY TypeSplit DEF EffectInv, RowsFit
  <2>2. KeepsRow(row[b], row[b])
    BY <2>1 DEF KeepsRow, SameAttempt, Rows
  <2>3. CASE row' = row
    BY <2>1, <2>2, <2>3, KeptFits
  <2>4. CASE \E a \in Actions, q \in Rows : KeepsRow(row[a], q) /\ Record(a, q)
    <3>1. PICK a \in Actions, q \in Rows : KeepsRow(row[a], q) /\ Record(a, q)
      BY <2>4
    <3>2. row'[b] = IF b = a THEN q ELSE row[b]
      BY <3>1, TypeSplit DEF Record
    <3> QED BY <2>1, <2>2, <3>1, <3>2, KeptFits
  <2> QED BY <2>3, <2>4
<1> QED BY <1>1, EffectAside DEF WorkersMove

\* What the invariant says of a worker at work and of its conclusion.
LEMMA AtWork ==
  ASSUME TypeOK, EffectInv, NEW w \in Workers, work[w].pc # "idle"
  PROVE  LET a == work[w].act
             l == work[w].lease
         IN  /\ a \in Actions /\ row[a] \in Rows /\ l \in Leases /\ work[w].out \in Completions
             /\ RowFits(row[a], wire[a]) /\ LeaseFits(row[a], l)
             /\ work[w].pc \in Telling \cup {"read"} => l.attempt \in Attempts
             /\ work[w].pc \in Concluding => Truth(wire[a][l.attempt], work[w].out)
             /\ work[w].pc \in Concluding /\ Terminal(work[w].out) => NotFresh(a, l.attempt)
             /\ work[w].pc \in {"save", "resave", "enqueue"} => NotFresh(a, l.attempt)
<1> DEFINE a == work[w].act
           l == work[w].lease
<1>1. a \in Actions /\ row[a] \in Rows /\ l \in Leases /\ work[w].out \in Completions
  BY WorkFacts DEF Works
<1>2. RowFits(row[a], wire[a]) /\ LeaseFits(row[a], l)
  BY <1>1 DEF EffectInv, RowsFit, LeasesFit
<1>3. /\ work[w].pc \in Telling \cup {"read"} => l.attempt \in Attempts
      /\ work[w].pc \in Concluding => Truth(wire[a][l.attempt], work[w].out)
  BY DEF EffectInv, Told
<1>4. ASSUME NEW e \in Workers, About(work[e], a, l.attempt), work[w].pc \in Concluding,
             work[w].pc # "settle" \/ Terminal(work[w].out)
      PROVE  FALSE
  <2>1. l.attempt \in Attempts
    BY <1>3, <1>4 DEF Telling
  <2>2. w # e
    BY <1>4 DEF About, Fresh, Concluding
  <2>3. ~Tells(work[w], a, l.attempt)
    BY <1>1, <1>4, <2>1, <2>2 DEF EffectInv, FreshAlone
  <2> QED BY <1>4, <2>3 DEF Tells, Telling, Terminal
<1> QED BY <1>1, <1>2, <1>3, <1>4 DEF NotFresh, Concluding

-----------------------------------------------------------------------------
(* The callers. *)

LEMMA EffectPrepare ==
  ASSUME TypeOK, TypeOK', EffectInv, NEW e \in Workers, NEW a \in Actions, NEW m \in Modes, Prepare(e, a, m)
  PROVE  EffectInv'
<1> DEFINE r == Registered(row[a], m)
           c == (row[a].status = "absent" \/ Open(row[a])) /\ Conflict(a)
           k(p) == [Idle EXCEPT !.pc = p, !.act = a, !.enforce = Enforced(m, r), !.held = LeaseOf(r)]
<1>1. row[a] \in Rows /\ RowFits(row[a], wire[a]) /\ row' \in [Actions -> Rows]
  BY TypeSplit DEF EffectInv, RowsFit, TypeOK
<1>2. r \in Rows /\ KeepsRow(row[a], r)
  BY <1>1, Transitions, DispatchTypes
<1>3. Record(a, r) /\ AfterPrepare(e, a, m, c, r) /\ UNCHANGED <<evidence, jobs, wire>>
  BY DEF Prepare
<1>4. row'[a] = r
  BY <1>3, TypeSplit DEF Record
<1>5. LeaseFits(row'[a], NoLease)
  BY <1>1, <1>2, <1>4 DEF RowFits, KeepsRow, SameAttempt, LeaseFits, NoLease, Rows
<1>6. \/ Return(e)
      \/ \E p \in {"sync", "authorize", "untracked"} : work' = [work EXCEPT ![e] = k(p)]
  BY <1>3 DEF AfterPrepare
<1> HIDE DEF r, c
<1>7. \A p : k(p).pc = p /\ k(p).act = a /\ k(p).lease = NoLease
  BY DEF Idle
<1> HIDE DEF k
<1>8. \A p \in {"sync", "authorize", "untracked"} : Enters(k(p))
  BY <1>5, <1>7 DEF Enters, Telling, Fresh, Concluding
<1>9. WorkersMove
  BY <1>6, <1>8, OneMoves, ReturnMoves
<1> QED BY <1>2, <1>3, <1>9, CalmStep

LEMMA BlockedMoves == ASSUME TypeOK, NEW w \in Workers, BlockedOrUntracked(w) PROVE WorkersMove
  BY ReturnMoves, AsideMoves DEF BlockedOrUntracked, Telling, Fresh, Concluding

\* Steps of a caller that write no row or keep it.
LEMMA EffectCallerAside ==
  ASSUME TypeOK, TypeOK', EffectInv, NEW e \in Workers,
         Authorize(e) \/ Cancel(e) \/ ClaimRefused(e) \/ Validate(e) \/ StoreFails(e) \/ DispatchUntracked(e)
  PROVE  EffectInv'
<1>1. CASE Authorize(e)
  <2>1. WorkersMove
    BY <1>1, AsideMoves DEF Authorize, Telling, Fresh, Concluding
  <2> QED BY <1>1, <2>1, CalmStep DEF Authorize
<1>2. CASE Cancel(e)
  <2>1. row[work[e].act] \in Rows /\ work[e].act \in Actions
    BY <1>2, WorkFacts DEF Cancel
  <2>2. KeepsRow(row[work[e].act], Cancelled(row[work[e].act])) /\ Cancelled(row[work[e].act]) \in Rows
    BY <2>1, Transitions, DispatchTypes
  <2>3. WorkersMove
    BY <1>2, ReturnMoves DEF Cancel
  <2> QED BY <1>2, <2>1, <2>2, <2>3, CalmStep DEF Cancel
<1>3. CASE ClaimRefused(e)
  BY <1>3, BlockedMoves, CalmStep DEF ClaimRefused
<1>4. CASE Validate(e)
  <2>1. CASE BlockedOrUntracked(e)
    BY <1>4, <2>1, BlockedMoves, CalmStep DEF Validate
  <2>2. CASE Goto(e, "dispatch")
    <3> DEFINE m == [work[e] EXCEPT !.pc = "dispatch"]
    <3>1. work[e] \in Works /\ work[e].pc = "validate"
      BY <1>4, WorkFacts DEF Validate
    <3>2. m.act = work[e].act /\ m.lease = work[e].lease /\ m.pc = "dispatch" /\ work' = [work EXCEPT ![e] = m]
      BY <2>2, <3>1 DEF Works, Goto
    <3> HIDE DEF m
    <3>3. GoesOn(work[e], m)
      BY <3>1, <3>2 DEF GoesOn, Fresh
    <3>4. WorkersMove
      BY <3>2, <3>3, OneMoves
    <3> QED BY <1>4, <3>4, CalmStep DEF Validate
  <2> QED BY <1>4, <2>1, <2>2 DEF Validate
<1>5. CASE StoreFails(e)
  BY <1>5, BlockedMoves, CalmStep DEF StoreFails
<1>6. CASE DispatchUntracked(e)
  BY <1>6, ReturnMoves, CalmStep DEF DispatchUntracked
<1> QED BY <1>1, <1>2, <1>3, <1>4, <1>5, <1>6

\* The permission is lost after the claim, or the provider answers.
LEMMA EffectConcludes ==
  ASSUME TypeOK, TypeOK', EffectInv, NEW e \in Workers, Recheck(e) \/ Respond(e)
  PROVE  EffectInv'
<1> DEFINE a == work[e].act
           t == work[e].lease.attempt
<1>1. UNCHANGED <<row, evidence, jobs, wire>> /\ work[e] \in Works /\ work[e].pc \in {"recheck", "wait"}
      /\ a \in Actions /\ t \in Attempts
  BY WorkFacts DEF Recheck, Respond, EffectInv, Told, Telling, Fresh
<1>2. CASE Goto(e, "validate") /\ work[e].pc = "recheck"
  <2> DEFINE m == [work[e] EXCEPT !.pc = "validate"]
  <2>1. m.act = a /\ m.lease = work[e].lease /\ m.pc = "validate" /\ work' = [work EXCEPT ![e] = m]
    BY <1>1, <1>2 DEF Works, Goto
  <2> HIDE DEF m
  <2>2. GoesOn(work[e], m)
    BY <1>2, <2>1 DEF GoesOn, Fresh
  <2> QED BY <1>1, <2>1, <2>2, OneMoves, CalmStep
<1>3. ASSUME NEW c, Truth(wire[a][t], c), work' = [work EXCEPT ![e].pc = "save", ![e].out = c]
      PROVE  EffectInv'
  <2> DEFINE m == [work[e] EXCEPT !.pc = "save", !.out = c]
  <2>1. m.act = a /\ m.lease = work[e].lease /\ m.pc = "save" /\ m.out = c
    BY <1>1 DEF Works
  <2>2. work' = [work EXCEPT ![e] = m]
    BY <1>3, TypeSplit DEF WorkOK
  <2> HIDE DEF m
  <2>3. GoesOn(work[e], m)
    BY <1>1, <1>3, <2>1 DEF GoesOn, Telling, Fresh
  <2> QED BY <1>1, <2>2, <2>3, OneMoves, CalmStep
<1>4. CASE Recheck(e)
  <2>1. About(work[e], a, t)
    BY <1>4 DEF Recheck, About, Fresh
  <2>2. Truth(wire[a][t], "failed")
    BY <1>1, <2>1 DEF EffectInv, FreshAlone, Truth
  <2> QED BY <1>2, <1>3, <1>4, <2>2 DEF Recheck
<1>5. CASE Respond(e)
  <2>1. PICK c \in Reported(a, t) : work' = [work EXCEPT ![e].pc = "save", ![e].out = Normalised(c)]
    BY <1>5 DEF Respond
  <2>2. Truth(wire[a][t], Normalised(c))
    BY <2>1 DEF Reported, Normalised, Truth
  <2> QED BY <1>3, <2>1, <2>2
<1> QED BY <1>4, <1>5

\* A claim starts a new attempt: the one before is dead or was never made.
LEMMA EffectClaim ==
  ASSUME TypeOK, TypeOK', EffectInv, NEW e \in Executors, Claim(e)
  PROVE  EffectInv'
<1> DEFINE a == work[e].act
           r == row[a]
           n == r.fence + 1
           q == Claimed(r)
<1>1. /\ e \in Workers /\ a \in Actions /\ r \in Rows /\ RowFits(r, wire[a]) /\ Open(r) /\ r.fence < MaxClaims
      /\ row' = [row EXCEPT ![a] = q] /\ UNCHANGED <<evidence, jobs, wire>>
      /\ work' = [work EXCEPT ![e].pc = "recheck", ![e].lease = LeaseOf(q)]
      /\ work[e] \in Works
  BY WorkFacts DEF Claim, Claimable, Record, EffectInv, RowsFit, Workers
<1>2. /\ r.fence \in Nat /\ r.attempt \in Nat /\ r.attempt <= r.fence /\ n \in Attempts /\ n > r.attempt
  BY <1>1, ExecutionAssumption DEF Rows, RowFits, Attempts, ExecutionAssumption
<1>3. q.attempt = n /\ q.fence = n /\ q.status = "executing" /\ LeaseOf(q) = [owner |-> n, fence |-> n, attempt |-> n]
  BY <1>1 DEF Claimed, Rows, LeaseOf
<1>4. /\ row'[a] = q /\ \A b \in Actions : b # a => row'[b] = row[b]
      /\ work'[e].act = a /\ work'[e].pc = "recheck" /\ work'[e].lease = LeaseOf(q)
      /\ \A w \in Workers : w # e => work'[w] = work[w]
  BY <1>1, TypeSplit DEF WorkOK, Works
<1> HIDE DEF q
<1>5. \A t \in Attempts : t \in Nat /\ wire[a][t] \in {"unsent", "dead"} /\ (t > r.attempt => wire[a][t] = "unsent")
  <2>1. r.status = "registered" \/ (r.status = "failed" /\ r.retryable)
    BY <1>1 DEF Open
  <2>2. r.attempt \in Attempts => wire[a][r.attempt] = "dead"
    <3>1. CASE r.status = "registered"
      <4>1. r.attempt = 0
        BY <1>1, <3>1 DEF RowFits
      <4> QED BY <4>1 DEF Attempts
    <3>2. CASE r.status = "failed" /\ r.retryable
      BY <1>1, <3>2 DEF RowFits, Truth
    <3> QED BY <2>1, <3>1, <3>2
  <2> QED BY <1>1, <2>2 DEF RowFits, Attempts
<1>6. RowsFit'
  <2>1. RowFits(q, wire[a])
    BY <1>2, <1>3, <1>5 DEF RowFits
  <2> QED BY <1>1, <1>4, <2>1 DEF EffectInv, RowsFit
<1>7. ASSUME NEW l \in Leases, LeaseFits(r, l)
      PROVE  LeaseFits(q, l) /\ l.attempt < n
  BY <1>2, <1>3, <1>7 DEF LeaseFits, Leases
<1>8. LeasesFit'
  <2>1. ASSUME NEW w \in Workers, work'[w].act \in Actions
        PROVE  LeaseFits(row'[work'[w].act], work'[w].lease)
    <3>1. CASE w = e
      BY <1>2, <1>3, <1>4, <3>1 DEF LeaseFits
    <3>2. CASE w # e
      <4>1. work'[w] = work[w] /\ work[w].lease \in Leases /\ LeaseFits(row[work[w].act], work[w].lease)
        BY <1>4, <2>1, <3>2, WorkFacts DEF EffectInv, LeasesFit, Works
      <4> QED BY <1>4, <1>7, <2>1, <4>1
    <3> QED BY <3>1, <3>2
  <2>2. ASSUME NEW j \in jobs PROVE LeaseFits(row'[j.act], j.lease)
    <3>1. j.act \in Actions /\ j.lease \in Leases /\ LeaseFits(row[j.act], j.lease)
      BY TypeSplit DEF EffectInv, LeasesFit
    <3> QED BY <1>4, <1>7, <3>1
  <2> QED BY <1>1, <2>1, <2>2 DEF LeasesFit
<1>9. Told'
  <2>1. ASSUME NEW b \in Actions, NEW p \in evidence[b]
        PROVE  p[1] \in Attempts /\ p[1] <= row'[b].attempt /\ Truth(wire[b][p[1]], p[2])
    <3>1. p[1] \in Attempts /\ p[1] <= row[b].attempt /\ Truth(wire[b][p[1]], p[2])
      BY DEF EffectInv, Told
    <3>2. p[1] \in Nat
      BY <3>1 DEF Attempts
    <3> QED BY <1>2, <1>3, <1>4, <3>1, <3>2
  <2>2. \A w \in Workers : /\ work'[w].pc \in Telling \cup {"read"} => work'[w].lease.attempt \in Attempts
                           /\ work'[w].pc \in Concluding =>
                                Truth(wire[work'[w].act][work'[w].lease.attempt], work'[w].out)
    BY <1>2, <1>3, <1>4 DEF EffectInv, Told, Concluding
  <2> QED BY <1>1, <2>1, <2>2 DEF EffectInv, Told
<1>10. FreshAlone'
  <2> SUFFICES ASSUME NEW d \in Workers, NEW b \in Actions, NEW t \in Attempts, About(work'[d], b, t)
               PROVE  /\ t = row'[b].attempt /\ InDoubt(row'[b]) /\ wire'[b][t] = "unsent"
                      /\ \A p \in evidence'[b] : p[1] # t
                      /\ \A j \in jobs' : ~(j.act = b /\ j.lease.attempt = t)
                      /\ \A w \in Workers \ {d} : ~Tells(work'[w], b, t)
    BY DEF FreshAlone
  <2> USE <1>1
  <2>1. CASE d = e
    <3>1. b = a /\ t = n
      BY <1>3, <1>4, <2>1 DEF About
    <3>2. \A p \in evidence[a] : p[1] # n
      <4>1. \A p \in evidence[a] : p[1] \in Nat /\ p[1] <= r.attempt
        BY <1>1 DEF EffectInv, Told, Attempts
      <4> QED BY <1>2, <4>1
    <3>3. \A j \in jobs : j.act = a => j.lease.attempt # n
      <4> SUFFICES ASSUME NEW j \in jobs, j.act = a PROVE j.lease.attempt # n
        OBVIOUS
      <4>1. j.lease \in Leases /\ LeaseFits(r, j.lease)
        BY TypeSplit DEF EffectInv, LeasesFit
      <4>2. j.lease.attempt < n /\ j.lease.attempt \in Nat
        BY <1>7, <4>1 DEF Leases
      <4> QED BY <1>2, <4>2
    <3>4. \A w \in Workers \ {e} : work[w].act = a => work[w].lease.attempt # n
      <4> SUFFICES ASSUME NEW w \in Workers \ {e}, work[w].act = a PROVE work[w].lease.attempt # n
        OBVIOUS
      <4>1. work[w].lease \in Leases /\ LeaseFits(r, work[w].lease)
        BY <1>1, WorkFacts DEF EffectInv, LeasesFit, Works
      <4>2. work[w].lease.attempt < n /\ work[w].lease.attempt \in Nat
        BY <1>7, <4>1 DEF Leases
      <4> QED BY <1>2, <4>2
    <3> QED BY <1>2, <1>3, <1>4, <1>5, <2>1, <3>1, <3>2, <3>3, <3>4 DEF InDoubt, Tells
  <2>2. CASE d # e
    <3>1. About(work[d], b, t)
      BY <1>4, <2>2
    <3>2. /\ t = row[b].attempt /\ InDoubt(row[b]) /\ wire[b][t] = "unsent"
          /\ \A p \in evidence[b] : p[1] # t
          /\ \A j \in jobs : ~(j.act = b /\ j.lease.attempt = t)
          /\ \A w \in Workers \ {d} : ~Tells(work[w], b, t)
      BY <3>1 DEF EffectInv, FreshAlone
    <3>3. b # a
      BY <1>1, <3>2 DEF Open, InDoubt
    <3> QED BY <1>4, <3>2, <3>3 DEF Tells
  <2> QED BY <2>1, <2>2
<1>11. CallersOnly'
  BY <1>4 DEF EffectInv, CallersOnly
<1> QED BY <1>6, <1>8, <1>9, <1>10, <1>11 DEF EffectInv

\* A request is sent by the only worker that is about to send it, and nobody concluded it yet.
LEMMA EffectDispatch ==
  ASSUME TypeOK, TypeOK', EffectInv, NEW e \in Executors, Dispatch(e)
  PROVE  EffectInv'
<1>1. PICK a \in Actions, t \in Attempts : work[e].act = a /\ work[e].lease.attempt = t
  BY WorkFacts DEF Dispatch, EffectInv, Told, Telling, Fresh, Workers
<1>2. /\ e \in Workers /\ work[e].pc = "dispatch" /\ work[e] \in Works
      /\ wire' = [wire EXCEPT ![a][t] = "inflight"] /\ Goto(e, "wait")
      /\ row' = row /\ evidence' = evidence /\ jobs' = jobs
  BY <1>1, WorkFacts DEF Dispatch, Workers
<1>3. About(work[e], a, t)
  BY <1>1, <1>2 DEF About, Fresh
<1>4. /\ t = row[a].attempt /\ InDoubt(row[a]) /\ wire[a][t] = "unsent"
      /\ \A p \in evidence[a] : p[1] # t
      /\ \A j \in jobs : ~(j.act = a /\ j.lease.attempt = t)
      /\ \A w \in Workers \ {e} : ~Tells(work[w], a, t)
  BY <1>2, <1>3 DEF EffectInv, FreshAlone
<1>5. \A b \in Actions, u \in Attempts : wire'[b][u] = IF b = a /\ u = t THEN "inflight" ELSE wire[b][u]
  BY <1>2, TypeSplit
<1>6. /\ \A w \in Workers : work'[w].act = work[w].act /\ work'[w].lease = work[w].lease
      /\ \A w \in Workers : w # e => work'[w] = work[w]
      /\ work'[e].pc = "wait"
  BY <1>2, TypeSplit DEF Goto, WorkOK, Works
<1>7. RowsFit'
  <2> SUFFICES ASSUME NEW b \in Actions PROVE RowFits(row[b], wire'[b])
    BY <1>2 DEF RowsFit
  <2>1. RowFits(row[b], wire[b])
    BY DEF EffectInv, RowsFit
  <2>2. CASE b = a
    <3>1. \A u \in Attempts : u # t => wire'[a][u] = wire[a][u]
      BY <1>5
    <3>2. row[a].status \in {"executing", "unknown"}
      BY <1>4 DEF InDoubt
    <3>3. \A u \in Attempts : u \in Nat
      BY DEF Attempts
    <3> QED BY <1>4, <2>1, <2>2, <3>1, <3>2, <3>3 DEF RowFits
  <2>3. CASE b # a
    <3>1. \A u \in Attempts : wire'[b][u] = wire[b][u]
      BY <1>5, <2>3
    <3> QED BY <2>1, <3>1 DEF RowFits
  <2> QED BY <2>2, <2>3
<1>8. LeasesFit'
  BY <1>2, <1>6 DEF EffectInv, LeasesFit
<1>9. Told'
  <2>1. ASSUME NEW b \in Actions, NEW p \in evidence[b]
        PROVE  p[1] \in Attempts /\ p[1] <= row[b].attempt /\ Truth(wire'[b][p[1]], p[2])
    BY <1>4, <1>5 DEF EffectInv, Told
  <2>2. ASSUME NEW j \in jobs
        PROVE  j.lease.attempt \in Attempts /\ Truth(wire'[j.act][j.lease.attempt], j.out)
    <3>1. j.act \in Actions /\ j.lease.attempt \in Attempts /\ Truth(wire[j.act][j.lease.attempt], j.out)
      BY TypeSplit DEF EffectInv, Told
    <3> QED BY <1>4, <1>5, <3>1
  <2>3. ASSUME NEW w \in Workers
        PROVE  /\ work'[w].pc \in Telling \cup {"read"} => work'[w].lease.attempt \in Attempts
               /\ work'[w].pc \in Concluding => Truth(wire'[work'[w].act][work'[w].lease.attempt], work'[w].out)
    <3>1. CASE w = e
      BY <1>1, <1>6, <3>1 DEF Concluding
    <3>2. CASE w # e
      <4>1. work'[w] = work[w]
        BY <1>6, <3>2
      <4>2. /\ work[w].pc \in Telling \cup {"read"} => work[w].lease.attempt \in Attempts
            /\ work[w].pc \in Concluding => Truth(wire[work[w].act][work[w].lease.attempt], work[w].out)
        BY DEF EffectInv, Told
      <4>3. ASSUME work[w].pc \in Concluding
            PROVE  Truth(wire'[work[w].act][work[w].lease.attempt], work[w].out)
        <5>1. work[w].act \in Actions /\ work[w].lease.attempt \in Attempts
          BY <4>2, <4>3, WorkFacts DEF Concluding, Telling
        <5>2. CASE work[w].act = a /\ work[w].lease.attempt = t
          <6>1. ~Tells(work[w], a, t)
            BY <1>4, <3>2
          <6>2. work[w].out = "unknown"
            BY <4>3, <5>2, <6>1 DEF Tells, Telling
          <6> QED BY <6>2 DEF Truth
        <5>3. CASE ~(work[w].act = a /\ work[w].lease.attempt = t)
          BY <1>5, <4>2, <4>3, <5>1, <5>3
        <5> QED BY <5>2, <5>3
      <4> QED BY <4>1, <4>2, <4>3
    <3> QED BY <3>1, <3>2
  <2> QED BY <1>2, <2>1, <2>2, <2>3 DEF Told
<1>10. FreshAlone'
  <2> SUFFICES ASSUME NEW d \in Workers, NEW b \in Actions, NEW u \in Attempts, About(work'[d], b, u)
               PROVE  /\ u = row[b].attempt /\ InDoubt(row[b]) /\ wire'[b][u] = "unsent"
                      /\ \A p \in evidence[b] : p[1] # u
                      /\ \A j \in jobs : ~(j.act = b /\ j.lease.attempt = u)
                      /\ \A w \in Workers \ {d} : ~Tells(work'[w], b, u)
    BY <1>2 DEF FreshAlone
  <2>1. d # e /\ About(work[d], b, u)
    BY <1>6 DEF About, Fresh
  <2>2. /\ u = row[b].attempt /\ InDoubt(row[b]) /\ wire[b][u] = "unsent"
        /\ \A p \in evidence[b] : p[1] # u
        /\ \A j \in jobs : ~(j.act = b /\ j.lease.attempt = u)
        /\ \A w \in Workers \ {d} : ~Tells(work[w], b, u)
    BY <2>1 DEF EffectInv, FreshAlone
  <2>3. ~Tells(work[e], b, u)
    BY <1>2, <2>1, <2>2
  <2>4. ~(work[e].act = b /\ work[e].lease.attempt = u)
    BY <1>2, <2>3 DEF Tells, Telling, Fresh
  <2>5. wire'[b][u] = "unsent"
    BY <1>1, <1>5, <2>2, <2>4
  <2>6. \A w \in Workers \ {d} : ~Tells(work'[w], b, u)
    BY <1>6, <2>2, <2>4 DEF Tells
  <2> QED BY <2>2, <2>5, <2>6
<1>11. CallersOnly'
  BY <1>2, <1>6 DEF EffectInv, CallersOnly
<1> QED BY <1>7, <1>8, <1>9, <1>10, <1>11 DEF EffectInv

\* The provider takes a request up, or it is lost: nothing was known about it yet.
LEMMA EffectProvider ==
  ASSUME TypeOK, TypeOK', EffectInv, NEW a \in Actions, NEW t \in Attempts, Land(a, t) \/ Drop(a, t)
  PROVE  EffectInv'
<1>1. PICK f \in {"landed", "dead"} : wire' = [wire EXCEPT ![a][t] = f]
  BY DEF Land, Drop
<1>2. wire[a][t] = "inflight" /\ row' = row /\ evidence' = evidence /\ jobs' = jobs /\ work' = work
  BY DEF Land, Drop
<1>3. \A b \in Actions, u \in Attempts : wire'[b][u] = IF b = a /\ u = t THEN f ELSE wire[b][u]
  BY <1>1, TypeSplit
<1>4. \A b \in Actions, u \in Attempts : \A c : Truth(wire[b][u], c) => Truth(wire'[b][u], c)
  BY <1>2, <1>3 DEF Truth
<1>5. RowsFit'
  <2> SUFFICES ASSUME NEW b \in Actions PROVE RowFits(row[b], wire'[b])
    BY <1>2 DEF RowsFit
  <2>1. RowFits(row[b], wire[b])
    BY DEF EffectInv, RowsFit
  <2>2. \A u \in Attempts : /\ u # row[b].attempt => wire'[b][u] \in {"unsent", "dead"}
                            /\ u > row[b].attempt => wire'[b][u] = "unsent"
    BY <1>2, <1>3, <2>1 DEF RowFits
  <2>3. \A c : Truth(wire[b][row[b].attempt], c) /\ row[b].attempt \in Attempts
                 => Truth(wire'[b][row[b].attempt], c)
    BY <1>4
  <2> QED BY <2>1, <2>2, <2>3 DEF RowFits
<1>6. Told'
  <2>1. \A b \in Actions : \A p \in evidence[b] :
          p[1] \in Attempts /\ p[1] <= row[b].attempt /\ Truth(wire'[b][p[1]], p[2])
    BY <1>4 DEF EffectInv, Told
  <2>2. \A j \in jobs : j.lease.attempt \in Attempts /\ Truth(wire'[j.act][j.lease.attempt], j.out)
    BY <1>4, TypeSplit DEF EffectInv, Told
  <2>3. ASSUME NEW w \in Workers, work[w].pc \in Concluding
        PROVE  Truth(wire'[work[w].act][work[w].lease.attempt], work[w].out)
    BY <1>4, <2>3, WorkFacts DEF EffectInv, Told, Concluding, Telling
  <2> QED BY <1>2, <2>1, <2>2, <2>3 DEF EffectInv, Told
<1>7. FreshAlone'
  <2> SUFFICES ASSUME NEW d \in Workers, NEW b \in Actions, NEW u \in Attempts, About(work[d], b, u)
               PROVE  /\ u = row[b].attempt /\ InDoubt(row[b]) /\ wire'[b][u] = "unsent"
                      /\ \A p \in evidence[b] : p[1] # u
                      /\ \A j \in jobs : ~(j.act = b /\ j.lease.attempt = u)
                      /\ \A w \in Workers \ {d} : ~Tells(work[w], b, u)
    BY <1>2 DEF FreshAlone
  <2> QED BY <1>2, <1>3 DEF EffectInv, FreshAlone
<1>8. LeasesFit' /\ CallersOnly'
  BY <1>2 DEF EffectInv, LeasesFit, CallersOnly
<1> QED BY <1>5, <1>6, <1>7, <1>8 DEF EffectInv

-----------------------------------------------------------------------------
(* Conclusions. *)

\* Whoever settles an attempt with a right conclusion leaves the rows right.
LEMMA SettleStep ==
  ASSUME TypeOK, TypeOK', EffectInv, WorkersMove, wire' = wire, jobs' \subseteq jobs,
         NEW a \in Actions, NEW l \in Leases, NEW c \in Completions,
         LeaseFits(row[a], l), l.attempt \in Attempts, Truth(wire[a][l.attempt], c),
         Terminal(c) => NotFresh(a, l.attempt),
         Settle(a, l, c) \/ UNCHANGED <<row, evidence>>
  PROVE  EffectInv'
<1>1. CASE UNCHANGED <<row, evidence>>
  BY <1>1, CalmStep
<1>2. CASE Settle(a, l, c)
  <2>1. row[a] \in Rows /\ RowFits(row[a], wire[a])
    BY TypeSplit DEF EffectInv, RowsFit
  <2>2. \A b \in Actions : row'[b] = IF b = a THEN Settled(row[a], l, c) ELSE row[b]
    BY <1>2, TypeSplit DEF Settle, Record
  <2>3. ASSUME NEW b \in Actions
        PROVE  /\ SameAttempt(row[b], row'[b]) /\ RowFits(row'[b], wire[b])
               /\ InDoubt(row[b]) /\ ~InDoubt(row'[b]) => NotFresh(b, row[b].attempt)
    <3>1. CASE b = a
      BY <2>1, <2>2, <3>1, SettledFits
    <3>2. CASE b # a
      <4>1. row'[b] = row[b] /\ row[b].fence \in Nat
        BY <2>2, <3>2, TypeSplit DEF Rows
      <4> QED BY <4>1 DEF SameAttempt, EffectInv, RowsFit
    <3> QED BY <3>1, <3>2
  <2>4. ASSUME NEW b \in Actions, NEW p \in evidence'[b]
        PROVE  p \in evidence[b] \/ Sayable(b, p[1], p[2])
    <3>1. evidence'[b] = IF Terminal(c) /\ b = a THEN evidence[a] \cup {<<l.attempt, c>>} ELSE evidence[b]
      BY <1>2, TypeSplit DEF Settle, Evidence
    <3> QED BY <2>4, <3>1 DEF Sayable, LeaseFits
  <2> QED BY <2>3, <2>4, EffectAside DEF WorkersMove
<1> QED BY <1>1, <1>2

\* A worker that goes on to write or to project with what it has, or returns.
LEMMA HeldMoves ==
  ASSUME TypeOK, NEW w \in Workers, NEW p \in {"sync", "defer", "notify", "mark", "park"}, NEW h,
         \/ work' = [work EXCEPT ![w].pc = p, ![w].held = h]
         \/ Goto(w, p)
         \/ Return(w)
  PROVE  WorkersMove
  BY AsideMoves, ReturnMoves DEF Telling, Fresh, Concluding

LEMMA NoLeaseFits == ASSUME NEW r \in Rows, NEW f, RowFits(r, f) PROVE LeaseFits(r, NoLease)
  BY DEF RowFits, LeaseFits, NoLease, Rows

\* The executor and the scanner store what they saw.
LEMMA EffectSettles ==
  ASSUME TypeOK, TypeOK', EffectInv, NEW w \in Workers,
         Save(w) \/ SaveFails(w) \/ SettleRecovered(w) \/ (RecoverFails(w) /\ work[w].pc = "settle")
  PROVE  EffectInv'
<1> DEFINE a == work[w].act
           l == work[w].lease
           c == work[w].out
<1>1. /\ work[w].pc \in Concluding /\ wire' = wire /\ jobs' \subseteq jobs
      /\ Settle(a, l, c) \/ UNCHANGED <<row, evidence>>
  BY DEF Save, SaveFails, SettleRecovered, RecoverFails, Concluding
<1>2. /\ a \in Actions /\ l \in Leases /\ c \in Completions /\ LeaseFits(row[a], l)
      /\ l.attempt \in Attempts /\ Truth(wire[a][l.attempt], c) /\ (Terminal(c) => NotFresh(a, l.attempt))
  BY <1>1, AtWork DEF Concluding, Telling
<1> HIDE DEF a, l, c
<1>3. WorkersMove
  <2>1. CASE Save(w)
    BY <2>1, HeldMoves DEF Save, AfterSave
  <2>2. CASE SaveFails(w)
    <3>1. PICK p \in {"resave", "enqueue"} : Goto(w, p)
      BY <2>2 DEF SaveFails
    <3> DEFINE m == [work[w] EXCEPT !.pc = p]
    <3>2. work[w] \in Works /\ work[w].pc \in {"save", "resave"}
      BY <2>2, WorkFacts DEF SaveFails
    <3>3. m.act = work[w].act /\ m.lease = work[w].lease /\ m.out = work[w].out /\ m.pc = p
          /\ work' = [work EXCEPT ![w] = m]
      BY <3>1, <3>2 DEF Works, Goto
    <3> HIDE DEF m
    <3>4. GoesOn(work[w], m)
      BY <1>2, <3>2, <3>3 DEF GoesOn, Telling, Concluding, a, l, c
    <3> QED BY <3>3, <3>4, OneMoves
  <2>3. CASE SettleRecovered(w)
    <3> DEFINE r == Settled(row[work[w].act], work[w].lease, work[w].out)
               p == CASE r.status = "succeeded" -> IF work[w].act \in Handled THEN "sync" ELSE "notify"
                      [] InDoubt(r) -> "defer"
                      [] OTHER -> "idle"
    <3>1. IF p = "idle" THEN Return(w) ELSE work' = [work EXCEPT ![w].pc = p, ![w].held = LeaseOf(r)]
      BY <2>3 DEF SettleRecovered
    <3>2. p \in {"sync", "notify", "defer", "idle"}
      OBVIOUS
    <3> HIDE DEF p, r
    <3> QED BY <3>1, <3>2, HeldMoves
  <2>4. CASE RecoverFails(w)
    BY <2>4, HeldMoves DEF RecoverFails
  <2> QED BY <1>1, <2>1, <2>2, <2>3, <2>4 DEF Save
<1> QED BY <1>1, <1>2, <1>3, SettleStep

\* A repair job settles with the lease and the conclusion of the executor that left it.
LEMMA EffectRepairs ==
  ASSUME TypeOK, TypeOK', EffectInv, NEW v \in Workers, NEW j \in jobs, RepairJob(v, j)
  PROVE  EffectInv'
<1>1. j.act \in Actions /\ j.lease \in Leases /\ j.out \in Completions
  BY TypeSplit
<1>2. LeaseFits(row[j.act], j.lease) /\ j.lease.attempt \in Attempts /\ Truth(wire[j.act][j.lease.attempt], j.out)
  BY DEF EffectInv, LeasesFit, Told
<1>3. NotFresh(j.act, j.lease.attempt)
  BY <1>1, <1>2 DEF NotFresh, EffectInv, FreshAlone
<1>4. /\ Settle(j.act, j.lease, j.out) /\ wire' = wire /\ jobs' \subseteq jobs
      /\ \/ work' = work
         \/ \E h : work' = [work EXCEPT ![v] = [Idle EXCEPT !.pc = "sync", !.act = j.act, !.held = h]]
  BY DEF RepairJob
<1>5. WorkersMove
  <2>1. CASE work' = work
    BY <2>1, NobodyMoves
  <2>2. CASE \E h : work' = [work EXCEPT ![v] = [Idle EXCEPT !.pc = "sync", !.act = j.act, !.held = h]]
    <3>1. PICK h : work' = [work EXCEPT ![v] = [Idle EXCEPT !.pc = "sync", !.act = j.act, !.held = h]]
      BY <2>2
    <3> DEFINE m == [Idle EXCEPT !.pc = "sync", !.act = j.act, !.held = h]
    <3>2. m.pc = "sync" /\ m.act = j.act /\ m.lease = NoLease /\ work' = [work EXCEPT ![v] = m]
      BY <3>1 DEF Idle
    <3> HIDE DEF m
    <3>3. RowFits(row'[j.act], wire[j.act]) /\ row'[j.act] \in Rows
      <4>1. row[j.act] \in Rows /\ RowFits(row[j.act], wire[j.act])
        BY <1>1, TypeSplit DEF EffectInv, RowsFit
      <4>2. row'[j.act] = Settled(row[j.act], j.lease, j.out)
        BY <1>1, <1>4, TypeSplit DEF Settle, Record
      <4>3. Settled(row[j.act], j.lease, j.out) \in Rows
        BY <1>1, <4>1, ConclusionTypes
      <4>4. RowFits(Settled(row[j.act], j.lease, j.out), wire[j.act])
        BY <1>1, <1>2, <4>1, SettledFits
      <4> QED BY <4>2, <4>3, <4>4
    <3>4. Enters(m)
      BY <1>1, <3>2, <3>3, NoLeaseFits DEF Enters, Telling, Fresh, Concluding
    <3> QED BY <3>2, <3>4, OneMoves
  <2> QED BY <1>4, <2>1, <2>2
<1> QED BY <1>1, <1>2, <1>3, <1>4, <1>5, SettleStep

\* An executor that could not save hands what it saw to the repair queue.
LEMMA EffectEnqueue ==
  ASSUME TypeOK, TypeOK', EffectInv, NEW e \in Workers, Enqueue(e)
  PROVE  EffectInv'
<1> DEFINE a == work[e].act
           l == work[e].lease
<1>1. work[e].pc = "enqueue" /\ row' = row /\ evidence' = evidence /\ wire' = wire
  BY DEF Enqueue
<1>2. /\ a \in Actions /\ LeaseFits(row[a], l) /\ l.attempt \in Attempts
      /\ Truth(wire[a][l.attempt], work[e].out) /\ NotFresh(a, l.attempt)
  BY <1>1, AtWork DEF Concluding, Telling
<1>3. Sayable(a, l.attempt, work[e].out)
  BY <1>2 DEF Sayable, LeaseFits
<1>4. \A j \in jobs' : j \in jobs \/ j = [act |-> a, lease |-> l, out |-> work[e].out]
  BY DEF Enqueue
<1>5. WorkersMove
  BY HeldMoves DEF Enqueue
<1>6. \A b \in Actions : SameAttempt(row[b], row[b]) /\ RowFits(row[b], wire[b])
  BY TypeSplit DEF EffectInv, RowsFit, SameAttempt, Rows
<1> HIDE DEF a, l
<1>7. \A j \in jobs' : j \in jobs \/ (/\ j.act \in Actions /\ Sayable(j.act, j.lease.attempt, j.out)
                                     /\ LeaseFits(row[j.act], j.lease))
  BY <1>2, <1>3, <1>4
<1> QED BY <1>1, <1>5, <1>6, <1>7, EffectAside DEF WorkersMove

-----------------------------------------------------------------------------
(* The scanner, the projection and the queue. *)

\* A step of a worker that keeps its row and does not go on to send, read or conclude.
LEMMA HeldStep ==
  ASSUME TypeOK, TypeOK', EffectInv, WorkersMove, UNCHANGED <<evidence, jobs, wire>>,
         NEW a \in Actions, NEW q \in Rows, KeepsRow(row[a], q), Record(a, q)
  PROVE  EffectInv'
  BY CalmStep

LEMMA EffectHeld ==
  ASSUME TypeOK, TypeOK', EffectInv, NEW w \in Workers,
         \/ Sync(w) \/ Mark(w) \/ Defer(w) \/ Notify(w) \/ NotifyFails(w) \/ Park(w) \/ Crash(w)
         \/ (RecoverFails(w) /\ work[w].pc # "settle")
  PROVE  EffectInv'
<1> DEFINE a == work[w].act
           l == work[w].held
<1>1. work[w].pc # "idle" => /\ a \in Actions /\ row[a] \in Rows /\ l \in Leases
                             /\ KeepsRow(row[a], MarkedSynced(row[a], l)) /\ MarkedSynced(row[a], l) \in Rows
                             /\ KeepsRow(row[a], Scheduled(row[a], l)) /\ Scheduled(row[a], l) \in Rows
                             /\ KeepsRow(row[a], Parked(row[a], l)) /\ Parked(row[a], l) \in Rows
  BY WorkFacts, Transitions, ConclusionTypes DEF Works
<1>2. CASE Sync(w) \/ Notify(w) \/ NotifyFails(w) \/ Crash(w) \/ (RecoverFails(w) /\ work[w].pc # "settle")
  <2>1. WorkersMove
    BY <1>2, HeldMoves DEF Sync, Notify, NotifyFails, Crash, RecoverFails
  <2>2. row' = row /\ evidence' = evidence /\ jobs' = jobs /\ wire' = wire
    BY <1>2 DEF Sync, Notify, NotifyFails, Crash, RecoverFails
  <2> QED BY <2>1, <2>2, CalmStep
<1>3. CASE Mark(w)
  <2>1. WorkersMove
    BY <1>3, HeldMoves DEF Mark
  <2> QED BY <1>1, <1>3, <2>1, HeldStep DEF Mark
<1>4. CASE Defer(w)
  <2>1. WorkersMove
    BY <1>4, HeldMoves DEF Defer
  <2> QED BY <1>1, <1>4, <2>1, HeldStep DEF Defer
<1>5. CASE Park(w)
  <2>1. WorkersMove
    BY <1>5, HeldMoves DEF Park
  <2> QED BY <1>1, <1>5, <2>1, HeldStep DEF Park
<1> QED BY <1>2, <1>3, <1>4, <1>5

\* The scanner takes over a row, with the lease of the attempt that is in doubt.
LEMMA EffectReconcile ==
  ASSUME TypeOK, TypeOK', EffectInv, NEW v \in Workers, NEW a \in Actions, ReconcileClaim(v, a)
  PROVE  EffectInv'
<1> DEFINE r == TakenOver(row[a])
<1>1. row[a] \in Rows /\ RowFits(row[a], wire[a]) /\ r \in Rows /\ KeepsRow(row[a], r)
  BY TypeSplit, Transitions, DispatchTypes DEF EffectInv, RowsFit
<1>2. row[a].attempt \in Attempts
  BY <1>1 DEF ReconcileClaim, RecoveryDue, InDoubt, PendingSync, RowFits
<1>3. r.attempt \in Attempts /\ row'[a] = r /\ Record(a, r) /\ LeaseFits(r, LeaseOf(r))
  <2>1. r.attempt = row[a].attempt
    BY <1>1 DEF KeepsRow, SameAttempt
  <2> QED BY <1>1, <1>2, <2>1, TypeSplit DEF ReconcileClaim, Record, LeaseFits, LeaseOf, Rows
<1>4. PICK p \in {"read", "sync", "notify"} :
        work' = [work EXCEPT ![v] = [Idle EXCEPT !.pc = p, !.act = a, !.lease = LeaseOf(r),
                                                 !.held = LeaseOf(r), !.tries = r.tries]]
  BY DEF ReconcileClaim
<1> DEFINE m == [Idle EXCEPT !.pc = p, !.act = a, !.lease = LeaseOf(r), !.held = LeaseOf(r), !.tries = r.tries]
<1>5. m.pc = p /\ m.act = a /\ m.lease = LeaseOf(r) /\ m.lease.attempt = r.attempt
  BY DEF Idle, LeaseOf
<1>6. work' = [work EXCEPT ![v] = m]
  BY <1>4
<1> HIDE DEF m, r
<1>7. Enters(m)
  BY <1>3, <1>5 DEF Enters, Telling, Fresh, Concluding
<1>8. WorkersMove
  BY <1>6, <1>7, OneMoves
<1> QED BY <1>1, <1>3, <1>8, HeldStep DEF ReconcileClaim

\* What the scanner reads in the evidence of its attempt is right.
LEMMA EffectRead ==
  ASSUME TypeOK, TypeOK', EffectInv, NEW v \in Workers, ReadEvidence(v)
  PROVE  EffectInv'
<1> DEFINE a == work[v].act
           l == work[v].lease
<1>1. UNCHANGED <<row, evidence, jobs, wire>> /\ work[v].pc = "read" /\ work[v] \in Works
      /\ a \in Actions /\ l.attempt \in Attempts
  BY WorkFacts, AtWork DEF ReadEvidence
<1>2. CASE Goto(v, "notify")
  BY <1>1, <1>2, HeldMoves, CalmStep
<1>3. ASSUME NEW c, Truth(wire[a][l.attempt], c), c = "unknown" \/ NotFresh(a, l.attempt),
             work' = [work EXCEPT ![v].pc = "settle", ![v].out = c]
      PROVE  EffectInv'
  <2> DEFINE m == [work[v] EXCEPT !.pc = "settle", !.out = c]
  <2>1. m.act = a /\ m.lease = l /\ m.pc = "settle" /\ m.out = c
    BY <1>1 DEF Works
  <2>2. work' = [work EXCEPT ![v] = m]
    BY <1>3, TypeSplit DEF WorkOK
  <2> HIDE DEF m
  <2>3. GoesOn(work[v], m)
    BY <1>1, <1>3, <2>1 DEF GoesOn
  <2> QED BY <1>1, <2>2, <2>3, OneMoves, CalmStep
<1>4. CASE work' = [work EXCEPT ![v].pc = "settle", ![v].out = "unknown"]
  BY <1>3, <1>4 DEF Truth
<1>5. ASSUME NEW c \in TerminalEvidence(a, l), work' = [work EXCEPT ![v].pc = "settle", ![v].out = c]
      PROVE  EffectInv'
  <2>1. <<l.attempt, c>> \in evidence[a]
    BY <1>5 DEF TerminalEvidence
  <2>2. Truth(wire[a][l.attempt], c)
    BY <1>1, <2>1 DEF EffectInv, Told
  <2>3. NotFresh(a, l.attempt)
    BY <1>1, <2>1 DEF NotFresh, EffectInv, FreshAlone
  <2> QED BY <1>3, <1>5, <2>2, <2>3
<1> QED BY <1>2, <1>4, <1>5 DEF ReadEvidence

-----------------------------------------------------------------------------
(* The environment. *)

\* Clocks and retention.
LEMMA EffectClocks ==
  ASSUME TypeOK, TypeOK', EffectInv, NEW a \in Actions, TimerFires(a) \/ DeadlinePasses(a) \/ Redact(a)
  PROVE  EffectInv'
<1>1. row[a] \in Rows /\ work' = work /\ jobs' = jobs /\ wire' = wire
  BY TypeSplit DEF TimerFires, DeadlinePasses, Redact
<1>2. WorkersMove
  BY <1>1, NobodyMoves
<1>3. CASE TimerFires(a)
  BY <1>1, <1>2, <1>3, Transitions, ReviewTypes, HeldStep DEF TimerFires
<1>4. CASE DeadlinePasses(a)
  BY <1>1, <1>2, <1>4, Transitions, ReviewTypes, HeldStep DEF DeadlinePasses
<1>5. CASE Redact(a)
  <2>1. row' = row /\ \A b \in Actions : evidence'[b] \subseteq evidence[b]
    BY <1>5, TypeSplit DEF Redact
  <2> QED BY <1>1, <1>2, <2>1, CalmStep
<1> QED BY <1>3, <1>4, <1>5

\* The provider reports the attempt that landed, which is the current one.
LEMMA EffectCallback ==
  ASSUME TypeOK, TypeOK', EffectInv, NEW a \in Actions, ProviderCallback(a)
  PROVE  EffectInv'
<1>1. row[a] \in Rows /\ RowFits(row[a], wire[a])
  BY TypeSplit DEF EffectInv, RowsFit
<1>2. PICK t \in Attempts : wire[a][t] = "landed"
  BY DEF ProviderCallback
<1>3. t = row[a].attempt
  BY <1>1, <1>2 DEF RowFits
<1>4. NotFresh(a, t)
  BY <1>2 DEF NotFresh, EffectInv, FreshAlone
<1>5. t <= row[a].attempt
  BY <1>3 DEF Attempts
<1>6. Sayable(a, t, "succeeded")
  BY <1>2, <1>4, <1>5 DEF Sayable, Truth
<1>7. ASSUME NEW b \in Actions, NEW p \in evidence'[b]
      PROVE  p \in evidence[b] \/ Sayable(b, p[1], p[2])
  <2>1. evidence'[b] = IF b = a THEN evidence[a] \cup {<<t, "succeeded">>} ELSE evidence[b]
    BY <1>3, TypeSplit DEF ProviderCallback, Evidence, Terminal
  <2> QED BY <1>6, <1>7, <2>1
<1>8. Record(a, Woken(row[a])) /\ Woken(row[a]) \in Rows /\ KeepsRow(row[a], Woken(row[a]))
  BY <1>1, Transitions, ConclusionTypes DEF ProviderCallback
<1>9. work' = work /\ jobs' = jobs /\ wire' = wire
  BY DEF ProviderCallback
<1> QED BY <1>7, <1>8, <1>9, NobodyMoves, CalmStep

\* What an operator concludes about the current attempt is authoritative.
LEMMA ReviewedFits ==
  ASSUME NEW r \in Rows, NEW f, RowFits(r, f), InDoubt(r), NEW c \in {"succeeded", "failed"},
         Truth(f[r.attempt], c)
  PROVE  SameAttempt(r, Reviewed(r, c)) /\ RowFits(Reviewed(r, c), f)
<1> DEFINE q == Reviewed(r, c)
           n == r.fence + 1
<1>1. r.fence \in Nat /\ r.attempt \in Nat /\ r.attempt <= n /\ r.fence <= n /\ r.attempt \in Attempts
  BY DEF Rows, RowFits, InDoubt
<1>2. q.attempt = r.attempt /\ q.fence = n /\ q.status = c /\ q.retryable = FALSE
  BY DEF Reviewed, Rows
<1> HIDE DEF q, n
<1>3. RowFits(q, f)
  BY <1>1, <1>2 DEF RowFits
<1> QED BY <1>1, <1>2, <1>3 DEF SameAttempt, q

LEMMA EffectReview ==
  ASSUME TypeOK, TypeOK', EffectInv, NEW a \in Actions, NEW c \in Conclusions, Review(a, c)
  PROVE  EffectInv'
<1> DEFINE r == row[a]
           t == r.attempt
<1>1. r \in Rows /\ RowFits(r, wire[a]) /\ work' = work /\ jobs' = jobs /\ wire' = wire
  BY TypeSplit DEF EffectInv, RowsFit, Review
<1>2. WorkersMove
  BY <1>1, NobodyMoves
<1>3. CASE Record(a, ReopenedSync(r)) /\ UNCHANGED evidence
  BY <1>1, <1>2, <1>3, Transitions, ReviewTypes, HeldStep
<1>4. CASE InDoubt(r) /\ Record(a, LeftUnknown(r)) /\ UNCHANGED evidence
  BY <1>1, <1>2, <1>4, Transitions, ReviewTypes, HeldStep
<1>5. ASSUME c \in {"succeeded", "failed"}, InDoubt(r), t \in Attempts,
             IF c = "succeeded" THEN wire[a][t] = "landed" ELSE Void(a, t),
             evidence' = Evidence(a, t, c), Record(a, Reviewed(r, c))
      PROVE  EffectInv'
  <2>1. Truth(wire[a][t], c)
    BY <1>5 DEF Truth, Void
  <2>2. NotFresh(a, t)
    <3> SUFFICES ASSUME NEW d \in Workers, About(work[d], a, t) PROVE FALSE
      BY DEF NotFresh
    <3>1. wire[a][t] = "unsent"
      BY <1>5 DEF EffectInv, FreshAlone
    <3>2. d \in Executors
      BY DEF EffectInv, CallersOnly, About
    <3> QED BY <1>5, <3>1, <3>2 DEF Void, About, Fresh
  <2>3. Sayable(a, t, c)
    BY <1>5, <2>1, <2>2 DEF Sayable, Attempts
  <2>4. ASSUME NEW b \in Actions, NEW p \in evidence'[b]
        PROVE  p \in evidence[b] \/ Sayable(b, p[1], p[2])
    <3>1. evidence'[b] = IF b = a THEN evidence[a] \cup {<<t, c>>} ELSE evidence[b]
      BY <1>5, TypeSplit DEF Evidence, Terminal
    <3> QED BY <2>3, <2>4, <3>1
  <2>5. ASSUME NEW b \in Actions
        PROVE  /\ SameAttempt(row[b], row'[b]) /\ RowFits(row'[b], wire[b])
               /\ InDoubt(row[b]) /\ ~InDoubt(row'[b]) => NotFresh(b, row[b].attempt)
    <3>1. CASE b = a
      <4>1. row'[b] = Reviewed(r, c)
        BY <1>5, <3>1, TypeSplit DEF Record
      <4> QED BY <1>1, <1>5, <2>1, <2>2, <3>1, <4>1, ReviewedFits
    <3>2. CASE b # a
      <4>1. row'[b] = row[b] /\ row[b].fence \in Nat
        BY <1>5, <3>2, TypeSplit DEF Record, Rows
      <4> QED BY <4>1 DEF SameAttempt, EffectInv, RowsFit
    <3> QED BY <3>1, <3>2
  <2> QED BY <1>1, <1>2, <2>4, <2>5, EffectAside DEF WorkersMove
<1> QED BY <1>3, <1>4, <1>5 DEF Review

-----------------------------------------------------------------------------
(* Every step. *)

LEMMA EffectStep == TypeOK /\ TypeOK' /\ EffectInv /\ [Next]_vars => EffectInv'
<1> SUFFICES ASSUME TypeOK, TypeOK', EffectInv, [Next]_vars PROVE EffectInv'
  OBVIOUS
<1>1. ASSUME NEW e \in Executors, Execute(e) PROVE EffectInv'
  <2>1. e \in Workers /\ CallModes \subseteq Modes
    BY ExecutionAssumption DEF Workers, ExecutionAssumption
  <2> QED BY <1>1, <2>1, EffectPrepare, EffectCallerAside, EffectConcludes, EffectClaim, EffectDispatch,
             EffectSettles, EffectEnqueue DEF Execute
<1>2. ASSUME NEW v \in Workers, (v \in Recoverers /\ Recover(v)) \/ Sync(v) \/ Mark(v) PROVE EffectInv'
  BY <1>2, EffectReconcile, EffectRead, EffectSettles, EffectHeld, EffectRepairs DEF Recover
<1>3. CASE Environment
  BY <1>3, EffectProvider, EffectCallback, EffectClocks, EffectReview, EffectHeld DEF Environment
<1>4. CASE UNCHANGED vars
  <2>1. row' = row /\ evidence' = evidence /\ jobs' = jobs /\ work' = work /\ wire' = wire
    BY <1>4 DEF vars
  <2> QED BY <2>1, NobodyMoves, CalmStep
<1> QED BY <1>1, <1>2, <1>3, <1>4 DEF Next, Workers

\* The invariant holds in every behaviour, for any callers, recoveries, repair jobs, callbacks,
\* reviews, faults and crashes.
THEOREM EffectAlways == Spec => []EffectInv
  BY EffectInitially, EffectStep, Typing, PTL DEF Spec

-----------------------------------------------------------------------------
(* What callers, customers and operators may rely on. *)

\* Callers, scanner, repair queue and reviews together cause at most one external effect per
\* execute action: every request under way or landed is of the attempt the row names.
THEOREM OneEffect == Spec => []AtMostOneEffect
<1>1. EffectInv => AtMostOneEffect
  <2> SUFFICES ASSUME EffectInv, NEW a \in Actions, NEW t \in Attempts,
                      wire[a][t] \in {"inflight", "landed"}
               PROVE  t = row[a].attempt
    BY DEF AtMostOneEffect
  <2> QED BY DEF EffectInv, RowsFit, RowFits
<1> QED BY <1>1, EffectAlways, PTL

\* A request under way always belongs to a row that still blocks its resource.
THEOREM InFlightBlocksHolds == Spec => []InFlightBlocks
<1>1. TypeOK /\ EffectInv => InFlightBlocks
  <2> SUFFICES ASSUME TypeOK, EffectInv, NEW a \in Actions, NEW t \in Attempts,
                      row[a].mode = "execute", wire[a][t] = "inflight"
               PROVE  Unresolved(row[a]) /\ row[a].attempt = t
    BY DEF InFlightBlocks
  <2>1. row[a] \in Rows /\ RowFits(row[a], wire[a])
    BY TypeSplit DEF EffectInv, RowsFit
  <2>2. row[a].attempt = t
    BY <2>1 DEF RowFits
  <2>3. row[a].status \notin {"succeeded", "failed"}
    BY <2>1, <2>2 DEF RowFits, Truth
  <2>4. row[a].status \notin {"absent", "registered", "cancelled"}
    BY <2>1, <2>2 DEF RowFits, Attempts
  <2> QED BY <2>1, <2>2, <2>3, <2>4 DEF Unresolved, InDoubt, Rows, Statuses
<1> QED BY <1>1, EffectAlways, Typing, PTL

\* A recorded success landed outside, by the attempt the row names, whoever recorded it.
THEOREM SuccessLandedHolds == Spec => []SuccessLanded
<1>1. EffectInv => SuccessLanded
  BY DEF EffectInv, RowsFit, RowFits, Truth, SuccessLanded, Attempts
<1> QED BY <1>1, EffectAlways, PTL

\* With a provider that never reports a landed request as failed, a recorded failure or
\* cancellation is definitive: nothing landed, nothing is under way and no caller still sends.
THEOREM FailureIsDefinitiveHolds == ASSUME ~Misreports PROVE Spec => []FailureIsDefinitive
<1>1. EffectInv => FailureIsDefinitive
  <2> SUFFICES ASSUME EffectInv, NEW a \in Actions, row[a].status \in {"failed", "cancelled"}
               PROVE  /\ \A t \in Attempts : wire[a][t] \in {"unsent", "dead"}
                      /\ \A e \in Executors : ~(work[e].act = a /\ work[e].pc = "dispatch")
    BY DEF FailureIsDefinitive
  <2>1. RowFits(row[a], wire[a])
    BY DEF EffectInv, RowsFit
  <2>2. ASSUME NEW t \in Attempts PROVE wire[a][t] \in {"unsent", "dead"}
    <3>1. CASE t = row[a].attempt
      <4>1. row[a].status = "failed"
        BY <2>1, <3>1 DEF RowFits, Attempts
      <4> QED BY <2>1, <3>1, <4>1 DEF RowFits, Truth
    <3>2. CASE t # row[a].attempt
      BY <2>1, <3>2 DEF RowFits
    <3> QED BY <3>1, <3>2
  <2>3. ASSUME NEW e \in Executors, work[e].act = a, work[e].pc = "dispatch" PROVE FALSE
    <3>1. e \in Workers /\ work[e].lease.attempt \in Attempts
      BY <2>3 DEF Workers, EffectInv, Told, Telling, Fresh
    <3>2. About(work[e], a, work[e].lease.attempt)
      BY <2>3 DEF About, Fresh
    <3> QED BY <3>1, <3>2 DEF EffectInv, FreshAlone, InDoubt
  <2> QED BY <2>2, <2>3
<1> QED BY <1>1, EffectAlways, PTL

-----------------------------------------------------------------------------
(***************************************************************************)
(* What a step does to a row: it changes no outcome, registers it, cancels *)
(* it before any attempt, claims it, or concludes what was in doubt.       *)
(***************************************************************************)

\* A row that is open or unrepaired is on the scanner's clock or with an operator.
Found(r) == InDoubt(r) \/ PendingSync(r) => r.timer # "none" \/ r.review

\* A success whose projection is marked complete.
Complete(r) == r.status = "succeeded" /\ r.synced

Turn(r, q) ==
  /\ q.attempt = r.attempt
  /\ r.status # "absent" => q.mode = r.mode
  /\ \/ q.mode = r.mode /\ q.status = r.status /\ q.retryable = r.retryable
     \/ InDoubt(r) /\ InDoubt(q)
     \/ r.status = "absent" /\ q.status = "registered"
     \/ r.status = "registered" /\ q.status = "cancelled"
     \/ InDoubt(r) /\ q.status \in {"succeeded", "failed"}
  /\ Found(r) => Found(q)

LEMMA Turns ==
  ASSUME NEW r \in Rows
  PROVE  /\ \A m \in Modes : Turn(r, Registered(r, m))
         /\ Turn(r, Cancelled(r)) /\ Turn(r, TakenOver(r)) /\ Turn(r, Woken(r)) /\ Turn(r, ReopenedSync(r))
         /\ InDoubt(r) => Turn(r, LeftUnknown(r))
         /\ \A c \in {"succeeded", "failed"} : InDoubt(r) => Turn(r, Reviewed(r, c))
         /\ \A l : \A c \in Completions : Turn(r, Settled(r, l, c))
         /\ \A l : Turn(r, MarkedSynced(r, l)) /\ Turn(r, Scheduled(r, l)) /\ Turn(r, Parked(r, l))
         /\ Turn(r, [r EXCEPT !.timer = "due"]) /\ Turn(r, [r EXCEPT !.lapsed = TRUE])
<1>1. /\ \A m \in Modes : Turn(r, Registered(r, m))
      /\ Turn(r, Cancelled(r)) /\ Turn(r, Woken(r)) /\ Turn(r, ReopenedSync(r))
  BY DEF Rows, Turn, Registered, Cancelled, Woken, ReopenedSync, InDoubt, Found, PendingSync
<1>2. Turn(r, TakenOver(r))
  BY DEF Rows, Turn, TakenOver, InDoubt, Found, PendingSync
<1>3. InDoubt(r) => Turn(r, LeftUnknown(r))
  BY DEF Rows, Turn, LeftUnknown, InDoubt, Found, PendingSync
<1>4. ASSUME NEW c \in {"succeeded", "failed"}, InDoubt(r)
      PROVE  Turn(r, Reviewed(r, c))
  <2> DEFINE q == Reviewed(r, c)
  <2>1. q.attempt = r.attempt /\ q.mode = r.mode /\ q.status = c /\ (c = "succeeded" => q.timer = "due")
    BY DEF Reviewed, Rows
  <2> HIDE DEF q
  <2>2. Found(q)
    BY <2>1 DEF Found, InDoubt, PendingSync
  <2> QED BY <1>4, <2>1, <2>2 DEF Turn, q
<1>5. ASSUME NEW l, NEW c \in Completions
      PROVE  Turn(r, Settled(r, l, c))
  <2>1. CASE ~(Holds(r, l) /\ InDoubt(r))
    BY <2>1 DEF Settled, Turn
  <2>2. CASE Holds(r, l) /\ InDoubt(r)
    <3> DEFINE d == Normalised(c)
               q == Concluded(r, d)
    <3>1. d \in {"succeeded", "failed", "retryable", "unknown"}
      BY DEF Normalised, Completions
    <3> HIDE DEF d
    <3>2. /\ q.attempt = r.attempt /\ q.mode = r.mode /\ q.status = (IF d = "retryable" THEN "failed" ELSE d)
          /\ q.timer = (IF d \in {"failed", "retryable"} THEN "none" ELSE "running")
      BY DEF Concluded, Rows
    <3> HIDE DEF q
    <3>3. q.status \in {"succeeded", "failed", "unknown"}
      BY <3>1, <3>2
    <3>4. Found(q)
      BY <3>1, <3>2 DEF Found, InDoubt, PendingSync
    <3>5. Turn(r, q)
      BY <2>2, <3>2, <3>3, <3>4 DEF Turn, InDoubt
    <3> QED BY <2>2, <3>5 DEF Settled, q, d
  <2> QED BY <2>1, <2>2
<1>6. \A l : Turn(r, MarkedSynced(r, l)) /\ Turn(r, Scheduled(r, l)) /\ Turn(r, Parked(r, l))
  BY DEF Rows, Turn, MarkedSynced, Scheduled, Parked, Found, InDoubt, PendingSync
<1>7. Turn(r, [r EXCEPT !.timer = "due"]) /\ Turn(r, [r EXCEPT !.lapsed = TRUE])
  BY DEF Rows, Turn, Found, InDoubt, PendingSync
<1> QED BY <1>1, <1>2, <1>3, <1>4, <1>5, <1>6, <1>7

\* Only marking completes a projection.
LEMMA OnlyMarkCompletes ==
  ASSUME NEW r \in Rows
  PROVE  /\ \A m \in Modes : Complete(Registered(r, m)) => Complete(r)
         /\ Complete(Cancelled(r)) => Complete(r)
         /\ Complete(TakenOver(r)) => Complete(r)
         /\ Complete(Woken(r)) => Complete(r)
         /\ Complete(ReopenedSync(r)) => Complete(r)
         /\ ~Complete(LeftUnknown(r)) /\ ~Complete(Claimed(r))
         /\ \A c \in {"succeeded", "failed"} : ~Complete(Reviewed(r, c))
         /\ \A l : \A c \in Completions : Complete(Settled(r, l, c)) => Complete(r)
         /\ \A l : Complete(Scheduled(r, l)) => Complete(r)
         /\ \A l : Complete(Parked(r, l)) => Complete(r)
         /\ Complete([r EXCEPT !.timer = "due"]) => Complete(r)
         /\ Complete([r EXCEPT !.lapsed = TRUE]) => Complete(r)
<1> USE DEF Rows, Complete
<1>1. /\ \A m \in Modes : Complete(Registered(r, m)) => Complete(r)
      /\ Complete(Cancelled(r)) => Complete(r)
      /\ Complete(Woken(r)) => Complete(r)
      /\ Complete(ReopenedSync(r)) => Complete(r)
  BY DEF Registered, Cancelled, Woken, ReopenedSync
<1>2. /\ Complete(TakenOver(r)) => Complete(r)
      /\ ~Complete(LeftUnknown(r)) /\ ~Complete(Claimed(r))
  BY DEF TakenOver, LeftUnknown, Claimed
<1>3. \A c \in {"succeeded", "failed"} : ~Complete(Reviewed(r, c))
  BY DEF Reviewed
<1>4. \A l : \A c \in Completions : Complete(Settled(r, l, c)) => Complete(r)
  BY DEF Settled, Concluded
<1>5. \A l : /\ Complete(Scheduled(r, l)) => Complete(r)
             /\ Complete(Parked(r, l)) => Complete(r)
  BY DEF Scheduled, Parked
<1>6. /\ Complete([r EXCEPT !.timer = "due"]) => Complete(r)
      /\ Complete([r EXCEPT !.lapsed = TRUE]) => Complete(r)
  OBVIOUS
<1> QED BY <1>1, <1>2, <1>3, <1>4, <1>5, <1>6

\* Somebody marks the projection of a, which has run.
Marking(a) == \E w \in Workers : work[w].pc = "mark" /\ work[w].act = a

\* One row takes a turn, one row is claimed, or none changes.
RowTurns ==
  \/ row' = row
  \/ \E a \in Actions, q \in Rows : Record(a, q) /\ Turn(row[a], q) /\ (Complete(q) => Complete(row[a]) \/ Marking(a))
  \/ \E a \in Actions : Open(row[a]) /\ ~Conflict(a) /\ Record(a, Claimed(row[a]))

LEMMA RowTurnsBySettle ==
  ASSUME TypeOK, NEW a \in Actions, NEW l \in Leases, NEW c \in Completions, Settle(a, l, c)
  PROVE  RowTurns
<1>1. row[a] \in Rows
  BY TypeSplit
<1>2. Settled(row[a], l, c) \in Rows
  BY <1>1, ConclusionTypes
<1>3. Turn(row[a], Settled(row[a], l, c)) /\ (Complete(Settled(row[a], l, c)) => Complete(row[a]))
  BY <1>1, Turns, OnlyMarkCompletes
<1> QED BY <1>2, <1>3 DEF RowTurns, Settle

LEMMA RowSteps == TypeOK /\ [Next]_vars => RowTurns
<1> SUFFICES ASSUME TypeOK, [Next]_vars PROVE RowTurns
  OBVIOUS
<1> USE ExecutionAssumption
<1>1. ASSUME NEW w \in Workers, work[w].pc # "idle"
      PROVE  /\ work[w].act \in Actions /\ row[work[w].act] \in Rows
             /\ work[w].lease \in Leases /\ work[w].held \in Leases /\ work[w].out \in Completions
  BY <1>1, WorkFacts DEF Works
<1>2. ASSUME NEW e \in Executors, Execute(e) PROVE RowTurns
  <2>0. e \in Workers /\ CallModes \subseteq Modes
    BY DEF Workers, ExecutionAssumption
  <2>1. ASSUME NEW a \in Actions, NEW m \in CallModes, Prepare(e, a, m) PROVE RowTurns
    <3>1. row[a] \in Rows /\ m \in Modes
      BY <2>0, TypeSplit
    <3>2. /\ Registered(row[a], m) \in Rows /\ Turn(row[a], Registered(row[a], m))
          /\ Complete(Registered(row[a], m)) => Complete(row[a])
      BY <3>1, DispatchTypes, Turns, OnlyMarkCompletes
    <3>3. Record(a, Registered(row[a], m))
      BY <2>1 DEF Prepare
    <3> QED BY <3>2, <3>3 DEF RowTurns
  <2>2. CASE Cancel(e)
    <3>1. work[e].act \in Actions /\ row[work[e].act] \in Rows
      BY <1>1, <2>0, <2>2 DEF Cancel
    <3>2. /\ Cancelled(row[work[e].act]) \in Rows /\ Turn(row[work[e].act], Cancelled(row[work[e].act]))
          /\ Complete(Cancelled(row[work[e].act])) => Complete(row[work[e].act])
      BY <3>1, DispatchTypes, Turns, OnlyMarkCompletes
    <3> QED BY <2>2, <3>1, <3>2 DEF RowTurns, Cancel
  <2>3. CASE Claim(e)
    BY <1>1, <2>0, <2>3 DEF RowTurns, Claim, Claimable
  <2>4. CASE Save(e) \/ SaveFails(e)
    BY <1>1, <2>0, <2>4, RowTurnsBySettle DEF Save, SaveFails, RowTurns
  <2>5. CASE row' = row
    BY <2>5 DEF RowTurns
  <2> QED
    BY <1>2, <2>1, <2>2, <2>3, <2>4, <2>5
    DEF Execute, Authorize, ClaimRefused, Recheck, Validate, Dispatch, Respond, Enqueue,
        StoreFails, DispatchUntracked
<1>3. ASSUME NEW v \in Workers, Recover(v) \/ Sync(v) \/ Mark(v) PROVE RowTurns
  <2>1. ASSUME NEW a \in Actions, ReconcileClaim(v, a) PROVE RowTurns
    <3>1. row[a] \in Rows /\ Record(a, TakenOver(row[a]))
      BY <2>1, TypeSplit DEF ReconcileClaim
    <3>2. /\ TakenOver(row[a]) \in Rows /\ Turn(row[a], TakenOver(row[a]))
          /\ Complete(TakenOver(row[a])) => Complete(row[a])
      BY <3>1, DispatchTypes, Turns, OnlyMarkCompletes
    <3> QED BY <3>1, <3>2 DEF RowTurns
  <2>2. CASE SettleRecovered(v) \/ RecoverFails(v)
    BY <1>1, <2>2, RowTurnsBySettle DEF SettleRecovered, RecoverFails, RowTurns
  <2>3. CASE Defer(v) \/ Park(v) \/ Mark(v)
    <3> DEFINE a == work[v].act
               l == work[v].held
    <3>1. a \in Actions /\ row[a] \in Rows /\ l \in Leases
      BY <1>1, <2>3 DEF Defer, Park, Mark
    <3>2. PICK q : /\ Record(a, q) /\ q \in {Scheduled(row[a], l), Parked(row[a], l), MarkedSynced(row[a], l)}
                   /\ q \in {Scheduled(row[a], l), Parked(row[a], l)} \/ Marking(a)
      BY <2>3 DEF Defer, Park, Mark, Marking
    <3>3. q \in Rows
      BY <3>1, <3>2, ConclusionTypes
    <3>4. Turn(row[a], q)
      BY <3>1, <3>2, Turns
    <3>5. Complete(q) => Complete(row[a]) \/ Marking(a)
      BY <3>1, <3>2, OnlyMarkCompletes
    <3> HIDE DEF a, l
    <3> QED BY <3>1, <3>2, <3>3, <3>4, <3>5 DEF RowTurns
  <2>4. ASSUME NEW j \in jobs, RepairJob(v, j) PROVE RowTurns
    <3>1. j.act \in Actions /\ j.lease \in Leases /\ j.out \in Completions
      BY TypeSplit
    <3>2. Settle(j.act, j.lease, j.out)
      BY <2>4 DEF RepairJob
    <3> QED BY <3>1, <3>2, RowTurnsBySettle
  <2>5. CASE row' = row
    BY <2>5 DEF RowTurns
  <2> QED
    BY <1>3, <2>1, <2>2, <2>3, <2>4, <2>5 DEF Recover, ReadEvidence, Notify, NotifyFails, Sync
<1>4. CASE Environment
  <2>1. ASSUME NEW a \in Actions, ProviderCallback(a) \/ TimerFires(a) \/ DeadlinePasses(a) PROVE RowTurns
    <3>1. row[a] \in Rows
      BY TypeSplit
    <3>2. PICK q : /\ Record(a, q)
                   /\ q \in {Woken(row[a]), [row[a] EXCEPT !.timer = "due"], [row[a] EXCEPT !.lapsed = TRUE]}
      BY <2>1 DEF ProviderCallback, TimerFires, DeadlinePasses
    <3>3. q \in Rows
      BY <3>1, <3>2, ConclusionTypes, ReviewTypes
    <3>4. Turn(row[a], q)
      BY <3>1, <3>2, Turns
    <3>5. Complete(q) => Complete(row[a])
      BY <3>1, <3>2, OnlyMarkCompletes
    <3> QED BY <3>2, <3>3, <3>4, <3>5 DEF RowTurns
  <2>2. ASSUME NEW a \in Actions, NEW c \in Conclusions, Review(a, c) PROVE RowTurns
    <3>1. row[a] \in Rows
      BY TypeSplit
    <3>2. CASE Record(a, ReopenedSync(row[a]))
      BY <3>1, <3>2, ReviewTypes, Turns, OnlyMarkCompletes DEF RowTurns
    <3>3. CASE InDoubt(row[a]) /\ Record(a, LeftUnknown(row[a]))
      BY <3>1, <3>3, ReviewTypes, Turns, OnlyMarkCompletes DEF RowTurns
    <3>4. CASE c \in {"succeeded", "failed"} /\ InDoubt(row[a]) /\ Record(a, Reviewed(row[a], c))
      BY <3>1, <3>4, ReviewTypes, Turns, OnlyMarkCompletes DEF RowTurns
    <3> QED BY <2>2, <3>2, <3>3, <3>4 DEF Review
  <2>3. CASE row' = row
    BY <2>3 DEF RowTurns
  <2> QED BY <1>4, <2>1, <2>2, <2>3 DEF Environment, Land, Drop, Redact, Crash
<1>5. CASE row' = row
  BY <1>5 DEF RowTurns
<1> QED BY <1>2, <1>3, <1>4, <1>5 DEF Next, Workers, vars

\* A success, a cancellation and a failure that may not be retried stay what they are, whatever
\* late conclusion, takeover, review or redelivered job comes after them.
THEOREM TerminalFrozenHolds == Spec => TerminalFrozen
<1> DEFINE Frozen(r, q) == /\ r.status \in {"succeeded", "cancelled"} => q.status = r.status
                           /\ r.status = "failed" /\ ~r.retryable => q.status = "failed"
<1>1. ASSUME TypeOK, [Next]_vars, NEW a \in Actions
      PROVE  Frozen(row[a], row'[a])
  <2>1. RowTurns
    BY <1>1, RowSteps
  <2>2. CASE row' = row
    BY <2>2
  <2>3. ASSUME NEW b \in Actions, NEW q \in Rows, Record(b, q), Turn(row[b], q)
        PROVE  Frozen(row[a], row'[a])
    <3>1. row'[a] = IF a = b THEN q ELSE row[a]
      BY <1>1, <2>3, TypeSplit DEF Record
    <3> QED BY <2>3, <3>1 DEF Turn, InDoubt
  <2>4. ASSUME NEW b \in Actions, Open(row[b]), Record(b, Claimed(row[b]))
        PROVE  Frozen(row[a], row'[a])
    <3>1. a # b => row'[a] = row[a]
      BY <1>1, <2>4, TypeSplit DEF Record
    <3> QED BY <2>4, <3>1 DEF Open
  <2> QED BY <2>1, <2>2, <2>3, <2>4 DEF RowTurns
<1>2. TypeOK /\ [Next]_vars => [\A a \in Actions :
        /\ row[a].status \in {"succeeded", "cancelled"} => row'[a].status = row[a].status
        /\ row[a].status = "failed" /\ ~row[a].retryable => row'[a].status = "failed"]_vars
  BY <1>1
<1> QED BY <1>2, Typing, PTL DEF Spec, TerminalFrozen

\* Open outcomes and unrepaired successes are always on the scanner's clock or with an operator,
\* whatever crashes, expires, is deferred or is reviewed.
THEOREM DiscoverableHolds == Spec => []Discoverable
<1> DEFINE AllFound == \A a \in Actions : Found(row[a])
<1>1. Init => AllFound
  BY DEF Init, Found, InDoubt, PendingSync, NoRow
<1>2. TypeOK /\ AllFound /\ [Next]_vars => AllFound'
  <2> SUFFICES ASSUME TypeOK, AllFound, [Next]_vars, NEW a \in Actions PROVE Found(row'[a])
    BY DEF Found, InDoubt, PendingSync
  <2>1. RowTurns
    BY RowSteps
  <2>2. CASE row' = row
    BY <2>2
  <2>3. ASSUME NEW b \in Actions, NEW q \in Rows, Record(b, q), Turn(row[b], q)
        PROVE  Found(row'[a])
    <3>1. row'[a] = IF a = b THEN q ELSE row[a]
      BY <2>3, TypeSplit DEF Record
    <3> QED BY <2>3, <3>1 DEF Turn
  <2>4. ASSUME NEW b \in Actions, Record(b, Claimed(row[b]))
        PROVE  Found(row'[a])
    <3>1. row'[a] = IF a = b THEN Claimed(row[b]) ELSE row[a]
      BY <2>4, TypeSplit DEF Record
    <3>2. Claimed(row[b]).timer = "running"
      BY TypeSplit DEF Claimed, Rows
    <3> QED BY <3>1, <3>2 DEF Found
  <2> QED BY <2>1, <2>2, <2>3, <2>4 DEF RowTurns
<1>3. AllFound => Discoverable
  BY DEF Discoverable, Found
<1> QED BY <1>1, <1>2, <1>3, Typing, PTL DEF Spec

-----------------------------------------------------------------------------
(* The way of a call: who marks a projection, and who sends outside the ledger. *)

\* Where a call may still turn to sending outside the ledger.
Asking == {"authorize", "claim", "recheck", "validate", "untracked"}

\* What a call may become: something else, asking on as k did, marking a projection that ran
\* (in P), or beginning on a record that was R[act] and is registered as Q[act].
Aside(m) == m.pc \notin Asking \cup {"mark"}

AsksOn(k, m) ==
  /\ m.act = k.act /\ m.enforce = k.enforce
  /\ k.pc \in Asking /\ m.pc \in Asking /\ (m.pc = "untracked" => ~m.enforce)

Marks(m, P) == m.pc = "mark" /\ P[m.act]

Starts(m, R, Q) ==
  /\ m.pc \in {"authorize", "untracked"} /\ (m.pc = "untracked" => ~m.enforce)
  /\ \E o \in CallModes : m.enforce = Enforced(o, Q[m.act]) /\ Q[m.act] = Registered(R[m.act], o)

Way(k, m, P, R, Q) == Aside(m) \/ AsksOn(k, m) \/ Marks(m, P) \/ Starts(m, R, Q)

OneWay ==
  \/ work' = work
  \/ \E w \in Workers : /\ \A v \in Workers \ {w} : work'[v] = work[v]
                        /\ Way(work[w], work'[w], projected', row, row')

LEMMA MovedTo ==
  ASSUME TypeOK, NEW w \in Workers, NEW p, NEW x,
         \/ Goto(w, p)
         \/ work' = [work EXCEPT ![w].pc = p, ![w].held = x]
         \/ work' = [work EXCEPT ![w].pc = p, ![w].out = x]
         \/ work' = [work EXCEPT ![w].pc = p, ![w].lease = x]
  PROVE  /\ \A v \in Workers \ {w} : work'[v] = work[v]
         /\ work'[w].pc = p /\ work'[w].act = work[w].act /\ work'[w].enforce = work[w].enforce
  BY TypeSplit DEF WorkOK, Works, Goto

LEMMA Replaced ==
  ASSUME TypeOK, NEW w \in Workers, NEW m, work' = [work EXCEPT ![w] = m]
  PROVE  /\ \A v \in Workers \ {w} : work'[v] = work[v]
         /\ work'[w] = m
  BY TypeSplit DEF WorkOK

LEMMA WayOf ==
  ASSUME NEW w \in Workers, \A v \in Workers \ {w} : work'[v] = work[v],
         \/ Aside(work'[w]) \/ AsksOn(work[w], work'[w])
         \/ Marks(work'[w], projected') \/ Starts(work'[w], row, row')
  PROVE  OneWay
  BY DEF OneWay, Way

LEMMA WayPut ==
  ASSUME TypeOK, NEW w \in Workers, NEW m, work' = [work EXCEPT ![w] = m],
         m.pc \notin Asking \cup {"mark"}
  PROVE  OneWay
<1>1. work'[w] = m /\ \A v \in Workers \ {w} : work'[v] = work[v]
  BY Replaced
<1>2. Aside(work'[w])
  BY <1>1 DEF Aside
<1> QED BY <1>1, <1>2, WayOf

LEMMA WayReturn == ASSUME TypeOK, NEW w \in Workers, Return(w) PROVE OneWay
<1>1. Idle.pc = "idle" /\ work' = [work EXCEPT ![w] = Idle]
  BY DEF Return, Idle
<1> QED BY <1>1, WayPut DEF Asking

LEMMA WayAside ==
  ASSUME TypeOK, NEW w \in Workers, NEW p, p \notin Asking \cup {"mark"}, NEW x,
         \/ Goto(w, p)
         \/ work' = [work EXCEPT ![w].pc = p, ![w].held = x]
         \/ work' = [work EXCEPT ![w].pc = p, ![w].out = x]
  PROVE  OneWay
<1>1. work'[w].pc = p /\ \A v \in Workers \ {w} : work'[v] = work[v]
  BY MovedTo
<1>2. Aside(work'[w])
  BY <1>1 DEF Aside
<1> QED BY <1>1, <1>2, WayOf

LEMMA WayAsks ==
  ASSUME TypeOK, NEW w \in Workers, work[w].pc \in Asking,
         NEW p \in Asking, p = "untracked" => ~work[w].enforce, NEW x,
         Goto(w, p) \/ work' = [work EXCEPT ![w].pc = p, ![w].lease = x]
  PROVE  OneWay
<1>1. /\ \A v \in Workers \ {w} : work'[v] = work[v]
      /\ work'[w].pc = p /\ work'[w].act = work[w].act /\ work'[w].enforce = work[w].enforce
  BY MovedTo
<1>2. AsksOn(work[w], work'[w])
  BY <1>1 DEF AsksOn
<1> QED BY <1>1, <1>2, WayOf

LEMMA WayBlocked ==
  ASSUME TypeOK, NEW w \in Workers, work[w].pc \in Asking, BlockedOrUntracked(w)
  PROVE  OneWay
<1>1. CASE Return(w)
  BY <1>1, WayReturn
<1>2. CASE Goto(w, "untracked") /\ ~work[w].enforce
  BY <1>2, WayAsks DEF Asking
<1> QED BY <1>1, <1>2 DEF BlockedOrUntracked

LEMMA WayPrepare ==
  ASSUME TypeOK, NEW e \in Workers, NEW a \in Actions, NEW o \in CallModes, Prepare(e, a, o)
  PROVE  OneWay
<1> DEFINE r == Registered(row[a], o)
           c == (row[a].status = "absent" \/ Open(row[a])) /\ Conflict(a)
           k(p) == [Idle EXCEPT !.pc = p, !.act = a, !.enforce = Enforced(o, r), !.held = LeaseOf(r)]
<1>1. row'[a] = r /\ AfterPrepare(e, a, o, c, r)
  BY TypeSplit DEF Prepare, Record
<1>2. \/ Return(e)
      \/ \E p \in {"sync", "authorize"} : work' = [work EXCEPT ![e] = k(p)]
      \/ ~Enforced(o, r) /\ work' = [work EXCEPT ![e] = k("untracked")]
  BY <1>1 DEF AfterPrepare
<1> HIDE DEF r, c
<1>3. \A p : k(p).pc = p /\ k(p).act = a /\ k(p).enforce = Enforced(o, r)
  BY DEF Idle
<1> HIDE DEF k
<1>4. CASE Return(e)
  BY <1>4, WayReturn
<1>5. ASSUME NEW p \in {"sync", "authorize", "untracked"}, work' = [work EXCEPT ![e] = k(p)],
             p = "untracked" => ~Enforced(o, r)
      PROVE  OneWay
  <2>1. work'[e] = k(p) /\ \A v \in Workers \ {e} : work'[v] = work[v]
    BY <1>5, Replaced
  <2>2. CASE p = "sync"
    <3>1. Aside(k(p))
      BY <1>3, <2>2 DEF Aside, Asking
    <3> QED BY <2>1, <3>1, WayOf
  <2>3. CASE p \in {"authorize", "untracked"}
    <3>1. row'[a] = Registered(row[a], o)
      BY <1>1 DEF r
    <3>2. k(p).enforce = Enforced(o, row'[a])
      BY <1>1, <1>3
    <3>3. Starts(k(p), row, row')
      BY <1>3, <1>5, <2>3, <3>1, <3>2 DEF Starts
    <3> QED BY <2>1, <3>3, WayOf
  <2> QED BY <1>5, <2>2, <2>3
<1> QED BY <1>2, <1>4, <1>5

LEMMA WaySteps == TypeOK /\ [Next]_vars => OneWay
<1> SUFFICES ASSUME TypeOK, [Next]_vars PROVE OneWay
  OBVIOUS
<1>1. ASSUME NEW e \in Executors, Execute(e) PROVE OneWay
  <2>0. e \in Workers
    BY DEF Workers
  <2>1. CASE \E a \in Actions, o \in CallModes : Prepare(e, a, o)
    BY <2>0, <2>1, WayPrepare
  <2>2. CASE Authorize(e)
    BY <2>0, <2>2, WayAsks, WayAside DEF Authorize, Asking
  <2>3. CASE Claim(e)
    BY <2>0, <2>3, WayAsks DEF Claim, Asking
  <2>4. CASE ClaimRefused(e) \/ StoreFails(e)
    BY <2>0, <2>4, WayBlocked DEF ClaimRefused, StoreFails, Asking
  <2>5. CASE Recheck(e)
    BY <2>0, <2>5, WayAsks, WayAside DEF Recheck, Asking
  <2>6. CASE Validate(e)
    BY <2>0, <2>6, WayBlocked, WayAside DEF Validate, Asking
  <2>7. CASE Cancel(e) \/ Dispatch(e) \/ DispatchUntracked(e) \/ SaveFails(e)
    <3>1. Return(e) \/ \E p \in {"wait", "resave", "enqueue"} : Goto(e, p)
      BY <2>7 DEF Cancel, Dispatch, DispatchUntracked, SaveFails
    <3> QED BY <2>0, <3>1, WayAside, WayReturn DEF Asking
  <2>8. CASE Respond(e)
    BY <2>0, <2>8, WayAside DEF Respond, Asking
  <2>9. CASE Save(e) \/ Enqueue(e)
    <3>1. Return(e) \/ \E x : work' = [work EXCEPT ![e].pc = "sync", ![e].held = x]
      BY <2>9 DEF Save, AfterSave, Enqueue
    <3> QED BY <2>0, <3>1, WayAside, WayReturn DEF Asking
  <2> QED BY <1>1, <2>1, <2>2, <2>3, <2>4, <2>5, <2>6, <2>7, <2>8, <2>9 DEF Execute
<1>2. ASSUME NEW v \in Workers, Recover(v) \/ Sync(v) \/ Mark(v) PROVE OneWay
  <2>1. ASSUME NEW a \in Actions, ReconcileClaim(v, a) PROVE OneWay
    <3> DEFINE r == TakenOver(row[a])
               m(p) == [Idle EXCEPT !.pc = p, !.act = a, !.lease = LeaseOf(r),
                                    !.held = LeaseOf(r), !.tries = r.tries]
    <3>1. PICK p \in {"read", "sync", "notify"} : work' = [work EXCEPT ![v] = m(p)]
      BY <2>1 DEF ReconcileClaim
    <3>2. m(p).pc = p
      BY DEF Idle
    <3> HIDE DEF m
    <3> QED BY <3>1, <3>2, WayPut DEF Asking
  <2>2. ASSUME NEW j \in jobs, RepairJob(v, j) PROVE OneWay
    <3> DEFINE m == [Idle EXCEPT !.pc = "sync", !.act = j.act,
                                 !.held = LeaseOf(Settled(row[j.act], j.lease, j.out))]
    <3>1. work' = work \/ work' = [work EXCEPT ![v] = m]
      BY <2>2 DEF RepairJob
    <3>2. m.pc = "sync"
      BY DEF Idle
    <3> HIDE DEF m
    <3>3. CASE work' = work
      BY <3>3 DEF OneWay
    <3> QED BY <3>1, <3>2, <3>3, WayPut DEF Asking
  <2>3. CASE ReadEvidence(v)
    <3>1. Goto(v, "notify") \/ \E c : work' = [work EXCEPT ![v].pc = "settle", ![v].out = c]
      BY <2>3 DEF ReadEvidence
    <3> QED BY <3>1, WayAside, WayReturn DEF Asking
  <2>4. CASE SettleRecovered(v)
    <3> DEFINE r == Settled(row[work[v].act], work[v].lease, work[v].out)
               p == CASE r.status = "succeeded" -> IF work[v].act \in Handled THEN "sync" ELSE "notify"
                      [] InDoubt(r) -> "defer"
                      [] OTHER -> "idle"
    <3>1. IF p = "idle" THEN Return(v) ELSE work' = [work EXCEPT ![v].pc = p, ![v].held = LeaseOf(r)]
      BY <2>4 DEF SettleRecovered
    <3>2. p \in {"sync", "notify", "defer", "idle"}
      OBVIOUS
    <3> HIDE DEF p, r
    <3> QED BY <3>1, <3>2, WayAside, WayReturn DEF Asking
  <2>5. CASE Defer(v) \/ Notify(v) \/ NotifyFails(v) \/ Park(v)
    BY <2>5, WayAside, WayReturn DEF Defer, Notify, NotifyFails, Park, Asking
  <2>6. CASE RecoverFails(v) \/ Mark(v)
    <3>1. Return(v) \/ \E x : work' = [work EXCEPT ![v].pc = "defer", ![v].held = x]
      BY <2>6 DEF RecoverFails, Mark
    <3> QED BY <3>1, WayAside, WayReturn DEF Asking
  <2>7. CASE Sync(v)
    <3>1. work[v].act \in Actions
      BY <2>7, WorkFacts DEF Sync
    <3>2. projected'[work[v].act]
      BY <2>7, <3>1, TypeSplit DEF Sync
    <3>3. /\ \A w \in Workers \ {v} : work'[w] = work[w]
          /\ work'[v].pc = "mark" /\ work'[v].act = work[v].act
      BY <2>7, MovedTo DEF Sync
    <3>4. Marks(work'[v], projected')
      BY <3>2, <3>3 DEF Marks
    <3> QED BY <3>3, <3>4, WayOf
  <2> QED BY <1>2, <2>1, <2>2, <2>3, <2>4, <2>5, <2>6, <2>7 DEF Recover
<1>3. CASE Environment
  <2>1. ASSUME NEW w \in Workers, Crash(w) PROVE OneWay
    BY <2>1, WayReturn DEF Crash
  <2>2. CASE work' = work
    BY <2>2 DEF OneWay
  <2> QED BY <1>3, <2>1, <2>2 DEF Environment, Land, Drop, ProviderCallback, TimerFires, DeadlinePasses,
             Redact, Review
<1>4. CASE UNCHANGED vars
  BY <1>4 DEF vars, OneWay
<1> QED BY <1>1, <1>2, <1>3, <1>4 DEF Next, Workers

\* A projection that ran stays run, and only an untracked call sends outside the ledger.
SidesKept ==
  /\ \A a \in Actions : projected[a] => projected'[a]
  /\ \A a \in Actions : loose'[a] =>
       loose[a] \/ (row' = row /\ \E w \in Workers : work[w].pc = "untracked" /\ work[w].act = a)

LEMMA SidesSteps == TypeOK /\ [Next]_vars => SidesKept
<1> SUFFICES ASSUME TypeOK, [Next]_vars PROVE SidesKept
  OBVIOUS
<1>1. CASE projected' = projected /\ loose' = loose
  BY <1>1 DEF SidesKept
<1>2. ASSUME NEW w \in Workers, Sync(w) PROVE SidesKept
  <2>1. loose' = loose /\ projected' = [projected EXCEPT ![work[w].act] = TRUE]
    BY <1>2 DEF Sync
  <2>2. projected \in [Actions -> BOOLEAN]
    BY DEF TypeOK
  <2> QED BY <2>1, <2>2 DEF SidesKept
<1>3. ASSUME NEW e \in Executors, DispatchUntracked(e) PROVE SidesKept
  <2>1. /\ projected' = projected /\ row' = row /\ work[e].pc = "untracked"
        /\ loose' = loose \/ loose' = [loose EXCEPT ![work[e].act] = TRUE]
    BY <1>3 DEF DispatchUntracked
  <2>2. loose \in [Actions -> BOOLEAN] /\ e \in Workers
    BY DEF TypeOK, Workers
  <2>3. ASSUME NEW a \in Actions, loose'[a], ~loose[a] PROVE work[e].act = a
    BY <2>1, <2>2, <2>3
  <2> QED BY <2>1, <2>2, <2>3 DEF SidesKept
<1>4. ASSUME NEW e \in Executors, Execute(e), ~DispatchUntracked(e)
      PROVE  projected' = projected /\ loose' = loose
  BY <1>4 DEF Execute, Prepare, Authorize, Cancel, Claim, ClaimRefused, Recheck, Validate, Dispatch, Respond,
              Save, SaveFails, Enqueue, StoreFails
<1>5. ASSUME NEW v \in Recoverers, Recover(v) PROVE projected' = projected /\ loose' = loose
  <2>1. ASSUME NEW a \in Actions, ReconcileClaim(v, a) PROVE projected' = projected /\ loose' = loose
    BY <2>1 DEF ReconcileClaim
  <2>2. ASSUME NEW j \in jobs, RepairJob(v, j) PROVE projected' = projected /\ loose' = loose
    BY <2>2 DEF RepairJob
  <2>3. CASE ReadEvidence(v) \/ SettleRecovered(v)
    BY <2>3 DEF ReadEvidence, SettleRecovered
  <2>4. CASE Defer(v) \/ Notify(v) \/ NotifyFails(v) \/ Park(v) \/ RecoverFails(v)
    BY <2>4 DEF Defer, Notify, NotifyFails, Park, RecoverFails
  <2> QED BY <1>5, <2>1, <2>2, <2>3, <2>4 DEF Recover
<1>6. ASSUME NEW w \in Workers, Mark(w) PROVE projected' = projected /\ loose' = loose
  BY <1>6 DEF Mark
<1>7. CASE Environment
  BY <1>1, <1>7 DEF Environment, Land, Drop, ProviderCallback, TimerFires, DeadlinePasses, Redact, Review, Crash
<1>8. CASE UNCHANGED vars
  BY <1>1, <1>8 DEF vars
<1> QED BY <1>1, <1>2, <1>3, <1>4, <1>5, <1>6, <1>7, <1>8 DEF Next

\* A worker on its way to mark a success holds a projection that ran.
MarksTrue == \A w \in Workers : work[w].pc = "mark" => projected[work[w].act]

CompleteRan == \A a \in Actions : Complete(row[a]) => projected[a]

\* A success is marked synced only after some local projection of it ran, whichever of the
\* executor, the scanner and the repair job ran it and whichever of them marked it.
THEOREM SyncedMeansProjectedHolds == Spec => []SyncedMeansProjected
<1>1. Init => CompleteRan /\ MarksTrue
  BY DEF Init, CompleteRan, MarksTrue, Complete, NoRow, Idle
<1>2. TypeOK /\ CompleteRan /\ MarksTrue /\ [Next]_vars => CompleteRan'
  <2> SUFFICES ASSUME TypeOK, CompleteRan, MarksTrue, [Next]_vars,
                      NEW a \in Actions, Complete(row'[a])
               PROVE  projected'[a]
    BY DEF CompleteRan, Complete
  <2>1. RowTurns
    BY RowSteps
  <2>2. projected[a] => projected'[a]
    BY SidesSteps DEF SidesKept
  <2>3. CASE row' = row
    BY <2>2, <2>3 DEF CompleteRan
  <2>4. ASSUME NEW b \in Actions, NEW q \in Rows, Record(b, q), Complete(q) => Complete(row[b]) \/ Marking(b)
        PROVE  projected[a]
    <3>1. row'[a] = IF a = b THEN q ELSE row[a]
      BY <2>4, TypeSplit DEF Record
    <3>2. Complete(row[a]) \/ Marking(a)
      BY <2>4, <3>1
    <3> QED BY <3>2 DEF CompleteRan, MarksTrue, Marking
  <2>5. ASSUME NEW b \in Actions, Record(b, Claimed(row[b]))
        PROVE  projected[a]
    <3>1. row'[a] = IF a = b THEN Claimed(row[b]) ELSE row[a]
      BY <2>5, TypeSplit DEF Record
    <3>2. ~Complete(Claimed(row[b]))
      BY OnlyMarkCompletes, TypeSplit
    <3> QED BY <3>1, <3>2 DEF CompleteRan
  <2> QED BY <2>1, <2>2, <2>3, <2>4, <2>5 DEF RowTurns
<1>3. TypeOK /\ MarksTrue /\ [Next]_vars => MarksTrue'
  <2> SUFFICES ASSUME TypeOK, MarksTrue, [Next]_vars, NEW w \in Workers, work'[w].pc = "mark"
               PROVE  projected'[work'[w].act]
    BY DEF MarksTrue
  <2>1. CASE work'[w] = work[w]
    <3>1. work[w].act \in Actions /\ projected[work[w].act]
      BY <2>1, WorkFacts DEF MarksTrue
    <3> QED BY <2>1, <3>1, SidesSteps DEF SidesKept
  <2>2. CASE Way(work[w], work'[w], projected', row, row')
    BY <2>2 DEF Way, Aside, AsksOn, Marks, Starts, Asking
  <2> QED BY <2>1, <2>2, WaySteps DEF OneWay
<1>4. CompleteRan => SyncedMeansProjected
  BY DEF CompleteRan, Complete, SyncedMeansProjected
<1> QED BY <1>1, <1>2, <1>3, <1>4, Typing, PTL DEF Spec

\* A row that was registered to be watched only.
Observed(r) == r.status # "absent" /\ r.mode # "execute"

AsksObserved ==
  \A w \in Workers :
    work[w].pc \in Asking =>
      /\ work[w].pc = "untracked" => ~work[w].enforce
      /\ ~work[w].enforce => Observed(row[work[w].act])

LooseObserved == \A a \in Actions : loose[a] => Observed(row[a])

LEMMA ObservedKept ==
  ASSUME TypeOK, RowTurns, NEW a \in Actions, Observed(row[a])
  PROVE  Observed(row'[a])
<1>1. ASSUME NEW b \in Actions, NEW q \in Rows, Record(b, q), Turn(row[b], q) PROVE Observed(row'[a])
  <2>1. row'[a] = IF a = b THEN q ELSE row[a]
    BY <1>1, TypeSplit DEF Record
  <2> QED BY <1>1, <2>1 DEF Turn, Observed, InDoubt
<1>2. ASSUME NEW b \in Actions, Record(b, Claimed(row[b])) PROVE Observed(row'[a])
  <2>1. row'[a] = IF a = b THEN Claimed(row[b]) ELSE row[a]
    BY <1>2, TypeSplit DEF Record
  <2>2. Claimed(row[a]).mode = row[a].mode /\ Claimed(row[a]).status = "executing"
    BY TypeSplit DEF Claimed, Rows
  <2> QED BY <2>1, <2>2 DEF Observed
<1> QED BY <1>1, <1>2 DEF RowTurns

\* No request of an execute action is sent outside the ledger, not even by a process rolled
\* back to observe, as long as no process runs with actions off: a call that does not enforce
\* found the action registered to be watched only, and it stays so.
THEOREM ExecuteNeverLooseHolds == ASSUME "off" \notin CallModes PROVE Spec => []ExecuteNeverLoose
<1>1. Init => AsksObserved /\ LooseObserved
  BY DEF Init, AsksObserved, LooseObserved, Asking, Idle
<1>2. TypeOK /\ TypeOK' /\ AsksObserved /\ [Next]_vars => AsksObserved'
  <2> SUFFICES ASSUME TypeOK, TypeOK', AsksObserved, [Next]_vars, NEW w \in Workers, work'[w].pc \in Asking
               PROVE  /\ work'[w].pc = "untracked" => ~work'[w].enforce
                      /\ ~work'[w].enforce => Observed(row'[work'[w].act])
    BY DEF AsksObserved, Observed
  <2>1. RowTurns
    BY RowSteps
  <2>2. ASSUME work[w].pc \in Asking, ~work[w].enforce PROVE Observed(row'[work[w].act])
    <3>1. work[w].act \in Actions /\ Observed(row[work[w].act])
      BY <2>2, WorkFacts DEF AsksObserved, Asking
    <3> QED BY <2>1, <3>1, ObservedKept
  <2>3. CASE work'[w] = work[w]
    BY <2>2, <2>3 DEF AsksObserved
  <2>4. CASE AsksOn(work[w], work'[w])
    BY <2>2, <2>4 DEF AsksOn
  <2>5. ASSUME NEW o \in CallModes, work'[w].enforce = Enforced(o, row'[work'[w].act]),
               row'[work'[w].act] = Registered(row[work'[w].act], o)
        PROVE  ~work'[w].enforce => Observed(row'[work'[w].act])
    <3>1. row[work'[w].act] \in Rows \/ work'[w].act \notin Actions
      BY TypeSplit
    <3>2. work'[w].act \in Actions
      BY DEF TypeOK, Asking
    <3>3. o # "off"
      BY <2>5
    <3> QED BY <2>5, <3>1, <3>2, <3>3 DEF Enforced, Registered, Observed, Rows
  <2>6. CASE Way(work[w], work'[w], projected', row, row')
    <3>1. CASE Starts(work'[w], row, row')
      BY <2>5, <3>1 DEF Starts
    <3>2. CASE Aside(work'[w]) \/ Marks(work'[w], projected')
      BY <3>2 DEF Aside, Marks, Asking
    <3> QED BY <2>4, <2>6, <3>1, <3>2 DEF Way
  <2> QED BY <2>3, <2>6, WaySteps DEF OneWay
<1>3. TypeOK /\ AsksObserved /\ LooseObserved /\ [Next]_vars => LooseObserved'
  <2> SUFFICES ASSUME TypeOK, AsksObserved, LooseObserved, [Next]_vars, NEW a \in Actions, loose'[a]
               PROVE  Observed(row'[a])
    BY DEF LooseObserved, Observed
  <2>1. CASE loose[a]
    BY <2>1, RowSteps, ObservedKept DEF LooseObserved
  <2>2. ASSUME row' = row, NEW w \in Workers, work[w].pc = "untracked", work[w].act = a
        PROVE  Observed(row'[a])
    BY <2>2 DEF AsksObserved, Asking
  <2> QED BY <2>1, <2>2, SidesSteps DEF SidesKept
<1>4. LooseObserved => ExecuteNeverLoose
  BY DEF LooseObserved, Observed, ExecuteNeverLoose
<1> QED BY <1>1, <1>2, <1>3, <1>4, Typing, PTL DEF Spec

-----------------------------------------------------------------------------
(***************************************************************************)
(* The protocol implements ActionOutcome.  A row and the fates of its      *)
(* attempts determine the phase and the effects of the action.             *)
(***************************************************************************)

PhaseOf(r) ==
  IF r.mode # "execute" \/ r.status = "registered" THEN "open"
  ELSE CASE InDoubt(r) -> "inDoubt"
         [] r.status = "succeeded" -> "done"
         [] r.status = "failed" /\ r.retryable -> "open"
         [] OTHER -> "void"

Landed(f) == {t \in Attempts : f[t] = "landed"}

EffectsOf(r, f) == IF r.mode = "execute" THEN Cardinality(Landed(f)) ELSE 0

\* Only the current attempt can have landed, so effects are none or one.
LEMMA LandedOnce ==
  ASSUME NEW r \in Rows, NEW f, RowFits(r, f)
  PROVE  /\ (\A t \in Attempts : f[t] # "landed") => EffectsOf(r, f) = 0
         /\ \A t \in Attempts : f[t] = "landed" /\ r.mode = "execute" => EffectsOf(r, f) = 1
<1>1. ASSUME \A t \in Attempts : f[t] # "landed" PROVE EffectsOf(r, f) = 0
  <2>1. Landed(f) = {}
    BY <1>1 DEF Landed
  <2> QED BY <2>1, FS_EmptySet DEF EffectsOf
<1>2. ASSUME NEW t \in Attempts, f[t] = "landed", r.mode = "execute" PROVE EffectsOf(r, f) = 1
  <2>1. Landed(f) = {t}
    BY <1>2 DEF Landed, RowFits
  <2> QED BY <1>2, <2>1, FS_Singleton DEF EffectsOf
<1> QED BY <1>1, <1>2

\* What ActionOutcome allows of one action, in phases p, q and effects m, n.
Allowed(p, m, q, n) ==
  \/ q = p /\ n = m
  \/ p = "inDoubt" /\ m = 0 /\ q = p /\ n = 1
  \/ p = "inDoubt" /\ m = 1 /\ q = "done" /\ n = m
  \/ p = "inDoubt" /\ m = 0 /\ q = "open" /\ n = m
  \/ p \in {"open", "inDoubt"} /\ m = 0 /\ q = "void" /\ n = m

\* A row that takes a turn while the outside does not change.
LEMMA TurnAllowed ==
  ASSUME ~Misreports, NEW r \in Rows, NEW q \in Rows, NEW f, RowFits(r, f), RowFits(q, f), Turn(r, q),
         r.status = "absent" => r.mode # "execute"
  PROVE  Allowed(PhaseOf(r), EffectsOf(r, f), PhaseOf(q), EffectsOf(q, f))
<1>1. CASE r.mode = q.mode /\ (PhaseOf(r) = PhaseOf(q))
  BY <1>1 DEF Allowed, EffectsOf
<1>2. CASE r.mode = q.mode /\ r.mode # "execute"
  BY <1>2 DEF Allowed, EffectsOf, PhaseOf
<1>3. CASE q.mode = r.mode /\ q.status = r.status /\ q.retryable = r.retryable
  <2>1. PhaseOf(r) = PhaseOf(q)
    BY <1>3 DEF PhaseOf, InDoubt
  <2> QED BY <1>1, <1>3, <2>1
<1>4. CASE InDoubt(r) /\ InDoubt(q)
  <2>1. r.mode = q.mode
    BY <1>4 DEF Turn, InDoubt
  <2>2. PhaseOf(r) = PhaseOf(q)
    BY <1>4, <2>1 DEF PhaseOf, InDoubt
  <2> QED BY <1>1, <2>1, <2>2
<1>5. ASSUME \A t \in Attempts : f[t] # "landed"
      PROVE  EffectsOf(r, f) = 0 /\ EffectsOf(q, f) = 0
  BY <1>5, LandedOnce
<1>6. CASE r.status \in {"absent", "registered"} /\ q.status \in {"registered", "cancelled"}
  <2>1. EffectsOf(r, f) = 0 /\ EffectsOf(q, f) = 0
    <3>1. r.attempt = 0
      BY <1>6 DEF RowFits
    <3>2. \A t \in Attempts : f[t] # "landed"
      BY <3>1 DEF RowFits, Attempts
    <3> QED BY <1>5, <3>2
  <2>2. PhaseOf(r) = "open" /\ PhaseOf(q) \in {"open", "void"}
    BY <1>6 DEF PhaseOf, InDoubt
  <2> QED BY <2>1, <2>2 DEF Allowed
<1>7. CASE InDoubt(r) /\ q.status \in {"succeeded", "failed"} /\ r.mode = "execute"
  <2>1. /\ q.mode = "execute" /\ PhaseOf(r) = "inDoubt" /\ q.attempt \in Attempts
        /\ \A t \in Attempts : t # q.attempt => f[t] # "landed"
    BY <1>7 DEF Turn, InDoubt, PhaseOf, RowFits
  <2>2. CASE q.status = "succeeded"
    <3>1. f[q.attempt] = "landed" /\ PhaseOf(q) = "done"
      BY <2>1, <2>2 DEF RowFits, Truth, PhaseOf, InDoubt
    <3>2. EffectsOf(r, f) = 1 /\ EffectsOf(q, f) = 1
      BY <1>7, <2>1, <3>1, LandedOnce
    <3> QED BY <2>1, <3>1, <3>2 DEF Allowed
  <2>3. CASE q.status = "failed"
    <3>1. f[q.attempt] # "landed"
      BY <2>3 DEF RowFits, Truth
    <3>2. EffectsOf(r, f) = 0 /\ EffectsOf(q, f) = 0
      BY <1>5, <2>1, <3>1
    <3>3. PhaseOf(q) \in {"open", "void"}
      BY <2>3 DEF PhaseOf, InDoubt
    <3> QED BY <2>1, <3>2, <3>3 DEF Allowed
  <2> QED BY <1>7, <2>2, <2>3
<1>8. CASE InDoubt(r) /\ q.status \in {"succeeded", "failed"} /\ r.mode # "execute"
  BY <1>2, <1>8 DEF Turn, InDoubt
<1> QED BY <1>3, <1>4, <1>6, <1>7, <1>8 DEF Turn

\* A claim is a new attempt at an action without effect.
LEMMA ClaimAllowed ==
  ASSUME NEW r \in Rows, NEW f, RowFits(r, f), RowFits(Claimed(r), f), Open(r)
  PROVE  /\ EffectsOf(Claimed(r), f) = EffectsOf(r, f) /\ PhaseOf(r) = "open"
         /\ r.mode = "execute" => EffectsOf(r, f) = 0 /\ PhaseOf(Claimed(r)) = "inDoubt"
         /\ r.mode # "execute" => PhaseOf(Claimed(r)) = "open"
<1>1. Claimed(r).mode = r.mode /\ Claimed(r).status = "executing"
  BY DEF Claimed, Rows
<1>2. \A t \in Attempts : f[t] # "landed"
  <2>1. CASE r.status = "registered"
    BY <2>1 DEF RowFits, Attempts
  <2>2. CASE r.status = "failed" /\ r.retryable
    BY <2>2 DEF RowFits, Truth
  <2> QED BY <2>1, <2>2 DEF Open
<1>3. EffectsOf(r, f) = 0
  BY <1>2, LandedOnce
<1> QED BY <1>1, <1>3 DEF EffectsOf, PhaseOf, InDoubt, Open

\* What a step does outside: nothing, or one request goes on while the rows stay.
WireTurns ==
  \/ wire' = wire
  \/ /\ row' = row
     /\ \E a \in Actions, t \in Attempts, f \in {"inflight", "landed", "dead"} :
          /\ wire' = [wire EXCEPT ![a][t] = f] /\ wire[a][t] # "landed"
          /\ f = "landed" => wire[a][t] = "inflight"

LEMMA WireSteps == TypeOK /\ EffectInv /\ [Next]_vars => WireTurns
<1> SUFFICES ASSUME TypeOK, EffectInv, [Next]_vars PROVE WireTurns
  OBVIOUS
<1>1. ASSUME NEW e \in Executors, Dispatch(e) PROVE WireTurns
  <2>1. PICK a \in Actions, t \in Attempts : work[e].act = a /\ work[e].lease.attempt = t
    BY <1>1, WorkFacts DEF Dispatch, EffectInv, Told, Telling, Fresh, Workers
  <2>2. About(work[e], a, t) /\ e \in Workers
    BY <1>1, <2>1 DEF Dispatch, About, Fresh, Workers
  <2>3. wire[a][t] = "unsent"
    BY <2>2 DEF EffectInv, FreshAlone
  <2> QED BY <1>1, <2>1, <2>3 DEF Dispatch, WireTurns
<1>2. ASSUME NEW a \in Actions, NEW t \in Attempts, Land(a, t) \/ Drop(a, t) PROVE WireTurns
  BY <1>2 DEF Land, Drop, WireTurns
<1>3. CASE wire' = wire
  BY <1>3 DEF WireTurns
<1> QED
  BY <1>1, <1>2, <1>3
  DEF Next, Execute, Recover, Environment, vars, Prepare, Authorize, Cancel, Claim, ClaimRefused, Recheck,
      Validate, Respond, Save, SaveFails, Enqueue, StoreFails, DispatchUntracked, Sync, Mark,
      ReconcileClaim, ReadEvidence, SettleRecovered, Defer, Notify, NotifyFails, Park, RecoverFails,
      RepairJob, ProviderCallback, TimerFires, DeadlinePasses, Review, Redact, Crash

\* A row that is not in the table has no mode.
AbsentOff == \A a \in Actions : row[a].status = "absent" => row[a].mode # "execute"

LEMMA AbsentOffAlways == Spec => []AbsentOff
<1>1. Init => AbsentOff
  BY DEF Init, AbsentOff, NoRow
<1>2. TypeOK /\ AbsentOff /\ [Next]_vars => AbsentOff'
  <2> SUFFICES ASSUME TypeOK, AbsentOff, [Next]_vars, NEW a \in Actions, row'[a].status = "absent"
               PROVE  row'[a].mode # "execute"
    BY DEF AbsentOff
  <2>1. RowTurns
    BY RowSteps
  <2>2. CASE row' = row
    BY <2>2 DEF AbsentOff
  <2>3. ASSUME NEW b \in Actions, NEW q \in Rows, Record(b, q), Turn(row[b], q)
        PROVE  row'[a].mode # "execute"
    <3>1. row'[a] = IF a = b THEN q ELSE row[a]
      BY <2>3, TypeSplit DEF Record
    <3> QED BY <2>3, <3>1 DEF Turn, InDoubt, AbsentOff
  <2>4. ASSUME NEW b \in Actions, Record(b, Claimed(row[b]))
        PROVE  row'[a].mode # "execute"
    <3>1. row'[a] = IF a = b THEN Claimed(row[b]) ELSE row[a]
      BY <2>4, TypeSplit DEF Record
    <3>2. Claimed(row[b]).status = "executing"
      BY TypeSplit DEF Claimed, Rows
    <3> QED BY <3>1, <3>2 DEF AbsentOff
  <2> QED BY <2>1, <2>2, <2>3, <2>4 DEF RowTurns
<1> QED BY <1>1, <1>2, Typing, PTL DEF Spec

\* One action goes from phase and effects p, m to q, n, as ActionOutcome allows, or begins.
LEMMA OutcomeStep ==
  ASSUME NEW a \in Actions, NEW q, NEW n,
         \A b \in Actions \ {a} : PhaseOf(row'[b]) = PhaseOf(row[b])
                                  /\ EffectsOf(row'[b], wire'[b]) = EffectsOf(row[b], wire[b]),
         PhaseOf(row'[a]) = q, EffectsOf(row'[a], wire'[a]) = n,
         \/ Allowed(PhaseOf(row[a]), EffectsOf(row[a], wire[a]), q, n)
         \/ /\ PhaseOf(row[a]) = "open" /\ EffectsOf(row[a], wire[a]) = 0 /\ q = "inDoubt" /\ n = 0
            /\ \A b \in Actions \ {a} : Resource[b] = Resource[a] => PhaseOf(row[b]) # "inDoubt"
  PROVE  [Outcome!Next]_(Outcome!vars)
<1> DEFINE ph == [b \in Actions |-> PhaseOf(row[b])]
           ef == [b \in Actions |-> EffectsOf(row[b], wire[b])]
           ph2 == [b \in Actions |-> PhaseOf(row'[b])]
           ef2 == [b \in Actions |-> EffectsOf(row'[b], wire'[b])]
<1>1. /\ [b \in Actions |-> Phase(b)] = ph /\ [b \in Actions |-> Phase(b)]' = ph2
  BY DEF Phase, PhaseOf
<1>2. /\ [b \in Actions |-> Effects(b)] = ef /\ [b \in Actions |-> Effects(b)]' = ef2
  BY DEF Effects, EffectsOf, Landed
<1>3. ph2 = [ph EXCEPT ![a] = q] /\ ef2 = [ef EXCEPT ![a] = n] /\ ph[a] = PhaseOf(row[a])
      /\ ef[a] = EffectsOf(row[a], wire[a]) /\ \A b \in Actions : ph[b] = PhaseOf(row[b])
  OBVIOUS
<1>4. DOMAIN ph = Actions /\ DOMAIN ef = Actions /\ [ph EXCEPT ![a] = ph[a]] = ph /\ [ef EXCEPT ![a] = ef[a]] = ef
  OBVIOUS
<1> HIDE DEF ph, ef, ph2, ef2
<1>5. CASE q = ph[a] /\ n = ef[a]
  BY <1>1, <1>2, <1>3, <1>4, <1>5 DEF Outcome!vars
<1>6. CASE ph[a] = "inDoubt" /\ ef[a] = 0 /\ q = ph[a] /\ n = 1
  <2>1. Outcome!TakeEffect(a)
    BY <1>1, <1>2, <1>3, <1>4, <1>6 DEF Outcome!TakeEffect
  <2> QED BY <2>1 DEF Outcome!Next
<1>7. CASE ph[a] = "inDoubt" /\ ef[a] = 1 /\ q = "done" /\ n = ef[a]
  <2>1. Outcome!Confirm(a)
    BY <1>1, <1>2, <1>3, <1>4, <1>7 DEF Outcome!Confirm, Outcome!Enter
  <2> QED BY <2>1 DEF Outcome!Next
<1>8. CASE ph[a] = "inDoubt" /\ ef[a] = 0 /\ q = "open" /\ n = ef[a]
  <2>1. Outcome!Reopen(a)
    BY <1>1, <1>2, <1>3, <1>4, <1>8 DEF Outcome!Reopen, Outcome!Enter
  <2> QED BY <2>1 DEF Outcome!Next
<1>9. CASE ph[a] \in {"open", "inDoubt"} /\ ef[a] = 0 /\ q = "void" /\ n = ef[a]
  <2>1. Outcome!Abandon(a)
    BY <1>1, <1>2, <1>3, <1>4, <1>9 DEF Outcome!Abandon, Outcome!Enter
  <2> QED BY <2>1 DEF Outcome!Next
<1>10. CASE /\ ph[a] = "open" /\ ef[a] = 0 /\ q = "inDoubt" /\ n = 0
            /\ \A b \in Actions \ {a} : Resource[b] = Resource[a] => ph[b] # "inDoubt"
  <2>1. Outcome!Begin(a)
    BY <1>1, <1>2, <1>3, <1>4, <1>10 DEF Outcome!Begin, Outcome!Enter
  <2> QED BY <2>1 DEF Outcome!Next
<1> QED BY <1>3, <1>5, <1>6, <1>7, <1>8, <1>9, <1>10 DEF Allowed

LEMMA OutcomeSteps ==
  ASSUME ~Misreports, TypeOK, TypeOK', EffectInv, EffectInv', AbsentOff, [Next]_vars
  PROVE  [Outcome!Next]_(Outcome!vars)
<1>1. \A a \in Actions : /\ row[a] \in Rows /\ row'[a] \in Rows
                         /\ RowFits(row[a], wire[a]) /\ RowFits(row'[a], wire'[a])
  BY TypeSplit DEF EffectInv, RowsFit, TypeOK
<1>2. CASE wire' = wire
  <2>1. CASE row' = row
    <3>1. /\ [b \in Actions |-> Phase(b)]' = [b \in Actions |-> Phase(b)]
          /\ [b \in Actions |-> Effects(b)]' = [b \in Actions |-> Effects(b)]
      BY <1>2, <2>1 DEF Phase, Effects
    <3> QED BY <3>1 DEF Outcome!vars
  <2>2. ASSUME NEW a \in Actions, NEW q \in Rows, Record(a, q), Turn(row[a], q)
        PROVE  [Outcome!Next]_(Outcome!vars)
    <3>1. \A b \in Actions : row'[b] = IF b = a THEN q ELSE row[b]
      BY <2>2, TypeSplit DEF Record
    <3>2. Allowed(PhaseOf(row[a]), EffectsOf(row[a], wire[a]), PhaseOf(q), EffectsOf(q, wire[a]))
      BY <1>1, <1>2, <2>2, <3>1, TurnAllowed DEF AbsentOff
    <3> QED BY <1>2, <3>1, <3>2, OutcomeStep
  <2>3. ASSUME NEW a \in Actions, Open(row[a]), ~Conflict(a), Record(a, Claimed(row[a]))
        PROVE  [Outcome!Next]_(Outcome!vars)
    <3> DEFINE r == row[a]
               q == Claimed(r)
    <3>1. \A b \in Actions : row'[b] = IF b = a THEN q ELSE row[b]
      BY <2>3, TypeSplit DEF Record
    <3>2. /\ EffectsOf(q, wire[a]) = EffectsOf(r, wire[a]) /\ PhaseOf(r) = "open"
          /\ r.mode = "execute" => EffectsOf(r, wire[a]) = 0 /\ PhaseOf(q) = "inDoubt"
          /\ r.mode # "execute" => PhaseOf(q) = "open"
      BY <1>1, <1>2, <2>3, <3>1, ClaimAllowed
    <3>3. \A b \in Actions \ {a} : Resource[b] = Resource[a] => PhaseOf(row[b]) # "inDoubt"
      BY <2>3 DEF Conflict, Unresolved, PhaseOf
    <3> HIDE DEF q
    <3>4. CASE r.mode = "execute"
      BY <1>2, <3>1, <3>2, <3>3, <3>4, OutcomeStep
    <3>5. CASE r.mode # "execute"
      BY <1>2, <3>1, <3>2, <3>5, OutcomeStep DEF Allowed
    <3> QED BY <3>4, <3>5
  <2>4. RowTurns
    BY RowSteps
  <2> QED BY <2>1, <2>2, <2>3, <2>4 DEF RowTurns
<1>3. ASSUME row' = row, NEW a \in Actions, NEW t \in Attempts, NEW f \in {"inflight", "landed", "dead"},
             wire' = [wire EXCEPT ![a][t] = f], wire[a][t] # "landed",
             f = "landed" => wire[a][t] = "inflight"
      PROVE  [Outcome!Next]_(Outcome!vars)
  <2>1. \A b \in Actions : \A u \in Attempts : wire'[b][u] = IF b = a /\ u = t THEN f ELSE wire[b][u]
    BY <1>3, TypeSplit
  <2>2. ASSUME NEW b \in Actions, b # a \/ f # "landed"
        PROVE  EffectsOf(row'[b], wire'[b]) = EffectsOf(row[b], wire[b])
    <3>1. Landed(wire'[b]) = Landed(wire[b])
      BY <1>3, <2>1, <2>2 DEF Landed
    <3> QED BY <1>3, <3>1 DEF EffectsOf
  <2>3. CASE f # "landed"
    BY <1>3, <2>2, <2>3, OutcomeStep DEF Allowed
  <2>4. CASE f = "landed" /\ row[a].mode # "execute"
    <3>1. EffectsOf(row'[a], wire'[a]) = EffectsOf(row[a], wire[a])
      BY <1>3, <2>4 DEF EffectsOf
    <3> QED BY <1>3, <2>2, <3>1, OutcomeStep DEF Allowed
  <2>5. CASE f = "landed" /\ row[a].mode = "execute"
    <3>1. row[a].attempt = t /\ \A u \in Attempts : wire[a][u] # "landed"
      BY <1>1, <1>3, <2>5 DEF RowFits
    <3>2. InDoubt(row[a])
      BY <1>1, <1>3, <2>5, <3>1 DEF RowFits, Truth, InDoubt, Rows, Statuses, Attempts
    <3>3. PhaseOf(row[a]) = "inDoubt"
      BY <2>5, <3>2 DEF PhaseOf, InDoubt
    <3>4. EffectsOf(row[a], wire[a]) = 0
      BY <1>1, <3>1, LandedOnce
    <3>5. EffectsOf(row'[a], wire'[a]) = 1
      <4>1. wire'[a][t] = "landed" /\ row'[a].mode = "execute"
        BY <1>3, <2>1, <2>5
      <4> QED BY <1>1, <4>1, LandedOnce
    <3> QED BY <1>3, <2>2, <3>3, <3>4, <3>5, OutcomeStep DEF Allowed
  <2> QED BY <2>3, <2>4, <2>5
<1>4. WireTurns
  BY WireSteps
<1> QED BY <1>2, <1>3, <1>4 DEF WireTurns

\* With a provider that reports no landed request as failed, callers, scanner, repair queue,
\* provider and operators together keep the promise of ActionOutcome: an action is tried under
\* the exclusive hold of its resource, takes effect at most once and only while in doubt, and
\* is concluded once, in agreement with the outside.
THEOREM Implements == ASSUME ~Misreports PROVE Spec => ImplementsOutcome
<1>1. Init => Outcome!Init
  <2> SUFFICES ASSUME Init PROVE Outcome!Init
    OBVIOUS
  <2>1. [b \in Actions |-> Phase(b)] = [b \in Actions |-> "open"]
    BY DEF Init, Phase, NoRow
  <2>2. [b \in Actions |-> Effects(b)] = [b \in Actions |-> 0]
    BY DEF Init, Effects, NoRow
  <2> QED BY <2>1, <2>2 DEF Outcome!Init
<1>2. TypeOK /\ TypeOK' /\ EffectInv /\ EffectInv' /\ AbsentOff /\ [Next]_vars => [Outcome!Next]_(Outcome!vars)
  BY OutcomeSteps
<1> QED BY <1>1, <1>2, Typing, EffectAlways, AbsentOffAlways, PTL DEF Spec, ImplementsOutcome, Outcome!Spec
=============================================================================
