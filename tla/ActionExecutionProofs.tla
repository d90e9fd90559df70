------------------------ MODULE ActionExecutionProofs ------------------------
(***************************************************************************)
(* Theorems about ActionExecution for every set of actions, resources,     *)
(* callers and recovery workers and every value of the bounds.             *)
(***************************************************************************)
EXTENDS ActionExecution, TLAPS

-----------------------------------------------------------------------------
(* The transitions of a row keep it a row. *)

LEMMA NoRowType == NoRow \in Rows
  BY DEF NoRow, Rows, Modes, Statuses, Timers

LEMMA BumpType == ASSUME NEW n \in Nat PROVE Bump(n) \in Nat
  BY DEF Bump

LEMMA LeaseOfType == ASSUME NEW r \in Rows PROVE LeaseOf(r) \in Leases
  BY DEF LeaseOf, Rows, Leases

LEMMA DispatchTypes ==
  ASSUME NEW r \in Rows
  PROVE  /\ \A m \in Modes : Registered(r, m) \in Rows
         /\ Claimed(r) \in Rows
         /\ Cancelled(r) \in Rows
         /\ TakenOver(r) \in Rows
  <1>1. \A m \in Modes : Registered(r, m) \in Rows
    BY DEF Registered, Rows, Modes, Statuses
  <1>0. /\ r.tries \in Nat /\ Bump(r.tries) \in Nat
        /\ r.fence \in Nat /\ r.fence + 1 \in Nat
    BY BumpType DEF Rows
  <1>2. Claimed(r) \in Rows
    <2> DEFINE n == r.fence + 1
               k == Bump(r.tries)
    <2>1. Claimed(r) = [r EXCEPT !.status = "executing", !.owner = n, !.attempt = n, !.fence = n,
                                 !.tries = k, !.timer = "running"]
      BY DEF Claimed
    <2>2. n \in Nat /\ k \in Nat
      BY <1>0
    <2> HIDE DEF n, k
    <2> QED
      BY <2>1, <2>2 DEF Rows, Statuses, Timers
  <1>3. Cancelled(r) \in Rows
    BY DEF Cancelled, Rows, Statuses, Timers
  <1>4. TakenOver(r) \in Rows
    BY <1>0 DEF TakenOver, Rows, Statuses, Timers
  <1> QED
    BY <1>1, <1>2, <1>3, <1>4

LEMMA ConclusionTypes ==
  ASSUME NEW r \in Rows
  PROVE  /\ \A l \in Leases, c \in Completions : Settled(r, l, c) \in Rows
         /\ \A l \in Leases : MarkedSynced(r, l) \in Rows
         /\ \A l \in Leases : Scheduled(r, l) \in Rows
         /\ \A l \in Leases : Parked(r, l) \in Rows
         /\ Woken(r) \in Rows
  <1>1. ASSUME NEW l \in Leases, NEW c \in Completions
        PROVE  Settled(r, l, c) \in Rows
    <2>1. Normalised(c) \in {"succeeded", "failed", "retryable", "unknown"}
      BY DEF Normalised, Completions
    <2>2. Concluded(r, Normalised(c)) \in Rows
      BY <2>1 DEF Concluded, Rows, Statuses, Timers
    <2> QED
      BY <2>2 DEF Settled
  <1>2. \A l \in Leases : MarkedSynced(r, l) \in Rows
    BY DEF MarkedSynced, Rows, Timers
  <1>3. \A l \in Leases : Scheduled(r, l) \in Rows
    BY DEF Scheduled, Rows, Timers
  <1>4. \A l \in Leases : Parked(r, l) \in Rows
    BY DEF Parked, Rows, Timers
  <1>5. Woken(r) \in Rows
    BY DEF Woken, Rows, Timers
  <1> QED
    BY <1>1, <1>2, <1>3, <1>4, <1>5

LEMMA ReviewTypes ==
  ASSUME NEW r \in Rows
  PROVE  /\ ReopenedSync(r) \in Rows
         /\ \A c \in {"succeeded", "failed"} : Reviewed(r, c) \in Rows
         /\ LeftUnknown(r) \in Rows
         /\ [r EXCEPT !.timer = "due"] \in Rows
         /\ [r EXCEPT !.lapsed = TRUE] \in Rows
  <1>1. r.fence \in Nat /\ r.fence + 1 \in Nat
    BY DEF Rows
  <1>2. ReopenedSync(r) \in Rows
    BY DEF ReopenedSync, Rows, Statuses, Timers
  <1>3. ASSUME NEW c \in {"succeeded", "failed"}
        PROVE  Reviewed(r, c) \in Rows
    <2> DEFINE n == r.fence + 1
               t == IF c = "succeeded" THEN "due" ELSE "none"
               q == IF c = "succeeded" THEN FALSE ELSE r.lapsed
               s == [r EXCEPT !.status = c, !.synced = c # "succeeded", !.retryable = FALSE,
                              !.owner = 0, !.fence = n]
    <2>1. n \in Nat /\ t \in Timers /\ q \in BOOLEAN /\ c \in Statuses
      BY <1>1 DEF Rows, Timers, Statuses
    <2>2. Reviewed(r, c) = [s EXCEPT !.review = FALSE, !.tries = 0, !.timer = t, !.lapsed = q]
      BY DEF Reviewed, Rows
    <2> HIDE DEF n, t, q
    <2>3. s \in Rows
      BY <2>1 DEF Rows
    <2> HIDE DEF s
    <2>4. [s EXCEPT !.review = FALSE, !.tries = 0, !.timer = t, !.lapsed = q] \in Rows
      BY <2>1, <2>3 DEF Rows
    <2> QED
      BY <2>2, <2>4
  <1>4. LeftUnknown(r) \in Rows
    BY <1>1 DEF LeftUnknown, Rows, Statuses, Timers
  <1>5. [r EXCEPT !.timer = "due"] \in Rows /\ [r EXCEPT !.lapsed = TRUE] \in Rows
    BY DEF Rows, Timers
  <1> QED
    BY <1>2, <1>3, <1>4, <1>5

-----------------------------------------------------------------------------
(* The pieces of the state keep their types. *)

Works == [pc: Points, act: Actions \cup {None}, enforce: BOOLEAN, lease: Leases,
          held: Leases, tries: Nat, out: Completions]

LEMMA IdleType == Idle \in Works
  BY DEF Idle, Works, Points, NoLease, Leases, Completions

LEMMA RecordType ==
  ASSUME TypeOK, NEW a \in Actions, NEW r \in Rows, Record(a, r)
  PROVE  row' \in [Actions -> Rows]
  BY DEF TypeOK, Record

LEMMA EvidenceType ==
  ASSUME TypeOK, NEW a \in Actions, NEW t \in Nat, NEW c \in Completions
  PROVE  Evidence(a, t, c) \in [Actions -> SUBSET (Nat \X Completions)]
  BY DEF TypeOK, Evidence

\* A worker whose record is replaced by a record of an action, or by Idle.
WorkOK(f) == f \in [Workers -> Works] /\ \A w \in Workers : f[w].pc # "idle" => f[w].act \in Actions

LEMMA WorkUpdate ==
  ASSUME TypeOK, NEW w \in Workers, NEW k \in Works, k.pc # "idle" => k.act \in Actions,
         work' = [work EXCEPT ![w] = k]
  PROVE  WorkOK(work')
  BY DEF TypeOK, WorkOK, Works

LEMMA ReturnType ==
  ASSUME TypeOK, NEW w \in Workers, Return(w)
  PROVE  WorkOK(work')
  BY IdleType, WorkUpdate DEF Return, Idle

LEMMA GotoType ==
  ASSUME TypeOK, NEW w \in Workers, NEW p \in Points, Goto(w, p), work[w].pc # "idle"
  PROVE  WorkOK(work')
  BY DEF TypeOK, WorkOK, Goto, Works

\* What TypeOK says of the workers, for a row of steps that leave everything else to its lemma.
LEMMA TypeSplit ==
  TypeOK <=> /\ row \in [Actions -> Rows]
             /\ evidence \in [Actions -> SUBSET (Nat \X Completions)]
             /\ jobs \subseteq [act: Actions, lease: Leases, out: Completions]
             /\ WorkOK(work)
             /\ wire \in [Actions -> [Attempts -> Fates]]
             /\ projected \in [Actions -> BOOLEAN]
             /\ loose \in [Actions -> BOOLEAN]
             /\ faults \in Nat
  BY DEF TypeOK, WorkOK, Works

\* A worker that is not idle holds a typed record of an action.
LEMMA WorkFacts ==
  ASSUME TypeOK, NEW w \in Workers
  PROVE  /\ work[w] \in Works
         /\ work[w].pc # "idle" => work[w].act \in Actions /\ row[work[w].act] \in Rows
  BY DEF TypeOK, Works

\* A worker moved on with a new lease, conclusion or held lease.
LEMMA FieldTypes ==
  ASSUME TypeOK, NEW w \in Workers, work[w].pc # "idle", NEW p \in Points,
         NEW l \in Leases, NEW c \in Completions,
         \/ work' = [work EXCEPT ![w].pc = p, ![w].lease = l]
         \/ work' = [work EXCEPT ![w].pc = p, ![w].held = l]
         \/ work' = [work EXCEPT ![w].pc = p, ![w].out = c]
  PROVE  WorkOK(work')
  <1>1. work[w] \in Works /\ work[w].act \in Actions
    BY WorkFacts
  <1>2. CASE work' = [work EXCEPT ![w].pc = p, ![w].lease = l]
    <2> DEFINE k == [work[w] EXCEPT !.pc = p, !.lease = l]
    <2>1. work' = [work EXCEPT ![w] = k]
      BY <1>2, TypeSplit DEF WorkOK
    <2>2. k \in Works /\ k.act \in Actions
      BY <1>1 DEF Works
    <2> QED
      BY <2>1, <2>2, WorkUpdate
  <1>3. CASE work' = [work EXCEPT ![w].pc = p, ![w].held = l]
    <2> DEFINE k == [work[w] EXCEPT !.pc = p, !.held = l]
    <2>1. work' = [work EXCEPT ![w] = k]
      BY <1>3, TypeSplit DEF WorkOK
    <2>2. k \in Works /\ k.act \in Actions
      BY <1>1 DEF Works
    <2> QED
      BY <2>1, <2>2, WorkUpdate
  <1>4. CASE work' = [work EXCEPT ![w].pc = p, ![w].out = c]
    <2> DEFINE k == [work[w] EXCEPT !.pc = p, !.out = c]
    <2>1. work' = [work EXCEPT ![w] = k]
      BY <1>4, TypeSplit DEF WorkOK
    <2>2. k \in Works /\ k.act \in Actions
      BY <1>1 DEF Works
    <2> QED
      BY <2>1, <2>2, WorkUpdate
  <1> QED
    BY <1>2, <1>3, <1>4

LEMMA SettleType ==
  ASSUME TypeOK, NEW a \in Actions, NEW l \in Leases, NEW c \in Completions, Settle(a, l, c)
  PROVE  /\ row' \in [Actions -> Rows]
         /\ evidence' \in [Actions -> SUBSET (Nat \X Completions)]
  <1>1. Settled(row[a], l, c) \in Rows
    BY ConclusionTypes DEF TypeOK
  <1>2. l.attempt \in Nat
    BY DEF Leases
  <1> QED
    BY <1>1, <1>2, RecordType, EvidenceType DEF Settle

LEMMA BlockedType ==
  ASSUME TypeOK, NEW w \in Workers, BlockedOrUntracked(w), work[w].pc # "idle"
  PROVE  WorkOK(work')
  BY ReturnType, GotoType DEF BlockedOrUntracked, Points

\* The primed form of TypeSplit, one conjunct per variable.
LEMMA TypeJoin ==
  ASSUME row' \in [Actions -> Rows],
         evidence' \in [Actions -> SUBSET (Nat \X Completions)],
         jobs' \subseteq [act: Actions, lease: Leases, out: Completions],
         WorkOK(work'),
         wire' \in [Actions -> [Attempts -> Fates]],
         projected' \in [Actions -> BOOLEAN],
         loose' \in [Actions -> BOOLEAN],
         faults' \in Nat
  PROVE  TypeOK'
  BY DEF TypeOK, WorkOK, Works

\* The new record of a worker after prepare.
LEMMA AfterPrepareType ==
  ASSUME TypeOK, NEW e \in Workers, NEW a \in Actions, NEW m \in Modes, NEW c \in BOOLEAN,
         NEW r \in Rows, AfterPrepare(e, a, m, c, r)
  PROVE  WorkOK(work')
  <1> DEFINE k(p) == [Idle EXCEPT !.pc = p, !.act = a, !.enforce = Enforced(m, r),
                                  !.held = LeaseOf(r)]
  <1>1. Enforced(m, r) \in BOOLEAN /\ LeaseOf(r) \in Leases
    BY LeaseOfType DEF Enforced
  <1>2. ASSUME NEW p \in Points
        PROVE  k(p) \in Works /\ k(p).act = a
    BY <1>1, IdleType DEF Works, Idle
  <1>3. ASSUME NEW p \in Points, work' = [work EXCEPT ![e] = k(p)]
        PROVE  WorkOK(work')
    BY <1>2, <1>3, WorkUpdate
  <1>4. \/ Return(e)
        \/ \E p \in {"sync", "authorize", "untracked"} : work' = [work EXCEPT ![e] = k(p)]
    BY <1>1 DEF AfterPrepare
  <1> QED
    BY <1>3, <1>4, ReturnType DEF Points

\* Every step of a caller keeps the types.
LEMMA TypeExecute ==
  ASSUME TypeOK, NEW e \in Executors, Execute(e)
  PROVE  TypeOK'
  <1> USE ExecutionAssumption
  <1>0. e \in Workers
    BY DEF Workers
  <1>1. ASSUME NEW a \in Actions, NEW m \in CallModes, Prepare(e, a, m)
        PROVE  TypeOK'
    <2> DEFINE r == Registered(row[a], m)
               c == (row[a].status = "absent" \/ Open(row[a])) /\ Conflict(a)
    <2>1. m \in Modes /\ r \in Rows /\ c \in BOOLEAN
      BY DispatchTypes DEF TypeOK
    <2>2. Record(a, r) /\ AfterPrepare(e, a, m, c, r)
      BY <1>1 DEF Prepare
    <2> HIDE DEF r, c
    <2>3. row' \in [Actions -> Rows] /\ WorkOK(work')
      BY <1>0, <2>1, <2>2, RecordType, AfterPrepareType
    <2> QED
      BY <1>1, <2>3, TypeSplit, TypeJoin DEF Prepare
  <1>2. CASE Authorize(e)
    BY <1>0, <1>2, GotoType, TypeSplit, TypeJoin DEF Authorize, Points
  <1>3. CASE Cancel(e)
    BY <1>0, <1>3, WorkFacts, DispatchTypes, RecordType, ReturnType, TypeSplit, TypeJoin DEF Cancel
  <1>4. CASE Claim(e)
    <2> DEFINE a == work[e].act
               l == LeaseOf(Claimed(row[a]))
    <2>1. a \in Actions /\ Claimed(row[a]) \in Rows /\ work[e] \in Works
      BY <1>0, <1>4, WorkFacts, DispatchTypes DEF Claim
    <2>2. l \in Leases
      BY <2>1, LeaseOfType
    <2>3. /\ Record(a, Claimed(row[a]))
          /\ work' = [work EXCEPT ![e].pc = "recheck", ![e].lease = l]
          /\ UNCHANGED <<evidence, jobs, wire, projected, loose, faults>>
      BY <1>4 DEF Claim
    <2>4. row' \in [Actions -> Rows]
      BY <2>1, <2>3, RecordType
    <2> HIDE DEF l
    <2>5. WorkOK(work')
      BY <1>0, <1>4, <2>2, <2>3, FieldTypes DEF Claim, Points, Completions
    <2> QED
      BY <2>3, <2>4, <2>5, TypeSplit, TypeJoin
  <1>5. CASE ClaimRefused(e)
    BY <1>0, <1>5, BlockedType, TypeSplit, TypeJoin DEF ClaimRefused
  <1>6. CASE Recheck(e)
    <2>1. WorkOK(work')
      BY <1>0, <1>6, GotoType, FieldTypes, WorkFacts DEF Recheck, Works, Points, Completions
    <2> QED
      BY <1>6, <2>1, TypeSplit, TypeJoin DEF Recheck
  <1>7. CASE Validate(e)
    BY <1>0, <1>7, BlockedType, GotoType, TypeSplit, TypeJoin DEF Validate, Points
  <1>8. CASE Dispatch(e)
    <2>1. WorkOK(work')
      BY <1>0, <1>8, GotoType DEF Dispatch, Points
    <2>2. wire' \in [Actions -> [Attempts -> Fates]]
      BY <1>8, TypeSplit DEF Dispatch, Fates
    <2> QED
      BY <1>8, <2>1, <2>2, TypeSplit, TypeJoin DEF Dispatch
  <1>9. CASE Respond(e)
    <2>1. PICK c \in Reported(work[e].act, work[e].lease.attempt) :
            work' = [work EXCEPT ![e].pc = "save", ![e].out = Normalised(c)]
      BY <1>9 DEF Respond
    <2>2. Normalised(c) \in Completions
      BY DEF Normalised, Reported, Completions
    <2>3. WorkOK(work')
      BY <1>0, <1>9, <2>1, <2>2, FieldTypes, WorkFacts DEF Respond, Works, Points
    <2> QED
      BY <1>9, <2>3, TypeSplit, TypeJoin DEF Respond
  <1>10. CASE Save(e)
    <2> DEFINE a == work[e].act
               r == Settled(row[a], work[e].lease, work[e].out)
    <2>1. a \in Actions /\ work[e] \in Works /\ r \in Rows
      BY <1>0, <1>10, WorkFacts, ConclusionTypes DEF Save, Works
    <2>2. row' \in [Actions -> Rows] /\ evidence' \in [Actions -> SUBSET (Nat \X Completions)]
      BY <1>10, <2>1, SettleType DEF Save, Works
    <2>3. AfterSave(e, r)
      BY <1>10 DEF Save
    <2>4. LeaseOf(r) \in Leases
      BY <2>1, LeaseOfType
    <2> DEFINE l == IF PendingSync(r) THEN LeaseOf(r) ELSE work[e].lease
    <2>5. l \in Leases /\ work[e].pc # "idle"
      BY <1>10, <2>1, <2>4 DEF Save, Works
    <2>6. Return(e) \/ work' = [work EXCEPT ![e].pc = "sync", ![e].held = l]
      BY <2>3 DEF AfterSave
    <2> HIDE DEF l
    <2>7. WorkOK(work')
      BY <1>0, <2>5, <2>6, ReturnType, FieldTypes DEF Points, Completions
    <2> QED
      BY <1>10, <2>2, <2>7, TypeSplit, TypeJoin DEF Save
  <1>11. CASE SaveFails(e)
    <2>1. /\ work[e].act \in Actions /\ work[e].lease \in Leases /\ work[e].out \in Completions
      BY <1>0, <1>11, WorkFacts DEF SaveFails, Works
    <2>2. row' \in [Actions -> Rows] /\ evidence' \in [Actions -> SUBSET (Nat \X Completions)]
      BY <1>11, <2>1, SettleType, TypeSplit DEF SaveFails
    <2>3. WorkOK(work') /\ faults' \in Nat
      BY <1>0, <1>11, GotoType, TypeSplit DEF SaveFails, Fault, Points
    <2> QED
      BY <1>11, <2>2, <2>3, TypeSplit, TypeJoin DEF SaveFails
  <1>12. CASE Enqueue(e)
    <2>1. work[e].act \in Actions /\ work[e] \in Works
      BY <1>0, <1>12, WorkFacts DEF Enqueue
    <2>2. jobs' \subseteq [act: Actions, lease: Leases, out: Completions]
      BY <1>12, <2>1, TypeSplit DEF Enqueue, Works
    <2>3. WorkOK(work')
      BY <1>0, <1>12, <2>1, ReturnType, FieldTypes DEF Enqueue, Works, Points
    <2> QED
      BY <1>12, <2>2, <2>3, TypeSplit, TypeJoin DEF Enqueue
  <1>13. CASE StoreFails(e)
    BY <1>0, <1>13, BlockedType, TypeSplit, TypeJoin DEF StoreFails, Fault
  <1>14. CASE DispatchUntracked(e)
    <2>1. WorkOK(work')
      BY <1>0, <1>14, ReturnType DEF DispatchUntracked
    <2>2. loose' \in [Actions -> BOOLEAN]
      BY <1>14, TypeSplit DEF DispatchUntracked
    <2> QED
      BY <1>14, <2>1, <2>2, TypeSplit, TypeJoin DEF DispatchUntracked
  <1> QED
    BY <1>1, <1>2, <1>3, <1>4, <1>5, <1>6, <1>7, <1>8, <1>9, <1>10, <1>11, <1>12, <1>13, <1>14
    DEF Execute

\* Every step of a recovery worker, the two shared steps included, keeps the types.
LEMMA TypeRecover ==
  ASSUME TypeOK, NEW v \in Workers, Recover(v) \/ Sync(v) \/ Mark(v)
  PROVE  TypeOK'
  <1> USE ExecutionAssumption
  <1>1. ASSUME NEW a \in Actions, ReconcileClaim(v, a)
        PROVE  TypeOK'
    <2> DEFINE r == TakenOver(row[a])
               p == IF ~PendingSync(r) THEN "read"
                    ELSE IF a \in Handled /\ ~Exhausted(r, r.tries) THEN "sync" ELSE "notify"
               k == [Idle EXCEPT !.pc = p, !.act = a, !.lease = LeaseOf(r),
                                 !.held = LeaseOf(r), !.tries = r.tries]
    <2>1. r \in Rows
      BY DispatchTypes, TypeSplit
    <2>2. LeaseOf(r) \in Leases /\ p \in Points /\ r.tries \in Nat
      BY <2>1, LeaseOfType DEF Points, Rows
    <2>3. /\ Record(a, r)
          /\ work' = [work EXCEPT ![v] = k]
          /\ UNCHANGED <<evidence, jobs, wire, projected, loose, faults>>
      BY <1>1 DEF ReconcileClaim
    <2> HIDE DEF r, p
    <2>4. k \in Works /\ k.act \in Actions
      BY <2>2, IdleType DEF Works, Idle
    <2> HIDE DEF k
    <2> QED
      BY <2>1, <2>3, <2>4, RecordType, WorkUpdate, TypeSplit, TypeJoin
  <1>2. CASE ReadEvidence(v)
    <2>1. work[v].pc # "idle" /\ work[v].lease \in Leases
      BY <1>2, WorkFacts DEF ReadEvidence, Works
    <2>2. \/ Goto(v, "notify")
          \/ \E c \in Completions : work' = [work EXCEPT ![v].pc = "settle", ![v].out = c]
      BY <1>2 DEF ReadEvidence, TerminalEvidence, Completions
    <2>3. WorkOK(work')
      BY <2>1, <2>2, GotoType, FieldTypes DEF Points
    <2> QED
      BY <1>2, <2>3, TypeSplit, TypeJoin DEF ReadEvidence
  <1>3. CASE SettleRecovered(v)
    <2> DEFINE a == work[v].act
               r == Settled(row[a], work[v].lease, work[v].out)
               p == CASE r.status = "succeeded" -> IF a \in Handled THEN "sync" ELSE "notify"
                      [] InDoubt(r) -> "defer"
                      [] OTHER -> "idle"
               l == LeaseOf(r)
    <2>1. /\ a \in Actions /\ work[v].pc # "idle"
          /\ work[v].lease \in Leases /\ work[v].out \in Completions /\ r \in Rows
      BY <1>3, WorkFacts, ConclusionTypes DEF SettleRecovered, Works
    <2>2. row' \in [Actions -> Rows] /\ evidence' \in [Actions -> SUBSET (Nat \X Completions)]
      BY <1>3, <2>1, SettleType DEF SettleRecovered
    <2>3. l \in Leases
      BY <2>1, LeaseOfType
    <2>4. p \in Points
      <3> HIDE DEF r
      <3> QED
        BY DEF Points, InDoubt
    <2>5. Return(v) \/ work' = [work EXCEPT ![v].pc = p, ![v].held = l]
      BY <1>3 DEF SettleRecovered
    <2> HIDE DEF p, l, r
    <2>6. WorkOK(work')
      BY <2>1, <2>3, <2>4, <2>5, ReturnType, FieldTypes DEF Completions
    <2> QED
      BY <1>3, <2>2, <2>6, TypeSplit, TypeJoin DEF SettleRecovered
  <1>4. CASE Defer(v)
    <2>1. work[v].act \in Actions /\ Scheduled(row[work[v].act], work[v].held) \in Rows
      BY <1>4, WorkFacts, ConclusionTypes DEF Defer, Works
    <2> QED
      BY <1>4, <2>1, RecordType, ReturnType, TypeSplit, TypeJoin DEF Defer
  <1>5. CASE Notify(v)
    BY <1>5, GotoType, TypeSplit, TypeJoin DEF Notify, Points
  <1>6. CASE NotifyFails(v)
    BY <1>6, GotoType, TypeSplit, TypeJoin DEF NotifyFails, Fault, Points
  <1>7. CASE Park(v)
    <2>1. work[v].act \in Actions /\ Parked(row[work[v].act], work[v].held) \in Rows
      BY <1>7, WorkFacts, ConclusionTypes DEF Park, Works
    <2> QED
      BY <1>7, <2>1, RecordType, ReturnType, TypeSplit, TypeJoin DEF Park
  <1>8. CASE RecoverFails(v)
    <2>1. /\ work[v].act \in Actions /\ work[v].pc # "idle"
          /\ work[v].lease \in Leases /\ work[v].out \in Completions
      BY <1>8, WorkFacts DEF RecoverFails, Works
    <2>2. row' \in [Actions -> Rows] /\ evidence' \in [Actions -> SUBSET (Nat \X Completions)]
      BY <1>8, <2>1, SettleType, TypeSplit DEF RecoverFails
    <2>3. WorkOK(work')
      BY <1>8, <2>1, FieldTypes DEF RecoverFails, Points
    <2> QED
      BY <1>8, <2>2, <2>3, TypeSplit, TypeJoin DEF RecoverFails, Fault
  <1>9. ASSUME NEW j \in jobs, RepairJob(v, j)
        PROVE  TypeOK'
    <2> DEFINE r == Settled(row[j.act], j.lease, j.out)
               k == [Idle EXCEPT !.pc = "sync", !.act = j.act, !.held = LeaseOf(r)]
    <2>1. /\ j.act \in Actions /\ j.lease \in Leases /\ j.out \in Completions
      BY TypeSplit
    <2>2. r \in Rows /\ LeaseOf(r) \in Leases
      BY <2>1, ConclusionTypes, LeaseOfType, TypeSplit
    <2>3. row' \in [Actions -> Rows] /\ evidence' \in [Actions -> SUBSET (Nat \X Completions)]
      BY <1>9, <2>1, SettleType DEF RepairJob
    <2>4. work' = [work EXCEPT ![v] = k] \/ work' = work
      BY <1>9 DEF RepairJob
    <2> HIDE DEF r
    <2>5. k \in Works /\ k.act \in Actions
      BY <2>1, <2>2, IdleType DEF Works, Idle, Points
    <2> HIDE DEF k
    <2>6. WorkOK(work')
      BY <2>4, <2>5, WorkUpdate, TypeSplit
    <2>7. jobs' \subseteq [act: Actions, lease: Leases, out: Completions]
      BY <1>9, TypeSplit DEF RepairJob
    <2> QED
      BY <1>9, <2>3, <2>6, <2>7, TypeSplit, TypeJoin DEF RepairJob
  <1>10. CASE Sync(v)
    <2>1. WorkOK(work') /\ projected' \in [Actions -> BOOLEAN]
      BY <1>10, GotoType, TypeSplit DEF Sync, Points
    <2> QED
      BY <1>10, <2>1, TypeSplit, TypeJoin DEF Sync
  <1>11. CASE Mark(v)
    <2>1. /\ work[v].act \in Actions /\ work[v].pc # "idle" /\ work[v].lease \in Leases
          /\ MarkedSynced(row[work[v].act], work[v].held) \in Rows
      BY <1>11, WorkFacts, ConclusionTypes DEF Mark, Works
    <2>2. Return(v) \/ work' = [work EXCEPT ![v].pc = "defer", ![v].held = work[v].lease]
      BY <1>11 DEF Mark
    <2>3. WorkOK(work')
      BY <2>1, <2>2, ReturnType, FieldTypes DEF Points, Completions
    <2> QED
      BY <1>11, <2>1, <2>3, RecordType, TypeSplit, TypeJoin DEF Mark
  <1> QED
    BY <1>1, <1>2, <1>3, <1>4, <1>5, <1>6, <1>7, <1>8, <1>9, <1>10, <1>11 DEF Recover

\* Every step of the environment keeps the types.
LEMMA TypeEnvironment ==
  ASSUME TypeOK, Environment
  PROVE  TypeOK'
  <1> USE ExecutionAssumption
  <1>1. ASSUME NEW a \in Actions, NEW t \in Attempts, Land(a, t) \/ Drop(a, t)
        PROVE  TypeOK'
    <2>1. wire' \in [Actions -> [Attempts -> Fates]]
      BY <1>1, TypeSplit DEF Land, Drop, Fates
    <2> QED
      BY <1>1, <2>1, TypeSplit, TypeJoin DEF Land, Drop
  <1>2. ASSUME NEW a \in Actions, ProviderCallback(a)
        PROVE  TypeOK'
    <2>1. row[a] \in Rows /\ Woken(row[a]) \in Rows /\ row[a].attempt \in Nat
      BY ConclusionTypes, TypeSplit DEF Rows
    <2> QED
      BY <1>2, <2>1, RecordType, EvidenceType, TypeSplit, TypeJoin DEF ProviderCallback, Completions
  <1>3. ASSUME NEW a \in Actions, TimerFires(a) \/ DeadlinePasses(a)
        PROVE  TypeOK'
    <2>1. \E r \in Rows : Record(a, r)
      BY <1>3, ReviewTypes, TypeSplit DEF TimerFires, DeadlinePasses
    <2> QED
      BY <1>3, <2>1, RecordType, TypeSplit, TypeJoin DEF TimerFires, DeadlinePasses
  <1>4. ASSUME NEW a \in Actions, Redact(a)
        PROVE  TypeOK'
    <2>1. evidence' \in [Actions -> SUBSET (Nat \X Completions)]
      BY <1>4, TypeSplit DEF Redact
    <2> QED
      BY <1>4, <2>1, TypeSplit, TypeJoin DEF Redact
  <1>5. ASSUME NEW a \in Actions, NEW c \in Conclusions, Review(a, c)
        PROVE  TypeOK'
    <2>1. \E r \in Rows : Record(a, r)
      BY <1>5, ReviewTypes, TypeSplit DEF Review
    <2>2. evidence' \in [Actions -> SUBSET (Nat \X Completions)]
      BY <1>5, EvidenceType, TypeSplit DEF Review, Attempts, Completions
    <2> QED
      BY <1>5, <2>1, <2>2, RecordType, TypeSplit, TypeJoin DEF Review
  <1>6. ASSUME NEW w \in Workers, Crash(w)
        PROVE  TypeOK'
    BY <1>6, ReturnType, TypeSplit, TypeJoin DEF Crash, Fault
  <1> QED
    BY <1>1, <1>2, <1>3, <1>4, <1>5, <1>6 DEF Environment

-----------------------------------------------------------------------------

\* Every variable keeps its type in every behaviour: no operation of the ledger, the executor
\* or the recovery writes a status, lease or timer the tables and the code have no case for.
THEOREM Typing == Spec => []TypeOK
  <1>1. Init => TypeOK
    <2> SUFFICES ASSUME Init PROVE TypeOK
      OBVIOUS
    <2>1. work \in [Workers -> Works] /\ \A w \in Workers : work[w].pc = "idle"
      BY IdleType DEF Init, Idle
    <2>2. WorkOK(work)
      BY <2>1 DEF WorkOK
    <2>3. row \in [Actions -> Rows]
      BY NoRowType DEF Init
    <2> QED
      BY <2>2, <2>3, TypeSplit DEF Init, Fates
  <1>2. TypeOK /\ [Next]_vars => TypeOK'
    <2> SUFFICES ASSUME TypeOK, [Next]_vars PROVE TypeOK'
      OBVIOUS
    <2>1. ASSUME NEW e \in Executors, Execute(e)
          PROVE  TypeOK'
      BY <2>1, TypeExecute
    <2>2. ASSUME NEW v \in Workers, Recover(v) \/ Sync(v) \/ Mark(v)
          PROVE  TypeOK'
      BY <2>2, TypeRecover
    <2>3. CASE Environment
      BY <2>3, TypeEnvironment
    <2>4. CASE UNCHANGED vars
      BY <2>4, TypeSplit, TypeJoin DEF vars
    <2> QED
      BY <2>1, <2>2, <2>3, <2>4 DEF Next, Workers
  <1> QED
    BY <1>1, <1>2, PTL DEF Spec

-----------------------------------------------------------------------------
(***************************************************************************)
(* Exclusion of a resource.  Only a claim opens an outcome, and a claim    *)
(* looks for open outcomes of its resource in the same transaction; every  *)
(* other transition leaves a row as settled as it was.                     *)
(***************************************************************************)

\* Only Claimed takes a row from settled to unresolved.
LEMMA OnlyClaimsOpen ==
  ASSUME NEW r \in Rows
  PROVE  /\ \A m \in Modes : Unresolved(Registered(r, m)) => Unresolved(r)
         /\ Unresolved(Cancelled(r)) => Unresolved(r)
         /\ Unresolved(TakenOver(r)) => Unresolved(r)
         /\ \A l \in Leases, c \in Completions : Unresolved(Settled(r, l, c)) => Unresolved(r)
         /\ \A l \in Leases : Unresolved(MarkedSynced(r, l)) => Unresolved(r)
         /\ \A l \in Leases : Unresolved(Scheduled(r, l)) => Unresolved(r)
         /\ \A l \in Leases : Unresolved(Parked(r, l)) => Unresolved(r)
         /\ Unresolved(Woken(r)) => Unresolved(r)
         /\ Unresolved(ReopenedSync(r)) => Unresolved(r)
         /\ \A c \in {"succeeded", "failed"} : ~Unresolved(Reviewed(r, c))
         /\ Unresolved([r EXCEPT !.timer = "due"]) => Unresolved(r)
         /\ Unresolved([r EXCEPT !.lapsed = TRUE]) => Unresolved(r)
  <1> USE DEF Rows, Unresolved, InDoubt
  <1>1. \A m \in Modes : Unresolved(Registered(r, m)) => Unresolved(r)
    BY DEF Registered
  <1>2. Unresolved(Cancelled(r)) => Unresolved(r)
    BY DEF Cancelled
  <1>3. Unresolved(TakenOver(r)) => Unresolved(r)
    BY DEF TakenOver
  <1>4. \A l \in Leases, c \in Completions : Unresolved(Settled(r, l, c)) => Unresolved(r)
    BY DEF Settled, Concluded
  <1>5. \A l \in Leases : /\ Unresolved(MarkedSynced(r, l)) => Unresolved(r)
                          /\ Unresolved(Scheduled(r, l)) => Unresolved(r)
                          /\ Unresolved(Parked(r, l)) => Unresolved(r)
    BY DEF MarkedSynced, Scheduled, Parked
  <1>6. Unresolved(Woken(r)) => Unresolved(r)
    BY DEF Woken
  <1>7. Unresolved(ReopenedSync(r)) => Unresolved(r)
    BY DEF ReopenedSync
  <1>8. \A c \in {"succeeded", "failed"} : ~Unresolved(Reviewed(r, c))
    BY DEF Reviewed
  <1>9. /\ Unresolved([r EXCEPT !.timer = "due"]) => Unresolved(r)
        /\ Unresolved([r EXCEPT !.lapsed = TRUE]) => Unresolved(r)
    OBVIOUS
  <1> QED
    BY <1>1, <1>2, <1>3, <1>4, <1>5, <1>6, <1>7, <1>8, <1>9

\* No row is opened by the step.
NoneOpened == \A a \in Actions : Unresolved(row'[a]) => Unresolved(row[a])

LEMMA NoneOpenedByRecord ==
  ASSUME TypeOK, NEW a \in Actions, NEW r \in Rows, Record(a, r),
         Unresolved(r) => Unresolved(row[a])
  PROVE  NoneOpened
  BY DEF TypeOK, Record, NoneOpened

LEMMA NoneOpenedBySettle ==
  ASSUME TypeOK, NEW w \in Workers, work[w].pc # "idle",
         Settle(work[w].act, work[w].lease, work[w].out)
  PROVE  NoneOpened
  <1> DEFINE a == work[w].act
             r == Settled(row[a], work[w].lease, work[w].out)
  <1>1. /\ a \in Actions /\ row[a] \in Rows
        /\ work[w].lease \in Leases /\ work[w].out \in Completions
    BY WorkFacts DEF Works
  <1>2. r \in Rows /\ (Unresolved(r) => Unresolved(row[a])) /\ Record(a, r)
    BY <1>1, ConclusionTypes, OnlyClaimsOpen DEF Settle
  <1> HIDE DEF r
  <1> QED
    BY <1>1, <1>2, NoneOpenedByRecord

\* Every step opens no row at all, or is the claim of a row without conflict.
LEMMA OpeningSteps ==
  ASSUME TypeOK, [Next]_vars
  PROVE  \/ NoneOpened
         \/ \E a \in Actions : ~Conflict(a) /\ Record(a, Claimed(row[a]))
  <1> USE ExecutionAssumption
  <1>1. ASSUME NEW e \in Executors, Execute(e)
        PROVE  NoneOpened \/ \E a \in Actions : ~Conflict(a) /\ Record(a, Claimed(row[a]))
    <2>0. e \in Workers
      BY DEF Workers
    <2>1. ASSUME NEW a \in Actions, NEW m \in CallModes, Prepare(e, a, m)
          PROVE  NoneOpened
      <3>1. m \in Modes /\ row[a] \in Rows
        BY TypeSplit
      <3>2. Record(a, Registered(row[a], m))
        BY <2>1 DEF Prepare
      <3> QED
        BY <3>1, <3>2, DispatchTypes, OnlyClaimsOpen, NoneOpenedByRecord
    <2>2. CASE Cancel(e)
      <3>1. work[e].act \in Actions /\ row[work[e].act] \in Rows
        BY <2>0, <2>2, WorkFacts DEF Cancel
      <3> QED
        BY <2>2, <3>1, DispatchTypes, OnlyClaimsOpen, NoneOpenedByRecord DEF Cancel
    <2>3. CASE Claim(e)
      BY <2>0, <2>3, WorkFacts DEF Claim
    <2>4. CASE Save(e) \/ SaveFails(e)
      <3>1. work[e].pc # "idle" /\ (row' = row \/ Settle(work[e].act, work[e].lease, work[e].out))
        BY <2>4 DEF Save, SaveFails
      <3> QED
        BY <2>0, <3>1, NoneOpenedBySettle DEF NoneOpened
    <2>5. CASE row' = row
      BY <2>5 DEF NoneOpened
    <2> QED
      BY <1>1, <2>1, <2>2, <2>3, <2>4, <2>5
      DEF Execute, Authorize, ClaimRefused, Recheck, Validate, Dispatch, Respond, Enqueue,
          StoreFails, DispatchUntracked
  <1>2. ASSUME NEW v \in Workers, Recover(v) \/ Sync(v) \/ Mark(v)
        PROVE  NoneOpened
    <2>1. ASSUME NEW a \in Actions, ReconcileClaim(v, a)
          PROVE  NoneOpened
      <3>1. row[a] \in Rows /\ Record(a, TakenOver(row[a]))
        BY <2>1, TypeSplit DEF ReconcileClaim
      <3> QED
        BY <3>1, DispatchTypes, OnlyClaimsOpen, NoneOpenedByRecord
    <2>2. CASE SettleRecovered(v) \/ RecoverFails(v)
      <3>1. work[v].pc # "idle" /\ (row' = row \/ Settle(work[v].act, work[v].lease, work[v].out))
        BY <2>2 DEF SettleRecovered, RecoverFails
      <3> QED
        BY <3>1, NoneOpenedBySettle DEF NoneOpened
    <2>3. CASE Defer(v) \/ Park(v) \/ Mark(v)
      <3>1. work[v].pc # "idle"
        BY <2>3 DEF Defer, Park, Mark
      <3>2. /\ work[v].act \in Actions /\ row[work[v].act] \in Rows /\ work[v].held \in Leases
        BY <3>1, WorkFacts DEF Works
      <3> DEFINE r == row[work[v].act]
                 l == work[v].held
      <3>3. CASE Record(work[v].act, Scheduled(r, l))
        <4>1. /\ Scheduled(r, l) \in Rows
              /\ Unresolved(Scheduled(r, l)) => Unresolved(r)
          BY <3>2, ConclusionTypes, OnlyClaimsOpen
        <4> QED
          BY <3>2, <3>3, <4>1, NoneOpenedByRecord
      <3>4. CASE Record(work[v].act, Parked(r, l))
        <4>1. /\ Parked(r, l) \in Rows
              /\ Unresolved(Parked(r, l)) => Unresolved(r)
          BY <3>2, ConclusionTypes, OnlyClaimsOpen
        <4> QED
          BY <3>2, <3>4, <4>1, NoneOpenedByRecord
      <3>5. CASE Record(work[v].act, MarkedSynced(r, l))
        <4>1. /\ MarkedSynced(r, l) \in Rows
              /\ Unresolved(MarkedSynced(r, l)) => Unresolved(r)
          BY <3>2, ConclusionTypes, OnlyClaimsOpen
        <4> QED
          BY <3>2, <3>5, <4>1, NoneOpenedByRecord
      <3> QED
        BY <2>3, <3>3, <3>4, <3>5 DEF Defer, Park, Mark
    <2>4. ASSUME NEW j \in jobs, RepairJob(v, j)
          PROVE  NoneOpened
      <3>1. /\ j.act \in Actions /\ j.lease \in Leases /\ j.out \in Completions
            /\ row[j.act] \in Rows
        BY TypeSplit
      <3>2. Record(j.act, Settled(row[j.act], j.lease, j.out))
        BY <2>4 DEF RepairJob, Settle
      <3>3. /\ Settled(row[j.act], j.lease, j.out) \in Rows
            /\ Unresolved(Settled(row[j.act], j.lease, j.out)) => Unresolved(row[j.act])
        BY <3>1, ConclusionTypes, OnlyClaimsOpen
      <3> QED
        BY <3>1, <3>2, <3>3, NoneOpenedByRecord
    <2>5. CASE row' = row
      BY <2>5 DEF NoneOpened
    <2> QED
      BY <1>2, <2>1, <2>2, <2>3, <2>4, <2>5 DEF Recover, ReadEvidence, Notify, NotifyFails, Sync
  <1>3. CASE Environment
    <2>1. ASSUME NEW a \in Actions, ProviderCallback(a) \/ TimerFires(a) \/ DeadlinePasses(a)
          PROVE  NoneOpened
      <3>1. row[a] \in Rows
        BY TypeSplit
      <3> QED
        BY <2>1, <3>1, ConclusionTypes, ReviewTypes, OnlyClaimsOpen, NoneOpenedByRecord
        DEF ProviderCallback, TimerFires, DeadlinePasses
    <2>2. ASSUME NEW a \in Actions, NEW c \in Conclusions, Review(a, c)
          PROVE  NoneOpened
      <3>1. row[a] \in Rows
        BY TypeSplit
      <3>2. CASE Record(a, ReopenedSync(row[a]))
        BY <3>1, <3>2, ReviewTypes, OnlyClaimsOpen, NoneOpenedByRecord
      <3>3. CASE InDoubt(row[a]) /\ Record(a, LeftUnknown(row[a]))
        <4>1. Unresolved(row[a])
          BY <2>2, <3>3 DEF Review, Unresolved
        <4> QED
          BY <3>1, <3>3, <4>1, ReviewTypes, NoneOpenedByRecord
      <3>4. CASE c \in {"succeeded", "failed"} /\ Record(a, Reviewed(row[a], c))
        BY <3>1, <3>4, ReviewTypes, OnlyClaimsOpen, NoneOpenedByRecord
      <3> QED
        BY <2>2, <3>2, <3>3, <3>4 DEF Review
    <2>3. CASE row' = row
      BY <2>3 DEF NoneOpened
    <2> QED
      BY <1>3, <2>1, <2>2, <2>3 DEF Environment, Land, Drop, Redact, Crash
  <1>4. CASE row' = row
    BY <1>4 DEF NoneOpened
  <1> QED
    BY <1>1, <1>2, <1>3, <1>4 DEF Next, Workers, vars

\* No two execute actions of one resource ever have an open outcome together, for any number
\* of callers, recoverers and actions, whatever crashes, expires, is taken over or reviewed.
THEOREM Exclusive == Spec => []ResourceExclusive
  <1>1. Init => ResourceExclusive
    BY DEF Init, ResourceExclusive, Unresolved, InDoubt, NoRow
  <1>2. TypeOK /\ ResourceExclusive /\ [Next]_vars => ResourceExclusive'
    <2> SUFFICES ASSUME TypeOK, ResourceExclusive, [Next]_vars PROVE ResourceExclusive'
      OBVIOUS
    <2>1. CASE NoneOpened
      BY <2>1 DEF NoneOpened, ResourceExclusive
    <2>2. ASSUME NEW a \in Actions, ~Conflict(a), Record(a, Claimed(row[a]))
          PROVE  ResourceExclusive'
      <3>1. \A b \in Actions \ {a} : row'[b] = row[b]
        BY <2>2, TypeSplit DEF Record
      <3>2. \A b \in Actions \ {a} : Resource[b] = Resource[a] => ~Unresolved(row'[b])
        BY <2>2, <3>1 DEF Conflict
      <3> QED
        BY <3>1, <3>2 DEF ResourceExclusive
    <2> QED
      BY <2>1, <2>2, OpeningSteps
  <1> QED
    BY <1>1, <1>2, Typing, PTL DEF Spec
=============================================================================
