--------------------------- MODULE ActionExecution --------------------------
(***************************************************************************)
(* The action ledger at work: callers run ActionExecutorService.execute,   *)
(* the scanner of ActionRecoveryService and the ActionRepairQueue repair   *)
(* what the callers left behind, the external provider lands, drops and    *)
(* calls back, and an operator concludes reviews.  Every database          *)
(* transaction and every external call is a step of its own; a process may *)
(* crash, or a call fail, between any two of them.                         *)
(***************************************************************************)
EXTENDS ActionLedger, FiniteSets

CONSTANTS
  Actions,        \* action identities (corp_id, action_id)
  Resource,       \* the resource each action targets (resource_hash)
  Handled,        \* actions whose kind has a registered recovery handler
  CallBack,       \* actions whose kind the provider reports by callback
  Executors,      \* concurrent calls of execute
  Recoverers,     \* concurrent scanner and repair-queue workers
  CallModes,      \* ACTION_EXECUTION_MODE of the calling processes
  Conclusions,    \* what operators may conclude
  Misreports,     \* TRUE if the provider may report a landed request as failed
  None,           \* the action of an idle worker
  MaxClaims,      \* bound: dispatch claims and reviews stop at this fence
  MaxFence,       \* bound: takeovers stop at this fence
  MaxFaults       \* bound: crashes and failed calls in a behaviour

ASSUME ExecutionAssumption ==
  /\ Handled \subseteq Actions /\ CallBack \subseteq Actions
  /\ None \notin Actions
  /\ Executors \cap Recoverers = {}
  /\ CallModes \subseteq Modes
  /\ Conclusions \subseteq {"succeeded", "failed", "leave_unknown", "retry_local_sync"}
  /\ Misreports \in BOOLEAN
  /\ MaxClaims \in Nat /\ MaxFence \in Nat /\ MaxFaults \in Nat

VARIABLES
  row,        \* agent_action_records
  evidence,   \* agent_action_evidence: per action, pairs <<attempt, terminal completion>>
  jobs,       \* the action-local-repair queue
  work,       \* the call each worker is in
  wire,       \* what became of the request of each attempt, outside the system
  projected,  \* history: a local projection of the action's success has run
  loose,      \* history: a request was sent without a ledger attempt
  faults

vars == <<row, evidence, jobs, work, wire, projected, loose, faults>>

Workers == Executors \cup Recoverers

Attempts == 1..MaxClaims

Fates == {"unsent", "inflight", "landed", "dead"}

Points == {"idle", "authorize", "cancel", "claim", "recheck", "validate", "dispatch", "wait",
           "save", "resave", "enqueue", "untracked", "read", "settle", "sync", "mark",
           "defer", "notify", "park"}

Idle == [pc |-> "idle", act |-> None, enforce |-> FALSE, lease |-> NoLease,
         held |-> NoLease, tries |-> 0, out |-> "unknown"]

TypeOK ==
  /\ row \in [Actions -> Rows]
  /\ evidence \in [Actions -> SUBSET (Nat \X Completions)]
  /\ jobs \subseteq [act: Actions, lease: Leases, out: Completions]
  /\ work \in [Workers -> [pc: Points, act: Actions \cup {None}, enforce: BOOLEAN, lease: Leases,
                           held: Leases, tries: Nat, out: Completions]]
  /\ \A w \in Workers : work[w].pc # "idle" => work[w].act \in Actions
  /\ wire \in [Actions -> [Attempts -> Fates]]
  /\ projected \in [Actions -> BOOLEAN]
  /\ loose \in [Actions -> BOOLEAN]
  /\ faults \in Nat

Init ==
  /\ row = [a \in Actions |-> NoRow]
  /\ evidence = [a \in Actions |-> {}]
  /\ jobs = {}
  /\ work = [w \in Workers |-> Idle]
  /\ wire = [a \in Actions |-> [t \in Attempts |-> "unsent"]]
  /\ projected = [a \in Actions |-> FALSE]
  /\ loose = [a \in Actions |-> FALSE]
  /\ faults = 0

-----------------------------------------------------------------------------
(* Helpers. *)

\* Mutant: an outcome in doubt after its lease expired does not block the resource.
Conflict_ExecutingOnly(a) ==
  \E b \in Actions \ {a} :
    Resource[b] = Resource[a] /\ row[b].mode = "execute" /\ row[b].status = "executing"

\* Another execute action of the same resource whose outcome is still open.
Conflict(a) ==
  \E b \in Actions \ {a} : Resource[b] = Resource[a] /\ Unresolved(row[b])

Record(a, r) == row' = [row EXCEPT ![a] = r]

Goto(w, p) == work' = [work EXCEPT ![w].pc = p]

Return(w) == work' = [work EXCEPT ![w] = Idle]

\* An enforced call returns a blocked receipt; an observing one goes on untracked.
BlockedOrUntracked(w) == IF work[w].enforce THEN Return(w) ELSE Goto(w, "untracked")

Evidence(a, t, c) ==
  IF Terminal(c) THEN [evidence EXCEPT ![a] = @ \cup {<<t, c>>}] ELSE evidence

\* settle writes the evidence first and the row only for its owner.
Settle(a, l, c) ==
  /\ Record(a, Settled(row[a], l, c))
  /\ evidence' = Evidence(a, l.attempt, c)

Fault == faults < MaxFaults /\ faults' = faults + 1

-----------------------------------------------------------------------------
(* ActionExecutorService.execute *)

\* Mutant: the call's own mode alone decides, whatever the row was registered as.
Enforced_CallMode(m, r) == m = "execute"

\* A row registered for execution is protected even from a process rolled back to observe.
Enforced(m, r) == r.mode = "execute" \/ m = "execute"

\* Where a call goes on after prepare returned record r.
AfterPrepare(e, a, m, conflict, r) ==
  LET enforce == Enforced(m, r)
      at(p) == work' = [work EXCEPT ![e] = [Idle EXCEPT !.pc = p, !.act = a, !.enforce = enforce,
                                                        !.held = LeaseOf(r)]]
  IN  CASE conflict -> Return(e)
        [] ~conflict /\ enforce /\ r.mode # "execute" -> Return(e)
        [] ~conflict /\ enforce /\ r.mode = "execute" ->
             IF PendingSync(r) THEN at("sync") ELSE IF Open(r) THEN at("authorize") ELSE Return(e)
        [] ~conflict /\ ~enforce -> IF Open(r) THEN at("authorize") ELSE at("untracked")

Prepare(e, a, m) ==
  /\ work[e].pc = "idle"
  /\ LET r == Registered(row[a], m)
         conflict == (row[a].status = "absent" \/ Open(row[a])) /\ Conflict(a)
     IN  Record(a, r) /\ AfterPrepare(e, a, m, conflict, r)
  /\ UNCHANGED <<evidence, jobs, wire, projected, loose, faults>>

\* The permission and freshness check before the claim may go either way.
Authorize(e) ==
  /\ work[e].pc = "authorize"
  /\ \/ Goto(e, "claim")
     \/ Goto(e, "cancel")
  /\ UNCHANGED <<row, evidence, jobs, wire, projected, loose, faults>>

Cancel(e) ==
  /\ work[e].pc = "cancel"
  /\ Record(work[e].act, Cancelled(row[work[e].act]))
  /\ Return(e)
  /\ UNCHANGED <<evidence, jobs, wire, projected, loose, faults>>

Claim(e) ==
  LET a == work[e].act
  IN  /\ work[e].pc = "claim"
      /\ ~Conflict(a) /\ Claimable(row[a]) /\ row[a].fence < MaxClaims
      /\ Record(a, Claimed(row[a]))
      /\ work' = [work EXCEPT ![e].pc = "recheck", ![e].lease = LeaseOf(Claimed(row[a]))]
      /\ UNCHANGED <<evidence, jobs, wire, projected, loose, faults>>

\* A conflict, a lost race or a passed deadline (or, at the bound, a claim not confirmed).
ClaimRefused(e) ==
  LET a == work[e].act
  IN  /\ work[e].pc = "claim"
      /\ Conflict(a) \/ ~Claimable(row[a]) \/ row[a].fence >= MaxClaims
      /\ BlockedOrUntracked(e)
      /\ UNCHANGED <<row, evidence, jobs, wire, projected, loose, faults>>

\* Permission may have changed while waiting for the claim: then nothing is sent.
Recheck(e) ==
  /\ work[e].pc = "recheck"
  /\ \/ Goto(e, "validate")
     \/ work' = [work EXCEPT ![e].pc = "save", ![e].out = "failed"]
  /\ UNCHANGED <<row, evidence, jobs, wire, projected, loose, faults>>

Validate(e) ==
  /\ work[e].pc = "validate"
  /\ IF ClaimValid(row[work[e].act], work[e].lease)
     THEN Goto(e, "dispatch")
     ELSE BlockedOrUntracked(e)
  /\ UNCHANGED <<row, evidence, jobs, wire, projected, loose, faults>>

Dispatch(e) ==
  /\ work[e].pc = "dispatch"
  /\ wire' = [wire EXCEPT ![work[e].act][work[e].lease.attempt] = "inflight"]
  /\ Goto(e, "wait")
  /\ UNCHANGED <<row, evidence, jobs, projected, loose, faults>>

\* The conclusions a response about attempt t of a can carry.
Reported(a, t) ==
  {"unknown", "soft"}
    \cup (IF Misreports /\ wire[a][t] = "landed" THEN {"failed"} ELSE {})
    \cup (IF wire[a][t] = "landed" THEN {"succeeded"} ELSE {})
    \cup (IF wire[a][t] = "dead" THEN {"failed", "retryable"} ELSE {})

Respond(e) ==
  /\ work[e].pc = "wait"
  /\ \E c \in Reported(work[e].act, work[e].lease.attempt) :
       work' = [work EXCEPT ![e].pc = "save", ![e].out = Normalised(c)]
  /\ UNCHANGED <<row, evidence, jobs, wire, projected, loose, faults>>

\* A known success goes on to its projection; an observed one even if it was not saved.
AfterSave(e, r) ==
  IF work[e].out = "succeeded" /\ (PendingSync(r) \/ (~work[e].enforce /\ r.status # "succeeded"))
  THEN work' = [work EXCEPT ![e].pc = "sync",
                            ![e].held = IF PendingSync(r) THEN LeaseOf(r) ELSE work[e].lease]
  ELSE Return(e)

Save(e) ==
  LET a == work[e].act
  IN  /\ work[e].pc \in {"save", "resave"}
      /\ Settle(a, work[e].lease, work[e].out)
      /\ AfterSave(e, Settled(row[a], work[e].lease, work[e].out))
      /\ UNCHANGED <<jobs, wire, projected, loose, faults>>

\* A settle that throws may have been committed; the same write is tried once more.
SaveFails(e) ==
  /\ work[e].pc \in {"save", "resave"}
  /\ Fault
  /\ \/ Settle(work[e].act, work[e].lease, work[e].out)
     \/ UNCHANGED <<row, evidence>>
  /\ Goto(e, IF work[e].pc = "save" THEN "resave" ELSE "enqueue")
  /\ UNCHANGED <<jobs, wire, projected, loose>>

\* Both writes failed: hand an execute result to the repair queue.
Enqueue(e) ==
  /\ work[e].pc = "enqueue"
  /\ jobs' = IF row[work[e].act].mode = "execute"
             THEN jobs \cup {[act |-> work[e].act, lease |-> work[e].lease, out |-> work[e].out]}
             ELSE jobs
  /\ IF work[e].out = "succeeded" /\ ~work[e].enforce
     THEN work' = [work EXCEPT ![e].pc = "sync", ![e].held = work[e].lease]
     ELSE Return(e)
  /\ UNCHANGED <<row, evidence, wire, projected, loose, faults>>

\* The store cannot confirm the claim or its validation.
StoreFails(e) ==
  /\ work[e].pc \in {"claim", "validate"}
  /\ Fault
  /\ BlockedOrUntracked(e)
  /\ UNCHANGED <<row, evidence, jobs, wire, projected, loose>>

\* untracked: an observing call that is still permitted sends its request without the ledger.
DispatchUntracked(e) ==
  /\ work[e].pc = "untracked"
  /\ \/ loose' = [loose EXCEPT ![work[e].act] = TRUE]
     \/ UNCHANGED loose
  /\ Return(e)
  /\ UNCHANGED <<row, evidence, jobs, wire, projected, faults>>

-----------------------------------------------------------------------------
(* Local projection of a success, by executors and recoverers alike. *)

Sync(w) ==
  /\ work[w].pc = "sync"
  /\ projected' = [projected EXCEPT ![work[w].act] = TRUE]
  /\ Goto(w, "mark")
  /\ UNCHANGED <<row, evidence, jobs, wire, loose, faults>>

Mark(w) ==
  LET a == work[w].act
  IN  /\ work[w].pc = "mark"
      /\ Record(a, MarkedSynced(row[a], work[w].held))
      /\ IF w \in Executors \/ MarkedSynced(row[a], work[w].held).synced
         THEN Return(w)
         ELSE work' = [work EXCEPT ![w].pc = "defer", ![w].held = work[w].lease]
      /\ UNCHANGED <<evidence, jobs, wire, projected, loose, faults>>

-----------------------------------------------------------------------------
(* ActionRecoveryService and ActionRepairProcessor *)

\* recoverDue: claim a due row for verification.
ReconcileClaim(v, a) ==
  LET r == TakenOver(row[a])
      p == IF ~PendingSync(r) THEN "read"
           ELSE IF a \in Handled /\ ~Exhausted(r, r.tries) THEN "sync" ELSE "notify"
  IN  /\ work[v].pc = "idle"
      /\ row[a].mode = "execute" /\ RecoveryDue(row[a]) /\ row[a].fence < MaxFence
      /\ Record(a, r)
      /\ work' = [work EXCEPT ![v] = [Idle EXCEPT !.pc = p, !.act = a, !.lease = LeaseOf(r),
                                                  !.held = LeaseOf(r), !.tries = r.tries]]
      /\ UNCHANGED <<evidence, jobs, wire, projected, loose, faults>>

\* Terminal conclusions stored for the attempt of lease l.
TerminalEvidence(a, l) == {c \in Completions : <<l.attempt, c>> \in evidence[a]}

Conflicting(E) == "succeeded" \in E /\ E # {"succeeded"}

\* Late evidence wins over a query; no handler can verify a request, so a query is "unknown".
ReadEvidence(v) ==
  LET a == work[v].act
      E == TerminalEvidence(a, work[v].lease)
  IN  /\ work[v].pc = "read"
      /\ \/ /\ Conflicting(E) \/ (E = {} /\ (a \notin Handled \/ Exhausted(row[a], work[v].tries)))
            /\ Goto(v, "notify")
         \/ /\ ~Conflicting(E)
            /\ \E c \in E : work' = [work EXCEPT ![v].pc = "settle", ![v].out = c]
         \/ /\ E = {} /\ a \in Handled /\ ~Exhausted(row[a], work[v].tries)
            /\ work' = [work EXCEPT ![v].pc = "settle", ![v].out = "unknown"]
      /\ UNCHANGED <<row, evidence, jobs, wire, projected, loose, faults>>

\* The row settle returns may carry the lease of a newer owner; later steps use that lease.
SettleRecovered(v) ==
  LET a == work[v].act
      r == Settled(row[a], work[v].lease, work[v].out)
      p == CASE r.status = "succeeded" -> IF a \in Handled THEN "sync" ELSE "notify"
             [] InDoubt(r) -> "defer"
             [] OTHER -> "idle"
  IN  /\ work[v].pc = "settle"
      /\ Settle(a, work[v].lease, work[v].out)
      /\ IF p = "idle"
         THEN Return(v)
         ELSE work' = [work EXCEPT ![v].pc = p, ![v].held = LeaseOf(r)]
      /\ UNCHANGED <<jobs, wire, projected, loose, faults>>

Defer(v) ==
  /\ work[v].pc = "defer"
  /\ Record(work[v].act, Scheduled(row[work[v].act], work[v].held))
  /\ Return(v)
  /\ UNCHANGED <<evidence, jobs, wire, projected, loose, faults>>

\* requestReview: stop scanning only once the notification is confirmed delivered.
Notify(v) ==
  /\ work[v].pc = "notify"
  /\ Goto(v, "park")
  /\ UNCHANGED <<row, evidence, jobs, wire, projected, loose, faults>>

NotifyFails(v) ==
  /\ work[v].pc = "notify"
  /\ Fault
  /\ Goto(v, "defer")
  /\ UNCHANGED <<row, evidence, jobs, wire, projected, loose>>

Park(v) ==
  /\ work[v].pc = "park"
  /\ Record(work[v].act, Parked(row[work[v].act], work[v].held))
  /\ Return(v)
  /\ UNCHANGED <<evidence, jobs, wire, projected, loose, faults>>

\* Any failure while recovering defers the row under the lease of the claim; the write of a
\* settle that throws may have been committed.
RecoverFails(v) ==
  /\ v \in Recoverers /\ work[v].pc \in {"read", "settle", "sync", "mark"}
  /\ Fault
  /\ work' = [work EXCEPT ![v].pc = "defer", ![v].held = work[v].lease]
  /\ \/ work[v].pc = "settle" /\ Settle(work[v].act, work[v].lease, work[v].out)
     \/ UNCHANGED <<row, evidence>>
  /\ UNCHANGED <<jobs, wire, projected, loose>>

\* A repair job settles what the executor saw and repairs the projection, never dispatches.
\* The queue redelivers a job whose run failed or stalled, so it may stay.  NoLease: a failing
\* run leaves the row to the scanner.
RepairJob(v, j) ==
  LET r == Settled(row[j.act], j.lease, j.out)
  IN  /\ work[v].pc = "idle"
      /\ j \in jobs
      /\ Settle(j.act, j.lease, j.out)
      /\ \/ jobs' = jobs \ {j}
         \/ UNCHANGED jobs
      /\ work' = IF PendingSync(r) /\ j.act \in Handled
                 THEN [work EXCEPT ![v] = [Idle EXCEPT !.pc = "sync", !.act = j.act,
                                                       !.held = LeaseOf(r)]]
                 ELSE work
      /\ UNCHANGED <<wire, projected, loose, faults>>

-----------------------------------------------------------------------------
(* The environment: provider, clocks, operators, retention, crashes. *)

Land(a, t) ==
  /\ wire[a][t] = "inflight"
  /\ wire' = [wire EXCEPT ![a][t] = "landed"]
  /\ UNCHANGED <<row, evidence, jobs, work, projected, loose, faults>>

Drop(a, t) ==
  /\ wire[a][t] = "inflight"
  /\ wire' = [wire EXCEPT ![a][t] = "dead"]
  /\ UNCHANGED <<row, evidence, jobs, work, projected, loose, faults>>

\* append_agent_reply_callback: evidence for the current attempt, never a status.
ProviderCallback(a) ==
  /\ a \in CallBack /\ row[a].mode = "execute"
  /\ InDoubt(row[a]) \/ row[a].status = "succeeded"
  /\ \E t \in Attempts : wire[a][t] = "landed"
  /\ row[a].attempt # 0
  /\ evidence' = Evidence(a, row[a].attempt, "succeeded")
  /\ Record(a, Woken(row[a]))
  /\ UNCHANGED <<jobs, work, wire, projected, loose, faults>>

TimerFires(a) ==
  /\ row[a].timer = "running"
  /\ Record(a, [row[a] EXCEPT !.timer = "due"])
  /\ UNCHANGED <<evidence, jobs, work, wire, projected, loose, faults>>

DeadlinePasses(a) ==
  /\ row[a].status # "absent" /\ ~row[a].lapsed
  /\ Record(a, [row[a] EXCEPT !.lapsed = TRUE])
  /\ UNCHANGED <<evidence, jobs, work, wire, projected, loose, faults>>

\* Attempt t of a can no longer take effect: refused, or never sent and nobody left to send it.
Void(a, t) ==
  \/ wire[a][t] = "dead"
  \/ /\ wire[a][t] = "unsent"
     /\ \A e \in Executors : ~(/\ work[e].act = a /\ work[e].lease.attempt = t
                               /\ work[e].pc \in {"recheck", "validate", "dispatch"})

\* An operator presents authoritative evidence about attempt t, which must be the current one.
Review(a, c) ==
  /\ row[a].mode = "execute" /\ row[a].fence < MaxClaims
  /\ \/ /\ c = "retry_local_sync" /\ PendingSync(row[a])
        /\ Record(a, ReopenedSync(row[a])) /\ UNCHANGED evidence
     \/ /\ c = "leave_unknown" /\ InDoubt(row[a])
        /\ Record(a, LeftUnknown(row[a])) /\ UNCHANGED evidence
     \/ /\ c \in {"succeeded", "failed"} /\ InDoubt(row[a])
        /\ \E t \in Attempts :
             /\ t = row[a].attempt
             /\ IF c = "succeeded" THEN wire[a][t] = "landed" ELSE Void(a, t)
             /\ evidence' = Evidence(a, t, c)
        /\ Record(a, Reviewed(row[a], c))
  /\ UNCHANGED <<jobs, work, wire, projected, loose, faults>>

\* redact_completed_agent_actions keeps the tombstone and drops the evidence.
Redact(a) ==
  /\ \/ row[a].mode = "observe"
     \/ row[a].status \in {"succeeded", "failed", "cancelled"} /\ row[a].synced
  /\ evidence[a] # {}
  /\ evidence' = [evidence EXCEPT ![a] = {}]
  /\ UNCHANGED <<row, jobs, work, wire, projected, loose, faults>>

Crash(w) ==
  /\ work[w].pc # "idle"
  /\ Fault
  /\ Return(w)
  /\ UNCHANGED <<row, evidence, jobs, wire, projected, loose>>

-----------------------------------------------------------------------------

Execute(e) ==
  \/ \E a \in Actions, m \in CallModes : Prepare(e, a, m)
  \/ Authorize(e) \/ Cancel(e) \/ Claim(e) \/ ClaimRefused(e) \/ Recheck(e) \/ Validate(e)
  \/ Dispatch(e) \/ Respond(e) \/ Save(e) \/ SaveFails(e) \/ Enqueue(e) \/ StoreFails(e)
  \/ DispatchUntracked(e)

Recover(v) ==
  \/ \E a \in Actions : ReconcileClaim(v, a)
  \/ ReadEvidence(v) \/ SettleRecovered(v) \/ Defer(v) \/ Notify(v) \/ NotifyFails(v) \/ Park(v)
  \/ RecoverFails(v)
  \/ \E j \in jobs : RepairJob(v, j)

Environment ==
  \/ \E a \in Actions, t \in Attempts : Land(a, t) \/ Drop(a, t)
  \/ \E a \in Actions : ProviderCallback(a) \/ TimerFires(a) \/ DeadlinePasses(a) \/ Redact(a)
  \/ \E a \in Actions, c \in Conclusions : Review(a, c)
  \/ \E w \in Workers : Crash(w)

Next ==
  \/ \E e \in Executors : Execute(e)
  \/ \E v \in Recoverers : Recover(v)
  \/ \E w \in Workers : Sync(w) \/ Mark(w)
  \/ Environment

Spec == Init /\ [][Next]_vars

-----------------------------------------------------------------------------
(* Safety. *)

\* At most one execute action of a resource has an open outcome: claim must see every
\* concurrent claim, takeover and review of the resource (the agent_action_unresolved_resource
\* index and the conflict queries of prepare and claim).
ResourceExclusive ==
  \A a, b \in Actions :
    a # b /\ Resource[a] = Resource[b] => ~(Unresolved(row[a]) /\ Unresolved(row[b]))

\* Of all attempts of an execute action at most one request is under way or has landed:
\* neither callers, recovery, repair jobs nor reviews ever cause a second external effect.
AtMostOneEffect ==
  \A a \in Actions : row[a].mode = "execute" =>
    \A t, u \in Attempts : {wire[a][t], wire[a][u]} \subseteq {"inflight", "landed"} => t = u

\* A request under way belongs to a row that still blocks its resource, so no other action of
\* the resource can be dispatched against it.
InFlightBlocks ==
  \A a \in Actions, t \in Attempts :
    row[a].mode = "execute" /\ wire[a][t] = "inflight" => Unresolved(row[a]) /\ row[a].attempt = t

\* failed and cancelled are definitive: no request of the action landed, none is under way and
\* no caller is past its last check before sending one ("definitive_no_effect").
FailureIsDefinitive ==
  \A a \in Actions :
    row[a].mode = "execute" /\ row[a].status \in {"failed", "cancelled"} =>
      /\ \A t \in Attempts : wire[a][t] \in {"unsent", "dead"}
      /\ \A e \in Executors : ~(work[e].act = a /\ work[e].pc = "dispatch")

\* A recorded success landed outside, by the attempt the row names.
SuccessLanded ==
  \A a \in Actions :
    row[a].status = "succeeded" => row[a].attempt # 0 /\ wire[a][row[a].attempt] = "landed"

\* local_sync = complete on a success means that some local projection of it has run, whoever
\* marked it (a lease returned by settle may belong to another worker).
SyncedMeansProjected ==
  \A a \in Actions : row[a].status = "succeeded" /\ row[a].synced => projected[a]

\* "Durable executing row remains discoverable": open outcomes and unrepaired successes are on
\* the scanner's clock or with an operator, whatever crashed.
Discoverable ==
  \A a \in Actions :
    row[a].mode = "execute" /\ (InDoubt(row[a]) \/ PendingSync(row[a])) =>
      row[a].timer # "none" \/ row[a].review

\* A terminal outcome is never overwritten, by late evidence, repair, recovery or review
\* ("terminal action cannot be overwritten"); only a retryable failure may be tried again.
TerminalFrozen ==
  [][\A a \in Actions :
       /\ row[a].status \in {"succeeded", "cancelled"} => row'[a].status = row[a].status
       /\ row[a].status = "failed" /\ ~row[a].retryable => row'[a].status = "failed"]_vars

\* A request of an execute action is never sent outside the ledger, not even by a process
\* that runs in observe mode after a rollback ("off/observe must honor old execute obligations").
ExecuteNeverLoose == \A a \in Actions : loose[a] => row[a].mode # "execute"

-----------------------------------------------------------------------------
(* Refinement: the execute rows and the wire implement ActionOutcome. *)

Phase(a) ==
  IF row[a].mode # "execute" \/ row[a].status = "registered" THEN "open"
  ELSE CASE InDoubt(row[a]) -> "inDoubt"
         [] row[a].status = "succeeded" -> "done"
         [] row[a].status = "failed" /\ row[a].retryable -> "open"
         [] OTHER -> "void"

Effects(a) ==
  IF row[a].mode = "execute" THEN Cardinality({t \in Attempts : wire[a][t] = "landed"}) ELSE 0

Outcome == INSTANCE ActionOutcome WITH phase <- [a \in Actions |-> Phase(a)],
                                       effects <- [a \in Actions |-> Effects(a)]

\* The whole protocol gives each execute action the one-shot outcome ActionOutcome promises.
ImplementsOutcome == Outcome!Spec

-----------------------------------------------------------------------------
(* What the sources say and the code does not do. *)

\* action-recovery.service.ts:69 "Deadlines limit automatic queries, never the acceptance of a
\* late terminal callback": when a callback has stored the success of the current attempt of an
\* open row, the row is on the clock of the scanner, or some recovery of it is under way.
LateEvidenceAccepted ==
  \A a \in Actions :
    LET E == TerminalEvidence(a, LeaseOf(row[a]))
    IN  a \in CallBack /\ Unresolved(row[a]) /\ E = {"succeeded"} =>
          row[a].timer # "none" \/ \E v \in Recoverers : work[v].act = a

\* action-executor.service.ts:117 "With a cutover configured, even off/observe must honor old
\* execute obligations": no observing call sends a request whose claim the ledger refused
\* because of an open execute action of the same resource.
HonorsExecuteObligations ==
  [][\A e \in Executors :
       LET a == work[e].act
       IN  work[e].pc = "claim" /\ Conflict(a) => work'[e].pc # "untracked"]_vars

-----------------------------------------------------------------------------
(***************************************************************************)
(* Liveness.  The scanner's cron runs every minute in every process and    *)
(* claims what is due, at the latest when it has come due again and again: *)
(* repair jobs that settle it in between have six attempts.  A claimed     *)
(* recovery runs to its end or crashes; time passes.  Callers, queues,     *)
(* providers and operators owe nothing.                                    *)
(***************************************************************************)
RecoverStep(v) ==
  \/ ReadEvidence(v) \/ SettleRecovered(v) \/ Sync(v) \/ Mark(v) \/ Defer(v) \/ Notify(v) \/ Park(v)

Fairness ==
  /\ \A v \in Recoverers : /\ SF_vars(\E a \in Actions : ReconcileClaim(v, a))
                           /\ WF_vars(RecoverStep(v))
  /\ \A a \in Actions : WF_vars(TimerFires(a))

FairSpec == Spec /\ Fairness

\* No execute action is stranded: an open outcome or an unrepaired success is eventually
\* concluded and projected, or handed to an operator.
NoActionStranded ==
  \A a \in Actions :
    (row[a].mode = "execute" /\ (InDoubt(row[a]) \/ PendingSync(row[a])))
      ~> (row[a].review \/ ~(InDoubt(row[a]) \/ PendingSync(row[a])))
=============================================================================
