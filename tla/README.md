# Verification of the cake-agent runtime

TLA+ modules that model the runtime's durable protocols, TLC configurations that check
them on small instances, and proofs that TLAPS checks for every instance. All paths below
are relative to `src/`.

## 1. The system

The runtime answers recruiting conversations on a WeCom platform. A callback brings a
message; a worker merges the pending messages of a chat, an agent generates a reply and
calls tools, and the reply is sent segment by segment. Tools act on outside systems (book,
cancel or move an interview, invite to a group) whose requests cannot be repeated safely
and cannot be asked about reliably. Several processes run the same code; they share a
Postgres database (through stored procedures), Redis and Bull queues.

| Part | State | Operations | Talks to |
| --- | --- | --- | --- |
| **Action ledger** (`supabase/migrations/20261021090000_agent_action_records.sql`, `src/biz/action-execution/action-records.repository.ts`) | one row per action (mode, status, owner, fence, attempts, timers), terminal evidence per attempt | prepare, claim, validate_claim, cancel, reconcile_claim, settle, synced, schedule, manual; operator reviews; redaction | called by executor, recovery, repair queue, operators |
| **Action executor** (`action-executor.service.ts`, `action-local-sync.service.ts`) | the call in progress | execute: prepare, authorize, claim, recheck, validate, dispatch, save, project | ledger, provider, repair queue |
| **Action recovery and repair** (`action-recovery.service.ts`, `action-repair.queue.ts`) | the claimed row, queued jobs | scan, read evidence, settle, project, defer, request a review; run a repair job | ledger, handlers, notification |
| **Reply turns** (`20261106160000_ordinary_reply_single_pass.sql`, `src/biz/reply-execution`) | one turn per set of inputs: status, owner/fence, projection, delivery result | open, save_effects, start/check_delivery, interrupt, settle, ack, project, defer | reply workflow, reply recovery |
| **Reply workflow and delivery** (`application/reply-workflow.service.ts`, `delivery/*`) | the turn being answered, segments sent | generate once, save effects, deliver, settle, acknowledge; recover lapsed turns | reply turns, pending list, sender |
| **Message merge** (`runtime/simple-merge.service.ts`, `runtime/message.processor.ts`) | pending list, quiet window, chat lock, delayed jobs | add, snapshot, replay, acknowledge, recheck, follow-up | Redis, Bull, worker slots, reply workflow |
| **Worker slots** (`runtime/message-worker-manager.service.ts`) | active count, waiting calls, limit | acquire, release, resize, drain | message processor |
| **Intake and deduplication** (`application/accept-inbound-message.service.ts`, `runtime/deduplication.service.ts`) | processed marks with a TTL | accept, mark, report failure | pending list, history |
| **Redis lease and cron runner** (`src/infra/queue`) | lease owner, batch position | acquire, renew, assert, run a batch | every scanner |
| **Booking projection** (`20261021130000_version_booking_projections.sql`, `supabase.store.ts`, `tool-action.service.ts`) | active bookings, versions and tombstones of a candidate, their cache | set, clear, clear all, read through the cache | executor, repair and recovery, booking tool, provider |
| **Reengagement** (`src/agent/reengagement`) | command queue, delayed jobs, touch ledger, last activity | anchor, schedule and replace, fire, gate, send once, sweep | reply turns, provider, sender |
| **Group tasks** (`src/biz/group-task`) | plan, render and send jobs | plan, send, summarise | sender |
| **Intervention, hosting, permit** (`src/biz/intervention`, `src/biz/user`, `src/biz/action-permit`) | hosting pause, recorded hand-offs | pause, resume, check | workflow, executor |

The other parts (agent loop and guardrails, resolution, tools' argument checks, memory
extraction, notification rendering, dashboards, evaluation, web console, platform clients)
are listed in `PROJECT.json` with the reason they are left out: text processing, read
models or thin I/O.

### What is hard

* A request may take effect while nobody knows: crash after dispatch, lost response,
  expired lease, a late answer to a worker that lost its claim.
* Two actions of one resource (a booking, a work order) must not be under way together,
  whoever of caller, recovery or operator changes the rows.
* Evidence arrives late, twice, for an old attempt, or contradicts itself.
* Writes fail after they were committed; jobs are delivered again.
* Processes in different modes share the ledger (a rollback must not resend).
* Something unresolved must always have somebody who will look at it.

`PROJECT.json` lists these hazards at the lines where they bite, with the properties that
would notice.

### What makes each part correct

* **Ledger**: one open outcome per resource; terminal outcomes are final and agree with
  what happened outside; no open outcome leaves the clock unless an operator has it.
* **Executor**: one effect per action; failure is only reported when nothing can happen
  any more; an execute row is never sent around the ledger.
* **Recovery**: never dispatches, concludes only from evidence, never gives up silently.
* **Reply turns**: a message belongs to one turn, its tools run at most once, an
  acknowledged turn has its effects repaired, one unfinished turn per chat.
* **Merge**: no message is forgotten in the list, acknowledged unread or answered twice; one
  worker has the chat.
* **Worker slots**: never more than the limit is granted, no waiting call is forgotten or
  overtaken.
* **Booking projection**: the newest input wins in any order of delivery, a cancelled order
  never comes back, the cache follows.
* **Reengagement**: a follow-up is sent at most once and within the limit; an interview to
  come keeps its reminder; an accepted message is recorded as sent.

## 2. Plan

Done in this version:

1. `ActionLedger`, `ActionExecution`, `ActionOutcome`: the protocol every irreversible
   effect goes through (section 3); proofs in `ActionExecutionProofs` and, for the other
   safety invariants, terminal outcomes and the refinement, `ActionEffectProofs`.
2. `ReplyTurn`, `ReplyTurns`, `ReplyOutcome`: turn, workflow, delivery, recovery and the
   pending list of one chat (section 4); proofs in `ReplyTurnsProofs` and, for the one pass
   of a turn, its result and the refinement, `ReplyPassProofs`.
3. `WorkerSlots` and, on top of it, `MessageMerge`: the jobs, the list and the chat lock of
   one chat (section 5); proofs of the slots in `WorkerSlotsProofs`, of the chat lock,
   the jobs and the list in `MessageMergeProofs`.
4. `BookingProjection` and `BookingSync`: the versioned pointers of a candidate and all that
   write and read them (section 6); proofs in `BookingSyncProofs`.
5. `FollowUps`: commands, delayed jobs and the touch ledger of one session (section 7);
   proofs in `FollowUpsProofs`.

`WorkerSlots`, `BookingSync` and `FollowUps` share no state with each other. `MCBackground`
checks them side by side in one run: `part` picks the component that moves, and the others
stay at their initial state, so that the states of the run are the sum of those of the
three and not their product, and each component does what it does alone.

Every invariant, action property and refinement that a passing run checks is also a theorem
for every value of the constants (`HonestResult` for turns that send no receipts: with
them finding 4 refutes it). The liveness properties `NoActionStranded`,
`TurnResolved` and `EveryMessageHandled` stay with TLC.

Next, in this order: the stop commands, the two-day confirmation and several work orders in
`FollowUps`; the lease and batch position of the cron runner; group tasks; the hosting pause
together with `MessageMerge`.

## 3. The action ledger

### Modules

* `ActionLedger` is one row and every transition the stored procedures apply to it, as
  functions from row to row. A procedure is one transaction under the advisory lock of the
  resource, so one transition is one atomic step.
* `ActionExecution` composes rows, evidence, callers, recovery workers, repair jobs, the
  provider, clocks and operators. Each worker is a record in `work` whose `pc` names the
  next database transaction or external call; a crash or failure may fall between any two.
* `ActionOutcome` is the abstract promise: an action is tried under the exclusive hold of
  its resource, takes effect at most once, only while in doubt, and is concluded once in
  agreement with the outside.
* `MCActionExecution` fixes the resource map and the symmetry for TLC.

### Correspondence

| Model | Code |
| --- | --- |
| `row[a]` | `agent_action_records`; `timer` stands for `next_check_at` (null, future, reached), `lapsed` for `recovery_deadline` |
| owner, attempt | the uuids a claim writes; a claim's uuid is unique, as its fence value is, so the fence value stands for both (0 is null) |
| `tries` | `attempts`, which is only compared with the limit and so saturates above it |
| `evidence` | `agent_action_evidence`, terminal conclusions per dispatch attempt |
| `jobs` | the repair queue; a job may run any number of times |
| completion `soft` | a claimed success without `requestTerminated` or failure without definitive evidence, which settle turns into unknown |
| `held` | the lease a later transition sends: of the row the last transition returned, which may be another worker's |
| `Authorize` | permission and freshness checks: either result |
| `ReadEvidence` | `terminalEvidence` and the handlers' queries: every registered handler answers unknown |
| `wire` | outside truth: what happened to the request of each attempt |
| `Land`, `Drop` | the provider; a request that timed out for the caller may still land |
| `Review` | an operator, who presents evidence that is true of the current attempt |
| `projected`, `loose` | history of local projections and of sends outside the ledger |

### Runs

| Run | Instance | Shows |
| --- | --- | --- |
| `actions_one` | 1 action, 2 callers, 2 recoveries, all review conclusions, 2 faults | one effect, definitive failures, true successes, projections, nothing off the clock |
| `actions_misreport` | 1 action, callers in execute and observe mode, a provider that may report a landed request as failed, 1 recovery, all review conclusions, 2 faults (a failed save and its failed retry hand the row to a repair job), fair scanner | a stale or conflicting conclusion never overwrites a terminal row nor frees the resource of a request under way; an execute row is never sent around the ledger; nothing is stranded |
| `actions_refine` | 2 actions of a resource, 1 caller and 1 recovery, 1 fault | at most one open outcome per resource, and the protocol implements `ActionOutcome`; that two racing callers change nothing about the first is the theorem `Exclusive` |
| `actions_late` | callback action | finding 1 below |
| `actions_rollback` | execute and observe callers, 2 actions | finding 2 below |

Bounds: `MaxClaims` ends dispatch claims and reviews at that fence, two attempts being the
least for which a stale attempt can meet a newer one; `MaxFence` ends takeovers, one more
than the claims so that a takeover can follow each; `MaxFaults` counts crashes and failed
calls; `AttemptLimit` is 1 instead of 6, so that exhaustion happens after the first
takeover. In `actions_misreport`, which also checks liveness, `MaxFence` is large enough
never to disable a takeover a behaviour needs (claims, `AttemptLimit` and faults together:
with 5 instead of 6 the row would be stranded by the bound). Deadlock is checked: a new call can always be made, so no state of a run is without a
successor.

Fairness (only in `FairSpec`): a claimed recovery keeps taking steps, because it runs to its
end within its budget or fails; timers expire because time passes. The scanner claims a row
that comes due again and again (strong fairness): `recoverDue` runs from a cron every minute
in every process, a due row stays due until somebody writes it, and the one who may do so
without getting on, a redelivered repair job that settles it as unknown once more, has six
attempts (`action-repair.queue.ts:35`), which the model does not count. Nothing else is
assumed of callers, the repair queue, the provider or operators, and faults are finite.
One recovery worker suffices and is necessary: two whose leases both expired could take
the row from each other for ever; in the code the ten-minute lease against a budget of
thirty seconds per pass excludes this, which untimed actions cannot say.

### Findings

1. `LateEvidenceAccepted` (`actions_late`): a callback stored between the recovery's read
   of the evidence and its transition to `manual` puts the row on the clock, and the
   transition takes it off again: `manual` checks owner and fence, which a callback does
   not change. The evidence stays unread until an operator looks.
   `action-recovery.service.ts:69` says deadlines never limit the acceptance of a late
   terminal callback.
2. `HonorsExecuteObligations` (`actions_rollback`): an observing caller whose claim is
   refused because of an open execute action of the resource goes on to `untracked()` and
   sends; `prepare` blocks that conflict, but only if it exists at that moment.
   `action-executor.service.ts:117` says observe must honor old execute obligations.

### Proofs

`ActionExecutionProofs` proves, for any sets of actions and workers and any bounds:

* `Typing`: `Spec => []TypeOK`. Lemmas give the type of each row transition
  (`DispatchTypes`, `ConclusionTypes`, `ReviewTypes`) and of each kind of variable update;
  `TypeExecute`, `TypeRecover` and `TypeEnvironment` go through the actions.
* `Exclusive`: `Spec => []ResourceExclusive`. Given types, `ResourceExclusive` is
  inductive: `OnlyClaimsOpen` and the `NoneOpened` lemmas show that every transition other
  than a claim leaves a row unresolved only if it was so, and a claim is made only when no
  other row of the resource is unresolved (`OpeningSteps`). This is the argument the
  partial index and the advisory lock stand for: all of a resource's rows are read and
  written under one lock.

`ActionEffectProofs` proves what the ledger is for, also for every value of the constants:

* `OneEffect`, `InFlightBlocksHolds`, `SuccessLandedHolds`, and, if the provider reports no
  landed request as failed (`~Misreports`), `FailureIsDefinitiveHolds`. None of them is
  inductive: a second effect would come from a claim after a wrong conclusion, and a
  conclusion may travel through a response, a repair job, stored evidence, a callback or an
  operator, each under a lease that may be old. `EffectInv` says what is right about all of
  these at once. `RowsFit`: attempts before the one a row names are dead or were never sent,
  later ones are not sent, and a recorded outcome agrees with the fate of the current one.
  `LeasesFit`: a lease with the fence of the row names its attempt, so a conclusion that the
  row accepts is about the current attempt. `Told`: whatever a worker, a job or the evidence
  says of an attempt is so. `FreshAlone`: while a caller is between claim and dispatch its
  row is in doubt and nobody else has, or can get, a conclusion about its attempt; this is
  why the last check and the send need not be one step. `CallersOnly`: nobody else sends,
  which is what an operator's evidence of "never sent" rests on. `EffectAside` carries the
  invariant over all steps that claim and send nothing; claim, dispatch and the provider
  have lemmas of their own.
* `TerminalFrozenHolds`: `Turn` lists what a transition may do to a row, `RowSteps` shows
  that every step is a turn of one row, or a claim of an open one, or leaves the rows alone.
* `DiscoverableHolds`: no turn takes a row that is open or unrepaired off the clock without
  giving it to an operator (`Found`).
* `SyncedMeansProjectedHolds`: `OnlyMarkCompletes` shows that no transition but `MarkedSynced`
  completes a projection, and `WaySteps`, which lists how the call of a worker may go on, that
  whoever is about to mark has run a projection of that action.
* `ExecuteNeverLooseHolds`: a call that does not enforce found its row registered to be
  watched only, and a row never becomes an execute row again. It assumes `"off" \notin
  CallModes`: a call with actions off registers nothing, so it may send untracked while
  another process registers the action for execution.
* `Implements`: `Spec => ImplementsOutcome` under `~Misreports`, the refinement itself. By
  `EffectInv` only the current attempt can have landed, so the number of landed requests
  is 0 or 1 (`LandedOnce`); `TurnAllowed`, `ClaimAllowed` and `WireSteps` map each turn,
  claim and fate to the step of `ActionOutcome` it stands for, or to a stutter.

They assume `AttemptLimitAssumption` and `ExecutionAssumption`, which every run evaluates.
`NoActionStranded` is model-checked only: liveness under fairness is out of the prover's reach.

### Not modelled

* `identity_payload_mismatch` (a caller that reuses an identity with other arguments is
  rejected before any state changes), the input-age and cutover guards of `prepare`
  (rejections without state), the `previous_action_id` audit chain.
* A failing store in a deployment that never configured a cutover: there the executor goes
  on untracked by design.
* A callback waking reply turns: `FallsDue` of `ReplyTurns` covers its effect, a turn that
  the scan looks at earlier.

## 4. Reply turns

### Modules

* `ReplyTurn` is one row of `agent_reply_turns` under the policy `single_pass` and the
  transitions of `transition_agent_reply_turn`, as functions from row to row. A call is one
  transaction under the advisory lock of the chat.
* `ReplyTurns` composes one chat: callbacks, the pending list and deduplication marks, the
  chat's Redis lease, the jobs that answer (or direct calls, when merging is off), the
  recovery scans, clocks and crashes. `work[w].pc` names the next transaction or external
  call of a job or scan; failures, crashes and clocks may come between any two.
* `ReplyOutcome` is the abstract promise to each message: it waits, belongs to one turn and
  is closed; the model and its tools run at most once for it, and it is closed only after
  its business effects were handled.
* `MCReplyTurns` gives the symmetry for TLC.

### Correspondence

| Model | Code |
| --- | --- |
| `turns[i]` | a row of `agent_reply_turns` with its members in `agent_reply_inputs`, in order of creation |
| `owner` | the uuid an opening writes; no `single_pass` transition gives a turn to another owner, so the fence never changes and is left out |
| `live`, `due` | `generation_until` in the future, `next_check_at` reached |
| `proj`, `outcome`, `accepted` | `projection_status`, `delivery_result` (none while null) and its count |
| `pending`, `marked` | the Redis list (300 s, refreshed by messages and waiting jobs) and the marks of `deduplication.service.ts` |
| `lock` | the chat's 90 s lease; jobs renew it but never check it again, scans assert it before every call |
| `Arrive`, `ArriveDirect`, `StartJob` | intake with merging on, with merging off, and `handleProcessJob` |
| `Call` | `ReplyTurnsService.update`: granted, refused, or failed without knowing whether it was committed |
| `OnError` | the catch blocks: where a call goes on when its step was refused or failed |
| `Open` .. `Close` | `processMessageCore` and `deliverReply`, one action per transaction or external call |
| `copy` | the projection status as the caller last read it: `ackDurableTurn` decides on this copy |
| `kind` | what generation decided: a reply, a receipt before a hand-over to a person, or nothing to say |
| `Scan`, `Lease`, `Resume`, `Defer` | `ReplyRecoveryService`: rows are read first and handled later under the lease |
| `gens`, `sends`, `repaired`, `noticed` | history: runs of the model per message, segments accepted by the provider, effects handled, reports for manual review |

### Runs

| Run | Instance | Shows |
| --- | --- | --- |
| `replies_merged` | 2 messages, 2 jobs, 1 scan, replies of 2 segments or silence, 1 fault | one open turn per chat and one turn per message; results count what was sent; effects before acknowledgement; an acknowledgement takes only its own messages from the list; all of it implements `ReplyOutcome` |
| `replies_redelivered` | 1 message delivered twice, merged and direct calls at once, replies or receipts, 1 fault, fair scheduling | tools run once; no live worker is pre-empted; a stored result stays; every turn is acknowledged or reported |
| `replies_dropped` | 2 messages, direct calls, no fault | finding 3 below |
| `replies_receipt` | 1 message, a receipt, 1 fault | finding 4 below |

Bounds: two messages are the least for which a job's batch can differ from the turn it
finds; two jobs and a scan give late workers and takeovers; two segments give a delivery
that stops half way; `MaxArrivals` is the number of deliveries of one callback, `MaxFaults`
the number of crashes, failed or unconfirmed calls and lost leases. Deadlock is not checked:
a chat whose messages are answered, with no further message, has nothing to do.

Fairness (only in `FairSpec`): jobs and scans run to their end, because every database and
provider call has a timeout that ends in an error path; the scan is a cron every minute;
`generation_until`, `next_check_at` and the leases of gone holders pass with time. The
expiry of the pending list is strongly fair: while a turn keeps the chat, deferred jobs only
add follow-ups, which do not refresh the list, so it expires although jobs take the lock in
between. Nothing is assumed about callbacks, and faults are finite.

### Findings

3. `NoInputDropped` (`replies_dropped`): a message that waits behind an earlier turn is
   left in the pending list, and the follow-up job that `checkAndProcessNewMessages` adds
   does not refresh the list's 300 s. The turn may keep the chat for longer (ten minutes of
   `generation_until`, or until an operator acts when its effects were never saved); the
   list expires and the message is in no list, job or turn.
   `reply-workflow.service.ts:169` says it is retained instead of silently dropped.
4. `HonestResult` (`replies_receipt`): when the result of a receipt cannot be stored,
   `deliverPreHandoffReceipt` logs the failure and forgets it, and the end of the job
   settles the turn as skipped with zero segments although one was accepted.
   `src/biz/reply-execution/README.md:13` says what has no reliable count must not be
   forged as zero sends. `replies_merged` shows the property for ordinary replies.

### Proofs

`ReplyTurnsProofs` proves, for any sets of messages, jobs and scans, any length of a reply
and any bounds, under `ReplyAssumption` (jobs and scans are different actors; the constants
have their types):

* `Typing`: `Spec => []TypeOK`.
* `OneTurn`: `Spec => []OneTurnAtATime`. A transition never changes a row's members nor
  reopens an acknowledged turn (`Moves`, `RowChange`), and `open` inserts only when no turn
  has a message of the batch and all are acknowledged (`InsertStep`).
* `AckedAfterEffects`: `Spec => []EffectsBeforeAck`. This is not inductive: `ack` itself
  only refuses a pending projection, so a turn without saved effects would pass. What keeps
  it out is what the callers know. `IInv` adds `Handled` (a complete projection was handled;
  an acknowledged turn has a complete one) and `AllAware` (a call that is on its way to the
  acknowledgement has a copy with saved effects, and effects a copy shows as saved are saved
  in the row, because no transition forgets them). `KeptCall`, `RowStep` and `LocalStep`
  carry `IInv` over the kinds of steps; one lemma per group of actions applies them.

`ReplyPassProofs` goes on from `IInv` to what the run of a turn promises. None of it is
inductive either: whether the model may run, a turn be settled or a message taken off the
list is decided on what a call did or read several steps ago. `TurnInv` says what stays true
meanwhile. `CallsFine` (`Fine`) is what each call may rely on at its point: it is the owner
of the turn it answers; it has not run the model yet and no effects are saved, or it has run
it exactly once; while it generates or delivers and its time lasts the turn is open; on the
way to the acknowledgement the turn is closed and, past the repair, its effects are
projected; and its count is the number of accepted segments. `RowsFine` says the same of the
rows (effects are saved only after the one run; a stored count is the number sent) and
`RanOwned` that the model ran at most once for a message, and only for members of turns. The
transitions that others than the owner may make (`Foreign`: interrupt, project, acknowledge,
defer, the clocks) keep what a call relies on (`FineKept`), those of the owner (`Advances`)
meet no other call that answers the turn (`OwnTurns`, from `OneTurnAtATime`), and a refused
or unconfirmed call goes on with what it knew (`ErrorFine`, `CallFine`). On this rest:

* `OnePass`: `Spec => []GeneratedOnce`.
* `NotPreempted`: `Spec => []LiveNotPreempted`.
* `HonestCount`: `Spec => []HonestResult`, assuming that no receipts are sent. With receipts
  it is false (finding 4), so turns that send them are left out.
* `ResultsStay`: `Spec => ResultFrozen`, as every step `Advances` every row.
* `NoneSwallowed`: `Spec => NothingSwallowed`, as only the expiry and a call that relies on a
  closed and projected turn take messages off the list (`PendingSteps`).
* `Implements`: `Spec => ImplementsOutcome`. `EveryStep` shows that a step inserts a turn,
  runs the model for one, repairs or acknowledges one, advances a row or leaves the turns
  alone; `OutcomeSteps` maps each to `Take`, `Run`, `Handle`, `Close` or a stutter.

`TurnResolved` is model-checked only: liveness under fairness is out of the prover's reach.

### Not modelled

* The older `frozen` policy (`plan`, `fence`, stored segments) and `observe` mode, where
  a job gets no turn back and replies on the path without one.
* Jobs that answer without a durable turn and acknowledge the list by count, and replay:
  these are in `MessageMerge`.
* Hosting pause and filters before dispatch, which end a job without a turn, and the alerts
  sent on the way; a failing alert is caught and changes nothing.
* The jobs themselves: here a list that is not empty has a job; `MessageMerge` shows from
  the quiet window, rechecks and follow-ups how far that is so (`NeverForgotten`).
* No property says that nothing is sent after a turn was closed: the check before each
  segment and the send are two steps, and the code accepts what lies between.
* A scan may still finish a call it began after losing its lease, which the model allows at
  every step of the scan: more behaviours than the code has.

## 5. Message merge and worker slots

### Modules

* `WorkerSlots` is `MessageWorkerManagerService` in one process: slots taken, the line of
  handlers that wait, hand-over, console calls that resize, and restarts.
* `MessageMerge` extends it with one chat: the intake, the pending list, the quiet window,
  the `message-merge` queue, the chat lock, and the handlers that Bull runs. A handler's
  steps are those of `handleProcessJob`; it waits for a slot first, so a job may be active
  for long before it looks at anything. `MCMessageMerge` is its instance for TLC.

### Correspondence

| Model | Code |
| --- | --- |
| `limit`, `activeJobs`, `resolvers` | `currentConcurrency`, `activeJobs`, `pendingExecutionResolvers` |
| `registered` | the concurrency Bull was given at boot: raising the limit later never starts more handlers than this |
| `stored`, `drift` | the saved `workerConcurrency`; history of why limit and configuration may differ |
| `pending` | the Redis list; messages are numbered as they arrive, so the set with the numbers' order is the list, and `From(n)` what `LTRIM n -1` leaves |
| `Own(m)`, `LockRetry(b)`, `Check(k)` | job ids: of a message; of a busy chat, named after the 30 s bucket; rechecks and follow-ups, named after the millisecond and so always new |
| `jobs[j].attempts`, `.stalls` | attempts made; times the job was found stalled |
| `work[h].first`, `.batch`, `.taken` | the snapshot, the messages with those replayed, the count to acknowledge |
| `lock` | the chat lock: a handler's, a dead holder's until it expires, the recovery scan's |
| `Replay` | new messages came while the reply was generated: it is thrown away and generated anew, at most `MaxReplays` times |
| `HandleProcessingError` | a failed turn answers with the fall-back for its snapshot and acknowledges only that |
| `OpenTurn`, `DurableTurn`, `Recover` | a turn with a durable record: `ReplyTurns` in two steps |
| `Tick` | time goes from bucket to bucket; only a bucket whose retry job exists matters |
| `mishaps` | history: ways in which a message may be lost or answered twice that the code accepts or cannot exclude |

### Runs

| Run | Instance | Shows |
| --- | --- | --- |
| `merge` | 2 messages, 2 handlers, a limit of 1 or 2, with and without durable turns, 1 replay, 2 attempts of jobs and acknowledgements, 1 fault, fair scheduling | somebody always looks at a list with unread messages; trims take only what was read; no second answer; one handler per chat; every queued message is handled |
| `background`, part `slots` | 3 handlers, 2 console calls, limits 1 to 3 and a refused 4, restarts with and without a readable configuration | the counter and the line agree with the handlers; no idle slot while somebody waits; grants within the limit and in order |

The excuses of the properties are the fault's own names and are narrow. A message may be
trimmed unread (`NoneTrimmedUnread`) only if a live worker lost the chat, an `LTRIM` was
repeated that had been carried out, or the list expired under a long turn: the heartbeat
renews the lock and not the list. It may be answered twice (`AnsweredOnce`) only after a
crash, a lost chat, a failed acknowledgement, or a delivery of replayed messages that broke
off, whose acknowledgement covers the snapshot only. It may be forgotten
(`NeverForgotten`) only if a follow-up could not be added, which is logged and ignored, or
its job used up its attempts. The run has behaviours with each of them but the last, which takes two faults.

Bounds: two messages are the least for which a snapshot, a replay and a trim can differ;
two handlers the least for a busy chat. A lock retry fires in a later bucket than that of its
name, so two buckets, round and round, suffice.
`Checks` bounds the rechecks alive at once: a handler ends with adding at most one, and
three are never all in use. Deadlock is not checked: when all is handled nothing moves.

Fairness: handlers run to their end (every call has a timeout), Bull starts due jobs, the
window, the buckets and the lease of a dead holder pass with time. The recovery scan is
strongly fair: it comes every minute and needs the lock free, which it is again and again.
Nothing is assumed of arrivals or faults.

### Proofs

`WorkerSlotsProofs` proves, for any finite set of handlers, any console calls and any
limits, under `SlotAssumption`:

* `SlotInvariance`: `SlotSpec => []SlotInv`, the conjunction of `Ranges` (types and bounds
  of the counter), `Accounted` (counter and line agree with the handlers), `NoIdleSlot` and
  `Saved` (a limit without drift is the stored one). The heart is the hand-over:
  `HeadOfLine`, `ServedBound` and `Drained` show that the `Served` first calls of the line
  are exactly the handlers that change from waiting to held, that they are different from
  those that held a slot, and that the counter grows by their number.
* `SlotsAccountedHolds`, `NoIdleSlotHolds`, `SlotTypes` and `LimitIsStoredHolds` are its
  conjuncts; `FairGrantHolds` is the action property, which needs `NoIdleSlot`: a slot is
  free only if nobody waits, so a newcomer that finds one free overtakes nobody.

`NoIdleSlot` is not inductive alone: after a release it depends on the counter being the
number of holders, after a resize on the line having no handler twice.

`MessageMergeProofs` builds on it, for any handlers, messages and bounds, under
`MergeAssumption`:

* `OneAtATimeHolds`: given the shape of the calls, the property is inductive; a lock is
  given back only by its owner.
* `MergeTakesSlots` and `SlotsWhileMerging`: every step of a handler, a crash included, is a
  step of `WorkerSlots` or leaves the slots alone, so `SlotInv` holds in the composition.
* `NeverForgottenHolds`: `JobInv` adds that every call owns an active job (`JobsOwned`), that
  the retry job named after the current bucket is free to be added, and that every message
  of the list has a waiting job or a handler that will look (`Attended`). A call that sees
  the chat busy, or ends with messages left, must find an id for its recheck; the code names
  it after the time, so the theorem assumes that `Checks` is infinite. The run has few ids
  and is never short of them.

The last part shows that counting is safe on a list that only grows at its end
(`CountAll`, `CountPushed`): `NoneTrimmedUnreadHolds` and `AnsweredOnceHolds` follow from
`ListInv`, whose parts say that what a turn or an acknowledgement will count off has been
read (`Unread`), and that a message that was answered and is still in the list is about to
be counted off by its handler (`Single`). Each holds as long as its excuses have not occurred.

`MergeTypes` is the type invariant. What needs an argument in it are the limits: a turn
replays only below `MaxReplays`, an acknowledgement tries again only below `MaxAcks`, and
`RoundOK` carries that the counter they share starts at 0 when a turn goes over to its
acknowledgement.

`EveryMessageHandled` is model-checked only: liveness under fairness is out of the prover's
reach.

### Not modelled

* `cleanStuckJobs` and the draining at shutdown, which end handlers as a crash does; a
  live handler that Bull takes for stalled; jobs that failed for good and are kept.
* Entries of the list that cannot be parsed, redelivered callbacks (in `ReplyTurns`), and
  other chats, which take slots for a time but share nothing else.
* An addition of a job that failed for the caller but took effect: one job more.

## 6. Booking pointers

### Modules

* `BookingProjection` is `apply_active_booking_projection` as functions from row to row,
  one candidate's row under `FOR UPDATE`.
* `BookingSync` composes one candidate: the provider and the list it shows, succeeded
  actions that `ToolActionService.sync` projects late, twice, by several workers and in any
  order, the link of an existing order by the booking tool, the reset by the test fixture,
  and readers that fill the cache.

### Correspondence

| Model | Code |
| --- | --- |
| `row.at[o]`, `row.deleted[o]` | `active_booking_versions`: `occurred_at`, `deleted` |
| `row.linked[o]`, `row.seen[o]` | the entry of the list: `linked_at`, what it says of the interview |
| `event[e]` | an action of the ledger: landed outside, recorded as succeeded, projected (`at` is its input time) |
| `order`, `shown` | the provider's orders and its list, which may lag behind |
| `syncer[s].then` | where the call goes on after the write: a cancellation clears first and asks then; a superseded write ends it |
| `Newer` | the query for a later succeeded action of the same order |
| `cache`, `reader` | `active-booking:<corp>:<user>` and a reader between its query and its `SETEX`: only whether the view is the current one matters |
| `upset`, `blurred` | history: why a pointer or the cache may disagree |

### Runs

`background`, part `bookings`: 2 orders, 3 actions, 3 input times, a list of at most 1, 2
workers, 1 reader, and 3 calls of the outside among bookings, relinks, resets, reads and
breaks. Three actions are a booking, a change and a cancellation of one order, or bookings
that push each other off the list; times may tie and come against the order in which the
provider carried actions out.

* `NeverRevived`: a version never gets older, and an entry enters the list only with a
  time later than all the row knew.
* `CancelledStaysGone`, `PointersAgree`, `CacheAgrees` relate the row to the provider and
  the cache to the row. Their exceptions are what the code cannot know: inputs carried out
  against their order or with one time, an outside change, a list that lagged when it was
  read, the relink below, a reset, and the cap; for the cache, a reader that fills it after
  the deletion, and a relink or a superseded repetition that could not delete it.

Met while modelling: the booking tool links an order that exists already with the clock of
its own process (`duliday-interview-booking.tool.ts:659` passes no input time), while a
cancellation carries the earlier time of its input. A relink read before the cancellation
and written after it puts the cancelled order back, and the tombstone does not hold it:
`tool-action.service.ts:209` explains the tombstone by old repairs only. This is the
exception `relink`.

### Proofs

`BookingSyncProofs` proves, for any orders, actions, times, workers and length of the list,
under `BookingAssumption` and `SyncAssumption` (an action has a number, and 0 is none; the
clock begins at 1):

* `NeverRevivedHolds`, from `SyncInv` (types, and which call carries which action) and from
  lemmas about the row: a set, a clear and a reset only move versions forward
  (`Follows`), and the cap only takes orders off.
* `CancelledStaysGoneHolds`. `Dead(r, o, T)` says that nothing of order `o` with a time up to
  `T` can be listed again. `GoneInv` says that a cancellation has the last input of its
  order unless there was disorder (`CancelLast`), that writes and rows carry times of
  actions (`CallsOf`, `RowFromEvents`), and that the order of a projected cancellation is
  dead in the row (`CancelsGone`), also when its clear was superseded.

* `CacheAgreesHolds`. The property alone is not inductive: the action that is still due could
  be finished by a worker that deleted the cache before it was filled again. Such a worker
  projects a cancellation whose clear was carried out (`ClearsSpent`), and a clear of that
  order with that time changes nothing in the list any more (`Spent`, `ClearUnlisted`), so
  the cache did not age by it. `OldKnown` therefore names who still deletes: a call whose
  action nobody is about to finish without a deletion (`Unread`). That a repeated clear pushes
  nothing off the list needs that the limit was already applied to the row (`Fits`).
* `PointersAgreeHolds`. Without tie or disorder an order has one last action (`History`).
  `LastTold` says that the provider's order is as that action left it, that a row with its time
  says the same, and that the row has that time once the action is projected. A write on
  behalf of the last action is never superseded (`LastWrites`), and one of an earlier action
  never gets past it (`OthersWrite`); the writes under way carry what their action did
  (`AllWrites`), since the visit that a call read stays current as long as its action is the
  last.
* `BookingTypes`, the type invariant, of which the length of the list is the substance: the
  code never counts its entries, it keeps those with fewer than `MaxListed` before them
  (`Fits`). `FitsBounds` maps each entry to the number of those before it, which is an
  injection into `0 .. MaxListed - 1` because the order is total (equal times are
  decided by the id).

### Not modelled

Rows from before the versions, candidates that book for another person (`additional`),
the form and identity updates after the projection, active orders without a job id, which
leave the row alone, and operations events.

## 7. Follow-ups

### Module

`FollowUps` composes one session and one work order: turns put commands into the command
queue, the command worker and two runners of the follow-up queue look for jobs, remove
those a new one replaces and add it, each in its own step, and a runner goes through
judging, reserving, composing, sending, saving the receipt and counting.

Staff may turn `reengagementEnabled` off and on whenever they like, and each process caches
it for a second. The switch is therefore no variable: every place that reads it may find it
off, in any order. `process` reads it first and drops a due job, also one whose message was
accepted (`follow-up.processor.ts:207-215`, and the comment at `:218`); the permit of a
touch reads it again; `scheduleFollowUp`, `scheduleBookingResolution` and
`scheduleOnboardingCheck` answer `disabled` and add nothing, which their callers take as done
(`:1236` throws for `enqueue_error` only).

### Correspondence

| Model | Code |
| --- | --- |
| `Pre(k)`, `Remind(v)`, `Resolve(k)`, `Onboard`, `CheckUp` | job ids, which are also touch keys: of a turn, of the interview's hour, of the turn that booked, of the order |
| `Collecting` | turns whose pre-booking job is `booking_incomplete`, which blocks the others |
| `task[j].st` | waiting (or delayed), active, kept: finished jobs stay for days and keep their id |
| `commands`, `Commander` | `reengagement-commands`, one handler, retried with a delay |
| `activity`, `booked` | `lastCandidateMessageAt`, the terminal state `booked` |
| `interview`, `hour` | the order as the provider shows it: a runner reads it when it fires, never the memory |
| `touch`, `counted`, `lastTouch` | the slot of a key, the list the limit of 24 h counts, the time of the last touch |
| `receipt` | `onboardingTouchAcceptedAt`, saved in the Bull job |
| `Look`, `Add` | the two calls of `scheduleFollowUp`: what was looked at may be stale when the job is added |
| `Dropped(j)` | what is lost when the switch is found off for job `j` |
| `task[j].tries`, `task[j].stalls`, `Stalled` | failed attempts; crashes a job was running in, of which Bull forgives `maxStalledCount` |
| `oddities` | history: what may cost a reminder or exceed the limit |

### Runs

`background`, part `followups`: 2 turns, of which the first collects data, interviews at 2
hours, a limit of 1 touch, 2 attempts, 1 slip (failed call, crash, or change by staff).
Two hours are the least for a change of the interview, two turns the least for a later
change that meets the jobs of an earlier one, and a limit of 1 makes the second touch the
one that is refused. A slip may hit any step.
Two slips, which add the exhaustion of a job's attempts and, with `MaxStalls = 1`, of the
crashes it survives, take too long for a run and were checked outside with the same result
(15 million states); the theorems below have no such bound.

* `TouchOnce`: no retry, redelivery or new schedule sends a key twice.
* `FrequencyKept`: within the limit, plus at most one message per further runner when
  runners pass the gate together: two runners never send more than one too many. The only
  exception is a message that arrived with an unknown outcome, which is never counted.
* `ReminderKept`: as long as an interview is to come, some command, job or runner is going
  to remind of it. The exceptions are what the code does not repair, met while modelling:
  a change by staff before the runner asks; a runner that read the order before a change
  and schedules or cleans after it (`late`); a reminder that sweeps the waiting resolution
  of a later change, since all share order and scenario (`swept`, see below); an interview
  moved back to an hour whose reminder had given way, whose id still exists (`again`);
  `enqueue_error` on the paths of a resolution or a replacement, which nobody looks at
  (`unscheduled`, `follow-up.processor.ts:340` and `:871`); a job given up after its
  attempts or crashes (`exhausted`); and the switch found off for a job of the order
  (`disabled`). Unless another job of the order happens to be due in time, the interview
  then goes without a reminder, silently.
* `AcceptedRecorded`: an accepted onboarding message ends as sent with its check scheduled.
  It may end unmarked when its job was given up, or came back after a failure while the
  switch was off (`halted`); with the switch off only when the check is due to be added, the
  message is marked and the check missing (`unchecked`).

`follow_ups_swallowed`: the same instance without slips, so that no call fails, nobody
crashes and nobody but the candidate changes the interview. It asks for less than
`ReminderKept` and excuses none of the races: when all commands are handled and no runner is
at work, an interview to come has a job that is due before it, or a reminder was tried.

### Findings

5. `MovedIsScheduled` (`follow_ups_swallowed`): a turn books, its resolution reads the order
   and is about to schedule the reminder; meanwhile the candidate moves the interview to an
   earlier hour, and the resolution of that turn is queued. `shouldRemovePendingJob`
   compares order, scenario and touch variant, not the anchor event, and the older job
   removes the newer resolution as if it were of before the change. The reminder it adds is
   due after the interview. `follow-up-scheduler.service.ts:658` says that jobs of before
   the change are replaced, and `:419-420` that the resolution of a later change must not be
   swallowed.

### Proofs

`FollowUpsProofs` proves the four properties and the types for any turns, hours, runners and bounds, under
`FollowAssumption`:

* `TouchOnceHolds`. `TouchInv` adds that a free slot has sent nothing, that a runner which may
  yet send holds a slot that is not free, and that no two such runners hold one key
  (`SlotsOwned`): reserving is one step and asks for a free slot.
* `ReceiptRecorded`. `Alone` says that a job is active exactly under the one runner that works
  on it, `Spots` what the place of a runner says of the onboarding job: before its message it
  has no receipt, afterwards the slot is sent when the check is scheduled. A crash puts the job
  back with its receipt, so the next attempt starts at the recount, or gives it up,
  which counts as exhausted. `WellEnded` is what a step that ends the job has to leave; a due
  job that is dropped with the switch off (`DropKeeps`) leaves it by being on record as `halted`.
* `LimitKept`. While every delivery was confirmed (`Known`), whatever arrived is counted or in
  the hands of a runner past the gate, and the counted keys with those in hands are at most
  the limit and, if runners overlapped, one for each further runner (`Tally`, `Room`): the last
  runner to pass saw fewer counted than the limit, and the others hold one key each.
  `FrequencyKept` counts what arrived as a set, so that its size can be bounded by that of
  those keys; each key arrived once (`TouchOnce`). There is at least one runner by assumption.
* `ReminderStays`. `ReminderKept` is not inductive: a reminder for an earlier hour that it
  counts in may give way without a successor. `Reminded` leaves those out and asks of a runner
  that schedules a reminder that its own job is a resolution and, when it is about to add it,
  that the id is still unused. It needs that resolutions in the command queue are distinct and
  their ids unused (`QueueInv`), that the command worker never schedules reminders
  (`CommanderInv`) and that a reminder is judged only when due (`CallsInv`): then a step that
  takes one arrangement away leaves another, or is one of the named oddities.
* `FollowTypes`. That attempts stay within `MaxTries` needs that a job which may run has one
  left (`TaskKinds`) and that a runner's job is active (`Alone`); that only touches are
  counted needs that only touches pass the gates (`ActorKinds`).

Its last part is about `MCBackground`: every behaviour of it is a behaviour of each of the
three components (`SideBySide`), so what is proved about one holds of what the run
explores; `BackgroundTypes` is the run's `TypeOK`.

### Not modelled

Stop and supersede commands, the two-day confirmation, `post_interview_followup`, slot
checks, shadow mode and rollout, group invites, the gate for unanswered messages and what
the permit checks besides the switch (reasons to stop, like those of `Judge`), several work
orders of one session, the expiry of slots and kept jobs, the rolling of the 24 h window,
the exhaustion of a command's five attempts, which is reported, and that of the crashes a
command survives.
