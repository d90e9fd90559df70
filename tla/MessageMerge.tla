---------------------------- MODULE MessageMerge -----------------------------
(***************************************************************************)
(* The merging of one chat's messages: the pending list, the delayed Bull  *)
(* jobs that look at it, the quiet window, the chat lock with its lease,   *)
(* the counted acknowledgement, and the execution slots the handlers wait  *)
(* for (WorkerSlots).  A turn with a durable record (ReplyTurns) is here   *)
(* one step that resolves or defers it; a turn without one replays new     *)
(* messages and acknowledges by count.                                     *)
(***************************************************************************)
EXTENDS WorkerSlots

CONSTANTS
  Arrivals,       \* messages of the chat, numbered as they arrive
  Buckets,        \* time buckets of 30 s are numbered 0 .. Buckets - 1, round and round
  Checks,         \* bound: recheck and follow-up jobs that exist at one time
  MaxReplays,     \* the code's 3
  MaxAcks,        \* attempts of an acknowledgement, the code's 3
  MaxAttempts,    \* attempts of a job, the code's 3
  MaxStalls,      \* crashes a job survives, the code's 2
  MaxFaults,      \* bound: failed calls, crashes and lost leases in a behaviour
  Free, Orphan, Scan   \* the chat lock: nobody's, a dead holder's, the recovery scan's

ASSUME MergeAssumption ==
  /\ Arrivals \in Nat /\ Buckets \in Nat /\ Buckets > 1
  /\ MaxReplays \in Nat /\ MaxAcks \in Nat \ {0} /\ MaxAttempts \in Nat \ {0}
  /\ MaxStalls \in Nat /\ MaxFaults \in Nat
  /\ Cardinality({Free, Orphan, Scan}) = 3 /\ Handlers \cap {Free, Orphan, Scan} = {}

VARIABLES
  stage,      \* how far the intake of a message is
  pending,    \* wecom:message:pending of the chat; the order is that of the numbers
  quiet,      \* the quiet window after the last message is over
  jobs,       \* the message-merge queue: per job id its state
  bucket,     \* the current time bucket
  lock,       \* the chat lock
  work,       \* the call of handleProcessJob each handler is in
  durable,    \* turns have a durable record (the mode of the process)
  open,       \* messages of the durable turn that is not resolved
  answers,    \* history: turns that finished with a message in their batch
  dropped,    \* history: messages dropped because the chat was paused
  mishaps,    \* history: what went wrong
  faults

queue == <<jobs, bucket>>
chat == <<pending, quiet, lock, durable, open>>
history == <<answers, dropped, mishaps>>
mergeVars == <<stage, chat, queue, work, history, faults>>
vars == <<mergeVars, slotVars>>

Messages == 1 .. Arrivals

Own(m) == <<"own", m>>
LockRetry(b) == <<"lockretry", b>>
Check(k) == <<"check", k>>
JobIds == {Own(m) : m \in Messages} \cup {LockRetry(b) : b \in 0 .. Buckets - 1}
            \cup {Check(k) : k \in Checks}

NoJob == [st |-> "none", attempts |-> 0, stalls |-> 0]
NewJob == [NoJob EXCEPT !.st = "delayed"]
Jobs == [st: {"none", "delayed", "active"}, attempts: 0 .. MaxAttempts, stalls: 0 .. MaxStalls]

Points == {"idle", "lock", "busy", "window", "recheck", "turn", "durable", "ack", "dropack", "follow"}

\* first: the snapshot; batch: with the replayed messages; taken: entries to acknowledge;
\* round: replays, later attempts of the acknowledgement.
Idle == [pc |-> "idle", job |-> Check(0), first |-> {}, batch |-> {}, taken |-> 0, round |-> 0]

Mishaps == {"swallowed", "abandoned", "unacked", "echo", "lease", "crash", "expired", "partial"}

\* The limit may have been lowered since the process booted; console calls are WorkerSlots'.
Init ==
  /\ SlotsFree /\ registered \in limit .. MaxConcurrency
  /\ stage = [m \in Messages |-> "new"] /\ pending = {} /\ quiet = TRUE
  /\ jobs = [j \in JobIds |-> NoJob] /\ bucket = 0
  /\ lock = Free /\ work = [h \in Handlers |-> Idle]
  /\ durable \in BOOLEAN /\ open = {}
  /\ answers = [m \in Messages |-> 0] /\ dropped = {} /\ mishaps = {} /\ faults = 0

-----------------------------------------------------------------------------
(* Helpers. *)

Fault == faults < MaxFaults /\ faults' = faults + 1
Mishap(s) == mishaps' = mishaps \cup {s}

At(h, p) == work[h].pc = p /\ slot[h] = "held"
Goto(h, p) == work' = [work EXCEPT ![h].pc = p]

\* The list from index n on; messages are numbered in the order of the list.
From(n) == {m \in pending : Cardinality({k \in pending : k < m}) >= n}

Answered(S) == answers' = [m \in Messages |-> IF m \in S THEN answers[m] + 1 ELSE answers[m]]

\* The queue after a job was added: one whose id exists changes nothing.
Added(j) == IF jobs[j].st = "none" THEN [jobs EXCEPT ![j] = NewJob] ELSE jobs

\* Rechecks and follow-ups are named after the millisecond: always a new id.
FreshCheck == Check(CHOOSE k \in Checks : jobs[Check(k)].st = "none")

\* Mutant: nobody is sent to look at what is left.
LookAgain_Never == jobs

\* A recheck or follow-up is added if the list has anything.
LookAgain == IF pending = {} THEN jobs ELSE Added(FreshCheck)

\* The acknowledgement of n entries begins.
ToAck(h, p, n) == work' = [work EXCEPT ![h] = [Idle EXCEPT !.pc = p, !.job = work[h].job, !.taken = n]]

-----------------------------------------------------------------------------
(* Intake. *)

\* addMessage appends the message and restarts the quiet window ...
Push(m) ==
  /\ stage[m] = "new" /\ \A n \in 1 .. m - 1 : stage[n] # "new"
  /\ stage' = [stage EXCEPT ![m] = "pushed"]
  /\ pending' = pending \cup {m} /\ quiet' = FALSE
  /\ UNCHANGED <<queue, lock, durable, open, work, history, faults, slotVars>>

\* ... and adds the job that will look at it; the failure of all attempts is recorded.
Enqueue(m) ==
  /\ stage[m] = "pushed"
  /\ \/ jobs' = Added(Own(m)) /\ stage' = [stage EXCEPT ![m] = "queued"] /\ UNCHANGED faults
     \/ Fault /\ stage' = [stage EXCEPT ![m] = "reported"] /\ UNCHANGED jobs
  /\ UNCHANGED <<bucket, chat, work, history, slotVars>>

-----------------------------------------------------------------------------
(* handleProcessJob. *)

\* Mutant: a lock retry may fire in the bucket it is named after.
MayStart_Early(j) == TRUE

\* A delayed job may be early, except that a lock retry, delayed by the length of a bucket,
\* never fires in the bucket of its name.
MayStart(j) == j # LockRetry(bucket)

\* Bull hands a job to an idle handler, no matter which.
StartJob(h, j) ==
  /\ work[h].pc = "idle" /\ h = CHOOSE g \in Handlers : work[g].pc = "idle"
  /\ jobs[j].st = "delayed" /\ MayStart(j)
  /\ AcquireExecutionSlot(h)
  /\ jobs' = [jobs EXCEPT ![j].st = "active"]
  /\ work' = [work EXCEPT ![h] = [Idle EXCEPT !.pc = "lock", !.job = j]]
  /\ UNCHANGED <<stage, bucket, chat, history, faults>>

\* A handler ends while q is the queue: the finally block gives back lock and slot, then Bull
\* completes the job, or retries it or gives it up after an error.  A lock that is no longer
\* one's own stays; a release that fails is swallowed.
EndJob(h, q, failed, ms) ==
  LET j == work[h].job
      last == q[j].attempts + 1 >= MaxAttempts
  IN  /\ jobs' = [q EXCEPT ![j] = IF ~failed \/ last THEN NoJob
                                  ELSE [q[j] EXCEPT !.st = "delayed", !.attempts = @ + 1]]
      /\ mishaps' = mishaps \cup ms \cup (IF failed /\ last THEN {"abandoned"} ELSE {})
      /\ work' = [work EXCEPT ![h] = Idle]
      /\ ReleaseExecutionSlot(h)

\* Mutant: the release does not compare the owner.
Unlock_Anybody(h) == lock' = Free

Unlock(h) == lock' = IF lock = h THEN Free ELSE lock

\* The handler has done its part, or one of its calls failed.
Ends(h, q) ==
  /\ EndJob(h, q, FALSE, {})
  /\ \/ Unlock(h) /\ UNCHANGED faults
     \/ lock = h /\ Fault /\ lock' = Orphan
Throws(h, ms) == Unlock(h) /\ EndJob(h, jobs, TRUE, ms)

\* SET NX of the chat lock; an unconfirmed call counts as a busy chat.
AcquireProcessingLock(h) ==
  /\ At(h, "lock")
  /\ \/ lock = Free /\ lock' = h /\ Goto(h, "window") /\ UNCHANGED faults
     \/ lock # Free /\ Goto(h, "busy") /\ UNCHANGED <<lock, faults>>
     \/ Fault /\ Goto(h, "busy") /\ lock' \in {lock, IF lock = Free THEN Orphan ELSE lock}
  /\ UNCHANGED <<stage, queue, pending, quiet, durable, open, history, slotVars>>

\* The chat is busy: one retry job per bucket, so that a list outlives a dead holder.
ScheduleLockRetryCheck(h) ==
  LET q == IF pending = {} THEN jobs ELSE Added(LockRetry(bucket))
  IN  /\ At(h, "busy") /\ (Ends(h, q) \/ (Fault /\ Throws(h, {})))
      /\ UNCHANGED <<stage, bucket, pending, quiet, durable, open, answers, dropped>>

\* Once the window is over the list is read, not taken.
ClaimPendingSnapshot(h) ==
  /\ At(h, "window") /\ quiet /\ pending # {}
  /\ work' = [work EXCEPT ![h].pc = "turn", ![h].first = pending, ![h].batch = pending,
                          ![h].taken = Cardinality(pending)]
  /\ UNCHANGED <<stage, queue, chat, history, faults, slotVars>>

NothingPending(h) ==
  /\ At(h, "window") /\ (~quiet \/ pending = {})
  /\ IF quiet THEN Ends(h, jobs) /\ UNCHANGED <<pending, quiet, durable, open>>
     ELSE Goto(h, "recheck") /\ UNCHANGED <<chat, jobs, mishaps, faults, slotVars>>
  /\ UNCHANGED <<stage, bucket, answers, dropped>>

ScheduleQuietWindowRetryCheck(h) ==
  /\ At(h, "recheck") /\ (Ends(h, LookAgain) \/ (Fault /\ Throws(h, {})))
  /\ UNCHANGED <<stage, bucket, pending, quiet, durable, open, answers, dropped>>

\* Reading the window, the list or the permission to reply fails.
ReadFails(h) ==
  /\ At(h, "window") /\ Fault /\ Throws(h, {})
  /\ UNCHANGED <<stage, bucket, pending, quiet, durable, open, answers, dropped>>

\* The chat was paused meanwhile: the batch is marked as handled and taken off the list.
DropIfHostingPaused(h) ==
  /\ At(h, "turn") /\ work[h].round = 0
  /\ dropped' = dropped \cup work[h].batch /\ ToAck(h, "dropack", work[h].taken)
  /\ UNCHANGED <<stage, queue, chat, answers, mishaps, faults, slotVars>>

-----------------------------------------------------------------------------
(* A turn without a durable record. *)

New(h) == From(work[h].taken)

\* Mutant: the replayed messages are not acknowledged.
Replay_FirstOnly(h) ==
  /\ At(h, "turn") /\ ~durable /\ work[h].round < MaxReplays /\ New(h) # {}
  /\ work' = [work EXCEPT ![h].batch = @ \cup New(h), ![h].round = @ + 1]
  /\ UNCHANGED <<stage, queue, chat, history, faults, slotVars>>

\* A reply was generated but new messages came meanwhile: it is thrown away.
Replay(h) ==
  /\ At(h, "turn") /\ ~durable /\ work[h].round < MaxReplays /\ New(h) # {}
  /\ work' = [work EXCEPT ![h].batch = @ \cup New(h), ![h].taken = Cardinality(pending), ![h].round = @ + 1]
  /\ UNCHANGED <<stage, queue, chat, history, faults, slotVars>>

\* The turn ends with a reply that found no new message (or no replay left, or could not read
\* the list), or with silence, a hand-off or a side effect, for which nobody looks.
Answer(h) ==
  /\ At(h, "turn") /\ ~durable
  /\ Answered(work[h].batch) /\ ToAck(h, "ack", work[h].taken)
  /\ UNCHANGED <<stage, queue, chat, dropped, mishaps, faults, slotVars>>

\* Mutant: a failed turn acknowledges what was replayed, too.
Fallen_All(h) == work[h].taken

\* The entries a failed turn acknowledges.
Fallen(h) == Cardinality(work[h].first)

\* Generation or delivery fails, the latter perhaps after some segments went out.
\* handleProcessingError falls back for the snapshot only, and only that is acknowledged.
HandleProcessingError(h) ==
  /\ At(h, "turn") /\ ~durable /\ Fault
  /\ \/ Answered(work[h].first) /\ UNCHANGED mishaps
     \/ Answered(work[h].batch) /\ Mishap("partial")
  /\ ToAck(h, "ack", Fallen(h))
  /\ UNCHANGED <<stage, queue, chat, dropped, slotVars>>

\* Mutant: one attempt too many.
LastTry_Later(h) == work[h].round >= MaxAcks

LastTry(h) == work[h].round + 1 >= MaxAcks

\* One attempt of the LTRIM; an attempt that failed may have been carried out all the same.
\* The attempts of one acknowledgement that fail are one fault.
Tried(h) == /\ IF work[h].round = 0 THEN Fault ELSE UNCHANGED faults
            /\ pending' \in {pending, From(work[h].taken)}
Echo == IF pending' = pending THEN {} ELSE {"echo"}

AckPendingMessages(h) ==
  /\ At(h, "ack")
  /\ \/ /\ pending' = From(work[h].taken) /\ ToAck(h, "follow", 0)
        /\ UNCHANGED <<mishaps, faults>>
     \/ /\ Tried(h)
        /\ IF ~LastTry(h)
           THEN work' = [work EXCEPT ![h].round = @ + 1] /\ mishaps' = mishaps \cup Echo
           ELSE ToAck(h, "follow", 0) /\ Mishap("unacked")
  /\ UNCHANGED <<stage, quiet, lock, durable, open, queue, answers, dropped, slotVars>>

\* The same for a dropped batch, without a look at the list afterwards; here the last failure
\* reaches Bull.
AckDropped(h) ==
  /\ At(h, "dropack")
  /\ \/ pending' = From(work[h].taken) /\ Ends(h, jobs)
     \/ /\ Tried(h) /\ ~LastTry(h)
        /\ work' = [work EXCEPT ![h].round = @ + 1] /\ mishaps' = mishaps \cup Echo
        /\ UNCHANGED <<lock, jobs, slotVars>>
     \/ /\ Tried(h) /\ LastTry(h)
        /\ Throws(h, {"unacked"})
  /\ UNCHANGED <<stage, bucket, quiet, durable, open, answers, dropped>>

\* checkAndProcessNewMessages: a follow-up for what is in the list; if it cannot be added,
\* that is only logged.
CheckAndProcessNewMessages(h) ==
  /\ At(h, "follow")
  /\ \/ Ends(h, LookAgain)
     \/ Fault /\ Throws(h, {})
     \/ pending # {} /\ Fault /\ Unlock(h) /\ EndJob(h, jobs, FALSE, {"swallowed"})
  /\ UNCHANGED <<stage, bucket, pending, quiet, durable, open, answers, dropped>>

-----------------------------------------------------------------------------
(* A turn with a durable record. *)

\* It is opened, unless the chat's previous turn is not resolved: then the job is deferred.
OpenTurn(h) ==
  /\ At(h, "turn") /\ durable
  /\ IF open = {} THEN open' = work[h].batch /\ Goto(h, "durable")
     ELSE UNCHANGED open /\ ToAck(h, "follow", 0)
  /\ UNCHANGED <<stage, queue, pending, quiet, lock, durable, history, faults, slotVars>>

\* It is resolved, which takes its messages off the list by their ids, or deferred.
DurableTurn(h) ==
  /\ At(h, "durable") /\ ToAck(h, "follow", 0)
  /\ \/ Answered(open) /\ pending' = pending \ open /\ open' = {} /\ UNCHANGED faults
     \/ Fault /\ UNCHANGED <<pending, open, answers>>
  /\ UNCHANGED <<stage, queue, quiet, lock, durable, dropped, mishaps, slotVars>>

\* The recovery scan takes the chat over and resolves the turn.
RecoveryLocks ==
  /\ open # {} /\ lock = Free /\ \A h \in Handlers : work[h].pc # "durable"
  /\ lock' = Scan
  /\ UNCHANGED <<stage, queue, pending, quiet, durable, open, work, history, faults, slotVars>>

RecoveryResolves ==
  /\ lock = Scan /\ lock' = Free
  /\ Answered(open) /\ pending' = pending \ open /\ open' = {}
  /\ UNCHANGED <<stage, queue, quiet, durable, work, dropped, mishaps, faults, slotVars>>

-----------------------------------------------------------------------------
(* Time and faults. *)

WindowElapses == ~quiet /\ quiet' = TRUE
                 /\ UNCHANGED <<stage, queue, pending, lock, durable, open, work, history, faults, slotVars>>

\* The next bucket; its number is used again once no job bears it.
Tick ==
  LET b == (bucket + 1) % Buckets
  IN  /\ jobs[LockRetry(b)].st = "none" /\ jobs[LockRetry(bucket)].st # "none"
      /\ bucket' = b
      /\ UNCHANGED <<stage, jobs, chat, work, history, faults, slotVars>>

OrphanExpires ==
  /\ lock = Orphan /\ lock' = Free
  /\ UNCHANGED <<stage, queue, pending, quiet, durable, open, work, history, faults, slotVars>>

\* A live holder misses its heartbeats and loses the lock without knowing.
LeaseLapses ==
  /\ lock \in Handlers /\ Fault /\ lock' = Free /\ Mishap("lease")
  /\ UNCHANGED <<stage, queue, pending, quiet, durable, open, work, answers, dropped, slotVars>>

\* The list is not refreshed for 300 s: only the lock has a heartbeat.
ListExpires ==
  /\ pending # {} /\ Fault /\ pending' = {} /\ quiet' = TRUE /\ Mishap("expired")
  /\ UNCHANGED <<stage, queue, lock, durable, open, work, answers, dropped, slotVars>>

\* The process dies and restarts: Bull finds its active jobs stalled and hands them out again.
Crash ==
  /\ Fault
  /\ Restart(TRUE)
  /\ jobs' = [j \in JobIds |->
       IF jobs[j].st # "active" THEN jobs[j]
       ELSE IF jobs[j].stalls < MaxStalls
            THEN [jobs[j] EXCEPT !.st = "delayed", !.stalls = @ + 1] ELSE NoJob]
  /\ mishaps' = mishaps \cup {"crash"}
       \cup (IF \E j \in JobIds : jobs[j].st = "active" /\ jobs[j].stalls = MaxStalls
             THEN {"abandoned"} ELSE {})
  /\ stage' = [m \in Messages |-> IF stage[m] = "pushed" THEN "cut" ELSE stage[m]]
  /\ lock' = IF lock = Free THEN Free ELSE Orphan
  /\ work' = [h \in Handlers |-> Idle]
  /\ UNCHANGED <<bucket, pending, quiet, durable, open, answers, dropped>>

Handle(h) ==
  \/ AcquireProcessingLock(h) \/ ScheduleLockRetryCheck(h)
  \/ ClaimPendingSnapshot(h) \/ NothingPending(h) \/ ReadFails(h)
  \/ ScheduleQuietWindowRetryCheck(h) \/ DropIfHostingPaused(h) \/ AckDropped(h)
  \/ Replay(h) \/ Answer(h) \/ HandleProcessingError(h) \/ AckPendingMessages(h)
  \/ OpenTurn(h) \/ DurableTurn(h) \/ CheckAndProcessNewMessages(h)

Recover == RecoveryLocks \/ RecoveryResolves

Next ==
  \/ \E m \in Messages : Push(m) \/ Enqueue(m)
  \/ \E h \in Handlers : Handle(h) \/ \E j \in JobIds : StartJob(h, j)
  \/ Recover
  \/ WindowElapses \/ Tick \/ OrphanExpires \/ LeaseLapses \/ ListExpires
  \/ Crash

\* Handlers run, jobs that are due start, time passes, and the scan comes back every minute.
Fairness ==
  /\ WF_vars(\E m \in Messages : Enqueue(m))
  /\ \A h \in Handlers : WF_vars(Handle(h))
  /\ WF_vars(\E h \in Handlers, j \in JobIds : StartJob(h, j))
  /\ WF_vars(WindowElapses) /\ WF_vars(Tick) /\ WF_vars(OrphanExpires)
  /\ SF_vars(Recover)

Spec == Init /\ [][Next]_vars

FairSpec == Spec /\ Fairness

-----------------------------------------------------------------------------
(* Properties. *)

MergeTypeOK ==
  /\ stage \in [Messages -> {"new", "pushed", "queued", "reported", "cut"}]
  /\ pending \subseteq Messages /\ quiet \in BOOLEAN
  /\ jobs \in [JobIds -> Jobs] /\ bucket \in 0 .. Buckets - 1
  /\ lock \in Handlers \cup {Free, Orphan, Scan}
  /\ \A h \in Handlers :
       /\ work[h].pc \in Points
       /\ work[h].job \in JobIds \cup {Check(0)}
       /\ work[h].first \subseteq Messages /\ work[h].batch \subseteq Messages
       /\ work[h].taken \in 0 .. Arrivals
       /\ work[h].round \in 0 .. IF work[h].pc \in {"ack", "dropack"} THEN MaxAcks - 1 ELSE MaxReplays
  /\ durable \in BOOLEAN /\ open \subseteq Messages /\ dropped \subseteq Messages
  /\ answers \in [Messages -> Nat] /\ mishaps \subseteq Mishaps /\ faults \in Nat

Covered(m) == answers[m] > 0 \/ m \in dropped

\* A handler that will still look at the list, hand the job back to Bull, or add a job.
WillLook(h) == work[h].pc \notin {"idle", "dropack"}

\* A message in the list that no turn has covered has somebody who will look at it: its intake,
\* a job or a handler.  Otherwise its failure was reported, its process died before the job was
\* added, a follow-up could not be added or a job used up its attempts.
NeverForgotten ==
  \A m \in pending : ~Covered(m) =>
    \/ stage[m] # "queued"
    \/ \E j \in JobIds : jobs[j].st = "delayed"
    \/ \E h \in Handlers : WillLook(h)
    \/ mishaps \cap {"swallowed", "abandoned"} # {}

\* No message leaves the list before a turn covered it, unless a live worker lost the chat, a
\* trim was repeated that had been carried out, or the list expired.  Counted trims take
\* whatever is at the head of the list by then.
NoneTrimmedUnread ==
  \A m \in Messages : stage[m] # "new" /\ m \notin pending /\ ~Covered(m) =>
    mishaps \cap {"lease", "echo", "expired"} # {}

\* No message is answered by two turns, unless a process died or lost the chat before it had
\* acknowledged, the acknowledgement failed, or a delivery of replayed messages broke off.
AnsweredOnce ==
  \A m \in Messages : answers[m] > 1 => mishaps \cap {"crash", "lease", "unacked", "partial"} # {}

Critical == {"window", "recheck", "turn", "durable", "ack", "dropack", "follow"}

\* One handler at a time is between taking and giving back the chat lock, and none while the
\* recovery scan has it, unless a live holder lost its lease.
OneAtATime ==
  "lease" \notin mishaps =>
    \A h \in Handlers : work[h].pc \in Critical => lock = h

\* Under fair scheduling every message whose job was added is answered or dropped by a pause,
\* unless it was lost in one of the named ways.
EveryMessageHandled ==
  \A m \in Messages : stage[m] = "queued" ~>
    Covered(m) \/ mishaps \cap {"lease", "echo", "expired", "swallowed", "abandoned"} # {}
=============================================================================
