-------------------------- MODULE MessageMergeProofs --------------------------
(***************************************************************************)
(* Theorems about MessageMerge for any handlers, messages and bounds: the  *)
(* chat lock, and the slots of WorkerSlots under the handlers of a chat.   *)
(***************************************************************************)
EXTENDS MessageMerge, WorkerSlotsProofs

-----------------------------------------------------------------------------
(* The chat lock. *)

\* Every handler's call is a record with the fields of Idle, and has a round.
WorkShape ==
  /\ DOMAIN work = Handlers
  /\ \A h \in Handlers : /\ DOMAIN work[h] = {"pc", "job", "first", "batch", "taken", "round"}
                         /\ work[h].round \in Nat

LockInv == WorkShape /\ OneAtATime

LEMMA NoHandler == Free \notin Handlers /\ Orphan \notin Handlers /\ Scan \notin Handlers
  BY MergeAssumption DEF MergeAssumption

LEMMA LockInit == Init => LockInv
  BY DEF Init, LockInv, WorkShape, OneAtATime, Idle, Critical

\* How a step may change the call of one handler.
LEMMA GotoShape ==
  ASSUME WorkShape, NEW h \in Handlers, NEW p, Goto(h, p)
  PROVE  /\ WorkShape' /\ work'[h].pc = p
         /\ \A g \in Handlers : g # h => work'[g] = work[g]
  BY DEF WorkShape, Goto

LEMMA ToAckShape ==
  ASSUME WorkShape, NEW h \in Handlers, NEW p, NEW n, ToAck(h, p, n)
  PROVE  /\ WorkShape' /\ work'[h].pc = p
         /\ \A g \in Handlers : g # h => work'[g] = work[g]
  BY DEF WorkShape, ToAck, Idle

LEMMA IdleShape ==
  ASSUME WorkShape, NEW h \in Handlers, work' = [work EXCEPT ![h] = Idle]
  PROVE  /\ WorkShape' /\ work'[h].pc = "idle"
         /\ \A g \in Handlers : g # h => work'[g] = work[g]
  BY DEF WorkShape, Idle

\* A step in which one handler moves that holds the lock, or that ends outside.
LEMMA HolderMoves ==
  ASSUME LockInv, WorkShape', NEW h \in Handlers,
         \A g \in Handlers : g # h => work'[g] = work[g],
         work'[h].pc \in Critical => work[h].pc \in Critical,
         lock' = lock, mishaps \subseteq mishaps'
  PROVE  LockInv'
  BY DEF LockInv, OneAtATime

LEMMA EndsLock ==
  ASSUME LockInv, NEW h \in Handlers, Unlock(h) \/ (lock = h /\ lock' = Orphan),
         NEW q, NEW failed, NEW ms, EndJob(h, q, failed, ms)
  PROVE  LockInv'
<1>1. work' = [work EXCEPT ![h] = Idle] /\ mishaps \subseteq mishaps'
  BY DEF EndJob
<1>2. WorkShape' /\ work'[h].pc = "idle" /\ \A g \in Handlers : g # h => work'[g] = work[g]
  BY <1>1, IdleShape DEF LockInv
<1>3. lock' = lock \/ lock = h
  BY DEF Unlock
<1> QED BY <1>1, <1>2, <1>3 DEF LockInv, OneAtATime, Critical

LEMMA EndsKeeps ==
  ASSUME LockInv, NEW h \in Handlers, NEW q, NEW ms, Ends(h, q) \/ Throws(h, ms)
  PROVE  LockInv'
  BY EndsLock DEF Ends, Throws

LEMMA HandleLock ==
  ASSUME LockInv, NEW h \in Handlers, Handle(h)
  PROVE  LockInv'
<1> USE DEF At
<1>0. WorkShape
  BY DEF LockInv
<1>1. CASE AcquireProcessingLock(h)
  <2>1. PICK p \in {"window", "busy"} : Goto(h, p) /\ (p = "window" => lock = Free /\ lock' = h)
    BY <1>1 DEF AcquireProcessingLock
  <2>2. mishaps' = mishaps /\ (lock = Free \/ lock' = lock)
    BY <1>1 DEF AcquireProcessingLock, history
  <2>3. WorkShape' /\ work'[h].pc = p /\ \A g \in Handlers : g # h => work'[g] = work[g]
    BY <1>0, <2>1, GotoShape
  <2>4. ASSUME "lease" \notin mishaps', NEW g \in Handlers, work'[g].pc \in Critical
        PROVE  lock' = g
    <3>1. CASE g = h
      BY <2>1, <2>3, <2>4, <3>1 DEF Critical
    <3>2. CASE g # h
      <4>1. lock = g
        BY <2>2, <2>3, <2>4, <3>2 DEF LockInv, OneAtATime
      <4> QED BY <4>1, <2>2, NoHandler
    <3> QED BY <3>1, <3>2
  <2> QED BY <2>3, <2>4 DEF LockInv, OneAtATime
<1>2. CASE ScheduleLockRetryCheck(h)
  BY <1>2, EndsKeeps DEF ScheduleLockRetryCheck
<1>3. CASE ClaimPendingSnapshot(h)
  <2>1. WorkShape' /\ \A g \in Handlers : g # h => work'[g] = work[g]
    BY <1>0, <1>3 DEF ClaimPendingSnapshot, WorkShape
  <2>2. work[h].pc \in Critical /\ lock' = lock /\ mishaps' = mishaps
    BY <1>3 DEF ClaimPendingSnapshot, Critical, chat, history
  <2> QED BY <2>1, <2>2, HolderMoves
<1>4. CASE NothingPending(h)
  <2>1. CASE Ends(h, jobs)
    BY <2>1, EndsKeeps
  <2>2. CASE Goto(h, "recheck") /\ UNCHANGED <<chat, jobs, mishaps, faults, slotVars>>
    <3>1. work[h].pc \in Critical
      BY <1>4 DEF NothingPending, Critical
    <3> QED BY <1>0, <2>2, <3>1, GotoShape, HolderMoves DEF chat
  <2> QED BY <1>4, <2>1, <2>2 DEF NothingPending
<1>5. CASE ReadFails(h)
  BY <1>5, EndsKeeps DEF ReadFails
<1>6. CASE ScheduleQuietWindowRetryCheck(h)
  BY <1>6, EndsKeeps DEF ScheduleQuietWindowRetryCheck
<1>7. CASE DropIfHostingPaused(h)
  <2>1. work[h].pc \in Critical /\ lock' = lock /\ mishaps' = mishaps /\ \E n : ToAck(h, "dropack", n)
    BY <1>7 DEF DropIfHostingPaused, Critical, chat
  <2> QED BY <1>0, <2>1, ToAckShape, HolderMoves
<1>8. CASE AckDropped(h)
  <2>1. CASE Ends(h, jobs) \/ Throws(h, {"unacked"})
    BY <2>1, EndsKeeps
  <2>2. CASE work' = [work EXCEPT ![h].round = @ + 1] /\ mishaps' = mishaps \cup Echo /\ lock' = lock
    <3>1. WorkShape' /\ \A g \in Handlers : g # h => work'[g] = work[g]
      BY <1>0, <2>2 DEF WorkShape
    <3>2. work[h].pc \in Critical
      BY <1>8 DEF AckDropped, Critical
    <3> QED BY <2>2, <3>1, <3>2, HolderMoves
  <2> QED BY <1>8, <2>1, <2>2 DEF AckDropped
<1>9. CASE Replay(h)
  <2>1. WorkShape' /\ \A g \in Handlers : g # h => work'[g] = work[g]
    BY <1>0, <1>9 DEF Replay, WorkShape
  <2>2. work[h].pc \in Critical /\ lock' = lock /\ mishaps' = mishaps
    BY <1>9 DEF Replay, Critical, chat, history
  <2> QED BY <2>1, <2>2, HolderMoves
<1>10. CASE Answer(h)
  <2>1. work[h].pc \in Critical /\ lock' = lock /\ mishaps' = mishaps /\ \E n : ToAck(h, "ack", n)
    BY <1>10 DEF Answer, Critical, chat
  <2> QED BY <1>0, <2>1, ToAckShape, HolderMoves
<1>11. CASE HandleProcessingError(h)
  <2>1. /\ work[h].pc \in Critical /\ lock' = lock /\ mishaps \subseteq mishaps'
        /\ \E n : ToAck(h, "ack", n)
    BY <1>11 DEF HandleProcessingError, Critical, chat, Mishap
  <2> QED BY <1>0, <2>1, ToAckShape, HolderMoves
<1>12. CASE AckPendingMessages(h)
  <2>1. work[h].pc \in Critical /\ lock' = lock /\ mishaps \subseteq mishaps'
    BY <1>12 DEF AckPendingMessages, Critical, Mishap
  <2>2. (\E n : ToAck(h, "follow", n)) \/ work' = [work EXCEPT ![h].round = @ + 1]
    BY <1>12 DEF AckPendingMessages
  <2>3. WorkShape' /\ \A g \in Handlers : g # h => work'[g] = work[g]
    <3>1. CASE \E n : ToAck(h, "follow", n)
      BY <1>0, <3>1, ToAckShape
    <3>2. CASE work' = [work EXCEPT ![h].round = @ + 1]
      BY <1>0, <3>2 DEF WorkShape
    <3> QED BY <2>2, <3>1, <3>2
  <2> QED BY <2>1, <2>3, HolderMoves
<1>13. CASE OpenTurn(h)
  <2>1. work[h].pc \in Critical /\ lock' = lock /\ mishaps' = mishaps
    BY <1>13 DEF OpenTurn, Critical, history
  <2>2. Goto(h, "durable") \/ \E n : ToAck(h, "follow", n)
    BY <1>13 DEF OpenTurn
  <2> QED BY <1>0, <2>1, <2>2, GotoShape, ToAckShape, HolderMoves
<1>14. CASE DurableTurn(h)
  <2>1. work[h].pc \in Critical /\ lock' = lock /\ mishaps' = mishaps /\ \E n : ToAck(h, "follow", n)
    BY <1>14 DEF DurableTurn, Critical
  <2> QED BY <1>0, <2>1, ToAckShape, HolderMoves
<1>15. CASE CheckAndProcessNewMessages(h)
  BY <1>15, EndsKeeps, EndsLock DEF CheckAndProcessNewMessages
<1> QED BY <1>1, <1>2, <1>3, <1>4, <1>5, <1>6, <1>7, <1>8, <1>9, <1>10, <1>11, <1>12, <1>13,
           <1>14, <1>15 DEF Handle

LEMMA LockStep == LockInv /\ [Next]_vars => LockInv'
<1> SUFFICES ASSUME LockInv, [Next]_vars PROVE LockInv'
  OBVIOUS
<1>1. CASE UNCHANGED <<work, lock, mishaps>>
  BY <1>1 DEF LockInv, WorkShape, OneAtATime
<1>2. ASSUME NEW h \in Handlers, Handle(h) PROVE LockInv'
  BY <1>2, HandleLock
<1>3. ASSUME NEW h \in Handlers, NEW j \in JobIds, StartJob(h, j) PROVE LockInv'
  <2>1. work' = [work EXCEPT ![h] = [Idle EXCEPT !.pc = "lock", !.job = j]]
    BY <1>3 DEF StartJob
  <2>2. WorkShape' /\ work'[h].pc = "lock" /\ \A g \in Handlers : g # h => work'[g] = work[g]
    BY <2>1 DEF LockInv, WorkShape, Idle
  <2>3. lock' = lock /\ mishaps' = mishaps
    BY <1>3 DEF StartJob, chat, history
  <2> QED BY <2>2, <2>3, HolderMoves DEF Critical
\* The scan takes a lock that is nobody's and gives back its own; an orphan's lapses.
<1>4. CASE RecoveryLocks \/ RecoveryResolves \/ OrphanExpires
  <2>1. work' = work /\ mishaps' = mishaps /\ lock \in {Free, Scan, Orphan}
    BY <1>4 DEF RecoveryLocks, RecoveryResolves, OrphanExpires, history
  <2> QED BY <2>1, NoHandler DEF LockInv, WorkShape, OneAtATime
<1>5. CASE LeaseLapses
  BY <1>5 DEF LeaseLapses, Mishap, LockInv, WorkShape, OneAtATime
<1>6. CASE ListExpires
  BY <1>6 DEF ListExpires, Mishap, LockInv, WorkShape, OneAtATime
<1>7. CASE Crash
  BY <1>7 DEF Crash, LockInv, WorkShape, OneAtATime, Critical, Idle
<1>8. CASE (\E m \in Messages : Push(m) \/ Enqueue(m)) \/ WindowElapses \/ Tick
  <2>1. UNCHANGED <<work, lock, mishaps>>
    BY <1>8 DEF Push, Enqueue, WindowElapses, Tick, chat, history
  <2> QED BY <1>1, <2>1
<1>9. CASE UNCHANGED vars
  BY <1>1, <1>9 DEF vars, mergeVars, chat, history
<1> QED BY <1>2, <1>3, <1>4, <1>5, <1>6, <1>7, <1>8, <1>9 DEF Next, Recover

\* One handler at a time works on the chat, for any number of handlers, jobs and messages,
\* unless a live holder lost its lease (SimpleMergeService.acquireProcessingLock and
\* releaseProcessingLock, which compares the owner).
THEOREM OneAtATimeHolds == Spec => []OneAtATime
<1>1. LockInv => OneAtATime
  BY DEF LockInv
<1> QED BY <1>1, LockInit, LockStep, PTL DEF Spec

-----------------------------------------------------------------------------
(* The slots of the process. *)

\* A step that is no step of the slots.
OtherSlots == UNCHANGED slotVars

LEMMA EndsSlots ==
  ASSUME NEW h \in Handlers, NEW q, NEW ms, Ends(h, q) \/ Throws(h, ms)
  PROVE  SlotNext
  BY DEF Ends, Throws, EndJob, SlotNext

LEMMA HandleSlots == ASSUME NEW h \in Handlers, Handle(h) PROVE SlotNext \/ OtherSlots
<1>1. ASSUME (\E q : Ends(h, q)) \/ (\E ms : Throws(h, ms)) PROVE SlotNext
  BY <1>1, EndsSlots
<1>2. CASE ScheduleLockRetryCheck(h) \/ ReadFails(h) \/ ScheduleQuietWindowRetryCheck(h)
  <2>1. (\E q : Ends(h, q)) \/ (\E ms : Throws(h, ms))
    BY <1>2 DEF ScheduleLockRetryCheck, ReadFails, ScheduleQuietWindowRetryCheck
  <2> QED BY <1>1, <2>1
<1>3. CASE NothingPending(h) \/ AckDropped(h)
  <2>1. (\E q : Ends(h, q)) \/ (\E ms : Throws(h, ms)) \/ OtherSlots
    BY <1>3 DEF NothingPending, AckDropped, OtherSlots
  <2> QED BY <1>1, <2>1
<1>4. CASE CheckAndProcessNewMessages(h)
  <2>1. (\E q : Ends(h, q)) \/ (\E ms : Throws(h, ms)) \/ EndJob(h, jobs, FALSE, {"swallowed"})
    BY <1>4 DEF CheckAndProcessNewMessages
  <2>2. EndJob(h, jobs, FALSE, {"swallowed"}) => SlotNext
    BY DEF EndJob, SlotNext
  <2> QED BY <1>1, <2>1, <2>2
<1>5. CASE \/ AcquireProcessingLock(h) \/ ClaimPendingSnapshot(h) \/ DropIfHostingPaused(h)
           \/ Replay(h) \/ Answer(h) \/ HandleProcessingError(h) \/ AckPendingMessages(h)
           \/ OpenTurn(h) \/ DurableTurn(h)
  BY <1>5 DEF AcquireProcessingLock, ClaimPendingSnapshot, DropIfHostingPaused, Replay, Answer,
     HandleProcessingError, AckPendingMessages, OpenTurn, DurableTurn, OtherSlots
<1> QED BY <1>2, <1>3, <1>4, <1>5 DEF Handle

LEMMA SlotSteps == [Next]_vars => [SlotNext]_slotVars
<1> SUFFICES ASSUME [Next]_vars PROVE SlotNext \/ OtherSlots
  BY DEF OtherSlots
<1>1. ASSUME NEW h \in Handlers, Handle(h) PROVE SlotNext \/ OtherSlots
  BY <1>1, HandleSlots
<1>2. ASSUME NEW h \in Handlers, NEW j \in JobIds, StartJob(h, j) PROVE SlotNext
  BY <1>2 DEF StartJob, SlotNext
<1>3. CASE Crash
  BY <1>3 DEF Crash, SlotNext
<1>4. CASE (\E m \in Messages : Push(m) \/ Enqueue(m)) \/ Recover \/ WindowElapses \/ Tick
           \/ OrphanExpires \/ LeaseLapses \/ ListExpires
  BY <1>4 DEF Push, Enqueue, Recover, RecoveryLocks, RecoveryResolves, WindowElapses, Tick,
     OrphanExpires, LeaseLapses, ListExpires, OtherSlots
<1>5. CASE UNCHANGED vars
  BY <1>5 DEF vars, OtherSlots
<1> QED BY <1>1, <1>2, <1>3, <1>4, <1>5 DEF Next

LEMMA SlotsAtBoot == Init => SlotInv
<1> SUFFICES ASSUME Init PROVE SlotInv
  OBVIOUS
<1>1. SlotsFree /\ registered \in limit .. MaxConcurrency
  BY DEF Init
<1>2. limit \in 1 .. MaxConcurrency
  BY <1>1, NormalizedRange DEF SlotsFree
<1>3. registered \in 1 .. MaxConcurrency
  BY <1>1, <1>2, SlotAssumption DEF SlotAssumption
<1>4. Ranges
  BY <1>1, <1>2, <1>3 DEF SlotsFree, Ranges, Resizes
<1>5. Accounted
  BY <1>1, NobodyAgrees DEF SlotsFree, Accounted
<1>6. NoIdleSlot /\ Saved
  BY <1>1 DEF SlotsFree, NoIdleSlot, Saved, InFlight
<1> QED BY <1>4, <1>5, <1>6 DEF SlotInv

\* Whatever the handlers of a chat do, to the slots of the process they are the handlers of
\* WorkerSlots: they take a slot when they start and give it back whenever they end.
THEOREM MergeTakesSlots == Spec => [][SlotNext]_slotVars
  BY SlotSteps, PTL DEF Spec

\* So none is lost or counted twice, and nobody waits while one is free.
THEOREM SlotsWhileMerging == Spec => [](SlotsAccounted /\ NoIdleSlot)
<1>1. SlotInv => SlotsAccounted /\ NoIdleSlot
  BY AccountedMeans DEF SlotInv
<1> QED BY <1>1, SlotsAtBoot, SlotStep, SlotSteps, PTL DEF Spec

-----------------------------------------------------------------------------
(* Nobody in the list is forgotten. *)

JobRecord == [st: {"none", "delayed", "active"}, attempts: Nat, stalls: 0 .. MaxStalls]
Live(q) == {k \in Checks : q[Check(k)].st # "none"}
Busy(h) == work[h].pc # "idle"
Ended == mishaps \cap {"swallowed", "abandoned"} # {}

\* The handler will read the list with m in it, or add a job, or hand its own back: a turn that
\* may still be dropped does so only for its own batch.
Looks(h, m) ==
  \/ work[h].pc \in {"lock", "busy", "window", "recheck", "durable", "ack", "follow"}
  \/ work[h].pc = "turn" /\ (m \in work[h].batch \/ work[h].round # 0)

JobTypes ==
  /\ WorkShape /\ jobs \in [JobIds -> JobRecord] /\ bucket \in 0 .. Buckets - 1
  /\ stage \in [Messages -> {"new", "pushed", "queued", "reported", "cut"}]
  /\ pending \subseteq Messages /\ answers \in [Messages -> Nat]
  /\ IsFiniteSet(Live(jobs))

\* Every call has a job of its own, which is active; the retry job named after the current
\* bucket is not; a message's own job does not exist before it is added.
JobsOwned ==
  /\ \A h \in Handlers : Busy(h) => work[h].job \in JobIds /\ jobs[work[h].job].st = "active"
  /\ \A g, h \in Handlers : Busy(g) /\ Busy(h) /\ work[g].job = work[h].job => g = h
  /\ jobs[LockRetry(bucket)].st # "active"
  /\ \A m \in Messages : stage[m] \in {"new", "pushed"} => jobs[Own(m)].st = "none"

Attended ==
  ~Ended =>
    \A m \in pending : ~Covered(m) /\ stage[m] = "queued" =>
      (\E j \in JobIds : jobs[j].st = "delayed") \/ \E h \in Handlers : Looks(h, m)

JobInv == JobTypes /\ JobsOwned /\ Attended

LEMMA Ids ==
  /\ \A m \in Messages : Own(m) \in JobIds
  /\ \A b \in 0 .. Buckets - 1 : LockRetry(b) \in JobIds
  /\ \A k \in Checks : Check(k) \in JobIds
  /\ \A m, n : Own(m) = Own(n) => m = n
  /\ \A j, k : Check(j) = Check(k) => j = k
  /\ \A m, b, k : Own(m) # LockRetry(b) /\ Own(m) # Check(k) /\ LockRetry(b) # Check(k)
  BY DEF JobIds, Own, LockRetry, Check

LEMMA JobInit == Init => JobInv
<1> SUFFICES ASSUME Init PROVE JobInv
  OBVIOUS
<1>1. jobs \in [JobIds -> JobRecord] /\ \A j \in JobIds : jobs[j].st = "none"
  BY MergeAssumption DEF Init, JobRecord, NoJob, MergeAssumption
<1>2. Live(jobs) = {}
  BY <1>1, Ids DEF Live
<1>3. WorkShape /\ \A h \in Handlers : ~Busy(h)
  BY DEF Init, WorkShape, Idle, Busy
<1>4. bucket = 0 /\ bucket \in 0 .. Buckets - 1
  BY MergeAssumption DEF Init, MergeAssumption
<1>5. JobTypes
  BY <1>1, <1>2, <1>3, <1>4, FS_EmptySet DEF Init, JobTypes
<1>6. JobsOwned
  BY <1>1, <1>3, <1>4, Ids DEF JobsOwned
<1>7. Attended
  BY DEF Init, Attended
<1> QED BY <1>5, <1>6, <1>7 DEF JobInv

\* A step of one call that does not end, and touches no job.
LEMMA CallMoves ==
  ASSUME JobInv, NEW h \in Handlers, Busy(h), WorkShape', work'[h].pc # "idle",
         work'[h].job = work[h].job, \A g \in Handlers : g # h => work'[g] = work[g],
         UNCHANGED <<jobs, bucket, stage>>, mishaps \subseteq mishaps',
         pending' \subseteq pending, answers' \in [Messages -> Nat],
         \A m \in pending' : Covered(m) => Covered(m)',
         \A m \in pending' : Looks(h, m) => Looks(h, m)' \/ Covered(m)'
  PROVE  JobInv'
<1>1. JobTypes'
  BY DEF JobInv, JobTypes, Live
<1>2. \A g \in Handlers : (Busy(g)' <=> Busy(g)) /\ work'[g].job = work[g].job
  BY DEF Busy
<1>3. JobsOwned'
  BY <1>2 DEF JobInv, JobsOwned
<1>4. \A g \in Handlers, m \in pending' : Looks(g, m) => Looks(g, m)' \/ Covered(m)'
  BY DEF Looks
<1>5. Attended'
  BY <1>4 DEF JobInv, Attended, Ended
<1> QED BY <1>1, <1>3, <1>5 DEF JobInv

\* A step that moves no call and no job.
LEMMA NoCallMoves ==
  ASSUME JobInv, UNCHANGED <<work, jobs, bucket, stage>>, mishaps \subseteq mishaps',
         pending' \subseteq pending, answers' \in [Messages -> Nat],
         \A m \in pending' : Covered(m) => Covered(m)'
  PROVE  JobInv'
<1>1. JobTypes'
  BY DEF JobInv, JobTypes, Live, WorkShape
<1>2. JobsOwned'
  BY DEF JobInv, JobsOwned, Busy
<1>3. Attended'
  BY DEF JobInv, Attended, Ended, Looks
<1> QED BY <1>1, <1>2, <1>3 DEF JobInv

\* What adding a job does to the queue.
LEMMA AddedJobs ==
  ASSUME JobInv, NEW j \in JobIds
  PROVE  /\ Added(j) \in [JobIds -> JobRecord] /\ IsFiniteSet(Live(Added(j)))
         /\ \A i \in JobIds : i # j => Added(j)[i] = jobs[i]
         /\ Added(j)[j].st = IF jobs[j].st = "none" THEN "delayed" ELSE jobs[j].st
<1>1. jobs \in [JobIds -> JobRecord] /\ IsFiniteSet(Live(jobs))
  BY DEF JobInv, JobTypes
<1>2. NewJob \in JobRecord /\ NewJob.st = "delayed"
  BY MergeAssumption DEF NewJob, NoJob, JobRecord, MergeAssumption
<1>3. CASE jobs[j].st # "none"
  BY <1>1, <1>3 DEF Added
<1>4. CASE jobs[j].st = "none"
  <2>1. Added(j) = [jobs EXCEPT ![j] = NewJob]
    BY <1>4 DEF Added
  <2>2. /\ Added(j) \in [JobIds -> JobRecord] /\ Added(j)[j] = NewJob
        /\ \A i \in JobIds : i # j => Added(j)[i] = jobs[i]
    BY <1>1, <1>2, <2>1
  <2>3. \E k : Live(Added(j)) \subseteq Live(jobs) \cup {k}
    <3>1. CASE \E k \in Checks : j = Check(k)
      <4>1. PICK k \in Checks : j = Check(k)
        BY <3>1
      <4>2. Live(Added(j)) \subseteq Live(jobs) \cup {k}
        BY <2>2, <4>1, Ids DEF Live
      <4> QED BY <4>2
    <3>2. CASE \A k \in Checks : j # Check(k)
      BY <2>2, <3>2, Ids DEF Live
    <3> QED BY <3>1, <3>2
  <2>4. IsFiniteSet(Live(Added(j)))
    BY <1>1, <2>3, FS_AddElement, FS_Subset
  <2> QED BY <1>2, <1>4, <2>2, <2>4
<1> QED BY <1>3, <1>4

\* The jobs a call may leave behind: q is the queue with a job added that the call does not own.
Leaves(q) ==
  /\ q \in [JobIds -> JobRecord] /\ IsFiniteSet(Live(q))
  /\ \A j \in JobIds : q[j] = jobs[j] \/ (jobs[j].st = "none" /\ q[j].st = "delayed")
  /\ \A m \in Messages : q[Own(m)] = jobs[Own(m)]

LEMMA RetriedJob ==
  /\ NoJob \in JobRecord /\ NoJob.st = "none"
  /\ \A r \in JobRecord : LET again == [r EXCEPT !.st = "delayed", !.attempts = @ + 1]
                          IN  again \in JobRecord /\ again.st = "delayed"
<1>1. NoJob \in JobRecord /\ NoJob.st = "none"
  BY MergeAssumption DEF JobRecord, NoJob, MergeAssumption
<1>2. ASSUME NEW r \in JobRecord
      PROVE  LET again == [r EXCEPT !.st = "delayed", !.attempts = @ + 1]
             IN  again \in JobRecord /\ again.st = "delayed"
  <2>1. r.attempts + 1 \in Nat
    BY DEF JobRecord
  <2> QED BY <2>1 DEF JobRecord
<1> QED BY <1>1, <1>2

LEMMA CallEnds ==
  ASSUME JobInv, NEW h \in Handlers, Busy(h), NEW q, Leaves(q), NEW failed \in BOOLEAN, NEW ms,
         EndJob(h, q, failed, ms), UNCHANGED <<bucket, stage, answers, dropped>>,
         pending' \subseteq pending,
         \/ failed \/ pending' = {} \/ "swallowed" \in ms \/ work[h].pc = "dropack"
         \/ \E j \in JobIds : q[j].st = "delayed"
  PROVE  JobInv'
<1> DEFINE j == work[h].job
           last == q[j].attempts + 1 >= MaxAttempts
           again == [q[j] EXCEPT !.st = "delayed", !.attempts = @ + 1]
<1>1. j \in JobIds /\ jobs[j].st = "active" /\ q[j] = jobs[j] /\ q[j] \in JobRecord
  BY DEF JobInv, JobsOwned, Leaves, JobTypes, JobRecord
<1>2. again \in JobRecord /\ again.st = "delayed" /\ NoJob \in JobRecord /\ NoJob.st = "none"
  BY <1>1, RetriedJob
<1>3. /\ jobs' = [q EXCEPT ![j] = IF ~failed \/ last THEN NoJob ELSE again]
      /\ mishaps' = mishaps \cup ms \cup (IF failed /\ last THEN {"abandoned"} ELSE {})
      /\ work' = [work EXCEPT ![h] = Idle]
  BY DEF EndJob
<1> HIDE DEF again, last
<1>4. /\ WorkShape' /\ work'[h].pc = "idle" /\ \A g \in Handlers : g # h => work'[g] = work[g]
  BY <1>3, IdleShape DEF JobInv, JobTypes
<1>5. /\ jobs' \in [JobIds -> JobRecord] /\ (jobs'[j].st = "none" \/ jobs'[j].st = "delayed")
      /\ (failed /\ ~last => jobs'[j].st = "delayed")
      /\ \A i \in JobIds : i # j => jobs'[i] = q[i]
  BY <1>1, <1>2, <1>3 DEF Leaves
<1>6. IsFiniteSet(Live(jobs'))
  <2>1. Live(jobs') \subseteq Live(q)
    BY <1>1, <1>5, Ids DEF Live
  <2> QED BY <2>1, FS_Subset DEF Leaves
<1>7. JobTypes'
  BY <1>4, <1>5, <1>6 DEF JobInv, JobTypes
<1>8. \A i \in JobIds : jobs'[i].st = "active" => jobs[i].st = "active"
  BY <1>1, <1>5 DEF Leaves
<1>9. ASSUME NEW g \in Handlers, Busy(g)'
      PROVE  Busy(g) /\ g # h /\ work'[g] = work[g] /\ work[g].job \in JobIds /\ jobs'[work[g].job].st = "active"
  <2>1. g # h /\ work'[g] = work[g] /\ Busy(g)
    BY <1>4, <1>9 DEF Busy
  <2>2. work[g].job # j /\ work[g].job \in JobIds /\ jobs[work[g].job].st = "active"
    BY <2>1 DEF JobInv, JobsOwned
  <2>3. q[work[g].job] = jobs[work[g].job]
    BY <2>2 DEF Leaves
  <2> QED BY <1>5, <2>1, <2>2, <2>3
<1>10. \A m \in Messages : stage'[m] \in {"new", "pushed"} => jobs'[Own(m)].st = "none"
  BY <1>1, <1>5, Ids DEF JobInv, JobsOwned, Leaves
<1>11. JobsOwned'
  <2>1. jobs'[LockRetry(bucket')].st # "active"
    BY <1>8, Ids DEF JobInv, JobsOwned, JobTypes
  <2>2. \A g \in Handlers : Busy(g)' => work'[g].job \in JobIds /\ jobs'[work'[g].job].st = "active"
    BY <1>9
  <2>3. \A g, k \in Handlers : Busy(g)' /\ Busy(k)' /\ work'[g].job = work'[k].job => g = k
    BY <1>9 DEF JobInv, JobsOwned
  <2> QED BY <1>10, <2>1, <2>2, <2>3 DEF JobsOwned
<1>12. Attended'
  <2> SUFFICES ASSUME ~Ended', NEW m \in pending', ~Covered(m)', stage'[m] = "queued"
               PROVE  (\E i \in JobIds : jobs'[i].st = "delayed") \/ \E g \in Handlers : Looks(g, m)'
    BY DEF Attended
  <2>1. ~Ended /\ ~(failed /\ last) /\ "swallowed" \notin ms /\ ~Covered(m) /\ stage[m] = "queued"
    BY <1>3 DEF Ended, Covered
  <2>2. CASE failed
    BY <1>1, <1>5, <2>1, <2>2
  <2>3. CASE \E i \in JobIds : q[i].st = "delayed"
    BY <1>1, <1>5, <2>3
  <2>4. CASE work[h].pc = "dropack"
    <3>1. CASE \E i \in JobIds : jobs[i].st = "delayed"
      <4>1. PICK i \in JobIds : jobs[i].st = "delayed"
        BY <3>1
      <4>2. q[i] = jobs[i] /\ i # j
        BY <1>1, <4>1 DEF Leaves
      <4> QED BY <1>5, <4>1, <4>2
    <3>2. CASE \E g \in Handlers : Looks(g, m)
      <4>1. PICK g \in Handlers : Looks(g, m)
        BY <3>2
      <4>2. g # h
        BY <2>4, <4>1 DEF Looks
      <4> QED BY <1>4, <4>1, <4>2 DEF Looks
    <3> QED BY <2>1, <3>1, <3>2 DEF JobInv, Attended
  <2> QED BY <2>1, <2>2, <2>3, <2>4
<1> QED BY <1>7, <1>11, <1>12 DEF JobInv

\* There is always a fresh id for a recheck or a follow-up.
LEMMA FreshId ==
  ASSUME JobInv, ~IsFiniteSet(Checks)
  PROVE  FreshCheck \in JobIds /\ jobs[FreshCheck].st = "none" /\ \E k \in Checks : FreshCheck = Check(k)
<1>1. IsFiniteSet(Live(jobs)) /\ Live(jobs) \subseteq Checks
  BY DEF JobInv, JobTypes, Live
<1>2. PICK k \in Checks : jobs[Check(k)].st = "none"
  <2>1. Live(jobs) # Checks
    BY <1>1
  <2> QED BY <1>1, <2>1 DEF Live
<1> DEFINE f == CHOOSE i \in Checks : jobs[Check(i)].st = "none"
<1>3. f \in Checks /\ jobs[Check(f)].st = "none"
  BY <1>2
<1>4. FreshCheck = Check(f)
  BY DEF FreshCheck
<1> QED BY <1>3, <1>4, Ids

LEMMA LeavesSame == JobInv => Leaves(jobs)
  BY DEF JobInv, JobTypes, Leaves

LEMMA LeavesAdded ==
  ASSUME JobInv, NEW j \in JobIds, \A m \in Messages : j # Own(m)
  PROVE  Leaves(Added(j))
<1>1. \A i \in JobIds : Added(j)[i] = jobs[i] \/ (jobs[i].st = "none" /\ Added(j)[i].st = "delayed")
  <2>1. CASE jobs[j].st = "none"
    BY <2>1, AddedJobs
  <2>2. CASE jobs[j].st # "none"
    BY <2>2 DEF Added
  <2> QED BY <2>1, <2>2
<1> QED BY <1>1, AddedJobs, Ids DEF Leaves

LEMMA LeavesLook ==
  ASSUME JobInv, ~IsFiniteSet(Checks)
  PROVE  /\ Leaves(LookAgain)
         /\ pending = {} \/ \E j \in JobIds : LookAgain[j].st = "delayed"
<1>1. CASE pending = {}
  BY <1>1, LeavesSame DEF LookAgain
<1>2. CASE pending # {}
  <2>1. LookAgain = Added(FreshCheck)
    BY <1>2 DEF LookAgain
  <2>2. /\ FreshCheck \in JobIds /\ jobs[FreshCheck].st = "none"
        /\ \A m \in Messages : FreshCheck # Own(m)
    BY FreshId, Ids
  <2> QED BY <2>1, <2>2, LeavesAdded, AddedJobs
<1> QED BY <1>1, <1>2

LEMMA LeavesRetry ==
  ASSUME JobInv
  PROVE  LET q == IF pending = {} THEN jobs ELSE Added(LockRetry(bucket))
         IN  Leaves(q) /\ (pending = {} \/ \E j \in JobIds : q[j].st = "delayed")
<1>1. CASE pending = {}
  BY <1>1, LeavesSame
<1>2. CASE pending # {}
  <2>1. LockRetry(bucket) \in JobIds /\ jobs[LockRetry(bucket)].st \in {"none", "delayed"}
    BY Ids DEF JobInv, JobTypes, JobsOwned, JobRecord
  <2>2. \A m \in Messages : LockRetry(bucket) # Own(m)
    BY Ids
  <2> QED BY <1>2, <2>1, <2>2, LeavesAdded, AddedJobs
<1> QED BY <1>1, <1>2

\* How a call may end, with its lock and slot.
LEMMA EndsCall ==
  ASSUME JobInv, NEW h \in Handlers, Busy(h), NEW q, Leaves(q), Ends(h, q),
         UNCHANGED <<bucket, stage, answers, dropped>>, pending' \subseteq pending,
         \/ pending' = {} \/ work[h].pc = "dropack"
         \/ \E j \in JobIds : q[j].st = "delayed"
  PROVE  JobInv'
  BY CallEnds DEF Ends

LEMMA ThrowsCall ==
  ASSUME JobInv, NEW h \in Handlers, Busy(h), NEW ms, Throws(h, ms),
         UNCHANGED <<bucket, stage, answers, dropped>>, pending' \subseteq pending
  PROVE  JobInv'
  BY CallEnds, LeavesSame DEF Throws

LEMMA ToAckJob ==
  ASSUME WorkShape, NEW h \in Handlers, NEW p, NEW n, ToAck(h, p, n)
  PROVE  work'[h].job = work[h].job
  BY DEF WorkShape, ToAck, Idle

LEMMA AnsweredMore ==
  ASSUME answers \in [Messages -> Nat], NEW S, Answered(S), dropped' = dropped
  PROVE  /\ answers' \in [Messages -> Nat]
         /\ \A m \in Messages : Covered(m) => Covered(m)'
<1>1. \A m \in Messages : answers'[m] \in Nat /\ (answers[m] > 0 => answers'[m] > 0)
  BY DEF Answered
<1>2. answers' \in [Messages -> Nat]
  BY <1>1 DEF Answered
<1> QED BY <1>1, <1>2 DEF Covered

LEMMA HandleJobs ==
  ASSUME JobInv, ~IsFiniteSet(Checks), NEW h \in Handlers, Handle(h)
  PROVE  JobInv'
<1> USE DEF At
<1>0. WorkShape /\ answers \in [Messages -> Nat] /\ pending \subseteq Messages
  BY DEF JobInv, JobTypes
<1>a. \A n : From(n) \subseteq pending
  BY DEF From
<1>1. CASE AcquireProcessingLock(h)
  <2>1. /\ work[h].pc = "lock" /\ UNCHANGED <<jobs, bucket, stage, pending, answers, dropped, mishaps>>
        /\ \E p \in {"window", "busy"} : Goto(h, p)
    BY <1>1 DEF AcquireProcessingLock, queue, history
  <2>2. PICK p \in {"window", "busy"} : Goto(h, p)
    BY <2>1
  <2>3. /\ WorkShape' /\ work'[h].pc = p /\ \A g \in Handlers : g # h => work'[g] = work[g]
    BY <1>0, <2>2, GotoShape
  <2>4. work'[h].job = work[h].job
    BY <1>0, <2>2 DEF Goto, WorkShape
  <2> QED BY <1>0, <2>1, <2>3, <2>4, CallMoves DEF Busy, Looks, Covered
<1>2. CASE ScheduleLockRetryCheck(h)
  <2> DEFINE q == IF pending = {} THEN jobs ELSE Added(LockRetry(bucket))
  <2>1. Leaves(q) /\ (pending = {} \/ \E j \in JobIds : q[j].st = "delayed")
    BY LeavesRetry
  <2>2. /\ UNCHANGED <<bucket, stage, answers, dropped, pending>> /\ Busy(h)
        /\ Ends(h, q) \/ Throws(h, {})
    BY <1>2 DEF ScheduleLockRetryCheck, Busy
  <2> HIDE DEF q
  <2> QED BY <2>1, <2>2, EndsCall, ThrowsCall
<1>3. CASE ClaimPendingSnapshot(h)
  <2>1. /\ work[h].pc = "window" /\ UNCHANGED <<jobs, bucket, stage, pending, answers, dropped, mishaps>>
        /\ work' = [work EXCEPT ![h].pc = "turn", ![h].first = pending, ![h].batch = pending,
                                ![h].taken = Cardinality(pending)]
    BY <1>3 DEF ClaimPendingSnapshot, queue, chat, history
  <2>2. /\ WorkShape' /\ \A g \in Handlers : g # h => work'[g] = work[g]
        /\ work'[h].pc = "turn" /\ work'[h].job = work[h].job /\ work'[h].batch = pending
    BY <1>0, <2>1 DEF WorkShape
  <2> QED BY <1>0, <2>1, <2>2, CallMoves DEF Busy, Looks, Covered
<1>4. CASE NothingPending(h)
  <2>1. CASE quiet
    <3>1. /\ Ends(h, jobs) /\ UNCHANGED <<bucket, stage, answers, dropped, pending>> /\ Busy(h)
          /\ pending = {}
      BY <1>4, <2>1 DEF NothingPending, Busy
    <3> QED BY <3>1, EndsCall, LeavesSame
  <2>2. CASE ~quiet
    <3>1. /\ Goto(h, "recheck") /\ work[h].pc = "window"
          /\ UNCHANGED <<jobs, bucket, stage, pending, answers, dropped, mishaps>>
      BY <1>4, <2>2 DEF NothingPending, chat
    <3>2. /\ WorkShape' /\ work'[h].pc = "recheck" /\ \A g \in Handlers : g # h => work'[g] = work[g]
      BY <1>0, <3>1, GotoShape
    <3>3. work'[h].job = work[h].job
      BY <1>0, <3>1 DEF Goto, WorkShape
    <3> QED BY <1>0, <3>1, <3>2, <3>3, CallMoves DEF Busy, Looks, Covered
  <2> QED BY <2>1, <2>2
<1>5. CASE ReadFails(h)
  <2>1. /\ UNCHANGED <<bucket, stage, answers, dropped, pending>> /\ Busy(h) /\ Throws(h, {})
    BY <1>5 DEF ReadFails, Busy
  <2> QED BY <2>1, ThrowsCall
<1>6. CASE ScheduleQuietWindowRetryCheck(h)
  <2>1. /\ UNCHANGED <<bucket, stage, answers, dropped, pending>> /\ Busy(h)
        /\ Ends(h, LookAgain) \/ Throws(h, {})
    BY <1>6 DEF ScheduleQuietWindowRetryCheck, Busy
  <2> QED BY <2>1, LeavesLook, EndsCall, ThrowsCall
<1>7. CASE DropIfHostingPaused(h)
  <2>1. /\ work[h].pc = "turn" /\ work[h].round = 0
        /\ UNCHANGED <<jobs, bucket, stage, pending, answers, mishaps>>
        /\ dropped' = dropped \cup work[h].batch /\ ToAck(h, "dropack", work[h].taken)
    BY <1>7 DEF DropIfHostingPaused, queue, chat
  <2>2. /\ WorkShape' /\ work'[h].pc = "dropack" /\ \A g \in Handlers : g # h => work'[g] = work[g]
    BY <1>0, <2>1, ToAckShape
  <2>3. work'[h].job = work[h].job
    BY <1>0, <2>1, ToAckJob
  <2>4. \A m \in pending' : Looks(h, m) => Covered(m)'
    BY <2>1 DEF Looks, Covered
  <2> QED BY <1>0, <2>1, <2>2, <2>3, <2>4, CallMoves DEF Busy, Covered
<1>8. CASE AckDropped(h)
  <2>1. /\ UNCHANGED <<bucket, stage, answers, dropped>> /\ Busy(h) /\ work[h].pc = "dropack"
        /\ pending' \subseteq pending
    BY <1>8, <1>a DEF AckDropped, Tried, Busy
  <2>2. CASE Ends(h, jobs)
    BY <2>1, <2>2, EndsCall, LeavesSame
  <2>3. CASE Throws(h, {"unacked"})
    BY <2>1, <2>3, ThrowsCall
  <2>4. CASE work' = [work EXCEPT ![h].round = @ + 1] /\ mishaps' = mishaps \cup Echo /\ jobs' = jobs
    <3>1. /\ WorkShape' /\ work'[h].pc = "dropack" /\ \A g \in Handlers : g # h => work'[g] = work[g]
          /\ work'[h].job = work[h].job
      BY <1>0, <2>1, <2>4 DEF WorkShape
    <3> QED BY <1>0, <2>1, <2>4, <3>1, CallMoves DEF Busy, Looks, Covered
  <2> QED BY <1>8, <2>2, <2>3, <2>4 DEF AckDropped
<1>9. CASE Replay(h)
  <2>1. /\ work[h].pc = "turn" /\ UNCHANGED <<jobs, bucket, stage, pending, answers, dropped, mishaps>>
        /\ work' = [work EXCEPT ![h].batch = @ \cup New(h), ![h].taken = Cardinality(pending),
                                ![h].round = @ + 1]
    BY <1>9 DEF Replay, queue, chat, history
  <2>2. /\ WorkShape' /\ \A g \in Handlers : g # h => work'[g] = work[g]
        /\ work'[h].pc = "turn" /\ work'[h].job = work[h].job
        /\ work'[h].batch = work[h].batch \cup New(h) /\ work'[h].round = work[h].round + 1
    BY <1>0, <2>1 DEF WorkShape
  <2>3. work[h].round \in Nat
    BY <1>0 DEF WorkShape
  <2>4. work'[h].round # 0
    BY <2>2, <2>3
  <2> QED BY <1>0, <2>1, <2>2, <2>4, CallMoves DEF Busy, Looks, Covered
<1>10. CASE Answer(h) \/ HandleProcessingError(h)
  <2>1. /\ work[h].pc = "turn" /\ UNCHANGED <<jobs, bucket, stage, pending, dropped>>
        /\ mishaps \subseteq mishaps' /\ (\E S : Answered(S)) /\ \E n : ToAck(h, "ack", n)
    BY <1>10 DEF Answer, HandleProcessingError, queue, chat, Mishap
  <2>2. /\ WorkShape' /\ work'[h].pc = "ack" /\ \A g \in Handlers : g # h => work'[g] = work[g]
        /\ work'[h].job = work[h].job
    BY <1>0, <2>1, ToAckShape, ToAckJob
  <2>3. answers' \in [Messages -> Nat] /\ \A m \in Messages : Covered(m) => Covered(m)'
    BY <1>0, <2>1, AnsweredMore
  <2> QED BY <1>0, <2>1, <2>2, <2>3, CallMoves DEF Busy, Looks
<1>11. CASE AckPendingMessages(h)
  <2>1. /\ work[h].pc = "ack" /\ UNCHANGED <<jobs, bucket, stage, answers, dropped>>
        /\ mishaps \subseteq mishaps' /\ pending' \subseteq pending
        /\ (\E n : ToAck(h, "follow", n)) \/ work' = [work EXCEPT ![h].round = @ + 1]
    BY <1>11, <1>a DEF AckPendingMessages, Tried, queue, Mishap
  <2>2. CASE \E n : ToAck(h, "follow", n)
    <3>1. /\ WorkShape' /\ work'[h].pc = "follow" /\ \A g \in Handlers : g # h => work'[g] = work[g]
          /\ work'[h].job = work[h].job
      BY <1>0, <2>2, ToAckShape, ToAckJob
    <3> QED BY <1>0, <2>1, <3>1, CallMoves DEF Busy, Looks, Covered
  <2>3. CASE work' = [work EXCEPT ![h].round = @ + 1]
    <3>1. /\ WorkShape' /\ work'[h].pc = "ack" /\ \A g \in Handlers : g # h => work'[g] = work[g]
          /\ work'[h].job = work[h].job
      BY <1>0, <2>1, <2>3 DEF WorkShape
    <3> QED BY <1>0, <2>1, <3>1, CallMoves DEF Busy, Looks, Covered
  <2> QED BY <2>1, <2>2, <2>3
<1>12. CASE OpenTurn(h)
  <2>1. /\ work[h].pc = "turn" /\ UNCHANGED <<jobs, bucket, stage, pending, answers, dropped, mishaps>>
        /\ Goto(h, "durable") \/ \E n : ToAck(h, "follow", n)
    BY <1>12 DEF OpenTurn, queue, history
  <2>2. /\ WorkShape' /\ work'[h].pc \in {"durable", "follow"}
        /\ \A g \in Handlers : g # h => work'[g] = work[g]
    BY <1>0, <2>1, GotoShape, ToAckShape
  <2>3. work'[h].job = work[h].job
    <3>1. CASE Goto(h, "durable")
      BY <1>0, <3>1 DEF Goto, WorkShape
    <3>2. CASE \E n : ToAck(h, "follow", n)
      BY <1>0, <3>2, ToAckJob
    <3> QED BY <2>1, <3>1, <3>2
  <2> QED BY <1>0, <2>1, <2>2, <2>3, CallMoves DEF Busy, Looks, Covered
<1>13. CASE DurableTurn(h)
  <2>1. /\ work[h].pc = "durable" /\ UNCHANGED <<jobs, bucket, stage, dropped, mishaps>>
        /\ pending' \subseteq pending /\ ToAck(h, "follow", 0)
        /\ (\E S : Answered(S)) \/ answers' = answers
    BY <1>13 DEF DurableTurn, queue
  <2>2. /\ WorkShape' /\ work'[h].pc = "follow" /\ \A g \in Handlers : g # h => work'[g] = work[g]
        /\ work'[h].job = work[h].job
    BY <1>0, <2>1, ToAckShape, ToAckJob
  <2>3. answers' \in [Messages -> Nat] /\ \A m \in Messages : Covered(m) => Covered(m)'
    <3>1. CASE \E S : Answered(S)
      BY <1>0, <2>1, <3>1, AnsweredMore
    <3>2. CASE answers' = answers
      BY <1>0, <2>1, <3>2 DEF Covered
    <3> QED BY <2>1, <3>1, <3>2
  <2> QED BY <1>0, <2>1, <2>2, <2>3, CallMoves DEF Busy, Looks
<1>14. CASE CheckAndProcessNewMessages(h)
  <2>1. /\ UNCHANGED <<bucket, stage, answers, dropped, pending>> /\ Busy(h)
        /\ Ends(h, LookAgain) \/ Throws(h, {}) \/ EndJob(h, jobs, FALSE, {"swallowed"})
    BY <1>14 DEF CheckAndProcessNewMessages, Busy
  <2>2. EndJob(h, jobs, FALSE, {"swallowed"}) => JobInv'
    BY <2>1, CallEnds, LeavesSame
  <2> QED BY <2>1, <2>2, LeavesLook, EndsCall, ThrowsCall
<1> QED BY <1>1, <1>2, <1>3, <1>4, <1>5, <1>6, <1>7, <1>8, <1>9, <1>10, <1>11, <1>12, <1>13,
           <1>14 DEF Handle

LEMMA StartJobs ==
  ASSUME JobInv, NEW h \in Handlers, NEW j \in JobIds, StartJob(h, j)
  PROVE  JobInv'
<1> DEFINE v == [Idle EXCEPT !.pc = "lock", !.job = j]
<1>1. /\ work[h].pc = "idle" /\ jobs[j].st = "delayed" /\ j # LockRetry(bucket)
      /\ jobs' = [jobs EXCEPT ![j].st = "active"] /\ work' = [work EXCEPT ![h] = v]
      /\ UNCHANGED <<bucket, stage, pending, answers, dropped, mishaps>>
  BY DEF StartJob, MayStart, chat, history
<1>2. /\ DOMAIN v = {"pc", "job", "first", "batch", "taken", "round"}
      /\ v.pc = "lock" /\ v.job = j /\ v.round = 0
  BY DEF Idle
<1> HIDE DEF v
<1>3. /\ WorkShape' /\ work'[h] = v /\ \A g \in Handlers : g # h => work'[g] = work[g]
  BY <1>1, <1>2 DEF JobInv, JobTypes, WorkShape
<1>4. /\ jobs' \in [JobIds -> JobRecord] /\ jobs'[j].st = "active"
      /\ \A i \in JobIds : i # j => jobs'[i] = jobs[i]
  BY <1>1 DEF JobInv, JobTypes, JobRecord
<1>5. IsFiniteSet(Live(jobs'))
  <2>1. Live(jobs') \subseteq Live(jobs)
    BY <1>1, <1>4, Ids DEF Live
  <2> QED BY <2>1, FS_Subset DEF JobInv, JobTypes
<1>6. JobTypes'
  BY <1>1, <1>3, <1>4, <1>5 DEF JobInv, JobTypes
<1>7. \A g \in Handlers : Busy(g)' => g = h \/ (Busy(g) /\ work'[g] = work[g] /\ work[g].job # j)
  BY <1>1, <1>3 DEF Busy, JobInv, JobsOwned
<1>8. \A g \in Handlers : Busy(g)' => work'[g].job \in JobIds /\ jobs'[work'[g].job].st = "active"
  BY <1>2, <1>3, <1>4, <1>7 DEF JobInv, JobsOwned
<1>9. \A f, g \in Handlers : Busy(f)' /\ Busy(g)' /\ work'[f].job = work'[g].job => f = g
  BY <1>2, <1>3, <1>7 DEF JobInv, JobsOwned
<1>10. jobs'[LockRetry(bucket')].st # "active"
  BY <1>1, <1>4, Ids DEF JobInv, JobTypes, JobsOwned
<1>11. \A m \in Messages : stage'[m] \in {"new", "pushed"} => jobs'[Own(m)].st = "none"
  BY <1>1, <1>4, Ids DEF JobInv, JobsOwned
<1>12. JobsOwned'
  BY <1>8, <1>9, <1>10, <1>11 DEF JobsOwned
<1>13. Attended'
  BY <1>2, <1>3 DEF Attended, Looks
<1> QED BY <1>6, <1>12, <1>13 DEF JobInv

LEMMA IntakeJobs ==
  ASSUME JobInv, NEW m \in Messages, Push(m) \/ Enqueue(m)
  PROVE  JobInv'
<1>1. CASE Push(m)
  <2>1. /\ stage[m] = "new" /\ stage' = [stage EXCEPT ![m] = "pushed"]
        /\ pending' = pending \cup {m}
        /\ UNCHANGED <<jobs, bucket, work, answers, dropped, mishaps>>
    BY <1>1 DEF Push, queue, history
  <2>2. JobTypes'
    BY <2>1 DEF JobInv, JobTypes, WorkShape, Live
  <2>3. \A n \in Messages : (stage'[n] \in {"new", "pushed"} => stage[n] \in {"new", "pushed"})
                             /\ (stage'[n] = "queued" => stage[n] = "queued" /\ n # m)
    BY <2>1 DEF JobInv, JobTypes
  <2>4. JobsOwned'
    BY <2>1, <2>3 DEF JobInv, JobsOwned, Busy
  <2>5. Attended'
    BY <2>1, <2>3 DEF JobInv, JobTypes, Attended, Ended, Covered, Looks
  <2> QED BY <2>2, <2>4, <2>5 DEF JobInv
<1>2. CASE Enqueue(m)
  <2>1. /\ stage[m] = "pushed" /\ \/ jobs' = Added(Own(m)) /\ stage' = [stage EXCEPT ![m] = "queued"]
                                  \/ jobs' = jobs /\ stage' = [stage EXCEPT ![m] = "reported"]
        /\ UNCHANGED <<bucket, work, pending, answers, dropped, mishaps>>
    BY <1>2 DEF Enqueue, chat, history
  <2>2. jobs[Own(m)].st = "none" /\ Own(m) \in JobIds
    BY <2>1, Ids DEF JobInv, JobsOwned
  <2>3. /\ jobs' \in [JobIds -> JobRecord] /\ IsFiniteSet(Live(jobs'))
        /\ \A i \in JobIds : jobs'[i] = jobs[i] \/ (i = Own(m) /\ jobs'[i].st = "delayed")
    BY <2>1, <2>2, AddedJobs DEF JobInv, JobTypes
  <2>4. /\ \A n \in Messages : n # m => stage'[n] = stage[n]
        /\ stage' \in [Messages -> {"new", "pushed", "queued", "reported", "cut"}]
        /\ stage'[m] = "reported" \/ (stage'[m] = "queued" /\ jobs'[Own(m)].st = "delayed")
    BY <2>1, <2>2, AddedJobs DEF JobInv, JobTypes
  <2>5. JobTypes'
    BY <2>1, <2>3, <2>4 DEF JobInv, JobTypes, WorkShape
  <2>6. \A i \in JobIds : jobs'[i].st = "active" <=> jobs[i].st = "active"
    BY <2>2, <2>3
  <2>7. \A n \in Messages : stage'[n] \in {"new", "pushed"} => jobs'[Own(n)].st = "none"
    BY <2>3, <2>4, Ids DEF JobInv, JobsOwned
  <2>8. jobs'[LockRetry(bucket')].st # "active"
    BY <2>1, <2>6, Ids DEF JobInv, JobTypes, JobsOwned
  <2>9. JobsOwned'
    BY <2>1, <2>6, <2>7, <2>8 DEF JobInv, JobsOwned, Busy
  <2>10. Attended'
    <3>1. CASE stage'[m] = "queued"
      BY <2>2, <2>4, <3>1 DEF Attended
    <3>2. CASE stage'[m] = "reported"
      <4>1. \A n \in Messages : stage'[n] = "queued" => stage[n] = "queued"
        BY <2>4, <3>2
      <4>2. \A i \in JobIds : jobs[i].st = "delayed" => jobs'[i].st = "delayed"
        BY <2>3
      <4>3. \A n : Covered(n)' <=> Covered(n)
        BY <2>1 DEF Covered
      <4>4. \A g, n : Looks(g, n)' <=> Looks(g, n)
        BY <2>1 DEF Looks
      <4>5. (~Ended' => ~Ended) /\ pending' = pending /\ pending \subseteq Messages
        BY <2>1 DEF Ended, JobInv, JobTypes
      <4> QED BY <4>1, <4>2, <4>3, <4>4, <4>5 DEF JobInv, Attended
    <3> QED BY <2>4, <3>1, <3>2
  <2> QED BY <2>5, <2>9, <2>10 DEF JobInv
<1> QED BY <1>1, <1>2

LEMMA CrashJobs == JobInv /\ Crash => JobInv'
<1> SUFFICES ASSUME JobInv, Crash PROVE JobInv'
  OBVIOUS
<1> DEFINE Again(r) == [r EXCEPT !.st = "delayed", !.stalls = @ + 1]
           After(j) == IF jobs[j].st # "active" THEN jobs[j]
                       ELSE IF jobs[j].stalls < MaxStalls THEN Again(jobs[j]) ELSE NoJob
<1>1. /\ work' = [h \in Handlers |-> Idle] /\ jobs' = [j \in JobIds |-> After(j)]
      /\ stage' = [m \in Messages |-> IF stage[m] = "pushed" THEN "cut" ELSE stage[m]]
      /\ mishaps' = mishaps \cup {"crash"}
           \cup (IF \E j \in JobIds : jobs[j].st = "active" /\ jobs[j].stalls = MaxStalls
                 THEN {"abandoned"} ELSE {})
      /\ UNCHANGED <<bucket, pending, answers, dropped>>
  BY DEF Crash
<1>2. jobs \in [JobIds -> JobRecord]
  BY DEF JobInv, JobTypes
<1>3. \A r \in JobRecord : r.stalls < MaxStalls => Again(r) \in JobRecord /\ Again(r).st = "delayed"
  <2> TAKE r \in JobRecord
  <2>1. r.stalls < MaxStalls => r.stalls + 1 \in 0 .. MaxStalls
    BY MergeAssumption DEF JobRecord, MergeAssumption
  <2> QED BY <2>1 DEF JobRecord
<1> HIDE DEF Again
<1>4. \A j \in JobIds : /\ After(j) \in JobRecord /\ After(j).st # "active"
                        /\ jobs[j].st = "none" => After(j).st = "none"
                        /\ jobs[j].st = "delayed" => After(j).st = "delayed"
                        /\ jobs[j].st = "active" /\ jobs[j].stalls < MaxStalls => After(j).st = "delayed"
  <2> TAKE j \in JobIds
  <2>1. jobs[j] \in JobRecord
    BY <1>2
  <2> QED BY <1>3, <2>1, RetriedJob DEF JobRecord
<1> HIDE DEF After
<1>5. WorkShape' /\ \A h \in Handlers : ~Busy(h)'
  BY <1>1 DEF WorkShape, Idle, Busy
<1>6. jobs' \in [JobIds -> JobRecord] /\ \A j \in JobIds : jobs'[j] = After(j)
  BY <1>1, <1>4
<1>7. IsFiniteSet(Live(jobs'))
  <2>1. Live(jobs') \subseteq Live(jobs)
    BY <1>4, <1>6, Ids DEF Live
  <2> QED BY <2>1, FS_Subset DEF JobInv, JobTypes
<1>8. stage' \in [Messages -> {"new", "pushed", "queued", "reported", "cut"}]
  BY <1>1 DEF JobInv, JobTypes
<1>9. JobTypes'
  BY <1>1, <1>5, <1>6, <1>7, <1>8 DEF JobInv, JobTypes
<1>10. JobsOwned'
  BY <1>1, <1>4, <1>5, <1>6, Ids DEF JobInv, JobTypes, JobsOwned
\* A call that would have looked is handed back with its job.
<1>11. Attended'
  <2> SUFFICES ASSUME ~Ended', NEW m \in pending', ~Covered(m)', stage'[m] = "queued"
               PROVE  \E j \in JobIds : jobs'[j].st = "delayed"
    BY DEF Attended
  <2>1. ~Ended /\ ~Covered(m) /\ m \in pending /\ m \in Messages
    BY <1>1 DEF Ended, Covered, JobInv, JobTypes
  <2>2. stage[m] = "queued"
    BY <1>1, <2>1
  <2>3. \A j \in JobIds : jobs[j].st = "active" => jobs[j].stalls # MaxStalls
    BY <1>1 DEF Ended
  <2>4. CASE \E j \in JobIds : jobs[j].st = "delayed"
    BY <1>4, <1>6, <2>4
  <2>5. CASE \E h \in Handlers : Looks(h, m)
    <3>1. PICK h \in Handlers : Looks(h, m)
      BY <2>5
    <3>2. work[h].job \in JobIds /\ jobs[work[h].job].st = "active"
      BY <3>1 DEF Looks, Busy, JobInv, JobsOwned
    <3>3. jobs[work[h].job].stalls < MaxStalls
      BY <1>2, <2>3, <3>2, MergeAssumption DEF JobRecord, MergeAssumption
    <3> QED BY <1>4, <1>6, <3>2, <3>3
  <2> QED BY <2>1, <2>2, <2>4, <2>5 DEF JobInv, Attended
<1> QED BY <1>9, <1>10, <1>11 DEF JobInv

LEMMA JobStep ==
  ASSUME ~IsFiniteSet(Checks), JobInv, [Next]_vars
  PROVE  JobInv'
<1>0. answers \in [Messages -> Nat]
  BY DEF JobInv, JobTypes
<1>1. ASSUME NEW h \in Handlers, Handle(h) PROVE JobInv'
  BY <1>1, HandleJobs
<1>2. ASSUME NEW h \in Handlers, NEW j \in JobIds, StartJob(h, j) PROVE JobInv'
  BY <1>2, StartJobs
<1>3. ASSUME NEW m \in Messages, Push(m) \/ Enqueue(m) PROVE JobInv'
  BY <1>3, IntakeJobs
<1>4. CASE Crash
  BY <1>4, CrashJobs
<1>5. CASE RecoveryResolves
  <2>1. /\ UNCHANGED <<work, jobs, bucket, stage, mishaps, dropped>> /\ pending' \subseteq pending
        /\ Answered(open)
    BY <1>5 DEF RecoveryResolves, queue
  <2>2. answers' \in [Messages -> Nat] /\ \A m \in Messages : Covered(m) => Covered(m)'
    BY <1>0, <2>1, AnsweredMore
  <2>3. pending' \subseteq Messages
    BY <2>1 DEF JobInv, JobTypes
  <2> QED BY <2>1, <2>2, <2>3, NoCallMoves
<1>6. CASE RecoveryLocks \/ WindowElapses \/ OrphanExpires \/ LeaseLapses \/ ListExpires
  <2>1. /\ UNCHANGED <<work, jobs, bucket, stage, answers, dropped>> /\ pending' \subseteq pending
        /\ mishaps \subseteq mishaps'
    BY <1>6 DEF RecoveryLocks, WindowElapses, OrphanExpires, LeaseLapses, ListExpires, queue,
       history, Mishap
  <2> QED BY <1>0, <2>1, NoCallMoves DEF Covered
<1>7. CASE Tick
  <2> DEFINE b == (bucket + 1) % Buckets
  <2>1. /\ jobs[LockRetry(b)].st = "none" /\ bucket' = b
        /\ UNCHANGED <<stage, jobs, work, pending, answers, dropped, mishaps>>
    BY <1>7 DEF Tick, chat, history
  <2>2. b \in 0 .. Buckets - 1
    BY MergeAssumption DEF MergeAssumption, JobInv, JobTypes
  <2> HIDE DEF b
  <2>3. JobTypes'
    BY <2>1, <2>2 DEF JobInv, JobTypes, Live, WorkShape
  <2>4. JobsOwned'
    BY <2>1 DEF JobInv, JobsOwned, Busy
  <2>5. Attended'
    BY <2>1 DEF JobInv, Attended, Ended, Covered, Looks
  <2> QED BY <2>3, <2>4, <2>5 DEF JobInv
<1>8. CASE UNCHANGED vars
  <2>1. UNCHANGED <<stage, jobs, bucket, work, pending, answers, dropped, mishaps>>
    BY <1>8 DEF vars, mergeVars, queue, chat, history
  <2> QED BY <1>0, <2>1, NoCallMoves DEF Covered
<1> QED BY <1>1, <1>2, <1>3, <1>4, <1>5, <1>6, <1>7, <1>8 DEF Next, Recover

\* No message of the list is left without somebody who will look at it, for any number of
\* messages, handlers, jobs, faults and crashes, provided rechecks and follow-ups never run out
\* of ids, which are times in the code (scheduleLockRetryCheck, checkAndProcessNewMessages).
THEOREM NeverForgottenHolds ==
  ASSUME ~IsFiniteSet(Checks)
  PROVE  Spec => []NeverForgotten
<1>1. JobInv => NeverForgotten
  BY DEF JobInv, Attended, NeverForgotten, Ended, Looks, WillLook
<1>2. JobInv /\ [Next]_vars => JobInv'
  BY JobStep
<1> QED BY <1>1, <1>2, JobInit, PTL DEF Spec

-----------------------------------------------------------------------------
(* Counting from the head of the list. *)

LEMMA ListFinite ==
  ASSUME pending \subseteq Messages
  PROVE  /\ \A S \in SUBSET pending : IsFiniteSet(S) /\ Cardinality(S) \in Nat
         /\ \A S \in SUBSET pending : \A T \in SUBSET S : Cardinality(T) <= Cardinality(S)
<1>1. IsFiniteSet(Messages)
  BY FS_Interval, MergeAssumption DEF Messages, MergeAssumption
<1> QED BY <1>1, FS_Subset, FS_CardinalityType

\* All of the list is counted off when its length is.
LEMMA CountAll ==
  ASSUME pending \subseteq Messages
  PROVE  From(Cardinality(pending)) = {}
<1> SUFFICES ASSUME NEW m \in pending
             PROVE  ~(Cardinality({k \in pending : k < m}) >= Cardinality(pending))
  BY DEF From
<1> DEFINE S == {k \in pending : k < m}
           T == pending \ {m}
<1>1. m \in Nat
  BY MergeAssumption DEF Messages, MergeAssumption
<1>2. S \subseteq T
  BY <1>1
<1>3. Cardinality(T) = Cardinality(pending) - 1
  BY ListFinite, FS_RemoveElement
<1> QED BY <1>2, <1>3, ListFinite

\* A message at the end of the list changes nobody's place, and is not counted off.
LEMMA CountPushed ==
  ASSUME pending \subseteq Messages, NEW m \in Messages, pending' = pending \cup {m},
         \A k \in pending : k < m
  PROVE  /\ \A n : \A k \in pending : k \in From(n)' <=> k \in From(n)
         /\ \A n \in Nat : n <= Cardinality(pending) => m \in From(n)'
         /\ Cardinality(pending') = Cardinality(pending) + 1
<1>0. Messages \subseteq Nat
  BY MergeAssumption DEF Messages, MergeAssumption
<1>1. m \notin pending /\ m \in Nat
  BY <1>0
<1>2. \A k \in pending : {i \in pending' : i < k} = {i \in pending : i < k}
  <2> TAKE k \in pending
  <2>1. k \in Nat /\ k < m
    BY <1>0
  <2>2. ~(m < k)
    BY <1>1, <2>1
  <2> QED BY <2>2
<1>3. {i \in pending' : i < m} = pending
  <2>1. ~(m < m)
    BY <1>1
  <2> QED BY <1>1, <2>1
<1>4. \A n : \A k \in pending : k \in From(n)' <=> k \in From(n)
  BY <1>2 DEF From
<1>5. ASSUME NEW n \in Nat, n <= Cardinality(pending)
      PROVE  m \in From(n)'
  BY <1>3, <1>5, ListFinite DEF From
<1>6. Cardinality(pending') = Cardinality(pending) + 1
  BY <1>1, ListFinite, FS_AddElement
<1> QED BY <1>4, <1>5, <1>6

-----------------------------------------------------------------------------
(* The invariant. *)

CallTypes(w) == w.first \subseteq w.batch /\ w.batch \subseteq Messages /\ w.taken \in Nat

ListTypes ==
  /\ stage \in [Messages -> {"new", "pushed", "queued", "reported", "cut"}]
  /\ pending \subseteq Messages /\ open \subseteq Messages /\ answers \in [Messages -> Nat]
  /\ \A h \in Handlers : CallTypes(work[h])

ArrivalOrder ==
  /\ \A m, n \in Messages : stage[m] = "new" /\ m < n => stage[n] = "new"
  /\ \A m \in pending : stage[m] # "new"

\* Nobody has seen a message that has not arrived.
Unseen ==
  \A m \in Messages : stage[m] = "new" =>
    answers[m] = 0 /\ m \notin open /\ \A h \in Handlers : m \notin work[h].batch

Modes == (~durable => open = {}) /\ (durable => \A h \in Handlers : work[h].pc # "ack")

\* What a turn, and an acknowledgement, will count off has been seen.
TurnSaw(w) ==
  /\ w.taken <= Cardinality(pending) /\ Cardinality(w.first) \in Nat
  /\ Cardinality(w.first) <= Cardinality(pending)
  /\ \A m \in pending : /\ m \notin From(w.taken) => m \in w.batch
                        /\ m \notin From(Cardinality(w.first)) => m \in w.first
AckSaw(w) ==
  /\ w.taken <= Cardinality(pending)
  /\ \A m \in pending : m \notin From(w.taken) => Covered(m)

Counted == mishaps \cap {"lease", "echo", "expired"} = {}
Unread ==
  Counted =>
    /\ \A m \in Messages : stage[m] # "new" /\ m \notin pending => Covered(m)
    /\ \A h \in Handlers : work[h].pc = "turn" => TurnSaw(work[h])
    /\ \A h \in Handlers : work[h].pc \in {"ack", "dropack"} => AckSaw(work[h])

\* Who was answered and is still in the list is about to be counted off.
TurnTakes(w) ==
  \A m \in w.batch : /\ answers[m] = 0
                     /\ m \in pending => m \notin From(w.taken)
                     /\ m \in pending /\ m \in w.first => m \notin From(Cardinality(w.first))
Acked(m) == \E h \in Handlers : work[h].pc = "ack" /\ m \notin From(work[h].taken)

Clean == mishaps \cap {"crash", "lease", "unacked", "partial"} = {}
Single ==
  Clean =>
    /\ \A m \in Messages : answers[m] <= 1
    /\ \A m \in pending : answers[m] = 0 \/ Acked(m)
    /\ \A m \in open : answers[m] = 0
    /\ \A h \in Handlers : work[h].pc = "turn" => TurnTakes(work[h])

ListInv == LockInv /\ ListTypes /\ ArrivalOrder /\ Unseen /\ Modes /\ Unread /\ Single

LEMMA ListInit == Init => ListInv
<1> SUFFICES ASSUME Init PROVE ListInv
  OBVIOUS
<1>1. \A h \in Handlers : work[h] = Idle /\ Idle.pc = "idle" /\ CallTypes(Idle) /\ Idle.batch = {}
  BY DEF Init, Idle, CallTypes
<1>2. ListTypes
  BY <1>1 DEF Init, ListTypes
<1>3. ArrivalOrder /\ Unseen /\ Modes
  BY <1>1 DEF Init, ArrivalOrder, Unseen, Modes
<1>4. Unread /\ Single
  BY <1>1 DEF Init, Unread, Single
<1> QED BY <1>2, <1>3, <1>4, LockInit DEF ListInv

\* Who works on the chat works alone.
LEMMA Alone ==
  ASSUME LockInv, "lease" \notin mishaps
  PROVE  /\ \A g, h \in Handlers : work[g].pc \in Critical /\ work[h].pc \in Critical => g = h
         /\ lock = Scan => \A h \in Handlers : work[h].pc \notin Critical
  BY NoHandler DEF LockInv, OneAtATime

\* A step that leaves the list, its messages and the answers alone, and whatever call counts.
LEMMA ListAside ==
  ASSUME ListInv, LockInv', UNCHANGED <<pending, answers, dropped, open, durable>>,
         mishaps \subseteq mishaps',
         stage' \in [Messages -> {"new", "pushed", "queued", "reported", "cut"}],
         \A m \in Messages : stage'[m] = "new" <=> stage[m] = "new",
         \A h \in Handlers : work'[h] = work[h]
            \/ (/\ work'[h].pc \notin {"turn", "ack", "dropack"} /\ CallTypes(work'[h])
                /\ work'[h].batch \subseteq work[h].batch),
         "crash" \in mishaps' \/ \A h \in Handlers : work[h].pc = "ack" => work'[h] = work[h]
  PROVE  ListInv'
<1>1. ListTypes'
  BY DEF ListInv, ListTypes, CallTypes
<1>2. ArrivalOrder' /\ Unseen'
  BY DEF ListInv, ListTypes, ArrivalOrder, Unseen
<1>3. Modes'
  BY DEF ListInv, Modes
<1>4. \A m \in Messages : Covered(m)' <=> Covered(m)
  BY DEF Covered
<1>5. Unread'
  <2>1. Counted' => Counted
    BY DEF Counted
  <2>3. \A h \in Handlers : work'[h].pc = "turn" => work[h].pc = "turn" /\ (TurnSaw(work[h])' <=> TurnSaw(work[h]))
    BY DEF TurnSaw, From
  <2>4. \A h \in Handlers : work'[h].pc \in {"ack", "dropack"} =>
           work[h].pc \in {"ack", "dropack"} /\ (AckSaw(work[h])' <=> AckSaw(work[h]))
    BY DEF AckSaw, From, Covered
  <2> QED BY <1>4, <2>1, <2>3, <2>4 DEF ListInv, ListTypes, Unread
<1>6. Single'
  BY DEF ListInv, Single, Clean, Acked, TurnTakes, From
<1> QED BY <1>1, <1>2, <1>3, <1>5, <1>6 DEF ListInv

-----------------------------------------------------------------------------
(* The steps of the call that holds the chat. *)

LEMMA ByHolder ==
  ASSUME ListInv, LockInv', NEW h \in Handlers, work[h].pc \in Critical,
         \A g \in Handlers : g # h => work'[g] = work[g],
         CallTypes(work'[h]), UNCHANGED <<stage, durable>>, mishaps \subseteq mishaps',
         \A m \in Messages : stage[m] = "new" =>
           answers'[m] = 0 /\ m \notin open' /\ m \notin work'[h].batch,
         pending' \subseteq pending, open' \subseteq Messages, answers' \in [Messages -> Nat],
         ~durable => open' = {}, durable => work'[h].pc # "ack",
         Counted' =>
           /\ \A m \in Messages : Covered(m) => Covered(m)'
           /\ \A m \in pending : m \notin pending' => Covered(m)'
           /\ work'[h].pc = "turn" => TurnSaw(work[h])'
           /\ work'[h].pc \in {"ack", "dropack"} => AckSaw(work[h])',
         Clean' =>
           /\ \A m \in Messages : answers'[m] <= 1
           /\ \A m \in pending' : answers'[m] = 0
                \/ (work'[h].pc = "ack" /\ m \notin From(work[h].taken)')
           /\ \A m \in open' : answers'[m] = 0
           /\ work'[h].pc = "turn" => TurnTakes(work[h])'
  PROVE  ListInv'
<1>1. ListTypes'
  BY DEF ListInv, ListTypes, CallTypes
<1>2. ArrivalOrder' /\ Unseen'
  BY DEF ListInv, ArrivalOrder, Unseen
<1>3. Modes'
  BY DEF ListInv, Modes
<1>4. ASSUME "lease" \notin mishaps', NEW g \in Handlers, g # h
      PROVE  work'[g].pc \notin Critical
  BY <1>4, Alone DEF ListInv
<1>5. Unread'
  <2> SUFFICES ASSUME Counted' PROVE Unread'
    BY DEF Unread
  <2>1. Counted /\ "lease" \notin mishaps'
    BY DEF Counted
  <2>2. \A g \in Handlers : work'[g].pc = "turn" => g = h
    BY <1>4, <2>1 DEF Critical
  <2>3. \A g \in Handlers : work'[g].pc \in {"ack", "dropack"} => g = h
    BY <1>4, <2>1 DEF Critical
  <2>4. \A m \in Messages : stage'[m] # "new" /\ m \notin pending' => Covered(m)'
    BY <2>1 DEF ListInv, Unread
  <2>5. \A g \in Handlers : work'[g].pc = "turn" => TurnSaw(work[g])'
    BY <2>2
  <2>6. \A g \in Handlers : work'[g].pc \in {"ack", "dropack"} => AckSaw(work[g])'
    BY <2>3
  <2> QED BY <2>4, <2>5, <2>6 DEF Unread
<1>6. Single'
  <2> SUFFICES ASSUME Clean' PROVE Single'
    BY DEF Single
  <2>1. "lease" \notin mishaps'
    BY DEF Clean
  <2>2. \A g \in Handlers : work'[g].pc = "turn" => TurnTakes(work[g])'
    BY <1>4, <2>1 DEF Critical
  <2>3. \A m \in pending' : answers'[m] = 0 \/ Acked(m)'
    BY DEF Acked
  <2> QED BY <2>2, <2>3 DEF Single
<1> QED BY <1>1, <1>2, <1>3, <1>5, <1>6 DEF ListInv

\* What the invariant says of the holder.
LEMMA HolderKnows ==
  ASSUME ListInv, NEW h \in Handlers, work[h].pc \in Critical
  PROVE  /\ CallTypes(work[h]) /\ WorkShape /\ answers \in [Messages -> Nat]
         /\ open \subseteq Messages /\ pending \subseteq Messages
         /\ \A m \in Messages : stage[m] = "new" =>
              answers[m] = 0 /\ m \notin open /\ m \notin work[h].batch /\ m \notin pending
         /\ Counted => /\ work[h].pc = "turn" => TurnSaw(work[h])
                       /\ work[h].pc \in {"ack", "dropack"} => AckSaw(work[h])
         /\ Clean => /\ \A m \in Messages : answers[m] <= 1
                     /\ \A m \in pending : answers[m] = 0
                          \/ (work[h].pc = "ack" /\ m \notin From(work[h].taken))
                     /\ \A m \in open : answers[m] = 0
                     /\ work[h].pc = "turn" => TurnTakes(work[h])
<1>1. Clean => \A g \in Handlers : work[g].pc = "ack" => g = h
  BY Alone DEF ListInv, Clean, Critical
<1> QED BY <1>1 DEF ListInv, LockInv, ListTypes, ArrivalOrder, Unseen, Unread, Single, Acked

LEMMA ClaimList ==
  ASSUME ListInv, LockInv', NEW h \in Handlers, ClaimPendingSnapshot(h)
  PROVE  ListInv'
<1>1. /\ work[h].pc = "window" /\ UNCHANGED <<stage, pending, durable, open, answers, dropped, mishaps>>
      /\ work' = [work EXCEPT ![h].pc = "turn", ![h].first = pending, ![h].batch = pending,
                              ![h].taken = Cardinality(pending)]
  BY DEF ClaimPendingSnapshot, At, chat, history
<1>2. work[h].pc \in Critical
  BY <1>1 DEF Critical
<1>3. /\ \A g \in Handlers : g # h => work'[g] = work[g]
      /\ work'[h].pc = "turn" /\ work'[h].first = pending /\ work'[h].batch = pending
      /\ work'[h].taken = Cardinality(pending)
  BY <1>1 DEF ListInv, LockInv, WorkShape
<1>4. Cardinality(pending) \in Nat /\ pending \subseteq Messages
  BY <1>2, HolderKnows, ListFinite
<1>5. From(Cardinality(pending)) = {} /\ \A n : From(n)' = From(n)
  BY <1>1, <1>4, CountAll DEF From
<1>6. CallTypes(work'[h])
  BY <1>3, <1>4 DEF CallTypes
<1>7. TurnSaw(work[h])'
  <2>1. /\ work'[h].taken <= Cardinality(pending') /\ Cardinality(work'[h].first) \in Nat
        /\ Cardinality(work'[h].first) <= Cardinality(pending')
    BY <1>1, <1>3, <1>4
  <2>2. \A m \in pending' : m \in work'[h].batch /\ m \in work'[h].first
    BY <1>1, <1>3
  <2> QED BY <2>1, <2>2 DEF TurnSaw
<1>8. ASSUME Clean' PROVE TurnTakes(work[h])' /\ \A m \in pending : answers[m] = 0
  <2>1. Clean
    BY <1>1, <1>8 DEF Clean
  <2>2. \A m \in pending : answers[m] = 0
    BY <1>1, <1>2, <2>1, HolderKnows
  <2>3. From(Cardinality(pending))' = {}
    BY <1>1, <1>5 DEF From
  <2>4. \A m : m \notin From(work[h].taken)' /\ m \notin From(Cardinality(work[h].first))'
    BY <1>1, <1>3, <1>5 DEF From
  <2> QED BY <1>1, <1>3, <2>2, <2>4 DEF TurnTakes
<1>9. Counted' => \A m \in Messages : Covered(m) => Covered(m)'
  BY <1>1 DEF Covered
<1>10. Clean' => /\ \A m \in Messages : answers'[m] <= 1
                 /\ \A m \in open' : answers'[m] = 0
  BY <1>1, <1>2, HolderKnows DEF Clean
<1>11. (~durable => open = {}) /\ answers' \in [Messages -> Nat] /\ open' \subseteq Messages
  BY <1>1, <1>2, HolderKnows DEF ListInv, Modes
<1>13. \A m \in Messages : stage[m] = "new" =>
        answers'[m] = 0 /\ m \notin open' /\ m \notin work'[h].batch
  BY <1>1, <1>2, <1>3, HolderKnows
<1> QED BY <1>13, <1>1, <1>2, <1>3, <1>6, <1>7, <1>8, <1>9, <1>10, <1>11, ByHolder

\* The call after ToAck.
LEMMA ToAckCall ==
  ASSUME WorkShape, NEW h \in Handlers, NEW p, NEW n \in Nat, ToAck(h, p, n)
  PROVE  /\ work'[h].pc = p /\ work'[h].taken = n /\ CallTypes(work'[h]) /\ work'[h].batch = {}
         /\ \A g \in Handlers : g # h => work'[g] = work[g]
  BY DEF WorkShape, ToAck, Idle, CallTypes

LEMMA DropList ==
  ASSUME ListInv, LockInv', NEW h \in Handlers, DropIfHostingPaused(h)
  PROVE  ListInv'
<1>1. /\ work[h].pc = "turn" /\ ToAck(h, "dropack", work[h].taken)
      /\ dropped' = dropped \cup work[h].batch
      /\ UNCHANGED <<stage, pending, durable, open, answers, mishaps>>
  BY DEF DropIfHostingPaused, At, chat
<1>2. work[h].pc \in Critical
  BY <1>1 DEF Critical
<1>3. WorkShape /\ work[h].taken \in Nat /\ answers' \in [Messages -> Nat] /\ open' \subseteq Messages
  BY <1>1, <1>2, HolderKnows DEF CallTypes
<1>4. /\ work'[h].pc = "dropack" /\ work'[h].taken = work[h].taken /\ CallTypes(work'[h]) /\ work'[h].batch = {}
      /\ \A g \in Handlers : g # h => work'[g] = work[g]
  BY <1>1, <1>3, ToAckCall
<1>5. Counted' => /\ \A m \in Messages : Covered(m) => Covered(m)'
                  /\ AckSaw(work[h])'
  <2> SUFFICES ASSUME Counted' PROVE (\A m \in Messages : Covered(m) => Covered(m)') /\ AckSaw(work[h])'
    OBVIOUS
  <2>1. TurnSaw(work[h])
    BY <1>1, <1>2, HolderKnows DEF Counted
  <2>2. \A m : Covered(m) \/ m \in work[h].batch => Covered(m)'
    BY <1>1 DEF Covered
  <2>3. From(work[h].taken)' = From(work[h].taken)
    BY <1>1, <1>4 DEF From
  <2> QED BY <1>1, <1>4, <2>1, <2>2, <2>3 DEF TurnSaw, AckSaw
<1>6. Clean' => /\ \A m \in Messages : answers'[m] <= 1
                /\ \A m \in pending' : answers'[m] = 0
                /\ \A m \in open' : answers'[m] = 0
  BY <1>1, <1>2, HolderKnows DEF Clean
<1>7. ~durable => open = {}
  BY DEF ListInv, Modes
<1>13. \A m \in Messages : stage[m] = "new" =>
        answers'[m] = 0 /\ m \notin open' /\ m \notin work'[h].batch
  BY <1>1, <1>2, <1>4, HolderKnows
<1> QED BY <1>13, <1>1, <1>2, <1>3, <1>4, <1>5, <1>6, <1>7, ByHolder

LEMMA ReplayList ==
  ASSUME ListInv, LockInv', NEW h \in Handlers, Replay(h)
  PROVE  ListInv'
<1>1. /\ work[h].pc = "turn" /\ ~durable
      /\ UNCHANGED <<stage, pending, durable, open, answers, dropped, mishaps>>
      /\ work' = [work EXCEPT ![h].batch = @ \cup New(h), ![h].taken = Cardinality(pending),
                              ![h].round = @ + 1]
  BY DEF Replay, At, chat, history
<1>2. work[h].pc \in Critical
  BY <1>1 DEF Critical
<1>3. /\ WorkShape /\ CallTypes(work[h]) /\ pending \subseteq Messages
      /\ answers' \in [Messages -> Nat] /\ open' \subseteq Messages
  BY <1>1, <1>2, HolderKnows
<1>4. /\ \A g \in Handlers : g # h => work'[g] = work[g]
      /\ work'[h].pc = "turn" /\ work'[h].first = work[h].first
      /\ work'[h].batch = work[h].batch \cup New(h) /\ work'[h].taken = Cardinality(pending)
  BY <1>1, <1>3 DEF WorkShape
<1>5. New(h) \subseteq pending /\ Cardinality(pending) \in Nat /\ From(Cardinality(pending)) = {}
  BY <1>3, ListFinite, CountAll DEF New, From
<1>6. CallTypes(work'[h])
  BY <1>3, <1>4, <1>5 DEF CallTypes
<1>7. /\ From(work[h].taken)' = {}
      /\ From(Cardinality(work[h].first))' = From(Cardinality(work[h].first))
  BY <1>1, <1>4, <1>5 DEF From
<1>8. Counted' => TurnSaw(work[h])'
  <2> SUFFICES ASSUME Counted' PROVE TurnSaw(work[h])'
    OBVIOUS
  <2>1. TurnSaw(work[h])
    BY <1>1, <1>2, HolderKnows DEF Counted
  <2>2. \A m \in pending : m \in work'[h].batch
    BY <1>4, <2>1 DEF TurnSaw, New
  <2>3. /\ work'[h].taken <= Cardinality(pending') /\ Cardinality(work'[h].first) \in Nat
        /\ Cardinality(work'[h].first) <= Cardinality(pending')
    <3>1. Cardinality(work[h].first) \in Nat /\ Cardinality(work[h].first) <= Cardinality(pending)
      BY <2>1 DEF TurnSaw
    <3>2. pending' = pending /\ work'[h].first = work[h].first /\ work'[h].taken = Cardinality(pending)
      BY <1>1, <1>4
    <3>3. Cardinality(pending) <= Cardinality(pending)
      BY <1>5
    <3> QED BY <3>1, <3>2, <3>3
  <2>4. \A m \in pending' : m \notin From(Cardinality(work[h].first))' => m \in work'[h].first
    BY <1>1, <1>4, <1>7, <2>1 DEF TurnSaw
  <2> QED BY <1>1, <2>2, <2>3, <2>4 DEF TurnSaw
<1>9. Clean' => TurnTakes(work[h])' /\ \A m \in pending : answers[m] = 0
  <2> SUFFICES ASSUME Clean' PROVE TurnTakes(work[h])' /\ \A m \in pending : answers[m] = 0
    OBVIOUS
  <2>1. TurnTakes(work[h]) /\ \A m \in pending : answers[m] = 0
    BY <1>1, <1>2, HolderKnows DEF Clean
  <2>2. \A m \in work'[h].batch : answers'[m] = 0
    BY <1>1, <1>4, <1>5, <2>1 DEF TurnTakes
  <2>3. \A m \in work'[h].first : m \in pending' => m \notin From(Cardinality(work[h].first))'
    BY <1>1, <1>3, <1>4, <1>7, <2>1 DEF TurnTakes, CallTypes
  <2> QED BY <1>7, <2>1, <2>2, <2>3 DEF TurnTakes
<1>10. Counted' => \A m \in Messages : Covered(m) => Covered(m)'
  BY <1>1 DEF Covered
<1>11. Clean' => /\ \A m \in Messages : answers'[m] <= 1
                 /\ \A m \in open' : answers'[m] = 0
  BY <1>1, <1>2, HolderKnows DEF Clean
<1>12. ~durable => open = {}
  BY DEF ListInv, Modes
<1>13. \A m \in Messages : stage[m] = "new" =>
        answers'[m] = 0 /\ m \notin open' /\ m \notin work'[h].batch
  BY <1>1, <1>2, <1>4, <1>5, HolderKnows
<1> QED BY <1>13, <1>1, <1>2, <1>3, <1>4, <1>6, <1>8, <1>9, <1>10, <1>11, <1>12, ByHolder

\* An answer to S, of which n messages are acknowledged next.
LEMMA AnswerSome ==
  ASSUME ListInv, LockInv', NEW h \in Handlers, work[h].pc = "turn", ~durable,
         NEW S \in {work[h].first, work[h].batch}, NEW n \in Nat,
         \/ n = work[h].taken /\ S = work[h].batch
         \/ n = Cardinality(work[h].first) /\ (S = work[h].first \/ "partial" \in mishaps'),
         Answered(S), ToAck(h, "ack", n),
         UNCHANGED <<stage, pending, durable, open, dropped>>, mishaps \subseteq mishaps'
  PROVE  ListInv'
<1>2. work[h].pc \in Critical
  BY DEF Critical
<1>3. /\ WorkShape /\ CallTypes(work[h]) /\ pending \subseteq Messages
      /\ answers \in [Messages -> Nat] /\ open' \subseteq Messages
  BY <1>2, HolderKnows
<1>4. /\ work'[h].pc = "ack" /\ work'[h].taken = n /\ CallTypes(work'[h]) /\ work'[h].batch = {}
      /\ \A g \in Handlers : g # h => work'[g] = work[g]
  BY <1>3, ToAckCall
<1>5. S \subseteq work[h].batch /\ S \subseteq Messages
  BY <1>3 DEF CallTypes
<1>6. /\ answers' \in [Messages -> Nat]
      /\ \A m \in Messages : Covered(m) => Covered(m)'
  BY <1>3, AnsweredMore
<1>7. \A m \in Messages : answers'[m] = IF m \in S THEN answers[m] + 1 ELSE answers[m]
  BY DEF Answered
<1>8. From(work[h].taken)' = From(n)
  BY <1>4 DEF From
<1>9. Counted' => AckSaw(work[h])'
  <2> SUFFICES ASSUME Counted' PROVE AckSaw(work[h])'
    OBVIOUS
  <2>1. TurnSaw(work[h])
    BY <1>2, HolderKnows DEF Counted
  <2>2. \A m \in S : Covered(m)'
    BY <1>3, <1>5, <1>7 DEF Covered
  <2>3. \A m \in pending : m \notin From(n) => m \in S
    BY <1>3, <2>1 DEF TurnSaw, CallTypes
  <2>4. n <= Cardinality(pending)
    BY <2>1 DEF TurnSaw
  <2> QED BY <1>4, <1>8, <2>2, <2>3, <2>4 DEF AckSaw
<1>10. Clean' => /\ \A m \in Messages : answers'[m] <= 1
                 /\ \A m \in pending' : answers'[m] = 0 \/ m \notin From(work[h].taken)'
                 /\ \A m \in open' : answers'[m] = 0
  <2> SUFFICES ASSUME Clean'
               PROVE  /\ \A m \in Messages : answers'[m] <= 1
                      /\ \A m \in pending' : answers'[m] = 0 \/ m \notin From(work[h].taken)'
                      /\ \A m \in open' : answers'[m] = 0
    OBVIOUS
  <2>1. /\ TurnTakes(work[h]) /\ \A m \in pending : answers[m] = 0
        /\ \A m \in Messages : answers[m] <= 1
    BY <1>2, HolderKnows DEF Clean
  <2>2. \A m \in Messages : answers'[m] <= 1
    BY <1>3, <1>5, <1>7, <2>1 DEF TurnTakes
  <2>3. \A m \in pending : m \notin S => answers'[m] = 0
    BY <1>3, <1>7, <2>1
  <2>4. \A m \in pending : m \in S => m \notin From(n)
    BY <1>3, <1>5, <2>1 DEF TurnTakes, Clean
  <2>5. open' = {}
    BY DEF ListInv, Modes
  <2> QED BY <1>8, <2>2, <2>3, <2>4, <2>5
<1>11. ~durable => open' = {}
  BY DEF ListInv, Modes
<1>13. \A m \in Messages : stage[m] = "new" =>
        answers'[m] = 0 /\ m \notin open' /\ m \notin work'[h].batch
  BY <1>2, <1>4, <1>5, <1>7, HolderKnows
<1> QED BY <1>13, <1>2, <1>4, <1>3, <1>6, <1>9, <1>10, <1>11, ByHolder

LEMMA AnswerList ==
  ASSUME ListInv, LockInv', NEW h \in Handlers, Answer(h) \/ HandleProcessingError(h)
  PROVE  ListInv'
<1>1. work[h].pc = "turn" /\ ~durable /\ UNCHANGED <<stage, pending, durable, open, dropped>>
  BY DEF Answer, HandleProcessingError, At, chat
<1>2. work[h].pc \in Critical
  BY <1>1 DEF Critical
<1>3. CallTypes(work[h]) /\ pending \subseteq Messages
  BY <1>2, HolderKnows
<1>4. work[h].taken \in Nat /\ Cardinality(work[h].first) \in Nat
  <2>1. work[h].first \subseteq Messages /\ IsFiniteSet(Messages)
    BY <1>3, FS_Interval, MergeAssumption DEF CallTypes, Messages, MergeAssumption
  <2> QED BY <1>3, <2>1, FS_Subset, FS_CardinalityType DEF CallTypes
<1>5. CASE Answer(h)
  <2>1. Answered(work[h].batch) /\ ToAck(h, "ack", work[h].taken) /\ mishaps' = mishaps
    BY <1>5 DEF Answer
  <2> QED BY <1>1, <1>4, <2>1, AnswerSome
<1>6. CASE HandleProcessingError(h)
  <2>1. ToAck(h, "ack", Cardinality(work[h].first))
    BY <1>6 DEF HandleProcessingError, Fallen
  <2>2. CASE Answered(work[h].first) /\ mishaps' = mishaps
    BY <1>1, <1>4, <2>1, <2>2, AnswerSome
  <2>3. CASE Answered(work[h].batch) /\ mishaps' = mishaps \cup {"partial"}
    BY <1>1, <1>4, <2>1, <2>3, AnswerSome
  <2> QED BY <1>6, <2>2, <2>3 DEF HandleProcessingError, Mishap
<1> QED BY <1>5, <1>6

\* What the holder leaves of the list when it has seen the rest, and nobody was answered twice.
LEMMA AckRest ==
  ASSUME ListInv, NEW h \in Handlers, work[h].pc \in {"ack", "dropack"},
         UNCHANGED <<answers, dropped>>, mishaps \subseteq mishaps',
         pending' \in {pending, From(work[h].taken)}
  PROVE  /\ pending' \subseteq pending /\ \A m \in Messages : Covered(m) => Covered(m)'
         /\ Counted' => \A m \in pending : m \notin pending' => Covered(m)'
         /\ Clean' /\ pending' = From(work[h].taken) => \A m \in pending' : answers'[m] = 0
<1>1. pending' \subseteq pending /\ work[h].pc \in Critical
  BY DEF From, Critical
<1>2. \A m : Covered(m) <=> Covered(m)'
  BY DEF Covered
<1>3. Counted' => \A m \in pending : m \notin pending' => Covered(m)'
  <2> SUFFICES ASSUME Counted', NEW m \in pending, m \notin pending' PROVE Covered(m)
    BY <1>2
  <2>1. AckSaw(work[h])
    BY <1>1, HolderKnows DEF Counted
  <2> QED BY <2>1 DEF AckSaw
<1>4. Clean' /\ pending' = From(work[h].taken) => \A m \in pending' : answers'[m] = 0
  <2> SUFFICES ASSUME Clean', pending' = From(work[h].taken), NEW m \in pending' PROVE answers[m] = 0
    OBVIOUS
  <2>1. \A k \in pending : answers[k] = 0 \/ k \notin From(work[h].taken)
    BY <1>1, HolderKnows DEF Clean
  <2> QED BY <1>1, <2>1
<1> QED BY <1>1, <1>2, <1>3, <1>4

\* The acknowledgement ends: the call does not count off anything more.
LEMMA AckEnds ==
  ASSUME ListInv, LockInv', NEW h \in Handlers, work[h].pc \in {"ack", "dropack"},
         UNCHANGED <<stage, durable, open, answers, dropped>>, mishaps \subseteq mishaps',
         pending' \in {pending, From(work[h].taken)},
         pending' = From(work[h].taken) \/ "unacked" \in mishaps' \/ work[h].pc = "dropack",
         \A g \in Handlers : g # h => work'[g] = work[g],
         CallTypes(work'[h]), work'[h].batch = {}, work'[h].pc \notin {"turn", "ack", "dropack"}
  PROVE  ListInv'
<1>1. work[h].pc \in Critical
  BY DEF Critical
<1>2. /\ answers' \in [Messages -> Nat] /\ open' \subseteq Messages /\ (~durable => open' = {})
  BY <1>1, HolderKnows DEF ListInv, Modes
<1>3. Clean' => /\ \A m \in Messages : answers'[m] <= 1
                /\ \A m \in open' : answers'[m] = 0
                /\ \A m \in pending' : answers'[m] = 0
  <2> SUFFICES ASSUME Clean'
               PROVE  /\ \A m \in Messages : answers[m] <= 1
                      /\ \A m \in open : answers[m] = 0
                      /\ \A m \in pending' : answers[m] = 0
    OBVIOUS
  <2>1. Clean /\ "unacked" \notin mishaps'
    BY DEF Clean
  <2>2. \A m \in pending : answers[m] = 0 \/ (work[h].pc = "ack" /\ m \notin From(work[h].taken))
    BY <1>1, <2>1, HolderKnows
  <2>3. pending' \subseteq pending
    BY AckRest
  <2>4. \A m \in pending' : answers[m] = 0
    BY <2>1, <2>2, <2>3
  <2> QED BY <1>1, <2>1, <2>4, HolderKnows
<1>13. \A m \in Messages : stage[m] = "new" =>
        answers'[m] = 0 /\ m \notin open' /\ m \notin work'[h].batch
  BY <1>1, HolderKnows
<1> QED BY <1>13, <1>1, <1>2, <1>3, AckRest, ByHolder

\* It is tried again.
LEMMA AckAgain ==
  ASSUME ListInv, LockInv', NEW h \in Handlers, work[h].pc \in {"ack", "dropack"},
         UNCHANGED <<stage, durable, open, answers, dropped>>,
         mishaps' = mishaps \cup Echo, pending' \in {pending, From(work[h].taken)},
         work' = [work EXCEPT ![h].round = @ + 1]
  PROVE  ListInv'
<1>1. work[h].pc \in Critical /\ mishaps \subseteq mishaps'
  BY DEF Critical
<1>2. /\ answers' \in [Messages -> Nat] /\ open' \subseteq Messages /\ (~durable => open' = {})
      /\ (durable => work[h].pc # "ack")
  BY <1>1, HolderKnows DEF ListInv, Modes
<1>3. /\ WorkShape /\ CallTypes(work[h])
  BY <1>1, HolderKnows
<1>4. /\ \A g \in Handlers : g # h => work'[g] = work[g]
      /\ work'[h].pc = work[h].pc /\ work'[h].first = work[h].first
      /\ work'[h].batch = work[h].batch /\ work'[h].taken = work[h].taken
  BY <1>3 DEF WorkShape
<1>5. CallTypes(work'[h])
  BY <1>3, <1>4 DEF CallTypes
<1>6. Counted' => AckSaw(work[h])'
  <2> SUFFICES ASSUME Counted' PROVE AckSaw(work[h])'
    OBVIOUS
  <2>1. pending' = pending
    BY DEF Counted, Echo
  <2>2. AckSaw(work[h])
    BY <1>1, HolderKnows DEF Counted
  <2>3. From(work[h].taken)' = From(work[h].taken) /\ \A m : Covered(m)' <=> Covered(m)
    BY <1>4, <2>1 DEF From, Covered
  <2> QED BY <1>4, <2>1, <2>2, <2>3 DEF AckSaw
<1>7. Clean' => /\ \A m \in Messages : answers'[m] <= 1
                /\ \A m \in open' : answers'[m] = 0
                /\ \A m \in pending' : answers'[m] = 0
                     \/ (work'[h].pc = "ack" /\ m \notin From(work[h].taken)')
  <2> SUFFICES ASSUME Clean'
               PROVE  /\ \A m \in Messages : answers[m] <= 1
                      /\ \A m \in open : answers[m] = 0
                      /\ \A m \in pending' : answers'[m] = 0
                           \/ (work'[h].pc = "ack" /\ m \notin From(work[h].taken)')
    OBVIOUS
  <2>1. Clean
    BY DEF Clean
  <2>2. CASE pending' = From(work[h].taken)
    BY <1>1, <2>1, <2>2, AckRest, HolderKnows
  <2>3. CASE pending' = pending
    <3>1. From(work[h].taken)' = From(work[h].taken)
      BY <1>4, <2>3 DEF From
    <3> QED BY <1>1, <1>4, <2>1, <2>3, <3>1, HolderKnows
  <2> QED BY <2>2, <2>3
<1>8. work'[h].pc # "turn"
  BY <1>4
<1>13. \A m \in Messages : stage[m] = "new" =>
        answers'[m] = 0 /\ m \notin open' /\ m \notin work'[h].batch
  BY <1>1, <1>4, HolderKnows
<1> QED BY <1>13, <1>1, <1>2, <1>4, <1>5, <1>6, <1>7, <1>8, AckRest, ByHolder

LEMMA AckList ==
  ASSUME ListInv, LockInv', NEW h \in Handlers, AckPendingMessages(h) \/ AckDropped(h)
  PROVE  ListInv'
<1>1. /\ work[h].pc \in {"ack", "dropack"}
      /\ UNCHANGED <<stage, durable, open, answers, dropped>>
      /\ pending' \in {pending, From(work[h].taken)}
  BY DEF AckPendingMessages, AckDropped, At, Tried
<1>2. WorkShape
  BY DEF ListInv, LockInv
<1>3. CASE work' = [work EXCEPT ![h].round = @ + 1] /\ mishaps' = mishaps \cup Echo
  BY <1>1, <1>3, AckAgain
<1>4. CASE /\ ToAck(h, "follow", 0) /\ mishaps \subseteq mishaps'
           /\ pending' = From(work[h].taken) \/ "unacked" \in mishaps'
  <2>1. /\ work'[h].pc = "follow" /\ CallTypes(work'[h]) /\ work'[h].batch = {}
        /\ \A g \in Handlers : g # h => work'[g] = work[g]
    BY <1>2, <1>4, ToAckCall
  <2> QED BY <1>1, <1>4, <2>1, AckEnds
<1>5. CASE /\ work' = [work EXCEPT ![h] = Idle] /\ mishaps \subseteq mishaps'
           /\ work[h].pc = "dropack"
  <2>1. /\ work'[h].pc = "idle" /\ CallTypes(work'[h]) /\ work'[h].batch = {}
        /\ \A g \in Handlers : g # h => work'[g] = work[g]
    BY <1>2, <1>5 DEF WorkShape, Idle, CallTypes
  <2> QED BY <1>1, <1>5, <2>1, AckEnds
<1>6. CASE AckPendingMessages(h)
  BY <1>3, <1>4, <1>6 DEF AckPendingMessages, Mishap
<1>7. CASE AckDropped(h)
  <2>1. work[h].pc = "dropack"
    BY <1>7 DEF AckDropped, At
  <2> QED BY <1>3, <1>5, <1>7, <2>1 DEF AckDropped, Ends, Throws, EndJob
<1> QED BY <1>6, <1>7

LEMMA OpenList ==
  ASSUME ListInv, LockInv', NEW h \in Handlers, OpenTurn(h)
  PROVE  ListInv'
<1>1. /\ work[h].pc = "turn" /\ durable
      /\ UNCHANGED <<stage, pending, durable, answers, dropped, mishaps>>
      /\ \/ open' = work[h].batch /\ Goto(h, "durable")
         \/ open' = open /\ ToAck(h, "follow", 0)
  BY DEF OpenTurn, At, history
<1>2. work[h].pc \in Critical
  BY <1>1 DEF Critical
<1>3. WorkShape /\ CallTypes(work[h]) /\ answers' \in [Messages -> Nat] /\ open \subseteq Messages
  BY <1>1, <1>2, HolderKnows
<1>4. /\ work'[h].pc \in {"durable", "follow"} /\ CallTypes(work'[h]) /\ work'[h].batch \subseteq work[h].batch
      /\ \A g \in Handlers : g # h => work'[g] = work[g]
  <2>1. CASE Goto(h, "durable")
    BY <1>3, <2>1 DEF Goto, WorkShape, CallTypes
  <2>2. CASE ToAck(h, "follow", 0)
    BY <1>3, <2>2, ToAckCall
  <2> QED BY <1>1, <2>1, <2>2
<1>5. open' \subseteq Messages
  BY <1>1, <1>3 DEF CallTypes
<1>6. Clean' => /\ \A m \in Messages : answers'[m] <= 1
                /\ \A m \in pending' : answers'[m] = 0
                /\ \A m \in open' : answers'[m] = 0
  BY <1>1, <1>2, HolderKnows DEF Clean, TurnTakes
<1>7. \A m \in Messages : Covered(m) => Covered(m)'
  BY <1>1 DEF Covered
<1>13. \A m \in Messages : stage[m] = "new" =>
        answers'[m] = 0 /\ m \notin open' /\ m \notin work'[h].batch
  BY <1>1, <1>2, <1>4, HolderKnows
<1> QED BY <1>13, <1>1, <1>2, <1>3, <1>4, <1>5, <1>6, <1>7, ByHolder

LEMMA DurableList ==
  ASSUME ListInv, LockInv', NEW h \in Handlers, DurableTurn(h)
  PROVE  ListInv'
<1>1. /\ work[h].pc = "durable" /\ ToAck(h, "follow", 0)
      /\ UNCHANGED <<stage, durable, dropped, mishaps>>
      /\ \/ Answered(open) /\ pending' = pending \ open /\ open' = {}
         \/ UNCHANGED <<pending, open, answers>>
  BY DEF DurableTurn, At
<1>2. work[h].pc \in Critical
  BY <1>1 DEF Critical
<1>3. WorkShape /\ answers \in [Messages -> Nat] /\ open \subseteq Messages /\ pending \subseteq Messages
  BY <1>2, HolderKnows
<1>4. /\ work'[h].pc = "follow" /\ CallTypes(work'[h]) /\ work'[h].batch = {}
      /\ \A g \in Handlers : g # h => work'[g] = work[g]
  BY <1>1, <1>3, ToAckCall
<1>5. /\ answers' \in [Messages -> Nat] /\ \A m \in Messages : Covered(m) => Covered(m)'
  <2>1. CASE Answered(open)
    BY <1>1, <1>3, <2>1, AnsweredMore
  <2>2. CASE answers' = answers
    BY <1>1, <1>3, <2>2 DEF Covered
  <2> QED BY <1>1, <2>1, <2>2
<1>6. \A m \in pending : m \notin pending' => Covered(m)'
  BY <1>1, <1>3 DEF Answered, Covered
<1>7. Clean' => /\ \A m \in Messages : answers'[m] <= 1
                /\ \A m \in pending' : answers'[m] = 0
                /\ \A m \in open' : answers'[m] = 0
  <2> SUFFICES ASSUME Clean'
               PROVE  /\ \A m \in Messages : answers'[m] <= 1
                      /\ \A m \in pending' : answers'[m] = 0
                      /\ \A m \in open' : answers'[m] = 0
    OBVIOUS
  <2>1. /\ \A m \in Messages : answers[m] <= 1
        /\ \A m \in pending : answers[m] = 0
        /\ \A m \in open : answers[m] = 0
    BY <1>1, <1>2, HolderKnows DEF Clean
  <2> QED BY <1>1, <1>3, <2>1 DEF Answered
<1>8. open' \subseteq Messages /\ pending' \subseteq pending /\ (~durable => open' = {})
  BY <1>1, <1>3 DEF ListInv, Modes
<1>13. \A m \in Messages : stage[m] = "new" =>
        answers'[m] = 0 /\ m \notin open' /\ m \notin work'[h].batch
  BY <1>1, <1>2, <1>4, HolderKnows DEF Answered
<1> QED BY <1>13, <1>1, <1>2, <1>4, <1>5, <1>6, <1>7, <1>8, ByHolder

-----------------------------------------------------------------------------
(* The other steps. *)

LEMMA IdleTypes == CallTypes(Idle) /\ Idle.pc = "idle" /\ Idle.batch = {}
  BY DEF CallTypes, Idle

LEMMA EndsAside ==
  ASSUME ListInv, LockInv', NEW h \in Handlers, NEW q, NEW ms, NEW failed, EndJob(h, q, failed, ms),
         work[h].pc \notin {"ack", "dropack"}, UNCHANGED <<stage, pending, answers, dropped, open, durable>>
  PROVE  ListInv'
<1>1. /\ WorkShape /\ work' = [work EXCEPT ![h] = Idle] /\ mishaps \subseteq mishaps'
  BY DEF ListInv, LockInv, EndJob
<1>2. work'[h] = Idle /\ \A g \in Handlers : g # h => work'[g] = work[g]
  BY <1>1 DEF WorkShape
<1> QED BY <1>1, <1>2, IdleTypes, ListAside DEF ListInv, ListTypes

LEMMA CallAside ==
  ASSUME ListInv, LockInv', NEW h \in Handlers,
         \/ AcquireProcessingLock(h) \/ ScheduleLockRetryCheck(h) \/ NothingPending(h)
         \/ ReadFails(h) \/ ScheduleQuietWindowRetryCheck(h) \/ CheckAndProcessNewMessages(h)
  PROVE  ListInv'
<1>1. WorkShape /\ CallTypes(work[h])
  BY DEF ListInv, LockInv, ListTypes
<1>2. /\ UNCHANGED <<stage, pending, answers, dropped, open, durable>>
      /\ work[h].pc \notin {"ack", "dropack"}
  BY DEF AcquireProcessingLock, ScheduleLockRetryCheck, NothingPending, ReadFails,
     ScheduleQuietWindowRetryCheck, CheckAndProcessNewMessages, At, chat, history
<1>3. \/ \E q, failed, ms : EndJob(h, q, failed, ms)
      \/ mishaps' = mishaps /\ \E p \in {"window", "busy", "recheck"} : Goto(h, p)
  BY DEF AcquireProcessingLock, ScheduleLockRetryCheck, NothingPending, ReadFails,
     ScheduleQuietWindowRetryCheck, CheckAndProcessNewMessages, Ends, Throws, chat, history
<1>4. CASE \E q, failed, ms : EndJob(h, q, failed, ms)
  BY <1>2, <1>4, EndsAside
<1>5. CASE mishaps' = mishaps /\ \E p \in {"window", "busy", "recheck"} : Goto(h, p)
  <2>1. PICK p \in {"window", "busy", "recheck"} : Goto(h, p)
    BY <1>5
  <2>2. /\ work'[h].pc = p /\ CallTypes(work'[h]) /\ work'[h].batch \subseteq work[h].batch
        /\ \A g \in Handlers : g # h => work'[g] = work[g]
    BY <1>1, <2>1 DEF Goto, WorkShape, CallTypes
  <2> QED BY <1>2, <1>5, <2>2, ListAside DEF ListInv, ListTypes
<1> QED BY <1>3, <1>4, <1>5

LEMMA PushList ==
  ASSUME ListInv, LockInv', NEW m \in Messages, Push(m)
  PROVE  ListInv'
<1>1. /\ stage[m] = "new" /\ (\A n \in 1 .. m - 1 : stage[n] # "new")
      /\ stage' = [stage EXCEPT ![m] = "pushed"] /\ pending' = pending \cup {m}
      /\ UNCHANGED <<durable, open, work, answers, dropped, mishaps>>
  BY DEF Push, history
<1>2. Messages \subseteq Nat /\ pending \subseteq Messages /\ m \in Nat
  BY MergeAssumption DEF Messages, MergeAssumption, ListInv, ListTypes
<1>3. \A k \in pending : k < m
  <2> SUFFICES ASSUME NEW k \in pending, ~(k < m) PROVE FALSE
    OBVIOUS
  <2>1. stage[k] # "new" /\ k \in Messages /\ k # m
    BY <1>1, <1>2 DEF ListInv, ArrivalOrder
  <2>2. m < k
    BY <1>2, <2>1
  <2> QED BY <1>1, <2>1, <2>2 DEF ListInv, ArrivalOrder
<1>4. /\ \A n : \A k \in pending : k \in From(n)' <=> k \in From(n)
      /\ \A n \in Nat : n <= Cardinality(pending) => m \in From(n)'
      /\ Cardinality(pending') = Cardinality(pending) + 1 /\ Cardinality(pending) \in Nat
  BY <1>1, <1>2, <1>3, CountPushed, ListFinite
<1>5. \A n \in Nat : n <= Cardinality(pending) => n <= Cardinality(pending')
  BY <1>4
<1>6. ListTypes'
  BY <1>1 DEF ListInv, ListTypes
<1>7. ArrivalOrder'
  <2>1. \A n \in Messages : stage'[n] = "new" <=> stage[n] = "new" /\ n # m
    BY <1>1 DEF ListInv, ListTypes
  <2>2. \A k, n \in Messages : stage[k] = "new" /\ k < n /\ n = m => FALSE
    <3> SUFFICES ASSUME NEW k \in Messages, stage[k] = "new", k < m PROVE FALSE
      OBVIOUS
    <3>1. k \in 1 .. m - 1
      BY <1>2 DEF Messages
    <3> QED BY <1>1, <3>1
  <2>3. \A k, n \in Messages : stage'[k] = "new" /\ k < n => stage'[n] = "new"
    BY <2>1, <2>2 DEF ListInv, ArrivalOrder
  <2>4. \A k \in pending' : stage'[k] # "new"
    BY <1>1, <1>2, <2>1 DEF ListInv, ArrivalOrder
  <2> QED BY <2>3, <2>4 DEF ArrivalOrder
<1>8. Modes' /\ Unseen'
  BY <1>1 DEF ListInv, ListTypes, Modes, Unseen
<1>9. \A n : Covered(n)' <=> Covered(n)
  BY <1>1 DEF Covered
<1>10. Unread'
  <2> SUFFICES ASSUME Counted' PROVE Unread'
    BY DEF Unread
  <2>1. Counted
    BY <1>1 DEF Counted
  <2>2. \A n \in Messages : stage'[n] # "new" /\ n \notin pending' => Covered(n)'
    <3>1. \A n \in Messages : n # m => stage'[n] = stage[n]
      BY <1>1 DEF ListInv, ListTypes
    <3> QED BY <1>1, <1>9, <2>1, <3>1 DEF ListInv, Unread
  <2>3. ASSUME NEW h \in Handlers, work'[h].pc = "turn" PROVE TurnSaw(work[h])'
    <3>1. TurnSaw(work[h]) /\ CallTypes(work[h])
      BY <1>1, <2>1, <2>3 DEF ListInv, ListTypes, Unread
    <3> DEFINE t == work[h].taken  f == Cardinality(work[h].first)
    <3>2. /\ t \in Nat /\ t <= Cardinality(pending) /\ f \in Nat /\ f <= Cardinality(pending)
          /\ \A k \in pending : /\ k \notin From(t) => k \in work[h].batch
                                /\ k \notin From(f) => k \in work[h].first
      BY <3>1 DEF TurnSaw, CallTypes
    <3> HIDE DEF t, f
    <3>3. /\ t <= Cardinality(pending') /\ f <= Cardinality(pending')
          /\ \A k \in pending' : /\ k \notin From(t)' => k \in work[h].batch
                                 /\ k \notin From(f)' => k \in work[h].first
      <4>1. t' = t /\ f' = f
        BY <1>1 DEF t, f
      <4> QED BY <1>1, <1>4, <1>5, <3>2, <4>1 DEF From
    <3>4. \A k \in pending' : /\ k \notin From(work[h].taken)' => k \in work[h].batch
                              /\ k \notin From(Cardinality(work[h].first))' => k \in work[h].first
      BY <1>1, <3>3 DEF t, f, From
    <3>5. f \in Nat /\ f = Cardinality(work[h].first) /\ t = work[h].taken
      BY <3>2 DEF f, t
    <3> QED BY <1>1, <3>3, <3>4, <3>5 DEF TurnSaw
  <2>4. ASSUME NEW h \in Handlers, work'[h].pc \in {"ack", "dropack"} PROVE AckSaw(work[h])'
    <3>1. AckSaw(work[h]) /\ work[h].taken \in Nat
      BY <1>1, <2>1, <2>4 DEF ListInv, ListTypes, Unread, CallTypes
    <3>2. \A k \in pending : k \in From(work[h].taken)' <=> k \in From(work[h].taken)
      BY <1>1, <1>4 DEF From
    <3>3. m \in From(work[h].taken)' /\ work[h].taken <= Cardinality(pending')
      BY <1>1, <1>4, <1>5, <3>1 DEF From, AckSaw
    <3> QED BY <1>1, <1>9, <3>1, <3>2, <3>3 DEF AckSaw
  <2> QED BY <2>2, <2>3, <2>4 DEF Unread
<1>11. Single'
  <2> SUFFICES ASSUME Clean' PROVE Single'
    BY DEF Single
  <2>1. Clean /\ Clean'
    BY <1>1 DEF Clean
  <2>3. answers[m] = 0 /\ \A h \in Handlers : m \notin work[h].batch
    BY <1>1 DEF ListInv, Unseen
  <2>4. \A k \in pending' : answers'[k] = 0 \/ Acked(k)'
    <3>1. ASSUME NEW k \in pending, Acked(k) PROVE Acked(k)'
      <4>1. PICK h \in Handlers : work[h].pc = "ack" /\ k \notin From(work[h].taken)
        BY <3>1 DEF Acked
      <4>2. work'[h].pc = "ack" /\ k \notin From(work[h].taken)'
        <5>1. k \in From(work[h].taken)' <=> k \in From(work[h].taken)
          BY <1>1, <1>4, <3>1 DEF From
        <5>2. work'[h].pc = "ack"
          BY <1>1, <4>1
        <5> QED BY <4>1, <5>1, <5>2
      <4> QED BY <4>2 DEF Acked
    <3>2. \A k \in pending : answers[k] = 0 \/ Acked(k)
      BY <2>1 DEF ListInv, Single
    <3> QED BY <1>1, <2>3, <3>1, <3>2
  <2>5. \A h \in Handlers : work'[h].pc = "turn" => TurnTakes(work[h])'
    <3> SUFFICES ASSUME NEW h \in Handlers, work'[h].pc = "turn" PROVE TurnTakes(work[h])'
      OBVIOUS
    <3>1. TurnTakes(work[h]) /\ m \notin work[h].batch /\ work' = work
      BY <1>1, <2>1, <2>3 DEF ListInv, Single
    <3>2. \A k \in work[h].batch :
            /\ answers'[k] = 0
            /\ k \in pending' => k \notin From(work[h].taken)'
            /\ k \in pending' /\ k \in work[h].first => k \notin From(Cardinality(work[h].first))'
      <4> SUFFICES ASSUME NEW k \in work[h].batch
                   PROVE  /\ answers'[k] = 0
                          /\ k \in pending' => k \notin From(work[h].taken)'
                          /\ k \in pending' /\ k \in work[h].first =>
                               k \notin From(Cardinality(work[h].first))'
        OBVIOUS
      <4>1. /\ answers'[k] = 0 /\ k # m /\ (k \in pending' => k \in pending)
            /\ k \in pending => k \notin From(work[h].taken)
            /\ k \in pending /\ k \in work[h].first => k \notin From(Cardinality(work[h].first))
        BY <1>1, <3>1 DEF TurnTakes
      <4>2. k \in pending => /\ k \in From(work[h].taken)' <=> k \in From(work[h].taken)
                             /\ k \in From(Cardinality(work[h].first))' <=>
                                  k \in From(Cardinality(work[h].first))
        BY <1>1, <1>4 DEF From
      <4> QED BY <4>1, <4>2
    <3> QED BY <3>1, <3>2 DEF TurnTakes
  <2> QED BY <1>1, <2>1, <2>4, <2>5 DEF ListInv, Single
<1> QED BY <1>6, <1>7, <1>8, <1>10, <1>11 DEF ListInv

LEMMA ExpireList ==
  ASSUME ListInv, LockInv', ListExpires
  PROVE  ListInv'
<1>1. /\ pending' = {} /\ mishaps' = mishaps \cup {"expired"}
      /\ UNCHANGED <<stage, durable, open, work, answers, dropped>>
  BY DEF ListExpires, Mishap
<1>2. ListTypes' /\ ArrivalOrder' /\ Unseen' /\ Modes'
  BY <1>1 DEF ListInv, ListTypes, ArrivalOrder, Unseen, Modes
<1>3. Unread'
  BY <1>1 DEF Unread, Counted
<1>4. Single'
  <2> SUFFICES ASSUME Clean' PROVE Single'
    BY DEF Single
  <2>1. Clean
    BY <1>1 DEF Clean
  <2>2. \A h \in Handlers : work'[h].pc = "turn" => TurnTakes(work[h])'
    BY <1>1, <2>1 DEF ListInv, Single, TurnTakes
  <2> QED BY <1>1, <2>1, <2>2 DEF ListInv, Single
<1> QED BY <1>2, <1>3, <1>4 DEF ListInv

\* The scan works alone, too.
LEMMA RecoverList ==
  ASSUME ListInv, LockInv', RecoveryResolves
  PROVE  ListInv'
<1>1. /\ lock = Scan /\ Answered(open) /\ pending' = pending \ open /\ open' = {}
      /\ UNCHANGED <<stage, durable, work, dropped, mishaps>>
  BY DEF RecoveryResolves
<1>2. /\ answers \in [Messages -> Nat] /\ open \subseteq Messages /\ pending \subseteq Messages
      /\ stage \in [Messages -> {"new", "pushed", "queued", "reported", "cut"}]
  BY DEF ListInv, ListTypes
<1>3. answers' \in [Messages -> Nat] /\ \A m \in Messages : Covered(m) => Covered(m)'
  BY <1>1, <1>2, AnsweredMore
<1>4. \A m \in Messages : answers'[m] = IF m \in open THEN answers[m] + 1 ELSE answers[m]
  BY <1>1 DEF Answered
<1>5. ListTypes' /\ ArrivalOrder' /\ Unseen' /\ Modes'
  <2>1. ListTypes' /\ ArrivalOrder' /\ Modes'
    BY <1>1, <1>3 DEF ListInv, ListTypes, ArrivalOrder, Modes
  <2>2. Unseen'
    BY <1>1, <1>4 DEF ListInv, Unseen
  <2> QED BY <2>1, <2>2
<1>6. "lease" \notin mishaps => \A h \in Handlers : work'[h].pc \notin {"turn", "ack", "dropack"}
  BY <1>1, Alone DEF ListInv, Critical
<1>7. Unread'
  <2>1. \A m \in pending : m \notin pending' => Covered(m)'
    BY <1>1, <1>2, <1>4 DEF Covered
  <2> QED BY <1>1, <1>3, <1>6, <2>1 DEF ListInv, Unread, Counted
<1>8. Single'
  <2> SUFFICES ASSUME Clean' PROVE Single'
    BY DEF Single
  <2>1. Clean /\ "lease" \notin mishaps
    BY <1>1 DEF Clean
  <2>2. /\ \A m \in Messages : answers[m] <= 1
        /\ \A m \in pending : answers[m] = 0
        /\ \A m \in open : answers[m] = 0
    BY <1>1, <1>6, <2>1 DEF ListInv, Single, Acked
  <2>3. /\ \A m \in Messages : answers'[m] <= 1
        /\ \A m \in pending' : answers'[m] = 0
    BY <1>1, <1>2, <1>4, <2>2
  <2> QED BY <1>1, <1>6, <2>1, <2>3 DEF Single
<1> QED BY <1>5, <1>7, <1>8 DEF ListInv

LEMMA ListStep == ListInv /\ [Next]_vars => ListInv'
<1> SUFFICES ASSUME ListInv, [Next]_vars PROVE ListInv'
  OBVIOUS
<1>0. LockInv' /\ stage \in [Messages -> {"new", "pushed", "queued", "reported", "cut"}]
  BY LockStep DEF ListInv, ListTypes
<1>1. ASSUME NEW h \in Handlers, Handle(h) PROVE ListInv'
  BY <1>0, <1>1, CallAside, ClaimList, DropList, ReplayList, AnswerList, AckList, OpenList,
     DurableList DEF Handle
<1>2. ASSUME NEW h \in Handlers, NEW j \in JobIds, StartJob(h, j) PROVE ListInv'
  <2> DEFINE v == [Idle EXCEPT !.pc = "lock", !.job = j]
  <2>1. /\ work[h].pc = "idle" /\ work' = [work EXCEPT ![h] = v]
        /\ UNCHANGED <<stage, pending, answers, dropped, open, durable, mishaps>>
    BY <1>2 DEF StartJob, chat, history
  <2>2. v.pc = "lock" /\ v.batch = {} /\ CallTypes(v)
    BY DEF Idle, CallTypes
  <2> HIDE DEF v
  <2>3. work'[h] = v /\ \A g \in Handlers : g # h => work'[g] = work[g]
    BY <2>1 DEF ListInv, LockInv, WorkShape
  <2> QED BY <1>0, <2>1, <2>2, <2>3, ListAside
<1>3. ASSUME NEW m \in Messages, Push(m) PROVE ListInv'
  BY <1>0, <1>3, PushList
<1>4. ASSUME NEW m \in Messages, Enqueue(m) PROVE ListInv'
  <2>1. /\ UNCHANGED <<pending, answers, dropped, open, durable, work, mishaps>>
        /\ stage[m] = "pushed"
        /\ stage' = [stage EXCEPT ![m] = "queued"] \/ stage' = [stage EXCEPT ![m] = "reported"]
    BY <1>4 DEF Enqueue, chat, history
  <2>2. /\ stage' \in [Messages -> {"new", "pushed", "queued", "reported", "cut"}]
        /\ \A n \in Messages : stage'[n] = "new" <=> stage[n] = "new"
    BY <1>0, <2>1
  <2> QED BY <1>0, <2>1, <2>2, ListAside
<1>5. CASE Crash
  <2>1. /\ UNCHANGED <<pending, answers, dropped, open, durable>> /\ mishaps \subseteq mishaps'
        /\ work' = [h \in Handlers |-> Idle] /\ "crash" \in mishaps'
        /\ stage' = [m \in Messages |-> IF stage[m] = "pushed" THEN "cut" ELSE stage[m]]
    BY <1>5 DEF Crash
  <2>2. /\ stage' \in [Messages -> {"new", "pushed", "queued", "reported", "cut"}]
        /\ \A n \in Messages : stage'[n] = "new" <=> stage[n] = "new"
    BY <1>0, <2>1
  <2>3. \A h \in Handlers : work'[h] = Idle
    BY <2>1
  <2> QED BY <1>0, <2>1, <2>2, <2>3, IdleTypes, ListAside
<1>6. CASE ListExpires
  BY <1>0, <1>6, ExpireList
<1>7. CASE RecoveryResolves
  BY <1>0, <1>7, RecoverList
<1>8. CASE RecoveryLocks \/ WindowElapses \/ Tick \/ OrphanExpires \/ LeaseLapses \/ UNCHANGED vars
  <2>1. /\ UNCHANGED <<stage, pending, answers, dropped, open, durable, work>>
        /\ mishaps \subseteq mishaps'
    BY <1>8 DEF RecoveryLocks, WindowElapses, Tick, OrphanExpires, LeaseLapses, vars, mergeVars,
       chat, history, Mishap
  <2> QED BY <1>0, <2>1, ListAside
<1> QED BY <1>1, <1>2, <1>3, <1>4, <1>5, <1>6, <1>7, <1>8 DEF Next, Recover

-----------------------------------------------------------------------------
(* What follows. *)

\* No message leaves the list before a turn covered it, for any number of messages, handlers and
\* replays: what a call counts off is what it has read, although the list grows meanwhile
\* (claimPendingSnapshot, ackPendingMessages).
THEOREM NoneTrimmedUnreadHolds == Spec => []NoneTrimmedUnread
<1>1. ListInv => NoneTrimmedUnread
  BY DEF ListInv, Unread, Counted, NoneTrimmedUnread
<1> QED BY <1>1, ListInit, ListStep, PTL DEF Spec

\* No message is answered by two turns as long as acknowledgements arrive and nobody dies or
\* loses the chat, in both modes and whatever the recovery scan resolves.
THEOREM AnsweredOnceHolds == Spec => []AnsweredOnce
<1>1. ListInv => AnsweredOnce
  BY DEF ListInv, ListTypes, Single, Clean, AnsweredOnce
<1> QED BY <1>1, ListInit, ListStep, PTL DEF Spec
-----------------------------------------------------------------------------
(* Types. *)

CallRecords == [pc: Points, job: JobIds \cup {Check(0)}, first: SUBSET Messages, batch: SUBSET Messages,
                taken: 0 .. Arrivals, round: Nat]
RoundOK(w) == w.round <= (IF w.pc \in {"ack", "dropack"} THEN MaxAcks - 1 ELSE MaxReplays)

CallsOK == work \in [Handlers -> CallRecords] /\ \A h \in Handlers : RoundOK(work[h])
ChatOK ==
  /\ stage \in [Messages -> {"new", "pushed", "queued", "reported", "cut"}]
  /\ pending \subseteq Messages /\ quiet \in BOOLEAN
  /\ lock \in Handlers \cup {Free, Orphan, Scan}
  /\ durable \in BOOLEAN /\ open \subseteq Messages /\ dropped \subseteq Messages
  /\ answers \in [Messages -> Nat] /\ mishaps \subseteq Mishaps /\ faults \in Nat
QueueOK == jobs \in [JobIds -> Jobs] /\ bucket \in 0 .. Buckets - 1

TypeInv == CallsOK /\ ChatOK /\ QueueOK

LEMMA Bounds ==
  /\ Arrivals \in Nat /\ Buckets \in Nat /\ Buckets > 1 /\ MaxReplays \in Nat
  /\ MaxAcks \in Nat /\ MaxAcks >= 1 /\ MaxAttempts \in Nat /\ MaxAttempts >= 1 /\ MaxStalls \in Nat
  BY MergeAssumption DEF MergeAssumption

LEMMA SizeOfList == ASSUME NEW S, S \subseteq Messages PROVE Cardinality(S) \in 0 .. Arrivals
<1>1. IsFiniteSet(Messages) /\ Cardinality(Messages) = Arrivals
  BY Bounds, FS_Interval DEF Messages
<1>2. IsFiniteSet(S) /\ Cardinality(S) <= Cardinality(Messages)
  BY <1>1, FS_Subset
<1> QED BY <1>1, <1>2, FS_CardinalityType, Bounds

LEMMA IdleCallOK == Idle \in CallRecords /\ RoundOK(Idle) /\ Idle.pc = "idle"
  BY Bounds DEF Idle, CallRecords, RoundOK, Points

LEMMA JobsHere == NoJob \in Jobs /\ NewJob \in Jobs /\ \A j, q : q \in [JobIds -> Jobs] => [q EXCEPT ![j] = NewJob] \in [JobIds -> Jobs]
<1>1. NoJob \in Jobs /\ NewJob \in Jobs
  BY Bounds DEF NoJob, NewJob, Jobs
<1> QED BY <1>1

LEMMA AddedOK ==
  ASSUME QueueOK
  PROVE  (\A j : Added(j) \in [JobIds -> Jobs]) /\ LookAgain \in [JobIds -> Jobs] /\ jobs \in [JobIds -> Jobs]
  BY JobsHere DEF QueueOK, Added, LookAgain

\* A job put back by the stall check keeps its type.
LEMMA StalledJob ==
  ASSUME NEW x \in Jobs, x.stalls + 1 \in 0 .. MaxStalls
  PROVE  [x EXCEPT !.st = "delayed", !.stalls = @ + 1] \in Jobs
  BY DEF Jobs

LEMMA TypesInitially == Init => TypeInv
<1> SUFFICES ASSUME Init PROVE TypeInv
  OBVIOUS
<1>1. CallsOK
  BY IdleCallOK DEF Init, CallsOK
<1>2. ChatOK
  BY DEF Init, ChatOK, Mishaps
<1>3. QueueOK
  BY JobsHere, Bounds DEF Init, QueueOK
<1> QED BY <1>1, <1>2, <1>3 DEF TypeInv

\* How the call of one handler may change.
LEMMA GotoOK ==
  ASSUME CallsOK, NEW h \in Handlers, NEW p \in Points, work[h].pc \notin {"ack", "dropack"},
         p \notin {"ack", "dropack"}, Goto(h, p)
  PROVE  CallsOK'
  BY Bounds DEF CallsOK, Goto, CallRecords, RoundOK

LEMMA ToAckOK ==
  ASSUME CallsOK, NEW h \in Handlers, NEW p \in Points, NEW n \in 0 .. Arrivals, ToAck(h, p, n)
  PROVE  CallsOK'
<1> DEFINE c == [Idle EXCEPT !.pc = p, !.job = work[h].job, !.taken = n]
<1>1. c \in CallRecords /\ c.round = 0
  BY IdleCallOK DEF CallsOK, CallRecords, Idle
<1>2. RoundOK(c)
  BY <1>1, Bounds DEF RoundOK
<1>3. work' = [work EXCEPT ![h] = c]
  BY DEF ToAck
<1> HIDE DEF c
<1> QED BY <1>1, <1>2, <1>3 DEF CallsOK

LEMMA NextRound ==
  ASSUME CallsOK, NEW h \in Handlers, work[h].pc \in {"ack", "dropack"}, ~LastTry(h),
         work' = [work EXCEPT ![h].round = @ + 1]
  PROVE  CallsOK'
  BY Bounds DEF CallsOK, CallRecords, RoundOK, LastTry

LEMMA FromOK == \A n : From(n) \subseteq pending
  BY DEF From

LEMMA AnsweredOK == ASSUME ChatOK, NEW S, Answered(S) PROVE answers' \in [Messages -> Nat]
  BY DEF ChatOK, Answered

LEMMA FaultOK == ASSUME ChatOK, Fault \/ UNCHANGED faults PROVE faults' \in Nat
  BY DEF ChatOK, Fault

LEMMA EndOK ==
  ASSUME CallsOK, NEW h \in Handlers, NEW q \in [JobIds -> Jobs], NEW failed \in BOOLEAN, NEW ms \in SUBSET Mishaps,
         EndJob(h, q, failed, ms), mishaps \subseteq Mishaps
  PROVE  CallsOK' /\ jobs' \in [JobIds -> Jobs] /\ mishaps' \subseteq Mishaps
<1> DEFINE j == work[h].job
           last == q[j].attempts + 1 >= MaxAttempts
           r == IF ~failed \/ last THEN NoJob ELSE [q[j] EXCEPT !.st = "delayed", !.attempts = @ + 1]
<1>1. work' = [work EXCEPT ![h] = Idle] /\ jobs' = [q EXCEPT ![j] = r]
      /\ mishaps' \subseteq mishaps \cup ms \cup {"abandoned"}
  BY DEF EndJob
<1>2. CallsOK'
  BY <1>1, IdleCallOK DEF CallsOK
<1>3. j \in JobIds => r \in Jobs
  <2> SUFFICES ASSUME j \in JobIds PROVE r \in Jobs
    OBVIOUS
  <2>1. PICK x \in Jobs : x = q[j]
    OBVIOUS
  <2>2. CASE ~failed \/ last
    BY <2>2, JobsHere
  <2>3. CASE ~(~failed \/ last)
    <3>1. x.attempts \in Nat /\ x.stalls \in 0 .. MaxStalls /\ ~(x.attempts + 1 >= MaxAttempts)
      BY <2>1, <2>3, Bounds DEF Jobs
    <3>2. r = [st |-> "delayed", attempts |-> x.attempts + 1, stalls |-> x.stalls]
      BY <2>1, <2>3 DEF Jobs
    <3>3. x.attempts + 1 \in 0 .. MaxAttempts
      BY <3>1, Bounds
    <3> HIDE DEF r
    <3> QED BY <3>1, <3>2, <3>3 DEF Jobs
  <2> QED BY <2>2, <2>3
<1> HIDE DEF r, j
<1>4. jobs' \in [JobIds -> Jobs]
  BY <1>1, <1>3
<1> QED BY <1>1, <1>2, <1>4 DEF Mishaps

LEMMA UnlockOK == ASSUME ChatOK, NEW h \in Handlers, Unlock(h) PROVE lock' \in Handlers \cup {Free, Orphan, Scan}
  BY DEF ChatOK, Unlock

LEMMA EndsOK ==
  ASSUME TypeInv, NEW h \in Handlers, NEW q \in [JobIds -> Jobs], NEW ms \in SUBSET Mishaps,
         \/ Ends(h, q) \/ (Throws(h, ms) /\ (Fault \/ UNCHANGED faults))
  PROVE  /\ CallsOK' /\ jobs' \in [JobIds -> Jobs] /\ mishaps' \subseteq Mishaps
         /\ lock' \in Handlers \cup {Free, Orphan, Scan} /\ faults' \in Nat
<1>1. CallsOK /\ ChatOK /\ mishaps \subseteq Mishaps /\ jobs \in [JobIds -> Jobs]
  BY DEF TypeInv, ChatOK, QueueOK
<1>2. CASE Ends(h, q)
  <2>1. {} \in SUBSET Mishaps /\ FALSE \in BOOLEAN /\ EndJob(h, q, FALSE, {})
    BY <1>2 DEF Ends
  <2>2. CallsOK' /\ jobs' \in [JobIds -> Jobs] /\ mishaps' \subseteq Mishaps
    BY <1>1, <2>1, EndOK
  <2>3. CASE Unlock(h) /\ UNCHANGED faults
    BY <1>1, <2>2, <2>3, UnlockOK, FaultOK
  <2>4. CASE Fault /\ lock' = Orphan
    BY <1>1, <2>2, <2>4, FaultOK
  <2> QED BY <1>2, <2>3, <2>4 DEF Ends
<1>3. CASE Throws(h, ms) /\ (Fault \/ UNCHANGED faults)
  BY <1>1, <1>3, EndOK, UnlockOK, FaultOK DEF Throws
<1> QED BY <1>2, <1>3

LEMMA HandleTypes == ASSUME TypeInv, NEW h \in Handlers, Handle(h) PROVE TypeInv'
<1>0. CallsOK /\ ChatOK /\ QueueOK
  BY DEF TypeInv
<1>1. CASE AcquireProcessingLock(h)
  <2>1. CallsOK'
    BY <1>0, <1>1, GotoOK DEF AcquireProcessingLock, At, Points
  <2>2. lock' \in Handlers \cup {Free, Orphan, Scan} /\ faults' \in Nat
    BY <1>0, <1>1, FaultOK DEF AcquireProcessingLock, ChatOK
  <2> QED BY <1>0, <1>1, <2>1, <2>2 DEF AcquireProcessingLock, TypeInv, ChatOK, QueueOK, queue, history
<1>2. CASE ScheduleLockRetryCheck(h) \/ ScheduleQuietWindowRetryCheck(h) \/ ReadFails(h)
  <2>1. PICK q \in [JobIds -> Jobs] : Ends(h, q) \/ (Throws(h, {}) /\ Fault)
    BY <1>0, <1>2, AddedOK DEF ScheduleLockRetryCheck, ScheduleQuietWindowRetryCheck, ReadFails
  <2>2. UNCHANGED <<stage, bucket, pending, quiet, durable, open, answers, dropped>>
    BY <1>2 DEF ScheduleLockRetryCheck, ScheduleQuietWindowRetryCheck, ReadFails
  <2> QED BY <1>0, <2>1, <2>2, EndsOK DEF TypeInv, ChatOK, QueueOK
<1>3. CASE ClaimPendingSnapshot(h)
  <2>1. work' = [work EXCEPT ![h] = [work[h] EXCEPT !.pc = "turn", !.first = pending, !.batch = pending, !.taken = Cardinality(pending)]]
    BY <1>0, <1>3 DEF ClaimPendingSnapshot, CallsOK
  <2>2. work[h].pc = "window" /\ pending \subseteq Messages /\ Cardinality(pending) \in 0 .. Arrivals
    BY <1>0, <1>3, SizeOfList DEF ClaimPendingSnapshot, At, ChatOK
  <2>3. CallsOK'
    BY <1>0, <2>1, <2>2 DEF CallsOK, CallRecords, RoundOK, Points
  <2> QED BY <1>0, <1>3, <2>3 DEF ClaimPendingSnapshot, TypeInv, ChatOK, QueueOK, chat, queue, history
<1>4. CASE NothingPending(h)
  <2>1. CASE Ends(h, jobs) /\ UNCHANGED <<pending, quiet, durable, open>>
    BY <1>0, <1>4, <2>1, EndsOK DEF NothingPending, TypeInv, ChatOK, QueueOK
  <2>2. CASE Goto(h, "recheck") /\ UNCHANGED <<chat, jobs, mishaps, faults, slotVars>>
    BY <1>0, <1>4, <2>2, GotoOK DEF NothingPending, At, Points, TypeInv, ChatOK, QueueOK, chat
  <2> QED BY <1>4, <2>1, <2>2 DEF NothingPending
<1>5. CASE DropIfHostingPaused(h)
  <2>1. CallsOK' /\ dropped' \subseteq Messages
    BY <1>0, <1>5, ToAckOK DEF DropIfHostingPaused, CallsOK, CallRecords, ChatOK, Points
  <2> QED BY <1>0, <1>5, <2>1 DEF DropIfHostingPaused, TypeInv, ChatOK, QueueOK, chat, queue
<1>6. CASE AckDropped(h)
  <2>1. pending' \subseteq Messages
    BY <1>0, <1>6, FromOK DEF AckDropped, Tried, ChatOK
  <2>2. CASE Ends(h, jobs) \/ (Throws(h, {"unacked"}) /\ Tried(h))
    <3>1. {"unacked"} \in SUBSET Mishaps /\ (Tried(h) => Fault \/ UNCHANGED faults)
      BY DEF Mishaps, Tried
    <3> QED BY <1>0, <1>6, <2>1, <2>2, <3>1, EndsOK DEF AckDropped, TypeInv, ChatOK, QueueOK
  <2>3. CASE /\ Tried(h) /\ ~LastTry(h)
             /\ work' = [work EXCEPT ![h].round = @ + 1] /\ mishaps' = mishaps \cup Echo
             /\ UNCHANGED <<lock, jobs, slotVars>>
    <3>1. CallsOK'
      BY <1>0, <1>6, <2>3, NextRound DEF AckDropped, At
    <3>2. faults' \in Nat /\ mishaps' \subseteq Mishaps
      BY <1>0, <2>3, FaultOK DEF Tried, Echo, Mishaps, ChatOK
    <3> QED BY <1>0, <1>6, <2>1, <2>3, <3>1, <3>2 DEF AckDropped, TypeInv, ChatOK, QueueOK
  <2> QED BY <1>6, <2>2, <2>3 DEF AckDropped
<1>7. CASE Replay(h)
  <2>1. work' = [work EXCEPT ![h] = [work[h] EXCEPT !.batch = @ \cup New(h), !.taken = Cardinality(pending), !.round = @ + 1]]
    BY <1>0, <1>7 DEF Replay, CallsOK
  <2>2. /\ work[h].pc = "turn" /\ work[h].round < MaxReplays /\ New(h) \subseteq Messages
        /\ Cardinality(pending) \in 0 .. Arrivals
    BY <1>0, <1>7, SizeOfList, FromOK DEF Replay, At, ChatOK, New
  <2>3. CallsOK'
    <3> DEFINE c == [work[h] EXCEPT !.batch = @ \cup New(h), !.taken = Cardinality(pending), !.round = @ + 1]
    <3>1. work[h] \in CallRecords
      BY <1>0 DEF CallsOK
    <3>2. work[h].batch \cup New(h) \in SUBSET Messages /\ work[h].round + 1 \in Nat
      BY <2>2, <3>1 DEF CallRecords
    <3>3. c \in CallRecords /\ c.pc = "turn" /\ c.round = work[h].round + 1
      <4>1. PICK b \in SUBSET Messages, n \in Nat, t \in 0 .. Arrivals, x \in CallRecords :
              b = work[h].batch \cup New(h) /\ n = work[h].round + 1 /\ t = Cardinality(pending) /\ x = work[h]
        BY <2>2, <3>1, <3>2
      <4>2. c = [x EXCEPT !.batch = b, !.taken = t, !.round = n]
        BY <4>1
      <4> HIDE DEF c
      <4>3. c \in CallRecords /\ c.pc = x.pc /\ c.round = n
        <5>1. /\ [x EXCEPT !.batch = b, !.taken = t, !.round = n] \in CallRecords
              /\ [x EXCEPT !.batch = b, !.taken = t, !.round = n].pc = x.pc
              /\ [x EXCEPT !.batch = b, !.taken = t, !.round = n].round = n
          BY <4>1 DEF CallRecords
        <5> QED BY <4>2, <5>1
      <4> QED BY <2>2, <4>1, <4>3
    <3>4. RoundOK(c)
      BY <2>2, <3>1, <3>3, Bounds DEF RoundOK, CallRecords
    <3>5. work' = [work EXCEPT ![h] = c]
      BY <2>1
    <3> HIDE DEF c
    <3> QED BY <1>0, <3>3, <3>4, <3>5 DEF CallsOK
  <2> QED BY <1>0, <1>7, <2>3 DEF Replay, TypeInv, ChatOK, QueueOK, chat, queue, history
<1>8. CASE Answer(h)
  <2>1. CallsOK' /\ answers' \in [Messages -> Nat]
    BY <1>0, <1>8, ToAckOK, AnsweredOK DEF Answer, CallsOK, CallRecords, Points
  <2> QED BY <1>0, <1>8, <2>1 DEF Answer, TypeInv, ChatOK, QueueOK, chat, queue
<1>9. CASE HandleProcessingError(h)
  <2>1. Fallen(h) \in 0 .. Arrivals
    BY <1>0, SizeOfList DEF Fallen, CallsOK, CallRecords
  <2>2. CallsOK' /\ answers' \in [Messages -> Nat] /\ faults' \in Nat /\ mishaps' \subseteq Mishaps
    <3>1. CallsOK' /\ faults' \in Nat
      BY <1>0, <1>9, <2>1, ToAckOK, FaultOK DEF HandleProcessingError, Points
    <3>2. answers' \in [Messages -> Nat]
      BY <1>0, <1>9, AnsweredOK DEF HandleProcessingError
    <3>3. mishaps' \subseteq Mishaps
      BY <1>0, <1>9 DEF HandleProcessingError, Mishap, Mishaps, ChatOK
    <3> QED BY <3>1, <3>2, <3>3
  <2> QED BY <1>0, <1>9, <2>2 DEF HandleProcessingError, TypeInv, ChatOK, QueueOK, chat, queue
<1>10. CASE AckPendingMessages(h)
  <2>1. pending' \subseteq Messages
    BY <1>0, <1>10, FromOK DEF AckPendingMessages, Tried, ChatOK
  <2>2. 0 \in 0 .. Arrivals
    BY Bounds
  <2>3. CallsOK'
    BY <1>0, <1>10, <2>2, ToAckOK, NextRound DEF AckPendingMessages, At, Points
  <2>4. faults' \in Nat
    BY <1>0, <1>10, FaultOK DEF AckPendingMessages, Tried
  <2>5. mishaps' \subseteq Mishaps
    BY <1>0, <1>10 DEF AckPendingMessages, Mishap, Echo, Mishaps, ChatOK
  <2> QED BY <1>0, <1>10, <2>1, <2>3, <2>4, <2>5 DEF AckPendingMessages, TypeInv, ChatOK, QueueOK, queue
<1>11. CASE OpenTurn(h)
  <2>1. 0 \in 0 .. Arrivals
    BY Bounds
  <2>2. CallsOK' /\ open' \subseteq Messages
    BY <1>0, <1>11, <2>1, ToAckOK, GotoOK DEF OpenTurn, At, CallsOK, CallRecords, ChatOK, Points
  <2> QED BY <1>0, <1>11, <2>2 DEF OpenTurn, TypeInv, ChatOK, QueueOK, queue, history
<1>12. CASE DurableTurn(h)
  <2>1. 0 \in 0 .. Arrivals
    BY Bounds
  <2>2. CallsOK'
    BY <1>0, <1>12, <2>1, ToAckOK DEF DurableTurn, Points
  <2>3. pending' \subseteq Messages /\ open' \subseteq Messages /\ answers' \in [Messages -> Nat] /\ faults' \in Nat
    BY <1>0, <1>12, AnsweredOK, FaultOK DEF DurableTurn, ChatOK
  <2> QED BY <1>0, <1>12, <2>2, <2>3 DEF DurableTurn, TypeInv, ChatOK, QueueOK, queue
<1>13. CASE CheckAndProcessNewMessages(h)
  <2>1. UNCHANGED <<stage, bucket, pending, quiet, durable, open, answers, dropped>>
    BY <1>13 DEF CheckAndProcessNewMessages
  <2>2. CASE Ends(h, LookAgain) \/ (Fault /\ Throws(h, {}))
    BY <1>0, <2>1, <2>2, EndsOK, AddedOK DEF TypeInv, ChatOK, QueueOK
  <2>3. CASE Fault /\ Unlock(h) /\ EndJob(h, jobs, FALSE, {"swallowed"})
    <3>1. {"swallowed"} \in SUBSET Mishaps
      BY DEF Mishaps
    <3>2. /\ CallsOK' /\ jobs' \in [JobIds -> Jobs] /\ mishaps' \subseteq Mishaps
          /\ lock' \in Handlers \cup {Free, Orphan, Scan} /\ faults' \in Nat
      BY <1>0, <2>3, <3>1, AddedOK, EndOK, UnlockOK, FaultOK DEF ChatOK
    <3> QED BY <1>0, <2>1, <3>2 DEF TypeInv, ChatOK, QueueOK
  <2> QED BY <1>13, <2>2, <2>3 DEF CheckAndProcessNewMessages
<1> QED BY <1>1, <1>2, <1>3, <1>4, <1>5, <1>6, <1>7, <1>8, <1>9, <1>10, <1>11, <1>12, <1>13 DEF Handle

LEMMA TypesStep == TypeInv /\ [Next]_vars => TypeInv'
<1> SUFFICES ASSUME TypeInv, [Next]_vars PROVE TypeInv'
  OBVIOUS
<1>0. CallsOK /\ ChatOK /\ QueueOK
  BY DEF TypeInv
<1>1. ASSUME NEW m \in Messages, Push(m) PROVE TypeInv'
  BY <1>0, <1>1 DEF Push, TypeInv, CallsOK, ChatOK, QueueOK, queue, history
<1>2. ASSUME NEW m \in Messages, Enqueue(m) PROVE TypeInv'
  <2>1. jobs' \in [JobIds -> Jobs] /\ faults' \in Nat
    BY <1>0, <1>2, AddedOK, FaultOK DEF Enqueue
  <2>2. stage' \in [Messages -> {"new", "pushed", "queued", "reported", "cut"}]
    BY <1>0, <1>2 DEF Enqueue, ChatOK
  <2> QED BY <1>0, <1>2, <2>1, <2>2 DEF Enqueue, TypeInv, CallsOK, ChatOK, QueueOK, chat, history
<1>3. ASSUME NEW h \in Handlers, NEW j \in JobIds, StartJob(h, j) PROVE TypeInv'
  <2>1. jobs' \in [JobIds -> Jobs]
    BY <1>0, <1>3 DEF StartJob, QueueOK, Jobs
  <2>2. CallsOK'
    <3> DEFINE c == [Idle EXCEPT !.pc = "lock", !.job = j]
    <3>1. c \in CallRecords /\ c.round = 0
      BY IdleCallOK DEF CallRecords, Idle, Points
    <3>2. RoundOK(c)
      BY <3>1, Bounds DEF RoundOK
    <3>3. work' = [work EXCEPT ![h] = c]
      BY <1>3 DEF StartJob
    <3> HIDE DEF c
    <3> QED BY <1>0, <3>1, <3>2, <3>3 DEF CallsOK
  <2> QED BY <1>0, <1>3, <2>1, <2>2 DEF StartJob, TypeInv, ChatOK, QueueOK, chat, history
<1>4. CASE Recover
  <2>1. pending' \subseteq Messages /\ open' \subseteq Messages /\ answers' \in [Messages -> Nat]
        /\ lock' \in Handlers \cup {Free, Orphan, Scan}
    BY <1>0, <1>4, AnsweredOK DEF Recover, RecoveryLocks, RecoveryResolves, ChatOK, history
  <2> QED BY <1>0, <1>4, <2>1 DEF Recover, RecoveryLocks, RecoveryResolves, TypeInv, CallsOK, ChatOK, QueueOK, queue, history
<1>5. CASE WindowElapses \/ OrphanExpires
  BY <1>0, <1>5 DEF WindowElapses, OrphanExpires, TypeInv, CallsOK, ChatOK, QueueOK, queue, history
<1>6. CASE Tick
  <2>1. (bucket + 1) % Buckets \in 0 .. Buckets - 1
    BY <1>0, Bounds DEF QueueOK
  <2> QED BY <1>0, <1>6, <2>1 DEF Tick, TypeInv, CallsOK, ChatOK, QueueOK, chat, history
<1>7. CASE LeaseLapses \/ ListExpires
  <2>1. faults' \in Nat /\ mishaps' \subseteq Mishaps
    BY <1>0, <1>7, FaultOK DEF LeaseLapses, ListExpires, Mishap, Mishaps, ChatOK
  <2> QED BY <1>0, <1>7, <2>1 DEF LeaseLapses, ListExpires, TypeInv, CallsOK, ChatOK, QueueOK, queue
<1>8. CASE Crash
  <2>1. jobs' \in [JobIds -> Jobs]
    <3>1. ASSUME NEW j \in JobIds, jobs[j].stalls < MaxStalls
          PROVE  [jobs[j] EXCEPT !.st = "delayed", !.stalls = @ + 1] \in Jobs
      <4>1. PICK x \in Jobs : x = jobs[j]
        BY <1>0 DEF QueueOK
      <4>2. x.stalls + 1 \in 0 .. MaxStalls
        BY <3>1, <4>1, Bounds DEF Jobs
      <4> QED BY <4>1, <4>2, StalledJob
    <3>2. \A j \in JobIds : jobs[j] \in Jobs
      BY <1>0 DEF QueueOK
    <3> QED BY <1>8, <3>1, <3>2, JobsHere DEF Crash
  <2>2. CallsOK'
    BY <1>8, IdleCallOK DEF Crash, CallsOK
  <2>3. stage' \in [Messages -> {"new", "pushed", "queued", "reported", "cut"}]
    BY <1>0, <1>8 DEF Crash, ChatOK
  <2>4. faults' \in Nat /\ mishaps' \subseteq Mishaps /\ lock' \in Handlers \cup {Free, Orphan, Scan}
    BY <1>0, <1>8, FaultOK DEF Crash, Mishaps, ChatOK
  <2> QED BY <1>0, <1>8, <2>1, <2>2, <2>3, <2>4 DEF Crash, TypeInv, ChatOK, QueueOK
<1>9. CASE UNCHANGED vars
  BY <1>0, <1>9 DEF vars, mergeVars, TypeInv, CallsOK, ChatOK, QueueOK, chat, queue, history
<1> QED BY <1>1, <1>2, <1>3, <1>4, <1>5, <1>6, <1>7, <1>8, <1>9, HandleTypes DEF Next

\* MergeTypeOK for any handlers, messages and bounds: no count, round, retry or stall leaves its
\* range, and no call or job is left half written.
THEOREM MergeTypes == Spec => []MergeTypeOK
<1>1. TypeInv => MergeTypeOK
  <2> SUFFICES ASSUME TypeInv, NEW h \in Handlers
               PROVE  /\ work[h].pc \in Points
                      /\ work[h].job \in JobIds \cup {Check(0)}
                      /\ work[h].first \subseteq Messages /\ work[h].batch \subseteq Messages
                      /\ work[h].taken \in 0 .. Arrivals
                      /\ work[h].round \in 0 .. IF work[h].pc \in {"ack", "dropack"} THEN MaxAcks - 1 ELSE MaxReplays
    BY DEF TypeInv, ChatOK, QueueOK, MergeTypeOK
  <2>1. work[h] \in CallRecords /\ RoundOK(work[h])
    BY DEF TypeInv, CallsOK
  <2> QED BY <2>1, Bounds DEF CallRecords, RoundOK
<1> QED BY <1>1, TypesInitially, TypesStep, PTL DEF Spec
=============================================================================
